----------------------------- MODULE StagedMedia -----------------------------
(***************************************************************************)
(* The files of the staging pool, their publication for recovery and the   *)
(* virtual medium a target boots from: the API's handlers, each in a       *)
(* thread of its own (backend/app/services/storage.py, virtual_media.py,   *)
(* api/recovery.py), and the root helper that drives the USB gadget        *)
(* (scripts/handle-virtual-media-action.sh).  They meet in the directory,  *)
(* in a request file with room for one request, and in a status file.      *)
(*                                                                         *)
(* A file's content is its inode: an upload, once complete, is a new one.  *)
(***************************************************************************)
EXTENDS Naturals, FiniteSets

CONSTANTS
    Names,          \* file names
    Clients,        \* HTTP requests served at the same time
    None,
    MaxUploads      \* bound: uploads completed

VARIABLES
    staged,         \* name -> inode in the pool
    published,      \* name -> inode in the recovery directory
    op,             \* the HTTP operation each client has in progress
    request,        \* virtual-media-action
    status,         \* virtual-media-status
    lun,            \* the file open behind the USB mass storage
    helper,         \* the running helper and what it has read
    interrupted,    \* the last helper was killed
    uploads,        \* inodes created so far
    discarded       \* inodes whose name an operator deleted or replaced

vars == <<staged, published, op, request, status, lun, helper, interrupted,
          uploads, discarded>>
gadget == <<request, status, lun, helper, interrupted>>

-----------------------------------------------------------------------------
Inodes == 1 .. MaxUploads
Name == Names \cup {None}
Kind == {"delete", "upload", "import", "publish", "restore"}
Op == [kind : Kind \cup {None}, phase : {"idle", "checked", "link", "unlink"}, name : Name]
Request == [action : {"attach", "eject", "force_eject"}, name : Name]
HelperState == [phase : {"idle", "name", "remove", "act", "detect", "clear", "load", "report"},
                action : {"attach", "eject", "force_eject"}, name : Name]
Medium == [name : Names, inode : Inodes]

ASSUME MediaBounds == MaxUploads \in Nat
ASSUME NoneIsNothing ==
    /\ None \notin Names /\ None \notin Inodes /\ None \notin Kind
    /\ None \notin Request /\ None \notin Medium

NoOp == [kind |-> None, phase |-> "idle", name |-> None]
HelperIdle == [phase |-> "idle", action |-> "eject", name |-> None]

TypeOK ==
    /\ staged \in [Names -> Inodes \cup {None}]
    /\ published \in [Names -> Inodes \cup {None}]
    /\ op \in [Clients -> Op]
    /\ \A c \in Clients : op[c].kind = None <=> op[c].name = None
    /\ request \in Request \cup {None}
    /\ status \in [state : {"ejected", "attached", "error"}, name : Name]
    /\ lun \in Medium \cup {None}
    /\ helper \in HelperState
    /\ helper.phase \in {"detect", "clear", "load"} => helper.name # None
    /\ interrupted \in BOOLEAN
    /\ uploads \in 0 .. MaxUploads /\ discarded \subseteq Inodes

Init ==
    /\ staged = [n \in Names |-> None] /\ published = [n \in Names |-> None]
    /\ op = [c \in Clients |-> NoOp]
    /\ request = None /\ lun = None
    /\ status = [state |-> "ejected", name |-> None]
    /\ helper = HelperIdle /\ interrupted = FALSE
    /\ uploads = 0 /\ discarded = {}

-----------------------------------------------------------------------------
(* HTTP operations on files.                                               *)

\* _ensure_media_released()
Released(n) == ~(status.state # "ejected" /\ status.name = n)

Begins(c, kind, phase, n) ==
    /\ op[c] = NoOp
    /\ op' = [op EXCEPT ![c] = [kind |-> kind, phase |-> phase, name |-> n]]
    /\ UNCHANGED <<staged, published, gadget, uploads, discarded>>

Ends(c) == op' = [op EXCEPT ![c] = NoOp]
At(c, kind, phase) == op[c].kind = kind /\ op[c].phase = phase

\* delete_staged_file(): the checks, then the unlink.
DeleteChecked(c, n) == staged[n] # None /\ Released(n) /\ Begins(c, "delete", "checked", n)

Delete(c) ==
    LET n == op[c].name
    IN  /\ At(c, "delete", "checked")
        /\ staged' = [staged EXCEPT ![n] = None]
        /\ discarded' = IF staged[n] = None THEN discarded ELSE discarded \cup {staged[n]}
        /\ Ends(c)
        /\ UNCHANGED <<published, gadget, uploads>>

\* store_upload(): by the time the bytes are there the name is checked again,
\* then the fragment takes its place.  One upload per name.
UploadChecked(c, n) ==
    /\ \A d \in Clients : op[d].kind \in {"upload", "import"} => op[d].name # n
    /\ Released(n)
    /\ Begins(c, "upload", "checked", n)

Upload(c) ==
    LET n == op[c].name
    IN  /\ At(c, "upload", "checked") /\ uploads < MaxUploads
        /\ uploads' = uploads + 1
        /\ staged' = [staged EXCEPT ![n] = uploads']
        /\ discarded' = IF staged[n] = None THEN discarded ELSE discarded \cup {staged[n]}
        /\ Ends(c)
        /\ UNCHANGED <<published, gadget>>

\* A copy from USB storage never overwrites: the name must be free at the
\* start, and the final link fails if it is not.
ImportChecked(c, n) ==
    /\ \A d \in Clients : op[d].kind \in {"upload", "import"} => op[d].name # n
    /\ staged[n] = None
    /\ Begins(c, "import", "checked", n)

Import(c) ==
    LET n == op[c].name
    IN  /\ At(c, "import", "checked") /\ uploads < MaxUploads
        /\ staged[n] = None => staged' = [staged EXCEPT ![n] = uploads + 1]
                                 /\ uploads' = uploads + 1
        /\ staged[n] # None => UNCHANGED <<staged, uploads>>
        /\ Ends(c)
        /\ UNCHANGED <<published, gadget, discarded>>

-----------------------------------------------------------------------------
(* Recovery: publish and restore move a file by a link and an unlink, under *)
(* a lock that the operations above do not take.                           *)

MoveLockFree == \A c \in Clients : op[c].kind \notin {"publish", "restore"}

PublishChecked(c, n) ==
    MoveLockFree /\ staged[n] # None /\ Released(n) /\ Begins(c, "publish", "link", n)

RestoreChecked(c, n) ==
    MoveLockFree /\ published[n] # None /\ Begins(c, "restore", "link", n)

\* Mutant: rename instead of link.
TakesName(to, n, inode) == [to EXCEPT ![n] = inode]

\* os.link() leaves an existing target alone.
Linked(to, n, inode) == IF to[n] = None THEN [to EXCEPT ![n] = inode] ELSE to

\* An existing target, or a source that is gone, ends the request.
LinkOutcome(c, from, to) ==
    op' = [op EXCEPT ![c] = IF from[@.name] # None /\ to[@.name] = None
                            THEN [@ EXCEPT !.phase = "unlink"] ELSE NoOp]

PublishLink(c) ==
    LET n == op[c].name
    IN  /\ At(c, "publish", "link")
        /\ published' = IF staged[n] = None THEN published
                        ELSE Linked(published, n, staged[n])
        /\ LinkOutcome(c, staged, published)
        /\ UNCHANGED <<staged, gadget, uploads, discarded>>

PublishUnlink(c) ==
    /\ At(c, "publish", "unlink")
    /\ staged' = [staged EXCEPT ![op[c].name] = None]
    /\ Ends(c)
    /\ UNCHANGED <<published, gadget, uploads, discarded>>

RestoreLink(c) ==
    LET n == op[c].name
    IN  /\ At(c, "restore", "link")
        /\ staged' = IF published[n] = None THEN staged
                     ELSE Linked(staged, n, published[n])
        /\ LinkOutcome(c, published, staged)
        /\ UNCHANGED <<published, gadget, uploads, discarded>>

RestoreUnlink(c) ==
    /\ At(c, "restore", "unlink")
    /\ published' = [published EXCEPT ![op[c].name] = None]
    /\ Ends(c)
    /\ UNCHANGED <<staged, gadget, uploads, discarded>>

ApiKilled ==
    /\ \E c \in Clients : op[c] # NoOp
    /\ op' = [c \in Clients |-> NoOp]
    /\ UNCHANGED <<staged, published, gadget, uploads, discarded>>

-----------------------------------------------------------------------------
(* Requests for the gadget.  A request replaces one that is still waiting; *)
(* refused while the watcher is stopped, which is a request not made.      *)

files == <<staged, published, op, uploads, discarded>>

Ask(r) ==
    /\ request # r
    /\ request' = r
    /\ UNCHANGED <<files, status, lun, helper, interrupted>>

AskAttach(n) == staged[n] # None /\ Ask([action |-> "attach", name |-> n])
AskEject(force) ==
    Ask([action |-> IF force THEN "force_eject" ELSE "eject", name |-> None])

-----------------------------------------------------------------------------
(* The helper: reads two lines, removes the file, acts, writes the status. *)

Advance(phase) == helper' = [helper EXCEPT !.phase = phase]

HelperReadAction ==
    /\ helper.phase = "idle" /\ request # None
    /\ helper' = [HelperIdle EXCEPT !.phase = "name", !.action = request.action]
    /\ UNCHANGED <<files, request, status, lun, interrupted>>

HelperReadName ==
    /\ helper.phase = "name"
    /\ helper' = [helper EXCEPT !.phase = "remove", !.name = request.name]
    /\ UNCHANGED <<files, request, status, lun, interrupted>>

HelperRemove ==
    /\ helper.phase = "remove"
    /\ request' = None
    /\ Advance("act")
    /\ UNCHANGED <<files, status, lun, interrupted>>

\* write_status and the end of the run.
Ended(state, name) ==
    /\ status' = [state |-> state, name |-> name]
    /\ helper' = HelperIdle
    /\ interrupted' = FALSE

\* operation_failed: whatever the gadget has open is named.
Failed == Ended("error", IF lun = None THEN None ELSE lun.name)

\* No name, or no such file.
AttachRefused ==
    /\ helper.phase = "act" /\ helper.action = "attach"
    /\ helper.name # None => staged[helper.name] = None
    /\ Ended("error", helper.name)
    /\ UNCHANGED <<files, request, lun>>

\* Mutant: a request without a name is taken for the directory itself.
AttachNameless ==
    /\ helper.phase = "act" /\ helper.action = "attach"
    /\ helper.name # None => staged[helper.name] # None
    /\ Advance("detect")
    /\ UNCHANGED <<files, request, status, lun, interrupted>>

AttachFound ==
    /\ helper.phase = "act" /\ helper.action = "attach"
    /\ helper.name # None /\ staged[helper.name] # None
    /\ Advance("detect")
    /\ UNCHANGED <<files, request, status, lun, interrupted>>

\* detect-virtual-media-type.py turns the image down.
AttachRejected ==
    /\ helper.phase = "detect"
    /\ Ended("error", helper.name)
    /\ UNCHANGED <<files, request, lun>>

AttachAccepted ==
    /\ helper.phase = "detect"
    /\ Advance("clear")
    /\ UNCHANGED <<files, request, status, lun, interrupted>>

\* Mutant: the medium is dropped from the status only.
ClearKeepsFile ==
    /\ helper.phase = "clear" \/ (helper.phase = "act" /\ helper.action # "attach")
    /\ Advance(IF helper.phase = "clear" THEN "load" ELSE "report")
    /\ UNCHANGED <<files, request, status, lun, interrupted>>

\* Writing an empty name to lun.0/file, or forced_eject.
Clear ==
    /\ helper.phase \in {"clear", "act"}
    /\ helper.phase = "act" => helper.action # "attach"
    /\ lun' = None
    /\ Advance(IF helper.phase = "clear" THEN "load" ELSE "report")
    /\ UNCHANGED <<files, request, status, interrupted>>

\* The target has locked the medium.
ClearBusy ==
    /\ helper.phase \in {"clear", "act"}
    /\ helper.phase = "act" => helper.action = "eject"
    /\ lun # None
    /\ Failed
    /\ UNCHANGED <<files, request, lun>>

Load ==
    /\ helper.phase = "load"
    /\ staged[helper.name] # None
    /\ lun' = [name |-> helper.name, inode |-> staged[helper.name]]
    /\ Advance("report")
    /\ UNCHANGED <<files, request, status, interrupted>>

LoadFails ==
    /\ helper.phase = "load"
    /\ staged[helper.name] = None
    /\ Failed
    /\ UNCHANGED <<files, request, lun>>

ReportDone ==
    /\ helper.phase = "report"
    /\ Ended(IF helper.action = "attach" THEN "attached" ELSE "ejected",
             IF helper.action = "attach" THEN helper.name ELSE None)
    /\ UNCHANGED <<files, request, lun>>

HelperKilled ==
    /\ helper.phase # "idle"
    /\ helper' = HelperIdle /\ interrupted' = TRUE
    /\ UNCHANGED <<files, request, status, lun>>

-----------------------------------------------------------------------------
FileOperation ==
    \/ \E c \in Clients, n \in Names :
         \/ DeleteChecked(c, n) \/ UploadChecked(c, n) \/ ImportChecked(c, n)
         \/ PublishChecked(c, n) \/ RestoreChecked(c, n)
    \/ \E c \in Clients :
         \/ Delete(c) \/ Upload(c) \/ Import(c)
         \/ PublishLink(c) \/ PublishUnlink(c) \/ RestoreLink(c) \/ RestoreUnlink(c)

HelperStep ==
    \/ HelperReadAction \/ HelperReadName \/ HelperRemove
    \/ AttachRefused \/ AttachFound \/ AttachRejected \/ AttachAccepted
    \/ Clear \/ ClearBusy \/ Load \/ LoadFails \/ ReportDone

Next ==
    \/ FileOperation \/ ApiKilled
    \/ \E n \in Names : AskAttach(n)
    \/ \E force \in BOOLEAN : AskEject(force)
    \/ HelperStep \/ HelperKilled

Spec == Init /\ [][Next]_vars

-----------------------------------------------------------------------------
(* Properties.                                                             *)

\* Between runs the status tells the truth about the gadget: "ejected" means no
\* file is open, "attached" names the one that is.  A killed run excepted,
\* until the next one has ended.
StatusTellsTheTruth ==
    helper.phase = "idle" /\ ~interrupted =>
        /\ status.state = "ejected" => lun = None
        /\ status.state = "attached" => lun # None /\ lun.name = status.name

\* Moves and copies never overwrite (docs/recovery-services.md): a published
\* file stays what it is until it is restored, and a staged name changes hands
\* only when an operator replaced or deleted it.
MovesNeverOverwrite ==
    [][\A n \in Names :
         /\ published[n] # None => published'[n] \in {published[n], None}
         /\ staged[n] # None /\ staged'[n] \notin {staged[n], None} =>
              staged[n] \in discarded']_vars

\* docs/virtual-media.md: mounted media cannot be deleted until it is ejected.
MountedMediaStays == lun # None => staged[lun.name] = lun.inode

\* recovery.py: link and unlink are an atomic move.  A completed upload is
\* somewhere unless an operator deleted or replaced it.
MoveLosesNothing ==
    \A i \in 1 .. uploads :
        i \in discarded \/ \E n \in Names : i \in {staged[n], published[n]}

-----------------------------------------------------------------------------
(* The invariant behind StatusTellsTheTruth: what the helper is about to    *)
(* report is what it did to the gadget.                                    *)

OnlyAttachLoads == helper.phase \in {"detect", "clear", "load"} => helper.action = "attach"

ReportIsDue ==
    helper.phase = "report" =>
        /\ helper.action = "attach" => lun # None /\ lun.name = helper.name
        /\ helper.action # "attach" => lun = None

RequestAwaited == helper.phase = "name" => request # None

IInv == TypeOK /\ OnlyAttachLoads /\ ReportIsDue /\ RequestAwaited /\ StatusTellsTheTruth
=============================================================================
