-------------------------- MODULE StagedMediaProofs --------------------------
(***************************************************************************)
(* For any number of files, requests and uploads: moves never overwrite a  *)
(* file, and between runs of the helper the status tells the truth about   *)
(* the gadget.                                                             *)
(*                                                                         *)
(* The helper's phase carries the second argument: the medium it is about  *)
(* to report is the one it left open.                                      *)
(***************************************************************************)
EXTENDS StagedMedia, TLAPS

-----------------------------------------------------------------------------
(* The files and the operations on them.                                   *)

FilesOK ==
    /\ staged \in [Names -> Inodes \cup {None}]
    /\ published \in [Names -> Inodes \cup {None}]
    /\ op \in [Clients -> Op]
    /\ \A c \in Clients : op[c].kind = None <=> op[c].name = None
    /\ uploads \in 0 .. MaxUploads /\ discarded \subseteq Inodes

GadgetOK ==
    /\ request \in Request \cup {None}
    /\ status \in [state : {"ejected", "attached", "error"}, name : Name]
    /\ lun \in Medium \cup {None}
    /\ helper \in HelperState
    /\ helper.phase \in {"detect", "clear", "load"} => helper.name # None
    /\ interrupted \in BOOLEAN

LEMMA TypeIsBoth == TypeOK <=> FilesOK /\ GadgetOK
  BY DEF TypeOK, FilesOK, GadgetOK

\* An operation in progress is about a file.
LEMMA BusyNamed ==
    ASSUME FilesOK, NEW c \in Clients, NEW kind \in Kind, NEW phase, At(c, kind, phase)
    PROVE  op[c].name \in Names /\ op[c] \in Op
  BY NoneIsNothing DEF FilesOK, Op, Name, At

\* Beginning and ending leave the operations typed.
LEMMA OpsTyped ==
    ASSUME FilesOK, NEW c \in Clients, NEW o \in Op, o.kind = None <=> o.name = None,
           op' = [op EXCEPT ![c] = o]
    PROVE  op' \in [Clients -> Op] /\ \A d \in Clients : op'[d].kind = None <=> op'[d].name = None
  BY DEF FilesOK

LEMMA NoOpTyped == NoOp \in Op /\ (NoOp.kind = None <=> NoOp.name = None)
  BY DEF NoOp, Op, Name

LEMMA BeginsTyped ==
    ASSUME FilesOK, NEW c \in Clients, NEW kind \in Kind, NEW phase \in {"checked", "link"},
           NEW n \in Names, Begins(c, kind, phase, n)
    PROVE  FilesOK'
<1> DEFINE o == [kind |-> kind, phase |-> phase, name |-> n]
<1>1. o \in Op /\ o.kind # None /\ o.name # None
  BY NoneIsNothing DEF Op, Name
<1>2. op' = [op EXCEPT ![c] = o] /\ UNCHANGED <<staged, published, uploads, discarded>>
  BY DEF Begins
<1> HIDE DEF o
<1> QED
  BY <1>1, <1>2, OpsTyped DEF FilesOK

\* One name changes in one of the two directories.
LEMMA NameTyped ==
    ASSUME NEW f \in [Names -> Inodes \cup {None}], NEW n \in Names,
           NEW i \in Inodes \cup {None}
    PROVE  /\ [f EXCEPT ![n] = i] \in [Names -> Inodes \cup {None}]
           /\ Linked(f, n, i) \in [Names -> Inodes \cup {None}]
  BY DEF Linked

LEMMA LinkOutcomeTyped ==
    ASSUME FilesOK, NEW c \in Clients, NEW kind \in Kind, NEW phase, At(c, kind, phase),
           NEW from, NEW to, LinkOutcome(c, from, to)
    PROVE  op' \in [Clients -> Op] /\ \A d \in Clients : op'[d].kind = None <=> op'[d].name = None
<1> DEFINE o == IF from[op[c].name] # None /\ to[op[c].name] = None
                THEN [op[c] EXCEPT !.phase = "unlink"] ELSE NoOp
<1>1. o \in Op /\ (o.kind = None <=> o.name = None)
  <2>1. op[c] \in Op /\ (op[c].kind = None <=> op[c].name = None)
    BY DEF FilesOK
  <2>2. [op[c] EXCEPT !.phase = "unlink"] \in Op
        /\ [op[c] EXCEPT !.phase = "unlink"].kind = op[c].kind
        /\ [op[c] EXCEPT !.phase = "unlink"].name = op[c].name
    BY <2>1 DEF Op
  <2> QED
    BY <2>1, <2>2, NoOpTyped
<1>2. op' = [op EXCEPT ![c] = o]
  BY DEF LinkOutcome, FilesOK
<1> HIDE DEF o
<1> QED
  BY <1>1, <1>2, OpsTyped

\* A file that is replaced or deleted was somebody's upload.
LEMMA DiscardedTyped ==
    ASSUME FilesOK, NEW n \in Names
    PROVE  (IF staged[n] = None THEN discarded ELSE discarded \cup {staged[n]}) \subseteq Inodes
  BY DEF FilesOK

LEMMA UploadTyped ==
    ASSUME FilesOK, uploads < MaxUploads
    PROVE  uploads + 1 \in Inodes /\ uploads + 1 \in 0 .. MaxUploads
  BY MediaBounds DEF FilesOK, Inodes

LEMMA FilesNext ==
    ASSUME FilesOK, [Next]_vars
    PROVE  FilesOK'
<1>1. CASE UNCHANGED files
  BY <1>1 DEF files, FilesOK
<1>2. CASE ApiKilled
  <2>1. op' = [c \in Clients |-> NoOp] /\ UNCHANGED <<staged, published, uploads, discarded>>
    BY <1>2 DEF ApiKilled
  <2>2. op' \in [Clients -> Op] /\ \A c \in Clients : op'[c] = NoOp
    BY <2>1, NoOpTyped
  <2> QED
    BY <2>1, <2>2, NoOpTyped DEF FilesOK
<1>3. ASSUME NEW c \in Clients, NEW n \in Names,
             \/ DeleteChecked(c, n) \/ UploadChecked(c, n) \/ ImportChecked(c, n)
             \/ PublishChecked(c, n) \/ RestoreChecked(c, n)
      PROVE  FilesOK'
  BY <1>3, BeginsTyped
     DEF DeleteChecked, UploadChecked, ImportChecked, PublishChecked, RestoreChecked, Kind
<1>4. ASSUME NEW c \in Clients,
             \/ Delete(c) \/ Upload(c) \/ Import(c)
             \/ PublishLink(c) \/ PublishUnlink(c) \/ RestoreLink(c) \/ RestoreUnlink(c)
      PROVE  FilesOK'
  <2> DEFINE n == op[c].name
  <2>1. n \in Names
    BY <1>4, BusyNamed
       DEF Delete, Upload, Import, PublishLink, PublishUnlink, RestoreLink, RestoreUnlink, Kind
  <2>2. ASSUME Ends(c)
        PROVE  op' \in [Clients -> Op]
               /\ \A d \in Clients : op'[d].kind = None <=> op'[d].name = None
    BY <2>2, OpsTyped, NoOpTyped DEF Ends
  <2>3. staged \in [Names -> Inodes \cup {None}] /\ published \in [Names -> Inodes \cup {None}]
        /\ staged[n] \in Inodes \cup {None} /\ published[n] \in Inodes \cup {None}
    BY <2>1 DEF FilesOK
  <2> HIDE DEF n
  <2>4. CASE Delete(c)
    <3>1. /\ staged' = [staged EXCEPT ![n] = None]
          /\ discarded' = IF staged[n] = None THEN discarded ELSE discarded \cup {staged[n]}
          /\ Ends(c) /\ UNCHANGED <<published, uploads>>
      BY <2>4 DEF Delete, n
    <3> QED
      BY <2>1, <2>2, <2>3, <3>1, NameTyped, DiscardedTyped DEF FilesOK
  <2>5. CASE Upload(c)
    <3>1. /\ uploads < MaxUploads /\ uploads' = uploads + 1
          /\ staged' = [staged EXCEPT ![n] = uploads + 1]
          /\ discarded' = IF staged[n] = None THEN discarded ELSE discarded \cup {staged[n]}
          /\ Ends(c) /\ UNCHANGED published
      BY <2>5 DEF Upload, n
    <3> QED
      BY <2>1, <2>2, <2>3, <3>1, NameTyped, DiscardedTyped, UploadTyped DEF FilesOK
  <2>6. CASE Import(c)
    <3>1. /\ uploads < MaxUploads
          /\ \/ staged' = [staged EXCEPT ![n] = uploads + 1] /\ uploads' = uploads + 1
             \/ UNCHANGED <<staged, uploads>>
          /\ Ends(c) /\ UNCHANGED <<published, discarded>>
      BY <2>6 DEF Import, n
    <3> QED
      BY <2>1, <2>2, <2>3, <3>1, NameTyped, UploadTyped DEF FilesOK
  <2>7. CASE PublishLink(c)
    <3>1. /\ published' = published \/ published' = Linked(published, n, staged[n])
          /\ UNCHANGED <<staged, uploads, discarded>>
      BY <2>7 DEF PublishLink, n
    <3>2. op' \in [Clients -> Op] /\ \A d \in Clients : op'[d].kind = None <=> op'[d].name = None
      BY <2>7, LinkOutcomeTyped DEF PublishLink, Kind
    <3> QED
      BY <2>1, <2>3, <3>1, <3>2, NameTyped DEF FilesOK
  <2>8. CASE RestoreLink(c)
    <3>1. /\ staged' = staged \/ staged' = Linked(staged, n, published[n])
          /\ UNCHANGED <<published, uploads, discarded>>
      BY <2>8 DEF RestoreLink, n
    <3>2. op' \in [Clients -> Op] /\ \A d \in Clients : op'[d].kind = None <=> op'[d].name = None
      BY <2>8, LinkOutcomeTyped DEF RestoreLink, Kind
    <3> QED
      BY <2>1, <2>3, <3>1, <3>2, NameTyped DEF FilesOK
  <2>9. CASE PublishUnlink(c)
    <3>1. /\ staged' = [staged EXCEPT ![n] = None] /\ Ends(c)
          /\ UNCHANGED <<published, uploads, discarded>>
      BY <2>9 DEF PublishUnlink, n
    <3> QED
      BY <2>1, <2>2, <2>3, <3>1, NameTyped DEF FilesOK
  <2>10. CASE RestoreUnlink(c)
    <3>1. /\ published' = [published EXCEPT ![n] = None] /\ Ends(c)
          /\ UNCHANGED <<staged, uploads, discarded>>
      BY <2>10 DEF RestoreUnlink, n
    <3> QED
      BY <2>1, <2>2, <2>3, <3>1, NameTyped DEF FilesOK
  <2> QED
    BY <1>4, <2>4, <2>5, <2>6, <2>7, <2>8, <2>9, <2>10
<1> QED
  BY <1>1, <1>2, <1>3, <1>4
     DEF Next, FileOperation, vars, files, AskAttach, AskEject, Ask, HelperStep, HelperKilled,
         HelperReadAction, HelperReadName, HelperRemove, AttachRefused, AttachFound,
         AttachRejected, AttachAccepted, Clear, ClearBusy, Load, LoadFails, ReportDone

-----------------------------------------------------------------------------
(* The gadget and its helper.                                              *)

HelperInv == GadgetOK /\ OnlyAttachLoads /\ ReportIsDue /\ RequestAwaited /\ StatusTellsTheTruth

\* The helper with one field advanced.
LEMMA AdvanceTyped ==
    ASSUME GadgetOK,
           NEW phase \in {"idle", "name", "remove", "act", "detect", "clear", "load", "report"},
           Advance(phase)
    PROVE  /\ helper' \in HelperState /\ helper'.phase = phase
           /\ helper'.action = helper.action /\ helper'.name = helper.name
  BY DEF GadgetOK, Advance, HelperState

LEMMA IdleHelper ==
    HelperIdle \in HelperState /\ HelperIdle.phase = "idle" /\ HelperIdle.name = None
  BY DEF HelperIdle, HelperState, Name

\* A run that ends well or badly: an error claims nothing about the gadget.
LEMMA EndedInv ==
    ASSUME HelperInv, NEW state \in {"ejected", "attached", "error"}, NEW name \in Name,
           Ended(state, name), UNCHANGED <<request, lun>>,
           state = "ejected" => lun = None,
           state = "attached" => lun # None /\ lun.name = name
    PROVE  HelperInv'
<1>1. /\ status' = [state |-> state, name |-> name] /\ helper' = HelperIdle
      /\ interrupted' = FALSE
  BY DEF Ended
<1>2. GadgetOK'
  BY <1>1, IdleHelper DEF HelperInv, GadgetOK
<1>3. status'.state = state /\ status'.name = name
  BY <1>1
<1> QED
  BY <1>1, <1>2, <1>3, IdleHelper
     DEF HelperInv, OnlyAttachLoads, ReportIsDue, RequestAwaited, StatusTellsTheTruth

\* Requests and kills.
LEMMA HelperOutside ==
    ASSUME HelperInv,
           \/ UNCHANGED gadget
           \/ \E n \in Names : AskAttach(n)
           \/ \E force \in BOOLEAN : AskEject(force)
           \/ HelperKilled
    PROVE  HelperInv'
<1>1. CASE UNCHANGED gadget
  BY <1>1 DEF HelperInv, gadget, GadgetOK, OnlyAttachLoads, ReportIsDue, RequestAwaited,
     StatusTellsTheTruth
<1>2. ASSUME NEW r \in Request, Ask(r)
      PROVE  HelperInv'
  <2>1. request' = r /\ request' # None /\ UNCHANGED <<status, lun, helper, interrupted>>
    BY <1>2, NoneIsNothing DEF Ask
  <2> QED
    BY <2>1 DEF HelperInv, GadgetOK, OnlyAttachLoads, ReportIsDue, RequestAwaited,
       StatusTellsTheTruth
<1>3. \A n \in Names : [action |-> "attach", name |-> n] \in Request
  BY DEF Request, Name
<1>4. \A force \in BOOLEAN :
        [action |-> IF force THEN "force_eject" ELSE "eject", name |-> None] \in Request
  BY DEF Request, Name
<1>5. CASE HelperKilled
  <2>1. helper' = HelperIdle /\ interrupted' = TRUE /\ UNCHANGED <<request, status, lun>>
    BY <1>5 DEF HelperKilled
  <2> QED
    BY <2>1, IdleHelper DEF HelperInv, GadgetOK, OnlyAttachLoads, ReportIsDue, RequestAwaited,
       StatusTellsTheTruth
<1> QED
  BY <1>1, <1>2, <1>3, <1>4, <1>5 DEF AskAttach, AskEject

LEMMA HelperReads ==
    ASSUME HelperInv, HelperReadAction \/ HelperReadName \/ HelperRemove
    PROVE  HelperInv'
<1>1. CASE HelperReadAction
  <2>1. request \in Request /\ UNCHANGED <<request, status, lun, interrupted>>
    BY <1>1 DEF HelperReadAction, HelperInv, GadgetOK
  <2>2. helper' = [phase |-> "name", action |-> request.action, name |-> None]
    BY <1>1 DEF HelperReadAction, HelperIdle
  <2>3. helper' \in HelperState /\ helper'.phase = "name"
    BY <2>1, <2>2 DEF HelperState, Request, Name
  <2>4. request # None
    BY <1>1 DEF HelperReadAction
  <2> QED
    BY <2>1, <2>3, <2>4
       DEF HelperInv, GadgetOK, OnlyAttachLoads, ReportIsDue, RequestAwaited, StatusTellsTheTruth
<1>2. CASE HelperReadName
  <2>1. request \in Request /\ UNCHANGED <<request, status, lun, interrupted>>
    BY <1>2 DEF HelperReadName, HelperInv, GadgetOK, RequestAwaited
  <2>2. helper' = [helper EXCEPT !.phase = "remove", !.name = request.name]
    BY <1>2 DEF HelperReadName
  <2>3. helper' \in HelperState /\ helper'.phase = "remove"
    BY <2>1, <2>2 DEF HelperInv, GadgetOK, HelperState, Request
  <2> QED
    BY <2>1, <2>3
       DEF HelperInv, GadgetOK, OnlyAttachLoads, ReportIsDue, RequestAwaited, StatusTellsTheTruth
<1>3. CASE HelperRemove
  <2>1. request' = None /\ UNCHANGED <<status, lun, interrupted>>
    BY <1>3 DEF HelperRemove
  <2>2. helper' \in HelperState /\ helper'.phase = "act"
    BY <1>3, AdvanceTyped DEF HelperRemove, HelperInv
  <2> QED
    BY <2>1, <2>2
       DEF HelperInv, GadgetOK, OnlyAttachLoads, ReportIsDue, RequestAwaited, StatusTellsTheTruth
<1> QED
  BY <1>1, <1>2, <1>3

LEMMA HelperAttaches ==
    ASSUME HelperInv, FilesOK, AttachFound \/ AttachAccepted \/ Load
    PROVE  HelperInv'
<1>1. CASE AttachFound
  <2>1. UNCHANGED <<request, status, lun, interrupted>> /\ helper.action = "attach"
        /\ helper.name # None
    BY <1>1 DEF AttachFound
  <2>2. helper' \in HelperState /\ helper'.phase = "detect" /\ helper'.action = "attach"
        /\ helper'.name # None
    BY <1>1, <2>1, AdvanceTyped DEF AttachFound, HelperInv
  <2> QED
    BY <2>1, <2>2
       DEF HelperInv, GadgetOK, OnlyAttachLoads, ReportIsDue, RequestAwaited, StatusTellsTheTruth
<1>2. CASE AttachAccepted
  <2>1. UNCHANGED <<request, status, lun, interrupted>> /\ helper.action = "attach"
        /\ helper.name # None
    BY <1>2 DEF AttachAccepted, HelperInv, GadgetOK, OnlyAttachLoads
  <2>2. helper' \in HelperState /\ helper'.phase = "clear" /\ helper'.action = "attach"
        /\ helper'.name # None
    BY <1>2, <2>1, AdvanceTyped DEF AttachAccepted, HelperInv
  <2> QED
    BY <2>1, <2>2
       DEF HelperInv, GadgetOK, OnlyAttachLoads, ReportIsDue, RequestAwaited, StatusTellsTheTruth
<1>3. CASE Load
  <2>1. UNCHANGED <<request, status, interrupted>> /\ helper.action = "attach"
        /\ helper.name # None /\ helper.name \in Name
    BY <1>3 DEF Load, HelperInv, GadgetOK, OnlyAttachLoads, HelperState
  <2>2. helper.name \in Names /\ staged[helper.name] \in Inodes
    BY <1>3, <2>1 DEF FilesOK, Load, Name
  <2>3. lun' = [name |-> helper.name, inode |-> staged[helper.name]]
    BY <1>3 DEF Load
  <2>4. lun' \in Medium /\ lun' # None /\ lun'.name = helper.name
    BY <2>2, <2>3, NoneIsNothing DEF Medium
  <2>5. helper' \in HelperState /\ helper'.phase = "report" /\ helper'.action = "attach"
        /\ helper'.name = helper.name
    BY <1>3, <2>1, AdvanceTyped DEF Load, HelperInv
  <2> QED
    BY <2>1, <2>4, <2>5
       DEF HelperInv, GadgetOK, OnlyAttachLoads, ReportIsDue, RequestAwaited, StatusTellsTheTruth
<1> QED
  BY <1>1, <1>2, <1>3

LEMMA HelperClears ==
    ASSUME HelperInv, Clear
    PROVE  HelperInv'
<1>1. /\ UNCHANGED <<request, status, interrupted>> /\ lun' = None
      /\ helper.phase \in {"clear", "act"}
      /\ helper.phase = "act" => helper.action # "attach"
  BY DEF Clear
<1>2. CASE helper.phase = "clear"
  <2>1. helper.action = "attach" /\ helper.name # None
    BY <1>2 DEF HelperInv, GadgetOK, OnlyAttachLoads
  <2>2. helper' \in HelperState /\ helper'.phase = "load" /\ helper'.action = "attach"
        /\ helper'.name # None
    BY <1>2, <2>1, AdvanceTyped DEF Clear, HelperInv
  <2> QED
    BY <1>1, <2>2
       DEF HelperInv, GadgetOK, OnlyAttachLoads, ReportIsDue, RequestAwaited, StatusTellsTheTruth
<1>3. CASE helper.phase = "act"
  <2>1. helper' \in HelperState /\ helper'.phase = "report" /\ helper'.action # "attach"
    BY <1>1, <1>3, AdvanceTyped DEF Clear, HelperInv
  <2> QED
    BY <1>1, <2>1
       DEF HelperInv, GadgetOK, OnlyAttachLoads, ReportIsDue, RequestAwaited, StatusTellsTheTruth
<1> QED
  BY <1>1, <1>2, <1>3

LEMMA HelperEnds ==
    ASSUME HelperInv,
           \/ AttachRefused \/ AttachRejected \/ ClearBusy \/ LoadFails \/ ReportDone
    PROVE  HelperInv'
<1>1. helper.name \in Name /\ None \in Name
  BY DEF HelperInv, GadgetOK, HelperState, Name
<1>2. CASE AttachRefused \/ AttachRejected
  <2>1. Ended("error", helper.name) /\ UNCHANGED <<request, lun>>
    BY <1>2 DEF AttachRefused, AttachRejected
  <2> QED
    BY <1>1, <2>1, EndedInv
<1>3. CASE ClearBusy \/ LoadFails
  <2> DEFINE named == IF lun = None THEN None ELSE lun.name
  <2>1. named \in Name
    BY DEF HelperInv, GadgetOK, Medium, Name
  <2>2. Ended("error", named) /\ UNCHANGED <<request, lun>>
    BY <1>3 DEF ClearBusy, LoadFails, Failed
  <2> HIDE DEF named
  <2> QED
    BY <2>1, <2>2, EndedInv
<1>4. CASE ReportDone
  <2>1. helper.phase = "report" /\ UNCHANGED <<request, lun>>
    BY <1>4 DEF ReportDone
  <2>2. CASE helper.action = "attach"
    <3>1. Ended("attached", helper.name)
      BY <1>4, <2>2 DEF ReportDone
    <3>2. lun # None /\ lun.name = helper.name
      BY <2>1, <2>2 DEF HelperInv, ReportIsDue
    <3> QED
      BY <1>1, <2>1, <3>1, <3>2, EndedInv
  <2>3. CASE helper.action # "attach"
    <3>1. Ended("ejected", None)
      BY <1>4, <2>3 DEF ReportDone
    <3>2. lun = None
      BY <2>1, <2>3 DEF HelperInv, ReportIsDue
    <3> QED
      BY <1>1, <2>1, <3>1, <3>2, EndedInv
  <2> QED
    BY <2>2, <2>3
<1> QED
  BY <1>2, <1>3, <1>4

-----------------------------------------------------------------------------
(* The theorems.                                                           *)

LEMMA MediaInit == Init => IInv
<1> SUFFICES ASSUME Init PROVE IInv
  OBVIOUS
<1>1. FilesOK
  BY NoOpTyped, MediaBounds DEF Init, FilesOK, Inodes
<1>2. GadgetOK
  BY IdleHelper DEF Init, GadgetOK, Name
<1>3. helper.phase = "idle" /\ status.state = "ejected" /\ lun = None
  BY IdleHelper DEF Init
<1> QED
  BY <1>1, <1>2, <1>3, TypeIsBoth
     DEF IInv, OnlyAttachLoads, ReportIsDue, RequestAwaited, StatusTellsTheTruth

LEMMA MediaNext == IInv /\ [Next]_vars => IInv'
<1> SUFFICES ASSUME IInv, [Next]_vars PROVE IInv'
  OBVIOUS
<1>1. FilesOK /\ HelperInv
  BY TypeIsBoth DEF IInv, HelperInv
<1>2. FilesOK'
  BY <1>1, FilesNext
<1>3. HelperInv'
  <2>1. CASE FileOperation \/ ApiKilled \/ UNCHANGED vars
    <3>1. UNCHANGED gadget
      BY <2>1 DEF FileOperation, ApiKilled, vars, gadget, DeleteChecked, UploadChecked,
         ImportChecked, PublishChecked, RestoreChecked, Begins, Delete, Upload, Import,
         PublishLink, PublishUnlink, RestoreLink, RestoreUnlink
    <3> QED
      BY <1>1, <3>1, HelperOutside
  <2>2. CASE HelperStep
    BY <1>1, <2>2, HelperReads, HelperAttaches, HelperClears, HelperEnds DEF HelperStep
  <2> QED
    BY <1>1, <2>1, <2>2, HelperOutside DEF Next
<1>4. TypeOK'
  BY <1>2, <1>3 DEF TypeOK, FilesOK, HelperInv, GadgetOK
<1> QED
  BY <1>3, <1>4 DEF IInv, HelperInv

\* The files, the requests and the gadget keep their types (services/storage.py,
\* handle-virtual-media-action.sh).
THEOREM MediaTypes == Spec => []TypeOK
<1>1. IInv => TypeOK
  BY DEF IInv
<1> QED
  BY MediaInit, MediaNext, <1>1, PTL DEF Spec

\* Between runs of the helper the status tells the truth about the gadget, however
\* requests replace each other and operations interleave (handle-virtual-media-action.sh).
THEOREM StatusIsTrue == Spec => []StatusTellsTheTruth
<1>1. IInv => StatusTellsTheTruth
  BY DEF IInv
<1> QED
  BY MediaInit, MediaNext, <1>1, PTL DEF Spec

\* A published file stays what it is until it is restored, and a staged name changes hands
\* only when an operator replaced or deleted what it named (api/recovery.py os.link()).
THEOREM MovesKeepFiles == Spec => MovesNeverOverwrite
<1> DEFINE Kept ==
      \A n \in Names :
        /\ published[n] # None => published'[n] \in {published[n], None}
        /\ staged[n] # None /\ staged'[n] \notin {staged[n], None} => staged[n] \in discarded'
<1>1. ASSUME TypeOK, [Next]_vars
      PROVE  Kept
  <2> USE DEF Kept
  <2>1. staged \in [Names -> Inodes \cup {None}] /\ published \in [Names -> Inodes \cup {None}]
    BY <1>1 DEF TypeOK
  <2>2. CASE UNCHANGED <<staged, published>>
    BY <2>2
  <2>3. ASSUME NEW c \in Clients, Delete(c) \/ PublishUnlink(c)
        PROVE  Kept
    BY <2>1, <2>3 DEF Delete, PublishUnlink
  <2>4. ASSUME NEW c \in Clients, Upload(c) \/ Import(c)
        PROVE  Kept
    BY <2>1, <2>4 DEF Upload, Import
  <2>5. ASSUME NEW c \in Clients, PublishLink(c) \/ RestoreLink(c)
        PROVE  Kept
    BY <2>1, <2>5 DEF PublishLink, RestoreLink, Linked
  <2>6. ASSUME NEW c \in Clients, RestoreUnlink(c)
        PROVE  Kept
    BY <2>1, <2>6 DEF RestoreUnlink
  <2> HIDE DEF Kept
  <2> QED
    BY <1>1, <2>2, <2>3, <2>4, <2>5, <2>6
       DEF Next, FileOperation, ApiKilled, vars, files, DeleteChecked, UploadChecked,
           ImportChecked, PublishChecked, RestoreChecked, Begins, AskAttach, AskEject, Ask,
           HelperStep, HelperKilled, HelperReadAction, HelperReadName, HelperRemove,
           AttachRefused, AttachFound, AttachRejected, AttachAccepted, Clear, ClearBusy, Load,
           LoadFails, ReportDone
<1>2. TypeOK /\ [Next]_vars =>
        [\A n \in Names :
           /\ published[n] # None => published'[n] \in {published[n], None}
           /\ staged[n] # None /\ staged'[n] \notin {staged[n], None} =>
                staged[n] \in discarded']_vars
  BY <1>1 DEF Kept
<1> QED
  BY MediaTypes, <1>2, PTL DEF Spec, MovesNeverOverwrite
=============================================================================
