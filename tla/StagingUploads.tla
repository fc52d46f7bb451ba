---------------------------- MODULE StagingUploads ----------------------------
(***************************************************************************)
(* Uploads into the staging pool (backend/app/services/storage.py,         *)
(* store_upload), from a browser or copied from a USB disk                 *)
(* (api/external_storage.py), with the table that reserves their space.    *)
(*                                                                         *)
(* Uploads share one event loop: a handler runs without interruption from  *)
(* its request to the first chunk, and from one chunk to the next.         *)
(* Cancelling and deleting run in other threads.  What the medium's helper *)
(* adds to this is in StagedMedia.                                         *)
(***************************************************************************)
EXTENDS Integers, FiniteSets

CONSTANTS
    Names,
    Tasks,          \* task ids; one is used again only when its upload has ended
    None,
    Disk,           \* size of the file system
    Capacity,       \* STORAGE_CAPACITY_BYTES
    Reserve,        \* MIN_FREE_BYTES
    Limit,          \* MAX_UPLOAD_BYTES
    MaxRestarts     \* bound: restarts of the API

VARIABLES
    files,          \* name -> size in the pool, 0 when there is none
    fragments,      \* task -> size of its .uploading file
    upload,         \* task -> the handler that runs store_upload() for it
    tasks,          \* UPLOAD_TASKS: the uploads that have not ended
    undeclared,     \* an upload without Content-Length was admitted
    restarts

vars == <<files, fragments, upload, tasks, undeclared, restarts>>

-----------------------------------------------------------------------------
Size == 0 .. Disk
Upload == [name : Names, overwrite : BOOLEAN, declared : Size, available : Size, written : Size]
\* A row stays in the table when its upload has ended; it then only tells how.
Row == [name : Names, status : {"running", "cancelling"}, done : Size, total : Size]

TypeOK ==
    /\ files \in [Names -> Size]
    /\ fragments \in [Tasks -> Size \cup {None}]
    /\ upload \in [Tasks -> Upload \cup {None}]
    /\ tasks \in [Tasks -> Row \cup {None}]
    /\ undeclared \in BOOLEAN /\ restarts \in 0 .. MaxRestarts

Init ==
    /\ files = [n \in Names |-> 0]
    /\ fragments = [t \in Tasks |-> None]
    /\ upload = [t \in Tasks |-> None]
    /\ tasks = [t \in Tasks |-> None]
    /\ undeclared = FALSE /\ restarts = 0

-----------------------------------------------------------------------------
AtLeast(low, n) == IF n < low THEN low ELSE n

\* The sum of some sizes: the units of all of them, counted.
Total(size) ==
    Cardinality({unit \in (DOMAIN size) \X (1 .. Disk) : unit[2] <= size[unit[1]]})

ManagedBytes(S) == Total([n \in S |-> files[n]])

Fragments == [t \in Tasks |-> IF fragments[t] = None THEN 0 ELSE fragments[t]]

FreeBytes == Disk - ManagedBytes(Names) - Total(Fragments)

\* Mutant: a cancelled upload has given its space back.
ActiveRunning(row) == row # None /\ row.status = "running"

Active(row) == row # None /\ row.status \in {"running", "cancelling"}
ActiveTasks == {t \in Tasks : Active(tasks[t])}

QuotaReserved == Total([t \in ActiveTasks |-> tasks[t].total])

\* Mutant: what was received is subtracted twice.
StillDone(row) == AtLeast(0, row.total - 2 * row.done)

Still(row) == AtLeast(0, row.total - row.done)
PhysicalReserved == Total([t \in ActiveTasks |-> Still(tasks[t])])

\* The file that an upload would replace does not count.
Available(n) ==
    LET quota == AtLeast(0, Capacity - ManagedBytes(Names \ {n}) - QuotaReserved)
        room == AtLeast(0, FreeBytes - Reserve - PhysicalReserved)
    IN  IF quota < room THEN quota ELSE room

\* store_upload() up to its first await; a refusal changes nothing.
Begin(t, n, overwrite, declared) ==
    /\ upload[t] = None
    /\ \A other \in ActiveTasks : tasks[other].name # n
    /\ overwrite \/ files[n] = 0
    /\ declared <= Limit /\ declared <= Available(n)
    /\ upload' = [upload EXCEPT ![t] =
                    [name |-> n, overwrite |-> overwrite, declared |-> declared,
                     available |-> Available(n), written |-> 0]]
    /\ tasks' = [tasks EXCEPT ![t] =
                    [name |-> n, status |-> "running", done |-> 0, total |-> declared]]
    /\ fragments' = [fragments EXCEPT ![t] = 0]
    /\ undeclared' = (undeclared \/ declared = 0)
    /\ UNCHANGED <<files, restarts>>

Ends(t) ==
    /\ upload' = [upload EXCEPT ![t] = None]
    /\ tasks' = [tasks EXCEPT ![t] = None]
    /\ fragments' = [fragments EXCEPT ![t] = None]
    /\ UNCHANGED <<undeclared, restarts>>

\* One more unit of the file; a length that was declared is not exceeded.
Chunk(t) ==
    /\ upload[t] # None
    /\ upload[t].declared # 0 => upload[t].written < upload[t].declared
    /\ tasks[t].status # "cancelling"
    /\ LET written == upload[t].written + 1
       IN  /\ written <= Limit /\ written <= upload[t].available /\ FreeBytes > 0
           /\ upload' = [upload EXCEPT ![t].written = written]
           /\ fragments' = [fragments EXCEPT ![t] = written]
           /\ tasks' = [tasks EXCEPT ![t].done = written]
    /\ UNCHANGED <<files, undeclared, restarts>>

\* A chunk of a cancelled upload, one too many or without room; nothing at all; a
\* browser that leaves, a USB disk that ends early or a disk that fails; a file
\* that is on the virtual medium, or a name that was taken.
Fails(t) ==
    /\ upload[t] # None
    /\ Ends(t)
    /\ UNCHANGED files

\* The last chunk was received; a cancellation after it comes too late.
Complete(t) ==
    /\ upload[t] # None /\ upload[t].written > 0
    /\ upload[t].declared # 0 => upload[t].written = upload[t].declared
    /\ upload[t].overwrite \/ files[upload[t].name] = 0
    /\ files' = [files EXCEPT ![upload[t].name] = upload[t].written]
    /\ Ends(t)

Cancel(t) ==
    /\ tasks[t] # None /\ tasks[t].status = "running"
    /\ tasks' = [tasks EXCEPT ![t].status = "cancelling"]
    /\ UNCHANGED <<files, fragments, upload, undeclared, restarts>>

Delete(n) ==
    /\ files[n] # 0
    /\ files' = [files EXCEPT ![n] = 0]
    /\ UNCHANGED <<fragments, upload, tasks, undeclared, restarts>>

\* The table is lost.  cleanup_incomplete_uploads() removes the fragments that it
\* can; all of them stay while the medium is not mounted.
Restart(kept) ==
    /\ restarts < MaxRestarts
    /\ restarts' = restarts + 1
    /\ upload' = [t \in Tasks |-> None]
    /\ tasks' = [t \in Tasks |-> None]
    /\ fragments' = [t \in Tasks |-> IF t \in kept THEN fragments[t] ELSE None]
    /\ UNCHANGED <<files, undeclared>>

Next ==
    \/ \E t \in Tasks, n \in Names, overwrite \in BOOLEAN, declared \in Size :
          Begin(t, n, overwrite, declared)
    \/ \E t \in Tasks : Chunk(t) \/ Fails(t) \/ Complete(t) \/ Cancel(t)
    \/ \E n \in Names : Delete(n)
    \/ \E kept \in SUBSET Tasks : Restart(kept)

Spec == Init /\ [][Next]_vars

-----------------------------------------------------------------------------
(* Properties.                                                             *)

\* Uploads that say how long they are never fill the pool beyond its quota, nor
\* the file system beyond the reserve of the operating system, in whatever order
\* they are admitted, cancelled, completed and replaced.
SpaceIsKept ==
    ~undeclared => ManagedBytes(Names) <= Capacity /\ FreeBytes >= Reserve

\* Two uploads of one name never run at the same time, not even when the first is
\* cancelled and has not noticed it.
OneUploadPerName ==
    \A t, u \in Tasks :
        t # u /\ upload[t] # None /\ upload[u] # None => upload[t].name # upload[u].name

-----------------------------------------------------------------------------
(* Why they hold, as an inductive invariant.                               *)

PoolConstants ==
    /\ IsFiniteSet(Names) /\ IsFiniteSet(Tasks)
    /\ {Disk, Capacity, Reserve, Limit, MaxRestarts} \subseteq Nat /\ Reserve <= Disk
    /\ None \notin Size \cup Upload \cup Row

\* A row, a handler and a fragment that belong together say the same.
RowsOfUploads ==
    \A t \in Tasks :
      /\ tasks[t] = None <=> upload[t] = None
      /\ upload[t] # None =>
           /\ tasks[t].name = upload[t].name /\ tasks[t].total = upload[t].declared
           /\ tasks[t].done = upload[t].written /\ fragments[t] = upload[t].written
           /\ upload[t].declared # 0 => upload[t].written <= upload[t].declared
           /\ upload[t].declared = 0 => undeclared

\* The units of every name that its file has or its upload has declared.
Claims ==
    {unit \in Names \X (1 .. Disk) :
       \/ unit[2] <= files[unit[1]]
       \/ \E t \in Tasks :
             upload[t] # None /\ upload[t].name = unit[1] /\ unit[2] <= upload[t].declared}

QuotaKept == ~undeclared => Cardinality(Claims) <= Capacity

RoomKept ==
    ~undeclared => Total(files) + Total(Fragments) + PhysicalReserved + Reserve <= Disk

IInv == TypeOK /\ RowsOfUploads /\ OneUploadPerName /\ QuotaKept /\ RoomKept
=============================================================================
