------------------------------ MODULE HostProofs ------------------------------
(***************************************************************************)
(* The host helpers and the front panel, for any number of requests,       *)
(* interfaces, networks, keys, kills, reboots and restarts.                *)
(*                                                                         *)
(* Service actions: a task waits in the temporary file or in the request   *)
(* file, never in both, and comes back to neither once the helper removed  *)
(* it; a success was earned at each place it passes on its way to the task *)
(* table.                                                                  *)
(*                                                                         *)
(* The wired interfaces: what the helper has read is the request that is   *)
(* there, or the owner of a part of it lost its request; while settings    *)
(* are applied, none are shown as applied.                                 *)
(*                                                                         *)
(* Customer access: what a helper has done up to its phase, and that what  *)
(* it leaves is the saved policy or is in doubt.                           *)
(*                                                                         *)
(* The access point: what a helper has touched, remembers and will answer, *)
(* in each phase of an attempt, its fallback and its restoration.          *)
(*                                                                         *)
(* The panel: the action the worker has is the one the menu waits for, and *)
(* a success is told by whoever did it.                                    *)
(***************************************************************************)
EXTENDS MCHost, SequenceTheorems, TLAPS

-----------------------------------------------------------------------------
(* SERVICE ACTIONS: THE MAILBOX.                                           *)

\* What is claimed of the mailbox, without what was read from it.
Parts == MailboxOK /\ QueuedFirst /\ InOnePlace /\ RunOnce

\* The mailbox and what became of its requests.
mail == <<asked, queue, pending, request, helper, did, runs>>

-----------------------------------------------------------------------------
(* Requests: they are queued, written, moved, and forgotten by a restart.  *)

\* A step that does not touch the mailbox.
LEMMA PartsIdle == Parts /\ UNCHANGED mail => Parts'
  BY DEF Parts, mail, MailboxOK, QueuedFirst, InOnePlace, RunOnce, Waiting, Taken

\* QueueStart confirms what was not asked before.
LEMMA PartsQueued ==
    ASSUME Parts, NEW t \in Tasks, NEW job \in Job, QueueStart(t, job)
    PROVE  Parts'
<1>1. /\ queue[t] = "new" /\ asked' = [asked EXCEPT ![t] = job]
      /\ queue' = [queue EXCEPT ![t] = "started"]
      /\ UNCHANGED <<pending, request, helper, did, runs>>
  BY DEF QueueStart, host
<1>2. MailboxOK'
  BY <1>1 DEF Parts, MailboxOK
<1>3. QueuedFirst'
  BY <1>1, NoneIsNothing DEF Parts, MailboxOK, QueuedFirst, Waiting, Taken
<1>4. InOnePlace' /\ RunOnce'
  BY <1>1 DEF Parts, MailboxOK, InOnePlace, RunOnce, Waiting, Taken
<1> QED
  BY <1>2, <1>3, <1>4 DEF Parts

\* QueueWrite fills the temporary file for a task that was never in it.
LEMMA PartsWritten ==
    ASSUME Parts, NEW t \in Tasks, QueueWrite(t)
    PROVE  Parts'
<1>1. /\ queue[t] = "started" /\ pending' = t
      /\ queue' = [queue EXCEPT ![t] = "written"]
      /\ UNCHANGED <<asked, request, helper, did, runs>>
  BY DEF QueueWrite, host
<1>2. t \notin Waiting \cup Taken /\ runs[t] = 0 /\ t # None
  BY <1>1, NoneIsNothing DEF Parts, QueuedFirst, RunOnce
<1>3. MailboxOK'
  BY <1>1 DEF Parts, MailboxOK
<1>4. QueuedFirst'
  BY <1>1 DEF Parts, MailboxOK, QueuedFirst, Waiting, Taken
<1>5. InOnePlace'
  BY <1>1, <1>2 DEF Parts, InOnePlace, Waiting, Taken
<1>6. RunOnce'
  BY <1>1, <1>2 DEF Parts, MailboxOK, RunOnce, Waiting, Taken
<1> QED
  BY <1>3, <1>4, <1>5, <1>6 DEF Parts

\* QueueReplace moves what the temporary file holds.
LEMMA PartsReplaced ==
    ASSUME Parts, NEW t \in Tasks, QueueReplace(t)
    PROVE  Parts'
<1>1. /\ queue[t] = "written" /\ queue' = [queue EXCEPT ![t] = "over"]
      /\ pending' = None
      /\ request' = IF pending # None THEN pending ELSE request
      /\ UNCHANGED <<asked, helper, did, runs>>
  BY DEF QueueReplace, host
<1>2. MailboxOK'
  BY <1>1 DEF Parts, MailboxOK
<1>3. QueuedFirst'
  BY <1>1 DEF Parts, MailboxOK, QueuedFirst, Waiting, Taken
<1>4. InOnePlace'
  BY <1>1 DEF Parts, InOnePlace, Taken
<1>5. RunOnce'
  BY <1>1 DEF Parts, MailboxOK, RunOnce, Waiting, Taken
<1> QED
  BY <1>2, <1>3, <1>4, <1>5 DEF Parts

\* ApiRestart ends every request that was under way.
LEMMA PartsRestarted == ASSUME Parts, ApiRestart PROVE Parts'
<1>1. /\ queue' = [t \in Tasks |-> IF queue[t] = "new" THEN "new" ELSE "over"]
      /\ UNCHANGED <<asked, pending, request, helper, did, runs>>
  BY DEF ApiRestart, host
<1>2. MailboxOK'
  BY <1>1 DEF Parts, MailboxOK
<1>3. QueuedFirst'
  BY <1>1 DEF Parts, MailboxOK, QueuedFirst, Waiting, Taken
<1>4. InOnePlace' /\ RunOnce'
  BY <1>1 DEF Parts, MailboxOK, InOnePlace, RunOnce, Waiting, Taken
<1> QED
  BY <1>2, <1>3, <1>4 DEF Parts

-----------------------------------------------------------------------------
(* The helper.                                                             *)

\* Starting, and reading the second and the third line.
LEMMA PartsRead ==
    ASSUME Parts, HelperStart \/ HelperReadAction \/ HelperReadTask
    PROVE  Parts'
<1>1. UNCHANGED <<asked, queue, pending, request, did, runs>>
  BY DEF HelperStart, HelperReadAction, HelperReadTask, api
<1>2. request \in Tasks /\ asked[request] \in Job /\ runs[request] = 0
      /\ request # None /\ request # pending
      /\ queue[request] \notin {"new", "started"}
  BY NoneIsNothing
     DEF HelperStart, HelperReadAction, HelperReadTask, Parts, MailboxOK, QueuedFirst,
         InOnePlace, RunOnce, Waiting
<1>3. asked[request].service \in Services /\ asked[request].action \in Actions
  BY <1>2 DEF Job
<1>4. CASE HelperStart
  <2>1. helper' = [phase |-> "action", service |-> asked[request].service, action |-> None,
                   task |-> None]
    BY <1>4 DEF HelperStart, HelperIdle
  <2>2. helper' \in HelperState /\ helper'.phase = "action" /\ helper'.service # None
    BY <1>3, <2>1, NoneIsNothing DEF HelperState
  <2> QED
    BY <1>1, <1>2, <2>2
       DEF Parts, MailboxOK, QueuedFirst, InOnePlace, RunOnce, Waiting, Taken
<1>5. CASE HelperReadAction
  <2>1. /\ helper' = [helper EXCEPT !.phase = "task", !.action = asked[request].action]
        /\ helper.phase = "action"
    BY <1>5 DEF HelperReadAction
  <2>2. helper' \in HelperState /\ helper'.phase = "task" /\ helper'.service = helper.service
        /\ helper'.action # None
    BY <1>3, <2>1, NoneIsNothing DEF Parts, MailboxOK, HelperState
  <2> QED
    BY <1>1, <1>2, <2>1, <2>2
       DEF Parts, MailboxOK, QueuedFirst, InOnePlace, RunOnce, Waiting, Taken
<1>6. CASE HelperReadTask
  <2>1. helper' = [helper EXCEPT !.phase = "remove", !.task = request] /\ helper.phase = "task"
    BY <1>6 DEF HelperReadTask
  <2>2. /\ helper' \in HelperState /\ helper'.phase = "remove"
        /\ helper'.service = helper.service /\ helper'.action = helper.action
        /\ helper'.task = request
    BY <1>2, <2>1 DEF Parts, MailboxOK, HelperState
  <2>3. MailboxOK'
    BY <1>1, <1>2, <2>1, <2>2 DEF Parts, MailboxOK
  <2>4. QueuedFirst' /\ InOnePlace' /\ RunOnce'
    BY <1>1, <1>2, <2>1, <2>2
       DEF Parts, MailboxOK, QueuedFirst, InOnePlace, RunOnce, Waiting, Taken
  <2> QED
    BY <2>3, <2>4 DEF Parts
<1> QED
  BY <1>4, <1>5, <1>6

\* The request file is removed before anything is carried out.
LEMMA PartsRemoved == ASSUME Parts, HelperRemove PROVE Parts'
<1>1. /\ helper.phase = "remove" /\ request' = None
      /\ helper' = [helper EXCEPT !.phase = "execute"]
      /\ UNCHANGED <<asked, queue, pending, did, runs>>
  BY DEF HelperRemove, api
<1>2. /\ helper' \in HelperState /\ helper'.phase = "execute"
      /\ helper'.service = helper.service /\ helper'.action = helper.action
      /\ helper'.task = helper.task
  BY <1>1 DEF Parts, MailboxOK, HelperState
<1>3. MailboxOK'
  BY <1>1, <1>2 DEF Parts, MailboxOK
<1>4. QueuedFirst' /\ InOnePlace' /\ RunOnce'
  BY <1>1, <1>2 DEF Parts, MailboxOK, QueuedFirst, InOnePlace, RunOnce, Waiting, Taken
<1> QED
  BY <1>3, <1>4 DEF Parts

\* The one step that carries a task out.
LEMMA PartsExecuted == ASSUME Parts, NEW ok \in BOOLEAN, HelperExecute(ok) PROVE Parts'
<1> DEFINE carried == [service |-> helper.service, action |-> helper.action, ok |-> ok]
<1>1. /\ helper.phase = "execute"
      /\ did' = [did EXCEPT ![helper.task] = carried]
      /\ runs' = [runs EXCEPT ![helper.task] = @ + 1]
      /\ helper' = [helper EXCEPT !.phase = "report"]
      /\ UNCHANGED <<asked, queue, pending, request>>
  BY DEF HelperExecute, api
<1>2. /\ helper.task \in Tasks /\ helper.service \in Services /\ helper.action \in Actions
      /\ runs[helper.task] = 0
  BY <1>1 DEF Parts, MailboxOK, HelperState, RunOnce, Taken
<1>3. carried \in Done /\ carried # None
  BY <1>2, NoneIsNothing DEF Done
<1>4. /\ helper' \in HelperState /\ helper'.phase = "report"
      /\ helper'.service = helper.service /\ helper'.action = helper.action
      /\ helper'.task = helper.task
  BY <1>1 DEF Parts, MailboxOK, HelperState
<1>5. \A t \in Tasks :
        /\ t # helper.task => runs'[t] = runs[t] /\ did'[t] = did[t]
        /\ t = helper.task => runs'[t] = 1 /\ did'[t] = carried
  BY <1>1, <1>2 DEF Parts, MailboxOK
<1> HIDE DEF carried
<1>6. did' \in [Tasks -> Done \cup {None}] /\ runs' \in [Tasks -> Nat]
  BY <1>1, <1>2, <1>3 DEF Parts, MailboxOK
<1>7. MailboxOK'
  BY <1>1, <1>4, <1>6 DEF Parts, MailboxOK
<1>8. QueuedFirst' /\ InOnePlace'
  BY <1>1, <1>4 DEF Parts, QueuedFirst, InOnePlace, Waiting, Taken
<1>9. helper.task \notin Waiting /\ queue[helper.task] \notin {"new", "started"}
  BY <1>1, <1>2 DEF Parts, MailboxOK, QueuedFirst, InOnePlace, Waiting, Taken
<1>10. RunOnce'
  BY <1>1, <1>3, <1>4, <1>5, <1>9 DEF Parts, RunOnce, Waiting, Taken
<1> QED
  BY <1>7, <1>8, <1>10 DEF Parts

\* The helper ends, or is killed.
LEMMA PartsEnded ==
    ASSUME Parts, HelperReport \/ HelperKilled
    PROVE  Parts'
<1>1. helper' = HelperIdle /\ UNCHANGED <<asked, queue, pending, request, did, runs>>
  BY DEF HelperReport, HelperKilled, api
<1>2. HelperIdle \in HelperState /\ HelperIdle.phase = "idle"
  BY DEF HelperIdle, HelperState
<1> QED
  BY <1>1, <1>2 DEF Parts, MailboxOK, QueuedFirst, InOnePlace, RunOnce, Waiting, Taken

\* Nothing else touches the mailbox.
LEMMA Elsewhere ==
    ASSUME [Next]_vars
    PROVE  \/ \E t \in Tasks, job \in Job : QueueStart(t, job)
           \/ \E t \in Tasks : QueueWrite(t) \/ QueueReplace(t)
           \/ HelperStart \/ HelperReadAction \/ HelperReadTask \/ HelperRemove
           \/ \E ok \in BOOLEAN : HelperExecute(ok)
           \/ HelperReport \/ HelperKilled \/ ApiRestart
           \/ UNCHANGED mail
  BY DEF Next, QueueStep, HelperStep, PollStep, PollRead, PollFinish, PollRecover,
         PollConclude, PollUnlink, ClearCompleted, vars, mail, host

\* Every step keeps it.
LEMMA PartsNext == Parts /\ [Next]_vars => Parts'
  BY Elsewhere, PartsIdle, PartsQueued, PartsWritten, PartsReplaced, PartsRestarted,
     PartsRead, PartsRemoved, PartsExecuted, PartsEnded

\* At first nothing was asked.
LEMMA PartsInit == Init => Parts
<1> SUFFICES ASSUME Init PROVE Parts
  OBVIOUS
<1>1. HelperIdle \in HelperState /\ HelperIdle.phase = "idle" /\ helper = HelperIdle
  BY DEF Init, HelperIdle, HelperState
<1>2. MailboxOK
  BY <1>1 DEF Init, MailboxOK
<1> QED
  BY <1>1, <1>2 DEF Init, Parts, QueuedFirst, InOnePlace, RunOnce, Waiting, Taken

-----------------------------------------------------------------------------
(* What is lost stays lost, and what the helper has read has an owner.     *)

\* A lost request is neither asked again nor found again.
LEMMA LostStays ==
    ASSUME Parts, [Next]_vars, NEW u \in Tasks, Lost(u)
    PROVE  Lost(u)' /\ asked'[u] = asked[u]
<1>1. queue[u] \in {"written", "over"} /\ u # None
  BY NoneIsNothing DEF Lost, Parts, MailboxOK, QueuedFirst
<1>2. CASE UNCHANGED mail
  BY <1>2 DEF mail, Lost
<1>3. ASSUME NEW t \in Tasks, NEW job \in Job, QueueStart(t, job)
      PROVE  Lost(u)' /\ asked'[u] = asked[u]
  BY <1>1, <1>3 DEF QueueStart, host, Lost, Parts, MailboxOK
<1>4. ASSUME NEW t \in Tasks, QueueWrite(t) \/ QueueReplace(t)
      PROVE  Lost(u)' /\ asked'[u] = asked[u]
  BY <1>1, <1>4 DEF QueueWrite, QueueReplace, host, Lost, Parts, MailboxOK
<1>5. CASE HelperStart \/ HelperReadAction \/ HelperReadTask \/ HelperRemove
  <2>1. /\ UNCHANGED <<asked, queue, pending, did>> /\ request' \in {request, None}
        /\ helper'.phase \in {"remove", "execute"} =>
             \/ helper'.task = request
             \/ helper.phase = "remove" /\ helper'.task = helper.task
    BY <1>5 DEF HelperStart, HelperReadAction, HelperReadTask, HelperRemove, HelperIdle, api,
                Parts, MailboxOK, HelperState
  <2> QED
    BY <1>1, <2>1 DEF Lost
<1>6. ASSUME NEW ok \in BOOLEAN, HelperExecute(ok)
      PROVE  Lost(u)' /\ asked'[u] = asked[u]
  <2>1. /\ UNCHANGED <<asked, queue, pending, request>> /\ helper'.phase = "report"
        /\ u # helper.task => did'[u] = did[u]
        /\ u # helper.task
    BY <1>6 DEF HelperExecute, api, Lost, Parts, MailboxOK, HelperState
  <2> QED
    BY <2>1 DEF Lost
<1>7. CASE HelperReport \/ HelperKilled
  BY <1>7 DEF HelperReport, HelperKilled, HelperIdle, api, Lost
<1>8. CASE ApiRestart
  BY <1>1, <1>8 DEF ApiRestart, host, Lost, Parts, MailboxOK
<1> QED
  BY <1>2, <1>3, <1>4, <1>5, <1>6, <1>7, <1>8, Elsewhere

\* The request the helper is reading is replaced: it is lost.
LEMMA ReplacedIsLost ==
    ASSUME Parts, NEW t \in Tasks, QueueReplace(t), pending # None,
           helper.phase \in {"action", "task"},
           NEW u \in Tasks, u = request
    PROVE  Lost(u)'
BY NoneIsNothing
   DEF QueueReplace, host, Parts, MailboxOK, QueuedFirst, InOnePlace, RunOnce, Waiting, Lost

\* What the helper has read so far was asked for by the request that is there,
\* or by one that is lost.
LEMMA ReadNext == Parts /\ ReadFromRequest /\ [Next]_vars => ReadFromRequest'
<1> SUFFICES ASSUME Parts, ReadFromRequest, [Next]_vars PROVE ReadFromRequest'
  OBVIOUS
<1>1. LostWith(helper.service)
        => \E u \in Tasks : Lost(u)' /\ asked'[u].service = helper.service
  BY LostStays DEF LostWith
<1>2. ASSUME UNCHANGED <<request, helper>>,
             \A t \in Tasks : asked'[t] = asked[t] \/ queue[t] = "new"
      PROVE  ReadFromRequest'
  <2>1. /\ helper.phase \in {"action", "task"} => asked'[request] = asked[request]
        /\ helper.phase \in {"remove", "execute"} => asked'[helper.task] = asked[helper.task]
    BY <1>2 DEF Parts, MailboxOK, QueuedFirst, Waiting, Taken, HelperState
  <2> QED
    BY <1>1, <1>2, <2>1 DEF ReadFromRequest, LostWith
<1>3. CASE UNCHANGED mail
  BY <1>2, <1>3 DEF mail
<1>4. ASSUME NEW t \in Tasks, NEW job \in Job, QueueStart(t, job)
      PROVE  ReadFromRequest'
  BY <1>2, <1>4 DEF QueueStart, host, Parts, MailboxOK
<1>5. ASSUME NEW t \in Tasks, QueueWrite(t)
      PROVE  ReadFromRequest'
  BY <1>2, <1>5 DEF QueueWrite, host
<1>6. ASSUME NEW t \in Tasks, QueueReplace(t)
      PROVE  ReadFromRequest'
  <2>1. asked' = asked /\ helper' = helper
    BY <1>6 DEF QueueReplace, host
  <2>2. CASE pending = None
    BY <1>2, <1>6, <2>2 DEF QueueReplace, host
  <2>3. CASE helper.phase \notin {"action", "task"}
    BY <1>1, <2>1, <2>3 DEF ReadFromRequest, LostWith
  <2>4. CASE pending # None /\ helper.phase \in {"action", "task"}
    <3>1. PICK u \in Tasks : u = request
      BY <2>4 DEF Parts, MailboxOK
    <3>2. asked[request].service = helper.service \/ LostWith(helper.service)
      BY <2>4 DEF ReadFromRequest
    <3>3. Lost(u)'
      BY <1>6, <2>4, <3>1, ReplacedIsLost
    <3> QED
      BY <1>1, <2>1, <2>4, <3>1, <3>2, <3>3 DEF ReadFromRequest, LostWith
  <2> QED
    BY <2>2, <2>3, <2>4
<1>7. CASE HelperStart
  <2>1. /\ request' = request /\ asked' = asked
        /\ helper'.phase = "action" /\ helper'.service = asked[request].service
    BY <1>7 DEF HelperStart, HelperIdle, api
  <2> QED
    BY <2>1 DEF ReadFromRequest
<1>8. CASE HelperReadAction
  <2>1. /\ request' = request /\ asked' = asked /\ helper.phase = "action"
        /\ helper'.phase = "task" /\ helper'.service = helper.service
        /\ helper'.action = asked[request].action
    BY <1>8 DEF HelperReadAction, api, Parts, MailboxOK, HelperState
  <2>2. asked[request] = [service |-> asked[request].service,
                          action |-> asked[request].action]
    BY <2>1, NoneIsNothing DEF Parts, MailboxOK, QueuedFirst, Waiting, RunOnce, Job
  <2>3. asked[request].service = helper.service \/ LostWith(helper.service)
    BY <2>1 DEF ReadFromRequest
  <2> QED
    BY <1>1, <2>1, <2>2, <2>3 DEF ReadFromRequest, LostWith
<1>9. CASE HelperReadTask \/ HelperRemove
  <2>1. /\ asked' = asked /\ helper'.phase \in {"remove", "execute"}
        /\ helper'.service = helper.service /\ helper'.action = helper.action
        /\ \/ helper.phase = "task" /\ helper'.task = request
           \/ helper.phase = "remove" /\ helper'.task = helper.task
    BY <1>9 DEF HelperReadTask, HelperRemove, api, Parts, MailboxOK, HelperState
  <2> QED
    BY <1>1, <2>1 DEF ReadFromRequest, LostWith
<1>10. ASSUME NEW ok \in BOOLEAN, HelperExecute(ok)
       PROVE  ReadFromRequest'
  <2>1. helper'.phase = "report"
    BY <1>10 DEF HelperExecute, Parts, MailboxOK, HelperState
  <2> QED
    BY <2>1 DEF ReadFromRequest
<1>11. CASE HelperReport \/ HelperKilled
  BY <1>11 DEF HelperReport, HelperKilled, HelperIdle, ReadFromRequest
<1>12. CASE ApiRestart
  BY <1>2, <1>12 DEF ApiRestart, host
<1> QED
  BY <1>3, <1>4, <1>5, <1>6, <1>7, <1>8, <1>9, <1>10, <1>11, <1>12, Elsewhere

-----------------------------------------------------------------------------
(* The invariant, and what it is for.                                      *)

\* What a mixture cost stays lost.
LEMMA MixedNext ==
    Parts /\ ReadFromRequest /\ MixedRequestIsLost /\ [Next]_vars => MixedRequestIsLost'
<1> SUFFICES ASSUME Parts, ReadFromRequest, MixedRequestIsLost, [Next]_vars,
                    NEW t \in Tasks, did'[t] # None,
                    asked'[t] # [service |-> did'[t].service, action |-> did'[t].action]
             PROVE  \E u \in Tasks : Lost(u)' /\ asked'[u].service = did'[t].service
  BY DEF MixedRequestIsLost
<1>1. \A service : LostWith(service)
                     => \E u \in Tasks : Lost(u)' /\ asked'[u].service = service
  BY LostStays DEF LostWith
<1>2. CASE did[t] # None /\ did'[t] = did[t] /\ asked'[t] = asked[t]
  BY <1>1, <1>2 DEF MixedRequestIsLost, LostWith
<1>3. ASSUME NEW s \in Tasks, NEW job \in Job, QueueStart(s, job)
      PROVE  did[t] # None /\ did'[t] = did[t] /\ asked'[t] = asked[t]
  BY <1>3 DEF QueueStart, host, Parts, MailboxOK, QueuedFirst, RunOnce
<1>4. ASSUME NEW ok \in BOOLEAN, HelperExecute(ok), t = helper.task
      PROVE  \E u \in Tasks : Lost(u)' /\ asked'[u].service = did'[t].service
  <2>1. /\ helper.phase = "execute" /\ asked' = asked
        /\ did'[t].service = helper.service /\ did'[t].action = helper.action
    BY <1>4 DEF HelperExecute, api, Parts, MailboxOK
  <2> QED
    BY <1>1, <1>4, <2>1 DEF ReadFromRequest
<1>5. ASSUME NEW ok \in BOOLEAN, HelperExecute(ok), t # helper.task
      PROVE  did[t] # None /\ did'[t] = did[t] /\ asked'[t] = asked[t]
  BY <1>5 DEF HelperExecute, api, Parts, MailboxOK
<1>6. \/ \E s \in Tasks, job \in Job : QueueStart(s, job)
      \/ \E ok \in BOOLEAN : HelperExecute(ok)
      \/ did' = did /\ asked' = asked
  BY Elsewhere
     DEF QueueWrite, QueueReplace, HelperStart, HelperReadAction, HelperReadTask, HelperRemove,
         HelperReport, HelperKilled, ApiRestart, api, host, mail
<1> QED
  BY <1>2, <1>3, <1>4, <1>5, <1>6

-----------------------------------------------------------------------------
(* The task table.                                                         *)

\* A table as it should be.
Rows(s) ==
    /\ s \in Seq(Row) /\ Len(s) <= MaxTasks
    /\ \A m, n \in DOMAIN s : s[m].id = s[n].id => m = n

\* Rows of the table, and possibly new ones.
Among(s, new) == \A n \in DOMAIN s : s[n] \in new \/ \E m \in DOMAIN table : s[n] = table[m]

\* A sequence given by its positions.
LEMMA Listing ==
    ASSUME NEW S, NEW count \in Nat, NEW f \in [1 .. count -> S]
    PROVE  f \in Seq(S) /\ Len(f) = count /\ DOMAIN f = 1 .. count
<1>1. f \in Seq(S)
  BY SeqDef
<1> QED
  BY <1>1, LenProperties

\* The rows of the other tasks, and no row of the task itself.
LEMMA OtherRows ==
    ASSUME Rows(table), NEW t \in Tasks
    PROVE  /\ Rows(Others(t)) /\ Among(Others(t), {})
           /\ \A n \in DOMAIN Others(t) : Others(t)[n].id # t
<1>1. table \in Seq(Row) /\ Len(table) \in Nat /\ DOMAIN table = 1 .. Len(table)
  BY LenProperties DEF Rows
<1>2. CASE ~Known(t)
  <2>1. Others(t) = table
    BY <1>2 DEF Others
  <2> QED
    BY <1>2, <2>1 DEF Known, Among
<1>3. CASE Known(t)
  <2> DEFINE own == CHOOSE n \in DOMAIN table : table[n].id = t
  <2>1. own \in 1 .. Len(table) /\ table[own].id = t
    BY <1>1, <1>3 DEF Known
  <2>2. Others(t) = [n \in 1 .. Len(table) - 1 |-> table[IF n < own THEN n ELSE n + 1]]
    BY <1>3 DEF Others
  <2> HIDE DEF own
  <2>3. Len(table) - 1 \in Nat
    BY <1>1, <2>1
  <2>4. \A n \in 1 .. Len(table) - 1 :
          /\ (IF n < own THEN n ELSE n + 1) \in 1 .. Len(table)
          /\ (IF n < own THEN n ELSE n + 1) # own
    BY <1>1, <2>1
  <2>5. \A n \in 1 .. Len(table) - 1 : table[IF n < own THEN n ELSE n + 1] \in Row
    BY <1>1, <2>4, ElementOfSeq
  <2>6. Others(t) \in [1 .. Len(table) - 1 -> Row]
    BY <2>2, <2>5
  <2>7. /\ Others(t) \in Seq(Row) /\ Len(Others(t)) = Len(table) - 1
        /\ DOMAIN Others(t) = 1 .. Len(table) - 1
    BY <2>3, <2>6, Listing
  <2>8. \A n \in DOMAIN Others(t) : Others(t)[n] = table[IF n < own THEN n ELSE n + 1]
    BY <2>2, <2>7
  <2>9. \A m, n \in DOMAIN Others(t) : Others(t)[m].id = Others(t)[n].id => m = n
    <3> SUFFICES ASSUME NEW m \in 1 .. Len(table) - 1, NEW n \in 1 .. Len(table) - 1,
                        Others(t)[m].id = Others(t)[n].id
                 PROVE  m = n
      BY <2>7
    <3>1. (IF m < own THEN m ELSE m + 1) = (IF n < own THEN n ELSE n + 1)
      BY <1>1, <2>4, <2>7, <2>8 DEF Rows
    <3> QED
      BY <1>1, <2>1, <3>1
  <2>10. \A n \in DOMAIN Others(t) : Others(t)[n].id # t
    BY <1>1, <2>1, <2>4, <2>7, <2>8 DEF Rows
  <2>11. Len(Others(t)) <= MaxTasks
    BY <1>1, <2>7, TableHoldsOne DEF Rows
  <2>12. Among(Others(t), {})
    BY <1>1, <2>4, <2>7, <2>8 DEF Among
  <2> QED
    BY <2>7, <2>9, <2>10, <2>11, <2>12 DEF Rows
<1> QED
  BY <1>2, <1>3

\* A task that is started has one row more, at the end, or at the place of the
\* oldest.
LEMMA StartedRows ==
    ASSUME Rows(table), NEW t \in Tasks
    PROVE  /\ Rows(Started(t, "running"))
           /\ Among(Started(t, "running"), {[id |-> t, status |-> "running"]})
<1> DEFINE row == [id |-> t, status |-> "running"]
           rest == Others(t)
           grown == Append(rest, row)
<1>1. row \in Row /\ row.id = t
  BY DEF Row, Outcome
<1>2. Rows(rest) /\ Among(rest, {}) /\ \A n \in DOMAIN rest : rest[n].id # t
  BY OtherRows
<1>3. Started(t, "running") = IF Len(grown) > MaxTasks THEN Tail(grown) ELSE grown
  BY DEF Started
<1> HIDE DEF row, rest
<1>4. rest \in Seq(Row) /\ Len(rest) \in Nat /\ DOMAIN rest = 1 .. Len(rest)
  BY <1>2, LenProperties DEF Rows
<1>5. /\ grown \in Seq(Row) /\ Len(grown) = Len(rest) + 1
      /\ \A n \in 1 .. Len(rest) : grown[n] = rest[n]
      /\ grown[Len(rest) + 1] = row
  BY <1>1, <1>4, AppendProperties
<1> HIDE DEF grown
<1>6. DOMAIN grown = 1 .. Len(rest) + 1
  BY <1>4, <1>5, LenProperties
<1>7. \A m, n \in DOMAIN grown : grown[m].id = grown[n].id => m = n
  BY <1>1, <1>2, <1>4, <1>5, <1>6 DEF Rows
<1>8. Among(grown, {row})
  BY <1>2, <1>4, <1>5, <1>6 DEF Among
<1>9. CASE Len(grown) <= MaxTasks
  <2>1. Started(t, "running") = grown
    BY <1>3, <1>4, <1>5, <1>9, TableHoldsOne
  <2> QED
    BY <1>5, <1>7, <1>8, <1>9, <2>1 DEF Rows, row
<1>10. CASE Len(grown) > MaxTasks
  <2>1. Started(t, "running") = Tail(grown)
    BY <1>3, <1>10
  <2>2. /\ Tail(grown) \in Seq(Row) /\ Len(Tail(grown)) = Len(rest)
        /\ \A n \in 1 .. Len(rest) : Tail(grown)[n] = grown[n + 1]
    <3>1. grown # << >>
      BY <1>4, <1>5, EmptySeq
    <3> QED
      BY <1>4, <1>5, <3>1, HeadTailProperties
  <2>3. DOMAIN Tail(grown) = 1 .. Len(rest)
    BY <2>2, LenProperties
  <2>4. \A m, n \in DOMAIN Tail(grown) : Tail(grown)[m].id = Tail(grown)[n].id => m = n
    <3> SUFFICES ASSUME NEW m \in 1 .. Len(rest), NEW n \in 1 .. Len(rest),
                        grown[m + 1].id = grown[n + 1].id
                 PROVE  m = n
      BY <2>2, <2>3
    <3>1. m + 1 \in DOMAIN grown /\ n + 1 \in DOMAIN grown
      BY <1>4, <1>6
    <3>2. m + 1 = n + 1
      BY <1>7, <3>1
    <3> QED
      BY <1>4, <3>2
  <2>5. Among(Tail(grown), {row})
    <3> SUFFICES ASSUME NEW n \in 1 .. Len(rest)
                 PROVE  Tail(grown)[n] \in {row}
                          \/ \E m \in DOMAIN table : Tail(grown)[n] = table[m]
      BY <2>3 DEF Among
    <3>1. n + 1 \in DOMAIN grown
      BY <1>4, <1>6
    <3> QED
      BY <1>8, <2>2, <3>1 DEF Among
  <2> QED
    BY <1>2, <2>1, <2>2, <2>4, <2>5 DEF Rows, row
<1> QED
  BY <1>4, <1>5, <1>9, <1>10, TableHoldsOne

\* A task that ends has one row, with its end.
LEMMA FinishedRows ==
    ASSUME Rows(table), NEW t \in Tasks, NEW ok \in BOOLEAN
    PROVE  Rows(Finished(t, ok)) /\ Among(Finished(t, ok), {[id |-> t, status |-> Verdict(ok)]})
<1>1. table \in Seq(Row) /\ Len(table) \in Nat /\ DOMAIN table = 1 .. Len(table)
  BY LenProperties DEF Rows
<1>2. \A n \in 1 .. Len(table) : table[n] \in Row
  BY <1>1, ElementOfSeq
<1>3. Verdict(ok) \in Outcome
  BY DEF Verdict, Outcome
<1> DEFINE row(n) == IF table[n].id =
      t THEN [table[n] EXCEPT !.status = Verdict(ok)] ELSE table[n]
<1>4. \A n \in 1 .. Len(table) :
        /\ row(n) \in Row /\ row(n).id = table[n].id
        /\ row(n) = [id |-> t, status |-> Verdict(ok)] \/ row(n) = table[n]
  BY <1>2, <1>3 DEF Row
<1>5. Finished(t, ok) = [n \in 1 .. Len(table) |-> row(n)]
  BY <1>1 DEF Finished
<1> HIDE DEF row
<1>6. Finished(t, ok) \in [1 .. Len(table) -> Row]
  BY <1>4, <1>5
<1>7. /\ Finished(t, ok) \in Seq(Row) /\ Len(Finished(t, ok)) = Len(table)
      /\ DOMAIN Finished(t, ok) = 1 .. Len(table)
  BY <1>1, <1>6, Listing
<1>8. \A n \in 1 .. Len(table) : Finished(t, ok)[n] = row(n)
  BY <1>5
<1>9. Rows(Finished(t, ok))
  BY <1>1, <1>4, <1>7, <1>8 DEF Rows
<1>10. Among(Finished(t, ok), {[id |-> t, status |-> Verdict(ok)]})
  BY <1>1, <1>4, <1>7, <1>8 DEF Among
<1> QED
  BY <1>9, <1>10

\* Clearing the table leaves rows of it.
LEMMA ClearedRows ==
    ASSUME Rows(table), ClearCompleted
    PROVE  Rows(table') /\ Among(table', {})
<1>1. table \in Seq(Row) /\ Len(table) \in Nat /\ DOMAIN table = 1 .. Len(table)
  BY LenProperties DEF Rows
<1>0. PICK count \in 0 .. Len(table) : \E kept \in [1 .. count -> Running] :
        /\ \A m, n \in 1 .. count : m < n => kept[m] < kept[n]
        /\ table' = [n \in 1 .. count |-> table[kept[n]]]
  BY DEF ClearCompleted
<1>2. PICK kept \in [1 .. count -> Running] :
        /\ \A m, n \in 1 .. count : m < n => kept[m] < kept[n]
        /\ table' = [n \in 1 .. count |-> table[kept[n]]]
  BY <1>0
<1>3. count \in Nat /\ count <= Len(table)
  BY <1>1
<1>4. \A n \in 1 .. count : kept[n] \in 1 .. Len(table)
  BY <1>1, <1>2 DEF Running
<1>5. \A n \in 1 .. count : table[kept[n]] \in Row
  BY <1>1, <1>4, ElementOfSeq
<1>6. table' \in [1 .. count -> Row]
  BY <1>2, <1>5
<1>7. table' \in Seq(Row) /\ Len(table') = count /\ DOMAIN table' = 1 .. count
  BY <1>3, <1>6, Listing
<1>8. \A n \in 1 .. count : table'[n] = table[kept[n]]
  BY <1>2
<1>9. \A m, n \in 1 .. count : kept[m] = kept[n] => m = n
  BY <1>1, <1>2, <1>3, <1>4
<1>10. \A m, n \in DOMAIN table' : table'[m].id = table'[n].id => m = n
  BY <1>1, <1>4, <1>7, <1>8, <1>9 DEF Rows
<1>11. Len(table') <= MaxTasks
  BY <1>1, <1>3, <1>7, TableHoldsOne DEF Rows
<1> QED
  BY <1>1, <1>4, <1>7, <1>8, <1>10, <1>11 DEF Rows, Among

\* The table after a step: as it was, or one of the changes above.
LEMMA TableOf ==
    ASSUME Parts, TableOK, [Next]_vars
    PROVE  Rows(table')
<1>1. Rows(table)
  BY DEF TableOK, Rows
<1>2. CASE table' = table
  BY <1>1, <1>2
<1>3. CASE ClearCompleted
  BY <1>1, <1>3, ClearedRows
<1>4. CASE table' = <<>>
  <2>1. <<>> \in Seq(Row) /\ Len(<<>>) = 0 /\ DOMAIN <<>> = {}
    BY EmptySeq, LenProperties
  <2> QED
    BY <1>4, <2>1, TableHoldsOne DEF Rows
<1>5. ASSUME NEW t \in Tasks, table' = Started(t, "running") PROVE Rows(table')
  BY <1>1, <1>5, StartedRows
<1>6. ASSUME NEW t \in Tasks, NEW ok \in BOOLEAN, table' = Finished(t, ok) PROVE Rows(table')
  BY <1>1, <1>6, FinishedRows
<1>7. ASSUME NEW t \in Tasks, QueueStep(t) PROVE Rows(table')
  BY <1>2, <1>6, <1>7 DEF QueueStep, QueueWrite, QueueReplace
<1>8. ASSUME NEW p \in Polls, PollStep(p) PROVE Rows(table')
  <2>1. poll[p].phase # "idle" => poll[p].task \in Tasks /\ poll[p].ok \in BOOLEAN
    BY DEF TableOK, PollState
  <2> QED
    BY <1>2, <1>5, <1>6, <1>8, <2>1
       DEF PollStep, PollRead, PollFinish, PollRecover, PollConclude, PollUnlink
<1>9. CASE HelperStep \/ HelperKilled \/ UNCHANGED vars
  BY <1>2, <1>9
     DEF HelperStep, HelperStart, HelperReadAction, HelperReadTask, HelperRemove, HelperExecute,
         HelperReport, HelperKilled, api, vars
<1> QED
  BY <1>3, <1>4, <1>5, <1>7, <1>8, <1>9 DEF Next, QueueStart, ApiRestart

\* The polls and the result files.
LEMMA FilesNext ==
    ASSUME Parts, TableOK, EarnedOnTheWay, [Next]_vars
    PROVE  TableOK'
<1>1. Rows(table')
  BY TableOf
<1> DEFINE Types ==
      /\ poll' \in [Polls -> PollState]
      /\ \A p \in Polls : poll'[p].phase # "idle" => poll'[p].task \in Tasks
      /\ result' \in [Tasks -> BOOLEAN \cup {None}]
      /\ kills' \in Nat /\ restarts' \in Nat
<1>2. ASSUME UNCHANGED <<poll, result, kills, restarts>> PROVE Types
  BY <1>2 DEF TableOK
<1>3. ASSUME ApiRestart PROVE Types
  <2>1. poll' = [p \in Polls |-> PollIdle] /\ restarts' = restarts + 1
          /\ UNCHANGED <<result, kills>>
    BY <1>3 DEF ApiRestart, host
  <2>2. PollIdle \in PollState /\ PollIdle.phase = "idle"
    BY DEF PollIdle, PollState
  <2> QED
    BY <2>1, <2>2 DEF TableOK
<1>4. ASSUME HelperKilled PROVE Types
  BY <1>4 DEF HelperKilled, api, TableOK
<1>5. ASSUME HelperReport PROVE Types
  <2>1. /\ helper.task \in Tasks /\ did[helper.task] \in Done
    BY <1>5 DEF HelperReport, EarnedOnTheWay, Parts, MailboxOK, HelperState
  <2>2. did[helper.task].ok \in BOOLEAN
    BY <2>1 DEF Done
  <2> QED
    BY <1>5, <2>1, <2>2 DEF HelperReport, api, TableOK
<1>6. ASSUME NEW p \in Polls, NEW t \in Tasks, PollRead(p, t) PROVE Types
  <2>1. result[t] \in BOOLEAN
    BY <1>6 DEF PollRead, TableOK
  <2>2. [phase |-> "finish", task |-> t, ok |-> result[t]] \in PollState
    BY <2>1 DEF PollState
  <2> QED
    BY <1>6, <2>2 DEF PollRead, host, TableOK
<1>7. ASSUME NEW p \in Polls, NEW phase \in {"finish", "recover", "conclude", "unlink"},
             poll' = [poll EXCEPT ![p].phase = phase], poll[p].phase # "idle",
             UNCHANGED <<result, kills, restarts>>
      PROVE  Types
  <2>1. poll[p] \in PollState /\ poll[p].task \in Tasks
    BY <1>7 DEF TableOK
  <2>2. poll' = [poll EXCEPT ![p] = [poll[p] EXCEPT !.phase = phase]]
    BY <1>7, <2>1 DEF TableOK
  <2>3. [poll[p] EXCEPT !.phase = phase] \in PollState
        /\ [poll[p] EXCEPT !.phase = phase].task = poll[p].task
    BY <2>1 DEF PollState
  <2> QED
    BY <1>7, <2>1, <2>2, <2>3 DEF TableOK
<1>8. ASSUME NEW p \in Polls, PollFinish(p) \/ PollRecover(p) \/ PollConclude(p) PROVE Types
  BY <1>7, <1>8 DEF PollFinish, PollRecover, PollConclude, host
<1>9. ASSUME NEW p \in Polls, PollUnlink(p) PROVE Types
  <2>1. PollIdle \in PollState /\ PollIdle.phase = "idle" /\ poll[p].task \in Tasks
    BY <1>9 DEF PollIdle, PollState, PollUnlink, TableOK
  <2> QED
    BY <1>9, <2>1 DEF PollUnlink, host, TableOK
<1>10. ASSUME ~ApiRestart, ~HelperKilled, ~HelperReport,
              ~ClearCompleted, ~\E p \in Polls : PollStep(p)
       PROVE  UNCHANGED <<poll, result, kills, restarts>>
  BY <1>10
     DEF Next, QueueStart, QueueStep, QueueWrite, QueueReplace, HelperStep, HelperStart,
         HelperReadAction, HelperReadTask, HelperRemove, HelperExecute, host, api, vars
<1>11. ASSUME ClearCompleted PROVE Types
  BY <1>2, <1>11 DEF ClearCompleted, host
<1>12. ASSUME NEW p \in Polls, PollStep(p) PROVE Types
  BY <1>6, <1>8, <1>9, <1>12 DEF PollStep
<1>13. Types
  <2> HIDE DEF Types
  <2> QED
    BY <1>2, <1>3, <1>4, <1>5, <1>10, <1>11, <1>12
<1> QED
  BY <1>1, <1>13 DEF Rows, TableOK

\* What was carried out stays, and stays a success if it was one.
LEMMA EarnedStays ==
    ASSUME Parts, [Next]_vars, NEW t \in Tasks
    PROVE  /\ did[t] # None => did'[t] = did[t]
           /\ Earned(t) => Earned(t)'
<1>1. ASSUME NEW ok \in BOOLEAN, HelperExecute(ok) PROVE did[t] # None => did'[t] = did[t]
  <2>1. runs[helper.task] = 0 /\ helper.task \in Tasks
    BY <1>1 DEF HelperExecute, Parts, MailboxOK, HelperState, RunOnce, Taken
  <2>2. did[helper.task] = None
    BY <2>1 DEF Parts, RunOnce
  <2> QED
    BY <1>1, <2>2 DEF HelperExecute, Parts, MailboxOK
<1>2. did' = did \/ \E ok \in BOOLEAN : HelperExecute(ok)
  BY Elsewhere DEF QueueStart, QueueWrite, QueueReplace, HelperStart, HelperReadAction,
     HelperReadTask,
     HelperRemove, HelperReport, HelperKilled, ApiRestart, api, host, mail
<1> QED
  BY <1>1, <1>2 DEF Earned

\* Rows that show a success, after a step that adds none but earned ones.
LEMMA ShownStays ==
    ASSUME Parts, [Next]_vars, SuccessIsEarned, NEW new, Among(table', new),
           \A t \in Tasks : [id |-> t, status |-> "successful"] \in new => Earned(t)'
    PROVE  SuccessIsEarned'
<1> SUFFICES ASSUME NEW t \in Tasks, NEW n \in DOMAIN table',
                    table'[n] = [id |-> t, status |-> "successful"]
             PROVE  Earned(t)'
  BY DEF SuccessIsEarned, Shown, Earned
<1>1. CASE table'[n] \in new
  BY <1>1
<1>2. CASE \E m \in DOMAIN table : table'[n] = table[m]
  <2>1. Earned(t)
    BY <1>2 DEF SuccessIsEarned, Shown, Earned
  <2> QED
    BY <2>1, EarnedStays
<1> QED
  BY <1>1, <1>2 DEF Among

\* On its way to the table success stays earned.
LEMMA EarnedNext ==
    ASSUME Parts, TableOK, EarnedOnTheWay, [Next]_vars
    PROVE  EarnedOnTheWay'
<1> DEFINE EarnedBy(d, t) == d[t] # None /\ d[t].ok
<1>1. \A t \in Tasks : Earned(t) => EarnedBy(did', t)
  BY EarnedStays DEF Earned
<1>2. helper'.phase = "report" => did'[helper'.task] # None
  <2>1. ASSUME NEW ok \in BOOLEAN, HelperExecute(ok) PROVE did'[helper'.task] # None
    <3>1. helper.task \in Tasks /\ helper.service \in Services /\ helper.action \in Actions
      BY <2>1 DEF HelperExecute, Parts, MailboxOK, HelperState
    <3>2. [service |-> helper.service, action |-> helper.action, ok |-> ok] \in Done
      BY <3>1 DEF Done
    <3>3. helper'.task = helper.task
      BY <2>1 DEF HelperExecute, Parts, MailboxOK, HelperState
    <3> QED
      BY <2>1, <3>1, <3>2, <3>3, NoneIsNothing DEF HelperExecute, Parts, MailboxOK
  <2>2. helper'.phase = "report" => (helper' = helper /\ did' = did)
          \/ \E ok \in BOOLEAN : HelperExecute(ok)
    <3>1. helper \in HelperState
      BY DEF Parts, MailboxOK
    <3>2. HelperStart \/ HelperReadAction \/ HelperReadTask
            \/ HelperRemove => helper'.phase # "report"
      BY <3>1 DEF HelperStart, HelperReadAction, HelperReadTask, HelperRemove, HelperIdle,
         HelperState
    <3>3. HelperReport \/ HelperKilled => helper'.phase # "report"
      BY DEF HelperReport, HelperKilled, HelperIdle
    <3> QED
      BY <3>2, <3>3, Elsewhere DEF QueueStart, QueueWrite, QueueReplace, ApiRestart, host, mail
  <2> QED
    BY <2>1, <2>2 DEF EarnedOnTheWay
<1>3. \A t \in Tasks : result'[t] # None /\ result'[t] => EarnedBy(did', t)
  <2>1. CASE HelperReport
    <3>1. helper.task \in Tasks /\ did' = did /\ did[helper.task] # None
          /\ result' = [result EXCEPT ![helper.task] = did[helper.task].ok]
      BY <2>1 DEF HelperReport, EarnedOnTheWay, Parts, MailboxOK, HelperState
    <3> QED
      BY <1>1, <3>1 DEF EarnedOnTheWay, TableOK, Earned
  <2>2. ASSUME NEW p \in Polls, PollUnlink(p)
        PROVE  \A t \in Tasks : result'[t] # None /\ result'[t] => EarnedBy(did', t)
    BY <1>1, <2>2 DEF PollUnlink, EarnedOnTheWay, TableOK
  <2>3. CASE result' = result
    BY <1>1, <2>3 DEF EarnedOnTheWay
  <2> QED
    BY <2>1, <2>2, <2>3
       DEF Next, QueueStart, QueueStep, QueueWrite, QueueReplace, HelperStep, HelperStart,
           HelperReadAction, HelperReadTask, HelperRemove, HelperExecute, HelperKilled,
           ClearCompleted,
           ApiRestart, PollStep, PollRead, PollFinish, PollRecover, PollConclude, host, api, vars
<1>4. \A p \in Polls :
        poll'[p].phase \in {"finish", "recover", "conclude"} /\ poll'[p].ok
          => poll'[p].task \in Tasks /\ EarnedBy(did', poll'[p].task)
  <2> SUFFICES ASSUME NEW q \in Polls, poll'[q].phase \in {"finish", "recover", "conclude"},
                        poll'[q].ok
               PROVE  poll'[q].task \in Tasks /\ EarnedBy(did', poll'[q].task)
    OBVIOUS
  <2>1. CASE /\ poll'[q].task = poll[q].task /\ poll'[q].ok = poll[q].ok
             /\ poll[q].phase \in {"finish", "recover", "conclude"}
    <3>1. poll[q].task \in Tasks /\ Earned(poll[q].task)
      BY <2>1 DEF TableOK, EarnedOnTheWay
    <3> QED
      BY <1>1, <2>1, <3>1
  <2>2. ASSUME NEW t \in Tasks, PollRead(q, t)
      PROVE poll'[q].task \in Tasks /\ EarnedBy(did', poll'[q].task)
    <3>1. poll'[q].task = t /\ poll'[q].ok = result[t] /\ result[t] # None
      BY <2>2 DEF PollRead, TableOK
    <3>2. Earned(t)
      BY <3>1 DEF EarnedOnTheWay
    <3> QED
      BY <1>1, <3>1, <3>2
  <2>3. ASSUME NEW p \in Polls, PollStep(p), p # q PROVE poll'[q] = poll[q]
    BY <2>3 DEF PollStep, PollRead, PollFinish, PollRecover, PollConclude, PollUnlink, TableOK
  <2>4. ASSUME PollFinish(q) \/ PollRecover(q) \/ PollConclude(q)
        PROVE  /\ poll'[q].task = poll[q].task /\ poll'[q].ok = poll[q].ok
               /\ poll[q].phase \in {"finish", "recover", "conclude"}
    BY <2>4 DEF PollFinish, PollRecover, PollConclude, TableOK, PollState
  <2>5. ~PollUnlink(q) /\ ~ApiRestart
    BY DEF PollUnlink, ApiRestart, PollIdle, TableOK
  <2>6. poll' = poll \/ \E p \in Polls : PollStep(p)
    BY <2>5 DEF Next, QueueStart, QueueStep, QueueWrite, QueueReplace, HelperStep, HelperStart,
       HelperReadAction, HelperReadTask, HelperRemove, HelperExecute, HelperReport, HelperKilled,
       ClearCompleted, host, api, vars
  <2> QED
    BY <2>1, <2>2, <2>3, <2>4, <2>5, <2>6 DEF PollStep
<1> QED
  BY <1>2, <1>3, <1>4 DEF EarnedOnTheWay, Earned

\* In the table too.
LEMMA SuccessNext ==
    ASSUME Parts, TableOK, EarnedOnTheWay, SuccessIsEarned, [Next]_vars
    PROVE  SuccessIsEarned'
<1>1. Rows(table)
  BY DEF TableOK, Rows
<1>2. ASSUME Among(table', {}) PROVE SuccessIsEarned'
  BY <1>2, ShownStays
<1>3. CASE table' = table
  BY <1>2, <1>3 DEF Among
<1>4. CASE ClearCompleted
  BY <1>1, <1>2, <1>4, ClearedRows
<1>5. CASE table' = <<>>
  <2>1. DOMAIN <<>> = {}
    OBVIOUS
  <2> QED
    BY <1>2, <1>5, <2>1 DEF Among
<1>6. ASSUME NEW t \in Tasks, table' = Started(t, "running") PROVE SuccessIsEarned'
  <2> DEFINE new == {[id |-> t, status |-> "running"]}
  <2>1. Among(table', new)
    BY <1>1, <1>6, StartedRows
  <2>2. \A u \in Tasks : [id |-> u, status |-> "successful"] \notin new
    OBVIOUS
  <2> HIDE DEF new
  <2> QED
    BY <2>1, <2>2, ShownStays
<1>7. ASSUME NEW t \in Tasks, NEW ok \in BOOLEAN, table' = Finished(t, ok), ok => Earned(t)
      PROVE  SuccessIsEarned'
  <2> DEFINE new == {[id |-> t, status |-> Verdict(ok)]}
  <2>1. Among(table', new)
    BY <1>1, <1>7, FinishedRows
  <2>2. \A u \in Tasks : [id |-> u, status |-> "successful"] \in new => u = t /\ ok
    BY DEF Verdict
  <2>3. \A u \in Tasks : [id |-> u, status |-> "successful"] \in new => Earned(u)'
    BY <1>7, <2>2, EarnedStays
  <2> HIDE DEF new
  <2> QED
    BY <2>1, <2>3, ShownStays
<1>8. ASSUME NEW t \in Tasks, QueueStep(t) PROVE SuccessIsEarned'
  BY <1>3, <1>7, <1>8 DEF QueueStep, QueueWrite, QueueReplace
<1>9. ASSUME NEW p \in Polls, PollStep(p) PROVE SuccessIsEarned'
  <2>1. poll[p].phase # "idle" => poll[p].task \in Tasks /\ poll[p].ok \in BOOLEAN
    BY DEF TableOK, PollState
  <2>2. poll[p].phase \in {"finish", "conclude"} /\ poll[p].ok => Earned(poll[p].task)
    BY DEF EarnedOnTheWay
  <2> QED
    BY <1>3, <1>6, <1>7, <1>9, <2>1, <2>2
       DEF PollStep, PollRead, PollFinish, PollRecover, PollConclude, PollUnlink
<1>10. CASE HelperStep \/ HelperKilled \/ UNCHANGED vars
  BY <1>3, <1>10
     DEF HelperStep, HelperStart, HelperReadAction, HelperReadTask, HelperRemove, HelperExecute,
         HelperReport, HelperKilled, api, vars
<1> QED
  BY <1>4, <1>5, <1>6, <1>8, <1>9, <1>10 DEF Next, QueueStart, ApiRestart

\* At first nothing was asked and no task has a row.
LEMMA ServicesInitial == Init => IInv
<1> SUFFICES ASSUME Init PROVE IInv
  OBVIOUS
<1>1. Parts
  BY PartsInit
<1>2. ReadFromRequest /\ MixedRequestIsLost
  BY DEF Init, HelperIdle, ReadFromRequest, MixedRequestIsLost
<1>3. PollIdle \in PollState /\ PollIdle.phase = "idle" /\ HelperIdle.phase = "idle"
  BY DEF PollIdle, PollState, HelperIdle
<1>4. <<>> \in Seq(Row) /\ Len(<<>>) <= MaxTasks /\ DOMAIN <<>> = {}
  BY EmptySeq, TableHoldsOne
<1>5. TableOK
  BY <1>3, <1>4 DEF Init, TableOK
<1>6. EarnedOnTheWay /\ SuccessIsEarned
  BY <1>3, <1>4 DEF Init, EarnedOnTheWay, SuccessIsEarned, Shown
<1> QED
  BY <1>1, <1>2, <1>5, <1>6 DEF IInv, Parts

\* The invariant is kept by every step.
LEMMA ServicesInductive == IInv /\ [Next]_vars => IInv'
<1> SUFFICES ASSUME IInv, [Next]_vars PROVE IInv'
  OBVIOUS
<1>1. Parts /\ ReadFromRequest /\ MixedRequestIsLost /\ TableOK /\ EarnedOnTheWay
        /\ SuccessIsEarned
  BY DEF IInv, Parts
<1>2. Parts' /\ ReadFromRequest' /\ MixedRequestIsLost'
  BY <1>1, PartsNext, ReadNext, MixedNext
<1>3. TableOK' /\ EarnedOnTheWay' /\ SuccessIsEarned'
  BY <1>1, FilesNext, EarnedNext, SuccessNext
<1> QED
  BY <1>2, <1>3 DEF IInv, Parts

\* The types are part of it.
LEMMA ServicesTyped == IInv => TypeOK
  BY DEF IInv, MailboxOK, TableOK, TypeOK

\* The invariant of service actions holds for ever.
LEMMA ServicesForever == Init /\ [][Next]_vars => []IInv
  BY ServicesInductive, ServicesInitial, PTL

-----------------------------------------------------------------------------
(* THE WIRED INTERFACES.                                                   *)

\* At first nothing was asked.
LEMMA WiredInitial == Wired!Init => Wired!IInv
<1> SUFFICES ASSUME Wired!Init PROVE Wired!IInv
  OBVIOUS
<1>1. Wired!TypeOK
  <2>1. wiredHelper \in Wired!Helper
    BY DEF Wired!Init, Wired!Helper, Wired!Idle
  <2> QED
    BY <2>1 DEF Wired!Init, Wired!TypeOK
<1>2. Wired!WiredInOnePlace
  BY WiredAssumption DEF Wired!Init, Wired!WiredInOnePlace, Wired!WiredConstants
<1>3. Wired!ReadFromRequest /\ Wired!ShownWhileApplied
  BY DEF Wired!Init, Wired!ReadFromRequest, Wired!ShownWhileApplied, Wired!Idle
<1>4. Wired!MixtureLosesOne /\ Wired!AppliedIsLive
  BY DEF Wired!Init, Wired!MixtureLosesOne, Wired!AppliedIsLive
<1> QED
  BY <1>1, <1>2, <1>3, <1>4 DEF Wired!IInv

\* A connection left to DHCP, and one stored after any settings.
LEMMA DhcpIsSettings ==
    /\ Wired!Dhcp \in Wired!Settings
    /\ \A set \in Wired!Settings : Wired!Stored(set) \in Wired!Settings
<1>1. Wired!Dhcp \in Wired!Settings
  BY DEF Wired!Dhcp, Wired!Settings, Wired!Mode
<1> QED
  BY <1>1 DEF Wired!Stored

\* Records of the requests, and what is read of them.
LEMMA WiredAsked ==
    ASSUME Wired!TypeOK, NEW a \in Asks, confirmed[a] # None
    PROVE  /\ confirmed[a] \in Wired!Ask
           /\ confirmed[a].interface \in Interfaces /\ confirmed[a].settings \in Wired!Settings
           /\ confirmed[a].settings.mode \in Wired!Mode
           /\ confirmed[a].settings.address \in Addresses \cup {None}
           /\ confirmed[a].settings.gateway \in Gateways \cup {None}
           /\ confirmed[a].settings.dns \in Servers \cup {None}
           /\ confirmed[a].settings.mode = "dhcp" => confirmed[a].settings = Wired!Dhcp
<1>1. confirmed[a] \in Wired!Ask
  BY DEF Wired!TypeOK
<1>2. confirmed[a].interface \in Interfaces /\ confirmed[a].settings \in Wired!Settings
        /\ (confirmed[a].settings.mode = "dhcp" => confirmed[a].settings = Wired!Dhcp)
  BY <1>1, DhcpIsSettings DEF Wired!Ask
<1> QED
  BY <1>1, <1>2 DEF Wired!Settings

\* A request that was made is no None.
LEMMA WiredAskedIsSome ==
    ASSUME Wired!TypeOK, NEW a \in Asks, NEW i \in Interfaces, NEW set \in Wired!Settings,
           confirmed[a] = [interface |-> i, settings |-> set]
    PROVE  confirmed[a] # None
BY WiredAssumption DEF Wired!WiredConstants

\* The steps, one by one.
LEMMA WiredSteps ==
    ASSUME Wired!Next
    PROVE  \/ \E a \in Asks, ask \in Wired!Ask : Wired!Confirm(a, ask)
           \/ \E a \in Asks : Wired!Write(a)
           \/ \E a \in Asks : Wired!Replace(a)
           \/ Wired!Start \/ Wired!ReadMode \/ Wired!ReadAddress \/ Wired!ReadGateway
           \/ Wired!ReadServers \/ Wired!Remove \/ Wired!Rejected \/ Wired!Applying
           \/ Wired!Modify \/ Wired!ModifyFails \/ Wired!Up
           \/ \E left \in Wired!Settings \cup {None} : Wired!UpFails(left)
           \/ Wired!Kill \/ Wired!Reboot
           \/ \E i \in Interfaces : Wired!Activates(i)
           \/ \E i \in Interfaces : Wired!LinkLost(i)
BY DEF Wired!Next, Wired!HelperStep

\* Every step keeps the types.
LEMMA WiredTypes ==
    ASSUME Wired!TypeOK, Wired!WiredInOnePlace, Wired!ReadFromRequest, Wired!ShownWhileApplied,
           [Wired!Next]_(Wired!vars)
    PROVE  Wired!TypeOK'
<1>0. CASE UNCHANGED Wired!vars
  BY <1>0 DEF Wired!TypeOK, Wired!vars
<1>1. ASSUME NEW a \in Asks, NEW ask \in Wired!Ask, Wired!Confirm(a, ask) PROVE Wired!TypeOK'
  BY <1>1 DEF Wired!TypeOK, Wired!Confirm, Wired!host
<1>2. ASSUME NEW a \in Asks, Wired!Write(a) PROVE Wired!TypeOK'
  BY <1>2 DEF Wired!TypeOK, Wired!Write, Wired!host
<1>3. ASSUME NEW a \in Asks, Wired!Replace(a) PROVE Wired!TypeOK'
  BY <1>3 DEF Wired!TypeOK, Wired!Replace, Wired!host
<1>4. ASSUME wiredRequest # None
      PROVE /\ confirmed[wiredRequest].interface \in Interfaces
            /\ confirmed[wiredRequest].settings.mode \in Wired!Mode
            /\ confirmed[wiredRequest].settings.address \in Addresses \cup {None}
            /\ confirmed[wiredRequest].settings.gateway \in Gateways \cup {None}
            /\ confirmed[wiredRequest].settings.dns \in Servers \cup {None}
  <2>1. wiredRequest \in Asks
    BY <1>4 DEF Wired!TypeOK
  <2>2. confirmed[wiredRequest] # None
    BY <2>1 DEF Wired!WiredInOnePlace
  <2> QED
    BY <2>1, <2>2, WiredAsked
<1>5. wiredHelper \in Wired!Helper /\ Wired!Idle \in Wired!Helper
  BY DEF Wired!TypeOK, Wired!Helper, Wired!Idle
<1>6. CASE Wired!Start
  <2>1. wiredHelper' \in Wired!Helper
    BY <1>4, <1>6 DEF Wired!Start, Wired!Helper, Wired!Idle
  <2> QED
    BY <1>6, <2>1 DEF Wired!TypeOK, Wired!Start, Wired!host, Wired!api
<1>7. CASE Wired!ReadMode
  <2>1. wiredHelper' \in Wired!Helper
    BY <1>4, <1>5, <1>7 DEF Wired!ReadMode, Wired!Helper, Wired!ReadFromRequest
  <2> QED
    BY <1>7, <2>1 DEF Wired!TypeOK, Wired!ReadMode, Wired!host, Wired!api
<1>8. CASE Wired!ReadAddress
  <2>1. wiredHelper' \in Wired!Helper
    BY <1>4, <1>5, <1>8 DEF Wired!ReadAddress, Wired!Helper, Wired!ReadFromRequest
  <2> QED
    BY <1>8, <2>1 DEF Wired!TypeOK, Wired!ReadAddress, Wired!host, Wired!api
<1>20. CASE Wired!ReadGateway
  <2>1. wiredHelper' \in Wired!Helper
    BY <1>4, <1>5, <1>20 DEF Wired!ReadGateway, Wired!Helper, Wired!ReadFromRequest
  <2> QED
    BY <1>20, <2>1 DEF Wired!TypeOK, Wired!ReadGateway, Wired!host, Wired!api
<1>21. CASE Wired!ReadServers
  <2>1. wiredHelper' \in Wired!Helper
    BY <1>4, <1>5, <1>21 DEF Wired!ReadServers, Wired!Helper, Wired!ReadFromRequest
  <2> QED
    BY <1>21, <2>1 DEF Wired!TypeOK, Wired!ReadServers, Wired!host, Wired!api
<1>9. CASE Wired!Remove
  <2>1. wiredHelper' \in Wired!Helper /\ wiredRequest \in Asks
    BY <1>5, <1>9 DEF Wired!Remove, Wired!Helper, Wired!ReadFromRequest, Wired!TypeOK
  <2> QED
    BY <1>9, <2>1 DEF Wired!TypeOK, Wired!Remove, Wired!api
<1>10. CASE Wired!Rejected
  BY <1>5, <1>10 DEF Wired!TypeOK, Wired!Rejected, Wired!host, Wired!api
<1>11. ASSUME wiredHelper.phase \in {"show", "modify", "up"}
       PROVE  wiredHelper.interface \in Interfaces /\ wiredHelper.mode \in Wired!Mode
                /\ Wired!Read \in Wired!Settings
  BY <1>5, <1>11 DEF Wired!ReadFromRequest, Wired!Read, Wired!Settings, Wired!Helper
<1>12. ASSUME NEW state \in {"applying", "applied", "failed"}, shown' = Wired!Show(state),
              wiredHelper.phase \in {"show", "modify", "up"}
       PROVE  shown' \in [Interfaces -> Wired!Shown \cup {None}]
  BY <1>11, <1>12 DEF Wired!Show, Wired!Shown, Wired!TypeOK
<1>13. CASE Wired!Applying
  <2>1. wiredHelper' \in Wired!Helper
    BY <1>5, <1>13 DEF Wired!Applying, Wired!Helper
  <2>2. \A i \in Interfaces : Wired!Beside(i) \subseteq Wired!Settings
    BY DEF Wired!Beside, Wired!TypeOK
  <2>3. spare' \in [Interfaces -> SUBSET Wired!Settings]
    BY <1>13, <2>2 DEF Wired!Applying, Wired!TypeOK
  <2> QED
    BY <1>12, <1>13, <2>1, <2>3 DEF Wired!TypeOK, Wired!Applying, Wired!api
\* A helper that stops may leave a new connection.
<1>24. ASSUME Wired!Leftover PROVE spare' \in [Interfaces -> SUBSET Wired!Settings]
  BY <1>24, DhcpIsSettings DEF Wired!Leftover, Wired!TypeOK
<1>14. CASE Wired!Modify
  <2>1. wiredHelper' \in Wired!Helper
    BY <1>5, <1>14 DEF Wired!Modify, Wired!Helper
  <2>2. Wired!Stored(Wired!Read) \in Wired!Settings
    BY <1>11, <1>14, DhcpIsSettings DEF Wired!Modify
  <2>3. wiredProfile' \in [Interfaces -> Wired!Settings \cup {None}]
    BY <1>11, <1>14, <2>2 DEF Wired!Modify, Wired!TypeOK
  <2> QED
    BY <1>14, <2>1, <2>3 DEF Wired!TypeOK, Wired!Modify, Wired!api
<1>15. CASE Wired!ModifyFails
  BY <1>5, <1>15, <1>24 DEF Wired!TypeOK, Wired!ModifyFails, Wired!api
<1>16. CASE Wired!Up
  <2>1. live' \in [Interfaces -> Wired!Settings \cup {None}]
    BY <1>11, <1>16 DEF Wired!Up, Wired!TypeOK
  <2> QED
    BY <1>5, <1>12, <1>16, <2>1 DEF Wired!TypeOK, Wired!Up, Wired!api
<1>17. ASSUME NEW left \in Wired!Settings \cup {None}, Wired!UpFails(left) PROVE Wired!TypeOK'
  <2>1. live' \in [Interfaces -> Wired!Settings \cup {None}]
    BY <1>11, <1>17 DEF Wired!UpFails, Wired!TypeOK
  <2> QED
    BY <1>5, <1>12, <1>17, <2>1 DEF Wired!TypeOK, Wired!UpFails, Wired!api
<1>18. CASE Wired!Kill
  BY <1>5, <1>18, <1>24 DEF Wired!TypeOK, Wired!Kill, Wired!api
<1>19. CASE Wired!Reboot
  BY <1>5, <1>19, <1>24 DEF Wired!TypeOK, Wired!Reboot
<1>22. ASSUME NEW i \in Interfaces, Wired!Activates(i) PROVE Wired!TypeOK'
  <2>1. PICK set \in (({wiredProfile[i]} \ {None}) \cup spare[i]) :
                 live' = [live EXCEPT ![i] = set]
    BY <1>22 DEF Wired!Activates
  <2>2. set \in Wired!Settings
    BY DEF Wired!TypeOK
  <2>3. live' \in [Interfaces -> Wired!Settings \cup {None}]
    BY <2>1, <2>2 DEF Wired!TypeOK
  <2> QED
    BY <1>22, <2>3 DEF Wired!TypeOK, Wired!Activates, Wired!api
<1>23. ASSUME NEW i \in Interfaces, Wired!LinkLost(i) PROVE Wired!TypeOK'
  BY <1>23 DEF Wired!TypeOK, Wired!LinkLost, Wired!api
<1> QED
  BY <1>0, <1>1, <1>2, <1>3, <1>6, <1>7, <1>8, <1>9, <1>10, <1>13, <1>14, <1>15, <1>16,
     <1>17, <1>18, <1>19, <1>20, <1>21, <1>22, <1>23, WiredSteps

\* Every step keeps each request in one place.
LEMMA WiredPlaces ==
    ASSUME Wired!TypeOK, Wired!TypeOK', Wired!WiredInOnePlace, Wired!ReadFromRequest,
           [Wired!Next]_(Wired!vars)
    PROVE  Wired!WiredInOnePlace'
<1>0. CASE UNCHANGED <<confirmed, posted, draft, wiredRequest, taken>>
  BY <1>0 DEF Wired!WiredInOnePlace
<1>1. ASSUME NEW a \in Asks, NEW ask \in Wired!Ask, Wired!Confirm(a, ask)
    PROVE Wired!WiredInOnePlace'
  <2>1. ask \in [interface : Interfaces, settings : Wired!Settings]
    BY DhcpIsSettings DEF Wired!Ask
  <2>2. ask # None
    BY <2>1, WiredAssumption DEF Wired!WiredConstants
  <2> QED
    BY <1>1, <2>2 DEF Wired!TypeOK, Wired!Confirm, Wired!host, Wired!WiredInOnePlace
<1>2. ASSUME NEW a \in Asks, Wired!Write(a) PROVE Wired!WiredInOnePlace'
  BY <1>2, WiredAssumption DEF Wired!TypeOK, Wired!Write, Wired!host, Wired!WiredInOnePlace,
     Wired!WiredConstants
<1>3. ASSUME NEW a \in Asks, Wired!Replace(a) PROVE Wired!WiredInOnePlace'
  BY <1>3, WiredAssumption DEF Wired!TypeOK, Wired!Replace, Wired!host, Wired!WiredInOnePlace,
     Wired!WiredConstants
<1>4. CASE Wired!Remove
  <2>1. wiredRequest \in Asks /\ wiredRequest # None
    BY <1>4 DEF Wired!Remove, Wired!ReadFromRequest, Wired!TypeOK
  <2>2. None \notin Asks
    BY WiredAssumption DEF Wired!WiredConstants
  <2> QED
    BY <1>4, <2>1, <2>2 DEF Wired!TypeOK, Wired!Remove, Wired!api, Wired!WiredInOnePlace
<1>5. CASE Wired!Reboot
  BY <1>5 DEF Wired!TypeOK, Wired!Reboot, Wired!WiredInOnePlace
<1>6. ASSUME \/ Wired!Start \/ Wired!ReadMode \/ Wired!ReadAddress \/ Wired!ReadGateway
             \/ Wired!ReadServers \/ Wired!Rejected \/ Wired!Applying
             \/ Wired!Modify \/ Wired!ModifyFails \/ Wired!Up \/ Wired!Kill
             \/ \E left \in Wired!Settings \cup {None} : Wired!UpFails(left)
             \/ \E i \in Interfaces : Wired!Activates(i) \/ Wired!LinkLost(i)
      PROVE  UNCHANGED <<confirmed, posted, draft, wiredRequest, taken>>
  BY <1>6 DEF Wired!Start, Wired!ReadMode, Wired!ReadAddress, Wired!ReadGateway,
     Wired!ReadServers, Wired!Rejected, Wired!Applying,
     Wired!Modify, Wired!ModifyFails, Wired!Up, Wired!UpFails, Wired!Kill,
     Wired!Activates, Wired!LinkLost, Wired!api, Wired!host
<1>7. CASE UNCHANGED Wired!vars
  BY <1>0, <1>7 DEF Wired!vars
<1> QED
  BY <1>0, <1>1, <1>2, <1>3, <1>4, <1>5, <1>6, <1>7, WiredSteps

\* What was lost stays lost, what was asked for stays asked.
LEMMA LossesStay ==
    ASSUME Wired!TypeOK, Wired!TypeOK', Wired!WiredInOnePlace, Wired!ReadFromRequest,
           [Wired!Next]_(Wired!vars)
    PROVE  /\ \A a \in Asks : confirmed[a] # None => confirmed'[a] = confirmed[a]
           /\ \A a \in Asks : Wired!Lost(a) => Wired!Lost(a)' /\ confirmed[a] # None
<1>0. CASE UNCHANGED <<confirmed, posted, draft, wiredRequest, taken>>
  BY <1>0 DEF Wired!WiredInOnePlace, Wired!Lost
<1>1. ASSUME NEW a \in Asks, NEW ask \in Wired!Ask, Wired!Confirm(a, ask)
      PROVE  UNCHANGED <<draft, wiredRequest, taken>> /\ confirmed[a] = None
             /\ posted[a] = "new" /\ posted' = [posted EXCEPT ![a] = "confirmed"]
             /\ confirmed' = [confirmed EXCEPT ![a] = ask]
  BY <1>1 DEF Wired!Confirm, Wired!host, Wired!WiredInOnePlace
<1>2. ASSUME NEW a \in Asks, NEW ask \in Wired!Ask, Wired!Confirm(a, ask)
      PROVE  /\ \A b \in Asks : confirmed[b] # None => confirmed'[b] = confirmed[b]
             /\ \A b \in Asks : Wired!Lost(b) => Wired!Lost(b)' /\ confirmed[b] # None
  BY <1>1, <1>2 DEF Wired!TypeOK, Wired!Lost, Wired!WiredInOnePlace
<1>3. ASSUME NEW a \in Asks, Wired!Write(a)
      PROVE  /\ \A b \in Asks : confirmed[b] # None => confirmed'[b] = confirmed[b]
             /\ \A b \in Asks : Wired!Lost(b) => Wired!Lost(b)' /\ confirmed[b] # None
  BY <1>3 DEF Wired!TypeOK, Wired!Lost, Wired!WiredInOnePlace, Wired!Write, Wired!host
<1>4. ASSUME NEW a \in Asks, Wired!Replace(a)
      PROVE  /\ \A b \in Asks : confirmed[b] # None => confirmed'[b] = confirmed[b]
             /\ \A b \in Asks : Wired!Lost(b) => Wired!Lost(b)' /\ confirmed[b] # None
  BY <1>4, WiredAssumption DEF Wired!TypeOK, Wired!Lost, Wired!WiredInOnePlace, Wired!Replace,
     Wired!host, Wired!WiredConstants
<1>5. ASSUME Wired!Remove
      PROVE  /\ \A b \in Asks : confirmed[b] # None => confirmed'[b] = confirmed[b]
             /\ \A b \in Asks : Wired!Lost(b) => Wired!Lost(b)' /\ confirmed[b] # None
  BY <1>5, WiredAssumption DEF Wired!TypeOK, Wired!Lost, Wired!WiredInOnePlace, Wired!Remove,
     Wired!api, Wired!WiredConstants
<1>6. ASSUME Wired!Reboot
      PROVE  /\ \A b \in Asks : confirmed[b] # None => confirmed'[b] = confirmed[b]
             /\ \A b \in Asks : Wired!Lost(b) => Wired!Lost(b)' /\ confirmed[b] # None
  BY <1>6 DEF Wired!TypeOK, Wired!Lost, Wired!WiredInOnePlace, Wired!Reboot
<1>7. ASSUME \/ Wired!Start \/ Wired!ReadMode \/ Wired!ReadAddress \/ Wired!ReadGateway
             \/ Wired!ReadServers \/ Wired!Rejected \/ Wired!Applying
             \/ Wired!Modify \/ Wired!ModifyFails \/ Wired!Up \/ Wired!Kill
             \/ \E left \in Wired!Settings \cup {None} : Wired!UpFails(left)
             \/ \E i \in Interfaces : Wired!Activates(i) \/ Wired!LinkLost(i)
      PROVE  UNCHANGED <<confirmed, posted, draft, wiredRequest, taken>>
  BY <1>7 DEF Wired!Start, Wired!ReadMode, Wired!ReadAddress, Wired!ReadGateway,
     Wired!ReadServers, Wired!Rejected, Wired!Applying,
     Wired!Modify, Wired!ModifyFails, Wired!Up, Wired!UpFails, Wired!Kill,
     Wired!Activates, Wired!LinkLost, Wired!api, Wired!host
<1>8. CASE UNCHANGED Wired!vars
  BY <1>0, <1>8 DEF Wired!vars
<1> QED
  BY <1>0, <1>2, <1>3, <1>4, <1>5, <1>6, <1>7, <1>8, WiredSteps

\* Both after the step.
LostNext(i) == \E a \in Asks : Wired!Lost(a)' /\ confirmed'[a].interface = i
AskedNext(i, set) == \E a \in Asks : confirmed'[a] = [interface |-> i, settings |-> set]
Pair(h) == [mode |-> h.mode, address |-> h.address, gateway |-> h.gateway, dns |-> h.dns]
ReadPhases == {"mode", "address", "gateway", "dns", "remove"}
\* What a helper has read so far is of this request.
ReadSoFar(h, ask) ==
    /\ ask.interface = h.interface
    /\ h.phase # "mode" => ask.settings.mode = h.mode
    /\ h.phase \in {"gateway", "dns", "remove"} => ask.settings.address = h.address
    /\ h.phase \in {"dns", "remove"} => ask.settings.gateway = h.gateway
    /\ h.phase = "remove" => ask.settings.dns = h.dns

\* What the invariant says of the helper before a step.
LEMMA ReadsHold ==
    ASSUME Wired!ReadFromRequest, wiredHelper.phase \in ReadPhases
    PROVE  /\ wiredRequest # None
           /\ \/ Wired!LostWith(wiredHelper.interface)
              \/ ReadSoFar(wiredHelper, confirmed[wiredRequest])
BY DEF Wired!ReadFromRequest, ReadPhases, ReadSoFar

\* What it says after it.
LEMMA ReadsUnfold ==
    Wired!ReadFromRequest' <=>
      /\ wiredHelper'.phase # "idle" => wiredHelper'.interface \in Interfaces
      /\ wiredHelper'.phase \notin {"idle", "mode"} => wiredHelper'.mode \in Wired!Mode
      /\ wiredHelper'.phase \in ReadPhases =>
           /\ wiredRequest' # None
           /\ \/ LostNext(wiredHelper'.interface)
              \/ ReadSoFar(wiredHelper', confirmed'[wiredRequest'])
      /\ wiredHelper'.phase \in {"show", "modify", "up"} =>
           LostNext(wiredHelper'.interface)
             \/ AskedNext(wiredHelper'.interface, Pair(wiredHelper'))
BY DEF Wired!ReadFromRequest, Wired!LostWith, Wired!AskedFor, Wired!Read, LostNext, AskedNext,
   Pair, ReadPhases, ReadSoFar

\* Who lost a request, or asked for settings, stays so.
LEMMA LostOrAskedStays ==
    ASSUME Wired!TypeOK, Wired!TypeOK', Wired!WiredInOnePlace, Wired!ReadFromRequest,
           [Wired!Next]_(Wired!vars),
           NEW i \in Interfaces, NEW set \in Wired!Settings
    PROVE  /\ Wired!LostWith(i) => LostNext(i)
           /\ Wired!AskedFor(i, set) => AskedNext(i, set)
<1>1. ASSUME Wired!LostWith(i) PROVE LostNext(i)
  BY <1>1, LossesStay DEF Wired!LostWith, LostNext
<1>2. ASSUME Wired!AskedFor(i, set)
      PROVE  AskedNext(i, set)
  <2>1. PICK a \in Asks : confirmed[a] = [interface |-> i, settings |-> set]
    BY <1>2 DEF Wired!AskedFor
  <2>2. confirmed[a] # None
    BY <2>1, WiredAskedIsSome
  <2> QED
    BY <2>1, <2>2, LossesStay DEF AskedNext
<1> QED
  BY <1>1, <1>2

\* While the helper reads, only the API and kills change what it reads from.
LEMMA WiredReads ==
    ASSUME Wired!TypeOK, Wired!TypeOK', Wired!WiredInOnePlace, Wired!ReadFromRequest,
           [Wired!Next]_(Wired!vars)
    PROVE  Wired!ReadFromRequest'
<1>0. /\ wiredHelper.phase # "idle" => wiredHelper.interface \in Interfaces
      /\ wiredHelper.phase \notin {"idle", "mode"} => wiredHelper.mode \in Wired!Mode
      /\ wiredHelper \in Wired!Helper /\ None \notin Asks
  BY WiredAssumption DEF Wired!ReadFromRequest, Wired!TypeOK, Wired!WiredConstants
<1>14. wiredHelper.phase # "idle"
         /\ Wired!LostWith(wiredHelper.interface) => LostNext(wiredHelper.interface)
  BY <1>0, LostOrAskedStays, LossesStay DEF Wired!LostWith, LostNext
<1>1. ASSUME wiredHelper.phase \in ReadPhases
      PROVE  /\ wiredRequest \in Asks /\ confirmed[wiredRequest] # None
             /\ wiredHelper.interface \in Interfaces
             /\ \/ LostNext(wiredHelper.interface)
                \/ ReadSoFar(wiredHelper, confirmed[wiredRequest])
  <2>1. wiredRequest \in Asks /\ wiredHelper.phase # "idle"
    BY <1>1, ReadsHold DEF Wired!TypeOK, ReadPhases
  <2>2. confirmed[wiredRequest] # None
    BY <1>0, <2>1 DEF Wired!WiredInOnePlace
  <2> QED
    BY <1>0, <1>1, <1>14, <2>1, <2>2, ReadsHold
<1>15. ASSUME wiredHelper.phase \in {"show", "modify", "up"}
       PROVE  LostNext(wiredHelper.interface)
                \/ AskedNext(wiredHelper.interface, Pair(wiredHelper))
  <2>1. Wired!Read \in Wired!Settings /\ wiredHelper.interface \in Interfaces
    BY <1>0, <1>15 DEF Wired!Read, Wired!Settings, Wired!Helper
  <2>2. Wired!LostWith(wiredHelper.interface) \/ Wired!AskedFor(wiredHelper.interface, Wired!Read)
    BY <1>15 DEF Wired!ReadFromRequest
  <2> QED
    BY <2>1, <2>2, LostOrAskedStays DEF Wired!Read, Pair
<1>2. ASSUME wiredHelper' = wiredHelper, wiredRequest' = wiredRequest,
             wiredHelper.phase \in ReadPhases =>
               confirmed'[wiredRequest] = confirmed[wiredRequest]
      PROVE  Wired!ReadFromRequest'
  <2>1. ASSUME wiredHelper.phase \in ReadPhases
        PROVE  /\ wiredRequest # None
               /\ \/ LostNext(wiredHelper.interface)
                  \/ ReadSoFar(wiredHelper, confirmed'[wiredRequest])
    BY <1>0, <1>1, <1>2, <2>1
  <2> QED
    BY <1>0, <1>2, <1>15, <2>1, ReadsUnfold
<1>3. CASE UNCHANGED Wired!vars
  BY <1>2, <1>3 DEF Wired!vars
<1>4. ASSUME NEW a \in Asks, NEW ask \in Wired!Ask, Wired!Confirm(a, ask)
    PROVE Wired!ReadFromRequest'
  BY <1>1, <1>2, <1>4, LossesStay DEF Wired!Confirm
<1>5. ASSUME NEW a \in Asks, Wired!Write(a) PROVE Wired!ReadFromRequest'
  BY <1>2, <1>5 DEF Wired!Write
\* The request that is replaced is lost.
<1>6. ASSUME NEW a \in Asks, Wired!Replace(a) PROVE Wired!ReadFromRequest'
  <2>1. CASE wiredRequest' = wiredRequest
    BY <1>2, <1>6, <2>1 DEF Wired!Replace
  <2>2. CASE wiredRequest' = draft /\ draft # None
    <3>1. ASSUME wiredHelper.phase \in ReadPhases
          PROVE  LostNext(wiredHelper.interface)
      <4>1. CASE LostNext(wiredHelper.interface)
        BY <4>1
      <4>2. CASE confirmed[wiredRequest].interface = wiredHelper.interface
        <5>1. wiredRequest \in Asks /\ posted[wiredRequest] \in {"written", "over"}
          BY <1>0, <1>1, <3>1, ReadsHold DEF Wired!WiredInOnePlace
        <5>2. wiredRequest # draft /\ wiredRequest \notin taken
          BY <1>0, <5>1 DEF Wired!WiredInOnePlace
        <5>3. PICK b \in Asks : b = wiredRequest
          BY <5>1
        <5>4. Wired!Lost(b)'
          BY <1>0, <1>6, <2>2, <5>1, <5>2, <5>3 DEF Wired!Lost, Wired!Replace, Wired!host,
             Wired!TypeOK
        <5> QED
          BY <1>6, <4>2, <5>3, <5>4 DEF LostNext, Wired!Replace
      <4> QED
        BY <1>1, <3>1, <4>1, <4>2 DEF ReadSoFar
    <3>2. wiredHelper' = wiredHelper /\ confirmed' = confirmed
      BY <1>6 DEF Wired!Replace
    <3> QED
      BY <1>0, <1>15, <2>2, <3>1, <3>2, ReadsUnfold
  <2> QED
    BY <1>6, <2>1, <2>2 DEF Wired!Replace
\* From here on only the helper moves.
<1>7. CASE Wired!Start
  <2>1. wiredRequest \in Asks /\ confirmed[wiredRequest] # None
    BY <1>7 DEF Wired!Start, Wired!TypeOK, Wired!WiredInOnePlace
  <2>2. confirmed[wiredRequest].interface \in Interfaces
    BY <2>1, WiredAsked
  <2>3. wiredHelper'.phase = "mode" /\ wiredHelper'.interface = confirmed[wiredRequest].interface
    BY <1>7 DEF Wired!Start, Wired!Idle
  <2>4. wiredRequest' = wiredRequest /\ confirmed' = confirmed /\ wiredRequest # None
    BY <1>0, <1>7, <2>1 DEF Wired!Start, Wired!api
  <2>5. ReadSoFar(wiredHelper', confirmed'[wiredRequest'])
    BY <2>3, <2>4 DEF ReadSoFar
  <2> QED
    BY <2>2, <2>3, <2>4, <2>5, ReadsUnfold
\* Each field read is the one of the request that is there.
<1>16. ASSUME wiredHelper.phase \in ReadPhases, wiredHelper'.phase \in ReadPhases,
              wiredHelper'.interface = wiredHelper.interface,
              wiredHelper'.mode \in Wired!Mode,
              wiredRequest' = wiredRequest, confirmed' = confirmed,
              ReadSoFar(wiredHelper, confirmed[wiredRequest])
                => ReadSoFar(wiredHelper', confirmed[wiredRequest])
       PROVE  Wired!ReadFromRequest'
  <2>1. wiredHelper'.phase \notin {"idle", "show", "modify", "up"}
    BY <1>16 DEF ReadPhases
  <2>2. wiredRequest # None /\ wiredHelper.interface \in Interfaces
    BY <1>0, <1>1, <1>16
  <2>3. LostNext(wiredHelper.interface) \/ ReadSoFar(wiredHelper, confirmed[wiredRequest])
    BY <1>1, <1>16
  <2> QED
    BY <1>16, <2>1, <2>2, <2>3, ReadsUnfold
<1>8. CASE Wired!ReadMode
  <2>1. /\ wiredHelper.phase = "mode" /\ wiredHelper'.phase = "address"
        /\ wiredHelper'.interface = wiredHelper.interface
        /\ wiredHelper'.mode = confirmed[wiredRequest].settings.mode
    BY <1>0, <1>8 DEF Wired!ReadMode, Wired!Helper
  <2>2. wiredRequest' = wiredRequest /\ confirmed' = confirmed
    BY <1>8 DEF Wired!ReadMode, Wired!api
  <2>3. confirmed[wiredRequest].settings.mode \in Wired!Mode
    BY <1>1, <2>1, WiredAsked DEF ReadPhases
  <2>4. ReadSoFar(wiredHelper, confirmed[wiredRequest])
          => ReadSoFar(wiredHelper', confirmed[wiredRequest])
    BY <2>1 DEF ReadSoFar
  <2> QED
    BY <1>16, <2>1, <2>2, <2>3, <2>4 DEF ReadPhases
<1>9. CASE Wired!ReadAddress
  <2>1. /\ wiredHelper.phase = "address" /\ wiredHelper'.phase = "gateway"
        /\ wiredHelper'.interface = wiredHelper.interface
        /\ wiredHelper'.mode = wiredHelper.mode
        /\ wiredHelper'.address = confirmed[wiredRequest].settings.address
    BY <1>0, <1>9 DEF Wired!ReadAddress, Wired!Helper
  <2>2. wiredRequest' = wiredRequest /\ confirmed' = confirmed
    BY <1>9 DEF Wired!ReadAddress, Wired!api
  <2>3. ReadSoFar(wiredHelper, confirmed[wiredRequest])
          => ReadSoFar(wiredHelper', confirmed[wiredRequest])
    BY <2>1 DEF ReadSoFar
  <2> QED
    BY <1>0, <1>16, <2>1, <2>2, <2>3 DEF ReadPhases
<1>17. CASE Wired!ReadGateway
  <2>1. /\ wiredHelper.phase = "gateway" /\ wiredHelper'.phase = "dns"
        /\ wiredHelper'.interface = wiredHelper.interface
        /\ wiredHelper'.mode = wiredHelper.mode
        /\ wiredHelper'.address = wiredHelper.address
        /\ wiredHelper'.gateway = confirmed[wiredRequest].settings.gateway
    BY <1>0, <1>17 DEF Wired!ReadGateway, Wired!Helper
  <2>2. wiredRequest' = wiredRequest /\ confirmed' = confirmed
    BY <1>17 DEF Wired!ReadGateway, Wired!api
  <2>3. ReadSoFar(wiredHelper, confirmed[wiredRequest])
          => ReadSoFar(wiredHelper', confirmed[wiredRequest])
    BY <2>1 DEF ReadSoFar
  <2> QED
    BY <1>0, <1>16, <2>1, <2>2, <2>3 DEF ReadPhases
<1>18. CASE Wired!ReadServers
  <2>1. /\ wiredHelper.phase = "dns" /\ wiredHelper'.phase = "remove"
        /\ wiredHelper'.interface = wiredHelper.interface
        /\ wiredHelper'.mode = wiredHelper.mode
        /\ wiredHelper'.address = wiredHelper.address
        /\ wiredHelper'.gateway = wiredHelper.gateway
        /\ wiredHelper'.dns = confirmed[wiredRequest].settings.dns
    BY <1>0, <1>18 DEF Wired!ReadServers, Wired!Helper
  <2>2. wiredRequest' = wiredRequest /\ confirmed' = confirmed
    BY <1>18 DEF Wired!ReadServers, Wired!api
  <2>3. ReadSoFar(wiredHelper, confirmed[wiredRequest])
          => ReadSoFar(wiredHelper', confirmed[wiredRequest])
    BY <2>1 DEF ReadSoFar
  <2> QED
    BY <1>0, <1>16, <2>1, <2>2, <2>3 DEF ReadPhases
<1>10. CASE Wired!Remove
  <2>1. /\ wiredRequest \in Asks /\ confirmed[wiredRequest] # None
        /\ wiredHelper.phase = "remove" /\ wiredHelper.interface \in Interfaces
        /\ wiredHelper.mode \in Wired!Mode
        /\ LostNext(wiredHelper.interface) \/ ReadSoFar(wiredHelper, confirmed[wiredRequest])
    BY <1>0, <1>1, <1>10 DEF Wired!Remove, ReadPhases
  <2>2. /\ wiredHelper'.phase = "show" /\ wiredHelper'.interface = wiredHelper.interface
        /\ wiredHelper'.mode = wiredHelper.mode /\ wiredHelper'.address = wiredHelper.address
        /\ wiredHelper'.gateway = wiredHelper.gateway /\ wiredHelper'.dns = wiredHelper.dns
        /\ confirmed' = confirmed
    BY <1>0, <1>10 DEF Wired!Remove, Wired!Helper, Wired!api
  <2>3. ASSUME ReadSoFar(wiredHelper, confirmed[wiredRequest])
        PROVE  confirmed[wiredRequest] =
                 [interface |-> wiredHelper.interface, settings |-> Pair(wiredHelper)]
    <3> DEFINE ask == confirmed[wiredRequest]
    <3>1. ask \in [interface : Interfaces, settings : Wired!Settings]
      BY <2>1, WiredAsked DEF Wired!Ask
    <3>2. ask.settings = Pair(wiredHelper)
      <4>1. ask.settings \in Wired!Settings
        BY <3>1
      <4> QED
        BY <2>1, <2>3, <4>1 DEF ReadSoFar, Pair, Wired!Settings
    <3>3. ask.interface = wiredHelper.interface
      BY <2>3 DEF ReadSoFar
    <3> HIDE DEF ask
    <3> QED
      BY <3>1, <3>2, <3>3 DEF ask
  <2>5. LostNext(wiredHelper.interface) \/ AskedNext(wiredHelper.interface, Pair(wiredHelper))
    BY <2>1, <2>2, <2>3 DEF AskedNext
  <2>6. Pair(wiredHelper') = Pair(wiredHelper)
    BY <2>2 DEF Pair
  <2> QED
    BY <2>1, <2>2, <2>5, <2>6, ReadsUnfold DEF ReadPhases
<1>11. ASSUME wiredHelper.phase \in {"show", "modify"}, wiredHelper'.phase \in {"modify", "up"},
              wiredHelper'.interface = wiredHelper.interface,
              wiredHelper'.mode = wiredHelper.mode,
              Pair(wiredHelper') = Pair(wiredHelper)
       PROVE  Wired!ReadFromRequest'
  <2>1. LostNext(wiredHelper'.interface) \/ AskedNext(wiredHelper'.interface, Pair(wiredHelper'))
    BY <1>11, <1>15
  <2> QED
    BY <1>0, <1>11, <2>1, ReadsUnfold DEF ReadPhases
<1>12. CASE Wired!Applying \/ Wired!Modify
  <2>1. /\ wiredHelper.phase \in {"show", "modify"} /\ wiredHelper'.phase \in {"modify", "up"}
        /\ wiredHelper'.interface = wiredHelper.interface /\ wiredHelper'.mode = wiredHelper.mode
        /\ Pair(wiredHelper') = Pair(wiredHelper)
    BY <1>0, <1>12 DEF Wired!Applying, Wired!Modify, Wired!Helper, Pair
  <2> QED
    BY <1>11, <2>1
<1>19. ASSUME NEW i \in Interfaces, Wired!Activates(i) \/ Wired!LinkLost(i)
       PROVE  Wired!ReadFromRequest'
  BY <1>2, <1>19 DEF Wired!Activates, Wired!LinkLost, Wired!api
<1>13. ASSUME \/ Wired!Rejected \/ Wired!ModifyFails \/ Wired!Up \/ Wired!Kill \/ Wired!Reboot
              \/ \E left \in Wired!Settings \cup {None} : Wired!UpFails(left)
       PROVE  Wired!ReadFromRequest'
  <2>1. wiredHelper' = Wired!Idle
    BY <1>13 DEF Wired!Rejected, Wired!ModifyFails, Wired!Up, Wired!UpFails, Wired!Kill,
       Wired!Reboot
  <2> QED
    BY <2>1, ReadsUnfold DEF Wired!Idle, ReadPhases
<1> QED
  BY <1>3, <1>4, <1>5, <1>6, <1>7, <1>8, <1>9, <1>10, <1>12, <1>13, <1>17, <1>18, <1>19,
     WiredSteps

\* While the helper applies settings, the panel shows none as applied.
LEMMA WiredShown ==
    ASSUME Wired!TypeOK, Wired!TypeOK', Wired!WiredInOnePlace, Wired!ReadFromRequest,
           Wired!ShownWhileApplied, [Wired!Next]_(Wired!vars)
    PROVE  Wired!ShownWhileApplied'
<1>0. /\ wiredHelper \in Wired!Helper
      /\ wiredHelper.phase # "idle" => wiredHelper.interface \in Interfaces
  BY DEF Wired!ReadFromRequest, Wired!TypeOK
<1>1. CASE wiredHelper' = wiredHelper /\ UNCHANGED <<shown, wiredProfile>>
  BY <1>1 DEF Wired!ShownWhileApplied, Wired!Read, Wired!Stored
<1>2. CASE wiredHelper'.phase \notin {"modify", "up"}
  BY <1>2 DEF Wired!ShownWhileApplied
<1>3. CASE Wired!Applying
  <2>1. /\ wiredHelper'.phase = "modify" /\ wiredHelper'.interface = wiredHelper.interface
        /\ wiredHelper'.mode = wiredHelper.mode /\ wiredHelper'.address = wiredHelper.address
        /\ wiredHelper'.gateway = wiredHelper.gateway /\ wiredHelper'.dns = wiredHelper.dns
    BY <1>0, <1>3 DEF Wired!Applying, Wired!Helper
  <2>2. shown'[wiredHelper.interface] = [settings |-> Wired!Read, state |-> "applying"]
    BY <1>0, <1>3 DEF Wired!Applying, Wired!Show, Wired!TypeOK
  <2> QED
    BY <2>1, <2>2 DEF Wired!ShownWhileApplied, Wired!Read
<1>4. CASE Wired!Modify
  <2>1. /\ wiredHelper'.phase = "up" /\ wiredHelper'.interface = wiredHelper.interface
        /\ wiredHelper'.mode = wiredHelper.mode /\ wiredHelper'.address = wiredHelper.address
        /\ wiredHelper'.gateway = wiredHelper.gateway /\ wiredHelper'.dns = wiredHelper.dns
        /\ shown' = shown
    BY <1>0, <1>4 DEF Wired!Modify, Wired!Helper
  <2>2. wiredProfile'[wiredHelper.interface] = Wired!Stored(Wired!Read)
    BY <1>0, <1>4 DEF Wired!Modify, Wired!TypeOK
  <2>3. (Wired!Read)' = Wired!Read
    BY <2>1 DEF Wired!Read
  <2>4. Wired!Stored(Wired!Read)' = Wired!Stored(Wired!Read)
    BY <2>3 DEF Wired!Stored
  <2>5. shown[wiredHelper.interface] = [settings |-> Wired!Read, state |-> "applying"]
    BY <1>4 DEF Wired!ShownWhileApplied, Wired!Modify
  <2> QED
    BY <2>1, <2>2, <2>3, <2>4, <2>5 DEF Wired!ShownWhileApplied
<1>5. ASSUME NEW a \in Asks, NEW ask \in Wired!Ask, Wired!Confirm(a, ask)
      PROVE  wiredHelper' = wiredHelper /\ UNCHANGED <<shown, wiredProfile>>
  BY <1>5 DEF Wired!Confirm, Wired!host
<1>6. ASSUME NEW a \in Asks, Wired!Write(a) \/ Wired!Replace(a)
      PROVE  wiredHelper' = wiredHelper /\ UNCHANGED <<shown, wiredProfile>>
  BY <1>6 DEF Wired!Write, Wired!Replace, Wired!host
<1>7. ASSUME \/ Wired!Start \/ Wired!ReadMode \/ Wired!ReadAddress \/ Wired!ReadGateway
             \/ Wired!ReadServers \/ Wired!Remove \/ Wired!Rejected \/ Wired!ModifyFails \/ Wired!Up \/ Wired!Kill
             \/ Wired!Reboot \/ \E left \in Wired!Settings \cup {None} : Wired!UpFails(left)
      PROVE  wiredHelper'.phase \notin {"modify", "up"}
  <2>1. CASE \/ Wired!Start \/ Wired!ReadMode \/ Wired!ReadAddress \/ Wired!ReadGateway
             \/ Wired!ReadServers \/ Wired!Remove
    BY <1>0, <2>1 DEF Wired!Start, Wired!ReadMode, Wired!ReadAddress, Wired!ReadGateway,
       Wired!ReadServers, Wired!Remove, Wired!Idle, Wired!Helper
  <2>2. ASSUME \/ Wired!Rejected \/ Wired!ModifyFails \/ Wired!Up \/ Wired!Kill \/ Wired!Reboot
               \/ \E left \in Wired!Settings \cup {None} : Wired!UpFails(left)
        PROVE  wiredHelper' = Wired!Idle
    BY <2>2 DEF Wired!Rejected, Wired!ModifyFails, Wired!Up, Wired!UpFails, Wired!Kill,
       Wired!Reboot
  <2> QED
    BY <1>7, <2>1, <2>2 DEF Wired!Idle
<1>8. CASE UNCHANGED Wired!vars
  BY <1>1, <1>8 DEF Wired!vars
<1>9. ASSUME NEW i \in Interfaces, Wired!Activates(i) \/ Wired!LinkLost(i)
      PROVE  wiredHelper' = wiredHelper /\ UNCHANGED <<shown, wiredProfile>>
  BY <1>9 DEF Wired!Activates, Wired!LinkLost
<1> QED
  BY <1>1, <1>2, <1>3, <1>4, <1>5, <1>6, <1>7, <1>8, <1>9, WiredSteps

\* A profile is as asked for, or cost somebody a request.
LEMMA WiredMixture ==
    ASSUME Wired!TypeOK, Wired!TypeOK', Wired!WiredInOnePlace, Wired!ReadFromRequest,
           Wired!MixtureLosesOne, [Wired!Next]_(Wired!vars)
    PROVE  Wired!MixtureLosesOne'
<1> SUFFICES ASSUME NEW i \in Interfaces, wiredProfile'[i] # None
             PROVE  \/ \E a \in Asks : Wired!Lost(a)' /\ confirmed'[a].interface = i
                    \/ \E a \in Asks :
                         confirmed'[a] = [interface |-> i, settings |-> wiredProfile'[i]]
  BY DEF Wired!MixtureLosesOne, Wired!AskedFor
<1>1. CASE wiredProfile'[i] = wiredProfile[i]
  <2>1. wiredProfile[i] \in Wired!Settings
    BY <1>1 DEF Wired!TypeOK
  <2>2. Wired!LostWith(i) \/ Wired!AskedFor(i, wiredProfile[i])
    BY <1>1 DEF Wired!MixtureLosesOne, Wired!LostWith
  <2> QED
    BY <1>1, <2>1, <2>2, LostOrAskedStays DEF LostNext, AskedNext
<1>2. CASE Wired!Modify /\ i = wiredHelper.interface
  <2>1. /\ wiredHelper \in Wired!Helper /\ wiredHelper.phase = "modify"
        /\ wiredHelper.mode \in Wired!Mode
        /\ wiredHelper.mode = "static" => wiredHelper.address # None
    BY <1>2 DEF Wired!Modify, Wired!ReadFromRequest, Wired!TypeOK
  <2>2. wiredProfile'[i] = Wired!Stored(Wired!Read)
    BY <1>2 DEF Wired!Modify, Wired!TypeOK
  <2>3. Wired!Read \in Wired!Settings
    BY <2>1 DEF Wired!Read, Wired!Settings, Wired!Helper
  <2>4. Wired!LostWith(i) \/ Wired!AskedFor(i, Wired!Read)
    BY <1>2, <2>1 DEF Wired!ReadFromRequest
  <2>5. ASSUME Wired!AskedFor(i, Wired!Read) PROVE wiredProfile'[i] = Wired!Read
    <3>1. PICK a \in Asks : confirmed[a] = [interface |-> i, settings |-> Wired!Read]
      BY <2>5 DEF Wired!AskedFor
    <3>2. confirmed[a] # None
      BY <2>3, <3>1, WiredAskedIsSome
    <3>3. confirmed[a].settings.mode = "dhcp" => confirmed[a].settings = Wired!Dhcp
      BY <3>2, WiredAsked
    <3>4. confirmed[a].settings = Wired!Read
      BY <3>1
    <3> QED
      BY <2>2, <3>3, <3>4 DEF Wired!Stored
  <2> QED
    BY <2>3, <2>4, <2>5, LostOrAskedStays DEF LostNext, AskedNext
<1>3. ASSUME ~Wired!Modify PROVE wiredProfile' = wiredProfile
  <2>1. CASE UNCHANGED Wired!vars
    BY <2>1 DEF Wired!vars
  <2>2. ASSUME NEW a \in Asks, NEW ask \in Wired!Ask, Wired!Confirm(a, ask)
      PROVE wiredProfile' = wiredProfile
    BY <2>2 DEF Wired!Confirm, Wired!host
  <2>3. ASSUME NEW a \in Asks, Wired!Write(a) \/ Wired!Replace(a)
      PROVE wiredProfile' = wiredProfile
    BY <2>3 DEF Wired!Write, Wired!Replace, Wired!host
  <2>4. ASSUME \/ Wired!Start \/ Wired!ReadMode \/ Wired!ReadAddress \/ Wired!ReadGateway
               \/ Wired!ReadServers \/ Wired!Remove \/ Wired!Rejected \/ Wired!Applying \/ Wired!ModifyFails \/ Wired!Up
               \/ Wired!Kill \/ Wired!Reboot
               \/ \E left \in Wired!Settings \cup {None} : Wired!UpFails(left)
               \/ \E k \in Interfaces : Wired!Activates(k) \/ Wired!LinkLost(k)
        PROVE  wiredProfile' = wiredProfile
    BY <2>4 DEF Wired!Start, Wired!ReadMode, Wired!ReadAddress, Wired!ReadGateway,
       Wired!ReadServers, Wired!Remove, Wired!Rejected, Wired!Applying, Wired!ModifyFails,
       Wired!Up, Wired!UpFails, Wired!Kill, Wired!Reboot, Wired!Activates, Wired!LinkLost,
       Wired!host
  <2> QED
    BY <1>3, <2>1, <2>2, <2>3, <2>4, WiredSteps
<1>4. ASSUME Wired!Modify, i # wiredHelper.interface PROVE wiredProfile'[i] = wiredProfile[i]
  BY <1>4 DEF Wired!Modify, Wired!TypeOK
<1> QED
  BY <1>1, <1>2, <1>3, <1>4

\* Settings shown as applied are stored, and no others are in force.
LEMMA WiredLive ==
    ASSUME Wired!TypeOK, Wired!TypeOK', Wired!ReadFromRequest, Wired!ShownWhileApplied,
           Wired!AppliedIsLive, [Wired!Next]_(Wired!vars)
    PROVE  Wired!AppliedIsLive'
<1> DEFINE Applied(s, l, p, o) ==
             s # None /\ s.state = "applied" =>
               p = Wired!Stored(s.settings) /\ l \in {None, p} \cup o
<1>0. Wired!AppliedIsLive <=>
        \A i \in Interfaces : Applied(shown[i], live[i], wiredProfile[i], spare[i])
  BY DEF Wired!AppliedIsLive
<1>1. Wired!AppliedIsLive' <=>
        \A i \in Interfaces : Applied(shown'[i], live'[i], wiredProfile'[i], spare'[i])
  BY DEF Wired!AppliedIsLive
\* Other connections are never removed.
<1>14. ASSUME Wired!Leftover
       PROVE  \A i \in Interfaces : spare[i] \subseteq spare'[i]
  BY <1>14 DEF Wired!Leftover, Wired!TypeOK
<1>2. CASE UNCHANGED <<shown, live, wiredProfile, spare>>
  BY <1>0, <1>1, <1>2
<1>3. ASSUME wiredHelper.phase \in {"show", "modify", "up"}
      PROVE  wiredHelper.interface \in Interfaces /\ wiredHelper.mode \in Wired!Mode
  BY <1>3 DEF Wired!ReadFromRequest
<1>4. CASE Wired!Applying
  <2>1. shown'[wiredHelper.interface].state # "applied"
    BY <1>3, <1>4 DEF Wired!Applying, Wired!Show, Wired!TypeOK
  <2>2. /\ live' = live /\ wiredProfile' = wiredProfile
        /\ \A i \in Interfaces \ {wiredHelper.interface} :
             shown'[i] = shown[i] /\ spare'[i] = spare[i]
    BY <1>4 DEF Wired!Applying, Wired!Show, Wired!TypeOK
  <2> QED
    BY <1>0, <1>1, <2>1, <2>2
<1>5. CASE Wired!Modify
  <2>1. shown[wiredHelper.interface].state # "applied"
    BY <1>5 DEF Wired!Modify, Wired!ShownWhileApplied
  <2> QED
    BY <1>0, <1>1, <1>3, <1>5, <2>1 DEF Wired!Modify, Wired!TypeOK
<1>6. CASE Wired!Up
  <2>1. wiredProfile[wiredHelper.interface] = Wired!Stored(Wired!Read)
    BY <1>6 DEF Wired!Up, Wired!ShownWhileApplied
  <2>3. shown'[wiredHelper.interface] = [settings |-> Wired!Read, state |-> "applied"]
        /\ live'[wiredHelper.interface] = wiredProfile[wiredHelper.interface]
        /\ wiredProfile' = wiredProfile /\ spare' = spare
    BY <1>3, <1>6 DEF Wired!Up, Wired!Show, Wired!TypeOK
  <2>4. \A i \in Interfaces \ {wiredHelper.interface} : shown'[i] = shown[i] /\ live'[i] = live[i]
    BY <1>6 DEF Wired!Up, Wired!Show, Wired!TypeOK
  <2> QED
    BY <1>0, <1>1, <1>3, <1>6, <2>1, <2>3, <2>4 DEF Wired!Up
<1>7. ASSUME NEW left \in Wired!Settings \cup {None}, Wired!UpFails(left)
    PROVE Wired!AppliedIsLive'
  BY <1>0, <1>1, <1>3, <1>7 DEF Wired!UpFails, Wired!Show, Wired!TypeOK
<1>8. CASE Wired!Reboot
  <2>1. /\ shown' = shown /\ wiredProfile' = wiredProfile
        /\ \A i \in Interfaces : live'[i] = None
    BY <1>8 DEF Wired!Reboot
  <2> QED
    BY <1>0, <1>1, <2>1
<1>15. CASE Wired!ModifyFails \/ Wired!Kill
  <2>1. /\ shown' = shown /\ wiredProfile' = wiredProfile /\ live' = live
        /\ \A i \in Interfaces : spare[i] \subseteq spare'[i]
    BY <1>14, <1>15 DEF Wired!ModifyFails, Wired!Kill
  <2> QED
    BY <1>0, <1>1, <2>1
<1>9. CASE UNCHANGED Wired!vars
  BY <1>2, <1>9 DEF Wired!vars
<1>10. ASSUME NEW a \in Asks, NEW ask \in Wired!Ask, Wired!Confirm(a, ask)
    PROVE UNCHANGED <<shown, live, wiredProfile, spare>>
  BY <1>10 DEF Wired!Confirm, Wired!host
<1>11. ASSUME NEW a \in Asks, Wired!Write(a) \/ Wired!Replace(a)
    PROVE UNCHANGED <<shown, live, wiredProfile, spare>>
  BY <1>11 DEF Wired!Write, Wired!Replace, Wired!host
<1>12. ASSUME \/ Wired!Start \/ Wired!ReadMode \/ Wired!ReadAddress \/ Wired!ReadGateway
              \/ Wired!ReadServers \/ Wired!Remove \/ Wired!Rejected
      PROVE  UNCHANGED <<shown, live, wiredProfile, spare>>
  BY <1>12 DEF Wired!Start, Wired!ReadMode, Wired!ReadAddress, Wired!ReadGateway,
     Wired!ReadServers, Wired!Remove, Wired!Rejected, Wired!host
\* NetworkManager runs a connection it has, or nothing.
<1>13. ASSUME NEW k \in Interfaces, Wired!Activates(k) \/ Wired!LinkLost(k)
       PROVE  Wired!AppliedIsLive'
  <2>1. /\ shown' = shown /\ wiredProfile' = wiredProfile /\ spare' = spare
        /\ \A i \in Interfaces : live'[i] \in {live[i], None, wiredProfile[i]} \cup spare[i]
    BY <1>13 DEF Wired!Activates, Wired!LinkLost, Wired!TypeOK
  <2> QED
    BY <1>0, <1>1, <2>1
<1> QED
  BY <1>2, <1>4, <1>5, <1>6, <1>7, <1>8, <1>9, <1>10, <1>11, <1>12, <1>13, <1>15,
     WiredSteps

\* The invariant is kept by every step.
LEMMA WiredInductive == Wired!IInv /\ [Wired!Next]_(Wired!vars) => Wired!IInv'
<1> SUFFICES ASSUME Wired!IInv, [Wired!Next]_(Wired!vars) PROVE Wired!IInv'
  OBVIOUS
<1> USE DEF Wired!IInv
<1>1. Wired!TypeOK'
  BY WiredTypes
<1>2. Wired!WiredInOnePlace'
  BY <1>1, WiredPlaces
<1>3. Wired!ReadFromRequest'
  BY <1>1, WiredReads
<1>4. Wired!ShownWhileApplied'
  BY <1>1, WiredShown
<1>5. Wired!MixtureLosesOne'
  BY <1>1, WiredMixture
<1>6. Wired!AppliedIsLive'
  BY <1>1, WiredLive
<1> QED
  BY <1>1, <1>2, <1>3, <1>4, <1>5, <1>6

\* The invariant of the wired interfaces holds for ever.
LEMMA WiredForever == Wired!Init /\ [][Wired!Next]_(Wired!vars) => []Wired!IInv
  BY WiredInductive, WiredInitial, PTL

-----------------------------------------------------------------------------
(* ACCESS TO THE CUSTOMER'S NETWORK.                                       *)

\* At first the access is closed.
LEMMA AccessInitial == Access!Init => Access!IInv
<1> SUFFICES ASSUME Access!Init PROVE Access!IInv
  OBVIOUS
<1>1. Access!TypeOK
  BY DEF Access!Init, Access!TypeOK, Access!Off, Access!Policy, Access!Allowed, Access!Offer
<1>2. Access!JobDone /\ Access!OptionsAreServed /\ Access!StatusIsSaved
        /\ accessConfig.networks = limits
  BY DEF Access!Init, Access!JobDone, Access!OptionsAreServed, Access!StatusIsSaved, Access!Off
<1>3. Access!PolicyInForce
  BY DEF Access!Init, Access!PolicyInForce, Access!Off
<1> QED
  BY <1>1, <1>2, <1>3 DEF Access!IInv

\* The fields of a helper, and what becomes of one that fails.
LEMMA AccessHelpers ==
    ASSUME Access!TypeOK, accessJob # None
    PROVE  /\ accessJob \in Access!Job /\ accessJob.policy \in Access!Policy
           /\ accessJob.policy.enabled \in BOOLEAN
           /\ accessJob.policy.networks \in Access!Allowed /\ accessJob.closing \in BOOLEAN
           /\ accessJob.error \in BOOLEAN
           /\ Access!RulesOf(accessJob.policy) \in Access!Rule
           /\ Access!OfferOf(accessJob.policy) \in Access!Offer
           /\ \A p \in {"rules", "options", "restart", "save", "status"} :
                [accessJob EXCEPT !.phase = p] \in Access!Job
           /\ Access!Fails \in Access!Job \cup {None}
<1>1. accessJob \in Access!Job
  BY DEF Access!TypeOK
<1>2. Access!Off \in Access!Policy
  BY DEF Access!Off, Access!Policy, Access!Allowed
<1> QED
  BY <1>1, <1>2 DEF Access!Job, Access!Policy, Access!RulesOf, Access!OfferOf, Access!Rule,
     Access!Offer, Access!Fails

LEMMA AccessFails ==
    ASSUME Access!TypeOK, Access!JobDone, accessJob # None
    PROVE  /\ ~accessJob.closing =>
                /\ Access!Fails # None /\ Access!Fails.phase = "rules"
                /\ Access!Fails.policy = Access!Off
                /\ Access!Fails.closing /\ Access!Fails.error
                /\ Access!Fails.kind = accessJob.kind
                /\ Access!Doubtful = {}
           /\ accessJob.closing /\ accessJob.kind # "panel" =>
                /\ Access!Fails # None /\ Access!Fails.phase = "status" /\ Access!Fails.closing
                /\ Access!Fails.error
                /\ Access!Fails.policy = Access!Off /\ Access!Fails.kind = accessJob.kind
                /\ Access!Doubtful = {"rules"}
           /\ accessJob.closing /\ accessJob.kind = "panel" => Access!Fails = None
                /\ Access!Doubtful = {"rules", "status"}
<1>1. accessJob \in Access!Job /\ accessJob.closing \in BOOLEAN
  BY AccessHelpers
<1>2. CASE ~accessJob.closing
  <2>1. Access!Fails =
          [accessJob EXCEPT !.phase = "rules", !.policy = Access!Off, !.closing = TRUE,
            !.error = TRUE]
    BY <1>2 DEF Access!Fails
  <2>2. Access!Fails \in Access!Job
    BY <1>1, <2>1 DEF Access!Job, Access!Off, Access!Policy, Access!Allowed
  <2> QED
    BY <1>1, <1>2, <2>1, <2>2, AccessAssumption DEF Access!Job, Access!AccessConstants,
       Access!Doubtful
<1>3. CASE accessJob.closing /\ accessJob.kind # "panel"
  <2>1. Access!Fails = [accessJob EXCEPT !.phase = "status", !.error = TRUE]
    BY <1>3 DEF Access!Fails
  <2>2. Access!Fails \in Access!Job
    BY <1>1, <2>1 DEF Access!Job
  <2> QED
    BY <1>1, <1>3, <2>1, <2>2, AccessAssumption DEF Access!Job, Access!AccessConstants,
       Access!Doubtful, Access!JobDone
<1>4. CASE accessJob.closing /\ accessJob.kind = "panel"
  BY <1>4 DEF Access!Fails, Access!Doubtful
<1> QED
  BY <1>2, <1>3, <1>4

\* The steps, one by one.
LEMMA AccessSteps ==
    ASSUME Access!Next
    PROVE  \/ \E policy \in Access!Policy : Access!Submit(policy)
           \/ Access!StartRequest \/ Access!StartBoot \/ Access!StartRefresh
           \/ \E turned \in BOOLEAN : Access!StartPanel(turned)
           \/ Access!Rules \/ Access!Options \/ Access!OptionsFail \/ Access!Restart
           \/ Access!Save \/ Access!SaveFails
           \/ Access!WriteStatus \/ Access!StatusFails
           \/ \E halfway \in BOOLEAN : Access!RulesFail(halfway)
           \/ \E left \in Access!Offer \cup {None} : Access!RestartFails(left)
           \/ Access!Kill \/ Access!Reboot
BY DEF Access!Next, Access!Apply

\* Every step keeps the types.
LEMMA AccessTypes ==
    ASSUME Access!TypeOK, Access!JobDone, [Access!Next]_(Access!vars)
    PROVE  Access!TypeOK'
<1>0. CASE UNCHANGED Access!vars
  BY <1>0 DEF Access!TypeOK, Access!vars
<1>1. ASSUME NEW kind \in {"request", "boot", "refresh", "panel"}, NEW policy \in Access!Policy
      PROVE  Access!Started(kind, policy) \in Access!Job
  BY DEF Access!Started, Access!Job
<1>2. ASSUME NEW policy \in Access!Policy, Access!Submit(policy) PROVE Access!TypeOK'
  BY <1>2 DEF Access!TypeOK, Access!Submit
<1>3. CASE Access!StartRequest \/ Access!StartBoot \/ Access!StartRefresh
  BY <1>1, <1>3 DEF Access!TypeOK, Access!StartRequest, Access!StartBoot, Access!StartRefresh
<1>4. ASSUME NEW turned \in BOOLEAN, Access!StartPanel(turned) PROVE Access!TypeOK'
  <2>1. Access!Switched(turned) \in Access!Policy
    BY DEF Access!Switched, Access!Policy, Access!TypeOK
  <2> QED
    BY <1>1, <1>4, <2>1 DEF Access!TypeOK, Access!StartPanel
<1>5. CASE Access!Rules
  BY <1>5, AccessHelpers DEF Access!TypeOK, Access!Rules, Access!At, Access!Goes
<1>6. CASE Access!Options
  BY <1>6, AccessHelpers DEF Access!TypeOK, Access!Options, Access!At, Access!Goes
<1>7. CASE Access!Restart
  BY <1>7, AccessHelpers DEF Access!TypeOK, Access!Restart, Access!At, Access!Goes
<1>8. CASE Access!Save
  BY <1>8, AccessHelpers DEF Access!TypeOK, Access!Save, Access!At, Access!Goes
<1>9. Access!Doubtful \subseteq {"rules", "dns", "status"}
  BY DEF Access!Doubtful
<1>10. CASE Access!OptionsFail \/ Access!SaveFails
  BY <1>9, <1>10, AccessHelpers DEF Access!TypeOK, Access!OptionsFail, Access!SaveFails, Access!At
<1>11. CASE Access!StatusFails
  BY <1>9, <1>11, AccessHelpers DEF Access!TypeOK, Access!StatusFails, Access!At
<1>12. ASSUME NEW halfway \in BOOLEAN, Access!RulesFail(halfway) PROVE Access!TypeOK'
  BY <1>9, <1>12, AccessHelpers DEF Access!TypeOK, Access!RulesFail, Access!At
<1>13. ASSUME NEW left \in Access!Offer \cup {None}, Access!RestartFails(left)
    PROVE Access!TypeOK'
  BY <1>9, <1>13, AccessHelpers DEF Access!TypeOK, Access!RestartFails, Access!At
<1>14. CASE Access!WriteStatus
  <2>1. accessStatus' \in Access!Status
    BY <1>14, AccessHelpers DEF Access!WriteStatus, Access!At, Access!Status
  <2> QED
    BY <1>14, <2>1 DEF Access!TypeOK, Access!WriteStatus
<1>15. Access!Unfinished \subseteq {"rules", "dns", "status"}
  BY DEF Access!Unfinished
<1>16. CASE Access!Kill
  BY <1>15, <1>16 DEF Access!TypeOK, Access!Kill
<1>17. CASE Access!Reboot
  <2>1. served' \in Access!Offer \cup {None}
    BY <1>17 DEF Access!TypeOK, Access!Reboot, Access!Offer
  <2> QED
    BY <1>15, <1>17, <2>1 DEF Access!TypeOK, Access!Reboot
<1> QED
  BY <1>0, <1>2, <1>3, <1>4, <1>5, <1>6, <1>7, <1>8, <1>10, <1>11, <1>12, <1>13, <1>14,
     <1>16, <1>17, AccessSteps

\* The parts of the invariant that are not types.
AccessKept ==
    /\ Access!JobDone /\ Access!PolicyInForce /\ Access!OptionsAreServed /\ Access!StatusIsSaved
    /\ accessConfig.networks = limits

\* A helper that starts.
LEMMA AccessStarts ==
    ASSUME Access!TypeOK, AccessKept, Access!StartRequest \/ Access!StartBoot
             \/ Access!StartRefresh \/ \E turned \in BOOLEAN : Access!StartPanel(turned)
    PROVE  AccessKept'
<1>1. PICK kind \in {"request", "boot", "refresh", "panel"}, policy \in Access!Policy :
         /\ accessJob = None /\ accessJob' = Access!Started(kind, policy)
         /\ kind = "refresh" => policy = accessConfig /\ accessBooting' = accessBooting
         /\ kind = "panel" => policy.networks = accessConfig.networks
         /\ UNCHANGED <<accessConfig, rules, options, served, accessStatus, doubt, limits>>
  <2>1. CASE Access!StartRequest
    BY <2>1 DEF Access!StartRequest, Access!TypeOK
  <2>2. CASE Access!StartBoot
    BY <2>2 DEF Access!StartBoot, Access!TypeOK
  <2>3. CASE Access!StartRefresh
    BY <2>3 DEF Access!StartRefresh, Access!TypeOK
  <2>4. ASSUME NEW turned \in BOOLEAN, Access!StartPanel(turned)
        PROVE  Access!Switched(turned) \in Access!Policy
                 /\ Access!Switched(turned).networks = accessConfig.networks
    BY DEF Access!TypeOK, Access!Switched, Access!Policy
  <2>5. ASSUME NEW turned \in BOOLEAN, Access!StartPanel(turned)
        PROVE  /\ accessJob = None
               /\ accessJob' = Access!Started("panel", Access!Switched(turned))
               /\ UNCHANGED <<accessConfig, rules, options, served, accessStatus, doubt, limits>>
    BY <2>5 DEF Access!StartPanel
  <2> QED
    BY <2>1, <2>2, <2>3, <2>4, <2>5
<1>2. /\ accessJob' # None /\ accessJob'.closing = FALSE /\ accessJob'.error = FALSE
      /\ accessJob'.policy = policy
      /\ accessJob'.kind = kind
      /\ accessJob'.phase = IF kind = "refresh" THEN "status" ELSE "rules"
  <2>1. Access!Started(kind, policy) \in Access!Job
    BY DEF Access!Started, Access!Job
  <2> QED
    BY <1>1, <2>1, AccessAssumption DEF Access!Started, Access!AccessConstants
<1>3. Access!JobDone'
  BY <1>1, <1>2 DEF Access!JobDone, AccessKept
<1>4. Access!PolicyInForce'
  BY <1>1, <1>2 DEF Access!PolicyInForce, AccessKept, Access!RulesOf
<1>5. Access!OptionsAreServed'
  BY <1>1, <1>2 DEF Access!OptionsAreServed, AccessKept, Access!At
<1>6. Access!StatusIsSaved'
  BY <1>2 DEF Access!StatusIsSaved
<1> QED
  BY <1>1, <1>3, <1>4, <1>5, <1>6 DEF AccessKept

\* What it applies, as long as nothing fails.
LEMMA AccessApplies ==
    ASSUME Access!TypeOK, AccessKept, Access!Rules \/ Access!Options \/ Access!Restart
             \/ Access!Save
    PROVE  AccessKept'
<1>1. accessJob # None /\ accessJob \in Access!Job
  BY AccessHelpers DEF Access!Rules, Access!Options, Access!Restart, Access!Save, Access!At
<1>2. ASSUME NEW p \in {"rules", "options", "restart", "save", "status"}, Access!Goes(p)
      PROVE  /\ accessJob' # None /\ accessJob'.phase = p /\ accessJob'.policy = accessJob.policy
             /\ accessJob'.kind = accessJob.kind
             /\ accessJob'.closing = accessJob.closing /\ accessJob'.error = accessJob.error
  BY <1>1, <1>2, AccessHelpers, AccessAssumption DEF Access!Goes, Access!Job,
     Access!AccessConstants
<1>3. Access!StatusIsSaved' <=> TRUE
  <2>1. accessJob' # None
    BY <1>2 DEF Access!Rules, Access!Options, Access!Restart, Access!Save
  <2> QED
    BY <2>1 DEF Access!StatusIsSaved
<1>4. CASE Access!Rules
  <2>1. /\ accessJob' # None /\ accessJob'.phase = "options"
        /\ accessJob'.policy = accessJob.policy /\ accessJob'.kind = accessJob.kind
        /\ accessJob'.closing = accessJob.closing /\ accessJob'.error = accessJob.error
    BY <1>2, <1>4 DEF Access!Rules
  <2>2. Access!JobDone'
    BY <1>1, <1>4, <2>1 DEF Access!Rules, Access!JobDone, AccessKept, Access!RulesOf
  <2>3. Access!PolicyInForce' /\ Access!OptionsAreServed' /\ (accessConfig.networks = limits)'
    BY <1>4, <2>1 DEF Access!Rules, Access!PolicyInForce, Access!OptionsAreServed, AccessKept,
       Access!At
  <2> QED
    BY <1>3, <2>2, <2>3 DEF AccessKept
<1>5. CASE Access!Options
  <2>1. /\ accessJob' # None /\ accessJob'.policy = accessJob.policy
        /\ accessJob'.kind = accessJob.kind
        /\ accessJob'.closing = accessJob.closing /\ accessJob'.error = accessJob.error
        /\ accessJob'.phase = IF options =
             Access!OfferOf(accessJob.policy) THEN "save" ELSE "restart"
    BY <1>2, <1>5 DEF Access!Options
  <2>2. Access!JobDone'
    BY <1>1, <1>5, <2>1 DEF Access!Options, Access!JobDone, AccessKept, Access!RulesOf,
       Access!OfferOf, Access!At
  <2>3. Access!PolicyInForce' /\ (accessConfig.networks = limits)'
    BY <1>5, <2>1 DEF Access!Options, Access!PolicyInForce, AccessKept
  <2>4. Access!OptionsAreServed'
    BY <1>1, <1>5, <2>1, AccessHelpers, AccessAssumption DEF Access!Options,
       Access!OptionsAreServed, AccessKept, Access!At, Access!AccessConstants
  <2> QED
    BY <1>3, <2>2, <2>3, <2>4 DEF AccessKept
<1>6. CASE Access!Restart
  <2>1. /\ accessJob' # None /\ accessJob'.phase = "save" /\ accessJob'.policy = accessJob.policy
        /\ accessJob'.kind = accessJob.kind
        /\ accessJob'.closing = accessJob.closing /\ accessJob'.error = accessJob.error
    BY <1>2, <1>6 DEF Access!Restart
  <2>2. Access!JobDone'
    BY <1>1, <1>6, <2>1 DEF Access!Restart, Access!JobDone, AccessKept, Access!RulesOf,
       Access!OfferOf, Access!At
  <2>3. Access!PolicyInForce' /\ Access!OptionsAreServed' /\ (accessConfig.networks = limits)'
    BY <1>6, <2>1 DEF Access!Restart, Access!PolicyInForce, Access!OptionsAreServed, AccessKept,
       Access!At
  <2> QED
    BY <1>3, <2>2, <2>3 DEF AccessKept
<1>7. CASE Access!Save
  <2>1. /\ accessJob' # None /\ accessJob'.phase = "status"
        /\ accessJob'.policy = accessJob.policy /\ accessJob'.kind = accessJob.kind
        /\ accessJob'.closing = accessJob.closing /\ accessJob'.error = accessJob.error
    BY <1>2, <1>7 DEF Access!Save
  <2>2. /\ accessConfig' = accessJob.policy /\ rules' = Access!RulesOf(accessJob.policy)
        /\ options' = Access!OfferOf(accessJob.policy)
        /\ rules' = rules /\ options' = options
    BY <1>1, <1>7 DEF Access!Save, AccessKept, Access!JobDone, Access!At
  <2>3. accessConfig'.networks = limits'
    BY <1>1, <1>7, <2>2 DEF Access!Save, AccessKept, Access!JobDone
  <2>4. Access!JobDone'
    BY <1>1, <1>7, <2>1, <2>2, <2>3 DEF Access!JobDone, AccessKept
  <2>5. Access!PolicyInForce'
    BY <2>2 DEF Access!PolicyInForce, Access!RulesOf, Access!OfferOf
  <2>6. Access!OptionsAreServed'
    BY <1>1, <1>7, <2>1 DEF Access!Save, Access!OptionsAreServed, AccessKept, Access!At
  <2> QED
    BY <1>3, <2>3, <2>4, <2>5, <2>6 DEF AccessKept
<1> QED
  BY <1>4, <1>5, <1>6, <1>7

\* One that fails closes the access, or leaves what is in doubt.
LEMMA AccessCloses ==
    ASSUME Access!TypeOK, AccessKept, accessJob # None, accessJob' = Access!Fails,
           Access!Doubtful \subseteq doubt', doubt \subseteq doubt',
           accessJob.phase = "restart" => "dns" \in doubt',
           "dns" \in doubt' \/ (UNCHANGED <<options, served>>),
           UNCHANGED <<accessConfig, limits, accessStatus>>
    PROVE  AccessKept'
<1>1. accessJob \in Access!Job
  BY AccessHelpers
<1>2. CASE ~accessJob.closing
  <2>1. /\ accessJob' # None /\ accessJob'.phase = "rules" /\ accessJob'.policy = Access!Off
        /\ accessJob'.closing /\ accessJob'.error
    BY <1>2, AccessFails DEF AccessKept
  <2>2. accessJob'.closing = accessJob'.error
    BY <1>1, <1>2 DEF Access!Fails, Access!Job
  <2>3. Access!JobDone'
    BY <2>1, <2>2 DEF Access!JobDone
  <2>4. Access!PolicyInForce' /\ Access!StatusIsSaved' /\ accessConfig'.networks = limits'
    BY <2>1 DEF Access!PolicyInForce, Access!StatusIsSaved, AccessKept
  <2>5. Access!OptionsAreServed'
    BY <2>1 DEF Access!OptionsAreServed, Access!At, AccessKept
  <2> QED
    BY <2>3, <2>4, <2>5 DEF AccessKept
<1>3. CASE accessJob.closing /\ accessJob.kind # "panel"
  <2>1. /\ accessJob' # None /\ accessJob'.phase = "status" /\ accessJob'.policy = Access!Off
        /\ accessJob'.kind = accessJob.kind
        /\ accessJob'.closing /\ accessJob'.error /\ "rules" \in doubt'
    BY <1>3, AccessFails DEF AccessKept
  <2>2. accessJob'.closing = accessJob'.error
    BY <1>1, <1>3 DEF Access!Fails, Access!Job, AccessKept, Access!JobDone
  <2>3. Access!JobDone'
    BY <2>1, <2>2 DEF Access!JobDone
  <2>4. Access!PolicyInForce' /\ Access!StatusIsSaved' /\ accessConfig'.networks = limits'
    BY <2>1 DEF Access!PolicyInForce, Access!StatusIsSaved, AccessKept
  <2>5. Access!OptionsAreServed'
    BY <2>1 DEF Access!OptionsAreServed, Access!At, AccessKept
  <2> QED
    BY <2>3, <2>4, <2>5 DEF AccessKept
<1>4. CASE accessJob.closing /\ accessJob.kind = "panel"
  <2>1. accessJob' = None /\ "rules" \in doubt' /\ "status" \in doubt'
    BY <1>4, AccessFails DEF AccessKept
  <2>2. Access!JobDone' /\ Access!PolicyInForce' /\ Access!StatusIsSaved'
          /\ accessConfig'.networks = limits'
    BY <2>1 DEF Access!PolicyInForce, Access!StatusIsSaved, Access!JobDone, AccessKept
  <2>3. Access!OptionsAreServed'
    BY <2>1 DEF Access!OptionsAreServed, Access!At, AccessKept
  <2> QED
    BY <2>2, <2>3 DEF AccessKept
<1> QED
  BY <1>2, <1>3, <1>4

\* Each failure of a command.
LEMMA AccessGivesUp ==
    ASSUME Access!TypeOK, AccessKept,
           \/ Access!OptionsFail \/ Access!SaveFails
           \/ \E halfway \in BOOLEAN : Access!RulesFail(halfway)
           \/ \E left \in Access!Offer \cup {None} : Access!RestartFails(left)
    PROVE  AccessKept'
<1>1. CASE Access!OptionsFail
  BY <1>1, AccessCloses DEF Access!OptionsFail, Access!At
<1>2. CASE Access!SaveFails
  BY <1>2, AccessCloses DEF Access!SaveFails, Access!At
<1>3. ASSUME NEW halfway \in BOOLEAN, Access!RulesFail(halfway) PROVE AccessKept'
  BY <1>3, AccessCloses DEF Access!RulesFail, Access!At
<1>4. ASSUME NEW left \in Access!Offer \cup {None}, Access!RestartFails(left) PROVE AccessKept'
  BY <1>4, AccessCloses DEF Access!RestartFails, Access!At
<1> QED
  BY <1>1, <1>2, <1>3, <1>4

\* A helper that ends.
LEMMA AccessEnds ==
    ASSUME Access!TypeOK, AccessKept, Access!WriteStatus \/ Access!StatusFails \/ Access!Kill
    PROVE  AccessKept'
<1>1. accessJob # None /\ accessJob \in Access!Job
  BY AccessHelpers DEF Access!WriteStatus, Access!StatusFails, Access!Kill, Access!At
<1>2. ASSUME accessJob' = None,
             UNCHANGED <<accessConfig, rules, options, served, accessBooting, limits>>,
             doubt \subseteq doubt' \/ doubt' = doubt \ {"status"},
             accessJob.phase = "status" \/ {"rules", "status"} \subseteq doubt',
             accessJob.phase = "restart" => "dns" \in doubt',
             Access!StatusIsSaved'
      PROVE  AccessKept'
  <2>1. Access!JobDone'
    BY <1>2 DEF Access!JobDone
  <2>2. Access!PolicyInForce'
    BY <1>2 DEF Access!PolicyInForce, AccessKept
  <2>3. Access!OptionsAreServed'
    BY <1>2 DEF Access!OptionsAreServed, AccessKept, Access!At
  <2> QED
    BY <1>2, <2>1, <2>2, <2>3 DEF AccessKept
<1>3. CASE Access!WriteStatus
  <2>1. ~accessJob.error => accessJob.policy = accessConfig
    BY <1>1, <1>3 DEF AccessKept, Access!JobDone, Access!WriteStatus, Access!At
  <2>2. accessJob.error => accessStatus'.state = "failed"
    BY <1>3 DEF Access!WriteStatus
  <2>3. accessStatus'.policy = accessJob.policy
    BY <1>3 DEF Access!WriteStatus
  <2>4. Access!StatusIsSaved'
    BY <1>1, <1>3, <2>1, <2>2, <2>3 DEF Access!StatusIsSaved, Access!WriteStatus, Access!Job
  <2> QED
    BY <1>2, <1>3, <2>4 DEF Access!WriteStatus, Access!At
<1>4. CASE Access!StatusFails /\ accessJob.error
  <2>1. accessJob' = None /\ doubt' = doubt \cup {"status"}
        /\ UNCHANGED <<accessConfig, rules, options, served, accessBooting, limits>>
    BY <1>4 DEF Access!StatusFails
  <2>2. Access!StatusIsSaved'
    BY <2>1 DEF Access!StatusIsSaved
  <2> QED
    BY <1>2, <1>4, <2>1, <2>2 DEF Access!StatusFails, Access!At
<1>5. CASE Access!StatusFails /\ ~accessJob.error
  <2>1. ~accessJob.closing
    BY <1>1, <1>5 DEF AccessKept, Access!JobDone
  <2>2. Access!Doubtful = {}
    BY <1>1, <2>1, AccessFails DEF AccessKept
  <2> QED
    BY <1>1, <1>5, <2>2, AccessCloses DEF Access!StatusFails, Access!At
<1>6. CASE Access!Kill
  <2>1. accessJob' = None /\ doubt' = doubt \cup Access!Unfinished
        /\ UNCHANGED <<accessConfig, rules, options, served, accessBooting, limits>>
    BY <1>6 DEF Access!Kill
  <2>2. /\ "status" \in Access!Unfinished
        /\ accessJob.phase = "status" \/ "rules" \in Access!Unfinished
        /\ accessJob.phase = "restart" => "dns" \in Access!Unfinished
    BY <1>1 DEF Access!Unfinished, Access!At
  <2>3. Access!StatusIsSaved'
    BY <2>1, <2>2 DEF Access!StatusIsSaved
  <2> QED
    BY <1>2, <2>1, <2>2, <2>3
<1> QED
  BY <1>3, <1>4, <1>5, <1>6

\* The host boots.
LEMMA AccessReboots ==
    ASSUME Access!TypeOK, AccessKept, Access!Reboot
    PROVE  AccessKept'
<1>1. accessJob' = None /\ rules' = None /\ accessBooting' = TRUE
        /\ doubt' = (doubt \cup Access!Unfinished) \ {"dns"}
        /\ served' = (IF options = None THEN "nothing" ELSE options)
        /\ UNCHANGED <<accessConfig, options, limits, accessStatus>>
  BY DEF Access!Reboot
<1>2. accessJob # None =>
        /\ "status" \in Access!Unfinished
        /\ accessJob.phase = "status" \/ "rules" \in Access!Unfinished
  BY DEF Access!Unfinished, Access!At
<1>3. Access!JobDone'
  BY <1>1 DEF Access!JobDone
<1>4. Access!PolicyInForce'
  BY <1>1, <1>2 DEF Access!PolicyInForce, AccessKept
<1>5. Access!OptionsAreServed'
  BY <1>1 DEF Access!OptionsAreServed
<1>6. Access!StatusIsSaved'
  BY <1>1, <1>2 DEF Access!StatusIsSaved, AccessKept
<1> QED
  BY <1>1, <1>3, <1>4, <1>5, <1>6 DEF AccessKept

\* The invariant is kept by every step.
LEMMA AccessInductive == Access!IInv /\ [Access!Next]_(Access!vars) => Access!IInv'
<1> SUFFICES ASSUME Access!IInv, [Access!Next]_(Access!vars) PROVE Access!IInv'
  OBVIOUS
<1>1. Access!TypeOK /\ Access!JobDone /\ AccessKept
  BY DEF Access!IInv, AccessKept
<1>2. Access!TypeOK'
  BY <1>1, AccessTypes
<1>3. ASSUME UNCHANGED Access!vars PROVE AccessKept'
  BY <1>1, <1>3 DEF AccessKept, Access!JobDone, Access!PolicyInForce, Access!OptionsAreServed,
     Access!StatusIsSaved, Access!At, Access!vars
<1>4. ASSUME NEW policy \in Access!Policy, Access!Submit(policy) PROVE AccessKept'
  BY <1>1, <1>4 DEF AccessKept, Access!JobDone, Access!PolicyInForce, Access!OptionsAreServed,
     Access!StatusIsSaved, Access!At, Access!Submit
<1>5. AccessKept'
  BY <1>1, <1>3, <1>4, AccessStarts, AccessApplies, AccessGivesUp, AccessEnds, AccessReboots,
     AccessSteps
<1> QED
  BY <1>2, <1>5 DEF Access!IInv, AccessKept

\* It says what is promised at rest.
LEMMA AccessPromises ==
    ASSUME Access!IInv
    PROVE  Access!AccessAsConfigured /\ Access!AccessIsOffered /\ Access!StatusTellsTheAccess
<1>1. Access!TypeOK /\ Access!PolicyInForce /\ Access!OptionsAreServed /\ Access!StatusIsSaved
  BY DEF Access!IInv
<1>2. Access!AccessAsConfigured
  BY <1>1 DEF Access!AccessAsConfigured, Access!PolicyInForce
<1>3. Access!AccessIsOffered
  <2> SUFFICES ASSUME accessJob = None, "rules" \notin doubt, "dns" \notin doubt,
                        rules \in Access!Rule \ {Access!Closed}
               PROVE  served = "gateway"
    BY DEF Access!AccessIsOffered
  <2>1. rules # None
    BY AccessAssumption DEF Access!AccessConstants
  <2>2. rules = Access!RulesOf(accessConfig)
    BY <1>1, <2>1 DEF Access!PolicyInForce
  <2>3. accessConfig.enabled
    BY <2>2 DEF Access!RulesOf
  <2>4. options = "gateway"
    BY <1>1, <2>3 DEF Access!PolicyInForce
  <2>5. "gateway" # None
    BY AccessAssumption DEF Access!AccessConstants, Access!Offer
  <2> QED
    BY <1>1, <2>4, <2>5 DEF Access!OptionsAreServed, Access!At
<1>4. Access!StatusTellsTheAccess
  BY <1>1, <1>2 DEF Access!StatusTellsTheAccess, Access!AccessAsConfigured, Access!StatusIsSaved
<1> QED
  BY <1>2, <1>3, <1>4

\* A helper for the panel applies the limits that were saved, or none at all.
LEMMA LimitsStep ==
    ASSUME Access!IInv, [Access!Next]_(Access!vars), rules' # rules, accessJob # None,
           accessJob.kind = "panel"
    PROVE  rules' \in {None, Access!Closed, {limits}}
<1>1. Access!TypeOK /\ Access!JobDone /\ accessJob \in Access!Job
  BY AccessHelpers DEF Access!IInv
<1>2. Access!RulesOf(accessJob.policy) \in {Access!Closed, {limits}}
  BY <1>1 DEF Access!JobDone, Access!RulesOf, Access!Off, Access!Job
<1>3. CASE Access!Rules \/ \E halfway \in BOOLEAN : Access!RulesFail(halfway)
  BY <1>2, <1>3 DEF Access!Rules, Access!RulesFail
<1>4. CASE Access!Reboot
  BY <1>4 DEF Access!Reboot
<1>5. CASE ~(Access!Rules \/ Access!Reboot \/ \E halfway \in BOOLEAN : Access!RulesFail(halfway))
  <2>1. CASE UNCHANGED Access!vars
    BY <2>1 DEF Access!vars
  <2>2. ASSUME \/ \E policy \in Access!Policy : Access!Submit(policy)
               \/ \E turned \in BOOLEAN : Access!StartPanel(turned)
               \/ Access!StartRequest \/ Access!StartBoot \/ Access!StartRefresh \/ Access!Kill
        PROVE  rules' = rules
    BY <2>2 DEF Access!Submit, Access!StartPanel, Access!StartRequest, Access!StartBoot,
       Access!StartRefresh, Access!Kill
  <2>3. ASSUME \/ Access!Options \/ Access!OptionsFail \/ Access!Restart \/ Access!Save
               \/ Access!SaveFails \/ Access!WriteStatus \/ Access!StatusFails
               \/ \E left \in Access!Offer \cup {None} : Access!RestartFails(left)
        PROVE  rules' = rules
    BY <2>3 DEF Access!Options, Access!OptionsFail, Access!Restart, Access!Save, Access!SaveFails,
       Access!WriteStatus, Access!StatusFails, Access!RestartFails
  <2> QED
    BY <1>5, <2>1, <2>2, <2>3, AccessSteps
<1> QED
  BY <1>3, <1>4, <1>5

\* The invariant of customer access holds for ever.
LEMMA AccessForever == Access!Init /\ [][Access!Next]_(Access!vars) => []Access!IInv
  BY AccessInductive, AccessInitial, PTL

-----------------------------------------------------------------------------
(* THE WI-FI ACCESS POINT.                                                 *)

\* The parts of the invariant that are not types.
WifiKept ==
    /\ Wifi!UntouchedInStep /\ Wifi!StartedAtBoot /\ Wifi!JobShape /\ Wifi!Remembers
    /\ Wifi!Attempts /\ Wifi!Concludes

\* At first nothing was asked.
LEMMA WifiInitial == Wifi!Init => Wifi!IInv
<1> SUFFICES ASSUME Wifi!Init PROVE Wifi!IInv
  OBVIOUS
<1>1. Wifi!TypeOK
  <2>1. 0 \in 0 .. MaxRequests /\ 0 \in Nat
    BY WifiAssumption DEF Wifi!WifiConstants
  <2>2. wifiProfile \in Wifi!Profile /\ air \in Wifi!Profile \cup {None}
    BY DEF Wifi!Init, Wifi!Profile, Wifi!Mode
  <2> QED
    BY <2>1, <2>2 DEF Wifi!Init, Wifi!TypeOK
<1>2. Wifi!UntouchedInStep /\ Wifi!StartedAtBoot
  BY DEF Wifi!Init, Wifi!UntouchedInStep, Wifi!StartedAtBoot, Wifi!InStep
<1>3. Wifi!JobShape /\ Wifi!Remembers /\ Wifi!Attempts /\ Wifi!Concludes
  BY DEF Wifi!Init, Wifi!JobShape, Wifi!Remembers, Wifi!Attempts, Wifi!Concludes, Wifi!At
<1> QED
  BY <1>1, <1>2, <1>3 DEF Wifi!IInv

\* A helper that runs, field by field.
LEMMA WifiHelpers ==
    ASSUME Wifi!TypeOK, wifiJob # None
    PROVE  /\ wifiJob \in Wifi!Job /\ wifiJob.kind \in {"request", "boot", "refresh"}
           /\ wifiJob.id \in 0 .. MaxRequests
           /\ wifiJob.before \in Wifi!Profile /\ wifiJob.compared \in Wifi!Profile
           /\ wifiJob.value \in Wifi!Config
           /\ wifiJob.mode \in Wifi!Mode /\ wifiJob.value.mode \in Wifi!Mode
           /\ wifiJob.value.key \in Keys
           /\ wifiJob.touched \in BOOLEAN /\ wifiJob.hurt \in BOOLEAN
           /\ wifiJob.error \in BOOLEAN /\ wifiJob.value.notice \in BOOLEAN
           /\ Wifi!Wanted \in Wifi!Profile /\ Wifi!Compared \in Wifi!Profile
           /\ Wifi!Wanted.mode = wifiJob.mode /\ Wifi!Wanted.key = wifiJob.value.key
<1>1. wifiJob \in Wifi!Job
  BY DEF Wifi!TypeOK
<1> QED
  BY <1>1 DEF Wifi!Job, Wifi!Config, Wifi!Wanted, Wifi!Profile, Wifi!Compared

\* An attempt that fails, and what stays.
LEMMA FallingBack ==
    ASSUME Wifi!TypeOK, wifiJob # None
    PROVE  /\ Wifi!FallsBack \in Wifi!Job /\ Wifi!FallsBack.kind = wifiJob.kind
           /\ Wifi!FallsBack.id = wifiJob.id
           /\ Wifi!FallsBack.change = wifiJob.change /\ Wifi!FallsBack.before = wifiJob.before
           /\ Wifi!FallsBack.compared = wifiJob.compared
           /\ Wifi!FallsBack.touched = wifiJob.touched
           /\ Wifi!FallsBack.hurt = wifiJob.hurt /\ Wifi!FallsBack.error = wifiJob.error
           /\ Wifi!FallsBack.value.key = wifiJob.value.key
           /\ wifiJob.mode = "performance" =>
                /\ Wifi!FallsBack.phase = "write" /\ Wifi!FallsBack.mode = "standard"
                /\ Wifi!FallsBack.value.mode = "standard" /\ Wifi!FallsBack.value.notice
           /\ wifiJob.mode = "standard" =>
                /\ Wifi!FallsBack.phase = "restore" /\ Wifi!FallsBack.mode = wifiJob.mode
                /\ Wifi!FallsBack.value = wifiJob.value
<1>1. wifiJob \in Wifi!Job /\ wifiJob.value \in Wifi!Config /\ wifiJob.mode \in Wifi!Mode
  BY WifiHelpers
<1>2. CASE wifiJob.mode = "performance"
  <2>1. [wifiJob.value EXCEPT !.mode = "standard", !.notice = TRUE] \in Wifi!Config
    BY <1>1 DEF Wifi!Config, Wifi!Mode
  <2>2. Wifi!FallsBack =
          [wifiJob EXCEPT !.phase = "write", !.mode = "standard",
             !.value = [wifiJob.value EXCEPT !.mode = "standard", !.notice = TRUE]]
    BY <1>1, <1>2 DEF Wifi!FallsBack, Wifi!Job
  <2> QED
    BY <1>1, <1>2, <2>1, <2>2 DEF Wifi!Job, Wifi!Config, Wifi!Mode
<1>3. CASE wifiJob.mode = "standard"
  <2>1. Wifi!FallsBack = [wifiJob EXCEPT !.phase = "restore"]
    BY <1>3 DEF Wifi!FallsBack
  <2> QED
    BY <1>1, <1>3, <2>1 DEF Wifi!Job
<1> QED
  BY <1>1, <1>2, <1>3 DEF Wifi!Mode

\* What a request selects.
LEMMA Selections ==
    ASSUME Wifi!TypeOK, NEW change \in Wifi!Change \cup {None}
    PROVE  /\ Wifi!Selected(change) \in Wifi!Config /\ Wifi!Selected(change).mode \in Wifi!Mode
           /\ change \in Keys => Wifi!Selected(change).key = change
           /\ change \in Wifi!Mode => Wifi!Selected(change).mode = change
<1>1. Wifi!Chosen(change) \in Keys
  <2>1. CASE change \in Keys
    BY <2>1 DEF Wifi!Chosen
  <2>2. CASE change \notin Keys /\ wifiConfig # None
    BY <2>2 DEF Wifi!Chosen, Wifi!TypeOK, Wifi!Config
  <2>3. CASE change \notin Keys /\ wifiConfig = None /\ wifiProfile.key # Open
    BY <2>3 DEF Wifi!Chosen, Wifi!TypeOK, Wifi!Profile
  <2>4. CASE change \notin Keys /\ wifiConfig = None /\ wifiProfile.key = Open
    BY <2>4, WifiAssumption DEF Wifi!Chosen, Wifi!WifiConstants
  <2> QED
    BY <2>1, <2>2, <2>3, <2>4
<1>2. Wifi!Saved \in Wifi!Mode
  BY DEF Wifi!Saved, Wifi!TypeOK, Wifi!Config, Wifi!Mode
<1>3. change \in Keys => Wifi!Chosen(change) = change
  BY DEF Wifi!Chosen
<1> QED
  BY <1>1, <1>2, <1>3 DEF Wifi!Selected, Wifi!Config

\* A helper that starts.
LEMMA WifiStarts ==
    ASSUME Wifi!TypeOK, NEW kind \in {"request", "boot", "refresh"}, NEW id \in 0 .. MaxRequests,
           NEW change \in Wifi!Change \cup {None}
    PROVE  /\ Wifi!Started(kind, id, change) \in Wifi!Job /\ Wifi!Started(kind, id, change) # None
           /\ Wifi!Started(kind, id, change).kind = kind /\ Wifi!Started(kind, id, change).id = id
           /\ Wifi!Started(kind, id, change).change = change
           /\ Wifi!Started(kind, id, change).phase =
                IF kind = "refresh" THEN "publish" ELSE "begin"
           /\ Wifi!Started(kind, id, change).before = wifiProfile
           /\ Wifi!Started(kind, id, change).compared = wifiProfile
           /\ Wifi!Started(kind, id, change).value = Wifi!Selected(change)
           /\ Wifi!Started(kind, id, change).mode = Wifi!Selected(change).mode
           /\ ~Wifi!Started(kind, id, change).touched /\ ~Wifi!Started(kind, id, change).error
           /\ ~Wifi!Started(kind, id, change).hurt
<1>1. Wifi!Started(kind, id, change) \in Wifi!Job
  BY Selections DEF Wifi!Started, Wifi!Job, Wifi!TypeOK
<1> QED
  BY <1>1, WifiAssumption DEF Wifi!Started, Wifi!WifiConstants

\* A step of a helper that goes on, and the fields it changes.
WifiCarries ==
    /\ wifiJob # None /\ wifiJob' # None /\ wifiJob' \in Wifi!Job /\ wifiJob'.kind = wifiJob.kind
    /\ wifiJob'.id = wifiJob.id
    /\ wifiJob'.change = wifiJob.change /\ wifiJob'.before = wifiJob.before

\* Each step of a helper, and what it holds then.
LEMMA AfterUnready ==
    ASSUME Wifi!TypeOK, Wifi!Unready
    PROVE  /\ WifiCarries
           /\ wifiJob.phase = "begin" /\ wifiJob'.phase = "publish" /\ wifiJob'.error
           /\ wifiJob'.hurt
           /\ wifiJob'.mode = wifiJob.mode /\ wifiJob'.value = wifiJob.value
           /\ wifiJob'.touched = wifiJob.touched /\ wifiJob'.compared = wifiJob.compared
<1>1. wifiJob \in Wifi!Job /\ wifiJob # None
  BY WifiHelpers DEF Wifi!Unready, Wifi!At
<1>2. wifiJob' \in Wifi!Job
  BY <1>1, WifiHelpers DEF Wifi!Unready, Wifi!At, Wifi!Goes, Wifi!Job
<1> QED
  BY <1>1, <1>2, WifiAssumption DEF Wifi!Unready, Wifi!At, Wifi!Goes, Wifi!Job, WifiCarries,
     Wifi!WifiConstants

LEMMA AfterBegin ==
    ASSUME Wifi!TypeOK, NEW available \in BOOLEAN, Wifi!Begin(available)
    PROVE  /\ WifiCarries
           /\ wifiJob.phase = "begin" /\ wifiJob'.phase = "write"
           /\ \/ wifiJob'.mode = wifiJob.mode /\ wifiJob'.value = wifiJob.value
              \/ /\ wifiJob'.mode = "standard" /\ wifiJob'.value.mode = "standard"
                 /\ wifiJob'.value.notice /\ wifiJob'.value.key = wifiJob.value.key
           /\ wifiJob'.touched = wifiJob.touched /\ wifiJob'.compared = wifiJob.compared
           /\ wifiJob'.hurt = wifiJob.hurt /\ wifiJob'.error = wifiJob.error
<1>1. wifiJob \in Wifi!Job /\ wifiJob # None
  BY WifiHelpers DEF Wifi!Begin, Wifi!At
<1>2. wifiJob' \in Wifi!Job
  BY <1>1, WifiHelpers, FallingBack DEF Wifi!Begin, Wifi!At, Wifi!Goes, Wifi!Job
<1> QED
  BY <1>1, <1>2, WifiAssumption, FallingBack DEF Wifi!Begin, Wifi!At, Wifi!Goes, Wifi!Job,
     WifiCarries, Wifi!WifiConstants

LEMMA AfterWrite ==
    ASSUME Wifi!TypeOK, Wifi!WriteProfile
    PROVE  /\ WifiCarries
           /\ wifiJob.phase = "write" /\ wifiJob'.compared = Wifi!Compared
           /\ wifiJob'.phase =
                IF wifiJob.compared # Wifi!Wanted \/ air = None \/ air.mode # wifiJob.mode
                THEN "up" ELSE "save"
           /\ wifiJob'.touched <=> wifiJob.touched \/ wifiJob.compared # Wifi!Wanted
           /\ wifiJob'.mode = wifiJob.mode /\ wifiJob'.value = wifiJob.value
           /\ wifiJob'.hurt = wifiJob.hurt /\ wifiJob'.error = wifiJob.error
<1>1. wifiJob \in Wifi!Job /\ wifiJob # None
  BY WifiHelpers DEF Wifi!WriteProfile, Wifi!At
<1>2. wifiJob' \in Wifi!Job
  BY <1>1, WifiHelpers DEF Wifi!WriteProfile, Wifi!At, Wifi!Goes, Wifi!Job
<1>3. wifiJob'.phase =
        IF wifiJob.compared # Wifi!Wanted \/ air = None \/ air.mode # wifiJob.mode
        THEN "up" ELSE "save"
  BY <1>1 DEF Wifi!WriteProfile, Wifi!Job
<1>4. CASE (wifiJob.touched \/ wifiJob.compared # Wifi!Wanted)
  <2>1. (wifiJob.touched \/ wifiJob.compared # Wifi!Wanted) = TRUE
    BY <1>4
  <2>2. wifiJob' =
          [wifiJob EXCEPT !.phase = wifiJob'.phase, !.compared = Wifi!Compared, !.touched = TRUE]
    BY <1>1, <2>1 DEF Wifi!WriteProfile, Wifi!Job
  <2>3. wifiJob'.touched = TRUE /\ wifiJob'.compared = Wifi!Compared
    BY <1>1, <2>2 DEF Wifi!Job
  <2>4. /\ wifiJob'.kind = wifiJob.kind /\ wifiJob'.id = wifiJob.id
        /\ wifiJob'.change = wifiJob.change
        /\ wifiJob'.before = wifiJob.before /\ wifiJob'.mode = wifiJob.mode
        /\ wifiJob'.value = wifiJob.value
        /\ wifiJob'.hurt = wifiJob.hurt /\ wifiJob'.error = wifiJob.error
    BY <1>1, <2>2 DEF Wifi!Job
  <2> QED
    BY <1>1, <1>2, <1>3, <1>4, <2>3, <2>4, WifiAssumption DEF Wifi!WriteProfile, Wifi!At,
       WifiCarries, Wifi!WifiConstants
<1>5. CASE ~(wifiJob.touched \/ wifiJob.compared # Wifi!Wanted)
  <2>1. (wifiJob.touched \/ wifiJob.compared # Wifi!Wanted) = FALSE
    BY <1>5
  <2>2. wifiJob' =
          [wifiJob EXCEPT !.phase = wifiJob'.phase, !.compared = Wifi!Compared, !.touched = FALSE]
    BY <1>1, <2>1 DEF Wifi!WriteProfile, Wifi!Job
  <2>3. wifiJob'.touched = FALSE /\ wifiJob'.compared = Wifi!Compared
    BY <1>1, <2>2 DEF Wifi!Job
  <2>4. /\ wifiJob'.kind = wifiJob.kind /\ wifiJob'.id = wifiJob.id
        /\ wifiJob'.change = wifiJob.change
        /\ wifiJob'.before = wifiJob.before /\ wifiJob'.mode = wifiJob.mode
        /\ wifiJob'.value = wifiJob.value
        /\ wifiJob'.hurt = wifiJob.hurt /\ wifiJob'.error = wifiJob.error
    BY <1>1, <2>2 DEF Wifi!Job
  <2> QED
    BY <1>1, <1>2, <1>3, <1>5, <2>3, <2>4, WifiAssumption DEF Wifi!WriteProfile, Wifi!At,
       WifiCarries, Wifi!WifiConstants
<1> QED
  BY <1>4, <1>5

LEMMA AfterWritten ==
    ASSUME Wifi!TypeOK, Wifi!WriteFails(TRUE)
    PROVE  /\ WifiCarries
           /\ wifiJob.mode = "performance" =>
                /\ wifiJob'.phase = "write" /\ wifiJob'.mode = "standard"
                /\ wifiJob'.value.mode = "standard" /\ wifiJob'.value.notice
           /\ wifiJob.mode = "standard" =>
                wifiJob'.phase = "restore" /\ wifiJob'.mode = wifiJob.mode
                  /\ wifiJob'.value = wifiJob.value
           /\ wifiJob'.value.key = wifiJob.value.key
           /\ wifiJob.phase = "write" /\ wifiJob'.compared = Wifi!Compared /\ wifiJob'.touched
           /\ wifiJob.mode = "standard" => wifiJob'.hurt
           /\ wifiJob'.error = wifiJob.error
<1>1. wifiJob \in Wifi!Job /\ wifiJob # None
  BY WifiHelpers DEF Wifi!WriteFails, Wifi!At
<1>2. wifiJob' \in Wifi!Job
  BY <1>1, WifiHelpers, FallingBack DEF Wifi!WriteFails, Wifi!At, Wifi!Goes, Wifi!Job
<1>3. CASE Wifi!FallsBack.hurt \/ wifiJob.mode = "standard"
  <2>1. (Wifi!FallsBack.hurt \/ wifiJob.mode = "standard") = TRUE
    BY <1>3
  <2> QED
    BY <1>1, <1>2, <1>3, <2>1, WifiAssumption, FallingBack DEF Wifi!WriteFails, Wifi!At,
       Wifi!Goes, Wifi!Job, WifiCarries, Wifi!WifiConstants
<1>4. CASE ~(Wifi!FallsBack.hurt \/ wifiJob.mode = "standard")
  <2>1. (Wifi!FallsBack.hurt \/ wifiJob.mode = "standard") = FALSE
    BY <1>4
  <2> QED
    BY <1>1, <1>2, <1>4, <2>1, WifiAssumption, FallingBack DEF Wifi!WriteFails, Wifi!At,
       Wifi!Goes, Wifi!Job, WifiCarries, Wifi!WifiConstants
<1> QED
  BY <1>3, <1>4

LEMMA AfterUnwritten ==
    ASSUME Wifi!TypeOK, Wifi!WriteFails(FALSE)
    PROVE  /\ WifiCarries
           /\ wifiJob.phase = "write" /\ wifiJob'.phase = "restore" /\ wifiJob'.hurt
           /\ wifiJob'.mode = wifiJob.mode /\ wifiJob'.value = wifiJob.value
           /\ wifiJob'.touched = wifiJob.touched /\ wifiJob'.compared = wifiJob.compared
           /\ wifiJob'.error = wifiJob.error
<1>1. wifiJob \in Wifi!Job /\ wifiJob # None
  BY WifiHelpers DEF Wifi!WriteFails, Wifi!At
<1>2. wifiJob' \in Wifi!Job
  BY <1>1, WifiHelpers DEF Wifi!WriteFails, Wifi!At, Wifi!Goes, Wifi!Job
<1> QED
  BY <1>1, <1>2, WifiAssumption DEF Wifi!WriteFails, Wifi!At, Wifi!Goes, Wifi!Job, WifiCarries,
     Wifi!WifiConstants

LEMMA AfterUp ==
    ASSUME Wifi!TypeOK, Wifi!Up, wifiProfile.mode = wifiJob.mode
    PROVE  /\ WifiCarries
           /\ wifiJob.phase = "up" /\ wifiJob'.phase = "save" /\ wifiJob'.touched
           /\ wifiJob'.mode = wifiJob.mode /\ wifiJob'.value = wifiJob.value
           /\ wifiJob'.compared = wifiJob.compared /\ wifiJob'.hurt = wifiJob.hurt
           /\ wifiJob'.error = wifiJob.error
<1>1. wifiJob \in Wifi!Job /\ wifiJob # None
  BY WifiHelpers DEF Wifi!Up, Wifi!At
<1>2. wifiJob' \in Wifi!Job
  BY <1>1, WifiHelpers DEF Wifi!Up, Wifi!At, Wifi!Goes, Wifi!Job
<1> QED
  BY <1>1, <1>2, WifiAssumption DEF Wifi!Up, Wifi!At, Wifi!Goes, Wifi!Job, WifiCarries,
     Wifi!WifiConstants

LEMMA AfterUpElse ==
    ASSUME Wifi!TypeOK, Wifi!Up, wifiProfile.mode # wifiJob.mode
    PROVE  /\ WifiCarries
           /\ wifiJob.mode = "performance" =>
                /\ wifiJob'.phase = "write" /\ wifiJob'.mode = "standard"
                /\ wifiJob'.value.mode = "standard" /\ wifiJob'.value.notice
           /\ wifiJob.mode = "standard" =>
                wifiJob'.phase = "restore" /\ wifiJob'.mode = wifiJob.mode
                  /\ wifiJob'.value = wifiJob.value
           /\ wifiJob'.value.key = wifiJob.value.key
           /\ wifiJob.phase = "up" /\ wifiJob'.touched
           /\ wifiJob'.compared = wifiJob.compared /\ wifiJob'.hurt = wifiJob.hurt
           /\ wifiJob'.error = wifiJob.error
<1>1. wifiJob \in Wifi!Job /\ wifiJob # None
  BY WifiHelpers DEF Wifi!Up, Wifi!At
<1>2. wifiJob' \in Wifi!Job
  BY <1>1, WifiHelpers, FallingBack DEF Wifi!Up, Wifi!At, Wifi!Goes, Wifi!Job
<1> QED
  BY <1>1, <1>2, WifiAssumption, FallingBack DEF Wifi!Up, Wifi!At, Wifi!Goes, Wifi!Job,
     WifiCarries, Wifi!WifiConstants

LEMMA AfterUpFails ==
    ASSUME Wifi!TypeOK, NEW left \in Wifi!Radio, Wifi!UpFails(left)
    PROVE  /\ WifiCarries
           /\ wifiJob.mode = "performance" =>
                /\ wifiJob'.phase = "write" /\ wifiJob'.mode = "standard"
                /\ wifiJob'.value.mode = "standard" /\ wifiJob'.value.notice
           /\ wifiJob.mode = "standard" =>
                wifiJob'.phase = "restore" /\ wifiJob'.mode = wifiJob.mode
                  /\ wifiJob'.value = wifiJob.value
           /\ wifiJob'.value.key = wifiJob.value.key
           /\ wifiJob.phase = "up" /\ wifiJob'.touched
           /\ wifiJob'.hurt <=> wifiJob.hurt \/ wifiProfile.mode = "standard"
           /\ wifiJob'.compared = wifiJob.compared /\ wifiJob'.error = wifiJob.error
<1>1. wifiJob \in Wifi!Job /\ wifiJob # None
  BY WifiHelpers DEF Wifi!UpFails, Wifi!At
<1>2. wifiJob' \in Wifi!Job
  BY <1>1, WifiHelpers, FallingBack DEF Wifi!UpFails, Wifi!At, Wifi!Goes, Wifi!Job
<1>3. Wifi!FallsBack \in Wifi!Job /\ Wifi!FallsBack.hurt = wifiJob.hurt
        /\ wifiJob.hurt \in BOOLEAN
  BY <1>1, FallingBack, WifiHelpers
<1>4. CASE wifiJob.hurt \/ wifiProfile.mode = "standard"
  <2>1. (Wifi!FallsBack.hurt \/ wifiProfile.mode = "standard") = TRUE
    BY <1>3, <1>4
  <2>2. wifiJob' = [Wifi!FallsBack EXCEPT !.touched = TRUE, !.hurt = TRUE]
    BY <2>1 DEF Wifi!UpFails
  <2>3. wifiJob'.hurt = TRUE /\ wifiJob'.touched = TRUE
    BY <1>3, <2>2 DEF Wifi!Job
  <2>4. /\ wifiJob'.kind = Wifi!FallsBack.kind /\ wifiJob'.id = Wifi!FallsBack.id
        /\ wifiJob'.change = Wifi!FallsBack.change
        /\ wifiJob'.before = Wifi!FallsBack.before /\ wifiJob'.phase = Wifi!FallsBack.phase
        /\ wifiJob'.mode = Wifi!FallsBack.mode /\ wifiJob'.value = Wifi!FallsBack.value
        /\ wifiJob'.compared = Wifi!FallsBack.compared /\ wifiJob'.error = Wifi!FallsBack.error
    BY <1>3, <2>2 DEF Wifi!Job
  <2> QED
    BY <1>1, <1>2, <1>4, <2>3, <2>4, WifiAssumption, FallingBack DEF Wifi!UpFails, Wifi!At,
       WifiCarries, Wifi!WifiConstants
<1>5. CASE ~(wifiJob.hurt \/ wifiProfile.mode = "standard")
  <2>1. (Wifi!FallsBack.hurt \/ wifiProfile.mode = "standard") = FALSE
    BY <1>3, <1>5
  <2>2. wifiJob' = [Wifi!FallsBack EXCEPT !.touched = TRUE, !.hurt = FALSE]
    BY <2>1 DEF Wifi!UpFails
  <2>3. wifiJob'.hurt = FALSE /\ wifiJob'.touched = TRUE
    BY <1>3, <2>2 DEF Wifi!Job
  <2>4. /\ wifiJob'.kind = Wifi!FallsBack.kind /\ wifiJob'.id = Wifi!FallsBack.id
        /\ wifiJob'.change = Wifi!FallsBack.change
        /\ wifiJob'.before = Wifi!FallsBack.before /\ wifiJob'.phase = Wifi!FallsBack.phase
        /\ wifiJob'.mode = Wifi!FallsBack.mode /\ wifiJob'.value = Wifi!FallsBack.value
        /\ wifiJob'.compared = Wifi!FallsBack.compared /\ wifiJob'.error = Wifi!FallsBack.error
    BY <1>3, <2>2 DEF Wifi!Job
  <2> QED
    BY <1>1, <1>2, <1>5, <2>3, <2>4, WifiAssumption, FallingBack DEF Wifi!UpFails, Wifi!At,
       WifiCarries, Wifi!WifiConstants
<1> QED
  BY <1>4, <1>5

LEMMA AfterSave ==
    ASSUME Wifi!TypeOK, Wifi!SaveConfig
    PROVE  /\ WifiCarries
           /\ wifiJob.phase = "save" /\ wifiJob'.phase = "clear"
           /\ wifiJob'.mode = wifiJob.mode /\ wifiJob'.value = wifiJob.value
           /\ wifiJob'.touched = wifiJob.touched /\ wifiJob'.compared = wifiJob.compared
           /\ wifiJob'.hurt = wifiJob.hurt /\ wifiJob'.error = wifiJob.error
<1>1. wifiJob \in Wifi!Job /\ wifiJob # None
  BY WifiHelpers DEF Wifi!SaveConfig, Wifi!At
<1>2. wifiJob' \in Wifi!Job
  BY <1>1, WifiHelpers DEF Wifi!SaveConfig, Wifi!At, Wifi!Goes, Wifi!Job
<1> QED
  BY <1>1, <1>2, WifiAssumption DEF Wifi!SaveConfig, Wifi!At, Wifi!Goes, Wifi!Job, WifiCarries,
     Wifi!WifiConstants

LEMMA AfterUnsaved ==
    ASSUME Wifi!TypeOK, Wifi!SaveFails
    PROVE  /\ WifiCarries
           /\ wifiJob.phase = "save" /\ wifiJob'.phase = "restore" /\ wifiJob'.hurt
           /\ wifiJob'.mode = wifiJob.mode /\ wifiJob'.value = wifiJob.value
           /\ wifiJob'.touched = wifiJob.touched /\ wifiJob'.compared = wifiJob.compared
           /\ wifiJob'.error = wifiJob.error
<1>1. wifiJob \in Wifi!Job /\ wifiJob # None
  BY WifiHelpers DEF Wifi!SaveFails, Wifi!At
<1>2. wifiJob' \in Wifi!Job
  BY <1>1, WifiHelpers DEF Wifi!SaveFails, Wifi!At, Wifi!Goes, Wifi!Job
<1> QED
  BY <1>1, <1>2, WifiAssumption DEF Wifi!SaveFails, Wifi!At, Wifi!Goes, Wifi!Job, WifiCarries,
     Wifi!WifiConstants

LEMMA AfterClear ==
    ASSUME Wifi!TypeOK, Wifi!ClearStatus
    PROVE  /\ WifiCarries
           /\ wifiJob.phase = "clear" /\ wifiJob'.phase = "publish"
           /\ wifiJob'.mode = wifiJob.mode /\ wifiJob'.value = wifiJob.value
           /\ wifiJob'.touched = wifiJob.touched /\ wifiJob'.compared = wifiJob.compared
           /\ wifiJob'.hurt = wifiJob.hurt /\ wifiJob'.error = wifiJob.error
<1>1. wifiJob \in Wifi!Job /\ wifiJob # None
  BY WifiHelpers DEF Wifi!ClearStatus, Wifi!At
<1>2. wifiJob' \in Wifi!Job
  BY <1>1, WifiHelpers DEF Wifi!ClearStatus, Wifi!At, Wifi!Goes, Wifi!Job
<1> QED
  BY <1>1, <1>2, WifiAssumption DEF Wifi!ClearStatus, Wifi!At, Wifi!Goes, Wifi!Job, WifiCarries,
     Wifi!WifiConstants

LEMMA AfterRestore ==
    ASSUME Wifi!TypeOK, Wifi!RestoreProfile
    PROVE  /\ WifiCarries
           /\ wifiJob.phase = "restore" /\ wifiJob'.phase = "restart" /\ wifiJob'.error
           /\ wifiJob'.mode = wifiJob.mode /\ wifiJob'.value = wifiJob.value
           /\ wifiJob'.touched = wifiJob.touched /\ wifiJob'.compared = wifiJob.compared
           /\ wifiJob'.hurt = wifiJob.hurt
<1>1. wifiJob \in Wifi!Job /\ wifiJob # None
  BY WifiHelpers DEF Wifi!RestoreProfile, Wifi!At
<1>2. wifiJob' \in Wifi!Job
  BY <1>1, WifiHelpers DEF Wifi!RestoreProfile, Wifi!At, Wifi!Goes, Wifi!Job
<1> QED
  BY <1>1, <1>2, WifiAssumption DEF Wifi!RestoreProfile, Wifi!At, Wifi!Goes, Wifi!Job,
     WifiCarries, Wifi!WifiConstants

LEMMA AfterUnrestored ==
    ASSUME Wifi!TypeOK, Wifi!RestoreFails
    PROVE  /\ WifiCarries
           /\ wifiJob.phase = "restore" /\ wifiJob'.phase = "publish" /\ wifiJob'.error
           /\ wifiJob'.mode = wifiJob.mode /\ wifiJob'.value = wifiJob.value
           /\ wifiJob'.touched = wifiJob.touched /\ wifiJob'.compared = wifiJob.compared
           /\ wifiJob'.hurt = wifiJob.hurt
<1>1. wifiJob \in Wifi!Job /\ wifiJob # None
  BY WifiHelpers DEF Wifi!RestoreFails, Wifi!At
<1>2. wifiJob' \in Wifi!Job
  BY <1>1, WifiHelpers DEF Wifi!RestoreFails, Wifi!At, Wifi!Goes, Wifi!Job
<1> QED
  BY <1>1, <1>2, WifiAssumption DEF Wifi!RestoreFails, Wifi!At, Wifi!Goes, Wifi!Job, WifiCarries,
     Wifi!WifiConstants

LEMMA AfterRestart ==
    ASSUME Wifi!TypeOK, NEW left \in Wifi!Radio, Wifi!Restart(left)
    PROVE  /\ WifiCarries
           /\ wifiJob.phase = "restart" /\ wifiJob'.phase = "publish"
           /\ wifiJob'.mode = wifiJob.mode /\ wifiJob'.value = wifiJob.value
           /\ wifiJob'.touched = wifiJob.touched /\ wifiJob'.compared = wifiJob.compared
           /\ wifiJob'.hurt = wifiJob.hurt /\ wifiJob'.error = wifiJob.error
<1>1. wifiJob \in Wifi!Job /\ wifiJob # None
  BY WifiHelpers DEF Wifi!Restart, Wifi!At
<1>2. wifiJob' \in Wifi!Job
  BY <1>1, WifiHelpers DEF Wifi!Restart, Wifi!At, Wifi!Goes, Wifi!Job
<1> QED
  BY <1>1, <1>2, WifiAssumption DEF Wifi!Restart, Wifi!At, Wifi!Goes, Wifi!Job, WifiCarries,
     Wifi!WifiConstants

\* The steps, one by one.
LEMMA WifiSteps ==
    ASSUME Wifi!Next
    PROVE  \/ \E change \in Wifi!Change : Wifi!Submit(change)
           \/ Wifi!StartRequest \/ Wifi!StartBoot \/ Wifi!StartRefresh
           \/ Wifi!Unready \/ Wifi!WriteProfile \/ Wifi!Up \/ Wifi!SaveConfig \/ Wifi!SaveFails
           \/ Wifi!ClearStatus
           \/ \E available \in BOOLEAN : Wifi!Begin(available)
           \/ \E written \in BOOLEAN : Wifi!WriteFails(written)
           \/ \E left \in Wifi!Radio : Wifi!UpFails(left)
           \/ \E left \in Wifi!Radio : Wifi!Restart(left)
           \/ Wifi!RestoreProfile \/ Wifi!RestoreFails \/ Wifi!Publish \/ Wifi!Kill
           \/ \E left \in Wifi!Radio : Wifi!Reboot(left)
           \/ \E left \in Wifi!Radio : Wifi!PanelSwitch(left)
BY DEF Wifi!Next, Wifi!Apply

\* Every step keeps the types.
LEMMA WifiTypes ==
    ASSUME Wifi!TypeOK, [Wifi!Next]_(Wifi!vars)
    PROVE  Wifi!TypeOK'
<1>0. CASE UNCHANGED Wifi!vars
  BY <1>0 DEF Wifi!TypeOK, Wifi!vars
<1>1. ASSUME NEW change \in Wifi!Change, Wifi!Submit(change) PROVE Wifi!TypeOK'
  <2>1. changes + 1 \in 1 .. MaxRequests /\ changes + 1 \in 0 .. MaxRequests
    BY <1>1, WifiAssumption DEF Wifi!Submit, Wifi!TypeOK, Wifi!WifiConstants
  <2>2. [id |-> changes + 1, change |-> change] \in Wifi!Request
    BY <2>1 DEF Wifi!Request
  <2> QED
    BY <1>1, <2>1, <2>2 DEF Wifi!TypeOK, Wifi!Submit
<1>2. CASE Wifi!StartRequest
  <2>1. wifiRequest \in Wifi!Request /\ wifiRequest.id \in 1 .. MaxRequests
          /\ wifiRequest.change \in Wifi!Change
    BY <1>2 DEF Wifi!StartRequest, Wifi!TypeOK, Wifi!Request
  <2>2. wifiRequest.id \in 0 .. MaxRequests /\ wifiRequest.id # 0
    BY <2>1, WifiAssumption DEF Wifi!WifiConstants
  <2>3. wifiRequest.change \in Wifi!Change \cup {None}
          /\ "request" \in {"request", "boot", "refresh"}
    BY <2>1
  <2>4. /\ Wifi!Started("request", wifiRequest.id, wifiRequest.change) \in Wifi!Job
        /\ Wifi!Started("request", wifiRequest.id, wifiRequest.change).kind = "request"
        /\ Wifi!Started("request", wifiRequest.id, wifiRequest.change).id = wifiRequest.id
    BY <2>2, <2>3, WifiStarts
  <2>5. wifiJob' \in Wifi!Job /\ wifiJob'.kind = "request" /\ wifiJob'.id # 0
    BY <1>2, <2>2, <2>4 DEF Wifi!StartRequest
  <2> QED
    BY <1>2, <2>5 DEF Wifi!TypeOK, Wifi!StartRequest
<1>3. CASE Wifi!StartBoot \/ Wifi!StartRefresh
  <2>1. /\ 0 \in 0 .. MaxRequests /\ None \in Wifi!Change \cup {None}
        /\ "boot" \in {"request", "boot", "refresh"}
        /\ "refresh" \in {"request", "boot", "refresh"}
    BY WifiAssumption DEF Wifi!WifiConstants
  <2>2. /\ Wifi!Started("boot", 0, None) \in Wifi!Job
        /\ Wifi!Started("boot", 0, None).kind = "boot"
        /\ Wifi!Started("boot", 0, None).id = 0
    BY <2>1, WifiStarts
  <2>3. /\ Wifi!Started("refresh", 0, None) \in Wifi!Job
        /\ Wifi!Started("refresh", 0, None).kind = "refresh"
        /\ Wifi!Started("refresh", 0, None).id = 0
    BY <2>1, WifiStarts
  <2>4. wifiJob' \in Wifi!Job /\ wifiJob'.kind # "request" /\ wifiJob'.id = 0
    BY <1>3, <2>2, <2>3 DEF Wifi!StartBoot, Wifi!StartRefresh
  <2> QED
    BY <1>3, <2>4 DEF Wifi!TypeOK, Wifi!StartBoot, Wifi!StartRefresh
<1>4. ASSUME WifiCarries, {wifiProfile', air'} \subseteq Wifi!Profile \cup {None},
             wifiProfile' # None,
             wifiConfig' \in Wifi!Config \cup {None}, wifiStatus' \in Wifi!Status \cup {None},
             disturbed' \in BOOLEAN,
             UNCHANGED <<backend, wifiRequest, changes, wifiBooting, wifiKills>>
      PROVE  Wifi!TypeOK'
  BY <1>4 DEF Wifi!TypeOK, WifiCarries
<1>5. /\ {wifiProfile, air, Wifi!Wanted, wifiJob.before} \subseteq Wifi!Profile \cup {None}
           \/ wifiJob = None
      /\ {wifiProfile, air} \subseteq Wifi!Profile \cup {None} /\ None \notin Wifi!Profile
      /\ wifiConfig \in Wifi!Config \cup {None} /\ wifiStatus \in Wifi!Status \cup {None}
      /\ disturbed \in BOOLEAN
  BY WifiHelpers, WifiAssumption DEF Wifi!TypeOK, Wifi!WifiConstants
<1>6. CASE Wifi!Unready
  BY <1>4, <1>5, <1>6, AfterUnready DEF Wifi!Unready, Wifi!TypeOK
<1>7. CASE Wifi!WriteProfile
  BY <1>4, <1>5, <1>7, AfterWrite, WifiHelpers DEF Wifi!WriteProfile, Wifi!TypeOK, WifiCarries
<1>8. CASE Wifi!Up
  BY <1>4, <1>5, <1>8, AfterUp, AfterUpElse DEF Wifi!Up, Wifi!TypeOK
<1>9. CASE Wifi!SaveConfig
  BY <1>4, <1>5, <1>9, AfterSave, WifiHelpers DEF Wifi!SaveConfig, Wifi!TypeOK, WifiCarries
<1>10. CASE Wifi!SaveFails
  BY <1>4, <1>5, <1>10, AfterUnsaved DEF Wifi!SaveFails, Wifi!TypeOK
<1>11. CASE Wifi!ClearStatus
  BY <1>4, <1>5, <1>11, AfterClear DEF Wifi!ClearStatus, Wifi!TypeOK
<1>12. ASSUME NEW available \in BOOLEAN, Wifi!Begin(available) PROVE Wifi!TypeOK'
  BY <1>4, <1>5, <1>12, AfterBegin DEF Wifi!Begin, Wifi!TypeOK
<1>13. CASE Wifi!WriteFails(TRUE)
  BY <1>4, <1>5, <1>13, AfterWritten, WifiHelpers DEF Wifi!WriteFails, Wifi!TypeOK, WifiCarries
<1>14. CASE Wifi!WriteFails(FALSE)
  BY <1>4, <1>5, <1>14, AfterUnwritten DEF Wifi!WriteFails, Wifi!TypeOK
<1>15. ASSUME NEW left \in Wifi!Radio, Wifi!UpFails(left) PROVE Wifi!TypeOK'
  BY <1>4, <1>5, <1>15, AfterUpFails DEF Wifi!UpFails, Wifi!TypeOK, Wifi!Radio
<1>16. ASSUME NEW left \in Wifi!Radio, Wifi!Restart(left) PROVE Wifi!TypeOK'
  BY <1>4, <1>5, <1>16, AfterRestart DEF Wifi!Restart, Wifi!TypeOK, Wifi!Radio
<1>17. CASE Wifi!RestoreProfile
  BY <1>4, <1>5, <1>17, AfterRestore, WifiHelpers DEF Wifi!RestoreProfile, Wifi!TypeOK,
     WifiCarries
<1>18. CASE Wifi!RestoreFails
  BY <1>4, <1>5, <1>18, AfterUnrestored DEF Wifi!RestoreFails, Wifi!TypeOK
<1>19. CASE Wifi!Publish
  <2>1. wifiStatus' \in Wifi!Status
    BY <1>19, WifiHelpers DEF Wifi!Publish, Wifi!At, Wifi!TypeOK, Wifi!Status, Wifi!Saved,
       Wifi!Config, Wifi!Mode
  <2> QED
    BY <1>19, <2>1 DEF Wifi!TypeOK, Wifi!Publish
<1>20. CASE Wifi!Kill
  BY <1>20 DEF Wifi!TypeOK, Wifi!Kill, Wifi!Touched
<1>21. ASSUME NEW left \in Wifi!Radio, Wifi!Reboot(left) PROVE Wifi!TypeOK'
  BY <1>21 DEF Wifi!TypeOK, Wifi!Reboot, Wifi!Touched, Wifi!Radio
<1>22. ASSUME NEW left \in Wifi!Radio, Wifi!PanelSwitch(left) PROVE Wifi!TypeOK'
  BY <1>22 DEF Wifi!TypeOK, Wifi!PanelSwitch, Wifi!Radio
<1> QED
  BY <1>0, <1>1, <1>2, <1>3, <1>6, <1>7, <1>8, <1>9, <1>10, <1>11, <1>12, <1>13, <1>14,
     <1>15, <1>16, <1>17, <1>18, <1>19, <1>20, <1>21, <1>22, WifiSteps

\* Each step keeps the rest of the invariant.
LEMMA KeptBySubmit ==
    ASSUME Wifi!IInv, NEW change \in Wifi!Change, Wifi!Submit(change)
    PROVE  WifiKept'
<1>0. Wifi!TypeOK /\ Wifi!UntouchedInStep /\ Wifi!StartedAtBoot /\ Wifi!JobShape /\ Wifi!Remembers
        /\ Wifi!Attempts /\ Wifi!Concludes
  BY DEF Wifi!IInv
<1>1. Wifi!UntouchedInStep'
  BY <1>0 DEF Wifi!Submit, Wifi!InStep, Wifi!UntouchedInStep
<1>2. Wifi!StartedAtBoot'
  BY <1>0 DEF Wifi!Submit, Wifi!StartedAtBoot
<1>3. Wifi!JobShape'
  BY <1>0 DEF Wifi!Submit, Wifi!JobShape
<1>4. Wifi!Remembers'
  BY <1>0 DEF Wifi!Submit, Wifi!Remembers
<1>5. Wifi!Attempts'
  BY <1>0 DEF Wifi!Submit, Wifi!At, Wifi!Attempts
<1>6. Wifi!Concludes'
  BY <1>0 DEF Wifi!Submit, Wifi!Concludes
<1> QED
  BY <1>1, <1>2, <1>3, <1>4, <1>5, <1>6 DEF WifiKept

LEMMA KeptByUnready ==
    ASSUME Wifi!IInv, Wifi!Unready
    PROVE  WifiKept'
<1>0. Wifi!TypeOK /\ Wifi!UntouchedInStep /\ Wifi!StartedAtBoot /\ Wifi!JobShape /\ Wifi!Remembers
        /\ Wifi!Attempts /\ Wifi!Concludes
  BY DEF Wifi!IInv
<1>1. Wifi!UntouchedInStep'
  BY <1>0 DEF Wifi!Unready, Wifi!At, Wifi!InStep, Wifi!UntouchedInStep, Wifi!JobShape
<1>2. Wifi!StartedAtBoot'
  BY <1>0 DEF Wifi!Unready, Wifi!At, Wifi!StartedAtBoot
<1>3. Wifi!JobShape'
  BY <1>0 DEF Wifi!Unready, Wifi!At, Wifi!JobShape
<1>4. Wifi!Remembers'
  BY <1>0 DEF Wifi!Unready, Wifi!Remembers
<1>5. Wifi!Attempts'
  BY <1>0 DEF Wifi!Unready, Wifi!At, Wifi!Attempts
<1>6. Wifi!Concludes'
  BY <1>0 DEF Wifi!Unready, Wifi!Concludes
<1> QED
  BY <1>1, <1>2, <1>3, <1>4, <1>5, <1>6 DEF WifiKept

LEMMA KeptByBegin ==
    ASSUME Wifi!IInv, NEW available \in BOOLEAN, Wifi!Begin(available)
    PROVE  WifiKept'
<1>0. Wifi!TypeOK /\ Wifi!UntouchedInStep /\ Wifi!StartedAtBoot /\ Wifi!JobShape /\ Wifi!Remembers
        /\ Wifi!Attempts /\ Wifi!Concludes
  BY DEF Wifi!IInv
<1>1. Wifi!UntouchedInStep'
  BY <1>0, AfterBegin DEF Wifi!Begin, Wifi!InStep, Wifi!UntouchedInStep, Wifi!JobShape
<1>2. Wifi!StartedAtBoot'
  BY <1>0, AfterBegin DEF Wifi!Begin, WifiCarries, Wifi!StartedAtBoot
<1>3. Wifi!JobShape'
  BY <1>0, AfterBegin DEF Wifi!Begin, WifiCarries, Wifi!JobShape
<1>4. Wifi!Remembers'
  BY <1>0, AfterBegin DEF Wifi!Begin, WifiCarries, Wifi!Remembers
<1>5. Wifi!Attempts'
  BY <1>0, AfterBegin DEF Wifi!At, WifiCarries, Wifi!JobShape, Wifi!Attempts
<1>6. Wifi!Concludes'
  BY <1>0, AfterBegin DEF Wifi!Begin, WifiCarries, Wifi!Concludes
<1> QED
  BY <1>1, <1>2, <1>3, <1>4, <1>5, <1>6 DEF WifiKept

LEMMA KeptByWrite ==
    ASSUME Wifi!IInv, Wifi!WriteProfile
    PROVE  WifiKept'
<1>0. Wifi!TypeOK /\ Wifi!UntouchedInStep /\ Wifi!StartedAtBoot /\ Wifi!JobShape /\ Wifi!Remembers
        /\ Wifi!Attempts /\ Wifi!Concludes
  BY DEF Wifi!IInv
<1>1. Wifi!UntouchedInStep'
  BY <1>0, AfterWrite DEF Wifi!WriteProfile, WifiCarries, Wifi!InStep, Wifi!UntouchedInStep
<1>2. Wifi!StartedAtBoot'
  BY <1>0, AfterWrite DEF Wifi!WriteProfile, Wifi!At, Wifi!StartedAtBoot, Wifi!JobShape
<1>3. Wifi!JobShape'
  BY <1>0 DEF Wifi!WriteProfile, Wifi!At, Wifi!JobShape
<1>4. Wifi!Remembers'
  BY <1>0, AfterWrite DEF Wifi!WriteProfile, Wifi!At, Wifi!Compared, Wifi!Remembers
<1>5. Wifi!Attempts'
  <2>1. /\ wifiJob'.phase \in {"up", "save"} /\ wifiJob'.mode = wifiJob.mode
        /\ wifiJob'.value = wifiJob.value
        /\ Wifi!Wanted' = Wifi!Wanted /\ backend' = backend /\ air' = air
        /\ disturbed' = disturbed
        /\ wifiJob'.kind = wifiJob.kind /\ wifiJob'.before = wifiJob.before
        /\ wifiJob.phase = "write"
    BY <1>0, AfterWrite DEF Wifi!WriteProfile, Wifi!Wanted
  <2>2. wifiJob.touched =>
          /\ wifiJob.mode = "standard" /\ wifiProfile.mode = "performance"
          /\ backend = "hostapd" => air \in {None, wifiProfile}
    BY <1>0, <2>1 DEF Wifi!WriteProfile, Wifi!Attempts
  <2>3. ~wifiJob.touched => wifiProfile = wifiJob.before
    BY <1>0, <2>1 DEF Wifi!WriteProfile, Wifi!Remembers, Wifi!At
  <2>4. wifiJob.compared = IF backend = "keyfile" THEN wifiProfile ELSE wifiJob.before
    BY <1>0, <2>1 DEF Wifi!WriteProfile, Wifi!Remembers, Wifi!At
  <2>5. ~wifiJob.touched => (disturbed /\ wifiJob.kind # "boot") \/ air \in {None, wifiProfile}
    BY <1>0, <2>1 DEF Wifi!WriteProfile, Wifi!UntouchedInStep, Wifi!InStep, Wifi!StartedAtBoot,
       Wifi!At
  <2>6. CASE wifiJob.compared # Wifi!Wanted
    BY <1>0, <2>1, <2>6 DEF Wifi!WriteProfile, Wifi!Attempts, Wifi!At
  <2>7. CASE wifiJob.compared = Wifi!Wanted
    <3>1. wifiProfile' = wifiProfile
      BY <2>7 DEF Wifi!WriteProfile
    <3>2. \/ wifiProfile = Wifi!Wanted
          \/ /\ backend = "hostapd" /\ wifiJob.before.mode = "standard" /\ wifiJob.touched
             /\ wifiJob.mode = "standard" /\ wifiProfile.mode = "performance"
      BY <1>0, <2>2, <2>3, <2>4, <2>7 DEF Wifi!Wanted, Wifi!TypeOK
    <3>3. wifiJob'.phase = "save" => air # None /\ air.mode = wifiJob.mode
      BY <1>0, <2>7, AfterWrite
    <3>4. wifiJob'.phase = "save" => wifiProfile = Wifi!Wanted
            /\ ((disturbed /\ wifiJob.kind # "boot") \/ air = wifiProfile)
      BY <2>2, <2>3, <2>4, <2>5, <2>7, <3>2, <3>3 DEF Wifi!Wanted
    <3> QED
      BY <2>1, <3>1, <3>2, <3>4 DEF Wifi!Attempts, Wifi!At
  <2> QED
    BY <2>6, <2>7
<1>6. Wifi!Concludes'
  BY <1>0 DEF Wifi!WriteProfile, Wifi!At, Wifi!Concludes
<1> QED
  BY <1>1, <1>2, <1>3, <1>4, <1>5, <1>6 DEF WifiKept

LEMMA KeptByWritten ==
    ASSUME Wifi!IInv, Wifi!WriteFails(TRUE)
    PROVE  WifiKept'
<1>0. Wifi!TypeOK /\ Wifi!UntouchedInStep /\ Wifi!StartedAtBoot /\ Wifi!JobShape /\ Wifi!Remembers
        /\ Wifi!Attempts /\ Wifi!Concludes
  BY DEF Wifi!IInv
<1>1. Wifi!UntouchedInStep'
  BY <1>0, AfterWritten, WifiHelpers DEF WifiCarries, Wifi!Mode, Wifi!UntouchedInStep
<1>2. Wifi!StartedAtBoot'
  BY <1>0 DEF Wifi!WriteFails, Wifi!At, Wifi!StartedAtBoot, Wifi!JobShape
<1>3. Wifi!JobShape'
  BY <1>0, AfterWritten, WifiHelpers DEF Wifi!WriteFails, WifiCarries, Wifi!Mode, Wifi!JobShape
<1>4. Wifi!Remembers'
  BY <1>0, AfterWritten, WifiHelpers DEF Wifi!WriteFails, WifiCarries, Wifi!Compared, Wifi!Mode,
     Wifi!Remembers
<1>5. Wifi!Attempts'
  BY <1>0, AfterWritten, WifiHelpers DEF Wifi!WriteFails, Wifi!At, Wifi!Mode, Wifi!Attempts
<1>6. Wifi!Concludes'
  BY <1>0, AfterWritten, WifiHelpers DEF Wifi!WriteFails, Wifi!At, Wifi!Mode, Wifi!JobShape,
     Wifi!Concludes
<1> QED
  BY <1>1, <1>2, <1>3, <1>4, <1>5, <1>6 DEF WifiKept

LEMMA KeptByUnwritten ==
    ASSUME Wifi!IInv, Wifi!WriteFails(FALSE)
    PROVE  WifiKept'
<1>0. Wifi!TypeOK /\ Wifi!UntouchedInStep /\ Wifi!StartedAtBoot /\ Wifi!JobShape /\ Wifi!Remembers
        /\ Wifi!Attempts /\ Wifi!Concludes
  BY DEF Wifi!IInv
<1>1. Wifi!UntouchedInStep'
  BY <1>0, AfterUnwritten DEF Wifi!WriteFails, WifiCarries, Wifi!InStep, Wifi!UntouchedInStep
<1>2. Wifi!StartedAtBoot'
  BY <1>0 DEF Wifi!WriteFails, Wifi!At, Wifi!StartedAtBoot
<1>3. Wifi!JobShape'
  BY <1>0 DEF Wifi!WriteFails, Wifi!At, Wifi!JobShape
<1>4. Wifi!Remembers'
  BY <1>0 DEF Wifi!WriteFails, Wifi!At, Wifi!Remembers
<1>5. Wifi!Attempts'
  BY <1>0 DEF Wifi!WriteFails, Wifi!At, Wifi!Attempts
<1>6. Wifi!Concludes'
  BY <1>0 DEF Wifi!WriteFails, Wifi!Concludes
<1> QED
  BY <1>1, <1>2, <1>3, <1>4, <1>5, <1>6 DEF WifiKept

LEMMA KeptByUp ==
    ASSUME Wifi!IInv, Wifi!Up, wifiProfile.mode = wifiJob.mode
    PROVE  WifiKept'
<1>0. Wifi!TypeOK /\ Wifi!UntouchedInStep /\ Wifi!StartedAtBoot /\ Wifi!JobShape /\ Wifi!Remembers
        /\ Wifi!Attempts /\ Wifi!Concludes
  BY DEF Wifi!IInv
<1>1. Wifi!UntouchedInStep'
  BY <1>0, AfterUp DEF WifiCarries, Wifi!UntouchedInStep
<1>2. Wifi!StartedAtBoot'
  BY <1>0 DEF Wifi!Up, Wifi!StartedAtBoot
<1>3. Wifi!JobShape'
  BY <1>0 DEF Wifi!Up, Wifi!At, Wifi!JobShape
<1>4. Wifi!Remembers'
  BY <1>0 DEF Wifi!Up, Wifi!At, Wifi!Remembers
<1>5. Wifi!Attempts'
  BY <1>0 DEF Wifi!Up, Wifi!At, Wifi!Wanted, Wifi!Attempts
<1>6. Wifi!Concludes'
  BY <1>0 DEF Wifi!Up, Wifi!At, Wifi!Concludes
<1> QED
  BY <1>1, <1>2, <1>3, <1>4, <1>5, <1>6 DEF WifiKept

LEMMA KeptByUpElse ==
    ASSUME Wifi!IInv, Wifi!Up, wifiProfile.mode # wifiJob.mode
    PROVE  WifiKept'
<1>0. Wifi!TypeOK /\ Wifi!UntouchedInStep /\ Wifi!StartedAtBoot /\ Wifi!JobShape /\ Wifi!Remembers
        /\ Wifi!Attempts /\ Wifi!Concludes
  BY DEF Wifi!IInv
<1>1. Wifi!UntouchedInStep'
  BY <1>0, AfterUpElse, WifiHelpers DEF WifiCarries, Wifi!Mode, Wifi!UntouchedInStep
<1>2. Wifi!StartedAtBoot'
  BY <1>0 DEF Wifi!Up, Wifi!StartedAtBoot
<1>3. Wifi!JobShape'
  BY <1>0, AfterUpElse, WifiHelpers DEF Wifi!Up, WifiCarries, Wifi!JobShape, Wifi!Attempts
<1>4. Wifi!Remembers'
  BY <1>0, AfterUpElse, WifiHelpers DEF Wifi!Up, WifiCarries, Wifi!Remembers, Wifi!Attempts
<1>5. Wifi!Attempts'
  BY <1>0, AfterUpElse, WifiHelpers DEF Wifi!Up, Wifi!At, Wifi!Attempts
<1>6. Wifi!Concludes'
  BY <1>0, AfterUpElse, WifiHelpers DEF Wifi!Up, WifiCarries, Wifi!Attempts, Wifi!Concludes
<1> QED
  BY <1>1, <1>2, <1>3, <1>4, <1>5, <1>6 DEF WifiKept

LEMMA KeptByUpFails ==
    ASSUME Wifi!IInv, NEW left \in Wifi!Radio, Wifi!UpFails(left)
    PROVE  WifiKept'
<1>0. Wifi!TypeOK /\ Wifi!UntouchedInStep /\ Wifi!StartedAtBoot /\ Wifi!JobShape /\ Wifi!Remembers
        /\ Wifi!Attempts /\ Wifi!Concludes
  BY DEF Wifi!IInv
<1>1. Wifi!UntouchedInStep'
  BY <1>0, AfterUpFails, WifiHelpers DEF WifiCarries, Wifi!Mode, Wifi!UntouchedInStep
<1>2. Wifi!StartedAtBoot'
  BY <1>0 DEF Wifi!UpFails, Wifi!StartedAtBoot
<1>3. Wifi!JobShape'
  BY <1>0, AfterUpFails, WifiHelpers DEF Wifi!UpFails, WifiCarries, Wifi!Mode, Wifi!JobShape
<1>4. Wifi!Remembers'
  BY <1>0, AfterUpFails, WifiHelpers DEF Wifi!UpFails, WifiCarries, Wifi!Mode, Wifi!Remembers
<1>5. Wifi!Attempts'
  BY <1>0, AfterUpFails, WifiHelpers DEF Wifi!UpFails, Wifi!At, Wifi!Mode, Wifi!Attempts
<1>6. Wifi!Concludes'
  BY <1>0, AfterUpFails, WifiHelpers DEF Wifi!UpFails, WifiCarries, Wifi!Mode, Wifi!Attempts,
     Wifi!Concludes
<1> QED
  BY <1>1, <1>2, <1>3, <1>4, <1>5, <1>6 DEF WifiKept

LEMMA KeptBySave ==
    ASSUME Wifi!IInv, Wifi!SaveConfig
    PROVE  WifiKept'
<1>0. Wifi!TypeOK /\ Wifi!UntouchedInStep /\ Wifi!StartedAtBoot /\ Wifi!JobShape /\ Wifi!Remembers
        /\ Wifi!Attempts /\ Wifi!Concludes
  BY DEF Wifi!IInv
<1>1. Wifi!UntouchedInStep'
  BY <1>0, AfterSave, WifiHelpers DEF Wifi!SaveConfig, Wifi!At, Wifi!Goes, WifiCarries,
     Wifi!Wanted, Wifi!Compared, Wifi!InStep, Wifi!ProfileOf, Wifi!Mode,
     Wifi!UntouchedInStep, Wifi!StartedAtBoot, Wifi!JobShape, Wifi!Remembers, Wifi!Attempts,
     Wifi!Concludes
<1>2. Wifi!StartedAtBoot'
  BY <1>0 DEF Wifi!SaveConfig, Wifi!At, Wifi!StartedAtBoot
<1>3. Wifi!JobShape'
  BY <1>0 DEF Wifi!SaveConfig, Wifi!At, Wifi!JobShape
<1>4. Wifi!Remembers'
  BY <1>0 DEF Wifi!SaveConfig, Wifi!Remembers
<1>5. Wifi!Attempts'
  BY <1>0 DEF Wifi!SaveConfig, Wifi!At, Wifi!Attempts
<1>6. Wifi!Concludes'
  BY <1>0, AfterSave, WifiHelpers DEF Wifi!SaveConfig, Wifi!At, Wifi!Goes, WifiCarries,
     Wifi!Wanted, Wifi!Compared, Wifi!InStep, Wifi!ProfileOf, Wifi!Mode,
     Wifi!UntouchedInStep, Wifi!StartedAtBoot, Wifi!JobShape, Wifi!Remembers, Wifi!Attempts,
     Wifi!Concludes
<1> QED
  BY <1>1, <1>2, <1>3, <1>4, <1>5, <1>6 DEF WifiKept

LEMMA KeptByUnsaved ==
    ASSUME Wifi!IInv, Wifi!SaveFails
    PROVE  WifiKept'
<1>0. Wifi!TypeOK /\ Wifi!UntouchedInStep /\ Wifi!StartedAtBoot /\ Wifi!JobShape /\ Wifi!Remembers
        /\ Wifi!Attempts /\ Wifi!Concludes
  BY DEF Wifi!IInv
<1>1. Wifi!UntouchedInStep'
  BY <1>0, AfterUnsaved DEF Wifi!SaveFails, WifiCarries, Wifi!InStep, Wifi!UntouchedInStep
<1>2. Wifi!StartedAtBoot'
  BY <1>0 DEF Wifi!SaveFails, Wifi!At, Wifi!StartedAtBoot
<1>3. Wifi!JobShape'
  BY <1>0 DEF Wifi!SaveFails, Wifi!At, Wifi!JobShape
<1>4. Wifi!Remembers'
  BY <1>0 DEF Wifi!SaveFails, Wifi!At, Wifi!Remembers
<1>5. Wifi!Attempts'
  BY <1>0 DEF Wifi!SaveFails, Wifi!At, Wifi!Attempts
<1>6. Wifi!Concludes'
  BY <1>0 DEF Wifi!SaveFails, Wifi!Concludes
<1> QED
  BY <1>1, <1>2, <1>3, <1>4, <1>5, <1>6 DEF WifiKept

LEMMA KeptByClear ==
    ASSUME Wifi!IInv, Wifi!ClearStatus
    PROVE  WifiKept'
<1>0. Wifi!TypeOK /\ Wifi!UntouchedInStep /\ Wifi!StartedAtBoot /\ Wifi!JobShape /\ Wifi!Remembers
        /\ Wifi!Attempts /\ Wifi!Concludes
  BY DEF Wifi!IInv
<1>1. Wifi!UntouchedInStep'
  BY <1>0 DEF Wifi!ClearStatus, Wifi!At, Wifi!InStep, Wifi!UntouchedInStep
<1>2. Wifi!StartedAtBoot'
  BY <1>0 DEF Wifi!ClearStatus, Wifi!At, Wifi!Goes, Wifi!StartedAtBoot
<1>3. Wifi!JobShape'
  BY <1>0 DEF Wifi!ClearStatus, Wifi!At, Wifi!Goes, Wifi!JobShape
<1>4. Wifi!Remembers'
  BY <1>0, AfterClear DEF Wifi!Remembers
<1>5. Wifi!Attempts'
  BY <1>0, AfterClear DEF Wifi!At, Wifi!Attempts
<1>6. Wifi!Concludes'
  BY <1>0 DEF Wifi!ClearStatus, Wifi!At, Wifi!Goes, Wifi!Concludes
<1> QED
  BY <1>1, <1>2, <1>3, <1>4, <1>5, <1>6 DEF WifiKept

LEMMA KeptByRestore ==
    ASSUME Wifi!IInv, Wifi!RestoreProfile
    PROVE  WifiKept'
<1>0. Wifi!TypeOK /\ Wifi!UntouchedInStep /\ Wifi!StartedAtBoot /\ Wifi!JobShape /\ Wifi!Remembers
        /\ Wifi!Attempts /\ Wifi!Concludes
  BY DEF Wifi!IInv
<1>1. Wifi!UntouchedInStep'
  BY <1>0, AfterRestore DEF Wifi!RestoreProfile, WifiCarries, Wifi!InStep, Wifi!UntouchedInStep,
     Wifi!Remembers
<1>2. Wifi!StartedAtBoot'
  BY <1>0 DEF Wifi!RestoreProfile, Wifi!At, Wifi!StartedAtBoot, Wifi!JobShape, Wifi!Remembers
<1>3. Wifi!JobShape'
  BY <1>0 DEF Wifi!RestoreProfile, Wifi!At, Wifi!JobShape
<1>4. Wifi!Remembers'
  BY <1>0 DEF Wifi!RestoreProfile, Wifi!At, Wifi!Remembers
<1>5. Wifi!Attempts'
  BY <1>0 DEF Wifi!RestoreProfile, Wifi!At, Wifi!Attempts
<1>6. Wifi!Concludes'
  BY <1>0 DEF Wifi!RestoreProfile, Wifi!At, Wifi!Concludes
<1> QED
  BY <1>1, <1>2, <1>3, <1>4, <1>5, <1>6 DEF WifiKept

LEMMA KeptByUnrestored ==
    ASSUME Wifi!IInv, Wifi!RestoreFails
    PROVE  WifiKept'
<1>0. Wifi!TypeOK /\ Wifi!UntouchedInStep /\ Wifi!StartedAtBoot /\ Wifi!JobShape /\ Wifi!Remembers
        /\ Wifi!Attempts /\ Wifi!Concludes
  BY DEF Wifi!IInv
<1>1. Wifi!UntouchedInStep'
  BY <1>0 DEF Wifi!RestoreFails, Wifi!UntouchedInStep
<1>2. Wifi!StartedAtBoot'
  BY <1>0 DEF Wifi!RestoreFails, Wifi!At, Wifi!StartedAtBoot
<1>3. Wifi!JobShape'
  BY <1>0 DEF Wifi!RestoreFails, Wifi!At, Wifi!JobShape
<1>4. Wifi!Remembers'
  BY <1>0 DEF Wifi!RestoreFails, Wifi!Remembers
<1>5. Wifi!Attempts'
  BY <1>0 DEF Wifi!RestoreFails, Wifi!At, Wifi!Attempts
<1>6. Wifi!Concludes'
  BY <1>0 DEF Wifi!RestoreFails, Wifi!At, Wifi!Concludes
<1> QED
  BY <1>1, <1>2, <1>3, <1>4, <1>5, <1>6 DEF WifiKept

LEMMA KeptByRestart ==
    ASSUME Wifi!IInv, NEW left \in Wifi!Radio, Wifi!Restart(left)
    PROVE  WifiKept'
<1>0. Wifi!TypeOK /\ Wifi!UntouchedInStep /\ Wifi!StartedAtBoot /\ Wifi!JobShape /\ Wifi!Remembers
        /\ Wifi!Attempts /\ Wifi!Concludes
  BY DEF Wifi!IInv
<1>1. Wifi!UntouchedInStep'
  BY <1>0, WifiHelpers DEF Wifi!Restart, Wifi!At, Wifi!InStep, Wifi!UntouchedInStep,
     Wifi!JobShape, Wifi!Remembers
<1>2. Wifi!StartedAtBoot'
  BY <1>0 DEF Wifi!Restart, Wifi!At, Wifi!Goes, Wifi!StartedAtBoot
<1>3. Wifi!JobShape'
  BY <1>0 DEF Wifi!Restart, Wifi!At, Wifi!Goes, Wifi!JobShape
<1>4. Wifi!Remembers'
  BY <1>0, AfterRestart DEF Wifi!Remembers
<1>5. Wifi!Attempts'
  BY <1>0, AfterRestart DEF Wifi!At, Wifi!Attempts
<1>6. Wifi!Concludes'
  BY <1>0 DEF Wifi!Restart, Wifi!At, Wifi!Goes, Wifi!JobShape, Wifi!Concludes
<1> QED
  BY <1>1, <1>2, <1>3, <1>4, <1>5, <1>6 DEF WifiKept

LEMMA KeptByPublish ==
    ASSUME Wifi!IInv, Wifi!Publish
    PROVE  WifiKept'
<1>0. Wifi!TypeOK /\ Wifi!UntouchedInStep /\ Wifi!StartedAtBoot /\ Wifi!JobShape /\ Wifi!Remembers
        /\ Wifi!Attempts /\ Wifi!Concludes
  BY DEF Wifi!IInv
<1>1. Wifi!UntouchedInStep'
  BY <1>0 DEF Wifi!Publish, Wifi!At, Wifi!InStep, Wifi!UntouchedInStep
<1>2. Wifi!StartedAtBoot'
  BY <1>0 DEF Wifi!Publish, Wifi!StartedAtBoot
<1>3. Wifi!JobShape'
  BY <1>0 DEF Wifi!Publish, Wifi!JobShape
<1>4. Wifi!Remembers'
  BY <1>0 DEF Wifi!Publish, Wifi!Remembers
<1>5. Wifi!Attempts'
  BY <1>0 DEF Wifi!Publish, Wifi!At, Wifi!Attempts
<1>6. Wifi!Concludes'
  BY <1>0 DEF Wifi!Publish, Wifi!Concludes
<1> QED
  BY <1>1, <1>2, <1>3, <1>4, <1>5, <1>6 DEF WifiKept

LEMMA KeptByKill ==
    ASSUME Wifi!IInv, Wifi!Kill
    PROVE  WifiKept'
<1>0. Wifi!TypeOK /\ Wifi!UntouchedInStep /\ Wifi!StartedAtBoot /\ Wifi!JobShape /\ Wifi!Remembers
        /\ Wifi!Attempts /\ Wifi!Concludes
  BY DEF Wifi!IInv
<1>1. Wifi!UntouchedInStep'
  BY <1>0 DEF Wifi!Kill, Wifi!Touched, Wifi!At, Wifi!Goes, WifiCarries, Wifi!Wanted,
     Wifi!Compared, Wifi!InStep, Wifi!ProfileOf, Wifi!Mode,
     Wifi!UntouchedInStep, Wifi!StartedAtBoot, Wifi!JobShape, Wifi!Remembers, Wifi!Attempts,
     Wifi!Concludes
<1>2. Wifi!StartedAtBoot'
  BY <1>0 DEF Wifi!Kill, Wifi!StartedAtBoot
<1>3. Wifi!JobShape'
  BY <1>0 DEF Wifi!Kill, Wifi!JobShape
<1>4. Wifi!Remembers'
  BY <1>0 DEF Wifi!Kill, Wifi!Remembers
<1>5. Wifi!Attempts'
  BY <1>0 DEF Wifi!Kill, Wifi!At, Wifi!Attempts
<1>6. Wifi!Concludes'
  BY <1>0 DEF Wifi!Kill, Wifi!Concludes
<1> QED
  BY <1>1, <1>2, <1>3, <1>4, <1>5, <1>6 DEF WifiKept

LEMMA KeptByReboot ==
    ASSUME Wifi!IInv, NEW left \in Wifi!Radio, Wifi!Reboot(left)
    PROVE  WifiKept'
<1>0. Wifi!TypeOK /\ Wifi!UntouchedInStep /\ Wifi!StartedAtBoot /\ Wifi!JobShape /\ Wifi!Remembers
        /\ Wifi!Attempts /\ Wifi!Concludes
  BY DEF Wifi!IInv
<1>1. Wifi!UntouchedInStep'
  BY <1>0 DEF Wifi!Reboot, Wifi!Touched, Wifi!At, Wifi!Goes, WifiCarries, Wifi!Wanted,
     Wifi!Compared, Wifi!InStep, Wifi!ProfileOf, Wifi!Mode,
     Wifi!UntouchedInStep, Wifi!StartedAtBoot, Wifi!JobShape, Wifi!Remembers, Wifi!Attempts,
     Wifi!Concludes
<1>2. Wifi!StartedAtBoot'
  BY <1>0 DEF Wifi!Reboot, Wifi!StartedAtBoot
<1>3. Wifi!JobShape'
  BY <1>0 DEF Wifi!Reboot, Wifi!JobShape
<1>4. Wifi!Remembers'
  BY <1>0 DEF Wifi!Reboot, Wifi!Remembers
<1>5. Wifi!Attempts'
  BY <1>0 DEF Wifi!Reboot, Wifi!At, Wifi!Attempts
<1>6. Wifi!Concludes'
  BY <1>0 DEF Wifi!Reboot, Wifi!Concludes
<1> QED
  BY <1>1, <1>2, <1>3, <1>4, <1>5, <1>6 DEF WifiKept

LEMMA KeptBySwitch ==
    ASSUME Wifi!IInv, NEW left \in Wifi!Radio, Wifi!PanelSwitch(left)
    PROVE  WifiKept'
<1>0. Wifi!TypeOK /\ Wifi!UntouchedInStep /\ Wifi!StartedAtBoot /\ Wifi!JobShape /\ Wifi!Remembers
        /\ Wifi!Attempts /\ Wifi!Concludes
  BY DEF Wifi!IInv
<1>1. Wifi!UntouchedInStep'
  BY <1>0 DEF Wifi!PanelSwitch, Wifi!InStep, Wifi!UntouchedInStep
<1>2. Wifi!StartedAtBoot'
  BY <1>0 DEF Wifi!PanelSwitch, Wifi!StartedAtBoot
<1>3. Wifi!JobShape'
  BY <1>0 DEF Wifi!PanelSwitch, Wifi!JobShape
<1>4. Wifi!Remembers'
  BY <1>0 DEF Wifi!PanelSwitch, Wifi!Remembers
<1>5. Wifi!Attempts'
  BY <1>0 DEF Wifi!PanelSwitch, Wifi!At, Wifi!Attempts
<1>6. Wifi!Concludes'
  BY <1>0 DEF Wifi!PanelSwitch, Wifi!Concludes
<1> QED
  BY <1>1, <1>2, <1>3, <1>4, <1>5, <1>6 DEF WifiKept

LEMMA KeptByStart ==
    ASSUME Wifi!IInv, Wifi!StartRequest \/ Wifi!StartBoot \/ Wifi!StartRefresh
    PROVE  WifiKept'
<1>0. Wifi!TypeOK /\ Wifi!UntouchedInStep /\ Wifi!StartedAtBoot /\ Wifi!JobShape /\ Wifi!Remembers
        /\ Wifi!Attempts /\ Wifi!Concludes
  BY DEF Wifi!IInv
<1>1. PICK kind \in {"request", "boot", "refresh"}, id \in 0 .. MaxRequests,
           change \in Wifi!Change \cup {None} :
             /\ wifiJob' = Wifi!Started(kind, id, change)
             /\ wifiBooting' => kind = "refresh" /\ wifiBooting
             /\ kind = "boot" => wifiBooting
  <2>1. CASE Wifi!StartRequest
    <3>1. wifiRequest.id \in 1 .. MaxRequests /\ wifiRequest.change \in Wifi!Change
      BY <1>0, <2>1 DEF Wifi!StartRequest, Wifi!TypeOK, Wifi!Request
    <3>2. wifiRequest.id \in 0 .. MaxRequests
      BY <3>1
    <3> QED
      BY <2>1, <3>1, <3>2 DEF Wifi!StartRequest
  <2>2. CASE Wifi!StartBoot \/ Wifi!StartRefresh
    <3>1. 0 \in 0 .. MaxRequests /\ None \in Wifi!Change \cup {None}
      BY WifiAssumption DEF Wifi!WifiConstants
    <3> QED
      BY <2>2, <3>1 DEF Wifi!StartBoot, Wifi!StartRefresh
  <2> QED
    BY <2>1, <2>2
<1>2. /\ wifiJob' # None /\ wifiJob'.kind = kind /\ wifiJob'.change = change
      /\ wifiJob'.phase = IF kind = "refresh" THEN "publish" ELSE "begin"
      /\ wifiJob'.before = wifiProfile /\ wifiJob'.compared = wifiProfile
      /\ wifiJob'.value = Wifi!Selected(change) /\ wifiJob'.mode = Wifi!Selected(change).mode
      /\ ~wifiJob'.touched /\ ~wifiJob'.error /\ ~wifiJob'.hurt
  BY <1>0, <1>1, WifiStarts
<1>3. /\ change \in Keys => Wifi!Selected(change).key = change
      /\ change \in Wifi!Mode => Wifi!Selected(change).mode = change
  BY <1>0, Selections
<1>4. wifiJob = None /\ UNCHANGED <<backend, wifiProfile, wifiConfig, air, wifiStatus, disturbed>>
  BY DEF Wifi!StartRequest, Wifi!StartBoot, Wifi!StartRefresh
<1>6. Wifi!UntouchedInStep'
  BY <1>0, <1>2, <1>1, <1>3, <1>4 DEF Wifi!InStep, Wifi!UntouchedInStep
<1>7. Wifi!StartedAtBoot'
  BY <1>0, <1>2, <1>1, <1>3, <1>4 DEF Wifi!StartedAtBoot
<1>8. Wifi!JobShape'
  BY <1>0, <1>2, <1>1, <1>3, <1>4 DEF Wifi!JobShape
<1>9. Wifi!Remembers'
  BY <1>0, <1>2, <1>1, <1>3, <1>4 DEF Wifi!InStep, Wifi!UntouchedInStep, Wifi!Remembers
<1>10. Wifi!Attempts'
  BY <1>0, <1>2, <1>1, <1>3, <1>4 DEF Wifi!At, Wifi!Attempts
<1>11. Wifi!Concludes'
  BY <1>0, <1>2, <1>1, <1>3, <1>4 DEF Wifi!Concludes
<1> QED
  BY <1>6, <1>7, <1>8, <1>9, <1>10, <1>11 DEF WifiKept

\* The invariant is kept by every step.
LEMMA WifiInductive == Wifi!IInv /\ [Wifi!Next]_(Wifi!vars) => Wifi!IInv'
<1> SUFFICES ASSUME Wifi!IInv, [Wifi!Next]_(Wifi!vars) PROVE Wifi!IInv'
  OBVIOUS
<1>1. Wifi!TypeOK'
  BY WifiTypes DEF Wifi!IInv
<1>2. WifiKept'
  <2>1. CASE UNCHANGED Wifi!vars
    BY <2>1
    DEF Wifi!vars, Wifi!IInv, WifiKept, Wifi!UntouchedInStep, Wifi!InStep, Wifi!StartedAtBoot,
    Wifi!JobShape, Wifi!Remembers, Wifi!Attempts,
        Wifi!Concludes, Wifi!At, Wifi!Wanted
  <2>2. CASE Wifi!Up
    BY <2>2, KeptByUp, KeptByUpElse
  <2>3. ASSUME NEW written \in BOOLEAN, Wifi!WriteFails(written) PROVE WifiKept'
    <3>1. CASE written
      <4>1. Wifi!WriteFails(TRUE)
        BY <2>3, <3>1
      <4> QED
        BY <4>1, KeptByWritten
    <3>2. CASE ~written
      <4>1. Wifi!WriteFails(FALSE)
        BY <2>3, <3>2
      <4> QED
        BY <4>1, KeptByUnwritten
    <3> QED
      BY <3>1, <3>2
  <2> QED
    BY <2>1, <2>2, <2>3, WifiSteps, KeptBySubmit, KeptByStart, KeptByUnready, KeptByBegin,
       KeptByWrite,
       KeptByUpFails, KeptBySave, KeptByUnsaved, KeptByClear, KeptByRestore, KeptByUnrestored,
       KeptByRestart, KeptByPublish, KeptByKill, KeptByReboot, KeptBySwitch
<1> QED
  BY <1>1, <1>2 DEF Wifi!IInv, WifiKept

\* At rest the settings agree.
LEMMA WifiAgrees == Wifi!IInv => Wifi!SettingsAgree
BY DEF Wifi!IInv, Wifi!UntouchedInStep, Wifi!InStep, Wifi!ProfileOf, Wifi!SettingsAgree

\* Only the helper that publishes answers.
LEMMA WifiAnswers ==
    ASSUME Wifi!TypeOK, Wifi!Next, Wifi!Answers
    PROVE  Wifi!Publish /\ wifiJob.kind # "refresh" /\ wifiJob \in Wifi!Job
<1>1. wifiJob # None /\ wifiJob' = None /\ wifiStatus' # wifiStatus /\ wifiJob.kind # "refresh"
        /\ ~WifiCarries /\ wifiJob \in Wifi!Job
  BY DEF WifiCarries, Wifi!Answers, Wifi!TypeOK
<1>2. /\ ~Wifi!Unready /\ ~Wifi!WriteProfile /\ ~Wifi!SaveConfig /\ ~Wifi!SaveFails
      /\ ~Wifi!ClearStatus
      /\ ~Wifi!RestoreProfile /\ ~Wifi!RestoreFails
  BY <1>1, AfterUnready, AfterWrite, AfterSave, AfterUnsaved, AfterClear, AfterRestore,
     AfterUnrestored
<1>3. ~Wifi!Up
  BY <1>1, AfterUp, AfterUpElse
<1>4. ASSUME NEW available \in BOOLEAN, Wifi!Begin(available) PROVE FALSE
  BY <1>1, <1>4, AfterBegin
<1>5. ASSUME NEW written \in BOOLEAN, Wifi!WriteFails(written) PROVE FALSE
  BY <1>1, <1>5 DEF Wifi!WriteFails
<1>6. ASSUME NEW left \in Wifi!Radio, Wifi!UpFails(left) \/ Wifi!Restart(left) PROVE FALSE
  BY <1>1, <1>6, AfterUpFails, AfterRestart
<1>7. ASSUME NEW change \in Wifi!Change, Wifi!Submit(change) PROVE FALSE
  BY <1>1, <1>7 DEF Wifi!Submit
<1>8. ASSUME NEW left \in Wifi!Radio, Wifi!Reboot(left) \/ Wifi!PanelSwitch(left) PROVE FALSE
  BY <1>1, <1>8 DEF Wifi!Reboot, Wifi!PanelSwitch
<1>9. ~Wifi!Kill /\ ~Wifi!StartRequest /\ ~Wifi!StartBoot /\ ~Wifi!StartRefresh
  BY <1>1 DEF Wifi!Kill, Wifi!StartRequest, Wifi!StartBoot, Wifi!StartRefresh
<1> QED
  BY <1>1, <1>2, <1>3, <1>4, <1>5, <1>6, <1>7, <1>8, <1>9, WifiSteps

\* What the access point promises about its answers, step by step.
LEMMA AnswersHold ==
    ASSUME Wifi!IInv, Wifi!Next, Wifi!Answers
    PROVE  /\ ~wifiStatus'.error /\ ~disturbed =>
                /\ air = wifiProfile
                /\ wifiJob.change \in Keys => air.key = wifiJob.change
                /\ wifiJob.change \in Wifi!Mode => air.mode = wifiJob.change \/ wifiStatus'.notice
           /\ wifiStatus'.error => wifiJob.hurt
                \/ (backend = "hostapd" /\ wifiJob.before.mode = "standard")
<1>0. Wifi!TypeOK /\ Wifi!JobShape /\ Wifi!Concludes
  BY DEF Wifi!IInv
<1>1. Wifi!Publish /\ wifiJob.kind # "refresh" /\ wifiJob \in Wifi!Job /\ wifiJob # None
  BY <1>0, WifiAnswers DEF Wifi!Answers
<1>2. /\ wifiStatus'.notice <=> wifiConfig # None /\ wifiConfig.notice
      /\ wifiStatus'.error <=> wifiJob.error \/ (wifiStatus # None /\ wifiStatus.error)
  BY <1>1 DEF Wifi!Publish
<1>3. wifiJob.phase = "publish"
  BY <1>1 DEF Wifi!Publish, Wifi!At
<1>4. ~wifiJob.error =>
        /\ wifiStatus = None /\ wifiConfig = wifiJob.value
        /\ wifiProfile = Wifi!ProfileOf(wifiJob.value)
        /\ disturbed \/ air = wifiProfile
  BY <1>0, <1>1, <1>3 DEF Wifi!Concludes
<1>5. wifiJob.value # None
  BY <1>0, <1>1, WifiHelpers, WifiAssumption DEF Wifi!WifiConstants
<1>6. ASSUME ~wifiStatus'.error, ~disturbed
      PROVE  /\ air = wifiProfile
             /\ wifiJob.change \in Keys => air.key = wifiJob.change
             /\ wifiJob.change \in Wifi!Mode => air.mode = wifiJob.change \/ wifiStatus'.notice
  BY <1>0, <1>1, <1>2, <1>4, <1>5, <1>6 DEF Wifi!JobShape, Wifi!ProfileOf
<1>7. ASSUME wifiStatus'.error
      PROVE  wifiJob.hurt \/ (backend = "hostapd" /\ wifiJob.before.mode = "standard")
  BY <1>0, <1>1, <1>2, <1>4, <1>7 DEF Wifi!Concludes
<1> QED
  BY <1>6, <1>7

\* An error on the page is replaced by an error, or by nothing.
LEMMA ErrorStays ==
    ASSUME Wifi!IInv, Wifi!Next, wifiStatus # None, wifiStatus.error, wifiStatus' # None
    PROVE  wifiStatus'.error
<1>0. Wifi!TypeOK
  BY DEF Wifi!IInv
<1>1. CASE Wifi!Publish
  BY <1>1 DEF Wifi!Publish
<1>2. CASE wifiStatus' = wifiStatus
  BY <1>2
<1>3. ~Wifi!ClearStatus
  BY DEF Wifi!ClearStatus
<1> QED
  BY <1>1, <1>2, <1>3, WifiSteps DEF Wifi!Submit, Wifi!StartRequest, Wifi!StartBoot,
     Wifi!StartRefresh, Wifi!Unready, Wifi!WriteProfile, Wifi!Up,
     Wifi!SaveConfig, Wifi!SaveFails, Wifi!Begin, Wifi!WriteFails, Wifi!UpFails, Wifi!Restart,
     Wifi!RestoreProfile, Wifi!RestoreFails, Wifi!Kill,
     Wifi!Reboot, Wifi!PanelSwitch

\* The invariant of the access point holds for ever.
LEMMA WifiForever == Wifi!Init /\ [][Wifi!Next]_(Wifi!vars) => []Wifi!IInv
  BY WifiInductive, WifiInitial, PTL

-----------------------------------------------------------------------------
(* THE FRONT PANEL.                                                        *)

\* At first the menu is closed.
LEMMA PanelInitial == Panel!Init => Panel!IInv
<1> SUFFICES ASSUME Panel!Init PROVE Panel!IInv
  OBVIOUS
<1>1. /\ Panel!Blank \in Panel!Cache /\ Panel!Blank.result = None
      /\ Panel!FirstMenu \in Panel!Menu /\ Panel!FirstMenu.pending = None
      /\ Panel!FirstMenu.message = None
      /\ Panel!FirstMenu.confirm = None
  BY DEF Panel!Blank, Panel!Cache, Panel!FirstMenu, Panel!Menu, Panel!Section
<1>2. 0 \in 0 .. MaxEvents
  BY PanelAssumption DEF Panel!PanelConstants
<1>3. assist \in Panel!Tunnel /\ assist.last.id = 0
  BY <1>2 DEF Panel!Init, Panel!Tunnel
<1>4. Panel!TypeOK
  BY <1>1, <1>2, <1>3 DEF Panel!Init, Panel!TypeOK, Panel!Switch
<1> QED
  BY <1>1, <1>3, <1>4 DEF Panel!Init, Panel!IInv, Panel!Numbered, Panel!ToldWhenDone,
     Panel!IdleIsLate, Panel!WaitsForItsAction, Panel!DoneWasDone

\* The menu after a refresh.
LEMMA MenuRefreshes ==
    ASSUME Panel!TypeOK
    PROVE  /\ Panel!Refreshed \in Panel!Menu /\ Panel!Refreshed.data = cache
           /\ Panel!Refreshed.choice = menu.choice
           /\ Panel!Refreshed.pending = IF menu.pending # None /\ cache.result # None
                                     /\ cache.result.id = menu.pending
                                  THEN None ELSE menu.pending
           /\ Panel!Refreshed.message \in {None, menu.message, cache.result}
           /\ Panel!Refreshed.confirm # None => Panel!Refreshed.confirm = menu.confirm /\ ~late
           /\ idle /\ Panel!Refreshed.pending = None => Panel!Refreshed.confirm = None
<1> DEFINE answered == menu.pending # None /\ cache.result # None
      /\ cache.result.id = menu.pending
           timely == [menu EXCEPT !.data = cache, !.confirm = IF late THEN None ELSE @,
                                  !.message = IF answered THEN cache.result ELSE @,
                                  !.pending = IF answered THEN None ELSE @]
           home == [timely EXCEPT !.section = "status", !.page = None, !.confirm = None,
                                  !.message = None]
<1>1. menu \in Panel!Menu /\ cache \in Panel!Cache /\ cache.result \in Panel!Result \cup {None}
  BY DEF Panel!TypeOK, Panel!Cache
<1>2. timely \in Panel!Menu
  BY <1>1 DEF Panel!Menu
<1>3. /\ timely.data = cache /\ timely.choice = menu.choice
      /\ timely.confirm = IF late THEN None ELSE menu.confirm
      /\ timely.message = IF answered THEN cache.result ELSE menu.message
      /\ timely.pending = IF answered THEN None ELSE menu.pending
  BY <1>1 DEF Panel!Menu
<1>4. Panel!Refreshed = IF idle /\ timely.pending = None THEN home ELSE timely
  BY DEF Panel!Refreshed
<1> HIDE DEF timely
<1>5. /\ home \in Panel!Menu /\ home.data = timely.data /\ home.choice = timely.choice
      /\ home.confirm = None /\ home.message = None /\ home.pending = timely.pending
  BY <1>2 DEF Panel!Menu, Panel!Section
<1> HIDE DEF home
<1>6. CASE idle /\ timely.pending = None
  BY <1>3, <1>4, <1>5, <1>6
<1>7. CASE ~(idle /\ timely.pending = None)
  BY <1>2, <1>3, <1>4, <1>7
<1> QED
  BY <1>6, <1>7

\* What all keys, and the loop, have in common: the worker is left alone, and
\* what is pending is as after a refresh.
Browses ==
    /\ menu' \in Panel!Menu /\ menu'.pending = Panel!Refreshed.pending
    /\ menu'.message \in {None, Panel!Refreshed.message}
    /\ {late', idle', renewal'} \subseteq BOOLEAN
    /\ idle' /\ menu'.confirm # None => late'
    /\ menu'.confirm # None => Panel!Refreshed.confirm # None \/ Panel!Refreshed.pending = None
    /\ UNCHANGED <<cache, work, on, assist, actions, done, others>>

\* A key that starts nothing.
LEMMA MenuPressed ==
    ASSUME Panel!TypeOK, NEW m \in Panel!Menu, Panel!Key(m), m.pending = Panel!Refreshed.pending,
           m.message \in {None, Panel!Refreshed.message},
           m.confirm # None => Panel!Refreshed.confirm # None
    PROVE  Browses
BY DEF Panel!Key, Panel!Shows, Panel!Snapshot, Panel!Keeps, Browses, Panel!TypeOK

\* Every list has at least two entries.
LEMMA OptionCount ==
    ASSUME Panel!TypeOK, Panel!Refreshed.section # None, ~Panel!OnPage
    PROVE  Len(Panel!Options) \in {2, 3, 4}
<1>1. Panel!Refreshed.section \in {"network", "remote", "system"}
  BY MenuRefreshes DEF Panel!OnPage, Panel!Menu, Panel!Section
<1> QED
  BY <1>1 DEF Panel!Options

\* Moving through a list.
LEMMA Moving ==
    ASSUME Panel!TypeOK, NEW length \in {2, 3, 4}, Panel!Around(length)
    PROVE  Browses
<1>1. PICK step \in {1, length - 1} :
             Panel!Key([Panel!Refreshed EXCEPT !.selected = (@ + step) % length])
  BY DEF Panel!Around
<1>2. Panel!Refreshed \in Panel!Menu /\ Panel!Refreshed.selected \in 0 .. 3
  BY MenuRefreshes DEF Panel!Menu
<1>3. (Panel!Refreshed.selected + step) % length \in 0 .. 3
  <2>1. CASE length = 2
    BY <1>2, <2>1
  <2>2. CASE length = 3
    BY <1>2, <2>2
  <2>3. CASE length = 4
    BY <1>2, <2>3
  <2> QED
    BY <2>1, <2>2, <2>3
<1> DEFINE m == [Panel!Refreshed EXCEPT !.selected = (@ + step) % length]
<1>4. m \in Panel!Menu /\ m.pending = Panel!Refreshed.pending
        /\ m.message = Panel!Refreshed.message /\ m.confirm = Panel!Refreshed.confirm
  BY <1>2, <1>3 DEF Panel!Menu
<1>5. Panel!Key(m)
  BY <1>1
<1> HIDE DEF m
<1> QED
  BY <1>4, <1>5, MenuPressed

\* Opening the dialog.
LEMMA Opening ==
    ASSUME Panel!TypeOK, Panel!Free, NEW action \in Panel!Action, Panel!Opens(action)
    PROVE  Browses
<1>1. Panel!Opened(action) \in Panel!Menu
        /\ Panel!Opened(action).pending = Panel!Refreshed.pending
        /\ Panel!Opened(action).message = Panel!Refreshed.message
  BY MenuRefreshes DEF Panel!Opened, Panel!Menu
<1> QED
  BY <1>1 DEF Panel!Free, Panel!Opens, Panel!Snapshot, Panel!Keeps, Browses, Panel!TypeOK

\* The keys and the timer that only browse.
LEMMA BrowsingTick ==
    ASSUME Panel!TypeOK, Panel!IdleIsLate, Panel!Tick
    PROVE  Browses
<1>1. menu' = Panel!Refreshed /\ Panel!Refreshed \in Panel!Menu
  BY MenuRefreshes DEF Panel!Tick, Panel!Shows
<1>2. idle /\ Panel!Refreshed.confirm # None => FALSE
  BY MenuRefreshes DEF Panel!IdleIsLate
<1> QED
  BY <1>1, <1>2 DEF Panel!Tick, Panel!Shows, Panel!Snapshot, Panel!Keeps, Browses, Panel!TypeOK

LEMMA BrowsingBack ==
    ASSUME Panel!TypeOK, Panel!Back
    PROVE  Browses
<1> DEFINE m == [Panel!Refreshed EXCEPT !.selected = IF Panel!Refreshed.section \in Panel!Section
                                               THEN Panel!Place[Panel!Refreshed.section] ELSE @,
                                  !.section = None, !.page = None, !.confirm = None,
                                    !.message = None]
<1>1. Panel!Refreshed \in Panel!Menu
  BY MenuRefreshes
<1>2. Panel!Refreshed.section \in Panel!Section => Panel!Place[Panel!Refreshed.section] \in 0 .. 3
  BY DEF Panel!Place, Panel!Section
<1>3. m \in Panel!Menu /\ m.pending = Panel!Refreshed.pending /\ m.message = None
        /\ m.confirm = None
  BY <1>1, <1>2 DEF Panel!Menu
<1>4. Panel!Key(m)
  BY DEF Panel!Back
<1> HIDE DEF m
<1> QED
  BY <1>3, <1>4, MenuPressed

LEMMA BrowsingDialog ==
    ASSUME Panel!TypeOK, Panel!Move \/ Panel!Cancel \/ Panel!Wait \/ Panel!Dismiss
    PROVE  Browses
<1>1. Panel!Refreshed \in Panel!Menu /\ Panel!Refreshed.choice \in {0, 1}
  BY MenuRefreshes DEF Panel!Menu
<1>2. CASE Panel!Move
  <2> DEFINE m == [Panel!Refreshed EXCEPT !.choice = 1 - @]
  <2>1. m \in Panel!Menu /\ m.pending = Panel!Refreshed.pending
          /\ m.message = Panel!Refreshed.message /\ m.confirm \in {None, Panel!Refreshed.confirm}
    BY <1>1 DEF Panel!Menu
  <2>2. Panel!Key(m)
    BY <1>2 DEF Panel!Move
  <2> HIDE DEF m
  <2> QED
    BY <2>1, <2>2, MenuPressed
<1>3. CASE Panel!Cancel
  <2> DEFINE m == [Panel!Refreshed EXCEPT !.confirm = None]
  <2>1. m \in Panel!Menu /\ m.pending = Panel!Refreshed.pending
          /\ m.message = Panel!Refreshed.message /\ m.confirm \in {None, Panel!Refreshed.confirm}
    BY <1>1 DEF Panel!Menu
  <2>2. Panel!Key(m)
    BY <1>3 DEF Panel!Cancel
  <2> HIDE DEF m
  <2> QED
    BY <2>1, <2>2, MenuPressed
<1>4. CASE Panel!Wait
  BY <1>1, <1>4, MenuPressed DEF Panel!Wait
<1>5. CASE Panel!Dismiss
  <2> DEFINE m == [Panel!Refreshed EXCEPT !.message = None]
  <2>1. m \in Panel!Menu /\ m.pending = Panel!Refreshed.pending /\ m.message = None
          /\ m.confirm = Panel!Refreshed.confirm
    BY <1>1 DEF Panel!Menu
  <2>2. Panel!Key(m)
    BY <1>5 DEF Panel!Dismiss
  <2> HIDE DEF m
  <2> QED
    BY <2>1, <2>2, MenuPressed
<1> QED
  BY <1>2, <1>3, <1>4, <1>5

LEMMA BrowsingTop ==
    ASSUME Panel!TypeOK, Panel!Top
    PROVE  Browses
<1>1. Panel!Refreshed \in Panel!Menu /\ 0 \in 0 .. 3
  BY MenuRefreshes
<1>2. CASE Panel!Around(4)
  BY <1>2, Moving
<1>3. ASSUME NEW s \in Panel!Section,
             Panel!Key([Panel!Refreshed EXCEPT !.section = s, !.selected = 0])
      PROVE  Browses
  <2> DEFINE m == [Panel!Refreshed EXCEPT !.section = s, !.selected = 0]
  <2>1. m \in Panel!Menu /\ m.pending = Panel!Refreshed.pending
          /\ m.message = Panel!Refreshed.message /\ m.confirm \in {None, Panel!Refreshed.confirm}
    BY <1>1 DEF Panel!Menu
  <2>2. Panel!Key(m)
    BY <1>3
  <2> HIDE DEF m
  <2> QED
    BY <2>1, <2>2, MenuPressed
<1> QED
  BY <1>2, <1>3 DEF Panel!Top

LEMMA BrowsingPage ==
    ASSUME Panel!TypeOK, Panel!Paged
    PROVE  Browses
<1>1. Panel!Refreshed \in Panel!Menu /\ 0 \in 0 .. 3
  BY MenuRefreshes
<1>2. CASE Panel!Opens("diagnostics")
  <2>1. "diagnostics" \in Panel!Action
    BY DEF Panel!Action
  <2> QED
    BY <1>2, <2>1, Opening DEF Panel!Paged
<1>3. CASE Panel!Key([Panel!Refreshed EXCEPT !.section = None, !.selected = 0])
  <2> DEFINE m == [Panel!Refreshed EXCEPT !.section = None, !.selected = 0]
  <2>1. m \in Panel!Menu /\ m.pending = Panel!Refreshed.pending
          /\ m.message = Panel!Refreshed.message /\ m.confirm \in {None, Panel!Refreshed.confirm}
    BY <1>1 DEF Panel!Menu
  <2>2. Panel!Key(m)
    BY <1>3
  <2> HIDE DEF m
  <2> QED
    BY <2>1, <2>2, MenuPressed
<1> QED
  BY <1>2, <1>3 DEF Panel!Paged

LEMMA BrowsingList ==
    ASSUME Panel!TypeOK, Panel!Listed
    PROVE  Browses
<1>1. Panel!Refreshed \in Panel!Menu
  BY MenuRefreshes
<1> DEFINE chosen == Panel!Options[Panel!Refreshed.selected + 1]
           m == [Panel!Refreshed EXCEPT !.page = chosen]
<1>2. CASE Panel!Around(Len(Panel!Options))
  BY <1>2, OptionCount, Moving DEF Panel!Listed
<1>3. CASE chosen \in Panel!Page \ Panel!Action /\ Panel!Key(m)
  <2>1. m \in Panel!Menu /\ m.pending = Panel!Refreshed.pending
          /\ m.message = Panel!Refreshed.message /\ m.confirm \in {None, Panel!Refreshed.confirm}
    BY <1>1, <1>3 DEF Panel!Menu
  <2> HIDE DEF m, chosen
  <2> QED
    BY <1>3, <2>1, MenuPressed
<1>4. CASE chosen \in Panel!Action /\ Panel!Opens(chosen)
  <2> HIDE DEF chosen
  <2> QED
    BY <1>4, Opening DEF Panel!Listed
<1> QED
  BY <1>2, <1>3, <1>4 DEF Panel!Listed

\* An action of the worker, field by field.
LEMMA PanelWorks ==
    ASSUME Panel!TypeOK, work # None
    PROVE  work \in Panel!Job /\ work.id \in Panel!Id /\ work.id # 0 /\ work.ok \in BOOLEAN
             /\ work.action \in Panel!Action
  BY PanelAssumption DEF Panel!TypeOK, Panel!Job, Panel!Id, Panel!PanelConstants

\* Browsing keeps the invariant.
LEMMA BrowsingKeeps ==
    ASSUME Panel!IInv, Browses
    PROVE  Panel!IInv'
<1>1. Panel!TypeOK'
  BY DEF Panel!IInv, Panel!TypeOK, Browses
<1>2. Panel!Numbered' /\ Panel!ToldWhenDone' /\ Panel!IdleIsLate'
  BY DEF Panel!IInv, Panel!Numbered, Panel!ToldWhenDone, Panel!IdleIsLate, Browses
<1>3. Panel!WaitsForItsAction'
  <2>1. ASSUME work # None
        PROVE  Panel!Refreshed.pending = work.id /\ work.id # None /\ Panel!Refreshed.confirm = None
    BY <2>1, MenuRefreshes, PanelWorks, PanelAssumption DEF Panel!IInv, Panel!Numbered,
       Panel!WaitsForItsAction, Panel!PanelConstants
  <2> QED
    BY <2>1, MenuRefreshes, PanelAssumption DEF Panel!IInv, Panel!Numbered,
       Panel!WaitsForItsAction, Browses, Panel!PanelConstants
<1>4. Panel!DoneWasDone'
  BY MenuRefreshes DEF Panel!IInv, Panel!DoneWasDone, Browses
<1> QED
  BY <1>1, <1>2, <1>3, <1>4 DEF Panel!IInv

\* Confirm starts what the dialog names.
LEMMA Confirming ==
    ASSUME Panel!IInv, Panel!Confirm
    PROVE  /\ Panel!IInv'
           /\ menu.confirm = work'.action /\ menu.choice = 1 /\ ~late /\ ~idle
<1>0. Panel!TypeOK /\ Panel!Numbered /\ Panel!ToldWhenDone /\ Panel!IdleIsLate
        /\ Panel!DoneWasDone
  BY DEF Panel!IInv
\* No dialog while an action runs: control() has nothing to refuse.
<1>13. work = None
  BY MenuRefreshes DEF Panel!IInv, Panel!WaitsForItsAction, Panel!Confirm
<1>1. /\ Panel!Refreshed.confirm # None /\ work = None /\ actions' = actions + 1
      /\ work' = [action |-> Panel!Refreshed.confirm, id |-> actions + 1, phase |-> "execute",
           ok |-> FALSE]
      /\ menu' = [Panel!Refreshed EXCEPT !.confirm = None, !.pending = actions + 1,
                    !.page = IF Panel!Refreshed.confirm =
                      "diagnostics" THEN Panel!Refreshed.confirm ELSE @]
      /\ late' = FALSE /\ idle' = FALSE /\ renewal' \in BOOLEAN
      /\ UNCHANGED <<cache, on, assist, done, others>>
  <2> DEFINE told == [Panel!Refreshed EXCEPT !.confirm = None]
  <2>1. /\ menu' = [told EXCEPT !.pending = actions + 1,
                      !.page = IF Panel!Refreshed.confirm =
                        "diagnostics" THEN Panel!Refreshed.confirm ELSE @]
        /\ work' = [action |-> Panel!Refreshed.confirm, id |-> actions + 1, phase |-> "execute",
             ok |-> FALSE]
        /\ actions' = actions + 1
    BY <1>13 DEF Panel!Confirm, Panel!Confirmed
  <2>2. Panel!Refreshed \in Panel!Menu
    BY <1>0, MenuRefreshes
  <2>3. menu' = [Panel!Refreshed EXCEPT !.confirm = None, !.pending = actions + 1,
                    !.page = IF Panel!Refreshed.confirm =
                      "diagnostics" THEN Panel!Refreshed.confirm ELSE @]
    BY <2>1, <2>2 DEF Panel!Menu
  <2> HIDE DEF told
  <2> QED
    BY <1>0, <1>13, <2>1, <2>3 DEF Panel!Confirm, Panel!Snapshot, Panel!TypeOK
<1>2. actions \in Nat /\ actions + 1 \in Panel!Id /\ actions + 1 \in 0 .. MaxEvents
  BY <1>0, PanelAssumption DEF Panel!Confirm, Panel!TypeOK, Panel!Id, Panel!PanelConstants
<1>3. Panel!Refreshed \in Panel!Menu /\ Panel!Refreshed.confirm \in Panel!Action
  BY <1>0, <1>1, MenuRefreshes DEF Panel!Menu
<1>4. work' \in Panel!Job /\ work'.action = Panel!Refreshed.confirm /\ work'.id = actions + 1
      /\ work'.phase = "execute" /\ work' # None
  <2>1. /\ work'.action = Panel!Refreshed.confirm /\ work'.id = actions + 1
        /\ work'.phase = "execute"
        /\ work'.ok = FALSE /\ DOMAIN work' = {"action", "id", "phase", "ok"}
    BY <1>1
  <2>2. work' \in Panel!Job
    BY <1>1, <1>2, <1>3 DEF Panel!Job
  <2> QED
    BY <2>1, <2>2, PanelAssumption DEF Panel!PanelConstants
<1>5. /\ menu' \in Panel!Menu /\ menu'.confirm = None /\ menu'.pending = actions + 1
      /\ menu'.message = Panel!Refreshed.message
  BY <1>1, <1>2, <1>3 DEF Panel!Menu, Panel!Page
<1>6. menu.confirm = work'.action /\ menu.choice = 1 /\ ~late /\ ~idle
  BY <1>0, <1>1, <1>4, MenuRefreshes DEF Panel!Confirm, Panel!IdleIsLate
<1>7. Panel!TypeOK'
  BY <1>0, <1>1, <1>2, <1>4, <1>5 DEF Panel!TypeOK
<1>8. cache.result # None => cache.result.id \in Nat /\ cache.result.id <= actions
  BY <1>0, PanelAssumption DEF Panel!TypeOK, Panel!Cache, Panel!Result, Panel!Id, Panel!Numbered,
     Panel!PanelConstants
<1>9. Panel!Numbered'
  BY <1>1, <1>2, <1>4, <1>8 DEF Panel!Numbered
<1>10. Panel!ToldWhenDone' /\ Panel!IdleIsLate'
  BY <1>0, <1>1, <1>4, <1>5 DEF Panel!ToldWhenDone, Panel!IdleIsLate
<1>11. Panel!WaitsForItsAction'
  BY <1>4, <1>5 DEF Panel!WaitsForItsAction
<1>12. Panel!DoneWasDone'
  BY <1>0, <1>1, <1>5, MenuRefreshes DEF Panel!DoneWasDone
<1> QED
  BY <1>6, <1>7, <1>9, <1>10, <1>11, <1>12 DEF Panel!IInv

\* Time passes.
LEMMA PanelWaits == ASSUME Panel!IInv, Panel!Late \/ Panel!Idles PROVE Panel!IInv'
  BY DEF Panel!IInv, Panel!Late, Panel!Idles, Panel!TypeOK, Panel!Numbered, Panel!ToldWhenDone,
     Panel!IdleIsLate, Panel!WaitsForItsAction, Panel!DoneWasDone

-----------------------------------------------------------------------------
(* The worker and the host.                                                *)

\* The worker goes on with its action; a success was done.
LEMMA Working ==
    ASSUME Panel!IInv, work # None, NEW phase \in {"wait", "answer"}, NEW ok \in BOOLEAN,
           work' = [work EXCEPT !.phase = phase, !.ok = ok],
           on' \subseteq Panel!Switch, assist' \in Panel!Tunnel, assist'.last = assist.last,
           done' \in {done, done \cup {work.id}}, phase = "answer" /\ ok => work.id \in done',
           UNCHANGED <<Panel!Panel, cache, renewal>>
    PROVE  Panel!IInv'
<1>0. Panel!TypeOK /\ Panel!Numbered /\ Panel!ToldWhenDone /\ Panel!IdleIsLate
        /\ Panel!WaitsForItsAction /\ Panel!DoneWasDone
  BY DEF Panel!IInv
<1>1. work \in Panel!Job /\ work.id \in Panel!Id
  BY <1>0, PanelWorks
<1>2. /\ work' \in Panel!Job /\ work' # None /\ work'.id = work.id /\ work'.phase = phase
      /\ work'.ok <=> ok
  BY <1>1, PanelAssumption DEF Panel!Job, Panel!PanelConstants
<1>3. done' \subseteq Panel!Id
  BY <1>0, <1>1 DEF Panel!TypeOK
<1>4. UNCHANGED <<menu, late, idle, actions, others, cache, renewal>>
  BY DEF Panel!Panel
<1>5. Panel!TypeOK'
  BY <1>0, <1>2, <1>3, <1>4 DEF Panel!TypeOK
<1>6. Panel!Numbered' /\ Panel!IdleIsLate' /\ Panel!WaitsForItsAction'
  BY <1>0, <1>2, <1>4 DEF Panel!Numbered, Panel!IdleIsLate, Panel!WaitsForItsAction
<1>7. Panel!ToldWhenDone' /\ Panel!DoneWasDone'
  BY <1>0, <1>2, <1>4 DEF Panel!ToldWhenDone, Panel!DoneWasDone
<1> QED
  BY <1>5, <1>6, <1>7 DEF Panel!IInv

\* Each step of the worker.
LEMMA WorkingCommand == ASSUME Panel!IInv, Panel!Command PROVE Panel!IInv'
<1>0. Panel!TypeOK /\ work # None
  BY DEF Panel!IInv, Panel!Command, Panel!Runs
<1>1. PICK ok \in BOOLEAN :
        /\ work' = [work EXCEPT !.phase = "answer", !.ok = ok]
        /\ done' = IF ok THEN done \cup {work.id} ELSE done
        /\ UNCHANGED <<Panel!Panel, cache, renewal, on, assist>>
  BY DEF Panel!Command, Panel!Ends
<1> QED
  BY <1>0, <1>1, Working DEF Panel!TypeOK

\* The switches that are turned.
LEMMA Turning ==
    ASSUME NEW a \in DOMAIN Panel!Turns
    PROVE  Panel!Turns[a].switch \in Panel!Switch /\ Panel!Turns[a].to \in BOOLEAN
<1>1. a \in {"ap-on", "ap-off", "access-on", "access-off", "connect", "disconnect"}
  BY DEF Panel!Turns
<1>2. Panel!Turns[a].switch \in Panel!Switch
  BY <1>1 DEF Panel!Turns, Panel!Switch
<1>3. CASE a \in {"ap-on", "access-on", "connect"}
  <2>1. (a \in {"ap-on", "access-on", "connect"}) = TRUE
    BY <1>3
  <2> QED
    BY <1>1, <1>2, <2>1 DEF Panel!Turns
<1>4. CASE a \notin {"ap-on", "access-on", "connect"}
  <2>1. (a \in {"ap-on", "access-on", "connect"}) = FALSE
    BY <1>4
  <2> QED
    BY <1>1, <1>2, <2>1 DEF Panel!Turns
<1> QED
  BY <1>3, <1>4

LEMMA WorkingTurn == ASSUME Panel!IInv, Panel!Turn PROVE Panel!IInv'
<1>0. Panel!TypeOK /\ work # None
  BY DEF Panel!IInv, Panel!Turn, Panel!Runs
<1> DEFINE t == Panel!Turns[work.action]
<1>1. t.switch \in Panel!Switch /\ t.to \in BOOLEAN
  BY Turning DEF Panel!Turn
<1> HIDE DEF t
<1>2. PICK left \in BOOLEAN, ok \in BOOLEAN :
        /\ ok => left = t.to
        /\ on' = Panel!Set(t.switch, left)
        /\ done' = IF ok /\ (t.switch \in on') = t.to THEN done \cup {work.id} ELSE done
        /\ work' = [work EXCEPT !.phase = "answer", !.ok = ok]
        /\ UNCHANGED <<Panel!Panel, cache, renewal, assist>>
  BY DEF Panel!Turn, Panel!Ends, t
<1>3. on' \subseteq Panel!Switch /\ (t.switch \in on' <=> left)
  BY <1>0, <1>1, <1>2 DEF Panel!Set, Panel!TypeOK
<1>4. done' \in {done, done \cup {work.id}} /\ (ok => work.id \in done')
  BY <1>1, <1>2, <1>3
<1> QED
  BY <1>0, <1>2, <1>3, <1>4, Working DEF Panel!TypeOK

LEMMA WorkingTunnel ==
    ASSUME Panel!IInv, Panel!Refused \/ Panel!Poll \/ Panel!GiveUp
             \/ \E heard \in BOOLEAN : Panel!Post(heard)
    PROVE  Panel!IInv'
<1>0. Panel!TypeOK /\ Panel!ToldWhenDone /\ work # None
  BY DEF Panel!IInv, Panel!Refused, Panel!Poll, Panel!GiveUp, Panel!Post, Panel!Tunnelled,
     Panel!Runs
<1>1. work \in Panel!Job /\ work.id \in Panel!Id /\ work.id # 0 /\ assist.last.ok \in BOOLEAN
  BY <1>0, PanelWorks DEF Panel!TypeOK, Panel!Tunnel
<1>2. CASE Panel!Refused \/ Panel!GiveUp
  BY <1>0, <1>2, Working DEF Panel!Refused, Panel!GiveUp, Panel!Ends, Panel!TypeOK
<1>3. CASE Panel!Poll
  BY <1>0, <1>1, <1>3, Working DEF Panel!Poll, Panel!Ends, Panel!TypeOK, Panel!ToldWhenDone
<1>4. ASSUME NEW heard \in BOOLEAN, Panel!Post(heard) PROVE Panel!IInv'
  <2>1. /\ assist' = [assist EXCEPT !.request = [id |-> work.id, to |-> work.action = "connect"]]
        /\ UNCHANGED <<Panel!Panel, cache, renewal, on, done>>
    BY <1>4 DEF Panel!Post
  <2>2. [id |-> work.id, to |-> work.action = "connect"] \in Panel!Ask
    BY <1>1 DEF Panel!Ask, Panel!Id
  <2>3. assist' \in Panel!Tunnel /\ assist'.last = assist.last
    BY <1>0, <2>1, <2>2 DEF Panel!TypeOK, Panel!Tunnel
  <2>4. CASE heard
    <3>1. work' = [work EXCEPT !.phase = "wait", !.ok = work.ok]
      BY <1>1, <1>4, <2>4 DEF Panel!Post, Panel!Job
    <3> QED
      BY <1>0, <1>1, <2>1, <2>3, <3>1, PanelWorks, Working DEF Panel!TypeOK
  <2>5. CASE ~heard
    <3>1. work' = [work EXCEPT !.phase = "answer", !.ok = FALSE]
      BY <1>4, <2>5 DEF Panel!Post, Panel!Ends
    <3> QED
      BY <1>0, <2>1, <2>3, <3>1, Working DEF Panel!TypeOK
  <2> QED
    BY <2>4, <2>5
<1> QED
  BY <1>2, <1>3, <1>4

\* What may be read of the switches.
LEMMA ReadingsAreCaches ==
    ASSUME Panel!TypeOK, NEW r \in Panel!Readings
    PROVE  r \subseteq Panel!Switch
  BY DEF Panel!TypeOK, Panel!Readings, Panel!Cache

LEMMA WorkingRenew == ASSUME Panel!IInv, Panel!Renew PROVE Panel!IInv'
<1>0. Panel!TypeOK
  BY DEF Panel!IInv
<1>1. PICK r \in Panel!Readings : cache' = [cache EXCEPT !.on = r]
  BY DEF Panel!Renew
<1>2. cache' \in Panel!Cache /\ cache'.result = cache.result
  BY <1>0, <1>1, ReadingsAreCaches DEF Panel!TypeOK, Panel!Cache
<1>3. UNCHANGED <<menu, late, idle, actions, others, work, on, assist, done>> /\ renewal' = FALSE
  BY DEF Panel!Renew, Panel!Panel
<1> QED
  BY <1>2, <1>3 DEF Panel!IInv, Panel!TypeOK, Panel!Numbered, Panel!ToldWhenDone,
     Panel!IdleIsLate, Panel!WaitsForItsAction, Panel!DoneWasDone

LEMMA WorkingPublish == ASSUME Panel!IInv, Panel!Publish PROVE Panel!IInv'
<1>0. Panel!TypeOK /\ Panel!Numbered /\ Panel!ToldWhenDone /\ Panel!WaitsForItsAction
        /\ Panel!DoneWasDone /\ Panel!IdleIsLate /\ work # None
        /\ work.phase = "answer"
  BY DEF Panel!IInv, Panel!Publish
<1>1. PICK r \in Panel!Readings : cache' = Panel!Answer(r)
  BY DEF Panel!Publish
<1>2. work \in Panel!Job /\ work.id \in Panel!Id /\ work.ok \in BOOLEAN
  BY <1>0, PanelWorks
<1>3. [id |-> work.id, ok |-> work.ok] \in Panel!Result
  BY <1>2 DEF Panel!Result
<1>4. /\ cache' \in Panel!Cache /\ cache'.result # None /\ cache'.result.id = work.id
      /\ cache'.result.ok <=> work.ok
  BY <1>0, <1>1, <1>3, ReadingsAreCaches, PanelAssumption DEF Panel!Answer, Panel!Cache,
     Panel!PanelConstants
<1>5. UNCHANGED <<menu, late, idle, actions, others, renewal, on, assist, done>> /\ work' = None
  BY DEF Panel!Publish, Panel!Panel
<1>6. Panel!TypeOK' /\ Panel!Numbered' /\ Panel!IdleIsLate'
  BY <1>0, <1>4, <1>5 DEF Panel!TypeOK, Panel!Numbered, Panel!IdleIsLate
<1>7. Panel!ToldWhenDone' /\ Panel!WaitsForItsAction'
  BY <1>0, <1>4, <1>5 DEF Panel!ToldWhenDone, Panel!WaitsForItsAction
<1>8. Panel!DoneWasDone'
  BY <1>0, <1>4, <1>5 DEF Panel!ToldWhenDone, Panel!DoneWasDone
<1> QED
  BY <1>6, <1>7, <1>8 DEF Panel!IInv

\* The helper of Remote Assist answers.
LEMMA AssistHelps == ASSUME Panel!IInv, NEW ok \in BOOLEAN, Panel!Helper(ok) PROVE Panel!IInv'
<1>0. Panel!TypeOK /\ Panel!Numbered /\ Panel!ToldWhenDone /\ Panel!WaitsForItsAction
        /\ Panel!DoneWasDone /\ Panel!IdleIsLate
  BY DEF Panel!IInv
<1> DEFINE r == assist.request
<1>1. /\ r # None
      /\ on' \in {Panel!Set("vpn", r.to), IF ok THEN Panel!Set("vpn", r.to) ELSE on}
      /\ assist' = [request |-> None, last |-> [id |-> r.id, ok |-> ok]]
      /\ done' = IF ok /\ r.id # 0 THEN done \cup {r.id} ELSE done
      /\ UNCHANGED <<menu, late, idle, actions, others, cache, renewal, work>>
  BY DEF Panel!Helper, Panel!Panel
<1>2. r \in Panel!Ask /\ r.id \in 0 .. MaxEvents /\ r.to \in BOOLEAN
  BY <1>0, <1>1 DEF Panel!TypeOK, Panel!Tunnel, Panel!Ask
<1> HIDE DEF r
<1>3. on' \subseteq Panel!Switch
  BY <1>0, <1>1 DEF Panel!Set, Panel!TypeOK, Panel!Switch
<1>4. assist' \in Panel!Tunnel /\ assist'.last.id = r.id /\ (assist'.last.ok <=> ok)
  BY <1>1, <1>2 DEF Panel!Tunnel
<1>5. done' \subseteq Panel!Id /\ done \subseteq done' /\ (ok /\ r.id # 0 => r.id \in done')
  <2>1. r.id # 0 => r.id \in Panel!Id
    BY <1>2, PanelAssumption DEF Panel!Id, Panel!PanelConstants
  <2>2. done' = done \/ (r.id # 0 /\ done' = done \cup {r.id})
    BY <1>1
  <2>3. ok /\ r.id # 0 => done' = done \cup {r.id}
    BY <1>1
  <2> QED
    BY <1>0, <2>1, <2>2, <2>3 DEF Panel!TypeOK
<1>6. Panel!TypeOK' /\ Panel!Numbered' /\ Panel!IdleIsLate' /\ Panel!WaitsForItsAction'
  BY <1>0, <1>1, <1>3, <1>4, <1>5 DEF Panel!TypeOK, Panel!Numbered, Panel!IdleIsLate,
     Panel!WaitsForItsAction
<1>7. Panel!ToldWhenDone' /\ Panel!DoneWasDone'
  BY <1>0, <1>1, <1>4, <1>5 DEF Panel!ToldWhenDone, Panel!DoneWasDone
<1> QED
  BY <1>6, <1>7 DEF Panel!IInv

\* The web interface changes the same switches.
LEMMA OtherChanges == ASSUME Panel!IInv, Panel!Elsewhere PROVE Panel!IInv'
<1>0. Panel!TypeOK /\ Panel!Numbered /\ Panel!ToldWhenDone /\ Panel!WaitsForItsAction
        /\ Panel!DoneWasDone /\ Panel!IdleIsLate
  BY DEF Panel!IInv
<1>1. others' \in Nat /\ UNCHANGED <<actions, done>>
  BY <1>0 DEF Panel!Elsewhere, Panel!TypeOK
<1>2. ASSUME assist.request = None, NEW to \in BOOLEAN,
             assist' = [assist EXCEPT !.request = [id |-> 0, to |-> to]],
             UNCHANGED <<menu, late, idle, cache, renewal, work, on>>
      PROVE  Panel!IInv'
  <2>1. [id |-> 0, to |-> to] \in Panel!Ask
    BY PanelAssumption DEF Panel!Ask, Panel!PanelConstants
  <2>2. assist' \in Panel!Tunnel /\ assist'.last = assist.last
    BY <1>0, <1>2, <2>1 DEF Panel!TypeOK, Panel!Tunnel
  <2> QED
    BY <1>0, <1>1, <1>2, <2>2
       DEF Panel!IInv, Panel!TypeOK, Panel!Numbered, Panel!ToldWhenDone, Panel!IdleIsLate,
       Panel!WaitsForItsAction, Panel!DoneWasDone
<1>3. ASSUME on' \subseteq Panel!Switch,
             UNCHANGED <<menu, late, idle, cache, renewal, work, assist>>
      PROVE  Panel!IInv'
  BY <1>0, <1>1, <1>3
     DEF Panel!IInv, Panel!TypeOK, Panel!Numbered, Panel!ToldWhenDone, Panel!IdleIsLate,
     Panel!WaitsForItsAction, Panel!DoneWasDone
<1>4. ASSUME menu' = Panel!FirstMenu, late' = FALSE, idle' = FALSE, cache' = Panel!Blank,
             renewal' = FALSE,
             work' = None, UNCHANGED <<on, assist>>
      PROVE  Panel!IInv'
  <2>1. /\ Panel!Blank \in Panel!Cache /\ Panel!Blank.result = None
        /\ Panel!FirstMenu \in Panel!Menu /\ Panel!FirstMenu.pending = None
        /\ Panel!FirstMenu.message = None
        /\ Panel!FirstMenu.confirm = None
    BY DEF Panel!Blank, Panel!Cache, Panel!FirstMenu, Panel!Menu, Panel!Section
  <2> QED
    BY <1>0, <1>1, <1>4, <2>1
       DEF Panel!IInv, Panel!TypeOK, Panel!Numbered, Panel!ToldWhenDone, Panel!IdleIsLate,
       Panel!WaitsForItsAction, Panel!DoneWasDone
<1>5. ASSUME NEW s \in {"ap", "access"}, on' = IF s \in on THEN on \ {s} ELSE on \cup {s}
      PROVE  on' \subseteq Panel!Switch
  BY <1>0, <1>5 DEF Panel!TypeOK, Panel!Switch
<1> QED
  BY <1>2, <1>3, <1>4, <1>5 DEF Panel!Elsewhere

\* The invariant is kept by every step.
LEMMA PanelInductive == Panel!IInv /\ [Panel!Next]_(Panel!vars) => Panel!IInv'
<1> SUFFICES ASSUME Panel!IInv, [Panel!Next]_(Panel!vars) PROVE Panel!IInv'
  OBVIOUS
<1>1. CASE UNCHANGED Panel!vars
  BY <1>1 DEF Panel!vars, Panel!IInv, Panel!TypeOK, Panel!Numbered, Panel!ToldWhenDone,
     Panel!IdleIsLate, Panel!WaitsForItsAction, Panel!DoneWasDone
<1>2. CASE Panel!Tick \/ Panel!Back \/ Panel!Move \/ Panel!Cancel \/ Panel!Wait \/ Panel!Dismiss
             \/ Panel!Top \/ Panel!Paged \/ Panel!Listed
  <2>1. Panel!TypeOK /\ Panel!IdleIsLate
    BY DEF Panel!IInv
  <2>2. Browses
    BY <1>2, <2>1, BrowsingTick, BrowsingBack, BrowsingDialog, BrowsingTop, BrowsingPage,
       BrowsingList
  <2> QED
    BY <2>2, BrowsingKeeps
<1>3. CASE Panel!Work \/ (\E heard \in BOOLEAN : Panel!Post(heard))
             \/ (\E ok \in BOOLEAN : Panel!Helper(ok)) \/ Panel!Elsewhere
  BY <1>3, WorkingRenew, WorkingCommand, WorkingTurn, WorkingTunnel, WorkingPublish, AssistHelps,
     OtherChanges
     DEF Panel!Work
<1> QED
  BY <1>1, <1>2, <1>3, Confirming, PanelWaits DEF Panel!Next

\* Only the dialog starts an action.
LEMMA OnlyConfirm ==
    ASSUME Panel!IInv, Panel!Next, actions' # actions
    PROVE  menu.confirm = work'.action /\ menu.choice = 1 /\ ~late /\ ~idle
<1>1. CASE Panel!Confirm
  BY <1>1, Confirming
<1>2. CASE Panel!Tick \/ Panel!Back \/ Panel!Move \/ Panel!Cancel \/ Panel!Wait \/ Panel!Dismiss
             \/ Panel!Top \/ Panel!Paged \/ Panel!Listed
  <2>1. Panel!TypeOK /\ Panel!IdleIsLate
    BY DEF Panel!IInv
  <2>2. Browses
    BY <1>2, <2>1, BrowsingTick, BrowsingBack, BrowsingDialog, BrowsingTop, BrowsingPage,
       BrowsingList
  <2> QED
    BY <2>2 DEF Browses
<1>3. CASE Panel!Late \/ Panel!Idles \/ Panel!Work \/ (\E heard \in BOOLEAN : Panel!Post(heard))
           \/ (\E ok \in BOOLEAN : Panel!Helper(ok)) \/ Panel!Elsewhere
  BY <1>3 DEF Panel!Late, Panel!Idles, Panel!Work, Panel!Renew, Panel!Command, Panel!Turn,
     Panel!Refused, Panel!Poll, Panel!GiveUp, Panel!Publish, Panel!Post, Panel!Helper,
     Panel!Elsewhere, Panel!Panel
<1> QED
  BY <1>1, <1>2, <1>3 DEF Panel!Next

\* The invariant of the front panel holds for ever.
LEMMA PanelForever == Panel!Init /\ [][Panel!Next]_(Panel!vars) => []Panel!IInv
  BY PanelInductive, PanelInitial, PTL

-----------------------------------------------------------------------------
(* THE PARTS TOGETHER.                                                     *)

\* Each behaviour of the host is one of every part.
LEMMA HostSteps ==
    HostSpec =>
      /\ Init /\ [][Next]_vars
      /\ Wired!Init /\ [][Wired!Next]_(Wired!vars)
      /\ Access!Init /\ [][Access!Next]_(Access!vars)
      /\ Wifi!Init /\ [][Wifi!Next]_(Wifi!vars)
      /\ Panel!Init /\ [][Panel!Next]_(Panel!vars)
<1>1. HostInit => Init /\ Wired!Init /\ Access!Init /\ Wifi!Init /\ Panel!Init
  BY DEF HostInit
<1>2. [HostNext]_all =>
        /\ [Next]_vars /\ [Wired!Next]_(Wired!vars) /\ [Access!Next]_(Access!vars)
        /\ [Wifi!Next]_(Wifi!vars) /\ [Panel!Next]_(Panel!vars)
  BY DEF HostNext, PanelNext, all, wifi, access, wired, panel, remote,
         Wired!vars, Access!vars, Wifi!vars, Panel!vars
<1> QED
  BY <1>1, <1>2, PTL DEF HostSpec

\* The invariants of all parts hold for ever.
LEMMA HostForever ==
    HostSpec => [](IInv /\ Wired!IInv /\ Access!IInv /\ Wifi!IInv /\ Panel!IInv)
  BY HostSteps, ServicesForever, WiredForever, AccessForever, WifiForever, PanelForever, PTL

\* Every part keeps the types of its variables.
THEOREM HostTypes == HostSpec => []HostTypeOK
<1>1. IInv /\ Wired!IInv /\ Access!IInv /\ Wifi!IInv /\ Panel!IInv => HostTypeOK
  BY ServicesTyped DEF Wired!IInv, Access!IInv, Wifi!IInv, Panel!IInv, HostTypeOK
<1> QED
  BY <1>1, HostForever, PTL

\* However requests replace each other and helpers are killed: no service request is
\* carried out twice, what was mixed from two costs one of them its turn, and the panel
\* starts no action while one is under way.
THEOREM RequestsRunAtMostOnce == HostSpec => []RequestsAtMostOnce
<1>1. IInv => CarriedOutAtMostOnce /\ MixedRequestIsLost
  BY DEF IInv, RunOnce, CarriedOutAtMostOnce
<1>2. Wired!IInv => Wired!MixtureLosesOne
  BY DEF Wired!IInv
<1>3. Panel!IInv => Panel!WaitsForItsAction
  BY DEF Panel!IInv
<1>4. IInv /\ Wired!IInv /\ Panel!IInv => RequestsAtMostOnce
  BY <1>1, <1>2, <1>3 DEF RequestsAtMostOnce
<1> QED
  BY <1>4, HostForever, PTL

\* Whatever fails, is rolled back or is cut short: at rest the access point and the
\* firewall are as saved, unless somebody was told otherwise.
THEOREM HostStaysAsSaved == HostSpec => []HostAsSaved
<1>1. Wifi!IInv /\ Access!IInv => HostAsSaved
  BY WifiAgrees, AccessPromises DEF HostAsSaved
<1> QED
  BY <1>1, HostForever, PTL

\* What is shown as done is so: by the task table, the page of customer access, that of
\* the interfaces, and the panel.
THEOREM AnswersStayTrue == HostSpec => []AnswersAreTrue
<1>1. IInv => SuccessIsEarned
  BY DEF IInv
<1>2. Access!IInv => Access!StatusTellsTheAccess
  BY AccessPromises
<1>3. Wired!IInv /\ Panel!IInv => Wired!AppliedIsLive /\ Panel!DoneWasDone
  BY DEF Wired!IInv, Panel!IInv
<1>4. IInv /\ Access!IInv /\ Wired!IInv /\ Panel!IInv => AnswersAreTrue
  BY <1>1, <1>2, <1>3 DEF AnswersAreTrue
<1> QED
  BY <1>4, HostForever, PTL

\* What the access point answers is in force, 5 GHz that fails ends in 2.4 GHz and not in
\* an error, and an error stays shown.
THEOREM WifiAnswersAlwaysHold == HostSpec => WifiAnswersHold
<1>1. Wifi!IInv /\ [Wifi!Next]_(Wifi!vars) =>
        [Wifi!Answers /\ ~wifiStatus'.error /\ ~disturbed =>
           /\ air = wifiProfile
           /\ wifiJob.change \in Keys => air.key = wifiJob.change
           /\ wifiJob.change \in Wifi!Mode =>
                air.mode = wifiJob.change \/ wifiStatus'.notice]_(Wifi!vars)
  BY AnswersHold
<1>2. Wifi!IInv /\ [Wifi!Next]_(Wifi!vars) =>
        [Wifi!Answers /\ wifiStatus'.error =>
           \/ wifiJob.hurt
           \/ backend = "hostapd" /\ wifiJob.before.mode = "standard"]_(Wifi!vars)
  BY AnswersHold
<1>3. Wifi!IInv /\ [Wifi!Next]_(Wifi!vars) =>
        [wifiStatus # None /\ wifiStatus.error /\ wifiStatus' # None =>
           wifiStatus'.error]_(Wifi!vars)
  BY ErrorStays
<1>4. HostSpec => Wifi!AnswerIsInForce
  BY <1>1, HostSteps, WifiForever, PTL DEF Wifi!AnswerIsInForce
<1>5. HostSpec => Wifi!FallbackIsAnswered
  BY <1>2, HostSteps, WifiForever, PTL DEF Wifi!FallbackIsAnswered
<1>6. HostSpec => Wifi!ErrorIsKept
  BY <1>3, HostSteps, WifiForever, PTL DEF Wifi!ErrorIsKept
<1> QED
  BY <1>4, <1>5, <1>6 DEF WifiAnswersHold

\* The panel starts what was confirmed on it and in time, and its switch for customer
\* access applies the limits that were saved.
THEOREM PanelAlwaysObeys == HostSpec => PanelDoesAsTold
<1>1. Panel!IInv /\ [Panel!Next]_(Panel!vars) =>
        [actions' # actions =>
           /\ menu.confirm = work'.action /\ menu.choice = 1
           /\ ~late /\ ~idle]_(Panel!vars)
  BY OnlyConfirm
<1>2. Access!IInv /\ [Access!Next]_(Access!vars) =>
        [rules' # rules /\ accessJob # None /\ accessJob.kind = "panel" =>
           rules' \in {None, Access!Closed, {limits}}]_(Access!vars)
  BY LimitsStep
<1>3. HostSpec => Panel!OnlyWhatWasConfirmed
  BY <1>1, HostSteps, PanelForever, PTL DEF Panel!OnlyWhatWasConfirmed
<1>4. HostSpec => Access!LimitsAreRetained
  BY <1>2, HostSteps, AccessForever, PTL DEF Access!LimitsAreRetained
<1> QED
  BY <1>3, <1>4 DEF PanelDoesAsTold
=============================================================================
