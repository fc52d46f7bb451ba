---------------------------- MODULE ServiceActions ----------------------------
(***************************************************************************)
(* Service control: the API queues one action in a file, a root helper     *)
(* started by systemd carries it out and leaves a result file, and the     *)
(* requests that list tasks turn results into task states                  *)
(* (backend/app/api/services.py, backend/app/services/tasks.py and         *)
(* scripts/handle-service-action.sh).                                      *)
(*                                                                         *)
(* The API's handlers run in threads, the helper is another process, and   *)
(* neither holds a lock over the other's files.  systemd runs one helper   *)
(* at a time.                                                              *)
(***************************************************************************)
EXTENDS Naturals, Sequences, FiniteSets

CONSTANTS
    Tasks,          \* task identifiers, one per queued request
    Polls,          \* requests that reconcile results at the same time
    Services, Actions,
    None,
    MaxTasks,       \* MAX_TASKS
    MaxKills,       \* bound: helpers killed half way
    MaxRestarts     \* bound: restarts of the API

VARIABLES
    asked,          \* the service and action a task was confirmed for
    queue,          \* progress of _queue() for each task
    pending,        \* .service-action.tmp: the task whose text it holds
    request,        \* service-action
    helper,         \* the running helper and what it has read so far
    did,            \* what was carried out in the name of a task
    runs,           \* how often
    result,         \* service-result-<task>.json
    table,          \* TASKS, oldest first
    poll,           \* _reconcile_results() in progress
    kills, restarts

vars == <<asked, queue, pending, request, helper, did, runs, result, table, poll,
          kills, restarts>>
api == <<asked, queue, pending, table, poll, restarts>>
host == <<helper, did, runs, kills>>

-----------------------------------------------------------------------------
Outcome == {"successful", "failed"}
Job == [service : Services, action : Actions]
Done == [service : Services, action : Actions, ok : BOOLEAN]
HelperState == [phase : {"idle", "action", "task", "remove", "execute", "report"},
                service : Services \cup {None}, action : Actions \cup {None},
                task : Tasks \cup {None}]
PollState == [phase : {"idle", "finish", "recover", "conclude", "unlink"},
              task : Tasks \cup {None}, ok : BOOLEAN]
Row == [id : Tasks, status : {"running"} \cup Outcome]

HelperIdle == [phase |-> "idle", service |-> None, action |-> None, task |-> None]
PollIdle == [phase |-> "idle", task |-> None, ok |-> FALSE]

ASSUME TableHoldsOne == MaxTasks \in Nat \ {0}
ASSUME NoneIsNothing == None \notin Tasks /\ None \notin Services /\ None \notin Actions
                       /\ None \notin Job /\ None \notin Done

TypeOK ==
    /\ asked \in [Tasks -> Job \cup {None}]
    /\ queue \in [Tasks -> {"new", "started", "written", "over"}]
    /\ pending \in Tasks \cup {None} /\ request \in Tasks \cup {None}
    /\ helper \in HelperState
    /\ did \in [Tasks -> Done \cup {None}] /\ runs \in [Tasks -> Nat]
    /\ result \in [Tasks -> BOOLEAN \cup {None}]
    /\ table \in Seq(Row) /\ Len(table) <= MaxTasks
    /\ \A m, n \in DOMAIN table : table[m].id = table[n].id => m = n
    /\ poll \in [Polls -> PollState]
    /\ kills \in Nat /\ restarts \in Nat

Init ==
    /\ asked = [t \in Tasks |-> None]
    /\ queue = [t \in Tasks |-> "new"]
    /\ pending = None /\ request = None
    /\ helper = HelperIdle
    /\ did = [t \in Tasks |-> None] /\ runs = [t \in Tasks |-> 0]
    /\ result = [t \in Tasks |-> None]
    /\ table = <<>>
    /\ poll = [p \in Polls |-> PollIdle]
    /\ kills = 0 /\ restarts = 0

-----------------------------------------------------------------------------
(* The task table.                                                         *)

Known(t) == \E n \in DOMAIN table : table[n].id = t

\* The rows of the other tasks, in their order.
Others(t) ==
    IF Known(t)
    THEN LET own == CHOOSE n \in DOMAIN table : table[n].id = t
         IN  [n \in 1 .. Len(table) - 1 |-> table[IF n < own THEN n ELSE n + 1]]
    ELSE table

Shown(t, status) == \E n \in DOMAIN table : table[n] = [id |-> t, status |-> status]

\* Mutant: a task gets a row whether or not it has one.
StartedTwice(t, status) ==
    LET grown == Append(table, [id |-> t, status |-> status])
    IN  IF Len(grown) > MaxTasks THEN Tail(grown) ELSE grown

\* start_task(): a row of its own, at the expense of the oldest, running or not.
Started(t, status) ==
    LET grown == Append(Others(t), [id |-> t, status |-> status])
    IN  IF Len(grown) > MaxTasks THEN Tail(grown) ELSE grown

Verdict(ok) == IF ok THEN "successful" ELSE "failed"

\* finish_task(): nothing happens to a task that is not there.
Finished(t, ok) ==
    [n \in DOMAIN table |->
        IF table[n].id = t THEN [table[n] EXCEPT !.status = Verdict(ok)] ELSE table[n]]

Running == {n \in DOMAIN table : table[n].status = "running"}

\* DELETE /tasks/completed: the running tasks stay, in their order.
ClearCompleted ==
    /\ Running # DOMAIN table
    /\ \E count \in 0 .. Len(table) : \E kept \in [1 .. count -> Running] :
         /\ {kept[n] : n \in 1 .. count} = Running
         /\ \A m, n \in 1 .. count : m < n => kept[m] < kept[n]
         /\ table' = [n \in 1 .. count |-> table[kept[n]]]
    /\ UNCHANGED <<asked, queue, pending, request, host, result, poll, restarts>>

-----------------------------------------------------------------------------
(* Queueing: the task, then the temporary file, then the request file.     *)

QueueStart(t, job) ==
    /\ queue[t] = "new"
    /\ asked' = [asked EXCEPT ![t] = job]
    /\ table' = Started(t, "running")
    /\ queue' = [queue EXCEPT ![t] = "started"]
    /\ UNCHANGED <<pending, request, host, result, poll, restarts>>

\* Every request writes the same temporary file.
QueueWrite(t) ==
    /\ queue[t] = "started"
    /\ pending' = t
    /\ queue' = [queue EXCEPT ![t] = "written"]
    /\ UNCHANGED <<asked, request, host, result, table, poll, restarts>>

\* Replaces a request the helper has not taken yet; fails when another request
\* moved the temporary file away.
QueueReplace(t) ==
    /\ queue[t] = "written"
    /\ queue' = [queue EXCEPT ![t] = "over"]
    /\ pending # None => request' = pending /\ UNCHANGED table
    /\ pending = None => table' = Finished(t, FALSE) /\ UNCHANGED request
    /\ pending' = None
    /\ UNCHANGED <<asked, host, result, poll, restarts>>

\* The API process ends: the table and everything in progress is gone.
ApiRestart ==
    /\ restarts < MaxRestarts
    /\ restarts' = restarts + 1
    /\ table' = <<>>
    /\ poll' = [p \in Polls |-> PollIdle]
    /\ queue' = [t \in Tasks |-> IF queue[t] = "new" THEN "new" ELSE "over"]
    /\ UNCHANGED <<asked, pending, request, host, result>>

-----------------------------------------------------------------------------
(* The helper: three reads of the file by name, its removal, the action.   *)

HelperStart ==
    /\ helper.phase = "idle"
    /\ request # None
    /\ helper' = [HelperIdle EXCEPT !.phase = "action", !.service = asked[request].service]
    /\ UNCHANGED <<api, request, did, runs, result, kills>>

HelperReadAction ==
    /\ helper.phase = "action"
    /\ helper' = [helper EXCEPT !.phase = "task", !.action = asked[request].action]
    /\ UNCHANGED <<api, request, did, runs, result, kills>>

HelperReadTask ==
    /\ helper.phase = "task"
    /\ helper' = [helper EXCEPT !.phase = "remove", !.task = request]
    /\ UNCHANGED <<api, request, did, runs, result, kills>>

\* Mutant: the request is removed by whoever finds it done.
RemoveLater ==
    /\ helper.phase = "remove"
    /\ helper' = [helper EXCEPT !.phase = "execute"]
    /\ UNCHANGED <<api, request, did, runs, result, kills>>

HelperRemove ==
    /\ helper.phase = "remove"
    /\ request' = None
    /\ helper' = [helper EXCEPT !.phase = "execute"]
    /\ UNCHANGED <<api, did, runs, result, kills>>

\* systemctl may fail.
HelperExecute(ok) ==
    /\ helper.phase = "execute"
    /\ did' = [did EXCEPT ![helper.task] = [service |-> helper.service,
                                           action |-> helper.action, ok |-> ok]]
    /\ runs' = [runs EXCEPT ![helper.task] = @ + 1]
    /\ helper' = [helper EXCEPT !.phase = "report"]
    /\ UNCHANGED <<api, request, result, kills>>

\* Mutant: the error message is kept and the flag is not.
ReportAlwaysGood ==
    /\ helper.phase = "report"
    /\ result' = [result EXCEPT ![helper.task] = TRUE]
    /\ helper' = HelperIdle
    /\ UNCHANGED <<api, request, did, runs, kills>>

HelperReport ==
    /\ helper.phase = "report"
    /\ result' = [result EXCEPT ![helper.task] = did[helper.task].ok]
    /\ helper' = HelperIdle
    /\ UNCHANGED <<api, request, did, runs, kills>>

HelperKilled ==
    /\ helper.phase # "idle" /\ kills < MaxKills
    /\ kills' = kills + 1
    /\ helper' = HelperIdle
    /\ UNCHANGED <<api, request, did, runs, result>>

-----------------------------------------------------------------------------
(* _reconcile_results(), by several requests at once.                      *)

PollRead(p, t) ==
    /\ poll[p].phase = "idle"
    /\ result[t] # None
    /\ poll' = [poll EXCEPT ![p] = [phase |-> "finish", task |-> t, ok |-> result[t]]]
    /\ UNCHANGED <<asked, queue, pending, request, host, result, table, restarts>>

PollFinish(p) ==
    /\ poll[p].phase = "finish"
    /\ table' = Finished(poll[p].task, poll[p].ok)
    /\ poll' = [poll EXCEPT ![p].phase = IF Known(poll[p].task) THEN "unlink" ELSE "recover"]
    /\ UNCHANGED <<asked, queue, pending, request, host, result, restarts>>

\* Mutant: results of unknown tasks are dropped.
PollForgets(p) ==
    /\ poll[p].phase = "recover"
    /\ poll' = [poll EXCEPT ![p].phase = "unlink"]
    /\ UNCHANGED <<asked, queue, pending, request, host, result, table, restarts>>

\* A result of a task this process never heard of, or forgot.
PollRecover(p) ==
    /\ poll[p].phase = "recover"
    /\ table' = Started(poll[p].task, "running")
    /\ poll' = [poll EXCEPT ![p].phase = "conclude"]
    /\ UNCHANGED <<asked, queue, pending, request, host, result, restarts>>

PollConclude(p) ==
    /\ poll[p].phase = "conclude"
    /\ table' = Finished(poll[p].task, poll[p].ok)
    /\ poll' = [poll EXCEPT ![p].phase = "unlink"]
    /\ UNCHANGED <<asked, queue, pending, request, host, result, restarts>>

PollUnlink(p) ==
    /\ poll[p].phase = "unlink"
    /\ result' = [result EXCEPT ![poll[p].task] = None]
    /\ poll' = [poll EXCEPT ![p] = PollIdle]
    /\ UNCHANGED <<asked, queue, pending, request, host, table, restarts>>

-----------------------------------------------------------------------------
QueueStep(t) == QueueWrite(t) \/ QueueReplace(t)

HelperStep ==
    \/ HelperStart \/ HelperReadAction \/ HelperReadTask \/ HelperRemove
    \/ \E ok \in BOOLEAN : HelperExecute(ok)
    \/ HelperReport

PollStep(p) ==
    \/ \E t \in Tasks : PollRead(p, t)
    \/ PollFinish(p) \/ PollRecover(p) \/ PollConclude(p) \/ PollUnlink(p)

Next ==
    \/ \E t \in Tasks, job \in Job : QueueStart(t, job)
    \/ \E t \in Tasks : QueueStep(t)
    \/ HelperStep \/ HelperKilled
    \/ \E p \in Polls : PollStep(p)
    \/ ClearCompleted \/ ApiRestart

Spec == Init /\ [][Next]_vars

\* Threads run, systemd starts the helper while the request exists, and open
\* pages go on listing tasks.
Fairness ==
    /\ \A t \in Tasks : WF_vars(QueueStep(t))
    /\ WF_vars(HelperStep)
    /\ \A p \in Polls : WF_vars(PollStep(p))

LiveSpec == Spec /\ Fairness

-----------------------------------------------------------------------------
(* Properties.                                                             *)

\* However the helper is killed and requests replace each other, nothing is
\* carried out twice for one task (the file is removed before the action).
CarriedOutAtMostOnce == \A t \in Tasks : runs[t] <= 1

\* The table claims success only for an action that was carried out and did
\* succeed, also for rows rebuilt after a restart or by two polls at once.
SuccessIsEarned ==
    \A t \in Tasks : Shown(t, "successful") => did[t] # None /\ did[t].ok

\* A result no request has taken over yet.
Unread(t) ==
    /\ result[t] # None
    /\ \A p \in Polls : poll[p].phase = "unlink" => poll[p].task # t

\* Whatever the helper reported reaches the table, even if the API restarted
\* meanwhile and forgot the task, or the history was cleared.
ReportReachesTable ==
    \A t \in Tasks : Unread(t) ~> Shown(t, "successful") \/ Shown(t, "failed")

\* A request nobody will carry out: queued, and neither waiting nor taken.
Lost(u) ==
    /\ asked[u] # None /\ queue[u] # "started"
    /\ u \notin {pending, request}
    /\ helper.phase \in {"remove", "execute"} => helper.task # u
    /\ did[u] = None

\* What is carried out for a task is what it asked for, unless its request took
\* the place of another under the eyes of the helper: then that other request,
\* whose service was used, is never carried out itself.
MixedRequestIsLost ==
    \A t \in Tasks :
        did[t] # None /\ asked[t] # [service |-> did[t].service, action |-> did[t].action]
            => \E u \in Tasks : Lost(u) /\ asked[u].service = did[t].service

-----------------------------------------------------------------------------
(* The invariant: a task waits in one place at a time, what the helper has  *)
(* read comes from the request that is there or from one that is lost, and  *)
(* a success is earned wherever it is on its way to the table.              *)

Waiting == {pending, request} \ {None}
Taken == IF helper.phase \in {"remove", "execute", "report"} THEN {helper.task} ELSE {}

MailboxOK ==
    /\ asked \in [Tasks -> Job \cup {None}]
    /\ queue \in [Tasks -> {"new", "started", "written", "over"}]
    /\ pending \in Tasks \cup {None} /\ request \in Tasks \cup {None}
    /\ helper \in HelperState
    /\ did \in [Tasks -> Done \cup {None}] /\ runs \in [Tasks -> Nat]
    /\ helper.phase \in {"action", "task"} => request # None
    /\ helper.phase \in {"remove", "execute", "report"} => helper.task # None
    /\ helper.phase # "idle" => helper.service # None
    /\ helper.phase \in {"task", "remove", "execute", "report"} => helper.action # None

QueuedFirst ==
    \A t \in Tasks :
        /\ queue[t] = "new" <=> asked[t] = None
        /\ queue[t] \in {"new", "started"} => t \notin Waiting \cup Taken

InOnePlace ==
    /\ pending # None => pending # request /\ pending \notin Taken
    /\ helper.phase \in {"execute", "report"} => request # helper.task

RunOnce ==
    \A t \in Tasks :
        /\ runs[t] <= 1 /\ (runs[t] = 0 <=> did[t] = None)
        /\ queue[t] \in {"new", "started"} \/ t \in Waiting => runs[t] = 0
        /\ t \in Taken /\ helper.phase # "report" => runs[t] = 0

LostWith(service) == \E u \in Tasks : Lost(u) /\ asked[u].service = service

ReadFromRequest ==
    /\ helper.phase = "action" =>
         asked[request].service = helper.service \/ LostWith(helper.service)
    /\ helper.phase = "task" =>
         asked[request] = [service |-> helper.service, action |-> helper.action]
           \/ LostWith(helper.service)
    /\ helper.phase \in {"remove", "execute"} =>
         asked[helper.task] = [service |-> helper.service, action |-> helper.action]
           \/ LostWith(helper.service)

\* A task has one row, in a table that holds so many; the other files and the polls
\* have their types.
TableOK ==
    /\ table \in Seq(Row) /\ Len(table) <= MaxTasks
    /\ \A m, n \in DOMAIN table : table[m].id = table[n].id => m = n
    /\ poll \in [Polls -> PollState]
    /\ \A p \in Polls : poll[p].phase # "idle" => poll[p].task \in Tasks
    /\ result \in [Tasks -> BOOLEAN \cup {None}]
    /\ kills \in Nat /\ restarts \in Nat

Earned(t) == did[t] # None /\ did[t].ok

\* On its way from the helper to the table success stays earned.
EarnedOnTheWay ==
    /\ helper.phase = "report" => did[helper.task] # None
    /\ \A t \in Tasks : result[t] # None /\ result[t] => Earned(t)
    /\ \A p \in Polls :
         poll[p].phase \in {"finish", "recover", "conclude"} /\ poll[p].ok => Earned(poll[p].task)

IInv ==
    /\ MailboxOK /\ QueuedFirst /\ InOnePlace /\ RunOnce
    /\ ReadFromRequest /\ MixedRequestIsLost
    /\ TableOK /\ EarnedOnTheWay /\ SuccessIsEarned
=============================================================================
