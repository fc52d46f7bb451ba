-------------------------- MODULE RegistrationAgent --------------------------
(***************************************************************************)
(* The registration agent of one appliance, device-registration/client.py: *)
(* short runs started by a timer (sync) or by an operator (activate) that  *)
(* share authorization.json and status.json under agent.lock, talk to the  *)
(* server over a network that fails, and may be killed between any two of  *)
(* their writes.  The backend reads status.json at any time                *)
(* (backend/app/services/registration.py).                                 *)
(*                                                                         *)
(* The server is what module Registration shows it to be for one identity: *)
(* while the identity is entitled a proof is answered with a document that *)
(* ends Grace later, otherwise with another status.                        *)
(***************************************************************************)
EXTENDS Naturals

CONSTANTS
    Runs,       \* invocations of the agent that may overlap
    None,
    MaxTime,    \* bound: last value of the server's clock
    MaxClock,   \* bound: last value the local clock is set to
    MaxJumps,   \* bound: times the local clock is set
    MaxKills,   \* bound: runs killed half way
    Grace,      \* cfg.offline_grace_seconds of the server
    Skew,       \* the 30 s issued_at may lie ahead of the local clock
    ChallengeTTL,   \* cfg.challenge_seconds of the server
    ChallengeAhead, \* the 300 s a challenge may end ahead of the local clock
    StaleAfter  \* the 900 s after which the backend ignores status.json

VARIABLES
    time,       \* the server's clock
    clock,      \* time.time() on the appliance
    entitled,   \* the server would answer ACTIVE
    withdrawn,  \* when entitled was last taken away
    network,    \* how a request fares: "up", "failing" (HTTP error), "down"
    cache,      \* authorization.json
    status,     \* status.json as the backend sees it
    lock,       \* holder of agent.lock
    run,        \* the state of every run
    jumps, kills

server == <<time, entitled, withdrawn>>
world == <<time, clock, entitled, withdrawn, network, jumps>>
vars == <<time, clock, entitled, withdrawn, network, cache, status, lock, run,
          jumps, kills>>

-----------------------------------------------------------------------------
ASSUME AgentBounds ==
    /\ MaxTime \in Nat /\ MaxClock \in Nat /\ MaxJumps \in Nat /\ MaxKills \in Nat
    /\ Grace \in Nat \ {0} /\ Skew \in Nat /\ StaleAfter \in Nat
    /\ ChallengeTTL \in Nat /\ ChallengeAhead \in Nat /\ ChallengeTTL <= ChallengeAhead

Doc == [issued : Nat, expires : Nat]

ASSUME NoneIsNothing == None \notin Runs \cup Doc

Phase == {"idle", "prompt", "enroll", "challenge", "submit", "reply", "settle",
          "report"}
Answer == {"NONE", "ACTIVE", "INACTIVE", "DENIED", "LOST"}
Cache == [doc : Doc \cup {None}, denied : BOOLEAN, last : Nat]
Status == [checked : Nat, authorized : BOOLEAN, expires : Nat]
Run == [phase : Phase, token : BOOLEAN, tick : Nat, seen : Cache, answer : Answer,
        doc : Doc \cup {None}, verdict : Doc \cup {None}]

NoCache == [doc |-> None, denied |-> FALSE, last |-> 0]
NoStatus == [checked |-> 0, authorized |-> FALSE, expires |-> 0]
Idle == [phase |-> "idle", token |-> FALSE, tick |-> 0, seen |-> NoCache,
         answer |-> "NONE", doc |-> None, verdict |-> None]

TypeOK ==
    /\ time \in Nat /\ clock \in Nat /\ withdrawn \in Nat
    /\ entitled \in BOOLEAN
    /\ network \in {"up", "failing", "down"}
    /\ cache \in Cache /\ status \in Status
    /\ lock \in Runs \cup {None}
    /\ run \in [Runs -> Run]
    /\ jumps \in Nat /\ kills \in Nat

Init ==
    /\ time = 0 /\ clock = 0 /\ withdrawn = 0
    /\ entitled = FALSE
    /\ network = "up"
    /\ cache = NoCache /\ status = NoStatus
    /\ lock = None
    /\ run = [r \in Runs |-> Idle]
    /\ jumps = 0 /\ kills = 0

-----------------------------------------------------------------------------
(* The world: time, the server's decisions, the network.                   *)

Tick ==
    /\ time < MaxTime
    /\ time' = time + 1 /\ clock' = clock + 1
    /\ UNCHANGED <<entitled, withdrawn, network, cache, status, lock, run, jumps, kills>>

\* The clock is set: a boot without a clock battery, a correction by NTP.
SetClock(v) ==
    /\ jumps < MaxJumps /\ v # clock
    /\ clock' = v /\ jumps' = jumps + 1
    /\ UNCHANGED <<server, network, cache, status, lock, run, kills>>

\* The clock is put right, which happens on its own once time is synchronised.
CorrectClock ==
    /\ clock # time
    /\ clock' = time
    /\ UNCHANGED <<server, network, cache, status, lock, run, jumps, kills>>

Entitle ==
    /\ entitled' = TRUE
    /\ UNCHANGED <<time, clock, withdrawn, network, cache, status, lock, run, jumps, kills>>

\* Suspension, revocation, release or the end of the licence.
Withdraw ==
    /\ entitled
    /\ entitled' = FALSE /\ withdrawn' = time
    /\ UNCHANGED <<time, clock, network, cache, status, lock, run, jumps, kills>>

NetworkChanges(n) ==
    /\ network # n
    /\ network' = n
    /\ UNCHANGED <<server, clock, cache, status, lock, run, jumps, kills>>

-----------------------------------------------------------------------------
(* A run.                                                                  *)

Goes(r, phase) == run' = [run EXCEPT ![r].phase = phase]

LockFree == lock = None

\* main(): the lock is taken before anything is read; activate then waits for
\* the operator to type the token.
Start(r, token) ==
    /\ run[r].phase = "idle"
    /\ LockFree
    /\ lock' = r
    /\ run' = [run EXCEPT ![r] = [Idle EXCEPT !.phase = IF token THEN "prompt" ELSE "enroll",
                                              !.token = token, !.tick = clock,
                                              !.seen = cache]]
    /\ UNCHANGED <<world, cache, status, kills>>

\* The token was typed: synchronize() takes its time and its cache now.
Prompted(r) ==
    /\ run[r].phase = "prompt"
    /\ run' = [run EXCEPT ![r].phase = "enroll", ![r].tick = clock, ![r].seen = cache]
    /\ UNCHANGED <<world, cache, status, lock, kills>>

\* Transport.post(): an HTTP error is a denial, no connection is not.
PostFails(r) ==
    /\ network # "up"
    /\ run' = [run EXCEPT ![r].phase = "settle",
                          ![r].answer = IF network = "down" THEN "LOST" ELSE "DENIED"]

Enroll(r) ==
    /\ run[r].phase = "enroll"
    /\ network = "up" => Goes(r, "challenge")
    /\ network # "up" => PostFails(r)
    /\ UNCHANGED <<world, cache, status, lock, kills>>

\* prove() signs a challenge only when it ends within 300 seconds of now by its
\* own clock; the server, which issued it now, has another one.
ChallengeAlive ==
    LET expires == time + ChallengeTTL
    IN  clock <= expires /\ expires <= clock + ChallengeAhead

Challenge(r) ==
    /\ run[r].phase = "challenge"
    /\ network = "up" /\ ChallengeAlive => Goes(r, "submit")
    /\ network = "up" /\ ~ChallengeAlive =>
         run' = [run EXCEPT ![r].phase = "settle", ![r].answer = "DENIED"]
    /\ network # "up" => PostFails(r)
    /\ UNCHANGED <<world, cache, status, lock, kills>>

\* The proof reaches the server, which decides; the reply is another matter.
Submit(r) ==
    /\ run[r].phase = "submit"
    /\ network = "up" =>
         run' = [run EXCEPT ![r].phase = "reply",
                            ![r].answer = IF entitled THEN "ACTIVE" ELSE "INACTIVE",
                            ![r].doc = IF entitled
                                       THEN [issued |-> time, expires |-> time + Grace]
                                       ELSE None]
    /\ network # "up" => PostFails(r)
    /\ UNCHANGED <<world, cache, status, lock, kills>>

Reply(r) ==
    /\ run[r].phase = "reply"
    /\ network = "up" => Goes(r, "settle")
    /\ network # "up" => PostFails(r)
    /\ UNCHANGED <<world, cache, status, lock, kills>>

\* verify_document() against the clock of this moment.
Acceptable(doc, last) ==
    /\ doc.issued <= clock + Skew
    /\ clock < doc.expires
    /\ last <= clock

\* Mutant: a denial leaves the highest clock seen in place.
DenyKeepingClock(r) ==
    /\ cache' = [doc |-> None, denied |-> TRUE, last |-> run[r].seen.last]
    /\ run' = [run EXCEPT ![r].phase = "report", ![r].verdict = None]

\* The exception handlers: any refusal erases the cached document.
Deny(r) ==
    /\ cache' = [doc |-> None, denied |-> TRUE, last |-> run[r].tick]
    /\ run' = [run EXCEPT ![r].phase = "report", ![r].verdict = None]

\* result["status"] == "ACTIVE": the document is checked and kept.
SettleActive(r) ==
    /\ run[r].phase = "settle"
    /\ run[r].answer = "ACTIVE"
    /\ Acceptable(run[r].doc, run[r].seen.last)
    /\ cache' = [doc |-> run[r].doc, denied |-> FALSE, last |-> run[r].tick]
    /\ run' = [run EXCEPT ![r].phase = "report", ![r].verdict = run[r].doc]
    /\ UNCHANGED <<world, status, lock, kills>>

\* Another status, an HTTP error, or a document this clock cannot accept.
SettleDenied(r) ==
    /\ run[r].phase = "settle"
    /\ run[r].answer \in {"INACTIVE", "DENIED", "ACTIVE"}
    /\ run[r].answer = "ACTIVE" => ~Acceptable(run[r].doc, run[r].seen.last)
    /\ Deny(r)
    /\ UNCHANGED <<world, status, lock, kills>>

\* Offline grace: no token was being redeemed, and the document this run found
\* was not denied and is still acceptable.
GraceAllowed(r) ==
    /\ ~run[r].token
    /\ run[r].seen.doc # None /\ ~run[r].seen.denied
    /\ Acceptable(run[r].seen.doc, run[r].seen.last)

\* Mutant: an outage clears the mark of a denial.
OutageForgives(r) ==
    /\ run[r].phase = "settle"
    /\ run[r].answer = "LOST"
    /\ ~run[r].token
    /\ cache' = [doc |-> run[r].seen.doc, denied |-> FALSE, last |-> run[r].tick]
    /\ run' = [run EXCEPT ![r].phase = "report", ![r].verdict = run[r].seen.doc]
    /\ UNCHANGED <<world, status, lock, kills>>

\* Mutant: every outage starts the grace anew.
OfflineExtends(r) ==
    LET doc == [run[r].seen.doc EXCEPT !.expires = run[r].tick + Grace] IN
    /\ run[r].phase = "settle"
    /\ run[r].answer = "LOST"
    /\ GraceAllowed(r)
    /\ cache' = [run[r].seen EXCEPT !.doc = doc, !.last = run[r].tick]
    /\ run' = [run EXCEPT ![r].phase = "report", ![r].verdict = doc]
    /\ UNCHANGED <<world, status, lock, kills>>

SettleOffline(r) ==
    /\ run[r].phase = "settle"
    /\ run[r].answer = "LOST"
    /\ GraceAllowed(r)
    /\ cache' = [run[r].seen EXCEPT !.last = run[r].tick]
    /\ run' = [run EXCEPT ![r].phase = "report", ![r].verdict = run[r].seen.doc]
    /\ UNCHANGED <<world, status, lock, kills>>

SettleUnavailable(r) ==
    /\ run[r].phase = "settle"
    /\ run[r].answer = "LOST"
    /\ ~GraceAllowed(r)
    /\ run' = [run EXCEPT ![r].phase = "report", ![r].verdict = None]
    /\ UNCHANGED <<world, cache, status, lock, kills>>

ReportOf(r) ==
    [checked |-> run[r].tick,
     authorized |-> run[r].verdict # None,
     expires |-> IF run[r].verdict = None THEN 0 ELSE run[r].verdict.expires]

\* status.json is replaced and the process ends.
Report(r) ==
    /\ run[r].phase = "report"
    /\ status' = ReportOf(r)
    /\ run' = [run EXCEPT ![r] = Idle]
    /\ lock' = IF lock = r THEN None ELSE lock
    /\ UNCHANGED <<world, cache, kills>>

\* TimeoutStartSec, a power cut, an interrupted prompt: the kernel drops the
\* lock, the files stay as they are.
Kill(r) ==
    /\ run[r].phase # "idle" /\ kills < MaxKills
    /\ kills' = kills + 1
    /\ run' = [run EXCEPT ![r] = Idle]
    /\ lock' = IF lock = r THEN None ELSE lock
    /\ UNCHANGED <<world, cache, status>>

Step(r) ==
    \/ Prompted(r) \/ Enroll(r) \/ Challenge(r) \/ Submit(r) \/ Reply(r)
    \/ SettleActive(r) \/ SettleDenied(r) \/ SettleOffline(r) \/ SettleUnavailable(r)
    \/ Report(r)

Next ==
    \/ Tick \/ CorrectClock \/ Entitle \/ Withdraw
    \/ \E v \in 0..MaxClock : SetClock(v)
    \/ \E n \in {"up", "failing", "down"} : NetworkChanges(n)
    \/ \E r \in Runs, token \in BOOLEAN : Start(r, token)
    \/ \E r \in Runs : Step(r) \/ Kill(r)

Spec == Init /\ [][Next]_vars

\* The timer starts a sync again and again, a run that was started goes on, the
\* operator types a token, and the clock is synchronised.
Fairness ==
    /\ \A r \in Runs : WF_vars(Step(r))
    /\ \E r \in Runs : SF_vars(Start(r, FALSE))
    /\ WF_vars(Tick) /\ WF_vars(CorrectClock)

LiveSpec == Spec /\ Fairness

-----------------------------------------------------------------------------
(* What the backend concludes from status.json.                            *)

\* Mutant: the age of a report does not matter.
NotFromTheFuture == status.checked <= clock

Fresh == status.checked <= clock /\ clock - status.checked <= StaleAfter

Authorized == status.authorized /\ Fresh /\ status.expires > clock

-----------------------------------------------------------------------------
(* Properties.                                                             *)

\* A document comes back after a denial only with a new answer of the server:
\* neither an outage nor an overlapping run restores what a denial erased.
DenialSticks ==
    [][cache.denied /\ ~cache'.denied =>
         \E r \in Runs : /\ run[r].phase = "settle" /\ run[r].answer = "ACTIVE"
                          /\ cache'.doc = run[r].doc]_vars

\* Until somebody sets the clock, a device whose entitlement was withdrawn loses its
\* authority within the offline grace, whatever is lost, killed or repeated.
AuthorityEndsWithGrace ==
    jumps = 0 /\ Authorized /\ ~entitled => time < withdrawn + Grace

\* A denial that a killed run recorded but did not report ends the authority
\* all the same, as soon as the previous report is stale (unless the clock was set).
DenialReachesBackend ==
    jumps = 0 /\ Authorized /\ cache.denied => clock <= cache.last + StaleAfter

\* Once the server is reachable and stays willing, the agent recovers from every
\* earlier outage, denial, kill and clock that had been set wrong.
Recovers ==
    <>[](entitled /\ network = "up") => []<>(~cache.denied /\ cache.doc # None)

-----------------------------------------------------------------------------
(* The invariant behind DenialSticks: whoever runs holds the lock, and has  *)
(* seen the cache as it still is until it decides.                         *)

Deciding == {"enroll", "challenge", "submit", "reply", "settle"}

Exclusive == \A r \in Runs : run[r].phase # "idle" => lock = r

SeenIsCache == \A r \in Runs : run[r].phase \in Deciding => run[r].seen = cache

ActiveHasDocument == \A r \in Runs : run[r].answer = "ACTIVE" => run[r].doc # None

IInv == TypeOK /\ Exclusive /\ SeenIsCache /\ ActiveHasDocument

(* The invariant behind the two bounds, as long as nobody sets the clock:  *)
(* every document in the system ends within the grace, and every report is *)
(* older than the run that is going to replace it.                         *)

Within(e) == e <= time + Grace /\ (~entitled => e <= withdrawn + Grace)

DocumentsEnd ==
    /\ cache.doc # None => Within(cache.doc.expires)
    /\ \A r \in Runs :
         /\ run[r].doc # None => Within(run[r].doc.expires)
         /\ run[r].verdict # None => Within(run[r].verdict.expires)
         /\ run[r].seen.doc # None => Within(run[r].seen.doc.expires)
    /\ status.authorized => Within(status.expires)

ReportsOrdered ==
    /\ status.checked <= clock
    /\ \A r \in Runs :
         /\ run[r].tick <= clock
         /\ run[r].phase # "idle" => status.checked <= run[r].tick
         /\ run[r].phase = "report" /\ run[r].verdict # None => ~cache.denied
    /\ status.authorized /\ cache.denied => status.checked <= cache.last

ClockInv == jumps = 0 /\ clock = time /\ DocumentsEnd /\ ReportsOrdered
=============================================================================
