----------------------- MODULE RegistrationAgentProofs -----------------------
(***************************************************************************)
(* For any number of runs, kills and grace: no outage undoes a denial, and *)
(* while nobody sets the clock a withdrawn device loses its authority in   *)
(* time.                                                                   *)
(*                                                                         *)
(* The lock carries the argument.  Whoever runs holds it, so that what a   *)
(* run has seen of the cache is still the cache when it decides, and the   *)
(* report it replaces is older than its own.                               *)
(***************************************************************************)
EXTENDS RegistrationAgent, TLAPS

-----------------------------------------------------------------------------
(* Types and the lock.                                                     *)

\* An idle run, and one that starts.
LEMMA IdleTyped ==
    /\ Idle \in Run /\ NoCache \in Cache /\ NoStatus \in Status
    /\ \A p \in Phase, token \in BOOLEAN, t \in Nat, c \in Cache :
         [Idle EXCEPT !.phase = p, !.token = token, !.tick = t, !.seen = c] \in Run
  BY DEF Idle, Run, Phase, Answer, NoCache, Cache, NoStatus, Status

\* The runs after one of them has become s.
LEMMA After ==
    ASSUME run \in [Runs -> Run], NEW r \in Runs, NEW s \in Run,
           run' = [run EXCEPT ![r] = s]
    PROVE  /\ run' \in [Runs -> Run]
           /\ run'[r] = s
           /\ \A q \in Runs : q # r => run'[q] = run[q]
  OBVIOUS

\* What one run has to respect for the lock and the types to survive: it becomes s,
\* holds the lock until it is idle again, and has seen the cache as it leaves it.
Becomes(r, s) ==
    /\ run' = [run EXCEPT ![r] = s]
    /\ UNCHANGED <<time, clock, entitled, withdrawn, network, jumps>>
    /\ kills' \in Nat /\ cache' \in Cache /\ status' \in Status
    /\ \A q \in Runs : q # r => run[q].phase = "idle"
    /\ s.phase = "idle" => lock' = None
    /\ s.phase # "idle" => lock' = r
    /\ s.phase \in Deciding => s.seen = cache'
    /\ s.answer = "ACTIVE" => s.doc # None

LEMMA RunKeepsLock ==
    ASSUME IInv, NEW r \in Runs, NEW s \in Run, Becomes(r, s)
    PROVE  IInv'
<1>1. /\ run' \in [Runs -> Run] /\ run'[r] = s
      /\ \A q \in Runs : q # r => run'[q] = run[q]
  BY After DEF IInv, TypeOK, Becomes
<1>2. TypeOK'
  BY <1>1 DEF IInv, TypeOK, Becomes
<1>3. Exclusive'
  BY <1>1 DEF IInv, Exclusive, Becomes
<1>4. SeenIsCache'
  BY <1>1 DEF IInv, SeenIsCache, Deciding, Becomes
<1>5. ActiveHasDocument'
  BY <1>1 DEF IInv, ActiveHasDocument, Becomes
<1> QED
  BY <1>2, <1>3, <1>4, <1>5 DEF IInv

\* While one run is busy the others are idle.
LEMMA OthersIdle ==
    ASSUME IInv, NEW r \in Runs, run[r].phase # "idle" \/ LockFree
    PROVE  \A q \in Runs : q # r => run[q].phase = "idle"
  BY NoneIsNothing DEF IInv, Exclusive, LockFree

-----------------------------------------------------------------------------
(* What every step does to the run that takes it.                          *)

\* A step that only moves on, or that fails and goes to settle.
LEMMA PostFailsShape ==
    ASSUME IInv, NEW r \in Runs, PostFails(r)
    PROVE  \E a \in {"LOST", "DENIED"} :
             run' = [run EXCEPT ![r] = [run[r] EXCEPT !.phase = "settle", !.answer = a]]
  BY DEF IInv, TypeOK, PostFails, Run

\* Enrolling, asking for a challenge and waiting for the reply.
LEMMA PostShape ==
    ASSUME IInv, NEW r \in Runs, Enroll(r) \/ Challenge(r) \/ Reply(r)
    PROVE  /\ run[r].phase \in {"enroll", "challenge", "reply"}
           /\ UNCHANGED <<time, clock, entitled, withdrawn, network, jumps, cache, status,
                          lock, kills>>
           /\ \E p \in {"challenge", "submit", "settle"}, a \in Answer :
                /\ a = run[r].answer \/ a \in {"LOST", "DENIED"}
                /\ run' = [run EXCEPT ![r] = [run[r] EXCEPT !.phase = p, !.answer = a]]
<1>1. run[r].answer \in Answer /\ run[r] \in Run
  BY DEF IInv, TypeOK, Run
<1>2. ASSUME NEW p \in {"challenge", "submit", "settle"}, Goes(r, p)
      PROVE  run' = [run EXCEPT ![r] = [run[r] EXCEPT !.phase = p, !.answer = run[r].answer]]
  BY <1>1, <1>2 DEF IInv, TypeOK, Goes, Run
<1>3. CASE network = "up"
  <2>1. CASE Challenge(r)
    <3>1. CASE ChallengeAlive
      BY <1>1, <1>2, <1>3, <2>1, <3>1 DEF Challenge, world
    <3>2. CASE ~ChallengeAlive
      <4>1. run' = [run EXCEPT ![r] = [run[r] EXCEPT !.phase = "settle", !.answer = "DENIED"]]
        BY <1>1, <1>3, <2>1, <3>2 DEF Challenge, IInv, TypeOK, Run
      <4> QED
        BY <2>1, <4>1 DEF Challenge, world, Answer
    <3> QED
      BY <3>1, <3>2
  <2> QED
    BY <1>1, <1>2, <1>3, <2>1 DEF Enroll, Reply, world
<1>4. CASE network # "up"
  BY <1>1, <1>4, PostFailsShape DEF Enroll, Challenge, Reply, world, Answer
<1> QED
  BY <1>3, <1>4

\* Sending the proof: the server answers with a document or without.
LEMMA SubmitShape ==
    ASSUME IInv, NEW r \in Runs, Submit(r)
    PROVE  /\ run[r].phase = "submit"
           /\ UNCHANGED <<time, clock, entitled, withdrawn, network, jumps, cache, status,
                          lock, kills>>
           /\ \/ /\ entitled
                 /\ run' = [run EXCEPT ![r] =
                      [run[r] EXCEPT !.phase = "reply", !.answer = "ACTIVE",
                                     !.doc = [issued |-> time, expires |-> time + Grace]]]
              \/ run' = [run EXCEPT ![r] =
                   [run[r] EXCEPT !.phase = "reply", !.answer = "INACTIVE", !.doc = None]]
              \/ \E a \in {"LOST", "DENIED"} :
                   run' = [run EXCEPT ![r] = [run[r] EXCEPT !.phase = "settle", !.answer = a]]
<1>1. CASE network = "up" /\ entitled
  BY <1>1 DEF IInv, TypeOK, Submit, world, Run
<1>2. CASE network = "up" /\ ~entitled
  BY <1>2 DEF IInv, TypeOK, Submit, world, Run
<1>3. CASE network # "up"
  BY <1>3, PostFailsShape DEF Submit, world
<1> QED
  BY <1>1, <1>2, <1>3

\* Deciding: the verdict is a document or a refusal, the cache follows it.
LEMMA SettleShape ==
    ASSUME IInv, NEW r \in Runs,
           \/ SettleActive(r) \/ SettleDenied(r) \/ SettleOffline(r) \/ SettleUnavailable(r)
    PROVE  /\ run[r].phase = "settle" /\ run[r].seen = cache
           /\ UNCHANGED <<time, clock, entitled, withdrawn, network, jumps, status, lock, kills>>
           /\ \E v \in Doc \cup {None} :
                /\ run' = [run EXCEPT ![r] = [run[r] EXCEPT !.phase = "report", !.verdict = v]]
                /\ \/ /\ run[r].answer = "ACTIVE" /\ v = run[r].doc /\ v # None
                      /\ cache' = [doc |-> v, denied |-> FALSE, last |-> run[r].tick]
                   \/ /\ v = None
                      /\ cache' = [doc |-> None, denied |-> TRUE, last |-> run[r].tick]
                   \/ /\ v = cache.doc /\ v # None /\ ~cache.denied
                      /\ cache' = [doc |-> v, denied |-> FALSE, last |-> run[r].tick]
                   \/ v = None /\ cache' = cache
<1> DEFINE Concludes(v) ==
      run' = [run EXCEPT ![r] = [run[r] EXCEPT !.phase = "report", !.verdict = v]]
<1>1. /\ run[r].phase = "settle" /\ run[r].seen = cache
      /\ UNCHANGED <<time, clock, entitled, withdrawn, network, jumps, status, lock, kills>>
  BY DEF SettleActive, SettleDenied, SettleOffline, SettleUnavailable, IInv, SeenIsCache,
         Deciding, world
<1>2. run[r] \in Run /\ run[r].doc \in Doc \cup {None} /\ cache \in Cache
      /\ cache.doc \in Doc \cup {None}
  BY DEF IInv, TypeOK, Run, Cache
<1>3. CASE SettleActive(r)
  <2>1. Concludes(run[r].doc)
    BY <1>3 DEF SettleActive, IInv, TypeOK, Run
  <2> QED
    BY <1>1, <1>2, <1>3, <2>1 DEF SettleActive, IInv, ActiveHasDocument
<1>4. CASE SettleDenied(r)
  <2>1. Concludes(None)
    BY <1>4 DEF SettleDenied, Deny, IInv, TypeOK, Run
  <2> QED
    BY <1>1, <1>2, <1>4, <2>1 DEF SettleDenied, Deny
<1>5. CASE SettleOffline(r)
  <2>1. Concludes(cache.doc)
    BY <1>1, <1>5 DEF SettleOffline, IInv, TypeOK, Run
  <2>2. cache.doc # None /\ ~cache.denied
    BY <1>1, <1>5 DEF SettleOffline, GraceAllowed
  <2>3. cache' = [doc |-> cache.doc, denied |-> FALSE, last |-> run[r].tick]
    BY <1>1, <1>2, <1>5, <2>2 DEF SettleOffline, Cache
  <2> QED
    BY <1>1, <1>2, <2>1, <2>2, <2>3
<1>6. CASE SettleUnavailable(r)
  <2>1. Concludes(None)
    BY <1>6 DEF SettleUnavailable, IInv, TypeOK, Run
  <2> QED
    BY <1>1, <1>2, <1>6, <2>1 DEF SettleUnavailable
<1> QED
  BY <1>3, <1>4, <1>5, <1>6

-----------------------------------------------------------------------------
(* The lock's invariant.                                                   *)

LEMMA IInvInit == Init => IInv
<1> SUFFICES ASSUME Init PROVE IInv
  OBVIOUS
<1>1. \A r \in Runs : run[r] = Idle
  BY DEF Init
<1>2. Idle.phase = "idle" /\ Idle.answer = "NONE"
  BY DEF Idle
<1>3. run \in [Runs -> Run]
  BY IdleTyped DEF Init
<1>4. TypeOK
  BY <1>3, IdleTyped DEF Init, TypeOK
<1>5. Exclusive /\ SeenIsCache /\ ActiveHasDocument
  BY <1>1, <1>2 DEF Exclusive, SeenIsCache, ActiveHasDocument, Deciding
<1> QED
  BY <1>4, <1>5 DEF IInv

\* The world does not touch the appliance's files, nor the runs.
LEMMA IInvWorld ==
    ASSUME IInv,
           \/ Tick \/ CorrectClock \/ Entitle \/ Withdraw \/ UNCHANGED vars
           \/ \E v \in 0..MaxClock : SetClock(v)
           \/ \E n \in {"up", "failing", "down"} : NetworkChanges(n)
    PROVE  IInv'
<1>1. UNCHANGED <<cache, status, lock, run, kills>>
  BY DEF Tick, CorrectClock, Entitle, Withdraw, SetClock, NetworkChanges, server, vars
<1>2. time' \in Nat /\ clock' \in Nat /\ withdrawn' \in Nat /\ jumps' \in Nat
  BY AgentBounds
     DEF IInv, TypeOK, Tick, CorrectClock, Entitle, Withdraw, SetClock, NetworkChanges,
         server, vars
<1>3. entitled' \in BOOLEAN /\ network' \in {"up", "failing", "down"}
  BY DEF IInv, TypeOK, Tick, CorrectClock, Entitle, Withdraw, SetClock, NetworkChanges,
         server, vars
<1>4. TypeOK'
  BY <1>1, <1>2, <1>3 DEF IInv, TypeOK
<1> QED
  BY <1>1, <1>4 DEF IInv, Exclusive, SeenIsCache, ActiveHasDocument

LEMMA IInvStart ==
    ASSUME IInv, NEW r \in Runs, NEW token \in BOOLEAN, Start(r, token)
    PROVE  IInv'
<1> DEFINE s == [Idle EXCEPT !.phase = IF token THEN "prompt" ELSE "enroll",
                             !.token = token, !.tick = clock, !.seen = cache]
<1>1. s \in Run /\ s.seen = cache /\ s.answer = "NONE" /\ s.phase \in {"prompt", "enroll"}
  BY IdleTyped DEF IInv, TypeOK, Phase, Idle
<1>2. /\ run' = [run EXCEPT ![r] = s] /\ lock' = r
      /\ UNCHANGED <<time, clock, entitled, withdrawn, network, jumps, cache, status, kills>>
  BY DEF Start, world
<1>3. cache' \in Cache /\ status' \in Status /\ kills' \in Nat
  BY <1>2 DEF IInv, TypeOK
<1>4. \A q \in Runs : q # r => run[q].phase = "idle"
  BY OthersIdle DEF Start
<1> HIDE DEF s
<1>9. Becomes(r, s)
  BY <1>1, <1>2, <1>3, <1>4 DEF Becomes
<1> QED
  BY <1>9, RunKeepsLock, <1>1

\* What a step makes of the run's times and documents, of the cache and of the report.
Effect(r, s) ==
    \/ /\ s.phase \in Deciding /\ s.verdict = run[r].verdict
       /\ \/ s.tick = run[r].tick /\ s.seen = run[r].seen
          \/ s.tick = clock /\ s.seen = cache
       /\ \/ s.doc = run[r].doc \/ s.doc = None
          \/ entitled /\ s.doc.expires = time + Grace
       /\ UNCHANGED <<cache, status>>
    \/ /\ s.phase = "report"
       /\ s.tick = run[r].tick /\ s.seen = run[r].seen /\ s.doc = run[r].doc
       /\ UNCHANGED status
       /\ \/ /\ s.verdict = run[r].doc
             /\ cache' = [doc |-> s.verdict, denied |-> FALSE, last |-> s.tick]
          \/ /\ s.verdict = None
             /\ cache' = [doc |-> None, denied |-> TRUE, last |-> s.tick]
          \/ /\ s.verdict = cache.doc
             /\ cache' = [doc |-> s.verdict, denied |-> FALSE, last |-> s.tick]
          \/ s.verdict = None /\ UNCHANGED cache
    \/ /\ run[r].phase = "report" /\ s = Idle
       /\ status' = ReportOf(r) /\ UNCHANGED cache

LEMMA StepEffect ==
    ASSUME IInv, NEW r \in Runs, Step(r)
    PROVE  run[r].phase # "idle" /\ \E s \in Run : Becomes(r, s) /\ Effect(r, s)
<1>1. /\ run[r] \in Run /\ cache \in Cache /\ status \in Status /\ kills \in Nat
      /\ clock \in Nat /\ time \in Nat /\ run \in [Runs -> Run]
  BY DEF IInv, TypeOK
<1>2. run[r].phase # "idle"
  BY DEF Step, Prompted, Enroll, Challenge, Submit, Reply, SettleActive, SettleDenied,
         SettleOffline, SettleUnavailable, Report
<1>3. lock = r /\ \A q \in Runs : q # r => run[q].phase = "idle"
  BY <1>2, OthersIdle DEF IInv, Exclusive
<1>4. CASE Prompted(r)
  <2> DEFINE s == [run[r] EXCEPT !.phase = "enroll", !.tick = clock, !.seen = cache]
  <2>1. s \in Run /\ s.phase = "enroll" /\ s.seen = cache /\ s.answer = run[r].answer
        /\ s.doc = run[r].doc /\ s.verdict = run[r].verdict /\ s.tick = clock
    BY <1>1 DEF Phase, Run
  <2>2. run' = [run EXCEPT ![r] = s]
    BY <1>4 DEF Prompted, IInv, TypeOK, Run
  <2>3. UNCHANGED <<time, clock, entitled, withdrawn, network, jumps, cache, status, lock, kills>>
    BY <1>4 DEF Prompted, world
  <2> HIDE DEF s
  <2>9. Becomes(r, s)
    BY <1>1, <1>3, <2>1, <2>2, <2>3 DEF Becomes, IInv, ActiveHasDocument
  <2>10. Effect(r, s)
    BY <2>1, <2>3 DEF Effect, Deciding
  <2> QED
    BY <2>1, <1>2, <2>9, <2>10
<1>5. CASE Enroll(r) \/ Challenge(r) \/ Reply(r)
  <2>1. PICK p \in {"challenge", "submit", "settle"}, a \in Answer :
          /\ a = run[r].answer \/ a \in {"LOST", "DENIED"}
          /\ run' = [run EXCEPT ![r] = [run[r] EXCEPT !.phase = p, !.answer = a]]
    BY <1>5, PostShape
  <2> DEFINE s == [run[r] EXCEPT !.phase = p, !.answer = a]
  <2>2. s \in Run /\ s.phase = p /\ s.answer = a /\ s.doc = run[r].doc /\ s.seen = run[r].seen
        /\ s.verdict = run[r].verdict /\ s.tick = run[r].tick
    BY <1>1 DEF Phase, Run
  <2>3. s.seen = cache
    BY <1>5, <2>2, PostShape DEF IInv, SeenIsCache, Deciding
  <2>4. s.answer = "ACTIVE" => s.doc # None
    BY <2>1, <2>2 DEF IInv, ActiveHasDocument
  <2>5. UNCHANGED <<time, clock, entitled, withdrawn, network, jumps, cache, status, lock, kills>>
    BY <1>5, PostShape
  <2> HIDE DEF s
  <2>6. run' = [run EXCEPT ![r] = s]
    BY <2>1 DEF s
  <2>9. Becomes(r, s)
    BY <1>1, <1>3, <2>2, <2>3, <2>4, <2>5, <2>6 DEF Becomes
  <2>10. Effect(r, s)
    BY <2>2, <2>5 DEF Effect, Deciding
  <2> QED
    BY <2>2, <1>2, <2>9, <2>10
<1>6. CASE Submit(r)
  <2>1. \E s \in Run :
          /\ run' = [run EXCEPT ![r] = s] /\ s.phase \in {"reply", "settle"}
          /\ s.seen = run[r].seen
          /\ s.answer = "ACTIVE" => s.doc # None
          /\ s.verdict = run[r].verdict /\ s.tick = run[r].tick
          /\ \/ s.doc = run[r].doc \/ s.doc = None
             \/ entitled /\ s.doc.expires = time + Grace
    <3>1. [issued |-> time, expires |-> time + Grace] \in Doc
      BY <1>1, AgentBounds DEF Doc
    <3>2. ASSUME NEW a \in Answer, NEW d \in Doc \cup {None}, a = "ACTIVE" => d # None,
                 d = None \/ (entitled /\ d.expires = time + Grace),
                 run' = [run EXCEPT ![r] =
                           [run[r] EXCEPT !.phase = "reply", !.answer = a, !.doc = d]]
          PROVE  \E s \in Run :
                   /\ run' = [run EXCEPT ![r] = s] /\ s.phase \in {"reply", "settle"}
                   /\ s.seen = run[r].seen
                   /\ s.answer = "ACTIVE" => s.doc # None
                   /\ s.verdict = run[r].verdict /\ s.tick = run[r].tick
                   /\ \/ s.doc = run[r].doc \/ s.doc = None
                      \/ entitled /\ s.doc.expires = time + Grace
      <4> DEFINE s == [run[r] EXCEPT !.phase = "reply", !.answer = a, !.doc = d]
      <4>1. s \in Run /\ s.phase = "reply" /\ s.answer = a /\ s.doc = d /\ s.seen = run[r].seen
            /\ s.verdict = run[r].verdict /\ s.tick = run[r].tick
        BY <1>1 DEF Phase, Run
      <4> QED
        BY <3>2, <4>1
    <3>3. ASSUME NEW a \in {"LOST", "DENIED"},
                 run' = [run EXCEPT ![r] = [run[r] EXCEPT !.phase = "settle", !.answer = a]]
          PROVE  \E s \in Run :
                   /\ run' = [run EXCEPT ![r] = s] /\ s.phase \in {"reply", "settle"}
                   /\ s.seen = run[r].seen
                   /\ s.answer = "ACTIVE" => s.doc # None
                   /\ s.verdict = run[r].verdict /\ s.tick = run[r].tick
                   /\ \/ s.doc = run[r].doc \/ s.doc = None
                      \/ entitled /\ s.doc.expires = time + Grace
      <4> DEFINE s == [run[r] EXCEPT !.phase = "settle", !.answer = a]
      <4>1. a \in Answer
        BY DEF Answer
      <4>2. s \in Run /\ s.phase = "settle" /\ s.answer = a /\ s.seen = run[r].seen
            /\ s.verdict = run[r].verdict /\ s.tick = run[r].tick /\ s.doc = run[r].doc
        BY <1>1, <4>1 DEF Phase, Run
      <4> QED
        BY <3>3, <4>2
    <3> QED
      <4> DEFINE d == [issued |-> time, expires |-> time + Grace]
      <4>1. d \in Doc /\ d # None /\ d.expires = time + Grace
        BY <3>1, NoneIsNothing
      <4> HIDE DEF d
      <4>2. CASE entitled /\ run' = [run EXCEPT ![r] =
                   [run[r] EXCEPT !.phase = "reply", !.answer = "ACTIVE", !.doc = d]]
        BY <3>2, <4>1, <4>2 DEF Answer
      <4>3. CASE run' = [run EXCEPT ![r] =
                   [run[r] EXCEPT !.phase = "reply", !.answer = "INACTIVE", !.doc = None]]
        BY <3>2, <4>3 DEF Answer
      <4>4. CASE \E a \in {"LOST", "DENIED"} :
                   run' = [run EXCEPT ![r] = [run[r] EXCEPT !.phase = "settle", !.answer = a]]
        BY <3>3, <4>4
      <4> QED
        BY <1>6, <4>2, <4>3, <4>4, SubmitShape DEF d
  <2>2. PICK s \in Run :
          /\ run' = [run EXCEPT ![r] = s] /\ s.phase \in {"reply", "settle"}
          /\ s.seen = run[r].seen
          /\ s.answer = "ACTIVE" => s.doc # None
          /\ s.verdict = run[r].verdict /\ s.tick = run[r].tick
          /\ \/ s.doc = run[r].doc \/ s.doc = None
             \/ entitled /\ s.doc.expires = time + Grace
    BY <2>1
  <2>3. s.seen = cache
    BY <1>6, <2>2, SubmitShape DEF IInv, SeenIsCache, Deciding
  <2>4. UNCHANGED <<time, clock, entitled, withdrawn, network, jumps, cache, status, lock, kills>>
    BY <1>6, SubmitShape
  <2>9. Becomes(r, s)
    BY <1>1, <1>3, <2>2, <2>3, <2>4 DEF Becomes
  <2>10. Effect(r, s)
    BY <2>2, <2>4 DEF Effect, Deciding
  <2> QED
    BY <2>2, <2>4, <1>2, <2>9, <2>10
<1>7. CASE SettleActive(r) \/ SettleDenied(r) \/ SettleOffline(r) \/ SettleUnavailable(r)
  <2>1. PICK v \in Doc \cup {None} :
          /\ run' = [run EXCEPT ![r] = [run[r] EXCEPT !.phase = "report", !.verdict = v]]
          /\ \/ /\ v = run[r].doc
                /\ cache' = [doc |-> v, denied |-> FALSE, last |-> run[r].tick]
             \/ /\ v = None
                /\ cache' = [doc |-> None, denied |-> TRUE, last |-> run[r].tick]
             \/ /\ v = cache.doc
                /\ cache' = [doc |-> v, denied |-> FALSE, last |-> run[r].tick]
             \/ v = None /\ cache' = cache
    BY <1>7, SettleShape
  <2>2. cache' \in Cache
    <3>1. run[r].tick \in Nat
      BY <1>1 DEF Run
    <3>2. \A d \in Doc \cup {None}, b \in BOOLEAN :
            [doc |-> d, denied |-> b, last |-> run[r].tick] \in Cache
      BY <3>1 DEF Cache
    <3> QED
      BY <1>1, <2>1, <3>2
  <2>3. UNCHANGED <<time, clock, entitled, withdrawn, network, jumps, status, lock, kills>>
    BY <1>7, SettleShape
  <2> DEFINE s == [run[r] EXCEPT !.phase = "report", !.verdict = v]
  <2>4. s \in Run /\ s.phase = "report" /\ s.answer = run[r].answer /\ s.doc = run[r].doc
        /\ s.verdict = v /\ s.tick = run[r].tick /\ s.seen = run[r].seen
    BY <1>1 DEF Phase, Run
  <2> HIDE DEF s
  <2>5. run' = [run EXCEPT ![r] = s]
    BY <2>1 DEF s
  <2>9. Becomes(r, s)
    BY <1>1, <1>3, <2>2, <2>3, <2>4, <2>5 DEF Becomes, IInv, ActiveHasDocument, Deciding
  <2>10. Effect(r, s)
    BY <2>1, <2>3, <2>4 DEF Effect
  <2> QED
    BY <2>1, <2>4, <1>2, <2>9, <2>10
<1>8. CASE Report(r)
  <2>1. /\ run' = [run EXCEPT ![r] = Idle] /\ lock' = None /\ status' = ReportOf(r)
        /\ UNCHANGED <<time, clock, entitled, withdrawn, network, jumps, cache, kills>>
    BY <1>3, <1>8 DEF Report, world
  <2>2. ReportOf(r) \in Status
    BY <1>1 DEF ReportOf, Status, Run, Doc
  <2>3. Idle.phase = "idle" /\ Idle.answer = "NONE"
    BY DEF Idle
  <2>9. Becomes(r, Idle)
    BY <1>1, <1>3, <2>1, <2>2, <2>3, IdleTyped DEF Becomes, Deciding
  <2>10. Effect(r, Idle)
    BY <1>8, <2>1, IdleTyped DEF Effect, Report
  <2> QED
    BY <2>1, <1>2, <2>9, <2>10, IdleTyped
<1> QED
  BY <1>2, <1>4, <1>5, <1>6, <1>7, <1>8 DEF Step

LEMMA IInvStep ==
    ASSUME IInv, NEW r \in Runs, Step(r)
    PROVE  IInv'
  BY StepEffect, RunKeepsLock

LEMMA KillBecomes ==
    ASSUME IInv, NEW r \in Runs, Kill(r)
    PROVE  Becomes(r, Idle)
<1>1. lock = r /\ \A q \in Runs : q # r => run[q].phase = "idle"
  BY OthersIdle DEF IInv, Exclusive, Kill
<1>2. /\ run' = [run EXCEPT ![r] = Idle] /\ lock' = None /\ kills' = kills + 1
      /\ UNCHANGED <<time, clock, entitled, withdrawn, network, jumps, cache, status>>
  BY <1>1 DEF Kill, world
<1>3. Idle.phase = "idle" /\ Idle.answer = "NONE"
  BY DEF Idle
<1>4. kills' \in Nat /\ cache' \in Cache /\ status' \in Status
  BY <1>2 DEF IInv, TypeOK
<1> QED
  BY <1>1, <1>2, <1>3, <1>4, IdleTyped DEF Becomes, Deciding

LEMMA IInvKill ==
    ASSUME IInv, NEW r \in Runs, Kill(r)
    PROVE  IInv'
  BY KillBecomes, RunKeepsLock, IdleTyped

LEMMA IInvNext == IInv /\ [Next]_vars => IInv'
  BY IInvWorld, IInvStart, IInvStep, IInvKill DEF Next

\* The files of the agent, its lock and its runs keep their types
\* (device-registration/client.py).
THEOREM AgentTypes == Spec => []TypeOK
<1>1. IInv => TypeOK
  BY DEF IInv
<1> QED
  BY IInvInit, IInvNext, <1>1, PTL DEF Spec

LEMMA LockInvariant == Spec => []IInv
  BY IInvInit, IInvNext, PTL DEF Spec

\* A document comes back after a denial only with a new answer of the server: neither
\* an outage nor an overlapping or killed run restores what a denial erased, however
\* the clock jumps (client.py synchronize() under agent.lock).
THEOREM DenialsStick == Spec => DenialSticks
<1>1. ASSUME IInv, [Next]_vars, cache.denied, ~cache'.denied
      PROVE  \E r \in Runs : /\ run[r].phase = "settle" /\ run[r].answer = "ACTIVE"
                             /\ cache'.doc = run[r].doc
  <2>1. cache' # cache
    BY <1>1
  <2>2. PICK r \in Runs :
          SettleActive(r) \/ SettleDenied(r) \/ SettleOffline(r) \/ SettleUnavailable(r)
    BY <1>1, <2>1
       DEF Next, Step, vars, world, server, Tick, CorrectClock, Entitle, Withdraw, SetClock,
           NetworkChanges, Start, Kill, Prompted, Enroll, Challenge, Submit, Reply, Report
  <2>3. run[r].phase = "settle"
    BY <1>1, <2>2, SettleShape
  <2>4. PICK v \in Doc \cup {None} :
          \/ /\ run[r].answer = "ACTIVE" /\ v = run[r].doc
             /\ cache' = [doc |-> v, denied |-> FALSE, last |-> run[r].tick]
          \/ cache' = [doc |-> None, denied |-> TRUE, last |-> run[r].tick]
          \/ ~cache.denied
          \/ cache' = cache
    BY <1>1, <2>2, SettleShape
  <2> QED
    BY <1>1, <2>1, <2>3, <2>4
<1>2. IInv /\ [Next]_vars =>
        [cache.denied /\ ~cache'.denied =>
           \E r \in Runs : /\ run[r].phase = "settle" /\ run[r].answer = "ACTIVE"
                            /\ cache'.doc = run[r].doc]_vars
  BY <1>1
<1> QED
  BY LockInvariant, <1>2, PTL DEF Spec, DenialSticks

-----------------------------------------------------------------------------
(* The two bounds, while nobody sets the clock.  The documents of the run  *)
(* that moves come from the cache, from the run itself or from the server  *)
(* at this moment; its times from its own start.                           *)

\* The grace never gets shorter: a withdrawal counts it anew.
LEMMA WithinLasts ==
    ASSUME TypeOK, NEW e \in Nat, Within(e),
           \/ UNCHANGED <<time, entitled, withdrawn>>
           \/ Tick \/ Entitle \/ Withdraw
    PROVE  e <= time' + Grace /\ (~entitled' => e <= withdrawn' + Grace)
  BY AgentBounds DEF TypeOK, Within, Tick, Entitle, Withdraw

LEMMA ClockInit == ASSUME Init PROVE ClockInv
<1>1. \A r \in Runs : run[r] = Idle
  BY DEF Init
<1>2. Idle.phase = "idle" /\ Idle.doc = None /\ Idle.verdict = None /\ Idle.seen.doc = None
      /\ Idle.tick = 0
  BY DEF Idle, NoCache
<1>3. cache.doc = None /\ ~cache.denied /\ ~status.authorized /\ status.checked = 0
  BY DEF Init, NoCache, NoStatus
<1>4. jumps = 0 /\ clock = 0 /\ time = 0
  BY DEF Init
<1> QED
  BY <1>1, <1>2, <1>3, <1>4 DEF ClockInv, DocumentsEnd, ReportsOrdered

\* Without SetClock the local clock is the server's and moves with it.
LEMMA ClockWorld ==
    ASSUME jumps' = 0, IInv, ClockInv,
           \/ Tick \/ CorrectClock \/ Entitle \/ Withdraw \/ UNCHANGED vars
           \/ \E v \in 0..MaxClock : SetClock(v)
           \/ \E n \in {"up", "failing", "down"} : NetworkChanges(n)
    PROVE  ClockInv'
<1>1. /\ UNCHANGED <<cache, status, run>>
      /\ jumps' = 0 /\ clock' = time' /\ clock \in Nat /\ clock' \in Nat /\ clock <= clock'
      /\ \/ UNCHANGED <<time, entitled, withdrawn>>
         \/ Tick \/ Entitle \/ Withdraw
  BY DEF ClockInv, IInv, TypeOK, Tick, CorrectClock, Entitle, Withdraw, SetClock,
         NetworkChanges, server, vars
<1> DEFINE Still(e) == e <= time' + Grace /\ (~entitled' => e <= withdrawn' + Grace)
<1>2. \A e \in Nat : Within(e) => Still(e)
  BY <1>1, WithinLasts DEF IInv
<1> HIDE DEF Still
<1>3. DocumentsEnd'
  <2>1. /\ cache.doc # None => cache.doc.expires \in Nat
        /\ status.expires \in Nat
        /\ \A r \in Runs :
             /\ run[r].doc # None => run[r].doc.expires \in Nat
             /\ run[r].verdict # None => run[r].verdict.expires \in Nat
             /\ run[r].seen.doc # None => run[r].seen.doc.expires \in Nat
    BY DEF IInv, TypeOK, Cache, Status, Run, Doc
  <2>2. /\ cache.doc # None => Still(cache.doc.expires)
        /\ status.authorized => Still(status.expires)
    BY <1>2, <2>1 DEF ClockInv, DocumentsEnd
  <2>3. ASSUME NEW r \in Runs
        PROVE  /\ run[r].doc # None => Still(run[r].doc.expires)
               /\ run[r].verdict # None => Still(run[r].verdict.expires)
               /\ run[r].seen.doc # None => Still(run[r].seen.doc.expires)
    BY <1>2, <2>1 DEF ClockInv, DocumentsEnd
  <2> QED
    BY <1>1, <2>2, <2>3 DEF DocumentsEnd, Within, Still
<1>4. ReportsOrdered'
  <2>1. status.checked \in Nat /\ \A r \in Runs : run[r].tick \in Nat
    BY DEF IInv, TypeOK, Status, Run
  <2> QED
    BY <1>1, <2>1 DEF ClockInv, ReportsOrdered
<1> QED
  BY <1>1, <1>3, <1>4 DEF ClockInv

\* What one run has to respect for the bounds to survive.
Dated(s) ==
    /\ s.doc # None => Within(s.doc.expires)
    /\ s.verdict # None => Within(s.verdict.expires)
    /\ s.seen.doc # None => Within(s.seen.doc.expires)
    /\ cache'.doc # None => Within(cache'.doc.expires)
    /\ status'.authorized => Within(status'.expires)
    /\ status'.checked <= clock /\ s.tick <= clock
    /\ s.phase # "idle" => status'.checked <= s.tick
    /\ s.phase = "report" /\ s.verdict # None => ~cache'.denied
    /\ status'.authorized /\ cache'.denied => status'.checked <= cache'.last

LEMMA RunKeepsClock ==
    ASSUME IInv, ClockInv, NEW r \in Runs, NEW s \in Run, Becomes(r, s), Dated(s)
    PROVE  ClockInv'
<1>1. /\ run'[r] = s
      /\ \A q \in Runs : q # r => run'[q] = run[q] /\ run[q].phase = "idle"
  BY After DEF IInv, TypeOK, Becomes
<1>2. jumps' = jumps /\ clock' = clock /\ time' = time /\ entitled' = entitled
      /\ withdrawn' = withdrawn
  BY DEF Becomes
<1>3. \A e : Within(e)' <=> Within(e)
  BY <1>2 DEF Within
<1>4. DocumentsEnd'
  <2>1. (cache.doc # None => Within(cache.doc.expires))'
    BY <1>2 DEF Dated, Within
  <2>2. (status.authorized => Within(status.expires))'
    BY <1>2 DEF Dated, Within
  <2>3. ASSUME NEW q \in Runs
        PROVE  /\ run'[q].doc # None => Within(run'[q].doc.expires)
               /\ run'[q].verdict # None => Within(run'[q].verdict.expires)
               /\ run'[q].seen.doc # None => Within(run'[q].seen.doc.expires)
    BY <1>1 DEF ClockInv, DocumentsEnd, Dated
  <2> QED
    BY <1>2, <2>1, <2>2, <2>3 DEF DocumentsEnd, Within
<1>5. ReportsOrdered'
  BY <1>1, <1>2 DEF ClockInv, ReportsOrdered, Dated
<1> QED
  BY <1>2, <1>4, <1>5 DEF ClockInv

LEMMA ClockStart ==
    ASSUME IInv, ClockInv, NEW r \in Runs, NEW token \in BOOLEAN, Start(r, token)
    PROVE  ClockInv'
<1> DEFINE s == [Idle EXCEPT !.phase = IF token THEN "prompt" ELSE "enroll",
                             !.token = token, !.tick = clock, !.seen = cache]
<1>1. /\ s \in Run /\ s.seen = cache /\ s.answer = "NONE" /\ s.phase \in {"prompt", "enroll"}
      /\ s.doc = None /\ s.verdict = None /\ s.tick = clock
  BY IdleTyped DEF IInv, TypeOK, Phase, Idle
<1>2. /\ run' = [run EXCEPT ![r] = s] /\ lock' = r
      /\ UNCHANGED <<time, clock, entitled, withdrawn, network, jumps, cache, status, kills>>
  BY DEF Start, world
<1>3. cache' \in Cache /\ status' \in Status /\ kills' \in Nat /\ clock \in Nat
  BY <1>2 DEF IInv, TypeOK
<1>4. \A q \in Runs : q # r => run[q].phase = "idle"
  BY OthersIdle DEF Start
<1> HIDE DEF s
<1>5. Becomes(r, s)
  BY <1>1, <1>2, <1>3, <1>4 DEF Becomes
<1>6. Dated(s)
  BY <1>1, <1>2, <1>3 DEF Dated, ClockInv, DocumentsEnd, ReportsOrdered
<1> QED
  BY <1>1, <1>5, <1>6, RunKeepsClock

LEMMA ClockKill ==
    ASSUME IInv, ClockInv, NEW r \in Runs, Kill(r)
    PROVE  ClockInv'
<1>1. Becomes(r, Idle)
  BY KillBecomes
<1>2. Idle.phase = "idle" /\ Idle.doc = None /\ Idle.verdict = None /\ Idle.seen.doc = None
      /\ Idle.tick = 0
  BY DEF Idle, NoCache
<1>3. UNCHANGED <<cache, status>> /\ clock \in Nat
  BY DEF Kill, IInv, TypeOK
<1>4. Dated(Idle)
  BY <1>2, <1>3 DEF Dated, ClockInv, DocumentsEnd, ReportsOrdered
<1> QED
  BY <1>1, <1>4, RunKeepsClock, IdleTyped

LEMMA ClockStep ==
    ASSUME IInv, ClockInv, NEW r \in Runs, Step(r)
    PROVE  ClockInv'
<1>1. PICK s \in Run : Becomes(r, s) /\ Effect(r, s)
  BY StepEffect
<1>2. run[r].phase # "idle"
  BY StepEffect
<1>3. /\ time \in Nat /\ clock \in Nat /\ clock = time /\ status.checked \in Nat
      /\ run[r].tick \in Nat /\ s.tick \in Nat
      /\ status.checked <= run[r].tick /\ run[r].tick <= clock
  BY <1>2 DEF IInv, TypeOK, ClockInv, ReportsOrdered, Status, Run
<1>4. /\ run[r].doc # None => Within(run[r].doc.expires)
      /\ run[r].verdict # None => Within(run[r].verdict.expires)
      /\ run[r].seen.doc # None => Within(run[r].seen.doc.expires)
      /\ cache.doc # None => Within(cache.doc.expires)
      /\ status.authorized => Within(status.expires)
      /\ run[r].phase = "report" /\ run[r].verdict # None => ~cache.denied
      /\ status.authorized /\ cache.denied => status.checked <= cache.last
  BY DEF ClockInv, DocumentsEnd, ReportsOrdered
<1>5. CASE s.phase \in Deciding /\ UNCHANGED <<cache, status>>
  <2>1. /\ s.verdict = run[r].verdict
        /\ \/ s.tick = run[r].tick /\ s.seen = run[r].seen
           \/ s.tick = clock /\ s.seen = cache
        /\ \/ s.doc = run[r].doc \/ s.doc = None
           \/ entitled /\ s.doc.expires = time + Grace
    BY <1>1, <1>5 DEF Effect, Deciding, Idle
  <2>2. s.doc # None => Within(s.doc.expires)
    BY <1>3, <1>4, <2>1, AgentBounds DEF Within
  <2>3. s.phase # "report"
    BY <1>5 DEF Deciding
  <2>4. Dated(s)
    BY <1>3, <1>4, <1>5, <2>1, <2>2, <2>3 DEF Dated
  <2> QED
    BY <1>1, <2>4, RunKeepsClock
<1>6. CASE s.phase = "report"
  <2>1. /\ s.tick = run[r].tick /\ s.seen = run[r].seen /\ s.doc = run[r].doc
        /\ status' = status
        /\ \/ /\ s.verdict = run[r].doc
              /\ cache' = [doc |-> s.verdict, denied |-> FALSE, last |-> s.tick]
           \/ /\ s.verdict = None
              /\ cache' = [doc |-> None, denied |-> TRUE, last |-> s.tick]
           \/ /\ s.verdict = cache.doc
              /\ cache' = [doc |-> s.verdict, denied |-> FALSE, last |-> s.tick]
           \/ s.verdict = None /\ cache' = cache
    BY <1>1, <1>6 DEF Effect, Deciding, Idle
  <2>2. s.verdict # None => Within(s.verdict.expires)
    BY <1>4, <2>1
  <2>3. cache'.doc # None => Within(cache'.doc.expires)
    BY <1>4, <2>1, <2>2
  <2>4. s.verdict # None => ~cache'.denied
    BY <2>1
  <2>5. status.authorized /\ cache'.denied => status.checked <= cache'.last
    BY <1>3, <1>4, <2>1
  <2>6. Dated(s)
    BY <1>3, <1>4, <1>6, <2>1, <2>2, <2>3, <2>4, <2>5 DEF Dated
  <2> QED
    BY <1>1, <2>6, RunKeepsClock
<1>7. CASE run[r].phase = "report" /\ s = Idle /\ status' = ReportOf(r) /\ UNCHANGED cache
  <2>1. Idle.phase = "idle" /\ Idle.doc = None /\ Idle.verdict = None /\ Idle.seen.doc = None
        /\ Idle.tick = 0
    BY DEF Idle, NoCache
  <2>2. /\ status'.checked = run[r].tick
        /\ status'.authorized <=> run[r].verdict # None
        /\ run[r].verdict # None => status'.expires = run[r].verdict.expires
    BY <1>7 DEF ReportOf
  <2>3. Dated(s)
    BY <1>3, <1>4, <1>7, <2>1, <2>2 DEF Dated
  <2> QED
    BY <1>1, <2>3, RunKeepsClock
<1> QED
  BY <1>1, <1>5, <1>6, <1>7 DEF Effect

\* A clock that was set remains set.
LEMMA UntouchedBefore ==
    ASSUME IInv, [Next]_vars, jumps' = 0
    PROVE  jumps = 0
<1>1. ASSUME NEW r \in Runs, Step(r) PROVE jumps' = jumps
  BY <1>1, StepEffect DEF Becomes
<1>2. ASSUME NEW r \in Runs, Kill(r) PROVE jumps' = jumps
  BY <1>2, KillBecomes DEF Becomes
<1>3. ASSUME NEW r \in Runs, NEW token \in BOOLEAN, Start(r, token) PROVE jumps' = jumps
  BY <1>3 DEF Start, world
<1>4. ASSUME \/ Tick \/ CorrectClock \/ Entitle \/ Withdraw \/ UNCHANGED vars
             \/ \E n \in {"up", "failing", "down"} : NetworkChanges(n)
      PROVE  jumps' = jumps
  BY <1>4 DEF Tick, CorrectClock, Entitle, Withdraw, NetworkChanges, vars
<1>5. ASSUME NEW v \in 0..MaxClock, SetClock(v) PROVE jumps' # 0
  BY <1>5 DEF SetClock, IInv, TypeOK
<1> QED
  BY <1>1, <1>2, <1>3, <1>4, <1>5 DEF Next

\* As long as the clock is left alone, the bounds are an invariant.
LEMMA ClockInvariant == Spec => [](jumps = 0 => ClockInv)
<1>1. Init => (jumps = 0 => ClockInv)
  BY ClockInit
<1>2. IInv /\ (jumps = 0 => ClockInv) /\ [Next]_vars => (jumps = 0 => ClockInv)'
  <2> SUFFICES ASSUME IInv, jumps = 0 => ClockInv, [Next]_vars, jumps' = 0
               PROVE  ClockInv'
    OBVIOUS
  <2>1. ClockInv
    BY UntouchedBefore
  <2> QED
    BY <2>1, ClockWorld, ClockStart, ClockStep, ClockKill DEF Next
<1> QED
  BY <1>1, <1>2, LockInvariant, PTL DEF Spec

\* Until somebody sets the clock, a device whose entitlement was withdrawn loses its
\* authority within the offline grace, whatever is lost, killed or repeated
\* (client.py run(), backend services/registration.py).
THEOREM AuthorityEnds == Spec => []AuthorityEndsWithGrace
<1>1. IInv /\ (jumps = 0 => ClockInv) => AuthorityEndsWithGrace
  BY AgentBounds DEF IInv, TypeOK, Status, ClockInv, DocumentsEnd, Within,
     AuthorityEndsWithGrace, Authorized
<1> QED
  BY <1>1, LockInvariant, ClockInvariant, PTL

\* A denial that a killed run recorded but did not report ends the authority as soon as
\* the previous report is stale (client.py run(), status.json read by the backend).
THEOREM DenialEndsAuthority == Spec => []DenialReachesBackend
<1>1. IInv /\ (jumps = 0 => ClockInv) => DenialReachesBackend
  BY AgentBounds DEF IInv, TypeOK, Status, Cache, ClockInv, ReportsOrdered,
     DenialReachesBackend, Authorized, Fresh
<1> QED
  BY <1>1, LockInvariant, ClockInvariant, PTL
=============================================================================
