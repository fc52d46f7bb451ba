------------------------ MODULE WireGuardPeersProofs ------------------------
(***************************************************************************)
(* For any devices, keys, pool, grants and number of crashes: no two keys  *)
(* ever have the same address, in a copy or across the three copies.       *)
(*                                                                         *)
(* That is not inductive by itself: a transaction writes an address it     *)
(* chose three steps ago, and an undo puts back a copy it made then.  The  *)
(* invariant therefore counts what the transaction may still write         *)
(* (Pending) as taken.  Only a new peer adds to what is taken, and its     *)
(* address is free in all three copies; every other step moves an address  *)
(* from one place to another.                                              *)
(***************************************************************************)
EXTENDS WireGuardPeers, FiniteSetTheorems, TLAPS

-----------------------------------------------------------------------------
(* Types.                                                                  *)

\* The transaction keeps its type when it changes phase.
LEMMA PhaseTyped ==
    ASSUME NEW c \in Change, NEW p \in Phase
    PROVE  /\ [c EXCEPT !.phase = p] \in Change
           /\ [c EXCEPT !.phase = p].by = c.by
           /\ \A t \in BOOLEAN : [c EXCEPT !.phase = p, !.touched = t] \in Change
  BY DEF Change

\* A copy with an address set or taken away is a copy.
LEMMA WithTyped ==
    ASSUME NEW copy \in Peers, NEW k \in Keys, NEW a \in Addresses \cup {None}
    PROVE  [copy EXCEPT ![k] = a] \in Peers
  BY DEF Peers

\* What a running transaction consists of.
LEMMA ChangeTyped ==
    ASSUME TypeOK, change # None
    PROVE  /\ change \in Change
           /\ change.phase \in Phase /\ change.touched \in BOOLEAN
           /\ change.device \in Devices /\ change.key \in Keys
           /\ change.address \in Addresses \cup {None}
           /\ change.by \in Leases \cup {None}
           /\ change.conf \in Peers /\ change.live \in Peers /\ change.registry \in Registry
  BY DEF TypeOK, Change

\* A new transaction has its type.
LEMMA BeginTyped ==
    ASSUME TypeOK, NEW d \in Devices, NEW k \in Keys, NEW a \in Addresses \cup {None},
           NEW l \in Leases \cup {None}, Begin(d, k, a, l)
    PROVE  change' \in Change
  BY DEF Begin, Change, TypeOK, Phase

\* A grant's process keeps its type when the transaction ends.
LEMMA ResumesTyped ==
    ASSUME TypeOK, TransactionServed, change # None, NEW p, Resumes(p)
    PROVE  /\ serve' \in [Leases -> Serve \cup {None}]
           /\ \A l \in Leases : serve'[l] # None => serve[l] # None
           /\ \A l \in Leases : l # change.by => serve'[l] = serve[l]
<1>1. CASE change.by = None
  BY <1>1 DEF Resumes, TypeOK
<1>2. CASE change.by # None
  <2>1. /\ change.by \in Leases
        /\ serve[change.by] \in Serve /\ serve[change.by] # None
    BY <1>2, ChangeTyped DEF TransactionServed, Serving, TypeOK
  <2>2. PICK l \in Leases : l = change.by
    BY <2>1
  <2>3. [serve[l] EXCEPT !.phase = "complete"] \in Serve
    BY <2>1, <2>2 DEF Serve
  <2>4. PICK after \in Serve \cup {None} : serve' = [serve EXCEPT ![l] = after]
    <3>1. CASE p = "complete"
      <4>1. serve' = [serve EXCEPT ![l] = [serve[l] EXCEPT !.phase = "complete"]]
        BY <1>2, <2>2, <3>1 DEF Resumes
      <4> QED
        BY <2>3, <4>1
    <3>2. CASE p # "complete"
      BY <1>2, <2>2, <3>2 DEF Resumes
    <3> QED
      BY <3>1, <3>2
  <2> QED
    BY <2>1, <2>2, <2>4, NoneIsNothing DEF TypeOK
<1> QED
  BY <1>1, <1>2

\* A grant whose state, key or expiry changes is a grant.
LEMMA GrantTyped ==
    ASSUME NEW g \in Grant
    PROVE  /\ [g EXCEPT !.expired = TRUE] \in Grant
           /\ [g EXCEPT !.state = "revoked"] \in Grant
           /\ [g EXCEPT !.state = "completed"] \in Grant
           /\ \A k \in Keys : [g EXCEPT !.key = k] \in Grant
  BY DEF Grant

\* A process that goes on is a process.
LEMMA ServeTyped ==
    ASSUME NEW s \in Serve, NEW p \in {"waiting", "bound", "add", "adding", "complete"}
    PROVE  [s EXCEPT !.phase = p] \in Serve /\ [s EXCEPT !.phase = p].phase = p
  BY DEF Serve
-----------------------------------------------------------------------------
(* Each step keeps the types, and the links between grants, processes and  *)
(* the transaction.                                                        *)

\* All of the invariant but the part about addresses.
Linked == TypeOK /\ GrantsExist /\ TransactionServed

\* The steps of a transaction.
LEMMA TransactionLinked == ASSUME Linked, Transaction PROVE Linked'
<1> USE DEF Linked, At
<1>1. ASSUME Then("registry") \/ Then("undo registry") \/ Then("live") \/ Then("undo live"),
             change # None
      PROVE  change' \in Change /\ change'.by = change.by
  <2>1. PICK p \in Phase : Then(p)
    BY <1>1 DEF Phase
  <2>2. change \in Change /\ change' = [change EXCEPT !.phase = p]
    BY <1>1, <2>1, ChangeTyped DEF Then
  <2> QED
    BY <2>2, PhaseTyped
<1>2. ASSUME UNCHANGED serve, UNCHANGED grants, change # None, change'.by = change.by
      PROVE  GrantsExist' /\ TransactionServed'
  BY <1>2 DEF GrantsExist, TransactionServed, Serving, grants
<1>3. ASSUME NEW p, Resumes(p), UNCHANGED grants, change # None, change' = None
      PROVE  /\ GrantsExist' /\ TransactionServed'
             /\ serve' \in [Leases -> Serve \cup {None}]
  BY <1>3, ResumesTyped DEF GrantsExist, TransactionServed, grants
<1>4. CASE WriteConfig
  <2>1. conf' \in Peers
    BY <1>4, ChangeTyped, WithTyped DEF WriteConfig, With, TypeOK
  <2> QED
    BY <1>1, <1>2, <1>4, <2>1 DEF WriteConfig, TypeOK, grants
<1>5. CASE WriteRegistry
  <2>1. registry' \in Registry
    <3>1. /\ change.device \in Devices
          /\ (IF change.address = None THEN None
              ELSE [key |-> change.key, address |-> change.address]) \in Peer \cup {None}
      BY <1>5, ChangeTyped DEF WriteRegistry, Peer
    <3> QED
      BY <1>5, <3>1 DEF WriteRegistry, Registry, TypeOK
  <2> QED
    BY <1>1, <1>2, <1>5, <2>1 DEF WriteRegistry, TypeOK, grants
<1>6. CASE SetLive
  <2>1. live' \in Peers
    BY <1>6, ChangeTyped, WithTyped DEF SetLive, With, TypeOK
  <2>2. made' \in [Leases -> SUBSET Keys]
    <3>1. change.key \in Keys /\ change.by \in Leases \cup {None}
      BY <1>6, ChangeTyped DEF SetLive
    <3> QED
      BY <1>6, <3>1 DEF SetLive, TypeOK
  <2> QED
    BY <1>3, <1>6, <2>1, <2>2 DEF SetLive, TypeOK, grants
<1>7. CASE StepFails
  <2>1. live' \in Peers
    BY <1>7, ChangeTyped, WithTyped DEF StepFails, With, TypeOK
  <2>2. change' \in Change /\ change'.by = change.by
    <3>1. (change.phase = "live") \in BOOLEAN
      OBVIOUS
    <3>2. change \in Change /\ "undo config" \in Phase
      BY <1>7, ChangeTyped DEF StepFails, Phase
    <3>3. change' = [change EXCEPT !.phase = "undo config", !.touched = (change.phase = "live")]
      BY <1>7 DEF StepFails
    <3>4. change' \in Change
      BY <3>1, <3>2, <3>3, PhaseTyped
    <3> QED
      BY <3>2, <3>3, <3>4 DEF Change
  <2> QED
    BY <1>2, <1>7, <2>1, <2>2 DEF StepFails, TypeOK, grants
<1>8. CASE UndoConfig
  <2>1. conf' \in Peers
    BY <1>8, ChangeTyped DEF UndoConfig
  <2> QED
    BY <1>1, <1>2, <1>8, <2>1 DEF UndoConfig, TypeOK, grants
<1>9. CASE UndoRegistry
  <2>1. registry' \in Registry
    BY <1>9, ChangeTyped DEF UndoRegistry
  <2>2. CASE change.touched
    BY <1>1, <1>2, <1>9, <2>1, <2>2 DEF UndoRegistry, TypeOK, grants
  <2>3. CASE ~change.touched
    BY <1>3, <1>9, <2>1, <2>3 DEF UndoRegistry, TypeOK, grants
  <2> QED
    BY <2>2, <2>3
<1>10. CASE UndoLive
  <2>1. live' \in Peers
    <3>1. change.live[change.key] \in Addresses \cup {None}
      BY <1>10, ChangeTyped DEF UndoLive, Peers
    <3> QED
      BY <1>10, <3>1, ChangeTyped, WithTyped DEF UndoLive, TypeOK
  <2> QED
    BY <1>3, <1>10, <2>1 DEF UndoLive, TypeOK, grants
<1>11. CASE UndoFails
  BY <1>3, <1>11, ChangeTyped DEF UndoFails, TypeOK, grants, peers
<1> QED
  BY <1>4, <1>5, <1>6, <1>7, <1>8, <1>9, <1>10, <1>11 DEF Transaction
\* A step of a grant's process other than the first and the last.
LEMMA GoesLinked ==
    ASSUME Linked, NEW l \in Leases, serve[l] # None, serve[l].phase # "adding",
           NEW p \in {"waiting", "bound", "add", "adding", "complete"}, Goes(l, p),
           login' = login, \A m \in Leases : grant[m] # None => grant'[m] # None
    PROVE  /\ serve' \in [Leases -> Serve \cup {None}]
           /\ serve'[l] # None /\ serve'[l].phase = p
           /\ GrantsExist'
           /\ change' = change => TransactionServed'
<1> DEFINE next == [serve[l] EXCEPT !.phase = p]
<1>1. serve[l] \in Serve
  BY DEF Linked, TypeOK
<1>2. next \in Serve /\ next.phase = p
  BY <1>1, ServeTyped
<1>3. serve' = [serve EXCEPT ![l] = next]
  BY DEF Goes
<1>4. next # None
  BY <1>2, NoneIsNothing
<1>5. /\ serve' \in [Leases -> Serve \cup {None}]
      /\ serve'[l] = next
      /\ \A m \in Leases : m # l => serve'[m] = serve[m]
  BY <1>2, <1>3 DEF Linked, TypeOK
<1>6. GrantsExist'
  BY <1>5 DEF Linked, GrantsExist, TypeOK
<1>7. ASSUME change' = change PROVE TransactionServed'
  BY <1>5, <1>7, ChangeTyped DEF Linked, TransactionServed, Serving
<1> QED
  BY <1>2, <1>4, <1>5, <1>6, <1>7

\* A process that ends outside a transaction made for it.
LEMMA EndsLinked ==
    ASSUME Linked, NEW l \in Leases, serve[l] # None, serve[l].phase # "adding", Ends(l),
           login' = login, change' = change,
           \A m \in Leases : grant[m] # None => grant'[m] # None
    PROVE  /\ serve' \in [Leases -> Serve \cup {None}]
           /\ GrantsExist' /\ TransactionServed'
<1>1. /\ serve' \in [Leases -> Serve \cup {None}]
      /\ serve'[l] = None
      /\ \A m \in Leases : m # l => serve'[m] = serve[m]
  BY DEF Ends, Linked, TypeOK
<1>2. GrantsExist'
  BY <1>1 DEF Linked, GrantsExist, TypeOK
<1>3. TransactionServed'
  BY <1>1, ChangeTyped DEF Linked, TransactionServed, Serving
<1> QED
  BY <1>1, <1>2, <1>3

\* A grant that exists changes and still exists.
LEMMA GrantChanges ==
    ASSUME Linked, NEW l \in Leases, NEW g \in Grant, grant' = [grant EXCEPT ![l] = g]
    PROVE  /\ grant' \in [Leases -> Grant \cup {None}]
           /\ \A m \in Leases : grant[m] # None => grant'[m] # None
           /\ grant'[l] # None
  BY NoneIsNothing DEF Linked, TypeOK

\* A new transaction for a grant's process, or for nobody's.
LEMMA BeginLinked ==
    ASSUME Linked, NEW d \in Devices, NEW k \in Keys, NEW a \in Addresses \cup {None},
           NEW l \in Leases \cup {None}, Begin(d, k, a, l),
           l # None => serve'[l] # None /\ serve'[l].phase = "adding"
    PROVE  change' \in Change /\ TransactionServed'
<1>1. change' \in Change /\ change'.by = l
  BY BeginTyped DEF Linked, Begin
<1> QED
  BY <1>1 DEF TransactionServed, Serving

\* The steps of a grant and of its process.
LEMMA EnrolmentLinked == ASSUME Linked, NEW l \in Leases, Enrolment(l) PROVE Linked'
<1> USE DEF peers, grants
<1>1. ASSUME NEW d \in Devices, Authorize(l, d) PROVE Linked'
  <2> DEFINE g == [state |-> "authorized", device |-> d, expired |-> FALSE, key |-> None]
  <2>1. g \in Grant
    BY DEF Grant
  <2>2. grant' = [grant EXCEPT ![l] = g]
    BY <1>1 DEF Authorize
  <2> HIDE DEF g
  <2>3. /\ grant' \in [Leases -> Grant \cup {None}]
        /\ \A m \in Leases : grant[m] # None => grant'[m] # None
        /\ grant'[l] # None
    BY <2>1, <2>2, GrantChanges
  <2>4. login' \subseteq Leases /\ \A m \in login' : grant'[m] # None
    BY <1>1, <2>3 DEF Authorize, Linked, TypeOK, GrantsExist
  <2> QED
    BY <1>1, <2>3, <2>4
    DEF Authorize, Linked, TypeOK, GrantsExist, TransactionServed, Serving
<1>2. CASE Expire(l)
  <2>1. grant[l] \in Grant
    BY <1>2 DEF Expire, Linked, TypeOK
  <2>2. grant' = [grant EXCEPT ![l] = [grant[l] EXCEPT !.expired = TRUE]]
    BY <1>2 DEF Expire
  <2>3. /\ grant' \in [Leases -> Grant \cup {None}]
        /\ \A m \in Leases : grant[m] # None => grant'[m] # None
    BY <2>1, <2>2, GrantTyped, GrantChanges
  <2> QED
    BY <1>2, <2>3 DEF Expire, Linked, TypeOK, GrantsExist, TransactionServed, Serving
<1>3. CASE Revoke(l)
  <2>1. grant[l] \in Grant
    BY <1>3 DEF Revoke, Linked, TypeOK
  <2>2. grant' = [grant EXCEPT ![l] = [grant[l] EXCEPT !.state = "revoked"]]
    BY <1>3 DEF Revoke
  <2>3. /\ grant' \in [Leases -> Grant \cup {None}]
        /\ \A m \in Leases : grant[m] # None => grant'[m] # None
    BY <2>1, <2>2, GrantTyped, GrantChanges
  <2>4. login' \subseteq login
    BY <1>3 DEF Revoke
  <2> QED
    BY <1>3, <2>3, <2>4
    DEF Revoke, Linked, TypeOK, GrantsExist, TransactionServed, Serving
<1>4. ASSUME NEW q \in Request, Login(l, q) PROVE Linked'
  <2> DEFINE s == [phase |-> "waiting", request |-> q]
  <2>1. s \in Serve
    BY DEF Serve
  <2>2. serve' = [serve EXCEPT ![l] = s]
    BY <1>4 DEF Login
  <2> HIDE DEF s
  <2>3. /\ serve' \in [Leases -> Serve \cup {None}]
        /\ \A m \in Leases : m # l => serve'[m] = serve[m]
    BY <2>1, <2>2 DEF Linked, TypeOK
  <2>4. TransactionServed'
    BY <1>4, <2>3, ChangeTyped DEF Login, Linked, TransactionServed, Serving
  <2>5. GrantsExist'
    BY <1>4, <2>3 DEF Login, Linked, GrantsExist
  <2> QED
    BY <1>4, <2>3, <2>4, <2>5 DEF Login, Linked, TypeOK
<1>5. CASE Bind(l)
  <2>1. /\ serve[l] # None /\ serve[l].phase = "waiting"
        /\ serve[l] \in Serve /\ grant[l] # None /\ grant[l] \in Grant
    BY <1>5 DEF Bind, Serving, Linked, GrantsExist, TypeOK
  <2>2. serve[l].request.key \in Keys
    BY <2>1 DEF Serve, Request
  <2>3. grant' = [grant EXCEPT ![l] = [grant[l] EXCEPT !.key = serve[l].request.key]]
    BY <1>5 DEF Bind
  <2>4. /\ grant' \in [Leases -> Grant \cup {None}]
        /\ \A m \in Leases : grant[m] # None => grant'[m] # None
    BY <2>1, <2>2, <2>3, GrantTyped, GrantChanges
  <2>5. /\ serve' \in [Leases -> Serve \cup {None}]
        /\ GrantsExist' /\ TransactionServed'
    BY <1>5, <2>1, <2>4, GoesLinked DEF Bind
  <2> QED
    BY <1>5, <2>4, <2>5 DEF Bind, Linked, TypeOK
<1>6. CASE Answer(l)
  <2>1. /\ serve' \in [Leases -> Serve \cup {None}]
        /\ GrantsExist' /\ TransactionServed'
    BY <1>6, EndsLinked DEF Answer, Serving
  <2> QED
    BY <1>6, <2>1 DEF Answer, Linked, TypeOK
<1>7. CASE Lookup(l)
  <2>1. /\ serve' \in [Leases -> Serve \cup {None}]
        /\ GrantsExist' /\ TransactionServed'
    <3>1. serve[l] # None /\ serve[l].phase = "bound"
      BY <1>7 DEF Lookup, Serving
    <3>2. Goes(l, "complete") \/ Goes(l, "add")
      BY <1>7 DEF Lookup
    <3> QED
      BY <1>7, <3>1, <3>2, GoesLinked DEF Lookup
  <2> QED
    BY <1>7, <2>1 DEF Lookup, Linked, TypeOK
<1>8. CASE GrantAdds(l)
  <2>1. /\ serve[l] # None /\ serve[l].phase = "add" /\ serve[l] \in Serve
    BY <1>8 DEF GrantAdds, Serving, Linked, TypeOK
  <2>2. serve[l].request \in Request
    BY <2>1 DEF Serve
  <2>3. /\ serve' \in [Leases -> Serve \cup {None}]
        /\ serve'[l] # None /\ serve'[l].phase = "adding" /\ GrantsExist'
    BY <1>8, <2>1, GoesLinked DEF GrantAdds
  <2>4. change' \in Change /\ TransactionServed'
    <3>1. PICK a \in Free : Begin(serve[l].request.device, serve[l].request.key, a, l)
      BY <1>8 DEF GrantAdds
    <3>2. /\ serve[l].request.device \in Devices /\ serve[l].request.key \in Keys
          /\ a \in Addresses
      BY <2>2 DEF Request, Free
    <3> QED
      BY <2>3, <3>1, <3>2, BeginLinked
  <2> QED
    BY <1>8, <2>3, <2>4 DEF GrantAdds, Linked, TypeOK
<1>9. CASE GrantRefused(l)
  <2>1. /\ serve' \in [Leases -> Serve \cup {None}]
        /\ GrantsExist' /\ TransactionServed'
    BY <1>9, EndsLinked DEF GrantRefused, Serving
  <2> QED
    BY <1>9, <2>1 DEF GrantRefused, Linked, TypeOK
<1>10. CASE Complete(l)
  <2>1. /\ serve[l] # None /\ serve[l].phase = "complete"
        /\ grant[l] # None /\ grant[l] \in Grant
    BY <1>10 DEF Complete, Serving, Linked, GrantsExist, TypeOK
  <2>2. grant' = [grant EXCEPT ![l] = [grant[l] EXCEPT !.state = "completed"]]
    BY <1>10 DEF Complete
  <2>3. /\ grant' \in [Leases -> Grant \cup {None}]
        /\ \A m \in Leases : grant[m] # None => grant'[m] # None
    BY <2>1, <2>2, GrantTyped, GrantChanges
  <2>4. /\ serve' \in [Leases -> Serve \cup {None}]
        /\ GrantsExist' /\ TransactionServed'
    BY <1>10, <2>1, <2>3, EndsLinked DEF Complete
  <2> QED
    BY <1>10, <2>3, <2>4 DEF Complete, Linked, TypeOK
<1> QED
  BY <1>1, <1>2, <1>3, <1>4, <1>5, <1>6, <1>7, <1>8, <1>9, <1>10 DEF Enrolment
\* A kill of one process and a reboot.
LEMMA CrashLinked ==
    ASSUME Linked, Reboot \/ \E l \in Leases \cup {None} : Kill(l)
    PROVE  Linked'
<1> USE DEF peers, grants
<1>1. Abandoned \subseteq Keys
  BY ChangeTyped DEF Abandoned, Linked
<1>2. CASE Reboot
  BY <1>1, <1>2 DEF Reboot, Linked, TypeOK, GrantsExist, TransactionServed
<1>3. ASSUME NEW l \in Leases \cup {None}, Kill(l) PROVE Linked'
  <2>1. /\ serve' \in [Leases -> Serve \cup {None}]
        /\ \A m \in Leases : serve'[m] # None => serve[m] # None
        /\ \A m \in Leases : m # l => serve'[m] = serve[m]
    BY <1>3, NoneIsNothing DEF Kill, Linked, TypeOK
  <2>2. GrantsExist'
    BY <1>3, <2>1 DEF Kill, Linked, GrantsExist
  <2>3. TransactionServed'
    BY <1>3, <2>1, ChangeTyped DEF Kill, Linked, TransactionServed, Serving
  <2> QED
    BY <1>1, <1>3, <2>1, <2>2, <2>3 DEF Kill, Linked, TypeOK
<1> QED
  BY <1>2, <1>3

\* Every step.
LEMMA LinkedStep == Linked /\ [Next]_vars => Linked'
<1> SUFFICES ASSUME Linked, [Next]_vars PROVE Linked'
  OBVIOUS
<1> USE DEF peers, grants
<1>1. ASSUME NEW q \in Request, Add(q) PROVE Linked'
  <2>1. PICK a \in Free : Begin(q.device, q.key, a, None)
    BY <1>1 DEF Add
  <2>2. q.device \in Devices /\ q.key \in Keys /\ a \in Addresses
    BY DEF Request, Free
  <2>3. change' \in Change /\ TransactionServed'
    BY <2>1, <2>2, BeginLinked
  <2> QED
    BY <1>1, <2>3 DEF Add, Linked, TypeOK, GrantsExist
<1>2. ASSUME NEW d \in Devices, Remove(d) PROVE Linked'
  <2>1. registry[d].key \in Keys
    BY <1>2 DEF Remove, Linked, TypeOK, Registry, Peer
  <2>2. Begin(d, registry[d].key, None, None)
    BY <1>2 DEF Remove
  <2>3. change' \in Change /\ TransactionServed'
    BY <2>1, <2>2, BeginLinked
  <2> QED
    BY <1>2, <2>3 DEF Remove, Linked, TypeOK, GrantsExist
<1>3. CASE UNCHANGED vars
  BY <1>3 DEF vars, Linked, TypeOK, GrantsExist, TransactionServed, Serving
<1> QED
  BY <1>1, <1>2, <1>3, TransactionLinked, EnrolmentLinked, CrashLinked DEF Next

\* At the start there is no grant and no transaction.
LEMMA LinkedInit == Init => Linked
  BY DEF Init, Linked, TypeOK, GrantsExist, TransactionServed, Registry

-----------------------------------------------------------------------------
(* One key per grant: what it accepted, is adding and has made.            *)

\* A process that only goes on, or a process that ends.
LEMMA ServeSteps ==
    ASSUME Linked, NEW l \in Leases, serve[l] # None,
           NEW p \in {"waiting", "bound", "add", "adding", "complete"}, Goes(l, p) \/ Ends(l)
    PROVE  /\ \A m \in Leases : m # l => serve'[m] = serve[m]
           /\ serve'[l] = None \/ (serve'[l].phase = p /\ serve'[l].request = serve[l].request)
<1>1. serve[l] \in Serve
  BY DEF Linked, TypeOK
<1>2. CASE Goes(l, p)
  <2> DEFINE next == [serve[l] EXCEPT !.phase = p]
  <2>1. serve' = [serve EXCEPT ![l] = next]
    BY <1>2 DEF Goes
  <2>2. next.phase = p /\ next.request = serve[l].request
    BY <1>1 DEF Serve
  <2> HIDE DEF next
  <2> QED
    BY <2>1, <2>2 DEF Linked, TypeOK
<1>3. CASE Ends(l)
  BY <1>3 DEF Ends, Linked, TypeOK
<1> QED
  BY <1>2, <1>3

\* The end of a transaction: its process goes on to complete the grant, or ends.
LEMMA ResumesBound ==
    ASSUME Linked, GrantsBound, change # None, NEW p \in {"complete", "failed"}, Resumes(p),
           grant' = grant, change' = None, \A l \in Leases : \A k \in made'[l] :
             k \in made[l] \/ (l = change.by /\ k = change.key)
    PROVE  GrantsBound'
<1>1. \A l \in Leases : serve'[l] # None =>
          /\ serve[l] # None /\ serve'[l].request = serve[l].request
          /\ serve'[l].phase = "waiting" => serve[l].phase = "waiting"
  <2>1. CASE change.by = None
    BY <2>1 DEF Resumes
  <2>2. CASE change.by # None
    <3>1. change.by \in Leases /\ serve[change.by] # None
      BY <2>2, ChangeTyped DEF Linked, TransactionServed, Serving
    <3>2. CASE p = "complete"
      <4>1. Goes(change.by, "complete")
        BY <2>2, <3>2 DEF Resumes, Goes
      <4> QED
        BY <3>1, <4>1, ServeSteps
    <3>3. CASE p # "complete"
      <4>1. Ends(change.by)
        BY <2>2, <3>3 DEF Resumes, Ends
      <4> QED
        BY <3>1, <4>1, ServeSteps
    <3> QED
      BY <3>2, <3>3
  <2> QED
    BY <2>1, <2>2
<1>2. \A l \in Leases : serve'[l] # None /\ serve'[l].phase # "waiting" =>
          grant[l].state # "revoked" /\ grant[l].key = serve'[l].request.key
  <2> SUFFICES ASSUME NEW l \in Leases, serve'[l] # None, serve'[l].phase # "waiting"
               PROVE  grant[l].state # "revoked" /\ grant[l].key = serve'[l].request.key
    OBVIOUS
  <2>1. CASE serve'[l] = serve[l]
    BY <2>1 DEF GrantsBound
  <2>2. CASE serve'[l] # serve[l]
    <3>1. l = change.by
      BY <2>2, ResumesTyped DEF Linked
    <3>2. serve[l].phase = "adding"
      BY <3>1, NoneIsNothing DEF Linked, TransactionServed, Serving
    <3> QED
      BY <1>1, <3>2 DEF GrantsBound
  <2> QED
    BY <2>1, <2>2
<1>3. \A l \in Leases : \A k \in made'[l] : grant[l] # None /\ grant[l].key = k
  <2> SUFFICES ASSUME NEW l \in Leases, l = change.by
               PROVE  grant[l] # None /\ grant[l].key = change.key
    BY DEF GrantsBound
  <2>1. serve[l] # None
    BY NoneIsNothing DEF Linked, TransactionServed, Serving
  <2> QED
    BY <2>1 DEF Linked, GrantsExist, GrantsBound
<1> QED
  BY <1>2, <1>3 DEF GrantsBound

\* A grant that changes without its key, and is not revoked under its process.
LEMMA KeyKept ==
    ASSUME Linked, GrantsBound, UNCHANGED <<change, made, serve>>,
           \A l \in Leases : grant[l] # None =>
               /\ grant'[l] # None /\ grant'[l].key = grant[l].key
               /\ grant'[l].state # grant[l].state => LeaseFree(l)
    PROVE  GrantsBound'
<1>1. \A l \in Leases : change # None /\ change.by = l => grant[l] # None
  BY NoneIsNothing DEF Linked, TransactionServed, Serving, GrantsExist
<1> QED
  BY <1>1 DEF Linked, GrantsExist, GrantsBound, LeaseFree

\* A process that goes on or ends without touching its grant.
LEMMA GoesBound ==
    ASSUME Linked, GrantsBound, NEW l \in Leases, UNCHANGED <<change, made, grant>>,
           serve[l] # None,
           Ends(l) \/ (serve[l].phase # "waiting" /\ (Goes(l, "complete") \/ Goes(l, "add")))
    PROVE  GrantsBound'
<1>1. /\ \A m \in Leases : m # l => serve'[m] = serve[m]
      /\ \/ serve'[l] = None
         \/ serve[l].phase # "waiting" /\ serve'[l].request = serve[l].request
  <2>1. CASE Ends(l)
    BY <2>1 DEF Ends, Linked, TypeOK
  <2>2. CASE serve[l].phase # "waiting" /\ (Goes(l, "complete") \/ Goes(l, "add"))
    BY <2>2, ServeSteps
  <2> QED
    BY <2>1, <2>2
<1> QED
  BY <1>1 DEF GrantsBound

\* Every step keeps a grant to one key.
LEMMA BoundStep == Linked /\ GrantsBound /\ [Next]_vars => GrantsBound'
<1> SUFFICES ASSUME Linked, GrantsBound, [Next]_vars PROVE GrantsBound'
  OBVIOUS
<1> USE DEF peers, grants
<1>1. ASSUME UNCHANGED <<grant, serve, made>>, change' = None \/ change'.by = None \/
               (change # None /\ change'.by = change.by /\ change'.key = change.key)
      PROVE  GrantsBound'
  BY <1>1, NoneIsNothing DEF GrantsBound
<1>2. ASSUME NEW q \in Request, Add(q) PROVE GrantsBound'
  BY <1>1, <1>2 DEF Add, Begin
<1>3. ASSUME NEW d \in Devices, Remove(d) PROVE GrantsBound'
  BY <1>1, <1>3 DEF Remove, Begin
<1>4. ASSUME Transaction PROVE GrantsBound'
  <2>1. change # None /\ change \in Change
    BY <1>4, ChangeTyped
    DEF Linked, Transaction, WriteConfig, WriteRegistry, SetLive, StepFails, UndoConfig,
        UndoRegistry, UndoLive, UndoFails, At
  <2>2. ASSUME UNCHANGED <<grant, serve, made>>, NEW p, Then(p) PROVE GrantsBound'
    BY <1>1, <2>1, <2>2 DEF Then, Change
  <2>3. ASSUME StepFails PROVE GrantsBound'
    BY <1>1, <2>1, <2>3 DEF StepFails, Change
  <2>4. ASSUME SetLive PROVE GrantsBound'
    <3>1. \A l \in Leases : \A k \in made'[l] : k \in made[l] \/ (l = change.by /\ k = change.key)
      BY <2>4 DEF SetLive, Linked, TypeOK
    <3> QED
      BY <2>1, <2>4, <3>1, ResumesBound DEF SetLive
  <2>5. ASSUME UndoRegistry PROVE GrantsBound'
    BY <2>1, <2>2, <2>5, ResumesBound DEF UndoRegistry
  <2>6. ASSUME UndoLive \/ UndoFails PROVE GrantsBound'
    BY <2>1, <2>6, ResumesBound DEF UndoLive, UndoFails
  <2> QED
    BY <1>4, <2>2, <2>3, <2>4, <2>5, <2>6 DEF Transaction, WriteConfig, WriteRegistry, UndoConfig
<1>5. ASSUME NEW l \in Leases, Enrolment(l) PROVE GrantsBound'
  <2>1. ASSUME NEW d \in Devices, Authorize(l, d) PROVE GrantsBound'
    <3>1. \A m \in Leases : m # l => grant'[m] = grant[m]
      BY <2>1 DEF Authorize, Linked, TypeOK
    <3>2. serve[l] = None /\ made[l] = {}
      BY <2>1 DEF Authorize, Linked, GrantsExist, GrantsBound
    <3>3. change # None => change.by # l
      BY <3>2, NoneIsNothing DEF Linked, TransactionServed, Serving
    <3> QED
      BY <2>1, <3>1, <3>2, <3>3 DEF Authorize, GrantsBound
  <2>2. ASSUME Expire(l) PROVE GrantsBound'
    <3>1. grant[l] \in Grant
      BY <2>2 DEF Expire, Linked, TypeOK
    <3> DEFINE g == [grant[l] EXCEPT !.expired = TRUE]
    <3>2. g.key = grant[l].key /\ g.state = grant[l].state /\ g \in Grant
      BY <3>1 DEF Grant
    <3>3. grant' = [grant EXCEPT ![l] = g]
      BY <2>2 DEF Expire
    <3> HIDE DEF g
    <3>4. \A m \in Leases : grant[m] # None =>
              grant'[m] # None /\ grant'[m].key = grant[m].key /\ grant'[m].state = grant[m].state
      BY <3>2, <3>3, NoneIsNothing DEF Linked, TypeOK
    <3> QED
      BY <2>2, <3>4, KeyKept DEF Expire
  <2>3. ASSUME Revoke(l) PROVE GrantsBound'
    <3>1. grant[l] \in Grant
      BY <2>3 DEF Revoke, Linked, TypeOK
    <3> DEFINE g == [grant[l] EXCEPT !.state = "revoked"]
    <3>2. g.key = grant[l].key /\ g \in Grant
      BY <3>1 DEF Grant
    <3>3. grant' = [grant EXCEPT ![l] = g]
      BY <2>3 DEF Revoke
    <3> HIDE DEF g
    <3>4. \A m \in Leases : grant[m] # None =>
              /\ grant'[m] # None /\ grant'[m].key = grant[m].key
              /\ grant'[m].state # grant[m].state => LeaseFree(m)
      BY <2>3, <3>2, <3>3, NoneIsNothing DEF Revoke, Linked, TypeOK
    <3> QED
      BY <2>3, <3>4, KeyKept DEF Revoke
  <2>4. ASSUME NEW q \in Request, Login(l, q) PROVE GrantsBound'
    <3>1. /\ \A m \in Leases : m # l => serve'[m] = serve[m]
          /\ serve'[l].phase = "waiting"
      BY <2>4 DEF Login, Linked, TypeOK
    <3> QED
      BY <2>4, <3>1 DEF Login, GrantsBound
  <2>5. ASSUME Bind(l) PROVE GrantsBound'
    <3> DEFINE k == serve[l].request.key
    <3>1. /\ serve[l] # None /\ serve[l].phase = "waiting"
          /\ grant[l] # None /\ grant[l] \in Grant /\ k \in Keys
          /\ grant[l].state = "authorized" /\ grant[l].key \in {None, k}
      BY <2>5 DEF Bind, Serving, Accepts, Linked, GrantsExist, TypeOK, Serve, Request
    <3> DEFINE g == [grant[l] EXCEPT !.key = k]
    <3>2. g.key = k /\ g.state = "authorized" /\ g # None
      BY <3>1, GrantTyped, NoneIsNothing DEF Grant
    <3>3. grant' = [grant EXCEPT ![l] = g]
      BY <2>5 DEF Bind
    <3>4. grant'[l] = g /\ \A m \in Leases : m # l => grant'[m] = grant[m]
      BY <3>3 DEF Linked, TypeOK
    <3>5. /\ \A m \in Leases : m # l => serve'[m] = serve[m]
          /\ serve'[l] # None => serve'[l].request = serve[l].request
      BY <2>5, <3>1, ServeSteps DEF Bind
    <3>6. change # None => change.by # l
      BY <3>1, NoneIsNothing DEF Linked, TransactionServed, Serving
    <3>7. \A j \in made[l] : j = k
      BY <3>1, NoneIsNothing DEF Linked, TypeOK, GrantsBound
    <3>8. change' = change /\ made' = made
      BY <2>5 DEF Bind
    <3> HIDE DEF g
    <3> QED
      BY <3>2, <3>4, <3>5, <3>6, <3>7, <3>8 DEF GrantsBound
  <2>6. ASSUME Answer(l) \/ GrantRefused(l) PROVE GrantsBound'
    BY <2>6, GoesBound DEF Answer, GrantRefused, Serving
  <2>7. ASSUME Lookup(l) PROVE GrantsBound'
    <3>1. serve[l] # None /\ serve[l].phase # "waiting" /\ (Goes(l, "complete") \/ Goes(l, "add"))
      BY <2>7 DEF Lookup, Serving
    <3> QED
      BY <2>7, <3>1, GoesBound DEF Lookup
  <2>8. ASSUME GrantAdds(l) PROVE GrantsBound'
    <3>1. serve[l] # None /\ serve[l].phase = "add"
      BY <2>8 DEF GrantAdds, Serving
    <3>2. /\ \A m \in Leases : m # l => serve'[m] = serve[m]
          /\ serve'[l] # None => serve'[l].request = serve[l].request
      BY <2>8, <3>1, ServeSteps DEF GrantAdds
    <3>3. change'.by = l /\ change'.key = serve[l].request.key
      BY <2>8 DEF GrantAdds, Begin
    <3> QED
      BY <2>8, <3>1, <3>2, <3>3 DEF GrantAdds, GrantsBound
  <2>9. ASSUME Complete(l) PROVE GrantsBound'
    <3>1. /\ serve[l] # None /\ serve[l].phase = "complete"
          /\ grant[l] # None /\ grant[l] \in Grant
      BY <2>9 DEF Complete, Serving, Linked, GrantsExist, TypeOK
    <3> DEFINE g == [grant[l] EXCEPT !.state = "completed"]
    <3>2. g.key = grant[l].key /\ g.state = "completed" /\ g # None
      BY <3>1, GrantTyped, NoneIsNothing DEF Grant
    <3>3. grant' = [grant EXCEPT ![l] = g]
      BY <2>9 DEF Complete
    <3>4. grant'[l] = g /\ \A m \in Leases : m # l => grant'[m] = grant[m]
      BY <3>3 DEF Linked, TypeOK
    <3>5. serve'[l] = None /\ \A m \in Leases : m # l => serve'[m] = serve[m]
      BY <2>9 DEF Complete, Ends, Linked, TypeOK
    <3> HIDE DEF g
    <3> QED
      BY <2>9, <3>1, <3>2, <3>4, <3>5 DEF Complete, GrantsBound
  <2> QED
    BY <1>5, <2>1, <2>2, <2>3, <2>4, <2>5, <2>6, <2>7, <2>8, <2>9 DEF Enrolment
<1>6. ASSUME Reboot PROVE GrantsBound'
  BY <1>6 DEF Reboot, GrantsBound
<1>7. ASSUME NEW l \in Leases \cup {None}, Kill(l) PROVE GrantsBound'
  <2>1. \A m \in Leases : serve'[m] # None => serve'[m] = serve[m]
    BY <1>7, NoneIsNothing DEF Kill, Linked, TypeOK
  <2> QED
    BY <1>7, <2>1 DEF Kill, GrantsBound
<1>8. ASSUME UNCHANGED vars PROVE GrantsBound'
  BY <1>8 DEF vars, GrantsBound
<1> QED
  BY <1>2, <1>3, <1>4, <1>5, <1>6, <1>7, <1>8 DEF Next

-----------------------------------------------------------------------------
(* Addresses: a step takes at most one more, and that one was free.        *)

\* If nothing more is taken nothing is taken twice.
LEMMA NothingTaken ==
    ASSUME ReservedOnce,
           \A k \in Keys, a \in Addresses : Reserved(k, a)' => Reserved(k, a)
    PROVE  ReservedOnce'
  BY DEF ReservedOnce

\* A new transaction reserves what the copies say, and its own address.
LEMMA BeginReserves ==
    ASSUME change = None, UNCHANGED peers, NEW d, NEW key, NEW address, NEW l,
           Begin(d, key, address, l), NEW k \in Keys, NEW a \in Addresses, Reserved(k, a)'
    PROVE  Reserved(k, a) \/ (k = key /\ a = address)
  BY DEF Begin, Reserved, Claimed, Pending, peers

\* A free address is nobody's.
LEMMA FreeIsNobodys ==
    ASSUME change = None, NEW a \in Free, NEW k \in Keys
    PROVE  ~Reserved(k, a)
  BY DEF Free, Registered, Reserved, Claimed, Pending

\* A new peer takes one free address.
LEMMA AddReserves ==
    ASSUME ReservedOnce, change = None, UNCHANGED peers, NEW d, NEW key \in Keys,
           NEW address \in Free, NEW l, Begin(d, key, address, l)
    PROVE  ReservedOnce'
<1> SUFFICES ASSUME NEW k \in Keys, NEW j \in Keys, NEW a \in Addresses,
                    Reserved(k, a)', Reserved(j, a)'
             PROVE  k = j
  BY DEF ReservedOnce
<1>1. Reserved(k, a) \/ (k = key /\ a = address)
  BY BeginReserves
<1>2. Reserved(j, a) \/ (j = key /\ a = address)
  BY BeginReserves
<1>3. a = address => ~Reserved(k, a) /\ ~Reserved(j, a)
  BY FreeIsNobodys
<1> QED
  BY <1>1, <1>2, <1>3 DEF ReservedOnce

\* The steps of a transaction move what was taken from place to place.
LEMMA TransactionReserves ==
    ASSUME TypeOK, Transaction, NEW k \in Keys, NEW a \in Addresses, Reserved(k, a)'
    PROVE  Reserved(k, a)
<1> DEFINE c == change
<1>1. /\ change # None
      /\ change \in Change /\ change.conf \in Peers /\ change.live \in Peers
      /\ change.key \in Keys /\ change.device \in Devices
      /\ change.registry \in Registry
  BY ChangeTyped
  DEF Transaction, WriteConfig, WriteRegistry, SetLive, StepFails, UndoConfig, UndoRegistry,
      UndoLive, UndoFails, At
<1>2. ASSUME NEW p, Then(p) \/ change' = None
      PROVE  Pending(k, a)' => Pending(k, a)
  BY <1>1, <1>2 DEF Then, Pending, Change
<1> USE DEF Reserved, At
<1>3. CASE WriteConfig
  <2>1. conf'[k] = a => conf[k] = a \/ Pending(k, a)
    BY <1>1, <1>3 DEF WriteConfig, With, TypeOK, Peers, Pending
  <2> QED
    BY <1>2, <1>3, <2>1 DEF WriteConfig, Claimed
<1>4. CASE WriteRegistry
  <2>1. ASSUME NEW d \in Devices, registry'[d] # None,
               registry'[d].key = k, registry'[d].address = a
        PROVE  Claimed(k, a) \/ Pending(k, a)
    <3>1. CASE d = change.device
      BY <1>1, <1>4, <2>1, <3>1 DEF WriteRegistry, TypeOK, Registry, Pending
    <3>2. CASE d # change.device
      BY <1>1, <1>4, <2>1, <3>2 DEF WriteRegistry, TypeOK, Registry, Claimed
    <3> QED
      BY <3>1, <3>2
  <2> QED
    BY <1>2, <1>4, <2>1 DEF WriteRegistry, Claimed
<1>5. CASE SetLive
  <2>1. live'[k] = a => live[k] = a \/ Pending(k, a)
    BY <1>1, <1>5 DEF SetLive, With, TypeOK, Peers, Pending
  <2> QED
    BY <1>2, <1>5, <2>1 DEF SetLive, Claimed
<1>6. CASE StepFails
  <2>1. live'[k] = a => live[k] = a \/ Pending(k, a)
    BY <1>1, <1>6 DEF StepFails, With, TypeOK, Peers, Pending
  <2>2. Pending(k, a)' => Pending(k, a)
    BY <1>1, <1>6 DEF StepFails, Pending, Change
  <2> QED
    BY <1>6, <2>1, <2>2 DEF StepFails, Claimed
<1>7. CASE UndoConfig
  BY <1>1, <1>2, <1>7 DEF UndoConfig, Claimed, Pending
<1>8. CASE UndoRegistry
  <2>1. Pending(k, a)' => Pending(k, a)
    BY <1>2, <1>8 DEF UndoRegistry
  <2> QED
    BY <1>1, <1>8, <2>1 DEF UndoRegistry, Claimed, Pending
<1>9. CASE UndoLive
  <2>1. live'[k] = a => live[k] = a \/ Pending(k, a)
    BY <1>1, <1>9 DEF UndoLive, TypeOK, Peers, Pending
  <2> QED
    BY <1>2, <1>9, <2>1 DEF UndoLive, Claimed
<1>10. CASE UndoFails
  BY <1>2, <1>10 DEF UndoFails, Claimed, peers
<1> QED
  BY <1>3, <1>4, <1>5, <1>6, <1>7, <1>8, <1>9, <1>10 DEF Transaction

\* A crash forgets the transaction, and a reboot makes the interface like the file.
LEMMA CrashReserves ==
    ASSUME Reboot \/ \E l \in Leases \cup {None} : Kill(l),
           NEW k \in Keys, NEW a \in Addresses, Reserved(k, a)'
    PROVE  Reserved(k, a)
  BY DEF Reboot, Kill, Reserved, Claimed, Pending, peers

\* The invariant is inductive.
LEMMA Inductive == IInv /\ [Next]_vars => IInv'
<1> SUFFICES ASSUME IInv, [Next]_vars PROVE IInv'
  OBVIOUS
<1>1. Linked /\ Linked' /\ GrantsBound' /\ ReservedOnce /\ TypeOK
  BY LinkedStep, BoundStep DEF IInv, Linked
<1>2. ASSUME UNCHANGED <<peers, change>> PROVE ReservedOnce'
  BY <1>1, <1>2 DEF ReservedOnce, Reserved, Claimed, Pending, peers
<1>3. ASSUME NEW q \in Request, Add(q) PROVE ReservedOnce'
  <2>1. q.key \in Keys
    BY DEF Request
  <2> QED
    BY <1>1, <1>3, <2>1, AddReserves DEF Add, CanAdd
<1>4. ASSUME NEW d \in Devices, Remove(d) PROVE ReservedOnce'
  <2>1. ASSUME NEW k \in Keys, NEW a \in Addresses, Reserved(k, a)' PROVE Reserved(k, a)
    BY <1>4, <2>1, BeginReserves, NoneIsNothing DEF Remove
  <2> QED
    BY <1>1, <2>1, NothingTaken
<1>5. ASSUME Transaction PROVE ReservedOnce'
  BY <1>1, <1>5, TransactionReserves, NothingTaken
<1>6. ASSUME NEW l \in Leases, GrantAdds(l) PROVE ReservedOnce'
  <2>1. serve[l].request.key \in Keys
    BY <1>1, <1>6 DEF GrantAdds, Serving, TypeOK, Serve, Request
  <2> QED
    BY <1>1, <1>6, <2>1, AddReserves DEF GrantAdds, CanAdd
<1>7. ASSUME NEW l \in Leases, Enrolment(l), ~GrantAdds(l) PROVE ReservedOnce'
  BY <1>2, <1>7
  DEF Enrolment, Authorize, Expire, Revoke, Login, Bind, Answer, Lookup, GrantRefused, Complete
<1>8. ASSUME Reboot \/ \E l \in Leases \cup {None} : Kill(l) PROVE ReservedOnce'
  BY <1>1, <1>8, CrashReserves, NothingTaken
<1>9. ASSUME UNCHANGED vars PROVE ReservedOnce'
  BY <1>2, <1>9 DEF vars, peers
<1>10. ReservedOnce'
  BY <1>3, <1>4, <1>5, <1>6, <1>7, <1>8, <1>9 DEF Next
<1> QED
  BY <1>1, <1>10 DEF IInv, Linked

\* At the start one peer is configured at most, and the interface is like the file.
LEMMA Initial == Init => IInv
<1> SUFFICES ASSUME Init PROVE IInv
  OBVIOUS
<1>1. Linked
  BY LinkedInit
<1>2. ASSUME NEW k \in Keys, NEW j \in Keys, conf[k] # None, conf[j] # None PROVE k = j
  BY <1>2 DEF Init
<1>3. ReservedOnce
  BY <1>2, NoneIsNothing DEF Init, ReservedOnce, Reserved, Claimed, Pending
<1>4. GrantsBound
  BY DEF Init, GrantsBound
<1> QED
  BY <1>1, <1>3, <1>4 DEF IInv, Linked

-----------------------------------------------------------------------------
\* The state of the peer manager keeps its types, and a transaction made for a
\* grant keeps the process it was made for.
THEOREM TypeCorrect == Spec => []TypeOK
<1>1. IInv => TypeOK
  BY DEF IInv
<1> QED
  BY <1>1, Initial, Inductive, PTL DEF Spec

\* kdx-wg-server.py, allocate() and transaction(): no two keys ever share an address,
\* in a copy or across copies, whatever fails, is undone, killed or rebooted.
THEOREM AddressesNeverShared == Spec => []AddressesUnique
<1>1. IInv => AddressesUnique
  BY DEF IInv, ReservedOnce, Reserved, AddressesUnique
<1> QED
  BY <1>1, Initial, Inductive, PTL DEF Spec

\* A set of one element at most.
LEMMA OneAtMost ==
    ASSUME NEW S, NEW x, S \subseteq {x}
    PROVE  Cardinality(S) <= 1
<1>1. CASE S = {}
  BY <1>1, FS_EmptySet
<1>2. CASE S = {x}
  BY <1>2, FS_Singleton
<1> QED
  BY <1>1, <1>2

\* docs/wireguard-provisioning.md, kdx-wg-enroll.py: a grant makes one peer at most,
\* however often its session is repeated, killed or rolled back.
THEOREM OnePeerEver == Spec => []OnePeerPerGrant
<1>1. IInv => OnePeerPerGrant
  <2> SUFFICES ASSUME IInv, NEW l \in Leases PROVE Cardinality(made[l]) <= 1
    BY DEF OnePeerPerGrant
  <2>1. made[l] \subseteq {grant[l].key}
    BY DEF IInv, GrantsBound
  <2> QED
    BY <2>1, OneAtMost
<1> QED
  BY <1>1, Initial, Inductive, PTL DEF Spec

\* kdx-wg-enroll.py, revoke(): a revoked grant starts no transaction, because the lock
\* of its lease is held from the check of the grant to the end of the session.
THEOREM RevocationHolds == Spec => RevokedGrantAddsNothing
<1> DEFINE Holds == \A l \in Leases :
                      change = None /\ change' # None /\ change'.by = l =>
                          grant[l].state # "revoked"
<1>1. IInv /\ [Next]_vars => [Holds]_vars
  <2> SUFFICES ASSUME IInv, Next PROVE Holds
    OBVIOUS
  <2>1. ASSUME NEW q \in Request, Add(q) PROVE Holds
    BY <2>1, NoneIsNothing DEF Add, Begin
  <2>2. ASSUME NEW d \in Devices, Remove(d) PROVE Holds
    BY <2>2, NoneIsNothing DEF Remove, Begin
  <2>3. ASSUME NEW l \in Leases, GrantAdds(l) PROVE Holds
    BY <2>3 DEF GrantAdds, Begin, Serving, IInv, GrantsBound
  <2>4. ASSUME change # None \/ change' = change \/ change' = None PROVE Holds
    BY <2>4
  <2>5. ASSUME Transaction PROVE Holds
    BY <2>4, <2>5
    DEF Transaction, WriteConfig, WriteRegistry, SetLive, StepFails, UndoConfig, UndoRegistry,
        UndoLive, UndoFails, At
  <2>6. ASSUME NEW l \in Leases, Enrolment(l), ~GrantAdds(l) PROVE Holds
    BY <2>4, <2>6
    DEF Enrolment, Authorize, Expire, Revoke, Login, Bind, Answer, Lookup, GrantRefused, Complete
  <2>7. ASSUME Reboot \/ \E l \in Leases \cup {None} : Kill(l) PROVE Holds
    BY <2>4, <2>7 DEF Reboot, Kill
  <2> QED
    BY <2>1, <2>2, <2>3, <2>5, <2>6, <2>7 DEF Next
<1> QED
  BY <1>1, Initial, Inductive, PTL DEF Spec, RevokedGrantAddsNothing

-----------------------------------------------------------------------------
(* The three copies agree about every settled key.                         *)

\* A copy with the change made differs from the copy in the changed key only.
LEMMA WithElsewhere ==
    ASSUME TypeOK, change # None, NEW copy \in Peers
    PROVE  /\ With(copy)[change.key] = change.address
           /\ \A k \in Keys : k # change.key => With(copy)[k] = copy[k]
           /\ With(copy) \in Peers
  BY ChangeTyped, WithTyped DEF With, Peers

LEMMA RewrittenElsewhere ==
    ASSUME TypeOK, change # None, OneDevice
    PROVE  /\ Rewritten \in Registry /\ KeysOnce(Rewritten)
           /\ \A d \in Devices : Rewritten[d] # None /\ Rewritten[d].key # change.key =>
                Rewritten[d] = change.registry[d]
           /\ \A d \in Devices : Rewritten[d] # None /\ Rewritten[d].key = change.key =>
                change.address # None /\ Rewritten[d].address = change.address
<1> DEFINE r == change.registry
           e == change.device
<1>1. /\ r \in Registry /\ e \in Devices /\ change.key \in Keys
      /\ change.address \in Addresses \cup {None}
  BY ChangeTyped
<1>2. CASE change.address = None
  <2>1. /\ \A d \in Devices : Rewritten[d] = IF d = e THEN None ELSE r[d]
        /\ Rewritten \in Registry
    BY <1>1, <1>2 DEF Rewritten, Registry
  <2> QED
    BY <1>2, <2>1 DEF OneDevice, KeysOnce
<1>3. CASE change.address # None
  <2> DEFINE n == [key |-> change.key, address |-> change.address]
  <2>1. n \in Peer /\ n.key = change.key /\ n.address = change.address
    BY <1>1, <1>3 DEF Peer
  <2>2. /\ \A d \in Devices : Rewritten[d] = IF d = e THEN n ELSE r[d]
        /\ Rewritten \in Registry
    BY <1>1, <1>3, <2>1 DEF Rewritten, Registry
  <2> HIDE DEF n
  <2> QED
    BY <1>3, <2>1, <2>2 DEF OneDevice, KeysOnce
<1> QED
  BY <1>2, <1>3

\* Whatever a transaction has done so far, the copies agree about the settled keys
\* it is not about.
LEMMA OthersAgree ==
    ASSUME TypeOK, CopiesInv, change # None, NEW k \in Keys \ unsettled, k # change.key
    PROVE  AgreeOn(conf, live, registry, k) /\ AgreeOn(conf, conf, registry, k)
<1>1. /\ change.conf \in Peers /\ change.live \in Peers
  BY ChangeTyped
<1>2. conf[k] = change.conf[k] /\ live[k] = change.live[k]
  BY <1>1, WithElsewhere DEF CopiesInv, CopiesKnown
<1>3. \A d \in Devices : registry[d] # None /\ registry[d].key = k =>
         registry[d] = change.registry[d]
  BY RewrittenElsewhere DEF CopiesInv, CopiesKnown
<1>4. AgreeOn(change.conf, change.live, change.registry, k)
  BY DEF CopiesInv
<1> QED
  BY <1>2, <1>3, <1>4 DEF AgreeOn

LEMMA RegisteredOnce ==
    ASSUME TypeOK, CopiesInv, change # None
    PROVE  KeysOnce(change.registry) /\ KeysOnce(Rewritten)
  BY RewrittenElsewhere DEF CopiesInv, OneDevice

\* A transaction starts from copies that agree.
LEMMA BeginCopies ==
    ASSUME TypeOK, CopiesInv, change = None,
           NEW d \in Devices, NEW k \in Keys, NEW a \in Addresses \cup {None},
           NEW l \in Leases \cup {None}, Begin(d, k, a, l),
           \A e \in Devices : registry[e] # None => (registry[e].key = k <=> e = d),
           UNCHANGED <<peers, unsettled>>
    PROVE  CopiesInv'
<1>1. change' \in Change
  BY BeginTyped
<1>2. change' # None
  BY <1>1, NoneIsNothing
<1>3. /\ change'.phase = "config" /\ change'.device = d /\ change'.key = k
      /\ change'.conf = conf /\ change'.live = live /\ change'.registry = registry
      /\ change'.touched = FALSE
  BY DEF Begin
<1>4. OneDevice'
  BY <1>3 DEF OneDevice, CopiesInv, KeysOnce
<1>5. CopiesKnown'
  BY <1>3 DEF CopiesKnown, peers
<1> QED
  BY <1>2, <1>3, <1>4, <1>5 DEF CopiesInv, peers, AgreeOn, KeysOnce

\* A transaction that goes on keeps what it saved; the copies are as its phase says.
LEMMA GoesOnCopies ==
    ASSUME TypeOK, CopiesInv, change # None, change' \in Change,
           change'.device = change.device, change'.key = change.key,
           change'.address = change.address, change'.conf = change.conf,
           change'.live = change.live, change'.registry = change.registry,
           UNCHANGED unsettled, CopiesKnown'
    PROVE  CopiesInv'
<1>1. change' # None
  BY NoneIsNothing
<1>2. OneDevice' <=> OneDevice
  BY DEF OneDevice, KeysOnce
<1>3. registry' \in {change.registry, Rewritten}
  BY DEF CopiesKnown, Rewritten
<1>4. KeysOnce(registry')
  BY <1>3, RegisteredOnce
<1> QED
  BY <1>1, <1>2, <1>4 DEF CopiesInv, AgreeOn, KeysOnce


LEMMA ThenKeeps ==
    ASSUME TypeOK, change # None, NEW p \in Phase, Then(p)
    PROVE  /\ change' \in Change /\ change'.phase = p
           /\ change'.device = change.device /\ change'.key = change.key
           /\ change'.address = change.address /\ change'.conf = change.conf
           /\ change'.live = change.live /\ change'.registry = change.registry
           /\ change'.touched = change.touched
  BY ChangeTyped DEF Then, Change

\* A transaction that is given up leaves one key unsettled.
LEMMA GivenUpCopies ==
    ASSUME TypeOK, CopiesInv, change # None, change' = None,
           unsettled' = unsettled \cup {change.key}, UNCHANGED <<conf, registry>>,
           live' = live \/ live' = conf
    PROVE  CopiesInv'
<1>1. \A k \in Keys \ unsettled' : AgreeOn(conf, live', registry, k)
  BY OthersAgree
<1> QED
  BY <1>1 DEF CopiesInv, AgreeOn, KeysOnce

LEMMA TransactionCopies == ASSUME TypeOK, CopiesInv, Transaction PROVE CopiesInv'
<1>1. change # None
  BY DEF Transaction, WriteConfig, WriteRegistry, SetLive, StepFails, UndoConfig, UndoRegistry,
         UndoLive, UndoFails, At
<1>2. /\ CopiesKnown /\ OneDevice /\ change \in Change
      /\ change.conf \in Peers /\ change.live \in Peers /\ change.registry \in Registry
  BY <1>1, ChangeTyped DEF CopiesInv
<1>3. CASE WriteConfig
  <2>1. /\ change.phase = "config" /\ conf' = With(conf) /\ Then("registry")
        /\ UNCHANGED <<live, registry, unsettled>>
    BY <1>3 DEF WriteConfig, At
  <2>2. CopiesKnown'
    BY <1>1, <1>2, <2>1, ThenKeeps DEF CopiesKnown, With, Rewritten, Phase
  <2> QED
    BY <1>1, <2>1, <2>2, ThenKeeps, GoesOnCopies DEF Phase
<1>4. CASE WriteRegistry
  <2>1. /\ change.phase = "registry" /\ Then("live")
        /\ registry' = [registry EXCEPT ![change.device] =
                      IF change.address = None THEN None
                      ELSE [key |-> change.key, address |-> change.address]]
        /\ UNCHANGED <<live, conf, unsettled>>
    BY <1>4 DEF WriteRegistry, At
  <2>2. registry' = Rewritten
    BY <1>2, <2>1 DEF CopiesKnown, Rewritten
  <2>3. Rewritten' = Rewritten
    BY <1>1, <2>1, ThenKeeps DEF Rewritten, Phase
  <2>4. CopiesKnown'
    BY <1>1, <1>2, <2>1, <2>2, <2>3, ThenKeeps DEF CopiesKnown, With, Phase
  <2> QED
    BY <1>1, <2>1, <2>4, ThenKeeps, GoesOnCopies DEF Phase
<1>5. CASE SetLive
  <2>1. /\ change.phase = "live" /\ live' = With(live) /\ change' = None
        /\ UNCHANGED <<conf, registry, unsettled>>
    BY <1>5 DEF SetLive, At
  <2>2. conf = With(change.conf) /\ live = change.live /\ registry = Rewritten
    BY <1>2, <2>1 DEF CopiesKnown
  <2>3. ASSUME NEW k \in Keys \ unsettled PROVE AgreeOn(conf, live', registry, k)
    <3>1. CASE k # change.key
      <4>1. AgreeOn(conf, live, registry, k) /\ live'[k] = live[k]
        BY <1>1, <1>2, <2>1, <2>2, <3>1, OthersAgree, WithElsewhere
      <4> QED
        BY <4>1 DEF AgreeOn
    <3>2. CASE k = change.key
      <4>1. conf[k] = change.address /\ live'[k] = change.address
        BY <1>1, <1>2, <2>1, <2>2, <3>2, WithElsewhere
      <4> QED
        BY <1>1, <1>2, <2>2, <3>2, <4>1, RewrittenElsewhere DEF AgreeOn
    <3> QED
      BY <3>1, <3>2
  <2> QED
    BY <2>1, <2>3 DEF CopiesInv, KeysOnce, AgreeOn
<1>6. CASE StepFails
  <2>1. /\ change.phase \in {"config", "registry", "live"}
        /\ change' = [change EXCEPT !.phase = "undo config", !.touched = change.phase = "live"]
        /\ live' \in IF change.phase = "live" THEN {live, With(live)} ELSE {live}
        /\ UNCHANGED <<conf, registry, unsettled>>
    BY <1>6 DEF StepFails
  <2>2. /\ change' \in Change /\ change'.phase = "undo config"
        /\ change'.device = change.device /\ change'.key = change.key
        /\ change'.address = change.address /\ change'.conf = change.conf
        /\ change'.live = change.live /\ change'.registry = change.registry
        /\ change'.touched = (change.phase = "live")
    BY <1>2, <2>1 DEF Change, Phase
  <2>3. live = change.live
    BY <1>2, <2>1 DEF CopiesKnown
  <2>4. CopiesKnown'
    BY <1>2, <2>1, <2>2, <2>3 DEF CopiesKnown, With, Rewritten
  <2> QED
    BY <1>1, <2>1, <2>2, <2>4, GoesOnCopies
<1>7. CASE UndoConfig
  <2>1. /\ change.phase = "undo config" /\ conf' = change.conf /\ Then("undo registry")
        /\ UNCHANGED <<live, registry, unsettled>>
    BY <1>7 DEF UndoConfig, At
  <2>2. CopiesKnown'
    BY <1>1, <1>2, <2>1, ThenKeeps DEF CopiesKnown, With, Rewritten, Phase
  <2> QED
    BY <1>1, <2>1, <2>2, ThenKeeps, GoesOnCopies DEF Phase
<1>8. CASE UndoRegistry
  <2>1. /\ change.phase = "undo registry" /\ registry' = change.registry
        /\ UNCHANGED <<live, conf, unsettled>>
        /\ IF change.touched THEN Then("undo live") ELSE change' = None
    BY <1>8 DEF UndoRegistry, At
  <2>2. CASE change.touched
    <3>1. CopiesKnown'
      BY <1>1, <1>2, <2>1, <2>2, ThenKeeps DEF CopiesKnown, With, Rewritten, Phase
    <3> QED
      BY <1>1, <2>1, <2>2, <3>1, ThenKeeps, GoesOnCopies DEF Phase
  <2>3. CASE ~change.touched
    <3>1. conf = change.conf /\ live = change.live
      BY <1>2, <2>1, <2>3 DEF CopiesKnown
    <3> QED
      BY <1>1, <1>2, <2>1, <2>3, <3>1 DEF CopiesInv, OneDevice, AgreeOn, KeysOnce
  <2> QED
    BY <2>2, <2>3
<1>9. CASE UndoLive
  <2>1. /\ change.phase = "undo live" /\ change' = None
        /\ live' = [live EXCEPT ![change.key] = change.live[change.key]]
        /\ UNCHANGED <<registry, conf, unsettled>>
    BY <1>9 DEF UndoLive, At
  <2>2. conf = change.conf /\ registry = change.registry /\ live \in {change.live, With(change.live)}
    BY <1>2, <2>1 DEF CopiesKnown
  <2>a. change.key \in Keys /\ live \in [Keys -> Addresses \cup {None}]
    BY <1>1, ChangeTyped DEF TypeOK, Peers
  <2>b. \A k \in Keys : k # change.key => live[k] = change.live[k]
    BY <1>1, <1>2, <2>2, WithElsewhere
  <2>3. \A k \in Keys : live'[k] = change.live[k]
    BY <2>1, <2>a, <2>b
  <2>4. \A k \in Keys \ unsettled : AgreeOn(conf, live', registry, k)
    BY <1>1, <2>2, <2>3 DEF CopiesInv, AgreeOn
  <2> QED
    BY <2>1, <2>4 DEF CopiesInv, AgreeOn, KeysOnce
<1>10. CASE UndoFails
  BY <1>1, <1>10, GivenUpCopies DEF UndoFails, peers
<1> QED
  BY <1>3, <1>4, <1>5, <1>6, <1>7, <1>8, <1>9, <1>10 DEF Transaction

\* No device is registered with the key of a request that is not a duplicate.
LEMMA AddCopies ==
    ASSUME TypeOK, CopiesInv, NEW q \in Request, CanAdd(q), NEW a \in Free,
           NEW l \in Leases \cup {None}, Begin(q.device, q.key, a, l),
           UNCHANGED <<peers, unsettled>>
    PROVE  CopiesInv'
<1>1. q.device \in Devices /\ q.key \in Keys /\ a \in Addresses
  BY DEF Request, Free
<1>2. ASSUME NEW e \in Devices, registry[e] # None
      PROVE  registry[e].key # q.key /\ e # q.device
  BY <1>2 DEF CanAdd, Duplicate, Registered
<1> QED
  BY <1>1, <1>2, BeginCopies DEF CanAdd

LEMMA RemoveCopies ==
    ASSUME TypeOK, CopiesInv, NEW d \in Devices, Remove(d)
    PROVE  CopiesInv'
<1>1. /\ change = None /\ registry[d] # None /\ Begin(d, registry[d].key, None, None)
      /\ UNCHANGED <<peers, unsettled>>
  BY DEF Remove
<1>2. registry[d].key \in Keys
  BY <1>1 DEF TypeOK, Registry, Peer
<1>3. \A e \in Devices : registry[e] # None => (registry[e].key = registry[d].key <=> e = d)
  BY <1>1 DEF CopiesInv, KeysOnce
<1> QED
  BY <1>1, <1>2, <1>3, BeginCopies

\* A step that is about no copy and no transaction.
LEMMA AsideCopies ==
    ASSUME CopiesInv, UNCHANGED <<peers, change, unsettled>>
    PROVE  CopiesInv'
  BY DEF CopiesInv, CopiesKnown, OneDevice, AgreeOn, KeysOnce, With, Rewritten, peers

LEMMA CopiesStep == TypeOK /\ CopiesInv /\ [Next]_vars => CopiesInv'
<1> SUFFICES ASSUME TypeOK, CopiesInv, [Next]_vars PROVE CopiesInv'
  OBVIOUS
<1>1. ASSUME NEW q \in Request, Add(q) PROVE CopiesInv'
  BY <1>1, AddCopies DEF Add
<1>2. ASSUME NEW l \in Leases, Enrolment(l) PROVE CopiesInv'
  <2>1. CASE GrantAdds(l)
    <3>1. serve[l].request \in Request
      BY <2>1 DEF GrantAdds, Serving, TypeOK, Serve
    <3> QED
      BY <2>1, <3>1, AddCopies DEF GrantAdds
  <2>2. CASE ~GrantAdds(l)
    <3>1. UNCHANGED <<peers, change, unsettled>>
      BY <1>2, <2>2 DEF Enrolment, Authorize, Expire, Revoke, Login, Bind, Answer, Lookup,
                        GrantRefused, Complete
    <3> QED
      BY <3>1, AsideCopies
  <2> QED
    BY <2>1, <2>2
<1>3. ASSUME NEW l \in Leases \cup {None}, Kill(l) PROVE CopiesInv'
  <2>1. CASE change # None /\ change.by = l
    BY <1>3, <2>1, GivenUpCopies DEF Kill, Abandoned, peers
  <2>2. CASE ~(change # None /\ change.by = l)
    BY <1>3, <2>2, AsideCopies DEF Kill
  <2> QED
    BY <2>1, <2>2
<1>4. CASE Reboot
  <2>1. CASE change # None
    BY <1>4, <2>1, GivenUpCopies DEF Reboot, Abandoned
  <2>2. CASE change = None
    BY <1>4, <2>2 DEF Reboot, Abandoned, CopiesInv, AgreeOn, KeysOnce
  <2> QED
    BY <2>1, <2>2
<1>5. CASE UNCHANGED vars
  BY <1>5, AsideCopies DEF vars, peers
<1> QED
  BY <1>1, <1>2, <1>3, <1>4, <1>5, TransactionCopies, RemoveCopies DEF Next

LEMMA CopiesInit == Init => CopiesInv
<1> SUFFICES ASSUME Init PROVE CopiesInv
  OBVIOUS
<1>1. \A d \in Devices : registry[d] = None
  BY DEF Init
<1> QED
  BY <1>1 DEF Init, CopiesInv, KeysOnce, AgreeOn

LEMMA CopiesEnough == CopiesInv => CopiesAgree
  BY DEF CopiesInv, CopiesAgree, AgreeOn, Registered

\* At rest the three copies of a peer agree, whatever failed, was undone or killed
\* before, about each key that no killed or half undone transaction was about.
THEOREM CopiesAlwaysAgree == Spec => []CopiesAgree
<1>1. TypeOK /\ CopiesInv /\ [Next]_vars => CopiesInv'
  BY CopiesStep
<1>2. Spec => []CopiesInv
  BY <1>1, CopiesInit, TypeCorrect, PTL DEF Spec
<1> QED
  BY <1>2, CopiesEnough, PTL
=============================================================================
