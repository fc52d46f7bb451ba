---------------------------- MODULE SessionsProofs ----------------------------
(***************************************************************************)
(* What a browser opens, for any number of sessions, streams, consoles,    *)
(* passwords and uploads, and any limits.                                  *)
(*                                                                         *)
(* The serial port: a session on the port either holds the lock or was     *)
(* displaced from it, and only a reset displaces, one session at a time.   *)
(*                                                                         *)
(* The video stream: whatever captures has the lock, and whatever has the  *)
(* lock is still in the code that gives it back.                           *)
(*                                                                         *)
(* The web session: a session knows the password it was opened with, which *)
(* is the one in memory; the file and the memory hold what was last        *)
(* reported, or what failed since; no attempt is let through unless it     *)
(* fits in every minute it belongs to; what holds a slot is a console that *)
(* will end.                                                               *)
(*                                                                         *)
(* Uploads: a sum of sizes is the number of units (element, number), so    *)
(* that what an upload changes is what it adds to a set and takes from it. *)
(* What is claimed of the quota, and what is written with what the tasks   *)
(* may still write, are such sets.                                         *)
(***************************************************************************)
EXTENDS MCConsoles, FiniteSetTheorems, TLAPS

\* A set that grows by one element at most has one element more at most.
LEMMA GrowsByOne ==
    ASSUME NEW S, NEW T, NEW x, IsFiniteSet(S), T \subseteq S \cup {x}
    PROVE  IsFiniteSet(T) /\ Cardinality(T) <= Cardinality(S) + 1 /\ Cardinality(T) \in Nat
           /\ Cardinality(S) \in Nat
<1>1. /\ IsFiniteSet(S \cup {x})
      /\ Cardinality(S \cup {x}) <= Cardinality(S) + 1
      /\ Cardinality(S) \in Nat
  BY FS_AddElement, FS_CardinalityType
<1>2. /\ IsFiniteSet(T)
      /\ Cardinality(T) <= Cardinality(S \cup {x})
  BY <1>1, FS_Subset
<1>3. Cardinality(T) \in Nat /\ Cardinality(S \cup {x}) \in Nat
  BY <1>1, <1>2, FS_CardinalityType
<1> QED
  BY <1>1, <1>2, <1>3

\* A set in a finite one has no more elements.
LEMMA NoMore ==
    ASSUME NEW S, NEW T, IsFiniteSet(S), T \subseteq S
    PROVE  IsFiniteSet(T) /\ Cardinality(T) <= Cardinality(S) /\ Cardinality(T) \in Nat
           /\ Cardinality(S) \in Nat
  BY FS_Subset, FS_CardinalityType

-----------------------------------------------------------------------------
(* THE SERIAL PORT.                                                        *)

\* The set of displaced sessions is finite.
LEMMA DisplacedFinite == IsFiniteSet(Displaced) /\ Cardinality(Displaced) \in Nat
<1>1. Displaced \subseteq Sessions
  BY DEF Displaced, Entered
<1> QED
  BY <1>1, FiniteSessions, FS_Subset, FS_CardinalityType

-----------------------------------------------------------------------------
\* Every step keeps the types of the variables (locks, sessions and their phases).
LEMMA SerialTypeStep == TypeOK /\ [Next]_vars => TypeOK'
<1> SUFFICES ASSUME TypeOK, [Next]_vars PROVE TypeOK'
  OBVIOUS
<1> USE DEF TypeOK, Phase, Goes
<1>1. ASSUME NEW s \in Sessions, Connect(s) PROVE TypeOK'
  BY <1>1 DEF Connect
<1>2. ASSUME NEW s \in Sessions, ConnectBusy(s) PROVE TypeOK'
  BY <1>2 DEF ConnectBusy
<1>3. ASSUME NEW s \in Sessions, AcceptFails(s) PROVE TypeOK'
  BY <1>3 DEF AcceptFails
<1>4. ASSUME NEW s \in Sessions, NEW auto \in BOOLEAN, Accepted(s, auto) PROVE TypeOK'
  BY <1>4 DEF Accepted
<1>5. ASSUME NEW s \in Sessions, ProbeEnds(s) PROVE TypeOK'
  BY <1>5 DEF ProbeEnds
<1>6. ASSUME NEW s \in Sessions, OpenPort(s) PROVE TypeOK'
  BY <1>6 DEF OpenPort
<1>7. ASSUME NEW s \in Sessions, Finish(s) PROVE TypeOK'
  BY <1>7 DEF Finish, ReleaseOwn
<1>8. CASE ResetActive
  BY <1>8 DEF ResetActive, ReleaseOwn
<1>9. CASE ResetForced
  BY <1>9 DEF ResetForced
<1>10. ASSUME NEW a \in Leases, AcquireLock(a) \/ ReleaseLock(a) PROVE TypeOK'
  BY <1>10 DEF AcquireLock, ReleaseLock
<1>11. CASE UNCHANGED vars
  BY <1>11 DEF vars
<1> QED
  BY <1>1, <1>2, <1>3, <1>4, <1>5, <1>6, <1>7, <1>8, <1>9, <1>10, <1>11 DEF Next

-----------------------------------------------------------------------------
\* A step that is no reset displaces no session.
LEMMA NotDisplacing ==
    ASSUME TypeOK, [Next]_vars, ~ResetActive, ~ResetForced
    PROVE  Displaced' \subseteq Displaced /\ resets' = resets
<1> USE Distinct DEF TypeOK, Phase, Goes, Displaced, Entered
<1>1. ASSUME NEW s \in Sessions, Connect(s)
      PROVE  Displaced' \subseteq Displaced /\ resets' = resets
  BY <1>1 DEF Connect, LockFree
<1>2. ASSUME NEW s \in Sessions, ConnectBusy(s) \/ AcceptFails(s)
      PROVE  Displaced' \subseteq Displaced /\ resets' = resets
  BY <1>2 DEF ConnectBusy, AcceptFails
<1>3. ASSUME NEW s \in Sessions, NEW auto \in BOOLEAN, Accepted(s, auto)
      PROVE  Displaced' \subseteq Displaced /\ resets' = resets
  BY <1>3 DEF Accepted
<1>4. ASSUME NEW s \in Sessions, ProbeEnds(s) \/ OpenPort(s)
      PROVE  Displaced' \subseteq Displaced /\ resets' = resets
  BY <1>4 DEF ProbeEnds, OpenPort
<1>5. ASSUME NEW s \in Sessions, Finish(s)
      PROVE  Displaced' \subseteq Displaced /\ resets' = resets
  BY <1>5 DEF Finish, ReleaseOwn
<1>6. ASSUME NEW a \in Leases, AcquireLock(a) \/ ReleaseLock(a)
      PROVE  Displaced' \subseteq Displaced /\ resets' = resets
  BY <1>6 DEF AcquireLock, ReleaseLock, LockFree
<1>7. CASE UNCHANGED vars
  BY <1>7 DEF vars
<1> QED
  BY <1>1, <1>2, <1>3, <1>4, <1>5, <1>6, <1>7 DEF Next

\* A reset displaces the session that held the lock and no other.
LEMMA ResetDisplacesHolder ==
    ASSUME TypeOK, ResetActive \/ ResetForced
    PROVE  Displaced' \subseteq Displaced \cup {lock} /\ resets' = resets + 1
  BY DEF ResetActive, ResetForced, ReleaseOwn, Displaced, Entered

\* The invariant behind the bound is inductive.
LEMMA Inductive == IInv /\ [Next]_vars => IInv'
<1> SUFFICES ASSUME IInv, [Next]_vars PROVE IInv'
  OBVIOUS
<1>1. TypeOK /\ TypeOK'
  BY SerialTypeStep DEF IInv
<1>2. resets \in Nat /\ Cardinality(Displaced) <= resets
  BY <1>1 DEF IInv, TypeOK, DisplacedByResets
<1>3. CASE ResetActive \/ ResetForced
  <2>1. Displaced' \subseteq Displaced \cup {lock} /\ resets' = resets + 1
    BY <1>1, <1>3, ResetDisplacesHolder
  <2>2. IsFiniteSet(Displaced') /\ Cardinality(Displaced') <= Cardinality(Displaced) + 1
    BY <2>1, DisplacedFinite, GrowsByOne
  <2>3. Cardinality(Displaced') \in Nat
    BY <2>2, FS_CardinalityType
  <2> QED
    BY <1>1, <1>2, <2>1, <2>2, <2>3, DisplacedFinite DEF IInv, DisplacedByResets
<1>4. CASE ~ResetActive /\ ~ResetForced
  <2>1. Displaced' \subseteq Displaced /\ resets' = resets
    BY <1>1, <1>4, NotDisplacing
  <2>2. Cardinality(Displaced') <= Cardinality(Displaced) /\ IsFiniteSet(Displaced')
    BY <2>1, DisplacedFinite, FS_Subset
  <2>3. Cardinality(Displaced') \in Nat
    BY <2>2, FS_CardinalityType
  <2> QED
    BY <1>1, <1>2, <2>1, <2>2, <2>3, DisplacedFinite DEF IInv, DisplacedByResets
<1> QED
  BY <1>3, <1>4

\* Nobody is displaced at the start.
LEMMA Initial == Init => IInv
<1> SUFFICES ASSUME Init PROVE IInv
  OBVIOUS
<1>1. TypeOK
  BY DEF Init, TypeOK, Phase
<1>2. Displaced = {}
  BY DEF Init, Displaced, Entered
<1> QED
  BY <1>1, <1>2, FS_EmptySet DEF Init, IInv, DisplacedByResets

\* The sessions on the port are the holder of the lock and displaced ones.
LEMMA Bounded == IInv => OneSessionPerReset
<1> SUFFICES ASSUME IInv PROVE OneSessionPerReset
  OBVIOUS
<1>1. PortUsers \subseteq Displaced \cup {lock}
  BY DEF PortUsers, Displaced, Entered
<1>2. IsFiniteSet(PortUsers) /\ Cardinality(PortUsers) <= Cardinality(Displaced) + 1
  BY <1>1, DisplacedFinite, GrowsByOne
<1>3. Cardinality(PortUsers) \in Nat
  BY <1>2, FS_CardinalityType
<1> QED
  BY <1>2, <1>3, DisplacedFinite DEF IInv, TypeOK, DisplacedByResets, OneSessionPerReset

-----------------------------------------------------------------------------
\* The registry, the sessions and the locks keep their types.
THEOREM ConsoleTypes == Spec => []TypeOK
<1>1. Init => TypeOK
  BY Initial DEF IInv
<1> QED
  BY <1>1, SerialTypeStep, PTL DEF Spec

\* serial_console(), reset_session(): sessions that have the port open exceed the
\* resets by one at most, whatever connects, fails, ends late or takes the lock.
THEOREM SessionsBounded == Spec => []OneSessionPerReset
<1>1. Spec => []IInv
  BY Initial, Inductive, PTL DEF Spec
<1> QED
  BY <1>1, Bounded, PTL

\* A lock in force ends by a reset, by its own release or with its own session.
THEOREM LocksKept == Spec => LockEndsWithHolder
<1> DEFINE Kept ==
        \A x \in Sessions \cup Leases : lock = x /\ lock' # x =>
          \/ resets' = resets + 1
          \/ x \in Leases /\ UNCHANGED phase
          \/ x \in Sessions /\ phase'[x] = "over"
<1>1. TypeOK /\ [Next]_vars => [Kept]_vars
  <2> SUFFICES ASSUME TypeOK, [Next]_vars PROVE [Kept]_vars
    OBVIOUS
  <2> USE Distinct DEF TypeOK, Phase, Goes
  <2>1. ASSUME NEW s \in Sessions, Connect(s) PROVE Kept
    BY <2>1 DEF Connect, LockFree
  <2>2. ASSUME NEW s \in Sessions, Finish(s) PROVE Kept
    BY <2>2 DEF Finish, ReleaseOwn
  <2>3. CASE ResetActive \/ ResetForced
    BY <2>3 DEF ResetActive, ResetForced
  <2>4. ASSUME NEW a \in Leases, AcquireLock(a) \/ ReleaseLock(a) PROVE Kept
    BY <2>4 DEF AcquireLock, ReleaseLock, LockFree
  <2>5. ASSUME lock' = lock PROVE Kept
    BY <2>5
  <2> QED
    BY <2>1, <2>2, <2>3, <2>4, <2>5
    DEF Next, vars, ConnectBusy, AcceptFails, Accepted, ProbeEnds, OpenPort
<1>2. Init => TypeOK
  BY Initial DEF IInv
<1> QED
  BY <1>1, <1>2, SerialTypeStep, PTL DEF Spec, LockEndsWithHolder

-----------------------------------------------------------------------------
(* THE VIDEO STREAM.                                                       *)

\* The module VideoCapture counts as FiniteSets does.
LEMMA VideoSizes ==
    \A S : Video!Cardinality(S) = Cardinality(S) /\ (Video!IsFiniteSet(S) <=> IsFiniteSet(S))
<1>1. \A S : Video!Cardinality(S) = Cardinality(S)
  BY DEF Cardinality, Video!Cardinality
<1>2. \A S : Video!IsFiniteSet(S) <=> IsFiniteSet(S)
  BY DEF IsFiniteSet, Video!IsFiniteSet
<1> QED
  BY <1>1, <1>2

\* A row of the table of streams.
Entry == [phase : Video!Phases, last : Streams \cup {None}, encoder : Video!Encoders, browser :
  Video!Browser]

\* A stream is an entry with all its fields.
LEMMA EntryOf ==
    ASSUME Video!TypeOK, NEW s \in Streams
    PROVE  /\ stream[s].phase \in Video!Phases /\ stream[s].last \in Streams \cup {None}
           /\ stream[s].encoder \in Video!Encoders /\ stream[s].browser \in Video!Browser
           /\ stream[s] \in Entry
  BY DEF Video!TypeOK, Entry

\* A new entry for one stream leaves the others alone.
LEMMA OneEntry ==
    ASSUME Video!TypeOK, NEW s \in Streams, NEW e \in Entry, stream' = [stream EXCEPT ![s] = e]
    PROVE  /\ stream' \in [Streams -> Entry] /\ stream'[s] = e
           /\ \A x \in Streams \ {s} : stream'[x] = stream[x]
  BY DEF Video!TypeOK, Entry

\* What taking over does to the two streams: the one found stops, at most.
LEMMA TakesOver ==
    ASSUME Video!TypeOK, NEW s \in Streams, Video!TakeOver(s)
    PROVE  /\ stream' \in [Streams -> Entry] /\ stream[s].phase = "looking"
           /\ \A x \in Streams :
                /\ stream'[x].phase = IF x = s THEN "taking" ELSE stream[x].phase
                /\ stream'[x].encoder = "running" => stream[x].encoder = "running"
<1> DEFINE p == stream[s].last
<1>1. p \in Streams \cup {None} /\ stream \in [Streams -> Entry]
  BY EntryOf DEF Video!TypeOK, Entry
<1>2. CASE p = None
  BY <1>1, <1>2 DEF Video!TakeOver, Video!Goes, Video!In, Entry, Video!Phases, Video!Encoders,
     Video!Browser
<1>3. CASE p # None
  <2>1. PICK e \in Video!Signalled(stream[p].encoder) :
            stream' = [stream EXCEPT ![s].phase = "taking", ![p].encoder = e]
    BY <1>3 DEF Video!TakeOver
  <2>2. p \in Streams /\ e \in Video!Encoders
          /\ (e = "running" => stream[p].encoder = "running")
    <3>1. p \in Streams
      BY <1>1, <1>3
    <3>2. stream[p].encoder \in Video!Encoders
      BY <3>1, EntryOf
    <3> QED
      BY <3>1, <3>2 DEF Video!Signalled, Video!Encoders
  <2> HIDE DEF p
  <2>3. stream' = [[stream EXCEPT ![s].phase = "taking"] EXCEPT ![p].encoder = e]
    BY <2>1
  <2> DEFINE mid == [stream EXCEPT ![s].phase = "taking"]
  <2>4. /\ mid \in [Streams -> Entry]
        /\ \A x \in Streams : mid[x].phase = (IF x = s THEN "taking" ELSE stream[x].phase)
                               /\ mid[x].encoder = stream[x].encoder
    BY <1>1 DEF Entry, Video!Phases
  <2> HIDE DEF mid
  <2>5. stream' = [mid EXCEPT ![p].encoder = e]
    BY <2>3 DEF mid
  <2>6. /\ stream' \in [Streams -> Entry]
        /\ \A x \in Streams : stream'[x].phase = mid[x].phase
                 /\ stream'[x].encoder = (IF x = p THEN e ELSE mid[x].encoder)
    BY <2>2, <2>4, <2>5 DEF Entry
  <2> QED
    BY <2>2, <2>4, <2>6 DEF Video!TakeOver, Video!In
<1> QED
  BY <1>2, <1>3

\* Starting the encoder, and stopping it at the end.
LEMMA StartsEncoder ==
    ASSUME Video!TypeOK, NEW s \in Streams, Video!StartEncoder(s)
    PROVE  /\ stream' \in [Streams -> Entry] /\ stream[s].phase = "starting"
           /\ stream'[s].phase = "started" /\ \A x \in Streams \ {s} : stream'[x] = stream[x]
<1> DEFINE e == [stream[s] EXCEPT !.phase = "started", !.encoder = "running"]
<1>1. e \in Entry /\ e.phase = "started"
  BY EntryOf DEF Entry, Video!Phases, Video!Encoders
<1>2. stream' = [stream EXCEPT ![s] = e] /\ stream[s].phase = "starting"
  BY DEF Video!StartEncoder, Video!In
<1> HIDE DEF e
<1> QED
  BY <1>1, <1>2, OneEntry

\* Freeing signals the encoder and changes no other stream.
LEMMA StopsEncoder ==
    ASSUME Video!TypeOK, NEW s \in Streams, Video!Free(s)
    PROVE  /\ stream' \in [Streams -> Entry] /\ stream[s].phase = "closing"
           /\ stream'[s].phase = "freed" /\ stream'[s].encoder # "running"
           /\ \A x \in Streams \ {s} : stream'[x] = stream[x]
<1>1. PICK c \in Video!Signalled(stream[s].encoder) :
          stream' = [stream EXCEPT ![s] = [@ EXCEPT !.phase = "freed", !.encoder = c]]
  BY DEF Video!Free
<1>2. c \in Video!Encoders /\ c # "running"
  BY EntryOf DEF Video!Signalled, Video!Encoders
<1> DEFINE e == [stream[s] EXCEPT !.phase = "freed", !.encoder = c]
<1>3. e \in Entry /\ e.phase = "freed" /\ e.encoder # "running"
  BY <1>2, EntryOf DEF Entry, Video!Phases
<1>4. stream' = [stream EXCEPT ![s] = e] /\ stream[s].phase = "closing"
  BY <1>1 DEF Video!Free, Video!In
<1> HIDE DEF e
<1> QED
  BY <1>3, <1>4, OneEntry

\* Every step of a stream or still keeps the types.
LEMMA VideoTypeStep == Video!TypeOK /\ [Video!Next]_(Video!vars) => Video!TypeOK'
<1> SUFFICES ASSUME Video!TypeOK, [Video!Next]_(Video!vars) PROVE Video!TypeOK'
  OBVIOUS
<1> USE DEF Video!TypeOK, Video!Phases, Video!Encoders, Video!Browser, Video!Goes
<1>1. ASSUME NEW f \in Stills, Video!StillTakes(f) \/ Video!StillRefused(f)
               \/ Video!StillEnds(f) PROVE Video!TypeOK'
  BY <1>1 DEF Video!StillTakes, Video!StillRefused, Video!StillEnds
<1>2. ASSUME NEW s \in Streams, Video!Handler(s) PROVE Video!TypeOK'
  <2>1. CASE Video!Look(s)
    BY <2>1 DEF Video!Look
  <2>2. CASE Video!TakeOver(s)
    BY <2>2, TakesOver DEF Video!TakeOver, Entry
  <2>3. CASE Video!Acquire(s) \/ Video!AcquireTimesOut(s)
    BY <2>3 DEF Video!Acquire, Video!AcquireTimesOut
  <2>4. CASE Video!StartFails(s)
    BY <2>4 DEF Video!StartFails, Video!FailedStart
  <2>6. CASE Video!StartEncoder(s)
    BY <2>6, StartsEncoder DEF Video!StartEncoder, Entry
  <2>5. CASE Video!Register(s) \/ Video!FirstChunk(s)
    BY <2>5 DEF Video!Register, Video!FirstChunk
  <2> QED
    BY <1>2, <2>1, <2>2, <2>3, <2>4, <2>5, <2>6 DEF Video!Handler
<1>3. ASSUME NEW s \in Streams, Video!Generator(s) PROVE Video!TypeOK'
  <2>1. CASE Video!StreamEnds(s)
    BY <2>1 DEF Video!StreamEnds
  <2>2. CASE Video!Free(s)
    BY <2>2, StopsEncoder DEF Video!Free, Entry
  <2>3. CASE Video!Unregister(s)
    BY <2>3 DEF Video!Unregister, Video!Registered
  <2> QED
    BY <1>3, <2>1, <2>2, <2>3 DEF Video!Generator
<1>4. ASSUME NEW s \in Streams, Video!Abandon(s) \/ Video!Frame(s) \/ Video!EncoderDies(s)
    PROVE Video!TypeOK'
  BY <1>4 DEF Video!Abandon, Video!Frame, Video!EncoderDies
<1>5. ASSUME NEW s \in Streams, NEW b \in Video!Browser, Video!BrowserGoes(s, b)
    PROVE Video!TypeOK'
  BY <1>5 DEF Video!BrowserGoes
<1>6. CASE UNCHANGED Video!vars
  BY <1>6 DEF Video!vars
<1> QED
  BY <1>1, <1>2, <1>3, <1>4, <1>5, <1>6 DEF Video!Next

\* Every step keeps who has the lock, and whose encoder runs.
LEMMA VideoInvStep == Video!IInv /\ [Video!Next]_(Video!vars) => Video!IInv'
<1> SUFFICES ASSUME Video!IInv, [Video!Next]_(Video!vars) PROVE Video!IInv'
  OBVIOUS
<1>0. Video!TypeOK'
  BY VideoTypeStep DEF Video!IInv
<1> DEFINE Rest == Video!StreamsHold /\ Video!StillsHold /\ Video!EncoderNeedsLock
      /\ Video!RunningIsRegistered
<1> USE VideoAssumption DEF Video!IInv, Video!TypeOK, Video!Phases, Video!Encoders,
      Video!Browser, Video!Goes, Video!In, Video!RequestsApart, Video!StreamsHold,
                  Video!StillsHold, Video!EncoderNeedsLock, Video!RunningIsRegistered,
                  Video!Holding
<1>1. ASSUME NEW f \in Stills, Video!StillTakes(f) \/ Video!StillRefused(f)
               \/ Video!StillEnds(f) PROVE Rest'
  BY <1>1 DEF Video!StillTakes, Video!StillRefused, Video!StillEnds
<1>2. ASSUME NEW s \in Streams, Video!Handler(s) PROVE Rest'
  <2>1. CASE Video!Look(s)
    BY <2>1 DEF Video!Look
  <2>2. CASE Video!TakeOver(s)
    <3>1. /\ stream[s].phase = "looking"
          /\ \A x \in Streams :
                /\ stream'[x].phase = (IF x = s THEN "taking" ELSE stream[x].phase)
                /\ stream'[x].encoder = "running" => stream[x].encoder = "running"
      BY <2>2, TakesOver
    <3>2. UNCHANGED <<capture, current, still>>
      BY <2>2 DEF Video!TakeOver
    <3>3. Video!StreamsHold'
      BY <3>1, <3>2
    <3>4. Video!StillsHold' /\ Video!EncoderNeedsLock'
      BY <3>1, <3>2
    <3>5. Video!RunningIsRegistered'
      BY <3>1, <3>2
    <3> QED
      BY <3>3, <3>4, <3>5
  <2>3. CASE Video!Acquire(s) \/ Video!AcquireTimesOut(s)
    BY <2>3 DEF Video!Acquire, Video!AcquireTimesOut
  <2>4. CASE Video!StartFails(s)
    BY <2>4 DEF Video!StartFails, Video!FailedStart
  <2>6. CASE Video!StartEncoder(s)
    <3>1. /\ stream[s].phase = "starting" /\ stream'[s].phase = "started"
          /\ \A x \in Streams \ {s} : stream'[x] = stream[x]
      BY <2>6, StartsEncoder
    <3>2. UNCHANGED <<capture, current, still>>
      BY <2>6 DEF Video!StartEncoder
    <3> QED
      BY <3>1, <3>2
  <2>5. CASE Video!Register(s) \/ Video!FirstChunk(s)
    BY <2>5 DEF Video!Register, Video!FirstChunk
  <2> QED
    BY <1>2, <2>1, <2>2, <2>3, <2>4, <2>5, <2>6 DEF Video!Handler
<1>3. ASSUME NEW s \in Streams, Video!Generator(s) PROVE Rest'
  <2>1. CASE Video!StreamEnds(s)
    BY <2>1 DEF Video!StreamEnds
  <2>2. CASE Video!Free(s)
    <3>1. /\ stream[s].phase = "closing" /\ stream'[s].phase = "freed"
          /\ stream'[s].encoder # "running"
          /\ \A x \in Streams \ {s} : stream'[x] = stream[x]
      BY <2>2, StopsEncoder
    <3>2. capture' = None /\ UNCHANGED <<current, still>>
      BY <2>2 DEF Video!Free
    <3> QED
      BY <3>1, <3>2
  <2>3. CASE Video!Unregister(s)
    BY <2>3 DEF Video!Unregister, Video!Registered
  <2> QED
    BY <1>3, <2>1, <2>2, <2>3 DEF Video!Generator
<1>4. ASSUME NEW s \in Streams, Video!Abandon(s) \/ Video!Frame(s) \/ Video!EncoderDies(s)
    PROVE Rest'
  BY <1>4 DEF Video!Abandon, Video!Frame, Video!EncoderDies
<1>5. ASSUME NEW s \in Streams, NEW b \in Video!Browser, Video!BrowserGoes(s, b) PROVE Rest'
  BY <1>5 DEF Video!BrowserGoes
<1>6. CASE UNCHANGED Video!vars
  BY <1>6 DEF Video!vars
<1> HIDE DEF Video!TypeOK
<1> QED
  BY <1>0, <1>1, <1>2, <1>3, <1>4, <1>5, <1>6 DEF Video!Next

\* At first nothing captures.
LEMMA VideoInvInit == Video!Init => Video!IInv
  BY VideoAssumption DEF Video!Init, Video!IInv, Video!TypeOK, Video!Phases, Video!Encoders,
     Video!Browser, Video!RequestsApart, Video!StreamsHold,
             Video!StillsHold, Video!EncoderNeedsLock, Video!RunningIsRegistered,
             Video!Holding

\* Whatever captures has the lock, and the lock has somebody to give it back.
LEMMA VideoInvEnough == Video!IInv => Video!DeviceExclusive /\ Video!RunningIsRegistered
                          /\ Video!LockHasOwner
<1> SUFFICES ASSUME Video!IInv
    PROVE Video!DeviceExclusive /\ Video!RunningIsRegistered /\ Video!LockHasOwner
  OBVIOUS
<1>1. Video!DeviceExclusive
  <2> DEFINE Capturing == {s \in Streams : stream[s].encoder = "running"}
                            \cup {f \in Stills : still[f] = "capturing"}
  <2>1. Capturing \subseteq {capture}
    BY DEF Video!IInv, Video!StillsHold, Video!EncoderNeedsLock
  <2>2. IsFiniteSet({capture}) /\ Cardinality({capture}) = 1
    BY FS_Singleton
  <2>3. Cardinality(Capturing) <= 1
    BY <2>1, <2>2, FS_Subset
  <2> QED
    BY <2>3, VideoSizes DEF Video!DeviceExclusive
<1>2. Video!LockHasOwner
  BY DEF Video!IInv, Video!StreamsHold, Video!Holding, Video!LockHasOwner
<1> QED
  BY <1>1, <1>2 DEF Video!IInv

\* The invariant of streams holds for ever.
LEMMA VideoInductive == Video!Spec => []Video!IInv
<1>1. Video!IInv /\ [Video!Next]_(Video!vars) => Video!IInv'
  BY VideoInvStep
<1>2. Video!Init => Video!IInv
  BY VideoInvInit
<1> QED
  BY <1>1, <1>2, PTL DEF Video!Spec

-----------------------------------------------------------------------------
(* THE WEB SESSION AND ITS CONSOLES.                                       *)

\* The module WebAccess counts as FiniteSets does.
LEMMA WebSizes ==
    \A S : Web!Cardinality(S) = Cardinality(S) /\ (Web!IsFiniteSet(S) <=> IsFiniteSet(S))
<1>1. \A S : Web!Cardinality(S) = Cardinality(S)
  BY DEF Cardinality, Web!Cardinality
<1>2. \A S : Web!IsFiniteSet(S) <=> IsFiniteSet(S)
  BY DEF IsFiniteSet, Web!IsFiniteSet
<1> QED
  BY <1>1, <1>2

-----------------------------------------------------------------------------
(* Sessions.                                                               *)

\* What a step other than opening a session may leave of the table.
Shrunk(new) ==
    /\ DOMAIN new \subseteq DOMAIN sessions
    /\ \A t \in DOMAIN new : new[t] \in Web!Session /\ new[t].password = sessions[t].password

\* What is claimed of the table of sessions.
SessionPart ==
    /\ DOMAIN sessions \subseteq Web!Tokens
    /\ \A t \in DOMAIN sessions : sessions[t] \in Web!Session
    /\ Cardinality(DOMAIN sessions) <= MaxSessions
    /\ Web!SessionsOfCurrentPassword

\* Tokens are few.
LEMMA TableFinite == Web!TypeOK => IsFiniteSet(DOMAIN sessions)
<1> SUFFICES ASSUME Web!TypeOK PROVE IsFiniteSet(DOMAIN sessions)
  OBVIOUS
<1>1. MaxTokens \in Int /\ 1 \in Int
  BY WebAssumption DEF Web!WebConstants
<1>2. IsFiniteSet(1 .. MaxTokens)
  BY <1>1, FS_Interval
<1>3. DOMAIN sessions \subseteq 1 .. MaxTokens
  BY DEF Web!TypeOK, Web!Tokens
<1> QED
  BY <1>2, <1>3, FS_Subset

\* Dropping sessions and checking one leave no session that was not there before.
LEMMA OnlyShrinks == ASSUME Web!TypeOK, NEW live, live \subseteq DOMAIN sessions
    PROVE Shrunk(Web!Only(live))
  BY DEF Shrunk, Web!Only, Web!TypeOK

\* A session that is checked stays as it is, is touched, or goes.
LEMMA CheckedShrinks == ASSUME Web!TypeOK, NEW t, NEW touch PROVE Shrunk(Web!Checked(t, touch))
<1>1. CASE ~Web!Valid(t)
  BY <1>1, OnlyShrinks DEF Web!Checked
<1>2. CASE Web!Valid(t)
  <2>1. t \in DOMAIN sessions /\ sessions[t] \in Web!Session /\ now \in Web!Times
    BY <1>2 DEF Web!Valid, Web!TypeOK
  <2>2. \A u \in DOMAIN sessions : sessions[u] \in Web!Session
    BY DEF Web!TypeOK
  <2> DEFINE touched == [sessions EXCEPT ![t].last = now]
  <2>3. DOMAIN touched = DOMAIN sessions
    OBVIOUS
  <2>4. \A u \in DOMAIN sessions :
          touched[u] = IF u = t THEN [sessions[t] EXCEPT !.last = now] ELSE sessions[u]
    OBVIOUS
  <2>5. /\ [sessions[t] EXCEPT !.last = now] \in Web!Session
        /\ [sessions[t] EXCEPT !.last = now].password = sessions[t].password
    BY <2>1 DEF Web!Session
  <2> HIDE DEF touched
  <2>6. Shrunk(touched)
    BY <2>2, <2>3, <2>4, <2>5 DEF Shrunk
  <2>7. Shrunk(sessions)
    BY <2>2 DEF Shrunk
  <2> QED
    BY <1>2, <2>6, <2>7 DEF Web!Checked, touched
<1> QED
  BY <1>1, <1>2

\* A table that shrinks keeps what is true of it while the password stays.
LEMMA ShrunkKeeps ==
    ASSUME Web!TypeOK, Web!SessionsOfCurrentPassword, Shrunk(sessions'),
           credentials' = credentials \/ DOMAIN sessions = {}
    PROVE  SessionPart'
<1>1. DOMAIN sessions' \subseteq DOMAIN sessions
  BY DEF Shrunk
<1>2. Cardinality(DOMAIN sessions') <= Cardinality(DOMAIN sessions)
  BY <1>1, TableFinite, FS_Subset
<1>3. Cardinality(DOMAIN sessions) \in Nat /\ Cardinality(DOMAIN sessions') \in Nat
  BY <1>1, TableFinite, FS_Subset, FS_CardinalityType
<1>4. Cardinality(DOMAIN sessions') <= MaxSessions
  BY <1>2, <1>3, WebAssumption, WebSizes DEF Web!TypeOK, Web!WebConstants
<1> QED
  BY <1>1, <1>4 DEF Web!TypeOK, Shrunk, SessionPart, Web!SessionsOfCurrentPassword

\* An empty table is a good one.
LEMMA EmptyKeeps ==
    ASSUME sessions' = <<>>
    PROVE  SessionPart'
<1>1. DOMAIN sessions' = {}
  OBVIOUS
<1>2. Cardinality(DOMAIN sessions') = 0
  BY <1>1, FS_EmptySet
<1> QED
  BY <1>1, <1>2, WebAssumption DEF SessionPart, Web!SessionsOfCurrentPassword, Web!WebConstants

\* There is room for one session more in what a login keeps.
LEMMA KeptHasRoom ==
    ASSUME Web!TypeOK, NEW live \in Web!Kept
    PROVE  live \subseteq DOMAIN sessions /\ Cardinality(live) < MaxSessions
             /\ IsFiniteSet(live)
<1>1. Web!Current \subseteq DOMAIN sessions
  BY DEF Web!Current
<1>2. IsFiniteSet(Web!Current) /\ Cardinality(Web!Current) <= Cardinality(DOMAIN sessions)
  BY <1>1, TableFinite, FS_Subset
<1>3. Cardinality(Web!Current) \in Nat /\ Cardinality(DOMAIN sessions) \in Nat
  BY <1>2, TableFinite, FS_CardinalityType
<1>4. MaxSessions \in Nat /\ Cardinality(Web!Current) <= MaxSessions
  BY <1>2, <1>3, WebAssumption, WebSizes DEF Web!TypeOK, Web!WebConstants
<1>5. CASE Cardinality(Web!Current) < MaxSessions
  BY <1>1, <1>2, <1>5, WebSizes DEF Web!Kept
<1>6. CASE ~(Cardinality(Web!Current) < MaxSessions)
  <2>1. PICK t \in Web!Evicted : live = Web!Current \ {t}
    BY <1>6, WebSizes DEF Web!Kept
  <2>2. t \in Web!Current
    BY DEF Web!Evicted
  <2>3. IsFiniteSet(live) /\ Cardinality(live) = Cardinality(Web!Current) - 1
    BY <1>2, <2>1, <2>2, FS_RemoveElement
  <2> QED
    BY <1>1, <1>3, <1>4, <2>1, <2>3
<1> QED
  BY <1>5, <1>6

\* A new session has the next token and the password in force.
LEMMA NewKeeps ==
    ASSUME Web!TypeOK, NEW live, live \subseteq DOMAIN sessions,
           Cardinality(live) < MaxSessions,
           IsFiniteSet(live), NEW p \in Passwords, Web!NewSession(live, p), credentials' = p,
           \A t \in live : sessions[t].password = p
    PROVE  SessionPart' /\ issued' \in Web!Tokens /\ issued' \in 0 .. MaxTokens
<1>1. /\ issued \in Nat /\ MaxTokens \in Nat /\ now \in Nat /\ now \in Web!Times
      /\ Lifetime \in Nat
      /\ MaxSessions \in Nat
  BY WebAssumption DEF Web!TypeOK, Web!Times, Web!WebConstants
<1>2. issued' = issued + 1 /\ issued + 1 <= MaxTokens
  BY <1>1 DEF Web!NewSession
<1> DEFINE began == [expires |-> now + Lifetime, last |-> now, password |-> p]
           table == [t \in live \cup {issued + 1} |-> IF t \in live THEN sessions[t] ELSE began]
<1>3. began \in Web!Session /\ began.password = p
  BY <1>1 DEF Web!Session
<1>4. sessions' = table
  BY DEF Web!NewSession
<1> HIDE DEF began
<1>5. /\ DOMAIN table = live \cup {issued + 1}
      /\ \A t \in live \cup {issued + 1} :
           table[t] = IF t \in live THEN sessions[t] ELSE began
  OBVIOUS
<1> HIDE DEF table
<1>6. \A t \in live : sessions[t] \in Web!Session
  BY DEF Web!TypeOK
<1>7. \A t \in DOMAIN table : table[t] \in Web!Session /\ table[t].password = p
  BY <1>3, <1>5, <1>6
<1>8. Cardinality(DOMAIN table) <= MaxSessions
  <2>1. Cardinality(live) \in Nat
    BY FS_CardinalityType
  <2>2. Cardinality(live \cup {issued + 1})
           = IF issued + 1 \in live THEN Cardinality(live) ELSE Cardinality(live) + 1
    BY FS_AddElement
  <2>3. Cardinality(live \cup {issued + 1}) \in Nat
    BY FS_AddElement, FS_CardinalityType
  <2> QED
    BY <1>1, <1>5, <2>1, <2>2, <2>3
<1>9. DOMAIN table \subseteq Web!Tokens
  BY <1>1, <1>2, <1>5 DEF Web!TypeOK, Web!Tokens
<1> QED
  BY <1>1, <1>2, <1>4, <1>7, <1>8, <1>9 DEF SessionPart, Web!SessionsOfCurrentPassword,
     Web!Tokens

\* The password loaded is one, and the one of every session.
LEMMA LoadedIsCurrent ==
    ASSUME Web!TypeOK, Web!SessionsOfCurrentPassword
    PROVE  /\ Web!Loaded \in Passwords
           /\ credentials # None => Web!Loaded = credentials
           /\ DOMAIN sessions # {} => credentials # None
           /\ \A t \in DOMAIN sessions : sessions[t].password = Web!Loaded
<1>1. Web!Loaded \in Passwords
  BY WebAssumption DEF Web!TypeOK, Web!Loaded, Web!WebConstants
<1>2. ASSUME NEW t \in DOMAIN sessions
    PROVE credentials # None /\ sessions[t].password = credentials
  BY WebAssumption DEF Web!TypeOK, Web!Session, Web!SessionsOfCurrentPassword, Web!WebConstants
<1> QED
  BY <1>1, <1>2 DEF Web!Loaded

\* A console changes nothing but itself, the slots and the table of sessions.
LEMMA ServesLeaves ==
    ASSUME NEW c \in Consoles, Web!Serves(c)
    PROVE  UNCHANGED <<now, file, credentials, attempts, issued, cookie, request, server, stops,
                       acknowledged, doubtful>>
<1>1. CASE \E b \in Browsers, kind \in {"ssh", "hid", "remote"} : Web!Connect(c, b, kind)
  BY <1>1 DEF Web!Connect, Web!record
<1>2. CASE Web!Revoked(c) \/ Web!RevokedLate(c) \/ Web!Credentials(c) \/ Web!Message(c)
  BY <1>2 DEF Web!Revoked, Web!RevokedLate, Web!Credentials, Web!Message, Web!record
<1>3. CASE Web!Accept(c) \/ Web!AcceptFull(c) \/ Web!Reached(c) \/ Web!Connected(c)
  BY <1>3 DEF Web!Accept, Web!AcceptFull, Web!Reached, Web!Connected, Web!store, Web!record
<1>4. CASE Web!Drained(c) \/ Web!Ends(c) \/ Web!Finish(c) \/ Web!Closed(c)
  BY <1>4 DEF Web!Drained, Web!Ends, Web!Finish, Web!Closed, Web!store, Web!record
<1> QED
  BY <1>1, <1>2, <1>3, <1>4 DEF Web!Serves

\* Sessions keep their types, their number and the password in force.
LEMMA SessionStep ==
    ASSUME Web!TypeOK, Web!SessionsOfCurrentPassword, Web!StoppedForgets, [Web!Next]_(Web!vars)
    PROVE  SessionPart' /\ issued' \in 0 .. MaxTokens
<1> USE LoadedIsCurrent
<1>0. SessionPart /\ issued \in 0 .. MaxTokens
  BY WebSizes DEF Web!TypeOK, SessionPart
<1>1. ASSUME Shrunk(sessions'), credentials' = credentials \/ DOMAIN sessions = {},
             issued' = issued
      PROVE  SessionPart' /\ issued' \in 0 .. MaxTokens
  BY <1>0, <1>1, ShrunkKeeps
<1>2. ASSUME sessions' = sessions, credentials' = credentials \/ DOMAIN sessions = {},
             issued' = issued
      PROVE  SessionPart' /\ issued' \in 0 .. MaxTokens
  <2>1. Shrunk(sessions)
    BY DEF Shrunk, Web!TypeOK
  <2> QED
    BY <1>1, <1>2, <2>1
<1>3. ASSUME NEW b \in Browsers, Web!Touch(b) \/ Web!LoginAnswered(b) \/ Web!Logout(b)
      PROVE  SessionPart' /\ issued' \in 0 .. MaxTokens
  <2>1. Shrunk(sessions')
    BY <1>3, CheckedShrinks, OnlyShrinks DEF Web!Touch, Web!LoginAnswered, Web!Logout
  <2> QED
    BY <1>1, <1>3, <2>1 DEF Web!Touch, Web!LoginAnswered, Web!Logout
<1>4. ASSUME NEW b \in Browsers, NEW kind, Web!Admitted(b, kind)
      PROVE  SessionPart' /\ issued' \in 0 .. MaxTokens
  BY <1>1, <1>4, CheckedShrinks DEF Web!Admitted
<1>5. ASSUME NEW b \in Browsers, Web!LoginFails(b)
      PROVE  SessionPart' /\ issued' \in 0 .. MaxTokens
  <2>1. sessions' = sessions /\ issued' = issued /\ credentials' \in {credentials, Web!Loaded}
    BY <1>5 DEF Web!LoginFails
  <2> QED
    BY <1>2, <2>1
<1>6. ASSUME NEW b \in Browsers, Web!Login(b)
      PROVE  SessionPart' /\ issued' \in 0 .. MaxTokens
  <2>1. PICK live \in Web!Kept : Web!NewSession(live, Web!Loaded)
    BY <1>6 DEF Web!Login
  <2>2. credentials' = Web!Loaded
    BY <1>6 DEF Web!Login
  <2> QED
    BY <2>1, <2>2, KeptHasRoom, NewKeeps
<1>7. ASSUME NEW b \in Browsers, Web!ChangeRefused(b)
      PROVE  SessionPart' /\ issued' \in 0 .. MaxTokens
  <2>1. Shrunk(sessions)
    BY DEF Shrunk, Web!TypeOK
  <2>2. Shrunk(sessions')
    BY <1>7, <2>1, CheckedShrinks DEF Web!ChangeRefused
  <2>3. issued' = issued /\ (credentials' = credentials \/ DOMAIN sessions = {})
    BY <1>7 DEF Web!ChangeRefused
  <2> QED
    BY <1>1, <2>2, <2>3
<1>8. ASSUME NEW b \in Browsers, NEW p \in Passwords, Web!ChangePassword(b, p)
      PROVE  SessionPart' /\ issued' \in 0 .. MaxTokens
  <2>1. Web!NewSession({}, p) /\ credentials' = p
    BY <1>8 DEF Web!ChangePassword, Web!Remaining
  <2>2. Cardinality({}) < MaxSessions /\ IsFiniteSet({})
    BY FS_EmptySet, WebAssumption DEF Web!WebConstants
  <2> QED
    BY <2>1, <2>2, NewKeeps
<1>9. ASSUME NEW b \in Browsers, NEW p \in Passwords, Web!ChangeFails(b, p)
      PROVE  SessionPart' /\ issued' \in 0 .. MaxTokens
  <2>1. Shrunk(sessions')
    BY <1>9, CheckedShrinks DEF Web!ChangeFails
  <2>2. issued' = issued /\ (credentials' = credentials \/ DOMAIN sessions = {})
    BY <1>9 DEF Web!ChangeFails
  <2> QED
    BY <1>1, <2>1, <2>2
<1>10. ASSUME NEW c \in Consoles, NEW b \in Browsers, NEW kind, Web!Connect(c, b, kind)
      PROVE  SessionPart' /\ issued' \in 0 .. MaxTokens
  BY <1>1, <1>10, CheckedShrinks DEF Web!Connect
<1>11. ASSUME NEW c \in Consoles,
              Web!Revoked(c) \/ Web!RevokedLate(c) \/ Web!Credentials(c) \/ Web!Message(c)
      PROVE  SessionPart' /\ issued' \in 0 .. MaxTokens
  <2>1. \E touch \in BOOLEAN : Web!Guarded(c, touch)
    BY <1>11 DEF Web!Revoked, Web!RevokedLate, Web!Credentials, Web!Message
  <2>2. Shrunk(sessions')
    BY <2>1, CheckedShrinks DEF Web!Guarded
  <2>3. issued' = issued /\ credentials' = credentials
    BY <1>11 DEF Web!Revoked, Web!RevokedLate, Web!Credentials, Web!Message
  <2> QED
    BY <1>1, <2>2, <2>3
<1>12. ASSUME NEW c \in Consoles,
              \/ Web!Accept(c) \/ Web!AcceptFull(c) \/ Web!Reached(c) \/ Web!Connected(c)
              \/ Web!Drained(c) \/ Web!Ends(c) \/ Web!Finish(c) \/ Web!Closed(c)
      PROVE  SessionPart' /\ issued' \in 0 .. MaxTokens
  <2>1. sessions' = sessions /\ issued' = issued /\ credentials' = credentials
    BY <1>12 DEF Web!Accept, Web!AcceptFull, Web!Reached, Web!Connected, Web!Drained, Web!Ends,
       Web!Finish, Web!Closed, Web!store
  <2> QED
    BY <1>2, <2>1
<1>13. CASE Web!Crash \/ Web!ResetStops
  <2>1. sessions' = <<>> /\ issued' = issued
    BY <1>13 DEF Web!Crash, Web!ResetStops, Web!Emptied
  <2> QED
    BY <1>0, <2>1, EmptyKeeps
<1>14. CASE Web!Restart \/ Web!ResetWrites \/ Web!ResetStarts \/ Web!Tick \/ UNCHANGED Web!vars
  BY <1>2, <1>14 DEF Web!Restart, Web!ResetWrites, Web!ResetStarts, Web!Tick, Web!vars,
     Web!store
<1> QED
  BY <1>3, <1>4, <1>5, <1>6, <1>7, <1>8, <1>9, <1>10, <1>11, <1>12, <1>13, <1>14
  DEF Web!Next, Web!Requests, Web!Serves

-----------------------------------------------------------------------------
(* The password in force.                                                  *)

\* What is claimed of the password.
PasswordPart == Web!PasswordAsReported /\ Web!StoppedForgets /\ Web!FactoryUntilWritten

\* What is in force stays what was reported, or what failed since.
LEMMA PasswordStep ==
    ASSUME Web!TypeOK, Web!SessionsOfCurrentPassword, PasswordPart, [Web!Next]_(Web!vars)
    PROVE  PasswordPart'
<1> USE DEF PasswordPart, Web!PasswordAsReported, Web!StoppedForgets, Web!FactoryUntilWritten,
      Web!Up
<1>0. Web!Loaded \in {acknowledged} \cup doubtful /\ Web!Loaded \in Passwords
  BY WebAssumption, LoadedIsCurrent DEF Web!Loaded, Web!TypeOK
<1>1. ASSUME server' = server, acknowledged' = acknowledged, doubtful' = doubtful, file' = file,
             credentials' \in {credentials, Web!Loaded}, Web!Up \/ credentials' = credentials
      PROVE  PasswordPart'
  BY <1>0, <1>1
<1>2. ASSUME NEW b \in Browsers, Web!Requests(b) PROVE PasswordPart'
  <2>1. CASE Web!Touch(b) \/ Web!LoginAnswered(b) \/ Web!Logout(b) \/ Web!ChangeRefused(b)
    BY <1>1, <2>1 DEF Web!Touch, Web!LoginAnswered, Web!Logout, Web!ChangeRefused, Web!Wants,
       Web!record
  <2>2. CASE \E kind \in {"password", "logout"} : Web!Admitted(b, kind)
    BY <1>1, <2>2 DEF Web!Admitted, Web!record
  <2>3. CASE Web!Login(b) \/ Web!LoginFails(b)
    <3>1. /\ UNCHANGED <<server, acknowledged, doubtful>> /\ server = "up"
          /\ file' \in {file, Web!FirstFile} /\ credentials' \in {credentials, Web!Loaded}
      BY <2>3 DEF Web!Login, Web!LoginFails, Web!record
    <3>2. Web!FirstFile \in {file, Web!Loaded}
      BY DEF Web!FirstFile
    <3> QED
      BY <1>0, <3>1, <3>2, WebAssumption DEF Web!WebConstants
  <2>4. ASSUME NEW p \in Passwords, Web!ChangePassword(b, p) PROVE PasswordPart'
    BY <2>4, WebAssumption DEF Web!ChangePassword, Web!Wants, Web!WebConstants
  <2>5. ASSUME NEW p \in Passwords, Web!ChangeFails(b, p) PROVE PasswordPart'
    BY <1>0, <2>5, WebAssumption DEF Web!ChangeFails, Web!Wants, Web!WebConstants
  <2> QED
    BY <1>2, <2>1, <2>2, <2>3, <2>4, <2>5 DEF Web!Requests
<1>3. ASSUME NEW c \in Consoles, Web!Serves(c) PROVE PasswordPart'
  <2>1. UNCHANGED <<server, acknowledged, doubtful, file, credentials>>
    BY <1>3, ServesLeaves
  <2> QED
    BY <1>1, <2>1
<1>4. CASE Web!Crash
  <2>1. credentials' = None /\ acknowledged' = acknowledged
    BY <1>4 DEF Web!Crash, Web!Emptied
  <2>2. CASE UNCHANGED <<file, doubtful>>
    BY <2>1, <2>2
  <2>3. ASSUME NEW p \in Passwords, file' = p, doubtful' = doubtful \cup {p} PROVE PasswordPart'
    BY <2>1, <2>3, WebAssumption DEF Web!WebConstants
  <2> QED
    BY <1>4, <2>2, <2>3 DEF Web!Crash
<1>5. CASE Web!ResetStops \/ Web!ResetWrites
  BY <1>5, WebAssumption DEF Web!ResetStops, Web!ResetWrites, Web!Emptied, Web!record,
     Web!WebConstants
<1>6. CASE Web!Restart \/ Web!ResetStarts
  BY <1>6 DEF Web!Restart, Web!ResetStarts, Web!store, Web!record
<1>7. CASE Web!Tick \/ UNCHANGED Web!vars
  BY <1>1, <1>7 DEF Web!Tick, Web!vars, Web!store, Web!record
<1> QED
  BY <1>2, <1>3, <1>4, <1>5, <1>6, <1>7 DEF Web!Next

-----------------------------------------------------------------------------
(* Attempts.                                                               *)

\* What is claimed of the attempts that are remembered.
AttemptPart ==
    /\ now \in Web!Times /\ attempts \subseteq Web!Attempt /\ IsFiniteSet(attempts)
    /\ Web!AttemptsArePast /\ Web!AttemptsBounded

\* The attempts of the minute that begins at t.
Within(some, t) == {a \in some : t <= a.at /\ a.at < t + Window}

\* An attempt that is let through fits in every minute it belongs to.
LEMMA CountedKeeps ==
    ASSUME AttemptPart, NEW b \in Browsers, Web!Admits(b), Web!Counted(b), now' = now
    PROVE  AttemptPart'
<1> DEFINE before == {a \in Web!Of(b, attempts) : a.at = now}
           new == [client |-> b, at |-> now, nth |-> Cardinality(before)]
<1>1. IsFiniteSet(before) /\ Cardinality(before) \in Nat
  BY FS_Subset, FS_CardinalityType DEF AttemptPart, Web!Of
<1>2. attempts' = attempts \cup {new} /\ new \in Web!Attempt /\ new.at = now /\ new.client = b
  BY <1>1, WebSizes DEF AttemptPart, Web!Counted, Web!Attempt
<1> HIDE DEF new, before
<1>3. attempts' \subseteq Web!Attempt /\ IsFiniteSet(attempts') /\ Web!AttemptsArePast'
  BY <1>2, FS_AddElement DEF AttemptPart, Web!AttemptsArePast, Web!Times
<1>4. /\ now \in Nat /\ Window \in Nat /\ PerClient \in Nat /\ PerServer \in Nat
      /\ \A a \in attempts : a.at \in Nat /\ a.at <= now
  BY WebAssumption DEF AttemptPart, Web!AttemptsArePast, Web!Attempt, Web!Times,
     Web!WebConstants
<1>5. ASSUME NEW S, NEW T, NEW n \in Nat, S \subseteq attempts, T \subseteq S \cup {new},
             Cardinality(S) < n
      PROVE  Cardinality(T) <= n
  <2>1. IsFiniteSet(S) /\ Cardinality(S) \in Nat
    BY <1>5, FS_Subset, FS_CardinalityType DEF AttemptPart
  <2>2. /\ IsFiniteSet(S \cup {new})
        /\ Cardinality(S \cup {new}) = IF new \in S THEN Cardinality(S) ELSE Cardinality(S) + 1
    BY <2>1, FS_AddElement
  <2>3. /\ IsFiniteSet(T) /\ Cardinality(T) <= Cardinality(S \cup {new})
        /\ Cardinality(T) \in Nat /\ Cardinality(S \cup {new}) \in Nat
    BY <1>5, <2>2, FS_Subset, FS_CardinalityType
  <2> QED
    BY <1>5, <2>1, <2>2, <2>3
<1>6. ASSUME NEW t \in Web!Times
      PROVE  /\ \A c \in Browsers : Cardinality(Web!Of(c, Within(attempts', t))) <= PerClient
             /\ Cardinality(Within(attempts', t)) <= PerServer
  <2>1. /\ \A c \in Browsers : Cardinality(Web!Of(c, Within(attempts, t))) <= PerClient
        /\ Cardinality(Within(attempts, t)) <= PerServer
    BY WebSizes DEF AttemptPart, Web!AttemptsBounded, Within
  <2>2. CASE ~(t <= now /\ now < t + Window)
    <3>1. Within(attempts', t) = Within(attempts, t)
      BY <1>2, <2>2 DEF Within
    <3> QED
      BY <2>1, <3>1
  <2>3. CASE t <= now /\ now < t + Window
    <3>1. Within(attempts, t) \subseteq Web!Recent
      BY <1>4, <2>3 DEF Within, Web!Recent, Web!Times
    <3>2. Within(attempts', t) \subseteq Web!Recent \cup {new}
      BY <1>2, <3>1 DEF Within
    <3>3. Web!Of(b, Within(attempts', t)) \subseteq Web!Of(b, Web!Recent) \cup {new}
      BY <3>2 DEF Web!Of
    <3>4. \A c \in Browsers \ {b} :
            Web!Of(c, Within(attempts', t)) = Web!Of(c, Within(attempts, t))
      BY <1>2 DEF Within, Web!Of
    <3>5. Web!Recent \subseteq attempts /\ Web!Of(b, Web!Recent) \subseteq attempts
      BY DEF Web!Recent, Web!Of
    <3>6. Cardinality(Web!Of(b, Web!Recent)) < PerClient /\ Cardinality(Web!Recent) < PerServer
      BY WebSizes DEF Web!Admits
    <3>7. Cardinality(Within(attempts', t)) <= PerServer
      BY <1>4, <1>5, <3>2, <3>5, <3>6
    <3>8. Cardinality(Web!Of(b, Within(attempts', t))) <= PerClient
      BY <1>4, <1>5, <3>3, <3>5, <3>6
    <3> QED
      BY <2>1, <3>4, <3>7, <3>8
  <2> QED
    BY <2>2, <2>3
<1>7. Web!AttemptsBounded'
  BY <1>6, WebSizes DEF Web!AttemptsBounded, Within, Web!Of
<1> QED
  BY <1>3, <1>7 DEF AttemptPart

\* Attempts stay within the limits of every minute.
LEMMA AttemptStep ==
    ASSUME AttemptPart, [Web!Next]_(Web!vars)
    PROVE  AttemptPart'
<1>1. ASSUME NEW b \in Browsers, Web!LoginFails(b) \/ Web!Login(b) PROVE AttemptPart'
  BY <1>1, CountedKeeps DEF Web!LoginFails, Web!Login
<1>2. ASSUME UNCHANGED <<now, attempts>> PROVE AttemptPart'
  BY <1>2 DEF AttemptPart, Web!AttemptsArePast, Web!AttemptsBounded, Web!Of
<1>3. ASSUME NEW b \in Browsers, Web!Requests(b), ~Web!LoginFails(b), ~Web!Login(b)
    PROVE AttemptPart'
  <2>1. UNCHANGED <<now, attempts>>
    BY <1>3 DEF Web!Requests, Web!Touch, Web!LoginAnswered, Web!Admitted, Web!Logout,
       Web!ChangeRefused, Web!ChangePassword,
                Web!ChangeFails
  <2> QED
    BY <1>2, <2>1
<1>4. ASSUME NEW c \in Consoles, Web!Serves(c) PROVE AttemptPart'
  <2>1. UNCHANGED <<now, attempts>>
    BY <1>4, ServesLeaves
  <2> QED
    BY <1>2, <2>1
<1>5. CASE Web!Crash \/ Web!ResetStops
  <2>1. attempts' = {} /\ now' = now
    BY <1>5 DEF Web!Crash, Web!ResetStops, Web!Emptied
  <2>2. \A t \in Web!Times : Within({}, t) = {} /\ \A b \in Browsers : Web!Of(b, {}) = {}
    BY DEF Within, Web!Of
  <2>3. IsFiniteSet({}) /\ Cardinality({}) = 0 /\ PerClient \in Nat /\ PerServer \in Nat
    BY FS_EmptySet, WebAssumption DEF Web!WebConstants
  <2>4. Web!AttemptsBounded'
    BY <2>1, <2>2, <2>3, WebSizes DEF Web!AttemptsBounded, Within, Web!Of
  <2> QED
    BY <2>1, <2>3, <2>4 DEF AttemptPart, Web!AttemptsArePast
<1>6. CASE Web!Restart \/ Web!ResetWrites \/ Web!ResetStarts \/ UNCHANGED Web!vars
  BY <1>2, <1>6 DEF Web!Restart, Web!ResetWrites, Web!ResetStarts, Web!vars, Web!store
<1>7. CASE Web!Tick
  <2>1. now' \in Web!Times /\ now' = now + 1 /\ attempts' = attempts /\ now \in Nat
    BY <1>7, WebAssumption DEF Web!Tick, AttemptPart, Web!Times, Web!store, Web!WebConstants
  <2>2. \A a \in attempts : a.at \in Nat
    BY DEF AttemptPart, Web!Attempt, Web!Times
  <2> QED
    BY <2>1, <2>2 DEF AttemptPart, Web!AttemptsArePast, Web!AttemptsBounded, Web!Of
<1> QED
  BY <1>1, <1>3, <1>4, <1>5, <1>6, <1>7 DEF Web!Next

-----------------------------------------------------------------------------
(* Consoles.                                                               *)

\* What is claimed of the consoles and the slots.
ConsolePart ==
    /\ console \in [Consoles -> Web!Console] /\ slots \subseteq Consoles
    /\ Web!HeldWhileOpen /\ Cardinality(slots) <= MaxSlots

\* A console that changes alone, the others and the slots staying.
LEMMA OneConsole ==
    ASSUME ConsolePart, NEW c \in Consoles, NEW k \in Web!Console,
           console' = [console EXCEPT ![c] = k],
           slots' = slots \/ slots' = slots \ {c},
           c \in slots' \/ k.task = "running" => k.phase \in {"setup", "wait", "live", "ending"}
    PROVE  ConsolePart'
<1>1. /\ console' \in [Consoles -> Web!Console] /\ console'[c] = k
      /\ \A d \in Consoles \ {c} : console'[d] = console[d]
  BY DEF ConsolePart
<1>2. slots' \subseteq slots
  OBVIOUS
<1>3. /\ IsFiniteSet(slots') /\ Cardinality(slots') <= Cardinality(slots)
      /\ Cardinality(slots') \in Nat /\ Cardinality(slots) \in Nat /\ MaxSlots \in Nat
  BY <1>2, FS_Subset, FS_CardinalityType, WebAssumption, WebSizes
  DEF ConsolePart, Web!HeldWhileOpen, Web!WebConstants
<1>4. Web!HeldWhileOpen'
  BY <1>1, <1>2, <1>3, WebSizes DEF ConsolePart, Web!HeldWhileOpen
<1> QED
  BY <1>1, <1>2, <1>3, <1>4 DEF ConsolePart

\* A token that is valid is the token of a session.
LEMMA TokenOfSession ==
    ASSUME Web!TypeOK, NEW t, Web!Valid(t)
    PROVE  t \in Web!Tokens
  BY DEF Web!TypeOK, Web!Valid

\* A slot is taken with room left, and given back with its console.
LEMMA ConsoleStep ==
    ASSUME Web!TypeOK, ConsolePart, [Web!Next]_(Web!vars)
    PROVE  ConsolePart'
<1>0. ASSUME NEW c \in Consoles
      PROVE  /\ console[c] \in Web!Console
             /\ c \in slots \/ console[c].task = "running" =>
                  console[c].phase \in {"setup", "wait", "live", "ending"}
  BY DEF ConsolePart, Web!HeldWhileOpen
<1>1. ASSUME UNCHANGED <<console, slots>> PROVE ConsolePart'
  BY <1>1 DEF ConsolePart, Web!HeldWhileOpen
<1>2. ASSUME NEW b \in Browsers, Web!Requests(b) PROVE ConsolePart'
  <2>1. UNCHANGED <<console, slots>>
    BY <1>2 DEF Web!Requests, Web!Touch, Web!LoginFails, Web!Login, Web!LoginAnswered,
       Web!Admitted, Web!Logout, Web!ChangeRefused,
                Web!ChangePassword, Web!ChangeFails
  <2> QED
    BY <1>1, <2>1
<1>3. ASSUME NEW c \in Consoles, Web!Serves(c) PROVE ConsolePart'
  <2> DEFINE old == console[c]
  <2>0. /\ old \in Web!Console
        /\ old.phase \in {"new", "accept", "setup", "wait", "live", "ending", "closing", "over"}
        /\ old.task \in {"none", "running", "finished"}
        /\ c \in slots \/ old.task = "running" => old.phase \in {"setup", "wait", "live", "ending"}
    BY <1>0 DEF Web!Console
  <2>1. ASSUME NEW b \in Browsers, NEW kind \in {"ssh", "hid", "remote"},
               Web!Connect(c, b, kind)
        PROVE  ConsolePart'
    <3> DEFINE k == [old EXCEPT !.phase = "accept", !.kind = kind, !.token = cookie[b]]
    <3>1. console' = [console EXCEPT ![c] = k] /\ slots' = slots /\ old.phase = "new"
      BY <2>1 DEF Web!Connect, Web!In
    <3>2. cookie[b] \in Web!Tokens
      BY <2>1, TokenOfSession DEF Web!Connect
    <3>3. k \in Web!Console /\ k.task = old.task
      BY <2>0, <3>2 DEF Web!Console
    <3> HIDE DEF k
    <3> QED
      BY <2>0, <3>1, <3>3, OneConsole
  <2>2. CASE Web!Revoked(c)
    <3> DEFINE k == [old EXCEPT !.told = TRUE,
                                !.phase = IF @ = "accept" THEN "over" ELSE "ending"]
    <3>1. /\ console' = [console EXCEPT ![c] = k] /\ slots' = slots
          /\ old.phase \in {"accept", "setup", "live"}
      BY <2>2 DEF Web!Revoked
    <3>2. k \in Web!Console /\ k.task = old.task /\ (k.phase = "over" <=> old.phase = "accept")
          /\ k.phase \in {"over", "ending"}
      BY <2>0 DEF Web!Console
    <3> HIDE DEF k
    <3> QED
      BY <2>0, <3>1, <3>2, OneConsole
  <2>8. CASE Web!RevokedLate(c)
    <3> DEFINE k == [old EXCEPT !.told = TRUE, !.phase = "ending"]
    <3>1. console' = [console EXCEPT ![c] = k] /\ slots' = slots
      BY <2>8 DEF Web!RevokedLate
    <3>2. k \in Web!Console /\ k.phase = "ending"
      BY <2>0 DEF Web!Console
    <3> HIDE DEF k
    <3> QED
      BY <3>1, <3>2, OneConsole
  <2>3. CASE Web!Accept(c)
    <3> DEFINE k == IF old.kind = "hid" THEN [old EXCEPT !.phase = "live", !.task = "running"]
                    ELSE [old EXCEPT !.phase = "setup"]
    <3>1. console' = [console EXCEPT ![c] = k] /\ old.phase = "accept" /\ Web!Room(c)
      BY <2>3 DEF Web!Accept, Web!In
    <3>2. k \in Web!Console /\ k.phase \in {"setup", "wait", "live", "ending"}
      BY <2>0 DEF Web!Console
    <3> HIDE DEF k
    <3>3. CASE slots' = slots
      BY <3>1, <3>2, <3>3, OneConsole
    <3>4. CASE old.kind = "remote" /\ slots' = slots \cup {c}
      <4>1. Cardinality(slots) < MaxSlots /\ IsFiniteSet(slots) /\ MaxSlots \in Nat
        BY <3>1, <3>4, WebAssumption, WebSizes DEF Web!Room, ConsolePart, Web!HeldWhileOpen,
           Web!WebConstants
      <4>2. IsFiniteSet(slots') /\ Cardinality(slots') <= MaxSlots
        <5>1. Cardinality(slots \cup {c})
                = IF c \in slots THEN Cardinality(slots) ELSE Cardinality(slots) + 1
          BY <4>1, FS_AddElement
        <5> QED
          BY <3>4, <4>1, <5>1, FS_AddElement, FS_CardinalityType
      <4>3. /\ console' \in [Consoles -> Web!Console] /\ console'[c] = k
            /\ \A d \in Consoles \ {c} : console'[d] = console[d]
        BY <3>1, <3>2 DEF ConsolePart
      <4> QED
        BY <3>2, <3>4, <4>2, <4>3, WebSizes DEF ConsolePart, Web!HeldWhileOpen
    <3> QED
      BY <2>3, <3>3, <3>4 DEF Web!Accept
  <2>4. CASE Web!AcceptFull(c) \/ Web!Ends(c)
    <3> DEFINE k == [old EXCEPT !.phase = "ending"]
    <3>1. console' = [console EXCEPT ![c] = k] /\ slots' = slots
      BY <2>4 DEF Web!AcceptFull, Web!Ends, Web!Goes
    <3>2. k \in Web!Console /\ k.phase = "ending"
      BY <2>0 DEF Web!Console
    <3> HIDE DEF k
    <3> QED
      BY <3>1, <3>2, OneConsole
  <2>5. ASSUME NEW p \in {"wait", "live"}, Web!Goes(c, p), UNCHANGED slots
        PROVE  ConsolePart'
    <3> DEFINE k == [old EXCEPT !.phase = p]
    <3>1. console' = [console EXCEPT ![c] = k]
      BY <2>5 DEF Web!Goes
    <3>2. k \in Web!Console /\ k.phase = p
      BY <2>0 DEF Web!Console
    <3> HIDE DEF k
    <3> QED
      BY <2>5, <3>1, <3>2, OneConsole
  <2>9. ASSUME old.phase = "setup", console' = [console EXCEPT ![c].task = "running"],
               UNCHANGED slots
        PROVE  ConsolePart'
    <3> DEFINE k == [old EXCEPT !.task = "running"]
    <3>1. console' = [console EXCEPT ![c] = k]
      BY <2>9
    <3>2. k \in Web!Console /\ k.phase = "setup"
      BY <2>0, <2>9 DEF Web!Console
    <3> HIDE DEF k
    <3> QED
      BY <2>9, <3>1, <3>2, OneConsole
  <2>10. CASE Web!Credentials(c) \/ Web!Reached(c)
    BY <2>5, <2>9, <2>10 DEF Web!Credentials, Web!Reached, Web!In
  <2>11. CASE Web!Connected(c) \/ Web!Drained(c)
    BY <2>5, <2>11 DEF Web!Connected, Web!Drained
  <2>6. CASE Web!Message(c)
    BY <1>1, <2>5, <2>6 DEF Web!Message
  <2>12. CASE Web!Closed(c)
    <3> DEFINE k == [old EXCEPT !.phase = "over"]
    <3>1. console' = [console EXCEPT ![c] = k] /\ slots' = slots /\ old.phase = "closing"
      BY <2>12 DEF Web!Closed, Web!Goes, Web!In
    <3>2. k \in Web!Console /\ k.task = old.task
      BY <2>0 DEF Web!Console
    <3> HIDE DEF k
    <3> QED
      BY <2>0, <3>1, <3>2, OneConsole
  <2>7. CASE Web!Finish(c)
    <3>1. PICK p \in {"closing", "over"} :
            console' = [console EXCEPT ![c].phase = p,
                                       ![c].task = IF @ = "running" THEN "finished" ELSE @]
      BY <2>7 DEF Web!Finish, Web!Left
    <3> DEFINE k == [old EXCEPT !.phase = p, !.task = IF @ = "running" THEN "finished" ELSE @]
    <3>2. console' = [console EXCEPT ![c] = k] /\ slots' = slots \ {c}
      BY <2>7, <3>1 DEF Web!Finish, Web!Freed
    <3>3. k \in Web!Console /\ k.task # "running"
      BY <2>0 DEF Web!Console
    <3> HIDE DEF k
    <3> QED
      BY <3>2, <3>3, OneConsole
  <2> QED
    BY <1>3, <2>1, <2>2, <2>3, <2>4, <2>6, <2>7, <2>8, <2>10, <2>11, <2>12 DEF Web!Serves
<1>4. CASE Web!Crash \/ Web!ResetStops
  <2>1. slots' = {} /\ console' = [c \in Consoles |->
            IF console[c].phase = "new" THEN console[c]
            ELSE [console[c] EXCEPT !.phase = "over", !.task = "none"]]
    BY <1>4 DEF Web!Crash, Web!ResetStops, Web!Emptied
  <2>2. \A c \in Consoles :
          /\ [console[c] EXCEPT !.phase = "over", !.task = "none"] \in Web!Console
          /\ [console[c] EXCEPT !.phase = "over", !.task = "none"].task = "none"
    BY <1>0 DEF Web!Console
  <2>3. \A c \in Consoles : console'[c] \in Web!Console /\ console'[c].task # "running"
    BY <1>0, <2>1, <2>2
  <2>4. IsFiniteSet({}) /\ Cardinality({}) = 0 /\ MaxSlots \in Nat
    BY FS_EmptySet, WebAssumption DEF Web!WebConstants
  <2>5. console' \in [Consoles -> Web!Console]
    BY <2>1, <2>3
  <2>6. IsFiniteSet(slots') /\ Cardinality(slots') = 0 /\ slots' \subseteq Consoles
    BY <2>1, <2>4
  <2>7. Web!HeldWhileOpen'
    BY <2>1, <2>3, <2>6, WebSizes DEF Web!HeldWhileOpen
  <2> QED
    BY <2>4, <2>5, <2>6, <2>7 DEF ConsolePart
<1>5. CASE Web!Restart \/ Web!ResetWrites \/ Web!ResetStarts \/ Web!Tick \/ UNCHANGED Web!vars
  BY <1>1, <1>5 DEF Web!Restart, Web!ResetWrites, Web!ResetStarts, Web!Tick, Web!vars
<1> QED
  BY <1>2, <1>3, <1>4, <1>5 DEF Web!Next

-----------------------------------------------------------------------------
(* The others of the types: files, cookies and requests.                     *)

\* What else the types say.
RestPart ==
    /\ file \in Passwords \cup {None} /\ credentials \in Passwords \cup {None}
    /\ cookie \in [Browsers -> Web!Tokens \cup {None}] /\ request \in [Browsers -> Web!Request]
    /\ server \in {"up", "down", "resetting", "written"} /\ stops \in Nat
    /\ acknowledged \in Passwords /\ doubtful \subseteq Passwords

\* Every step keeps those types.
LEMMA WebRestStep ==
    ASSUME Web!TypeOK, Web!SessionsOfCurrentPassword, Web!StoppedForgets, [Web!Next]_(Web!vars)
    PROVE  RestPart'
<1>0. RestPart /\ Web!Loaded \in Passwords
  BY LoadedIsCurrent DEF Web!TypeOK, RestPart
<1>1. ASSUME UNCHANGED <<file, credentials, cookie, request, server, stops, acknowledged,
             doubtful>>
      PROVE  RestPart'
  BY <1>0, <1>1 DEF RestPart
<1>2. ASSUME NEW b \in Browsers, Web!Requests(b) PROVE RestPart'
  <2>0. UNCHANGED <<server, stops>>
    BY <1>2 DEF Web!Requests, Web!Touch, Web!LoginFails, Web!Login, Web!LoginAnswered,
       Web!Admitted, Web!Logout, Web!ChangeRefused,
                Web!ChangePassword, Web!ChangeFails
  <2>1. CASE Web!Touch(b) \/ Web!LoginFails(b)
    BY <1>0, <2>1 DEF Web!Touch, Web!LoginFails, Web!FirstFile, RestPart, Web!record
  <2>2. CASE Web!Login(b)
    <3>1. issued' \in Web!Tokens
      <4>1. PICK live \in Web!Kept : Web!NewSession(live, Web!Loaded)
        BY <2>2 DEF Web!Login
      <4> QED
        BY <4>1, WebAssumption DEF Web!NewSession, Web!TypeOK, Web!Tokens, Web!WebConstants
    <3>2. [kind |-> "answer", token |-> issued', old |-> cookie[b]] \in Web!Request
      BY <3>1 DEF Web!Request, Web!TypeOK
    <3> QED
      BY <1>0, <2>2, <3>2 DEF Web!Login, Web!FirstFile, Web!Asks, RestPart, Web!record
  <2>3. CASE Web!LoginAnswered(b)
    <3>1. request[b].token \in Web!Tokens /\ None \in Web!Request
      BY <2>3 DEF Web!LoginAnswered, Web!TypeOK, Web!Request
    <3> QED
      BY <1>0, <2>3, <3>1 DEF Web!LoginAnswered, Web!Asks, RestPart, Web!record
  <2>4. ASSUME NEW kind \in {"password", "logout"}, Web!Admitted(b, kind) PROVE RestPart'
    <3>1. [kind |-> kind, token |-> cookie[b]] \in Web!Request
      BY <2>4, TokenOfSession DEF Web!Admitted, Web!Request
    <3> QED
      BY <1>0, <2>4, <3>1 DEF Web!Admitted, Web!Asks, RestPart, Web!record
  <2>5. CASE Web!Logout(b) \/ Web!ChangeRefused(b)
    <3>1. None \in Web!Request
      BY DEF Web!Request
    <3> QED
      BY <1>0, <2>5, <3>1 DEF Web!Logout, Web!ChangeRefused, Web!Asks, RestPart, Web!record
  <2>6. ASSUME NEW p \in Passwords, Web!ChangePassword(b, p) PROVE RestPart'
    <3>1. issued' \in Web!Tokens
      BY <2>6, WebAssumption DEF Web!ChangePassword, Web!NewSession, Web!TypeOK, Web!Tokens,
         Web!WebConstants
    <3>2. [kind |-> "answer", token |-> issued', old |-> None] \in Web!Request
      BY <3>1 DEF Web!Request
    <3> QED
      BY <1>0, <2>6, <3>2 DEF Web!ChangePassword, Web!Asks, RestPart
  <2>7. ASSUME NEW p \in Passwords, Web!ChangeFails(b, p) PROVE RestPart'
    <3>1. None \in Web!Request
      BY DEF Web!Request
    <3> QED
      BY <1>0, <2>7, <3>1 DEF Web!ChangeFails, Web!Asks, RestPart
  <2> QED
    BY <1>2, <2>1, <2>2, <2>3, <2>4, <2>5, <2>6, <2>7 DEF Web!Requests
<1>3. ASSUME NEW c \in Consoles, Web!Serves(c) PROVE RestPart'
  <2>1. UNCHANGED <<file, credentials, cookie, request, server, stops, acknowledged, doubtful>>
    BY <1>3, ServesLeaves
  <2> QED
    BY <1>1, <2>1
<1>4. CASE Web!Crash \/ Web!ResetStops
  <2>1. /\ credentials' = None /\ request' = [b \in Browsers |-> None] /\ stops' = stops + 1
        /\ server' \in {"down", "resetting"} /\ UNCHANGED <<cookie, acknowledged>>
    BY <1>4 DEF Web!Crash, Web!ResetStops, Web!Emptied, Web!Stopping, Web!record
  <2>2. file' \in Passwords \cup {None} /\ doubtful' \subseteq Passwords
    BY <1>0, <1>4 DEF Web!Crash, Web!ResetStops, Web!record, RestPart
  <2>3. request' \in [Browsers -> Web!Request]
    BY <2>1 DEF Web!Request
  <2> QED
    BY <1>0, <2>1, <2>2, <2>3 DEF RestPart
<1>5. CASE Web!ResetWrites
  BY <1>0, <1>5, WebAssumption DEF Web!ResetWrites, RestPart, Web!WebConstants
<1>6. CASE Web!Restart \/ Web!ResetStarts
  BY <1>0, <1>6 DEF Web!Restart, Web!ResetStarts, Web!store, Web!record, RestPart
<1>7. CASE Web!Tick \/ UNCHANGED Web!vars
  BY <1>1, <1>7 DEF Web!Tick, Web!vars, Web!store, Web!record
<1> QED
  BY <1>2, <1>3, <1>4, <1>5, <1>6, <1>7 DEF Web!Next

-----------------------------------------------------------------------------
(* Together.                                                               *)

\* The invariant is inductive, part by part.
LEMMA WebInvStep == Web!IInv /\ [Web!Next]_(Web!vars) => Web!IInv'
<1> SUFFICES ASSUME Web!IInv, [Web!Next]_(Web!vars) PROVE Web!IInv'
  OBVIOUS
<1>1. /\ Web!TypeOK /\ Web!SessionsOfCurrentPassword /\ Web!StoppedForgets /\ PasswordPart
      /\ AttemptPart
      /\ ConsolePart
  BY WebSizes DEF Web!IInv, Web!TypeOK, PasswordPart, AttemptPart, ConsolePart
<1>2. SessionPart' /\ issued' \in 0 .. MaxTokens
  BY <1>1, SessionStep
<1>3. PasswordPart' /\ AttemptPart' /\ ConsolePart' /\ RestPart'
  BY <1>1, PasswordStep, AttemptStep, ConsoleStep, WebRestStep
<1>4. Web!TypeOK'
  BY <1>2, <1>3, WebSizes DEF Web!TypeOK, SessionPart, AttemptPart, ConsolePart, RestPart
<1> QED
  BY <1>2, <1>3, <1>4, WebSizes
  DEF Web!IInv, SessionPart, PasswordPart, AttemptPart, ConsolePart

\* At first nobody is signed in.
LEMMA WebInvInit == Web!Init => Web!IInv
<1> SUFFICES ASSUME Web!Init PROVE Web!IInv
  OBVIOUS
<1>1. IsFiniteSet({}) /\ Cardinality({}) = 0
  BY FS_EmptySet
<1>2. Web!TypeOK
  BY <1>1, WebAssumption, WebSizes
  DEF Web!Init, Web!TypeOK, Web!Request, Web!Console, Web!Times, Web!WebConstants
<1>3. Web!AttemptsBounded
  <2>1. \A t \in Web!Times, b \in Browsers : Within({}, t) = {} /\ Web!Of(b, {}) = {}
    BY DEF Within, Web!Of
  <2> QED
    BY <1>1, <2>1, WebAssumption, WebSizes DEF Web!Init, Web!AttemptsBounded, Within, Web!Of,
       Web!WebConstants
<1>4. Web!SessionsOfCurrentPassword /\ Web!PasswordAsReported /\ Web!StoppedForgets
        /\ Web!FactoryUntilWritten
  BY DEF Web!Init, Web!SessionsOfCurrentPassword, Web!PasswordAsReported, Web!StoppedForgets,
         Web!FactoryUntilWritten, Web!Up
<1> QED
  BY <1>1, <1>2, <1>3, <1>4, WebAssumption, WebSizes
  DEF Web!Init, Web!IInv, Web!AttemptsArePast, Web!HeldWhileOpen, Web!WebConstants

\* Slots are held by consoles that run.
LEMMA WebInvEnough == Web!IInv => Web!ConsolesReturnWhatTheyTook
  BY DEF Web!IInv, Web!HeldWhileOpen, Web!ConsolesReturnWhatTheyTook

\* Another password, in memory or on disk, is the work of a request to change it whose
\* own session is valid, or of the host's administrator.
LEMMA ChangeStep ==
    ASSUME Web!TypeOK, [Web!Next]_(Web!vars), Web!AnotherPassword, server # "resetting"
    PROVE  \E b \in Browsers : Web!ChangesFor(b)
<1> USE DEF Web!AnotherPassword
<1>1. ASSUME NEW b \in Browsers, Web!Requests(b)
      PROVE  \E d \in Browsers : Web!ChangesFor(d)
  <2>1. ASSUME NEW p \in Passwords, Web!ChangePassword(b, p) \/ Web!ChangeFails(b, p)
        PROVE  Web!ChangesFor(b)
    <3>1. Web!Wants(b, "password") /\ Web!Valid(request[b].token)
      BY <2>1 DEF Web!ChangePassword, Web!ChangeFails, Web!MayChange
    <3>2. request'[b] = None \/ request'[b].kind = "answer"
      <4>1. PICK r : request' = [request EXCEPT ![b] = r] /\ (r = None \/ r.kind = "answer")
        <5>1. CASE Web!ChangePassword(b, p)
          <6> DEFINE r == [kind |-> "answer", token |-> issued', old |-> None]
          <6>1. request' = [request EXCEPT ![b] = r] /\ r.kind = "answer"
            BY <5>1 DEF Web!ChangePassword, Web!Asks
          <6> QED
            BY <6>1
        <5>2. CASE Web!ChangeFails(b, p)
          BY <5>2 DEF Web!ChangeFails, Web!Asks
        <5> QED
          BY <2>1, <5>1, <5>2
      <4> QED
        BY <4>1 DEF Web!TypeOK
    <3> QED
      BY <3>1, <3>2 DEF Web!ChangesFor, Web!Wants
  <2>2. ASSUME ~\E p \in Passwords : Web!ChangePassword(b, p) \/ Web!ChangeFails(b, p)
        PROVE  file' \in {file, Web!Loaded} /\ credentials' \in {credentials, Web!Loaded}
    BY <1>1, <2>2
    DEF Web!Requests, Web!Touch, Web!LoginFails, Web!Login, Web!FirstFile, Web!LoginAnswered,
        Web!Admitted, Web!Logout, Web!ChangeRefused
  <2> QED
    BY <2>1, <2>2
<1>2. ASSUME NEW c \in Consoles, Web!Serves(c) PROVE UNCHANGED <<file, credentials>>
  BY <1>2, ServesLeaves
<1>3. CASE Web!Crash
  <2>1. credentials' = None /\ request' = [b \in Browsers |-> None]
    BY <1>3 DEF Web!Crash, Web!Emptied
  <2>2. PICK b \in Browsers : Web!Wants(b, "password") /\ Web!MayChange(request[b].token)
    BY <1>3, <2>1 DEF Web!Crash
  <2>3. request'[b] = None
    BY <2>1
  <2> QED
    BY <2>2, <2>3 DEF Web!ChangesFor, Web!Wants, Web!MayChange
<1>4. CASE Web!ResetStops
  BY <1>4 DEF Web!ResetStops, Web!Emptied
<1>5. CASE Web!Restart \/ Web!ResetWrites \/ Web!ResetStarts \/ Web!Tick \/ UNCHANGED Web!vars
  BY <1>5 DEF Web!Restart, Web!ResetWrites, Web!ResetStarts, Web!Tick, Web!vars, Web!store
<1> QED
  BY <1>1, <1>2, <1>3, <1>4, <1>5 DEF Web!Next

\* The invariant of the web session holds for ever.
LEMMA WebInductive == Web!Spec => []Web!IInv
<1>1. Web!IInv /\ [Web!Next]_(Web!vars) => Web!IInv'
  BY WebInvStep
<1>2. Web!Init => Web!IInv
  BY WebInvInit
<1> QED
  BY <1>1, <1>2, PTL DEF Web!Spec

-----------------------------------------------------------------------------
(* UPLOADS TO THE STAGING AREA.                                            *)

\* The module StagingUploads counts as FiniteSets does.
LEMMA PoolSizes ==
    \A S : Pool!Cardinality(S) = Cardinality(S) /\ (Pool!IsFiniteSet(S) <=> IsFiniteSet(S))
<1>1. \A S : Pool!Cardinality(S) = Cardinality(S)
  BY DEF Cardinality, Pool!Cardinality
<1>2. \A S : Pool!IsFiniteSet(S) <=> IsFiniteSet(S)
  BY DEF IsFiniteSet, Pool!IsFiniteSet
<1> QED
  BY <1>1, <1>2

-----------------------------------------------------------------------------
(* Sums, as the number of units.                                           *)

\* The units of a family of sizes: as many of each element as its size says.
Units(size) == {unit \in (DOMAIN size) \X (1 .. Disk) : unit[2] <= size[unit[1]]}

\* The sum is their number.
LEMMA TotalIsUnits == \A size : Pool!Total(size) = Cardinality(Units(size))
  BY PoolSizes DEF Pool!Total, Units

\* A sum over a finite set is a natural number.
LEMMA UnitsFinite ==
    ASSUME NEW f, IsFiniteSet(DOMAIN f)
    PROVE  IsFiniteSet(Units(f)) /\ Pool!Total(f) \in Nat
<1>1. 1 \in Int /\ Disk \in Int
  BY PoolAssumption DEF Pool!PoolConstants
<1>2. IsFiniteSet((DOMAIN f) \X (1 .. Disk))
  BY <1>1, FS_Interval, FS_Product
<1>3. Units(f) \subseteq (DOMAIN f) \X (1 .. Disk)
  BY DEF Units
<1> QED
  BY <1>2, <1>3, FS_Subset, FS_CardinalityType, TotalIsUnits

\* The units of one element.
LEMMA UnitsOfOne ==
    ASSUME NEW x, NEW k \in Pool!Size
    PROVE  Cardinality({x} \X (1 .. k)) = k /\ IsFiniteSet({x} \X (1 .. k))
<1>1. 1 \in Int /\ k \in Int /\ k >= 0
  BY PoolAssumption DEF Pool!Size, Pool!PoolConstants
<1>2. IsFiniteSet(1 .. k) /\ Cardinality(1 .. k) = k
  BY <1>1, FS_Interval
<1>3. IsFiniteSet({x}) /\ Cardinality({x}) = 1
  BY FS_Singleton
<1>4. Cardinality({x} \X (1 .. k)) = Cardinality({x}) * Cardinality(1 .. k)
      /\ IsFiniteSet({x} \X (1 .. k))
  BY <1>2, <1>3, FS_Product
<1> QED
  BY <1>1, <1>2, <1>3, <1>4

\* A sum is the size of one element and the sum of the others.
LEMMA Splits ==
    ASSUME NEW S, IsFiniteSet(S), NEW f \in [S -> Pool!Size], NEW x \in S
    PROVE  Pool!Total(f) = f[x] + Pool!Total([y \in S \ {x} |-> f[y]])
<1> DEFINE g == [y \in S \ {x} |-> f[y]]
           one == {x} \X (1 .. f[x])
<1>0. f[x] \in Pool!Size /\ f[x] \in Nat /\ f[x] <= Disk
  BY PoolAssumption DEF Pool!Size, Pool!PoolConstants
<1>1. Units(f) = one \cup Units(g)
  <2>1. DOMAIN f = S /\ DOMAIN g = S \ {x} /\ \A y \in S \ {x} : g[y] = f[y]
    OBVIOUS
  <2> HIDE DEF g
  <2>2. ASSUME NEW u \in Units(f) PROVE u \in one \cup Units(g)
    <3>1. u[1] \in S /\ u[2] \in 1 .. Disk /\ u[2] <= f[u[1]] /\ u = <<u[1], u[2]>>
      BY <2>1 DEF Units
    <3>2. CASE u[1] = x
      BY <1>0, <3>1, <3>2
    <3>3. CASE u[1] # x
      BY <2>1, <3>1, <3>3 DEF Units
    <3> QED
      BY <3>2, <3>3
  <2>3. ASSUME NEW u \in one PROVE u \in Units(f)
    <3>1. u = <<x, u[2]>> /\ u[1] = x /\ u[2] \in 1 .. f[x]
      OBVIOUS
    <3>2. u[2] \in 1 .. Disk /\ u[2] <= f[x]
      BY <1>0, <3>1, PoolAssumption DEF Pool!PoolConstants
    <3> QED
      BY <2>1, <3>1, <3>2 DEF Units
  <2>4. ASSUME NEW u \in Units(g) PROVE u \in Units(f)
    BY <2>1 DEF Units
  <2> QED
    BY <2>2, <2>3, <2>4
<1>2. one \cap Units(g) = {}
  BY DEF Units
<1>3. IsFiniteSet(one) /\ Cardinality(one) = f[x]
  BY <1>0, UnitsOfOne
<1>4. IsFiniteSet(Units(g)) /\ Pool!Total(g) \in Nat /\ Pool!Total(g) = Cardinality(Units(g))
  <2>1. DOMAIN g \subseteq S
    OBVIOUS
  <2>2. IsFiniteSet(DOMAIN g)
    BY <2>1, FS_Subset
  <2> HIDE DEF g
  <2> QED
    BY <2>2, UnitsFinite, TotalIsUnits
<1> HIDE DEF g, one
<1>5. Cardinality(one \cup Units(g))
        = Cardinality(one) + Cardinality(Units(g)) - Cardinality(one \cap Units(g))
  BY <1>3, <1>4, FS_Union
<1>6. Cardinality(one \cap Units(g)) = 0
  BY <1>2, FS_EmptySet
<1>7. Pool!Total(f) = Cardinality(Units(f))
  BY TotalIsUnits
<1>8. Pool!Total(f) = f[x] + Pool!Total(g)
  BY <1>0, <1>1, <1>3, <1>4, <1>5, <1>6, <1>7
<1> QED
  BY <1>8 DEF g

\* Two sums that differ in one element.
LEMMA Differ ==
    ASSUME NEW S, IsFiniteSet(S), NEW f \in [S -> Pool!Size], NEW g \in [S -> Pool!Size],
           NEW x \in S,
           \A y \in S \ {x} : f[y] = g[y]
    PROVE  Pool!Total(g) + f[x] = Pool!Total(f) + g[x]
<1>1. [y \in S \ {x} |-> f[y]] = [y \in S \ {x} |-> g[y]]
  OBVIOUS
<1> DEFINE others == [y \in S \ {x} |-> f[y]]
<1>2. Pool!Total(f) = f[x] + Pool!Total(others) /\ Pool!Total(g) = g[x] + Pool!Total(others)
  BY <1>1, Splits
<1>3. f[x] \in Nat /\ g[x] \in Nat
  BY DEF Pool!Size
<1>4. Pool!Total(others) \in Nat
  <2>1. DOMAIN others = S \ {x}
    OBVIOUS
  <2>2. IsFiniteSet(DOMAIN others)
    BY <2>1, FS_Subset
  <2> HIDE DEF others
  <2> QED
    BY <2>2, UnitsFinite
<1> HIDE DEF others
<1> QED
  BY <1>2, <1>3, <1>4

\* A sum of smaller sizes, and of fewer.
LEMMA Grows ==
    ASSUME NEW f, NEW g, IsFiniteSet(DOMAIN g), DOMAIN f \subseteq DOMAIN g,
           \A x \in DOMAIN f : f[x] \in Int /\ g[x] \in Int /\ f[x] <= g[x]
    PROVE  Pool!Total(f) <= Pool!Total(g) /\ Pool!Total(f) \in Nat /\ Pool!Total(g) \in Nat
<1>1. Units(f) \subseteq Units(g)
  BY DEF Units
<1>2. IsFiniteSet(Units(g)) /\ Pool!Total(g) \in Nat
  BY UnitsFinite
<1>3. IsFiniteSet(DOMAIN f)
  BY FS_Subset
<1> QED
  BY <1>1, <1>2, <1>3, UnitsFinite, FS_Subset, TotalIsUnits

\* Elements without size add nothing.
LEMMA ZerosAddNothing ==
    ASSUME NEW f, NEW g, DOMAIN f \subseteq DOMAIN g, \A x \in DOMAIN f : f[x] = g[x],
           \A x \in (DOMAIN g) \ DOMAIN f : g[x] = 0
    PROVE  Pool!Total(f) = Pool!Total(g)
<1>1. Units(f) = Units(g)
  BY DEF Units
<1> QED
  BY <1>1, TotalIsUnits

-----------------------------------------------------------------------------
(* What is reserved.                                                       *)

\* The fragments on the disk, by task.
FragmentsOf(sizes) == [t \in Uploads |-> IF sizes[t] = None THEN 0 ELSE sizes[t]]

\* What the tasks that run may still write, by task.
StillsOf(table) == [t \in Uploads |-> IF table[t] = None THEN 0 ELSE Pool!Still(table[t])]

\* What a task that runs still needs is a size, and the sum may be taken over all.
LEMMA StillsAreSizes ==
    ASSUME NEW table \in [Uploads -> Pool!Row \cup {None}]
    PROVE  /\ StillsOf(table) \in [Uploads -> Pool!Size]
           /\ Pool!Total([t \in {t \in Uploads :
                Pool!Active(table[t])} |-> Pool!Still(table[t])])
                = Pool!Total(StillsOf(table))
<1>1. ASSUME NEW row \in Pool!Row
    PROVE Pool!Still(row) \in Pool!Size /\ Pool!Active(row) /\ row # None
  BY <1>1, PoolAssumption DEF Pool!Still, Pool!AtLeast, Pool!Size, Pool!Row, Pool!Active,
     Pool!PoolConstants
<1>2. ~Pool!Active(None)
  BY DEF Pool!Active
<1>3. StillsOf(table) \in [Uploads -> Pool!Size]
  <2>1. ASSUME NEW t \in Uploads
      PROVE (IF table[t] = None THEN 0 ELSE Pool!Still(table[t])) \in Pool!Size
    BY <1>1, PoolAssumption DEF Pool!Size, Pool!PoolConstants
  <2> QED
    BY <2>1 DEF StillsOf
<1> DEFINE some == [t \in {t \in Uploads : Pool!Active(table[t])} |-> Pool!Still(table[t])]
<1>4. /\ DOMAIN some = {t \in Uploads : Pool!Active(table[t])}
           /\ DOMAIN StillsOf(table) = Uploads
      /\ \A t \in {t \in Uploads : Pool!Active(table[t])} : some[t] = Pool!Still(table[t])
      /\ \A t \in Uploads :
           StillsOf(table)[t] = IF table[t] = None THEN 0 ELSE Pool!Still(table[t])
  BY DEF StillsOf
<1> HIDE DEF some
<1>5. \A t \in Uploads : Pool!Active(table[t]) <=> table[t] # None
  BY <1>1, <1>2
<1>6. Pool!Total(some) = Pool!Total(StillsOf(table))
  BY <1>4, <1>5, ZerosAddNothing
<1> QED
  BY <1>3, <1>6 DEF some

\* A fragment is a size; where there is none it is nothing.
LEMMA FragmentsAreSizes ==
    ASSUME NEW sizes \in [Uploads -> Pool!Size \cup {None}]
    PROVE  FragmentsOf(sizes) \in [Uploads -> Pool!Size]
<1>1. 0 \in Pool!Size
  BY PoolAssumption DEF Pool!Size, Pool!PoolConstants
<1> QED
  BY <1>1 DEF FragmentsOf

\* Sums of sizes are natural numbers.
LEMMA SumsAreNaturals ==
    ASSUME NEW f, NEW S, S \subseteq Files \/ S \subseteq Uploads, f \in [S -> Pool!Size]
    PROVE  Pool!Total(f) \in Nat
<1>1. DOMAIN f = S
  OBVIOUS
<1>2. IsFiniteSet(S)
  BY PoolAssumption, FS_Subset, PoolSizes DEF Pool!PoolConstants
<1> QED
  BY <1>1, <1>2, UnitsFinite

\* What is available is a size; a length that is declared leaves room for the left.
LEMMA AvailableIsRoom ==
    ASSUME Pool!TypeOK, NEW n \in Files
    PROVE  /\ Pool!Available(n) \in Pool!Size /\ Pool!ManagedBytes(Files \ {n}) \in Nat
                /\ Pool!QuotaReserved \in Nat
           /\ Pool!FreeBytes \in Int
           /\ \A d \in Pool!Size : d # 0 /\ d <= Pool!Available(n) =>
                /\ d + Pool!ManagedBytes(Files \ {n}) + Pool!QuotaReserved <= Capacity
                /\ d + Pool!Total(StillsOf(tasks)) + Reserve <= Pool!FreeBytes
<1>1. Pool!ManagedBytes(Files \ {n}) \in Nat
  <2>1. [m \in Files \ {n} |-> files[m]] \in [Files \ {n} -> Pool!Size]
    BY DEF Pool!TypeOK
  <2> QED
    BY <2>1, SumsAreNaturals DEF Pool!ManagedBytes
<1>2. Pool!ManagedBytes(Files) \in Nat
  <2>1. [m \in Files |-> files[m]] \in [Files -> Pool!Size]
    BY DEF Pool!TypeOK
  <2> QED
    BY <2>1, SumsAreNaturals DEF Pool!ManagedBytes
<1>3. Pool!QuotaReserved \in Nat
  <2>1. Pool!ActiveTasks \subseteq Uploads /\ \A t \in Pool!ActiveTasks : tasks[t] \in Pool!Row
    BY DEF Pool!ActiveTasks, Pool!Active, Pool!TypeOK
  <2>2. [t \in Pool!ActiveTasks |-> tasks[t].total] \in [Pool!ActiveTasks -> Pool!Size]
    BY <2>1 DEF Pool!Row
  <2> QED
    BY <2>1, <2>2, SumsAreNaturals DEF Pool!QuotaReserved
<1>4. Pool!Total(Pool!Fragments) \in Nat
  <2>1. FragmentsOf(fragments) \in [Uploads -> Pool!Size]
    BY FragmentsAreSizes DEF Pool!TypeOK
  <2> QED
    BY <2>1, SumsAreNaturals DEF FragmentsOf, Pool!Fragments
<1>5. Pool!PhysicalReserved = Pool!Total(StillsOf(tasks)) /\ Pool!PhysicalReserved \in Nat
  <2>1. tasks \in [Uploads -> Pool!Row \cup {None}]
    BY DEF Pool!TypeOK
  <2> QED
    BY <2>1, StillsAreSizes, SumsAreNaturals DEF Pool!PhysicalReserved, Pool!ActiveTasks
<1>6. Disk \in Nat /\ Capacity \in Nat /\ Reserve \in Nat
  BY PoolAssumption DEF Pool!PoolConstants
<1>7. Pool!FreeBytes \in Int /\ Pool!FreeBytes <= Disk
  BY <1>2, <1>4, <1>6 DEF Pool!FreeBytes
<1> DEFINE quota == Capacity - Pool!ManagedBytes(Files \ {n}) - Pool!QuotaReserved
           room == Pool!FreeBytes - Reserve - Pool!PhysicalReserved
<1>8. quota \in Int /\ room \in Int /\ room <= Disk
  BY <1>1, <1>3, <1>5, <1>6, <1>7
<1>9. Pool!Available(n) =
        IF Pool!AtLeast(0, quota) < Pool!AtLeast(0, room) THEN Pool!AtLeast(0, quota)
                     ELSE Pool!AtLeast(0, room)
  BY DEF Pool!Available
<1> HIDE DEF quota, room
<1>10. /\ Pool!Available(n) \in Pool!Size
       /\ \A d \in Pool!Size : d # 0 /\ d <= Pool!Available(n) => d <= quota /\ d <= room
  BY <1>6, <1>8, <1>9 DEF Pool!AtLeast, Pool!Size
<1>11. \A d \in Pool!Size : d \in Nat
  BY <1>6 DEF Pool!Size
<1> USE DEF quota, room
<1> QED
  BY <1>1, <1>3, <1>5, <1>6, <1>7, <1>10, <1>11, PoolSizes

-----------------------------------------------------------------------------
(* Types, rows and names.                                                  *)

\* What is claimed of the uploads and their rows.
UploadPart == Pool!TypeOK /\ Pool!RowsOfUploads /\ Pool!OneUploadPerName

\* Everything of one task is removed when its upload ends.
LEMMA EndsKeeps ==
    ASSUME UploadPart, NEW t \in Uploads, Pool!Ends(t), files' \in [Files -> Pool!Size]
    PROVE  UploadPart'
  BY DEF UploadPart, Pool!TypeOK, Pool!RowsOfUploads, Pool!OneUploadPerName, Pool!Ends

\* Every step keeps it.
LEMMA UploadStep == ASSUME UploadPart, [Pool!Next]_(Pool!vars) PROVE UploadPart'
<1>0. 0 \in Pool!Size /\ \A k \in Pool!Size : k \in Nat /\ k <= Disk /\ k # None
  BY PoolAssumption DEF Pool!Size, Pool!PoolConstants
<1>1. ASSUME NEW t \in Uploads, NEW n \in Files, NEW overwrite \in BOOLEAN,
             NEW declared \in Pool!Size,
             Pool!Begin(t, n, overwrite, declared)
      PROVE  UploadPart'
  <2> DEFINE u == [name |-> n, overwrite |-> overwrite, declared |-> declared,
                   available |-> Pool!Available(n), written |-> 0]
             row == [name |-> n, status |-> "running", done |-> 0, total |-> declared]
  <2>1. u \in Pool!Upload /\ row \in Pool!Row
    BY <1>0, AvailableIsRoom DEF Pool!Upload, Pool!Row, UploadPart
  <2>2. u # None /\ row # None
    BY <2>1, PoolAssumption DEF Pool!PoolConstants
  <2>3. /\ u.name = n /\ u.declared = declared /\ u.written = 0
        /\ row.name = n /\ row.total = declared /\ row.done = 0
    OBVIOUS
  <2>4. /\ upload' = [upload EXCEPT ![t] = u] /\ tasks' = [tasks EXCEPT ![t] = row]
        /\ fragments' = [fragments EXCEPT ![t] = 0]
        /\ undeclared' = (undeclared \/ declared = 0) /\ UNCHANGED <<files, restarts>>
    BY <1>1 DEF Pool!Begin
  <2>5. \A other \in Pool!ActiveTasks : tasks[other].name # n
    BY <1>1 DEF Pool!Begin
  <2> HIDE DEF u, row
  <2>6. Pool!TypeOK'
    BY <1>0, <2>1, <2>4 DEF UploadPart, Pool!TypeOK
  <2>20. /\ upload'[t] = u /\ tasks'[t] = row /\ fragments'[t] = 0
         /\ \A x \in Uploads \ {t} : /\ upload'[x] = upload[x] /\ tasks'[x] = tasks[x]
                                  /\ fragments'[x] = fragments[x]
         /\ (declared = 0 => undeclared') /\ (undeclared => undeclared')
    BY <2>4 DEF UploadPart, Pool!TypeOK
  <2>21. declared # 0 => 0 <= declared
    BY <1>0
  <2>7. Pool!RowsOfUploads'
    <3>1. ASSUME NEW x \in Uploads \ {t}
          PROVE  /\ tasks'[x] = None <=> upload'[x] = None
                 /\ upload'[x] # None =>
                      /\ tasks'[x].name = upload'[x].name
                      /\ tasks'[x].total = upload'[x].declared
                      /\ tasks'[x].done = upload'[x].written
                      /\ fragments'[x] = upload'[x].written
                      /\ upload'[x].declared # 0 => upload'[x].written <= upload'[x].declared
                      /\ upload'[x].declared = 0 => undeclared'
      BY <2>20 DEF UploadPart, Pool!RowsOfUploads
    <3> QED
      BY <2>2, <2>3, <2>20, <2>21, <3>1 DEF Pool!RowsOfUploads
  <2>8. \A x \in Uploads : upload[x] # None => upload[x].name # n
    <3>1. \A x \in Uploads : tasks[x] # None => x \in Pool!ActiveTasks
      BY DEF UploadPart, Pool!TypeOK, Pool!ActiveTasks, Pool!Active, Pool!Row
    <3> QED
      BY <2>5, <3>1 DEF UploadPart, Pool!RowsOfUploads
  <2>9. Pool!OneUploadPerName'
    BY <2>2, <2>3, <2>4, <2>8 DEF UploadPart, Pool!TypeOK, Pool!OneUploadPerName
  <2> QED
    BY <2>6, <2>7, <2>9 DEF UploadPart
<1>2. ASSUME NEW t \in Uploads, Pool!Chunk(t) PROVE UploadPart'
  <2> DEFINE written == upload[t].written + 1
             u == [upload[t] EXCEPT !.written = written]
             row == [tasks[t] EXCEPT !.done = written]
  <2>1. upload[t] \in Pool!Upload /\ tasks[t] \in Pool!Row
    BY <1>2 DEF Pool!Chunk, UploadPart, Pool!TypeOK, Pool!RowsOfUploads
  <2>2. written \in Pool!Size
    <3>1. upload[t].written \in Pool!Size /\ upload[t].available \in Pool!Size
      BY <2>1 DEF Pool!Upload
    <3>2. written <= upload[t].available
      BY <1>2 DEF Pool!Chunk
    <3>3. Disk \in Nat
      BY PoolAssumption DEF Pool!PoolConstants
    <3> QED
      BY <3>1, <3>2, <3>3 DEF Pool!Size
  <2>3. u \in Pool!Upload /\ row \in Pool!Row
    BY <2>1, <2>2 DEF Pool!Upload, Pool!Row
  <2>4. u # None /\ row # None
    BY <2>3, PoolAssumption DEF Pool!PoolConstants
  <2>5. /\ u.name = upload[t].name /\ u.declared = upload[t].declared /\ u.written = written
        /\ row.name = tasks[t].name /\ row.total = tasks[t].total /\ row.done = written
    BY <2>1 DEF Pool!Upload, Pool!Row
  <2>6. /\ upload' = [upload EXCEPT ![t] = u] /\ tasks' = [tasks EXCEPT ![t] = row]
        /\ fragments' = [fragments EXCEPT ![t] = written]
        /\ UNCHANGED <<files, undeclared, restarts>> /\ upload[t] # None
    BY <1>2 DEF Pool!Chunk
  <2>7. upload[t].declared # 0 => written <= upload[t].declared
    BY <1>0, <1>2, <2>1 DEF Pool!Chunk, Pool!Upload
  <2> HIDE DEF u, row, written
  <2>8. Pool!TypeOK'
    BY <2>2, <2>3, <2>6 DEF UploadPart, Pool!TypeOK
  <2>9. Pool!RowsOfUploads'
    BY <2>4, <2>5, <2>6, <2>7 DEF UploadPart, Pool!TypeOK, Pool!RowsOfUploads
  <2>10. Pool!OneUploadPerName'
    BY <2>4, <2>5, <2>6 DEF UploadPart, Pool!TypeOK, Pool!OneUploadPerName
  <2> QED
    BY <2>8, <2>9, <2>10 DEF UploadPart
<1>3. ASSUME NEW t \in Uploads, Pool!Fails(t) PROVE UploadPart'
  BY <1>3, EndsKeeps DEF Pool!Fails, UploadPart, Pool!TypeOK
<1>4. ASSUME NEW t \in Uploads, Pool!Complete(t) PROVE UploadPart'
  <2>1. upload[t].written \in Pool!Size /\ upload[t].name \in Files
    BY <1>4 DEF Pool!Complete, UploadPart, Pool!TypeOK, Pool!Upload
  <2>2. files' \in [Files -> Pool!Size]
    BY <1>4, <2>1 DEF Pool!Complete, UploadPart, Pool!TypeOK
  <2> QED
    BY <1>4, <2>2, EndsKeeps DEF Pool!Complete
<1>5. ASSUME NEW t \in Uploads, Pool!Cancel(t) PROVE UploadPart'
  <2> DEFINE row == [tasks[t] EXCEPT !.status = "cancelling"]
  <2>1. tasks[t] \in Pool!Row
    BY <1>5 DEF Pool!Cancel, UploadPart, Pool!TypeOK
  <2>2. row \in Pool!Row /\ row.name = tasks[t].name /\ row.total = tasks[t].total
        /\ row.done = tasks[t].done
    BY <2>1 DEF Pool!Row
  <2>3. row # None
    BY <2>2, PoolAssumption DEF Pool!PoolConstants
  <2>4. tasks' = [tasks EXCEPT ![t] = row] /\ tasks[t] # None
        /\ UNCHANGED <<files, fragments, upload, undeclared, restarts>>
    BY <1>5 DEF Pool!Cancel
  <2> HIDE DEF row
  <2> QED
    BY <2>2, <2>3, <2>4 DEF UploadPart, Pool!TypeOK, Pool!RowsOfUploads, Pool!OneUploadPerName
<1>6. ASSUME NEW n \in Files, Pool!Delete(n) PROVE UploadPart'
  BY <1>0, <1>6 DEF Pool!Delete, UploadPart, Pool!TypeOK, Pool!RowsOfUploads,
     Pool!OneUploadPerName
<1>7. ASSUME NEW kept \in SUBSET Uploads, Pool!Restart(kept) PROVE UploadPart'
  <2>1. restarts' \in 0 .. MaxStops
    BY <1>7, PoolAssumption DEF Pool!Restart, UploadPart, Pool!TypeOK, Pool!PoolConstants
  <2> QED
    BY <1>7, <2>1 DEF Pool!Restart, UploadPart, Pool!TypeOK, Pool!RowsOfUploads,
       Pool!OneUploadPerName
<1>8. CASE UNCHANGED Pool!vars
  BY <1>8 DEF Pool!vars, UploadPart, Pool!TypeOK, Pool!RowsOfUploads, Pool!OneUploadPerName
<1> QED
  BY <1>1, <1>2, <1>3, <1>4, <1>5, <1>6, <1>7, <1>8 DEF Pool!Next

-----------------------------------------------------------------------------
(* The quota: the units that are claimed.                                  *)

\* The claims are finitely many units.
LEMMA ClaimsFinite ==
    /\ IsFiniteSet(Files \X (1 .. Disk))
    /\ IsFiniteSet(Pool!Claims) /\ Cardinality(Pool!Claims) \in Nat
<1>1. 1 \in Int /\ Disk \in Int /\ IsFiniteSet(Files)
  BY PoolAssumption, PoolSizes DEF Pool!PoolConstants
<1>2. IsFiniteSet(Files \X (1 .. Disk))
  BY <1>1, FS_Interval, FS_Product
<1>3. Pool!Claims \subseteq Files \X (1 .. Disk)
  BY DEF Pool!Claims
<1> QED
  BY <1>2, <1>3, FS_Subset, FS_CardinalityType

\* Fewer claims keep the quota.
LEMMA FewerClaims ==
    ASSUME Pool!QuotaKept, undeclared => undeclared', ~undeclared' =>
             Pool!Claims' \subseteq Pool!Claims
    PROVE  Pool!QuotaKept'
<1>1. ASSUME NEW C, C \subseteq Pool!Claims
    PROVE Cardinality(C) <= Cardinality(Pool!Claims) /\ Cardinality(C) \in Nat
  BY <1>1, ClaimsFinite, FS_Subset, FS_CardinalityType
<1>2. ~undeclared' => Cardinality(Pool!Claims') <= Cardinality(Pool!Claims)
        /\ Cardinality(Pool!Claims') \in Nat
  BY <1>1
<1> QED
  BY <1>2, ClaimsFinite, PoolAssumption, PoolSizes DEF Pool!QuotaKept, Pool!PoolConstants

\* A length that is declared claims only what is available.
LEMMA BeginKeepsQuota ==
    ASSUME UploadPart, Pool!QuotaKept, NEW t \in Uploads, NEW n \in Files,
           NEW overwrite \in BOOLEAN,
           NEW declared \in Pool!Size, Pool!Begin(t, n, overwrite, declared)
    PROVE  Pool!QuotaKept'
<1> SUFFICES ASSUME ~undeclared' PROVE Cardinality(Pool!Claims') <= Capacity
  BY PoolSizes DEF Pool!QuotaKept
<1>0. \A k \in Pool!Size : k \in Nat /\ k <= Disk
  BY PoolAssumption DEF Pool!Size, Pool!PoolConstants
<1>1. /\ ~undeclared /\ declared # 0 /\ upload[t] = None /\ declared <= Pool!Available(n)
      /\ files' = files
  BY DEF Pool!Begin
<1>2. \A x \in Uploads : upload[x] # None => x \in Pool!ActiveTasks
        /\ tasks[x].name = upload[x].name
                                           /\ tasks[x].total = upload[x].declared
  BY DEF UploadPart, Pool!TypeOK, Pool!RowsOfUploads, Pool!ActiveTasks, Pool!Active, Pool!Row
<1>3. \A x \in Uploads : upload[x] # None => upload[x].name # n /\ x # t
  BY <1>1, <1>2 DEF Pool!Begin
<1>4. /\ upload'[t].name = n /\ upload'[t].declared = declared
      /\ \A x \in Uploads \ {t} : upload'[x] = upload[x]
  BY DEF Pool!Begin, UploadPart, Pool!TypeOK
<1> DEFINE own == {n} \X (1 .. declared)
           left == [m \in Files \ {n} |-> files[m]]
           totals == [x \in Pool!ActiveTasks |-> tasks[x].total]
           place == [u \in Units(totals) |-> <<upload[u[1]].name, u[2]>>]
           others == {place[u] : u \in Units(totals)}
<1>5. CASE declared <= files[n]
  <2>1. ASSUME NEW u \in Pool!Claims' PROVE u \in Pool!Claims
    <3>1. u \in Files \X (1 .. Disk) /\ u = <<u[1], u[2]>> /\ u[2] \in Nat
      BY PoolAssumption DEF Pool!Claims, Pool!PoolConstants
    <3>2. CASE u[2] <= files[u[1]]
      BY <3>1, <3>2 DEF Pool!Claims
    <3>3. ASSUME NEW x \in Uploads, upload'[x] # None, upload'[x].name = u[1],
                 u[2] <= upload'[x].declared
          PROVE  u \in Pool!Claims
      <4>1. CASE x = t
        <5>1. u[1] = n /\ u[2] <= declared
          BY <1>4, <3>3, <4>1
        <5>2. files[n] \in Nat /\ declared \in Nat
          BY <1>0 DEF UploadPart, Pool!TypeOK
        <5> QED
          BY <1>5, <3>1, <5>1, <5>2 DEF Pool!Claims
      <4>2. CASE x # t
        BY <1>4, <3>1, <3>3, <4>2 DEF Pool!Claims
      <4> QED
        BY <4>1, <4>2
    <3> QED
      BY <1>1, <3>2, <3>3 DEF Pool!Claims
  <2>2. Pool!Claims' \subseteq Pool!Claims
    BY <2>1
  <2> QED
    BY <1>1, <2>2, FewerClaims, PoolSizes DEF Pool!QuotaKept
<1>6. CASE ~(declared <= files[n])
  <2>0. files[n] \in Nat /\ declared \in Nat /\ files[n] <= declared
    BY <1>0, <1>6 DEF UploadPart, Pool!TypeOK
  <2>1. DOMAIN left = Files \ {n} /\ \A m \in Files \ {n} : left[m] = files[m]
    OBVIOUS
  <2>2. DOMAIN totals = Pool!ActiveTasks
          /\ \A x \in Pool!ActiveTasks : totals[x] = tasks[x].total
    OBVIOUS
  <2>3. others = {<<upload[u[1]].name, u[2]>> : u \in Units(totals)}
    OBVIOUS
  <2>4. ASSUME NEW u \in Pool!Claims' PROVE u \in own \cup Units(left) \cup others
    <3>1. u \in Files \X (1 .. Disk) /\ u = <<u[1], u[2]>> /\ u[2] \in 1 .. Disk /\ u[2] \in Nat
          /\ u[1] \in Files
      BY PoolAssumption DEF Pool!Claims, Pool!PoolConstants
    <3>2. CASE u[2] <= files[u[1]]
      <4>1. CASE u[1] = n
        BY <2>0, <3>1, <3>2, <4>1
      <4>2. CASE u[1] # n
        BY <2>1, <3>1, <3>2, <4>2 DEF Units
      <4> QED
        BY <4>1, <4>2
    <3>3. ASSUME NEW x \in Uploads, upload'[x] # None, upload'[x].name = u[1],
                 u[2] <= upload'[x].declared
          PROVE  u \in own \cup Units(left) \cup others
      <4>1. CASE x = t
        <5>1. u[1] = n /\ u[2] <= declared
          BY <1>4, <3>3, <4>1
        <5> QED
          BY <2>0, <3>1, <5>1
      <4>2. CASE x # t
        <5>1. /\ upload[x] # None /\ upload[x].name = u[1] /\ u[2] <= upload[x].declared
          BY <1>4, <3>3, <4>2
        <5>2. x \in Pool!ActiveTasks /\ totals[x] = upload[x].declared
          BY <1>2, <2>2, <5>1
        <5> HIDE DEF totals
        <5>3. <<x, u[2]>> \in Units(totals)
          BY <2>2, <3>1, <5>1, <5>2 DEF Units
        <5>4. <<upload[x].name, u[2]>> \in others
          BY <2>3, <5>3
        <5> QED
          BY <3>1, <5>1, <5>4
      <4> QED
        BY <4>1, <4>2
    <3> QED
      BY <1>1, <3>2, <3>3 DEF Pool!Claims
  <2>5. IsFiniteSet(own) /\ Cardinality(own) = declared
    BY UnitsOfOne
  <2>6. IsFiniteSet(Units(left)) /\ Cardinality(Units(left)) = Pool!ManagedBytes(Files \ {n})
    <3>1. IsFiniteSet(DOMAIN left)
      BY <2>1, PoolAssumption, FS_Subset, PoolSizes DEF Pool!PoolConstants
    <3>2. Pool!ManagedBytes(Files \ {n}) = Pool!Total(left)
      BY DEF Pool!ManagedBytes
    <3> HIDE DEF left
    <3> QED
      BY <3>1, <3>2, UnitsFinite, TotalIsUnits
  <2>7. IsFiniteSet(Units(totals)) /\ Cardinality(Units(totals)) = Pool!QuotaReserved
    <3>1. IsFiniteSet(DOMAIN totals)
      BY <2>2, PoolAssumption, FS_Subset, PoolSizes DEF Pool!PoolConstants, Pool!ActiveTasks
    <3>2. Pool!QuotaReserved = Pool!Total(totals)
      BY DEF Pool!QuotaReserved
    <3> HIDE DEF totals
    <3> QED
      BY <3>1, <3>2, UnitsFinite, TotalIsUnits
  <2> HIDE DEF own, left, totals
  <2>8. IsFiniteSet(others) /\ Cardinality(others) <= Pool!QuotaReserved
    <3>1. place \in Surjection(Units(totals), others)
      BY DEF Surjection
    <3> QED
      BY <2>7, <3>1, FS_Surjection
  <2> HIDE DEF others, place
  <2>9. Pool!ManagedBytes(Files \ {n}) \in Nat /\ Pool!QuotaReserved \in Nat
        /\ declared + Pool!ManagedBytes(Files \ {n}) + Pool!QuotaReserved <= Capacity
    BY <1>1, AvailableIsRoom DEF UploadPart
  <2>10. ASSUME NEW A, NEW B, IsFiniteSet(A), IsFiniteSet(B)
         PROVE  /\ IsFiniteSet(A \cup B) /\ Cardinality(A \cup B) \in Nat
                /\ Cardinality(A) \in Nat /\ Cardinality(B) \in Nat
                /\ Cardinality(A \cup B) <= Cardinality(A) + Cardinality(B)
    <3>1. Cardinality(A \cup B) = Cardinality(A) + Cardinality(B) - Cardinality(A \cap B)
          /\ IsFiniteSet(A \cup B)
      BY <2>10, FS_Union
    <3>2. IsFiniteSet(A \cap B)
      BY <2>10, FS_Intersection
    <3>3. /\ Cardinality(A) \in Nat /\ Cardinality(B) \in Nat /\ Cardinality(A \cap B) \in Nat
          /\ Cardinality(A \cup B) \in Nat
      BY <2>10, <3>1, <3>2, FS_CardinalityType
    <3> QED
      BY <3>1, <3>3
  <2>11. IsFiniteSet(own \cup Units(left))
         /\ Cardinality(own \cup Units(left)) \in Nat
         /\ Cardinality(own \cup Units(left)) <= declared + Pool!ManagedBytes(Files \ {n})
    BY <2>5, <2>6, <2>10
  <2>12. IsFiniteSet(own \cup Units(left) \cup others)
         /\ Cardinality(own \cup Units(left) \cup others) \in Nat /\ Cardinality(others) \in Nat
         /\ Cardinality(own \cup Units(left) \cup others)
               <= Cardinality(own \cup Units(left)) + Cardinality(others)
    BY <2>8, <2>10, <2>11
  <2>13. Cardinality(own \cup Units(left) \cup others) <= Capacity
    BY <2>0, <2>8, <2>9, <2>11, <2>12, PoolAssumption DEF Pool!PoolConstants
  <2>14. Pool!Claims' \subseteq own \cup Units(left) \cup others
    BY <2>4
  <2>15. Cardinality(Pool!Claims') <= Cardinality(own \cup Units(left) \cup others)
         /\ Cardinality(Pool!Claims') \in Nat
    BY <2>12, <2>14, FS_Subset, FS_CardinalityType
  <2> QED
    BY <2>12, <2>13, <2>15, PoolAssumption DEF Pool!PoolConstants
<1> QED
  BY <1>5, <1>6

\* Every step keeps the quota.
LEMMA QuotaStep == ASSUME UploadPart, Pool!QuotaKept, [Pool!Next]_(Pool!vars)
    PROVE Pool!QuotaKept'
<1>1. ASSUME NEW t \in Uploads, NEW n \in Files, NEW overwrite \in BOOLEAN,
             NEW declared \in Pool!Size,
             Pool!Begin(t, n, overwrite, declared)
      PROVE  Pool!QuotaKept'
  BY <1>1, BeginKeepsQuota
<1>2. ASSUME NEW t \in Uploads, Pool!Chunk(t) PROVE Pool!QuotaKept'
  <2>1. /\ upload[t] \in Pool!Upload /\ files' = files /\ undeclared' = undeclared
        /\ upload' = [upload EXCEPT ![t].written = upload[t].written + 1] /\ upload[t] # None
    BY <1>2 DEF Pool!Chunk, UploadPart, Pool!TypeOK
  <2>2. \A x \in Uploads : upload'[x] # None =>
            upload[x] # None /\ upload'[x].name = upload[x].name
            /\ upload'[x].declared = upload[x].declared
    BY <2>1 DEF UploadPart, Pool!TypeOK, Pool!Upload
  <2>3. Pool!Claims' \subseteq Pool!Claims
    BY <2>1, <2>2 DEF Pool!Claims
  <2> QED
    BY <2>1, <2>3, FewerClaims
<1>3. ASSUME NEW t \in Uploads, Pool!Fails(t) PROVE Pool!QuotaKept'
  <2>1. Pool!Claims' \subseteq Pool!Claims /\ undeclared' = undeclared
    BY <1>3 DEF Pool!Fails, Pool!Ends, UploadPart, Pool!TypeOK, Pool!Claims
  <2> QED
    BY <2>1, FewerClaims
<1>4. ASSUME NEW t \in Uploads, Pool!Complete(t) PROVE Pool!QuotaKept'
  <2>1. /\ undeclared' = undeclared /\ upload[t] # None /\ upload[t] \in Pool!Upload
        /\ files' = [files EXCEPT ![upload[t].name] = upload[t].written]
        /\ upload' = [upload EXCEPT ![t] = None]
    BY <1>4 DEF Pool!Complete, Pool!Ends, UploadPart, Pool!TypeOK
  <2>2. ~undeclared => upload[t].written = upload[t].declared
    BY <1>4, <2>1 DEF Pool!Complete, UploadPart, Pool!RowsOfUploads
  <2>3. /\ upload[t].name \in Files /\ files'[upload[t].name] = upload[t].written
        /\ \A m \in Files \ {upload[t].name} : files'[m] = files[m]
        /\ \A x \in Uploads : upload'[x] # None => upload'[x] = upload[x]
    BY <2>1 DEF UploadPart, Pool!TypeOK, Pool!Upload
  <2>4. ~undeclared' => Pool!Claims' \subseteq Pool!Claims
    BY <2>1, <2>2, <2>3 DEF Pool!Claims
  <2> QED
    BY <2>1, <2>4, FewerClaims
<1>5. ASSUME NEW t \in Uploads, Pool!Cancel(t) PROVE Pool!QuotaKept'
  BY <1>5 DEF Pool!Cancel, Pool!QuotaKept, Pool!Claims
<1>6. ASSUME NEW n \in Files, Pool!Delete(n) PROVE Pool!QuotaKept'
  <2>1. undeclared' = undeclared /\ upload' = upload /\ files' = [files EXCEPT ![n] = 0]
    BY <1>6 DEF Pool!Delete
  <2>2. ASSUME NEW u \in Pool!Claims' PROVE u \in Pool!Claims
    <3>1. u \in Files \X (1 .. Disk) /\ u[1] \in Files /\ u[2] \in Nat /\ u[2] >= 1
      BY PoolAssumption DEF Pool!Claims, Pool!PoolConstants
    <3>2. u[2] <= files'[u[1]] => u[2] <= files[u[1]]
      BY <2>1, <3>1 DEF UploadPart, Pool!TypeOK
    <3> QED
      BY <2>1, <3>1, <3>2 DEF Pool!Claims
  <2> QED
    BY <2>1, <2>2, FewerClaims
<1>7. ASSUME NEW kept \in SUBSET Uploads, Pool!Restart(kept) PROVE Pool!QuotaKept'
  <2>1. Pool!Claims' \subseteq Pool!Claims /\ undeclared' = undeclared
    BY <1>7 DEF Pool!Restart, Pool!Claims
  <2> QED
    BY <2>1, FewerClaims
<1>8. CASE UNCHANGED Pool!vars
  BY <1>8 DEF Pool!vars, Pool!QuotaKept, Pool!Claims
<1> QED
  BY <1>1, <1>2, <1>3, <1>4, <1>5, <1>6, <1>7, <1>8 DEF Pool!Next

-----------------------------------------------------------------------------
(* The room of the file system.                                            *)

\* What the disk holds and the tasks may still write.
Filled == Pool!Total(files) + Pool!Total(FragmentsOf(fragments)) + Pool!Total(StillsOf(tasks))

\* The sum over the tasks that run is a sum over all.
LEMMA RoomIsSums ==
    ASSUME NEW table \in [Uploads -> Pool!Row \cup {None}]
    PROVE  Pool!Total([t \in {t \in Uploads : Pool!Active(table[t])} |-> Pool!Still(table[t])])
             = Pool!Total(StillsOf(table))
  BY StillsAreSizes

\* The three sums are natural numbers.
LEMMA SumIsNatural ==
    ASSUME NEW f \in [Files -> Pool!Size], NEW sizes \in [Uploads -> Pool!Size \cup {None}],
           NEW table \in [Uploads -> Pool!Row \cup {None}]
    PROVE  Pool!Total(f) \in Nat /\ Pool!Total(FragmentsOf(sizes)) \in Nat
             /\ Pool!Total(StillsOf(table)) \in Nat
  BY FragmentsAreSizes, StillsAreSizes, SumsAreNaturals

\* One task whose fragment changes.
LEMMA OneFragment ==
    ASSUME NEW sizes \in [Uploads -> Pool!Size \cup {None}], NEW t \in Uploads,
           NEW size \in Pool!Size \cup {None}
    PROVE  /\ Pool!Total(FragmentsOf([sizes EXCEPT ![t] = size])) + FragmentsOf(sizes)[t]
                = Pool!Total(FragmentsOf(sizes)) + (IF size = None THEN 0 ELSE size)
           /\ FragmentsOf(sizes)[t] = (IF sizes[t] = None THEN 0 ELSE sizes[t])
           /\ FragmentsOf(sizes)[t] \in Nat
<1> DEFINE sizes2 == [sizes EXCEPT ![t] = size]
<1>1. sizes2 \in [Uploads -> Pool!Size \cup {None}] /\ sizes2[t] = size
      /\ \A x \in Uploads \ {t} : sizes2[x] = sizes[x]
  OBVIOUS
<1> HIDE DEF sizes2
<1>3. /\ \A x \in Uploads : FragmentsOf(sizes)[x] = IF sizes[x] = None THEN 0 ELSE sizes[x]
      /\ \A x \in Uploads : FragmentsOf(sizes2)[x] = IF sizes2[x] = None THEN 0 ELSE sizes2[x]
  BY DEF FragmentsOf
<1>4. FragmentsOf(sizes) \in [Uploads -> Pool!Size]
        /\ FragmentsOf(sizes2) \in [Uploads -> Pool!Size]
  BY <1>1, FragmentsAreSizes
<1>5. IsFiniteSet(Uploads)
  BY PoolAssumption, PoolSizes DEF Pool!PoolConstants
<1>6. \A x \in Uploads \ {t} : FragmentsOf(sizes)[x] = FragmentsOf(sizes2)[x]
  BY <1>1, <1>3
<1>8. Pool!Total(FragmentsOf(sizes2)) + FragmentsOf(sizes)[t]
        = Pool!Total(FragmentsOf(sizes)) + FragmentsOf(sizes2)[t]
  BY <1>4, <1>5, <1>6, Differ
<1>9. FragmentsOf(sizes)[t] \in Nat
  BY <1>4 DEF Pool!Size
<1> QED
  BY <1>1, <1>3, <1>8, <1>9 DEF sizes2

\* One task whose row changes.
LEMMA OneRow ==
    ASSUME NEW table \in [Uploads -> Pool!Row \cup {None}], NEW t \in Uploads,
           NEW row \in Pool!Row \cup {None}
    PROVE  /\ Pool!Total(StillsOf([table EXCEPT ![t] = row])) + StillsOf(table)[t]
                = Pool!Total(StillsOf(table)) + (IF row = None THEN 0 ELSE Pool!Still(row))
           /\ StillsOf(table)[t] = (IF table[t] = None THEN 0 ELSE Pool!Still(table[t]))
           /\ StillsOf(table)[t] \in Nat
<1> DEFINE table2 == [table EXCEPT ![t] = row]
<1>2. table2 \in [Uploads -> Pool!Row \cup {None}] /\ table2[t] = row
      /\ \A x \in Uploads \ {t} : table2[x] = table[x]
  OBVIOUS
<1> HIDE DEF table2
<1>3. /\ \A x \in Uploads :
           StillsOf(table)[x] = IF table[x] = None THEN 0 ELSE Pool!Still(table[x])
      /\ \A x \in Uploads :
           StillsOf(table2)[x] = IF table2[x] = None THEN 0 ELSE Pool!Still(table2[x])
  BY DEF StillsOf
<1>4. StillsOf(table) \in [Uploads -> Pool!Size] /\ StillsOf(table2) \in [Uploads -> Pool!Size]
  BY <1>2, StillsAreSizes
<1>5. IsFiniteSet(Uploads)
  BY PoolAssumption, PoolSizes DEF Pool!PoolConstants
<1>7. \A x \in Uploads \ {t} : StillsOf(table)[x] = StillsOf(table2)[x]
  BY <1>2, <1>3
<1>9. Pool!Total(StillsOf(table2)) + StillsOf(table)[t] =
        Pool!Total(StillsOf(table)) + StillsOf(table2)[t]
  BY <1>4, <1>5, <1>7, Differ
<1>10. StillsOf(table)[t] \in Nat
  BY <1>4 DEF Pool!Size
<1> QED
  BY <1>2, <1>3, <1>9, <1>10 DEF table2

\* One name whose file changes.
LEMMA OneName ==
    ASSUME NEW f \in [Files -> Pool!Size], NEW n \in Files, NEW size \in Pool!Size
    PROVE  Pool!Total([f EXCEPT ![n] = size]) + f[n] = Pool!Total(f) + size
<1> DEFINE g == [f EXCEPT ![n] = size]
<1>1. g \in [Files -> Pool!Size] /\ g[n] = size /\ \A m \in Files \ {n} : f[m] = g[m]
  OBVIOUS
<1> HIDE DEF g
<1>2. Pool!Total(g) + f[n] = Pool!Total(f) + g[n]
  BY <1>1, PoolAssumption, Differ, PoolSizes DEF Pool!PoolConstants
<1> QED
  BY <1>1, <1>2 DEF g

\* The room in terms of the three sums.
Fits(sum) == sum + Reserve <= Disk

\* The room, before and after a step.
LEMMA RoomUnfolds ==
    ASSUME Pool!TypeOK, Pool!TypeOK'
    PROVE  /\ Pool!RoomKept <=> (~undeclared => Fits(Filled))
           /\ Pool!RoomKept' <=> (~undeclared' => Fits(Filled'))
           /\ Filled \in Nat /\ Filled' \in Nat
<1>1. /\ files \in [Files -> Pool!Size] /\ files' \in [Files -> Pool!Size]
      /\ fragments \in [Uploads -> Pool!Size \cup {None}]
           /\ fragments' \in [Uploads -> Pool!Size \cup {None}]
      /\ tasks \in [Uploads -> Pool!Row \cup {None}]
           /\ tasks' \in [Uploads -> Pool!Row \cup {None}]
  BY DEF Pool!TypeOK
<1>2. /\ Pool!PhysicalReserved = Pool!Total(StillsOf(tasks))
      /\ Pool!PhysicalReserved' = Pool!Total(StillsOf(tasks'))
  BY <1>1, RoomIsSums DEF Pool!PhysicalReserved, Pool!ActiveTasks
<1>3. Pool!Fragments = FragmentsOf(fragments) /\ Pool!Fragments' = FragmentsOf(fragments')
  BY DEF Pool!Fragments, FragmentsOf
<1>4. Filled = Pool!Total(files) + Pool!Total(Pool!Fragments) + Pool!PhysicalReserved
      /\ Filled' = Pool!Total(files') + Pool!Total(Pool!Fragments') + Pool!PhysicalReserved'
  BY <1>2, <1>3 DEF Filled
<1>5. Filled \in Nat
        /\ Filled' =
             Pool!Total(files') + Pool!Total(FragmentsOf(fragments'))
               + Pool!Total(StillsOf(tasks'))
  BY <1>1, SumIsNatural DEF Filled
<1>6. Filled' \in Nat
  BY <1>1, <1>5, SumIsNatural
<1> QED
  BY <1>4, <1>5, <1>6 DEF Pool!RoomKept, Fits

\* A step that fills no more keeps the room.
LEMMA SmallerSum ==
    ASSUME Pool!TypeOK, Pool!TypeOK', Pool!RoomKept, undeclared => undeclared', ~undeclared' =>
             Filled' <= Filled
    PROVE  Pool!RoomKept'
  BY RoomUnfolds, PoolAssumption DEF Fits, Pool!PoolConstants

\* Every step keeps the room.
LEMMA RoomStep == ASSUME UploadPart, UploadPart', Pool!RoomKept, [Pool!Next]_(Pool!vars)
    PROVE Pool!RoomKept'
<1>0. /\ Pool!TypeOK /\ Pool!TypeOK' /\ files \in [Files -> Pool!Size]
      /\ fragments \in [Uploads -> Pool!Size \cup {None}]
           /\ tasks \in [Uploads -> Pool!Row \cup {None}]
  BY DEF UploadPart, Pool!TypeOK
<1>9. 0 \in Pool!Size /\ \A k \in Pool!Size : k \in Nat /\ k <= Disk /\ k # None
  BY PoolAssumption DEF Pool!Size, Pool!PoolConstants
<1>10. /\ Pool!Total(files) \in Nat /\ Pool!Total(FragmentsOf(fragments)) \in Nat
       /\ Pool!Total(StillsOf(tasks)) \in Nat
  BY <1>0, SumIsNatural
<1>11. /\ files' \in [Files -> Pool!Size] /\ fragments' \in [Uploads -> Pool!Size \cup {None}]
       /\ tasks' \in [Uploads -> Pool!Row \cup {None}]
  BY DEF UploadPart, Pool!TypeOK
<1>12. /\ Pool!Total(files') \in Nat /\ Pool!Total(FragmentsOf(fragments')) \in Nat
       /\ Pool!Total(StillsOf(tasks')) \in Nat
  BY <1>11, SumIsNatural
<1>13. Filled' =
         Pool!Total(files') + Pool!Total(FragmentsOf(fragments')) + Pool!Total(StillsOf(tasks'))
  BY DEF Filled, FragmentsOf, StillsOf
<1>14. \A row \in Pool!Row : Pool!Still(row) \in Pool!Size
         /\ Pool!Still(row) = Pool!AtLeast(0, row.total - row.done)
                       /\ row # None
  BY PoolAssumption DEF Pool!Still, Pool!AtLeast, Pool!Size, Pool!Row, Pool!PoolConstants
<1>1. ASSUME NEW t \in Uploads, NEW n \in Files, NEW overwrite \in BOOLEAN,
             NEW declared \in Pool!Size,
             Pool!Begin(t, n, overwrite, declared)
      PROVE  Pool!RoomKept'
  <2> DEFINE row == [name |-> n, status |-> "running", done |-> 0, total |-> declared]
  <2>1. row \in Pool!Row /\ row.total = declared /\ row.done = 0
    BY <1>9 DEF Pool!Row
  <2>2. tasks' = [tasks EXCEPT ![t] = row] /\ fragments' = [fragments EXCEPT ![t] = 0]
        /\ files' = files
    BY <1>1 DEF Pool!Begin
  <2> HIDE DEF row
  <2>3. Pool!Still(row) = declared /\ row # None
    BY <1>9, <1>14, <2>1 DEF Pool!AtLeast
  <2>4. tasks[t] = None
    BY <1>1 DEF Pool!Begin, UploadPart, Pool!RowsOfUploads
  <2>15. /\ Pool!Total(FragmentsOf(fragments')) + FragmentsOf(fragments)[t]
              = Pool!Total(FragmentsOf(fragments)) + 0
         /\ FragmentsOf(fragments)[t] \in Nat
    <3>1. 0 \in Pool!Size \cup {None} /\ 0 # None
      BY <1>9
    <3> QED
      BY <1>0, <2>2, <3>1, OneFragment
  <2>16. Pool!Total(StillsOf(tasks')) + 0 = Pool!Total(StillsOf(tasks)) + declared
    <3>1. row \in Pool!Row \cup {None}
      BY <2>1
    <3>8. /\ Pool!Total(StillsOf([tasks EXCEPT ![t] = row])) + StillsOf(tasks)[t]
              = Pool!Total(StillsOf(tasks)) + (IF row = None THEN 0 ELSE Pool!Still(row))
         /\ StillsOf(tasks)[t] = (IF tasks[t] = None THEN 0 ELSE Pool!Still(tasks[t]))
      BY <1>0, <3>1, OneRow
    <3> QED
      BY <2>2, <2>3, <2>4, <3>8
  <2>5. /\ Pool!Total(FragmentsOf(fragments')) + FragmentsOf(fragments)[t]
             = Pool!Total(FragmentsOf(fragments)) + 0
        /\ Pool!Total(StillsOf(tasks')) + 0 = Pool!Total(StillsOf(tasks)) + declared
        /\ FragmentsOf(fragments)[t] \in Nat
    BY <2>15, <2>16
  <2>6. ASSUME ~undeclared' PROVE Fits(Filled')
    <3>1. declared # 0 /\ declared <= Pool!Available(n)
      BY <1>1, <2>6 DEF Pool!Begin
    <3>2. declared + Pool!Total(StillsOf(tasks)) + Reserve <= Pool!FreeBytes
            /\ Pool!FreeBytes \in Int
      BY <1>0, <3>1, AvailableIsRoom
    <3>3. Pool!FreeBytes = Disk - Pool!Total(files) - Pool!Total(FragmentsOf(fragments))
      <4>1. files = [m \in Files |-> files[m]]
        BY <1>0
      <4> QED
        BY <4>1 DEF Pool!FreeBytes, Pool!ManagedBytes, Pool!Fragments, FragmentsOf
    <3>4. Disk \in Nat /\ Reserve \in Nat /\ declared \in Nat
      BY <1>9, PoolAssumption DEF Pool!PoolConstants
    <3> QED
      BY <1>10, <1>12, <1>13, <2>2, <2>5, <3>2, <3>3, <3>4 DEF Fits
  <2> QED
    BY <1>0, <2>6, RoomUnfolds
<1>2. ASSUME NEW t \in Uploads, Pool!Chunk(t) PROVE Pool!RoomKept'
  <2> DEFINE written == upload[t].written + 1
             row == [tasks[t] EXCEPT !.done = written]
  <2>1. /\ upload[t] \in Pool!Upload /\ tasks[t] \in Pool!Row /\ upload[t] # None
        /\ tasks[t] # None
        /\ tasks[t].done = upload[t].written /\ fragments[t] = upload[t].written
        /\ tasks[t].total = upload[t].declared /\ upload[t].written \in Pool!Size
        /\ upload[t].declared \in Pool!Size
    BY <1>2 DEF Pool!Chunk, UploadPart, Pool!TypeOK, Pool!RowsOfUploads, Pool!Upload
  <2>2. /\ tasks' = [tasks EXCEPT ![t] = row] /\ fragments' = [fragments EXCEPT ![t] = written]
        /\ files' = files /\ undeclared' = undeclared
    BY <1>2 DEF Pool!Chunk
  <2>3. row.total = upload[t].declared /\ row.done = written
    BY <2>1 DEF Pool!Row
  <2> HIDE DEF row
  <2>4. fragments'[t] = written /\ tasks'[t] = row
    BY <1>0, <2>2
  <2>5. written \in Pool!Size /\ row \in Pool!Row /\ written = upload[t].written + 1
    <3>1. written <= upload[t].available /\ upload[t].available \in Pool!Size
      BY <1>2, <2>1 DEF Pool!Chunk, Pool!Upload, written
    <3>2. Disk \in Nat
      BY PoolAssumption DEF Pool!PoolConstants
    <3>3. written \in Pool!Size
      BY <2>1, <3>1, <3>2 DEF Pool!Size, written
    <3> QED
      BY <2>1, <3>3 DEF Pool!Row, row, written
  <2>6. /\ Pool!Total(FragmentsOf(fragments')) + upload[t].written
             = Pool!Total(FragmentsOf(fragments)) + written
        /\ Pool!Total(StillsOf(tasks')) + Pool!Still(tasks[t]) =
             Pool!Total(StillsOf(tasks)) + Pool!Still(row)
    <3>1. written \in Pool!Size \cup {None} /\ row \in Pool!Row \cup {None} /\ written # None
            /\ row # None
      BY <1>9, <1>14, <2>5
    <3>2. fragments[t] # None /\ fragments[t] = upload[t].written /\ tasks[t] # None
      BY <1>9, <2>1
    <3> HIDE DEF written
    <3>7. /\ Pool!Total(FragmentsOf([fragments EXCEPT ![t] =
               written])) + FragmentsOf(fragments)[t]
               = Pool!Total(FragmentsOf(fragments)) + (IF written = None THEN 0 ELSE written)
          /\ FragmentsOf(fragments)[t] = (IF fragments[t] = None THEN 0 ELSE fragments[t])
      BY <1>0, <3>1, OneFragment
    <3>3. Pool!Total(FragmentsOf(fragments')) + upload[t].written
             = Pool!Total(FragmentsOf(fragments)) + written
      BY <2>2, <3>1, <3>2, <3>7
    <3>8. /\ Pool!Total(StillsOf([tasks EXCEPT ![t] = row])) + StillsOf(tasks)[t]
              = Pool!Total(StillsOf(tasks)) + (IF row = None THEN 0 ELSE Pool!Still(row))
         /\ StillsOf(tasks)[t] = (IF tasks[t] = None THEN 0 ELSE Pool!Still(tasks[t]))
      BY <1>0, <3>1, OneRow
    <3>4. Pool!Total(StillsOf(tasks')) + Pool!Still(tasks[t]) =
            Pool!Total(StillsOf(tasks)) + Pool!Still(row)
      BY <2>2, <3>1, <3>2, <3>8
    <3> QED
      BY <3>3, <3>4
  <2>7. ASSUME ~undeclared' PROVE Pool!Still(tasks[t]) = Pool!Still(row) + 1
    <3>1. upload[t].written < upload[t].declared
      BY <1>2, <2>1, <2>2, <2>7 DEF Pool!Chunk, UploadPart, Pool!RowsOfUploads
    <3> QED
      BY <1>9, <1>14, <2>1, <2>3, <2>5, <3>1 DEF Pool!AtLeast
  <2>8. Pool!Still(row) \in Nat /\ Pool!Still(tasks[t]) \in Nat
    BY <1>9, <1>14, <2>1, <2>5
  <2>9. ~undeclared' => Filled' <= Filled
    BY <1>9, <1>10, <1>12, <1>13, <2>1, <2>2, <2>5, <2>6, <2>7, <2>8 DEF Filled
  <2> QED
    BY <1>0, <2>2, <2>9, SmallerSum
<1>20. ASSUME NEW t \in Uploads, Pool!Ends(t)
       PROVE  /\ Pool!Total(FragmentsOf(fragments')) + FragmentsOf(fragments)[t]
                   = Pool!Total(FragmentsOf(fragments))
              /\ Pool!Total(StillsOf(tasks')) <= Pool!Total(StillsOf(tasks))
              /\ FragmentsOf(fragments)[t] = IF fragments[t] = None THEN 0 ELSE fragments[t]
              /\ FragmentsOf(fragments)[t] \in Nat
  <2>1. /\ tasks' = [tasks EXCEPT ![t] = None] /\ fragments' = [fragments EXCEPT ![t] = None]
    BY <1>20 DEF Pool!Ends
  <2>2. /\ Pool!Total(FragmentsOf(fragments')) + FragmentsOf(fragments)[t]
             = Pool!Total(FragmentsOf(fragments)) + 0
        /\ FragmentsOf(fragments)[t] = IF fragments[t] = None THEN 0 ELSE fragments[t]
        /\ FragmentsOf(fragments)[t] \in Nat
    BY <1>0, <2>1, OneFragment
  <2>3. /\ Pool!Total(StillsOf(tasks')) + StillsOf(tasks)[t] = Pool!Total(StillsOf(tasks)) + 0
        /\ StillsOf(tasks)[t] \in Nat
    BY <1>0, <2>1, OneRow
  <2> QED
    BY <1>10, <1>12, <2>2, <2>3
<1>3. ASSUME NEW t \in Uploads, Pool!Fails(t) PROVE Pool!RoomKept'
  <2>1. Pool!Ends(t) /\ files' = files /\ undeclared' = undeclared
    BY <1>3 DEF Pool!Fails, Pool!Ends
  <2>2. Filled' <= Filled
    BY <1>10, <1>12, <1>13, <1>20, <2>1 DEF Filled
  <2> QED
    BY <1>0, <2>1, <2>2, SmallerSum
<1>4. ASSUME NEW t \in Uploads, Pool!Complete(t) PROVE Pool!RoomKept'
  <2>1. /\ Pool!Ends(t) /\ undeclared' = undeclared /\ upload[t] # None
        /\ upload[t] \in Pool!Upload
        /\ files' = [files EXCEPT ![upload[t].name] = upload[t].written]
        /\ fragments[t] = upload[t].written
    BY <1>4 DEF Pool!Complete, Pool!Ends, UploadPart, Pool!TypeOK, Pool!RowsOfUploads
  <2>2. upload[t].name \in Files /\ upload[t].written \in Pool!Size
    BY <2>1 DEF Pool!Upload
  <2>3. Pool!Total(files') + files[upload[t].name] = Pool!Total(files) + upload[t].written
        /\ files[upload[t].name] \in Nat
    BY <1>0, <1>9, <2>1, <2>2, OneName
  <2>4. Pool!Total(FragmentsOf(fragments')) + upload[t].written =
          Pool!Total(FragmentsOf(fragments))
        /\ Pool!Total(StillsOf(tasks')) <= Pool!Total(StillsOf(tasks))
             /\ upload[t].written \in Nat
    BY <1>9, <1>20, <2>1, <2>2
  <2>5. Filled' <= Filled
    BY <1>10, <1>12, <1>13, <2>3, <2>4 DEF Filled
  <2> QED
    BY <1>0, <2>1, <2>5, SmallerSum
<1>5. ASSUME NEW t \in Uploads, Pool!Cancel(t) PROVE Pool!RoomKept'
  <2> DEFINE row == [tasks[t] EXCEPT !.status = "cancelling"]
  <2>1. tasks[t] \in Pool!Row /\ tasks[t] # None
    BY <1>5 DEF Pool!Cancel, UploadPart, Pool!TypeOK
  <2>2. row \in Pool!Row /\ row.total = tasks[t].total /\ row.done = tasks[t].done
    BY <2>1 DEF Pool!Row
  <2>3. tasks' = [tasks EXCEPT ![t] = row]
        /\ UNCHANGED <<files, fragments, undeclared>>
    BY <1>5 DEF Pool!Cancel
  <2> HIDE DEF row
  <2>4. Pool!Still(row) = Pool!Still(tasks[t]) /\ row # None /\ Pool!Still(row) \in Nat
    BY <1>9, <1>14, <2>1, <2>2
  <2>5. Pool!Total(StillsOf(tasks')) + Pool!Still(tasks[t]) =
          Pool!Total(StillsOf(tasks)) + Pool!Still(row)
    <3>1. row \in Pool!Row \cup {None}
      BY <2>2
    <3>8. /\ Pool!Total(StillsOf([tasks EXCEPT ![t] = row])) + StillsOf(tasks)[t]
              = Pool!Total(StillsOf(tasks)) + (IF row = None THEN 0 ELSE Pool!Still(row))
         /\ StillsOf(tasks)[t] = (IF tasks[t] = None THEN 0 ELSE Pool!Still(tasks[t]))
      BY <1>0, <3>1, OneRow
    <3> QED
      BY <2>1, <2>3, <2>4, <3>8
  <2>6. Filled' <= Filled
    BY <1>10, <1>12, <1>13, <2>3, <2>4, <2>5 DEF Filled
  <2> QED
    BY <1>0, <2>3, <2>6, SmallerSum
<1>6. ASSUME NEW n \in Files, Pool!Delete(n) PROVE Pool!RoomKept'
  <2>1. /\ files' = [files EXCEPT ![n] = 0]
        /\ UNCHANGED <<fragments, tasks, undeclared>>
    BY <1>6 DEF Pool!Delete
  <2>2. Pool!Total(files') + files[n] = Pool!Total(files) + 0 /\ files[n] \in Nat
    BY <1>0, <1>9, <2>1, OneName
  <2>3. Filled' <= Filled
    BY <1>10, <1>12, <1>13, <2>1, <2>2 DEF Filled
  <2> QED
    BY <1>0, <2>1, <2>3, SmallerSum
<1>7. ASSUME NEW kept \in SUBSET Uploads, Pool!Restart(kept) PROVE Pool!RoomKept'
  <2>1. /\ tasks' = [x \in Uploads |-> None] /\ UNCHANGED <<files, undeclared>>
        /\ fragments' = [x \in Uploads |-> IF x \in kept THEN fragments[x] ELSE None]
    BY <1>7 DEF Pool!Restart
  <2>2. /\ \A x \in Uploads : FragmentsOf(fragments')[x] <= FragmentsOf(fragments)[x]
                            /\ FragmentsOf(fragments')[x] \in Int
                            /\ FragmentsOf(fragments)[x] \in Int
    BY <1>0, <1>9, <1>11, <2>1 DEF FragmentsOf
  <2>3. /\ \A x \in Uploads : StillsOf(tasks')[x] <= StillsOf(tasks)[x]
                            /\ StillsOf(tasks')[x] \in Int /\ StillsOf(tasks)[x] \in Int
    <3>1. \A x \in Uploads : StillsOf(tasks')[x] = 0
      BY <2>1 DEF StillsOf
    <3>2. \A x \in Uploads : StillsOf(tasks)[x] \in Nat
      BY <1>0, <1>9, StillsAreSizes
    <3> QED
      BY <3>1, <3>2
  <2>4. /\ DOMAIN FragmentsOf(fragments') = Uploads /\ DOMAIN FragmentsOf(fragments) = Uploads
        /\ DOMAIN StillsOf(tasks') = Uploads /\ DOMAIN StillsOf(tasks) = Uploads
    BY DEF FragmentsOf, StillsOf
  <2>5. IsFiniteSet(Uploads)
    BY PoolAssumption, PoolSizes DEF Pool!PoolConstants
  <2>6. Pool!Total(FragmentsOf(fragments')) <= Pool!Total(FragmentsOf(fragments))
    BY <2>2, <2>4, <2>5, Grows
  <2>7. Pool!Total(StillsOf(tasks')) <= Pool!Total(StillsOf(tasks))
    BY <2>3, <2>4, <2>5, Grows
  <2>8. Filled' <= Filled
    BY <1>10, <1>12, <1>13, <2>1, <2>6, <2>7 DEF Filled
  <2> QED
    BY <1>0, <2>1, <2>8, SmallerSum
<1>8. CASE UNCHANGED Pool!vars
  <2>1. Filled' = Filled /\ undeclared' = undeclared
    BY <1>8, <1>13 DEF Pool!vars, Filled
  <2> QED
    BY <1>0, <2>1, RoomUnfolds
<1> QED
  BY <1>1, <1>2, <1>3, <1>4, <1>5, <1>6, <1>7, <1>8 DEF Pool!Next

\* The invariant is kept by every step.
LEMMA PoolStep == ASSUME Pool!IInv, [Pool!Next]_(Pool!vars) PROVE Pool!IInv'
<1>1. UploadPart /\ Pool!QuotaKept /\ Pool!RoomKept
  BY DEF Pool!IInv, UploadPart
<1>2. UploadPart'
  BY <1>1, UploadStep
<1>3. Pool!QuotaKept' /\ Pool!RoomKept'
  BY <1>1, <1>2, QuotaStep, RoomStep
<1> QED
  BY <1>2, <1>3 DEF UploadPart, Pool!IInv

\* Nothing adds up to nothing.
LEMMA ZeroTotal == ASSUME NEW f, \A x \in DOMAIN f : f[x] = 0 PROVE Pool!Total(f) = 0
<1>1. Units(f) = {}
  BY DEF Units
<1> QED
  BY <1>1, TotalIsUnits, FS_EmptySet

\* At first nothing is uploaded.
LEMMA PoolInit == Pool!Init => Pool!IInv
<1> SUFFICES ASSUME Pool!Init PROVE Pool!IInv
  OBVIOUS
<1>0. /\ Capacity \in Nat /\ Reserve \in Nat /\ Disk \in Nat /\ Reserve <= Disk
      /\ MaxStops \in Nat
  BY PoolAssumption DEF Pool!PoolConstants
<1>1. Pool!TypeOK
  <2>1. 0 \in Pool!Size /\ 0 \in 0 .. MaxStops
    BY <1>0 DEF Pool!Size
  <2> QED
    BY <2>1 DEF Pool!Init, Pool!TypeOK
<1>4. Pool!RowsOfUploads /\ Pool!OneUploadPerName
  BY DEF Pool!Init, Pool!RowsOfUploads, Pool!OneUploadPerName
<1>2. Pool!QuotaKept
  <2>1. Pool!Claims = {}
    BY <1>0 DEF Pool!Init, Pool!Claims
  <2> QED
    BY <1>0, <2>1, FS_EmptySet, PoolSizes DEF Pool!QuotaKept
<1>3. Pool!RoomKept
  <2>1. Pool!Total(files) = 0
    BY ZeroTotal DEF Pool!Init
  <2>2. Pool!Total(Pool!Fragments) = 0
    <3>1. \A x \in DOMAIN Pool!Fragments : Pool!Fragments[x] = 0
      BY DEF Pool!Init, Pool!Fragments
    <3> QED
      BY <3>1, ZeroTotal
  <2>3. Pool!PhysicalReserved = 0
    <3> DEFINE f == [t \in Pool!ActiveTasks |-> Pool!Still(tasks[t])]
    <3>1. DOMAIN f = {}
      BY DEF Pool!Init, Pool!ActiveTasks, Pool!Active
    <3> HIDE DEF f
    <3>2. Pool!Total(f) = 0
      BY <3>1, ZeroTotal
    <3> QED
      BY <3>2 DEF f, Pool!PhysicalReserved
  <2> QED
    BY <1>0, <2>1, <2>2, <2>3 DEF Pool!RoomKept
<1> QED
  BY <1>1, <1>2, <1>3, <1>4 DEF Pool!IInv

\* It says what is promised of uploads.
LEMMA PoolEnough == Pool!IInv => Pool!TypeOK /\ Pool!SpaceIsKept /\ Pool!OneUploadPerName
<1> SUFFICES ASSUME Pool!IInv PROVE Pool!SpaceIsKept
  BY DEF Pool!IInv
<1>0. /\ Disk \in Nat /\ Capacity \in Nat /\ Reserve \in Nat
      /\ files \in [Files -> Pool!Size] /\ fragments \in [Uploads -> Pool!Size \cup {None}]
      /\ tasks \in [Uploads -> Pool!Row \cup {None}]
  BY PoolAssumption DEF Pool!PoolConstants, Pool!IInv, Pool!TypeOK
<1>1. files = [m \in Files |-> files[m]] /\ DOMAIN files = Files
  BY <1>0
<1>2. Pool!Total(files) = Pool!ManagedBytes(Files)
  BY <1>1 DEF Pool!ManagedBytes
<1>3. Units(files) \subseteq Pool!Claims
  BY <1>1 DEF Units, Pool!Claims
<1>4. Pool!Total(files) <= Cardinality(Pool!Claims)
  BY <1>3, ClaimsFinite, FS_Subset, TotalIsUnits
<1>5. Pool!Total(files) \in Nat /\ Pool!Total(Pool!Fragments) \in Nat
        /\ Pool!PhysicalReserved \in Nat
  <2>1. Pool!Fragments = FragmentsOf(fragments)
    BY DEF Pool!Fragments, FragmentsOf
  <2>2. Pool!PhysicalReserved = Pool!Total(StillsOf(tasks))
    BY <1>0, RoomIsSums DEF Pool!PhysicalReserved, Pool!ActiveTasks
  <2> QED
    BY <1>0, <2>1, <2>2, SumIsNatural
<1>6. ~undeclared => Pool!Total(files) <= Capacity
  BY <1>0, <1>4, <1>5, ClaimsFinite, PoolSizes DEF Pool!IInv, Pool!QuotaKept
<1>7. ~undeclared => Disk - Pool!Total(files) - Pool!Total(Pool!Fragments) >= Reserve
  BY <1>0, <1>5 DEF Pool!IInv, Pool!RoomKept
<1> QED
  BY <1>2, <1>6, <1>7 DEF Pool!SpaceIsKept, Pool!FreeBytes

\* The invariant of uploads holds for ever.
LEMMA PoolInductive == Pool!Spec => []Pool!IInv
<1>1. Pool!IInv /\ [Pool!Next]_(Pool!vars) => Pool!IInv'
  BY PoolStep
<1>2. Pool!Init => Pool!IInv
  BY PoolInit
<1> QED
  BY <1>1, <1>2, PTL DEF Pool!Spec

=============================================================================
