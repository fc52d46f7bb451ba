---------------------------- MODULE SerialConsole ----------------------------
(***************************************************************************)
(* Browser sessions on one serial port: backend/app/api/serial.py and the  *)
(* lock registry of backend/app/services/serial.py.  Ports do not share    *)
(* state, so one stands for all.                                           *)
(*                                                                         *)
(* A session is a coroutine: between two awaits it runs undisturbed, so    *)
(* that a step is what happens from one await to the next.  Locks carry a  *)
(* token of their own; since a session and a lock request each acquire     *)
(* once, their identities stand for the tokens.                            *)
(***************************************************************************)
EXTENDS Naturals, FiniteSets

CONSTANTS
    Sessions,       \* WebSocket connections
    Leases,         \* POST /locks requests
    None,
    MaxResets       \* bound: DELETE /sessions requests

VARIABLES
    lock,           \* serial_locks: who holds the device
    active,         \* active_sessions: the session a reset will close
    phase,          \* where each session is
    open,           \* its WebSocket has not been closed by a reset
    resets

vars == <<lock, active, phase, open, resets>>

-----------------------------------------------------------------------------
Phase == {"new", "accepting", "probing", "opening", "streaming", "closing", "over"}

ASSUME Distinct ==
    /\ None \notin Sessions \cup Leases
    /\ Sessions \cap Leases = {}

ASSUME Bounds == MaxResets \in Nat

ASSUME FiniteSessions == IsFiniteSet(Sessions)

TypeOK ==
    /\ lock \in Sessions \cup Leases \cup {None}
    /\ active \in Sessions \cup {None}
    /\ phase \in [Sessions -> Phase]
    /\ open \in [Sessions -> BOOLEAN]
    /\ resets \in Nat

Init ==
    /\ lock = None /\ active = None
    /\ phase = [s \in Sessions |-> "new"]
    /\ open = [s \in Sessions |-> TRUE]
    /\ resets = 0

Goes(s, p) == phase' = [phase EXCEPT ![s] = p]

\* The port is open in this session, in the probing thread or in its own task.
PortUsers == {s \in Sessions : phase[s] \in {"probing", "streaming"}}

-----------------------------------------------------------------------------
(* serial_console()                                                        *)

\* Mutant: the registry hands a device out again.
LockShared == TRUE

LockFree == lock = None

Connect(s) ==
    /\ phase[s] = "new"
    /\ LockFree
    /\ lock' = s
    /\ Goes(s, "accepting")
    /\ UNCHANGED <<active, open, resets>>

\* The browser is told that the port is open in another terminal.
ConnectBusy(s) ==
    /\ phase[s] = "new"
    /\ lock # None
    /\ Goes(s, "over")
    /\ UNCHANGED <<lock, active, open, resets>>

\* Mutant: the session registered is whoever holds the lock by now.
AcceptedHolder(s, auto) ==
    /\ phase[s] = "accepting"
    /\ active' = lock
    /\ Goes(s, IF auto THEN "probing" ELSE "streaming")
    /\ UNCHANGED <<lock, open, resets>>

\* accept() returned.  With a fixed rate the port is opened in the same turn.
Accepted(s, auto) ==
    /\ phase[s] = "accepting"
    /\ active' = s
    /\ Goes(s, IF auto THEN "probing" ELSE "streaming")
    /\ UNCHANGED <<lock, open, resets>>

\* accept() is awaited before the try block: if it raises, nothing is undone.
AcceptFails(s) ==
    /\ phase[s] = "accepting"
    /\ Goes(s, "over")
    /\ UNCHANGED <<lock, active, open, resets>>

\* Mutant: the probe goes on for as long as nobody can be told.
ProbeRetries(s) ==
    /\ phase[s] = "probing"
    /\ open[s]
    /\ Goes(s, "opening") \/ Goes(s, "closing")
    /\ UNCHANGED <<lock, active, open, resets>>

\* A rate was found, or not, and the browser is being told; sending to a closed
\* socket raises.
ProbeEnds(s) ==
    /\ phase[s] = "probing"
    /\ \/ open[s] /\ Goes(s, "opening")
       \/ Goes(s, "closing")
    /\ UNCHANGED <<lock, active, open, resets>>

\* The browser was told, and the port is opened whatever happened meanwhile.
OpenPort(s) ==
    /\ phase[s] = "opening"
    /\ Goes(s, "streaming")
    /\ UNCHANGED <<lock, active, open, resets>>

\* Mutant: whoever holds the lock loses it.
ReleaseAny(s) == None

\* release(): only with the token of the lock in force.
ReleaseOwn(s) == IF lock = s THEN None ELSE lock

\* The finally block, in one turn with what ended the session: the browser left,
\* the socket was closed, the port failed or did not open.
Finish(s) ==
    /\ phase[s] \in {"opening", "streaming", "closing"}
    /\ active' = IF active = s THEN None ELSE active
    /\ lock' = ReleaseOwn(s)
    /\ Goes(s, "over")
    /\ UNCHANGED <<open, resets>>

-----------------------------------------------------------------------------
(* The HTTP handlers.                                                      *)

\* reset_session() of a known session: its lock is released at once, its socket
\* closed, and its handler finds out later.
ResetActive ==
    /\ resets < MaxResets /\ resets' = resets + 1
    /\ active # None
    /\ active' = None
    /\ lock' = ReleaseOwn(active)
    /\ open' = [open EXCEPT ![active] = FALSE]
    /\ UNCHANGED phase

\* Nobody is known to be there: the lock is dropped whoever holds it.
ResetForced ==
    /\ resets < MaxResets /\ resets' = resets + 1
    /\ active = None
    /\ lock' = None
    /\ UNCHANGED <<active, phase, open>>

AcquireLock(a) ==
    /\ LockFree
    /\ lock' = a
    /\ UNCHANGED <<active, phase, open, resets>>

ReleaseLock(a) ==
    /\ lock = a
    /\ lock' = None
    /\ UNCHANGED <<active, phase, open, resets>>

-----------------------------------------------------------------------------
\* What a session does on its own once its socket is gone.
Unwinds(s) == ~open[s] /\ (ProbeEnds(s) \/ Finish(s))

Next ==
    \/ \E s \in Sessions :
         \/ Connect(s) \/ ConnectBusy(s) \/ AcceptFails(s)
         \/ \E auto \in BOOLEAN : Accepted(s, auto)
         \/ ProbeEnds(s) \/ OpenPort(s) \/ Finish(s)
    \/ ResetActive \/ ResetForced
    \/ \E a \in Leases : AcquireLock(a) \/ ReleaseLock(a)

Spec == Init /\ [][Next]_vars

\* The event loop resumes a coroutine whose await has ended.
LiveSpec == Spec /\ \A s \in Sessions : WF_vars(Unwinds(s))

-----------------------------------------------------------------------------
(* Properties.                                                             *)

\* Every reset lets at most one more session onto the port while the one it
\* closed is still unwinding; without a reset sessions are exclusive, as
\* docs/serial-console.md has them, whatever connects, fails or is locked.
OneSessionPerReset == Cardinality(PortUsers) <= 1 + resets

\* A lock ends with its holder or by a reset, never by another session that
\* finishes late (release compares tokens).
LockEndsWithHolder ==
    [][\A x \in Sessions \cup Leases : lock = x /\ lock' # x =>
         \/ resets' = resets + 1
         \/ x \in Leases /\ UNCHANGED phase
         \/ x \in Sessions /\ phase'[x] = "over"]_vars

\* A session that was reset leaves the port, also while a probe is running.
ResetEndsSession == \A s \in Sessions : ~open[s] ~> s \notin PortUsers

-----------------------------------------------------------------------------
(* The invariant behind OneSessionPerReset: sessions that went past the    *)
(* lock and no longer hold it were displaced by a reset each.              *)

Entered == {s \in Sessions : phase[s] \notin {"new", "over"}}
Displaced == {s \in Entered : lock # s}

DisplacedByResets == Cardinality(Displaced) <= resets

IInv == TypeOK /\ DisplacedByResets
=============================================================================
