----------------------------- MODULE LicenseSeats -----------------------------
(***************************************************************************)
(* What the registration server promises about licences, with no protocol: *)
(* a device holds at most one seat, through exactly one installation; a    *)
(* licence never has more holders than seats; a seat changes hands only by *)
(* being released first; and a document is signed only for the             *)
(* installation that holds the seat, for the licence of that seat.         *)
(***************************************************************************)
EXTENDS Naturals, FiniteSets

CONSTANTS Devices, Installations, Licenses, None

VARIABLES
    capacity,   \* seats of each licence, 0 before it exists
    seats,      \* the seats held
    paper       \* the licence of the last document signed for an installation

seatVars == <<capacity, seats, paper>>

Seat == [device : Devices, license : Licenses, inst : Installations]

HoldersOf(l) == {d \in Devices : \E s \in seats : s.device = d /\ s.license = l}

Init ==
    /\ capacity = [l \in Licenses |-> 0]
    /\ seats = {}
    /\ paper = [i \in Installations |-> None]

Offer(l) ==
    /\ capacity[l] = 0
    /\ capacity'[l] \in Nat \ {0}
    /\ capacity' = [capacity EXCEPT ![l] = capacity'[l]]
    /\ UNCHANGED <<seats, paper>>

Grant(s) ==
    /\ \A r \in seats : r.device # s.device
    /\ Cardinality(HoldersOf(s.license)) < capacity[s.license]
    /\ seats' = seats \cup {s}
    /\ paper' = [paper EXCEPT ![s.inst] = s.license]
    /\ UNCHANGED capacity

Issue(s) ==
    /\ s \in seats
    /\ paper' = [paper EXCEPT ![s.inst] = s.license]
    /\ UNCHANGED <<capacity, seats>>

Release(d) ==
    /\ seats' = {s \in seats : s.device # d}
    /\ UNCHANGED <<capacity, paper>>

Next ==
    \/ \E l \in Licenses : Offer(l)
    \/ \E s \in Seat : Grant(s) \/ Issue(s)
    \/ \E d \in Devices : Release(d)

Spec == Init /\ [][Next]_seatVars
=============================================================================
