---------------------------- MODULE MCStagedMedia ----------------------------
(***************************************************************************)
(* Staged files and virtual media under TLC.                               *)
(***************************************************************************)
EXTENDS StagedMedia, TLC

Symmetry == Permutations(Names) \cup Permutations(Clients)

InUse ==
    {n \in Names :
       \/ staged[n] # None \/ published[n] # None
       \/ n \in {status.name, helper.name} \cup {op[c].name : c \in Clients}
       \/ lun # None /\ lun.name = n
       \/ request # None /\ request.name = n}

Busy == {c \in Clients : op[c] # NoOp}

\* Two names with one client at a time, or two clients that share a name.
Focus ==
    \/ Cardinality(InUse) <= 1
    \/ Cardinality(Busy) <= 1 /\ uploads <= 2
=============================================================================
