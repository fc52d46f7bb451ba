------------------------------- MODULE MCTunnel -------------------------------
(***************************************************************************)
(* The two ends of the tunnel under TLC.  They share no state, so one run  *)
(* checks both: `end` says which one a behaviour is about, the other stays *)
(* in an initial state.                                                    *)
(***************************************************************************)
EXTENDS WireGuardPeers, TLC

CONSTANTS Profiles, MaxKills

VARIABLES end, config, keyfile, recovery, reply, identity, authorized, tunnel, mailbox, job,
          shown, setup, booting, disturbed, kills

Assist == INSTANCE RemoteAssist

ASSUME NoneIsNoProfile == Assist!NoneApart

appliance == <<config, keyfile, recovery, reply, identity, authorized, tunnel, mailbox, job,
               shown, setup, booting, disturbed, kills>>

Symmetry ==
    Permutations(Devices) \cup Permutations(Keys) \cup Permutations(Addresses)
      \cup Permutations(Leases) \cup Permutations(Profiles)

EndsInit ==
    /\ Init /\ Assist!Init
    /\ end \in {"server", "appliance"}
    /\ end = "appliance" => conf = [k \in Keys |-> None]

EndsNext ==
    \/ end = "server" /\ Next /\ UNCHANGED <<end, appliance>>
    \/ end = "appliance" /\ Assist!Next /\ UNCHANGED <<end, vars>>

EndsSpec == EndsInit /\ [][EndsNext]_<<end, vars, appliance>>

\* The state of both ends has its types.
EndsTypeOK == TypeOK /\ Assist!TypeOK

\* At rest each end agrees with itself, whatever failed on the way: the three
\* copies of a peer (WireGuardPeers.CopiesAgree), the files of the appliance
\* (RemoteAssist.FilesAgree) and the tunnel that runs
\* (RemoteAssist.TunnelAsConfigured).
EndsAgree == CopiesAgree /\ Assist!FilesAgree /\ Assist!TunnelAsConfigured

\* No step of the host helper gives a running tunnel another profile
\* (RemoteAssist.ActiveProfileStays).
ActiveProfileStays == Assist!ActiveProfileStays
=============================================================================
