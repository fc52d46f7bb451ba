------------------------------ MODULE MCLicensing ------------------------------
(***************************************************************************)
(* The registration server and the registration agent under TLC, each with *)
(* an abstraction of the other in its environment.  They share no state    *)
(* here, so one run checks both: `side` says which one a behaviour is      *)
(* about, the other stays in its initial state.                            *)
(***************************************************************************)
EXTENDS Registration, TLC

CONSTANTS Runs, AgentTime, MaxClock, MaxJumps, MaxKills, AgentGrace, Skew, StaleAfter,
          ChallengeAhead

VARIABLES side, time, agentClock, entitled, withdrawn, network, cache, status, lock, run,
          jumps, kills

Agent == INSTANCE RegistrationAgent
           WITH MaxTime <- AgentTime, Grace <- AgentGrace, clock <- agentClock

agent == <<time, agentClock, entitled, withdrawn, network, cache, status, lock, run, jumps, kills>>

Symmetry ==
    Permutations(Devices) \cup Permutations(Installations) \cup Permutations(Runs)

SidesInit == Init /\ Agent!Init /\ side \in {"server", "agent"}

SidesNext ==
    \/ side = "server" /\ Next /\ UNCHANGED <<side, agent>>
    \/ side = "agent" /\ Agent!Next /\ UNCHANGED <<side, vars>>

SidesSpec == SidesInit /\ [][SidesNext]_<<side, vars, agent>>

\* Two runs of the agent that overlap keep its files well formed and leave every bound
\* of a single run in force: a denial is not undone, authority ends with the grace and
\* with a denial that was not reported (client.py run(), agent.lock).
OverlapsAreHarmless ==
    /\ []Agent!TypeOK
    /\ []Agent!AuthorityEndsWithGrace
    /\ []Agent!DenialReachesBackend
    /\ Agent!DenialSticks
=============================================================================
