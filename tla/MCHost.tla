-------------------------------- MODULE MCHost --------------------------------
(***************************************************************************)
(* The host helpers behind a mailbox, under TLC: services, the Wi-Fi       *)
(* access point, access to the customer's network, the wired interfaces    *)
(* and Remote Assist; and the front panel.  They share no state, so one    *)
(* run checks them all: `part` says which one a behaviour is about, the    *)
(* others stay in an initial state.                                        *)
(***************************************************************************)
EXTENDS ServiceActions

CONSTANTS Keys, Factory, Open, MaxRequests, Networks, Everywhere, Asks, Interfaces, Addresses,
          Gateways, Servers, MaxEvents, Profiles

VARIABLES part,
          backend, wifiProfile, wifiConfig, air, wifiRequest, changes, wifiJob, wifiStatus,
          wifiBooting, disturbed, wifiKills,
          accessConfig, rules, options, served, accessRequest, accessJob, accessStatus,
          accessBooting, limits, doubt, accessKills,
          confirmed, posted, draft, wiredRequest, wiredHelper, taken, wiredProfile, spare,
          live, shown, wiredKills,
          menu, late, idle, cache, renewal, work, on, assist, actions, done, others,
          vpnConfig, keyfile, recovery, reply, identity, authorized, tunnel, mailbox, vpnJob,
          vpnShown, setup, vpnBooting, vpnDisturbed, vpnKills

Wifi == INSTANCE WifiAccessPoint
    WITH profile <- wifiProfile, config <- wifiConfig, request <- wifiRequest, asked <- changes,
         job <- wifiJob, status <- wifiStatus, booting <- wifiBooting, kills <- wifiKills

Access == INSTANCE CustomerAccess
    WITH config <- accessConfig, request <- accessRequest, job <- accessJob,
         status <- accessStatus, booting <- accessBooting, kills <- accessKills

Wired == INSTANCE EthernetSettings
    WITH asked <- confirmed, queue <- posted, pending <- draft, request <- wiredRequest,
         helper <- wiredHelper, profile <- wiredProfile, kills <- wiredKills

Panel == INSTANCE FrontPanel WITH job <- work, tunnel <- assist

Remote == INSTANCE RemoteAssist
    WITH config <- vpnConfig, job <- vpnJob, shown <- vpnShown, booting <- vpnBooting,
         disturbed <- vpnDisturbed, kills <- vpnKills

wifi == <<backend, wifiProfile, wifiConfig, air, wifiRequest, changes, wifiJob, wifiStatus,
          wifiBooting, disturbed, wifiKills>>

access == <<accessConfig, rules, options, served, accessRequest, accessJob, accessStatus,
            accessBooting, limits, doubt, accessKills>>

wired == <<confirmed, posted, draft, wiredRequest, wiredHelper, taken, wiredProfile, spare,
           live, shown, wiredKills>>

panel == <<menu, late, idle, cache, renewal, work, on, assist, actions, done, others>>

remote == <<vpnConfig, keyfile, recovery, reply, identity, authorized, tunnel, mailbox, vpnJob,
            vpnShown, setup, vpnBooting, vpnDisturbed, vpnKills>>

all == <<part, vars, wifi, access, wired, panel, remote>>

HostInit ==
    /\ Init /\ Access!Init /\ Wired!Init /\ Wifi!Init /\ Panel!Init
    /\ Remote!Init
    /\ part \in {"services", "wifi", "access", "wired", "panel", "remote"}
    /\ part # "wifi" => backend = "keyfile" /\ air = None /\ wifiProfile.key = Open

\* Customer access stays switched off, as the access point stands for its switch;
\* one page and one way to stop the host stand for the others.
PanelNext ==
    /\ Panel!Next
    /\ "access" \notin on'
    /\ menu'.page \notin {"device", "services"} /\ menu'.confirm # "poweroff"

\* Requests of the page and boots; MCTunnel checks the states of all the others.
RemoteNext ==
    /\ Remote!Next
    /\ vpnJob' # None => vpnJob'.by # "cli"
    /\ ~setup' /\ authorized' = authorized

HostNext ==
    /\ UNCHANGED part
    /\ \/ part = "services" /\ Next /\ UNCHANGED <<wifi, access, wired, panel, remote>>
       \/ part = "wifi" /\ Wifi!Next /\ UNCHANGED <<vars, access, wired, panel, remote>>
       \/ part = "access" /\ Access!Next /\ UNCHANGED <<vars, wifi, wired, panel, remote>>
       \/ part = "wired" /\ Wired!Next /\ UNCHANGED <<vars, wifi, access, panel, remote>>
       \/ part = "panel" /\ PanelNext /\ UNCHANGED <<vars, wifi, access, wired, remote>>
       \/ part = "remote" /\ RemoteNext /\ UNCHANGED <<vars, wifi, access, wired, panel>>

\* The fairness of the three parts that have a liveness property.
HostFairness ==
    /\ \A t \in Tasks : WF_vars(part = "services" /\ QueueStep(t))
    /\ WF_vars(part = "services" /\ HelperStep)
    /\ \A p \in Polls : WF_vars(part = "services" /\ PollStep(p))
    /\ WF_panel(part = "panel" /\ Panel!Tick) /\ WF_panel(part = "panel" /\ Panel!Work)
    /\ WF_remote(part = "remote" /\ Remote!Start) /\ WF_remote(part = "remote" /\ Remote!Helper)

HostSpec == HostInit /\ [][HostNext]_all /\ HostFairness

-----------------------------------------------------------------------------
\* "No value" is none of the values, and the factory key is a key.
ASSUME WiredAssumption == Wired!WiredConstants
ASSUME AccessAssumption == Access!AccessConstants
ASSUME WifiAssumption == Wifi!WifiConstants
ASSUME PanelAssumption == Panel!PanelConstants

-----------------------------------------------------------------------------
(* What the parts promise, by theme; each conjunct is stated and explained  *)
(* in the module of its part.                                              *)

\* The state of every part has its types (that of Remote Assist: see MCTunnel).
HostTypeOK == TypeOK /\ Wifi!TypeOK /\ Access!TypeOK /\ Wired!TypeOK /\ Panel!TypeOK

\* Nothing is carried out twice or while another runs: a service request, one that
\* was mixed from two, an interface's settings, an action of the panel.
RequestsAtMostOnce ==
    /\ CarriedOutAtMostOnce /\ MixedRequestIsLost
    /\ Wired!MixtureLosesOne /\ Panel!WaitsForItsAction

\* Unless somebody was told otherwise the host does what is saved: profile and radio
\* of the access point, firewall and gateway of customer access.
HostAsSaved == Wifi!SettingsAgree /\ Access!AccessAsConfigured /\ Access!AccessIsOffered

\* What a page or the panel shows as done is so: a service's result, the customer's
\* access, an interface's settings, an action of the panel.
AnswersAreTrue ==
    /\ SuccessIsEarned /\ Access!StatusTellsTheAccess
    /\ Wired!AppliedIsLive /\ Panel!DoneWasDone

\* An answer of the Wi-Fi helper is in force when it is given, a 5 GHz attempt that
\* fails is answered by the 2.4 GHz it ends in, and no refresh hides an error.
WifiAnswersHold == Wifi!AnswerIsInForce /\ Wifi!FallbackIsAnswered /\ Wifi!ErrorIsKept

\* The panel starts nothing that was not confirmed on it, and its switch keeps the
\* limits that were saved for customer access.
PanelDoesAsTold == Panel!OnlyWhatWasConfirmed /\ Access!LimitsAreRetained

\* A result that was written reaches the task table, every action of the panel is
\* answered on it, and every request to Remote Assist is answered, also after a kill.
AnswersCome == ReportReachesTable /\ Panel!AnswerComes /\ Remote!RequestAnswered
=============================================================================
