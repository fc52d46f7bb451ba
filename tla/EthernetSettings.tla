--------------------------- MODULE EthernetSettings ---------------------------
(***************************************************************************)
(* IPv4 settings of the wired interfaces: the API leaves one request in a  *)
(* file (backend/app/api/network_settings.py), a root helper reads it      *)
(* field by field, removes it and changes the NetworkManager connection    *)
(* (scripts/handle-network-action.sh).                                     *)
(*                                                                         *)
(* Neither holds a lock: a request replaces one that waits, or that the    *)
(* helper is reading.  systemd runs one helper at a time.                  *)
(***************************************************************************)
EXTENDS Naturals

CONSTANTS
    Asks,           \* requests to the API
    Interfaces,
    Addresses, Gateways, Servers,   \* static settings, of one subnet
    None,           \* an empty field
    MaxKills        \* bound: killed helpers and reboots

VARIABLES
    asked,          \* what each request was confirmed for
    queue,          \* how far each has come
    pending,        \* .network-action.tmp: the request whose text it holds
    request,        \* network-action
    helper,         \* the running helper and what it has read
    taken,          \* requests the helper has removed
    profile,        \* the connection of each interface, None before there is one
    spare,          \* other connections that NetworkManager has for it
    live,           \* the settings each interface runs
    shown,          \* network-config-<interface>
    kills

vars == <<asked, queue, pending, request, helper, taken, profile, spare, live, shown,
          kills>>
api == <<asked, queue, pending>>
host == <<taken, profile, spare, live, shown>>

-----------------------------------------------------------------------------
Mode == {"dhcp", "static"}
Settings == [mode : Mode, address : Addresses \cup {None},
             gateway : Gateways \cup {None}, dns : Servers \cup {None}]
Dhcp == [mode |-> "dhcp", address |-> None, gateway |-> None, dns |-> None]
\* What the API accepts: static settings have an address, DHCP has nothing.
Ask == [interface : Interfaces,
        settings : {Dhcp} \cup {s \in Settings : s.mode = "static" /\ s.address # None}]
Helper == [phase : {"idle", "mode", "address", "gateway", "dns", "remove", "show", "modify", "up"},
           interface : Interfaces \cup {None}, mode : Mode \cup {None},
           address : Addresses \cup {None}, gateway : Gateways \cup {None},
           dns : Servers \cup {None}]
Shown == [settings : Settings, state : {"applying", "applied", "failed"}]

Idle == [phase |-> "idle", interface |-> None,
         mode |-> None, address |-> None, gateway |-> None, dns |-> None]

TypeOK ==
    /\ asked \in [Asks -> Ask \cup {None}]
    /\ queue \in [Asks -> {"new", "confirmed", "written", "over"}]
    /\ pending \in Asks \cup {None} /\ request \in Asks \cup {None}
    /\ helper \in Helper /\ taken \subseteq Asks
    /\ profile \in [Interfaces -> Settings \cup {None}]
    /\ spare \in [Interfaces -> SUBSET Settings]
    /\ live \in [Interfaces -> Settings \cup {None}]
    /\ shown \in [Interfaces -> Shown \cup {None}] /\ kills \in Nat

Init ==
    /\ asked = [a \in Asks |-> None]
    /\ queue = [a \in Asks |-> "new"]
    /\ pending = None /\ request = None
    /\ helper = Idle /\ taken = {}
    /\ profile = [i \in Interfaces |-> None]
    /\ spare = [i \in Interfaces |-> {}]
    /\ live = [i \in Interfaces |-> None]
    /\ shown = [i \in Interfaces |-> None]
    /\ kills = 0

-----------------------------------------------------------------------------
(* The API: requests run in threads and share one temporary file.          *)

Confirm(a, ask) ==
    /\ queue[a] = "new"
    /\ asked' = [asked EXCEPT ![a] = ask]
    /\ queue' = [queue EXCEPT ![a] = "confirmed"]
    /\ UNCHANGED <<pending, request, helper, host, kills>>

Write(a) ==
    /\ queue[a] = "confirmed"
    /\ pending' = a
    /\ queue' = [queue EXCEPT ![a] = "written"]
    /\ UNCHANGED <<asked, request, helper, host, kills>>

\* Moves what the temporary file holds; answers 503 when another moved it away.
Replace(a) ==
    /\ queue[a] = "written"
    /\ request' = IF pending = None THEN request ELSE pending
    /\ pending' = None
    /\ queue' = [queue EXCEPT ![a] = "over"]
    /\ UNCHANGED <<asked, helper, host, kills>>

-----------------------------------------------------------------------------
(* The helper.                                                             *)

Start ==
    /\ helper.phase = "idle" /\ request # None
    /\ helper' = [Idle EXCEPT !.phase = "mode", !.interface = asked[request].interface]
    /\ UNCHANGED <<api, request, host, kills>>

ReadMode ==
    /\ helper.phase = "mode"
    /\ helper' = [helper EXCEPT !.phase = "address", !.mode = asked[request].settings.mode]
    /\ UNCHANGED <<api, request, host, kills>>

ReadAddress ==
    /\ helper.phase = "address"
    /\ helper' = [helper EXCEPT !.phase = "gateway", !.address = asked[request].settings.address]
    /\ UNCHANGED <<api, request, host, kills>>

ReadGateway ==
    /\ helper.phase = "gateway"
    /\ helper' = [helper EXCEPT !.phase = "dns", !.gateway = asked[request].settings.gateway]
    /\ UNCHANGED <<api, request, host, kills>>

ReadServers ==
    /\ helper.phase = "dns"
    /\ helper' = [helper EXCEPT !.phase = "remove", !.dns = asked[request].settings.dns]
    /\ UNCHANGED <<api, request, host, kills>>

Remove ==
    /\ helper.phase = "remove"
    /\ taken' = taken \cup {request}
    /\ request' = None
    /\ helper' = [helper EXCEPT !.phase = "show"]
    /\ UNCHANGED <<api, profile, spare, live, shown, kills>>

\* The interface is gone, or no connection can be added for it.
Rejected ==
    /\ helper.phase = "show"
    /\ helper' = Idle
    /\ UNCHANGED <<api, request, host, kills>>

Read == [mode |-> helper.mode, address |-> helper.address,
         gateway |-> helper.gateway, dns |-> helper.dns]

Show(state) == [shown EXCEPT ![helper.interface] = [settings |-> Read, state |-> state]]

\* Mutant: the old result stays on the page while another is applied.
ShowLater ==
    /\ helper.phase = "show"
    /\ helper' = [helper EXCEPT !.phase = "modify"]
    /\ UNCHANGED <<api, request, host, kills>>

\* The connection to change is the one that is up, or else a new one: any other
\* stays beside it.
Beside(i) == IF live[i] = profile[i] THEN spare[i] ELSE spare[i] \cup ({profile[i]} \ {None})

Applying ==
    /\ helper.phase = "show"
    /\ spare' = [spare EXCEPT ![helper.interface] = Beside(helper.interface)]
    /\ shown' = Show("applying")
    /\ helper' = [helper EXCEPT !.phase = "modify"]
    /\ UNCHANGED <<api, request, taken, profile, live, kills>>

\* A new connection asks for a lease until it is changed.
Leftover ==
    \/ UNCHANGED spare
    \/ /\ helper.phase \in {"show", "modify"}
       /\ spare' = [spare EXCEPT ![helper.interface] = @ \cup {Dhcp}]

\* Mutant: DHCP leaves the static address of the connection alone.
ModifyMode ==
    /\ helper.phase = "modify"
    /\ helper.mode = "static" => helper.address # None
    /\ LET old == profile[helper.interface]
       IN  profile' = [profile EXCEPT ![helper.interface] =
                         IF helper.mode = "dhcp" /\ old # None THEN [old EXCEPT !.mode = "dhcp"]
                         ELSE Read]
    /\ helper' = [helper EXCEPT !.phase = "up"]
    /\ UNCHANGED <<api, request, taken, spare, live, shown, kills>>

\* The connection after these settings: DHCP clears whatever was read with it.
Stored(settings) == IF settings.mode = "dhcp" THEN Dhcp ELSE settings

Modify ==
    /\ helper.phase = "modify"
    /\ helper.mode = "static" => helper.address # None
    /\ profile' = [profile EXCEPT ![helper.interface] = Stored(Read)]
    /\ helper' = [helper EXCEPT !.phase = "up"]
    /\ UNCHANGED <<api, request, taken, spare, live, shown, kills>>

\* No address, or one NetworkManager does not take: the page goes on saying
\* that it is being applied.
ModifyFails ==
    /\ helper.phase = "modify"
    /\ helper' = Idle
    /\ Leftover
    /\ UNCHANGED <<api, request, taken, profile, live, shown, kills>>

Up ==
    /\ helper.phase = "up"
    /\ live' = [live EXCEPT ![helper.interface] = profile[helper.interface]]
    /\ shown' = Show("applied")
    /\ helper' = Idle
    /\ UNCHANGED <<api, request, taken, profile, spare, kills>>

UpFails(left) ==
    /\ helper.phase = "up"
    /\ left \in {None, live[helper.interface]}
    /\ live' = [live EXCEPT ![helper.interface] = left]
    /\ shown' = Show("failed")
    /\ helper' = Idle
    /\ UNCHANGED <<api, request, taken, profile, spare, kills>>

Kill ==
    /\ helper # Idle /\ kills < MaxKills
    /\ kills' = kills + 1
    /\ helper' = Idle
    /\ Leftover
    /\ UNCHANGED <<api, request, taken, profile, live, shown>>

\* NetworkManager brings a connection up when it can: at boot, when the cable is
\* back or the lease is granted, and another one when that fails.
Activates(i) ==
    /\ live[i] = None
    /\ \E settings \in ({profile[i]} \ {None}) \cup spare[i] : live' = [live EXCEPT ![i] = settings]
    /\ UNCHANGED <<api, request, helper, taken, profile, spare, shown, kills>>

\* The cable is pulled, the lease runs out.
LinkLost(i) ==
    /\ live[i] # None
    /\ live' = [live EXCEPT ![i] = None]
    /\ UNCHANGED <<api, request, helper, taken, profile, spare, shown, kills>>

\* The requests of the API that were under way are over, and no connection is up.
Reboot ==
    /\ kills < MaxKills
    /\ kills' = kills + 1
    /\ helper' = Idle
    /\ Leftover
    /\ live' = [i \in Interfaces |-> None]
    /\ queue' = [a \in Asks |-> IF queue[a] = "new" THEN "new" ELSE "over"]
    /\ UNCHANGED <<asked, pending, request, taken, profile, shown>>

HelperStep ==
    \/ Start \/ ReadMode \/ ReadAddress \/ ReadGateway \/ ReadServers \/ Remove
    \/ Rejected \/ Applying \/ Modify \/ ModifyFails \/ Up
    \/ \E left \in Settings \cup {None} : UpFails(left)

Next ==
    \/ \E a \in Asks, ask \in Ask : Confirm(a, ask)
    \/ \E a \in Asks : Write(a) \/ Replace(a)
    \/ HelperStep \/ Kill
    \/ \E i \in Interfaces : Activates(i) \/ LinkLost(i)
    \/ Reboot

Spec == Init /\ [][Next]_vars

-----------------------------------------------------------------------------
(* Properties.                                                             *)

AskedFor(i, settings) == \E a \in Asks : asked[a] = [interface |-> i, settings |-> settings]

\* A request nobody will carry out: written, and neither waiting nor taken.
Lost(a) == queue[a] \in {"written", "over"} /\ a \notin {request, pending} \cup taken

\* A connection is given settings nobody asked for its interface only when the
\* helper read one request partly and another replaced it: the first is lost.
MixtureLosesOne ==
    \A i \in Interfaces :
        profile[i] # None /\ ~AskedFor(i, profile[i]) => \E a \in Asks : Lost(a) /\ asked[a].interface = i

\* "Applied" on the page means that the connection has these settings and the
\* interface runs no others, whatever was asked, failed or was killed since, over
\* reboots too.  What it does not promise: that the connection is up, which NetworkManager
\* may fail to do after a boot or a pulled cable; and, when the helper ever found none
\* up and added one, that the others stay down.
AppliedIsLive ==
    \A i \in Interfaces :
        shown[i] # None /\ shown[i].state = "applied" =>
            /\ profile[i] = Stored(shown[i].settings)
            /\ live[i] \in {None, profile[i]} \cup spare[i]

-----------------------------------------------------------------------------
(* The invariant.                                                          *)

WiredConstants ==
    None \notin Asks \cup Interfaces \cup Mode \cup Settings \cup Shown
                  \cup [interface : Interfaces, settings : Settings]

\* A request is in one file at a time, and in none once it was removed.
WiredInOnePlace ==
    /\ \A a \in Asks : asked[a] = None <=> queue[a] = "new"
    /\ \A a \in Asks : a \in {request, pending} \cup taken => queue[a] \in {"written", "over"}
    /\ request # None => request # pending
    /\ request \notin taken /\ pending \notin taken

LostWith(i) == \E a \in Asks : Lost(a) /\ asked[a].interface = i

\* What the helper has read is the request that is there, or one was lost.
ReadFromRequest ==
    /\ helper.phase # "idle" => helper.interface \in Interfaces
    /\ helper.phase \notin {"idle", "mode"} => helper.mode \in Mode
    /\ helper.phase \in {"mode", "address", "gateway", "dns", "remove"} =>
         /\ request # None
         /\ \/ LostWith(helper.interface)
            \/ LET settings == asked[request].settings
               IN  /\ asked[request].interface = helper.interface
                   /\ helper.phase # "mode" => settings.mode = helper.mode
                   /\ helper.phase \in {"gateway", "dns", "remove"} =>
                        settings.address = helper.address
                   /\ helper.phase \in {"dns", "remove"} => settings.gateway = helper.gateway
                   /\ helper.phase = "remove" => settings.dns = helper.dns
    /\ helper.phase \in {"show", "modify", "up"} =>
         LostWith(helper.interface) \/ AskedFor(helper.interface, Read)

\* The page says so while an interface is being changed.
ShownWhileApplied ==
    /\ helper.phase \in {"modify", "up"} =>
         shown[helper.interface] = [settings |-> Read, state |-> "applying"]
    /\ helper.phase = "up" => profile[helper.interface] = Stored(Read)

IInv ==
    /\ TypeOK /\ WiredInOnePlace /\ ReadFromRequest /\ ShownWhileApplied
    /\ MixtureLosesOne /\ AppliedIsLive
=============================================================================
