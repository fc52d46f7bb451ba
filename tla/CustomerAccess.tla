---------------------------- MODULE CustomerAccess ----------------------------
(***************************************************************************)
(* Access of the technicians' Wi-Fi to the customer's network: the API     *)
(* that queues a policy (backend/app/api/ap_access.py), the root helper    *)
(* that turns it into firewall rules and DHCP options                      *)
(* (scripts/ap-access-host.py), and the front panel, which uses the        *)
(* helper's functions to switch the saved policy on and off                *)
(* (hardware/lcd_control.py).                                              *)
(*                                                                         *)
(* A policy is applied in order: the nftables rules in one transaction,    *)
(* the DHCP options, a restart of dnsmasq when they changed, and only then *)
(* ap-access.json.  A failure closes the access the same way, which may    *)
(* fail too.  A lock admits one helper at a time.                          *)
(***************************************************************************)
EXTENDS Naturals

CONSTANTS
    Networks,       \* lists of networks that access may be limited to
    Everywhere,     \* the empty list, which limits nothing
    None,
    MaxKills        \* bound: killed helpers and reboots

VARIABLES
    config,         \* ap-access.json
    rules,          \* the networks that the owned nftables tables let through
    options,        \* kdx-ap-access.conf
    served,         \* the options dnsmasq was started with
    request,        \* ap-access-request.json
    job,            \* the helper that holds ap-access.lock
    status,         \* ap-access-status.json
    booting,        \* kronoskvm-ap-access.service has still to run
    limits,         \* the networks of the last policy saved, but for the panel's
    doubt,          \* what a kill, or a failure of the closing policy, left open
    kills

vars == <<config, rules, options, served, request, job, status, booting, limits, doubt,
          kills>>

-----------------------------------------------------------------------------
Allowed == Networks \cup {Everywhere}
Policy == [enabled : BOOLEAN, networks : Allowed]
Off == [enabled |-> FALSE, networks |-> Everywhere]
Closed == {}
Rule == {{n} : n \in Allowed} \cup {Closed}
Offer == {"gateway", "nothing"}
Job == [kind : {"request", "boot", "refresh", "panel"}, policy : Policy,
        phase : {"rules", "options", "restart", "save", "status"},
        closing : BOOLEAN, error : BOOLEAN]
Status == [policy : Policy, state : {"off", "active", "failed"}]

OfferOf(policy) == IF policy.enabled THEN "gateway" ELSE "nothing"
RulesOf(policy) == IF policy.enabled THEN {policy.networks} ELSE Closed

TypeOK ==
    /\ config \in Policy /\ rules \in Rule \cup {None} /\ limits \in Allowed
    /\ options \in Offer \cup {None} /\ served \in Offer \cup {None}
    /\ request \in Policy \cup {None} /\ job \in Job \cup {None} /\ status \in Status \cup {None}
    /\ booting \in BOOLEAN /\ doubt \subseteq {"rules", "dns", "status"} /\ kills \in Nat

Init ==
    /\ config = Off /\ rules = None
    /\ options = None /\ served = "nothing"
    /\ request = None /\ job = None /\ status = None
    /\ booting = TRUE /\ limits = Everywhere /\ doubt = {} /\ kills = 0

-----------------------------------------------------------------------------
\* PUT /network/ap-access: refused while a helper works or a request waits.
Submit(policy) ==
    /\ status # None
    /\ job = None /\ request = None
    /\ request' = policy
    /\ UNCHANGED <<config, rules, options, served, job, status, booting, doubt, kills, limits>>

Started(kind, policy) ==
    [kind |-> kind, policy |-> policy, phase |-> IF kind = "refresh" THEN "status" ELSE "rules",
     closing |-> FALSE, error |-> FALSE]

StartRequest ==
    /\ job = None /\ request # None
    /\ job' = Started("request", request)
    /\ request' = None
    /\ UNCHANGED <<config, rules, options, served, status, booting, doubt, kills, limits>>

StartBoot ==
    /\ job = None /\ booting
    /\ job' = Started("boot", config)
    /\ booting' = FALSE
    /\ UNCHANGED <<config, rules, options, served, request, status, doubt, kills, limits>>

StartRefresh ==
    /\ job = None
    /\ job' = Started("refresh", config)
    /\ UNCHANGED <<config, rules, options, served, request, status, booting, doubt, kills, limits>>

\* Mutant: what the panel closes is saved without its networks.
SwitchedOff(on) == IF on THEN [config EXCEPT !.enabled = TRUE] ELSE Off

\* The saved policy with its switch changed.
Switched(on) == [config EXCEPT !.enabled = on]

\* The panel takes the helper's lock, and refuses while a request waits.
StartPanel(on) ==
    /\ job = None /\ request = None
    /\ job' = Started("panel", Switched(on))
    /\ UNCHANGED <<config, rules, options, served, request, status, booting, doubt, kills, limits>>

At(phase) == job # None /\ job.phase = phase
Goes(phase) == job' = [job EXCEPT !.phase = phase]

\* What main() does about an exception: close the access, and if that fails too,
\* report it.  The panel gives up without a report.
Fails ==
    CASE ~job.closing ->
           [job EXCEPT !.phase = "rules", !.policy = Off, !.closing = TRUE, !.error = TRUE]
      [] job.closing /\ job.kind # "panel" -> [job EXCEPT !.phase = "status", !.error = TRUE]
      [] OTHER -> None

Doubtful ==
    CASE ~job.closing -> {}
      [] job.closing /\ job.kind # "panel" -> {"rules"}
      [] OTHER -> {"rules", "status"}

\* The owned tables are replaced in one transaction.
Rules ==
    /\ At("rules")
    /\ rules' = RulesOf(job.policy)
    /\ Goes("options")
    /\ UNCHANGED <<config, options, served, request, status, booting, doubt, kills, limits>>

\* nft refuses them, or forwarding cannot be switched on.
RulesFail(done) ==
    /\ At("rules")
    /\ done => job.policy.enabled
    /\ rules' = IF done THEN RulesOf(job.policy) ELSE rules
    /\ job' = Fails
    /\ doubt' = doubt \cup Doubtful
    /\ UNCHANGED <<config, options, served, request, status, booting, kills, limits>>

\* Mutant: dnsmasq is restarted for a new file only.
OptionsOnce ==
    /\ At("options")
    /\ options' = OfferOf(job.policy)
    /\ Goes(IF options # None THEN "save" ELSE "restart")
    /\ UNCHANGED <<config, rules, served, request, status, booting, doubt, kills, limits>>

\* The file is written, and dnsmasq restarted, only when the options change.
Options ==
    /\ At("options")
    /\ options' = OfferOf(job.policy)
    /\ Goes(IF options = OfferOf(job.policy) THEN "save" ELSE "restart")
    /\ UNCHANGED <<config, rules, served, request, status, booting, doubt, kills, limits>>

OptionsFail ==
    /\ At("options") /\ options # OfferOf(job.policy)
    /\ job' = Fails
    /\ doubt' = doubt \cup Doubtful
    /\ UNCHANGED <<config, rules, options, served, request, status, booting, kills, limits>>

Restart ==
    /\ At("restart")
    /\ served' = options
    /\ doubt' = doubt \ {"dns"}
    /\ Goes("save")
    /\ UNCHANGED <<config, rules, options, request, status, booting, kills, limits>>

\* dnsmasq refuses the options and runs on, or does not come back.
RestartFails(left) ==
    /\ At("restart")
    /\ left \in {served, None}
    /\ served' = left
    /\ job' = Fails
    /\ doubt' = doubt \cup {"dns"} \cup Doubtful
    /\ UNCHANGED <<config, rules, options, request, status, booting, kills, limits>>

\* Mutant: the closing policy is applied and not saved.
SaveAny ==
    /\ At("save")
    /\ config' = IF job.closing THEN config ELSE job.policy
    /\ limits' = IF job.kind = "panel" /\ ~job.closing THEN limits ELSE job.policy.networks
    /\ doubt' = doubt \ {"rules"}
    /\ Goes("status")
    /\ UNCHANGED <<rules, options, served, request, status, booting, kills>>

Save ==
    /\ At("save")
    /\ config' = job.policy
    /\ limits' = IF job.kind = "panel" /\ ~job.closing THEN limits ELSE job.policy.networks
    /\ doubt' = doubt \ {"rules"}
    /\ Goes("status")
    /\ UNCHANGED <<rules, options, served, request, status, booting, kills>>

SaveFails ==
    /\ At("save")
    /\ job' = Fails
    /\ doubt' = doubt \cup Doubtful
    /\ UNCHANGED <<config, rules, options, served, request, status, booting, kills, limits>>

\* Mutant: a refresh renews the time and keeps the policy it finds.
StatusKept ==
    /\ At("status")
    /\ status' = IF job.kind = "refresh" /\ status # None THEN status
                 ELSE [policy |-> job.policy, state |-> IF job.error THEN "failed" ELSE "active"]
    /\ job' = None
    /\ doubt' = doubt \ {"status"}
    /\ UNCHANGED <<config, rules, options, served, request, booting, kills, limits>>

\* write_status(): a helper that reports an error, or finds no rules, says so.
WriteStatus ==
    /\ At("status")
    /\ status' = [policy |-> job.policy,
                  state |-> CASE job.error \/ rules = None -> "failed"
                              [] ~job.error /\ rules # None /\ ~job.policy.enabled -> "off"
                              [] OTHER -> "active"]
    /\ job' = None
    /\ doubt' = doubt \ {"status"}
    /\ UNCHANGED <<config, rules, options, served, request, booting, kills, limits>>

\* The status cannot be written: access is closed; the second time nothing is done.
StatusFails ==
    /\ At("status")
    /\ job' = IF job.error THEN None ELSE Fails
    /\ doubt' = IF job.error THEN doubt \cup {"status"} ELSE doubt
    /\ UNCHANGED <<config, rules, options, served, request, status, booting, kills, limits>>

-----------------------------------------------------------------------------
\* What a helper that ends now leaves open.
Unfinished ==
    CASE job = None -> {}
      [] At("status") -> {"status"}
      [] At("restart") -> {"status", "rules", "dns"}
      [] OTHER -> {"status", "rules"}

Kill ==
    /\ job # None /\ kills < MaxKills
    /\ kills' = kills + 1
    /\ job' = None
    /\ doubt' = doubt \cup Unfinished
    /\ UNCHANGED <<config, rules, options, served, request, status, booting, limits>>

\* The rules are gone; dnsmasq starts with the options of the file.
Reboot ==
    /\ kills < MaxKills
    /\ kills' = kills + 1
    /\ rules' = None
    /\ served' = IF options = None THEN "nothing" ELSE options
    /\ job' = None /\ booting' = TRUE
    /\ doubt' = (doubt \cup Unfinished) \ {"dns"}
    /\ UNCHANGED <<config, options, request, status, limits>>

Apply ==
    \/ Rules \/ Options \/ OptionsFail \/ Restart \/ Save \/ SaveFails \/ WriteStatus \/ StatusFails
    \/ \E done \in BOOLEAN : RulesFail(done)
    \/ \E left \in Offer \cup {None} : RestartFails(left)

Next ==
    \/ \E policy \in Policy : Submit(policy)
    \/ \E on \in BOOLEAN : StartPanel(on)
    \/ StartRequest \/ StartBoot \/ StartRefresh \/ Apply
    \/ Kill \/ Reboot

Spec == Init /\ [][Next]_vars

-----------------------------------------------------------------------------
(* Properties.                                                             *)

\* At rest the firewall lets through what the saved policy says, whichever step
\* of it failed, unless a helper was killed or the closing policy failed as well;
\* then the next policy that is carried out puts it right.
AccessAsConfigured ==
    job = None /\ ~booting /\ "rules" \notin doubt => rules = RulesOf(config)

\* A technician who is let through is also given the gateway by DHCP, unless a
\* restart of dnsmasq failed or was cut short: it is not tried again while the
\* options on disk are already right.
AccessIsOffered ==
    job = None /\ {"rules", "dns"} \cap doubt = {} /\ rules \in Rule \ {Closed} => served = "gateway"

\* The page says that access is off, or on for some networks, only when that is
\* what the firewall does.
StatusTellsTheAccess ==
    /\ job = None /\ ~booting /\ {"rules", "status"} \cap doubt = {}
    /\ status # None /\ status.state # "failed"
    => rules = RulesOf(status.policy)

\* Access that is switched on at the panel has the limits it had before it was
\* switched off there, or those of the last policy that was saved otherwise:
\* closing after a failure saves one without limits.
LimitsAreRetained ==
    [][rules' # rules /\ job # None /\ job.kind = "panel" => rules' \in {None, Closed, {limits}}]_vars

-----------------------------------------------------------------------------
(* The invariant.                                                          *)

AccessConstants == None \notin Policy \cup Rule \cup Offer \cup Job \cup Status

\* What a helper has done up to its phase; closing the access is its second try.
JobDone ==
    job # None =>
      /\ job.closing = job.error /\ (job.closing => job.policy = Off)
      /\ job.kind = "panel" /\ ~job.closing => job.policy.networks = limits
      /\ job.phase \in {"options", "restart", "save"} => rules = RulesOf(job.policy)
      /\ job.phase \in {"restart", "save"} => options = OfferOf(job.policy)
      /\ job.phase = "status" /\ ~job.error => job.policy = config

\* Before a policy is applied and after it was saved, it is the one in force.
PolicyInForce ==
    (job = None \/ job.phase = "status") /\ "rules" \notin doubt =>
      /\ rules = RulesOf(config) \/ (booting /\ rules = None)
      /\ config.enabled => options = "gateway"

OptionsAreServed ==
    "dns" \notin doubt /\ ~At("restart") =>
      served = options \/ (options = None /\ served = "nothing")

StatusIsSaved ==
    job = None /\ "status" \notin doubt /\ status # None /\ status.state # "failed" =>
      status.policy = config

IInv ==
    /\ TypeOK /\ JobDone /\ PolicyInForce /\ OptionsAreServed /\ StatusIsSaved
    /\ config.networks = limits
=============================================================================
