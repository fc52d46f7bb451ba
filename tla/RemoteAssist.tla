----------------------------- MODULE RemoteAssist -----------------------------
(***************************************************************************)
(* Remote Assist on the appliance: the API that queues one request         *)
(* (api/remote_assist.py, api/wireguard.py), the command line              *)
(* (scripts/infrabox-wireguard.py) and the host helper that carries a      *)
(* request out (scripts/remote-assist-host.py).                            *)
(*                                                                         *)
(* The VPN profile lives in the configuration, in NetworkManager's keyfile *)
(* and in a recovery file; an action is a plan of steps that change them   *)
(* and the tunnel.  A failed step restores all of them, a kill none; the   *)
(* request stays in its mailbox until it is answered, so a killed one is   *)
(* carried out again.                                                      *)
(***************************************************************************)
EXTENDS Naturals, Sequences, SequencesExt

CONSTANTS
    Profiles,
    None,
    MaxKills        \* bound: kills and reboots

VARIABLES
    config,         \* config.json
    keyfile,        \* the NetworkManager connection
    recovery,       \* wg-kdx.conf
    reply,          \* registration.json, the cached approval
    identity,       \* identity.json exists
    authorized,     \* the enrolment grant can be used
    tunnel,         \* the profile the interface runs
    mailbox,        \* remote-assist-request.json
    job,            \* the process that holds the lock
    shown,          \* what remote-assist-status.json says
    setup,          \* a quick registration waits for the server
    booting,        \* the boot service has still to run
    disturbed,      \* what a kill or a failed rollback left out of order
    kills

vars == <<config, keyfile, recovery, reply, identity, authorized, tunnel, mailbox, job,
          shown, setup, booting, disturbed, kills>>
files == <<keyfile, recovery, reply>>
outside == <<identity, authorized, mailbox, shown, setup, booting, kills>>

-----------------------------------------------------------------------------
Config == [enabled : BOOLEAN, autostart : BOOLEAN, profile : Profiles \cup {None}]
Keyfile == [profile : Profiles, auto : BOOLEAN]
Registering == {"register", "register-connect"}
Action == Registering \cup {"generate-identity", "auto-register", "delete-profile", "restart",
                            "save", "enable", "disable", "boot-on", "boot-off"}
Request == [action : Action \cup {"boot"}, profile : Profiles \cup {None}]
Step == {"keyfile", "recovery", "reply", "identity", "ask", "enable", "up", "down", "bounce",
         "forget", "old-keyfile", "old-recovery", "old-reply", "old-tunnel"}
Copies == [keyfile : Keyfile \cup {None}, recovery : Profiles \cup {None},
           reply : Profiles \cup {None}, tunnel : Profiles \cup {None}]
Job == [request : Request, by : {"mailbox", "cli", "boot"}, cand : Config, old : Copies,
        touched : BOOLEAN, phase : {"doing", "undoing", "answer", "publish"}, todo : Seq(Step)]
Copy == {"keyfile", "recovery", "tunnel"}
Fact == {"enabled", "profile", "ready", "identity"}
Plain(a) == [action |-> a, profile |-> None]

TypeOK ==
    /\ config \in Config
    /\ keyfile \in Keyfile \cup {None}
    /\ {recovery, reply, tunnel} \subseteq Profiles \cup {None}
    /\ {identity, authorized, setup, booting} \subseteq BOOLEAN
    /\ mailbox \in Request \cup {None}
    /\ job \in Job \cup {None}
    /\ shown \subseteq Fact /\ disturbed \subseteq Copy /\ kills \in Nat

Init ==
    /\ config = [enabled |-> FALSE, autostart |-> FALSE, profile |-> None]
    /\ keyfile = None /\ recovery = None /\ reply = None /\ tunnel = None
    /\ identity = FALSE /\ authorized = FALSE
    /\ mailbox = None /\ job = None /\ shown = {} /\ setup = FALSE /\ booting = FALSE
    /\ disturbed = {} /\ kills = 0

-----------------------------------------------------------------------------
(* What an action does: the plan of process().                             *)

KeyfileOf(c) ==
    IF c.profile = None THEN None
    ELSE [profile |-> c.profile, auto |-> c.enabled /\ c.autostart]

\* Mutant: an imported registration may replace a profile in use.
RefusedLate(q) ==
    \/ q.action \in {"enable", "restart"} /\ config.profile = None
    \/ q.action \in Registering /\ ~identity

Refused(q) ==
    \/ q.action \in {"enable", "restart"} /\ config.profile = None
    \/ q.action \in Registering \cup {"auto-register"} /\ config.enabled
    \/ q.action \in Registering /\ ~identity
    \/ q.action = "save" /\ config.enabled /\ config.profile # None

\* The configuration the action works towards.
Candidate(q) ==
    [enabled |-> \/ q.action \in {"enable", "restart"}
                 \/ config.enabled /\ q.action \notin
                      Registering \cup {"disable", "delete-profile", "boot"},
     autostart |-> \/ q.action = "boot-on"
                   \/ config.autostart /\ q.action \notin {"boot-off", "delete-profile"},
     profile |-> IF q.action \in Registering \cup {"save", "delete-profile"} THEN q.profile
                 ELSE config.profile]

IfProfile(c, steps) == IF c.profile = None THEN <<>> ELSE steps

Plan(c, q) ==
    CASE q.action = "generate-identity" -> <<"identity">>
      [] q.action = "register" -> <<"keyfile", "recovery", "reply">>
      [] q.action = "register-connect" ->
             <<"keyfile", "recovery", "reply", "enable", "keyfile", "up">>
      [] q.action = "auto-register" ->
             <<"identity", "ask", "reply", "keyfile", "recovery", "reply">>
      [] q.action = "delete-profile" -> <<"down", "forget", "recovery">>
      [] q.action = "restart" -> <<"keyfile", "bounce", "up">>
      [] q.action = "save" ->
             IF c.enabled THEN <<"keyfile", "recovery", "up">> ELSE <<"keyfile", "recovery">>
      [] q.action = "enable" -> <<"keyfile", "up">>
      [] q.action = "disable" -> IfProfile(c, <<"keyfile", "down">>)
      [] OTHER -> IfProfile(c, <<"keyfile">>)

\* Mutant: the recovery file is not restored.
UndoWithoutRecovery == <<"old-keyfile", "old-reply", "old-tunnel">>

\* The rollback of transactional_process().
Undo == <<"old-keyfile", "old-recovery", "old-reply", "old-tunnel">>

Saved == [keyfile |-> keyfile, recovery |-> recovery, reply |-> reply, tunnel |-> tunnel]

Begin(q, by) ==
    job' = [request |-> q, by |-> by, cand |-> Candidate(q), old |-> Saved, touched |-> FALSE,
            phase |-> IF Refused(q) THEN "undoing" ELSE "doing",
            todo |-> IF Refused(q) THEN Undo ELSE Plan(config, q)]

-----------------------------------------------------------------------------
(* The API.  It decides on the published status, which may be old, and     *)
(* queues under the helper's lock, which it does not wait for.             *)

Queue(q) ==
    /\ job = None /\ mailbox = None
    /\ mailbox' = q
    /\ UNCHANGED <<config, files, identity, authorized, tunnel, job, shown, booting,
                   disturbed, kills>>

Controls == {"enable", "disable", "boot-on", "boot-off", "delete-profile", "generate-identity"}

Control == \E a \in Controls : Queue(Plain(a)) /\ UNCHANGED setup

Restart == "profile" \in shown /\ Queue(Plain("restart")) /\ UNCHANGED setup

AutoRegister ==
    /\ "ready" \in shown /\ "enabled" \notin shown
    /\ Queue(Plain("auto-register")) /\ UNCHANGED setup

\* What parse_config and validate_profile let through.
Submitted == Profiles

SaveProfile ==
    \E p \in Submitted : Queue([action |-> "save", profile |-> p]) /\ UNCHANGED setup

\* The profile of a reply that registration_response lets through.
Approved == Profiles

ImportRegistration ==
    \E p \in Approved : Queue([action |-> "register", profile |-> p]) /\ UNCHANGED setup

\* One quick registration at a time; the status is read before the server is asked.
QuickStart ==
    /\ ~setup /\ mailbox = None
    /\ "enabled" \notin shown /\ "identity" \in shown
    /\ setup' = TRUE
    /\ UNCHANGED <<config, files, identity, authorized, tunnel, mailbox, job, shown,
                   booting, disturbed, kills>>

QuickQueue ==
    /\ setup /\ setup' = FALSE
    /\ \E p \in Approved : Queue([action |-> "register-connect", profile |-> p])

\* The server did not answer, or the queue was refused.
QuickFails ==
    /\ setup /\ setup' = FALSE
    /\ UNCHANGED <<config, files, identity, authorized, tunnel, mailbox, job, shown,
                   booting, disturbed, kills>>

-----------------------------------------------------------------------------
(* Who starts the helper.                                                  *)

\* kronoskvm-remote-assist-action.path: while the request exists.
Start ==
    /\ job = None /\ mailbox # None
    /\ Begin(mailbox, "mailbox")
    /\ UNCHANGED <<config, files, tunnel, disturbed, outside>>

Cli ==
    /\ job = None /\ mailbox = None
    /\ \/ \E a \in Action \ (Registering \cup {"save", "delete-profile"}) : Begin(Plain(a), "cli")
       \/ \E p \in Approved : Begin([action |-> "register", profile |-> p], "cli")
    /\ UNCHANGED <<config, files, tunnel, disturbed, outside>>

\* Startup reconnects a profile with autostart and resets any other to off.
Boot ==
    /\ booting /\ job = None
    /\ booting' = FALSE
    /\ Begin(Plain(IF config.autostart /\ config.profile # None THEN "enable" ELSE "boot"), "boot")
    /\ UNCHANGED <<config, files, identity, authorized, tunnel, mailbox, shown, setup,
                   disturbed, kills>>

-----------------------------------------------------------------------------
(* The steps of a plan.                                                    *)

At(step) == job # None /\ job.todo # <<>> /\ Head(job.todo) = step
Done == job' = [job EXCEPT !.todo = Tail(@)]

InstallProfile ==
    /\ At("keyfile") /\ Done
    /\ keyfile' = KeyfileOf(job.cand)
    /\ UNCHANGED <<config, recovery, reply, tunnel, disturbed, outside>>

\* delete-profile unlinks the file: its candidate has no profile.
InstallRecovery ==
    /\ At("recovery") /\ Done
    /\ recovery' = job.cand.profile
    /\ UNCHANGED <<config, keyfile, reply, tunnel, disturbed, outside>>

SaveReply ==
    /\ At("reply") /\ Done
    /\ reply' = job.cand.profile
    /\ UNCHANGED <<config, keyfile, recovery, tunnel, disturbed, outside>>

\* register-connect goes on as enable.
EnableNext ==
    /\ At("enable")
    /\ job' = [job EXCEPT !.todo = Tail(@), !.cand.enabled = TRUE]
    /\ UNCHANGED <<config, files, tunnel, disturbed, outside>>

EnsureIdentity ==
    /\ At("identity") /\ Done
    /\ identity' = TRUE
    /\ UNCHANGED <<config, files, authorized, tunnel, mailbox, shown, setup, booting,
                   disturbed, kills>>

\* request_registration(): the cached reply, or the server's.
AskServer ==
    /\ At("ask")
    /\ reply = None => authorized
    /\ \E p \in IF reply = None THEN Approved ELSE {reply} :
          job' = [job EXCEPT !.todo = Tail(@), !.cand.profile = p, !.cand.enabled = FALSE]
    /\ UNCHANGED <<config, files, identity, authorized, tunnel, mailbox, shown, setup, booting,
                   disturbed, kills>>

TunnelUp ==
    /\ At("up") /\ keyfile # None /\ Done
    /\ tunnel' = keyfile.profile
    /\ UNCHANGED <<config, files, disturbed, outside>>

\* "down" is checked afterwards; the one of restart is not.
TunnelDown ==
    /\ At("down") \/ At("bounce")
    /\ Done
    /\ tunnel' \in IF At("down") THEN {None} ELSE {None, tunnel}
    /\ UNCHANGED <<config, files, disturbed, outside>>

\* `nmcli connection delete` fails when there is no connection.
ForgetProfile ==
    /\ At("forget") /\ Done
    /\ keyfile = None => config.profile = None
    /\ keyfile' = None
    /\ UNCHANGED <<config, recovery, reply, tunnel, disturbed, outside>>

\* A command that fails may have had its effect.
StepFails ==
    /\ job # None /\ job.phase = "doing" /\ job.todo # <<>>
    /\ keyfile' \in {keyfile} \cup (IF At("keyfile") THEN {KeyfileOf(job.cand)} ELSE {})
                              \cup (IF At("forget") THEN {None} ELSE {})
    /\ tunnel' \in {tunnel} \cup (IF At("up") /\ keyfile # None THEN {keyfile.profile} ELSE {})
    /\ job' = [job EXCEPT
                 !.phase = "undoing",
                 !.todo = IF job.request.action \in {"generate-identity", "boot"} THEN <<>>
                          ELSE Undo,
                 !.touched = <<keyfile', recovery, reply>>
                               # <<job.old.keyfile, job.old.recovery, job.old.reply>>]
    /\ UNCHANGED <<config, recovery, reply, disturbed, outside>>

\* Mutant: the bytes of the recovery file are put back in its place.
RestoreKeyfileSwapped ==
    /\ At("old-keyfile") /\ Done
    /\ keyfile' = job.old.recovery
    /\ UNCHANGED <<config, recovery, reply, tunnel, disturbed, outside>>

RestoreKeyfile ==
    /\ At("old-keyfile") /\ Done
    /\ keyfile' = job.old.keyfile
    /\ UNCHANGED <<config, recovery, reply, tunnel, disturbed, outside>>

RestoreRecovery ==
    /\ At("old-recovery") /\ Done
    /\ recovery' = job.old.recovery
    /\ UNCHANGED <<config, keyfile, reply, tunnel, disturbed, outside>>

RestoreReply ==
    /\ At("old-reply") /\ Done
    /\ reply' = job.old.reply
    /\ UNCHANGED <<config, keyfile, recovery, tunnel, disturbed, outside>>

\* Mutant: the tunnel is put back only if a file has changed.
ReconnectsIfTouched == job.touched

Reconnects ==
    \/ job.touched
    \/ job.request.action \in {"enable", "disable", "restart", "delete-profile",
                               "register-connect"}

\* nmcli brings the previous state back, or does not: then only an operator can.
RestoreTunnel ==
    /\ At("old-tunnel") /\ Done
    /\ IF Reconnects /\ job.old.keyfile # None
       THEN \/ /\ tunnel' = IF job.old.tunnel = None THEN None ELSE job.old.keyfile.profile
               /\ UNCHANGED disturbed
            \/ tunnel' = tunnel /\ disturbed' = disturbed \cup {"tunnel"}
       ELSE /\ tunnel' = IF job.touched THEN None ELSE tunnel
            /\ UNCHANGED disturbed
    /\ UNCHANGED <<config, files, outside>>

-----------------------------------------------------------------------------
(* The end of a run.                                                       *)

\* What a finished plan has written anew.
Settled ==
    LET plan == ToSet(Plan(config, job.request))
    IN  {c \in {"keyfile", "recovery"} : c \in plan} \cup
        (IF "forget" \in plan THEN {"keyfile"} ELSE {}) \cup
        (IF plan \cap {"up", "down"} # {} THEN {"tunnel"} ELSE {})

\* Resetting the switch at boot does not stop a tunnel that a request which was
\* still pending brought up before the boot service ran.
LeftUp == IF job.request.action = "boot" /\ tunnel # None THEN {"tunnel"} ELSE {}

Commit ==
    /\ job # None /\ job.phase = "doing" /\ job.todo = <<>>
    /\ config' = job.cand
    /\ disturbed' = (disturbed \ Settled) \cup LeftUp
    /\ job' = [job EXCEPT !.phase = IF job.by = "mailbox" THEN "answer" ELSE "publish"]
    /\ UNCHANGED <<files, tunnel, outside>>

\* An exception ends the command line and the boot service without a status.
Undone ==
    /\ job # None /\ job.phase = "undoing" /\ job.todo = <<>>
    /\ job' = IF job.by = "mailbox" THEN [job EXCEPT !.phase = "answer"] ELSE None
    /\ UNCHANGED <<config, files, tunnel, disturbed, outside>>

\* Mutant: a failed request stays in the mailbox.
AnswerKeepsRequest ==
    /\ job # None /\ job.phase = "answer"
    /\ job' = [job EXCEPT !.phase = "publish"]
    /\ UNCHANGED <<config, files, tunnel, disturbed, outside>>

\* last_result is written and the request removed.
Answer ==
    /\ job # None /\ job.phase = "answer"
    /\ mailbox' = None
    /\ job' = [job EXCEPT !.phase = "publish"]
    /\ UNCHANGED <<config, files, identity, authorized, tunnel, shown, setup, booting,
                   disturbed, kills>>

Ready == IF reply # None THEN identity /\ config.profile # reply ELSE authorized

Status ==
    {f \in Fact : CASE f = "enabled" -> config.enabled
                    [] f = "profile" -> config.profile # None
                    [] f = "ready" -> Ready
                    [] f = "identity" -> identity}

\* At the end of a run, and by the status timer.
Publish ==
    /\ job # None => job.phase = "publish"
    /\ shown' = Status /\ job' = None
    /\ UNCHANGED <<config, files, identity, authorized, tunnel, mailbox, setup, booting,
                   disturbed, kills>>

-----------------------------------------------------------------------------
(* The environment.                                                        *)

\* configure-auto-enrollment.py, and the end of the grant it installs.
Grant ==
    /\ job = None
    /\ authorized' = ~authorized
    /\ UNCHANGED <<config, files, identity, tunnel, mailbox, job, shown, setup, booting,
                   disturbed, kills>>

Broken == IF job # None /\ job.phase \in {"doing", "undoing"} THEN Copy ELSE {}

Kill ==
    /\ kills < MaxKills /\ kills' = kills + 1
    /\ job # None /\ job' = None
    /\ disturbed' = disturbed \cup Broken
    /\ UNCHANGED <<config, files, identity, authorized, tunnel, mailbox, shown, setup,
                   booting>>

\* NetworkManager brings an autoconnect profile up.
Reboot ==
    /\ kills < MaxKills /\ kills' = kills + 1
    /\ job' = None /\ setup' = FALSE /\ booting' = TRUE
    /\ tunnel' \in {None} \cup
         (IF keyfile # None /\ keyfile.auto THEN {keyfile.profile} ELSE {})
    /\ disturbed' = disturbed \cup Broken
    /\ UNCHANGED <<config, files, identity, authorized, mailbox, shown>>

-----------------------------------------------------------------------------
Steps ==
    \/ InstallProfile \/ InstallRecovery \/ SaveReply \/ EnableNext \/ EnsureIdentity \/ AskServer
    \/ TunnelUp \/ TunnelDown \/ ForgetProfile \/ StepFails
    \/ RestoreKeyfile \/ RestoreRecovery \/ RestoreReply \/ RestoreTunnel
    \/ Commit \/ Undone \/ Answer

Next ==
    \/ Control \/ Restart \/ AutoRegister \/ SaveProfile \/ ImportRegistration
    \/ QuickStart \/ QuickQueue \/ QuickFails
    \/ Start \/ Cli \/ Boot
    \/ Steps \/ Publish
    \/ Grant \/ Kill \/ Reboot

Spec == Init /\ [][Next]_vars

\* The path unit starts the helper while a request exists; every host command ends
\* or times out.
Helper == job # None /\ (Steps \/ Publish)
LiveSpec == Spec /\ WF_vars(Start) /\ WF_vars(Helper)

-----------------------------------------------------------------------------
(* Properties.                                                             *)

\* At rest the keyfile, with its autoconnect flag, and the recovery file are those
\* of the configuration, unless a kill was not yet followed by an action that
\* writes them: failed operations restore the previous profile files
\* (docs/wireguard-provisioning.md).
FilesAgree ==
    job = None => /\ "keyfile" \notin disturbed => keyfile = KeyfileOf(config)
                  /\ "recovery" \notin disturbed => recovery = config.profile

\* A tunnel runs only while it is switched on, and runs the configured profile,
\* also after failures, reboots and registrations that were decided on an old status.
TunnelAsConfigured ==
    job = None /\ disturbed = {} /\ tunnel # None => config.enabled /\ tunnel = config.profile

\* "Import does not connect or replace an active profile": no step of a helper gives
\* a running tunnel another profile.
ActiveProfileStays ==
    [][tunnel # None /\ tunnel' # None /\ disturbed = {} => tunnel' = tunnel]_vars

\* Every request is answered and removed, also when its helper is killed.
RequestAnswered == mailbox # None ~> mailbox = None

\* Violated.  "Preserve the authenticated public reply before installation. Recovery
\* needs no second grant": a saved reply is never lost again.
ReplyKept == [][reply # None => reply' # None]_vars

-----------------------------------------------------------------------------
(* The invariant behind FilesAgree, TunnelAsConfigured and                  *)
(* ActiveProfileStays: what an action has done so far, and what its         *)
(* rollback still has to put back.                                          *)

NoneApart ==
    None \notin Profiles \cup Keyfile \cup Request \cup Job

\* What can be left of the plan of an action.
Rests(c, q) ==
    CASE q.action = "generate-identity" -> {<<"identity">>, <<>>}
      [] q.action = "register" ->
             {<<"keyfile", "recovery", "reply">>, <<"recovery", "reply">>, <<"reply">>, <<>>}
      [] q.action = "register-connect" ->
             {<<"keyfile", "recovery", "reply", "enable", "keyfile", "up">>,
              <<"recovery", "reply", "enable", "keyfile", "up">>,
              <<"reply", "enable", "keyfile", "up">>, <<"enable", "keyfile", "up">>,
              <<"keyfile", "up">>, <<"up">>, <<>>}
      [] q.action = "auto-register" ->
             {<<"identity", "ask", "reply", "keyfile", "recovery", "reply">>,
              <<"ask", "reply", "keyfile", "recovery", "reply">>,
              <<"reply", "keyfile", "recovery", "reply">>, <<"keyfile", "recovery", "reply">>,
              <<"recovery", "reply">>, <<"reply">>, <<>>}
      [] q.action = "delete-profile" ->
             {<<"down", "forget", "recovery">>, <<"forget", "recovery">>, <<"recovery">>, <<>>}
      [] q.action = "restart" ->
             {<<"keyfile", "bounce", "up">>, <<"bounce", "up">>, <<"up">>, <<>>}
      [] q.action = "save" ->
             IF c.enabled
             THEN {<<"keyfile", "recovery", "up">>, <<"recovery", "up">>, <<"up">>, <<>>}
             ELSE {<<"keyfile", "recovery">>, <<"recovery">>, <<>>}
      [] q.action = "enable" -> {<<"keyfile", "up">>, <<"up">>, <<>>}
      [] q.action = "disable" ->
             IF c.profile = None THEN {<<>>} ELSE {<<"keyfile", "down">>, <<"down">>, <<>>}
      [] OTHER -> IF c.profile = None THEN {<<>>} ELSE {<<"keyfile">>, <<>>}

Unwound == {<<"old-keyfile", "old-recovery", "old-reply", "old-tunnel">>,
            <<"old-recovery", "old-reply", "old-tunnel">>,
            <<"old-reply", "old-tunnel">>, <<"old-tunnel">>, <<>>}

Left == ToSet(job.todo)
Planned == ToSet(Plan(config, job.request))

\* A tunnel that runs is the one of configuration c.
RunsAs(t, c) == t # None => c.enabled /\ t = c.profile

Sound(name) == name \notin disturbed

\* A request that the configuration lets through.
Permitted(c, q) ==
    /\ q.action \in {"enable", "restart"} => c.profile # None
    /\ q.action \in Registering \cup {"auto-register"} => ~c.enabled
    /\ q.action = "save" => ~c.enabled \/ c.profile = None

WellFormed(q) == q.action = "delete-profile" => q.profile = None

Activating == {"enable", "restart", "save", "register-connect"}

\* The candidate, while its plan is carried out or was interrupted.
Aims ==
    LET a == job.request.action
    IN  /\ Permitted(config, job.request)
        /\ a \notin Registering \cup {"auto-register", "save", "delete-profile"} =>
             job.cand.profile = config.profile
        /\ a = "delete-profile" => job.cand.profile = None
        /\ a \in {"enable", "restart"} => job.cand.enabled
        /\ a \in {"register", "auto-register", "disable", "delete-profile", "boot"} =>
             ~job.cand.enabled
        /\ a \in {"generate-identity", "boot-on", "boot-off", "save"} =>
             job.cand.enabled = config.enabled
        /\ a \notin {"boot-on", "boot-off", "delete-profile"} =>
             job.cand.autostart = config.autostart
        /\ a = "boot" => ~config.autostart \/ config.profile = None

\* The keyfile is still the old one, or one that the action has written.
KeyfileKnown ==
    \/ keyfile = job.old.keyfile
    \/ keyfile = None /\ job.request.action # "boot"
    \/ /\ keyfile # None /\ Aims
       /\ keyfile.auto => job.cand.enabled
       /\ job.request.action # "auto-register" => keyfile.profile = job.cand.profile

OldIsConfigured ==
    /\ Sound("keyfile") => job.old.keyfile = KeyfileOf(config)
    /\ Sound("recovery") => job.old.recovery = config.profile
    /\ Sound("tunnel") => RunsAs(job.old.tunnel, config)

\* What the plan has come to.
Doing ==
    /\ job.todo \in Rests(config, job.request) /\ Aims
    /\ "enable" \in Left => ~job.cand.enabled
    /\ job.request.action = "register-connect" => job.cand.enabled = ("enable" \notin Left)
    /\ IF Planned \cap {"keyfile", "forget"} = {} THEN keyfile = job.old.keyfile
       ELSE Left \cap {"keyfile", "forget"} = {} => keyfile = KeyfileOf(job.cand)
    /\ IF "recovery" \notin Planned THEN recovery = job.old.recovery
       ELSE "recovery" \notin Left => recovery = job.cand.profile
    /\ IF Planned \cap {"up", "down"} # {} /\ Left \cap {"up", "down"} = {}
       THEN RunsAs(tunnel, job.cand)
       ELSE Sound("tunnel") => RunsAs(tunnel, config)

\* What the rollback has put back.
Undoing ==
    /\ job.todo \in Unwound
    /\ "old-keyfile" \notin Left /\ Sound("keyfile") => keyfile = KeyfileOf(config)
    /\ "old-recovery" \notin Left /\ Sound("recovery") => recovery = config.profile
    /\ Sound("tunnel") =>
         \/ RunsAs(tunnel, config)
         \/ /\ "old-tunnel" \in Left
            /\ Aims /\ tunnel = job.cand.profile /\ job.request.action \in Activating
            /\ job.touched \/ (Reconnects /\ job.old.keyfile # None)

Resting ==
    /\ Sound("keyfile") => keyfile = KeyfileOf(config)
    /\ Sound("recovery") => recovery = config.profile
    /\ Sound("tunnel") => RunsAs(tunnel, config)

IInv ==
    /\ TypeOK
    /\ mailbox # None => WellFormed(mailbox) /\ mailbox.action # "boot"
    /\ "keyfile" \in disturbed => "tunnel" \in disturbed
    /\ job # None => WellFormed(job.request)
    /\ job # None /\ job.phase = "doing" => Doing
    /\ job # None /\ job.phase = "undoing" => Undoing
    /\ job # None /\ job.phase \in {"doing", "undoing"} => KeyfileKnown /\ OldIsConfigured
    /\ job # None /\ job.phase \in {"answer", "publish"} => job.todo = <<>>
    /\ job = None \/ job.phase \in {"answer", "publish"} => Resting
=============================================================================
