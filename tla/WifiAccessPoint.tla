---------------------------- MODULE WifiAccessPoint ----------------------------
(***************************************************************************)
(* The password and the band of the management access point: the API that  *)
(* queues one change (backend/app/api/wifi.py) and the host helper that    *)
(* carries it out, provisions the access point at boot and refreshes the   *)
(* status (scripts/wifi-host.py).                                          *)
(*                                                                         *)
(* The settings live twice, in wifi-ap.json and in the profile that        *)
(* NetworkManager or, on older installations, hostapd reads; the radio     *)
(* runs what the profile said when it was last started.  5 GHz may fail to *)
(* start: the helper then falls back to 2.4 GHz.  Any other failure        *)
(* restores the profile.  A lock admits one helper at a time, and the      *)
(* front panel, which switches the radio and nothing else                  *)
(* (hardware/lcd_control.py).                                              *)
(***************************************************************************)
EXTENDS Naturals

CONSTANTS
    Keys,           \* passwords
    Factory,        \* default_password()
    Open,           \* a profile without a password
    None,
    MaxRequests,    \* bound: changes asked for
    MaxKills        \* bound: killed helpers and reboots

VARIABLES
    backend,        \* who reads the profile
    profile,        \* the keyfile, or hostapd.conf
    config,         \* wifi-ap.json
    air,            \* what the radio runs
    request,        \* wifi-request.json
    asked,          \* number of changes asked for: the last request_id
    job,            \* the helper that holds wifi.lock
    status,         \* wifi-status.json
    booting,        \* kronoskvm-wifi.service has still to run
    disturbed,      \* a kill or a failed restoration left things apart
    kills

vars == <<backend, profile, config, air, request, asked, job, status, booting, disturbed,
          kills>>

-----------------------------------------------------------------------------
Mode == {"standard", "performance"}
Profile == [mode : Mode, key : Keys \cup {Open}]
Config == [mode : Mode, key : Keys, notice : BOOLEAN]
Change == Keys \cup Mode
Request == [id : 1 .. MaxRequests, change : Change]
Job == [kind : {"request", "boot", "refresh"}, id : 0 .. MaxRequests, change : Change \cup {None},
        phase : {"begin", "check", "write", "up", "save", "clear", "restore", "restart", "publish"},
        before : Profile, compared : Profile, value : Config, mode : Mode,
        touched : BOOLEAN, hurt : BOOLEAN, error : BOOLEAN]
Status == [id : 0 .. MaxRequests, mode : Mode, notice : BOOLEAN, error : BOOLEAN]

TypeOK ==
    /\ backend \in {"keyfile", "hostapd"}
    /\ profile \in Profile /\ config \in Config \cup {None} /\ air \in Profile \cup {None}
    /\ asked \in 0 .. MaxRequests /\ request \in Request \cup {None}
    /\ job \in Job \cup {None} /\ status \in Status \cup {None}
    /\ {booting, disturbed} \subseteq BOOLEAN /\ kills \in Nat
    /\ job # None => (job.kind = "request") = (job.id # 0)

Init ==
    /\ backend \in {"keyfile", "hostapd"}
    /\ profile \in [mode : {"standard"}, key : Keys \cup {Open}]
    /\ air \in {profile, None}
    /\ config = None /\ request = None /\ asked = 0 /\ job = None /\ status = None
    /\ booting = TRUE /\ disturbed = FALSE /\ kills = 0

-----------------------------------------------------------------------------
\* PUT /network/wifi: refused while a helper works or a request waits.
Submit(change) ==
    /\ status # None /\ ~booting
    /\ job = None /\ request = None
    /\ asked < MaxRequests
    /\ asked' = asked + 1
    /\ request' = [id |-> asked + 1, change |-> change]
    /\ UNCHANGED <<backend, profile, config, air, job, status, booting, disturbed, kills>>

-----------------------------------------------------------------------------
(* The helper.                                                             *)

\* Mutant: an installation without a password is adopted as it is.
ChosenExisting(change) ==
    CASE change \in Keys -> change
      [] change \notin Keys /\ config # None -> config.key
      [] OTHER -> profile.key

\* select_config(): the password asked for, the saved one, that of a protected
\* installation, or the default one.
Chosen(change) ==
    CASE change \in Keys -> change
      [] change \notin Keys /\ config # None -> config.key
      [] change \notin Keys /\ config = None /\ profile.key # Open -> profile.key
      [] OTHER -> Factory

Saved == IF config = None THEN "standard" ELSE config.mode

\* The notice of an earlier fallback is dropped.
Selected(change) ==
    [mode |-> IF change \in Mode THEN change ELSE Saved, key |-> Chosen(change), notice |-> FALSE]

Started(kind, id, change) ==
    [kind |-> kind, id |-> id, change |-> change,
     phase |-> IF kind = "refresh" THEN "publish" ELSE "begin",
     before |-> profile, compared |-> profile, value |-> Selected(change),
     mode |-> Selected(change).mode, touched |-> FALSE, hurt |-> FALSE, error |-> FALSE]

\* A request is consumed before it is carried out.
StartRequest ==
    /\ job = None /\ request # None /\ ~booting
    /\ job' = Started("request", request.id, request.change)
    /\ request' = None
    /\ UNCHANGED <<backend, profile, config, air, asked, status, booting, disturbed, kills>>

StartBoot ==
    /\ job = None /\ booting
    /\ job' = Started("boot", 0, None)
    /\ booting' = FALSE
    /\ UNCHANGED <<backend, profile, config, air, request, asked, status, disturbed, kills>>

StartRefresh ==
    /\ job = None
    /\ job' = Started("refresh", 0, None)
    /\ UNCHANGED <<backend, profile, config, air, request, asked, status, booting, disturbed, kills>>

At(phase) == job # None /\ job.phase = phase
Goes(phase) == job' = [job EXCEPT !.phase = phase]

\* The identity or the profile cannot be read: nothing is touched.
Unready ==
    /\ At("begin")
    /\ job' = [job EXCEPT !.phase = "publish", !.error = TRUE, !.hurt = TRUE]
    /\ UNCHANGED <<backend, profile, config, air, request, asked, status, booting, disturbed, kills>>

\* From 5 GHz to 2.4 GHz, or from 2.4 GHz back to what there was.
FallsBack ==
    IF job.mode = "performance"
    THEN [job EXCEPT !.phase = "write", !.mode = "standard",
                     !.value = [@ EXCEPT !.mode = "standard", !.notice = TRUE]]
    ELSE [job EXCEPT !.phase = "restore"]

\* performance_available()
Begin(available) ==
    /\ At("begin")
    /\ job' = IF job.mode = "performance" /\ ~available THEN FallsBack
              ELSE [job EXCEPT !.phase = "write"]
    /\ UNCHANGED <<backend, profile, config, air, request, asked, status, booting, disturbed, kills>>

Wanted == [mode |-> job.mode, key |-> job.value.key]

\* Mutant: the profile is compared with what it was before the request.
CompareBefore == job.compared

\* render_profile() compares a keyfile with the parser that it has changed itself,
\* and hostapd.conf with the text that was read at the beginning.
Compared == IF backend = "keyfile" THEN Wanted ELSE job.compared

\* Mutant: a radio on the right band is left alone.
WriteOnly ==
    /\ At("write")
    /\ LET changed == job.compared # Wanted
           active == air # None /\ air.mode = job.mode
       IN  /\ profile' = IF changed THEN Wanted ELSE profile
           /\ job' = [job EXCEPT !.phase = IF ~active THEN "up" ELSE "save",
                                 !.compared = Compared, !.touched = @ \/ changed]
    /\ UNCHANGED <<backend, config, air, request, asked, status, booting, disturbed, kills>>

\* At boot, an unchanged profile may not have been activated yet.
WriteProfile ==
    /\ At("write")
    /\ LET changed == job.compared # Wanted
           active == air # None /\ air.mode = job.mode
       IN  /\ profile' = IF changed THEN Wanted ELSE profile
           /\ job' = [job EXCEPT !.phase = IF changed \/ ~active THEN "up" ELSE "save",
                                 !.compared = Compared, !.touched = @ \/ changed]
    /\ UNCHANGED <<backend, config, air, request, asked, status, booting, disturbed, kills>>

\* The file cannot be written, which no fallback helps, or not be loaded.
WriteFails(written) ==
    /\ At("write") /\ job.compared # Wanted
    /\ profile' = IF written THEN Wanted ELSE profile
    /\ job' = IF written
              THEN [FallsBack EXCEPT !.compared = Compared, !.touched = TRUE,
                                     !.hurt = @ \/ job.mode = "standard"]
              ELSE [job EXCEPT !.phase = "restore", !.hurt = TRUE]
    /\ written => backend = "keyfile"
    /\ UNCHANGED <<backend, config, air, request, asked, status, booting, disturbed, kills>>

\* The connection comes up, and verify_radio() finds it on the band asked for.
Up ==
    /\ At("up")
    /\ air' = profile
    /\ job' = IF profile.mode = job.mode THEN [job EXCEPT !.phase = "save", !.touched = TRUE]
              ELSE [FallsBack EXCEPT !.touched = TRUE]
    /\ UNCHANGED <<backend, profile, config, request, asked, status, booting, disturbed, kills>>

\* It does not, or too late; hostapd has been stopped first.
UpFails(left) ==
    /\ At("up")
    /\ left \in {None, profile} \cup (IF backend = "keyfile" THEN {air} ELSE {})
    /\ air' = left
    /\ job' = [FallsBack EXCEPT !.touched = TRUE, !.hurt = @ \/ profile.mode = "standard"]
    /\ UNCHANGED <<backend, profile, config, request, asked, status, booting, disturbed, kills>>

\* At boot the radio has just been started from the profile.
SaveConfig ==
    /\ At("save")
    /\ config' = job.value
    /\ job' = [job EXCEPT !.phase = "clear"]
    /\ disturbed' = (disturbed /\ job.kind # "boot")
    /\ UNCHANGED <<backend, profile, air, request, asked, status, booting, kills>>

SaveFails ==
    /\ At("save")
    /\ job' = [job EXCEPT !.phase = "restore", !.hurt = TRUE]
    /\ UNCHANGED <<backend, profile, config, air, request, asked, status, booting, disturbed, kills>>

\* The old status goes, and with it an error it still shows.
ClearStatus ==
    /\ At("clear")
    /\ status' = None
    /\ Goes("publish")
    /\ UNCHANGED <<backend, profile, config, air, request, asked, booting, disturbed, kills>>

\* Mutant: the profile stays as the failed attempt left it.
RestoreNothing ==
    /\ At("restore")
    /\ job' = [job EXCEPT !.phase = "restart", !.error = TRUE]
    /\ UNCHANGED <<backend, profile, config, air, request, asked, status, booting, disturbed, kills>>

RestoreProfile ==
    /\ At("restore")
    /\ profile' = job.before
    /\ job' = [job EXCEPT !.phase = "restart", !.error = TRUE]
    /\ UNCHANGED <<backend, config, air, request, asked, status, booting, disturbed, kills>>

RestoreFails ==
    /\ At("restore")
    /\ disturbed' = TRUE
    /\ job' = [job EXCEPT !.phase = "publish", !.error = TRUE]
    /\ UNCHANGED <<backend, profile, config, air, request, asked, status, booting, kills>>

\* The result of these commands is not looked at.
Restart(left) ==
    /\ At("restart")
    /\ left \in {None, profile} \cup (IF backend = "keyfile" THEN {air} ELSE {})
    /\ air' = left
    /\ disturbed' = (disturbed \/ left # profile)
    /\ Goes("publish")
    /\ UNCHANGED <<backend, profile, config, request, asked, status, booting, kills>>

\* Mutant: a refresh shows only its own error.
PublishOwn ==
    /\ At("publish")
    /\ status' = [id |-> IF job.id = 0 /\ status # None THEN status.id ELSE job.id,
                  mode |-> Saved, notice |-> config # None /\ config.notice, error |-> job.error]
    /\ job' = None
    /\ UNCHANGED <<backend, profile, config, air, request, asked, booting, disturbed, kills>>

Publish ==
    /\ At("publish")
    /\ status' = [id |-> IF job.id = 0 /\ status # None THEN status.id ELSE job.id,
                  mode |-> Saved, notice |-> config # None /\ config.notice,
                  error |-> job.error \/ (status # None /\ status.error)]
    /\ job' = None
    /\ UNCHANGED <<backend, profile, config, air, request, asked, booting, disturbed, kills>>

-----------------------------------------------------------------------------
\* The panel, under the lock and only while no request waits.  NetworkManager
\* alone knows the connection; what a command that fails leaves is open.
PanelSwitch(left) ==
    /\ job = None /\ request = None /\ backend = "keyfile"
    /\ left \in {None, profile, air}
    /\ air' = left
    /\ UNCHANGED <<backend, profile, config, request, asked, job, status, booting, disturbed, kills>>

Touched == job # None /\ job.touched /\ job.phase \notin {"clear", "publish"}

Kill ==
    /\ job # None /\ kills < MaxKills
    /\ kills' = kills + 1
    /\ job' = None
    /\ disturbed' = (disturbed \/ Touched)
    /\ UNCHANGED <<backend, profile, config, air, request, asked, status, booting>>

\* The profile is started before the helper runs.
Reboot(left) ==
    /\ kills < MaxKills
    /\ left \in {profile, None}
    /\ kills' = kills + 1
    /\ air' = left
    /\ job' = None /\ booting' = TRUE
    /\ disturbed' = (disturbed \/ Touched)
    /\ UNCHANGED <<backend, profile, config, request, asked, status>>

Radio == Profile \cup {None}

Apply ==
    \/ Unready \/ WriteProfile \/ Up \/ SaveConfig \/ SaveFails \/ ClearStatus
    \/ \E available \in BOOLEAN : Begin(available)
    \/ \E written \in BOOLEAN : WriteFails(written)
    \/ \E left \in Radio : UpFails(left) \/ Restart(left)
    \/ RestoreProfile \/ RestoreFails \/ Publish

Next ==
    \/ \E change \in Change : Submit(change)
    \/ StartRequest \/ StartBoot \/ StartRefresh \/ Apply
    \/ Kill \/ \E left \in Radio : Reboot(left) \/ PanelSwitch(left)

Spec == Init /\ [][Next]_vars

-----------------------------------------------------------------------------
(* Properties.                                                             *)

\* At rest the saved settings, the profile and the radio agree, whatever failed
\* on the way, unless a helper was killed or a restoration failed; the next boot
\* that succeeds puts that right too.
SettingsAgree ==
    job = None /\ config # None /\ ~disturbed =>
        /\ profile = [mode |-> config.mode, key |-> config.key]
        /\ air # None => air = profile

\* The end of a request, or of the provisioning at boot.
Answers == job # None /\ job' = None /\ status' # status /\ job.kind # "refresh"

\* An answer without an error means that the radio runs what was asked for, or
\* that the notice tells the fallback; and a boot without an error that it runs,
\* even if the panel had switched it off.
AnswerIsInForce ==
    [][Answers /\ ~status'.error /\ ~disturbed =>
         /\ air = profile
         /\ job.change \in Keys => air.key = job.change
         /\ job.change \in Mode => air.mode = job.change \/ status'.notice]_vars

\* 5 GHz that does not start is answered by 2.4 GHz and the notice, not by an
\* error (docs/wifi-modes.md:18-20): that takes another failure, or a 2.4 GHz profile
\* of hostapd, which the helper takes to be still as it was at the beginning of the
\* request.
FallbackIsAnswered ==
    [][Answers /\ status'.error =>
         job.hurt \/ (backend = "hostapd" /\ job.before.mode = "standard")]_vars

\* The error of a request is shown until an action succeeds or a reboot.
ErrorIsKept ==
    [][status # None /\ status.error /\ status' # None => status'.error]_vars

-----------------------------------------------------------------------------
(* The invariant.                                                          *)

WifiConstants ==
    /\ Factory \in Keys /\ Open \notin Keys /\ MaxRequests \in Nat
    /\ None \notin Change \cup Profile \cup Config \cup Request \cup Job \cup Status

ProfileOf(c) == [mode |-> c.mode, key |-> c.key]

\* The radio runs the profile, and that is the saved one.
InStep ==
    air \in {None, profile} /\ (config # None => profile = ProfileOf(config))

\* Unless a helper has touched them.
UntouchedInStep ==
    job = None \/ ~job.touched \/ job.phase \in {"clear", "publish"} => disturbed \/ InStep

\* Before the provisioning at boot has touched it, the radio runs the profile.
StartedAtBoot ==
    booting \/ (job # None /\ job.kind = "boot" /\ ~job.touched) => air \in {None, profile}

JobShape ==
    job # None =>
      /\ job.kind = "refresh" => job.phase = "publish" /\ ~job.touched
      /\ booting => job.kind = "refresh"
      /\ job.phase = "begin" => ~job.touched
      /\ job.mode = job.value.mode
      /\ job.change \in Keys => job.value.key = job.change
      /\ job.change \in Mode => job.value.mode = job.change \/ job.value.notice
      /\ job.error => job.phase \in {"restart", "publish"}
      /\ job.phase = "restart" => job.error

\* What the helper read at the beginning.
Remembers ==
    job # None /\ job.phase \notin {"clear", "publish"} =>
      /\ config # None /\ ~disturbed => job.before = ProfileOf(config)
      /\ ~job.touched \/ job.phase = "restart" => profile = job.before
      /\ job.phase \in {"begin", "write", "up"} =>
           job.compared = IF backend = "keyfile" THEN profile ELSE job.before

\* How far it has come with the attempt it makes, a second one at 2.4 GHz included.
Attempts ==
    /\ At("write") /\ job.touched =>
         /\ job.mode = "standard" /\ profile.mode = "performance"
         /\ backend = "hostapd" => air \in {None, profile}
    /\ At("up") =>
         \/ profile = Wanted
         \/ /\ backend = "hostapd" /\ job.before.mode = "standard"
            /\ job.mode = "standard" /\ profile.mode = "performance"
    /\ At("save") =>
         profile = Wanted /\ ((disturbed /\ job.kind # "boot") \/ air = profile)

\* What it is going to answer.
Concludes ==
    job # None =>
      /\ job.phase \in {"clear", "publish"} /\ ~job.error /\ job.kind # "refresh" =>
           config = job.value /\ profile = ProfileOf(job.value) /\ (disturbed \/ air = profile)
      /\ job.phase = "publish" /\ ~job.error /\ job.kind # "refresh" => status = None
      /\ job.phase \in {"restore", "restart"} \/ job.error =>
           job.hurt \/ (backend = "hostapd" /\ job.before.mode = "standard")

IInv ==
    /\ TypeOK /\ UntouchedInStep /\ StartedAtBoot /\ JobShape /\ Remembers /\ Attempts
    /\ Concludes
=============================================================================
