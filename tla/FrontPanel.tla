------------------------------ MODULE FrontPanel ------------------------------
(***************************************************************************)
(* The four-key panel of the appliance: the menu (hardware/keypad.py,      *)
(* MainMenu), the one background worker that carries out its actions and   *)
(* renews what it shows (hardware/lcd_control.py), and the loop that feeds *)
(* both (scripts/keypad-panel.py).                                         *)
(*                                                                         *)
(* The menu shows a copy of the worker's cache, which is itself a copy of  *)
(* the host; the web interface changes the host meanwhile.  A key is       *)
(* handled after the menu has been refreshed, so it may meet a menu that   *)
(* is no longer the one on the display.                                    *)
(***************************************************************************)
EXTENDS Naturals, Sequences

CONSTANTS
    None,
    MaxEvents       \* bound: actions confirmed at the panel, changes made elsewhere and
                    \* restarts of the panel, together

VARIABLES
    menu,           \* MainMenu: where it is, its dialog, its data
    late,           \* the dialog's 15 seconds are over
    idle,           \* 30 seconds without a key
    cache,          \* LocalLCDClient.cache
    renewal,        \* safe_refresh() is queued or running
    job,            \* perform(), queued or running; None unless busy
    on,             \* the switches of the host that are on
    tunnel,         \* the Remote Assist mailbox: the request and the last result
    actions,        \* number of actions confirmed: the last request_id
    done,           \* the actions that the host has done
    others          \* number of changes made elsewhere and of restarts

vars == <<menu, late, idle, cache, renewal, job, on, tunnel, actions, done, others>>

-----------------------------------------------------------------------------
Switch == {"ap", "access", "vpn"}
Section == {"status", "network", "remote", "system"}
Page == {"diagnostics", "vpn-status", "device", "services"}

\* What the actions that turn a switch do.
Turns == [a \in {"ap-on", "ap-off", "access-on", "access-off", "connect", "disconnect"} |->
            [switch |-> CASE a \in {"ap-on", "ap-off"} -> "ap"
                          [] a \in {"access-on", "access-off"} -> "access"
                          [] OTHER -> "vpn",
             to |-> a \in {"ap-on", "access-on", "connect"}]]

Action == {"diagnostics", "reboot", "poweroff"} \cup DOMAIN Turns
Id == 1 .. MaxEvents
Result == [id : Id, ok : BOOLEAN]
Cache == [on : SUBSET Switch, result : Result \cup {None}]
Menu == [section : Section \cup {None}, selected : 0 .. 3, page : Page \cup {None},
         confirm : Action \cup {None}, choice : {0, 1}, pending : Id \cup {None},
         message : Result \cup {None}, data : Cache]
Job == [action : Action, id : Id, phase : {"execute", "wait", "answer"}, ok : BOOLEAN]
Ask == [id : 0 .. MaxEvents, to : BOOLEAN]
Tunnel == [request : Ask \cup {None}, last : [id : 0 .. MaxEvents, ok : BOOLEAN]]

TypeOK ==
    /\ menu \in Menu /\ {late, idle} \subseteq BOOLEAN
    /\ cache \in Cache /\ renewal \in BOOLEAN /\ job \in Job \cup {None}
    /\ on \subseteq Switch /\ tunnel \in Tunnel
    /\ actions \in 0 .. MaxEvents /\ done \subseteq Id /\ others \in Nat

Blank == [on |-> {}, result |-> None]

FirstMenu ==
    [section |-> "status", selected |-> 0, page |-> None, confirm |-> None, choice |-> 0,
     pending |-> None, message |-> None, data |-> Blank]

Init ==
    /\ menu = FirstMenu /\ late = FALSE /\ idle = FALSE
    /\ cache = Blank /\ renewal = FALSE /\ job = None
    /\ on = {"ap"} /\ tunnel = [request |-> None, last |-> [id |-> 0, ok |-> TRUE]]
    /\ actions = 0 /\ done = {} /\ others = 0

-----------------------------------------------------------------------------
(* The menu.                                                               *)

\* Mutant: an action that runs is forgotten with the page.
RefreshedAll ==
    LET answered == menu.pending # None /\ cache.result # None /\ cache.result.id = menu.pending
        timely == [menu EXCEPT !.data = cache, !.confirm = IF late THEN None ELSE @,
                               !.message = IF answered THEN cache.result ELSE @,
                               !.pending = IF answered THEN None ELSE @]
    IN  IF idle THEN [FirstMenu EXCEPT !.data = cache, !.selected = menu.selected] ELSE timely

\* MainMenu.refresh(): an answer that comes after 30 seconds without a key is
\* dropped in the same refresh.
Refreshed ==
    LET answered == menu.pending # None /\ cache.result # None /\ cache.result.id = menu.pending
        timely == [menu EXCEPT !.data = cache, !.confirm = IF late THEN None ELSE @,
                               !.message = IF answered THEN cache.result ELSE @,
                               !.pending = IF answered THEN None ELSE @]
    IN  IF idle /\ timely.pending = None
        THEN [timely EXCEPT !.section = "status", !.page = None, !.confirm = None, !.message = None]
        ELSE timely

\* snapshot(): asks for a renewal when none is under way, every five seconds.
Snapshot(due) ==
    /\ due => job = None /\ ~renewal
    /\ renewal' = (renewal \/ due)

Shows(m) ==
    /\ menu' = m
    /\ late' = (late /\ m.confirm # None)

Keeps == UNCHANGED <<cache, on, tunnel, actions, done, others>>

\* The loop refreshes once a second.
Tick ==
    /\ Shows(Refreshed)
    /\ \E due \in BOOLEAN : Snapshot(due)
    /\ Keeps /\ UNCHANGED <<idle, job>>

\* A key that starts nothing.
Key(m) ==
    /\ Shows(m)
    /\ idle' = FALSE
    /\ \E due \in BOOLEAN : Snapshot(due)
    /\ Keeps /\ UNCHANGED job

Place == [s \in Section |-> CASE s = "status" -> 0 [] s = "network" -> 1
                             [] s = "remote" -> 2 [] s = "system" -> 3]

Back ==
    Key([Refreshed EXCEPT !.selected = IF Refreshed.section \in Section
                                       THEN Place[Refreshed.section] ELSE @,
                          !.section = None, !.page = None, !.confirm = None, !.message = None])

Move == Refreshed.confirm # None /\ Key([Refreshed EXCEPT !.choice = 1 - @])

Cancel ==
    /\ Refreshed.confirm # None /\ Refreshed.choice = 0
    /\ Key([Refreshed EXCEPT !.confirm = None])

Free == Refreshed.confirm = None /\ Refreshed.pending = None /\ Refreshed.message = None

\* While an action runs, or its answer is shown, the other keys do nothing.
Wait == Refreshed.confirm = None /\ ~Free /\ Key(Refreshed)

Dismiss ==
    /\ Refreshed.confirm = None /\ Refreshed.pending = None /\ Refreshed.message # None
    /\ Key([Refreshed EXCEPT !.message = None])

\* Up and down around a list; on a page they scroll, which is left out.
Around(length) ==
    \E step \in {1, length - 1} :
        Key([Refreshed EXCEPT !.selected = (@ + step) % length])

Top ==
    /\ Free /\ Refreshed.section = None
    /\ \/ Around(4)
       \/ \E s \in Section :
             /\ Place[s] = Refreshed.selected
             /\ Key([Refreshed EXCEPT !.section = s, !.selected = 0])

Toggle(switch, turnOn, turnOff) == IF switch \in Refreshed.data.on THEN turnOff ELSE turnOn

\* options(): what a switch offers depends on the copy of its state.
Options ==
    CASE Refreshed.section = "network" ->
           <<"diagnostics", Toggle("ap", "ap-on", "ap-off"),
             Toggle("access", "access-on", "access-off")>>
      [] Refreshed.section = "remote" -> <<"vpn-status", Toggle("vpn", "connect", "disconnect")>>
      [] Refreshed.section = "system" -> <<"device", "services", "reboot", "poweroff">>
      [] OTHER -> <<>>

\* start_confirmation(): Cancel is always the default.
Opened(action) == [Refreshed EXCEPT !.confirm = action, !.choice = 0]

\* A dialog opens with its 15 seconds ahead, whatever was there before.
Opens(action) ==
    /\ menu' = Opened(action)
    /\ late' = FALSE /\ idle' = FALSE
    /\ \E due \in BOOLEAN : Snapshot(due)
    /\ Keeps /\ UNCHANGED job

OnPage == Refreshed.section = "status" \/ Refreshed.page # None

Paged ==
    /\ Free /\ Refreshed.section # None /\ OnPage
    /\ \/ Refreshed.section = "status" /\ Key([Refreshed EXCEPT !.section = None, !.selected = 0])
       \/ Refreshed.section # "status" /\ Refreshed.page = "diagnostics" /\ Opens("diagnostics")

Listed ==
    /\ Free /\ Refreshed.section # None /\ ~OnPage
    /\ LET chosen == Options[Refreshed.selected + 1]
       IN  \/ Around(Len(Options))
           \/ chosen \in Page \ Action /\ Key([Refreshed EXCEPT !.page = chosen])
           \/ chosen \in Action /\ Opens(chosen)

\* Mutant: the action is looked up again when it is confirmed.
ConfirmedItem == IF Options = <<>> THEN Refreshed.confirm ELSE Options[Refreshed.selected + 1]

\* The action that the dialog names.
Confirmed == Refreshed.confirm

\* OK on Confirm: control() queues the action behind a renewal that waits, or
\* refuses it because another one runs.
Confirm ==
    /\ Refreshed.confirm # None /\ Refreshed.choice = 1
    /\ actions + others < MaxEvents
    /\ LET asked == [Refreshed EXCEPT !.confirm = None]
       IN  IF job = None
           THEN /\ actions' = actions + 1
                /\ job' = [action |-> Confirmed, id |-> actions + 1,
                           phase |-> "execute", ok |-> FALSE]
                /\ menu' = [asked EXCEPT !.pending = actions + 1,
                              !.page = IF Confirmed = "diagnostics" THEN Confirmed ELSE @]
           ELSE /\ menu' = [asked EXCEPT !.message = [id |-> job.id, ok |-> FALSE]]
                /\ UNCHANGED <<actions, job>>
    /\ late' = FALSE /\ idle' = FALSE
    /\ \E due \in BOOLEAN : Snapshot(due)
    /\ UNCHANGED <<cache, on, tunnel, done, others>>

Late ==
    /\ menu.confirm # None /\ ~late
    /\ late' = TRUE
    /\ UNCHANGED <<menu, idle, cache, renewal, job, on, tunnel, actions, done, others>>

\* A dialog is over long before.
Idles ==
    /\ ~idle /\ (menu.confirm # None => late)
    /\ idle' = TRUE
    /\ UNCHANGED <<menu, late, cache, renewal, job, on, tunnel, actions, done, others>>

-----------------------------------------------------------------------------
(* The worker.                                                             *)

Panel == <<menu, late, idle, actions, others>>

\* refresh(): the API's switches that cannot be read count as off, the access point
\* stays as it was, and a refresh that fails altogether changes nothing.
Readings ==
    {cache.on} \cup
    {r \in SUBSET (on \cup (cache.on \cap {"ap"})) : "ap" \in on \cap cache.on => "ap" \in r}

Renew ==
    /\ renewal
    /\ renewal' = FALSE
    /\ \E r \in Readings : cache' = [cache EXCEPT !.on = r]
    /\ UNCHANGED <<Panel, job, on, tunnel, done>>

Runs == job # None /\ job.phase = "execute" /\ ~renewal
Ends(ok) == job' = [job EXCEPT !.phase = "answer", !.ok = ok]

\* The diagnostics, and the commands that stop or restart the host.
Command ==
    /\ Runs /\ job.action \notin DOMAIN Turns
    /\ \E ok \in BOOLEAN : Ends(ok) /\ done' = IF ok THEN done \cup {job.id} ELSE done
    /\ UNCHANGED <<Panel, cache, renewal, on, tunnel>>

Set(switch, to) == IF to THEN on \cup {switch} ELSE on \ {switch}

\* Under the lock of the web's helper.  Success is told when the switch is seen to
\* be as asked for; a failure may leave it either way.
Turn ==
    /\ Runs /\ job.action \in DOMAIN Turns /\ Turns[job.action].switch # "vpn"
    /\ LET t == Turns[job.action]
       IN  \E left \in BOOLEAN, ok \in BOOLEAN :
             /\ ok => left = t.to
             /\ on' = Set(t.switch, left)
             /\ done' = IF ok /\ (t.switch \in on') = t.to THEN done \cup {job.id} ELSE done
             /\ Ends(ok)
    /\ UNCHANGED <<Panel, cache, renewal, tunnel>>

Tunnelled == Runs /\ job.action \in {"connect", "disconnect"}

\* The service does not answer, or another request is pending.
Refused ==
    /\ Tunnelled
    /\ Ends(FALSE)
    /\ UNCHANGED <<Panel, cache, renewal, on, tunnel, done>>

\* The request is posted; an answer that is not heard ends the action.
Post(heard) ==
    /\ Tunnelled /\ tunnel.request = None
    /\ tunnel' = [tunnel EXCEPT !.request = [id |-> job.id, to |-> job.action = "connect"]]
    /\ IF heard THEN job' = [job EXCEPT !.phase = "wait"] ELSE Ends(FALSE)
    /\ UNCHANGED <<Panel, cache, renewal, on, done>>

\* Mutant: any result is taken for the answer.
PollAny ==
    /\ job # None /\ job.phase = "wait" /\ tunnel.request = None
    /\ Ends(tunnel.last.ok)
    /\ UNCHANGED <<Panel, cache, renewal, on, tunnel, done>>

\* Only the result of this very request is its answer.
Poll ==
    /\ job # None /\ job.phase = "wait" /\ tunnel.last.id = job.id
    /\ Ends(tunnel.last.ok)
    /\ UNCHANGED <<Panel, cache, renewal, on, tunnel, done>>

\* After 85 seconds, or when the status cannot be read.
GiveUp ==
    /\ job # None /\ job.phase = "wait"
    /\ Ends(FALSE)
    /\ UNCHANGED <<Panel, cache, renewal, on, tunnel, done>>

Answer(state) == [on |-> state, result |-> [id |-> job.id, ok |-> job.ok]]

\* Mutant: an action that fails leaves no result.
PublishGood ==
    /\ job # None /\ job.phase = "answer"
    /\ \E state \in Readings :
         cache' = IF job.ok THEN Answer(state) ELSE [cache EXCEPT !.on = state]
    /\ job' = None
    /\ UNCHANGED <<Panel, renewal, on, tunnel, done>>

\* The finally block of perform(): renew, then publish the result.
Publish ==
    /\ job # None /\ job.phase = "answer"
    /\ \E state \in Readings : cache' = Answer(state)
    /\ job' = None
    /\ UNCHANGED <<Panel, renewal, on, tunnel, done>>

-----------------------------------------------------------------------------
(* The host and the web interface.                                         *)

\* remote-assist-host.py answers a request, the panel's or another.
Helper(ok) ==
    /\ tunnel.request # None
    /\ LET r == tunnel.request
       IN  /\ on' \in {Set("vpn", r.to), IF ok THEN Set("vpn", r.to) ELSE on}
           /\ tunnel' = [request |-> None, last |-> [id |-> r.id, ok |-> ok]]
           /\ done' = IF ok /\ r.id # 0 THEN done \cup {r.id} ELSE done
    /\ UNCHANGED <<Panel, cache, renewal, job>>

\* Another request, a change of a switch, or a new start of the panel.
Elsewhere ==
    /\ actions + others < MaxEvents
    /\ others' = others + 1
    /\ \/ /\ tunnel.request = None
          /\ \E to \in BOOLEAN : tunnel' = [tunnel EXCEPT !.request = [id |-> 0, to |-> to]]
          /\ UNCHANGED <<menu, late, idle, cache, renewal, job, on>>
       \/ /\ \E s \in {"ap", "access"} : on' = IF s \in on THEN on \ {s} ELSE on \cup {s}
          /\ UNCHANGED <<menu, late, idle, cache, renewal, job, tunnel>>
       \/ /\ menu' = FirstMenu /\ late' = FALSE /\ idle' = FALSE
          /\ cache' = Blank /\ renewal' = FALSE /\ job' = None
          /\ UNCHANGED <<on, tunnel>>
    /\ UNCHANGED <<actions, done>>

Work == Renew \/ Command \/ Turn \/ Refused \/ Poll \/ GiveUp \/ Publish

Next ==
    \/ Tick \/ Back \/ Move \/ Cancel \/ Wait \/ Dismiss \/ Top \/ Paged \/ Listed \/ Confirm
    \/ Late \/ Idles
    \/ Work \/ \E heard \in BOOLEAN : Post(heard)
    \/ \E ok \in BOOLEAN : Helper(ok)
    \/ Elsewhere

\* The loop and the worker's thread run on; every command they wait for has a
\* timeout.
Fairness == WF_vars(Tick) /\ WF_vars(Work)

Spec == Init /\ [][Next]_vars /\ Fairness

-----------------------------------------------------------------------------
(* Properties.                                                             *)

\* Nothing is started but what the dialog on the display named, with Confirm
\* chosen and in time, though the menu under it may have changed meanwhile.
OnlyWhatWasConfirmed ==
    [][actions' # actions =>
         /\ menu.confirm = job'.action /\ menu.choice = 1
         /\ ~late /\ ~idle]_vars

\* The menu waits for an action exactly as long as the worker has it, or for the
\* answer that the next refresh finds; no dialog is open meanwhile, so that control()
\* never has to refuse what was confirmed on it.
WaitsForItsAction ==
    /\ job # None => menu.pending = job.id /\ menu.confirm = None
    /\ menu.pending # None /\ job = None => cache.result # None /\ cache.result.id = menu.pending

\* An action answered as done was done by the host for this very request: the
\* switch was as asked for, or the helper answered that request.
DoneWasDone ==
    \A result \in {cache.result, menu.message} \ {None} : result.ok => result.id \in done

\* Every action is answered: "Working..." does not stay.
AnswerComes == menu.pending # None ~> menu.pending = None
-----------------------------------------------------------------------------
(* The invariant.                                                          *)

PanelConstants ==
    /\ MaxEvents \in Nat
    /\ None \notin Section \cup Page \cup Action
    /\ None \notin Id /\ None \notin Result /\ None \notin Job /\ None \notin Ask

\* The answer in the cache is that of an earlier action than the one that runs.
Numbered ==
    /\ job # None => job.id <= actions
    /\ cache.result # None => cache.result.id <= actions
    /\ job # None /\ cache.result # None => cache.result.id # job.id

\* A success is told only of what was done: by the worker, or by the helper.
ToldWhenDone ==
    /\ job # None /\ job.phase = "answer" /\ job.ok => job.id \in done
    /\ tunnel.last.ok /\ tunnel.last.id # 0 => tunnel.last.id \in done

\* A dialog left alone for so long is over.
IdleIsLate == idle /\ menu.confirm # None => late

IInv == TypeOK /\ Numbered /\ ToldWhenDone /\ IdleIsLate /\ WaitsForItsAction /\ DoneWasDone
=============================================================================
