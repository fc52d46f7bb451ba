----------------------------- MODULE PowerControl -----------------------------
(***************************************************************************)
(* The two ways to stop the host without the panel: the power button       *)
(* (hardware/power_button.py, scripts/power-button.py), which tells a      *)
(* restart from a shutdown by the time it is held, and the request of the  *)
(* web interface (backend/app/api/routes.py) that a helper carries out     *)
(* (scripts/handle-power-action.sh).  Time counts samples of the button.   *)
(***************************************************************************)
EXTENDS Naturals, Sequences

CONSTANTS
    None,
    Debounce,       \* 50 ms
    ToRestart,      \* 2 seconds
    ToStop,         \* 5 seconds
    MaxSamples,     \* bound: samples between two starts of the host
    MaxAsked        \* bound: requests of the web interface

VARIABLES
    samples,        \* whether the button was down at each sample
    button,         \* PowerButton
    action,         \* what update() has returned for the last sample
    request,        \* power-action
    helper,         \* handle-power-action.sh: what it has read
    asked,          \* requests accepted
    stops           \* how often the host was stopped for a request

vars == <<samples, button, action, request, helper, asked, stops>>
mailbox == <<request, helper, asked, stops>>
gesture == <<samples, button, action>>

-----------------------------------------------------------------------------
Stop == {"reboot", "poweroff"}
Time == 0 .. MaxSamples
Button == [candidate : BOOLEAN \cup {None}, changedAt : Time, stable : BOOLEAN \cup {None},
           armed : BOOLEAN, started : Time \cup {None}]

TypeOK ==
    /\ samples \in Seq(BOOLEAN) /\ Len(samples) <= MaxSamples
    /\ button \in Button /\ action \in Stop \cup {None}
    /\ request \in Stop \cup {None}
    /\ helper \in [action : Stop, removed : BOOLEAN] \cup {None}
    /\ asked \in 0 .. MaxAsked /\ stops \in Nat

NewButton == [candidate |-> None, changedAt |-> 0, stable |-> None, armed |-> FALSE, started |-> None]

Init ==
    /\ samples = <<>> /\ button = NewButton /\ action = None
    /\ request = None /\ helper = None /\ asked = 0 /\ stops = 0

-----------------------------------------------------------------------------
(* The button.                                                             *)

Held(duration) ==
    CASE duration >= ToStop -> "poweroff"
      [] duration >= ToRestart /\ duration < ToStop -> "reboot"
      [] OTHER -> None

Seen(pressed) ==
    IF button.candidate = pressed THEN button
    ELSE [button EXCEPT !.candidate = pressed, !.changedAt = Len(samples) + 1]

Changes(pressed) ==
    /\ Len(samples) + 1 - Seen(pressed).changedAt >= Debounce
    /\ button.stable # pressed

\* An action that systemctl accepts ends the loop.
Update(pressed, next, result) ==
    /\ action = None /\ Len(samples) < MaxSamples
    /\ samples' = Append(samples, pressed)
    /\ button' = next
    /\ action' = result
    /\ UNCHANGED mailbox

Unchanged(pressed) == ~Changes(pressed) /\ Update(pressed, Seen(pressed), None)

\* Mutant: a button that was down when the host started counts.
PressedEarly == [Seen(TRUE) EXCEPT !.stable = TRUE, !.started = Seen(TRUE).changedAt]

\* The hold begins where the contact first closed, once the button has been seen up.
Pressed ==
    [Seen(TRUE) EXCEPT !.stable = TRUE,
                       !.started = IF button.armed THEN Seen(TRUE).changedAt ELSE @]

Press == Changes(TRUE) /\ Update(TRUE, Pressed, None)

Release ==
    /\ Changes(FALSE)
    /\ Update(FALSE, [Seen(FALSE) EXCEPT !.stable = FALSE, !.started = None, !.armed = TRUE],
              IF button.started = None THEN None
              ELSE Held(Seen(FALSE).changedAt - button.started))

\* systemctl fails: release and retry.
Refused ==
    /\ action # None
    /\ action' = None
    /\ UNCHANGED <<samples, button, mailbox>>

\* The host goes down, and comes back with everything in memory lost.
Down ==
    /\ samples' = <<>> /\ button' = NewButton /\ action' = None
    /\ helper' = None

ButtonStops == action # None /\ Down /\ UNCHANGED <<request, asked, stops>>

-----------------------------------------------------------------------------
(* The mailbox.                                                            *)

\* POST /system/power replaces a request that still waits.
Ask(a) ==
    /\ asked < MaxAsked
    /\ asked' = asked + 1
    /\ request' = a
    /\ UNCHANGED <<gesture, helper, stops>>

Start ==
    /\ request # None /\ helper = None
    /\ helper' = [action |-> request, removed |-> FALSE]
    /\ UNCHANGED <<gesture, request, asked, stops>>

\* Mutant: the request stays until the host has stopped.
RemoveNothing ==
    /\ helper # None /\ ~helper.removed
    /\ helper' = [helper EXCEPT !.removed = TRUE]
    /\ UNCHANGED <<gesture, request, asked, stops>>

\* Also a request that has replaced the one that was read.
Remove ==
    /\ helper # None /\ ~helper.removed
    /\ request' = None
    /\ helper' = [helper EXCEPT !.removed = TRUE]
    /\ UNCHANGED <<gesture, asked, stops>>

WebStops ==
    /\ helper # None /\ helper.removed
    /\ stops' = stops + 1
    /\ Down
    /\ UNCHANGED <<request, asked>>

\* systemctl fails, or the helper is killed.
HelperFails ==
    /\ helper # None
    /\ helper' = None
    /\ UNCHANGED <<gesture, request, asked, stops>>

Next ==
    \/ \E pressed \in BOOLEAN : Unchanged(pressed)
    \/ Press \/ Release \/ Refused \/ ButtonStops
    \/ \E a \in Stop : Ask(a)
    \/ Start \/ Remove \/ WebStops \/ HelperFails

Spec == Init /\ [][Next]_vars

-----------------------------------------------------------------------------
(* Properties.                                                             *)

Steady(n) == n > Debounce /\ \A m \in n - Debounce .. n : samples[m] = samples[n]

\* The button is steadily up at r, first steadily down at f, and again up at n.
Hold(r, f, n) ==
    /\ Steady(r) /\ ~samples[r] /\ Steady(f) /\ samples[f] /\ Steady(n) /\ ~samples[n]
    /\ \A m \in r + 1 .. n - 1 : Steady(m) => m >= f /\ samples[m]

\* The button stops the host only when it is released after a hold of two, or
\* five, seconds that began after the start of the host, with the action that this
\* time stands for, however the contact bounces.
ActsAsHeld ==
    LET n == Len(samples)
    IN  action # None =>
          \E r, f \in 1 .. n : r < f /\ f < n /\ Hold(r, f, n) /\ action = Held(n - f)

\* A request stops the host once: none is found again after the restart it asked
\* for.
OneStopPerRequest == stops <= asked

-----------------------------------------------------------------------------
(* Why they hold, as an inductive invariant.                               *)

PowerConstants ==
    /\ {Debounce, ToRestart, ToStop, MaxSamples, MaxAsked} \subseteq Nat
    /\ None \notin BOOLEAN /\ None \notin Stop /\ None \notin Time
    /\ None \notin [action : Stop, removed : BOOLEAN]

\* The button knows the last sample, and since when all samples are like it.
KnowsRun ==
    LET n == Len(samples)
        since == button.changedAt
    IN  IF n = 0 THEN button.candidate = None /\ since = 0
        ELSE /\ button.candidate = samples[n] /\ since \in 1 .. n
             /\ \A i \in since .. n : samples[i] = samples[n]
             /\ since > 1 => samples[since - 1] # samples[n]

\* It knows what was steady last, also at this sample.
KnowsSteady ==
    LET n == Len(samples)
    IN  IF button.stable = None THEN \A m \in 1 .. n : ~Steady(m)
        ELSE \E r \in 1 .. n : /\ Steady(r) /\ samples[r] = button.stable
                               /\ \A m \in r + 1 .. n : ~Steady(m)

\* A hold that has begun was preceded by a release.
KnowsHold ==
    LET n == Len(samples)
    IN  /\ button.armed => button.stable # None
        /\ button.stable = FALSE => button.armed
        /\ button.started # None =>
             /\ button.stable = TRUE
             /\ \E r, f \in 1 .. n :
                  /\ r < f /\ button.started = f - Debounce
                  /\ Steady(r) /\ ~samples[r] /\ Steady(f) /\ samples[f]
                  /\ \A m \in r + 1 .. n : Steady(m) => m >= f /\ samples[m]

\* Every request is waiting, with the helper or carried out, if it is not lost.
RequestsCounted ==
    /\ helper # None /\ ~helper.removed => request # None
    /\ stops + (IF helper # None /\ helper.removed THEN 1 ELSE 0)
             + (IF request # None THEN 1 ELSE 0) <= asked

IInv == TypeOK /\ KnowsRun /\ KnowsSteady /\ KnowsHold /\ ActsAsHeld /\ RequestsCounted
=============================================================================
