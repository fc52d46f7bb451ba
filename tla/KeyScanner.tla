------------------------------ MODULE KeyScanner ------------------------------
(***************************************************************************)
(* The debouncing of the panel's keys (hardware/keypad.py, KeyScanner),    *)
(* step by step over every short sequence of samples, against what it is   *)
(* meant to compute from the whole sequence: one event when a key that was *)
(* pressed alone is released.  The loop of scripts/keypad-panel.py samples *)
(* once a tick.                                                            *)
(***************************************************************************)
EXTENDS Naturals, Sequences, FiniteSets

CONSTANTS
    Buttons,
    None,
    Settle,         \* ticks for which the keys must not have changed
    MaxSamples      \* bound: length of a sequence

VARIABLES
    samples,        \* the keys that were down at each tick
    scanner,        \* KeyScanner
    event           \* what update() has returned for the last sample

vars == <<samples, scanner, event>>

-----------------------------------------------------------------------------
Scanner == [armed : BOOLEAN, candidate : Buttons \cup {None}, chord : BOOLEAN,
            lastActive : (SUBSET Buttons) \cup {None}, changedAt : 0 .. MaxSamples]

TypeOK ==
    /\ samples \in Seq(SUBSET Buttons) /\ Len(samples) <= MaxSamples
    /\ scanner \in Scanner /\ event \in Buttons \cup {None}

Init ==
    /\ samples = <<>> /\ event = None
    /\ scanner = [armed |-> FALSE, candidate |-> None, chord |-> FALSE, lastActive |-> None,
                  changedAt |-> 0]

\* The first lines of update().
Seen(active) ==
    IF active = scanner.lastActive THEN scanner
    ELSE [scanner EXCEPT !.lastActive = active, !.changedAt = Len(samples) + 1]

Settled(active) == Len(samples) + 1 - Seen(active).changedAt >= Settle

Update(active, next, key) ==
    /\ Len(samples) < MaxSamples
    /\ samples' = Append(samples, active)
    /\ scanner' = next
    /\ event' = key

Bounces(active) == ~Settled(active) /\ Update(active, Seen(active), None)

\* Nothing is reported for a chord, or before all keys have been seen up.
Pressed(s) == IF s.armed /\ ~s.chord THEN s.candidate ELSE None

Release ==
    /\ Settled({})
    /\ Update({}, [Seen({}) EXCEPT !.armed = TRUE, !.candidate = None, !.chord = FALSE],
              Pressed(Seen({})))

\* Mutant: only keys that are down at one time are a chord.
TogetherNow(s, active) == Cardinality(active) > 1

\* Two keys at one time, or one after the other without a release of both.
Together(s, active) ==
    Cardinality(active) > 1 \/ (s.candidate # None /\ s.candidate \notin active)

Press(active) ==
    /\ active # {} /\ Settled(active)
    /\ LET s == Seen(active)
       IN  Update(active,
                  CASE s.armed /\ Together(s, active) -> [s EXCEPT !.chord = TRUE]
                    [] s.armed /\ ~Together(s, active) /\ ~s.chord ->
                         [s EXCEPT !.candidate = CHOOSE key \in active : TRUE]
                    [] OTHER -> s,
                  None)

Next == Release \/ \E active \in SUBSET Buttons : Bounces(active) \/ Press(active)

Spec == Init /\ [][Next]_vars

-----------------------------------------------------------------------------
(* Properties.                                                             *)

Steady(n) == n > Settle /\ \A m \in n - Settle .. n : samples[m] = samples[n]

\* All keys are up at n, they were so at some r, and in between `key` was pressed,
\* and nothing else for long enough to count.
Clicked(key, n) ==
    /\ Steady(n) /\ samples[n] = {}
    /\ \E r \in 1 .. n - 1 :
         /\ Steady(r) /\ samples[r] = {}
         /\ \E m \in r + 1 .. n - 1 : Steady(m)
         /\ \A m \in r + 1 .. n - 1 : Steady(m) => samples[m] = {key}

\* A key is reported exactly once for every time it is pressed alone and released,
\* however the contacts bounce.
EventsAreClicks == \A key \in Buttons : event = key <=> Clicked(key, Len(samples))

-----------------------------------------------------------------------------
(* Why it holds, as an inductive invariant.                                *)

KeypadConstants ==
    /\ IsFiniteSet(Buttons) /\ Settle \in Nat /\ MaxSamples \in Nat
    /\ None \notin Buttons /\ \A active \in SUBSET Buttons : active # None

\* The scanner knows the last sample, and since when all samples are like it.
KnowsRun ==
    LET n == Len(samples)
        since == scanner.changedAt
    IN  IF n = 0 THEN scanner.lastActive = None /\ since = 0
        ELSE /\ scanner.lastActive = samples[n] /\ since \in 1 .. n
             /\ \A i \in since .. n : samples[i] = samples[n]
             /\ since > 1 => samples[since - 1] # samples[n]

SteadyUp(n) == Steady(n) /\ samples[n] = {}

\* What it remembers of the samples since r, where all keys were up last.
KnowsSince(r) ==
    LET pressed == {samples[m] : m \in {m \in r + 1 .. Len(samples) : Steady(m)}}
    IN  \/ scanner.candidate = None /\ ~scanner.chord /\ pressed = {}
        \/ scanner.candidate # None /\ ~scanner.chord /\ pressed = {{scanner.candidate}}
        \/ scanner.chord /\ \A key \in Buttons : ~(pressed \subseteq {{key}})

KnowsPress ==
    LET n == Len(samples)
    IN  IF scanner.armed
          THEN \E r \in 1 .. n :
                 SteadyUp(r) /\ (\A m \in r + 1 .. n : ~SteadyUp(m)) /\ KnowsSince(r)
          ELSE /\ scanner.candidate = None /\ ~scanner.chord
               /\ \A m \in 1 .. n : ~SteadyUp(m)

IInv == TypeOK /\ KnowsRun /\ KnowsPress /\ EventsAreClicks
=============================================================================
