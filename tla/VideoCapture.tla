---------------------------- MODULE VideoCapture ----------------------------
(***************************************************************************)
(* The one capture device and the requests that want it:                   *)
(* backend/app/api/video.py.  A live stream is a handler thread that       *)
(* starts the encoder and a generator that the web framework runs as the   *)
(* browser takes chunks; a new stream takes over from the last one.        *)
(***************************************************************************)
EXTENDS Naturals, FiniteSets

CONSTANTS
    Streams,        \* requests of /stream.mjpg
    Stills,         \* requests of /frame.png
    None

VARIABLES
    lock,           \* _capture_lock
    current,        \* _stream_process
    latest,         \* _latest_frame: the stream it came from
    stream,
    still

vars == <<lock, current, latest, stream, still>>

-----------------------------------------------------------------------------
(* new: not there yet.  looking: has read who streams now.  taking: that    *)
(* one was told to stop.  starting: has the lock.  started: the encoder     *)
(* runs.  answered: the response waits for its first chunk.  running: the   *)
(* generator was entered.  closing: its finally block, the lock still held. *)
(* freed: the lock released, the registration not yet removed.              *)
(* abandoned: the browser left before the first chunk was asked for.        *)
Phases == {"new", "looking", "taking", "starting", "started", "answered", "running", "closing",
           "freed", "over", "abandoned"}

\* The encoder: a signal may find it stuck in the driver.
Encoders == {"none", "running", "dead", "stuck"}

Browser == {"reading", "slow", "gone"}

TypeOK ==
    /\ lock \in Streams \cup Stills \cup {None}
    /\ current \in Streams \cup {None} /\ latest \in Streams \cup {None}
    /\ stream \in [Streams -> [phase : Phases, last : Streams \cup {None}, encoder : Encoders,
                               browser : Browser]]
    /\ still \in [Stills -> {"new", "capturing", "over"}]

Init ==
    /\ lock = None /\ current = None /\ latest = None
    /\ stream = [s \in Streams |->
         [phase |-> "new", last |-> None, encoder |-> "none", browser |-> "reading"]]
    /\ still = [f \in Stills |-> "new"]

In(s, p) == stream[s].phase = p

Goes(s, p) == stream' = [stream EXCEPT ![s].phase = p]

-----------------------------------------------------------------------------
(* video_frame()                                                           *)

StillTakes(f) ==
    /\ still[f] = "new"
    /\ lock = None /\ lock' = f
    /\ still' = [still EXCEPT ![f] = "capturing"]
    /\ UNCHANGED <<current, latest, stream>>

StillRefused(f) ==
    /\ still[f] = "new"
    /\ lock # None
    /\ still' = [still EXCEPT ![f] = "over"]
    /\ UNCHANGED <<lock, current, latest, stream>>

\* Captured, failed or out of time: the lock goes back.
StillEnds(f) ==
    /\ still[f] = "capturing"
    /\ still' = [still EXCEPT ![f] = "over"]
    /\ lock' = None
    /\ UNCHANGED <<current, latest, stream>>

-----------------------------------------------------------------------------
(* video_stream()                                                          *)

Look(s) ==
    /\ In(s, "new")
    /\ stream' = [stream EXCEPT ![s] = [@ EXCEPT !.phase = "looking", !.last = current]]
    /\ UNCHANGED <<lock, current, latest, still>>

\* terminate(), then kill() when it did not help.
Signalled(e) == IF e = "running" THEN {"dead", "stuck"} ELSE {e}

\* The stream found is told to stop if its encoder still runs.
TakeOver(s) ==
    /\ In(s, "looking")
    /\ LET p == stream[s].last IN
         IF p = None THEN Goes(s, "taking")
         ELSE \E e \in Signalled(stream[p].encoder) :
                stream' = [stream EXCEPT ![s].phase = "taking", ![p].encoder = e]
    /\ UNCHANGED <<lock, current, latest, still>>

Acquire(s) ==
    /\ In(s, "taking")
    /\ lock = None /\ lock' = s
    /\ Goes(s, "starting")
    /\ UNCHANGED <<current, latest, still>>

\* Three seconds went by.
AcquireTimesOut(s) ==
    /\ In(s, "taking")
    /\ lock # None
    /\ Goes(s, "over")
    /\ UNCHANGED <<lock, current, latest, still>>

\* Mutant: an error of the start leaves the lock taken.
FailedStartKeeps(s) == lock

FailedStart(s) == None

\* No signal, a timing that cannot be set, an encoder that is not there.
StartFails(s) ==
    /\ In(s, "starting")
    /\ lock' = FailedStart(s)
    /\ Goes(s, "over")
    /\ UNCHANGED <<current, latest, still>>

StartEncoder(s) ==
    /\ In(s, "starting")
    /\ stream' = [stream EXCEPT ![s] = [@ EXCEPT !.phase = "started", !.encoder = "running"]]
    /\ UNCHANGED <<lock, current, latest, still>>

Register(s) ==
    /\ In(s, "started")
    /\ current' = s
    /\ Goes(s, "answered")
    /\ UNCHANGED <<lock, latest, still>>

\* The generator is entered with the first chunk that is asked for.
FirstChunk(s) ==
    /\ In(s, "answered")
    /\ Goes(s, "running")
    /\ UNCHANGED <<lock, current, latest, still>>

\* A generator that was never entered has no finally block to run.
Abandon(s) ==
    /\ In(s, "answered") /\ stream[s].browser = "gone"
    /\ Goes(s, "abandoned")
    /\ UNCHANGED <<lock, current, latest, still>>

\* read_frames(): a complete picture.
Frame(s) ==
    /\ In(s, "running") /\ stream[s].encoder = "running" /\ stream[s].browser = "reading"
    /\ latest' = s
    /\ UNCHANGED <<lock, current, stream, still>>

\* The browser left, the encoder ended, or eight seconds brought no picture; the
\* generator finds out only when it is resumed.
StreamEnds(s) ==
    /\ In(s, "running") /\ stream[s].browser # "slow"
    /\ Goes(s, "closing")
    /\ UNCHANGED <<lock, current, latest, still>>

\* Mutant: the lock goes back before the encoder is stopped.
FreeBeforeStop(s) ==
    /\ In(s, "closing")
    /\ lock' = None
    /\ Goes(s, "freed")
    /\ UNCHANGED <<current, latest, still>>

\* Mutant: an encoder that does not stop keeps the lock taken.
FreeIfStopped(s) ==
    /\ In(s, "closing")
    /\ \E e \in Signalled(stream[s].encoder) :
         /\ stream' = [stream EXCEPT ![s] = [@ EXCEPT !.phase = "freed", !.encoder = e]]
         /\ lock' = IF e = "stuck" THEN lock ELSE None
    /\ UNCHANGED <<current, latest, still>>

\* The encoder is stopped, as far as it lets itself, and the lock goes back.
Free(s) ==
    /\ In(s, "closing")
    /\ \E e \in Signalled(stream[s].encoder) :
         stream' = [stream EXCEPT ![s] = [@ EXCEPT !.phase = "freed", !.encoder = e]]
    /\ lock' = None
    /\ UNCHANGED <<current, latest, still>>

\* Mutant: the stream that ends takes the registration with it.
StillRegistered(s) == TRUE

Registered(s) == current = s

\* By now another stream may have registered itself.
Unregister(s) ==
    /\ In(s, "freed")
    /\ current' = IF Registered(s) THEN None ELSE current
    /\ latest' = IF Registered(s) THEN None ELSE latest
    /\ Goes(s, "over")
    /\ UNCHANGED <<lock, still>>

-----------------------------------------------------------------------------
\* The encoder ends by itself; the browser stops reading, resumes, or leaves.
EncoderDies(s) ==
    /\ stream[s].encoder = "running"
    /\ stream' = [stream EXCEPT ![s].encoder = "dead"]
    /\ UNCHANGED <<lock, current, latest, still>>

BrowserGoes(s, b) ==
    /\ stream[s].browser # "gone" /\ b # stream[s].browser
    /\ stream' = [stream EXCEPT ![s].browser = b]
    /\ UNCHANGED <<lock, current, latest, still>>

Handler(s) ==
    \/ Look(s) \/ TakeOver(s) \/ Acquire(s) \/ AcquireTimesOut(s) \/ StartFails(s)
    \/ StartEncoder(s) \/ Register(s) \/ FirstChunk(s)

Generator(s) == StreamEnds(s) \/ Free(s) \/ Unregister(s)

Next ==
    \/ \E f \in Stills : StillTakes(f) \/ StillRefused(f) \/ StillEnds(f)
    \/ \E s \in Streams :
         \/ Handler(s) \/ Generator(s) \/ Abandon(s) \/ Frame(s)
         \/ EncoderDies(s) \/ \E b \in Browser : BrowserGoes(s, b)

Spec == Init /\ [][Next]_vars

\* A generator whose browser has left is closed, and its finally block runs.
Closes(s) == stream[s].browser = "gone" /\ Generator(s)

LiveSpec == Spec /\ \A s \in Streams : WF_vars(Closes(s))

-----------------------------------------------------------------------------
(* Properties.                                                             *)

\* One encoder or still capture at a time has the device, however requests
\* overlap; only an encoder that no signal stops can be there besides.
DeviceExclusive ==
    Cardinality({s \in Streams : stream[s].encoder = "running"}
                  \cup {f \in Stills : still[f] = "capturing"}) <= 1

\* The stream that runs is the one the next request will find and stop, and the
\* lock is its own: no stream that ends late removes the registration.
RunningIsRegistered ==
    \A s \in Streams : stream[s].phase \in {"answered", "running"} => current = s /\ lock = s

\* Whoever has the lock is still on its way to give it back, except a stream
\* whose browser left before the first chunk.
LockHasOwner ==
    \A s \in Streams : lock = s =>
      stream[s].phase \in {"starting", "started", "answered", "running", "closing", "abandoned"}

\* A stream whose browser has left gives the device back ("Closing the stream
\* released its capture lock and stopped ffmpeg").
ClosedStreamFreesDevice ==
    \A s \in Streams : In(s, "running") /\ stream[s].browser = "gone" ~> lock # s

-----------------------------------------------------------------------------
(* Why they hold, as an inductive invariant.                               *)

\* Requests differ from each other and from none.
RequestsApart == Streams \cap Stills = {} /\ None \notin Streams \cup Stills

\* From the acquisition to the release a stream has the lock, also when it was
\* abandoned.
Holding == {"starting", "started", "answered", "running", "closing", "abandoned"}

StreamsHold == \A s \in Streams : stream[s].phase \in Holding <=> lock = s

StillsHold == \A f \in Stills : still[f] = "capturing" => lock = f

EncoderNeedsLock ==
    \A s \in Streams : stream[s].encoder = "running" =>
        lock = s /\ stream[s].phase # "starting"

IInv == TypeOK /\ StreamsHold /\ StillsHold /\ EncoderNeedsLock /\ RunningIsRegistered
=============================================================================
