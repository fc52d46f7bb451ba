------------------------------ MODULE MCConsoles ------------------------------
(***************************************************************************)
(* What a browser opens, under TLC: the serial port, the video stream, the *)
(* web session with the consoles that hang on it, and uploads; the keys on *)
(* the front, with the other ways to stop the appliance; the dashboard.    *)
(* They share no state, so one run checks them all: `part` says which one  *)
(* a behaviour is about, the others stay in their initial state.  The web  *)
(* session is looked at from three sides, each with its own bounds.        *)
(***************************************************************************)
EXTENDS SerialConsole

CONSTANTS Streams, Stills, Browsers, Consoles, Passwords, Default, Idle, Lifetime, Window,
          PerClient, PerServer, MaxSessions, MaxSlots, MaxTime, MaxTokens, MaxStops,
          Buttons, Settle, MaxSamples, ToRestart, ToStop, MaxAsked,
          Files, Uploads, Disk, Capacity, Reserve, Limit,
          Logins, Readers, MaxAttempts, MaxAddresses, MaxOpened, Term, Validity, Fresh, MaxClock

VARIABLES part,
          capture, current, latest, stream, still,
          now, file, credentials, sessions, attempts, issued, cookie, request, console, slots,
          server, stops, acknowledged, doubtful,
          samples, scanner, event,
          holds, button, action, posted, helper, asked, halts,
          files, fragments, upload, tasks, undeclared, restarts,
          clock, tries, opened, login, named, ssh, cachedAt, reader

Video == INSTANCE VideoCapture WITH lock <- capture

Web == INSTANCE WebAccess WITH active <- slots

Keypad == INSTANCE KeyScanner

Power == INSTANCE PowerControl
    WITH Debounce <- Settle, samples <- holds, request <- posted, stops <- halts

Pool == INSTANCE StagingUploads WITH Names <- Files, Tasks <- Uploads, MaxRestarts <- MaxStops

Board == INSTANCE Dashboard
    WITH Clients <- Browsers, MaxSessions <- MaxOpened, Window <- Term, Lifetime <- Validity,
         MaxTime <- MaxClock,
         now <- clock, attempts <- tries, sessions <- opened, cookie <- named, lock <- ssh

video == <<capture, current, latest, stream, still>>

web == <<now, file, credentials, sessions, attempts, issued, cookie, request, console, slots,
         server, stops, acknowledged, doubtful>>

keypad == <<samples, scanner, event>>

power == <<holds, button, action, posted, helper, asked, halts>>

pool == <<files, fragments, upload, tasks, undeclared, restarts>>

board == <<clock, tries, opened, login, named, ssh, cachedAt, reader>>

rest == <<keypad, power, pool, board>>

all == <<part, vars, video, web, rest>>

\* What the modules assume of their constants.
ASSUME VideoAssumption == Video!RequestsApart
ASSUME WebAssumption == Web!WebConstants
ASSUME KeypadAssumption == Keypad!KeypadConstants
ASSUME PowerAssumption == Power!PowerConstants
ASSUME PoolAssumption == Pool!PoolConstants
ASSUME BoardAssumption == Board!BoardConstants

PartsInit ==
    /\ Init /\ Video!Init /\ Web!Init /\ Keypad!Init /\ Power!Init /\ Pool!Init
    /\ Board!Init
    /\ part \in {"serial", "video", "throttle", "passwords", "consoles", "keypad", "power",
               "uploads", "signins", "readings"}

-----------------------------------------------------------------------------
\* Attempts: two clients, every mixture of right and wrong passwords.
Throttle ==
    /\ issued' <= 1 /\ cookie' = cookie
    /\ \A b \in Browsers : request'[b] # None => request'[b].kind = "answer"
    /\ console' = console /\ server' = server

\* A wrong password that is only counted is left to the part above.
NoMereAttempt == attempts' # attempts => issued' # issued \/ server' # "up"

\* Passwords: two browsers, three passwords, failed writes, a crash or a reset.
Passwording == NoMereAttempt /\ console' = console /\ now' <= 1

First == CHOOSE b \in Browsers : TRUE

NewPassword == CHOOSE p \in Passwords : p # Default

FirstConsole == CHOOSE c \in Consoles : TRUE

\* Consoles: one browser with two of them, of any kind and a remote desktop, which
\* signs out, changes its password once or lets its session expire.
Consoling ==
    /\ NoMereAttempt
    /\ \A c \in Consoles \ {FirstConsole} :
         console'[c].phase # "new" => console'[c].kind = "remote"
    /\ \A b \in Browsers \ {First} : cookie'[b] = None /\ request'[b] = None
    /\ file' \in {None, Default, NewPassword}
    /\ now' <= Idle /\ issued' <= 2 /\ doubtful' = {} /\ stops' = 0

WebNext ==
    /\ Web!Next
    /\ part = "throttle" => Throttle
    /\ part = "passwords" => Passwording
    /\ part = "consoles" => Consoling

FirstLogin == CHOOSE l \in Logins : TRUE

\* The dashboard: signing in without readers, then readers beside one session.
BoardNext ==
    /\ Board!Next
    /\ part = "signins" => reader' = reader
    /\ part = "readings" =>
         /\ \A l \in Logins \ {FirstLogin} : login'[l] = None
         /\ DOMAIN tries' \subseteq {First}

PartsNext ==
    /\ UNCHANGED part
    /\ \/ part = "serial" /\ Next /\ UNCHANGED <<video, web, rest>>
       \/ part = "video" /\ Video!Next /\ UNCHANGED <<vars, web, rest>>
       \/ part \in {"throttle", "passwords", "consoles"} /\ WebNext
          /\ UNCHANGED <<vars, video, rest>>
       \/ part = "keypad" /\ Keypad!Next /\ UNCHANGED <<vars, video, web, power, pool, board>>
       \/ part = "power" /\ Power!Next /\ UNCHANGED <<vars, video, web, keypad, pool, board>>
       \/ part = "uploads" /\ Pool!Next
          /\ UNCHANGED <<vars, video, web, keypad, power, board>>
       \/ part \in {"signins", "readings"} /\ BoardNext
          /\ UNCHANGED <<vars, video, web, keypad, power, pool>>

\* What sessions, streams and consoles do on their own when they end.
Cleanup ==
    \/ (\E s \in Sessions : Unwinds(s)) /\ UNCHANGED <<part, video, web, rest>>
    \/ (\E s \in Streams : Video!Closes(s)) /\ UNCHANGED <<part, vars, web, rest>>
    \/ (\E c \in Consoles : Web!Unwinding(c)) /\ UNCHANGED <<part, vars, video, rest>>

\* Each of them ends once, so that this follows from the fairness of each, which
\* the modules assume.
PartsSpec == PartsInit /\ [][PartsNext]_all /\ WF_all(Cleanup)

-----------------------------------------------------------------------------
(* What the parts promise, by theme; each conjunct is stated and explained  *)
(* in the module of its part.                                              *)

\* The state of every part has its types.
PartsTypeOK ==
    TypeOK /\ Video!TypeOK /\ Web!TypeOK /\ Keypad!TypeOK /\ Power!TypeOK /\ Pool!TypeOK
    /\ Board!TypeOK

\* There is one capture at a time, the stream that runs can be found and stopped,
\* and the capture lock always has somebody who will give it back.
CaptureIsManaged ==
    Video!DeviceExclusive /\ Video!RunningIsRegistered /\ Video!LockHasOwner

\* No session outlives its password, and the password in force is the one that the
\* last answer reported, after failed writes, crashes and resets.
PasswordInForce == Web!SessionsOfCurrentPassword /\ Web!PasswordAsReported

\* What is limited stays limited: attempts in every minute, the slots and tasks of
\* consoles, the space that declared uploads fill and the uploads of a name, the
\* tables of the dashboard and the age of what it shows.
LimitsHold ==
    /\ Web!AttemptsBounded /\ Web!ConsolesReturnWhatTheyTook
    /\ Pool!SpaceIsKept /\ Pool!OneUploadPerName
    /\ Board!LoginsThrottled /\ Board!TablesBounded /\ Board!ReadingsAreFresh

\* A key is reported for every click and for nothing else, the power button does what
\* it was held for, and a request stops the host once.
KeysActOnce == Keypad!EventsAreClicks /\ Power!ActsAsHeld /\ Power!OneStopPerRequest

\* The password changes only for a request to change it whose own session is still
\* running, also when it waited behind another change (WebAccess.ChangedBySignedIn).
ChangedBySignedIn == Web!ChangedBySignedIn

\* What is told to end does end: a serial session that was reset, a stream that was
\* closed, a console whose web session is gone and which no target holds.
EverythingEnds ==
    ResetEndsSession /\ Video!ClosedStreamFreesDevice /\ Web!RevokedConsoleEnds
=============================================================================
