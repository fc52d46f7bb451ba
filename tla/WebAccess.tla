------------------------------ MODULE WebAccess ------------------------------
(***************************************************************************)
(* The web administrator and what hangs on a browser session:              *)
(* backend/app/security/auth.py with api/auth.py, the host's               *)
(* scripts/reset-web-admin.py, and the SSH, keyboard and remote desktop    *)
(* consoles (api/ssh.py, hid.py, remote.py) behind AuthMiddleware.         *)
(*                                                                         *)
(* AuthStore takes one lock around every operation, so that an operation   *)
(* is a step; a request is several: the middleware's check, the operation, *)
(* the answer.  A console is a coroutine, and a step of it runs from one   *)
(* await to the next.  Tokens are never issued twice: they are numbers.    *)
(***************************************************************************)
EXTENDS Naturals, FiniteSets

CONSTANTS
    Browsers,       \* each with its own address and cookie jar
    Consoles,       \* WebSocket connections
    Passwords, Default,
    None,
    Idle, Lifetime, \* IDLE_SECONDS, SESSION_SECONDS
    Window,         \* the minute over which attempts are counted
    PerClient, PerServer,
    MaxSessions,    \* 32
    MaxSlots,       \* MAX_SESSIONS of remote.py
    MaxTime, MaxTokens, MaxStops    \* bounds

VARIABLES
    now,
    file,           \* web-auth.json: the password stored, or None
    credentials,    \* AuthStore.credentials: the password loaded, or None
    sessions,       \* AuthStore.sessions
    attempts,       \* AuthStore.attempts and .global_attempts: who tried, and when
    issued,         \* the last token given out
    cookie,         \* what each browser sends
    request,        \* the request of each browser that is under way
    console,
    active,         \* remote.py _active
    server,         \* the API container
    stops,
    acknowledged,   \* ghost: the last password a change or reset reported
    doubtful        \* ghost: passwords whose change was reported as failed

store == <<file, credentials, sessions, attempts, issued>>
record == <<acknowledged, doubtful>>
vars == <<now, store, cookie, request, console, active, server, stops, record>>

-----------------------------------------------------------------------------
Tokens == 1 .. MaxTokens
Times == 0 .. MaxTime

Session == [expires : Nat, last : Times, password : Passwords]

\* `nth` tells the attempts of one tick apart.
Attempt == [client : Browsers, at : Times, nth : Nat]

Request ==
    {None} \cup [kind : {"answer"}, token : Tokens, old : Tokens \cup {None}]
           \cup [kind : {"password", "logout"}, token : Tokens]

\* accept: the handshake.  setup: the first message and the connection to the
\* target.  wait: the handler awaits its target and nothing else, for as long as
\* the target likes (an SSH session its shell, a remote desktop room for what the
\* browser sent).  live: bytes flow.  ending: the finally block.  closing: its
\* last await, for the SSH connection to be closed.
Console ==
    [phase : {"new", "accept", "setup", "wait", "live", "ending", "closing", "over"},
     kind : {"ssh", "hid", "remote"},
     token : Tokens \cup {None},
     told : BOOLEAN,                    \* revoke() has closed the socket
     task : {"none", "running", "finished"}]

TypeOK ==
    /\ now \in Times
    /\ file \in Passwords \cup {None} /\ credentials \in Passwords \cup {None}
    /\ DOMAIN sessions \subseteq Tokens
    /\ \A t \in DOMAIN sessions : sessions[t] \in Session
    /\ Cardinality(DOMAIN sessions) <= MaxSessions
    /\ attempts \subseteq Attempt /\ IsFiniteSet(attempts)
    /\ issued \in 0 .. MaxTokens
    /\ cookie \in [Browsers -> Tokens \cup {None}]
    /\ request \in [Browsers -> Request]
    /\ console \in [Consoles -> Console]
    /\ active \subseteq Consoles
    /\ server \in {"up", "down", "resetting", "written"} /\ stops \in Nat
    /\ acknowledged \in Passwords /\ doubtful \subseteq Passwords

Init ==
    /\ now = 0
    /\ file = None /\ credentials = None
    /\ sessions = <<>>
    /\ attempts = {}
    /\ issued = 0
    /\ cookie = [b \in Browsers |-> None]
    /\ request = [b \in Browsers |-> None]
    /\ console = [c \in Consoles |->
         [phase |-> "new", kind |-> "hid", token |-> None, told |-> FALSE, task |-> "none"]]
    /\ active = {}
    /\ server = "up" /\ stops = 0
    /\ acknowledged = Default /\ doubtful = {}

Up == server = "up"

-----------------------------------------------------------------------------
(* AuthStore.                                                              *)

Running(s) == now < s.expires /\ now - s.last < Idle

Valid(t) == t \in DOMAIN sessions /\ Running(sessions[t])

Only(live) == [t \in live |-> sessions[t]]

\* session(): a session that is over is forgotten, the other one may be touched.
Checked(t, touch) ==
    IF ~Valid(t) THEN Only(DOMAIN sessions \ {t})
    ELSE IF touch THEN [sessions EXCEPT ![t].last = now] ELSE sessions

Current == {t \in DOMAIN sessions : Running(sessions[t])}

\* The session dropped to make room: one that was used least recently.
Evicted == {t \in Current : \A u \in Current : sessions[t].last <= sessions[u].last}

\* Mutant: room is made by forgetting what has expired only.
KeptCurrent == {Current}

Kept ==
    IF Cardinality(Current) < MaxSessions THEN {Current} ELSE {Current \ {t} : t \in Evicted}

\* _new_session(), for a user who knew this password.
NewSession(live, password) ==
    /\ issued < MaxTokens /\ issued' = issued + 1
    /\ sessions' = [t \in live \cup {issued + 1} |->
         IF t \in live THEN sessions[t]
         ELSE [expires |-> now + Lifetime, last |-> now, password |-> password]]

Recent == {a \in attempts : now - a.at < Window}

Of(b, tries) == {a \in tries : a.client = b}

\* Mutant: one count for all clients is enough.
AdmitsServer(b) == Cardinality(Recent) < PerServer

\* Fewer than five of this client and thirty of all in the last minute; only
\* attempts that are let through are counted, right or wrong.
Admits(b) == Cardinality(Of(b, Recent)) < PerClient /\ Cardinality(Recent) < PerServer

Counted(b) ==
    LET before == {a \in Of(b, attempts) : a.at = now}
    IN  attempts' = attempts \cup {[client |-> b, at |-> now, nth |-> Cardinality(before)]}

\* _load(): without a file the factory password holds.
Loaded ==
    IF credentials # None THEN credentials ELSE IF file # None THEN file ELSE Default

-----------------------------------------------------------------------------
(* Requests of a browser: api/auth.py behind AuthMiddleware.               *)

Asks(b, r) == request' = [request EXCEPT ![b] = r]

\* Any authenticated request.
Touch(b) ==
    /\ Up /\ cookie[b] # None
    /\ sessions' = Checked(cookie[b], TRUE)
    /\ UNCHANGED <<now, file, credentials, attempts, issued, cookie, request, console, active,
                   server, stops, record>>

\* What a login leaves on disk: the first one writes what was loaded.
FirstFile == IF file = None THEN Loaded ELSE file

\* A wrong password, or credentials that cannot be read or written: _save() may
\* fail after the first login's file is in place.
LoginFails(b) ==
    /\ Up /\ request[b] = None
    /\ Admits(b) /\ Counted(b)
    /\ \/ file' = FirstFile /\ credentials' = Loaded
       \/ file' = file /\ credentials' \in {credentials, Loaded}
    /\ UNCHANGED <<now, sessions, issued, cookie, request, console, active, server, stops,
                   record>>

\* AuthStore.login(): the first login puts the password on disk.
Login(b) ==
    /\ Up /\ request[b] = None
    /\ Admits(b) /\ Counted(b)
    /\ credentials' = Loaded
    /\ file' = FirstFile
    /\ \E live \in Kept : NewSession(live, Loaded)
    /\ Asks(b, [kind |-> "answer", token |-> issued', old |-> cookie[b]])
    /\ UNCHANGED <<now, cookie, console, active, server, stops, record>>

\* The handler ends the session of the cookie it was sent, and the new cookie
\* reaches the browser.
LoginAnswered(b) ==
    /\ Up /\ request[b] # None /\ request[b].kind = "answer"
    /\ sessions' = Only(DOMAIN sessions \ {request[b].old})
    /\ cookie' = [cookie EXCEPT ![b] = request[b].token]
    /\ Asks(b, None)
    /\ UNCHANGED <<now, file, credentials, attempts, issued, console, active, server, stops,
                   record>>

\* The middleware lets a request to change the password, or to sign out, pass.
Admitted(b, kind) ==
    /\ Up /\ request[b] = None
    /\ Valid(cookie[b])
    /\ sessions' = Checked(cookie[b], TRUE)
    /\ Asks(b, [kind |-> kind, token |-> cookie[b]])
    /\ UNCHANGED <<now, file, credentials, attempts, issued, cookie, console, active, server,
                   stops, record>>

Wants(b, kind) == Up /\ request[b] # None /\ request[b].kind = kind

Logout(b) ==
    /\ Wants(b, "logout")
    /\ sessions' = Only(DOMAIN sessions \ {request[b].token})
    /\ cookie' = [cookie EXCEPT ![b] = None]
    /\ Asks(b, None)
    /\ UNCHANGED <<now, file, credentials, attempts, issued, console, active, server, stops,
                   record>>

\* Mutant: the middleware has checked the session already.
MayChangeChecked(t) == TRUE

\* change_password() looks at the session again, under the lock.
MayChange(t) == Valid(t)

ChangeRefused(b) ==
    /\ Wants(b, "password")
    /\ sessions' = IF MayChange(request[b].token) THEN sessions
                   ELSE Checked(request[b].token, TRUE)
    /\ credentials' \in {credentials, Loaded}
    /\ Asks(b, None)
    /\ UNCHANGED <<now, file, attempts, issued, cookie, console, active, server, stops, record>>

\* Mutant: sessions other than the one that asked go on.
RemainingOthers(t) == DOMAIN sessions \ {t}

\* What is left of the sessions when the password has changed.
Remaining(t) == {}

ChangePassword(b, p) ==
    /\ Wants(b, "password")
    /\ MayChange(request[b].token)
    /\ p \notin {Default, Loaded}
    /\ file' = p /\ credentials' = p
    /\ NewSession(Remaining(request[b].token), p)
    /\ Asks(b, [kind |-> "answer", token |-> issued', old |-> None])
    /\ acknowledged' = p /\ doubtful' = {}
    /\ UNCHANGED <<now, attempts, cookie, console, active, server, stops>>

\* _save() failed: nothing was written, or the directory could not be flushed
\* after the new file had taken the place of the old one.
ChangeFails(b, p) ==
    /\ Wants(b, "password")
    /\ MayChange(request[b].token)
    /\ p \notin {Default, Loaded}
    /\ file' \in {file, p} /\ credentials' = Loaded
    /\ sessions' = Checked(request[b].token, TRUE)
    /\ Asks(b, None)
    /\ doubtful' = doubtful \cup {p}
    /\ UNCHANGED <<now, attempts, issued, cookie, console, active, server, stops, acknowledged>>

-----------------------------------------------------------------------------
(* Consoles.                                                               *)

Goes(c, p) == console' = [console EXCEPT ![c].phase = p]

In(c, p) == Up /\ console[c].phase = p

\* The middleware of the WebSocket request.
Connect(c, b, kind) ==
    /\ In(c, "new")
    /\ Valid(cookie[b])
    /\ sessions' = Checked(cookie[b], TRUE)
    /\ console' = [console EXCEPT ![c] =
         [@ EXCEPT !.phase = "accept", !.kind = kind, !.token = cookie[b]]]
    /\ UNCHANGED <<now, file, credentials, attempts, issued, cookie, request, active, server,
                   stops, record>>

\* guarded_send() and guarded_receive() look at the session before they pass
\* anything on; without one they close the socket once and the handler unwinds.
Guarded(c, touch) == sessions' = Checked(console[c].token, touch)

\* Mutant: an open console is looked at only when something passes through it.
RevokedWhenUsed(c) ==
    /\ console[c].phase \in {"accept", "setup"} /\ Up
    /\ ~Valid(console[c].token)
    /\ Guarded(c, FALSE)
    /\ console' = [console EXCEPT ![c].told = TRUE,
                                  ![c].phase = IF @ = "accept" THEN "over" ELSE "ending"]
    /\ UNCHANGED <<now, file, credentials, attempts, issued, cookie, request, active, server,
                   stops, record>>

Revoked(c) ==
    /\ console[c].phase \in {"accept", "setup", "live"} /\ Up
    /\ ~Valid(console[c].token)
    /\ Guarded(c, FALSE)
    /\ console' = [console EXCEPT ![c].told = TRUE,
                                  ![c].phase = IF @ = "accept" THEN "over" ELSE "ending"]
    /\ UNCHANGED <<now, file, credentials, attempts, issued, cookie, request, active, server,
                   stops, record>>

Room(c) == console[c].kind = "remote" => Cardinality(active) < MaxSlots

\* accept() went out.  A remote desktop takes its slot in the same turn, the
\* keyboard has nothing to set up.
Accept(c) ==
    /\ In(c, "accept") /\ Valid(console[c].token)
    /\ Room(c)
    /\ console' = [console EXCEPT ![c] = IF @.kind = "hid"
         THEN [@ EXCEPT !.phase = "live", !.task = "running"] ELSE [@ EXCEPT !.phase = "setup"]]
    /\ active' = IF console[c].kind = "remote" THEN active \cup {c} ELSE active
    /\ UNCHANGED <<now, store, cookie, request, server, stops, record>>

\* Four remote sessions are already open.
AcceptFull(c) ==
    /\ In(c, "accept") /\ Valid(console[c].token)
    /\ ~Room(c)
    /\ Goes(c, "ending")
    /\ UNCHANGED <<now, store, cookie, request, active, server, stops, record>>

\* The first message of an SSH session names the target; its task starts before
\* the connection is made.
Credentials(c) ==
    /\ In(c, "setup") /\ console[c].kind = "ssh" /\ console[c].task = "none"
    /\ Valid(console[c].token) /\ Guarded(c, TRUE)
    /\ console' = [console EXCEPT ![c].task = "running"]
    /\ UNCHANGED <<now, file, credentials, attempts, issued, cookie, request, active, server,
                   stops, record>>

\* The target has let the handler in, which does not look at the session here: an
\* SSH session goes on to ask for its shell, the remote desktop's task starts.
Reached(c) ==
    /\ In(c, "setup")
    /\ \/ console[c].kind = "ssh" /\ console[c].task = "running" /\ Goes(c, "wait")
       \/ /\ console[c].kind = "remote" /\ console[c].task = "none"
          /\ console' = [console EXCEPT ![c].task = "running"]
    /\ UNCHANGED <<now, store, cookie, request, active, server, stops, record>>

\* Connected, and the browser has been told so.
Connected(c) ==
    /\ \/ In(c, "wait") /\ console[c].kind = "ssh"
       \/ In(c, "setup") /\ console[c].kind = "remote" /\ console[c].task = "running"
    /\ Valid(console[c].token)
    /\ Goes(c, "live")
    /\ UNCHANGED <<now, store, cookie, request, active, server, stops, record>>

\* A message of the browser is passed on; it keeps the session alive.  When the
\* gateway does not read, the remote desktop waits for it before the next one.
Message(c) ==
    /\ In(c, "live") /\ Valid(console[c].token)
    /\ Guarded(c, TRUE)
    /\ \/ UNCHANGED console
       \/ console[c].kind = "remote" /\ Goes(c, "wait")
    /\ UNCHANGED <<now, file, credentials, attempts, issued, cookie, request, active, server,
                   stops, record>>

\* The gateway has read on.
Drained(c) ==
    /\ In(c, "wait") /\ console[c].kind = "remote"
    /\ Goes(c, "live")
    /\ UNCHANGED <<now, store, cookie, request, active, server, stops, record>>

\* What the target sends at last is not passed on: the session is over.
RevokedLate(c) ==
    /\ In(c, "wait") /\ ~Valid(console[c].token)
    /\ Guarded(c, FALSE)
    /\ console' = [console EXCEPT ![c].told = TRUE, ![c].phase = "ending"]
    /\ UNCHANGED <<now, file, credentials, attempts, issued, cookie, request, active, server,
                   stops, record>>

\* The target is gone or refuses, the browser left, a time limit passed.
Ends(c) ==
    /\ In(c, "setup") \/ In(c, "wait") \/ In(c, "live")
    /\ Goes(c, "ending")
    /\ UNCHANGED <<now, store, cookie, request, active, server, stops, record>>

\* Mutant: a remote session that never started keeps its slot.
FreedIfStarted(c) == IF console[c].task = "running" THEN active \ {c} ELSE active

Freed(c) == active \ {c}

\* What the finally block leaves: an SSH connection that was made must be closed.
Left(c) ==
    IF console[c].kind = "ssh" /\ console[c].task = "running" THEN {"closing", "over"}
    ELSE {"over"}

\* The finally block; an SSH session finishes its task before the connection.
Finish(c) ==
    /\ In(c, "ending")
    /\ active' = Freed(c)
    /\ \E p \in Left(c) :
         console' = [console EXCEPT ![c].phase = p,
                                    ![c].task = IF @ = "running" THEN "finished" ELSE @]
    /\ UNCHANGED <<now, store, cookie, request, server, stops, record>>

Closed(c) ==
    /\ In(c, "closing")
    /\ Goes(c, "over")
    /\ UNCHANGED <<now, store, cookie, request, active, server, stops, record>>

-----------------------------------------------------------------------------
(* The container, and the reset by the host's administrator.               *)

\* Nothing but the file outlives the process: no task, no slot, no session.
Emptied ==
    /\ sessions' = <<>> /\ credentials' = None
    /\ attempts' = {}
    /\ console' = [c \in Consoles |->
         IF console[c].phase = "new" THEN console[c]
         ELSE [console[c] EXCEPT !.phase = "over", !.task = "none"]]
    /\ active' = {}
    /\ request' = [b \in Browsers |-> None]

Stopping == stops < MaxStops /\ stops' = stops + 1

\* The container dies, also in the middle of a change of password.
Crash ==
    /\ Up /\ Stopping
    /\ server' = "down"
    /\ \/ UNCHANGED <<file, doubtful>>
       \/ \E b \in Browsers, p \in Passwords \ {Default, Loaded} :
            /\ Wants(b, "password") /\ MayChange(request[b].token)
            /\ file' = p /\ doubtful' = doubtful \cup {p}
    /\ Emptied
    /\ UNCHANGED <<now, issued, cookie, acknowledged>>

Restart ==
    /\ server = "down"
    /\ server' = "up"
    /\ UNCHANGED <<now, store, cookie, request, console, active, stops, record>>

\* Mutant: the file is replaced under the running server.
ResetStopsNothing ==
    /\ server \in {"up", "down"} /\ Stopping
    /\ server' = "resetting"
    /\ UNCHANGED <<now, store, cookie, request, console, active, record>>

\* docker stop.
ResetStops ==
    /\ server \in {"up", "down"} /\ Stopping
    /\ server' = "resetting"
    /\ Emptied
    /\ UNCHANGED <<now, file, issued, cookie, record>>

ResetWrites ==
    /\ server = "resetting" /\ server' = "written"
    /\ file' = Default
    /\ acknowledged' = Default /\ doubtful' = {}
    /\ UNCHANGED <<now, credentials, sessions, attempts, issued, cookie, request, console, active,
                   stops>>

\* docker start, whether the file was written or not.
ResetStarts ==
    /\ server \in {"resetting", "written"}
    /\ server' = "up"
    /\ UNCHANGED <<now, store, cookie, request, console, active, stops, record>>

Tick ==
    /\ now < MaxTime /\ now' = now + 1
    /\ UNCHANGED <<store, cookie, request, console, active, server, stops, record>>

-----------------------------------------------------------------------------
Requests(b) ==
    \/ Touch(b) \/ LoginFails(b) \/ Login(b) \/ LoginAnswered(b)
    \/ \E kind \in {"password", "logout"} : Admitted(b, kind)
    \/ Logout(b) \/ ChangeRefused(b)
    \/ \E p \in Passwords : ChangePassword(b, p) \/ ChangeFails(b, p)

Serves(c) ==
    \/ \E b \in Browsers, kind \in {"ssh", "hid", "remote"} : Connect(c, b, kind)
    \/ Revoked(c) \/ Accept(c) \/ AcceptFull(c) \/ Credentials(c) \/ Reached(c)
    \/ Connected(c) \/ Message(c) \/ Drained(c) \/ RevokedLate(c) \/ Ends(c)
    \/ Finish(c) \/ Closed(c)

Next ==
    \/ \E b \in Browsers : Requests(b)
    \/ \E c \in Consoles : Serves(c)
    \/ Crash \/ Restart \/ ResetStops \/ ResetWrites \/ ResetStarts \/ Tick

Spec == Init /\ [][Next]_vars

\* guarded_receive() looks at the session every five seconds; the login of an SSH
\* session, and each step up to a remote desktop's first frame, has a time limit,
\* after which the handler ends or sends, and sending looks at the session too.
\* Nothing limits the phases "wait" and "closing": create_process() and
\* wait_closed() of an SSH session and drain() of a remote desktop return when the
\* target lets them, so that no fairness is assumed of what ends them.
Unwinding(c) == Revoked(c) \/ Finish(c)

LiveSpec == Spec /\ \A c \in Consoles : WF_vars(Unwinding(c))

-----------------------------------------------------------------------------
(* Properties.                                                             *)

\* A session lives only as long as the password it was opened with: neither a
\* login that raced a change, nor one evicted or answered late, survives it
\* ("Password changes revoke all previous sessions").
SessionsOfCurrentPassword ==
    \A t \in DOMAIN sessions : sessions[t].password = credentials

\* The password in force, in memory and on disk, is the last one that a change
\* or a reset reported, or one whose change was reported as failed since: no
\* crash, failed write or reset brings back an older one.
PasswordAsReported ==
    \A p \in {file, credentials} \ {None} : p \in {acknowledged} \cup doubtful

\* This step serves the request of b to change the password, and the session that
\* sent it is running.
ChangesFor(b) ==
    /\ Wants(b, "password") /\ Valid(request[b].token)
    /\ request'[b] # request[b]

\* A password that was not in force before is so after this step.
AnotherPassword ==
    file' \notin {file, Loaded} \/ credentials' \notin {None, credentials, Loaded}

\* The password, in memory or on disk, becomes another one only in a step that
\* serves a request to change it whose own session is running at that moment: not
\* one that the middleware let through before a racing change or sign-out ended
\* its session, also when the write fails or the server dies in it.  Only the
\* reset by the host's administrator needs no session; what a login writes is the
\* password it has loaded.
ChangedBySignedIn ==
    [][AnotherPassword /\ server # "resetting" => \E b \in Browsers : ChangesFor(b)]_vars

\* No more than the promised number of passwords is tried in any minute, by one
\* client or by all.
AttemptsBounded ==
    \A t \in Times :
      LET within == {a \in attempts : t <= a.at /\ a.at < t + Window}
      IN /\ \A b \in Browsers : Cardinality(Of(b, within)) <= PerClient
         /\ Cardinality(within) <= PerServer

\* Slots are bounded, and a console that is over, or has only a connection left to
\* close, holds neither a slot nor a running task.
ConsolesReturnWhatTheyTook ==
    /\ Cardinality(active) <= MaxSlots
    /\ \A c \in Consoles : console[c].phase \in {"closing", "over"} =>
         c \notin active /\ console[c].task # "running"

\* A console whose session has ended is unwound, whatever it was doing, unless it
\* is held by its target: "Open consoles are revoked within five seconds of logout
\* or password change" is kept but for a handler that awaits a shell, or a gateway
\* that does not read, and the close of its connection may take longer.
RevokedConsoleEnds ==
    \A c \in Consoles :
      console[c].phase \in {"accept", "setup", "live", "ending"} /\ ~Valid(console[c].token)
        ~> console[c].phase \in {"wait", "closing", "over"} \/ ~Up

-----------------------------------------------------------------------------
(* Why they hold, as an inductive invariant.                               *)

WebConstants ==
    /\ Default \in Passwords /\ None \notin Passwords
    /\ {Idle, Lifetime, Window, PerClient, PerServer, MaxSlots, MaxTime, MaxTokens} \subseteq Nat
    /\ MaxSessions \in Nat \ {0}

\* A server that does not run has nothing in memory; the factory password holds
\* until a file is written.
StoppedForgets == ~Up => credentials = None

FactoryUntilWritten == file = None => acknowledged = Default

AttemptsArePast == \A a \in attempts : a.at <= now

\* Slots and tasks belong to consoles between the handshake and the end of the
\* finally block.
HeldWhileOpen ==
    /\ IsFiniteSet(active)
    /\ \A c \in Consoles : c \in active \/ console[c].task = "running" =>
         console[c].phase \in {"setup", "wait", "live", "ending"}

IInv ==
    /\ TypeOK /\ SessionsOfCurrentPassword /\ PasswordAsReported /\ StoppedForgets
    /\ FactoryUntilWritten /\ AttemptsArePast /\ AttemptsBounded /\ HeldWhileOpen
    /\ Cardinality(active) <= MaxSlots
=============================================================================
