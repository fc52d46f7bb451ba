------------------------------- MODULE Dashboard -------------------------------
(***************************************************************************)
(* The operations dashboard (dashboard/backend): who may try to sign in,   *)
(* how many sessions there are, and the snapshot of the VPN that its       *)
(* readers share (main.py, vpn.py).                                        *)
(*                                                                         *)
(* One worker, one event loop: a handler runs without interruption from    *)
(* one await to the next, and awaits the registration server, the lock of  *)
(* the snapshot and the ssh that reads it.  What it forwards is decided by *)
(* the registration server.                                                *)
(***************************************************************************)
EXTENDS Integers, FiniteSets, Functions

CONSTANTS
    Clients,        \* addresses, each with one browser
    Logins,         \* login requests; a session has the name of its login
    Readers,        \* requests for the VPN's status
    None,
    MaxAttempts,    \* 10
    MaxAddresses,   \* 5000
    MaxSessions,    \* 1000
    Window,         \* 900 s
    Lifetime,       \* KDX_DASHBOARD_SESSION_SECONDS
    Fresh,          \* 15 s
    MaxTime         \* bound: the clock

VARIABLES
    now,
    attempts,       \* address -> the logins it tried, each at its tick, for the
                    \* addresses in the table
    sessions,       \* login -> end of the session it opened, None without one
    login,          \* login -> its handler
    cookie,         \* client -> the session its browser names
    lock,           \* the reader inside Reader.lock
    cachedAt,       \* when the snapshot was cached, None without one
    reader          \* reader -> its handler and the age of what it answered

vars == <<now, attempts, sessions, login, cookie, lock, cachedAt, reader>>

access == <<attempts, sessions, login, cookie>>

vpn == <<lock, cachedAt, reader>>

-----------------------------------------------------------------------------
Time == 0 .. MaxTime
\* `counted`: no later success of this address forgave the attempt.
Login == [client : Clients, tick : Time, former : Logins \cup {None}, asking : BOOLEAN,
          counted : BOOLEAN]
Reader == [phase : {"new", "waiting", "reading", "answered", "failed"}, since : Time, age : Time]

TypeOK ==
    /\ now \in Time
    /\ DOMAIN attempts \subseteq Clients
    /\ \A c \in DOMAIN attempts : attempts[c] \subseteq {l \in Logins : login[l] # None}
    /\ sessions \in [Logins -> Time \cup {None}]
    /\ login \in [Logins -> Login \cup {None}]
    /\ cookie \in [Clients -> Logins \cup {None}]
    /\ lock \in Readers \cup {None} /\ cachedAt \in Time \cup {None}
    /\ reader \in [Readers -> Reader]

Init ==
    /\ now = 0
    /\ attempts = [c \in {} |-> {}]
    /\ sessions = [l \in Logins |-> None] /\ login = [l \in Logins |-> None]
    /\ cookie = [c \in Clients |-> None]
    /\ lock = None /\ cachedAt = None
    /\ reader = [r \in Readers |-> [phase |-> "new", since |-> 0, age |-> 0]]

-----------------------------------------------------------------------------
(* Signing in.                                                             *)

Recent(t) == t >= now - Window

\* Addresses that have not tried for long are dropped when there are too many.
Swept ==
    IF Cardinality(DOMAIN attempts) > MaxAddresses
      THEN Restrict(attempts, {c \in DOMAIN attempts :
                        \E l \in attempts[c] : Recent(login[l].tick)})
      ELSE attempts

\* Mutant: a table that is full takes everybody.
AdmittedAlways(c) == TRUE

Admitted(c) == Cardinality(DOMAIN Swept) <= MaxAddresses \/ c \in DOMAIN Swept

Bucket(c) ==
    IF c \in DOMAIN Swept THEN {l \in Swept[c] : Recent(login[l].tick)} ELSE {}

\* The table with the bucket of c.
With(c, bucket) ==
    [d \in DOMAIN Swept \cup {c} |-> IF d = c THEN bucket ELSE Swept[d]]

LoginRefused(c) ==
    /\ \/ /\ ~Admitted(c)
          /\ attempts' = Swept
       \/ /\ Admitted(c) /\ Cardinality(Bucket(c)) >= MaxAttempts
          /\ attempts' = With(c, Bucket(c))
    /\ UNCHANGED <<now, sessions, login, cookie, vpn>>

\* Mutant: the attempt is counted when the answer is there.
BeginsUncounted(l, c) ==
    /\ login[l] = None
    /\ Admitted(c) /\ Cardinality(Bucket(c)) < MaxAttempts
    /\ attempts' = With(c, Bucket(c))
    /\ login' = [login EXCEPT ![l] = [client |-> c, tick |-> now, former |-> cookie[c],
                                      asking |-> TRUE, counted |-> TRUE]]
    /\ UNCHANGED <<now, sessions, cookie, vpn>>

\* The attempt is counted, then the registration server is asked.
LoginBegins(l, c) ==
    /\ login[l] = None
    /\ Admitted(c) /\ Cardinality(Bucket(c)) < MaxAttempts
    /\ attempts' = With(c, Bucket(c) \cup {l})
    /\ login' = [login EXCEPT ![l] = [client |-> c, tick |-> now, former |-> cookie[c],
                                      asking |-> TRUE, counted |-> TRUE]]
    /\ UNCHANGED <<now, sessions, cookie, vpn>>

\* Refused by the registration server, or not reached.
LoginFails(l) ==
    /\ login[l] # None /\ login[l].asking
    /\ login' = [login EXCEPT ![l].asking = FALSE]
    /\ UNCHANGED <<now, attempts, sessions, cookie, vpn>>

\* Without the session the request named and those that had ended at its start.
Remaining(l) ==
    [m \in Logins |->
        IF m = login[l].former \/ (sessions[m] # None /\ sessions[m] <= login[l].tick)
          THEN None ELSE sessions[m]]

\* Mutant: off by one.
HasRoomAtLimit(table) == Cardinality({m \in Logins : table[m] # None}) <= MaxSessions

HasRoom(table) == Cardinality({m \in Logins : table[m] # None}) < MaxSessions

\* The table is full: the former session is gone all the same.
LoginFindsNoRoom(l) ==
    /\ login[l] # None /\ login[l].asking
    /\ ~HasRoom(Remaining(l))
    /\ sessions' = Remaining(l)
    /\ login' = [login EXCEPT ![l].asking = FALSE]
    /\ UNCHANGED <<now, attempts, cookie, vpn>>

\* The session ends with the token, at `expires`, or before.  The answer may be
\* lost on its way.
LoginSucceeds(l, expires) ==
    /\ login[l] # None /\ login[l].asking
    /\ HasRoom(Remaining(l)) /\ expires > now
    /\ LET c == login[l].client
           lasts == login[l].tick + Lifetime
       IN  /\ sessions' = [Remaining(l) EXCEPT ![l] = IF lasts < expires THEN lasts ELSE expires]
           /\ attempts' = [d \in DOMAIN attempts |-> IF d = c THEN {} ELSE attempts[d]]
           /\ login' = [m \in Logins |->
                IF m = l THEN [login[l] EXCEPT !.asking = FALSE, !.counted = FALSE]
                ELSE IF login[m] # None /\ login[m].client = c
                  THEN [login[m] EXCEPT !.counted = FALSE] ELSE login[m]]
           /\ cookie' \in {cookie, [cookie EXCEPT ![c] = l]}
    /\ UNCHANGED <<now, vpn>>

\* session(): what has ended is forgotten by the first request that names it.
Expired(c) ==
    /\ cookie[c] # None /\ sessions[cookie[c]] # None /\ sessions[cookie[c]] <= now
    /\ sessions' = [sessions EXCEPT ![cookie[c]] = None]
    /\ UNCHANGED <<now, attempts, login, cookie, vpn>>

SignedIn(c) == cookie[c] # None /\ sessions[cookie[c]] # None /\ sessions[cookie[c]] > now

Logout(c) ==
    /\ SignedIn(c)
    /\ sessions' = [sessions EXCEPT ![cookie[c]] = None]
    /\ cookie' = [cookie EXCEPT ![c] = None]
    /\ UNCHANGED <<now, attempts, login, vpn>>

-----------------------------------------------------------------------------
(* The status of the VPN.                                                  *)

\* The devices have been fetched; the lock comes next.
ReadBegins(r) ==
    /\ reader[r].phase = "new"
    /\ \E c \in Clients : SignedIn(c)
    /\ reader' = [reader EXCEPT ![r].phase = "waiting"]
    /\ UNCHANGED <<now, access, lock, cachedAt>>

Cached == cachedAt # None /\ now - cachedAt <= Fresh

\* Mutant: whatever was read once is good enough.
AnswersOld(r) ==
    /\ reader[r].phase = "waiting" /\ lock = None
    /\ cachedAt # None
    /\ reader' = [reader EXCEPT ![r].phase = "answered", ![r].age = now - cachedAt]
    /\ UNCHANGED <<now, access, lock, cachedAt>>

AnswersCached(r) ==
    /\ reader[r].phase = "waiting" /\ lock = None
    /\ Cached
    /\ reader' = [reader EXCEPT ![r].phase = "answered", ![r].age = now - cachedAt]
    /\ UNCHANGED <<now, access, lock, cachedAt>>

ReadStarts(r) ==
    /\ reader[r].phase = "waiting" /\ lock = None
    /\ ~Cached
    /\ lock' = r
    /\ reader' = [reader EXCEPT ![r].phase = "reading", ![r].since = now]
    /\ UNCHANGED <<now, access, cachedAt>>

\* A snapshot is cached only if it can be parsed.
ReadSucceeds(r) ==
    /\ reader[r].phase = "reading"
    /\ cachedAt' = now /\ lock' = None
    /\ reader' = [reader EXCEPT ![r].phase = "answered", ![r].age = 0]
    /\ UNCHANGED <<now, access>>

\* ssh failed or was killed after 8 s, the snapshot is not valid, or the browser
\* went away.
ReadFails(r) ==
    /\ reader[r].phase \in {"waiting", "reading"}
    /\ lock' = IF lock = r THEN None ELSE lock
    /\ reader' = [reader EXCEPT ![r].phase = "failed"]
    /\ UNCHANGED <<now, access, cachedAt>>

-----------------------------------------------------------------------------
\* Requests to the registration server and ssh have timeouts, much shorter than
\* what the clock is read for.
Tick ==
    /\ now < MaxTime
    /\ \A l \in Logins : login[l] # None /\ login[l].asking => login[l].tick = now
    /\ \A r \in Readers : reader[r].phase = "reading" => reader[r].since = now
    /\ now' = now + 1
    /\ UNCHANGED <<access, vpn>>

Next ==
    \/ \E c \in Clients : LoginRefused(c) \/ Expired(c) \/ Logout(c)
    \/ \E l \in Logins, c \in Clients : LoginBegins(l, c)
    \/ \E l \in Logins : LoginFails(l) \/ LoginFindsNoRoom(l)
    \/ \E l \in Logins, expires \in Time : LoginSucceeds(l, expires)
    \/ \E r \in Readers : ReadBegins(r) \/ AnswersCached(r) \/ ReadStarts(r)
    \/ \E r \in Readers : ReadSucceeds(r) \/ ReadFails(r)
    \/ Tick

Spec == Init /\ [][Next]_vars

-----------------------------------------------------------------------------
(* Properties.                                                             *)

Attempts(c) ==
    {l \in Logins :
        login[l] # None /\ login[l].client = c /\ login[l].counted /\ Recent(login[l].tick)}

\* The registration server sees no more than ten tokens from an address within a
\* quarter of an hour unless one of them was right, although attempts that
\* overlap are all admitted before the first is answered.
LoginsThrottled == \A c \in Clients : Cardinality(Attempts(c)) <= MaxAttempts

\* Neither table grows beyond its limit, although a login is admitted before the
\* registration server answers and its session comes after.
TablesBounded ==
    /\ Cardinality(DOMAIN attempts) <= MaxAddresses + 1
    /\ Cardinality({l \in Logins : sessions[l] # None}) <= MaxSessions

\* What a reader is shown was read at most fifteen seconds before, however long it
\* waited for the lock and whatever became of the readers before it.
ReadingsAreFresh == \A r \in Readers : reader[r].phase = "answered" => reader[r].age <= Fresh

-----------------------------------------------------------------------------
(* Why they hold, as an inductive invariant.                               *)

BoardConstants ==
    /\ IsFiniteSet(Clients) /\ IsFiniteSet(Logins)
    /\ {MaxAttempts, MaxAddresses, MaxSessions, Window, Lifetime, Fresh, MaxTime} \subseteq Nat
    /\ None \notin Time \cup Login \cup Logins \cup Readers

\* The table of attempts still holds every attempt that counts.
CountedAreKept == \A c \in Clients : \A l \in Attempts(c) : c \in DOMAIN attempts /\ l \in attempts[c]

\* Every address has tried as often as it may at most.
BucketsBounded ==
    \A c \in DOMAIN attempts :
      Cardinality({l \in attempts[c] : Recent(login[l].tick)}) <= MaxAttempts

CachedBefore == cachedAt # None => cachedAt <= now

IInv ==
    TypeOK /\ CountedAreKept /\ BucketsBounded /\ TablesBounded /\ CachedBefore /\ ReadingsAreFresh
=============================================================================
