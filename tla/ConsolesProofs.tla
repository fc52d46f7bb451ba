---------------------------- MODULE ConsolesProofs ----------------------------
(***************************************************************************)
(* The dashboard, the keys on the front and the power button, for any      *)
(* numbers of browsers, logins, readers, keys, samples and requests and    *)
(* any limits; and what all the parts of MCConsoles promise together.      *)
(*                                                                         *)
(* The dashboard: a login that counts is still in the bucket of its        *)
(* client, and no bucket has more of them than the limit.                  *)
(*                                                                         *)
(* Keys and button: both remember where the run of equal samples began,    *)
(* from which follows when it became steady, and what was steady since the *)
(* keys were last up (the button: since it was last released).             *)
(***************************************************************************)
EXTENDS SessionsProofs, Sequences

-----------------------------------------------------------------------------
(* THE DASHBOARD.                                                          *)

\* The module Dashboard counts as FiniteSets does.
LEMMA BoardSizes ==
    \A S : Board!Cardinality(S) = Cardinality(S) /\ (Board!IsFiniteSet(S) <=> IsFiniteSet(S))
<1>1. \A S : Board!Cardinality(S) = Cardinality(S)
  BY DEF Cardinality, Board!Cardinality
<1>2. \A S : Board!IsFiniteSet(S) <=> IsFiniteSet(S)
  BY DEF IsFiniteSet, Board!IsFiniteSet
<1> QED
  BY <1>1, <1>2

\* The constants, and what is known of times and logins.
LEMMA Sizes ==
    /\ MaxAttempts \in Nat /\ MaxAddresses \in Nat /\ MaxOpened \in Nat /\ Term \in Nat
    /\ Validity \in Nat /\ Fresh \in Nat /\ MaxClock \in Nat
    /\ \A k \in Board!Time : k \in Nat /\ k <= MaxClock /\ k # None
    /\ \A k \in Board!Login : k # None
    /\ IsFiniteSet(Browsers) /\ IsFiniteSet(Logins)
  BY BoardAssumption, BoardSizes DEF Board!BoardConstants, Board!Time

-----------------------------------------------------------------------------
(* The table of tries.                                                  *)

\* Addresses that are dropped have not tried for long.
LEMMA SweptKeeps ==
    /\ DOMAIN Board!Swept \subseteq DOMAIN tries
    /\ \A c \in DOMAIN Board!Swept : Board!Swept[c] = tries[c]
    /\ \A c \in DOMAIN tries : (\E l \in tries[c] : Board!Recent(login[l].tick)) =>
         c \in DOMAIN Board!Swept
  BY DEF Board!Swept, Board!Restrict

\* What is left of an address are the attempts that are recent.
LEMMA BucketIsRecent ==
    ASSUME NEW c
    PROVE  /\ c \in DOMAIN tries =>
                Board!Bucket(c) = {l \in tries[c] : Board!Recent(login[l].tick)}
           /\ c \notin DOMAIN tries => Board!Bucket(c) = {}
  BY SweptKeeps DEF Board!Bucket

\* The attempts of an address that are kept are logins.
LEMMA BucketFinite ==
    ASSUME Board!TypeOK, NEW c
    PROVE  Board!Bucket(c) \subseteq Logins /\ IsFiniteSet(Board!Bucket(c))
           /\ \A l \in Board!Bucket(c) : login[l] # None
<1>1. Board!Bucket(c) \subseteq Logins /\ \A l \in Board!Bucket(c) : login[l] # None
  BY BucketIsRecent DEF Board!TypeOK
<1> QED
  BY <1>1, Sizes, FS_Subset

\* Addresses come one at a time, and only while there is room.
LEMMA TableOfAttempts ==
    ASSUME Board!TypeOK, Board!TablesBounded, NEW c \in Browsers, NEW bucket
    PROVE  /\ Cardinality(DOMAIN Board!Swept) <= MaxAddresses + 1
           /\ Board!Admitted(c) => Cardinality(DOMAIN Board!With(c, bucket)) <= MaxAddresses + 1
           /\ DOMAIN Board!With(c, bucket) = DOMAIN Board!Swept \cup {c}
           /\ \A d \in DOMAIN Board!With(c, bucket) :
                Board!With(c, bucket)[d] = IF d = c THEN bucket ELSE tries[d]
<1>1. DOMAIN tries \subseteq Browsers /\ IsFiniteSet(DOMAIN tries)
  BY Sizes, FS_Subset DEF Board!TypeOK
<1>2. /\ IsFiniteSet(DOMAIN Board!Swept)
      /\ Cardinality(DOMAIN Board!Swept) <= Cardinality(DOMAIN tries)
      /\ Cardinality(DOMAIN Board!Swept) \in Nat /\ Cardinality(DOMAIN tries) \in Nat
  BY <1>1, SweptKeeps, NoMore
<1>3. Cardinality(DOMAIN Board!Swept) <= MaxAddresses + 1
  BY <1>2, Sizes, BoardSizes DEF Board!TablesBounded
<1>4. DOMAIN Board!With(c, bucket) = DOMAIN Board!Swept \cup {c}
  BY DEF Board!With
<1>5. \A d \in DOMAIN Board!With(c, bucket) :
        Board!With(c, bucket)[d] = IF d = c THEN bucket ELSE tries[d]
  BY SweptKeeps DEF Board!With
<1>6. ASSUME Board!Admitted(c)
    PROVE Cardinality(DOMAIN Board!With(c, bucket)) <= MaxAddresses + 1
  <2>1. CASE c \in DOMAIN Board!Swept
    <3>1. DOMAIN Board!Swept \cup {c} = DOMAIN Board!Swept
      BY <2>1
    <3> QED
      BY <1>3, <1>4, <3>1
  <2>2. CASE Cardinality(DOMAIN Board!Swept) <= MaxAddresses
    <3>1. Cardinality(DOMAIN Board!Swept \cup {c}) <= Cardinality(DOMAIN Board!Swept) + 1
          /\ Cardinality(DOMAIN Board!Swept \cup {c}) \in Nat
      BY <1>2, GrowsByOne
    <3> QED
      BY <1>2, <1>4, <2>2, <3>1, Sizes
  <2> QED
    BY <1>6, <2>1, <2>2, BoardSizes DEF Board!Admitted
<1> QED
  BY <1>3, <1>4, <1>5, <1>6

-----------------------------------------------------------------------------
(* Types.                                                                  *)

\* Every step keeps the types.
LEMMA BoardTypeStep == ASSUME Board!TypeOK, Board!CachedBefore, [Board!Next]_(Board!vars)
    PROVE Board!TypeOK'
<1>1. ASSUME NEW c \in Browsers, Board!LoginRefused(c) PROVE Board!TypeOK'
  <2>1. DOMAIN Board!With(c, Board!Bucket(c)) = DOMAIN Board!Swept \cup {c}
        /\ \A d \in DOMAIN Board!With(c, Board!Bucket(c)) :
             Board!With(c, Board!Bucket(c))[d] = IF d = c THEN Board!Bucket(c) ELSE tries[d]
    BY SweptKeeps DEF Board!With
  <2>2. UNCHANGED <<clock, opened, login, named, Board!vpn>>
        /\ (tries' = Board!Swept \/ tries' = Board!With(c, Board!Bucket(c)))
    BY <1>1 DEF Board!LoginRefused
  <2>3. DOMAIN tries' \subseteq Browsers
        /\ \A d \in DOMAIN tries' : tries'[d] \subseteq {l \in Logins : login[l] # None}
    BY <2>1, <2>2, SweptKeeps, BucketFinite DEF Board!TypeOK
  <2> QED
    BY <2>2, <2>3 DEF Board!TypeOK, Board!vpn
<1>2. ASSUME NEW l \in Logins, NEW c \in Browsers, Board!LoginBegins(l, c) PROVE Board!TypeOK'
  <2> DEFINE k == [client |-> c, tick |-> clock, former |-> named[c], asking |-> TRUE,
                   counted |-> TRUE]
             bucket == Board!Bucket(c) \cup {l}
  <2>1. DOMAIN Board!With(c, bucket) = DOMAIN Board!Swept \cup {c}
        /\ \A d \in DOMAIN Board!With(c, bucket) :
             Board!With(c, bucket)[d] = IF d = c THEN bucket ELSE tries[d]
    BY SweptKeeps DEF Board!With
  <2>2. k \in Board!Login
    BY DEF Board!TypeOK, Board!Login
  <2>3. k # None
    BY <2>2, Sizes
  <2>4. /\ login' = [login EXCEPT ![l] = k] /\ tries' = Board!With(c, bucket)
        /\ UNCHANGED <<clock, opened, named, Board!vpn>>
    BY <1>2 DEF Board!LoginBegins
  <2> HIDE DEF k
  <2>5. login' \in [Logins -> Board!Login \cup {None}] /\ login'[l] = k
        /\ \A m \in Logins \ {l} : login'[m] = login[m]
    BY <2>2, <2>4 DEF Board!TypeOK
  <2>6. DOMAIN tries' \subseteq Browsers
    BY <2>1, <2>4, SweptKeeps DEF Board!TypeOK
  <2>7. \A d \in DOMAIN tries' : tries'[d] \subseteq {m \in Logins : login'[m] # None}
    <3>1. ASSUME NEW d \in DOMAIN tries', NEW m \in tries'[d]
          PROVE  m \in Logins /\ login'[m] # None
      <4>1. CASE d = c /\ m = l
        BY <2>3, <2>5, <4>1
      <4>2. CASE d = c /\ m # l
        <5>1. m \in Board!Bucket(c)
          BY <2>1, <2>4, <4>2
        <5> QED
          BY <2>5, <4>2, <5>1, BucketFinite
      <4>3. CASE d # c
        <5>1. d \in DOMAIN tries /\ m \in tries[d]
          BY <2>1, <2>4, <4>3, SweptKeeps
        <5>2. m \in Logins /\ login[m] # None
          BY <5>1 DEF Board!TypeOK
        <5> QED
          BY <2>3, <2>5, <5>2
      <4> QED
        BY <4>1, <4>2, <4>3
    <3> QED
      BY <3>1
  <2> QED
    BY <2>4, <2>5, <2>6, <2>7 DEF Board!TypeOK, Board!vpn
<1>3. ASSUME NEW l \in Logins, Board!LoginFails(l) PROVE Board!TypeOK'
  <2> DEFINE k == [login[l] EXCEPT !.asking = FALSE]
  <2>1. login[l] \in Board!Login
    BY <1>3 DEF Board!LoginFails, Board!TypeOK
  <2>2. k \in Board!Login
    BY <2>1 DEF Board!Login
  <2>3. k # None
    BY <2>2, Sizes
  <2>4. login' = [login EXCEPT ![l] = k] /\ UNCHANGED <<clock, tries, opened, named, Board!vpn>>
    BY <1>3 DEF Board!LoginFails
  <2> HIDE DEF k
  <2>5. login' \in [Logins -> Board!Login \cup {None}] /\ login'[l] # None
        /\ \A m \in Logins \ {l} : login'[m] = login[m]
    BY <2>2, <2>3, <2>4 DEF Board!TypeOK
  <2> QED
    BY <2>4, <2>5 DEF Board!TypeOK, Board!vpn
<1>4. ASSUME NEW l \in Logins, Board!LoginFindsNoRoom(l) PROVE Board!TypeOK'
  <2> DEFINE k == [login[l] EXCEPT !.asking = FALSE]
  <2>1. login[l] \in Board!Login
    BY <1>4 DEF Board!LoginFindsNoRoom, Board!TypeOK
  <2>2. k \in Board!Login
    BY <2>1 DEF Board!Login
  <2>3. k # None
    BY <2>2, Sizes
  <2>4. login' = [login EXCEPT ![l] = k] /\ UNCHANGED <<clock, tries, named, Board!vpn>>
        /\ opened' = Board!Remaining(l)
    BY <1>4 DEF Board!LoginFindsNoRoom
  <2> HIDE DEF k
  <2>5. login' \in [Logins -> Board!Login \cup {None}] /\ login'[l] # None
        /\ \A m \in Logins \ {l} : login'[m] = login[m]
    BY <2>2, <2>3, <2>4 DEF Board!TypeOK
  <2>6. Board!Remaining(l) \in [Logins -> Board!Time \cup {None}]
    BY DEF Board!Remaining, Board!TypeOK
  <2> QED
    BY <2>4, <2>5, <2>6 DEF Board!TypeOK, Board!vpn
<1>5. ASSUME NEW l \in Logins, NEW expires \in Board!Time, Board!LoginSucceeds(l, expires)
    PROVE Board!TypeOK'
  <2> DEFINE lasts == login[l].tick + Validity
             until == IF lasts < expires THEN lasts ELSE expires
  <2>1. login[l] \in Board!Login /\ login[l].client \in Browsers /\ login[l].tick \in Board!Time
    BY <1>5 DEF Board!LoginSucceeds, Board!TypeOK, Board!Login
  <2>2. /\ opened' = [Board!Remaining(l) EXCEPT ![l] = until]
        /\ tries' = [d \in DOMAIN tries |-> IF d = login[l].client THEN {} ELSE tries[d]]
        /\ login' = [m \in Logins |->
              IF m = l THEN [login[l] EXCEPT !.asking = FALSE, !.counted = FALSE]
              ELSE IF login[m] # None /\ login[m].client = login[l].client
                THEN [login[m] EXCEPT !.counted = FALSE] ELSE login[m]]
        /\ named' \in {named, [named EXCEPT ![login[l].client] = l]}
        /\ UNCHANGED <<clock, Board!vpn>>
    BY <1>5 DEF Board!LoginSucceeds
  <2>3. until \in Board!Time
    BY <2>1, Sizes DEF Board!Time
  <2> HIDE DEF until
  <2>4. opened' \in [Logins -> Board!Time \cup {None}]
    BY <2>2, <2>3 DEF Board!Remaining, Board!TypeOK
  <2>5. ASSUME NEW k \in Board!Login
        PROVE  /\ [k EXCEPT !.asking = FALSE, !.counted = FALSE] \in Board!Login
               /\ [k EXCEPT !.counted = FALSE] \in Board!Login
    BY DEF Board!Login
  <2>6. \A m \in Logins : login'[m] \in Board!Login \cup {None}
          /\ (login[m] # None => login'[m] # None)
    <3> TAKE m \in Logins
    <3>1. CASE m = l
      BY <2>1, <2>2, <2>5, <3>1, Sizes
    <3>2. CASE m # l /\ login[m] # None /\ login[m].client = login[l].client
      <4>1. login[m] \in Board!Login
        BY <3>2 DEF Board!TypeOK
      <4>2. login'[m] = [login[m] EXCEPT !.counted = FALSE]
        BY <2>2, <3>2
      <4> QED
        BY <2>5, <4>1, <4>2, Sizes
    <3>3. CASE m # l /\ ~(login[m] # None /\ login[m].client = login[l].client)
      <4>1. login'[m] = login[m]
        BY <2>2, <3>3
      <4> QED
        BY <4>1 DEF Board!TypeOK
    <3> QED
      BY <3>1, <3>2, <3>3
  <2>7. login' \in [Logins -> Board!Login \cup {None}]
    <3>1. login' = [m \in Logins |-> login'[m]]
      BY <2>2
    <3> QED
      BY <2>6, <3>1
  <2>8. DOMAIN tries' \subseteq Browsers
        /\ \A d \in DOMAIN tries' : tries'[d] \subseteq {m \in Logins : login'[m] # None}
    BY <2>2, <2>6 DEF Board!TypeOK
  <2>9. named' \in [Browsers -> Logins \cup {None}]
    BY <2>1, <2>2 DEF Board!TypeOK
  <2> QED
    BY <2>2, <2>4, <2>7, <2>8, <2>9 DEF Board!TypeOK, Board!vpn
<1>6. ASSUME NEW c \in Browsers, Board!Expired(c) \/ Board!Logout(c) PROVE Board!TypeOK'
  <2>1. opened' \in [Logins -> Board!Time \cup {None}]
          /\ named' \in [Browsers -> Logins \cup {None}]
        /\ UNCHANGED <<clock, tries, login, Board!vpn>>
    BY <1>6 DEF Board!Expired, Board!Logout, Board!TypeOK
  <2> QED
    BY <2>1 DEF Board!TypeOK, Board!vpn
<1>7. ASSUME NEW r \in Readers,
             Board!ReadBegins(r) \/ Board!AnswersCached(r) \/ Board!ReadStarts(r)
               \/ Board!ReadSucceeds(r) \/ Board!ReadFails(r)
      PROVE  Board!TypeOK'
  <2>1. /\ UNCHANGED <<clock, Board!access>> /\ ssh' \in Readers \cup {None}
        /\ cachedAt' \in Board!Time \cup {None}
    BY <1>7 DEF Board!ReadBegins, Board!AnswersCached, Board!ReadStarts, Board!ReadSucceeds,
       Board!ReadFails, Board!TypeOK
  <2>2. reader' \in [Readers -> Board!Reader]
    <3>1. 0 \in Board!Time /\ clock \in Board!Time
      BY Sizes DEF Board!Time, Board!TypeOK
    <3>2. Board!Cached => clock - cachedAt \in Board!Time
      BY Sizes DEF Board!Cached, Board!Time, Board!TypeOK, Board!CachedBefore
    <3>3. reader[r] \in Board!Reader
      BY DEF Board!TypeOK
    <3>4. ASSUME NEW k \in Board!Reader, reader' = [reader EXCEPT ![r] = k]
        PROVE reader' \in [Readers -> Board!Reader]
      BY <3>4 DEF Board!TypeOK
    <3>5. CASE Board!ReadBegins(r)
      <4> DEFINE k == [reader[r] EXCEPT !.phase = "waiting"]
      <4>1. k \in Board!Reader
        BY <3>3 DEF Board!Reader
      <4>2. reader' = [reader EXCEPT ![r] = k]
        BY <3>5 DEF Board!ReadBegins
      <4> HIDE DEF k
      <4> QED
        BY <3>4, <4>1, <4>2
    <3>6. CASE Board!AnswersCached(r)
      <4> DEFINE k == [reader[r] EXCEPT !.phase = "answered", !.age = clock - cachedAt]
      <4>1. k \in Board!Reader
        BY <3>2, <3>3, <3>6 DEF Board!Reader, Board!AnswersCached
      <4>2. reader' = [reader EXCEPT ![r] = k]
        BY <3>6 DEF Board!AnswersCached
      <4> HIDE DEF k
      <4> QED
        BY <3>4, <4>1, <4>2
    <3>7. CASE Board!ReadStarts(r)
      <4> DEFINE k == [reader[r] EXCEPT !.phase = "reading", !.since = clock]
      <4>1. k \in Board!Reader
        BY <3>1, <3>3 DEF Board!Reader
      <4>2. reader' = [reader EXCEPT ![r] = k]
        BY <3>7 DEF Board!ReadStarts
      <4> HIDE DEF k
      <4> QED
        BY <3>4, <4>1, <4>2
    <3>8. CASE Board!ReadSucceeds(r)
      <4> DEFINE k == [reader[r] EXCEPT !.phase = "answered", !.age = 0]
      <4>1. k \in Board!Reader
        BY <3>1, <3>3 DEF Board!Reader
      <4>2. reader' = [reader EXCEPT ![r] = k]
        BY <3>8 DEF Board!ReadSucceeds
      <4> HIDE DEF k
      <4> QED
        BY <3>4, <4>1, <4>2
    <3>9. CASE Board!ReadFails(r)
      <4> DEFINE k == [reader[r] EXCEPT !.phase = "failed"]
      <4>1. k \in Board!Reader
        BY <3>3 DEF Board!Reader
      <4>2. reader' = [reader EXCEPT ![r] = k]
        BY <3>9 DEF Board!ReadFails
      <4> HIDE DEF k
      <4> QED
        BY <3>4, <4>1, <4>2
    <3> QED
      BY <1>7, <3>5, <3>6, <3>7, <3>8, <3>9
  <2> QED
    BY <2>1, <2>2 DEF Board!TypeOK, Board!access
<1>8. CASE Board!Tick
  <2>1. clock' \in Board!Time /\ UNCHANGED <<Board!access, Board!vpn>>
    BY <1>8, Sizes DEF Board!Tick, Board!Time, Board!TypeOK
  <2> QED
    BY <2>1 DEF Board!TypeOK, Board!access, Board!vpn
<1>9. CASE UNCHANGED Board!vars
  BY <1>9 DEF Board!vars, Board!TypeOK
<1> QED
  BY <1>1, <1>2, <1>3, <1>4, <1>5, <1>6, <1>7, <1>8, <1>9 DEF Board!Next

-----------------------------------------------------------------------------
(* Board!Attempts that count.                                                    *)

\* What is claimed of the attempts.
Throttled == Board!CountedAreKept /\ Board!BucketsBounded

\* Fewer attempts count, and none more is in the table.
LEMMA FewerAttempts ==
    ASSUME Board!TypeOK, Throttled,
           \A c \in Browsers : Board!Attempts(c)' \subseteq Board!Attempts(c),
           DOMAIN tries' \subseteq DOMAIN tries,
           \A c \in DOMAIN tries' :
              /\ tries'[c] \subseteq tries[c]
              /\ \A l \in tries'[c] : Board!Recent(login[l].tick)' =>
                   Board!Recent(login[l].tick),
           \A c \in Browsers : \A l \in Board!Attempts(c)' : c \in DOMAIN tries'
             /\ l \in tries'[c]
    PROVE  Throttled'
<1>1. Board!CountedAreKept'
  BY DEF Board!CountedAreKept
<1>2. ASSUME NEW c \in DOMAIN tries'
      PROVE  Cardinality({l \in tries'[c] : Board!Recent(login[l].tick)'}) <= MaxAttempts
  <2>1. c \in DOMAIN tries /\ tries[c] \subseteq Logins
    BY <1>2 DEF Board!TypeOK
  <2> DEFINE before == {l \in tries[c] : Board!Recent(login[l].tick)}
             after == {l \in tries'[c] : Board!Recent(login[l].tick)'}
  <2>2. after \subseteq before /\ before \subseteq Logins
    BY <1>2, <2>1
  <2>3. Cardinality(before) <= MaxAttempts
    BY <2>1, BoardSizes DEF Throttled, Board!BucketsBounded
  <2> HIDE DEF before, after
  <2>4. Cardinality(after) <= Cardinality(before) /\ Cardinality(after) \in Nat
        /\ Cardinality(before) \in Nat
    BY <2>2, Sizes, NoMore
  <2>5. Cardinality(after) <= MaxAttempts
    BY <2>3, <2>4, Sizes
  <2> QED
    BY <2>5 DEF after
<1>3. Board!BucketsBounded'
  BY <1>2, BoardSizes DEF Board!BucketsBounded
<1> QED
  BY <1>1, <1>3 DEF Throttled

\* The attempts that count are in the table, and recent.
LEMMA AttemptsInTable ==
    ASSUME Board!TypeOK, Throttled, NEW c \in Browsers, NEW l \in Board!Attempts(c)
    PROVE  /\ l \in Logins /\ login[l] # None /\ login[l].client = c /\ login[l].counted
           /\ Board!Recent(login[l].tick) /\ c \in DOMAIN tries /\ l \in tries[c]
           /\ c \in DOMAIN Board!Swept /\ l \in Board!Bucket(c)
<1>1. /\ l \in Logins /\ login[l] # None /\ login[l].client = c /\ login[l].counted
      /\ Board!Recent(login[l].tick)
  BY DEF Board!Attempts
<1>2. c \in DOMAIN tries /\ l \in tries[c]
  BY DEF Throttled, Board!CountedAreKept
<1>3. c \in DOMAIN Board!Swept /\ l \in Board!Bucket(c)
  BY <1>1, <1>2, SweptKeeps, BucketIsRecent
<1> QED
  BY <1>1, <1>2, <1>3

\* Every step keeps it.
LEMMA ThrottleStep == ASSUME Board!TypeOK, Throttled, [Board!Next]_(Board!vars) PROVE Throttled'
<1>1. ASSUME NEW c \in Browsers, Board!LoginRefused(c) PROVE Throttled'
  <2>1. DOMAIN Board!With(c, Board!Bucket(c)) = DOMAIN Board!Swept \cup {c}
        /\ \A d \in DOMAIN Board!With(c, Board!Bucket(c)) :
             Board!With(c, Board!Bucket(c))[d] = IF d = c THEN Board!Bucket(c) ELSE tries[d]
    BY SweptKeeps DEF Board!With
  <2>2. clock' = clock /\ login' = login
        /\ (tries' = Board!Swept \/ tries' = Board!With(c, Board!Bucket(c)))
    BY <1>1 DEF Board!LoginRefused
  <2>3. \A d \in Browsers : Board!Attempts(d)' = Board!Attempts(d)
    BY <2>2 DEF Board!Attempts, Board!Recent
  <2>4. CASE tries' = Board!Swept
    <3>1. Throttled'
      <4>1. DOMAIN tries' \subseteq DOMAIN tries
            /\ \A d \in DOMAIN tries' : tries'[d] \subseteq tries[d]
               /\ \A l \in tries'[d] : Board!Recent(login[l].tick)' =>
                    Board!Recent(login[l].tick)
        BY <2>2, <2>4, SweptKeeps DEF Board!Recent
      <4>2. \A d \in Browsers : \A l \in Board!Attempts(d)' : d \in DOMAIN tries'
              /\ l \in tries'[d]
        BY <2>3, <2>4, AttemptsInTable, SweptKeeps
      <4> QED
        BY <2>3, <4>1, <4>2, FewerAttempts
    <3> QED
      BY <3>1
  <2>5. CASE tries' = Board!With(c, Board!Bucket(c))
    <3>1. \A d \in Browsers : \A l \in Board!Attempts(d)' : d \in DOMAIN tries'
            /\ l \in tries'[d]
      <4>1. ASSUME NEW d \in Browsers, NEW l \in Board!Attempts(d)
            PROVE  d \in DOMAIN tries' /\ l \in tries'[d]
        <5>1. d \in DOMAIN Board!Swept /\ l \in Board!Bucket(d) /\ l \in tries[d]
          BY AttemptsInTable
        <5> QED
          BY <2>1, <2>5, <5>1
      <4> QED
        BY <2>3, <4>1
    <3>2. Board!CountedAreKept'
      BY <3>1 DEF Board!CountedAreKept
    <3>3. ASSUME NEW d \in DOMAIN tries'
          PROVE  Cardinality({l \in tries'[d] : Board!Recent(login[l].tick)'}) <= MaxAttempts
      <4>1. CASE d \in DOMAIN tries
        <5>1. tries'[d] \subseteq tries[d]
              /\ {l \in tries'[d] : Board!Recent(login[l].tick)'} =
                   {l \in tries[d] : Board!Recent(login[l].tick)}
          BY <2>1, <2>2, <2>5, <4>1, BucketIsRecent DEF Board!Recent
        <5> QED
          BY <4>1, <5>1, BoardSizes DEF Throttled, Board!BucketsBounded
      <4>2. CASE d \notin DOMAIN tries
        <5>1. d = c /\ tries'[d] = {}
          BY <2>1, <2>5, <4>2, SweptKeeps, BucketIsRecent
        <5>2. {l \in tries'[d] : Board!Recent(login[l].tick)'} = {}
          BY <5>1
        <5>3. Cardinality({}) = 0
          BY FS_EmptySet
        <5> QED
          BY <5>2, <5>3, Sizes
      <4> QED
        BY <4>1, <4>2
    <3>4. Board!BucketsBounded'
      BY <3>3, BoardSizes DEF Board!BucketsBounded
    <3> QED
      BY <3>2, <3>4 DEF Throttled
  <2> QED
    BY <2>2, <2>4, <2>5
<1>2. ASSUME NEW l \in Logins, NEW c \in Browsers, Board!LoginBegins(l, c) PROVE Throttled'
  <2> DEFINE k == [client |-> c, tick |-> clock, former |-> named[c], asking |-> TRUE,
                   counted |-> TRUE]
             bucket == Board!Bucket(c) \cup {l}
  <2>1. DOMAIN Board!With(c, bucket) = DOMAIN Board!Swept \cup {c}
        /\ \A d \in DOMAIN Board!With(c, bucket) :
             Board!With(c, bucket)[d] = IF d = c THEN bucket ELSE tries[d]
    BY SweptKeeps DEF Board!With
  <2>2. k.client = c /\ k.tick = clock
    OBVIOUS
  <2>3. /\ login' = [login EXCEPT ![l] = k] /\ tries' = Board!With(c, bucket)
        /\ clock' = clock /\ login[l] = None /\ Cardinality(Board!Bucket(c)) < MaxAttempts
    BY <1>2, BoardSizes DEF Board!LoginBegins
  <2> HIDE DEF k
  <2>4. login'[l] = k /\ \A m \in Logins \ {l} : login'[m] = login[m]
    BY <2>3 DEF Board!TypeOK
  <2>5. ASSUME NEW d \in Browsers, NEW m \in Board!Attempts(d)'
        PROVE  d \in DOMAIN tries' /\ m \in tries'[d]
    <3>0. m \in Logins /\ login'[m].client = d
      BY DEF Board!Attempts
    <3>1. CASE m = l
      <4>1. d = c
        BY <2>2, <2>4, <3>0, <3>1
      <4> QED
        BY <2>1, <2>3, <3>1, <4>1
    <3>2. CASE m # l
      <4>1. m \in Board!Attempts(d)
        BY <2>3, <2>4, <3>0, <3>2 DEF Board!Attempts, Board!Recent
      <4>2. d \in DOMAIN Board!Swept /\ m \in Board!Bucket(d) /\ m \in tries[d]
        BY <4>1, AttemptsInTable
      <4> QED
        BY <2>1, <2>3, <4>2
    <3> QED
      BY <3>1, <3>2
  <2>6. ASSUME NEW d \in DOMAIN tries'
        PROVE  Cardinality({m \in tries'[d] : Board!Recent(login[m].tick)'}) <= MaxAttempts
    <3>1. CASE d = c
      <4>1. {m \in tries'[d] : Board!Recent(login[m].tick)'} \subseteq Board!Bucket(c) \cup {l}
        BY <2>1, <2>3, <3>1
      <4> DEFINE after == {m \in tries'[d] : Board!Recent(login[m].tick)'}
      <4> HIDE DEF after
      <4>2. after \subseteq Board!Bucket(c) \cup {l}
        BY <4>1 DEF after
      <4>3. Cardinality(after) <= Cardinality(Board!Bucket(c)) + 1 /\ Cardinality(after) \in Nat
            /\ Cardinality(Board!Bucket(c)) \in Nat
        BY <4>2, BucketFinite, GrowsByOne
      <4>4. Cardinality(after) <= MaxAttempts
        BY <2>3, <4>3, Sizes
      <4> QED
        BY <4>4 DEF after
    <3>2. CASE d # c
      <4>1. d \in DOMAIN tries /\ tries'[d] = tries[d]
        BY <2>1, <2>3, <3>2, SweptKeeps
      <4>2. \A m \in tries[d] : m \in Logins /\ login[m] # None
        BY <4>1 DEF Board!TypeOK
      <4>3. {m \in tries'[d] : Board!Recent(login[m].tick)'} =
              {m \in tries[d] : Board!Recent(login[m].tick)}
        <5>1. \A m \in tries[d] : login'[m] = login[m]
          BY <2>3, <2>4, <4>2
        <5>2. \A m \in tries[d] : Board!Recent(login[m].tick)' <=> Board!Recent(login[m].tick)
          BY <2>3, <5>1 DEF Board!Recent
        <5> QED
          BY <4>1, <5>2
      <4> QED
        BY <4>1, <4>3, BoardSizes DEF Throttled, Board!BucketsBounded
    <3> QED
      BY <3>1, <3>2
  <2>7. Board!CountedAreKept' /\ Board!BucketsBounded'
    BY <2>5, <2>6, BoardSizes DEF Board!CountedAreKept, Board!BucketsBounded
  <2> QED
    BY <2>7 DEF Throttled
<1>20. ASSUME clock' = clock, tries' = tries,
              \A m \in Logins : login[m] # None =>
                 /\ login'[m].client = login[m].client /\ login'[m].tick = login[m].tick
                 /\ login'[m].counted = login[m].counted,
              \A m \in Logins : login[m] = None => login'[m] = None
       PROVE  Throttled'
  <2>1. \A d \in Browsers : Board!Attempts(d)' \subseteq Board!Attempts(d)
    BY <1>20 DEF Board!Attempts, Board!Recent
  <2>2. \A d \in DOMAIN tries : \A m \in tries[d] : m \in Logins /\ login[m] # None
    BY DEF Board!TypeOK
  <2>3. \A d \in DOMAIN tries' : /\ tries'[d] \subseteq tries[d]
            /\ \A m \in tries'[d] : Board!Recent(login[m].tick)' => Board!Recent(login[m].tick)
    BY <1>20, <2>2 DEF Board!Recent
  <2>4. \A d \in Browsers : \A m \in Board!Attempts(d)' : d \in DOMAIN tries' /\ m \in tries'[d]
    BY <1>20, <2>1, AttemptsInTable
  <2> QED
    BY <1>20, <2>1, <2>3, <2>4, FewerAttempts
<1>3. ASSUME NEW l \in Logins, Board!LoginFails(l) \/ Board!LoginFindsNoRoom(l) PROVE Throttled'
  <2>1. login[l] \in Board!Login /\ login' = [login EXCEPT ![l].asking = FALSE]
        /\ clock' = clock /\ tries' = tries /\ login[l] # None
    BY <1>3 DEF Board!LoginFails, Board!LoginFindsNoRoom, Board!TypeOK
  <2>2. \A m \in Logins : login[m] # None =>
           /\ login'[m].client = login[m].client /\ login'[m].tick = login[m].tick
           /\ login'[m].counted = login[m].counted
    BY <2>1 DEF Board!TypeOK, Board!Login
  <2>3. \A m \in Logins : login[m] = None => login'[m] = None
    BY <2>1 DEF Board!TypeOK
  <2> QED
    BY <1>20, <2>1, <2>2, <2>3
<1>4. ASSUME NEW l \in Logins, NEW expires \in Board!Time, Board!LoginSucceeds(l, expires)
    PROVE Throttled'
  <2> DEFINE c == login[l].client
  <2>1. login[l] \in Board!Login /\ login[l] # None /\ clock' = clock
        /\ tries' = [d \in DOMAIN tries |-> IF d = c THEN {} ELSE tries[d]]
        /\ login' = [m \in Logins |->
              IF m = l THEN [login[l] EXCEPT !.asking = FALSE, !.counted = FALSE]
              ELSE IF login[m] # None /\ login[m].client = c
                THEN [login[m] EXCEPT !.counted = FALSE] ELSE login[m]]
    BY <1>4 DEF Board!LoginSucceeds, Board!TypeOK
  <2>2. ASSUME NEW m \in Logins, login[m] # None
        PROVE  /\ login'[m].client = login[m].client /\ login'[m].tick = login[m].tick
               /\ login[m].client = c => login'[m].counted = FALSE
               /\ login[m].client # c => login'[m] = login[m]
    <3>1. login[m] \in Board!Login
      BY <2>2 DEF Board!TypeOK
    <3>2. ASSUME NEW k \in Board!Login
          PROVE  /\ [k EXCEPT !.asking = FALSE, !.counted = FALSE].client = k.client
                 /\ [k EXCEPT !.asking = FALSE, !.counted = FALSE].tick = k.tick
                 /\ [k EXCEPT !.asking = FALSE, !.counted = FALSE].counted = FALSE
                 /\ [k EXCEPT !.counted = FALSE].client = k.client
                 /\ [k EXCEPT !.counted = FALSE].tick = k.tick
                 /\ [k EXCEPT !.counted = FALSE].counted = FALSE
      BY DEF Board!Login
    <3>3. CASE m = l
      BY <2>1, <3>2, <3>3
    <3>4. CASE m # l /\ login[m].client = c
      <4>1. login'[m] = [login[m] EXCEPT !.counted = FALSE]
        BY <2>1, <2>2, <3>4
      <4> QED
        BY <3>1, <3>2, <3>4, <4>1
    <3>5. CASE m # l /\ login[m].client # c
      BY <2>1, <3>5
    <3> QED
      BY <3>3, <3>4, <3>5
  <2>3. \A m \in Logins : login[m] = None => login'[m] = None
    BY <2>1
  <2> HIDE DEF c
  <2>4. \A d \in Browsers : \A m \in Board!Attempts(d)' : d # c /\ m \in Board!Attempts(d)
    BY <2>1, <2>2, <2>3 DEF Board!Attempts, Board!Recent
  <2>5. /\ DOMAIN tries' = DOMAIN tries
        /\ \A d \in DOMAIN tries' : tries'[d] \subseteq tries[d]
        /\ \A d \in DOMAIN tries' : d # c => tries'[d] = tries[d]
    BY <2>1
  <2>6. \A d \in DOMAIN tries : \A m \in tries[d] : m \in Logins /\ login[m] # None
    BY DEF Board!TypeOK
  <2>7. ASSUME NEW d \in DOMAIN tries', NEW m \in tries'[d]
        PROVE  Board!Recent(login[m].tick)' => Board!Recent(login[m].tick)
    <3>1. m \in Logins /\ login[m] # None
      BY <2>5, <2>6, <2>7
    <3>2. login'[m].tick = login[m].tick
      BY <2>2, <3>1
    <3> QED
      BY <2>1, <3>2 DEF Board!Recent
  <2>8. \A d \in Browsers : \A m \in Board!Attempts(d)' : d \in DOMAIN tries' /\ m \in tries'[d]
    BY <2>4, <2>5, AttemptsInTable
  <2> QED
    BY <2>4, <2>5, <2>7, <2>8, FewerAttempts
<1>5. ASSUME NEW c \in Browsers, Board!Expired(c) \/ Board!Logout(c) PROVE Throttled'
  BY <1>5, <1>20 DEF Board!Expired, Board!Logout
<1>6. ASSUME UNCHANGED <<clock, Board!access>> PROVE Throttled'
  BY <1>6, <1>20 DEF Board!access
<1>7. ASSUME NEW r \in Readers,
             Board!ReadBegins(r) \/ Board!AnswersCached(r) \/ Board!ReadStarts(r)
               \/ Board!ReadSucceeds(r) \/ Board!ReadFails(r)
      PROVE  Throttled'
  BY <1>6, <1>7 DEF Board!ReadBegins, Board!AnswersCached, Board!ReadStarts, Board!ReadSucceeds,
     Board!ReadFails
<1>8. CASE Board!Tick
  <2>1. clock' = clock + 1 /\ tries' = tries /\ login' = login /\ clock \in Nat
    BY <1>8, Sizes DEF Board!Tick, Board!access, Board!TypeOK
  <2>2. \A m \in Logins : login[m] # None => login[m].tick \in Nat
    BY Sizes DEF Board!TypeOK, Board!Login
  <2>3. \A m \in Logins : login[m] # None
          /\ Board!Recent(login[m].tick)' => Board!Recent(login[m].tick)
    BY <2>1, <2>2, Sizes DEF Board!Recent
  <2>4. \A d \in Browsers : Board!Attempts(d)' \subseteq Board!Attempts(d)
    BY <2>1, <2>3 DEF Board!Attempts
  <2>5. \A d \in DOMAIN tries' : /\ tries'[d] \subseteq tries[d]
            /\ \A m \in tries'[d] : Board!Recent(login[m].tick)' => Board!Recent(login[m].tick)
    BY <2>1, <2>3 DEF Board!TypeOK
  <2>6. \A d \in Browsers : \A m \in Board!Attempts(d)' : d \in DOMAIN tries' /\ m \in tries'[d]
    BY <2>1, <2>4, AttemptsInTable
  <2> QED
    BY <2>1, <2>4, <2>5, <2>6, FewerAttempts
<1>9. CASE UNCHANGED Board!vars
  BY <1>6, <1>9 DEF Board!vars, Board!access
<1> QED
  BY <1>1, <1>2, <1>3, <1>4, <1>5, <1>7, <1>8, <1>9 DEF Board!Next

-----------------------------------------------------------------------------
(* The tables, and what readers are shown.                                 *)

\* The rows of a table in use.
Open(table) == {m \in Logins : table[m] # None}

\* They are finitely many.
LEMMA OpenFinite == \A table : IsFiniteSet(Open(table)) /\ Cardinality(Open(table)) \in Nat
<1> TAKE table
<1>1. Open(table) \subseteq Logins
  BY DEF Open
<1> QED
  BY <1>1, Sizes, FS_Subset, FS_CardinalityType

\* Fewer sessions, in a table of attempts that is within its limit.
LEMMA FewerSessions ==
    ASSUME Board!TablesBounded, Open(opened') \subseteq Open(opened),
           Cardinality(DOMAIN tries') <= MaxAddresses + 1
    PROVE  Board!TablesBounded'
<1>1. Cardinality(Open(opened')) <= Cardinality(Open(opened))
  BY OpenFinite, FS_Subset
<1>2. Cardinality(Open(opened)) <= MaxOpened
  BY BoardSizes DEF Board!TablesBounded, Open
<1>3. Cardinality(Open(opened')) <= MaxOpened
  BY <1>1, <1>2, OpenFinite, Sizes
<1> QED
  BY <1>3, BoardSizes DEF Board!TablesBounded, Open

\* Every step keeps the tables bounded.
LEMMA TablesStep == ASSUME Board!TypeOK, Board!TablesBounded, [Board!Next]_(Board!vars)
    PROVE Board!TablesBounded'
<1>0. Cardinality(DOMAIN tries) <= MaxAddresses + 1
  BY BoardSizes DEF Board!TablesBounded
<1>1. ASSUME NEW c \in Browsers, Board!LoginRefused(c) PROVE Board!TablesBounded'
  <2>1. opened' = opened
        /\ ((tries' = Board!Swept)
             \/ (Board!Admitted(c) /\ tries' = Board!With(c, Board!Bucket(c))))
    BY <1>1 DEF Board!LoginRefused
  <2>2. Cardinality(DOMAIN tries') <= MaxAddresses + 1
    BY <2>1, TableOfAttempts
  <2> QED
    BY <2>1, <2>2, FewerSessions
<1>2. ASSUME NEW l \in Logins, NEW c \in Browsers, Board!LoginBegins(l, c)
    PROVE Board!TablesBounded'
  <2>1. opened' = opened /\ Board!Admitted(c)
          /\ tries' = Board!With(c, Board!Bucket(c) \cup {l})
    BY <1>2 DEF Board!LoginBegins
  <2>2. Cardinality(DOMAIN tries') <= MaxAddresses + 1
    BY <2>1, TableOfAttempts
  <2> QED
    BY <2>1, <2>2, FewerSessions
<1>3. ASSUME NEW l \in Logins, Board!LoginFails(l) PROVE Board!TablesBounded'
  BY <1>0, <1>3, FewerSessions DEF Board!LoginFails
<1>30. ASSUME NEW l \in Logins PROVE Open(Board!Remaining(l)) \subseteq Open(opened)
  BY DEF Open, Board!Remaining
<1>4. ASSUME NEW l \in Logins, Board!LoginFindsNoRoom(l) PROVE Board!TablesBounded'
  BY <1>0, <1>4, <1>30, FewerSessions DEF Board!LoginFindsNoRoom
<1>5. ASSUME NEW l \in Logins, NEW expires \in Board!Time, Board!LoginSucceeds(l, expires)
    PROVE Board!TablesBounded'
  <2>1. /\ \E t : opened' = [Board!Remaining(l) EXCEPT ![l] = t]
        /\ DOMAIN tries' = DOMAIN tries /\ Board!HasRoom(Board!Remaining(l))
    BY <1>5 DEF Board!LoginSucceeds
  <2>2. Cardinality(Open(Board!Remaining(l))) < MaxOpened
    BY <2>1, BoardSizes DEF Board!HasRoom, Open
  <2>3. Open(opened') \subseteq Open(Board!Remaining(l)) \cup {l}
    BY <2>1 DEF Open, Board!Remaining
  <2>4. Cardinality(Open(opened')) <= Cardinality(Open(Board!Remaining(l))) + 1
    BY <2>3, OpenFinite, GrowsByOne
  <2>5. Cardinality(Open(opened')) <= MaxOpened
    BY <2>2, <2>4, OpenFinite, Sizes
  <2> QED
    BY <1>0, <2>1, <2>5, BoardSizes DEF Board!TablesBounded, Open
<1>6. ASSUME NEW c \in Browsers, Board!Expired(c) \/ Board!Logout(c) PROVE Board!TablesBounded'
  <2>1. tries' = tries /\ Open(opened') \subseteq Open(opened)
    BY <1>6 DEF Board!Expired, Board!Logout, Open, Board!TypeOK
  <2> QED
    BY <1>0, <2>1, FewerSessions
<1>7. ASSUME UNCHANGED Board!access PROVE Board!TablesBounded'
  BY <1>7 DEF Board!access, Board!TablesBounded
<1> QED
  BY <1>1, <1>2, <1>3, <1>4, <1>5, <1>6, <1>7
  DEF Board!Next, Board!ReadBegins, Board!AnswersCached, Board!ReadStarts, Board!ReadSucceeds,
  Board!ReadFails, Board!Tick, Board!vars, Board!access

\* What is claimed of the cache and of what readers are shown.
Shown == Board!CachedBefore /\ Board!ReadingsAreFresh

\* Every step keeps it.
LEMMA ShownStep == ASSUME Board!TypeOK, Shown, [Board!Next]_(Board!vars) PROVE Shown'
<1>0. clock \in Nat /\ (cachedAt # None => cachedAt \in Nat)
  BY Sizes DEF Board!TypeOK
<1>1. ASSUME clock' = clock, UNCHANGED Board!vpn PROVE Shown'
  BY <1>1 DEF Board!vpn, Shown, Board!CachedBefore, Board!ReadingsAreFresh
<1>2. CASE Board!Tick
  <2>1. clock' = clock + 1 /\ UNCHANGED Board!vpn
    BY <1>2 DEF Board!Tick
  <2> QED
    BY <1>0, <2>1 DEF Board!vpn, Shown, Board!CachedBefore, Board!ReadingsAreFresh
<1>3. ASSUME NEW r \in Readers, NEW k, reader' = [reader EXCEPT ![r] = k],
             k.phase = "answered" => k.age <= Fresh
      PROVE  Board!ReadingsAreFresh'
  BY <1>3 DEF Board!TypeOK, Shown, Board!ReadingsAreFresh
<1>4. ASSUME NEW r \in Readers, Board!ReadBegins(r) PROVE Shown'
  <2> DEFINE k == [reader[r] EXCEPT !.phase = "waiting"]
  <2>1. k.phase = "waiting"
    BY DEF Board!TypeOK, Board!Reader
  <2>2. reader' = [reader EXCEPT ![r] = k] /\ clock' = clock /\ cachedAt' = cachedAt
    BY <1>4 DEF Board!ReadBegins
  <2> HIDE DEF k
  <2> QED
    BY <1>3, <2>1, <2>2 DEF Shown, Board!CachedBefore
<1>5. ASSUME NEW r \in Readers, Board!AnswersCached(r) PROVE Shown'
  <2> DEFINE k == [reader[r] EXCEPT !.phase = "answered", !.age = clock - cachedAt]
  <2>1. k.age = clock - cachedAt /\ clock - cachedAt <= Fresh
    BY <1>5 DEF Board!TypeOK, Board!Reader, Board!AnswersCached, Board!Cached
  <2>2. reader' = [reader EXCEPT ![r] = k] /\ clock' = clock /\ cachedAt' = cachedAt
    BY <1>5 DEF Board!AnswersCached
  <2> HIDE DEF k
  <2> QED
    BY <1>3, <2>1, <2>2 DEF Shown, Board!CachedBefore
<1>6. ASSUME NEW r \in Readers, Board!ReadStarts(r) PROVE Shown'
  <2> DEFINE k == [reader[r] EXCEPT !.phase = "reading", !.since = clock]
  <2>1. k.phase = "reading"
    BY DEF Board!TypeOK, Board!Reader
  <2>2. reader' = [reader EXCEPT ![r] = k] /\ clock' = clock /\ cachedAt' = cachedAt
    BY <1>6 DEF Board!ReadStarts
  <2> HIDE DEF k
  <2> QED
    BY <1>3, <2>1, <2>2 DEF Shown, Board!CachedBefore
<1>7. ASSUME NEW r \in Readers, Board!ReadSucceeds(r) PROVE Shown'
  <2> DEFINE k == [reader[r] EXCEPT !.phase = "answered", !.age = 0]
  <2>1. k.age = 0
    BY DEF Board!TypeOK, Board!Reader
  <2>2. reader' = [reader EXCEPT ![r] = k] /\ clock' = clock /\ cachedAt' = clock
    BY <1>7 DEF Board!ReadSucceeds
  <2> HIDE DEF k
  <2>3. k.age <= Fresh
    BY <2>1, Sizes
  <2> QED
    <3>1. Board!ReadingsAreFresh'
      BY <1>3, <2>2, <2>3
    <3>2. Board!CachedBefore'
      BY <1>0, <2>2 DEF Board!CachedBefore
    <3> QED
      BY <3>1, <3>2 DEF Shown
<1>8. ASSUME NEW r \in Readers, Board!ReadFails(r) PROVE Shown'
  <2> DEFINE k == [reader[r] EXCEPT !.phase = "failed"]
  <2>1. k.phase = "failed"
    BY DEF Board!TypeOK, Board!Reader
  <2>2. reader' = [reader EXCEPT ![r] = k] /\ clock' = clock /\ cachedAt' = cachedAt
    BY <1>8 DEF Board!ReadFails
  <2> HIDE DEF k
  <2> QED
    BY <1>3, <2>1, <2>2 DEF Shown, Board!CachedBefore
<1>9. CASE UNCHANGED Board!vars
  BY <1>1, <1>9 DEF Board!vars, Board!vpn
<1>10. ASSUME NEW c \in Browsers, Board!LoginRefused(c) \/ Board!Expired(c) \/ Board!Logout(c)
    PROVE Shown'
  BY <1>1, <1>10 DEF Board!LoginRefused, Board!Expired, Board!Logout
<1>11. ASSUME NEW l \in Logins, NEW c \in Browsers, Board!LoginBegins(l, c) PROVE Shown'
  BY <1>1, <1>11 DEF Board!LoginBegins
<1>12. ASSUME NEW l \in Logins, Board!LoginFails(l) \/ Board!LoginFindsNoRoom(l) PROVE Shown'
  BY <1>1, <1>12 DEF Board!LoginFails, Board!LoginFindsNoRoom
<1>13. ASSUME NEW l \in Logins, NEW expires \in Board!Time, Board!LoginSucceeds(l, expires)
    PROVE Shown'
  BY <1>1, <1>13 DEF Board!LoginSucceeds
<1> QED
  BY <1>2, <1>4, <1>5, <1>6, <1>7, <1>8, <1>9, <1>10, <1>11, <1>12, <1>13 DEF Board!Next

\* The invariant is kept by every step.
LEMMA BoardInvStep == ASSUME Board!IInv, [Board!Next]_(Board!vars) PROVE Board!IInv'
<1>1. Board!TypeOK /\ Throttled /\ Board!TablesBounded /\ Shown
  BY DEF Board!IInv, Throttled, Shown
<1>2. Board!TypeOK'
  BY <1>1, BoardTypeStep DEF Shown
<1>3. Throttled' /\ Board!TablesBounded' /\ Shown'
  BY <1>1, ThrottleStep, TablesStep, ShownStep
<1> QED
  BY <1>2, <1>3 DEF Board!IInv, Throttled, Shown

\* At first nobody has tried and nothing is cached.
LEMMA BoardInvInit == Board!Init => Board!IInv
<1> SUFFICES ASSUME Board!Init PROVE Board!IInv
  OBVIOUS
<1>1. tries = [c \in {} |-> {}] /\ DOMAIN tries = {}
  BY DEF Board!Init
<1>2. Board!TypeOK
  <2>1. 0 \in Board!Time
    BY Sizes DEF Board!Time
  <2>2. [phase |-> "new", since |-> 0, age |-> 0] \in Board!Reader
    BY <2>1 DEF Board!Reader
  <2> QED
    BY <1>1, <2>1, <2>2 DEF Board!Init, Board!TypeOK
<1>3. Board!CountedAreKept /\ Board!BucketsBounded
  BY <1>1 DEF Board!Init, Board!CountedAreKept, Board!Attempts, Board!BucketsBounded
<1>4. Board!TablesBounded
  <2>1. {l \in Logins : opened[l] # None} = {}
    BY DEF Board!Init
  <2>2. Cardinality({}) = 0
    BY FS_EmptySet
  <2> QED
    <3>1. Cardinality(DOMAIN tries) = 0
      BY <1>1, <2>2
    <3>2. Cardinality({l \in Logins : opened[l] # None}) = 0
      BY <2>1, <2>2
    <3>3. 0 <= MaxAddresses + 1 /\ 0 <= MaxOpened
      BY Sizes
    <3> QED
      BY <3>1, <3>2, <3>3, BoardSizes DEF Board!TablesBounded
<1>5. Board!CachedBefore /\ Board!ReadingsAreFresh
  BY Sizes DEF Board!Init, Board!CachedBefore, Board!ReadingsAreFresh
<1> QED
  BY <1>2, <1>3, <1>4, <1>5 DEF Board!IInv

\* It says what is promised of the dashboard.
LEMMA BoardInvEnough == Board!IInv => Board!TypeOK /\ Board!LoginsThrottled
                          /\ Board!TablesBounded /\ Board!ReadingsAreFresh
<1> SUFFICES ASSUME Board!IInv PROVE Board!LoginsThrottled
  BY DEF Board!IInv
<1> SUFFICES ASSUME NEW c \in Browsers PROVE Cardinality(Board!Attempts(c)) <= MaxAttempts
  BY BoardSizes DEF Board!LoginsThrottled
<1>0. Board!TypeOK /\ Throttled
  BY DEF Board!IInv, Throttled
<1>1. CASE Board!Attempts(c) = {}
  <2>1. Cardinality({}) = 0
    BY FS_EmptySet
  <2> QED
    BY <1>1, <2>1, Sizes
<1>2. CASE Board!Attempts(c) # {}
  <2>1. c \in DOMAIN tries
    BY <1>0, <1>2, AttemptsInTable
  <2> DEFINE recent == {l \in tries[c] : Board!Recent(login[l].tick)}
  <2>2. Board!Attempts(c) \subseteq recent
    BY <1>0, AttemptsInTable
  <2>3. recent \subseteq Logins /\ Cardinality(recent) <= MaxAttempts
    BY <1>0, <2>1, BoardSizes DEF Board!TypeOK, Throttled, Board!BucketsBounded
  <2> HIDE DEF recent
  <2>4. IsFiniteSet(recent)
    BY <2>3, Sizes, FS_Subset
  <2>5. Cardinality(Board!Attempts(c)) <= Cardinality(recent)
          /\ Cardinality(Board!Attempts(c)) \in Nat
        /\ Cardinality(recent) \in Nat
    BY <2>2, <2>4, NoMore
  <2> QED
    BY <2>3, <2>5, Sizes
<1> QED
  BY <1>1, <1>2

\* The invariant of the dashboard holds for ever.
LEMMA BoardInductive == Board!Spec => []Board!IInv
<1>1. Board!IInv /\ [Board!Next]_(Board!vars) => Board!IInv'
  BY BoardInvStep
<1>2. Board!Init => Board!IInv
  BY BoardInvInit
<1> QED
  BY <1>1, <1>2, PTL DEF Board!Spec

-----------------------------------------------------------------------------
(* RUNS OF EQUAL SAMPLES.                                                  *)

\* Sample m is like the `gap` samples before it.
SteadyIn(s, gap, m) == m > gap /\ \A i \in m - gap .. m : s[i] = s[m]

\* `since` is where the run of equal samples at the end begins.
RunIn(s, since) ==
    IF Len(s) = 0 THEN since = 0
    ELSE /\ since \in 1 .. Len(s)
         /\ \A i \in since .. Len(s) : s[i] = s[Len(s)]
         /\ since > 1 => s[since - 1] # s[Len(s)]

\* A sample that is added leaves those before it, and what was steady, as they were.
LEMMA AppendKeeps ==
    ASSUME NEW T, NEW s \in Seq(T), NEW x \in T, NEW gap \in Nat
    PROVE  /\ Append(s, x) \in Seq(T) /\ Len(Append(s, x)) = Len(s) + 1 /\ Len(s) \in Nat
           /\ Append(s, x)[Len(s) + 1] = x
           /\ \A m \in 1 .. Len(s) : Append(s, x)[m] = s[m]
           /\ \A m \in 1 .. Len(s) : SteadyIn(Append(s, x), gap, m) <=> SteadyIn(s, gap, m)
<1>1. /\ Append(s, x) \in Seq(T) /\ Len(Append(s, x)) = Len(s) + 1 /\ Len(s) \in Nat
      /\ Append(s, x)[Len(s) + 1] = x
      /\ \A m \in 1 .. Len(s) : Append(s, x)[m] = s[m]
  OBVIOUS
<1>2. ASSUME NEW m \in 1 .. Len(s)
      PROVE  SteadyIn(Append(s, x), gap, m) <=> SteadyIn(s, gap, m)
  <2>1. ASSUME m > gap, NEW i \in m - gap .. m PROVE i \in 1 .. Len(s)
    BY <1>1, <2>1
  <2> QED
    BY <1>1, <2>1 DEF SteadyIn
<1> QED
  BY <1>1, <1>2

\* The run of equal samples at the end goes on or begins anew; when it is long enough
\* the last sample is steady.
LEMMA RunGrows ==
    ASSUME NEW T, NEW s \in Seq(T), NEW x \in T, NEW gap \in Nat, NEW since, NEW next,
           RunIn(s, since),
           next = IF Len(s) # 0 /\ s[Len(s)] = x THEN since ELSE Len(s) + 1
    PROVE  /\ RunIn(Append(s, x), next) /\ next \in 1 .. Len(s) + 1
           /\ SteadyIn(Append(s, x), gap, Len(s) + 1) <=> Len(s) + 1 - next >= gap
<1> DEFINE n == Len(s)
           t == Append(s, x)
<1>1. /\ t \in Seq(T) /\ Len(t) = n + 1 /\ n \in Nat /\ t[n + 1] = x
      /\ \A m \in 1 .. n : t[m] = s[m]
  BY AppendKeeps
<1>2. next \in 1 .. n + 1
  BY <1>1 DEF RunIn
<1> HIDE DEF n, t
<1>3. \A i \in next .. n + 1 : t[i] = x
  <2>1. CASE n # 0 /\ s[n] = x
    <3>1. since \in 1 .. n /\ next = since /\ \A i \in since .. n : s[i] = x
      BY <2>1 DEF RunIn, n
    <3> QED
      BY <1>1, <3>1
  <2>2. CASE ~(n # 0 /\ s[n] = x)
    <3>1. next = n + 1
      BY <2>2 DEF n
    <3> QED
      BY <1>1, <3>1
  <2> QED
    BY <2>1, <2>2
<1>4. next > 1 => t[next - 1] # x
  <2>1. CASE n # 0 /\ s[n] = x
    <3>1. since \in 1 .. n /\ next = since /\ (since > 1 => s[since - 1] # x)
      BY <2>1 DEF RunIn, n
    <3>2. next > 1 => next - 1 \in 1 .. n
      BY <1>1, <3>1
    <3> QED
      BY <1>1, <3>1, <3>2
  <2>2. CASE ~(n # 0 /\ s[n] = x)
    <3>1. next = n + 1
      BY <2>2 DEF n
    <3>2. next > 1 => n \in 1 .. n /\ n # 0 /\ next - 1 = n
      BY <1>1, <3>1
    <3> QED
      BY <1>1, <2>2, <3>1, <3>2
  <2> QED
    BY <2>1, <2>2
<1>5. RunIn(t, next)
  BY <1>1, <1>2, <1>3, <1>4 DEF RunIn
<1>6. SteadyIn(t, gap, n + 1) <=> n + 1 - next >= gap
  <2>1. ASSUME n + 1 - next >= gap PROVE SteadyIn(t, gap, n + 1)
    <3>1. n + 1 > gap /\ \A i \in n + 1 - gap .. n + 1 : i \in next .. n + 1
      BY <1>1, <1>2, <2>1
    <3> QED
      BY <1>1, <1>3, <3>1 DEF SteadyIn
  <2>2. ASSUME SteadyIn(t, gap, n + 1), ~(n + 1 - next >= gap) PROVE FALSE
    <3>1. n + 1 > gap /\ \A i \in n + 1 - gap .. n + 1 : t[i] = x
      BY <1>1, <2>2 DEF SteadyIn
    <3>2. next > 1 /\ next - 1 \in n + 1 - gap .. n + 1
      BY <1>1, <1>2, <2>2, <3>1
    <3> QED
      BY <1>4, <3>1, <3>2
  <2> QED
    BY <2>1, <2>2
<1> QED
  BY <1>2, <1>5, <1>6 DEF n, t

\* The last sample of a run that is long enough is steady.
LEMMA RunIsSteady ==
    ASSUME NEW T, NEW s \in Seq(T), NEW gap \in Nat, NEW since, RunIn(s, since), Len(s) # 0,
           Len(s) - since >= gap
    PROVE  SteadyIn(s, gap, Len(s))
<1>1. Len(s) \in Nat /\ since \in 1 .. Len(s) /\ \A i \in since .. Len(s) : s[i] = s[Len(s)]
  BY DEF RunIn
<1>2. Len(s) > gap /\ \A i \in Len(s) - gap .. Len(s) : i \in since .. Len(s)
  BY <1>1
<1> QED
  BY <1>1, <1>2 DEF SteadyIn

-----------------------------------------------------------------------------
(* THE KEYS ON THE FRONT.                                                  *)

\* The module KeyScanner counts as FiniteSets does.
LEMMA KeypadSizes ==
    \A S : Keypad!Cardinality(S) = Cardinality(S) /\ (Keypad!IsFiniteSet(S) <=> IsFiniteSet(S))
<1>1. \A S : Keypad!Cardinality(S) = Cardinality(S)
  BY DEF Cardinality, Keypad!Cardinality
<1>2. \A S : Keypad!IsFiniteSet(S) <=> IsFiniteSet(S)
  BY DEF IsFiniteSet, Keypad!IsFiniteSet
<1> QED
  BY <1>1, <1>2

\* Every step samples the keys once; what the scanner notes first is the run.
LEMMA KeypadSeenIs ==
    ASSUME Keypad!TypeOK, Keypad!KnowsRun, NEW down \in SUBSET Buttons,
           Len(samples) < MaxSamples
    PROVE  LET next == Keypad!Seen(down).changedAt
               n == Len(samples)
           IN  /\ Keypad!Seen(down) \in Keypad!Scanner /\ Keypad!Seen(down).lastActive = down
               /\ next \in 1 .. n + 1
               /\ Keypad!Seen(down).armed = scanner.armed
                    /\ Keypad!Seen(down).chord = scanner.chord
               /\ Keypad!Seen(down).candidate = scanner.candidate
               /\ RunIn(Append(samples, down), next)
               /\ Keypad!Settled(down) <=> SteadyIn(Append(samples, down), Settle, n + 1)
<1> DEFINE n == Len(samples)
           next == Keypad!Seen(down).changedAt
<1>1. /\ samples \in Seq(SUBSET Buttons) /\ scanner \in Keypad!Scanner /\ n \in Nat
      /\ MaxSamples \in Nat /\ Settle \in Nat
  BY KeypadAssumption DEF Keypad!TypeOK, Keypad!KeypadConstants
<1>2. down = scanner.lastActive <=> (n # 0 /\ samples[n] = down)
  BY <1>1, KeypadAssumption DEF Keypad!KnowsRun, Keypad!KeypadConstants
<1>3. RunIn(samples, scanner.changedAt)
  BY DEF Keypad!KnowsRun, RunIn
<1>4. next = IF n # 0 /\ samples[n] = down THEN scanner.changedAt ELSE n + 1
  BY <1>1, <1>2 DEF Keypad!Seen, Keypad!Scanner
<1>5. /\ RunIn(Append(samples, down), next) /\ next \in 1 .. n + 1
      /\ SteadyIn(Append(samples, down), Settle, n + 1) <=> n + 1 - next >= Settle
  BY <1>1, <1>3, <1>4, RunGrows
<1>6. Keypad!Seen(down).lastActive = down /\ Keypad!Seen(down).armed = scanner.armed
      /\ Keypad!Seen(down).chord = scanner.chord
           /\ Keypad!Seen(down).candidate = scanner.candidate
  BY <1>1 DEF Keypad!Seen, Keypad!Scanner
<1>7. Keypad!Seen(down) \in Keypad!Scanner
  <2>1. n + 1 \in 0 .. MaxSamples
    BY <1>1
  <2> QED
    BY <1>1, <2>1 DEF Keypad!Seen, Keypad!Scanner
<1> QED
  BY <1>5, <1>6, <1>7 DEF Keypad!Settled

-----------------------------------------------------------------------------
(* What the samples say, and what the scanner remembers of them.           *)

\* A steady sample without a key.
Up(s, m) == SteadyIn(s, Settle, m) /\ s[m] = {}

\* What was steadily pressed after sample r.
PressedSince(s, r) == {s[m] : m \in {m \in r + 1 .. Len(s) : SteadyIn(s, Settle, m)}}

\* What the scanner remembers of it: nothing, one key, or several.
Remembers(candidate, chord, pressed) ==
    \/ candidate = None /\ ~chord /\ pressed = {}
    \/ candidate # None /\ ~chord /\ pressed = {{candidate}}
    \/ chord /\ \A key \in Buttons : ~(pressed \subseteq {{key}})

\* Sample r is the last one at which all keys were steadily up.
LastUp(s, r) == r \in 1 .. Len(s) /\ Up(s, r) /\ \A m \in r + 1 .. Len(s) : ~Up(s, m)

\* They never were.
NeverUp(s) == \A m \in 1 .. Len(s) : ~Up(s, m)

\* What the scanner knows of the samples.
Knows(s, k) ==
    IF k.armed THEN \E r : LastUp(s, r) /\ Remembers(k.candidate, k.chord, PressedSince(s, r))
    ELSE k.candidate = None /\ ~k.chord /\ NeverUp(s)

\* The samples end in a click of the key.
ClickedIn(s, key) ==
    /\ Len(s) # 0 /\ Up(s, Len(s))
    /\ \E r \in 1 .. Len(s) - 1 :
         /\ Up(s, r)
         /\ \E m \in r + 1 .. Len(s) - 1 : SteadyIn(s, Settle, m)
         /\ \A m \in r + 1 .. Len(s) - 1 : SteadyIn(s, Settle, m) => s[m] = {key}

\* These are what the invariant says of the scanner, before and after a step.
LEMMA KeypadUnfolds ==
    /\ Keypad!KnowsPress <=> Knows(samples, scanner)
    /\ Keypad!KnowsPress' <=> Knows(samples', scanner')
<1>1. Keypad!KnowsPress <=> Knows(samples, scanner)
  BY DEF Keypad!KnowsPress, Knows, Keypad!KnowsSince, Keypad!SteadyUp, Keypad!Steady, Up,
     PressedSince, Remembers, LastUp,
         NeverUp, SteadyIn
<1>2. Keypad!KnowsPress' <=> Knows(samples', scanner')
  BY DEF Keypad!KnowsPress, Knows, Keypad!KnowsSince, Keypad!SteadyUp, Keypad!Steady, Up,
     PressedSince, Remembers, LastUp,
         NeverUp, SteadyIn
<1> QED
  BY <1>1, <1>2

\* A click, after a step.
LEMMA ClickUnfolds ==
    ASSUME samples' \in Seq(SUBSET Buttons), NEW key
    PROVE  Keypad!Clicked(key, Len(samples))' <=> ClickedIn(samples', key)
<1>1. Settle \in Nat /\ Len(samples') \in Nat
  BY KeypadAssumption DEF Keypad!KeypadConstants
<1>2. SteadyIn(samples', Settle, Len(samples')) => Len(samples') # 0
  BY <1>1 DEF SteadyIn
<1> QED
  BY <1>2 DEF Keypad!Clicked, Keypad!Steady, ClickedIn, Up, SteadyIn

\* A click, before a step.
LEMMA ClickUnfoldsNow ==
    ASSUME samples \in Seq(SUBSET Buttons), NEW key
    PROVE  Keypad!Clicked(key, Len(samples)) <=> ClickedIn(samples, key)
<1>1. Settle \in Nat /\ Len(samples) \in Nat
  BY KeypadAssumption DEF Keypad!KeypadConstants
<1>2. SteadyIn(samples, Settle, Len(samples)) => Len(samples) # 0
  BY <1>1 DEF SteadyIn
<1> QED
  BY <1>2 DEF Keypad!Clicked, Keypad!Steady, ClickedIn, Up, SteadyIn

\* What a sample that is added does to them.
LEMMA UpGrows ==
    ASSUME NEW s \in Seq(SUBSET Buttons), NEW down \in SUBSET Buttons
    PROVE  LET t == Append(s, down)
               n == Len(s)
           IN  /\ \A m \in 1 .. n : Up(t, m) <=> Up(s, m)
               /\ Up(t, n + 1) <=> SteadyIn(t, Settle, n + 1) /\ down = {}
               /\ \A r \in 1 .. n : PressedSince(t, r) =
                    PressedSince(s, r) \cup (IF SteadyIn(t, Settle, n + 1) THEN {down} ELSE {})
               /\ \A r : LastUp(s, r) /\ ~Up(t, n + 1) => LastUp(t, r)
               /\ NeverUp(s) /\ ~Up(t, n + 1) => NeverUp(t)
               /\ Up(t, n + 1) => LastUp(t, n + 1) /\ PressedSince(t, n + 1) = {}
<1> DEFINE t == Append(s, down)
           n == Len(s)
<1>1. /\ Len(t) = n + 1 /\ n \in Nat /\ t[n + 1] = down
      /\ \A m \in 1 .. n : t[m] = s[m]
      /\ \A m \in 1 .. n : SteadyIn(t, Settle, m) <=> SteadyIn(s, Settle, m)
  BY AppendKeeps, KeypadAssumption DEF Keypad!KeypadConstants
<1> HIDE DEF t
<1>2. \A m \in 1 .. n : Up(t, m) <=> Up(s, m)
  BY <1>1 DEF Up
<1>3. Up(t, n + 1) <=> SteadyIn(t, Settle, n + 1) /\ down = {}
  BY <1>1 DEF Up
<1>4. ASSUME NEW r \in 1 .. n
      PROVE  PressedSince(t, r) =
               PressedSince(s, r) \cup (IF SteadyIn(t, Settle, n + 1) THEN {down} ELSE {})
  <2>1. ASSUME NEW keys \in PressedSince(t, r)
        PROVE  keys \in PressedSince(s, r)
               \/ (SteadyIn(t, Settle, n + 1) /\ keys = down)
    <3>1. PICK m \in r + 1 .. n + 1 : SteadyIn(t, Settle, m) /\ keys = t[m]
      BY <1>1 DEF PressedSince
    <3>2. CASE m = n + 1
      BY <1>1, <3>1, <3>2
    <3>3. CASE m # n + 1
      <4>1. m \in r + 1 .. n /\ m \in 1 .. n
        BY <1>1, <3>1, <3>3
      <4> QED
        BY <1>1, <3>1, <4>1 DEF PressedSince
    <3> QED
      BY <3>2, <3>3
  <2>2. ASSUME NEW keys \in PressedSince(s, r) PROVE keys \in PressedSince(t, r)
    <3>1. PICK m \in r + 1 .. n : SteadyIn(s, Settle, m) /\ keys = s[m]
      BY <1>1 DEF PressedSince
    <3>2. m \in 1 .. n /\ m \in r + 1 .. n + 1
      BY <1>1, <3>1
    <3> QED
      BY <1>1, <3>1, <3>2 DEF PressedSince
  <2>3. SteadyIn(t, Settle, n + 1) => down \in PressedSince(t, r)
    <3>1. n + 1 \in r + 1 .. n + 1
      BY <1>1
    <3> QED
      BY <1>1, <3>1 DEF PressedSince
  <2> QED
    BY <2>1, <2>2, <2>3
<1>5. ASSUME NEW r, LastUp(s, r), ~Up(t, n + 1) PROVE LastUp(t, r)
  <2>1. r \in 1 .. n /\ r \in 1 .. n + 1
    BY <1>1, <1>5 DEF LastUp
  <2>2. \A m \in r + 1 .. n + 1 : (m \in r + 1 .. n /\ m \in 1 .. n) \/ m = n + 1
    BY <1>1, <2>1
  <2> QED
    BY <1>1, <1>2, <1>5, <2>1, <2>2 DEF LastUp
<1>6. NeverUp(s) /\ ~Up(t, n + 1) => NeverUp(t)
  BY <1>1, <1>2 DEF NeverUp
<1>7. ASSUME Up(t, n + 1) PROVE LastUp(t, n + 1) /\ PressedSince(t, n + 1) = {}
  BY <1>1, <1>7 DEF LastUp, PressedSince
<1> QED
  BY <1>2, <1>3, <1>4, <1>5, <1>6, <1>7 DEF t

\* A key is clicked when it alone was pressed since all keys were up last.
LEMMA ClickIs ==
    ASSUME NEW s \in Seq(SUBSET Buttons), NEW down \in SUBSET Buttons,
           NEW key \in Buttons
    PROVE  LET t == Append(s, down)
           IN  /\ ~Up(t, Len(s) + 1) => ~ClickedIn(t, key)
               /\ NeverUp(s) => ~ClickedIn(t, key)
               /\ \A r : Up(t, Len(s) + 1) /\ LastUp(s, r) =>
                    (ClickedIn(t, key) <=> PressedSince(s, r) = {{key}})
<1> DEFINE t == Append(s, down)
           n == Len(s)
<1>1. /\ Len(t) = n + 1 /\ n \in Nat /\ t[n + 1] = down
      /\ \A m \in 1 .. n : t[m] = s[m]
      /\ \A m \in 1 .. n : SteadyIn(t, Settle, m) <=> SteadyIn(s, Settle, m)
  BY AppendKeeps, KeypadAssumption DEF Keypad!KeypadConstants
<1> HIDE DEF t
<1>2. \A m \in 1 .. n : Up(t, m) <=> Up(s, m)
  BY <1>1 DEF Up
<1>3. ClickedIn(t, key) <=>
        /\ Up(t, n + 1)
        /\ \E r \in 1 .. n : Up(s, r) /\ (\E m \in r + 1 .. n : SteadyIn(s, Settle, m))
                             /\ \A m \in r + 1 .. n : SteadyIn(s, Settle, m) => s[m] = {key}
  <2>1. \A r \in 1 .. n : \A m \in r + 1 .. n : m \in 1 .. n
    BY <1>1
  <2>2. Len(t) - 1 = n /\ Len(t) # 0
    BY <1>1
  <2> QED
    BY <1>1, <1>2, <2>1, <2>2 DEF ClickedIn
<1>4. NeverUp(s) => ~ClickedIn(t, key)
  BY <1>3 DEF NeverUp
<1>5. ASSUME NEW r, Up(t, n + 1), LastUp(s, r)
      PROVE  ClickedIn(t, key) <=> PressedSince(s, r) = {{key}}
  <2>1. r \in 1 .. n /\ Up(s, r) /\ \A m \in r + 1 .. n : ~Up(s, m)
    BY <1>5 DEF LastUp
  <2>2. ASSUME ClickedIn(t, key) PROVE PressedSince(s, r) = {{key}}
    <3>1. PICK f \in 1 .. n : Up(s, f) /\ (\E m \in f + 1 .. n : SteadyIn(s, Settle, m))
                             /\ \A m \in f + 1 .. n : SteadyIn(s, Settle, m) => s[m] = {key}
      BY <1>3, <2>2
    <3>2. f = r
      <4>1. ~(f > r)
        BY <1>1, <2>1, <3>1
      <4>2. ~(r > f)
        <5>1. r > f => r \in f + 1 .. n
          BY <1>1, <2>1, <3>1
        <5> QED
          BY <2>1, <3>1, <5>1 DEF Up
      <4> QED
        BY <1>1, <2>1, <3>1, <4>1, <4>2
    <3> QED
      BY <3>1, <3>2 DEF PressedSince
  <2>3. ASSUME PressedSince(s, r) = {{key}} PROVE ClickedIn(t, key)
    <3>1. \E m \in r + 1 .. n : SteadyIn(s, Settle, m)
      BY <2>3 DEF PressedSince
    <3>2. \A m \in r + 1 .. n : SteadyIn(s, Settle, m) => s[m] = {key}
      BY <2>3 DEF PressedSince
    <3> QED
      BY <1>3, <1>5, <2>1, <3>1, <3>2
  <2> QED
    BY <2>2, <2>3
<1> QED
  BY <1>3, <1>4, <1>5 DEF t

\* What the scanner remembers after a sample that is not steady, or all of whose keys
\* are up.
LEMMA KnowsQuiet ==
    ASSUME NEW s \in Seq(SUBSET Buttons), NEW down \in SUBSET Buttons, NEW k, NEW k2,
           Knows(s, k), ~SteadyIn(Append(s, down), Settle, Len(s) + 1),
           k2.armed = k.armed, k2.candidate = k.candidate, k2.chord = k.chord
    PROVE  Knows(Append(s, down), k2)
<1> DEFINE t == Append(s, down)
<1>1. ~Up(t, Len(s) + 1)
  BY DEF Up
<1>2. CASE k.armed
  <2>1. PICK r : LastUp(s, r) /\ Remembers(k.candidate, k.chord, PressedSince(s, r))
    BY <1>2 DEF Knows
  <2>2. r \in 1 .. Len(s)
    BY <2>1 DEF LastUp
  <2>5. LastUp(t, r)
    BY <1>1, <2>1, UpGrows
  <2>6. PressedSince(t, r) = PressedSince(s, r) \cup {}
    BY <2>2, UpGrows
  <2>3. LastUp(t, r) /\ PressedSince(t, r) = PressedSince(s, r)
    BY <2>5, <2>6
  <2> HIDE DEF t
  <2>4. Knows(t, k2)
    BY <1>2, <2>1, <2>3 DEF Knows
  <2> QED
    BY <2>4 DEF t
<1>3. CASE ~k.armed
  <2>1. NeverUp(t)
    BY <1>1, <1>3, UpGrows DEF Knows
  <2> QED
    BY <1>3, <2>1 DEF Knows
<1> QED
  BY <1>2, <1>3

\* A scanner that sees all keys up begins anew.
LEMMA KnowsUp ==
    ASSUME NEW s \in Seq(SUBSET Buttons), NEW down \in SUBSET Buttons, NEW k2,
           Up(Append(s, down), Len(s) + 1),
           k2.armed = TRUE, k2.candidate = None, k2.chord = FALSE
    PROVE  Knows(Append(s, down), k2)
<1> DEFINE t == Append(s, down)
<1>1. LastUp(t, Len(s) + 1) /\ PressedSince(t, Len(s) + 1) = {}
  BY UpGrows
<1> HIDE DEF t
<1>2. Remembers(None, FALSE, {})
  BY DEF Remembers
<1>3. Knows(t, k2)
  BY <1>1, <1>2 DEF Knows
<1> QED
  BY <1>3 DEF t

\* Keys that are down together: more than the one of any click.
LEMMA TogetherIsNoClick ==
    ASSUME NEW down \in SUBSET Buttons, down # {}
    PROVE  /\ Cardinality(down) > 1 => \A key \in Buttons : down # {key}
           /\ ~(Cardinality(down) > 1) =>
                \E key \in Buttons : down = {key} /\ (CHOOSE x \in down : TRUE) = key
<1>1. IsFiniteSet(down) /\ Cardinality(down) \in Nat
  BY KeypadAssumption, FS_Subset, FS_CardinalityType, KeypadSizes DEF Keypad!KeypadConstants
<1>2. \A key : Cardinality({key}) = 1
  BY FS_Singleton
<1>3. Cardinality(down) # 0
  BY <1>1, FS_EmptySet
<1>4. Cardinality(down) = 1 => \E key : down = {key}
  BY <1>1, FS_Singleton
<1>5. ASSUME ~(Cardinality(down) > 1)
      PROVE  \E key \in Buttons : down = {key} /\ (CHOOSE x \in down : TRUE) = key
  <2>1. PICK key : down = {key}
    BY <1>1, <1>3, <1>4, <1>5
  <2>2. (CHOOSE x \in down : TRUE) \in down
    BY <2>1
  <2> QED
    BY <2>1, <2>2
<1> QED
  BY <1>2, <1>5

\* What Press() makes of what it has seen.
Noted(k, down) ==
    CASE k.armed /\ Keypad!Together(k, down) -> [k EXCEPT !.chord = TRUE]
      [] k.armed /\ ~Keypad!Together(k, down) /\ ~k.chord ->
           [k EXCEPT !.candidate = CHOOSE key \in down : TRUE]
      [] OTHER -> k

\* Press() changes only what it remembers.
LEMMA NotedIs ==
    ASSUME NEW k \in Keypad!Scanner, NEW down \in SUBSET Buttons, down # {}
    PROVE  /\ Noted(k, down) \in Keypad!Scanner
           /\ Noted(k, down).armed = k.armed
           /\ Noted(k, down).lastActive = k.lastActive
           /\ Noted(k, down).changedAt = k.changedAt
           /\ ~k.armed => Noted(k, down) = k
           /\ k.armed /\ Keypad!Together(k, down) => Noted(k, down).chord = TRUE
           /\ k.armed /\ ~Keypad!Together(k, down) /\ ~k.chord =>
                Noted(k, down).chord = FALSE
                /\ Noted(k, down).candidate = CHOOSE key \in down : TRUE
           /\ k.armed /\ k.chord => Noted(k, down).chord = TRUE
<1>1. (CHOOSE key \in down : TRUE) \in Buttons
  OBVIOUS
<1>2. CASE k.armed /\ Keypad!Together(k, down)
  <2>1. Noted(k, down) = [k EXCEPT !.chord = TRUE]
    BY <1>2 DEF Noted
  <2> QED
    BY <1>2, <2>1 DEF Keypad!Scanner
<1>3. CASE k.armed /\ ~Keypad!Together(k, down) /\ ~k.chord
  <2>1. Noted(k, down) = [k EXCEPT !.candidate = CHOOSE key \in down : TRUE]
    BY <1>3 DEF Noted
  <2> QED
    BY <1>1, <1>3, <2>1 DEF Keypad!Scanner
<1>4. CASE ~(k.armed /\ Keypad!Together(k, down))
             /\ ~(k.armed /\ ~Keypad!Together(k, down) /\ ~k.chord)
  <2>1. Noted(k, down) = k
    BY <1>4 DEF Noted
  <2> QED
    BY <1>4, <2>1 DEF Keypad!Scanner
<1> QED
  BY <1>2, <1>3, <1>4

\* It then remembers what was pressed.
LEMMA KnowsPressed ==
    ASSUME NEW s \in Seq(SUBSET Buttons), NEW down \in SUBSET Buttons, down # {},
           NEW k \in Keypad!Scanner, Knows(s, k), SteadyIn(Append(s, down), Settle, Len(s) + 1)
    PROVE  Knows(Append(s, down), Noted(k, down))
<1> DEFINE t == Append(s, down)
           k2 == Noted(k, down)
<1>1. ~Up(t, Len(s) + 1)
  BY UpGrows
<1>2. CASE ~k.armed
  <2>1. NeverUp(t) /\ k2 = k
    BY <1>1, <1>2, UpGrows, NotedIs DEF Knows
  <2> QED
    BY <1>2, <2>1 DEF Knows
<1>3. CASE k.armed
  <2>1. PICK r : LastUp(s, r) /\ Remembers(k.candidate, k.chord, PressedSince(s, r))
    BY <1>3 DEF Knows
  <2>2. r \in 1 .. Len(s)
    BY <2>1 DEF LastUp
  <2>3. LastUp(t, r) /\ PressedSince(t, r) = PressedSince(s, r) \cup {down}
    BY <1>1, <2>1, <2>2, UpGrows
  <2>4. /\ k2.armed /\ (Keypad!Together(k, down) \/ k.chord => k2.chord = TRUE)
        /\ ~Keypad!Together(k, down) /\ ~k.chord =>
             k2.chord = FALSE /\ k2.candidate = CHOOSE key \in down : TRUE
    BY <1>3, NotedIs
  <2> HIDE DEF t, k2
  <2>5. ASSUME k.chord
        PROVE  Remembers(k2.candidate, k2.chord, PressedSince(t, r))
    <3>1. \A key \in Buttons : ~(PressedSince(s, r) \subseteq {{key}})
      BY <2>1, <2>5 DEF Remembers
    <3>2. \A key \in Buttons : ~(PressedSince(t, r) \subseteq {{key}})
      BY <2>3, <3>1
    <3> QED
      BY <2>4, <2>5, <3>2 DEF Remembers
  <2>6. ASSUME ~k.chord, Keypad!Together(k, down)
        PROVE  Remembers(k2.candidate, k2.chord, PressedSince(t, r))
    <3>1. \A key \in Buttons : ~(PressedSince(t, r) \subseteq {{key}})
      <4>1. CASE Cardinality(down) > 1
        BY <2>3, <4>1, TogetherIsNoClick
      <4>2. CASE k.candidate # None /\ k.candidate \notin down
        <5>1. PressedSince(s, r) = {{k.candidate}}
          BY <2>1, <2>6, <4>2 DEF Remembers
        <5>2. down # {k.candidate}
          BY <4>2
        <5>3. {k.candidate} \in PressedSince(t, r) /\ down \in PressedSince(t, r)
          BY <2>3, <5>1
        <5> QED
          BY <5>2, <5>3
      <4> QED
        BY <2>6, <4>1, <4>2, KeypadSizes DEF Keypad!Together
    <3> QED
      BY <2>4, <2>6, <3>1 DEF Remembers
  <2>7. ASSUME ~k.chord, ~Keypad!Together(k, down)
        PROVE  Remembers(k2.candidate, k2.chord, PressedSince(t, r))
    <3>1. ~(Cardinality(down) > 1) /\ (k.candidate # None => k.candidate \in down)
      BY <2>7, KeypadSizes DEF Keypad!Together
    <3>2. PICK key \in Buttons : down = {key} /\ (CHOOSE x \in down : TRUE) = key
      BY <3>1, TogetherIsNoClick
    <3>3. k2.chord = FALSE /\ k2.candidate = key /\ key # None
      BY <2>4, <2>7, <3>2, KeypadAssumption DEF Keypad!KeypadConstants
    <3>4. PressedSince(t, r) = {{key}}
      <4>1. PressedSince(s, r) = {} \/ PressedSince(s, r) = {{key}}
        BY <2>1, <2>7, <3>1, <3>2 DEF Remembers
      <4> QED
        BY <2>3, <3>2, <4>1
    <3> QED
      BY <3>3, <3>4 DEF Remembers
  <2>8. Remembers(k2.candidate, k2.chord, PressedSince(t, r))
    BY <2>5, <2>6, <2>7
  <2>9. Knows(t, k2)
    BY <2>3, <2>4, <2>8 DEF Knows
  <2> QED
    BY <2>9 DEF t, k2
<1> QED
  BY <1>2, <1>3

-----------------------------------------------------------------------------
\* The scanner keeps its types and knows the run after every step.
LEMMA ScannerRun ==
    ASSUME Keypad!TypeOK, Keypad!KnowsRun, NEW down \in SUBSET Buttons,
           NEW k \in Keypad!Scanner,
           NEW key \in Buttons \cup {None}, Keypad!Update(down, k, key),
           k.lastActive = down, k.changedAt = Keypad!Seen(down).changedAt
    PROVE  Keypad!TypeOK' /\ Keypad!KnowsRun' /\ samples' = Append(samples, down)
             /\ scanner' = k /\ event' = key
<1> DEFINE n == Len(samples)
<1>1. /\ samples' = Append(samples, down) /\ scanner' = k /\ event' = key /\ n < MaxSamples
  BY DEF Keypad!Update
<1>2. /\ samples' \in Seq(SUBSET Buttons) /\ Len(samples') = n + 1 /\ n \in Nat
      /\ n + 1 <= MaxSamples /\ samples'[n + 1] = down
  <2>1. samples \in Seq(SUBSET Buttons) /\ MaxSamples \in Nat /\ Settle \in Nat
    BY KeypadAssumption DEF Keypad!TypeOK, Keypad!KeypadConstants
  <2> QED
    BY <1>1, <2>1, AppendKeeps
<1>3. RunIn(samples', scanner'.changedAt)
  BY <1>1, KeypadSeenIs
<1> QED
  BY <1>1, <1>2, <1>3 DEF Keypad!TypeOK, Keypad!KnowsRun, RunIn

\* The invariant is kept by every step.
LEMMA ScannerStep == ASSUME Keypad!IInv, [Keypad!Next]_(Keypad!vars) PROVE Keypad!IInv'
<1>0. Keypad!TypeOK /\ Keypad!KnowsRun /\ Knows(samples, scanner) /\ Keypad!EventsAreClicks
      /\ samples \in Seq(SUBSET Buttons) /\ scanner \in Keypad!Scanner
  BY KeypadUnfolds DEF Keypad!IInv, Keypad!TypeOK
<1>1. CASE UNCHANGED Keypad!vars
  <2>1. samples' = samples /\ scanner' = scanner /\ event' = event
    BY <1>1 DEF Keypad!vars
  <2>2. Keypad!TypeOK' /\ Keypad!KnowsRun'
    BY <1>0, <2>1 DEF Keypad!TypeOK, Keypad!KnowsRun
  <2>3. Keypad!KnowsPress'
    BY <1>0, <2>1, KeypadUnfolds
  <2>4. Keypad!EventsAreClicks'
    <3>1. ASSUME NEW x \in Buttons
          PROVE  Keypad!Clicked(x, Len(samples))' <=> Keypad!Clicked(x, Len(samples))
      BY <1>0, <2>1, ClickUnfolds, ClickUnfoldsNow
    <3> QED
      BY <1>0, <2>1, <3>1 DEF Keypad!EventsAreClicks
  <2> QED
    BY <2>2, <2>3, <2>4 DEF Keypad!IInv
<1>2. ASSUME NEW down \in SUBSET Buttons, NEW k \in Keypad!Scanner,
             NEW key \in Buttons \cup {None},
             Keypad!Update(down, k, key), k.lastActive = down,
             k.changedAt = Keypad!Seen(down).changedAt,
             Knows(Append(samples, down), k),
             \A x \in Buttons : key = x <=> ClickedIn(Append(samples, down), x)
      PROVE  Keypad!IInv'
  <2>1. Keypad!TypeOK' /\ Keypad!KnowsRun' /\ samples' = Append(samples, down) /\ scanner' = k
          /\ event' = key
    BY <1>0, <1>2, ScannerRun
  <2>2. Keypad!KnowsPress'
    BY <1>2, <2>1, KeypadUnfolds
  <2>3. samples' \in Seq(SUBSET Buttons)
    BY <2>1 DEF Keypad!TypeOK
  <2>4. Keypad!EventsAreClicks'
    <3>1. \A x \in Buttons : event' = x <=> Keypad!Clicked(x, Len(samples))'
      BY <1>2, <2>1, <2>3, ClickUnfolds
    <3> QED
      BY <3>1 DEF Keypad!EventsAreClicks
  <2> QED
    BY <2>1, <2>2, <2>4 DEF Keypad!IInv
<1>3. CASE Keypad!Release
  <2> DEFINE seen == Keypad!Seen({})
             k == [seen EXCEPT !.armed = TRUE, !.candidate = None, !.chord = FALSE]
             t == Append(samples, {})
  <2>1. Keypad!Settled({}) /\ Keypad!Update({}, k, Keypad!Pressed(seen))
          /\ Len(samples) < MaxSamples
    BY <1>3 DEF Keypad!Release, Keypad!Update
  <2>2. /\ seen \in Keypad!Scanner /\ seen.lastActive = {} /\ seen.armed = scanner.armed
        /\ seen.chord = scanner.chord /\ seen.candidate = scanner.candidate
        /\ SteadyIn(t, Settle, Len(samples) + 1)
    BY <1>0, <2>1, KeypadSeenIs
  <2>3. Up(t, Len(samples) + 1)
    BY <1>0, <2>2, UpGrows
  <2>4. /\ k \in Keypad!Scanner /\ k.lastActive = {} /\ k.changedAt = seen.changedAt
        /\ k.armed = TRUE /\ k.candidate = None /\ k.chord = FALSE
    BY <2>2 DEF Keypad!Scanner
  <2>5. Keypad!Pressed(seen) = IF scanner.armed
          /\ ~scanner.chord THEN scanner.candidate ELSE None
    BY <2>2 DEF Keypad!Pressed
  <2>6. Keypad!Pressed(seen) \in Buttons \cup {None}
    BY <1>0, <2>5 DEF Keypad!Scanner
  <2> HIDE DEF k, seen
  <2>7. Knows(t, k)
    BY <1>0, <2>3, <2>4, KnowsUp
  <2>8. ASSUME NEW x \in Buttons PROVE Keypad!Pressed(seen) = x <=> ClickedIn(t, x)
    <3>0. x # None
      BY KeypadAssumption DEF Keypad!KeypadConstants
    <3>1. CASE ~scanner.armed
      <4>1. ~ClickedIn(t, x)
        BY <1>0, <3>1, ClickIs DEF Knows
      <4> QED
        BY <2>5, <3>0, <3>1, <4>1
    <3>2. CASE scanner.armed
      <4>1. PICK r : LastUp(samples, r)
                     /\ Remembers(scanner.candidate, scanner.chord, PressedSince(samples, r))
        BY <1>0, <3>2 DEF Knows
      <4>2. ClickedIn(t, x) <=> PressedSince(samples, r) = {{x}}
        BY <1>0, <2>3, <4>1, ClickIs
      <4>3. CASE scanner.chord
        <5>1. PressedSince(samples, r) # {{x}}
          BY <4>1, <4>3 DEF Remembers
        <5> QED
          BY <2>5, <3>0, <4>2, <4>3, <5>1
      <4>4. CASE ~scanner.chord /\ scanner.candidate = None
        <5>1. PressedSince(samples, r) = {}
          BY <4>1, <4>4 DEF Remembers
        <5> QED
          BY <2>5, <3>0, <4>2, <4>4, <5>1
      <4>5. CASE ~scanner.chord /\ scanner.candidate # None
        <5>1. PressedSince(samples, r) = {{scanner.candidate}}
          BY <4>1, <4>5 DEF Remembers
        <5>2. {{scanner.candidate}} = {{x}} <=> scanner.candidate = x
          OBVIOUS
        <5> QED
          BY <2>5, <3>2, <4>2, <4>5, <5>1, <5>2
      <4> QED
        BY <4>3, <4>4, <4>5
    <3> QED
      BY <3>1, <3>2
  <2>9. k.changedAt = Keypad!Seen({}).changedAt
    BY <2>4 DEF seen
  <2> QED
    BY <1>2, <2>1, <2>4, <2>6, <2>7, <2>8, <2>9
<1>4. ASSUME NEW down \in SUBSET Buttons, Keypad!Bounces(down) PROVE Keypad!IInv'
  <2> DEFINE seen == Keypad!Seen(down)
             t == Append(samples, down)
  <2>1. ~Keypad!Settled(down) /\ Keypad!Update(down, seen, None) /\ Len(samples) < MaxSamples
    BY <1>4 DEF Keypad!Bounces, Keypad!Update
  <2>2. /\ seen \in Keypad!Scanner /\ seen.lastActive = down /\ seen.armed = scanner.armed
        /\ seen.chord = scanner.chord /\ seen.candidate = scanner.candidate
        /\ ~SteadyIn(t, Settle, Len(samples) + 1)
    BY <1>0, <2>1, KeypadSeenIs
  <2>3. ~Up(t, Len(samples) + 1)
    BY <2>2 DEF Up
  <2> HIDE DEF seen
  <2>4. Knows(t, seen)
    BY <1>0, <2>2, KnowsQuiet
  <2>5. \A x \in Buttons : None = x <=> ClickedIn(t, x)
    BY <1>0, <2>3, ClickIs, KeypadAssumption DEF Keypad!KeypadConstants
  <2>6. seen.changedAt = Keypad!Seen(down).changedAt
    BY DEF seen
  <2> QED
    BY <1>2, <2>1, <2>2, <2>4, <2>5, <2>6
<1>5. ASSUME NEW down \in SUBSET Buttons, Keypad!Press(down) PROVE Keypad!IInv'
  <2> DEFINE seen == Keypad!Seen(down)
             k == Noted(seen, down)
             t == Append(samples, down)
  <2>1. Keypad!Settled(down) /\ Keypad!Update(down, k, None) /\ Len(samples) < MaxSamples
          /\ down # {}
    BY <1>5 DEF Keypad!Press, Keypad!Update, Noted
  <2>2. /\ seen \in Keypad!Scanner /\ seen.lastActive = down /\ seen.armed = scanner.armed
        /\ seen.chord = scanner.chord /\ seen.candidate = scanner.candidate
        /\ SteadyIn(t, Settle, Len(samples) + 1)
    BY <1>0, <2>1, KeypadSeenIs
  <2>3. ~Up(t, Len(samples) + 1)
    BY <1>0, <2>1, UpGrows
  <2> HIDE DEF seen
  <2>4. Knows(samples, seen)
    BY <1>0, <2>2 DEF Knows
  <2>5. Knows(t, k)
    BY <1>0, <2>1, <2>2, <2>4, KnowsPressed
  <2>6. k \in Keypad!Scanner /\ k.lastActive = down /\ k.changedAt = seen.changedAt
    BY <2>1, <2>2, NotedIs
  <2>7. \A x \in Buttons : None = x <=> ClickedIn(t, x)
    BY <1>0, <2>3, ClickIs, KeypadAssumption DEF Keypad!KeypadConstants
  <2>8. k.changedAt = Keypad!Seen(down).changedAt
    BY <2>6 DEF seen
  <2> HIDE DEF k
  <2> QED
    BY <1>2, <2>1, <2>5, <2>6, <2>7, <2>8
<1> QED
  BY <1>1, <1>3, <1>4, <1>5 DEF Keypad!Next

\* At first nothing was sampled.
LEMMA ScannerInit == Keypad!Init => Keypad!IInv
<1> SUFFICES ASSUME Keypad!Init PROVE Keypad!IInv
  OBVIOUS
<1>1. samples = <<>> /\ Len(samples) = 0
  BY DEF Keypad!Init
<1>2. Keypad!TypeOK /\ Keypad!KnowsRun
  BY <1>1, KeypadAssumption DEF Keypad!Init, Keypad!TypeOK, Keypad!KnowsRun, Keypad!Scanner,
     Keypad!KeypadConstants
<1>3. Keypad!KnowsPress
  BY <1>1 DEF Keypad!Init, Keypad!KnowsPress
<1>4. Keypad!EventsAreClicks
  <2>1. ~Keypad!Steady(0)
    BY KeypadAssumption DEF Keypad!Steady, Keypad!KeypadConstants
  <2> QED
    BY <1>1, <2>1, KeypadAssumption DEF Keypad!Init, Keypad!EventsAreClicks, Keypad!Clicked,
       Keypad!KeypadConstants
<1> QED
  BY <1>2, <1>3, <1>4 DEF Keypad!IInv

\* The invariant of the scanner holds for ever.
LEMMA KeypadInductive == Keypad!Spec => []Keypad!IInv
<1>1. Keypad!IInv /\ [Keypad!Next]_(Keypad!vars) => Keypad!IInv'
  BY ScannerStep
<1>2. Keypad!Init => Keypad!IInv
  BY ScannerInit
<1> QED
  BY <1>1, <1>2, PTL DEF Keypad!Spec

-----------------------------------------------------------------------------
(* THE POWER BUTTON AND THE REQUESTS TO STOP.                              *)

\* The button notes the run first, as every sample does.
LEMMA PowerSeenIs ==
    ASSUME Power!TypeOK, Power!KnowsRun, NEW pressed \in BOOLEAN, Len(holds) < MaxSamples
    PROVE  LET next == Power!Seen(pressed).changedAt
               n == Len(holds)
               t == Append(holds, pressed)
           IN  /\ Power!Seen(pressed) \in Power!Button
                    /\ Power!Seen(pressed).candidate = pressed
               /\ next \in 1 .. n + 1
               /\ Power!Seen(pressed).stable = button.stable
                    /\ Power!Seen(pressed).armed = button.armed
               /\ Power!Seen(pressed).started = button.started
               /\ RunIn(t, next)
               /\ SteadyIn(t, Settle, n + 1) <=> n + 1 - next >= Settle
<1> DEFINE n == Len(holds)
           next == Power!Seen(pressed).changedAt
<1>1. /\ holds \in Seq(BOOLEAN) /\ button \in Power!Button /\ n \in Nat
      /\ MaxSamples \in Nat /\ Settle \in Nat
  BY PowerAssumption DEF Power!TypeOK, Power!PowerConstants
<1>2. button.candidate = pressed <=> (n # 0 /\ holds[n] = pressed)
  BY <1>1, PowerAssumption DEF Power!KnowsRun, Power!PowerConstants
<1>3. RunIn(holds, button.changedAt)
  BY DEF Power!KnowsRun, RunIn
<1>4. next = IF n # 0 /\ holds[n] = pressed THEN button.changedAt ELSE n + 1
  BY <1>1, <1>2 DEF Power!Seen, Power!Button
<1>5. /\ RunIn(Append(holds, pressed), next) /\ next \in 1 .. n + 1
      /\ SteadyIn(Append(holds, pressed), Settle, n + 1) <=> n + 1 - next >= Settle
  BY <1>1, <1>3, <1>4, RunGrows
<1>6. /\ Power!Seen(pressed).candidate = pressed
      /\ Power!Seen(pressed).stable = button.stable /\ Power!Seen(pressed).armed = button.armed
      /\ Power!Seen(pressed).started = button.started
  BY <1>1 DEF Power!Seen, Power!Button
<1>7. Power!Seen(pressed) \in Power!Button
  <2>1. n + 1 \in Power!Time
    BY <1>1 DEF Power!Time
  <2> QED
    BY <1>1, <2>1 DEF Power!Seen, Power!Button
<1> QED
  BY <1>5, <1>6, <1>7

-----------------------------------------------------------------------------
(* What the holds say, and what the button remembers of them.            *)

\* Sample m is steady.
SteadyAt(s, m) == SteadyIn(s, Settle, m)

\* Sample r is the last steady one.
LastSteady(s, r) == r \in 1 .. Len(s) /\ SteadyAt(s, r)
  /\ \A m \in r + 1 .. Len(s) : ~SteadyAt(s, m)

\* None is.
NeverSteady(s) == \A m \in 1 .. Len(s) : ~SteadyAt(s, m)

\* What the button calls stable is the last steady sample.
StableIn(s, stable) ==
    IF stable = None THEN NeverSteady(s) ELSE \E r : LastSteady(s, r) /\ s[r] = stable

\* After the release at r the button was steadily pressed at f, and only so since.
HoldSince(s, r, f) ==
    /\ r \in 1 .. Len(s) /\ f \in 1 .. Len(s) /\ r < f
    /\ SteadyAt(s, r) /\ ~s[r] /\ SteadyAt(s, f) /\ s[f]
    /\ \A m \in r + 1 .. Len(s) : SteadyAt(s, m) => m >= f /\ s[m]

\* What the button knows of a hold that goes on.
HoldIn(s, b) ==
    /\ b.armed => b.stable # None
    /\ b.stable = FALSE => b.armed
    /\ b.started # None =>
         b.stable = TRUE /\ \E r, f : HoldSince(s, r, f) /\ b.started = f - Settle

\* An action is that of a hold that ended with the last sample.
ActsIn(s, act) ==
    act # None =>
      \E r, f \in 1 .. Len(s) :
        /\ r < f /\ f < Len(s) /\ act = Power!Held(Len(s) - f)
        /\ SteadyAt(s, r) /\ ~s[r] /\ SteadyAt(s, f) /\ s[f]
        /\ SteadyAt(s, Len(s)) /\ ~s[Len(s)]
        /\ \A m \in r + 1 .. Len(s) - 1 : SteadyAt(s, m) => m >= f /\ s[m]

\* These are what the invariant says of the button, before and after a step.
LEMMA PowerUnfolds ==
    /\ Power!KnowsSteady <=> StableIn(holds, button.stable)
    /\ Power!KnowsSteady' <=> StableIn(holds', button'.stable)
    /\ Power!KnowsHold <=> HoldIn(holds, button)
    /\ Power!KnowsHold' <=> HoldIn(holds', button')
<1>1. Power!KnowsSteady <=> StableIn(holds, button.stable)
  BY DEF Power!KnowsSteady, StableIn, NeverSteady, LastSteady, SteadyAt, SteadyIn, Power!Steady
<1>2. Power!KnowsSteady' <=> StableIn(holds', button'.stable)
  BY DEF Power!KnowsSteady, StableIn, NeverSteady, LastSteady, SteadyAt, SteadyIn, Power!Steady
<1>3. Power!KnowsHold <=> HoldIn(holds, button)
  BY DEF Power!KnowsHold, HoldIn, HoldSince, SteadyAt, SteadyIn, Power!Steady
<1>4. Power!KnowsHold' <=> HoldIn(holds', button')
  BY DEF Power!KnowsHold, HoldIn, HoldSince, SteadyAt, SteadyIn, Power!Steady
<1> QED
  BY <1>1, <1>2, <1>3, <1>4

\* The same of the action.
LEMMA ActsUnfolds ==
    /\ Power!ActsAsHeld <=> ActsIn(holds, action)
    /\ Power!ActsAsHeld' <=> ActsIn(holds', action')
<1>1. Power!ActsAsHeld <=> ActsIn(holds, action)
  BY DEF Power!ActsAsHeld, ActsIn, Power!Hold, SteadyAt, SteadyIn, Power!Steady
<1>2. Power!ActsAsHeld' <=> ActsIn(holds', action')
  BY DEF Power!ActsAsHeld, ActsIn, Power!Hold, SteadyAt, SteadyIn, Power!Steady
<1> QED
  BY <1>1, <1>2

\* What a sample that is added does to them.
LEMMA Grown ==
    ASSUME NEW s \in Seq(BOOLEAN), NEW x \in BOOLEAN
    PROVE  LET t == Append(s, x)
               n == Len(s)
           IN  /\ Len(t) = n + 1 /\ n \in Nat /\ t[n + 1] = x
               /\ \A m \in 1 .. n : t[m] = s[m] /\ (SteadyAt(t, m) <=> SteadyAt(s, m))
<1>1. Settle \in Nat
  BY PowerAssumption DEF Power!PowerConstants
<1> QED
  BY <1>1, AppendKeeps DEF SteadyAt

\* The last steady sample, when a sample is added.
LEMMA StableGrows ==
    ASSUME NEW s \in Seq(BOOLEAN), NEW x \in BOOLEAN, NEW stable, NEW stable2,
           StableIn(s, stable),
           SteadyAt(Append(s, x), Len(s) + 1) => stable2 = x,
           ~SteadyAt(Append(s, x), Len(s) + 1) => stable2 = stable
    PROVE  StableIn(Append(s, x), stable2)
<1> DEFINE t == Append(s, x)
           n == Len(s)
<1>1. /\ Len(t) = n + 1 /\ n \in Nat /\ t[n + 1] = x
      /\ \A m \in 1 .. n : t[m] = s[m] /\ (SteadyAt(t, m) <=> SteadyAt(s, m))
  BY Grown
<1> HIDE DEF t
<1>2. CASE SteadyAt(t, n + 1)
  <2>1. LastSteady(t, n + 1) /\ stable2 = x /\ stable2 # None
    BY <1>1, <1>2, PowerAssumption DEF LastSteady, t, Power!PowerConstants
  <2> QED
    BY <1>1, <2>1 DEF StableIn, t
<1>3. CASE ~SteadyAt(t, n + 1)
  <2>1. stable2 = stable
    BY <1>3 DEF t
  <2>2. NeverSteady(s) => NeverSteady(t)
    BY <1>1, <1>3 DEF NeverSteady
  <2>3. ASSUME NEW r, LastSteady(s, r) PROVE LastSteady(t, r) /\ t[r] = s[r]
    <3>1. r \in 1 .. n /\ r \in 1 .. n + 1
      BY <1>1, <2>3 DEF LastSteady
    <3>2. \A m \in r + 1 .. n + 1 : (m \in r + 1 .. n /\ m \in 1 .. n) \/ m = n + 1
      BY <1>1, <3>1
    <3> QED
      BY <1>1, <1>3, <2>3, <3>1, <3>2 DEF LastSteady
  <2> QED
    BY <2>1, <2>2, <2>3 DEF StableIn, t
<1> QED
  BY <1>2, <1>3

\* A hold goes on while nothing but the button down is steady.
LEMMA HoldGoesOn ==
    ASSUME NEW s \in Seq(BOOLEAN), NEW x \in BOOLEAN, NEW r, NEW f, HoldSince(s, r, f),
           SteadyAt(Append(s, x), Len(s) + 1) => x = TRUE
    PROVE  HoldSince(Append(s, x), r, f)
<1> DEFINE t == Append(s, x)
           n == Len(s)
<1>1. /\ Len(t) = n + 1 /\ n \in Nat /\ t[n + 1] = x
      /\ \A m \in 1 .. n : t[m] = s[m] /\ (SteadyAt(t, m) <=> SteadyAt(s, m))
  BY Grown
<1>2. r \in 1 .. n /\ f \in 1 .. n /\ r \in 1 .. n + 1 /\ f \in 1 .. n + 1 /\ n + 1 >= f
  BY <1>1 DEF HoldSince
<1>3. \A m \in r + 1 .. n + 1 : (m \in r + 1 .. n /\ m \in 1 .. n) \/ m = n + 1
  BY <1>1, <1>2
<1>4. SteadyAt(t, n + 1) => x = TRUE
  OBVIOUS
<1> HIDE DEF t
<1>5. HoldSince(t, r, f)
  <2>1. \A m \in r + 1 .. n + 1 : SteadyAt(t, m) => m >= f /\ t[m]
    BY <1>1, <1>2, <1>3, <1>4 DEF HoldSince
  <2> QED
    BY <1>1, <1>2, <2>1 DEF HoldSince
<1> QED
  BY <1>5 DEF t

\* It begins when the button is steadily down, after it was steadily up.
LEMMA HoldBegins ==
    ASSUME NEW s \in Seq(BOOLEAN), NEW r, LastSteady(s, r), s[r] = FALSE,
           SteadyAt(Append(s, TRUE), Len(s) + 1)
    PROVE  HoldSince(Append(s, TRUE), r, Len(s) + 1)
<1> DEFINE t == Append(s, TRUE)
           n == Len(s)
<1>1. /\ Len(t) = n + 1 /\ n \in Nat /\ t[n + 1] = TRUE
      /\ \A m \in 1 .. n : t[m] = s[m] /\ (SteadyAt(t, m) <=> SteadyAt(s, m))
  BY Grown
<1>2. r \in 1 .. n /\ r \in 1 .. n + 1 /\ n + 1 \in 1 .. n + 1 /\ r < n + 1
  BY <1>1 DEF LastSteady
<1>3. \A m \in r + 1 .. n + 1 : (m \in r + 1 .. n /\ m \in 1 .. n) \/ m = n + 1
  BY <1>1, <1>2
<1>4. SteadyAt(t, n + 1)
  OBVIOUS
<1> HIDE DEF t
<1>5. HoldSince(t, r, n + 1)
  BY <1>1, <1>2, <1>3, <1>4 DEF HoldSince, LastSteady
<1> QED
  BY <1>5 DEF t

\* It ends when the button is steadily up again.
LEMMA HoldEnds ==
    ASSUME NEW s \in Seq(BOOLEAN), NEW r, NEW f, HoldSince(s, r, f), NEW act,
           SteadyAt(Append(s, FALSE), Len(s) + 1), act = Power!Held(Len(s) + 1 - f)
    PROVE  ActsIn(Append(s, FALSE), act)
<1> DEFINE t == Append(s, FALSE)
           n == Len(s)
<1>1. /\ Len(t) = n + 1 /\ n \in Nat /\ t[n + 1] = FALSE
      /\ \A m \in 1 .. n : t[m] = s[m] /\ (SteadyAt(t, m) <=> SteadyAt(s, m))
  BY Grown
<1>2. r \in 1 .. n /\ f \in 1 .. n /\ r \in 1 .. n + 1 /\ f \in 1 .. n + 1 /\ f < n + 1 /\ r < f
  BY <1>1 DEF HoldSince
<1>3. \A m \in r + 1 .. n : m \in 1 .. n
  BY <1>1, <1>2
<1>4. SteadyAt(t, n + 1)
  OBVIOUS
<1> HIDE DEF t
<1>5. /\ SteadyAt(t, r) /\ ~t[r] /\ SteadyAt(t, f) /\ t[f]
      /\ \A m \in r + 1 .. n : SteadyAt(t, m) => m >= f /\ t[m]
  BY <1>1, <1>2, <1>3 DEF HoldSince
<1>6. Len(t) - 1 = n
  BY <1>1
<1>7. ActsIn(t, act)
  BY <1>1, <1>2, <1>4, <1>5, <1>6 DEF ActsIn
<1> QED
  BY <1>7 DEF t

\* What a hold asks for is a way to stop, or nothing.
LEMMA HeldIsStop == \A d : Power!Held(d) \in Power!Stop \cup {None}
  BY DEF Power!Held, Power!Stop

\* A change is noticed at the first sample at which it is steady.
LEMMA ChangesAtOnce ==
    ASSUME Power!TypeOK, Power!KnowsRun, Power!KnowsSteady, NEW pressed \in BOOLEAN,
           Len(holds) < MaxSamples,
           Power!Changes(pressed)
    PROVE  Power!Seen(pressed).changedAt = Len(holds) + 1 - Settle
           /\ SteadyAt(Append(holds, pressed), Len(holds) + 1)
<1> DEFINE n == Len(holds)
           next == Power!Seen(pressed).changedAt
<1>1. /\ holds \in Seq(BOOLEAN) /\ button \in Power!Button /\ n \in Nat /\ Settle \in Nat
  BY PowerAssumption DEF Power!TypeOK, Power!PowerConstants
<1>2. /\ next \in 1 .. n + 1 /\ n + 1 - next >= Settle /\ button.stable # pressed
      /\ SteadyAt(Append(holds, pressed), n + 1)
  BY PowerSeenIs DEF Power!Changes, SteadyAt
<1>3. CASE button.candidate = pressed
  <2>1. n # 0 /\ holds[n] = pressed /\ next = button.changedAt
    BY <1>3, PowerAssumption DEF Power!KnowsRun, Power!Seen, Power!PowerConstants
  <2>2. RunIn(holds, button.changedAt) /\ button.changedAt \in 1 .. n
    BY <2>1 DEF Power!KnowsRun, RunIn
  <2>3. ASSUME n - button.changedAt >= Settle PROVE FALSE
    <3>1. SteadyAt(holds, n)
      BY <1>1, <2>1, <2>2, <2>3, RunIsSteady DEF SteadyAt
    <3>2. StableIn(holds, button.stable)
      BY PowerUnfolds
    <3>3. button.stable # None
      BY <1>1, <2>1, <3>1, <3>2 DEF StableIn, NeverSteady
    <3>4. PICK r : LastSteady(holds, r) /\ holds[r] = button.stable
      BY <3>2, <3>3 DEF StableIn
    <3>5. r = n
      BY <1>1, <3>1, <3>4 DEF LastSteady
    <3> QED
      BY <1>2, <2>1, <3>4, <3>5
  <2>4. ~(n - button.changedAt >= Settle) /\ button.changedAt \in Nat
    BY <2>2, <2>3
  <2> HIDE DEF next, n
  <2>5. next = n + 1 - Settle
    BY <1>1, <1>2, <2>1, <2>4
  <2> QED
    BY <1>2, <2>5 DEF next, n
<1>4. CASE button.candidate # pressed
  <2>1. next = n + 1
    BY <1>1, <1>4 DEF Power!Seen, Power!Button
  <2> QED
    BY <1>1, <1>2, <2>1
<1> QED
  BY <1>2, <1>3, <1>4

\* What is claimed of the button.
ButtonInv == Power!TypeOK /\ Power!KnowsRun /\ Power!KnowsSteady /\ Power!KnowsHold
  /\ Power!ActsAsHeld

\* A sample of the button, with what it makes of it.
LEMMA Sampled ==
    ASSUME ButtonInv, NEW pressed \in BOOLEAN, NEW b \in Power!Button,
           NEW act \in Power!Stop \cup {None},
           Power!Update(pressed, b, act),
           b.candidate = pressed, b.changedAt = Power!Seen(pressed).changedAt,
           StableIn(Append(holds, pressed), b.stable), HoldIn(Append(holds, pressed), b),
           ActsIn(Append(holds, pressed), act)
    PROVE  ButtonInv'
<1> DEFINE n == Len(holds)
<1>0. Power!TypeOK /\ Power!KnowsRun
  BY DEF ButtonInv
<1>1. /\ holds' = Append(holds, pressed) /\ button' = b /\ action' = act /\ n < MaxSamples
      /\ UNCHANGED <<posted, helper, asked, halts>>
  BY DEF Power!Update, Power!mailbox
<1>2. /\ holds' \in Seq(BOOLEAN) /\ Len(holds') = n + 1 /\ n \in Nat
      /\ n + 1 <= MaxSamples /\ holds'[n + 1] = pressed
  <2>1. holds \in Seq(BOOLEAN) /\ MaxSamples \in Nat /\ Settle \in Nat
    BY <1>0, PowerAssumption DEF Power!TypeOK, Power!PowerConstants
  <2> QED
    BY <1>1, <2>1, AppendKeeps
<1>3. RunIn(holds', button'.changedAt)
  BY <1>0, <1>1, PowerSeenIs
<1>4. Power!KnowsSteady' /\ Power!KnowsHold' /\ Power!ActsAsHeld'
  BY <1>1, PowerUnfolds, ActsUnfolds
<1>5. Power!TypeOK' /\ Power!KnowsRun'
  BY <1>0, <1>1, <1>2, <1>3 DEF Power!TypeOK, Power!KnowsRun, RunIn
<1> QED
  BY <1>4, <1>5 DEF ButtonInv

\* Every step keeps it.
LEMMA ButtonStep == ASSUME ButtonInv, [Power!Next]_(Power!vars) PROVE ButtonInv'
<1>0. /\ Power!TypeOK /\ Power!KnowsRun /\ Power!KnowsSteady /\ holds \in Seq(BOOLEAN)
      /\ button \in Power!Button
      /\ StableIn(holds, button.stable) /\ HoldIn(holds, button)
      /\ Len(holds) \in Nat /\ Settle \in Nat
  BY PowerUnfolds, PowerAssumption DEF ButtonInv, Power!TypeOK, Power!PowerConstants
<1>10. None \notin BOOLEAN
  BY PowerAssumption DEF Power!PowerConstants
<1>11. ActsIn(holds, None) /\ \A s : ActsIn(s, None)
  BY DEF ActsIn
<1>1. ASSUME NEW pressed \in BOOLEAN, Power!Unchanged(pressed) PROVE ButtonInv'
  <2> DEFINE b == Power!Seen(pressed)
             t == Append(holds, pressed)
  <2>1. ~Power!Changes(pressed) /\ Power!Update(pressed, b, None) /\ Len(holds) < MaxSamples
    BY <1>1 DEF Power!Unchanged, Power!Update
  <2>2. /\ b \in Power!Button /\ b.candidate = pressed /\ b.stable = button.stable
        /\ b.armed = button.armed /\ b.started = button.started
        /\ SteadyAt(t, Len(holds) + 1) => button.stable = pressed
    BY <1>0, <2>1, PowerSeenIs DEF Power!Changes, SteadyAt
  <2> HIDE DEF b
  <2>3. StableIn(t, b.stable)
    BY <1>0, <2>2, StableGrows
  <2>4. HoldIn(t, b)
    <3>1. ASSUME b.started # None
          PROVE  \E r, f : HoldSince(t, r, f) /\ b.started = f - Settle
      <4>1. PICK r, f : HoldSince(holds, r, f) /\ button.started = f - Settle
        BY <1>0, <2>2, <3>1 DEF HoldIn
      <4>2. button.stable = TRUE
        BY <1>0, <2>2, <3>1 DEF HoldIn
      <4>3. HoldSince(t, r, f)
        BY <1>0, <2>2, <4>1, <4>2, HoldGoesOn
      <4> QED
        BY <2>2, <4>1, <4>3
    <3> HIDE DEF t
    <3> QED
      BY <1>0, <2>2, <3>1 DEF HoldIn
  <2>5. b.changedAt = Power!Seen(pressed).changedAt
    BY DEF b
  <2> QED
    BY <1>11, <2>1, <2>2, <2>3, <2>4, <2>5, Sampled
<1>2. CASE Power!Press
  <2> DEFINE b == Power!Pressed
             t == Append(holds, TRUE)
             next == Power!Seen(TRUE).changedAt
  <2>1. Power!Changes(TRUE) /\ Power!Update(TRUE, b, None) /\ Len(holds) < MaxSamples
    BY <1>2 DEF Power!Press, Power!Update
  <2>2. /\ Power!Seen(TRUE) \in Power!Button /\ Power!Seen(TRUE).candidate = TRUE
        /\ Power!Seen(TRUE).armed = button.armed /\ Power!Seen(TRUE).started = button.started
        /\ next \in Power!Time
    BY <1>0, <2>1, PowerSeenIs DEF Power!Button
  <2>3. next = Len(holds) + 1 - Settle /\ SteadyAt(t, Len(holds) + 1)
        /\ button.stable # TRUE
    BY <1>0, <2>1, ChangesAtOnce DEF Power!Changes
  <2>4. /\ b \in Power!Button /\ b.candidate = TRUE /\ b.changedAt = next /\ b.stable = TRUE
        /\ b.armed = button.armed
        /\ b.started = IF button.armed THEN next ELSE button.started
    BY <2>2 DEF Power!Pressed, Power!Button
  <2> HIDE DEF b
  <2>5. StableIn(t, b.stable)
    BY <1>0, <2>3, <2>4, StableGrows
  <2>6. ASSUME b.started # None
        PROVE  \E r, f : HoldSince(t, r, f) /\ b.started = f - Settle
    <3>1. button.armed
      BY <1>0, <2>3, <2>4, <2>6 DEF HoldIn
    <3>2. button.stable = FALSE
      BY <1>0, <2>3, <3>1 DEF HoldIn, Power!Button
    <3>3. PICK r : LastSteady(holds, r) /\ holds[r] = FALSE
      BY <1>0, <1>10, <3>2 DEF StableIn
    <3>4. HoldSince(t, r, Len(holds) + 1)
      BY <1>0, <2>3, <3>3, HoldBegins
    <3>5. b.started = Len(holds) + 1 - Settle
      BY <2>3, <2>4, <3>1
    <3> HIDE DEF t, b
    <3>6. Settle \in Int /\ Len(holds) \in Nat /\ b.started \in Int
      BY <1>0, <3>5 DEF Power!PowerConstants, Power!TypeOK
    <3> QED
      BY <3>4, <3>5, <3>6
  <2> HIDE DEF t, next
  <2>7. HoldIn(t, b)
    BY <1>10, <2>4, <2>6 DEF HoldIn
  <2>8. b.changedAt = Power!Seen(TRUE).changedAt
    BY <2>4 DEF next
  <2> QED
    BY <1>11, <2>1, <2>4, <2>5, <2>7, <2>8, Sampled DEF t
<1>3. CASE Power!Release
  <2> DEFINE b == [Power!Seen(FALSE) EXCEPT !.stable = FALSE, !.started = None, !.armed = TRUE]
             t == Append(holds, FALSE)
             next == Power!Seen(FALSE).changedAt
             act == IF button.started = None THEN None ELSE Power!Held(next - button.started)
  <2>1. Power!Changes(FALSE) /\ Power!Update(FALSE, b, act) /\ Len(holds) < MaxSamples
    BY <1>3 DEF Power!Release, Power!Update
  <2>2. Power!Seen(FALSE) \in Power!Button /\ Power!Seen(FALSE).candidate = FALSE
          /\ next \in Power!Time
    BY <1>0, <2>1, PowerSeenIs DEF Power!Button
  <2>3. next = Len(holds) + 1 - Settle /\ SteadyAt(t, Len(holds) + 1)
        /\ button.stable # FALSE
    BY <1>0, <2>1, ChangesAtOnce DEF Power!Changes
  <2>4. /\ b \in Power!Button /\ b.candidate = FALSE /\ b.changedAt = next /\ b.stable = FALSE
        /\ b.armed = TRUE /\ b.started = None
    BY <2>2 DEF Power!Button
  <2>5. act \in Power!Stop \cup {None}
    BY HeldIsStop
  <2> HIDE DEF b
  <2>6. StableIn(t, b.stable)
    BY <1>0, <2>3, <2>4, StableGrows
  <2>7. HoldIn(t, b)
    BY <1>10, <2>4 DEF HoldIn
  <2>8. ActsIn(t, act)
    <3>1. CASE button.started = None
      BY <1>11, <3>1
    <3>2. CASE button.started # None
      <4>1. PICK r, f : HoldSince(holds, r, f) /\ button.started = f - Settle
        BY <1>0, <3>2 DEF HoldIn
      <4>2. f \in Int
        BY <1>0, <4>1 DEF HoldSince
      <4>3. next - button.started = Len(holds) + 1 - f
        <5> HIDE DEF next
        <5> QED
          BY <1>0, <2>3, <4>1, <4>2
      <4>4. act = Power!Held(Len(holds) + 1 - f)
        BY <3>2, <4>3
      <4> HIDE DEF act
      <4> QED
        BY <1>0, <2>3, <4>1, <4>4, HoldEnds
    <3> QED
      BY <3>1, <3>2
  <2>9. b.changedAt = Power!Seen(FALSE).changedAt
    BY <2>4
  <2> HIDE DEF act, t, next
  <2> QED
    BY <2>1, <2>4, <2>5, <2>6, <2>7, <2>8, <2>9, Sampled DEF t
<1>20. ASSUME holds' = holds, button' = button, action' \in {action, None}, Power!TypeOK'
       PROVE  ButtonInv'
  <2>1. Power!KnowsRun' /\ Power!KnowsSteady' /\ Power!KnowsHold'
    <3>1. Power!KnowsRun'
      BY <1>0, <1>20 DEF Power!KnowsRun
    <3>2. Power!KnowsSteady' /\ Power!KnowsHold'
      BY <1>0, <1>20, PowerUnfolds
    <3> QED
      BY <3>1, <3>2
  <2>2. Power!ActsAsHeld'
    BY <1>11, <1>20, ActsUnfolds DEF ButtonInv
  <2> QED
    BY <1>20, <2>1, <2>2 DEF ButtonInv
<1>21. ASSUME holds' = <<>>, button' = Power!NewButton, action' = None, Power!TypeOK'
    PROVE ButtonInv'
  <2>1. Len(holds') = 0
    BY <1>21
  <2>2. Power!NewButton.stable = None /\ Power!NewButton.armed = FALSE /\ Power!NewButton.started = None
        /\ Power!NewButton.candidate = None /\ Power!NewButton.changedAt = 0
    BY DEF Power!NewButton
  <2>3. Power!KnowsRun'
    BY <1>21, <2>1, <2>2 DEF Power!KnowsRun
  <2>4. StableIn(holds', button'.stable)
    BY <1>21, <2>1, <2>2 DEF StableIn, NeverSteady
  <2>5. HoldIn(holds', button')
    BY <1>10, <1>21, <2>2 DEF HoldIn
  <2>6. Power!ActsAsHeld'
    BY <1>11, <1>21, ActsUnfolds
  <2> QED
    BY <1>21, <2>3, <2>4, <2>5, <2>6, PowerUnfolds DEF ButtonInv
<1>4. CASE Power!Refused
  <2>1. Power!TypeOK' /\ holds' = holds /\ button' = button /\ action' = None
    BY <1>0, <1>4 DEF Power!Refused, Power!mailbox, Power!TypeOK
  <2> QED
    BY <1>20, <2>1
<1>22. Power!NewButton \in Power!Button /\ 0 <= MaxSamples /\ <<>> \in Seq(BOOLEAN) /\ Len(<<>>) = 0
  BY PowerAssumption DEF Power!NewButton, Power!Button, Power!Time, Power!PowerConstants
<1>5. CASE Power!ButtonStops
  <2>1. Power!TypeOK' /\ holds' = <<>> /\ button' = Power!NewButton /\ action' = None
    BY <1>0, <1>5, <1>22 DEF Power!ButtonStops, Power!Down, Power!TypeOK
  <2> QED
    BY <1>21, <2>1
<1>6. ASSUME NEW a \in Power!Stop, Power!Ask(a) PROVE ButtonInv'
  <2>1. Power!TypeOK' /\ UNCHANGED <<holds, button, action>>
    BY <1>0, <1>6, PowerAssumption DEF Power!Ask, Power!gesture, Power!TypeOK,
       Power!PowerConstants
  <2> QED
    BY <1>20, <2>1
<1>7. CASE Power!Start
  <2>1. Power!TypeOK' /\ UNCHANGED <<holds, button, action>>
    BY <1>0, <1>7 DEF Power!Start, Power!gesture, Power!TypeOK
  <2> QED
    BY <1>20, <2>1
<1>8. CASE Power!Remove
  <2>1. Power!TypeOK' /\ UNCHANGED <<holds, button, action>>
    BY <1>0, <1>8 DEF Power!Remove, Power!gesture, Power!TypeOK
  <2> QED
    BY <1>20, <2>1
<1>9. CASE Power!WebStops
  <2>1. Power!TypeOK' /\ holds' = <<>> /\ button' = Power!NewButton /\ action' = None
    BY <1>0, <1>9, <1>22 DEF Power!WebStops, Power!Down, Power!TypeOK
  <2> QED
    BY <1>21, <2>1
<1>12. CASE Power!HelperFails
  <2>1. Power!TypeOK' /\ UNCHANGED <<holds, button, action>>
    BY <1>0, <1>12 DEF Power!HelperFails, Power!gesture, Power!TypeOK
  <2> QED
    BY <1>20, <2>1
<1>13. CASE UNCHANGED Power!vars
  <2>1. Power!TypeOK' /\ UNCHANGED <<holds, button, action>>
    BY <1>0, <1>13 DEF Power!vars, Power!TypeOK
  <2> QED
    BY <1>20, <2>1
<1> QED
  BY <1>1, <1>2, <1>3, <1>4, <1>5, <1>6, <1>7, <1>8, <1>9, <1>12, <1>13 DEF Power!Next

-----------------------------------------------------------------------------
(* Requests.                                                               *)

\* Every step keeps the count of requests.
LEMMA RequestStep == ASSUME Power!TypeOK, Power!RequestsCounted, [Power!Next]_(Power!vars)
    PROVE Power!RequestsCounted'
<1>0. halts \in Nat /\ asked \in Nat
  BY PowerAssumption DEF Power!TypeOK, Power!PowerConstants
<1>10. helper # None => helper \in [action : Power!Stop, removed : BOOLEAN]
  BY DEF Power!TypeOK
<1>11. \A a \in Power!Stop : a # None
  BY PowerAssumption DEF Power!PowerConstants
<1>12. \A k \in [action : Power!Stop, removed : BOOLEAN] : k # None
  BY PowerAssumption DEF Power!PowerConstants
<1>1. ASSUME UNCHANGED Power!mailbox PROVE Power!RequestsCounted'
  BY <1>1 DEF Power!mailbox, Power!RequestsCounted
<1>2. CASE Power!ButtonStops
  BY <1>0, <1>2 DEF Power!ButtonStops, Power!Down, Power!RequestsCounted
<1>3. ASSUME NEW a \in Power!Stop, Power!Ask(a) PROVE Power!RequestsCounted'
  BY <1>0, <1>3, <1>11 DEF Power!Ask, Power!RequestsCounted
<1>4. CASE Power!Start
  <2> DEFINE k == [action |-> posted, removed |-> FALSE]
  <2>1. k # None /\ k.removed = FALSE
    BY <1>4, <1>12 DEF Power!Start, Power!TypeOK
  <2>2. helper' = k /\ UNCHANGED <<posted, asked, halts>> /\ posted # None /\ helper = None
    BY <1>4 DEF Power!Start
  <2> HIDE DEF k
  <2> QED
    BY <2>1, <2>2 DEF Power!RequestsCounted
<1>5. CASE Power!Remove
  <2> DEFINE k == [helper EXCEPT !.removed = TRUE]
  <2>1. k # None /\ k.removed = TRUE
    BY <1>5, <1>10, <1>12 DEF Power!Remove
  <2>2. helper' = k /\ posted' = None /\ UNCHANGED <<asked, halts>>
        /\ helper # None /\ ~helper.removed
    BY <1>5 DEF Power!Remove
  <2> HIDE DEF k
  <2> QED
    BY <1>0, <2>1, <2>2 DEF Power!RequestsCounted
<1>6. CASE Power!WebStops
  BY <1>0, <1>6 DEF Power!WebStops, Power!Down, Power!RequestsCounted
<1>7. CASE Power!HelperFails
  BY <1>0, <1>7 DEF Power!HelperFails, Power!RequestsCounted
<1> QED
  BY <1>1, <1>2, <1>3, <1>4, <1>5, <1>6, <1>7
  DEF Power!Next, Power!Unchanged, Power!Press, Power!Release, Power!Update, Power!Refused,
  Power!vars, Power!mailbox

\* The invariant is kept by every step.
LEMMA PowerStep == ASSUME Power!IInv, [Power!Next]_(Power!vars) PROVE Power!IInv'
<1>1. ButtonInv /\ Power!TypeOK /\ Power!RequestsCounted
  BY DEF Power!IInv, ButtonInv
<1>2. ButtonInv' /\ Power!RequestsCounted'
  BY <1>1, ButtonStep, RequestStep
<1> QED
  BY <1>2 DEF Power!IInv, ButtonInv

\* At first nothing was sampled or asked.
LEMMA PowerInit == Power!Init => Power!IInv
<1> SUFFICES ASSUME Power!Init PROVE Power!IInv
  OBVIOUS
<1>1. holds = <<>> /\ Len(holds) = 0 /\ button = Power!NewButton /\ action = None
  BY DEF Power!Init
<1>2. Power!NewButton.stable = None /\ Power!NewButton.armed = FALSE /\ Power!NewButton.started = None
      /\ Power!NewButton.candidate = None /\ Power!NewButton.changedAt = 0
           /\ Power!NewButton \in Power!Button
  BY PowerAssumption DEF Power!NewButton, Power!Button, Power!Time, Power!PowerConstants
<1>3. Power!TypeOK
  BY <1>1, <1>2, PowerAssumption DEF Power!Init, Power!TypeOK, Power!PowerConstants
<1>4. Power!KnowsRun
  BY <1>1, <1>2 DEF Power!KnowsRun
<1>5. StableIn(holds, button.stable) /\ HoldIn(holds, button)
  <2>1. NeverSteady(holds)
    BY <1>1 DEF NeverSteady
  <2>2. None # FALSE
    BY PowerAssumption DEF Power!PowerConstants
  <2> QED
    BY <1>1, <1>2, <2>1, <2>2 DEF StableIn, HoldIn
<1>6. Power!ActsAsHeld
  BY <1>1 DEF Power!ActsAsHeld
<1>7. Power!RequestsCounted
  BY DEF Power!Init, Power!RequestsCounted
<1> QED
  BY <1>3, <1>4, <1>5, <1>6, <1>7, PowerUnfolds DEF Power!IInv

\* It says what is promised of the power button.
LEMMA PowerEnough == Power!IInv => Power!TypeOK /\ Power!ActsAsHeld /\ Power!OneStopPerRequest
<1> SUFFICES ASSUME Power!IInv PROVE Power!OneStopPerRequest
  BY DEF Power!IInv
<1>1. halts \in Nat /\ asked \in Nat
  BY PowerAssumption DEF Power!IInv, Power!TypeOK, Power!PowerConstants
<1> QED
  BY <1>1 DEF Power!IInv, Power!RequestsCounted, Power!OneStopPerRequest

\* The invariant of the power button and its requests holds for ever.
LEMMA PowerInductive == Power!Spec => []Power!IInv
<1>1. Power!IInv /\ [Power!Next]_(Power!vars) => Power!IInv'
  BY PowerStep
<1>2. Power!Init => Power!IInv
  BY PowerInit
<1> QED
  BY <1>1, <1>2, PTL DEF Power!Spec

-----------------------------------------------------------------------------
(* THE PARTS TOGETHER.                                                     *)

\* Each behaviour of the parts is one of every part.
LEMMA PartsSteps ==
    PartsSpec =>
      /\ Spec /\ Video!Spec /\ Web!Spec /\ Pool!Spec
      /\ Board!Spec /\ Keypad!Spec /\ Power!Spec
<1>1. PartsInit =>
        /\ Init /\ Video!Init /\ Web!Init /\ Pool!Init
        /\ Board!Init /\ Keypad!Init /\ Power!Init
  BY DEF PartsInit
<1>2. [PartsNext]_all =>
        /\ [Next]_vars /\ [Video!Next]_(Video!vars) /\ [Web!Next]_(Web!vars)
        /\ [Pool!Next]_(Pool!vars) /\ [Board!Next]_(Board!vars)
        /\ [Keypad!Next]_(Keypad!vars) /\ [Power!Next]_(Power!vars)
  <2> USE DEF rest, video, web, keypad, power, pool, board, Video!vars, Web!vars, Web!store,
              Web!record, Pool!vars, Board!vars, Keypad!vars, Power!vars
  <2>1. CASE Next /\ UNCHANGED <<video, web, rest>>
    BY <2>1
  <2>2. CASE Video!Next /\ UNCHANGED <<vars, web, rest>>
    BY <2>2
  <2>3. CASE Web!Next /\ UNCHANGED <<vars, video, rest>>
    BY <2>3
  <2>4. CASE Keypad!Next /\ UNCHANGED <<vars, video, web, power, pool, board>>
    BY <2>4
  <2>5. CASE Power!Next /\ UNCHANGED <<vars, video, web, keypad, pool, board>>
    BY <2>5
  <2>6. CASE Pool!Next /\ UNCHANGED <<vars, video, web, keypad, power, board>>
    BY <2>6
  <2>7. CASE Board!Next /\ UNCHANGED <<vars, video, web, keypad, power, pool>>
    BY <2>7
  <2>8. CASE UNCHANGED all
    BY <2>8 DEF all
  <2> HIDE DEF rest, video, web, keypad, power, pool, board, Video!vars, Web!vars, Web!store,
               Web!record, Pool!vars, Board!vars, Keypad!vars, Power!vars
  <2> QED
    BY <2>1, <2>2, <2>3, <2>4, <2>5, <2>6, <2>7, <2>8 DEF PartsNext, WebNext, BoardNext
<1> QED
  BY <1>1, <1>2, PTL DEF PartsSpec, Spec, Video!Spec, Web!Spec, Pool!Spec, Board!Spec,
     Keypad!Spec, Power!Spec

\* Every part keeps the types of its variables.
THEOREM PartsTypes == PartsSpec => []PartsTypeOK
<1>1. /\ Video!IInv => Video!TypeOK
      /\ Web!IInv => Web!TypeOK
      /\ Pool!IInv => Pool!TypeOK
      /\ Board!IInv => Board!TypeOK
      /\ Keypad!IInv => Keypad!TypeOK
      /\ Power!IInv => Power!TypeOK
  BY PoolEnough, BoardInvEnough, PowerEnough DEF Video!IInv, Web!IInv, Keypad!IInv
<1>2. TypeOK /\ Video!TypeOK /\ Web!TypeOK /\ Pool!TypeOK /\ Board!TypeOK /\ Keypad!TypeOK
        /\ Power!TypeOK => PartsTypeOK
  BY DEF PartsTypeOK
<1> QED
  BY <1>1, <1>2, PartsSteps, ConsoleTypes, VideoInductive, WebInductive, PoolInductive,
     BoardInductive, KeypadInductive, PowerInductive, PTL

\* Whatever streams and stills are opened, replaced, closed or fail: one capture at a
\* time, the stream that runs is registered, the lock has somebody to give it back.
THEOREM CaptureAlwaysManaged == PartsSpec => []CaptureIsManaged
<1>1. Video!IInv => CaptureIsManaged
  BY VideoInvEnough DEF CaptureIsManaged
<1> QED
  BY <1>1, PartsSteps, VideoInductive, PTL

\* Whatever changes of the password fail, are cut short or are undone by a reset: no
\* session outlives its password, and the one in force is the one last reported.
THEOREM PasswordAlwaysInForce == PartsSpec => []PasswordInForce
<1>1. Web!IInv => PasswordInForce
  BY DEF PasswordInForce, Web!IInv
<1> QED
  BY <1>1, PartsSteps, WebInductive, PTL

\* Whatever requests wait behind one another, fail or are cut short: the password changes,
\* in memory or on disk, only for the request whose own session is running when it does.
THEOREM ChangesAreSignedIn == PartsSpec => ChangedBySignedIn
<1>1. Web!IInv /\ [Web!Next]_(Web!vars) =>
        [Web!AnotherPassword /\ server # "resetting" =>
           \E b \in Browsers : Web!ChangesFor(b)]_(Web!vars)
  BY ChangeStep DEF Web!IInv
<1> QED
  BY <1>1, PartsSteps, WebInductive, PTL DEF Web!Spec, ChangedBySignedIn, Web!ChangedBySignedIn

\* Attempts, slots, tasks, space, uploads of a name, tables and the age of a reading stay
\* within their limits, in every order of their steps.
THEOREM LimitsAlwaysHold == PartsSpec => []LimitsHold
<1>1. Web!IInv => Web!AttemptsBounded /\ Web!ConsolesReturnWhatTheyTook
  BY WebInvEnough DEF Web!IInv
<1>2. Pool!IInv => Pool!SpaceIsKept /\ Pool!OneUploadPerName
  BY PoolEnough
<1>3. Board!IInv => Board!LoginsThrottled /\ Board!TablesBounded /\ Board!ReadingsAreFresh
  BY BoardInvEnough
<1>4. Web!IInv /\ Pool!IInv /\ Board!IInv => LimitsHold
  BY <1>1, <1>2, <1>3 DEF LimitsHold
<1> QED
  BY <1>4, PartsSteps, WebInductive, PoolInductive, BoardInductive, PTL

\* A key is reported for its click, the button does what it was held for, and no request
\* stops the host twice, for any samples.
THEOREM KeysAlwaysActOnce == PartsSpec => []KeysActOnce
<1>1. Keypad!IInv /\ Power!IInv => KeysActOnce
  BY PowerEnough DEF KeysActOnce, Keypad!IInv
<1> QED
  BY <1>1, PartsSteps, KeypadInductive, PowerInductive, PTL
=============================================================================
