---------------------------- MODULE WireGuardPeers ----------------------------
(***************************************************************************)
(* The WireGuard server: the peer manager (scripts/kdx-wg-server.py), the  *)
(* enrolment grants (scripts/kdx-wg-enroll.py) and the setup command       *)
(* (scripts/kdx-wg-register.py).                                           *)
(*                                                                         *)
(* A peer exists three times: in the configuration file, in the registry   *)
(* and in the running interface.  One process at a time changes them,      *)
(* under a lock that is refused and not waited for; a failed step undoes   *)
(* the earlier ones, a killed process undoes nothing.  A hostname and its  *)
(* serial number are one device, a key and its request identifier are one. *)
(***************************************************************************)
EXTENDS Naturals, FiniteSets

CONSTANTS
    Devices, Keys,
    Addresses,      \* the allocation pool
    Leases,         \* enrolment grants
    None,
    MaxCrashes      \* bound: kills and reboots

VARIABLES
    conf,           \* wg0.conf: address of each configured key
    live,           \* the running interface
    registry,       \* kdx-peers.json: the registered peer of a device
    change,         \* the transaction that holds the lock
    grant,          \* the lease files
    login,          \* leases whose SSH key is in authorized_keys
    serve,          \* the forced command of each lease
    made,           \* keys that became peers in the name of a lease
    unsettled,      \* keys of a transaction that was killed or not undone
    crashes

vars == <<conf, live, registry, change, grant, login, serve, made, unsettled, crashes>>
peers == <<conf, live, registry>>
grants == <<grant, login>>

-----------------------------------------------------------------------------
Peer == [key : Keys, address : Addresses]
Peers == [Keys -> Addresses \cup {None}]
Registry == [Devices -> Peer \cup {None}]
Request == [device : Devices, key : Keys]
Phase == {"config", "registry", "live", "undo config", "undo registry", "undo live"}
Change == [phase : Phase, device : Devices, key : Keys, address : Addresses \cup {None},
           by : Leases \cup {None}, conf : Peers, live : Peers, registry : Registry,
           touched : BOOLEAN]
Grant == [state : {"authorized", "completed", "revoked"}, device : Devices,
          expired : BOOLEAN, key : Keys \cup {None}]
Serve == [phase : {"waiting", "bound", "add", "adding", "complete"}, request : Request]

ASSUME NoneIsNothing ==
    /\ None \notin Keys \cup Addresses \cup Leases
    /\ None \notin Change /\ None \notin Grant /\ None \notin Serve
ASSUME BoundIsNat == MaxCrashes \in Nat

TypeOK ==
    /\ conf \in Peers /\ live \in Peers /\ registry \in Registry
    /\ change \in Change \cup {None}
    /\ grant \in [Leases -> Grant \cup {None}] /\ login \subseteq Leases
    /\ serve \in [Leases -> Serve \cup {None}]
    /\ made \in [Leases -> SUBSET Keys] /\ unsettled \subseteq Keys
    /\ crashes \in Nat

\* Before the tool is used there may be a peer, or none; its address may lie in
\* the pool.
Init ==
    /\ conf \in {f \in Peers : \A k, j \in Keys : f[k] # None /\ f[j] # None => k = j}
    /\ live = conf
    /\ registry = [d \in Devices |-> None]
    /\ change = None
    /\ grant = [l \in Leases |-> None] /\ login = {}
    /\ serve = [l \in Leases |-> None]
    /\ made = [l \in Leases |-> {}] /\ unsettled = {} /\ crashes = 0

-----------------------------------------------------------------------------
(* Server.add and Server.remove.                                           *)

Registered == {registry[d] : d \in Devices} \ {None}

\* Mutant: the running interface is not asked.
FreeOnDisk == {a \in Addresses :
                 /\ \A k \in Keys : conf[k] # a
                 /\ \A r \in Registered : r.address # a}

\* Every address a copy mentions is taken.
Free == {a \in Addresses :
           /\ \A k \in Keys : conf[k] # a /\ live[k] # a
           /\ \A r \in Registered : r.address # a}

Duplicate(q) ==
    \/ registry[q.device] # None
    \/ conf[q.key] # None \/ live[q.key] # None
    \/ \E r \in Registered : r.key = q.key

Begin(d, k, a, l) ==
    change' = [phase |-> "config", device |-> d, key |-> k, address |-> a, by |-> l,
               conf |-> conf, live |-> live, registry |-> registry, touched |-> FALSE]

CanAdd(q) == change = None /\ ~Duplicate(q)

\* By the administrator, or for kdx-wg-register.py once it found no registration.
Add(q) ==
    /\ CanAdd(q)
    /\ \E a \in Free : Begin(q.device, q.key, a, None)
    /\ UNCHANGED <<peers, grants, serve, made, unsettled, crashes>>

\* Only what was registered and is as it was registered.
Remove(d) ==
    LET r == registry[d]
    IN  /\ change = None /\ r # None
        /\ conf[r.key] = r.address /\ live[r.key] \in {r.address, None}
        /\ Begin(d, r.key, None, None)
        /\ UNCHANGED <<peers, grants, serve, made, unsettled, crashes>>

-----------------------------------------------------------------------------
(* Server.transaction: configuration, registry, interface.                 *)

At(phase) == change # None /\ change.phase = phase
Then(phase) == change' = [change EXCEPT !.phase = phase]
With(copy) == [copy EXCEPT ![change.key] = change.address]

WriteConfig ==
    /\ At("config")
    /\ conf' = With(conf)
    /\ Then("registry")
    /\ UNCHANGED <<live, registry, grants, serve, made, unsettled, crashes>>

\* Mutant: a removed peer stays in the registry without an address.
WriteRegistryBlank ==
    /\ At("registry")
    /\ registry' = [registry EXCEPT ![change.device] =
                      [key |-> change.key, address |-> change.address]]
    /\ Then("live")
    /\ UNCHANGED <<conf, live, grants, serve, made, unsettled, crashes>>

WriteRegistry ==
    /\ At("registry")
    /\ registry' = [registry EXCEPT ![change.device] =
                      IF change.address = None THEN None
                      ELSE [key |-> change.key, address |-> change.address]]
    /\ Then("live")
    /\ UNCHANGED <<conf, live, grants, serve, made, unsettled, crashes>>

\* What a grant's process does when the transaction has ended.
Resumes(phase) ==
    serve' = IF change.by = None THEN serve
             ELSE [serve EXCEPT ![change.by] =
                     IF phase = "complete" THEN [@ EXCEPT !.phase = phase] ELSE None]

SetLive ==
    /\ At("live")
    /\ live' = With(live)
    /\ made' = IF change.by = None THEN made
               ELSE [made EXCEPT ![change.by] = @ \cup {change.key}]
    /\ Resumes("complete")
    /\ change' = None
    /\ UNCHANGED <<conf, registry, grants, unsettled, crashes>>

\* A write or `wg set` fails; wg may have done its work when it times out.
StepFails ==
    /\ change # None /\ change.phase \in {"config", "registry", "live"}
    /\ change' = [change EXCEPT !.phase = "undo config", !.touched = change.phase = "live"]
    /\ live' \in IF change.phase = "live" THEN {live, With(live)} ELSE {live}
    /\ UNCHANGED <<conf, registry, grants, serve, made, unsettled, crashes>>

UndoConfig ==
    /\ At("undo config")
    /\ conf' = change.conf
    /\ Then("undo registry")
    /\ UNCHANGED <<live, registry, grants, serve, made, unsettled, crashes>>

\* Mutant: the interface is left as the failed command left it.
UndoRegistryOnly ==
    /\ At("undo registry")
    /\ registry' = change.registry
    /\ change' = None
    /\ Resumes("failed")
    /\ UNCHANGED <<conf, live, grants, made, unsettled, crashes>>

\* The interface is put back only if it was touched.
UndoRegistry ==
    /\ At("undo registry")
    /\ registry' = change.registry
    /\ IF change.touched THEN Then("undo live") /\ UNCHANGED serve
       ELSE change' = None /\ Resumes("failed")
    /\ UNCHANGED <<conf, live, grants, made, unsettled, crashes>>

UndoLive ==
    /\ At("undo live")
    /\ live' = [live EXCEPT ![change.key] = change.live[change.key]]
    /\ change' = None
    /\ Resumes("failed")
    /\ UNCHANGED <<conf, registry, grants, made, unsettled, crashes>>

\* "Rollback needs operator recovery", or a second failed write.
UndoFails ==
    /\ change # None /\ change.phase \in {"undo config", "undo registry", "undo live"}
    /\ unsettled' = unsettled \cup {change.key}
    /\ change' = None
    /\ Resumes("failed")
    /\ UNCHANGED <<peers, grants, made, crashes>>

-----------------------------------------------------------------------------
(* Enrolment grants.  A device has one transport key, which authorize      *)
(* refuses while an entry for it exists.  A process killed between the     *)
(* lease and authorized_keys leaves the second as it was.                  *)

Authorize(l, d) ==
    /\ grant[l] = None
    /\ \A m \in login : grant[m].device # d
    /\ grant' = [grant EXCEPT ![l] = [state |-> "authorized", device |-> d, expired |-> FALSE,
                                      key |-> None]]
    /\ login' \in {login, login \cup {l}}
    /\ UNCHANGED <<peers, change, serve, made, unsettled, crashes>>

Expire(l) ==
    /\ grant[l] # None /\ ~grant[l].expired
    /\ grant' = [grant EXCEPT ![l].expired = TRUE]
    /\ UNCHANGED <<peers, change, login, serve, made, unsettled, crashes>>

\* Mutant: revoke does not wait for the lease.
LeaseIgnored(l) == TRUE

\* The lease's lock is held from the first read of the grant to the last write.
LeaseFree(l) == serve[l] # None => serve[l].phase = "waiting"

Revoke(l) ==
    /\ grant[l] # None /\ LeaseFree(l)
    /\ grant' = [grant EXCEPT ![l].state = "revoked"]
    /\ login' \in {login, login \ {l}}
    /\ UNCHANGED <<peers, change, serve, made, unsettled, crashes>>

\* The device opens an SSH session; sshd honours the entry and its expiry.
Login(l, q) ==
    /\ l \in login /\ ~grant[l].expired
    /\ serve[l] = None
    /\ serve' = [serve EXCEPT ![l] = [phase |-> "waiting", request |-> q]]
    /\ UNCHANGED <<peers, change, grants, made, unsettled, crashes>>

\* Mutant: a failed attempt does not bind the grant.
AcceptsAny(l, q) ==
    /\ grant[l].state = "authorized" /\ ~grant[l].expired
    /\ q.device = grant[l].device

\* The first request a grant accepts is the only one it will ever accept.
Accepts(l, q) ==
    /\ grant[l].state = "authorized" /\ ~grant[l].expired
    /\ q.device = grant[l].device
    /\ grant[l].key \in {None, q.key}

Serving(l, phase) == serve[l] # None /\ serve[l].phase = phase
Ends(l) == serve' = [serve EXCEPT ![l] = None]
Goes(l, phase) == serve' = [serve EXCEPT ![l].phase = phase]

\* The grant is bound to the request before anything else happens.
Bind(l) ==
    LET q == serve[l].request
    IN  /\ Serving(l, "waiting") /\ Accepts(l, q)
        /\ grant' = [grant EXCEPT ![l].key = q.key]
        /\ Goes(l, "bound")
        /\ UNCHANGED <<peers, change, login, made, unsettled, crashes>>

\* Refused, or answered with the registration a completed grant has kept.
Answer(l) ==
    /\ Serving(l, "waiting") /\ ~Accepts(l, serve[l].request)
    /\ Ends(l)
    /\ UNCHANGED <<peers, change, grants, made, unsettled, crashes>>

\* manager.records() is read without the manager's lock.
Lookup(l) ==
    LET q == serve[l].request
        r == registry[q.device]
    IN  /\ Serving(l, "bound")
        /\ Goes(l, IF r # None /\ r.key = q.key THEN "complete" ELSE "add")
        /\ UNCHANGED <<peers, change, grants, made, unsettled, crashes>>

GrantAdds(l) ==
    LET q == serve[l].request
    IN  /\ Serving(l, "add") /\ CanAdd(q)
        /\ \E a \in Free : Begin(q.device, q.key, a, l)
        /\ Goes(l, "adding")
        /\ UNCHANGED <<peers, grants, made, unsettled, crashes>>

\* Another operation runs, the peer is a duplicate or the pool is exhausted.
GrantRefused(l) ==
    /\ Serving(l, "add")
    /\ CanAdd(serve[l].request) => Free = {}
    /\ Ends(l)
    /\ UNCHANGED <<peers, change, grants, made, unsettled, crashes>>

Complete(l) ==
    /\ Serving(l, "complete")
    /\ grant' = [grant EXCEPT ![l].state = "completed"]
    /\ Ends(l)
    /\ UNCHANGED <<peers, change, login, made, unsettled, crashes>>

-----------------------------------------------------------------------------
(* Crashes.                                                                *)

Abandoned == IF change = None THEN {} ELSE {change.key}

\* The process that serves a grant, or the administrator's.
Kill(l) ==
    /\ crashes < MaxCrashes /\ crashes' = crashes + 1
    /\ IF l = None THEN change # None /\ change.by = None ELSE serve[l] # None
    /\ serve' = IF l = None THEN serve ELSE [serve EXCEPT ![l] = None]
    /\ IF change # None /\ change.by = l
       THEN change' = None /\ unsettled' = unsettled \cup Abandoned
       ELSE UNCHANGED <<change, unsettled>>
    /\ UNCHANGED <<peers, grants, made>>

\* wg-quick brings the interface up from its file.
Reboot ==
    /\ crashes < MaxCrashes /\ crashes' = crashes + 1
    /\ live' = conf
    /\ serve' = [l \in Leases |-> None]
    /\ change' = None /\ unsettled' = unsettled \cup Abandoned
    /\ UNCHANGED <<conf, registry, grants, made>>

-----------------------------------------------------------------------------
Transaction ==
    \/ WriteConfig \/ WriteRegistry \/ SetLive \/ StepFails
    \/ UndoConfig \/ UndoRegistry \/ UndoLive \/ UndoFails

Enrolment(l) ==
    \/ \E d \in Devices : Authorize(l, d)
    \/ Expire(l) \/ Revoke(l)
    \/ \E q \in Request : Login(l, q)
    \/ Bind(l) \/ Answer(l) \/ Lookup(l) \/ GrantAdds(l) \/ GrantRefused(l) \/ Complete(l)

Next ==
    \/ \E q \in Request : Add(q)
    \/ \E d \in Devices : Remove(d)
    \/ Transaction
    \/ \E l \in Leases : Enrolment(l)
    \/ \E l \in Leases \cup {None} : Kill(l)
    \/ Reboot

Spec == Init /\ [][Next]_vars

-----------------------------------------------------------------------------
(* Properties.                                                             *)

\* The address of a key according to one of the three copies.
Claimed(k, a) ==
    \/ conf[k] = a \/ live[k] = a
    \/ \E d \in Devices : registry[d] # None /\ registry[d].key = k /\ registry[d].address = a

\* No two keys ever share an address, within a copy or across copies, whatever
\* fails, is undone, killed or rebooted between the writes.
AddressesUnique ==
    \A k, j \in Keys, a \in Addresses : Claimed(k, a) /\ Claimed(j, a) => k = j

\* At rest the three copies agree about every key whose last transaction was
\* neither killed nor left half undone: failed changes are restored
\* (docs/wireguard-provisioning.md).
CopiesAgree ==
    change = None =>
        \A k \in Keys \ unsettled :
            /\ conf[k] = live[k]
            /\ \A r \in Registered : r.key = k => conf[k] = r.address

\* docs/wireguard-provisioning.md: only one peer is created per grant, also when
\* replies are lost, processes killed and requests repeated with a new key.
OnePeerPerGrant == \A l \in Leases : Cardinality(made[l]) <= 1

\* Once a grant is revoked no transaction starts in its name, even for a session
\* that was already waiting.
RevokedGrantAddsNothing ==
    [][\A l \in Leases :
         change = None /\ change' # None /\ change'.by = l => grant[l].state # "revoked"]_vars

-----------------------------------------------------------------------------
(* The invariant behind AddressesUnique: what a transaction is about to    *)
(* write, or to put back, counts as claimed.  A grant outlives its login   *)
(* and its process, and a transaction made for a grant its process.        *)

Pending(k, a) ==
    change # None /\
        \/ change.key = k /\ change.address = a
        \/ change.conf[k] = a \/ change.live[k] = a
        \/ \E d \in Devices : /\ change.registry[d] # None
                              /\ change.registry[d].key = k /\ change.registry[d].address = a

Reserved(k, a) == Claimed(k, a) \/ Pending(k, a)

ReservedOnce ==
    \A k, j \in Keys, a \in Addresses : Reserved(k, a) /\ Reserved(j, a) => k = j

GrantsExist ==
    /\ \A l \in login : grant[l] # None
    /\ \A l \in Leases : serve[l] # None => grant[l] # None

TransactionServed == change # None /\ change.by # None => Serving(change.by, "adding")

\* What a grant has accepted, is adding and has made is one key.
GrantsBound ==
    /\ \A l \in Leases : serve[l] # None /\ serve[l].phase # "waiting" =>
         grant[l].state # "revoked" /\ grant[l].key = serve[l].request.key
    /\ \A l \in Leases : change # None /\ change.by = l => change.key = grant[l].key
    /\ \A l \in Leases : \A k \in made[l] : grant[l] # None /\ grant[l].key = k

IInv == TypeOK /\ GrantsExist /\ TransactionServed /\ GrantsBound /\ ReservedOnce

-----------------------------------------------------------------------------
(* The invariant behind CopiesAgree: each copy is the one the transaction  *)
(* saved, or that one with its change, by phase; what it saved agreed      *)
(* about every settled key, and no two devices are registered with one     *)
(* key.                                                                    *)

KeysOnce(r) ==
    \A d, e \in Devices : r[d] # None /\ r[e] # None /\ r[d].key = r[e].key => d = e

AgreeOn(c, l, r, k) ==
    /\ c[k] = l[k]
    /\ \A d \in Devices : r[d] # None /\ r[d].key = k => c[k] = r[d].address

Rewritten ==
    [change.registry EXCEPT ![change.device] =
       IF change.address = None THEN None
       ELSE [key |-> change.key, address |-> change.address]]

\* The change is about the registration of one device, and about no other's key.
OneDevice ==
    /\ KeysOnce(change.registry)
    /\ \A d \in Devices : change.registry[d] # None =>
         (change.registry[d].key = change.key <=> d = change.device)

CopiesKnown ==
    /\ conf \in {change.conf, With(change.conf)}
    /\ change.phase = "config" => conf = change.conf
    /\ change.phase \in {"registry", "live"} => conf = With(change.conf)
    /\ change.phase \in {"undo registry", "undo live"} => conf = change.conf
    /\ registry \in {change.registry, Rewritten}
    /\ change.phase \in {"config", "registry", "undo live"} => registry = change.registry
    /\ change.phase = "live" => registry = Rewritten
    /\ live \in {change.live, With(change.live)}
    /\ ~change.touched => live = change.live
    /\ change.phase \in {"config", "registry", "live"} => ~change.touched

CopiesInv ==
    /\ KeysOnce(registry)
    /\ change = None => \A k \in Keys \ unsettled : AgreeOn(conf, live, registry, k)
    /\ change # None =>
         /\ OneDevice /\ CopiesKnown
         /\ \A k \in Keys \ unsettled :
              AgreeOn(change.conf, change.live, change.registry, k)
=============================================================================
