---------------------------- MODULE Registration ----------------------------
(***************************************************************************)
(* The registration and licensing server: registration-server/app/main.py. *)
(*                                                                         *)
(* Every request is one database transaction, and on PostgreSQL every      *)
(* transaction takes the same advisory lock first, so a handler is one     *)
(* atomic step.  What interleaves are the requests: enrolment and proofs   *)
(* sent by devices, approvals and releases sent by administrators, retries *)
(* of either, and the clock.                                               *)
(*                                                                         *)
(* Tables are functions from row identifiers to a row or None.  A device   *)
(* row and its immutable hardware serial are one identifier.  An expired   *)
(* token, a used or expired challenge and an expired session are answered  *)
(* by every handler exactly as a missing row, so their identifiers may     *)
(* stand for a later random one.                                           *)
(***************************************************************************)
EXTENDS Naturals, FiniteSets

CONSTANTS
    Customers, Devices, Installations, Keys, Licenses, Tokens, Challenges,
    None,
    MaxTime,        \* bound: last value of the clock
    SeatCounts,     \* bound: values given to max_devices at creation
    LicenseTerms,   \* bound: distances to expires_at an administrator picks
    TokenTTLs,      \* bound: values of token_ttl_seconds
    Grace,          \* cfg.offline_grace_seconds
    ChallengeTTL,   \* cfg.challenge_seconds
    SessionTTL      \* cfg.device_session_seconds

VARIABLES
    clock,          \* now()
    customer,       \* Customer rows: absent, active or archived
    device,         \* Device rows
    inst,           \* Installation rows
    key,            \* DeviceKey rows
    license,        \* License rows
    binding,        \* LicenseBinding, at most one per device
    token,          \* ActivationToken rows
    challenge,      \* Challenge rows still open
    session,        \* latest expiry of an identity's DeviceSession rows
    issued          \* the document last signed for an installation

vars == <<clock, customer, device, inst, key, license, binding, token,
          challenge, session, issued>>

-----------------------------------------------------------------------------
CustomerState == {"ABSENT", "ACTIVE", "ARCHIVED"}
DeviceStatus == {"PENDING", "ACTIVATION_REQUIRED", "ACTIVE", "SUSPENDED",
                 "REVOKED"}
LicenseStatus == {"ACTIVE", "SUSPENDED", "REVOKED"}
Purpose == {"authenticate", "activate"}

DeviceRow == [status : DeviceStatus, archived : BOOLEAN,
              customer : Customers \cup {None}]
InstallationRow == [device : Devices, current : BOOLEAN]
KeyRow == [inst : Installations, current : BOOLEAN]
LicenseRow == [customer : Customers, status : LicenseStatus,
               seats : Nat, expires : Nat \cup {None}]
TokenRow == [inst : Installations, key : Keys, license : Licenses,
             expires : Nat, used : BOOLEAN]
ChallengeRow == [inst : Installations, key : Keys, purpose : Purpose,
                 expires : Nat, attempted : BOOLEAN]
Document == [license : Licenses, expires : Nat]

ASSUME NoneIsNoRow ==
    None \notin Customers \cup Licenses \cup Nat \cup DeviceRow
                \cup InstallationRow \cup KeyRow \cup LicenseRow
                \cup TokenRow \cup ChallengeRow \cup Document

ASSUME BoundsAreNat ==
    /\ MaxTime \in Nat /\ Grace \in Nat
    /\ ChallengeTTL \in Nat /\ SessionTTL \in Nat
    /\ SeatCounts \subseteq Nat \ {0}
    /\ LicenseTerms \subseteq Nat \ {0}
    /\ TokenTTLs \subseteq Nat \ {0}

ASSUME FiniteDevices == IsFiniteSet(Devices)

\* Every table holds rows of its own kind.
TypeOK ==
    /\ clock \in Nat
    /\ customer \in [Customers -> CustomerState]
    /\ device \in [Devices -> DeviceRow \cup {None}]
    /\ inst \in [Installations -> InstallationRow \cup {None}]
    /\ key \in [Keys -> KeyRow \cup {None}]
    /\ license \in [Licenses -> LicenseRow \cup {None}]
    /\ binding \in [Devices -> Licenses \cup {None}]
    /\ token \in [Tokens -> TokenRow \cup {None}]
    /\ challenge \in [Challenges -> ChallengeRow \cup {None}]
    /\ session \in [Installations -> Nat]
    /\ issued \in [Installations -> Document \cup {None}]

Init ==
    /\ clock = 0
    /\ customer = [c \in Customers |-> "ABSENT"]
    /\ device = [d \in Devices |-> None]
    /\ inst = [i \in Installations |-> None]
    /\ key = [k \in Keys |-> None]
    /\ license = [l \in Licenses |-> None]
    /\ binding = [d \in Devices |-> None]
    /\ token = [t \in Tokens |-> None]
    /\ challenge = [c \in Challenges |-> None]
    /\ session = [i \in Installations |-> 0]
    /\ issued = [i \in Installations |-> None]

-----------------------------------------------------------------------------
(* What the handlers read.                                                 *)

ActiveCustomer(c) == customer[c] = "ACTIVE"

LicenseAvailable(l) ==
    /\ license[l].status = "ACTIVE"
    /\ license[l].expires # None => license[l].expires > clock

\* The devices counted against max_devices.
Holders(l) == {d \in Devices : binding[d] = l}

\* state() = "ACTIVE".  Its other results only word a reply.
Active(d) ==
    /\ ~device[d].archived
    /\ device[d].status = "ACTIVE"
    /\ binding[d] # None
    /\ LicenseAvailable(binding[d])

CurrentIdentity(i, k) == inst[i].current /\ key[k].current

\* Mutant: the status of the device answers for every identity it ever had.
AnyIdentityActive(i, k) == Active(inst[i].device)

\* identity_status() = "ACTIVE": this very identity is the device's own.
IdentityActive(i, k) == CurrentIdentity(i, k) /\ Active(inst[i].device)

TokenLive(t) == token[t] # None /\ token[t].expires > clock
ChallengeFresh(c) == challenge[c] # None /\ challenge[c].expires > clock
InstallationsOf(d) == {i \in Installations : inst[i] # None /\ inst[i].device = d}
CurrentInstallations(d) == {i \in InstallationsOf(d) : inst[i].current}

\* Mutant: the identity in place is not looked up.
AnyInstallation(d, i) == TRUE

\* No installation but i holds device d.
SoleInstallation(d, i) == CurrentInstallations(d) \subseteq {i}

\* Mutant: approvals outlive the release of their device.
KeepTokens(d) == UNCHANGED token

\* Unused tokens of d end now; used ones are history.
ExpireTokens(d) ==
    token' = [t \in Tokens |->
                IF /\ token[t] # None
                   /\ inst[token[t].inst].device = d
                   /\ ~token[t].used
                THEN [token[t] EXCEPT !.expires = clock]
                ELSE token[t]]

-----------------------------------------------------------------------------
(* Parts of the device-facing handlers.                                    *)

\* consume(): used_at is set on success and on every rejection.
Consume(c) == challenge' = [challenge EXCEPT ![c] = None]

\* Mutant: the licence date is copied, perpetual licences included.
LicenseDate(l) == license[l].expires

DocumentExpiry(l) ==
    IF license[l].expires # None /\ license[l].expires < clock + Grace
    THEN license[l].expires
    ELSE clock + Grace

\* The signed document and the bearer session of authorize().
Sign(i, l) ==
    /\ issued' = [issued EXCEPT ![i] = [license |-> l, expires |-> DocumentExpiry(l)]]
    /\ session' = [session EXCEPT ![i] = clock + SessionTTL]

Authorize(i, k) ==
    IF IdentityActive(i, k)
    THEN Sign(i, binding[inst[i].device])
    ELSE UNCHANGED <<issued, session>>

-----------------------------------------------------------------------------
(* Device requests.                                                        *)

\* enroll of an identity the server has not seen: a new installation with its
\* only key, under the device row of that serial, created if missing.  A known
\* installation or key changes nothing whether it is accepted or refused.
Enroll(d, i, k) ==
    /\ inst[i] = None
    /\ key[k] = None
    /\ device' = IF device[d] = None
                 THEN [device EXCEPT ![d] = [status |-> "PENDING",
                                             archived |-> FALSE,
                                             customer |-> None]]
                 ELSE device
    /\ inst' = [inst EXCEPT ![i] = [device |-> d, current |-> FALSE]]
    /\ key' = [key EXCEPT ![k] = [inst |-> i, current |-> FALSE]]
    /\ UNCHANGED <<clock, customer, license, binding, token, challenge,
                   session, issued>>

\* Mutant: identifiers are looked up one by one.
BothKnown(i, k) == inst[i] # None /\ key[k] # None

\* identity(): the installation is known and this is its key.
KnownIdentity(i, k) == inst[i] # None /\ key[k] # None /\ key[k].inst = i

IssueChallenge(c, i, k, p) ==
    /\ KnownIdentity(i, k)
    /\ ~ChallengeFresh(c)
    /\ challenge' = [challenge EXCEPT ![c] =
                       [inst |-> i, key |-> k, purpose |-> p,
                        expires |-> clock + ChallengeTTL, attempted |-> FALSE]]
    /\ UNCHANGED <<clock, customer, device, inst, key, license, binding, token,
                   session, issued>>

\* Every reject() reached from verify or activate: a wrong purpose or
\* signature, or any of the refusals of activate.  The challenge stays used.
RejectProof(c) ==
    /\ ChallengeFresh(c)
    /\ Consume(c)
    /\ UNCHANGED <<clock, customer, device, inst, key, license, binding, token,
                   session, issued>>

Verify(c) ==
    /\ ChallengeFresh(c)
    /\ challenge[c].purpose = "authenticate"
    /\ Consume(c)
    /\ Authorize(challenge[c].inst, challenge[c].key)
    /\ UNCHANGED <<clock, customer, device, inst, key, license, binding, token>>

\* The challenge is genuine and the token was made for the identity behind it.
PresentsToken(c, t) ==
    /\ ChallengeFresh(c)
    /\ challenge[c].purpose = "activate"
    /\ TokenLive(t)
    /\ token[t].inst = challenge[c].inst
    /\ token[t].key = challenge[c].key

\* A token already used answers again while the binding it made still stands.
ActivateRetry(c, t) ==
    /\ PresentsToken(c, t)
    /\ token[t].used
    /\ CurrentIdentity(token[t].inst, token[t].key)
    /\ LET d == inst[token[t].inst].device
       IN  device[d].status = "ACTIVE" /\ binding[d] = token[t].license
    /\ Consume(c)
    /\ Authorize(token[t].inst, token[t].key)
    /\ UNCHANGED <<clock, customer, device, inst, key, license, binding, token>>

\* Mutant: a token opens the activation path however often it was used.
ReusableToken(c, t) ==
    /\ PresentsToken(c, t)
    /\ device[inst[token[t].inst].device].status \notin {"REVOKED", "SUSPENDED"}

\* An unused token of a device that may still be activated.
Activatable(c, t) ==
    /\ PresentsToken(c, t)
    /\ ~token[t].used
    /\ device[inst[token[t].inst].device].status \notin {"REVOKED", "SUSPENDED"}

\* active_customer() raises without reject(): the transaction is rolled back
\* and with it the consumption of the challenge.
ActivateRolledBack(c, t) ==
    /\ Activatable(c, t)
    /\ ~ActiveCustomer(license[token[t].license].customer)
    /\ challenge' = [challenge EXCEPT ![c].attempted = TRUE]
    /\ UNCHANGED <<clock, customer, device, inst, key, license, binding, token,
                   session, issued>>

\* Mutant: the last seat is given twice.
SeatOverrun(d, l) ==
    /\ binding[d] \in {None, l}
    /\ binding[d] = l \/ Cardinality(Holders(l)) <= license[l].seats

\* Mutant: an approval for another licence moves the seat without a release.
SeatMoves(d, l) == Cardinality(Holders(l) \ {d}) < license[l].seats

\* activate: bound to no other licence, and a seat is left or already held.
SeatAvailable(d, l) ==
    /\ binding[d] \in {None, l}
    /\ binding[d] = l \/ Cardinality(Holders(l)) < license[l].seats

ActivateBind(c, t) ==
    LET i == token[t].inst
        k == token[t].key
        l == token[t].license
        d == inst[i].device
    IN  /\ Activatable(c, t)
        /\ ActiveCustomer(license[l].customer)
        /\ LicenseAvailable(l)
        /\ SeatAvailable(d, l)
        /\ SoleInstallation(d, i)
        /\ Consume(c)
        /\ binding' = [binding EXCEPT ![d] = l]
        /\ inst' = [inst EXCEPT ![i].current = TRUE]
        /\ key' = [key EXCEPT ![k].current = TRUE]
        /\ device' = [device EXCEPT ![d].status = "ACTIVE",
                                    ![d].customer = license[l].customer]
        /\ token' = [token EXCEPT ![t].used = TRUE]
        /\ Sign(i, l)
        /\ UNCHANGED <<clock, customer, license>>

\* heartbeat: a live session of an identity that is still current.
Heartbeat(i, k) ==
    /\ session[i] > clock
    /\ KnownIdentity(i, k)
    /\ CurrentIdentity(i, k)
    /\ Authorize(i, k)
    /\ UNCHANGED <<clock, customer, device, inst, key, license, binding, token,
                   challenge>>

-----------------------------------------------------------------------------
(* Administrator requests: customers and licences.                         *)

registry == <<inst, key, token, challenge, session, issued>>

CustomerCreate(c) ==
    /\ customer[c] = "ABSENT"
    /\ customer' = [customer EXCEPT ![c] = "ACTIVE"]
    /\ UNCHANGED <<clock, device, license, binding, registry>>

\* Mutant: archival looks at the devices only.
ArchiveDespiteLicense(c) ==
    /\ customer[c] # "ABSENT"
    /\ \A d \in Devices :
         device[d] # None /\ device[d].customer = c /\ ~device[d].archived
           => device[d].status \notin {"ACTIVE", "SUSPENDED"}
    /\ customer' = [customer EXCEPT ![c] = "ARCHIVED"]
    /\ UNCHANGED <<clock, device, license, binding, registry>>

CustomerArchive(c) ==
    /\ customer[c] # "ABSENT"
    /\ \A l \in Licenses :
         license[l] # None /\ license[l].customer = c => ~LicenseAvailable(l)
    /\ \A d \in Devices :
         device[d] # None /\ device[d].customer = c /\ ~device[d].archived
           => device[d].status \notin {"ACTIVE", "SUSPENDED"}
    /\ customer' = [customer EXCEPT ![c] = "ARCHIVED"]
    /\ UNCHANGED <<clock, device, license, binding, registry>>

CustomerRestore(c) ==
    /\ customer[c] # "ABSENT"
    /\ customer' = [customer EXCEPT ![c] = "ACTIVE"]
    /\ UNCHANGED <<clock, device, license, binding, registry>>

\* e is None for a perpetual licence.
LicenseCreate(l, c, n, e) ==
    /\ license[l] = None
    /\ ActiveCustomer(c)
    /\ license' = [license EXCEPT ![l] = [customer |-> c, status |-> "ACTIVE",
                                          seats |-> n, expires |-> e]]
    /\ UNCHANGED <<clock, customer, device, binding, registry>>

\* The new date is in the future but may be earlier than the old one.
LicenseRenew(l, e) ==
    /\ license[l] # None
    /\ ActiveCustomer(license[l].customer)
    /\ license[l].status # "REVOKED"
    /\ license' = [license EXCEPT ![l].expires = e]
    /\ UNCHANGED <<clock, customer, device, binding, registry>>

LicenseControl(l, status) ==
    /\ license[l] # None
    /\ license[l].status # "REVOKED"
    /\ status = "ACTIVE" => ActiveCustomer(license[l].customer)
    /\ license' = [license EXCEPT ![l].status = status]
    /\ UNCHANGED <<clock, customer, device, binding, registry>>

-----------------------------------------------------------------------------
(* Administrator requests: devices.                                        *)

\* editable_device(): archived devices are restored before anything else.
Editable(d) == device[d] # None /\ ~device[d].archived

DeviceCreate(d, c) ==
    /\ device[d] = None
    /\ c # None => ActiveCustomer(c)
    /\ device' = [device EXCEPT ![d] = [status |-> "PENDING", archived |-> FALSE,
                                        customer |-> c]]
    /\ UNCHANGED <<clock, customer, license, binding, registry>>

\* Mutant: ownership is edited without looking at the licence.
DeviceReown(d, c) ==
    /\ Editable(d)
    /\ c # None => ActiveCustomer(c)
    /\ device' = [device EXCEPT ![d].customer = c]
    /\ UNCHANGED <<clock, customer, license, binding, registry>>

DeviceUpdate(d, c) ==
    /\ Editable(d)
    /\ binding[d] # None => c = license[binding[d]].customer
    /\ c # None => ActiveCustomer(c)
    /\ device' = [device EXCEPT ![d].customer = c]
    /\ UNCHANGED <<clock, customer, license, binding, registry>>

DeviceArchive(d) ==
    /\ device[d] # None
    /\ ~Active(d)
    /\ device' = [device EXCEPT ![d].archived = TRUE, ![d].status = "REVOKED"]
    /\ ExpireTokens(d)
    /\ UNCHANGED <<clock, customer, inst, key, license, binding, challenge,
                   session, issued>>

DeviceRestore(d) ==
    /\ device[d] # None
    /\ device' = [device EXCEPT ![d].archived = FALSE]
    /\ UNCHANGED <<clock, customer, license, binding, registry>>

\* approve: a token for exactly this installation, key and licence.
Approve(t, i, k, l, ttl) ==
    LET d == inst[i].device
    IN  /\ ~TokenLive(t)
        /\ inst[i] # None
        /\ Editable(d)
        /\ device[d].status \notin {"REVOKED", "SUSPENDED"}
        /\ key[k] # None /\ key[k].inst = i
        /\ license[l] # None
        /\ SoleInstallation(d, i)
        /\ \A k2 \in Keys \ {k} :
             key[k2] # None /\ key[k2].inst = i => ~key[k2].current
        /\ ActiveCustomer(license[l].customer)
        /\ LicenseAvailable(l)
        /\ token' = [token EXCEPT ![t] = [inst |-> i, key |-> k, license |-> l,
                                          expires |-> clock + ttl, used |-> FALSE]]
        /\ device' = IF device[d].status = "ACTIVE" THEN device
                     ELSE [device EXCEPT ![d].status = "ACTIVATION_REQUIRED"]
        /\ UNCHANGED <<clock, customer, inst, key, license, binding, challenge,
                       session, issued>>

Suspend(d) ==
    /\ Editable(d)
    /\ device' = [device EXCEPT ![d].status = "SUSPENDED"]
    /\ UNCHANGED <<clock, customer, license, binding, registry>>

Revoke(d) ==
    /\ Editable(d)
    /\ device' = [device EXCEPT ![d].status = "REVOKED"]
    /\ UNCHANGED <<clock, customer, license, binding, registry>>

\* Mutant: the owner is taken off, the status stays.
Disowned(row) == [row EXCEPT !.customer = None]

\* The device row after a release.
Released(row) == [row EXCEPT !.status = "PENDING", !.customer = None]

\* reassign: identities, approvals, seat and owner are all released; device
\* sessions stay and are refused by device_session().
Reassign(d) ==
    /\ Editable(d)
    /\ inst' = [i \in Installations |->
                  IF i \in InstallationsOf(d)
                  THEN [inst[i] EXCEPT !.current = FALSE] ELSE inst[i]]
    /\ key' = [k \in Keys |->
                 IF key[k] # None /\ key[k].inst \in InstallationsOf(d)
                 THEN [key[k] EXCEPT !.current = FALSE] ELSE key[k]]
    /\ ExpireTokens(d)
    /\ binding' = [binding EXCEPT ![d] = None]
    /\ device' = [device EXCEPT ![d] = Released(device[d])]
    /\ UNCHANGED <<clock, customer, license, challenge, session, issued>>

Tick ==
    /\ clock < MaxTime
    /\ clock' = clock + 1
    /\ UNCHANGED <<customer, device, license, binding, registry>>

-----------------------------------------------------------------------------
DeviceRequest ==
    \/ \E d \in Devices, i \in Installations, k \in Keys : Enroll(d, i, k)
    \/ \E c \in Challenges, i \in Installations, k \in Keys, p \in Purpose :
         IssueChallenge(c, i, k, p)
    \/ \E c \in Challenges : RejectProof(c) \/ Verify(c)
    \/ \E c \in Challenges, t \in Tokens :
         ActivateRetry(c, t) \/ ActivateRolledBack(c, t) \/ ActivateBind(c, t)
    \/ \E i \in Installations, k \in Keys : Heartbeat(i, k)

LicenseRequest ==
    \/ \E c \in Customers :
         CustomerCreate(c) \/ CustomerArchive(c) \/ CustomerRestore(c)
    \/ \E l \in Licenses, c \in Customers, n \in SeatCounts :
         \E e \in {None} \cup {clock + term : term \in LicenseTerms} :
           LicenseCreate(l, c, n, e)
    \/ \E l \in Licenses, term \in LicenseTerms : LicenseRenew(l, clock + term)
    \/ \E l \in Licenses, status \in LicenseStatus : LicenseControl(l, status)

DeviceAdministration ==
    \/ \E d \in Devices, c \in Customers \cup {None} :
         DeviceCreate(d, c) \/ DeviceUpdate(d, c)
    \/ \E d \in Devices :
         \/ DeviceArchive(d) \/ DeviceRestore(d)
         \/ Suspend(d) \/ Revoke(d) \/ Reassign(d)
    \/ \E t \in Tokens, i \in Installations, k \in Keys, l \in Licenses,
          ttl \in TokenTTLs : Approve(t, i, k, l, ttl)

Next == DeviceRequest \/ LicenseRequest \/ DeviceAdministration \/ Tick

Spec == Init /\ [][Next]_vars

-----------------------------------------------------------------------------
(* Properties.                                                             *)

\* Whatever the order of approvals, retries and releases, no licence is bound
\* to more devices than max_devices (the count in activate).
SeatsWithinLicense ==
    \A l \in Licenses : license[l] # None => Cardinality(Holders(l)) <= license[l].seats

\* A device has at most one current installation, that installation and its key
\* are current together, and it exists exactly while the device is bound:
\* activate and reassign move licence, installation and key as one.
SeatHasOneIdentity ==
    /\ \A i, j \in Installations :
         /\ inst[i] # None /\ inst[j] # None
         /\ inst[i].current /\ inst[j].current
         /\ inst[i].device = inst[j].device
         => i = j
    /\ \A k \in Keys : key[k] # None =>
         inst[key[k].inst] # None /\ (key[k].current <=> inst[key[k].inst].current)
    /\ \A d \in Devices : binding[d] # None <=> CurrentInstallations(d) # {}

\* A bound device belongs to the customer of its licence (activate sets the
\* owner, device_update and reassign may not separate the two).
OwnershipAgrees ==
    \A d \in Devices : binding[d] # None =>
        /\ device[d] # None
        /\ license[binding[d]] # None
        /\ device[d].customer = license[binding[d]].customer

\* Status ACTIVE is backed by a binding, so the retry path of activate never
\* reads a licence that is not there; an archived device is REVOKED.
StatusBacked ==
    \A d \in Devices : device[d] # None =>
        /\ device[d].status = "ACTIVE" => binding[d] # None
        /\ device[d].archived => device[d].status = "REVOKED"

\* An archived customer has no usable licence and no active device, whatever is
\* renewed, resumed, approved or activated afterwards.
ArchivedCustomerIdle ==
    \A c \in Customers : customer[c] = "ARCHIVED" =>
        /\ \A l \in Licenses :
             license[l] # None /\ license[l].customer = c => ~LicenseAvailable(l)
        /\ \A d \in Devices :
             device[d] # None /\ device[d].customer = c => device[d].status # "ACTIVE"

\* An approval never outlives the decision it was made under: no usable token
\* of a device that was archived or released (reassign) after it was issued.
NoStaleApproval ==
    \A t \in Tokens : TokenLive(t) /\ ~token[t].used =>
        LET d == inst[token[t].inst].device
        IN  ~device[d].archived /\ device[d].status # "PENDING"

\* An installation becomes current only by using up a token nobody had used: a
\* retried or replayed activation cannot resurrect a released identity.
RebindNeedsFreshToken ==
    [][\A i \in Installations :
         (inst[i] # None /\ ~inst[i].current /\ inst'[i].current) =>
            \E t \in Tokens : /\ TokenLive(t) /\ token[t].inst = i
                             /\ ~token[t].used /\ token'[t].used]_vars

\* The installation whose document is last in issued may have it.
Entitled(i) ==
    LET d == inst[i].device
        l == binding[d]
    IN  /\ inst[i].current
        /\ device[d].status = "ACTIVE" /\ ~device[d].archived
        /\ issued[i].license = l
        /\ ActiveCustomer(license[l].customer)
        /\ LicenseAvailable(l)
        /\ license[l].expires # None => issued[i].expires <= license[l].expires

\* A document is signed only for the current installation of an active device,
\* under its own usable licence, of a customer who is not archived (which
\* authorize does not look at), and it ends no later than that licence.
DocumentsFollowSeat ==
    [][\A i \in Installations : issued'[i] # issued[i] => Entitled(i)']_vars

\* Rows refer to rows that exist, and an installation keeps the one key it was
\* enrolled with (identity() refuses a second key).
References ==
    /\ \A i \in Installations : inst[i] # None => device[inst[i].device] # None
    /\ \A k, k2 \in Keys :
         key[k] # None /\ key[k2] # None /\ key[k].inst = key[k2].inst => k = k2
    /\ \A t \in Tokens : token[t] # None =>
         /\ inst[token[t].inst] # None
         /\ key[token[t].key] # None /\ key[token[t].key].inst = token[t].inst
         /\ license[token[t].license] # None
    /\ \A c \in Challenges : challenge[c] # None =>
         /\ inst[challenge[c].inst] # None
         /\ key[challenge[c].key] # None
         /\ key[challenge[c].key].inst = challenge[c].inst

\* Licences belong to customers that were created and never vanish: archival is
\* the only way out.
LicensesOwned ==
    \A l \in Licenses : license[l] # None => customer[license[l].customer] # "ABSENT"

\* The inductive invariant: every part is needed to keep another one.
IInv ==
    /\ TypeOK
    /\ References
    /\ LicensesOwned
    /\ SeatHasOneIdentity
    /\ OwnershipAgrees
    /\ StatusBacked
    /\ SeatsWithinLicense
    /\ ArchivedCustomerIdle
    /\ NoStaleApproval

\* docs/API.md: a challenge can be attempted once.  An open challenge has not
\* been submitted yet.
ChallengeAttemptedOnce ==
    \A c \in Challenges : ChallengeFresh(c) => ~challenge[c].attempted

-----------------------------------------------------------------------------
(* The promise of LicenseSeats, kept by this server.                       *)

HeldSeats ==
    {s \in [device : Devices, license : Licenses, inst : Installations] :
        /\ binding[s.device] = s.license
        /\ s.inst \in CurrentInstallations(s.device)}

SeatsOffered ==
    [l \in Licenses |-> IF license[l] = None THEN 0 ELSE license[l].seats]

LastPaper ==
    [i \in Installations |-> IF issued[i] = None THEN None ELSE issued[i].license]

Promise == INSTANCE LicenseSeats WITH
    capacity <- SeatsOffered, seats <- HeldSeats, paper <- LastPaper

\* The server implements LicenseSeats: a seat is granted within capacity to a
\* device without one, and given up before it is granted again.
SeatPromise == Promise!Spec
=============================================================================
