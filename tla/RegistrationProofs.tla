-------------------------- MODULE RegistrationProofs --------------------------
(***************************************************************************)
(* Proofs about the registration server, for every number of customers,    *)
(* devices, installations, keys, licences, tokens and challenges.          *)
(***************************************************************************)
EXTENDS Registration, FiniteSetTheorems, TLAPS

-----------------------------------------------------------------------------
(* What the parts of the device-facing handlers establish.                 *)

\* Signing for a licence that exists stores a document and a session.
LEMMA SignTyped ==
    ASSUME TypeOK, NEW i \in Installations, NEW l \in Licenses,
           license[l] # None, Sign(i, l)
    PROVE  /\ issued' \in [Installations -> Document \cup {None}]
           /\ session' \in [Installations -> Nat]
<1>1. DocumentExpiry(l) \in Nat
  BY BoundsAreNat DEF TypeOK, DocumentExpiry, LicenseRow
<1>2. QED
  BY <1>1, BoundsAreNat DEF TypeOK, Sign, Document

\* authorize of an enrolled identity stores at most that.
LEMMA AuthorizeTyped ==
    ASSUME IInv, NEW i \in Installations, NEW k \in Keys,
           inst[i] # None, Authorize(i, k)
    PROVE  /\ issued' \in [Installations -> Document \cup {None}]
           /\ session' \in [Installations -> Nat]
<1>1. CASE IdentityActive(i, k)
  <2>1. inst[i].device \in Devices
    BY DEF IInv, TypeOK, InstallationRow
  <2> DEFINE l == binding[inst[i].device]
  <2>2. l \in Licenses /\ license[l] # None
    BY <1>1, <2>1 DEF IInv, TypeOK, IdentityActive, Active, OwnershipAgrees
  <2>3. Sign(i, l)
    BY <1>1 DEF Authorize
  <2>4. QED
    BY <2>2, <2>3, SignTyped DEF IInv
<1>2. CASE ~IdentityActive(i, k)
  BY <1>2 DEF Authorize, IInv, TypeOK
<1>3. QED
  BY <1>1, <1>2

-----------------------------------------------------------------------------
(* Type correctness, one step per action.                                  *)

LEMMA TypeStep == IInv /\ [Next]_vars => TypeOK'
<1> SUFFICES ASSUME IInv, [Next]_vars PROVE TypeOK'
  OBVIOUS
<1>t. TypeOK
  BY DEF IInv
<1> USE <1>t, BoundsAreNat DEF TypeOK, registry
<1>1. ASSUME NEW d \in Devices, NEW i \in Installations, NEW k \in Keys,
             Enroll(d, i, k)
      PROVE  TypeOK'
  <2>1. [status |-> "PENDING", archived |-> FALSE, customer |-> None] \in DeviceRow
    BY DEF DeviceRow, DeviceStatus
  <2>2. [device |-> d, current |-> FALSE] \in InstallationRow
    BY DEF InstallationRow
  <2>3. [inst |-> i, current |-> FALSE] \in KeyRow
    BY DEF KeyRow
  <2>4. QED
    BY <1>1, <2>1, <2>2, <2>3 DEF Enroll
<1>2. ASSUME NEW c \in Challenges, NEW i \in Installations, NEW k \in Keys,
             NEW p \in Purpose, IssueChallenge(c, i, k, p)
      PROVE  TypeOK'
  BY <1>2 DEF IssueChallenge, KnownIdentity, ChallengeRow
<1>3. ASSUME NEW c \in Challenges, RejectProof(c) PROVE TypeOK'
  BY <1>3 DEF RejectProof, Consume
<1>4. ASSUME NEW c \in Challenges, Verify(c) PROVE TypeOK'
  <2>1. challenge[c] \in ChallengeRow
    BY <1>4 DEF Verify, ChallengeFresh
  <2>2. challenge[c].inst \in Installations /\ challenge[c].key \in Keys
    BY <2>1 DEF ChallengeRow
  <2>3. inst[challenge[c].inst] # None
    BY <1>4 DEF Verify, ChallengeFresh, IInv, References
  <2>4. QED
    BY <1>4, <2>2, <2>3, AuthorizeTyped DEF Verify, Consume
<1>5. ASSUME NEW c \in Challenges, NEW t \in Tokens, ActivateRetry(c, t)
      PROVE  TypeOK'
  <2>1. token[t] \in TokenRow
    BY <1>5 DEF ActivateRetry, PresentsToken, TokenLive
  <2>2. token[t].inst \in Installations /\ token[t].key \in Keys
    BY <2>1 DEF TokenRow
  <2>3. inst[token[t].inst] # None
    BY <1>5 DEF ActivateRetry, PresentsToken, TokenLive, IInv, References
  <2>4. QED
    BY <1>5, <2>2, <2>3, AuthorizeTyped DEF ActivateRetry, Consume
<1>6. ASSUME NEW c \in Challenges, NEW t \in Tokens, ActivateRolledBack(c, t)
      PROVE  TypeOK'
  BY <1>6 DEF ActivateRolledBack, Activatable, PresentsToken, ChallengeFresh,
              ChallengeRow
<1>7. ASSUME NEW c \in Challenges, NEW t \in Tokens, ActivateBind(c, t)
      PROVE  TypeOK'
  <2> DEFINE i == token[t].inst
             k == token[t].key
             l == token[t].license
             d == inst[i].device
  <2>1. token[t] \in TokenRow
    BY <1>7 DEF ActivateBind, Activatable, PresentsToken, TokenLive
  <2>2. i \in Installations /\ k \in Keys /\ l \in Licenses
    BY <2>1 DEF TokenRow
  <2>3. inst[i] \in InstallationRow /\ key[k] \in KeyRow /\ license[l] \in LicenseRow
    BY <1>7, <2>2 DEF ActivateBind, Activatable, PresentsToken, TokenLive,
                      IInv, References
  <2>4. d \in Devices /\ device[d] \in DeviceRow
    BY <2>2, <2>3, NoneIsNoRow DEF IInv, References, InstallationRow
  <2>5. Sign(i, l) /\ license[l] # None
    BY <1>7, <2>3, NoneIsNoRow DEF ActivateBind
  <2>6. /\ issued' \in [Installations -> Document \cup {None}]
        /\ session' \in [Installations -> Nat]
    BY <2>2, <2>5, SignTyped
  <2>7. inst' \in [Installations -> InstallationRow \cup {None}]
    BY <1>7, <2>2, <2>3 DEF ActivateBind, InstallationRow
  <2>8. key' \in [Keys -> KeyRow \cup {None}]
    BY <1>7, <2>2, <2>3 DEF ActivateBind, KeyRow
  <2>9. device' \in [Devices -> DeviceRow \cup {None}]
    BY <1>7, <2>3, <2>4 DEF ActivateBind, DeviceRow, DeviceStatus, LicenseRow
  <2>10. token' \in [Tokens -> TokenRow \cup {None}]
    BY <1>7, <2>1 DEF ActivateBind, TokenRow
  <2>11. QED
    BY <1>7, <2>2, <2>4, <2>6, <2>7, <2>8, <2>9, <2>10 DEF ActivateBind, Consume
<1>8. ASSUME NEW i \in Installations, NEW k \in Keys, Heartbeat(i, k)
      PROVE  TypeOK'
  <2>1. inst[i] # None
    BY <1>8 DEF Heartbeat, KnownIdentity, IInv, SeatHasOneIdentity
  <2>2. QED
    BY <1>8, <2>1, AuthorizeTyped DEF Heartbeat
<1>9. ASSUME NEW c \in Customers,
             CustomerCreate(c) \/ CustomerArchive(c) \/ CustomerRestore(c)
      PROVE  TypeOK'
  BY <1>9 DEF CustomerCreate, CustomerArchive, CustomerRestore, CustomerState
<1>10. ASSUME NEW l \in Licenses, NEW c \in Customers, NEW n \in SeatCounts,
              NEW e \in {None} \cup {clock + term : term \in LicenseTerms},
              LicenseCreate(l, c, n, e)
       PROVE  TypeOK'
  <2>1. \A term \in LicenseTerms : clock + term \in Nat
    OBVIOUS
  <2>2. e \in Nat \cup {None}
    BY <2>1
  <2>3. [customer |-> c, status |-> "ACTIVE", seats |-> n, expires |-> e] \in LicenseRow
    BY <2>2 DEF LicenseRow, LicenseStatus
  <2>4. QED
    BY <1>10, <2>3 DEF LicenseCreate
<1>11. ASSUME NEW l \in Licenses, NEW term \in LicenseTerms,
              LicenseRenew(l, clock + term)
       PROVE  TypeOK'
  BY <1>11 DEF LicenseRenew, LicenseRow
<1>12. ASSUME NEW l \in Licenses, NEW status \in LicenseStatus,
              LicenseControl(l, status)
       PROVE  TypeOK'
  BY <1>12 DEF LicenseControl, LicenseRow
<1>13. ASSUME NEW d \in Devices, NEW c \in Customers \cup {None},
              DeviceCreate(d, c) \/ DeviceUpdate(d, c)
       PROVE  TypeOK'
  <2>1. CASE DeviceCreate(d, c)
    BY <2>1 DEF DeviceCreate, DeviceRow, DeviceStatus
  <2>2. CASE DeviceUpdate(d, c)
    <3>1. [device[d] EXCEPT !.customer = c] \in DeviceRow
      BY <2>2 DEF DeviceUpdate, Editable, DeviceRow
    <3>2. QED
      BY <2>2, <3>1 DEF DeviceUpdate
  <2>3. QED
    BY <1>13, <2>1, <2>2
<1>14. ASSUME NEW d \in Devices, ExpireTokens(d)
       PROVE  token' \in [Tokens -> TokenRow \cup {None}]
  BY <1>14 DEF ExpireTokens, TokenRow
<1>15. ASSUME NEW d \in Devices,
              DeviceArchive(d) \/ DeviceRestore(d) \/ Suspend(d) \/ Revoke(d)
       PROVE  TypeOK'
  <2>1. device[d] \in DeviceRow
    BY <1>15 DEF DeviceArchive, DeviceRestore, Suspend, Revoke, Editable
  <2>2. [device[d] EXCEPT !.archived = TRUE, !.status = "REVOKED"] \in DeviceRow
    BY <2>1 DEF DeviceRow, DeviceStatus
  <2>3. [device[d] EXCEPT !.archived = FALSE] \in DeviceRow
    BY <2>1 DEF DeviceRow
  <2>4. CASE DeviceArchive(d)
    <3>1. device' = [device EXCEPT ![d] = [device[d] EXCEPT !.archived = TRUE,
                                                            !.status = "REVOKED"]]
      BY <2>4 DEF DeviceArchive
    <3>2. QED
      BY <1>14, <2>2, <2>4, <3>1 DEF DeviceArchive
  <2>5. CASE DeviceRestore(d)
    <3>1. device' = [device EXCEPT ![d] = [device[d] EXCEPT !.archived = FALSE]]
      BY <2>5 DEF DeviceRestore
    <3>2. QED
      BY <2>3, <2>5, <3>1 DEF DeviceRestore
  <2>6. CASE Suspend(d)
    <3>1. [device[d] EXCEPT !.status = "SUSPENDED"] \in DeviceRow
      BY <2>1 DEF DeviceRow, DeviceStatus
    <3>2. device' = [device EXCEPT ![d] = [device[d] EXCEPT !.status = "SUSPENDED"]]
      BY <2>6 DEF Suspend
    <3>3. QED
      BY <2>6, <3>1, <3>2 DEF Suspend
  <2>7. CASE Revoke(d)
    <3>1. [device[d] EXCEPT !.status = "REVOKED"] \in DeviceRow
      BY <2>1 DEF DeviceRow, DeviceStatus
    <3>2. device' = [device EXCEPT ![d] = [device[d] EXCEPT !.status = "REVOKED"]]
      BY <2>7 DEF Revoke
    <3>3. QED
      BY <2>7, <3>1, <3>2 DEF Revoke
  <2>8. QED
    BY <1>15, <2>4, <2>5, <2>6, <2>7
<1>16. ASSUME NEW d \in Devices, Reassign(d) PROVE TypeOK'
  <2>1. inst' \in [Installations -> InstallationRow \cup {None}]
    BY <1>16 DEF Reassign, InstallationsOf, InstallationRow
  <2>2. key' \in [Keys -> KeyRow \cup {None}]
    BY <1>16 DEF Reassign, KeyRow
  <2>3. device' \in [Devices -> DeviceRow \cup {None}]
    <3>1. [device[d] EXCEPT !.status = "PENDING", !.customer = None] \in DeviceRow
      <4>1. device[d] \in DeviceRow
        BY <1>16 DEF Reassign, Editable
      <4>2. QED
        BY <4>1 DEF DeviceRow, DeviceStatus
    <3>2. device' = [device EXCEPT ![d] = [device[d] EXCEPT !.status = "PENDING",
                                                            !.customer = None]]
      BY <1>16 DEF Reassign, Released
    <3>3. QED
      BY <3>1, <3>2
  <2>4. QED
    BY <1>14, <1>16, <2>1, <2>2, <2>3 DEF Reassign
<1>17. ASSUME NEW t \in Tokens, NEW i \in Installations, NEW k \in Keys,
              NEW l \in Licenses, NEW ttl \in TokenTTLs, Approve(t, i, k, l, ttl)
       PROVE  TypeOK'
  <2>1. inst[i].device \in Devices
    BY <1>17 DEF Approve, InstallationRow
  <2>2. device' \in [Devices -> DeviceRow \cup {None}]
    BY <1>17, <2>1 DEF Approve, Editable, DeviceRow, DeviceStatus
  <2>3. token' \in [Tokens -> TokenRow \cup {None}]
    BY <1>17 DEF Approve, TokenRow
  <2>4. QED
    BY <1>17, <2>2, <2>3 DEF Approve
<1>18. ASSUME Tick PROVE TypeOK'
  BY <1>18 DEF Tick
<1>19. ASSUME UNCHANGED vars PROVE TypeOK'
  BY <1>19 DEF vars
<1>20. QED
  BY <1>1, <1>2, <1>3, <1>4, <1>5, <1>6, <1>7, <1>8, <1>9, <1>10, <1>11, <1>12,
     <1>13, <1>15, <1>16, <1>17, <1>18, <1>19
  DEF Next, DeviceRequest, LicenseRequest, DeviceAdministration

-----------------------------------------------------------------------------
(* Facts about rows that the effects below rest on.                        *)

\* A row of any table is not None.
LEMMA RowsAreNotNone ==
    /\ \A r \in DeviceRow : r # None
    /\ \A r \in InstallationRow : r # None
    /\ \A r \in KeyRow : r # None
    /\ \A r \in LicenseRow : r # None
    /\ \A r \in TokenRow : r # None
    /\ \A r \in ChallengeRow : r # None
  BY NoneIsNoRow

\* The rows an activation works on exist and are the ones its token names.
LEMMA BindRows ==
    ASSUME IInv, NEW c \in Challenges, NEW t \in Tokens, ActivateBind(c, t)
    PROVE  /\ token[t] \in TokenRow
           /\ token[t].inst \in Installations /\ inst[token[t].inst] \in InstallationRow
           /\ token[t].key \in Keys /\ key[token[t].key] \in KeyRow
           /\ key[token[t].key].inst = token[t].inst
           /\ token[t].license \in Licenses /\ license[token[t].license] \in LicenseRow
           /\ inst[token[t].inst].device \in Devices
           /\ device[inst[token[t].inst].device] \in DeviceRow
<1>1. TypeOK /\ References /\ token[t] # None
  BY DEF IInv, ActivateBind, Activatable, PresentsToken, TokenLive
<1>2. token[t] \in TokenRow
  BY <1>1 DEF TypeOK
<1>3. /\ token[t].inst \in Installations
      /\ token[t].key \in Keys
      /\ token[t].license \in Licenses
  BY <1>2 DEF TokenRow
<1>4. /\ inst[token[t].inst] # None
      /\ key[token[t].key] # None
      /\ key[token[t].key].inst = token[t].inst
      /\ license[token[t].license] # None
  BY <1>1 DEF References
<1>5. /\ inst[token[t].inst] \in InstallationRow
      /\ key[token[t].key] \in KeyRow
      /\ license[token[t].license] \in LicenseRow
  BY <1>1, <1>3, <1>4 DEF TypeOK
<1>6. inst[token[t].inst].device \in Devices
  BY <1>5 DEF InstallationRow
<1>7. device[inst[token[t].inst].device] \in DeviceRow
  BY <1>1, <1>3, <1>4, <1>6 DEF TypeOK, References
<1>8. QED
  BY <1>2, <1>3, <1>4, <1>5, <1>6, <1>7

-----------------------------------------------------------------------------
(* The updates, row by row and column by column.                           *)

LEMMA BindEffect ==
    ASSUME IInv, NEW c \in Challenges, NEW t \in Tokens, ActivateBind(c, t)
    PROVE  LET i == token[t].inst
               k == token[t].key
               l == token[t].license
               d == inst[i].device
           IN  /\ inst'[i] \in InstallationRow
               /\ inst'[i].device = d /\ inst'[i].current
               /\ \A j \in Installations \ {i} : inst'[j] = inst[j]
               /\ key'[k] \in KeyRow /\ key'[k].inst = i /\ key'[k].current
               /\ \A k2 \in Keys \ {k} : key'[k2] = key[k2]
               /\ device'[d] \in DeviceRow
               /\ device'[d].status = "ACTIVE"
               /\ device'[d].archived = device[d].archived
               /\ device'[d].customer = license[l].customer
               /\ \A d2 \in Devices \ {d} : device'[d2] = device[d2]
               /\ binding'[d] = l
               /\ \A d2 \in Devices \ {d} : binding'[d2] = binding[d2]
               /\ token'[t] \in TokenRow
               /\ token'[t].inst = i /\ token'[t].key = k
               /\ token'[t].license = l /\ token'[t].used
               /\ \A t2 \in Tokens \ {t} : token'[t2] = token[t2]
               /\ UNCHANGED <<clock, customer, license>>
<1> DEFINE i == token[t].inst
           k == token[t].key
           l == token[t].license
           d == inst[i].device
<1> USE BindRows
<1>t. TypeOK
  BY DEF IInv
<1>1. /\ inst'[i] \in InstallationRow /\ inst'[i].device = d /\ inst'[i].current
      /\ \A j \in Installations \ {i} : inst'[j] = inst[j]
  BY <1>t DEF ActivateBind, TypeOK, InstallationRow
<1>2. /\ key'[k] \in KeyRow /\ key'[k].inst = i /\ key'[k].current
      /\ \A k2 \in Keys \ {k} : key'[k2] = key[k2]
  BY <1>t DEF ActivateBind, TypeOK, KeyRow
<1>3. device' = [device EXCEPT ![d] = [device[d] EXCEPT !.status = "ACTIVE",
                                                        !.customer = license[l].customer]]
  BY DEF ActivateBind
<1>4. license[l].customer \in Customers
  BY DEF LicenseRow
<1>5. /\ device'[d] \in DeviceRow
      /\ device'[d].status = "ACTIVE"
      /\ device'[d].archived = device[d].archived
      /\ device'[d].customer = license[l].customer
      /\ \A d2 \in Devices \ {d} : device'[d2] = device[d2]
  BY <1>t, <1>3, <1>4 DEF TypeOK, DeviceRow, DeviceStatus
<1>6. /\ binding'[d] = l
      /\ \A d2 \in Devices \ {d} : binding'[d2] = binding[d2]
  BY <1>t DEF ActivateBind, TypeOK
<1>7. /\ token'[t] \in TokenRow
      /\ token'[t].inst = i /\ token'[t].key = k
      /\ token'[t].license = l /\ token'[t].used
      /\ \A t2 \in Tokens \ {t} : token'[t2] = token[t2]
  BY <1>t DEF ActivateBind, TypeOK, TokenRow
<1>8. UNCHANGED <<clock, customer, license>>
  BY DEF ActivateBind
<1>9. QED
  BY <1>1, <1>2, <1>5, <1>6, <1>7, <1>8

\* Archiving and releasing end the unused tokens of a device and nothing else.
LEMMA ExpireEffect ==
    ASSUME TypeOK, NEW d \in Devices, ExpireTokens(d)
    PROVE  \A t \in Tokens :
             /\ token[t] = None => token'[t] = None
             /\ token[t] # None =>
                  /\ token'[t] \in TokenRow
                  /\ token'[t].inst = token[t].inst
                  /\ token'[t].key = token[t].key
                  /\ token'[t].license = token[t].license
                  /\ token'[t].used = token[t].used
                  /\ inst[token[t].inst].device = d /\ ~token[t].used
                       => token'[t].expires = clock
                  /\ token'[t].expires # token[t].expires => token'[t].expires = clock
<1> SUFFICES ASSUME NEW t \in Tokens, token[t] # None
             PROVE  /\ token'[t] \in TokenRow
                    /\ token'[t].inst = token[t].inst
                    /\ token'[t].key = token[t].key
                    /\ token'[t].license = token[t].license
                    /\ token'[t].used = token[t].used
                    /\ inst[token[t].inst].device = d /\ ~token[t].used
                         => token'[t].expires = clock
                    /\ token'[t].expires # token[t].expires => token'[t].expires = clock
  BY DEF ExpireTokens, TypeOK
<1>1. token[t] \in TokenRow
  BY DEF TypeOK
<1>2. QED
  BY <1>1 DEF ExpireTokens, TypeOK, TokenRow

LEMMA ReassignEffect ==
    ASSUME TypeOK, NEW d \in Devices, Reassign(d)
    PROVE  /\ \A i \in Installations :
                IF inst[i] # None /\ inst[i].device = d
                THEN inst'[i] \in InstallationRow /\ inst'[i].device = d /\ ~inst'[i].current
                ELSE inst'[i] = inst[i]
           /\ \A k \in Keys :
                IF key[k] # None /\ inst[key[k].inst] # None /\ inst[key[k].inst].device = d
                THEN key'[k] \in KeyRow /\ key'[k].inst = key[k].inst /\ ~key'[k].current
                ELSE key'[k] = key[k]
           /\ device'[d] \in DeviceRow
           /\ device'[d].status = "PENDING" /\ ~device'[d].archived
           /\ device'[d].customer = None
           /\ \A e \in Devices \ {d} : device'[e] = device[e]
           /\ binding'[d] = None
           /\ \A e \in Devices \ {d} : binding'[e] = binding[e]
<1>1. \A i \in Installations :
        IF inst[i] # None /\ inst[i].device = d
        THEN inst'[i] \in InstallationRow /\ inst'[i].device = d /\ ~inst'[i].current
        ELSE inst'[i] = inst[i]
  BY DEF Reassign, InstallationsOf, TypeOK, InstallationRow
<1>2. \A k \in Keys :
        IF key[k] # None /\ inst[key[k].inst] # None /\ inst[key[k].inst].device = d
        THEN key'[k] \in KeyRow /\ key'[k].inst = key[k].inst /\ ~key'[k].current
        ELSE key'[k] = key[k]
  BY DEF Reassign, InstallationsOf, TypeOK, KeyRow
<1>3. device[d] \in DeviceRow /\ ~device[d].archived
  BY DEF Reassign, Editable, TypeOK
<1>4. device' = [device EXCEPT ![d] = [device[d] EXCEPT !.status = "PENDING",
                                                        !.customer = None]]
  BY DEF Reassign, Released
<1>5. /\ device'[d] \in DeviceRow
      /\ device'[d].status = "PENDING" /\ ~device'[d].archived
      /\ device'[d].customer = None
      /\ \A e \in Devices \ {d} : device'[e] = device[e]
  BY <1>3, <1>4 DEF TypeOK, DeviceRow, DeviceStatus
<1>6. /\ binding'[d] = None
      /\ \A e \in Devices \ {d} : binding'[e] = binding[e]
  BY DEF Reassign, TypeOK
<1>7. QED
  BY <1>1, <1>2, <1>5, <1>6

\* Suspending, revoking, archiving and restoring: status and archival only.
DeviceControl(d) == DeviceArchive(d) \/ DeviceRestore(d) \/ Suspend(d) \/ Revoke(d)

LEMMA ControlEffect ==
    ASSUME TypeOK, NEW d \in Devices, DeviceControl(d)
    PROVE  /\ device[d] \in DeviceRow /\ device'[d] \in DeviceRow
           /\ device'[d].customer = device[d].customer
           /\ device'[d].status = "ACTIVE" => device[d].status = "ACTIVE"
           /\ device'[d].status = "PENDING" => device[d].status = "PENDING"
           /\ device'[d].archived => device'[d].status = "REVOKED"
           /\ \A e \in Devices \ {d} : device'[e] = device[e]
           /\ UNCHANGED <<clock, customer, inst, key, license, binding>>
<1>1. device[d] \in DeviceRow
  BY DEF DeviceControl, DeviceArchive, DeviceRestore, Suspend, Revoke, Editable, TypeOK
<1>2. CASE DeviceArchive(d)
  <2>1. device' = [device EXCEPT ![d] = [device[d] EXCEPT !.archived = TRUE,
                                                          !.status = "REVOKED"]]
    BY <1>2 DEF DeviceArchive
  <2>2. /\ device'[d] \in DeviceRow /\ device'[d].status = "REVOKED"
        /\ device'[d].customer = device[d].customer
        /\ \A e \in Devices \ {d} : device'[e] = device[e]
    BY <1>1, <2>1 DEF TypeOK, DeviceRow, DeviceStatus
  <2>3. UNCHANGED <<clock, customer, inst, key, license, binding>>
    BY <1>2 DEF DeviceArchive
  <2>4. QED
    BY <1>1, <2>2, <2>3
<1>3. CASE DeviceRestore(d)
  BY <1>1, <1>3 DEF DeviceRestore, TypeOK, DeviceRow, registry
<1>4. CASE Suspend(d)
  BY <1>1, <1>4 DEF Suspend, Editable, TypeOK, DeviceRow, DeviceStatus, registry
<1>5. CASE Revoke(d)
  BY <1>1, <1>5 DEF Revoke, Editable, TypeOK, DeviceRow, DeviceStatus, registry
<1>6. QED
  BY <1>1, <1>2, <1>3, <1>4, <1>5 DEF DeviceControl

LEMMA EnrollEffect ==
    ASSUME TypeOK, NEW d \in Devices, NEW i \in Installations, NEW k \in Keys,
           Enroll(d, i, k)
    PROVE  /\ inst[i] = None /\ key[k] = None
           /\ device[d] # None => device' = device
           /\ device[d] = None =>
                /\ device'[d] \in DeviceRow /\ device'[d].customer = None
                /\ device'[d].status = "PENDING" /\ ~device'[d].archived
           /\ \A e \in Devices \ {d} : device'[e] = device[e]
           /\ inst'[i] \in InstallationRow /\ inst'[i].device = d /\ ~inst'[i].current
           /\ \A j \in Installations \ {i} : inst'[j] = inst[j]
           /\ key'[k] \in KeyRow /\ key'[k].inst = i /\ ~key'[k].current
           /\ \A k2 \in Keys \ {k} : key'[k2] = key[k2]
           /\ UNCHANGED <<clock, customer, license, binding, token, challenge>>
<1>1. /\ inst'[i] \in InstallationRow /\ inst'[i].device = d /\ ~inst'[i].current
      /\ \A j \in Installations \ {i} : inst'[j] = inst[j]
  BY DEF Enroll, TypeOK, InstallationRow
<1>2. /\ key'[k] \in KeyRow /\ key'[k].inst = i /\ ~key'[k].current
      /\ \A k2 \in Keys \ {k} : key'[k2] = key[k2]
  BY DEF Enroll, TypeOK, KeyRow
<1>3. /\ device[d] # None => device' = device
      /\ device[d] = None =>
           /\ device'[d] \in DeviceRow /\ device'[d].customer = None
           /\ device'[d].status = "PENDING" /\ ~device'[d].archived
      /\ \A e \in Devices \ {d} : device'[e] = device[e]
  BY DEF Enroll, TypeOK, DeviceRow, DeviceStatus
<1>4. QED
  BY <1>1, <1>2, <1>3 DEF Enroll

LEMMA OwnEffect ==
    ASSUME TypeOK, NEW d \in Devices, NEW c \in Customers \cup {None},
           DeviceCreate(d, c) \/ DeviceUpdate(d, c)
    PROVE  /\ device'[d] \in DeviceRow /\ device'[d].customer = c
           /\ device[d] = None => device'[d].status = "PENDING" /\ ~device'[d].archived
           /\ device[d] # None => /\ device'[d].status = device[d].status
                                  /\ device'[d].archived = device[d].archived
           /\ binding[d] # None /\ device[d] # None => c = license[binding[d]].customer
           /\ c # None => customer[c] = "ACTIVE"
           /\ \A e \in Devices \ {d} : device'[e] = device[e]
           /\ UNCHANGED <<clock, customer, inst, key, license, binding, token, challenge>>
<1>1. CASE DeviceCreate(d, c)
  BY <1>1 DEF DeviceCreate, ActiveCustomer, TypeOK, DeviceRow, DeviceStatus, registry
<1>2. CASE DeviceUpdate(d, c)
  <2>1. device[d] \in DeviceRow
    BY <1>2 DEF DeviceUpdate, Editable, TypeOK
  <2>2. QED
    BY <1>2, <2>1, RowsAreNotNone DEF DeviceUpdate, ActiveCustomer, Editable, TypeOK,
                                      DeviceRow, registry
<1>3. QED
  BY <1>1, <1>2

LEMMA ApproveEffect ==
    ASSUME TypeOK, NEW t \in Tokens, NEW i \in Installations, NEW k \in Keys,
           NEW l \in Licenses, NEW ttl \in TokenTTLs, Approve(t, i, k, l, ttl)
    PROVE  LET d == inst[i].device
           IN  /\ inst[i] \in InstallationRow /\ d \in Devices
               /\ key[k] \in KeyRow /\ key[k].inst = i
               /\ license[l] \in LicenseRow
               /\ device[d] \in DeviceRow /\ ~device[d].archived
               /\ device'[d] \in DeviceRow /\ ~device'[d].archived
               /\ device'[d].customer = device[d].customer
               /\ device'[d].status = "ACTIVE" <=> device[d].status = "ACTIVE"
               /\ device'[d].status # "PENDING"
               /\ \A e \in Devices \ {d} : device'[e] = device[e]
               /\ token'[t] \in TokenRow /\ token'[t].inst = i
               /\ token'[t].key = k /\ token'[t].license = l
               /\ \A t2 \in Tokens \ {t} : token'[t2] = token[t2]
               /\ UNCHANGED <<clock, customer, inst, key, license, binding, challenge>>
<1> DEFINE d == inst[i].device
<1>1. inst[i] \in InstallationRow /\ key[k] \in KeyRow /\ license[l] \in LicenseRow
  BY DEF Approve, TypeOK
<1>2. d \in Devices
  BY <1>1 DEF InstallationRow
<1>3. device[d] \in DeviceRow /\ ~device[d].archived
  BY <1>2 DEF Approve, Editable, TypeOK
<1>4. /\ device'[d] \in DeviceRow /\ ~device'[d].archived
      /\ device'[d].customer = device[d].customer
      /\ device'[d].status = "ACTIVE" <=> device[d].status = "ACTIVE"
      /\ device'[d].status # "PENDING"
      /\ \A e \in Devices \ {d} : device'[e] = device[e]
  <2>1. CASE device[d].status = "ACTIVE"
    BY <1>2, <1>3, <2>1 DEF Approve
  <2>2. CASE device[d].status # "ACTIVE"
    BY <1>2, <1>3, <2>2 DEF Approve, TypeOK, DeviceRow, DeviceStatus
  <2>3. QED
    BY <2>1, <2>2
<1>5. /\ token'[t] \in TokenRow /\ token'[t].inst = i
      /\ token'[t].key = k /\ token'[t].license = l
      /\ \A t2 \in Tokens \ {t} : token'[t2] = token[t2]
  BY BoundsAreNat DEF Approve, TypeOK, TokenRow
<1>6. QED
  BY <1>1, <1>2, <1>3, <1>4, <1>5 DEF Approve

\* Creating, renewing and controlling licences.
LEMMA LicenseEffect ==
    ASSUME TypeOK, TypeOK', NEW l \in Licenses,
           \/ \E c \in Customers, n \in SeatCounts, e \in Nat \cup {None} :
                LicenseCreate(l, c, n, e)
           \/ \E e \in Nat : LicenseRenew(l, e)
           \/ \E status \in LicenseStatus : LicenseControl(l, status)
    PROVE  /\ license'[l] \in LicenseRow
           /\ license[l] # None =>
                /\ license'[l].customer = license[l].customer
                /\ license'[l].seats = license[l].seats
           /\ license[l] = None => customer[license'[l].customer] = "ACTIVE"
           /\ LicenseAvailable(l)' =>
                \/ customer[license'[l].customer] = "ACTIVE"
                \/ license[l] # None /\ LicenseAvailable(l)
           /\ \A m \in Licenses \ {l} : license'[m] = license[m]
           /\ UNCHANGED <<clock, customer, device, inst, key, binding, token, challenge>>
<1>1. CASE \E c \in Customers, n \in SeatCounts, e \in Nat \cup {None} :
             LicenseCreate(l, c, n, e)
  <2>1. PICK c \in Customers, n \in SeatCounts, e \in Nat \cup {None} :
          LicenseCreate(l, c, n, e)
    BY <1>1
  <2>2. [customer |-> c, status |-> "ACTIVE", seats |-> n, expires |-> e] \in LicenseRow
    BY BoundsAreNat DEF LicenseRow, LicenseStatus
  <2>3. QED
    BY <2>1, <2>2 DEF LicenseCreate, ActiveCustomer, TypeOK, registry
<1>2. CASE \E e \in Nat : LicenseRenew(l, e)
  <2>1. PICK e \in Nat : LicenseRenew(l, e)
    BY <1>2
  <2>2. license[l] \in LicenseRow
    BY <2>1 DEF LicenseRenew, TypeOK
  <2>3. /\ license'[l] \in LicenseRow
        /\ license'[l].customer = license[l].customer
        /\ license'[l].seats = license[l].seats
    BY <2>1, <2>2 DEF LicenseRenew, TypeOK, LicenseRow
  <2>4. QED
    BY <2>1, <2>3 DEF LicenseRenew, ActiveCustomer, TypeOK, registry
<1>3. CASE \E status \in LicenseStatus : LicenseControl(l, status)
  <2>1. PICK status \in LicenseStatus : LicenseControl(l, status)
    BY <1>3
  <2>2. license[l] \in LicenseRow
    BY <2>1 DEF LicenseControl, TypeOK
  <2>3. /\ license'[l] \in LicenseRow
        /\ license'[l].customer = license[l].customer
        /\ license'[l].seats = license[l].seats
        /\ license'[l].status = status
    BY <2>1, <2>2 DEF LicenseControl, TypeOK, LicenseRow
  <2>4. QED
    BY <2>1, <2>3 DEF LicenseControl, LicenseAvailable, ActiveCustomer, TypeOK, registry
<1>4. QED
  BY <1>1, <1>2, <1>3

\* The requests that read the registry and write only challenges and replies.
Reading ==
    \/ \E c \in Challenges :
         \/ RejectProof(c) \/ Verify(c)
         \/ \E t \in Tokens : ActivateRetry(c, t) \/ ActivateRolledBack(c, t)
    \/ \E i \in Installations, k \in Keys : Heartbeat(i, k)
    \/ UNCHANGED vars

LEMMA ReadingEffect ==
    ASSUME TypeOK, Reading
    PROVE  /\ UNCHANGED <<clock, customer, device, inst, key, license, binding, token>>
           /\ \A c \in Challenges : challenge'[c] # None =>
                /\ challenge[c] # None
                /\ challenge'[c].inst = challenge[c].inst
                /\ challenge'[c].key = challenge[c].key
<1>1. ASSUME NEW c \in Challenges, Consume(c)
      PROVE  \A b \in Challenges : challenge'[b] # None => challenge'[b] = challenge[b]
  BY <1>1 DEF Consume, TypeOK
<1>2. ASSUME NEW c \in Challenges, NEW t \in Tokens, ActivateRolledBack(c, t)
      PROVE  \A b \in Challenges : challenge'[b] # None =>
                /\ challenge[b] # None
                /\ challenge'[b].inst = challenge[b].inst
                /\ challenge'[b].key = challenge[b].key
  <2>1. challenge[c] \in ChallengeRow
    BY <1>2 DEF ActivateRolledBack, Activatable, PresentsToken, ChallengeFresh, TypeOK
  <2>2. QED
    BY <1>2, <2>1, RowsAreNotNone DEF ActivateRolledBack, TypeOK, ChallengeRow
<1>3. QED
  BY <1>1, <1>2 DEF Reading, RejectProof, Verify, ActivateRetry, ActivateRolledBack,
                    Heartbeat, vars

\* Issuing a challenge and the customer requests.
LEMMA ChallengeEffect ==
    ASSUME TypeOK, NEW c \in Challenges, NEW i \in Installations, NEW k \in Keys,
           NEW p \in Purpose, IssueChallenge(c, i, k, p)
    PROVE  /\ UNCHANGED <<clock, customer, device, inst, key, license, binding, token>>
           /\ inst[i] # None /\ key[k] # None /\ key[k].inst = i
           /\ challenge'[c].inst = i /\ challenge'[c].key = k
           /\ \A b \in Challenges \ {c} : challenge'[b] = challenge[b]
  BY DEF IssueChallenge, KnownIdentity, TypeOK

\* The next-state relation, grouped the way the proofs below need it.
LEMMA StepCases ==
    ASSUME TypeOK, [Next]_vars
    PROVE  \/ \E d \in Devices, i \in Installations, k \in Keys : Enroll(d, i, k)
           \/ \E c \in Challenges, i \in Installations, k \in Keys, p \in Purpose :
                IssueChallenge(c, i, k, p)
           \/ Reading
           \/ \E c \in Challenges, t \in Tokens : ActivateBind(c, t)
           \/ \E c \in Customers : CustomerCreate(c) \/ CustomerArchive(c) \/ CustomerRestore(c)
           \/ \E l \in Licenses :
                \/ \E c \in Customers, n \in SeatCounts, e \in Nat \cup {None} :
                     LicenseCreate(l, c, n, e)
                \/ \E e \in Nat : LicenseRenew(l, e)
                \/ \E status \in LicenseStatus : LicenseControl(l, status)
           \/ \E d \in Devices, c \in Customers \cup {None} :
                DeviceCreate(d, c) \/ DeviceUpdate(d, c)
           \/ \E d \in Devices : DeviceControl(d) \/ Reassign(d)
           \/ \E t \in Tokens, i \in Installations, k \in Keys, l \in Licenses,
                 ttl \in TokenTTLs : Approve(t, i, k, l, ttl)
           \/ Tick
<1>1. \A term \in LicenseTerms : clock + term \in Nat
  BY BoundsAreNat DEF TypeOK
<1>2. ASSUME LicenseRequest
      PROVE  \/ \E c \in Customers : CustomerCreate(c) \/ CustomerArchive(c) \/ CustomerRestore(c)
             \/ \E l \in Licenses :
                  \/ \E c \in Customers, n \in SeatCounts, e \in Nat \cup {None} :
                       LicenseCreate(l, c, n, e)
                  \/ \E e \in Nat : LicenseRenew(l, e)
                  \/ \E status \in LicenseStatus : LicenseControl(l, status)
  BY <1>1, <1>2 DEF LicenseRequest
<1>3. QED
  BY <1>2 DEF Next, DeviceRequest, DeviceAdministration, Reading, DeviceControl

-----------------------------------------------------------------------------
(* The parts of the inductive invariant.                                   *)

\* No row is lost, no foreign key changes, and no token or challenge is new.
RowsKept ==
    /\ \A d \in Devices : device[d] # None => device'[d] # None
    /\ \A i \in Installations : inst'[i] # None <=> inst[i] # None
    /\ \A i \in Installations : inst[i] # None => inst'[i].device = inst[i].device
    /\ \A k \in Keys : key'[k] # None <=> key[k] # None
    /\ \A k \in Keys : key[k] # None => key'[k].inst = key[k].inst
    /\ \A l \in Licenses : license[l] # None => license'[l] # None
    /\ \A t \in Tokens : token'[t] # None =>
         /\ token[t] # None
         /\ token'[t].inst = token[t].inst
         /\ token'[t].key = token[t].key
         /\ token'[t].license = token[t].license
    /\ \A c \in Challenges : challenge'[c] # None =>
         /\ challenge[c] # None
         /\ challenge'[c].inst = challenge[c].inst
         /\ challenge'[c].key = challenge[c].key

\* The foreign keys of existing rows name identifiers of their tables.
LEMMA ForeignKeys ==
    ASSUME TypeOK
    PROVE  /\ \A i \in Installations : inst[i] # None => inst[i].device \in Devices
           /\ \A k \in Keys : key[k] # None => key[k].inst \in Installations
           /\ \A t \in Tokens : token[t] # None =>
                /\ token[t].inst \in Installations
                /\ token[t].key \in Keys
                /\ token[t].license \in Licenses
           /\ \A c \in Challenges : challenge[c] # None =>
                challenge[c].inst \in Installations /\ challenge[c].key \in Keys
  BY DEF TypeOK, InstallationRow, KeyRow, TokenRow, ChallengeRow

LEMMA KeptReferences ==
    ASSUME TypeOK, References, RowsKept
    PROVE  References'
<1>1. \A i \in Installations : inst'[i] # None => device'[inst'[i].device] # None
  BY ForeignKeys DEF References, RowsKept
<1>2. \A k, k2 \in Keys :
        key'[k] # None /\ key'[k2] # None /\ key'[k].inst = key'[k2].inst => k = k2
  BY DEF References, RowsKept
<1>3. \A t \in Tokens : token'[t] # None =>
        /\ inst'[token'[t].inst] # None
        /\ key'[token'[t].key] # None /\ key'[token'[t].key].inst = token'[t].inst
        /\ license'[token'[t].license] # None
  BY ForeignKeys DEF References, RowsKept
<1>4. \A c \in Challenges : challenge'[c] # None =>
        /\ inst'[challenge'[c].inst] # None
        /\ key'[challenge'[c].key] # None
        /\ key'[challenge'[c].key].inst = challenge'[c].inst
  BY ForeignKeys DEF References, RowsKept
<1>5. QED
  BY <1>1, <1>2, <1>3, <1>4 DEF References

LEMMA ReferencesStep == IInv /\ TypeOK' /\ [Next]_vars => References'
<1> SUFFICES ASSUME IInv, TypeOK', [Next]_vars PROVE References'
  OBVIOUS
<1>t. TypeOK /\ References
  BY DEF IInv
<1> USE <1>t, RowsAreNotNone
<1>1. ASSUME NEW d \in Devices, NEW i \in Installations, NEW k \in Keys, Enroll(d, i, k)
      PROVE  References'
  <2>1. \A e \in Devices : device[e] # None => device'[e] # None
    BY <1>1, EnrollEffect
  <2>2. device'[d] # None
    BY <1>1, EnrollEffect
  <2>3. \A j \in Installations : inst'[j] # None => device'[inst'[j].device] # None
    BY <1>1, <2>1, <2>2, EnrollEffect, ForeignKeys DEF References
  <2>4. \A j \in Installations : inst[j] # None => inst'[j] = inst[j]
    BY <1>1, EnrollEffect
  <2>5. \A k2 \in Keys : key[k2] # None => key'[k2] = key[k2]
    BY <1>1, EnrollEffect
  <2>6. \A k2 \in Keys \ {k} : key'[k2] = key[k2]
    BY <1>1, EnrollEffect
  <2>7. \A k2 \in Keys : key[k2] # None => key[k2].inst # i
    BY <1>1, EnrollEffect DEF IInv, SeatHasOneIdentity
  <2>8. key'[k].inst = i
    BY <1>1, EnrollEffect
  <2>9. \A k1, k2 \in Keys :
          key'[k1] # None /\ key'[k2] # None /\ key'[k1].inst = key'[k2].inst => k1 = k2
    BY <2>6, <2>7, <2>8 DEF References
  <2>10. UNCHANGED <<license, token, challenge>>
    BY <1>1, EnrollEffect
  <2>11. \A t \in Tokens : token'[t] # None =>
           /\ inst'[token'[t].inst] # None
           /\ key'[token'[t].key] # None /\ key'[token'[t].key].inst = token'[t].inst
           /\ license'[token'[t].license] # None
    BY <2>4, <2>5, <2>10, ForeignKeys DEF References
  <2>12. \A c \in Challenges : challenge'[c] # None =>
           /\ inst'[challenge'[c].inst] # None
           /\ key'[challenge'[c].key] # None
           /\ key'[challenge'[c].key].inst = challenge'[c].inst
    BY <2>4, <2>5, <2>10, ForeignKeys DEF References
  <2>13. QED
    BY <2>3, <2>9, <2>11, <2>12 DEF References
<1>2. ASSUME NEW c \in Challenges, NEW i \in Installations, NEW k \in Keys,
             NEW p \in Purpose, IssueChallenge(c, i, k, p)
      PROVE  References'
  BY <1>2, ChallengeEffect DEF References
<1>3. ASSUME Reading PROVE References'
  BY <1>3, ReadingEffect DEF References
<1>4. ASSUME NEW c \in Challenges, NEW t \in Tokens, ActivateBind(c, t)
      PROVE  References'
  <2>1. \A b \in Challenges : challenge'[b] # None => challenge'[b] = challenge[b]
    BY <1>4 DEF ActivateBind, Consume, TypeOK
  <2>2. \A i \in Installations : /\ inst'[i] # None <=> inst[i] # None
                                 /\ inst[i] # None => inst'[i].device = inst[i].device
    BY <1>4, BindRows, BindEffect
  <2>3. \A k \in Keys : /\ key'[k] # None <=> key[k] # None
                        /\ key[k] # None => key'[k].inst = key[k].inst
    BY <1>4, BindRows, BindEffect
  <2>4. \A d \in Devices : device[d] # None => device'[d] # None
    BY <1>4, BindRows, BindEffect
  <2>5. \A t2 \in Tokens : token'[t2] # None =>
          /\ token[t2] # None
          /\ token'[t2].inst = token[t2].inst
          /\ token'[t2].key = token[t2].key
          /\ token'[t2].license = token[t2].license
    BY <1>4, BindRows, BindEffect
  <2>6. license' = license
    BY <1>4, BindEffect
  <2>7. RowsKept
    BY <2>1, <2>2, <2>3, <2>4, <2>5, <2>6 DEF RowsKept
  <2>8. QED
    BY <2>7, KeptReferences
<1>5. ASSUME NEW c \in Customers,
             CustomerCreate(c) \/ CustomerArchive(c) \/ CustomerRestore(c)
      PROVE  References'
  BY <1>5 DEF CustomerCreate, CustomerArchive, CustomerRestore, References, registry
<1>6. ASSUME NEW l \in Licenses,
             \/ \E c \in Customers, n \in SeatCounts, e \in Nat \cup {None} :
                  LicenseCreate(l, c, n, e)
             \/ \E e \in Nat : LicenseRenew(l, e)
             \/ \E status \in LicenseStatus : LicenseControl(l, status)
      PROVE  References'
  <2>1. /\ license'[l] \in LicenseRow
        /\ \A m \in Licenses \ {l} : license'[m] = license[m]
        /\ UNCHANGED <<device, inst, key, token, challenge>>
    BY <1>6, LicenseEffect
  <2>2. RowsKept
    BY <2>1 DEF RowsKept
  <2>3. QED
    BY <2>2, KeptReferences
<1>7. ASSUME NEW d \in Devices, NEW c \in Customers \cup {None},
             DeviceCreate(d, c) \/ DeviceUpdate(d, c)
      PROVE  References'
  <2>1. /\ device'[d] \in DeviceRow
        /\ \A e \in Devices \ {d} : device'[e] = device[e]
        /\ UNCHANGED <<inst, key, license, token, challenge>>
    BY <1>7, OwnEffect
  <2>2. RowsKept
    BY <2>1 DEF RowsKept
  <2>3. QED
    BY <2>2, KeptReferences
<1>8. ASSUME NEW d \in Devices, DeviceControl(d) PROVE References'
  <2>1. token' = token \/ ExpireTokens(d)
    BY <1>8 DEF DeviceControl, DeviceArchive, DeviceRestore, Suspend, Revoke, registry
  <2>2. challenge' = challenge
    BY <1>8 DEF DeviceControl, DeviceArchive, DeviceRestore, Suspend, Revoke, registry
  <2>3. \A t \in Tokens : token'[t] # None =>
          /\ token[t] # None
          /\ token'[t].inst = token[t].inst
          /\ token'[t].key = token[t].key
          /\ token'[t].license = token[t].license
    BY <2>1, ExpireEffect
  <2>4. /\ device'[d] \in DeviceRow
        /\ \A e \in Devices \ {d} : device'[e] = device[e]
        /\ UNCHANGED <<inst, key, license>>
    BY <1>8, ControlEffect
  <2>5. RowsKept
    BY <2>2, <2>3, <2>4 DEF RowsKept
  <2>6. QED
    BY <2>5, KeptReferences
<1>9. ASSUME NEW d \in Devices, Reassign(d) PROVE References'
  <2>1. \A t \in Tokens : token'[t] # None =>
          /\ token[t] # None
          /\ token'[t].inst = token[t].inst
          /\ token'[t].key = token[t].key
          /\ token'[t].license = token[t].license
    BY <1>9, ExpireEffect DEF Reassign
  <2>2. \A i \in Installations : /\ inst'[i] # None <=> inst[i] # None
                                 /\ inst[i] # None => inst'[i].device = inst[i].device
    BY <1>9, ReassignEffect
  <2>3. \A k \in Keys : /\ key'[k] # None <=> key[k] # None
                        /\ key[k] # None => key'[k].inst = key[k].inst
    BY <1>9, ReassignEffect
  <2>4. \A e \in Devices : device[e] # None => device'[e] # None
    BY <1>9, ReassignEffect
  <2>5. license' = license /\ challenge' = challenge
    BY <1>9 DEF Reassign
  <2>6. RowsKept
    BY <2>1, <2>2, <2>3, <2>4, <2>5 DEF RowsKept
  <2>7. QED
    BY <2>6, KeptReferences
<1>10. ASSUME NEW t \in Tokens, NEW i \in Installations, NEW k \in Keys,
              NEW l \in Licenses, NEW ttl \in TokenTTLs, Approve(t, i, k, l, ttl)
       PROVE  References'
  <2>1. \A e \in Devices : device[e] # None => device'[e] # None
    BY <1>10, ApproveEffect
  <2>2. UNCHANGED <<inst, key, license, challenge>>
    BY <1>10, ApproveEffect
  <2>3. /\ inst[i] # None /\ key[k] # None /\ key[k].inst = i /\ license[l] # None
        /\ token'[t].inst = i /\ token'[t].key = k /\ token'[t].license = l
    BY <1>10, ApproveEffect
  <2>4. \A t2 \in Tokens \ {t} : token'[t2] = token[t2]
    BY <1>10, ApproveEffect
  <2>5. \A t2 \in Tokens : token'[t2] # None =>
          /\ inst'[token'[t2].inst] # None
          /\ key'[token'[t2].key] # None /\ key'[token'[t2].key].inst = token'[t2].inst
          /\ license'[token'[t2].license] # None
    BY <2>2, <2>3, <2>4 DEF References
  <2>6. \A j \in Installations : inst'[j] # None => device'[inst'[j].device] # None
    BY <2>1, <2>2, ForeignKeys DEF References
  <2>7. QED
    BY <2>2, <2>5, <2>6 DEF References
<1>11. ASSUME Tick PROVE References'
  BY <1>11 DEF Tick, References, registry
<1>12. QED
  BY <1>1, <1>2, <1>3, <1>4, <1>5, <1>6, <1>7, <1>8, <1>9, <1>10, <1>11, StepCases

\* The three parts of SeatHasOneIdentity with the sets of installations unfolded.
OneCurrent ==
    \A i, j \in Installations :
      /\ inst[i] # None /\ inst[j] # None
      /\ inst[i].current /\ inst[j].current
      /\ inst[i].device = inst[j].device
      => i = j

KeyFollows ==
    \A k \in Keys : key[k] # None =>
      inst[key[k].inst] # None /\ (key[k].current <=> inst[key[k].inst].current)

BoundWhileCurrent ==
    \A d \in Devices : binding[d] # None <=>
      \E i \in Installations : inst[i] # None /\ inst[i].device = d /\ inst[i].current

LEMMA SeatParts == SeatHasOneIdentity <=> OneCurrent /\ KeyFollows /\ BoundWhileCurrent
<1>1. \A d \in Devices : CurrentInstallations(d) # {} <=>
        \E i \in Installations : inst[i] # None /\ inst[i].device = d /\ inst[i].current
  BY DEF CurrentInstallations, InstallationsOf
<1>2. QED
  BY <1>1 DEF SeatHasOneIdentity, OneCurrent, KeyFollows, BoundWhileCurrent

LEMMA SeatPartsNext ==
    SeatHasOneIdentity' <=> OneCurrent' /\ KeyFollows' /\ BoundWhileCurrent'
<1>1. \A d \in Devices : CurrentInstallations(d)' # {} <=>
        \E i \in Installations : inst'[i] # None /\ inst'[i].device = d /\ inst'[i].current
  BY DEF CurrentInstallations, InstallationsOf
<1>2. QED
  BY <1>1 DEF SeatHasOneIdentity, OneCurrent, KeyFollows, BoundWhileCurrent

LEMMA SeatStep == IInv /\ TypeOK' /\ [Next]_vars => SeatHasOneIdentity'
<1> SUFFICES ASSUME IInv, TypeOK', [Next]_vars PROVE SeatHasOneIdentity'
  OBVIOUS
<1>t. TypeOK /\ References /\ SeatHasOneIdentity
  BY DEF IInv
<1>p. OneCurrent /\ KeyFollows /\ BoundWhileCurrent
  BY <1>t, SeatParts
<1> USE <1>t, RowsAreNotNone
<1>1. ASSUME NEW d \in Devices, NEW i \in Installations, NEW k \in Keys, Enroll(d, i, k)
      PROVE  SeatHasOneIdentity'
  <2>1. /\ inst[i] = None /\ key[k] = None
        /\ inst'[i] # None /\ ~inst'[i].current
        /\ \A j \in Installations \ {i} : inst'[j] = inst[j]
        /\ key'[k].inst = i /\ ~key'[k].current
        /\ \A k2 \in Keys \ {k} : key'[k2] = key[k2]
        /\ binding' = binding
    BY <1>1, EnrollEffect
  <2>2. OneCurrent'
    BY <1>p, <2>1 DEF OneCurrent
  <2>3. KeyFollows'
    BY <1>p, <2>1, ForeignKeys DEF KeyFollows
  <2>4. BoundWhileCurrent'
    BY <1>p, <2>1 DEF BoundWhileCurrent
  <2>5. QED
    BY <2>2, <2>3, <2>4, SeatPartsNext
<1>2. ASSUME UNCHANGED <<inst, key, binding>> PROVE SeatHasOneIdentity'
  BY <1>2 DEF SeatHasOneIdentity, CurrentInstallations, InstallationsOf
<1>3. ASSUME NEW c \in Challenges, NEW t \in Tokens, ActivateBind(c, t)
      PROVE  SeatHasOneIdentity'
  <2> DEFINE i == token[t].inst
             k == token[t].key
             l == token[t].license
             d == inst[i].device
  <2>1. /\ i \in Installations /\ inst[i] # None
        /\ k \in Keys /\ key[k] # None /\ key[k].inst = i
        /\ l \in Licenses /\ d \in Devices
    BY <1>3, BindRows
  <2>2. /\ inst'[i] # None /\ inst'[i].device = d /\ inst'[i].current
        /\ \A j \in Installations \ {i} : inst'[j] = inst[j]
        /\ key'[k].inst = i /\ key'[k].current
        /\ \A k2 \in Keys \ {k} : key'[k2] = key[k2]
        /\ binding'[d] = l
        /\ \A d2 \in Devices \ {d} : binding'[d2] = binding[d2]
    BY <1>3, BindEffect
  <2>3. \A j \in Installations \ {i} :
          inst[j] # None /\ inst[j].device = d => ~inst[j].current
    BY <1>3 DEF ActivateBind, SoleInstallation, CurrentInstallations, InstallationsOf
  <2>4. \A k2 \in Keys \ {k} : key[k2] # None => key[k2].inst # i
    BY <2>1 DEF References
  <2>5. OneCurrent'
    BY <1>p, <2>1, <2>2, <2>3 DEF OneCurrent
  <2>6. KeyFollows'
    BY <1>p, <2>1, <2>2, <2>4, ForeignKeys DEF KeyFollows
  <2>7. l # None
    BY <2>1, NoneIsNoRow
  <2>8. BoundWhileCurrent'
    BY <1>p, <2>1, <2>2, <2>7 DEF BoundWhileCurrent
  <2>9. QED
    BY <2>5, <2>6, <2>8, SeatPartsNext
<1>4. ASSUME NEW d \in Devices, Reassign(d) PROVE SeatHasOneIdentity'
  <2>1. /\ \A j \in Installations :
             IF inst[j] # None /\ inst[j].device = d
             THEN inst'[j] # None /\ inst'[j].device = d /\ ~inst'[j].current
             ELSE inst'[j] = inst[j]
        /\ \A k \in Keys :
             IF key[k] # None /\ inst[key[k].inst] # None /\ inst[key[k].inst].device = d
             THEN key'[k] # None /\ key'[k].inst = key[k].inst /\ ~key'[k].current
             ELSE key'[k] = key[k]
        /\ binding'[d] = None
        /\ \A e \in Devices \ {d} : binding'[e] = binding[e]
    BY <1>4, ReassignEffect
  <2>2. OneCurrent'
    BY <1>p, <2>1 DEF OneCurrent
  <2>3. KeyFollows'
    BY <1>p, <2>1, ForeignKeys DEF KeyFollows
  <2>4. BoundWhileCurrent'
    BY <1>p, <2>1 DEF BoundWhileCurrent
  <2>5. QED
    BY <2>2, <2>3, <2>4, SeatPartsNext
<1>5. ASSUME NEW c \in Customers,
             CustomerCreate(c) \/ CustomerArchive(c) \/ CustomerRestore(c)
      PROVE  UNCHANGED <<inst, key, binding>>
  BY <1>5 DEF CustomerCreate, CustomerArchive, CustomerRestore, registry
<1>6. Tick => UNCHANGED <<inst, key, binding>>
  BY DEF Tick, registry
<1>7. QED
  BY <1>1, <1>2, <1>3, <1>4, <1>5, <1>6, StepCases, ChallengeEffect, ReadingEffect,
     LicenseEffect, OwnEffect, ControlEffect, ApproveEffect

LEMMA OwnershipStep == IInv /\ TypeOK' /\ [Next]_vars => OwnershipAgrees'
<1> SUFFICES ASSUME IInv, TypeOK', [Next]_vars PROVE OwnershipAgrees'
  OBVIOUS
<1>t. TypeOK /\ OwnershipAgrees
  BY DEF IInv
<1>b. \A d \in Devices : binding[d] # None => binding[d] \in Licenses
  BY <1>t DEF TypeOK
<1> USE <1>t, <1>b, RowsAreNotNone
<1>1. ASSUME NEW d \in Devices, NEW i \in Installations, NEW k \in Keys, Enroll(d, i, k)
      PROVE  OwnershipAgrees'
  <2>1. /\ device[d] # None => device' = device
        /\ \A e \in Devices \ {d} : device'[e] = device[e]
        /\ UNCHANGED <<license, binding>>
    BY <1>1, EnrollEffect
  <2>2. QED
    BY <2>1 DEF OwnershipAgrees
<1>2. ASSUME UNCHANGED <<device, license, binding>> PROVE OwnershipAgrees'
  BY <1>2 DEF OwnershipAgrees
<1>3. ASSUME NEW c \in Challenges, NEW t \in Tokens, ActivateBind(c, t)
      PROVE  OwnershipAgrees'
  <2> DEFINE l == token[t].license
             d == inst[token[t].inst].device
  <2>1. d \in Devices /\ l \in Licenses /\ license[l] # None
    BY <1>3, BindRows
  <2>2. /\ device'[d] # None /\ device'[d].customer = license[l].customer
        /\ \A e \in Devices \ {d} : device'[e] = device[e]
        /\ binding'[d] = l
        /\ \A e \in Devices \ {d} : binding'[e] = binding[e]
        /\ license' = license
    BY <1>3, BindEffect
  <2>3. QED
    BY <2>1, <2>2 DEF OwnershipAgrees
<1>4. ASSUME NEW l \in Licenses,
             \/ \E c \in Customers, n \in SeatCounts, e \in Nat \cup {None} :
                  LicenseCreate(l, c, n, e)
             \/ \E e \in Nat : LicenseRenew(l, e)
             \/ \E status \in LicenseStatus : LicenseControl(l, status)
      PROVE  OwnershipAgrees'
  <2>1. /\ license'[l] # None
        /\ license[l] # None => license'[l].customer = license[l].customer
        /\ \A m \in Licenses \ {l} : license'[m] = license[m]
        /\ UNCHANGED <<device, binding>>
    BY <1>4, LicenseEffect
  <2>2. QED
    BY <2>1 DEF OwnershipAgrees
<1>5. ASSUME NEW d \in Devices, NEW c \in Customers \cup {None},
             DeviceCreate(d, c) \/ DeviceUpdate(d, c)
      PROVE  OwnershipAgrees'
  <2>1. /\ device'[d] # None /\ device'[d].customer = c
        /\ binding[d] # None /\ device[d] # None => c = license[binding[d]].customer
        /\ \A e \in Devices \ {d} : device'[e] = device[e]
        /\ UNCHANGED <<license, binding>>
    BY <1>5, OwnEffect
  <2>2. QED
    BY <2>1 DEF OwnershipAgrees
<1>6. ASSUME NEW d \in Devices, DeviceControl(d) PROVE OwnershipAgrees'
  <2>1. /\ device'[d] # None /\ device'[d].customer = device[d].customer
        /\ \A e \in Devices \ {d} : device'[e] = device[e]
        /\ UNCHANGED <<license, binding>>
    BY <1>6, ControlEffect
  <2>2. QED
    BY <2>1 DEF OwnershipAgrees
<1>7. ASSUME NEW d \in Devices, Reassign(d) PROVE OwnershipAgrees'
  <2>1. /\ binding'[d] = None
        /\ \A e \in Devices \ {d} : device'[e] = device[e]
        /\ \A e \in Devices \ {d} : binding'[e] = binding[e]
    BY <1>7, ReassignEffect
  <2>2. license' = license
    BY <1>7 DEF Reassign
  <2>3. QED
    BY <2>1, <2>2 DEF OwnershipAgrees
<1>8. ASSUME NEW t \in Tokens, NEW i \in Installations, NEW k \in Keys,
             NEW l \in Licenses, NEW ttl \in TokenTTLs, Approve(t, i, k, l, ttl)
      PROVE  OwnershipAgrees'
  <2> DEFINE d == inst[i].device
  <2>1. /\ d \in Devices /\ device'[d] # None
        /\ device'[d].customer = device[d].customer
        /\ \A e \in Devices \ {d} : device'[e] = device[e]
        /\ UNCHANGED <<license, binding>>
    BY <1>8, ApproveEffect
  <2>2. QED
    BY <2>1 DEF OwnershipAgrees
<1>9. ASSUME NEW c \in Customers,
             CustomerCreate(c) \/ CustomerArchive(c) \/ CustomerRestore(c)
      PROVE  UNCHANGED <<device, license, binding>>
  BY <1>9 DEF CustomerCreate, CustomerArchive, CustomerRestore
<1>10. Tick => UNCHANGED <<device, license, binding>>
  BY DEF Tick
<1>11. QED
  BY <1>1, <1>2, <1>3, <1>4, <1>5, <1>6, <1>7, <1>8, <1>9, <1>10, StepCases,
     ChallengeEffect, ReadingEffect

LEMMA StatusStep == IInv /\ TypeOK' /\ [Next]_vars => StatusBacked'
<1> SUFFICES ASSUME IInv, TypeOK', [Next]_vars PROVE StatusBacked'
  OBVIOUS
<1>t. TypeOK /\ StatusBacked
  BY DEF IInv
<1> USE <1>t, RowsAreNotNone
<1>1. ASSUME NEW d \in Devices, NEW i \in Installations, NEW k \in Keys, Enroll(d, i, k)
      PROVE  StatusBacked'
  <2>1. /\ device[d] # None => device' = device
        /\ device[d] = None => device'[d].status = "PENDING" /\ ~device'[d].archived
        /\ \A e \in Devices \ {d} : device'[e] = device[e]
        /\ binding' = binding
    BY <1>1, EnrollEffect
  <2>2. QED
    BY <2>1 DEF StatusBacked
<1>2. ASSUME UNCHANGED <<device, binding>> PROVE StatusBacked'
  BY <1>2 DEF StatusBacked
<1>3. ASSUME NEW c \in Challenges, NEW t \in Tokens, ActivateBind(c, t)
      PROVE  StatusBacked'
  <2> DEFINE l == token[t].license
             d == inst[token[t].inst].device
  <2>1. d \in Devices /\ l \in Licenses /\ device[d] # None
    BY <1>3, BindRows
  <2>2. /\ device'[d].status = "ACTIVE" /\ device'[d].archived = device[d].archived
        /\ \A e \in Devices \ {d} : device'[e] = device[e]
        /\ binding'[d] = l
        /\ \A e \in Devices \ {d} : binding'[e] = binding[e]
    BY <1>3, BindEffect
  <2>3. device[d].status # "REVOKED"
    BY <1>3 DEF ActivateBind, Activatable
  <2>4. ~device[d].archived /\ l # None
    BY <2>1, <2>3, NoneIsNoRow DEF StatusBacked
  <2>5. QED
    BY <2>1, <2>2, <2>4 DEF StatusBacked
<1>4. ASSUME NEW d \in Devices, NEW c \in Customers \cup {None},
             DeviceCreate(d, c) \/ DeviceUpdate(d, c)
      PROVE  StatusBacked'
  <2>1. /\ device[d] = None => device'[d].status = "PENDING" /\ ~device'[d].archived
        /\ device[d] # None => /\ device'[d].status = device[d].status
                               /\ device'[d].archived = device[d].archived
        /\ \A e \in Devices \ {d} : device'[e] = device[e]
        /\ binding' = binding
    BY <1>4, OwnEffect
  <2>2. QED
    BY <2>1 DEF StatusBacked
<1>5. ASSUME NEW d \in Devices, DeviceControl(d) PROVE StatusBacked'
  <2>1. /\ device[d] # None
        /\ device'[d].status = "ACTIVE" => device[d].status = "ACTIVE"
        /\ device'[d].archived => device'[d].status = "REVOKED"
        /\ \A e \in Devices \ {d} : device'[e] = device[e]
        /\ binding' = binding
    BY <1>5, ControlEffect
  <2>2. QED
    BY <2>1 DEF StatusBacked
<1>6. ASSUME NEW d \in Devices, Reassign(d) PROVE StatusBacked'
  <2>1. /\ device'[d].status = "PENDING" /\ ~device'[d].archived
        /\ \A e \in Devices \ {d} : device'[e] = device[e]
        /\ \A e \in Devices \ {d} : binding'[e] = binding[e]
    BY <1>6, ReassignEffect
  <2>2. QED
    BY <2>1 DEF StatusBacked
<1>7. ASSUME NEW t \in Tokens, NEW i \in Installations, NEW k \in Keys,
             NEW l \in Licenses, NEW ttl \in TokenTTLs, Approve(t, i, k, l, ttl)
      PROVE  StatusBacked'
  <2> DEFINE d == inst[i].device
  <2>1. /\ d \in Devices /\ device[d] # None /\ ~device'[d].archived
        /\ device'[d].status = "ACTIVE" <=> device[d].status = "ACTIVE"
        /\ \A e \in Devices \ {d} : device'[e] = device[e]
        /\ binding' = binding
    BY <1>7, ApproveEffect
  <2>2. QED
    BY <2>1 DEF StatusBacked
<1>8. ASSUME NEW c \in Customers,
             CustomerCreate(c) \/ CustomerArchive(c) \/ CustomerRestore(c)
      PROVE  UNCHANGED <<device, binding>>
  BY <1>8 DEF CustomerCreate, CustomerArchive, CustomerRestore
<1>9. Tick => UNCHANGED <<device, binding>>
  BY DEF Tick
<1>10. QED
  BY <1>1, <1>2, <1>3, <1>4, <1>5, <1>6, <1>7, <1>8, <1>9, StepCases,
     ChallengeEffect, ReadingEffect, LicenseEffect

LEMMA HoldersFinite ==
    \A l \in Licenses : /\ IsFiniteSet(Holders(l)) /\ Cardinality(Holders(l)) \in Nat
                        /\ IsFiniteSet(Holders(l)') /\ Cardinality(Holders(l)') \in Nat
<1>1. \A l \in Licenses : Holders(l) \subseteq Devices /\ Holders(l)' \subseteq Devices
  BY DEF Holders
<1>2. QED
  BY <1>1, FiniteDevices, FS_Subset, FS_CardinalityType

LEMMA CapacityStep == IInv /\ TypeOK' /\ [Next]_vars => SeatsWithinLicense'
<1> SUFFICES ASSUME IInv, TypeOK', [Next]_vars PROVE SeatsWithinLicense'
  OBVIOUS
<1>t. TypeOK /\ OwnershipAgrees /\ SeatsWithinLicense
  BY DEF IInv
<1>s. \A l \in Licenses : license[l] # None => license[l].seats \in Nat
  BY <1>t DEF TypeOK, LicenseRow
<1> USE <1>t, RowsAreNotNone
<1>1. ASSUME UNCHANGED <<license, binding>> PROVE SeatsWithinLicense'
  BY <1>1 DEF SeatsWithinLicense, Holders
<1>2. ASSUME NEW c \in Challenges, NEW t \in Tokens, ActivateBind(c, t)
      PROVE  SeatsWithinLicense'
  <2>0. PICK l \in Licenses, d \in Devices :
          l = token[t].license /\ d = inst[token[t].inst].device
    BY <1>2, BindRows
  <2>1. license[l] # None
    BY <1>2, <2>0, BindRows
  <2>2. /\ binding'[d] = l
        /\ \A e \in Devices \ {d} : binding'[e] = binding[e]
        /\ license' = license
    BY <1>2, <2>0, BindEffect
  <2>3. SeatAvailable(d, l)
    BY <1>2, <2>0 DEF ActivateBind
  <2>4. ASSUME NEW m \in Licenses \ {l}
        PROVE  Holders(m)' = Holders(m)
    <3>1. m # None
      BY NoneIsNoRow
    <3>2. QED
      BY <2>1, <2>2, <2>3, <3>1 DEF Holders, SeatAvailable
  <2>5. Cardinality(Holders(l)') <= license[l].seats
    <3>1. CASE binding[d] = l
      <4>1. Holders(l)' = Holders(l)
        BY <2>1, <2>2, <3>1 DEF Holders
      <4>2. QED
        BY <2>1, <4>1 DEF SeatsWithinLicense
    <3>2. CASE binding[d] # l
      <4>1. Holders(l)' = Holders(l) \cup {d} /\ d \notin Holders(l)
        BY <2>1, <2>2, <3>2 DEF Holders
      <4>2. Cardinality(Holders(l)) < license[l].seats
        BY <2>3, <3>2 DEF SeatAvailable
      <4>3. Cardinality(Holders(l) \cup {d}) = Cardinality(Holders(l)) + 1
        BY <2>1, <4>1, HoldersFinite, FS_AddElement
      <4>4. QED
        BY <1>s, <2>1, <4>1, <4>2, <4>3, HoldersFinite
    <3>3. QED
      BY <3>1, <3>2
  <2>6. QED
    BY <2>2, <2>4, <2>5 DEF SeatsWithinLicense
<1>3. ASSUME NEW l \in Licenses,
             \/ \E c \in Customers, n \in SeatCounts, e \in Nat \cup {None} :
                  LicenseCreate(l, c, n, e)
             \/ \E e \in Nat : LicenseRenew(l, e)
             \/ \E status \in LicenseStatus : LicenseControl(l, status)
      PROVE  SeatsWithinLicense'
  <2>1. /\ license'[l] \in LicenseRow
        /\ license[l] # None => license'[l].seats = license[l].seats
        /\ \A m \in Licenses \ {l} : license'[m] = license[m]
        /\ binding' = binding
    BY <1>3, LicenseEffect
  <2>2. \A m \in Licenses : Holders(m)' = Holders(m)
    BY <2>1 DEF Holders
  <2>3. ASSUME license[l] = None
        PROVE  Cardinality(Holders(l)) = 0
    <3>1. Holders(l) = {}
      BY <2>3, NoneIsNoRow DEF Holders, OwnershipAgrees
    <3>2. QED
      BY <3>1, FS_EmptySet
  <2>4. license'[l].seats \in Nat
    BY <2>1 DEF LicenseRow
  <2>5. QED
    BY <2>1, <2>2, <2>3, <2>4 DEF SeatsWithinLicense
<1>4. ASSUME NEW d \in Devices, Reassign(d) PROVE SeatsWithinLicense'
  <2>1. /\ binding'[d] = None
        /\ \A e \in Devices \ {d} : binding'[e] = binding[e]
    BY <1>4, ReassignEffect
  <2>2. license' = license
    BY <1>4 DEF Reassign
  <2>3. \A m \in Licenses : Holders(m)' \subseteq Holders(m)
    BY <2>1, NoneIsNoRow DEF Holders
  <2>4. \A m \in Licenses : Cardinality(Holders(m)') <= Cardinality(Holders(m))
    BY <2>3, HoldersFinite, FS_Subset
  <2>5. QED
    BY <1>s, <2>2, <2>4, HoldersFinite DEF SeatsWithinLicense
<1>5. ASSUME NEW c \in Customers,
             CustomerCreate(c) \/ CustomerArchive(c) \/ CustomerRestore(c)
      PROVE  UNCHANGED <<license, binding>>
  BY <1>5 DEF CustomerCreate, CustomerArchive, CustomerRestore
<1>6. Tick => UNCHANGED <<license, binding>>
  BY DEF Tick
<1>7. QED
  BY <1>1, <1>2, <1>3, <1>4, <1>5, <1>6, StepCases, EnrollEffect, ChallengeEffect,
     ReadingEffect, OwnEffect, ControlEffect, ApproveEffect

LEMMA ArchivedStep == IInv /\ TypeOK' /\ [Next]_vars => ArchivedCustomerIdle'
<1> SUFFICES ASSUME IInv, TypeOK', [Next]_vars PROVE ArchivedCustomerIdle'
  OBVIOUS
<1>t. TypeOK /\ ArchivedCustomerIdle /\ StatusBacked
  BY DEF IInv
<1>n. None \notin Customers
  BY NoneIsNoRow
<1> USE <1>t, <1>n, RowsAreNotNone
<1>1. ASSUME UNCHANGED <<clock, customer, device, license>> PROVE ArchivedCustomerIdle'
  BY <1>1 DEF ArchivedCustomerIdle, LicenseAvailable
<1>2. ASSUME NEW d \in Devices, UNCHANGED <<clock, customer, license>>,
             \A e \in Devices \ {d} : device'[e] = device[e],
             \/ device'[d].status # "ACTIVE"
             \/ customer[device'[d].customer] = "ACTIVE"
             \/ device'[d].customer = None
             \/ /\ device[d] # None /\ device[d].status = "ACTIVE"
                /\ device'[d].customer = device[d].customer
      PROVE  ArchivedCustomerIdle'
  BY <1>2 DEF ArchivedCustomerIdle, LicenseAvailable
<1>3. ASSUME NEW d \in Devices, NEW i \in Installations, NEW k \in Keys, Enroll(d, i, k)
      PROVE  ArchivedCustomerIdle'
  <2>1. CASE device[d] # None
    BY <1>1, <1>3, <2>1, EnrollEffect
  <2>2. CASE device[d] = None
    BY <1>2, <1>3, <2>2, EnrollEffect
  <2>3. QED
    BY <2>1, <2>2
<1>4. ASSUME NEW c \in Challenges, NEW t \in Tokens, ActivateBind(c, t)
      PROVE  ArchivedCustomerIdle'
  <2>0. PICK d \in Devices : d = inst[token[t].inst].device
    BY <1>4, BindRows
  <2>1. /\ device'[d].customer = license[token[t].license].customer
        /\ \A e \in Devices \ {d} : device'[e] = device[e]
        /\ UNCHANGED <<clock, customer, license>>
    BY <1>4, <2>0, BindEffect
  <2>2. customer[license[token[t].license].customer] = "ACTIVE"
    BY <1>4 DEF ActivateBind, ActiveCustomer
  <2>3. QED
    BY <1>2, <2>1, <2>2
<1>5. ASSUME NEW c \in Customers,
             CustomerCreate(c) \/ CustomerArchive(c) \/ CustomerRestore(c)
      PROVE  ArchivedCustomerIdle'
  <2>1. UNCHANGED <<clock, device, license>>
    BY <1>5 DEF CustomerCreate, CustomerArchive, CustomerRestore
  <2>2. \A b \in Customers \ {c} : customer'[b] = customer[b]
    BY <1>5 DEF CustomerCreate, CustomerArchive, CustomerRestore, TypeOK
  <2>3. CASE CustomerArchive(c)
    <3>1. \A l \in Licenses :
            license[l] # None /\ license[l].customer = c => ~LicenseAvailable(l)
      BY <2>3 DEF CustomerArchive
    <3>2. \A d \in Devices :
            device[d] # None /\ device[d].customer = c => device[d].status # "ACTIVE"
      BY <2>3 DEF CustomerArchive, StatusBacked
    <3>3. QED
      BY <2>1, <2>2, <3>1, <3>2 DEF ArchivedCustomerIdle, LicenseAvailable
  <2>4. CASE CustomerCreate(c) \/ CustomerRestore(c)
    <3>1. customer'[c] = "ACTIVE"
      BY <2>4 DEF CustomerCreate, CustomerRestore, TypeOK
    <3>2. QED
      BY <2>1, <2>2, <3>1 DEF ArchivedCustomerIdle, LicenseAvailable
  <2>5. QED
    BY <1>5, <2>3, <2>4
<1>6. ASSUME NEW l \in Licenses,
             \/ \E c \in Customers, n \in SeatCounts, e \in Nat \cup {None} :
                  LicenseCreate(l, c, n, e)
             \/ \E e \in Nat : LicenseRenew(l, e)
             \/ \E status \in LicenseStatus : LicenseControl(l, status)
      PROVE  ArchivedCustomerIdle'
  <2>1. /\ license[l] # None => license'[l].customer = license[l].customer
        /\ LicenseAvailable(l)' =>
             \/ customer[license'[l].customer] = "ACTIVE"
             \/ license[l] # None /\ LicenseAvailable(l)
        /\ \A m \in Licenses \ {l} : license'[m] = license[m]
        /\ UNCHANGED <<clock, customer, device>>
    BY <1>6, LicenseEffect
  <2>2. \A m \in Licenses \ {l} : LicenseAvailable(m)' <=> LicenseAvailable(m)
    BY <2>1 DEF LicenseAvailable
  <2>3. QED
    BY <2>1, <2>2 DEF ArchivedCustomerIdle
<1>7. ASSUME NEW d \in Devices, NEW c \in Customers \cup {None},
             DeviceCreate(d, c) \/ DeviceUpdate(d, c)
      PROVE  ArchivedCustomerIdle'
  BY <1>2, <1>7, OwnEffect
<1>8. ASSUME NEW d \in Devices, DeviceControl(d) PROVE ArchivedCustomerIdle'
  <2>1. /\ device'[d].status = "ACTIVE" => device[d].status = "ACTIVE"
        /\ device[d] # None /\ device'[d].customer = device[d].customer
        /\ \A e \in Devices \ {d} : device'[e] = device[e]
        /\ UNCHANGED <<clock, customer>>
    BY <1>8, ControlEffect
  <2>2. license' = license
    BY <1>8 DEF DeviceControl, DeviceArchive, DeviceRestore, Suspend, Revoke
  <2>3. QED
    BY <1>2, <2>1, <2>2
<1>9. ASSUME NEW d \in Devices, Reassign(d) PROVE ArchivedCustomerIdle'
  <2>1. UNCHANGED <<clock, customer, license>>
    BY <1>9 DEF Reassign
  <2>2. QED
    BY <1>2, <1>9, <2>1, ReassignEffect
<1>10. ASSUME NEW t \in Tokens, NEW i \in Installations, NEW k \in Keys,
              NEW l \in Licenses, NEW ttl \in TokenTTLs, Approve(t, i, k, l, ttl)
       PROVE  ArchivedCustomerIdle'
  <2>0. PICK d \in Devices : d = inst[i].device
    BY <1>10, ApproveEffect
  <2>1. /\ device'[d].status = "ACTIVE" <=> device[d].status = "ACTIVE"
        /\ device[d] # None /\ device'[d].customer = device[d].customer
        /\ \A e \in Devices \ {d} : device'[e] = device[e]
        /\ UNCHANGED <<clock, customer, license>>
    BY <1>10, <2>0, ApproveEffect
  <2>2. QED
    BY <1>2, <2>1
<1>11. ASSUME Tick PROVE ArchivedCustomerIdle'
  <2>1. clock' = clock + 1 /\ UNCHANGED <<customer, device, license>>
    BY <1>11 DEF Tick
  <2>2. \A l \in Licenses : license[l] # None =>
          license[l].expires = None \/ license[l].expires \in Nat
    BY DEF TypeOK, LicenseRow
  <2>3. \A l \in Licenses : license[l] # None /\ LicenseAvailable(l)' => LicenseAvailable(l)
    BY <2>1, <2>2 DEF LicenseAvailable, TypeOK
  <2>4. QED
    BY <2>1, <2>3 DEF ArchivedCustomerIdle
<1>12. QED
  BY <1>1, <1>3, <1>4, <1>5, <1>6, <1>7, <1>8, <1>9, <1>10, <1>11, StepCases,
     ChallengeEffect, ReadingEffect

LEMMA ApprovalStep == IInv /\ TypeOK' /\ [Next]_vars => NoStaleApproval'
<1> SUFFICES ASSUME IInv, TypeOK', [Next]_vars PROVE NoStaleApproval'
  OBVIOUS
<1>t. TypeOK /\ References /\ NoStaleApproval /\ StatusBacked
  BY DEF IInv
<1>r. \A t \in Tokens : token[t] # None =>
        /\ token[t].inst \in Installations /\ inst[token[t].inst] # None
        /\ inst[token[t].inst].device \in Devices
        /\ device[inst[token[t].inst].device] # None
  BY <1>t, ForeignKeys DEF References
<1> USE <1>t, <1>r, RowsAreNotNone
\* Most requests leave every token alone and only need to look at one device.
<1>1. ASSUME NEW d \in Devices, UNCHANGED <<clock, token>>,
             \A i \in Installations : inst[i] # None => inst'[i].device = inst[i].device,
             \A e \in Devices \ {d} : device'[e] = device[e],
             device[d] # None =>
               /\ device'[d].archived => device[d].archived
               /\ device'[d].status = "PENDING" => device[d].status = "PENDING"
      PROVE  NoStaleApproval'
  BY <1>1 DEF NoStaleApproval, TokenLive
<1>2. ASSUME UNCHANGED <<clock, token, inst, device>> PROVE NoStaleApproval'
  BY <1>2 DEF NoStaleApproval, TokenLive
\* Archiving and releasing end every unused token of their device.
<1>3. ASSUME NEW d \in Devices, ExpireTokens(d), clock' = clock,
             \A i \in Installations : inst[i] # None => inst'[i].device = inst[i].device,
             \A e \in Devices \ {d} : device'[e] = device[e]
      PROVE  NoStaleApproval'
  <2> SUFFICES ASSUME NEW t \in Tokens, TokenLive(t)', ~token'[t].used
               PROVE  LET e == inst'[token'[t].inst].device
                      IN  ~device'[e].archived /\ device'[e].status # "PENDING"
    BY DEF NoStaleApproval
  <2>1. token'[t] # None /\ token'[t].expires > clock
    BY <1>3 DEF TokenLive
  <2>2. token[t] # None
    BY <1>3, <2>1, ExpireEffect
  <2>3. /\ token'[t].inst = token[t].inst /\ token'[t].used = token[t].used
        /\ inst[token[t].inst].device = d /\ ~token[t].used => token'[t].expires = clock
        /\ token'[t].expires # token[t].expires => token'[t].expires = clock
    BY <1>3, <2>2, ExpireEffect
  <2>4. token'[t].expires # clock
    BY <2>1 DEF TypeOK
  <2>5. inst[token[t].inst].device # d /\ TokenLive(t)
    BY <2>1, <2>2, <2>3, <2>4 DEF TokenLive
  <2>6. QED
    BY <1>3, <2>2, <2>3, <2>5 DEF NoStaleApproval
<1>4. ASSUME NEW d \in Devices, NEW i \in Installations, NEW k \in Keys, Enroll(d, i, k)
      PROVE  NoStaleApproval'
  <2>1. /\ inst[i] = None
        /\ device[d] # None => device' = device
        /\ \A e \in Devices \ {d} : device'[e] = device[e]
        /\ \A j \in Installations \ {i} : inst'[j] = inst[j]
        /\ UNCHANGED <<clock, token>>
    BY <1>4, EnrollEffect
  <2>2. QED
    BY <1>1, <2>1
<1>5. ASSUME NEW c \in Challenges, NEW t \in Tokens, ActivateBind(c, t)
      PROVE  NoStaleApproval'
  <2>0. PICK d \in Devices, i \in Installations :
          i = token[t].inst /\ d = inst[token[t].inst].device
    BY <1>5, BindRows
  <2>1. device[d] # None /\ device[d].status # "REVOKED"
    BY <1>5, <2>0, BindRows DEF ActivateBind, Activatable
  <2>2. ~device[d].archived
    BY <2>1 DEF StatusBacked
  <2>3. /\ device'[d].status = "ACTIVE" /\ device'[d].archived = device[d].archived
        /\ \A e \in Devices \ {d} : device'[e] = device[e]
        /\ inst'[i].device = d
        /\ \A j \in Installations \ {i} : inst'[j] = inst[j]
        /\ token'[t].used
        /\ \A t2 \in Tokens \ {t} : token'[t2] = token[t2]
        /\ clock' = clock
    BY <1>5, <2>0, BindEffect
  <2>4. QED
    BY <2>0, <2>2, <2>3 DEF NoStaleApproval, TokenLive
<1>6. ASSUME NEW d \in Devices, NEW c \in Customers \cup {None},
             DeviceCreate(d, c) \/ DeviceUpdate(d, c)
      PROVE  NoStaleApproval'
  <2>1. /\ device[d] # None => /\ device'[d].status = device[d].status
                               /\ device'[d].archived = device[d].archived
        /\ \A e \in Devices \ {d} : device'[e] = device[e]
        /\ UNCHANGED <<clock, inst, token>>
    BY <1>6, OwnEffect
  <2>2. QED
    BY <1>1, <2>1
<1>7. ASSUME NEW d \in Devices, DeviceControl(d) PROVE NoStaleApproval'
  <2>1. /\ device'[d].status = "PENDING" => device[d].status = "PENDING"
        /\ \A e \in Devices \ {d} : device'[e] = device[e]
        /\ UNCHANGED <<clock, inst>>
    BY <1>7, ControlEffect
  <2>2. CASE DeviceArchive(d)
    BY <1>3, <2>1, <2>2 DEF DeviceArchive
  <2>3. CASE DeviceRestore(d) \/ Suspend(d) \/ Revoke(d)
    <3>1. token' = token
      BY <2>3 DEF DeviceRestore, Suspend, Revoke, registry
    <3>2. device[d] \in DeviceRow
      BY <1>7, ControlEffect
    <3>3. device'[d].archived => device[d].archived
      BY <2>3, <3>2 DEF DeviceRestore, Suspend, Revoke, TypeOK, DeviceRow
    <3>4. QED
      BY <1>1, <2>1, <3>1, <3>3
  <2>4. QED
    BY <1>7, <2>2, <2>3 DEF DeviceControl
<1>8. ASSUME NEW d \in Devices, Reassign(d) PROVE NoStaleApproval'
  <2>1. ExpireTokens(d) /\ clock' = clock
    BY <1>8 DEF Reassign
  <2>2. /\ \A i \in Installations : inst[i] # None => inst'[i].device = inst[i].device
        /\ \A e \in Devices \ {d} : device'[e] = device[e]
    BY <1>8, ReassignEffect
  <2>3. QED
    BY <1>3, <2>1, <2>2
<1>9. ASSUME NEW t \in Tokens, NEW i \in Installations, NEW k \in Keys,
             NEW l \in Licenses, NEW ttl \in TokenTTLs, Approve(t, i, k, l, ttl)
      PROVE  NoStaleApproval'
  <2>0. PICK d \in Devices : d = inst[i].device
    BY <1>9, ApproveEffect
  <2>1. /\ ~device'[d].archived /\ device'[d].status # "PENDING"
        /\ \A e \in Devices \ {d} : device'[e] = device[e]
        /\ token'[t].inst = i
        /\ \A t2 \in Tokens \ {t} : token'[t2] = token[t2]
        /\ UNCHANGED <<clock, inst>>
    BY <1>9, <2>0, ApproveEffect
  <2>2. QED
    BY <2>0, <2>1 DEF NoStaleApproval, TokenLive
<1>10. ASSUME Tick PROVE NoStaleApproval'
  <2>1. clock' = clock + 1 /\ UNCHANGED <<device, inst, token>>
    BY <1>10 DEF Tick, registry
  <2>2. \A t \in Tokens : token[t] # None => token[t].expires \in Nat
    BY DEF TypeOK, TokenRow
  <2>3. \A t \in Tokens : TokenLive(t)' => TokenLive(t)
    BY <2>1, <2>2 DEF TokenLive, TypeOK
  <2>4. QED
    BY <2>1, <2>3 DEF NoStaleApproval
<1>11. ASSUME NEW c \in Customers,
              CustomerCreate(c) \/ CustomerArchive(c) \/ CustomerRestore(c)
       PROVE  UNCHANGED <<clock, token, inst, device>>
  BY <1>11 DEF CustomerCreate, CustomerArchive, CustomerRestore, registry
<1>12. QED
  BY <1>2, <1>4, <1>5, <1>6, <1>7, <1>8, <1>9, <1>10, <1>11, StepCases,
     ChallengeEffect, ReadingEffect, LicenseEffect

LEMMA OwnedStep == IInv /\ TypeOK' /\ [Next]_vars => LicensesOwned'
<1> SUFFICES ASSUME IInv, TypeOK', [Next]_vars PROVE LicensesOwned'
  OBVIOUS
<1>t. TypeOK /\ LicensesOwned
  BY DEF IInv
<1>c. \A l \in Licenses : license[l] # None => license[l].customer \in Customers
  BY <1>t DEF TypeOK, LicenseRow
<1>1. ASSUME UNCHANGED <<customer, license>> PROVE LicensesOwned'
  BY <1>t, <1>1 DEF LicensesOwned
<1>2. ASSUME NEW c \in Customers,
             CustomerCreate(c) \/ CustomerArchive(c) \/ CustomerRestore(c)
      PROVE  LicensesOwned'
  <2>1. license' = license
    BY <1>2 DEF CustomerCreate, CustomerArchive, CustomerRestore
  <2>2. \A b \in Customers : customer[b] # "ABSENT" => customer'[b] # "ABSENT"
    BY <1>t, <1>2 DEF CustomerCreate, CustomerArchive, CustomerRestore, TypeOK
  <2>3. QED
    BY <1>t, <1>c, <2>1, <2>2 DEF LicensesOwned
<1>3. ASSUME NEW l \in Licenses,
             \/ \E c \in Customers, n \in SeatCounts, e \in Nat \cup {None} :
                  LicenseCreate(l, c, n, e)
             \/ \E e \in Nat : LicenseRenew(l, e)
             \/ \E status \in LicenseStatus : LicenseControl(l, status)
      PROVE  LicensesOwned'
  <2>1. /\ license[l] # None => license'[l].customer = license[l].customer
        /\ license[l] = None => customer[license'[l].customer] = "ACTIVE"
        /\ \A m \in Licenses \ {l} : license'[m] = license[m]
        /\ customer' = customer
    BY <1>t, <1>3, LicenseEffect
  <2>2. QED
    BY <1>t, <2>1 DEF LicensesOwned
<1>4. \A d \in Devices : DeviceControl(d) \/ Reassign(d) => UNCHANGED <<customer, license>>
  BY DEF DeviceControl, DeviceArchive, DeviceRestore, Suspend, Revoke, Reassign
<1>5. Tick => UNCHANGED <<customer, license>>
  BY DEF Tick
<1>6. \A c \in Challenges, t \in Tokens : ActivateBind(c, t) => UNCHANGED <<customer, license>>
  BY DEF ActivateBind
<1>7. QED
  BY <1>t, <1>1, <1>2, <1>3, <1>4, <1>5, <1>6, StepCases, EnrollEffect, ChallengeEffect,
     ReadingEffect, OwnEffect, ApproveEffect

-----------------------------------------------------------------------------
(* The inductive invariant and what follows from it.                       *)

LEMMA InitInvariant == Init => IInv
<1> SUFFICES ASSUME Init PROVE IInv
  OBVIOUS
<1>1. TypeOK
  BY DEF Init, TypeOK, CustomerState
<1>2. References
  BY DEF Init, References
<1>3. SeatHasOneIdentity
  BY DEF Init, SeatHasOneIdentity, CurrentInstallations, InstallationsOf
<1>4. OwnershipAgrees /\ StatusBacked /\ LicensesOwned /\ SeatsWithinLicense
  BY DEF Init, OwnershipAgrees, StatusBacked, LicensesOwned, SeatsWithinLicense
<1>5. ArchivedCustomerIdle
  BY DEF Init, ArchivedCustomerIdle
<1>6. NoStaleApproval
  BY DEF Init, NoStaleApproval, TokenLive
<1>7. QED
  BY <1>1, <1>2, <1>3, <1>4, <1>5, <1>6 DEF IInv

LEMMA StepInvariant == IInv /\ [Next]_vars => IInv'
  BY TypeStep, ReferencesStep, OwnedStep, SeatStep, OwnershipStep, StatusStep,
     CapacityStep, ArchivedStep, ApprovalStep DEF IInv

LEMMA Invariant == Spec => []IInv
  BY InitInvariant, StepInvariant, PTL DEF Spec

\* Every table of the server holds rows of its own kind, whatever is requested.
THEOREM TypeCorrect == Spec => []TypeOK
<1>1. IInv => TypeOK
  BY DEF IInv
<1>2. QED
  BY <1>1, Invariant, PTL

\* No licence is ever bound to more devices than max_devices (activate).
THEOREM CapacityRespected == Spec => []SeatsWithinLicense
<1>1. IInv => SeatsWithinLicense
  BY DEF IInv
<1>2. QED
  BY <1>1, Invariant, PTL

\* Seat, installation and key of a device are current together, and one
\* installation at most holds the seat (activate, reassign).
THEOREM SeatIdentity == Spec => []SeatHasOneIdentity
<1>1. IInv => SeatHasOneIdentity
  BY DEF IInv
<1>2. QED
  BY <1>1, Invariant, PTL

\* A bound device belongs to the customer of its licence (activate,
\* device_update, reassign).
THEOREM OwnershipCorrect == Spec => []OwnershipAgrees
<1>1. IInv => OwnershipAgrees
  BY DEF IInv
<1>2. QED
  BY <1>1, Invariant, PTL

\* An archived customer has no usable licence and no active device, whatever is
\* renewed, resumed, approved or activated after customer_lifecycle archived it.
THEOREM ArchivalCorrect == Spec => []ArchivedCustomerIdle
<1>1. IInv => ArchivedCustomerIdle
  BY DEF IInv
<1>2. QED
  BY <1>1, Invariant, PTL

\* No usable approval survives the archival or the release of its device.
THEOREM ApprovalsExpire == Spec => []NoStaleApproval
<1>1. IInv => NoStaleApproval
  BY DEF IInv
<1>2. QED
  BY <1>1, Invariant, PTL

\* Rows refer to rows that exist, and an installation keeps its one key (identity,
\* enroll, activate).
THEOREM ReferencesCorrect == Spec => []References
<1>1. IInv => References
  BY DEF IInv
<1>2. QED
  BY <1>1, Invariant, PTL

\* ACTIVE is backed by a binding, and an archived device is REVOKED (activate,
\* reassign, device_update).
THEOREM StatusCorrect == Spec => []StatusBacked
<1>1. IInv => StatusBacked
  BY DEF IInv
<1>2. QED
  BY <1>1, Invariant, PTL

\* No request but an activation makes an installation current.
LEMMA FreshTokenStep ==
    ASSUME IInv, [Next]_vars, NEW i \in Installations,
           inst[i] # None, ~inst[i].current, inst'[i].current
    PROVE  \E t \in Tokens : /\ TokenLive(t) /\ token[t].inst = i
                            /\ ~token[t].used /\ token'[t].used
<1>t. TypeOK
  BY DEF IInv
<1>1. ASSUME inst' = inst PROVE FALSE
  BY <1>1
<1>2. ASSUME NEW d \in Devices, NEW j \in Installations, NEW k \in Keys, Enroll(d, j, k)
      PROVE  FALSE
  BY <1>t, <1>2, EnrollEffect
<1>3. ASSUME NEW d \in Devices, Reassign(d) PROVE FALSE
  BY <1>t, <1>3, ReassignEffect
<1>4. ASSUME NEW c \in Challenges, NEW t \in Tokens, ActivateBind(c, t)
      PROVE  /\ TokenLive(t) /\ token[t].inst = i
             /\ ~token[t].used /\ token'[t].used
  <2>1. token[t].inst = i
    BY <1>4, BindEffect
  <2>2. TokenLive(t) /\ ~token[t].used
    BY <1>4 DEF ActivateBind, Activatable, PresentsToken
  <2>3. QED
    BY <1>4, <2>1, <2>2, BindEffect
<1>5. ASSUME NEW c \in Customers,
             CustomerCreate(c) \/ CustomerArchive(c) \/ CustomerRestore(c)
      PROVE  inst' = inst
  BY <1>5 DEF CustomerCreate, CustomerArchive, CustomerRestore, registry
<1>6. ASSUME NEW l \in Licenses,
             \/ \E c \in Customers, n \in SeatCounts, e \in Nat \cup {None} :
                  LicenseCreate(l, c, n, e)
             \/ \E e \in Nat : LicenseRenew(l, e)
             \/ \E status \in LicenseStatus : LicenseControl(l, status)
      PROVE  inst' = inst
  BY <1>6 DEF LicenseCreate, LicenseRenew, LicenseControl, registry
<1>7. Tick => inst' = inst
  BY DEF Tick, registry
<1>8. QED
  BY <1>t, <1>1, <1>2, <1>3, <1>4, <1>5, <1>6, <1>7, StepCases, ChallengeEffect,
     ReadingEffect, OwnEffect, ControlEffect, ApproveEffect

\* An installation becomes current only by using up a live, unused token that
\* was approved for it: retries and replays of activate change nothing.
THEOREM RebindCorrect == Spec => RebindNeedsFreshToken
<1>1. IInv /\ [Next]_vars =>
        [\A i \in Installations :
           (inst[i] # None /\ ~inst[i].current /\ inst'[i].current) =>
              \E t \in Tokens : /\ TokenLive(t) /\ token[t].inst = i
                               /\ ~token[t].used /\ token'[t].used]_vars
  BY FreshTokenStep
<1>2. QED
  BY <1>1, Invariant, PTL DEF Spec, RebindNeedsFreshToken

\* What Sign writes: a document for this licence that ends no later than it.
LEMMA SignEffect ==
    ASSUME TypeOK, NEW i \in Installations, NEW l \in Licenses,
           license[l] # None, Sign(i, l)
    PROVE  /\ issued'[i] # None /\ issued'[i].license = l
           /\ license[l].expires # None => issued'[i].expires <= license[l].expires
           /\ \A j \in Installations \ {i} : issued'[j] = issued[j]
<1>1. license[l].expires # None => license[l].expires \in Nat
  BY DEF TypeOK, LicenseRow
<1>2. license[l].expires # None => DocumentExpiry(l) <= license[l].expires
  BY <1>1, BoundsAreNat DEF DocumentExpiry, TypeOK
<1>3. issued'[i] = [license |-> l, expires |-> DocumentExpiry(l)]
  BY DEF Sign, TypeOK
<1>4. \A j \in Installations \ {i} : issued'[j] = issued[j]
  BY DEF Sign, TypeOK
<1>5. DocumentExpiry(l) \in Nat
  BY <1>1, BoundsAreNat DEF DocumentExpiry, TypeOK
<1>6. issued'[i] # None
  BY <1>3, <1>5, NoneIsNoRow DEF Document
<1>7. QED
  BY <1>2, <1>3, <1>4, <1>6

\* authorize signs for the identity that holds the seat.
LEMMA AuthorizeEntitles ==
    ASSUME IInv, NEW j \in Installations, NEW k \in Keys, inst[j] # None,
           Authorize(j, k),
           UNCHANGED <<clock, customer, device, inst, key, license, binding, token>>,
           NEW i \in Installations, issued'[i] # issued[i]
    PROVE  Entitled(i)'
<1>t. TypeOK /\ OwnershipAgrees /\ ArchivedCustomerIdle /\ LicensesOwned
  BY DEF IInv
<1>1. IdentityActive(j, k)
  BY DEF Authorize
<1>2. inst[j].device \in Devices
  BY <1>t, ForeignKeys
<1>3. PICK d \in Devices, l \in Licenses : d = inst[j].device /\ l = binding[d]
  BY <1>t, <1>1, <1>2 DEF IdentityActive, Active, TypeOK
<1>4. /\ inst[j].current
      /\ device[d].status = "ACTIVE" /\ ~device[d].archived
      /\ LicenseAvailable(l)
  BY <1>1, <1>3 DEF IdentityActive, CurrentIdentity, Active
<1>5. license[l] # None
  BY <1>t, <1>1, <1>3 DEF IdentityActive, Active, OwnershipAgrees
<1>6. license[l].customer \in Customers
  BY <1>t, <1>5 DEF TypeOK, LicenseRow
<1>7. ActiveCustomer(license[l].customer)
  BY <1>t, <1>4, <1>5, <1>6
  DEF ActiveCustomer, ArchivedCustomerIdle, LicensesOwned, TypeOK, CustomerState
<1>8. Sign(j, l)
  BY <1>1, <1>3 DEF Authorize
<1>9. /\ i = j /\ issued'[i].license = l
      /\ license[l].expires # None => issued'[i].expires <= license[l].expires
  BY <1>t, <1>5, <1>8, SignEffect
<1>10. QED
  BY <1>3, <1>4, <1>7, <1>9 DEF Entitled, ActiveCustomer, LicenseAvailable

LEMMA DocumentStep ==
    ASSUME IInv, [Next]_vars, NEW i \in Installations, issued'[i] # issued[i]
    PROVE  Entitled(i)'
<1>t. TypeOK /\ References /\ StatusBacked /\ SeatHasOneIdentity
  BY DEF IInv
<1>1. ASSUME issued' = issued PROVE Entitled(i)'
  BY <1>1
<1>2. ASSUME Reading PROVE Entitled(i)'
  <2>1. UNCHANGED <<clock, customer, device, inst, key, license, binding, token>>
    BY <1>t, <1>2, ReadingEffect
  <2>2. ASSUME NEW c \in Challenges, Verify(c) PROVE Entitled(i)'
    <3>1. challenge[c] # None
      BY <2>2 DEF Verify, ChallengeFresh
    <3>2. /\ challenge[c].inst \in Installations /\ inst[challenge[c].inst] # None
          /\ challenge[c].key \in Keys
      BY <1>t, <3>1, ForeignKeys DEF References
    <3>3. Authorize(challenge[c].inst, challenge[c].key)
      BY <2>2 DEF Verify
    <3>4. QED
      BY <2>1, <3>2, <3>3, AuthorizeEntitles
  <2>3. ASSUME NEW c \in Challenges, NEW t \in Tokens, ActivateRetry(c, t)
        PROVE  Entitled(i)'
    <3>1. token[t] # None
      BY <2>3 DEF ActivateRetry, PresentsToken, TokenLive
    <3>2. /\ token[t].inst \in Installations /\ inst[token[t].inst] # None
          /\ token[t].key \in Keys
      BY <1>t, <3>1, ForeignKeys DEF References
    <3>3. Authorize(token[t].inst, token[t].key)
      BY <2>3 DEF ActivateRetry
    <3>4. QED
      BY <2>1, <3>2, <3>3, AuthorizeEntitles
  <2>4. ASSUME NEW j \in Installations, NEW k \in Keys, Heartbeat(j, k)
        PROVE  Entitled(i)'
    <3>1. inst[j] # None /\ Authorize(j, k)
      BY <2>4 DEF Heartbeat, KnownIdentity
    <3>2. QED
      BY <2>1, <3>1, AuthorizeEntitles
  <2>5. ASSUME NEW c \in Challenges, RejectProof(c) PROVE issued' = issued
    BY <2>5 DEF RejectProof
  <2>6. ASSUME NEW c \in Challenges, NEW t \in Tokens, ActivateRolledBack(c, t)
        PROVE  issued' = issued
    BY <2>6 DEF ActivateRolledBack
  <2>7. UNCHANGED vars => issued' = issued
    BY DEF vars
  <2>8. QED
    BY <1>1, <1>2, <2>2, <2>3, <2>4, <2>5, <2>6, <2>7 DEF Reading
<1>3. ASSUME NEW c \in Challenges, NEW t \in Tokens, ActivateBind(c, t)
      PROVE  Entitled(i)'
  <2>1. PICK j \in Installations, l \in Licenses, d \in Devices :
          j = token[t].inst /\ l = token[t].license /\ d = inst[j].device
    BY <1>3, BindRows
  <2>2. /\ inst'[j].current /\ inst'[j].device = d
        /\ device'[d].status = "ACTIVE" /\ device'[d].archived = device[d].archived
        /\ binding'[d] = l
        /\ UNCHANGED <<clock, customer, license>>
    BY <1>3, <2>1, BindEffect
  <2>3. device[d] # None /\ device[d].status # "REVOKED"
    BY <1>3, <2>1, BindRows, RowsAreNotNone DEF ActivateBind, Activatable
  <2>4. ~device[d].archived
    BY <1>t, <2>3 DEF StatusBacked
  <2>5. ActiveCustomer(license[l].customer) /\ LicenseAvailable(l) /\ Sign(j, l)
    BY <1>3, <2>1 DEF ActivateBind
  <2>6. license[l] # None
    BY <1>3, <2>1, BindRows, RowsAreNotNone
  <2>7. /\ i = j /\ issued'[i].license = l
        /\ license[l].expires # None => issued'[i].expires <= license[l].expires
    BY <1>t, <2>5, <2>6, SignEffect
  <2>8. QED
    BY <2>2, <2>4, <2>5, <2>7 DEF Entitled, ActiveCustomer, LicenseAvailable
<1>4. ASSUME NEW c \in Customers,
             CustomerCreate(c) \/ CustomerArchive(c) \/ CustomerRestore(c)
      PROVE  issued' = issued
  BY <1>4 DEF CustomerCreate, CustomerArchive, CustomerRestore, registry
<1>5. ASSUME NEW l \in Licenses,
             \/ \E c \in Customers, n \in SeatCounts, e \in Nat \cup {None} :
                  LicenseCreate(l, c, n, e)
             \/ \E e \in Nat : LicenseRenew(l, e)
             \/ \E status \in LicenseStatus : LicenseControl(l, status)
      PROVE  issued' = issued
  BY <1>5 DEF LicenseCreate, LicenseRenew, LicenseControl, registry
<1>6. ASSUME NEW d \in Devices, DeviceControl(d) \/ Reassign(d) PROVE issued' = issued
  BY <1>6 DEF DeviceControl, DeviceArchive, DeviceRestore, Suspend, Revoke, Reassign, registry
<1>7. ASSUME NEW d \in Devices, NEW c \in Customers \cup {None},
             DeviceCreate(d, c) \/ DeviceUpdate(d, c)
      PROVE  issued' = issued
  BY <1>7 DEF DeviceCreate, DeviceUpdate, registry
<1>8. ASSUME NEW t \in Tokens, NEW j \in Installations, NEW k \in Keys,
             NEW l \in Licenses, NEW ttl \in TokenTTLs, Approve(t, j, k, l, ttl)
      PROVE  issued' = issued
  BY <1>8 DEF Approve
<1>9. Tick => issued' = issued
  BY DEF Tick, registry
<1>10. ASSUME NEW d \in Devices, NEW j \in Installations, NEW k \in Keys, Enroll(d, j, k)
       PROVE  issued' = issued
  BY <1>10 DEF Enroll
<1>11. ASSUME NEW c \in Challenges, NEW j \in Installations, NEW k \in Keys,
              NEW p \in Purpose, IssueChallenge(c, j, k, p)
       PROVE  issued' = issued
  BY <1>11 DEF IssueChallenge
<1>12. QED
  BY <1>t, <1>1, <1>2, <1>3, <1>4, <1>5, <1>6, <1>7, <1>8, <1>9, <1>10, <1>11, StepCases

\* A document is signed only for the current installation of an active device,
\* under its usable licence of an active customer, and ends with that licence.
THEOREM DocumentsCorrect == Spec => DocumentsFollowSeat
<1>1. IInv /\ [Next]_vars =>
        [\A i \in Installations : issued'[i] # issued[i] => Entitled(i)']_vars
  BY DocumentStep
<1>2. QED
  BY <1>1, Invariant, PTL DEF Spec, DocumentsFollowSeat

-----------------------------------------------------------------------------
(* The server implements LicenseSeats.                                     *)

\* A seat as a record is held by exactly the facts of the registry.
LEMMA HeldSeatsAre ==
    \A d \in Devices, l \in Licenses, i \in Installations :
      [device |-> d, license |-> l, inst |-> i] \in HeldSeats <=>
        /\ binding[d] = l
        /\ inst[i] # None /\ inst[i].device = d /\ inst[i].current
  BY DEF HeldSeats, CurrentInstallations, InstallationsOf

LEMMA SeatsKept ==
    ASSUME UNCHANGED binding,
           \A i \in Installations :
             (inst'[i] # None /\ inst'[i].current) <=> (inst[i] # None /\ inst[i].current),
           \A i \in Installations : inst[i] # None => inst'[i].device = inst[i].device
    PROVE  HeldSeats' = HeldSeats
  BY DEF HeldSeats, CurrentInstallations, InstallationsOf

LEMMA PaperSigned ==
    ASSUME TypeOK, NEW i \in Installations, NEW l \in Licenses,
           license[l] # None, Sign(i, l)
    PROVE  LastPaper' = [LastPaper EXCEPT ![i] = l]
<1>1. \A j \in Installations : LastPaper'[j] = [LastPaper EXCEPT ![i] = l][j]
  BY SignEffect DEF LastPaper
<1>2. QED
  BY <1>1 DEF LastPaper

\* A request that signs nothing and moves no seat is a stuttering step.
LEMMA SeatStutter ==
    ASSUME UNCHANGED <<binding, inst, issued, license>>
    PROVE  UNCHANGED Promise!seatVars
  BY DEF Promise!seatVars, SeatsOffered, HeldSeats, LastPaper, CurrentInstallations,
         InstallationsOf

\* authorize issues a paper to a seat that is held.
LEMMA AuthorizeIssues ==
    ASSUME IInv, NEW j \in Installations, NEW k \in Keys, inst[j] # None,
           Authorize(j, k), UNCHANGED <<device, inst, key, license, binding>>
    PROVE  [Promise!Next]_(Promise!seatVars)
<1>t. TypeOK /\ OwnershipAgrees
  BY DEF IInv
<1>1. CASE ~IdentityActive(j, k)
  <2>1. UNCHANGED <<binding, inst, issued, license>>
    BY <1>1 DEF Authorize
  <2>2. QED
    BY <2>1, SeatStutter
<1>2. CASE IdentityActive(j, k)
  <2>1. inst[j].device \in Devices
    BY <1>t, ForeignKeys
  <2>2. PICK d \in Devices, l \in Licenses : d = inst[j].device /\ l = binding[d]
    BY <1>t, <1>2, <2>1 DEF IdentityActive, Active, TypeOK
  <2>3. license[l] # None
    BY <1>t, <1>2, <2>2 DEF IdentityActive, Active, OwnershipAgrees
  <2>4. Sign(j, l)
    BY <1>2, <2>2 DEF Authorize
  <2> DEFINE s == [device |-> d, license |-> l, inst |-> j]
  <2>5. s \in HeldSeats
    BY <1>2, <2>2, HeldSeatsAre DEF IdentityActive, CurrentIdentity
  <2>6. LastPaper' = [LastPaper EXCEPT ![j] = l]
    BY <1>t, <2>3, <2>4, PaperSigned
  <2>7. SeatsOffered' = SeatsOffered /\ HeldSeats' = HeldSeats
    BY SeatsKept DEF SeatsOffered
  <2>8. s \in Promise!Seat
    BY DEF Promise!Seat
  <2>9. s.inst = j /\ s.license = l
    OBVIOUS
  <2>10. Promise!Issue(s)
    BY <2>5, <2>6, <2>7, <2>9 DEF Promise!Issue
  <2>11. QED
    BY <2>8, <2>10 DEF Promise!Next
<1>3. QED
  BY <1>1, <1>2

\* The instance counts as this module does.
LEMMA PromiseCounts == \A S : Promise!Cardinality(S) = Cardinality(S)
  BY DEF Promise!Cardinality, Promise!IsFiniteSet, Cardinality, IsFiniteSet

\* An activation grants a free seat or issues a paper to the seat already held.
LEMMA BindGrants ==
    ASSUME IInv, NEW c \in Challenges, NEW t \in Tokens, ActivateBind(c, t)
    PROVE  [Promise!Next]_(Promise!seatVars)
<1>t. TypeOK /\ SeatHasOneIdentity
  BY DEF IInv
<1>1. PICK i \in Installations, l \in Licenses, d \in Devices :
        i = token[t].inst /\ l = token[t].license /\ d = inst[i].device
  BY BindRows
<1>2. license[l] # None /\ inst[i] # None
  BY <1>1, BindRows, RowsAreNotNone
<1>3. SeatAvailable(d, l) /\ SoleInstallation(d, i) /\ Sign(i, l)
  BY <1>1 DEF ActivateBind
<1>4. /\ inst'[i] # None /\ inst'[i].device = d /\ inst'[i].current
      /\ \A j \in Installations \ {i} : inst'[j] = inst[j]
      /\ binding'[d] = l
      /\ \A e \in Devices \ {d} : binding'[e] = binding[e]
      /\ license' = license
  BY <1>1, BindEffect, RowsAreNotNone
<1>5. \A j \in Installations \ {i} :
        inst[j] # None /\ inst[j].device = d => ~inst[j].current
  BY <1>3 DEF SoleInstallation, CurrentInstallations, InstallationsOf
<1>6. LastPaper' = [LastPaper EXCEPT ![i] = l]
  BY <1>t, <1>2, <1>3, PaperSigned
<1>7. SeatsOffered' = SeatsOffered
  BY <1>4 DEF SeatsOffered
<1> DEFINE s == [device |-> d, license |-> l, inst |-> i]
<1>8. s \in Promise!Seat /\ s.device = d /\ s.inst = i /\ s.license = l
  BY DEF Promise!Seat
<1>9. l # None
  BY NoneIsNoRow
<1>10. CASE binding[d] = l
  <2>1. BoundWhileCurrent
    BY <1>t, SeatParts
  <2>2. inst[i].current
    BY <1>5, <1>9, <1>10, <2>1 DEF BoundWhileCurrent
  <2>3. s \in HeldSeats
    BY <1>1, <1>2, <1>10, <2>2, HeldSeatsAre
  <2>4. binding' = binding
    <3>1. binding' = [binding EXCEPT ![d] = l]
      BY <1>1 DEF ActivateBind
    <3>2. QED
      BY <1>t, <1>10, <3>1 DEF TypeOK
  <2>5. HeldSeats' = HeldSeats
    BY <1>1, <1>2, <1>4, <2>2, <2>4, SeatsKept
  <2>6. Promise!Issue(s)
    BY <1>6, <1>7, <1>8, <2>3, <2>5 DEF Promise!Issue
  <2>7. QED
    BY <1>8, <2>6 DEF Promise!Next
<1>11. CASE binding[d] # l
  <2>1. binding[d] = None /\ Cardinality(Holders(l)) < license[l].seats
    BY <1>3, <1>11 DEF SeatAvailable
  <2>2. \A r \in HeldSeats : r.device # s.device
    BY <1>8, <2>1, NoneIsNoRow DEF HeldSeats
  <2>3. Promise!HoldersOf(l) \subseteq Holders(l)
    BY DEF Promise!HoldersOf, Holders, HeldSeats
  <2>4. Cardinality(Promise!HoldersOf(l)) <= Cardinality(Holders(l))
    BY <2>3, HoldersFinite, FS_Subset
  <2>5. Cardinality(Promise!HoldersOf(l)) \in Nat
    BY <2>3, HoldersFinite, FS_Subset, FS_CardinalityType
  <2>6. SeatsOffered[l] = license[l].seats /\ license[l].seats \in Nat
    BY <1>t, <1>2 DEF SeatsOffered, TypeOK, LicenseRow
  <2>7. Cardinality(Promise!HoldersOf(l)) < SeatsOffered[l]
    BY <2>1, <2>4, <2>5, <2>6, HoldersFinite
  <2>8. ASSUME NEW r \in Promise!Seat
        PROVE  r \in HeldSeats' <=> r \in HeldSeats \cup {s}
    <3>1. /\ r.device \in Devices /\ r.license \in Licenses /\ r.inst \in Installations
          /\ r = [device |-> r.device, license |-> r.license, inst |-> r.inst]
      BY DEF Promise!Seat
    <3>2. r \in HeldSeats <=>
            /\ binding[r.device] = r.license
            /\ inst[r.inst] # None /\ inst[r.inst].device = r.device /\ inst[r.inst].current
      BY <3>1, HeldSeatsAre
    <3>3. r \in HeldSeats' <=>
            /\ binding'[r.device] = r.license
            /\ inst'[r.inst] # None /\ inst'[r.inst].device = r.device /\ inst'[r.inst].current
      BY <3>1 DEF HeldSeats, CurrentInstallations, InstallationsOf
    <3>4. CASE r.device = d
      <4>1. r \notin HeldSeats
        BY <1>8, <2>2, <3>4
      <4>2. r \in HeldSeats' <=> r.license = l /\ r.inst = i
        BY <1>4, <1>5, <3>1, <3>3, <3>4
      <4>3. r = s <=> r.license = l /\ r.inst = i
        BY <1>8, <3>1, <3>4
      <4>4. QED
        BY <4>1, <4>2, <4>3
    <3>5. CASE r.device # d
      <4>1. r # s
        BY <1>8, <3>5
      <4>2. r.inst = i => ~(r \in HeldSeats) /\ ~(r \in HeldSeats')
        BY <1>1, <1>4, <3>2, <3>3, <3>5
      <4>3. r.inst # i => (r \in HeldSeats' <=> r \in HeldSeats)
        BY <1>4, <3>1, <3>2, <3>3, <3>5
      <4>4. QED
        BY <4>1, <4>2, <4>3
    <3>6. QED
      BY <3>4, <3>5
  <2>9. HeldSeats' \subseteq Promise!Seat /\ HeldSeats \subseteq Promise!Seat
    BY DEF HeldSeats, Promise!Seat
  <2>10. HeldSeats' = HeldSeats \cup {s}
    BY <1>8, <2>8, <2>9
  <2>11. Promise!Grant(s)
    <3> HIDE DEF s
    <3>1. Cardinality(Promise!HoldersOf(s.license)) < SeatsOffered[s.license]
      BY <1>8, <2>7
    <3>2. LastPaper' = [LastPaper EXCEPT ![s.inst] = s.license]
      BY <1>6, <1>8
    <3>3. QED
      BY <1>7, <2>2, <2>10, <3>1, <3>2, PromiseCounts DEF Promise!Grant
  <2>12. QED
    BY <1>8, <2>11 DEF Promise!Next
<1>12. QED
  BY <1>10, <1>11

LEMMA ReassignReleases ==
    ASSUME IInv, NEW d \in Devices, Reassign(d)
    PROVE  [Promise!Next]_(Promise!seatVars)
<1>t. TypeOK
  BY DEF IInv
<1>1. /\ \A j \in Installations :
           IF inst[j] # None /\ inst[j].device = d
           THEN inst'[j] # None /\ inst'[j].device = d /\ ~inst'[j].current
           ELSE inst'[j] = inst[j]
      /\ binding'[d] = None
      /\ \A e \in Devices \ {d} : binding'[e] = binding[e]
  BY <1>t, ReassignEffect, RowsAreNotNone
<1>2. UNCHANGED <<license, issued>>
  BY DEF Reassign
<1>3. HeldSeats' = {s \in HeldSeats : s.device # d}
  <2>1. HeldSeats' \subseteq Promise!Seat /\ HeldSeats \subseteq Promise!Seat
    BY DEF HeldSeats, Promise!Seat
  <2>2. ASSUME NEW r \in Promise!Seat
        PROVE  r \in HeldSeats' <=> r \in HeldSeats /\ r.device # d
    <3>1. /\ r.device \in Devices /\ r.license \in Licenses /\ r.inst \in Installations
          /\ r.license # None
      BY NoneIsNoRow DEF Promise!Seat
    <3>2. r \in HeldSeats <=>
            /\ binding[r.device] = r.license
            /\ inst[r.inst] # None /\ inst[r.inst].device = r.device /\ inst[r.inst].current
      BY <3>1 DEF HeldSeats, CurrentInstallations, InstallationsOf, Promise!Seat
    <3>3. r \in HeldSeats' <=>
            /\ binding'[r.device] = r.license
            /\ inst'[r.inst] # None /\ inst'[r.inst].device = r.device /\ inst'[r.inst].current
      BY <3>1 DEF HeldSeats, CurrentInstallations, InstallationsOf, Promise!Seat
    <3>4. QED
      BY <1>1, <3>1, <3>2, <3>3
  <2>3. QED
    BY <2>1, <2>2
<1>4. Promise!Release(d)
  BY <1>2, <1>3 DEF Promise!Release, SeatsOffered, LastPaper
<1>5. QED
  BY <1>4 DEF Promise!Next

LEMMA LicenseOffers ==
    ASSUME IInv, TypeOK', NEW l \in Licenses,
           \/ \E c \in Customers, n \in SeatCounts, e \in Nat \cup {None} :
                LicenseCreate(l, c, n, e)
           \/ \E e \in Nat : LicenseRenew(l, e)
           \/ \E status \in LicenseStatus : LicenseControl(l, status)
    PROVE  [Promise!Next]_(Promise!seatVars)
<1>t. TypeOK
  BY DEF IInv
<1>1. /\ license'[l] # None
      /\ license[l] # None => license'[l].seats = license[l].seats
      /\ \A m \in Licenses \ {l} : license'[m] = license[m]
      /\ UNCHANGED <<inst, binding>>
  BY <1>t, LicenseEffect, RowsAreNotNone
<1>2. issued' = issued
  BY DEF LicenseCreate, LicenseRenew, LicenseControl, registry
<1>3. HeldSeats' = HeldSeats /\ LastPaper' = LastPaper
  BY <1>1, <1>2, SeatsKept DEF LastPaper
<1>4. CASE license[l] # None
  <2>1. SeatsOffered' = SeatsOffered
    BY <1>1, <1>4 DEF SeatsOffered
  <2>2. QED
    BY <1>3, <2>1 DEF Promise!seatVars
<1>5. CASE license[l] = None
  <2>1. SeatsOffered[l] = 0 /\ SeatsOffered'[l] = license'[l].seats
    BY <1>1, <1>5 DEF SeatsOffered
  <2>2. PICK c \in Customers, n \in SeatCounts, e \in Nat \cup {None} :
          LicenseCreate(l, c, n, e)
    BY <1>5 DEF LicenseRenew, LicenseControl
  <2>3. license'[l].seats = n
    BY <1>t, <2>2 DEF LicenseCreate, TypeOK
  <2>4. SeatsOffered'[l] \in Nat \ {0}
    BY <2>1, <2>3, BoundsAreNat
  <2>5. SeatsOffered' = [SeatsOffered EXCEPT ![l] = SeatsOffered'[l]]
    BY <1>1 DEF SeatsOffered
  <2>6. Promise!Offer(l)
    BY <1>3, <2>1, <2>4, <2>5 DEF Promise!Offer
  <2>7. QED
    BY <2>6 DEF Promise!Next
<1>6. QED
  BY <1>4, <1>5

LEMMA PromiseStep == IInv /\ TypeOK' /\ [Next]_vars => [Promise!Next]_(Promise!seatVars)
<1> SUFFICES ASSUME IInv, TypeOK', [Next]_vars PROVE [Promise!Next]_(Promise!seatVars)
  OBVIOUS
<1>t. TypeOK /\ References
  BY DEF IInv
<1>1. ASSUME UNCHANGED <<binding, inst, issued, license>>
      PROVE  [Promise!Next]_(Promise!seatVars)
  BY <1>1, SeatStutter
<1>2. ASSUME NEW d \in Devices, NEW i \in Installations, NEW k \in Keys, Enroll(d, i, k)
      PROVE  [Promise!Next]_(Promise!seatVars)
  <2>1. /\ inst[i] = None /\ inst'[i] # None /\ ~inst'[i].current
        /\ \A j \in Installations \ {i} : inst'[j] = inst[j]
        /\ UNCHANGED <<binding, license>>
    BY <1>t, <1>2, EnrollEffect, RowsAreNotNone
  <2>2. issued' = issued
    BY <1>2 DEF Enroll
  <2>3. HeldSeats' = HeldSeats
    BY <2>1, SeatsKept
  <2>4. QED
    BY <2>1, <2>2, <2>3 DEF Promise!seatVars, SeatsOffered, LastPaper
<1>3. ASSUME Reading PROVE [Promise!Next]_(Promise!seatVars)
  <2>1. UNCHANGED <<clock, customer, device, inst, key, license, binding, token>>
    BY <1>t, <1>3, ReadingEffect
  <2>2. ASSUME NEW c \in Challenges, Verify(c)
        PROVE  [Promise!Next]_(Promise!seatVars)
    <3>1. challenge[c] # None
      BY <2>2 DEF Verify, ChallengeFresh
    <3>2. /\ challenge[c].inst \in Installations /\ inst[challenge[c].inst] # None
          /\ challenge[c].key \in Keys
      BY <1>t, <3>1, ForeignKeys DEF References
    <3>3. Authorize(challenge[c].inst, challenge[c].key)
      BY <2>2 DEF Verify
    <3>4. QED
      BY <2>1, <3>2, <3>3, AuthorizeIssues
  <2>3. ASSUME NEW c \in Challenges, NEW t \in Tokens, ActivateRetry(c, t)
        PROVE  [Promise!Next]_(Promise!seatVars)
    <3>1. token[t] # None
      BY <2>3 DEF ActivateRetry, PresentsToken, TokenLive
    <3>2. /\ token[t].inst \in Installations /\ inst[token[t].inst] # None
          /\ token[t].key \in Keys
      BY <1>t, <3>1, ForeignKeys DEF References
    <3>3. Authorize(token[t].inst, token[t].key)
      BY <2>3 DEF ActivateRetry
    <3>4. QED
      BY <2>1, <3>2, <3>3, AuthorizeIssues
  <2>4. ASSUME NEW j \in Installations, NEW k \in Keys, Heartbeat(j, k)
        PROVE  [Promise!Next]_(Promise!seatVars)
    <3>1. inst[j] # None /\ Authorize(j, k)
      BY <2>4 DEF Heartbeat, KnownIdentity
    <3>2. QED
      BY <2>1, <3>1, AuthorizeIssues
  <2>5. ASSUME NEW c \in Challenges, RejectProof(c) PROVE issued' = issued
    BY <2>5 DEF RejectProof
  <2>6. ASSUME NEW c \in Challenges, NEW t \in Tokens, ActivateRolledBack(c, t)
        PROVE  issued' = issued
    BY <2>6 DEF ActivateRolledBack
  <2>7. UNCHANGED vars => issued' = issued
    BY DEF vars
  <2>8. QED
    BY <1>1, <1>3, <2>1, <2>2, <2>3, <2>4, <2>5, <2>6, <2>7 DEF Reading
<1>4. ASSUME NEW c \in Customers,
             CustomerCreate(c) \/ CustomerArchive(c) \/ CustomerRestore(c)
      PROVE  UNCHANGED <<binding, inst, issued, license>>
  BY <1>4 DEF CustomerCreate, CustomerArchive, CustomerRestore, registry
<1>5. ASSUME NEW d \in Devices, DeviceControl(d)
      PROVE  UNCHANGED <<binding, inst, issued, license>>
  BY <1>5 DEF DeviceControl, DeviceArchive, DeviceRestore, Suspend, Revoke, registry
<1>6. ASSUME NEW d \in Devices, NEW c \in Customers \cup {None},
             DeviceCreate(d, c) \/ DeviceUpdate(d, c)
      PROVE  UNCHANGED <<binding, inst, issued, license>>
  BY <1>6 DEF DeviceCreate, DeviceUpdate, registry
<1>7. ASSUME NEW t \in Tokens, NEW j \in Installations, NEW k \in Keys,
             NEW l \in Licenses, NEW ttl \in TokenTTLs, Approve(t, j, k, l, ttl)
      PROVE  UNCHANGED <<binding, inst, issued, license>>
  BY <1>7 DEF Approve
<1>8. Tick => UNCHANGED <<binding, inst, issued, license>>
  BY DEF Tick, registry
<1>9. ASSUME NEW c \in Challenges, NEW j \in Installations, NEW k \in Keys,
             NEW p \in Purpose, IssueChallenge(c, j, k, p)
      PROVE  UNCHANGED <<binding, inst, issued, license>>
  BY <1>9 DEF IssueChallenge
<1>10. QED
  BY <1>t, <1>1, <1>2, <1>3, <1>4, <1>5, <1>6, <1>7, <1>8, <1>9, StepCases,
     BindGrants, ReassignReleases, LicenseOffers

\* The server implements LicenseSeats: every request is a promised step on the
\* seats, or none at all.
THEOREM SeatPromiseKept == Spec => SeatPromise
<1>1. Init => Promise!Init
  BY DEF Init, Promise!Init, SeatsOffered, HeldSeats, LastPaper, CurrentInstallations,
         InstallationsOf
<1>2. IInv /\ IInv' /\ [Next]_vars => [Promise!Next]_(Promise!seatVars)
  BY PromiseStep DEF IInv
<1>3. QED
  BY <1>1, <1>2, Invariant, PTL DEF Spec, SeatPromise, Promise!Spec
=============================================================================
