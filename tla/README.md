# TLA+ models of KronosKVM

KronosKVM (sold as InfraBox) is an appliance that gives remote hands on a server: console,
video, keyboard and mouse, virtual media, serial ports, a WireGuard tunnel for support.
Around the appliance stand a registration and licensing server, a WireGuard server and an
operations dashboard. This directory models the parts of that system whose correctness
depends on the order of things: requests that interleave, files that several processes
replace, awaits between a check and its use, crashes, retries and clocks.

## The system

| Part | State | Operations | What is hard |
| --- | --- | --- | --- |
| Registration server (`registration-server/app`) | PostgreSQL tables: customers, devices, installations, keys, licences, bindings, tokens, challenges, sessions | enroll, challenge, verify, activate, heartbeat; administrator create / edit / approve / suspend / revoke / reassign / renew / archive | retries of used tokens, releases while approvals are out, capacity, archival, expiry |
| Registration agent (`device-registration/client.py`) | `authorization.json`, `status.json`, `agent.lock` | sync (timer), activate (operator) | lost replies, kills between two writes, overlapping runs, a wrong clock, offline grace |
| Backend view of registration (`backend/app/services/registration.py`) | none (reads `status.json`) | read_registration_status | stale reports |
| Serial console (`backend/app/api/serial.py`) | lock registry, active sessions, open ports | WebSocket console, lock API, reset | awaits between acquisition and `try`, reset against a closing session |
| Staging storage (`backend/app/services/storage.py`) | staged files, fragments, upload tasks | upload, cancel, delete, restart cleanup | interleaved uploads, quota snapshots, replacement of a file in use |
| Virtual media (`backend/app/services/virtual_media.py`, `scripts/handle-virtual-media-action.sh`) | request file, status file, LUN | attach, eject, force eject, host helper | single-slot mailbox, helper killed between LUN and status |
| Tasks and services (`backend/app/services/tasks.py`, `api/services.py`, `scripts/handle-service-action.sh`) | task table, request and result files | queue, reconcile, host helper | eviction, lost or overwritten requests |
| Wired settings, Wi-Fi access point, access to the customer's network (`api/network_settings.py`, `wifi.py`, `ap_access.py`, `scripts/*-host.py`) | single-slot request files, saved settings, live configuration | apply, fall back, roll back, provision at boot | partial failure of a change, requests mixed from two |
| Recovery, external storage, checksums | published image, mounted disk, digest files | publish, restore, copy, eject | failure half way |
| Web authentication (`backend/app/security`) | credential file, sessions, attempt buckets | login, logout, change password, reset | failed writes, revocation of live sockets |
| Video, remote desktop, SSH, HID | capture lock, current stream, slots | stream, still, connect | takeover, a lock released by a generator that never starts |
| Remote Assist and WireGuard on the appliance (`scripts/remote-assist-host.py`, `backend/app/api/remote_assist.py`) | configuration, key file, profile, request | enable, disable, register, replace profile | snapshot and rollback over several files, replay of a request |
| WireGuard server (`scripts/kdx-wg-*.py`) | configuration, registry, live interface, grants | add, remove, authorize, receive, revoke | three copies of the truth, repeated requests |
| Front panel and power (`backend/app/hardware`, `scripts/power-button.py`) | menu, debounce counters, worker, power request | key scan, menu, actions, stop the host | bouncing contacts, a menu that changes under the finger, answers that never come |
| Dashboard (`dashboard/backend`) | sessions, attempts, VPN snapshot | sign in and out, proxy, read the VPN's status | limits on either side of an await, a shared snapshot |
| Web interface, installers, vendored Guacamole, migrations | - | - | not modelled: presentation, sequential one-off scripts, third-party code |

How they interact: the agent calls the server over HTTPS and leaves its verdict in a file;
the backend only reads that file. The backend never touches the host itself: it replaces a
request file, a systemd path unit starts a root helper, and the helper replaces a status
file. The dashboard proxies the registration server's administrator API with the
administrator's own token.

## Modules

### Registration, LicenseSeats, RegistrationProofs

`Registration` is the server. Each handler is one action, because `db()` takes a
transaction-wide advisory lock on PostgreSQL before anything is read; the interleavings are
those of requests, of administrators against devices, and of the clock. Tables are functions
from row identifiers to rows. Rows that every handler treats as missing (an expired token, a
used or expired challenge, an expired session) free their identifier, which stands for a
later random one. The guards follow the order of the checks in `activate`, `approve` and the
lifecycle handlers. A refusal through `reject()` commits the consumption of the challenge
(`RejectProof`); the one refusal that does not (`active_customer` inside `activate`) is
`ActivateRolledBack`.

Abstracted: a device row and its serial are one identifier; an installation is enrolled with
one key, which `identity()` enforces and `References` checks; the sessions of an identity are
their latest expiry; audit and event rows, contact columns, `last_seen`, administrator
accounts and roles, and the rate limiter are left out. `cleanup` in `manage.py` removes
exactly the rows the abstraction already treats as missing.

`LicenseSeats` is what the server promises with no protocol at all: capacity, grant, issue and
release. `SeatPromise` is the refinement: seats are the pairs of a binding and the current
installation, paper is the licence of the last document signed.

`RegistrationProofs` proves both for all customers, devices, licences and clocks (see Proofs).

### RegistrationAgent, RegistrationAgentProofs

One appliance, its agent runs and its backend. Every step of a run between two requests or
two file replacements is an action, and `Kill` may fall between any two of them (systemd's
`TimeoutStartSec=60`, a power cut, an interrupted prompt). `agent.lock` is taken by `Start`
before anything is read and held while the operator types (`Prompted`). The network may be
up, answer with an HTTP error (a denial, as in `Transport.post`), or be down (unavailable:
offline grace). The server is reduced to `entitled`, which `DocumentsFollowSeat` justifies: a
document is signed exactly for an entitled identity and ends `Grace` later. The private and
public copies of `status.json` are one write; a document for another identity, a bad
signature and TLS errors are denials and are folded into a failing network. A challenge is signed
only when it ends within 300 seconds ahead of the local clock (`ChallengeAlive`), so that a wrong
clock blocks activation and renewal too. The seven-day
cap on a document is a property of the server's configuration and is left out.

### ServiceActions

Service control from the click to the task's final state. The API handlers run in FastAPI's
thread pool and share the task table, one temporary file name and one request file; the
helper is another process that takes no lock on them. The steps of `_queue()` are
`QueueStart` (the task row), `QueueWrite` (`.service-action.tmp`, the same name for every
request) and `QueueReplace` (the rename over whatever request is still waiting). The
helper reads the file three times by name, once for each line, removes it, runs `systemctl`
and writes the result: `HelperStart`, `HelperReadAction`, `HelperReadTask`, `HelperRemove`,
`HelperExecute`, `HelperReport`. systemd runs one instance of the unit, so that there is one
helper, and `HelperKilled` may fall between any two steps. `_reconcile_results()` is
`PollRead`, `PollFinish`, `PollRecover`, `PollConclude`, `PollUnlink`, by several requests at
once; recovering an unknown task takes two steps because the table lock is released between
`start_task` and `finish_task`. `ApiRestart` forgets the table and everything in progress.

Abstracted: the text of a request is the identifier of its task, through `asked`; writing the
temporary file and writing a result are atomic; a run without a request only refreshes the
status file and is left out, as are the fields of a task row other than its state.

### StagedMedia, StagedMediaProofs, StagingUploads

`StagedMedia` is the staging directory, the recovery directory and the virtual medium. The
content of a file is its inode: a completed upload or copy creates a new one. An HTTP
operation is its check (`DeleteChecked`, `UploadChecked`, ...) and its effect (`Delete`,
`Upload`, ...), with a move split into its link and its unlink; between them any other thread
or the helper may act. `staged` and `published` are the two directories, `status` is what
`_ensure_media_released` reads, `lun` is the file the gadget really has open. The helper reads
action and name in two reads, removes the request, validates, clears the LUN, loads it and
writes the status; each is an action, and `HelperKilled` may fall between any two.

Abstracted there: the check an upload makes at its start is folded into the one it makes at
its end; one upload or copy per name at a time, which `OneUploadPerName` justifies; one
recovery folder; the gadget directory exists; a request refused because the watcher is stopped
is a request not made.

`StagingUploads` is the life of an upload: admission against the quota and the free space
(`Begin`), chunks, cancellation, failure, completion, deletion of staged files, a restart
that loses the task table. What makes it hard is that a cancelled upload goes on until its next
chunk: `UPLOAD_TASKS` is its reservation. Sizes are a few units of a small disk, and their sum is the
number of units (`Total`).

### SerialConsole

Browser sessions, lock requests and resets of one port (ports share nothing). A session is a
coroutine of one event loop, so that an action is what happens from one await to the next:
`Connect` takes the lock and starts `accept()`; `Accepted` registers the session and either
starts the probe in a thread or opens the port; `ProbeEnds` and `OpenPort` follow the
automatic rate; `Finish` is the `finally` block. `AcceptFails` is the exception that
`accept()` raises before the `try`. `ResetActive` and `ResetForced` are the two branches of
`reset_session()`. A lock's token is the identity of its holder, since each acquires once.

Abstracted: device discovery, line settings and the bytes themselves; a reading thread that
outlives its port, whose data goes nowhere.

### WebAccess

The administrator's credentials, the sessions and what hangs on them. Every operation of
`AuthStore` holds one lock and is a step; a request is three (the middleware's check, the
operation, the answer), so that a change of password may wait behind another one. Failed
writes are the two that matter: before the file was replaced, and after it (`doubtful`: the
disk has the new password, memory the old one, and the answer says that it failed). The host's
reset stops the container, writes and starts it again. SSH, keyboard and remote desktop
consoles are coroutines from the handshake to the end of their `finally` block, with the slot and
the task they take; a revoked session is noticed at the next look. Where a handler awaits its target
with nobody looking meanwhile and no time limit, the console is in a phase of its own: "wait" for the
shell of an SSH session (`create_process`, ssh.py:64) and for a gateway that does not read (`drain`,
remote.py:149), "closing" for the end of an SSH connection (`wait_closed`, ssh.py:122). The deques of attempts are one
set of records (`Attempt`), numbered so that two of one client in one tick stay two.

### VideoCapture

Streams and stills that want the one capture device. A stream is a handler thread up to its
answer and a generator afterwards, which the web framework enters with the first chunk: a
browser that leaves before that abandons it. Taking over reads the current stream, signals its
encoder, waits for it and then for the lock. A signal may find the encoder stuck in the driver.

### WifiAccessPoint, CustomerAccess, EthernetSettings, PowerControl

Four mailboxes with their helpers. In each the API replaces one request file and a systemd
path unit starts the helper; what differs is what a failure leaves. `WifiAccessPoint`: profile,
saved settings and radio, with the fallback from 5 to 2.4 GHz, the rollback, provisioning at
boot and the refresh of the status. `CustomerAccess`: firewall, DHCP options, what dnsmasq
really serves, the saved policy, and the closing policy that a failure applies, which may
fail too; also the panel's own way to switch it. `EthernetSettings`: the helper reads five fields
by name, each in a step, from a file that may be replaced, then changes the connection and brings it
up. NetworkManager is external: after a boot, and when a cable is pulled or a lease is lost,
the interface has no connection until it brings one up (`Reboot`, `LinkLost`, `Activates`), which it need not.
A helper that finds none up adds one, and the others stay beside it (`spare`); NetworkManager may choose those.
`PowerControl`: the button against what it was held for, and the request file that
survives the restart it asks for.

### KeyScanner, FrontPanel

`KeyScanner` is the debouncing of the four keys over every short sequence of samples, against a
definition that looks at the whole sequence (`Clicked`). `FrontPanel` is the menu, its cached view
of the host, the one worker and the requests it posts; the web interface changes the host
underneath. A key is handled after a refresh, so it may meet another menu than the one on the
display. `Confirm` has the refusal of `control()` while an action is under way; `WaitsForItsAction`
shows that no dialog is ever open then.

### RemoteAssist, WireGuardPeers

The two ends of the tunnel. `RemoteAssist` is the appliance: an action is a plan (`Plan`) of steps
over the key file, the recovery file, the cached reply and the tunnel; a failed step is undone
by `Undo`, in the order of `transactional_process()`, and undoing may fail as well; a kill leaves
what there is (`disturbed`) and the request in its mailbox, from which it is carried out again.
`WireGuardPeers` is the server: a transaction writes configuration, live interface and registry,
a failure puts them back; grants with their SSH login, the forced command, replies that
are lost and asked for again, revocation.

### Dashboard

Signing in with its two limited tables on either side of the await, expiry, signing out, and
the snapshot of the VPN that all readers share behind one lock. Everything else is forwarded
with the administrator's token and decided by the registration server. Its limits are constants, as
they are of the application: `consoles.cfg` scales them down.

### MC modules

`MCRegistration`, `MCRegistrationAgent` and `MCStagedMedia` instantiate one module. `MCLicensing`,
`MCTunnel`, `MCConsoles` and `MCHost` hold several that share no state: a variable (`side`, `end`
or `part`) fixed in the initial state says which of them moves. The states of such a run are the sum
and not the product of its parts, nothing is lost by it, and the parts that do interact are
composed in the module itself (the agent with what the server may answer, the helpers with
their API, the panel with the web interface).

Their properties are conjunctions by theme, for instance `LimitsHold`: every conjunct is stated
and explained in the module of its part, where there is also, marked "Mutant", a
plausible bug that violates it.

## Runs

| Run | Instance | Shows |
| --- | --- | --- |
| `reg_identity` | 1 customer, 1 device, 2 installations, 2 keys, 1 licence, 2 tokens, 1 challenge, clock to 2 | identities, approvals and documents stay consistent |
| `reg_owner` | 2 customers, 2 licences, 1 device, clock to 1 | ownership, archival, refinement of LicenseSeats |
| `licensing` | server: 2 devices, 2 installations, 2 keys, 2 tokens, one licence of 1 seat, clock stopped; agent: 2 runs, 1 kill, clock to 4, grace 3, staleness 1, challenges of 1, accepted 1 ahead | the last seat is never given twice, ACTIVE is backed by a binding; overlapping runs keep the promises of a single one (`OverlapsAreHarmless`) |
| `reg_challenge` | 1 of everything | expected violation: see Findings |
| `agent_recovery` | 1 run at a time, 1 kill, 1 clock change, clock to 2, grace 2, staleness 0, challenges of 1, accepted 1 ahead | authority ends with the grace and with a denial, a denial sticks; recovery under fairness |
| `media` | 2 names with 1 client at a time and 2 uploads, or 1 name with 2 clients and 3 uploads; any number of kills | the status agrees with the gadget, moves and copies never overwrite |
| `media_mounted` | 1 name, 1 client, 1 upload | expected violation: see Findings |
| `media_moves` | 1 name, 2 clients, 2 uploads | expected violation: see Findings |
| `tunnel` | server: 2 devices, 2 keys, 2 addresses, 1 grant, 1 kill or reboot; appliance: 2 profiles, 1 kill or reboot | addresses are unique, one peer per grant, a revoked grant adds nothing; each end agrees with itself after every failure; a running tunnel keeps its profile |
| `assist_reply` | 1 profile | expected violation: see Findings |
| `consoles` | 3 serial sessions, 1 lock request, 2 resets; 2 streams, 1 still; 2 browsers, 3 passwords, 2 consoles, 1 slot; 2 keys and 8 samples; 2 stop requests; 2 uploads of 2 names on a disk of 4; 3 sign-ins, 2 readers | exclusive access up to resets, locks and slots come back, passwords and limits hold, keys act once, what is told to end does end |
| `host` | services: 2 tasks, 2 polls, 2 services, table of 2; Wi-Fi: 2 passwords, 2 requests; access: 1 list of networks; wired: 2 requests, 2 interfaces, DHCP or static with 1 address and with or without a gateway and a name server; panel: 2 events; Remote Assist: 1 profile; 1 kill or reboot each | requests act once, the host is as saved, answers are true, come, and survive refreshes |

Bounds. Identifiers are symmetric, so two of a kind suffice for every conflict the handlers
can meet (a second installation for a device, a second device for a licence, a second token
for an identity, a second key for an address), and the handlers relate at most two rows of a
table. The clock runs far enough for a token, a document and a licence to expire at different moments.
In the agent, grace is longer than staleness, as in the real configuration, so that in `licensing` each of
the two limits is the binding one in some behaviour. Times are scaled: 900 seconds of attempts,
15 of freshness, the samples of a key and the seconds of a hold become one to three
ticks, which keeps their order and what may fall between them.

One kill or reboot is enough where it leaves the process idle and the files as they are, since the
next one finds the same states; `WifiAccessPoint` and `CustomerAccess` have also been checked with two.
The services' two tasks let one request replace another at every point of the helper's reads, and
two polls reconcile one result at once. A mixture of two requests that
costs a third one shows only with three: `MixedRequestIsLost` and `MixtureLosesOne` have been checked
with three requests too, and `HostProofs` proves both for any number. The service table holds 2
rows (`MAX_TASKS` is 500), as many as there are tasks: evicting a row between `start_task` and
`finish_task` of one reconciliation needs as many new tasks as the table holds, within two
consecutive statements. In `media` the properties about the status concern the names the helper
handles, those about moves the threads that handle one name, which is what the constraint `Focus`
divides. In the serial console, the third session is what a second reset lets in beside two that
are still unwinding. `MaxEvents` of the panel counts confirmed actions, changes made
elsewhere and restarts together: two are one action with one change under it, or two actions; `PanelNext`
leaves out the pages and switches that behave like one that is kept. The web session is
looked at from three sides (attempts, passwords, consoles), each with the browsers and clock it
needs, and the dashboard from two. In `host`, Remote Assist is there for its answers and gets the requests of the page and boots; all its
other ways in, and its types, are in `tunnel`. Each of the parts has also been checked alone on a larger instance
(three streams, uploads or requests, two kills, three panel events, three sign-ins with two
attempts each).

Deadlock is checked in every run of the registration server, the agent and the media and in
`tunnel` and `assist_reply`; not in `consoles` and `host`, where sessions, tasks and requests
are identifiers that get used up: a system at rest there is the end of the bounded history and
not of the program.

Fairness. `agent_recovery`: weak fairness of a run's own steps (the process is scheduled,
requests have timeouts, and an operator eventually types a token or is killed), strong fairness
of the timer's start (a timer that fires again and again meets a free lock sometime, although
operators may take it in between), weak fairness of time and of the clock's correction (the
appliance runs time synchronisation). Nothing is assumed of the network or the server but the
premise of the property. `consoles`: the event loop resumes a coroutine whose await has ended,
which is the case once a reset has closed its socket; a generator whose browser has left is closed;
`guarded_receive()` looks at the web session every five seconds; the login of an SSH session, and each
step of a remote desktop up to its first frame, has a time limit. Nothing is assumed of the waits that have none
(phases "wait" and "closing" of `WebAccess`), and `RevokedConsoleEnds` promises nothing in them. A session, stream or console nobody told to end owes nothing. `Cleanup` is the
disjunction of these steps: each ends once, so that its weak fairness follows from that of each.
`host`: threads run (each queueing request), systemd starts a helper while its request file
exists and its commands end or time out, an open page goes on listing tasks, the panel's loop
ticks and its worker's commands have timeouts. No fairness makes anybody ask for anything, nor
anything fail, be killed or restart. The safety runs assume none.

## Proofs

All are for every value of the constants within the named assumptions of each module (bounds are
naturals, `None` is no identifier, finite sets where something is counted).

`RegistrationProofs`: the inductive invariant `IInv` is `TypeOK`, `References`,
`LicensesOwned`, `SeatHasOneIdentity`, `OwnershipAgrees`, `StatusBacked`,
`SeatsWithinLicense`, `ArchivedCustomerIdle` and `NoStaleApproval`. The parts need each
other: an activation keeps one identity per device only because references are intact;
an archived customer stays idle only because a bound device has the owner of its licence and
because ACTIVE implies a binding; a release leaves no stale approval only because a token's
key belongs to its installation. There is one lemma per part, each with a step per action;
effects of the handlers that several of them need are lemmas of their own. The action properties
(`RebindNeedsFreshToken`, `DocumentsFollowSeat`) and the refinement of `LicenseSeats` follow from
`IInv` step by step.

`RegistrationAgentProofs`: any number of runs, kills and clock changes for `DenialSticks`. The
argument is the lock: only its holder writes (`Exclusive`), so that what it has read is still what the
files say (`SeenIsCache`), and an outage cannot restore what a denial erased. The two
bounds on authority hold until somebody sets the clock (`jumps = 0`); `ClockInv` says that up to then no
report or document is from the future (`DocumentsEnd`, `ReportsOrdered`). The condition is needed: a clock set
back makes an old document valid again.

`WireGuardPeersProofs`: `AddressesUnique` is not inductive, because a transaction frees an address in
one copy before the others and may put it back. `IInv` counts what a transaction may still write or
undo as taken (`Reserved`), so that no other key may claim it; the lock leaves one transaction at a time.
`OnePeerPerGrant` rests on the binding of a grant to the one key it was first used with.
`CopiesInv` says what the three copies are in each phase of a transaction, in terms of those it found:
each is what it was or that with the peer of the transaction added or taken out, and where it is which is settled
by the phase. A key that a kill left in some copies only is `unsettled` until it is next put right, and exempt.

`TunnelProofs`: the types of both ends, `EndsAgree` and `ActiveProfileStays`. At rest the appliance's key file,
recovery file and tunnel are the configuration's, except for those a kill or a failed rollback has `disturbed`; that says
nothing of the middle of an action. The invariant gives, for what is left of the plan (`Rests`), what
each of them is (`Doing`, `Undoing`): one that the rest of the plan still writes is the old one or the
candidate's, one it has written is the candidate's, one outside the plan is the old one. The rollback works because
what `Begin` saved was the configuration's (`OldIsConfigured`), and may only touch the tunnel
because an activating action is the only one that can have replaced it (`Aims`, `Permitted`). Plans are
sequences; what is used of them (`Tails`, `Shape`, `UndoShape`) is proved first.

`SessionsProofs` and `ConsolesProofs` prove the safety properties of the run `consoles` for its
whole composition (`PartsSpec`): the types, `CaptureIsManaged`, `PasswordInForce`,
`ChangedBySignedIn`, `LimitsHold`, `KeysActOnce`. Each part has an `IInv`, also in its module; the composition
only says that a step of one part leaves the others alone.

The serial port, for every finite set of sessions, every set of lock requests and every number of
resets (`OneSessionPerReset`, `LockEndsWithHolder`). The number of sessions with
the port open is not inductive: a session may hold the port before it shows, or have lost its
lock long before. `IInv` counts instead the sessions that passed the lock and no longer hold
it (`Displaced`) and bounds them by the resets: a lock is taken away from a session that has not
ended only by a reset, one session at a time, and a session that ends leaves the set. Whoever
has the port open is displaced or is the one holder, which gives the bound.

Video: the lock's owner is a stream or a still in the part of the code that ends with its release, and whoever
captures has the lock (`StreamsHold`, `StillsHold`, `Holding`); a stream that runs is the
registered one because registration, start and end happen under the lock.

Web sessions: every operation of `AuthStore` is one step under its lock, so that `sessions` never holds one of a
former password (a change empties the table, the host's reset finds none: `StoppedForgets`). The file, the memory
and what was reported differ only by a change reported as failed (`doubtful`) or before the first file is written
(`FactoryUntilWritten`). The number of attempts in every minute is bounded although only the last minute is
looked at: whatever window a new attempt belongs to has, besides it, only attempts of the last minute
(`AttemptsArePast`). `ChangedBySignedIn` is the other direction: of all steps that put a password into memory or on
disk, a login, a load and a start use one that was in force, the host's reset is excepted, and every other one,
also where the write fails or the server dies in it, goes through `MayChange` of the very request it serves.
A slot belongs to a console before the end of its `finally` (`HeldWhileOpen`).

Uploads: sums are not in the prover's reach, sets are. A sum of sizes is a number of units, and
`QuotaKept` bounds one set of them (`Claims`): the units of every file and, of every name being uploaded, the
larger of the file and the upload. `RoomKept` does the same for the disk, with what is written and what tasks may still
write. Both hold while every upload has announced its size (`undeclared`).

Dashboard: what counts has not been swept out of the table (`CountedAreKept`) and no bucket holds
more of it than the limit (`BucketsBounded`).

Keys and button: a run of equal samples has a first one; `KnowsRun` says that the scanner's memory is the
last run and its beginning, `KnowsPress` and `KnowsHold` that what it counts as pressed was steady and seen released
before. `EventsAreClicks` and `ActsAsHeld`, which look at all samples, follow.

`StagedMediaProofs`: the helper's phases say what is loaded and which report is due (`OnlyAttachLoads`,
`ReportIsDue`, `RequestAwaited`), wherever it is killed; from them `StatusTellsTheTruth`.
`MovesNeverOverwrite` follows action by action.

`HostProofs` proves the safety properties of the run `host` for its whole composition (`HostSpec`):
`HostTypeOK`, `RequestsAtMostOnce`, `HostAsSaved`, `AnswersAreTrue`, `WifiAnswersHold`, `PanelDoesAsTold`.

Service actions: a task waits in one place at a time (`InOnePlace`, `QueuedFirst`) and comes back
to none once the helper removed it, hence nothing runs twice (`RunOnce`). What the helper has read
comes from the request that is there or from one that is lost (`ReadFromRequest`), and what is lost
stays lost, hence `MixedRequestIsLost`. `SuccessIsEarned` speaks of the table only; a success is on its way to it
as a result file and in a poll, and was earned in each (`EarnedOnTheWay`). A row that is evicted, cleared or
rebuilt adds none, because the table never has two rows of a task (`TableOK`).

Wired interfaces: as above for the mixture; `ShownWhileApplied` says that the page is at "applying" from before the
connection is changed, so that `AppliedIsLive` is not disturbed by a change that fails half way. What NetworkManager brings up is the
changed connection or one beside it, and a connection leaves its place only to stand beside the next (`Beside`).

Customer access: a helper that fails starts again with the closing policy, and that may fail as well.
`JobDone` says what has been applied up to each phase, `PolicyInForce`, `OptionsAreServed` and `StatusIsSaved` what
is true before and after, each unless its part is in `doubt`.

Access point: a helper remembers what it found (`Remembers`), may have tried 5 GHz before 2.4 GHz
(`Attempts`) and has an answer before it gives it (`Concludes`). The exceptions of the
properties are all needed: with `hostapd` a fallback is compared with what the profile was at the
beginning, which leaves the profile at 5 GHz.

Front panel: `Numbered` keeps the answer in the cache apart from the action that runs, and
`ToldWhenDone` follows a success from who did it to the display; `IdleIsLate` closes a dialog
before the display goes dark.

Only model-checked: liveness (`EverythingEnds`, `AnswersCome`, `Recovers`, and the fairness
they rest on), which the prover does not reach. `OverlapsAreHarmless` of the `licensing` run is
the conjunction of four properties of the agent; each is a theorem of `RegistrationAgentProofs`
about the agent's own specification, and the run checks them again next to the server
(`SidesSpec`), a composition without shared state that no theorem is about. Every other property
of a passing run is stated by a theorem.

## Findings

Where a document says otherwise than the code, with a run that shows it:

`reg_challenge`: API.md says a challenge can be attempted once, whatever the outcome. When the
customer of the approved licence was archived after the approval, `activate` consumes the
challenge, then `active_customer` raises, and the rollback makes the challenge fresh again.

`media_mounted`: docs/virtual-media.md says that mounted media cannot be deleted until it is
ejected. The deletion asks the status file, which the helper writes after the gadget has
opened the file; a deletion between the two unlinks a mounted medium. A second way leads
there without a race: an attachment that is refused (no such file, or not an image)
writes the requested name into the status while the earlier medium stays open, after which
the earlier one may be deleted. `StatusTellsTheTruth` is what remains true: "ejected" and
"attached" can be believed between runs, "error" names what was asked for.

`media_moves`: recovery.py calls link and unlink an atomic move. An upload that replaces the
staged name between the two is what the unlink removes; no name is left for it.
`MovesNeverOverwrite` is what remains true.

`assist_reply`: remote-assist-host.py:266 keeps the server's reply before the installation, because
"recovery needs no second grant". The reply is among the files that the rollback of a failed
installation restores, so it is deleted again.

Met while modelling; each is inside a property that holds, as the exception it makes:

- Services: the helper may read its lines from two requests when one replaces the other; the first
  is then lost and nothing is done twice (`MixedRequestIsLost`). The wired interfaces likewise
  (`MixtureLosesOne`); their page stays at "applying" when the helper ends with status 1.
- Wired interfaces: the page goes on saying "applied" when NetworkManager does not bring the connection up after a
  boot or a pulled cable; and since a helper that finds none up adds another (handle-network-action.sh:27-31), the
  one beside it may come up instead (`AppliedIsLive` says what remains true).
- Serial console: a reset lets the next session open the port while the former is still
  unwinding, although docs/serial-console.md calls access exclusive (`OneSessionPerReset`); a session
  whose `accept()` raises keeps its lock until a reset (`LockEndsWithHolder`).
- Video: a stream whose browser leaves before the first chunk keeps the capture lock until the API
  restarts (`LockHasOwner`), although docs/kvm-recovery-20261017.md:32-33 reports that closing
  the stream releases the lock.
- Remote Assist: docs/remote-assist.md says that reconnecting at start-up requires both switches;
  remote-assist-host.py:475 looks at one, the other being reset at boot. "Enable without a profile shows
  Setup required" is refused by the code. A request pending at a reboot may bring the tunnel up
  after the boot has switched it off. A deletion of the profile that is killed can never be repeated.
- Wi-Fi: the fallback through hostapd compares with the text before the attempt (wifi-host.py:217),
  so that a failed 5 GHz attempt is rolled back where NetworkManager's would end in 2.4 GHz
  with a notice, although docs/wifi-modes.md:18-20 says that Standard is then started and saved, with a visible
  message (`FallbackIsAnswered`). After a killed helper the same password asked for again is answered as done while the
  radio keeps the old one until the next boot (`disturbed`).
- Customer access: a closing policy that fails leaves the saved policy stale; a restart of dnsmasq
  that failed is not repeated while the options are equal (`doubt`); a failure while closing drops the saved limits,
  although docs/lcd-mvp.md:40 says they are kept (`LimitsAreRetained` says when); a failing write of
  the status at a refresh closes the access.
- Front panel: an answer after 30 seconds without a key is never shown; the VPN's answer may say
  "failed" or "timed out" for what is carried out later.
- Uploads: one without Content-Length reserves nothing, so that the quota may be exceeded together with
  others (`undeclared`). A conflict at completion is recorded as "cancelled"; the task of a cancelled upload
  ends as "failed"; a cancellation is noticed only with the next chunk.
- Consoles: docs/web-authentication.md:10-11 says that open consoles are revoked within five seconds of logout or
  password change. Nothing looks at the session while the handler awaits an SSH shell (ssh.py:64) or a gateway that
  does not read (remote.py:149), and neither wait has a limit; the SSH connection of a revoked console may stay as
  long in `wait_closed()` (ssh.py:122). `RevokedConsoleEnds` says when the promise is kept.
- Web sessions: when the directory cannot be flushed after the file was replaced, the change is
  answered as failed and the next start has the new password (`doubtful`).
- Dashboard: a sign-in that finds the table full has already ended the browser's former session.

## Not modelled

- Registration simulator: a test client that follows the agent's protocol.
- Registration server: audit rows, contact data, administrator accounts and their rate limiter. With another
  database than PostgreSQL handlers are not serialised at all (`db()`); the deployment documents PostgreSQL.
- A task whose helper was killed runs for ever: nothing times it out, and no property says otherwise.
- Checksums (one lock, a result kept with size and time of the file) and external disks (one sequential
  script behind a lock): nothing interleaves beyond what the copies in `StagedMedia` show.
- Remote desktop protocol, SSH and HID framing, connection profiles: bytes and configuration.
- Front panel: drawing, the power board (Witty Pi) and the history of recoveries, which only read.
- The WireGuard server refuses a repeated `add` as a duplicate, and an enrolment reads the registry without the
  lock before it takes it; both are part of the actions, no property is about them.
- Device identity reads or creates one file; the dashboard's collector writes one file from what it
  reads; the web interface shows the backend's state; installers and migrations run once, sequentially.

## Plan

Done: every component whose state is touched by more than one actor, the proofs above, and liveness
wherever the code schedules its own progress.

Left: a composition of the agent with `LicenseSeats` instead of the abstract `entitled`: the backend's
belief ends within the grace of a release.
