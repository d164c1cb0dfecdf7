# Cadestro: a formal model of the agent and its control plane

Cadestro manages a fleet of Linux machines. A control plane (`server/`, Go and
SQLite) holds devices, actions and assignments. An agent on every machine
(`agent/`, Go and SQLite) pulls the actions assigned to it, runs them on a
schedule, also while offline, and delivers their results. `contract/` is the
protocol between them and its client, `sdk/` wraps commands, files, packages
and services of the operating system, `web/` is the console.

This directory holds TLA+ modules translated from that code, TLC configurations
that check them on small instances, and TLAPS proofs of the safety properties of
twelve of the modules. Paths below are relative to the repository.

## 1. The parts, and what is hard about them

| Part | State | Operations | What a test hardly reaches |
|---|---|---|---|
| Action store, `agent/internal/store` | tables `scheduled_work`, `result_outbox` | ReconcilePolicy, GetDueScheduledWork, BeginActionRun, RecordActionResult, RecoverInterruptedActions, DeletePendingResult | a policy that changes, removes or revives an action during its run; a crash between begin and record; a rollback; a clock that is set between two readings |
| Scheduler, `agent/internal/scheduler` | two channels of capacity one, the run in hand | Run, runDue, executeAction, signalResultsReady | a signal coalesced while the receiver is busy; stale work lists |
| Session loop, `agent/cmd/cadestrod/runtime.go` | connection, fallback flag, snapshot of the outbox | runAgent, pullDesiredPolicyFromControl, syncPendingResults, sendScheduledResults | lost answers, results sent twice, a session that never ends |
| Result recording, `server/internal/core/agent.go` | `execution_results`, assignments | Stream, handleAgentMessage, storeActionResult | a handler of a dead stream that runs late, unassignment between run and delivery |
| Certificate rotation, `cert_rotation.go`, `core/enrollment.go`, `core/agent.go` | active and pending certificate in the credentials file, in memory and in the device row | renewCertificateIfDue, RenewCertificate, authenticateAgent, promotion, fallback | every loss between issue, staging and promotion on two sides; failed saves; expiry in the middle |
| Enrollment, `deviceauth/enroll.go`, `core/enrollment.go`, `core/devices.go` | tokens and their uses, devices by key, pending key of the machine | enroll, Register, consumeRegistrationToken, token and device deletion | registrations that race for the last use, a retry beside its first attempt, two commands on one machine, a crash between two saves |
| Sessions, `core/auth.go`, `core/roles.go`, `auth/jwt.go` | users, session versions, roles, providers, tokens | SSOCallback, RefreshToken, Logout, role and provider administration | a role change between rotation, read of the permissions and signature; two deletions of the last two providers |
| Catalogue, `core/actions.go`, `core/devices.go`, `core/assignments.go` | actions, devices, groups, members, assignments, results | create, configure, rename, delete, assign, desiredPolicy, compliance summary | deletion of a target while it is being assigned; results of an old definition |
| Request authorisation, `auth/interceptor.go`, `cmd/cadestro/main.go` | none | the permission of every procedure, the routes | a procedure that is added without one |
| Lists, `core/*.go`, `web/src/lib/console.ts` | page tokens | every paged list, collectPages | rows that come, go and are renamed between two pages |
| Console, `web/src/lib/api.ts`, `session.ts`, the callback page, `internal/idp` | the session in local storage, the login's cookie | login, callback, requests, refresh, logout | two requests that refresh at once, an answer after a logout or another login, a callback loaded twice |
| Stream client, `contract/client.go` | pending requests, stream, heartbeat | Run, register, request, closeStream | a request that registers while the stream closes; an answer to a cancelled request |
| Executor, `agent/internal/executor` | the device, the result being made | ExecuteAction, executeShell, executePackage, executeUpdate | the device changes, or the deadline passes, between detection, change and verification |
| Command runner, `sdk/sys/exec` | two line channels, buffers, child | runStreamingWithStdin, awaitStatusOrKill | deadline against the last line, a full channel nobody reads, limits |
| Package managers, `sdk/pkg` | none of its own; the host's packages, holds and `pacman.conf` | the methods of Manager, for four backends | queries that fail and are taken for an answer; sequences of pins whose rewrites fail |
| File replacement, `sdk/sys/fs` | a path, its backup, temporary files | WriteFile, WriteFileExclusive | a power loss between write, sync and rename; two writers of one path; a kernel without RENAME_NOREPLACE |
| The agent's unit, `agent/internal/unit`, `sdk/sys/service` | unit file, what systemd has loaded | sync on start, install-unit | a kill between write and reload; two syncs at once |

How they meet: the scheduler and the session loop share the store and two
channels; the session loop uses one stream client per connection and the
certificate the rotation chose; the server's handler of a result reads the
assignments that the catalogue administers; the executor asks the package
managers, and both run commands with the command runner; the credentials that
enrollment and rotation save, and the unit, are written by file replacement; the
console's tokens are those the session handlers sign.

## 2. The modules

| Module | Code | State and actions |
|---|---|---|
| `AgentStore` | `agent/internal/store` | One operator per transaction. A row of `scheduled_work` is spread over `action`, `retired`, `due` and `running`; `outbox` is `result_outbox` |
| `AgentRuntime` (extends `AgentStore`) | `scheduler.go`, `runtime.go` | The composition: the scheduler goroutine (`pc`), the worker that pulls policies and sends results (`session`), the two channels (`wake`, `ready`), crash and restart |
| `Schedule` | `store.go`, `action.go`, `scheduler.go` | The due time of one action as a number: the scheduler's reading of the clock, the transaction's, and a clock that anybody sets |
| `ResultDelivery` | `runtime.go`, `client.go`, `core/agent.go` | The outbox as a sequence, the stream with one message in flight, late handlers of broken streams, the server's tables |
| `ResultLedger` | | What delivery promises: a run is submitted, recorded or refused once, and forgotten only after that |
| `Certificates` | `sdk/crypto`, `server/internal/ca`, `mtls`, `cert_rotation.go` | Requests and certificates as records; the checks each side makes of them |
| `CertRotation` (extends `Certificates`) | `runtime.go`, `cert_rotation.go`, `core/agent.go`, `core/enrollment.go` | The connection loop's steps against the handlers of Hello and RenewCertificate; the credentials file, its copy in memory, the device row, and time |
| `Enrollment` (extends `Certificates`) | `deviceauth/enroll.go`, `cmd_enroll.go`, `core/enrollment.go`, `core/devices.go` | The three database accesses of `Register` as three actions; any number of enroll processes per machine, its file and the agent that loads it; token and device administration |
| `Sessions` | `core/auth.go`, `core/roles.go`, `auth/jwt.go` | Login and refresh handlers as rotate, read permissions, sign; role, grant and provider administration |
| `Catalog` | `core/actions.go`, `devices.go`, `assignments.go`, `agent.go` | Every write; a handler that reads first is a member of `open` between its reads and its write; the policy and the views as operators |
| `Compliance` (extends `Catalog`) | `core/assignments.go`, `core/devices.go` | The compliance of an action on a device and of a device, from the latest results of the current definitions |
| `Tables`, `IdentityQueries`, `DeviceQueries`, `CatalogQueries`, `Queries` | `server/internal/store` | The SQL statements as operators on tables, one module per group of tables; `Queries` has them all. `Sessions` uses the ones on providers, users and roles, `CertRotation` and `Enrollment` the ones on tokens and devices, `Catalog` also the ones on actions, groups, assignments and results, `Lists` every one |
| `Access` | `auth/interceptor.go`, `core/roles.go`, `cmd/cadestro/main.go`, `contract/gen` | Procedures, their routes and permissions. Its assumption, evaluated by TLC, says that exactly the public procedures have no permission, that all permissions together allow every procedure, and that each permission is for some procedure |
| `Lists` | `core/*.go`, `console.ts` | `paginate`, the order and the page token of every list, the client that collects |
| `Console` (extends `Access`) | `web/src/lib`, `core/auth.go`, `internal/idp`, `auth/interceptor.go` | Each await of the browser's code is a point between two actions; logins with state, nonce and cookie |
| `AgentStream` | `contract/client.go`, `runtime.go` | One session: `runAgent` with its certificate renewal, `Client.Run`, heartbeats, the requesting goroutines, the map of pending channels |
| `Executor` | `agent/internal/executor` | A run as the sequence of its commands, with a deadline and changes by others between them |
| `PackageManager` | `sdk/pkg` | What the executor's calls make of exit codes and answers, per backend |
| `Packages` | `sdk/pkg` | The Manager: per backend, what a method does to packages, holds and `pacman.conf`, and what it answers about pins |
| `CommandRun` | `sdk/sys/exec/exec.go` | Child, library copiers, collector goroutine and runner, with lines as lengths |
| `FileReplace` | `sdk/sys/fs` | Each system call of a write; a disk that lags behind the directory |
| `FileLog` | | What a path promises: complete contents, one after another, and none taken back once the directory was synced |
| `Units` | `agent/internal/unit`, `cmd_installunit.go`, `sdk/sys/service` | The steps of a sync, by the agent's start and by install-unit, over kills, failures, boots and an upgrade |
| `AgentResults` (extends `AgentRuntime`) | | `AgentRuntime` and, as `delivery`, `ResultDelivery`, with a specification for each |
| `Daemon` (extends `AgentStream`) | | `AgentStream` and, as `schedule` and `units`, `Schedule` and `Units` |
| `Host` (extends `FileReplace`) | | `FileReplace` and, as `executor`, `Executor` |

The modules named `...Proofs` hold the theorems of section 5, and the `MC`
modules name instances. `MCSessions` also bounds what `Sessions` does (section 3).
`AgentResults`, `Daemon`, `Host`, `MCConsole` and `MCSdk` put components beside each
other that share no state, so that a run or a proof module can speak of them
together. In all but the first, `part` says which one a behaviour belongs to, and
the others stay in one state. The first three are extended by the modules of the
runs and of the proofs alike: both speak of the same definitions. `map` in
`PROJECT.json` gives the lines each definition is translated from.

Four conventions recur. A transaction that starts with a write holds SQLite's
write lock and is one step; one that reads first is split at its write, which
fails when somebody committed in between (`Commit` empties `open` and
`deleting`). A request whose caller gave up may still be handled later (`late`,
`lateHello`, `lateRenew`, the members of `request`). A statement is an operator
of the `Queries` modules; what a handler makes of the number of rows is in its guard. A
variable marked *history* is not in the code. Where a guard reads one, it only
restricts inputs to those a peer can give: agents report actions they were sent
(`delivered` in `Catalog`), a run is recorded once (`submitted` in
`ResultDelivery`, which `AgentRuntime` shows), a token value is never drawn again
(`spent` in `Enrollment`).

External, modelled from their use: dpkg, apt, rpm, dnf, zypper and pacman (a
command with an accepted exit code did what it was told; a query for a package
may fail although the package is there), systemd, the process
library under `sdk/sys/exec`, the file system, the stream's transport, the
identity provider, the clock.

## 3. What is checked

Each run is a configuration of `PROJECT.json`; the comment above a property in
its module says which lines of code could break it.

| Run | Instance | What it shows | States |
|---|---|---|---|
| `agent_runs` | 1 action, 2 definitions, 2 runs, 2 faults | Every run has exactly one result, of the definition it executed; no result, policy change or signal is lost; assigned definitions are executed and every run reaches the server | 101,000 |
| `delivery` | 3 runs of 2 actions, 2 broken streams, 1 invalid result | Recorded once and in order; implements `ResultLedger`; every result is answered unless an invalid one is at or before it | 58,000 |
| `cert_rotation` | 4 serials, 13 units of time for a lifetime of 5, 3 faults, 1 failed read | The file keeps a certificate the server accepts; one certificate per lifetime; no return to a replaced one; the agent connects again unless its certificates expired | 333,000 |
| `enrollment` | 2 machines, 3 commands, 1 token of 2 uses, 3 keys, 3 requests | The use limit under concurrent handlers, a counted use for every device; one device per machine; credentials are those of one device | 731,000 |
| `sessions` | 2 users of 2 providers, 2 handlers, 2 roles; 3 and 2 session versions while providers stay, 2 and 1 otherwise | A live refresh token goes with the current permissions; one holder per version, continued only from the one before; a provider remains | 566,000 |
| `catalog` | 1 device, 1 group, 2 actions, 2 results, 1 open transaction | No dangling rows; an administrator's lists agree with the device's policy; compliance is the worst check, and COMPLIANT needs a result of the current definition | 747,000 |
| `console` | 2 requests, 2 logins, 3 session versions, 1 lost answer; lists of 3 ids, 2 names, 2 page sizes | The stored session is only continued or replaced by a login, a request stays with its login; a tab does not use up its own refresh token; one session per login; every request ends; a collected list is complete and repeats nothing | 362,000 |
| `daemon` | 3 requests; an action with one of 2 intervals, a clock set to any of 5 times; 4 syncs, 2 faults, 1 upgrade | An answer finds its request; a lost or cancelled session ends unless an unanswered renewal holds it; an action is due once per interval; a sync that succeeds has settled file and systemd | 159,000 |
| `host` | 2 writers, 3 calls, 1 fault; every action shape, 2 runs, 1 change by others, 4 backends | Writes implement `FileLog`; an exclusive write replaces nothing; a result claims what its commands found; a settled device is left alone; both with the exceptions of section 7 | 718,000 |
| `sdk` | a command of 4 lines of 1 to 3 bytes with limit 4 and channels of 1; 2 packages, 2 versions, 4 backends | Captured output is a prefix, complete or marked; the runner returns after exit or deadline; nothing is pinned that was not asked for, and pins that calls reported are there and hold | 221,000 |
| `executor_residue` | package actions only | Violated: finding 1 of section 7 | |
| `command_limit` | a command as in `sdk` | Violated: finding 2 of section 7 | |

**Why these bounds.** Two definitions and two runs are what a policy needs to
change, retire and revive one row around a crashed run; a second action shares
no row with the first. A second broken stream lets a result be in flight twice.
Three faults cover a lost answer, a failed save and a crash in one rotation, and
thirteen units of time two rotations and an expiry. Three commands are one more
than the token has uses, and two of them share a machine. In `sessions` one
user's versions go up to three, so that a token can be two versions old, and the
other user's to two, so that a change of a role ends the sessions of both. These
histories are checked while providers are only created (`RolesNext` of
`MCSessions`); with providers that are disabled and deleted beside all the rest
they are one version shorter (`AllNext`). Two results suffice for one to be newer than the other with either
order of arrival. In `catalog` a check passes or fails, and a remediation
succeeds: no statement tells its other outcomes apart, and a success is the one
that could be taken for a passed check. Two requests are what it takes to race for a refresh, and two
logins for an answer to come late. A list of three rows with pages of one has a
page before, at and after every change. A line can be shorter than, equal to or
longer than what is left of the limit, and a channel of one is full as soon as
the collector lags. For the modules with theorems (section 5) the safety
properties do not depend on these numbers.

Bounds are constants named `Max...` and guards that read them. Deadlock is
checked; where it is not (`enrollment`, `catalog`, `delivery`, `console`)
the instance stops when its bounded inputs are used up. In `Daemon` and `Host` the
step `Rest` stands for that where it concerns the unit and the files; their other
parts always have a step of their own.

**Symmetry** is used for commands, actions and handlers in runs without liveness
properties.

**Mutants.** Each property of a passing run has a mutated definition (marked
"Mutant" in the modules, listed in `PROJECT.json`) that breaks it: a dropped
guard, a swapped order or a missing reset at the lines the property guards.

**Hazards.** `hazards` in `PROJECT.json` lists where the code is exposed to an
order of events that is hard to test, with the property that would notice.

## 4. Fairness

Only weak fairness, of steps the code's own goroutines take:

- `AgentRuntime`: the scheduler's loop, whose ticker fires every minute; the
  session worker; reconnects after the back-off; a restart by the init system;
  an execution that ends, since its timeout ends it. Faults are bounded, so they
  cease; nothing else is assumed of policies or of the server than that a pull
  or a result on a live session is answered.
- `ResultDelivery`: connecting, sending, and the server's handler on a stream
  that stays up. Late handlers and administrators have no fairness.
- `CertRotation`: the connection loop, and handlers of requests that were not
  lost. Loss, crash, late handlers and the passing of time have none.
- `AgentStream`: goroutines and the readiness timer. Nothing of the server: its
  answers may never come, to a certificate renewal either. `SessionEnds` is about
  sessions whose connection is lost or whose context is cancelled; neither has to
  happen to a session that waits for a renewal.
- `CommandRun`: the collector, the process library and the runner with its
  timers. The child need not write, read or exit.
- `Console`: a request that was sent is handled or lost, and the continuation of
  an await runs once it is settled. Users, logins, logouts, the clock and
  administrators have none.

`Schedule`, `Enrollment`, `Sessions`, `Catalog`, `Lists`, `FileReplace`,
`Packages` and `Units` have safety properties only: what they do next is up to
callers.

## 5. What is proved

Eight modules prove safety properties for every value of the constants. Each
extends the component it is about, or one of `AgentResults`, `Daemon` and `Host`,
which the module of a run is or extends too: a theorem states the very property
that the run checks. The theorems have no hypotheses. They use the named
assumptions of these modules: that bounds are natural numbers, that a function given as a constant has
its domain and range, that sets of different things are disjoint. TLC evaluates
these assumptions in the runs. The instances `delivery`, `units` and `executor` need
nothing of their constants, and `schedule` needs `ScheduleAssumption` of `Daemon`: the
default interval is positive, and hours and bounds are natural numbers.

The inductive invariants below, and every module's `TypeOK`, also hold in the
instances of section 3, where TLC checked them. `theorems` in `PROJECT.json` lists
the results.

**`RunProofs`**, the agent's runs and their results.

*`AgentRuntime`*, any actions, definitions, runs and faults. `TypeOK` is
inductive, with one case per action. `ExactlyOneResult` is not: a result is
inserted when a row leaves `running`, so the proof must know that no two rows
carry one run and that a run is executed before it is recorded
(`RowNamesItsRun`), and that the row of the run in the executor's hands is still
there with its run when the verdict comes back (`ExecutingRunKeepsItsRow`), which
holds because a reconciliation retires rows in progress instead of deleting them
(`RetiredRowHasRun`, `StoreMirrorsPolicy`). `RunInv` joins these with
`ResultNamesExecutedDefinition`. A changed definition stays due until a run of it
begins, relative to that. That no signal is lost (`NoLostWakeup`) depends on the
sender's snapshot covering what it has not announced (`SnapshotCoversOutbox`),
and that no result is lost on a row being deleted only after its answer
(`DeletedIsAnswered`).

*`ResultDelivery`*, any runs, actions and broken streams. `RecordedOnceInOrder`,
and every step of the pipeline is a step of `ResultLedger` or a stutter
(`DeliveryImplementsLedger`). `PipelineInv`: the outbox is the tail of what was
submitted, the sender's snapshot begins the outbox, what is in flight or being
handled late is no newer than the outbox's head, an answer is of something the
server decided, and its table has nothing else.

**`DaemonProofs`**, what the daemon keeps going.

*`AgentStream`*, any number of requests. `AnswersFindTheirRequest`: while the
session lives, `Run` does not fail with a message nobody awaits. `StreamInv` says
that ids in use were given out and belong to one caller (`IdsInv`), and that an id
on its way in either direction is there once and is in the map with its caller
waiting (`FlightInv`); the latter needs that a caller registers before it sends
and unregisters only after it stopped waiting. The same invariant gives
`PendingIsAlwaysOpen`: `deliverPending` finds an open channel with room, and
`closeStream` closes none twice.

*`Schedule`*, any intervals and any clock. `DueOncePerInterval` speaks of what
really passed; `IntervalInv` ties it to the two readings a run began with: while
the clock was not set since a reading, it shows that reading plus the time that
passed, and the row's next time is an interval after the scheduler's reading and
at most an interval after the transaction's.

*`Units`*, any directories, binaries, versions, syncs and faults. `SyncSettles`.
`UnitsInv` says by the step a sync is at what it knows of the file and of what
systemd has loaded as long as nobody disturbed it.

**`HostProofs`**, what the agent does to its host.

*`FileReplace`*, any writers, contents, calls and faults. `ExclusiveIsFirst`, and
every step is a step of `FileLog` or a stutter (`FilesImplementLog`): a path goes
through complete contents, and a power loss takes back none that a synced
directory acknowledged. `FilesInv` follows a temporary file through its call: by
the time of the rename it is whole, has its mode and is synced (`TempInv`), so
that everything with a name is (`NamedInv`); and what is acknowledged is on disk,
and what is on disk was named (`DiskInv`).

*`Executor`*, any actions, versions and package managers, with the device changed
by others and the deadline passing between any two commands. `SuccessWasSeen` and
the action property `SettledIsLeftAlone`. `ExecutorInv` says what a run knows when
it comes to a command: which kind of action it is at, what detection answered,
and that a package it is about to change is not as the action wants it, as far as
the package manager can tell (finding 1, the bare versions and the failed queries
of section 7 excepted), unless others changed the device. `misread` keeps whether
the query of the run failed for a package that is there: then PRESENT installs,
and so still ends in the state it reports, but ABSENT reports what is not so.

**`CertRotationProofs`**, any lifetime, number of certificates and faults.
`FileIsAccepted`, `OneCertificatePerLifetime` and the action property
`RotatesForward`. `RotationInv` says that the newest certificate is the row's
active or pending one (`RowInv`), that an agent's certificate was active once and
a staged one beside it is the row's pending one (`Staged`), that every renewal
under way or left behind was asked for by a certificate that is due, or has no
effect any more (`RenewalInv`), and that whoever may still present the pending
certificate has it in the file (`FileInv`).

**`EnrollmentProofs`**, any machines, commands, tokens, keys and requests.
`UsesCountDevices`, `OneDevicePerMachine` and `CredentialsMatchDevice`. A key
belongs to one machine, wherever it is: in its file, in a command, in a request
that is still handled, or registered (`KeysInv`); so the device that
`FindDeviceByIdentityKey` answers a retry with is the machine's own. A command's
id, key and certificate belong together (`CommandsInv`), and unless commands
raced on a machine it has just one key, the one in its file (`AloneInv`). That a
use is counted exactly (`ConsumeFacts`, `UseIsCounted`) does not depend on the
row a handler remembers, only on the row that the statement finds.

**`SessionsProofs`**, any users, roles, providers and handlers.
`LivePairHasCurrentPermissions`, `SessionsFormAChain` and `ProviderRemains`.
Between the read of the permissions and the signature, and ever after, they are
either current or of an older version (`HoldersInv`), since every change of roles
moves the affected users' versions on in its transaction. While a deletion of a
provider is between its count and its write there are at least two
(`ProvidersInv`).

**`ConsoleProofs`**, any tabs, requests, logins and session versions.
`RefreshedOnce`, `OneSessionPerLogin` and the action property `LoginsStayApart`. A
session is in the storage, or on its way there as the answer to one refresh or one
login, and not in two of these at once (`HoldersInv`); a tab refreshes a session
once at a time and only while it is, or was, the stored one (`RefreshInv`); a
session that a tab has had renewed stays in the storage only until the answer is
handled (`MovedInv`). With these a tab never presents a refresh token that it has
used up itself. A request goes on with a session of the login it began with
(`CallInv`), and the versions of a login follow one another, since its code is
redeemed once (`LoginInv`).

**`CatalogProofs`**, any devices, groups, actions, results and open
transactions. `NoDanglingRows`, from the fact that what an open transaction read
is still there (`ReadsAreCurrent`), and `ViewsAgree`.

Only model-checked:

- The liveness properties `AssignedDefinitionRuns`, `RunIsAnswered`,
  `ResultIsAnswered`, `AgentReconnects`, `RequestsSettle`, `SessionEnds` and
  `ReturnsOnceDone`: fairness and ENABLED are out of the proof system's reach.
- `ComplianceIsWorstCheck` and `CompliantMeansChecked`, `CaptureIsFaithful`: the
  state of a device is a fold over its rows, and what is captured a fold over the
  lines, and what a fold computes for every sequence needs induction over data.
- `ListingIsComplete`: the pages are cut from a sorted sequence, for the same
  reason.
- `PinsHold`: what a rewritten `pacman.conf` pins comes from
  filtering and rebuilding its sequence of lines (`SelectSeq`), again by induction
  over it.

## 6. What is not modelled

- Cryptography, the encoding of keys and certificates, loading the CA from disk.
  Signatures are taken to be unforgeable and random values fresh.
- HTTP, TLS, configuration, flags and environment, which are read once; the shutdown
  of the HTTP servers; discovery, scopes and claims of the identity provider.
- Opening and migrating the two databases, and the encoding of messages
  (generated code); `GetAssignment`, `GetRegistrationToken` and `GetRoleByName`,
  which no handler uses.
- The escalated (`sudo`, `doas`) file scripts, directories, copies and reads of
  `sdk/sys/fs`, and the systemctl verbs the agent does not call; the prefix of an
  escalated command and the composition of a child's environment, which are pure
  functions on strings.
- Of `sdk/pkg`, the methods that only read and that the agent does not call
  (`List`, `ListUpgradable`, `InstalledCount`, `Show`, `HasUpdates`,
  `HasSecurityUpdates`, `Search`, `ListVersions`, `LocalPackageInfo`, `Version`),
  but for those about pins: their correctness is about the text and the exit codes
  of other programs, which a model could only assume.
- The rendering of the console.
- Back-off durations: only that a reconnect happens later matters to the
  properties.

`components` in `PROJECT.json` has the reasons part by part. What is left is text,
I/O and libraries; its state changes are in the modules.

## 7. What the work found

1. **A removed package counts as installed on Debian** (`sdk/pkg/apt.go:396`, run
   `executor_residue`). `IsInstalled` takes exit 0 of `dpkg -s` for installed,
   which a removed package with configuration files left also gives.
2. **Truncated output exceeds its limit** (`sdk/sys/exec/exec.go:169`, run
   `command_limit`). The marker is appended after the limit, so a result can fail
   the contract's validation and stay at the head of the outbox; `delivery` shows
   what that means for the results behind it (`ResultIsAnswered` excepts them).

What the properties state as exceptions, because the code behaves so:

- Two enroll commands at a time on one machine can make two devices, and an agent
  started between them keeps credentials that the file no longer has
  (`OneDevicePerMachine`, `CredentialsMatchDevice`, `raced`).
- The renewal of a certificate is a request without a timeout, over a connection
  of its own, and `runAgent` waits for it before it looks at the stream
  (`runtime.go:80`): one that is never answered holds the session, lost or not,
  until the agent is told to stop (`SessionEnds`, `RenewalHangs`).
- A query for a package that fails is taken for "not installed" by every backend
  (`apt.go:400`, `dnf.go:398`, `pacman.go:374`, `zypper.go:394`), although
  `IsInstalled` could return an error: ABSENT then reports success for a package
  that is there (`SuccessWasSeen`), and PRESENT installs it again
  (`SettledIsLeftAlone`).
- What is left of a removed package on Debian (finding 1) is taken for the package
  by PRESENT and removed again by ABSENT, and a version named without its release
  is installed again on every run (`SuccessWasSeen`, `SettledIsLeftAlone`).
- A certificate is renewed only when the agent connects, and an agent that is
  offline past the expiry is locked out (`AgentReconnects`).
- A clock that is set back after a run began delays the next run; the clamp covers
  a step between the two readings only (`DueOncePerInterval`).
- The latest result is chosen by the agent's clock (`core.sql:351`); it decides for
  the definition it checked and for no other (`CompliantMeansChecked`).
- A refresh token is used up by another tab of the browser that renews at the
  same time, and a lost answer to a refresh ends the session (`RefreshedOnce`).
- `WriteFileExclusive` on a file system without RENAME_NOREPLACE looks and then
  renames, while `sdk/sys/fs/write.go:56` says it never replaces anything
  (`ExclusiveIsFirst`). Errors of the directory sync are ignored.
- An agent that starts while install-unit runs can write the unit back for its own
  data directory, and a sync succeeds when systemd cannot be asked whether it
  needs a reload (`SyncSettles`).
- pacman: a pin is a line of `pacman.conf` that is read and rewritten without a
  lock. A rewrite that fails on its way can cut the file short and lose any pin,
  so that no earlier one is sure after it (`sure` in `Packages`); in a file without
  `[options]`, which that can leave, `Pin` reports success and pins nothing; `Upgrade`
  of a named package installs it where absent and moves it where pinned, so that
  `PinsHold` speaks of full and of security upgrades only.
- zypper: `IsPinned` answers no when the locks cannot be listed (`zypper.go:507`),
  where the other backends return an error (`PinsHold`).

Seen while reading, without a run: the executor fails on any non-zero exit,
although `zypper.write` accepts 100 to 103 (`sdk/pkg/zypper.go:33`). With dnf,
zypper and pacman the installed version includes the release, which is why a bare
upstream version never compares equal. zypper's `HasUpdates` says yes to the exit
codes 100 and 101 without a look at the table that `ListUpgradable` reads
(`sdk/pkg/zypper.go:427`). apt's `List` leaves out
packages of which only the configuration is left while `IsInstalled` and
`InstalledCount` count them. `ListPinned` fails when a pinned package is not
installed. The expression of apt's `ListUpgradable` does not match lines with the
old version in brackets. Callbacks of a login use the provider's configuration of
that moment, not of the login's start. A callback's answer clears the cookie of a
newer login. A logout that races a refresh leaves the rotated session on the
server.

## 8. Further work

A composition of `AgentStream` with `CertRotation` would check the end of a
session and the fallback of certificates in one state space; today they share
the points at which a session ends. The part of `PinsHold` that concerns apt, dnf
and zypper, whose pins are sets, could be proved apart from pacman's.
