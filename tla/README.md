# Factory V3 in TLA+

Factory V3 is a resident daemon (`factoryd`) that turns tickets into delivered
commits. PostgreSQL holds every durable row, a content-addressed store holds
every sealed artifact, and a Git checkout holds the product. A campaign driver
polls the database and launches at most one paid actor session at a time
(Product, Engineering or Quality). The actor runs in a host process of its own;
its work comes back as RPCs that the daemon turns into store transactions. An
operator, the Architect, sponsors tickets, decides on reviewed candidates,
releases failed attempts and cancels campaigns through a local socket.

This directory holds the TLA+ specification of that system, its TLC
configurations and the TLAPS proofs about it. Source paths below are relative
to `src/crates/factory-kernel/src/` unless they say otherwise.

## 1. Inventory

| component | state it keeps | operations | what makes it correct |
|---|---|---|---|
| ticket authority, `ticket_store.rs` | ticket rows with the current revision, attempt rows with stage, rework count and retry audit | submit proposal, claim, fail attempt, retry Engineering, retry Quality; buffer status, recoverable failures | one ticket in flight, one unreleased attempt per ticket, bounded retries, closed tickets stay closed |
| decision authority, `decision_store.rs` | candidates, validations, reviews, decisions, deliveries | sponsor, release, submit candidate, record validation (two scopes), attach commit, submit review, decide, record delivery | nothing is delivered without all its evidence; evidence is never overwritten; delivered once; a campaign completes exactly at its target |
| process authority, `process.rs` | campaigns with cost state, assignments, sessions, the provider-effect ledger | start, cancel, finish cancellation, fail, create assignment, start session, effect start and settlement, terminal session | one running campaign, one running paid session, no spending on a closed or frozen campaign, a known cost covers what was charged |
| scheduler, `scheduler.rs` | none (pure) | `decide` | never acts on an inconsistent status |
| campaign driver, `campaign_driver.rs` | position in `run_next`, the revisions it read | poll, claim then launch, retry, resume, attach, deliver, settle a launch, fail attempt or campaign | a claimed ticket moves on, spend is bounded, stale reads are refused |
| session runtime, `session_runtime.rs`, `process_custody.rs` | phase of the attended session, cancellation registry, custody thread | launch, the session's RPCs, cancellation, TERM and KILL, terminal reconciliation | a launch returns, a cancellation is heard, a session is settled once its process is gone |
| actor host, `factory-tea-host` | tool phase, deferred terminal operation, cost so far | tool calls, checkpoint gate, provider requests behind the effect gate, report | no edit before the regression is frozen, no provider request outside the ledger |
| candidate runtime and resolvers, `candidate_runtime.rs`, `durable_authority.rs`, `assignment_runtime.rs` | worktrees, staging, sealed manifests | launch context and packet, requalification, checkpoint, submission, suite, attach, deliver | a stop between two steps is recoverable; a packet stays readable |
| git custody, `git.rs`, with `command_supervision.rs` | candidate refs, commits, the default branch | qualify, capture, construct and bind a candidate, guarded fast-forward, recovery | a delivery is on the branch and is what was validated |
| content store, `cas.rs` | objects, temporaries | adopt, verify, publish | a readable name has its bytes, a seal is lost only with the whole store |
| storage and command audit, `storage.rs`, application admission and activation | receipts, artifacts, builds, the repository binding, application revisions | register, install, admit, activate, replay, startup gates | a repeated command replays, a campaign keeps its revision |
| backup and restore, `factoryctl/src/backup_restore.rs` | fingerprints, a dump and a copy | qualify a backup beside a running daemon | a qualified pair is the source at one instant |
| local transport, `local_transport.rs` | runtime lease, socket, shutdown channel, connections | bind, serve, dispatch with a deadline, shutdown, drop | one daemon serves, and keeps its socket from the starts and stops of others |
| restart recovery, `restart_recovery.rs` | recovery evidence files | terminate the owned process group, salvage, settle the session | no session survives its daemon; recovery ends |
| operator RPC and navigation, `operator_rpc.rs`, `operator_navigation.rs` | a cancellation in progress, a report being read | start, sponsor, release, decide, cancel; reports | a report shows nothing that was not so |
| forum and publications, `forum_store.rs`, `publication_store.rs` | immutable rows, one forum revision, receipts | create, supersede, append, publish; paged reads and search | pages are complete, a command leaves one row |

Components talk through the database. Every store command runs in one
transaction that locks the rows it reads and compares expected revisions. In
memory there is only what a caller read before its next command, the phase of
the running session, and a cancellation that waits for its session to end; all
of that is lost in a crash. Between daemon and host there is one framed call at
a time.

What is hard here: the driver holds revisions across commands while the
operator, the session's RPCs and the deadline act; host and daemon keep a phase
each and settle it on either side of an await; process exit, transport end and
terminal proposal race; a daemon may die between the fast-forward and its
record, between a file and its contents, or between two fsyncs; a response may
be lost after its commit; reports and backups are read in pieces; two daemons
may be started on one root. `PROJECT.json` lists these under "hazards", each at
its line and with the property that covers it.

## 2. Modules

| module | models | lines up with |
|---|---|---|
| `FactoryAuthority` | the SQL rows and every store transaction on them, under a client that may issue any command at any time | `ticket_store.rs`, `decision_store.rs`, `process.rs`, `src/schema/migrations/0001_initial_authority.sql` |
| `Scheduler` | `TicketScheduler::decide` as a pure operator | `scheduler.rs` |
| `FactoryControl` | the real callers: driver, attended session, operator, cancellation, crash and restart | `campaign_driver.rs`, `session_runtime.rs`, `candidate_runtime.rs`, `durable_authority.rs`, `operator_rpc.rs`, `restart_recovery.rs` |
| `DeliveryContract` | the abstract promise: one ticket worked on at a time, closed tickets final, deliveries credited once to a running campaign that completes at its target | specification only |
| `FactoryRefinement` | the mapping from authority rows to the contract | specification only |
| `ActorSession` | one session from the inside: packet, host tool gate, RPC handlers | `assignment_runtime.rs`, `durable_authority.rs`, `session_runtime.rs`, `candidate_runtime.rs`, `product_runtime.rs`, `factory-tea-host/src/tool_bridge.rs` |
| `SessionHost` | one session from the outside: spawn, custody, server, ledger, provider, cancellation, shutdown, recovery | `session_runtime.rs`, `process_custody.rs`, `process.rs`, `workspace_read.rs`, `restart_recovery.rs`, `factory-tea-host/src/{provider_effect_gate,execution,runtime}.rs`, `factoryd/src/main.rs` |
| `CommandSupervision` | one supervised command: its group, deadline, output limit | `command_supervision.rs`, the runner of `git.rs` |
| `GitDelivery` | the product repository: requalification, worktrees, candidates, delivery, with the operator working in the same checkout | `git.rs`, `durable_authority.rs`, `candidate_runtime.rs`, `assignment_runtime.rs` |
| `ContentStore` | adoption of contents with faults at every fsync | `cas.rs` |
| `KernelRecords` | audit, artifacts, builds, application revisions and the startup gates, above `ContentStore` | `storage.rs`, `application_admission.rs`, `application_activation.rs`, `process.rs` |
| `BackupRestore` | the backup qualification beside `KernelRecords` | `factoryctl/src/backup_restore.rs` |
| `LocalTransport` | the daemon's singletons, its socket and the operator's exchanges | `local_transport.rs`, `storage.rs`, `factoryd/src/main.rs` |
| `Discourse` | forum and publication transactions and their paged readers | `forum_store.rs`, `publication_store.rs`, `forum_rpc.rs`, `operator_navigation.rs` |
| `OperatorViews` | the operator's reports, statement by statement, above `FactoryAuthority` | `operator_navigation.rs`, `operator_rpc.rs`, `ticket_store.rs`, `process.rs` |
| `FactoryAuthorityProofs`, `FactoryControlProofs`, `AuthorityClientsProofs`, `SessionHostProofs`, `GitDeliveryProofs`, `KernelRecordsProofs`, `LocalTransportProofs`, `DiscourseProofs` | the TLAPS proofs about the module each is named for (`FactoryAuthorityProofs` has the refinement of the contract, `AuthorityClientsProofs` has `ActorSession` and `OperatorViews`, `KernelRecordsProofs` has `ContentStore` and `BackupRestore` as well) | proofs only |
| `MC...` | bounds, views and constraints for TLC | instances only |

`FactoryControl`, `ActorSession` and `OperatorViews` extend `FactoryAuthority`:
each durable step of theirs is one of its actions, conjoined with what happens
to the caller's memory, and each treats a different caller in detail.
`FactoryControl` takes a session's RPCs as steps and cuts the driver;
`ActorSession` takes the driver as it comes and cuts the RPCs at their awaits;
`OperatorViews` takes the authority's most general client and cuts the readers.
`SessionHost` and `GitDelivery` keep their own small picture of the rows, since
what they add is beside them: processes and money in one, commits and worktrees
in the other. `BackupRestore` extends `KernelRecords`, which extends
`ContentStore`; `GitDelivery` extends `CommandSupervision`. The proofs follow
the same lines: those about `FactoryControl`, `ActorSession` and
`OperatorViews` extend `FactoryAuthorityProofs` and use its theorems.

### 2.1 State and actions

**`FactoryAuthority`.** `campaign`, `ticket`, `attempt`, `candidate` and
`session` are functions from row identifiers to rows. A row that was not
inserted is `Absent`; identifiers are taken in increasing order, as identity
columns do, and 0 is SQL NULL. A candidate row carries its validations, review,
decision and delivery: the schema has at most one of each. An assignment and
its session are one row. `engineeringRetried` and `qualityRetried` stand for
the audit rows the retry commands look for. A settled session's cost is within
the budget, over it, or unknown. `deadlineOpen` turns false at any moment. Stop
reasons are grouped by what they do. Each store function is one action with its
checks as guards, together with the schema's unique indexes and CHECKs; a
refused command changes nothing.

**`FactoryControl`.** `driver` is the position in `run_next` with its fences;
`rpc` the phase of the attended session; `cancel` the cancellation in progress;
`faults` counts faults, for their bound. A driver command that succeeds is the
authority's action with the revisions held in `driver.fence`, which may be
stale; `DriverRefused` uses `ENABLED` to say that no admissible form of the
command exists. `LaunchAborts` and `DriverError` are infrastructure failures.

**`ActorSession`.** `launch` is what `materialize_and_launch_assignment`
resolved, `packet` the compiled assignment with the evidence it names, `host`
the tool phase and the call on the wire, `rpc` the daemon's phase and the
authority the handler has resolved. A handler takes the phase, resolves, runs
its store command and settles, each a step; `RejectCall` refuses at any of
them, `SessionStops` cuts at any of them.

**`SessionHost`.** `daemon`, `launch`, `server`, `custody`, `registry` and
`waiter` are the daemon's tasks; `row` and `ledger` the database; `host` the
processes, which may outlive their daemon; `charged` what the provider took,
which nobody in the program can see. An amount is whole micro-USD and a rest in
parts of one (`Unit`); `MicroUsd` rounds the rest up, as `parse_decimal_usd`
does. The provider charges for each answer (stated or not) and for each attempt
its client repeats inside a request (`ProviderRetries`, at most `MaxRetries`
times); a ledger row has one rounded cost, and the host's report (`HostReport`)
is one rounding of its exact sum. When the two differ the launch ends in
`LedgerConflicts`. The errors of a launch that stop the host and wait
(`Abort`) are apart from those that return at once (`AdmissionAbandoned`).
`assertion` is the recovery evidence file, which a crash can leave torn.
`LateCommit` is a request handler that was dropped at its deadline and commits
nevertheless.

**`GitDelivery`.** A tree is the set of changes it holds, and a commit is a
record with its parent, tree and cost trailer. `checkout` says why the
operator's checkout does not qualify, if it does not. `driver` holds what the
code keeps in local variables, lost in `Crash`; refs, commits, worktrees and
sealed manifests stay. The operator commits, merges and edits at any time. The
driver does not wait for a clean checkout: any error of the commit attach or of
a launch fails the attempt (`campaign_driver.rs:339-351`, `504-571`), and one
without a commit is not retried.

**`ContentStore`, `KernelRecords`, `BackupRestore`.** An object is visible or
not, its name and its prefix synced or not, its bytes synced or not; a power
loss keeps what was synced and any part of the rest. `tree` says whether the
entries that lead to the objects root are on disk: the program makes them and
never syncs them, so they come to rest at some time (a power loss that spares
them) or the whole store goes. `sealed` remembers whose publisher returned. `audit` is the sequence of
receipts; a client repeats any command it has issued, before or after others. A
backup reads the database fingerprint in two pieces with commits between.

**`LocalTransport`.** A lock file is an inode with an epoch; clearing the
runtime root starts a new one while old daemons keep the lock on theirs. Drop
of a socket and the removal of a stale one look, decide and unlink by path in
steps of their own, and the root may be cleared in between; `asked` remembers
when a daemon looked. `serve` ends by the shutdown or by an accept error. The
PostgreSQL advisory lock belongs to a database session, which may break.

**`Discourse`.** A transaction takes its identity, inserts, writes its receipt
and commits in separate steps, so identities become visible out of order. The
forum's writers take one advisory lock; publications take none. Nothing in the
daemon calls the forum's writers yet: the tests do. A view is the rows of one
relation in one order, and the i-th item of a page is the row with i - 1 rows
between the cursor and it. `History` is what the Forum held before.

**`OperatorViews`.** `report` is the report being read: one action per SQL
statement, in the code's order. A finished report stays on the screen.

## 3. Runs

All runs use `CHECK_DEADLOCK FALSE`: the system may stop. When every campaign
is closed, or the bounds on rows, faults and requests are used up, nothing is
left to do.

| run | instance | checks |
|---|---|---|
| `authority` | 1 ticket, 2 attempts, 1 candidate, 2 sessions; 2 tickets, 2 candidates, 4 sessions, target 2 | `TypeOK`, `DeliveryEvidence`, `DownstreamHeadConsistent`, `DeliveredOnce`, `RevisionFence`, `EvidenceImmutable`, `ClosedTicketFinal`, `TargetAccounting`, `OneTicketInFlight`, `InFlightOwnership`, `ImplementsContract` |
| `control` | 1 ticket, 1 candidate, 5 sessions, a crash or an error | `SpendBound`, `PaidSessionFunded` |
| `liveness` | 1 attempt, 1 candidate, 4 sessions, fairness | `AttemptSettles` |
| `actor_session` | 1 attempt, 2 candidates, 5 sessions | `TerminalBacked`, `PacketReadable`, `CheckpointFirst` |
| `session_host` | 2 launches, 2 requests, a repetition each, costs of half a micro-USD, 2 faults, fairness | `TerminalAfterExit`, `OneActingHost`, `KnownCostCoversCharges`, `ReportWithinRounding`, `LaunchReturns`, `CancellationHeard`, `RecoveryEnds` |
| `git_delivery` | 1 ticket, 1 operator change, 2 faults, fairness | `DeliveryOnBranch`, `CandidateRefExact`, `DeliveryCompletes` |
| `kernel_records` | 2 handlers, 3 contents, 5 commands, 2 faults | `PublishedWhole`, `SealLostOnlyWithTree`, `ReplayAgrees`, `RunningCampaignPinsActive`, `QualifiedPairIsSource` |
| `discourse` | 2 callers, 1 reader, 14 commands, 2 at a time | `PagesComplete`, `ForumRevisionsDense`, `OneRowPerCommand` |
| `local_transport` | 2 daemons, 2 clients, 2 clearings, 2 faults, fairness | `SingleServer`, `SocketKept`, `ShutdownHonoured` |
| `operator_views` | 2 candidates, 4 sessions | `ReportBacked`, `ReportCurrent` |
| `restore_gate` | 1 handler, 1 command | `ReceiptsRegistered`, violated |
| `released_retry` | 1 ticket, 2 attempts, 7 sessions, no fault | `QualityRetriedOnce`, violated |

Why the bounds are enough for the cases the properties are about:

* **authority** joins two focuses. `OneTicket` lets any caller issue any
  command in any order with any outcome. Two attempts on one ticket are what
  fail, release and reclaim need; an Engineering and a Quality session are what
  a candidate needs to be delivered. `TwoDeliveries` has two tickets that are
  claimed, failed and released in a race until work on one is submitted, and a
  campaign that goes on after its first delivery; it keeps the campaign healthy
  and its candidates good. Reworks with two candidates are in `operator_views`
  and `actor_session`. All properties of this run are theorems (section 4).
* **control** takes one ticket from proposal to delivery under the real
  callers. Five sessions are Product, Engineering and three on one candidate,
  one more than `SpendBound` allows without a fault. `SpendBound` speaks of
  attempts the operator has not released. The fault comes at any step: `OneFault` excludes only a crash and an error in the same behaviour.
* **released_retry** claims its ticket twice, which `SpendBound`'s instance
  never does: the second attempt is what lets the first one come back.
* **liveness** has no crash and no error because `AttemptSettles` is not
  claimed across them (section 6). Sessions still end in any way, launches
  fail, deadlines pass and the operator cancels.
* **actor_session** has a first candidate, its rework, and the retries of both
  offices. `HealthyCampaign` leaves out what stops whole campaigns, which
  `control` has.
* **session_host** needs a second launch for whatever a first may leave behind.
  `Focus` joins three parts: one session with a request and a fault or with two
  faults; the money of one session with two requests and repetitions, without a
  fault (`OneAccount`); two sessions without requests and with a fault. The
  product is left out. Two requests give a settled one beside an open one, and
  two roundings; half a micro-USD is the least price that two of which are
  rounded differently apart and together.
* **git_delivery** has one ticket, because one is in flight at a time, and two
  faults: a merge stopped at its deadline and a crash in its recovery.
* **kernel_records** joins three focuses: two handlers racing on one content
  with faults; a long history of admissions, activations and campaigns by one
  handler; a backup beside one handler. A property that fails needs only one.
* **discourse** runs any two of the commands at once, each possibly repeated,
  with pages of one row: the boundary is met at every row.
* **local_transport** has a predecessor and a successor, and faults that may
  be the kill of either, the loss of its database session or an accept error.
  The root is cleared twice, so that a daemon can look before a clearing, and
  its successor be replaced after it. The second client an acknowledged shutdown
  needs, whose command holds the exit up, comes with at most one fault and no
  clearing (`Focus`): clearing takes a socket away, not a shutdown that was
  acknowledged.
* **operator_views** reads while one ticket goes through a rework to delivery;
  between two statements of a report the authority takes any number of steps.

### 3.1 Views

Revisions only grow, and would make the state spaces infinite in practice.
`WithoutRevisions` leaves them out: the general client passes the current
revision, so no guard of that specification depends on its value.
It also forgets the deadline of a campaign that is not running: no guard reads
it then, and such a campaign never runs again.
`RevisionFence` looks at steps, and a step's effect on revisions is the same
from every state with the same view. `ControlView`, `ActorView` and the view of
the reports replace each held revision by whether it is still current; a stale
one never becomes current again. `ControlView` also forgets the identity of
finished sessions, keeping how many each target had.

### 3.2 Fairness

* `LiveSpec`: the driver (`factoryd` runs `run_next` in a loop that only a
  shutdown ends), the end of an attended session (every supervised process has
  a wall limit), restart, and the last step of a cancellation. Nothing is
  assumed of the operator or the actor: the Architect may never decide.
* `FairSessionSpec`: the daemon's own tasks (launch, custody thread, server,
  recovery, shutdown). The host and the provider are not fair: `LaunchReturns`
  holds with a host that never answers, because custody has a deadline and
  KILL is not refused.
* `FairSpec` of `GitDelivery`: the driver and the supervision of commands.
  The first half of `DeliveryCompletes` asks only that the campaign goes on
  running: a validated candidate gets its commit or its attempt is failed. The
  second, that an accepted candidate is delivered, is conditional on a checkout
  that eventually stays clean, on the branch and free of foreign commits; nobody
  is assumed to clean it.
* `TransportSpec`: startup, shutdown and the handlers of each daemon, which
  have deadlines, and the close of an exchange. No client is assumed to send.

### 3.3 Where the code and its own words differ

Two disagreements have a run of their own. `restore_gate`:
`verify_restore_integrity`, at every daemon start, looks each receipt's subject
up in a closed registry, and the registry lacks subject 46
(`ticket_attempt.retry_engineering`) and 60 (`publication.create`). One
Engineering retry or one publication, and the next start is refused with
everything in order.

`released_retry`: the recovery query (`ticket_store.rs:1435`) asks neither
whether an attempt was released nor whether a later attempt without a candidate
exists, although `ticket_store.rs:1430` says a later attempt supersedes every
earlier candidate. It takes a released attempt back to `ReworkQuality` while
the later attempt has failed. If its Quality session fails after the operator
released that later attempt too, the ticket is not in flight any more, no retry
is admitted, the attempt remains the downstream head, and every poll launches
another paid Quality session on the same candidate.

The recovered attempt of `released_retry` also shows on the operator's screen. It may be delivered
beside a newer attempt of its ticket, and a ticket with more attempts than a
page then lists everything but the attempt that delivered it. `TicketBacked`
says so (`CutOff`): the proof of the sharper statement failed, and TLC found
the behaviour on two attempts and pages of one row.

Other disagreements met while modelling. They are in the model (the steps that
lead to them can be taken) but no run is kept for them:

* `docs/EVIDENCE.md:96` says that a complete ledger agrees exactly with the
  host's terminal cost, and `reconcile_provider_usage` (`session_runtime.rs:2404`)
  insists on it. But the ledger adds up costs that were rounded up one by one,
  and the host rounds its exact sum once: two honest requests of $0.0000011 are
  4 micro-USD in the one and 3 in the other. The launch ends in
  `ProviderLedgerConflict` and its session stays Running. What does hold is
  `ReportWithinRounding`;
* `cas.rs:592` says that syncing the prefix directory and the objects root makes
  a publication durable across a crash. Nothing ever syncs `objects`, which
  holds the entry of that root (`cas.rs:235`), so a power loss in the first life
  of a store may take all of it, seals that were handed out included. What does
  hold is `SealLostOnlyWithTree`;
* `local_transport.rs:1691` says that comparing lock and inode prevents an
  orderly stop from deleting a replacement's socket. The unlink that follows is
  by path: when the root is cleared in between and a successor binds, it is the
  successor's socket that goes. What does hold is `SocketKept`;
* a restart settles the submitting session with unknown cost and closes its
  campaign, so the hard-validation resume that the driver selects
  (`candidate_runtime.rs:715`) is refused for ever;
* a session may end Cancelled without an operator (its peer closed the socket,
  its terminal proposal was refused) and leave a running campaign with frozen
  cost; `process.rs:2039` calls that state a brief bridge;
* when a cancelled session's cost is known, the driver may start the next one
  before the cancellation is committed, and the cancellation is refused as
  stale; `process.rs:2040` says it cannot;
* a Rework or Reject of a candidate with a rejecting review violates a CHECK of
  the schema (`decision_store.rs:1257`, `docs/CONTROL-PLANE.md:60`);
* a Quality session that passed its suite and died is retried into
  `ReworkQuality`, where the suite is refused (its receipt is durable) and the
  review requires `AwaitingArchitect`: the retry cannot end in a review;
* an Engineering rework should inspect the rejected candidate's closure
  (`session_runtime.rs:1258`), but its packet names none of that evidence and
  `artifact.read` requires a packet reference;
* after a failed hard validation the daemon's phase is Submitted while the host
  stays in its implementing phase without a terminal operation; only together
  do the two gates give `TerminalBacked`;
* a shutdown does not wait for a launch that has not registered its session, so
  the daemon may release its lock with a row Running;
  `docs/SESSION-BOUNDARIES.md` says it reconciles first. The next start does;
* `launch_session` returns some errors with the row Running, which blocks paid
  sessions until a restart;
* recovery creates its evidence file before it writes it: a crash between the
  two is refused at every later start (`RecoveryEnds` excepts a torn file),
  although `workspace_read.rs:322` speaks of idempotent recovery;
* a handler that finds its content already published returns without a
  directory sync, so its seal may be lost in a power failure that the
  publisher's would survive (`cas.rs:606`, `docs/OPERATIONS.md:220`);
* a sealed requalification pair is reused at whatever head a later claim finds
  (`durable_authority.rs:302`), and the observations of a release are sealed
  under names fixed per attempt, so a second, different observation is refused;
* a campaign cancelled between the merge and `record_delivery` leaves the
  commit on the branch without a record;
* a process that leaves its group keeps the pipes of a supervised command open
  and the runner waiting;
* `DaemonLock` goes back to the pool with the advisory lock when reconciliation
  fails; clearing the runtime root between a daemon's lease and its bind lets a
  later daemon unlink its socket;
* `institutional_search` expects columns named title and summary that several
  of its queries do not return, and `audit.show` for a ticket leaves out
  subject 46.

## 4. Proofs

Every theorem below is proved for all values of the constants that satisfy the
assumptions of its module. They say that counts and bounds are natural numbers
(`BoundsAssumption`, `ControlAssumption`, `SessionAssumption`,
`DeliveryAssumption`, `DaemonsAssumption`), that the delivery target, a page
and the number of launches are not zero (`PolicyAssumption`,
`RowLimitAssumption`, `DiscourseAssumption`, `SessionAssumption`), that a
micro-USD has at least one part, prices are amounts, an allowance is positive
and an unknown cost no number, and that names which stand for different things
differ. `BundleAssumption` says that an application bundle
names digests and paths, `DiscourseAssumption` that a command has one of the
stores' operations and a search a numeric rank. `HistoryAssumption` says that
the Forum began with commands of its own that had distinct keys, one per
relation at most; the empty history is one of them. TLC evaluates each
assumption in the runs.

| theorem | statement |
|---|---|
| **FactoryAuthorityProofs** | |
| `TypeCorrect` | `Spec => []TypeOK` |
| `DeliveryNeedsEvidence` | `Spec => []DeliveryEvidence` |
| `EvidenceIsImmutable` | `Spec => EvidenceImmutable` |
| `NeverTwoInFlight` | `Spec => []OneTicketInFlight` |
| `ClosedTicketIsFinal` | `Spec => ClosedTicketFinal` |
| `RevisionsFenceWrites` | `Spec => RevisionFence` |
| `OneOwnerInFlight` | `Spec => []InFlightOwnership` |
| `DeliveryHappensOnce` | `Spec => []DeliveredOnce` |
| `SchedulerHeadConsistent` | `Spec => []DownstreamHeadConsistent` |
| `CampaignMeetsTarget` | `Spec => []TargetAccounting` |
| `AuthorityImplementsContract` | `Spec => ImplementsContract` |
| **FactoryControlProofs** | |
| `ControlImplementsAuthority` | `ControlSpec => Spec` |
| `SessionsAreFunded` | `ControlSpec => []PaidSessionFunded` |
| `SpendIsBounded` | `ControlSpec => []SpendBound` |
| `RunningSystemKeepsAuthority` | the authority's properties under `ControlSpec` |
| **AuthorityClientsProofs** | |
| `SessionImplementsAuthority` | `ActorSpec => Spec` |
| `SuccessIsBacked` | `ActorSpec => []TerminalBacked` |
| `NoEditBeforeCheckpoint` | `ActorSpec => []CheckpointFirst` |
| `PacketStaysReadable` | `ActorSpec => []PacketReadable` |
| `ReportsOnlyRead` | `ReportSpec => Spec` |
| `ReportsAreBacked` | `ReportSpec => []ReportBacked` |
| `FencesGuardReports` | `ReportSpec => []ReportCurrent` |
| **SessionHostProofs** | |
| `ChildGoneBeforeTerminal` | `SessionSpec => []TerminalAfterExit` |
| `OnePaidProcess` | `SessionSpec => []OneActingHost` |
| `KnownCostCovers` | `SessionSpec => []KnownCostCoversCharges` |
| `ReportDiffersByRounding` | `SessionSpec => []ReportWithinRounding` |
| **GitDeliveryProofs** | |
| `DeliveredIsOnBranch` | `Spec => []DeliveryOnBranch` |
| `CandidateIsExact` | `Spec => []CandidateRefExact` |
| **KernelRecordsProofs** | |
| `BackupOnlyReads` | `BackupSpec => RecordsSpec` |
| `NamesAreWhole` | `BackupSpec => []PublishedWhole` |
| `SealsLostOnlyWithTree` | `BackupSpec => SealLostOnlyWithTree` |
| `RepliesAgree`, `PinnedRevisionActive` | `BackupSpec => []ReplayAgrees`, `[]RunningCampaignPinsActive` |
| `QualifiedPairFaithful` | `BackupSpec => []QualifiedPairIsSource` |
| **LocalTransportProofs** | |
| `OneResidentDaemon` | `TransportSpec => []SingleServer` |
| `ServingSocketKept` | `TransportSpec => SocketKept` |
| **DiscourseProofs** | |
| `CommandsActOnce` | `DiscourseSpec => []OneRowPerCommand` |
| `ForumIsOneSequence` | `DiscourseSpec => []ForumRevisionsDense` |
| `PagesAreComplete` | `DiscourseSpec => []PagesComplete` |

### 4.1 The authority

* `TypeOK` is inductive by itself. Its proof has one lemma per group of
  transactions and one case per action.
* `DeliveryEvidence` is not inductive: it says nothing of a candidate before
  it is accepted, so nothing excludes an absent or a freshly submitted row that
  already carries evidence. `SoundCandidates` adds what each lifecycle state may
  carry; `CandidateWrite` shows that every step leaves a candidate sound and
  keeps the evidence it had, from which `EvidenceIsImmutable` follows too.
* `TicketWrite` shows what any step may do to the ticket table, with no ticket
  in flight before an edge into `InFlight`. The two ticket theorems follow.
* `RevisionFence` needs no invariant beyond the types: one lemma per group of
  transactions shows that whoever writes a row advances its revision.
* The theorems that relate tables rest on a reduction. `LifecycleEvent` lists
  the ten kinds of change a transaction can make to the lifecycle columns, and
  `StepIsEvent` shows, action by action, that every step of `Next` is one. An
  invariant over those columns is then proved against ten events, not every
  action. `RowLinks` is the strengthening all of them share: an absent row
  refers to nothing, an existing one to existing rows.
* `InFlightOwnership` and `DeliveredOnce` are inductive together with
  `RowLinks`. `DownstreamHeadConsistent` is not: it needs `StageMatchesHead`,
  by which every superseded candidate is rejected and the newest one matches
  the stage of its attempt, because a head that disagrees would only be read
  some steps later.
* `TargetAccounting` counts. `OnlyDeliveriesCount` shows that no event but a
  delivery changes the set of delivered attempts, and `DeliveryAdds` that a
  delivery adds one new element.
* `AuthorityImplementsContract` is the refinement: each event maps to a step of
  `DeliveryContract` or to a stutter. The contract counts tickets and the store
  attempts; `InjectiveImage` with `DeliveredOnce` makes the numbers agree.

### 4.2 The callers

* `ControlImplementsAuthority`: the invariant `ControlInv` says what the
  driver and a cancellation may hold in memory at each position (`DriverOK`,
  `CancelOK`), so that each command of theirs is an action of the authority
  with the revisions current at that moment. Through it the authority's
  theorems hold of the running system, crashes and restarts included.
* `SessionsAreFunded` is the one property of the control plane that needs the
  order of commands. `PaidSessionFunded` alone is not inductive, because
  `finish_campaign_cancellation` rereads no session. `FinishSafe` adds why it
  need not: as long as the campaign has the revision that the cancelled
  session's end produced, no session runs on it and none is about to start.
* `SpendIsBounded`: `SpendBound` alone is not inductive. It counts the sessions
  that were assigned and says nothing of the one that is still due, so a step
  to a position of the driver that assigns another would break it. `SpendInv`
  therefore keeps accounts: `EngineeringPaid` and `QualityPaid` say that the
  sessions spent and the one due where the driver stands are within what
  retries, reworks and faults pay for. Its other parts say where the driver can
  stand (`PlaceInv`: which candidate it holds, whether that office has ended or
  failed, and that it claims only when nothing is downstream), that work which
  is not released keeps its ticket in flight (`WorkInFlight`), and that while a
  released attempt is open again its successor on the ticket rests
  (`QuietSuccessor`), since the two would write the ticket under each other.
  `HistoryInv` adds what older rows are like: an older attempt on a ticket is
  released, a released one moves again only by a Quality retry and until then
  has the older candidates, one campaign runs at a time, and an assignment
  names rows that exist. TLC checked these invariants before they were proved:
  completely on the instance of `control` (1.7 million states) and on two
  attempts, two candidates and eight sessions with few failures (366 thousand),
  on larger instances in part.
* `SessionImplementsAuthority`: between two awaits a handler keeps an attempt
  and a candidate it resolved. `ActorInv` says which parts of that stay true
  whatever the others commit.
* `SuccessIsBacked` and `NoEditBeforeCheckpoint` rest on `GateOK` and
  `ResultOK`, which relate the host's phase, the daemon's and the call on the
  wire: the host's phase never runs ahead, and an answer that will move it
  comes after the daemon's has moved. Neither machine guarantees the properties
  alone. `PacketStaysReadable` needs that resolved evidence is immutable, which
  is `EvidenceIsImmutable` at work.
* `ReportsAreBacked` and `FencesGuardReports`: `ReportOK` says, statement by
  statement, what a half-read report knows. It survives the authority's steps
  because of how rows age (`RowsAge`): evidence, deliveries and registered
  sessions are only added, and a row that changed has a higher revision. It
  survives its own statements because each reads its evidence after the claim:
  a ticket in flight has an attempt (`InFlightOwnership`), a completed campaign
  its deliveries (`TargetAccounting`), a delivered ticket the sessions of two
  offices (`DeliveredTickets`, `PerformerLinks`). TLC checked `ReportOK` on the
  instance of `operator_views` before it was proved.

### 4.3 Processes, money, files

* `SessionInv` has three parts besides the types. `CustodyInv` relates the
  launch in progress to its row, its host and the custody thread; `RowsInv` the
  rows of all launches to their hosts. `ChildGoneBeforeTerminal` and
  `OnePaidProcess` follow from these.
* `MoneyInv` keeps the books of each session: what the ledger adds up to, what
  the provider charged and what the host knows, at each point of a request. A
  failed or open request makes the ledger incomplete, and an incomplete ledger
  states no cost. The sum of a ledger is a recursive function; what it computes
  cannot be proved by induction here, so the invariant speaks of running totals
  (`CostUpTo`): they exist for the empty ledger, and each settlement extends
  them by one. Beside the total runs the exact sum of what the answers stated:
  `RoundingAdds` shows that a request adds less than one micro-USD to the
  difference (`InRounding`). What was paid is what was stated and what was
  repeated (`AllStated`) as long as every request was settled with a cost.
  `KnownCostCovers` compares the row with that sum and `ReportDiffersByRounding`
  the ledger with the host's rounding of it.
* `GitInv` says which rows have a commit and that it is exact, what the driver
  has read that still holds, and that a delivered commit is an ancestor of the
  branch. Ancestry is membership in every set closed under parents
  (`ParentClosed`), so that appending an object and moving the branch forward
  keep it without induction over the history.
* `RecordsInv` joins the content store (`CasInv`: how far a worker's
  publication has come and what it can rely on then, and that what was sealed is
  synced up to the objects root), the audit (one receipt
  per command, and an answer comes from a receipt) and the application pointer
  (a running campaign's revision exists and is active). A backup only reads, so
  it keeps all of them; `BackupInv` adds what each of its reads has seen.
* `TransportInv` says that a process past its lease has the lock of its own
  file and no other process has it, and that a resident one has the advisory
  lock or lost the session that held it. For `ServingSocketKept` it adds
  that a process about to unlink a path asked while its own lock file was the one
  there: nobody else has that lock, so only a clearing since then can have put
  another daemon's socket at the path.
* `DiscourseInv` says what a transaction may rely on before it commits. One
  that looked at the Forum holds the lock (`LockOK`), so its identity and its
  revision are still the next ones when it commits (`IdsOK`, `RevisionsOK`),
  and list pages, which follow identities, cannot miss it. A receipt that waits
  for its commit shares its key with no other (`KeysOK`); rows, receipts and
  answers come together (`BackedOK`). A reader has been sent what lies up to its
  cursor, once, and nothing beyond (`ReadersOK`). What a page holds is proved by
  counting: the places of a finite set in a total order are 0, 1, 2, ... each
  taken once (`PlaceTaken`), which needs no induction over sequences. TLC
  checked `DiscourseInv` on the instance of `discourse` (803 thousand states).

## 5. Only model-checked

* Liveness (`AttemptSettles`, `LaunchReturns`, `CancellationHeard`,
  `RecoveryEnds`, `DeliveryCompletes`, `ShutdownHonoured`): fairness and
  `ENABLED` are outside the prover.
* `ReceiptsRegistered` and `QualityRetriedOnce`, the two that are false.

Every invariant of a passing run, and every action property without fairness,
is stated by a theorem of section 4.

## 6. Limits, and what is not modelled

* One application revision is worked on at a time. Counts that the code takes
  over an application are taken over all tickets.
* The driver reads `ticket_buffer_status` at once, although it is several
  statements. It is the only claimer and launcher, so what moves under it are
  fenced rows; `OperatorViews` has the statement-by-statement read.
* A daemon that dies while Engineering works leaves the attempt in Engineering
  with its ticket in flight, and no recovery path selects it. `AttemptSettles`
  excuses this case (the restart closes the campaign).
* `SessionHost` has one cancellation by the operator and one by the shutdown,
  not two operators on one bounded channel; process identifiers are not reused.
* `SessionHost` assumes of the provider's client that the charges of an attempt
  it repeats are not in the total it reports, and lets it say or not that this
  total is incomplete. Such charges are not in the ledger either: a known cost
  covers the answers (`KnownCostCoversCharges`), not what went to repetitions.
  `docs/SESSION-BOUNDARIES.md:20` speaks of each physical request.
* `LocalTransport` takes the bind of a socket and the read of its identity as
  one step, and excepts from `SingleServer` a daemon whose database session
  broke.
* `artifact.read` refuses more than 2 MiB; the model has no sizes. A command is
  repeated exactly: the refusal of one that comes back with other contents is
  left out.
* A supervised command returns; the descendant that keeps its pipes is not in
  the model.
* Not modelled: the wire types and their parsers (no state), settings
  (constants), argument parsing and printing of `factoryctl`, the verification
  of installed files and the transcript export (pure I/O), prompt compilation
  and its immutable rows, the local file tools of the actor host, frame limits
  and peer credentials.

## 7. Plan

`CommandSupervision` by itself: a command that timed out or was killed leaves
nothing of its group, and a descendant that leaves the group keeps the pipes.
Today it is checked as a part of `GitDelivery`.
