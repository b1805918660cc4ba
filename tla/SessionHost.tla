----------------------------- MODULE SessionHost -----------------------------
(* One actor session from spawn to terminal row, as the daemon, the actor    *)
(* host, the custody thread of the host's process group and PostgreSQL see   *)
(* it: launch_session and reconcile_terminal, the session RPC server, the    *)
(* provider effect ledger, workspace reads, the cancellation registry, the   *)
(* orderly shutdown of factoryd and the recovery of the next start.          *)
(*                                                                           *)
(* The driver launches one session at a time, so the server task, the        *)
(* custody thread and the registry entry belong to the current launch. Rows, *)
(* ledgers and hosts are kept for every launch: a host may outlive its       *)
(* daemon. The world's side of the money is charged.                         *)
EXTENDS Naturals, Sequences, FiniteSets

CONSTANTS
    MaxLaunches,   \* launches of one behaviour
    MaxRequests,   \* provider requests of one session
    MaxRetries,    \* MAX_PROVIDER_RETRIES: repetitions of one provider request
    MaxFaults,     \* daemon crashes, refusals and I/O errors
    Unit,          \* the parts of a micro-USD in which the provider charges
    Costs,         \* what the provider may charge for one request
    Allowance,     \* the known cost in micro-USD at which the host stops
    Unknown        \* a cost nobody can state

\* An exact amount: whole micro-USD, and what is left over.
Amounts == [micro : Nat, rest : 0..(Unit - 1)]

\* A packet's allowance is positive (wire.rs:2080).
ASSUME SessionAssumption ==
    /\ MaxLaunches \in Nat \ {0}
    /\ MaxRequests \in Nat \ {0}
    /\ MaxRetries \in Nat
    /\ MaxFaults \in Nat
    /\ Unit \in Nat \ {0}
    /\ Costs \subseteq Amounts
    /\ Allowance \in Nat \ {0}
    /\ Unknown \notin Nat

Launches == 1..MaxLaunches
Waiters == {"operator", "shutdown"}

VARIABLES
    daemon,      \* where the factoryd process is
    launch,      \* the driver's launch in progress
    row,         \* factory.sessions, one row per launch
    host,        \* the actor host of each launch
    server,      \* the session RPC server task
    rpc,         \* SessionRpcState
    ledger,      \* factory.provider_effects of each session
    charged,     \* what the provider charged for each session, exactly
    custody,     \* the thread in SpawnedTeaHost::wait and its cancellation flag
    registry,    \* ActiveSessionCancellationRegistry: registered launches
    waiter,      \* callers of cancel_and_wait
    assertion,   \* the recovery evidence file of each session
    faults       \* faults so far

vars == <<daemon, launch, row, host, server, rpc, ledger, charged, custody, registry,
          waiter, assertion, faults>>

(* -------------------------------- amounts ---------------------------------- *)

Nothing == [micro |-> 0, rest |-> 0]

Plus(a, b) ==
    LET rest == a.rest + b.rest IN
    IF rest < Unit THEN [micro |-> a.micro + b.micro, rest |-> rest]
    ELSE [micro |-> a.micro + b.micro + 1, rest |-> rest - Unit]

\* MicroUsd::parse_decimal_usd: what is left over rounds up.
MicroUsd(a) == IF a.rest = 0 THEN a.micro ELSE a.micro + 1

\* paid is all the provider took; stated is the part some answer stated, retried the
\* part that went to attempts repeated inside one request.
NoCharge == [paid |-> Nothing, stated |-> Nothing, retried |-> Nothing]

\* The provider charges the session l once more.
Bill(l, cost, kind) ==
    charged' = [charged EXCEPT ![l] =
                  [paid |-> Plus(@.paid, cost),
                   stated |-> IF kind = "stated" THEN Plus(@.stated, cost) ELSE @.stated,
                   retried |-> IF kind = "retried" THEN Plus(@.retried, cost) ELSE @.retried]]

(* ------------------------------ vocabulary -------------------------------- *)

\* A host computes ("working"), waits for an answer of the daemon ("asking"), may
\* send a provider request ("cleared") or has one in flight ("inflight").
AlivePhases == {"booting", "working", "asking", "cleared", "inflight"}
Requests == {"none", "verify", "read", "start", "settle", "transcript", "summary", "submit"}

Alive(l) == host[l].phase \in AlivePhases

NoOutcome == [state |-> "none", cost |-> Unknown]

\* ask is the request on the wire, which outlives its sender; open says that the
\* provider holds a request it has not charged for yet; retries counts the attempts
\* of that request. cost is the exact total of the answers that stated one, and
\* complete says that all did.
NoHost == [phase |-> "none", ask |-> "none", outcome |-> NoOutcome, open |-> FALSE, retries |-> 0,
           cost |-> Nothing, complete |-> TRUE, stop |-> "none", edited |-> FALSE]

\* Its memory goes with the process; what it sent or bought does not.
Dead(h) == [NoHost EXCEPT !.phase = "exited", !.ask = h.ask, !.open = h.open,
                          !.outcome = IF h.ask = "settle" THEN h.outcome ELSE NoOutcome,
                          !.cost = IF h.ask = "submit" THEN h.cost ELSE Nothing,
                          !.complete = h.ask = "submit" => h.complete,
                          !.stop = IF h.ask = "submit" THEN h.stop ELSE "none"]

\* SessionRpcState, with the read ledger of WorkspaceReadAuthority: which bytes of
\* the required file the daemon saw itself hand out last; and the terminal request.
NoRpc == [verified |-> FALSE, transcript |-> FALSE, summary |-> FALSE, seen |-> "nothing",
          proposal |-> FALSE, cost |-> Unknown, stop |-> "none"]

NoLaunch == [phase |-> "idle", id |-> 0, transport |-> "process", terminal |-> FALSE,
             usage |-> Unknown]
NoCustody == [thread |-> "none", cancel |-> FALSE, reason |-> "nonzero"]

NoRow == [lifecycle |-> "none", by |-> "none", stop |-> "none", cost |-> Unknown,
          transcript |-> "none"]

Fault == faults < MaxFaults /\ faults' = faults + 1

\* The process of the daemon runs: its threads and sockets exist.
Up == daemon \notin {"down", "stopped"}

\* The driver task runs: it is cancelled after the active sessions were.
Driving == daemon \in {"serving", "cancelling"}

(* --------------------------- provider effects ----------------------------- *)

\* provider_effect_ledger_from_rows: the cost is complete when every request was
\* settled with one, and then it is the sum of the rounded costs.
Complete(rows) == \A i \in DOMAIN rows : rows[i].state = "settled" /\ rows[i].cost # Unknown

\* Mutant: requests that were not settled, or not priced, count nothing.
LedgerCostOfSettled(rows) ==
    LET total[i \in 0..Len(rows)] ==
          IF i = 0 THEN 0
          ELSE total[i - 1] + (IF rows[i].cost # Unknown THEN rows[i].cost ELSE 0)
    IN  total[Len(rows)]

LedgerCost(rows) ==
    LET total[i \in 0..Len(rows)] == IF i = 0 THEN 0 ELSE total[i - 1] + rows[i].cost
    IN  IF Complete(rows) THEN total[Len(rows)] ELSE Unknown

\* TeaHostExecution and provider_cost: the total the host reports, one rounding of the
\* exact sum, and only when every answer stated its cost.
HostReport(h) == IF h.complete THEN MicroUsd(h.cost) ELSE Unknown

\* reconcile_provider_usage: the ledger decides; a host that reports another cost
\* than a complete ledger is a conflict.
ProviderLedgerConflict(reported, rows) ==
    Complete(rows) /\ reported # Unknown /\ reported # LedgerCost(rows)

ReconcileProviderUsage(rows) == LedgerCost(rows)

\* provider_effect_session_matches: the row is Running and is the host's own.
ProviderEffectSessionMatches(l) == row[l].lifecycle = "running"

(* -------------------------------- launching -------------------------------- *)

\* spawn_tea_host: the child runs in a process group of its own, with captured
\* streams, and blocks on the admission line.
SpawnOwnedCommand(l) == host' = [host EXCEPT ![l].phase = "booting"]

\* read_admission in the child, once the line is there; its first request follows.
ReadAdmission(l) ==
    host' = [host EXCEPT ![l].phase = IF Alive(l) THEN "asking" ELSE @,
                         ![l].ask = IF Alive(l) THEN "verify" ELSE @]

\* The first half of launch_session: the packet and the runtime verify, a socket
\* pair is made and the host is spawned.
Spawn(l) ==
    /\ Driving
    /\ launch.phase = "idle"
    /\ l = launch.id + 1
    /\ \A k \in Launches : row[k].lifecycle # "running"
    /\ launch' = [launch EXCEPT !.phase = "spawned", !.id = l]
    /\ SpawnOwnedCommand(l)
    /\ UNCHANGED <<daemon, row, server, rpc, ledger, charged, custody, registry, waiter,
                   assertion, faults>>

\* process.start_session commits the row with the PID and group of the child.
StartSession(l) ==
    /\ launch.phase = "spawned" /\ launch.id = l
    /\ launch' = [launch EXCEPT !.phase = "started"]
    /\ row' = [row EXCEPT ![l].lifecycle = "running"]
    /\ UNCHANGED <<daemon, host, server, rpc, ledger, charged, custody, registry, waiter,
                   assertion, faults>>

\* cancellation.request(); spawned.wait(): the error paths before the race.
Abort == /\ launch' = [launch EXCEPT !.phase = "aborting"]
         /\ custody' = [custody EXCEPT !.thread = "watching", !.cancel = TRUE]

\* The kernel refuses the session (a stale assignment, a campaign that ended).
StartRefused(l) ==
    /\ launch.phase = "spawned" /\ launch.id = l
    /\ Fault
    /\ Abort
    /\ UNCHANGED <<daemon, row, host, server, rpc, ledger, charged, registry, waiter, assertion>>

\* ActiveSessionCancellationRegistry::register, which refuses only an identity that is
\* there already: session identities are fresh.
Register(l) ==
    /\ launch.phase = "started" /\ launch.id = l
    /\ launch' = [launch EXCEPT !.phase = "registered"]
    /\ registry' = {l}
    /\ UNCHANGED <<daemon, row, host, server, rpc, ledger, charged, custody, waiter, assertion,
                   faults>>

\* The admission line reaches the host, whose first request verifies the packet;
\* the server and the custody thread start.
Admit(l) ==
    /\ launch.phase = "registered" /\ launch.id = l
    /\ launch' = [launch EXCEPT !.phase = "racing"]
    /\ ReadAdmission(l)
    /\ server' = "serving"
    /\ custody' = [custody EXCEPT !.thread = "watching"]
    /\ UNCHANGED <<daemon, row, rpc, ledger, charged, registry, waiter, assertion, faults>>

\* The connection identity cannot be read, or the line cannot be written.
AdmissionFails(l) ==
    /\ launch.phase = "registered" /\ launch.id = l
    /\ Fault
    /\ Abort
    /\ UNCHANGED <<daemon, row, host, server, rpc, ledger, charged, registry, waiter, assertion>>

\* Mutant: the entry goes away without a word to its waiters.
ReturnSilently ==
    /\ launch' = [NoLaunch EXCEPT !.id = launch.id]
    /\ server' = "none" /\ rpc' = NoRpc /\ custody' = NoCustody
    /\ registry' = {}
    /\ UNCHANGED waiter

\* launch_session returns or is dropped: its server and its state go, Drop or finish()
\* removes the registry entry, and a waiter hears the result or finds the channel
\* closed.
Return ==
    /\ launch' = [NoLaunch EXCEPT !.id = launch.id]
    /\ server' = "none" /\ rpc' = NoRpc /\ custody' = NoCustody
    /\ registry' = {}
    /\ waiter' = [w \in Waiters |-> "idle"]

\* A deadline or the line that cannot be made, or the read authority refused once the
\* line was sent: these errors return with ?, which neither cancels the host nor waits
\* for it. Its row stays Running, and no thread watches it.
AdmissionAbandoned(l) ==
    /\ launch.phase = "registered" /\ launch.id = l
    /\ Fault
    /\ UNCHANGED host \/ ReadAdmission(l)
    /\ Return
    /\ UNCHANGED <<daemon, row, ledger, charged, assertion>>

AbortReturns(l) ==
    /\ launch.phase = "aborting" /\ launch.id = l
    /\ custody.thread = "done"
    /\ Return
    /\ UNCHANGED <<daemon, row, host, ledger, charged, assertion, faults>>

(* --------------------------- the race and its end -------------------------- *)

\* FirstStop::Process: a proposal already sent is kept; the server is cancelled.
ProcessStops(l) ==
    /\ launch.phase = "racing" /\ launch.id = l
    /\ custody.thread = "done"
    /\ launch' = [launch EXCEPT !.phase = "evidence", !.terminal = rpc.proposal]
    /\ server' = "cancelled"
    /\ UNCHANGED <<daemon, row, host, rpc, ledger, charged, custody, registry, waiter, assertion,
                   faults>>

\* Mutant: the evidence is taken without waiting for the child.
TransportStopsUnwaited(l) ==
    /\ launch.phase = "racing" /\ launch.id = l
    /\ server \in {"peerClosed", "failed"} \/ rpc.proposal
    /\ launch' = [launch EXCEPT !.phase = "evidence", !.terminal = rpc.proposal]
    /\ custody' = [custody EXCEPT !.cancel = TRUE]
    /\ UNCHANGED <<daemon, row, host, server, rpc, ledger, charged, registry, waiter, assertion,
                   faults>>

\* FirstStop::Transport and FirstStop::Terminal: the process is cancelled.
TransportStops(l) ==
    /\ launch.phase = "racing" /\ launch.id = l
    /\ server \in {"peerClosed", "failed"} \/ rpc.proposal
    /\ launch' = [launch EXCEPT !.phase = "stopping",
                     !.transport = IF server \in {"peerClosed", "failed"} THEN server ELSE "process"]
    /\ custody' = [custody EXCEPT !.cancel = TRUE]
    /\ UNCHANGED <<daemon, row, host, server, rpc, ledger, charged, registry, waiter, assertion,
                   faults>>

\* Both then wait for the direct child before anything else, and keep a proposal.
ChildWaited(l) ==
    /\ launch.phase = "stopping" /\ launch.id = l
    /\ custody.thread = "done"
    /\ launch' = [launch EXCEPT !.phase = "evidence", !.terminal = rpc.proposal]
    /\ UNCHANGED <<daemon, row, host, server, rpc, ledger, charged, custody, registry, waiter,
                   assertion, faults>>

\* reconcile_terminal up to the evidence: the streams, the transcript and the read
\* assertion are sealed, the ledger is read and the usage reconciled.
SealEvidence(l) ==
    /\ launch.phase = "evidence" /\ launch.id = l
    /\ ~ProviderLedgerConflict(rpc.cost, ledger[l])
    /\ launch' = [launch EXCEPT !.phase = "priced",
                                !.usage = ReconcileProviderUsage(ledger[l])]
    /\ UNCHANGED <<daemon, row, host, server, rpc, ledger, charged, custody, registry, waiter,
                   assertion, faults>>

\* The host's total is not the ledger's: ProviderLedgerConflict ends the launch, and
\* the row stays Running.
LedgerConflicts(l) ==
    /\ launch.phase = "evidence" /\ launch.id = l
    /\ ProviderLedgerConflict(rpc.cost, ledger[l])
    /\ Return
    /\ UNCHANGED <<daemon, row, host, ledger, charged, assertion, faults>>

\* An artifact cannot be adopted, a commit is refused: the launch returns and its row
\* stays Running.
ReconcileFails(l) ==
    /\ launch.phase \in {"evidence", "priced"} /\ launch.id = l
    /\ Fault
    /\ Return
    /\ UNCHANGED <<daemon, row, host, ledger, charged, assertion>>

\* RequiredReadEvidence: every required path was last handed out with its digest.
RequiredReadsSatisfied == rpc.seen = "pinned"

\* terminal_session's conditions on the actor's own report.
ActorTerminalAccepted == rpc.stop = "completed" => RequiredReadsSatisfied /\ rpc.summary

\* The transcript of the session: the one it sealed, or what was left in staging.
Transcript == IF rpc.transcript THEN "sealed" ELSE "partial"

\* infrastructure_stop_reason, from how the transport and the process ended.
InfrastructureStopReason ==
    CASE launch.transport = "failed"                                   -> "protocol_error"
      [] launch.transport # "failed" /\ custody.reason = "cancelled"   -> "cancelled"
      [] launch.transport = "peerClosed" /\ custody.reason # "cancelled" -> "daemon_disconnected"
      [] OTHER                                                         -> custody.reason

\* The second half of reconcile_terminal: the actor's report if it is admissible,
\* else the kernel's own. Then finish() answers a waiter, and a second one finds
\* the channel closed.
TerminalSession(l) ==
    /\ launch.phase = "priced" /\ launch.id = l
    /\ row[l].lifecycle = "running"
    /\ row' = [row EXCEPT ![l] =
         IF launch.terminal /\ ActorTerminalAccepted
         THEN [lifecycle |-> "terminal", by |-> "actor", stop |-> rpc.stop,
               cost |-> launch.usage, transcript |-> Transcript]
         ELSE [lifecycle |-> "terminal", by |-> "kernel", stop |-> InfrastructureStopReason,
               cost |-> launch.usage, transcript |-> Transcript]]
    /\ Return
    /\ UNCHANGED <<daemon, host, ledger, charged, assertion, faults>>

(* ------------------------------- custody ----------------------------------- *)

\* wait_blocking: the child has exited, with or without a signal from here.
ReapChild(l) ==
    /\ Up /\ launch.id = l
    /\ custody.thread \in {"watching", "terming"}
    /\ ~Alive(l)
    /\ custody' = [custody EXCEPT !.thread = "done"]
    /\ UNCHANGED <<daemon, launch, row, host, server, rpc, ledger, charged, registry, waiter,
                   assertion, faults>>

\* What the captures and the clock may force, without anyone asking.
LimitReasons == {"deadline", "output"}

\* Mutant: the wall clock and the stream limits are not watched.
TermCancelledGroup(l, reason) ==
    /\ Up /\ launch.id = l
    /\ custody.thread = "watching"
    /\ Alive(l)
    /\ custody.cancel /\ reason = "cancelled"
    /\ custody' = [custody EXCEPT !.thread = "terming", !.reason = reason]
    /\ UNCHANGED <<daemon, launch, row, host, server, rpc, ledger, charged, registry, waiter,
                   assertion, faults>>

\* A cancellation was requested, or a stream or the wall clock met its limit: TERM
\* goes to the group. The host has no handler for it, but may be slow to die.
TermGroup(l, reason) ==
    /\ Up /\ launch.id = l
    /\ custody.thread = "watching"
    /\ Alive(l)
    /\ custody.cancel <=> reason = "cancelled"
    /\ custody' = [custody EXCEPT !.thread = "terming", !.reason = reason]
    /\ UNCHANGED <<daemon, launch, row, host, server, rpc, ledger, charged, registry, waiter,
                   assertion, faults>>

\* The host dies of the TERM, or of the KILL after the grace period.
KillGroup(l) ==
    /\ Up /\ launch.id = l
    /\ custody.thread = "terming"
    /\ Alive(l)
    /\ host' = [host EXCEPT ![l] = Dead(@)]
    /\ UNCHANGED <<daemon, launch, row, server, rpc, ledger, charged, custody, registry, waiter,
                   assertion, faults>>

(* ---------------------------- the RPC server ------------------------------- *)

\* The server takes the request on the wire: one at a time, and the answer is
\* written before the next request is read.
Dispatch(l, request) ==
    /\ Up /\ launch.id = l
    /\ server = "serving"
    /\ host[l].ask = request

\* The answer reaches a live host; writing it to a dead one ends the connection.
Answer(l, phase, next) ==
    /\ host' = [host EXCEPT ![l].phase = IF Alive(l) THEN phase ELSE @,
                            ![l].ask = IF Alive(l) THEN next ELSE "none"]
    /\ server' = IF Alive(l) THEN server ELSE "failed"

VerifyPacket(l) ==
    /\ Dispatch(l, "verify")
    /\ rpc' = [rpc EXCEPT !.verified = TRUE]
    /\ Answer(l, "working", "none")
    /\ UNCHANGED <<daemon, launch, row, ledger, charged, custody, registry, waiter, assertion,
                   faults>>

\* read_exact_workspace_file: the bytes the file has now.
ReadExactWorkspaceFile(l) == IF host[l].edited THEN "other" ELSE "pinned"

\* handle_frame: the bytes now in the workspace become the daemon's observation,
\* in place of an earlier one.
WorkspaceRead(l) ==
    /\ Dispatch(l, "read")
    /\ rpc' = [rpc EXCEPT !.seen = ReadExactWorkspaceFile(l)]
    /\ Answer(l, "working", "none")
    /\ UNCHANGED <<daemon, launch, row, ledger, charged, custody, registry, waiter, assertion,
                   faults>>

\* The transactions of provider_effect_start and provider_effect_settle.
InsertStarted(l) ==
    /\ ProviderEffectSessionMatches(l)
    /\ ledger' = [ledger EXCEPT ![l] = Append(@, [state |-> "started", cost |-> Unknown])]

UpdateSettled(l) ==
    LET last == Len(ledger[l]) IN
    /\ ProviderEffectSessionMatches(l)
    /\ ledger[l][last].state = "started"
    /\ ledger' = [ledger EXCEPT ![l][last] = host[l].outcome]

\* The intent is durable before the host is cleared to send.
ProviderEffectStart(l) ==
    /\ Dispatch(l, "start")
    /\ rpc.verified
    /\ InsertStarted(l)
    /\ Answer(l, "cleared", "none")
    /\ UNCHANGED <<daemon, launch, row, rpc, charged, custody, registry, waiter, assertion,
                   faults>>

ProviderEffectSettle(l) ==
    /\ Dispatch(l, "settle")
    /\ UpdateSettled(l)
    /\ Answer(l, "working", "none")
    /\ UNCHANGED <<daemon, launch, row, rpc, charged, custody, registry, waiter, assertion,
                   faults>>

\* A handler dropped inside its transaction, by a deadline, by the end of the server
\* task or with the daemon, may have sent the COMMIT already.
LateCommit(l) ==
    /\ server \notin {"serving", "parked"} \/ launch.id # l
    /\ \/ host[l].ask = "start" /\ InsertStarted(l)
       \/ host[l].ask = "settle" /\ UpdateSettled(l)
    /\ host' = [host EXCEPT ![l].ask = "none"]
    /\ UNCHANGED <<daemon, launch, row, server, rpc, charged, custody, registry, waiter,
                   assertion, faults>>

\* seal_artifact: the transcript first, then the execution summary.
SealArtifact(l, request) ==
    /\ Dispatch(l, request)
    /\ rpc.verified
    /\ \/ /\ request = "transcript"
          /\ rpc' = [rpc EXCEPT !.transcript = TRUE]
          /\ Answer(l, "asking", "summary")
       \/ /\ request = "summary"
          /\ rpc' = [rpc EXCEPT !.summary = TRUE]
          /\ Answer(l, "asking", "submit")
    /\ UNCHANGED <<daemon, launch, row, ledger, charged, custody, registry, waiter, assertion,
                   faults>>

\* submit_terminal: the proposal goes to the launch, and the server parks until the
\* durable receipt comes back.
SubmitTerminal(l) ==
    /\ Dispatch(l, "submit")
    /\ rpc.verified /\ rpc.transcript /\ rpc.summary
    /\ rpc' = [rpc EXCEPT !.proposal = TRUE, !.cost = HostReport(host[l]),
                         !.stop = host[l].stop]
    /\ server' = "parked"
    /\ UNCHANGED <<daemon, launch, row, host, ledger, charged, custody, registry, waiter,
                   assertion, faults>>

\* The serve loop reads end of file once the host is gone.
PeerClosed(l) ==
    /\ Up /\ launch.id = l
    /\ server = "serving"
    /\ ~Alive(l) /\ host[l].ask = "none"
    /\ server' = "peerClosed"
    /\ UNCHANGED <<daemon, launch, row, host, rpc, ledger, charged, custody, registry, waiter,
                   assertion, faults>>

\* A request the handlers refuse, a deadline or a broken pipe ends the connection.
TransportFails(l) ==
    /\ Up /\ launch.id = l
    /\ server = "serving"
    /\ host[l].ask # "none"
    /\ Fault
    /\ server' = "failed"
    /\ UNCHANGED <<daemon, launch, row, host, rpc, ledger, charged, custody, registry, waiter,
                   assertion>>

(* ------------------------------ the actor host ----------------------------- *)

Ask(l, request) == host' = [host EXCEPT ![l].phase = "asking", ![l].ask = request]

Economy == <<daemon, launch, row, server, rpc, ledger, custody, registry, waiter, assertion,
             faults>>

\* A tool of the actor: it reads the required file, or edits it.
HostReads(l) ==
    /\ host[l].phase = "working"
    /\ Ask(l, "read")
    /\ UNCHANGED <<Economy, charged>>

HostEdits(l) ==
    /\ host[l].phase = "working"
    /\ host' = [host EXCEPT ![l].edited = TRUE]
    /\ UNCHANGED <<Economy, charged>>

\* TurnCostObserver: what was reported so far, complete or not, ends the drive once it
\* is at or over the allowance.
CostLimitReached(l) == MicroUsd(host[l].cost) >= Allowance

\* FactoryEffectGate: record_start before the request leaves, and the request
\* leaves only when the start was acknowledged.
RecordStart(l) ==
    /\ host[l].phase = "working"
    /\ Len(ledger[l]) < MaxRequests
    /\ ~CostLimitReached(l)
    /\ Ask(l, "start")
    /\ UNCHANGED <<Economy, charged>>

SendProviderRequest(l) ==
    /\ host[l].phase = "cleared"
    /\ host' = [host EXCEPT ![l].phase = "inflight", ![l].open = TRUE, ![l].retries = 0]
    /\ UNCHANGED <<Economy, charged>>

\* The provider client repeats an attempt that failed inside the same effect, so the
\* ledger sees one request; the failed attempt may have been charged for, and the
\* client's total may know that it misses something.
ProviderRetries(l, cost, complete) ==
    /\ host[l].phase = "inflight"
    /\ host[l].retries < MaxRetries
    /\ Bill(l, cost, "retried")
    /\ host' = [host EXCEPT ![l].retries = @ + 1, ![l].complete = @ /\ complete]
    /\ UNCHANGED Economy

\* The host adds up what the answer states, and reports the outcome to the ledger with
\* the cost rounded up.
Settle(l, state, cost, stated) ==
    /\ Bill(l, cost, IF stated THEN "stated" ELSE "lost")
    /\ host' = [host EXCEPT ![l].phase = "asking", ![l].ask = "settle", ![l].open = FALSE,
                            ![l].outcome = [state |-> state,
                                            cost |-> IF stated THEN MicroUsd(cost) ELSE Unknown],
                            ![l].cost = IF stated THEN Plus(@, cost) ELSE @,
                            ![l].complete = @ /\ stated]

\* Mutant: the host's own total misses the answer.
ProviderAnswersUncounted(l, cost, stated) ==
    /\ host[l].phase = "inflight"
    /\ Bill(l, cost, IF stated THEN "stated" ELSE "lost")
    /\ host' = [host EXCEPT ![l].phase = "asking", ![l].ask = "settle", ![l].open = FALSE,
                            ![l].outcome = [state |-> "settled",
                                            cost |-> IF stated THEN MicroUsd(cost) ELSE Unknown]]
    /\ UNCHANGED Economy

\* The provider answers, with or without its cost.
ProviderAnswers(l, cost, stated) ==
    /\ host[l].phase = "inflight"
    /\ Settle(l, "settled", cost, stated)
    /\ UNCHANGED Economy

\* The answer is an error, or the transport failed: charged for or not, stated or not.
ProviderFails(l, cost, stated) ==
    /\ host[l].phase = "inflight"
    /\ Settle(l, "failed", cost, stated)
    /\ UNCHANGED Economy

\* A provider charges for a request whose sender is gone.
ProviderChargesDead(l, cost) ==
    /\ host[l].phase = "exited" /\ host[l].open
    /\ Bill(l, cost, "lost")
    /\ host' = [host EXCEPT ![l].open = FALSE]
    /\ UNCHANGED Economy

\* run() after the drive: the transcript is sealed first, and the stop reason is
\* cost_limit before completed before unknown_cost before the drive's own.
HostFinishes(l, terminal) ==
    /\ host[l].phase = "working"
    /\ host' = [host EXCEPT ![l].phase = "asking", ![l].ask = "transcript",
                   ![l].stop = IF CostLimitReached(l) THEN "cost_limit" ELSE IF terminal THEN "completed"
                               ELSE IF ~host[l].complete THEN "unknown_cost" ELSE "stopped"]
    /\ UNCHANGED <<Economy, charged>>

\* The host fails of its own, or finds its socket closed.
HostExits(l) ==
    /\ Alive(l)
    /\ host' = [host EXCEPT ![l] = Dead(@)]
    /\ UNCHANGED <<Economy, charged>>

(* ------------------------ cancellation and shutdown ------------------------ *)

\* cancel_and_wait: request the cancellation of the registered process and wait.
CancelAndWait(w) == /\ custody' = [custody EXCEPT !.cancel = TRUE]
                    /\ waiter' = [waiter EXCEPT ![w] = "waiting"]

\* The operator cancels the campaign: the running session is read from its row and
\* looked up in the registry; one that is not there yet is refused.
OperatorCancels(l) ==
    /\ daemon = "serving"
    /\ row[l].lifecycle = "running"
    /\ l \in registry
    /\ waiter["operator"] = "idle"
    /\ CancelAndWait("operator")
    /\ UNCHANGED <<daemon, launch, row, host, server, rpc, ledger, charged, registry, assertion,
                   faults>>

\* serve() ended: cancel_active_sessions takes the registered sessions and waits.
BeginShutdown ==
    /\ daemon = "serving"
    /\ daemon' = "cancelling"
    /\ \/ registry # {} /\ CancelAndWait("shutdown")
       \/ /\ registry = {}
          /\ UNCHANGED <<custody, waiter>>
    /\ UNCHANGED <<launch, row, host, server, rpc, ledger, charged, registry, assertion, faults>>

\* driver_task.cancel() drops the launch at whatever point it has reached. The custody
\* thread is not a future: it runs on until the process ends.
CancelDriver ==
    /\ daemon = "cancelling"
    /\ waiter["shutdown"] # "waiting"
    /\ daemon' = "closing"
    /\ launch' = [NoLaunch EXCEPT !.id = launch.id]
    /\ server' = "none" /\ rpc' = NoRpc
    /\ registry' = {}
    /\ waiter' = [w \in Waiters |-> "idle"]
    /\ UNCHANGED <<row, host, ledger, charged, custody, assertion, faults>>

\* LocalDaemon::shutdown finds no registered session, releases the lock, and the
\* process ends with its threads.
ReleaseLock ==
    /\ daemon = "closing"
    /\ daemon' = "stopped"
    /\ custody' = NoCustody
    /\ UNCHANGED <<launch, row, host, server, rpc, ledger, charged, registry, waiter, assertion,
                   faults>>

(* ---------------------------- crash and recovery --------------------------- *)

\* The daemon dies. A file it created may be left without its bytes.
Crash ==
    /\ Up
    /\ Fault
    /\ daemon' = "down"
    /\ Return
    /\ assertion' = [l \in Launches |-> IF assertion[l] = "open" THEN "torn" ELSE assertion[l]]
    /\ UNCHANGED <<row, host, ledger, charged>>

Restart ==
    /\ ~Up
    /\ daemon' = "recovering"
    /\ UNCHANGED <<launch, row, host, server, rpc, ledger, charged, custody, registry, waiter,
                   assertion, faults>>

\* Recovery takes the sessions in order, and finishes one before the next.
Recovering(l) ==
    /\ daemon = "recovering"
    /\ row[l].lifecycle = "running"
    /\ \A k \in Launches : k < l => row[k].lifecycle # "running"

\* Mutant: a group that outlives its TERM is waited for, not killed.
TerminateOnlyIdleGroup(l) ==
    /\ Recovering(l)
    /\ Alive(l) /\ host[l].phase # "inflight"
    /\ host' = [host EXCEPT ![l] = Dead(@)]
    /\ UNCHANGED <<Economy, charged>>

\* terminate_owned_process_group.
TerminateOwnedProcessGroup(l) ==
    /\ Recovering(l)
    /\ Alive(l)
    /\ host' = [host EXCEPT ![l] = Dead(@)]
    /\ UNCHANGED <<Economy, charged>>

\* Evidence files are created with create_new and then written. One that exists is
\* taken as it is, and compared with the bytes it should have.
CreateEvidence(l) ==
    /\ Recovering(l)
    /\ ~Alive(l)
    /\ assertion[l] = "none"
    /\ assertion' = [assertion EXCEPT ![l] = "open"]
    /\ UNCHANGED <<daemon, launch, row, host, server, rpc, ledger, charged, custody, registry,
                   waiter, faults>>

WriteEvidence(l) ==
    /\ Recovering(l)
    /\ assertion[l] = "open"
    /\ assertion' = [assertion EXCEPT ![l] = "whole"]
    /\ UNCHANGED <<daemon, launch, row, host, server, rpc, ledger, charged, custody, registry,
                   waiter, faults>>

\* The bytes differ: recovery returns the error and factoryd ends.
EvidenceChanged(l) ==
    /\ Recovering(l)
    /\ ~Alive(l)
    /\ assertion[l] = "torn"
    /\ daemon' = "down"
    /\ UNCHANGED <<launch, row, host, server, rpc, ledger, charged, custody, registry, waiter,
                   assertion, faults>>

\* recover_structurally_readable_partial: whole records that were left in staging,
\* or the placeholder.
RecoveredTranscripts == {"partial", "unavailable"}

\* Mutant: the row is closed before the group is looked at.
ReconcileBeforeTermination(l, transcript) ==
    /\ Recovering(l)
    /\ row' = [row EXCEPT ![l] = [lifecycle |-> "terminal", by |-> "restart",
                                  stop |-> "daemon_disconnected", cost |-> Unknown,
                                  transcript |-> transcript]]
    /\ UNCHANGED <<daemon, launch, host, server, rpc, ledger, charged, custody, registry, waiter,
                   assertion, faults>>

\* The interrupted session gets its terminal row, without usage.
ReconcileOneSession(l, transcript) ==
    /\ Recovering(l)
    /\ ~Alive(l)
    /\ assertion[l] = "whole"
    /\ row' = [row EXCEPT ![l] = [lifecycle |-> "terminal", by |-> "restart",
                                  stop |-> "daemon_disconnected", cost |-> Unknown,
                                  transcript |-> transcript]]
    /\ UNCHANGED <<daemon, launch, host, server, rpc, ledger, charged, custody, registry, waiter,
                   assertion, faults>>

ServeOperators ==
    /\ daemon = "recovering"
    /\ \A l \in Launches : row[l].lifecycle # "running"
    /\ daemon' = "serving"
    /\ UNCHANGED <<launch, row, host, server, rpc, ledger, charged, custody, registry, waiter,
                   assertion, faults>>

(* ----------------------------- specification ------------------------------- *)

SessionInit ==
    /\ daemon = "serving"
    /\ launch = NoLaunch
    /\ row = [l \in Launches |-> NoRow]
    /\ host = [l \in Launches |-> NoHost]
    /\ server = "none" /\ rpc = NoRpc /\ custody = NoCustody
    /\ ledger = [l \in Launches |-> <<>>]
    /\ charged = [l \in Launches |-> NoCharge]
    /\ registry = {}
    /\ waiter = [w \in Waiters |-> "idle"]
    /\ assertion = [l \in Launches |-> "none"]
    /\ faults = 0

LaunchStep(l) ==
    \/ StartSession(l) \/ Register(l) \/ Admit(l) \/ AbortReturns(l)
    \/ ProcessStops(l) \/ TransportStops(l) \/ ChildWaited(l) \/ SealEvidence(l)
    \/ LedgerConflicts(l) \/ TerminalSession(l)

LaunchFault(l) ==
    \/ StartRefused(l) \/ AdmissionFails(l) \/ AdmissionAbandoned(l) \/ ReconcileFails(l)
    \/ TransportFails(l)

CustodyStep(l) ==
    \/ ReapChild(l)
    \/ \E reason \in {"cancelled"} \cup LimitReasons : TermGroup(l, reason)
    \/ KillGroup(l)

ServerStep(l) ==
    \/ VerifyPacket(l) \/ WorkspaceRead(l) \/ ProviderEffectStart(l) \/ ProviderEffectSettle(l)
    \/ \E request \in {"transcript", "summary"} : SealArtifact(l, request)
    \/ SubmitTerminal(l) \/ PeerClosed(l)

HostStep(l) ==
    \/ HostReads(l) \/ HostEdits(l) \/ RecordStart(l) \/ SendProviderRequest(l) \/ HostExits(l)
    \/ \E terminal \in BOOLEAN : HostFinishes(l, terminal)

ProviderStep(l) ==
    \/ \E cost \in Costs, stated \in BOOLEAN : ProviderAnswers(l, cost, stated)
    \/ \E cost \in Costs \cup {Nothing}, stated \in BOOLEAN : ProviderFails(l, cost, stated)
    \/ \E cost \in Costs \cup {Nothing}, complete \in BOOLEAN : ProviderRetries(l, cost, complete)
    \/ \E cost \in Costs : ProviderChargesDead(l, cost)

RecoveryStep(l) ==
    \/ TerminateOwnedProcessGroup(l) \/ CreateEvidence(l) \/ WriteEvidence(l)
    \/ EvidenceChanged(l)
    \/ \E transcript \in RecoveredTranscripts : ReconcileOneSession(l, transcript)

ShutdownStep == BeginShutdown \/ CancelDriver \/ ReleaseLock

SessionNext ==
    \/ \E l \in Launches :
         \/ Spawn(l) \/ LaunchStep(l) \/ LaunchFault(l) \/ LateCommit(l)
         \/ CustodyStep(l) \/ ServerStep(l) \/ HostStep(l) \/ ProviderStep(l) \/ RecoveryStep(l)
         \/ OperatorCancels(l)
    \/ ShutdownStep \/ Crash \/ Restart \/ ServeOperators

SessionSpec == SessionInit /\ [][SessionNext]_vars

\* The executor runs what is ready, the custody thread polls, the wall clock reaches
\* its limit and recovery goes on. Nothing is assumed of the host, the provider, the
\* operator or of restarts.
SessionFairness ==
    /\ WF_vars(\E l \in Launches : LaunchStep(l))
    /\ WF_vars(\E l \in Launches : CustodyStep(l))
    /\ WF_vars(\E l \in Launches : ServerStep(l))
    /\ WF_vars((\E l \in Launches : RecoveryStep(l)) \/ ServeOperators)
    /\ WF_vars(CancelDriver \/ ReleaseLock)

FairSessionSpec == SessionSpec /\ SessionFairness

(* ------------------------------- properties -------------------------------- *)

\* A cost in micro-USD is at least the least one, and more than it by less than one
\* micro-USD for each of n roundings.
WithinRounding(cost, least, n) == least <= cost /\ (cost = least \/ cost < least + n)

\* A terminal row that states a cost covers every charge that was answered, now and for
\* good, and overstates it by less than one micro-USD for each request: no request of
\* the session is still open, and what it misses of the provider's charges are attempts
\* repeated inside a request, whichever of the host, the server, the daemon and the
\* provider failed and in which order (session_runtime.rs:2400-2434,
\* process.rs:3534-3560, value.rs:28-78).
KnownCostCoversCharges ==
    \A l \in Launches :
        row[l].lifecycle = "terminal" /\ row[l].cost # Unknown =>
            /\ WithinRounding(row[l].cost, MicroUsd(charged[l].stated), Len(ledger[l]))
            /\ charged[l].paid = Plus(charged[l].stated, charged[l].retried)
            /\ ~host[l].open

\* The cost a host reports with its terminal and the cost of a complete ledger are one
\* sum rounded once and rounded for each request: the host never reports more, nor less
\* by a micro-USD or more for each request (main.rs:685-694, session_runtime.rs:2404-2410).
\* They need not be equal: docs/EVIDENCE.md:96 and ProviderLedgerConflict claim more.
ReportWithinRounding ==
    launch.phase = "evidence" /\ rpc.cost # Unknown /\ Complete(ledger[launch.id]) =>
        WithinRounding(LedgerCost(ledger[launch.id]), rpc.cost, Len(ledger[launch.id]))

\* The child is gone before its session is terminal (session_runtime.rs:1908-1913).
TerminalAfterExit == \A l \in Launches : row[l].lifecycle = "terminal" => ~Alive(l)

\* At most one admitted host acts, across aborted launches, shutdowns, crashes and
\* recoveries (the registry comment, session_runtime.rs:66-68, calls it the one paid
\* process).
OneActingHost ==
    Cardinality({l \in Launches : Alive(l) /\ host[l].phase # "booting"}) <= 1

\* Every launch returns: no host, deaf, busy or silent, keeps the driver for ever.
LaunchReturns == launch.phase # "idle" ~> launch.phase = "idle"

\* Whoever waits for a cancellation hears of it.
CancellationHeard == \A w \in Waiters : waiter[w] = "waiting" ~> waiter[w] # "waiting"

\* A recovery that is not interrupted ends, and serves unless it found a torn file.
RecoveryEnds == daemon = "recovering" ~>
    (daemon \in {"serving", "down"} \/ \E l \in Launches : assertion[l] = "torn")

=============================================================================
