---------------------------- MODULE GitDelivery -----------------------------
(***************************************************************************)
(* The product repository and everything the kernel does to it: git.rs,    *)
(* with the durable steps of durable_authority.rs, candidate_runtime.rs    *)
(* and assignment_runtime.rs that read or move it.  One ticket is in       *)
(* flight at a time (IN_FLIGHT_TICKET_MAXIMUM = 1): its reproducer is      *)
(* replayed on the current head, Engineering works in a detached worktree, *)
(* the captured tree is validated and bound to a candidate commit and ref, *)
(* and an accepted candidate is fast-forwarded onto the default branch.    *)
(*                                                                         *)
(* The daemon may die between any two of these steps, and the operator     *)
(* keeps working in the same checkout.  Git objects, refs, worktree        *)
(* directories, sealed manifests and database rows survive; the driver's   *)
(* local variables do not.                                                 *)
(*                                                                         *)
(* A tree is the set of changes it holds.  A commit object is a record in  *)
(* `objects` and its identity is its place there; 1 is the commit the      *)
(* repository starts with.  trailer is the Factory-Cost of the message.    *)
(***************************************************************************)
EXTENDS CommandSupervision, Sequences, FiniteSets

CONSTANTS
    Tickets,          \* sponsored tickets, each fixed by one change
    OperatorChanges,  \* changes the operator may commit in the checkout
    Diagnostics,      \* what a failing reproducer may print
    Discovery,        \* the one the ticket was admitted with
    MaxEdits,         \* bound: changes the operator begins in the checkout
    MaxFaults         \* bound: deaths of the daemon and git commands stopped at their deadline

ASSUME DeliveryAssumption ==
    /\ Tickets \cap OperatorChanges = {}
    /\ Discovery \in Diagnostics
    /\ "expected" \notin Diagnostics
    /\ MaxFaults \in Nat /\ MaxEdits \in Nat

VARIABLES
    objects,    \* the commit objects of the repository
    head,       \* the default branch, which the checkout has checked out
    checkout,   \* "clean", or why the operator's checkout does not qualify
    ref,        \* the candidate ref of each ticket, 0 when absent
    worktrees,  \* the worktree directories below the runtime root
    ticket,     \* ticket, attempt and candidate rows, one record per ticket
    manifests,  \* the replay manifests sealed for a ticket's claim
    running,    \* the campaign is running
    spend,      \* campaigns.measured_cost_micro_usd
    driver,     \* what the campaign driver is doing, and its local variables
    faults,     \* deaths of the daemon and git commands stopped so far
    edits       \* changes the operator has begun so far

gitVars == <<objects, head, checkout, ref>>
rowVars == <<ticket, manifests, running, spend>>
bounds == <<faults, edits>>
vars == <<gitVars, worktrees, rowVars, driver, command, bounds>>

Idle == [pc |-> "idle"]
NoTrailer == 0

InFlightStates == {"claimed", "submitted", "validated", "reviewed", "accepted"}
Disturbances == {"unsafe", "operation", "dirty", "elsewhere"}
Roles == {"Engineering", "Quality"}
InFlight == {t \in Tickets : ticket[t].state \in InFlightStates}

\* A paid session is running: the driver is inside launch_session.
InSession == driver.pc \in {"session", "checking", "edited", "validating", "submit", "record",
                            "review", "ending"}

(* ------------------------------ Git plumbing ----------------------------- *)

Tree(c) == objects[c].tree
Parent(c) == objects[c].parent

\* A set of commits that has the parent of each; the first commit has none.
ParentClosed(objs, S) == \A i \in S \ {1} : objs[i].parent \in S

\* The commits reachable from c: those no closed set with c leaves out.
Ancestors(objs, c) ==
    {a \in 1..Len(objs) :
       \A S \in SUBSET (1..Len(objs)) : c \in S /\ ParentClosed(objs, S) => a \in S}

\* reject_unsafe_config, reject_replace_refs, reject_submodules and
\* reject_unsafe_attributes; assert_no_operation; assert_clean; symbolic HEAD.
SafeConfiguration == checkout # "unsafe"
NoOperation == checkout # "operation"
WorkingTreeClean == checkout # "dirty"
DefaultBranchCheckedOut == checkout # "elsewhere"

\* qualify_repository: the commit and tree of the default branch are the
\* snapshot of a checkout that passes all of these.
Qualifies == SafeConfiguration /\ NoOperation /\ WorkingTreeClean /\ DefaultBranchCheckedOut

\* load_application: the admitted bundle names this checkout, which qualifies.
LoadApplication == Qualifies

\* assert_snapshot_current: the move fence.
SnapshotCurrent(snap) == Qualifies /\ head = snap

\* assert_candidate: exactly one parent, the exact tree, bound by its ref.
AssertCandidate(t, commit, base) ==
    /\ Parent(commit) = base
    /\ Tree(commit) = ticket[t].tree
    /\ ref[t] = commit

\* assert_delivery_commit: one parent, the tree, and the Factory-Cost line.
AssertDeliveryCommit(commit, parent, tree, cost) ==
    objects[commit] = [parent |-> parent, tree |-> tree, trailer |-> cost]

(* ------------------- claiming: requalify_sponsored_ticket ---------------- *)

\* What one run of t's reproducer in the checkout observes.  An unqualified
\* checkout may hold any change.
Observations(t) ==
    LET fixed == IF Qualifies THEN {t \in Tree(head)} ELSE BOOLEAN
    IN  {o \in Diagnostics \cup {"expected"} : (o = "expected") \in fixed}

\* requalification_manifest_pair: both sealed manifests, or neither.
SealedPair(t) == Len(manifests[t]) = 2

\* The row must be claimable and the repository qualify.  A complete pair of
\* sealed manifests is reused with the current head; half a pair is an error
\* (no step); otherwise the reproducer runs in the checkout.
RequalifySponsoredTicket(t) ==
    /\ driver = Idle /\ running /\ LoadApplication
    /\ ticket[t].state = "sponsored" /\ InFlight = {}
    /\ \/ /\ SealedPair(t)
          /\ driver' = [pc |-> "claim", t |-> t, snap |-> head, seen |-> manifests[t]]
          /\ UNCHANGED command
       \/ /\ manifests[t] = <<>>
          /\ driver' = [pc |-> "replay", t |-> t, snap |-> head]
          /\ command' = Spawned
    /\ UNCHANGED <<gitVars, worktrees, rowVars, bounds>>

\* run_discovery_reproducer: the supervised run stands for both; the
\* classification of the pair is not consulted.
ReplayReturns ==
    /\ driver.pc = "replay" /\ command.stage = "returned"
    /\ \E first, second \in Observations(driver.t) :
          driver' = [pc |-> "seal", t |-> driver.t, snap |-> driver.snap,
                     seen |-> <<first, second>>]
    /\ command' = NoCommand
    /\ UNCHANGED <<gitVars, worktrees, rowVars, bounds>>

\* seal_command_observation_manifest, once for each run.  When both are sealed
\* the first stands for both: canonical_requalification_observations.
SealManifest ==
    /\ driver.pc = "seal"
    /\ LET n == Len(manifests[driver.t]) + 1
       IN  /\ manifests' = [manifests EXCEPT ![driver.t] = Append(@, driver.seen[n])]
           /\ driver' = IF n < 2 THEN driver
                        ELSE [driver EXCEPT !.pc = "claim",
                                            !.seen = <<driver.seen[1], driver.seen[1]>>]
    /\ UNCHANGED <<gitVars, worktrees, ticket, running, spend, command, bounds>>

\* classify_requalification compares digests of outputs.
Classify(seen) ==
    IF seen[1] # seen[2] THEN "blocked"
    ELSE IF seen[1] = "expected" THEN "resolved"
    ELSE IF seen[1] = Discovery THEN "claimed" ELSE "blocked"

\* claim_then_launch: claim_sponsored_ticket bases the attempt on the head that
\* was qualified; a claimed attempt is launched at once, and only here.
ClaimTicket ==
    /\ driver.pc = "claim"
    /\ ticket' = IF ~running THEN ticket
                 ELSE [ticket EXCEPT ![driver.t] =
                         [@ EXCEPT !.state = Classify(driver.seen), !.base = driver.snap]]
    /\ driver' = IF running /\ Classify(driver.seen) = "claimed"
                 THEN [pc |-> "launch", t |-> driver.t, role |-> "Engineering"] ELSE Idle
    /\ UNCHANGED <<gitVars, worktrees, manifests, running, spend, command, bounds>>

(* ---------------- failing: what the driver does with an error ------------- *)

\* fail_ticket_attempt, which is refused once the campaign no longer runs.
FailTicketAttempt(t) ==
    ticket' = IF running THEN [ticket EXCEPT ![t].state = "failed"] ELSE ticket

\* terminalize_failed_launch: the attempt fails, but a Quality launch may be
\* given its one retry (counted in FactoryAuthority).
TerminalizeFailedLaunch(t, role) ==
    \/ FailTicketAttempt(t)
    \/ role = "Quality" /\ UNCHANGED ticket

(* ------------------ assignments: materialize_and_launch ------------------ *)

\* The driver comes to a launch: straight from the claim for Engineering, from the
\* scheduler's head for a candidate that has its commit.
LaunchRequested(t, role) ==
    \/ /\ role = "Engineering"
       /\ driver = [pc |-> "launch", t |-> t, role |-> role]
    \/ /\ role = "Quality" /\ driver = Idle /\ running
       /\ ticket[t].state = "validated" /\ ticket[t].commit # 0

\* resolve_launch_context: the campaign runs, the repository qualifies, and an
\* Engineering attempt still has its claimed base at the head.
Launchable(t, role) ==
    /\ running /\ LoadApplication
    /\ role = "Engineering" => head = ticket[t].base

\* The directory of an assignment below the runtime root; the name is fresh.
CreateAssignmentStaging(role, t) == worktrees' = worktrees \cup {<<"staging", role, t>>}
RemoveAssignmentStaging(dirs, role, t) == dirs \ {<<"staging", role, t>>}

\* add_no_checkout.
AddWorktree(kind, role, t) == worktrees' = worktrees \cup {<<kind, role, t>>}

\* resolve_pre_assignment_launch; the staging root is created once it is granted.
ResolvePreAssignment(t, role) ==
    /\ LaunchRequested(t, role)
    /\ IF Launchable(t, role)
       THEN /\ CreateAssignmentStaging(role, t)
            /\ driver' = [pc |-> "materialize", t |-> t, role |-> role, snap |-> head]
            /\ UNCHANGED ticket
       ELSE /\ TerminalizeFailedLaunch(t, role)
            /\ driver' = Idle
            /\ UNCHANGED worktrees
    /\ UNCHANGED <<gitVars, manifests, running, spend, command, bounds>>

\* materialize_workspace: create_detached_worktree at the base, or
\* create_candidate_review_worktree at the commit, whose tree must be the stored
\* one.  A refusal removes the staging root and is a failed launch.
MaterializeWorkspace ==
    /\ driver.pc = "materialize"
    /\ IF /\ SnapshotCurrent(driver.snap)
          /\ driver.role = "Quality" => Tree(ticket[driver.t].commit) = ticket[driver.t].tree
       THEN /\ AddWorktree("actor", driver.role, driver.t)
            /\ driver' = [driver EXCEPT !.pc = "compile"]
            /\ UNCHANGED ticket
       ELSE /\ worktrees' = RemoveAssignmentStaging(worktrees, driver.role, driver.t)
            /\ TerminalizeFailedLaunch(driver.t, driver.role)
            /\ driver' = Idle
    /\ UNCHANGED <<gitVars, manifests, running, spend, command, bounds>>

\* current_campaign_material: the campaign the action was planned for still runs.
CampaignCurrent == running

\* The packet is compiled, sealed and recorded for the campaign as it is now, and
\* the session launched.
CompileAssignment ==
    /\ driver.pc = "compile"
    /\ IF CampaignCurrent
       THEN /\ driver' = [pc |-> "session", t |-> driver.t, role |-> driver.role]
            /\ spend' = spend + 1
       ELSE /\ driver' = [driver EXCEPT !.pc = "cleanup"]
            /\ UNCHANGED spend
    /\ UNCHANGED <<gitVars, worktrees, ticket, manifests, running, command, bounds>>

\* resolve_engineering_inner, for every request of the actor: the repository is
\* qualified anew and adopt_actor_worktree requires the worktree's detached HEAD,
\* the claimed base, to be the qualified head.
EngineeringAuthority(t) == SnapshotCurrent(ticket[t].base)

\* run_validation_in_fresh_worktree: rematerialize_tree into a fresh worktree
\* and the first command of the program.
ValidateInFreshWorktree(next) ==
    /\ AddWorktree("validation", driver.role, driver.t)
    /\ driver' = next
    /\ command' = Spawned
    /\ UNCHANGED <<gitVars, rowVars, bounds>>

\* The worktree is removed whatever the commands did.
RemoveValidationWorktree ==
    worktrees' = worktrees \ {<<"validation", driver.role, driver.t>>}

\* checkpoint_regression: capture_regression_tree, run in a fresh worktree.
CheckpointRegression ==
    /\ driver.pc = "session" /\ driver.role = "Engineering"
    /\ EngineeringAuthority(driver.t)
    /\ ValidateInFreshWorktree([driver EXCEPT !.pc = "checking"])

\* Only a command that failed on the unchanged tree is a checkpoint.
CheckpointReturns ==
    /\ driver.pc = "checking" /\ command.stage = "returned"
    /\ RemoveValidationWorktree
    /\ \E failed \in BOOLEAN :
          driver' = [driver EXCEPT !.pc = IF failed THEN "edited" ELSE "session"]
    /\ command' = NoCommand
    /\ UNCHANGED <<gitVars, rowVars, bounds>>

\* submit_candidate: capture_tree (a material change), the whitespace check,
\* and the program in a fresh worktree.
CaptureCandidate ==
    /\ driver.pc = "edited" /\ EngineeringAuthority(driver.t)
    /\ ValidateInFreshWorktree(
          [pc |-> "validating", t |-> driver.t, role |-> driver.role,
           tree |-> Tree(ticket[driver.t].base) \cup {driver.t}])

\* resolve_quality_inner and load_quality_candidate: the repository qualifies,
\* whatever its head is now, and the candidate still awaits its full suite.
QualityAuthority(t) ==
    LoadApplication /\ ticket[t].state = "validated" /\ ticket[t].commit # 0

\* run_quality_full_suite: the candidate's tree is materialized and tested.
RunQualityFullSuite ==
    /\ driver.pc = "session" /\ driver.role = "Quality" /\ QualityAuthority(driver.t)
    /\ ValidateInFreshWorktree(
          [pc |-> "validating", t |-> driver.t, role |-> driver.role,
           tree |-> ticket[driver.t].tree])

\* run_validation: passed only if every command exited as expected and the
\* tracked tree is unchanged; an error of a command is an interrupted validation.
ValidationReturns ==
    /\ driver.pc = "validating" /\ command.stage = "returned"
    /\ RemoveValidationWorktree
    /\ \E result \in {"Failed", "Interrupted"} \cup (IF MayMatch THEN {"Passed"} ELSE {}) :
          driver' = [pc |-> IF driver.role = "Engineering" THEN "submit" ELSE "record",
                     t |-> driver.t, role |-> driver.role,
                     tree |-> driver.tree, result |-> result]
    /\ command' = NoCommand
    /\ UNCHANGED <<gitVars, rowVars, bounds>>

\* DecisionStore::submit_candidate, the first durable transition.
SubmitCandidate ==
    /\ driver.pc = "submit"
    /\ ticket' = [ticket EXCEPT ![driver.t] =
                    [@ EXCEPT !.state = "submitted", !.tree = driver.tree]]
    /\ driver' = [driver EXCEPT !.pc = "record"]
    /\ UNCHANGED <<gitVars, worktrees, manifests, running, spend, command, bounds>>

\* record_validation of either scope; a passed full suite leaves the review.
RecordValidation ==
    /\ driver.pc = "record"
    /\ ticket' = [ticket EXCEPT ![driver.t].state =
                    IF driver.result = "Passed" THEN "validated" ELSE "failed"]
    /\ driver' = [pc |-> IF driver.result = "Passed" /\ driver.role = "Quality"
                         THEN "review" ELSE "ending",
                  t |-> driver.t, role |-> driver.role]
    /\ UNCHANGED <<gitVars, worktrees, manifests, running, spend, command, bounds>>

\* submit_quality_review with a passing verdict.
SubmitQualityReview ==
    /\ driver.pc = "review"
    /\ ticket' = [ticket EXCEPT ![driver.t].state = "reviewed"]
    /\ driver' = [driver EXCEPT !.pc = "ending"]
    /\ UNCHANGED <<gitVars, worktrees, manifests, running, spend, command, bounds>>

\* A session that will end without its result: a refused request, a limit, a
\* fault, a cancellation.  A retry of the attempt is FactoryAuthority's.
SessionFails ==
    /\ driver.pc \in {"session", "edited", "review"}
    /\ FailTicketAttempt(driver.t)
    /\ driver' = [pc |-> "ending", t |-> driver.t, role |-> driver.role]
    /\ UNCHANGED <<gitVars, worktrees, manifests, running, spend, command, bounds>>

\* The session row becomes terminal; the workspace outlives it.
SessionEnds ==
    /\ driver.pc = "ending"
    /\ driver' = [driver EXCEPT !.pc = "cleanup"]
    /\ UNCHANGED <<gitVars, worktrees, rowVars, command, bounds>>

\* AssignmentRuntimeResources::cleanup: cleanup_worktree and
\* remove_assignment_staging, whatever the launch returned.
CleanupResources ==
    /\ driver.pc = "cleanup"
    /\ worktrees' = RemoveAssignmentStaging(worktrees \ {<<"actor", driver.role, driver.t>>},
                                            driver.role, driver.t)
    /\ driver' = Idle
    /\ UNCHANGED <<gitVars, rowVars, command, bounds>>

(* ------------- the candidate commit: resume_candidate_commit_attach ------ *)

\* The scheduler's head asks for the commit of a validated candidate.
CommitAttachRequired(t) ==
    driver = Idle /\ running /\ ticket[t].state = "validated" /\ ticket[t].commit = 0

\* load_candidate_recovery requires a qualified checkout with the persisted base at
\* its head; a bound ref has to prove to be this candidate.
Recoverable(t) ==
    /\ SnapshotCurrent(ticket[t].base)
    /\ ref[t] # 0 => AssertCandidate(t, ref[t], head)

\* construct_or_recover_candidate_commit: a bound ref is reused.
ResumeCommitAttach(t) ==
    /\ CommitAttachRequired(t) /\ Recoverable(t)
    /\ driver' = IF ref[t] # 0
                 THEN [pc |-> "attach", t |-> t, snap |-> head, object |-> ref[t]]
                 ELSE [pc |-> "construct", t |-> t, snap |-> head]
    /\ UNCHANGED <<gitVars, worktrees, rowVars, command, bounds>>

\* Any error of the attach, the checkout's passing state included, fails the
\* attempt (continue_downstream); nothing retries it without a commit.
FailCommitAttach(t) ==
    /\ \/ CommitAttachRequired(t) /\ ~Recoverable(t)
       \/ driver.pc = "construct" /\ driver.t = t /\ ~SnapshotCurrent(driver.snap)
    /\ FailTicketAttempt(t)
    /\ driver' = Idle
    /\ UNCHANGED <<gitVars, worktrees, manifests, running, spend, command, bounds>>

\* Mutant: no fence; the commit is built on whatever the head is now.
ConstructOnCurrentHead ==
    /\ driver.pc = "construct"
    /\ objects' = Append(objects, [parent |-> head, tree |-> ticket[driver.t].tree,
                                   trailer |-> NoTrailer])
    /\ driver' = [pc |-> "bind", t |-> driver.t, snap |-> driver.snap,
                  object |-> Len(objects) + 1]
    /\ UNCHANGED <<head, checkout, ref, worktrees, rowVars, command, bounds>>

\* construct_candidate_commit: commit-tree is deterministic, so the same content
\* is the same object.
ConstructCandidateCommit ==
    /\ driver.pc = "construct" /\ SnapshotCurrent(driver.snap)
    /\ LET content == [parent |-> driver.snap, tree |-> ticket[driver.t].tree,
                       trailer |-> NoTrailer]
           known == {i \in 1..Len(objects) : objects[i] = content}
       IN  /\ objects' = IF known = {} THEN Append(objects, content) ELSE objects
           /\ driver' = [pc |-> "bind", t |-> driver.t, snap |-> driver.snap,
                         object |-> IF known = {} THEN Len(objects) + 1
                                    ELSE CHOOSE i \in known : TRUE]
    /\ UNCHANGED <<head, checkout, ref, worktrees, rowVars, command, bounds>>

\* bind_candidate_ref: compare-and-swap against an absent ref; another object in it
\* is an error of the attach.
BindCandidateRef ==
    /\ driver.pc = "bind"
    /\ ref' = [ref EXCEPT ![driver.t] = IF @ = 0 THEN driver.object ELSE @]
    /\ IF ref[driver.t] \in {0, driver.object}
       THEN driver' = [driver EXCEPT !.pc = "attach"] /\ UNCHANGED ticket
       ELSE driver' = Idle /\ FailTicketAttempt(driver.t)
    /\ UNCHANGED <<objects, head, checkout, worktrees, manifests, running, spend, command, bounds>>

\* A git command of the attach is stopped at its deadline (run_with_environment):
\* the ref may have been bound or not, and the error fails the attempt.
AttachTimesOut ==
    /\ driver.pc = "bind" /\ faults < MaxFaults
    /\ faults' = faults + 1
    /\ ref' \in {ref, [ref EXCEPT ![driver.t] = IF @ = 0 THEN driver.object ELSE @]}
    /\ FailTicketAttempt(driver.t)
    /\ driver' = Idle
    /\ UNCHANGED <<objects, head, checkout, worktrees, manifests, running, spend, command, edits>>

\* attach_candidate_commit.
AttachCandidateCommit ==
    /\ driver.pc = "attach"
    /\ ticket' = [ticket EXCEPT ![driver.t].commit = driver.object]
    /\ driver' = Idle
    /\ UNCHANGED <<gitVars, worktrees, manifests, running, spend, command, bounds>>

\* resolve_candidate_decision: the Architect accepts the reviewed candidate.
ResolveCandidateDecision(t) ==
    /\ running /\ ticket[t].state = "reviewed"
    /\ ticket' = [ticket EXCEPT ![t].state = "accepted"]
    /\ UNCHANGED <<gitVars, worktrees, manifests, running, spend, driver, command, bounds>>

(* ------------------- delivery: deliver_accepted_candidate ---------------- *)

\* The row and the qualified head are read once.
Deliverable(t) ==
    driver = Idle /\ running /\ LoadApplication /\ ticket[t].state = "accepted"

\* recover_completed_local_fast_forward: the head is the candidate commit.
RecoverPlainDelivery(t) ==
    /\ Deliverable(t) /\ head = ticket[t].commit
    /\ AssertCandidate(t, ticket[t].commit, ticket[t].base)
    /\ driver' = [pc |-> "settle", t |-> t, object |-> head, cost |-> spend]
    /\ UNCHANGED <<gitVars, worktrees, rowVars, command, bounds>>

\* Mutant: an unrecorded fast-forward is only recognised by the candidate commit.
RecoverPlainOnly(t) == RecoverPlainDelivery(t)

\* recover_completed_local_fast_forward_with_factory_cost: the head already is
\* a delivery of this candidate at the same cost.
RecoverCostDelivery(t) ==
    /\ Deliverable(t) /\ head # ticket[t].commit
    /\ Tree(head) = ticket[t].tree /\ head # ticket[t].base
    /\ AssertCandidate(t, ticket[t].commit, ticket[t].base)
    /\ AssertDeliveryCommit(head, ticket[t].base, ticket[t].tree, spend)
    /\ driver' = [pc |-> "settle", t |-> t, object |-> head, cost |-> spend]
    /\ UNCHANGED <<gitVars, worktrees, rowVars, command, bounds>>

\* Otherwise the stored commit is proved against the qualified head, and the
\* delivery commit is built on it: recover_candidate_commit,
\* guarded_local_fast_forward_with_factory_cost, construct_delivery_commit.  Its
\* time stamp makes it a new object each time.
ConstructDelivery(t) ==
    /\ Deliverable(t) /\ Tree(head) # ticket[t].tree
    /\ AssertCandidate(t, ticket[t].commit, head)
    /\ objects' = Append(objects, [parent |-> head, tree |-> ticket[t].tree,
                                   trailer |-> spend])
    /\ driver' = [pc |-> "merge", t |-> t, object |-> Len(objects) + 1, cost |-> spend]
    /\ UNCHANGED <<head, checkout, ref, worktrees, rowVars, command, bounds>>

\* git merge --ff-only: the branch moves only forward.
FastForward(object) == IF head \in Ancestors(objects, object) THEN object ELSE head

\* A checkout on another branch is merged there instead, and one with local
\* changes may refuse.
MergeOutcomes(object) ==
    (IF DefaultBranchCheckedOut THEN {FastForward(object)} ELSE {head})
    \cup (IF Qualifies THEN {} ELSE {head})

\* Mutant: the merge's exit status is not looked at.
MergeUnchecked ==
    /\ driver.pc = "merge"
    /\ head' \in MergeOutcomes(driver.object)
    /\ driver' = [driver EXCEPT !.pc = "settle"]
    /\ UNCHANGED <<objects, checkout, ref, worktrees, rowVars, command, bounds>>

\* fast_forward_delivery_commit runs the merge.
MergeDelivery ==
    /\ driver.pc = "merge"
    /\ head' \in MergeOutcomes(driver.object)
    /\ driver' = IF head' = driver.object THEN [driver EXCEPT !.pc = "verify"] ELSE Idle
    /\ UNCHANGED <<objects, checkout, ref, worktrees, rowVars, command, bounds>>

\* The merge is stopped at its deadline (run_with_environment): the branch may
\* have moved, a lock may be left, and the error ends the delivery.
MergeTimesOut ==
    /\ driver.pc = "merge" /\ faults < MaxFaults
    /\ faults' = faults + 1
    /\ head' \in {head} \cup MergeOutcomes(driver.object)
    /\ checkout' \in {checkout, "dirty"}
    /\ driver' = Idle
    /\ UNCHANGED <<objects, ref, worktrees, rowVars, command, edits>>

\* The postcondition: the checkout qualifies and is the delivery commit.
VerifyDelivery ==
    /\ driver.pc = "verify"
    /\ driver' = IF SnapshotCurrent(driver.object) THEN [driver EXCEPT !.pc = "settle"] ELSE Idle
    /\ UNCHANGED <<gitVars, worktrees, rowVars, command, bounds>>

\* The receipt is sealed and record_delivery makes the terminal transition; a
\* campaign that was cancelled meanwhile refuses it.
RecordDelivery ==
    /\ driver.pc = "settle"
    /\ ticket' = IF ~running THEN ticket
                 ELSE [ticket EXCEPT ![driver.t] =
                         [@ EXCEPT !.state = "delivered",
                                   !.receipt = [old |-> ticket[driver.t].base,
                                                new |-> driver.object, cost |-> driver.cost]]]
    /\ driver' = Idle
    /\ UNCHANGED <<gitVars, worktrees, manifests, running, spend, command, bounds>>

(* ----------------------- the operator and the crash ---------------------- *)

OperatorCommits(c) ==
    /\ \A i \in 1..Len(objects) : c \notin Tree(i)
    /\ objects' = Append(objects, [parent |-> head, tree |-> Tree(head) \cup {c},
                                   trailer |-> NoTrailer])
    /\ head' = Len(objects) + 1
    /\ UNCHANGED <<checkout, ref, worktrees, rowVars, driver, command, bounds>>

\* The operator merges a candidate by hand.
OperatorMerges(t) ==
    /\ ref[t] # 0 /\ head = Parent(ref[t])
    /\ head' = ref[t]
    /\ UNCHANGED <<objects, checkout, ref, worktrees, rowVars, driver, command, bounds>>

\* The operator starts, or finishes, a change in the checkout.
OperatorEdits ==
    /\ IF Qualifies THEN edits < MaxEdits /\ checkout' \in Disturbances
       ELSE checkout' = "clean"
    /\ edits' = IF Qualifies THEN edits + 1 ELSE edits
    /\ UNCHANGED <<objects, head, ref, worktrees, rowVars, driver, command, faults>>

CampaignCancelled ==
    /\ running /\ running' = FALSE
    /\ UNCHANGED <<gitVars, worktrees, ticket, manifests, spend, driver, command, bounds>>

\* The daemon dies.  Recovery interrupts a running session with unknown cost,
\* which fails its campaign.
Crash ==
    /\ driver # Idle /\ faults < MaxFaults
    /\ faults' = faults + 1
    /\ driver' = Idle
    /\ command' = NoCommand
    /\ running' = (running /\ ~InSession)
    /\ UNCHANGED <<gitVars, worktrees, ticket, manifests, spend, edits>>

(* ----------------------------- specification ----------------------------- *)

NewTicket == [state |-> "sponsored", base |-> 0, tree |-> {}, commit |-> 0,
              receipt |-> [old |-> 0, new |-> 0, cost |-> 0]]

Init ==
    /\ objects = <<[parent |-> 0, tree |-> {}, trailer |-> NoTrailer]>>
    /\ head = 1
    /\ checkout = "clean"
    /\ ref = [t \in Tickets |-> 0]
    /\ worktrees = {}
    /\ ticket = [t \in Tickets |-> NewTicket]
    /\ manifests = [t \in Tickets |-> <<>>]
    /\ running = TRUE
    /\ spend = 0
    /\ driver = Idle
    /\ command = NoCommand
    /\ faults = 0
    /\ edits = 0

DriverStep ==
    \/ \E t \in Tickets :
          \/ RequalifySponsoredTicket(t) \/ ResumeCommitAttach(t) \/ FailCommitAttach(t)
          \/ \E role \in Roles : ResolvePreAssignment(t, role)
          \/ RecoverPlainDelivery(t) \/ RecoverCostDelivery(t) \/ ConstructDelivery(t)
    \/ ReplayReturns \/ SealManifest \/ ClaimTicket
    \/ MaterializeWorkspace \/ CompileAssignment
    \/ CheckpointReturns \/ ValidationReturns \/ SubmitCandidate \/ RecordValidation
    \/ SessionEnds \/ CleanupResources
    \/ ConstructCandidateCommit \/ BindCandidateRef \/ AttachCandidateCommit
    \/ MergeDelivery \/ VerifyDelivery \/ RecordDelivery

\* Requests of the actor, which it may or may not make.
ActorStep ==
    \/ CheckpointRegression \/ CaptureCandidate \/ RunQualityFullSuite
    \/ SubmitQualityReview \/ SessionFails

CommandStep ==
    /\ ChildStep \/ RunnerStep
    /\ UNCHANGED <<gitVars, worktrees, rowVars, driver, bounds>>

SupervisionStep ==
    /\ RunnerStep
    /\ UNCHANGED <<gitVars, worktrees, rowVars, driver, bounds>>

OperatorStep ==
    \/ \E c \in OperatorChanges : OperatorCommits(c)
    \/ \E t \in Tickets : OperatorMerges(t)
    \/ OperatorEdits \/ CampaignCancelled

Next ==
    \/ DriverStep
    \/ CommandStep
    \/ ActorStep
    \/ MergeTimesOut \/ AttachTimesOut
    \/ \E t \in Tickets : ResolveCandidateDecision(t)
    \/ OperatorStep
    \/ Crash

Spec == Init /\ [][Next]_vars

\* The resident driver loop takes every action that is ready, and the runner
\* polls; nothing is assumed of the actor, its commands, the operator or the
\* Architect.
FairSpec == Spec /\ WF_vars(DriverStep) /\ WF_vars(SupervisionStep)

(* -------------------------------- properties ----------------------------- *)

\* A ticket recorded as delivered (record_delivery) really is on the default
\* branch: its receipt's commit is reachable from the head whatever the operator
\* committed since, it sits directly on the base the attempt was claimed at, it
\* holds exactly the validated tree, and unless it is the candidate commit the
\* operator merged by hand it carries the recorded Factory-Cost.
DeliveryOnBranch ==
    \A t \in Tickets : ticket[t].state = "delivered" =>
      LET r == ticket[t].receipt
      IN  /\ r.new \in Ancestors(objects, head)
          /\ r.old = ticket[t].base /\ Parent(r.new) = r.old
          /\ Tree(r.new) = ticket[t].tree
          /\ r.new # ticket[t].commit => objects[r.new].trailer = r.cost

\* An attached candidate commit (attach_candidate_commit) is the one its ref
\* binds, holds the validated tree and has the claimed base as its only parent,
\* whichever crash or retry it was constructed or recovered through.
CandidateRefExact ==
    \A t \in Tickets : ticket[t].commit # 0 =>
      /\ ref[t] = ticket[t].commit
      /\ Tree(ticket[t].commit) = ticket[t].tree
      /\ Parent(ticket[t].commit) = ticket[t].base

\* The head is one this delivery can start from or has already moved.
HeadIsOurs(t) ==
    \/ head \in {ticket[t].base, ticket[t].commit}
    \/ /\ Parent(head) = ticket[t].base /\ Tree(head) = ticket[t].tree
       /\ objects[head].trailer # NoTrailer

\* While the campaign runs, every validated candidate gets its commit or its attempt
\* is failed: none is left in flight, whatever the checkout looks like.  Once the
\* checkout also stays clean and the branch free of foreign commits, every accepted
\* candidate is recorded as delivered: a crash, a merge stopped at its deadline or a
\* checkout found dirty after the merge only delays it.
DeliveryCompletes ==
    \A t \in Tickets :
      /\ <>[]running =>
           (ticket[t].state = "validated" /\ ticket[t].commit = 0)
             ~> (ticket[t].commit # 0 \/ ticket[t].state = "failed")
      /\ <>[](Qualifies /\ running /\ HeadIsOurs(t)) =>
           (ticket[t].state = "accepted") ~> (ticket[t].state = "delivered")

=============================================================================
