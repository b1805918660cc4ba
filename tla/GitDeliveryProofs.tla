-------------------------- MODULE GitDeliveryProofs --------------------------
(***************************************************************************)
(* The product repository, proved for every number of tickets, operator    *)
(* commits, edits, crashes and retries.                                    *)
(*                                                                         *)
(* A commit is identified by its place in `objects`, and reachability is   *)
(* by sets closed under parents, so the argument about the branch needs no *)
(* induction over the history: a step appends at most one object whose     *)
(* parent is there, and moves the branch only to a commit it is reachable  *)
(* from.                                                                   *)
(***************************************************************************)
EXTENDS GitDelivery, TLAPS

(* ------------------------------ the history ------------------------------- *)

\* The shape of a history: a sequence that starts with a root, and in which every
\* other commit has a parent that is there.
IsHistory(objs) ==
    /\ objs \in Seq({objs[i] : i \in DOMAIN objs})
    /\ Len(objs) >= 1 /\ objs[1].parent = 0
    /\ \A i \in 2..Len(objs) : objs[i].parent \in 1..Len(objs)

\* A commit is reachable from itself ...
LEMMA ReachSelf ==
    ASSUME NEW objs, NEW c \in 1..Len(objs)
    PROVE  c \in Ancestors(objs, c)
BY DEF Ancestors

\* ... its parent is reachable from it ...
LEMMA ReachParent ==
    ASSUME NEW objs, NEW c \in 2..Len(objs), objs[c].parent \in 1..Len(objs)
    PROVE  objs[c].parent \in Ancestors(objs, c)
BY DEF Ancestors, ParentClosed

\* ... and what is reachable from a reachable commit is reachable.
LEMMA ReachTransitive ==
    ASSUME NEW objs, NEW c, NEW b \in Ancestors(objs, c), NEW a \in Ancestors(objs, b)
    PROVE  a \in Ancestors(objs, c)
BY DEF Ancestors

\* A new commit leaves the history before it as it is.
LEMMA CommitAppended ==
    ASSUME NEW objs, IsHistory(objs), NEW row, row.parent \in 1..Len(objs)
    PROVE  /\ IsHistory(Append(objs, row))
           /\ Len(objs) \in Nat /\ Len(Append(objs, row)) = Len(objs) + 1
           /\ \A i \in 1..Len(objs) : Append(objs, row)[i] = objs[i]
           /\ Append(objs, row)[Len(objs) + 1] = row
           /\ \A c \in 1..Len(objs) : \A a \in Ancestors(objs, c) :
                a \in Ancestors(Append(objs, row), c)
<1> DEFINE more == Append(objs, row)
<1>1. PICK S : objs \in Seq(S)
    BY DEF IsHistory
<1>2. objs \in Seq(S \cup {row})
    BY <1>1
<1>3. /\ more \in Seq(S \cup {row}) /\ Len(objs) \in Nat /\ Len(more) = Len(objs) + 1
      /\ DOMAIN more = 1..(Len(objs) + 1)
      /\ \A i \in 1..Len(objs) : more[i] = objs[i]
      /\ more[Len(objs) + 1] = row
    BY <1>2
<1> HIDE DEF more
<1>4. more \in Seq({more[i] : i \in DOMAIN more})
    BY <1>3
<1>5. ASSUME NEW i \in 2..Len(more) PROVE more[i].parent \in 1..Len(more)
  <2>1. CASE i \in 2..Len(objs)
    BY <1>3, <2>1 DEF IsHistory
  <2>2. CASE i = Len(objs) + 1
    BY <1>3, <2>2
  <2> QED BY <1>3, <1>5, <2>1, <2>2
<1>6. IsHistory(more)
    BY <1>3, <1>4, <1>5 DEF IsHistory
<1>7. ASSUME NEW c \in 1..Len(objs), NEW a \in Ancestors(objs, c)
      PROVE  a \in Ancestors(more, c)
  <2>1. a \in 1..Len(objs) /\ a \in 1..Len(more)
    BY <1>3, <1>7 DEF Ancestors
  <2>2. ASSUME NEW T \in SUBSET (1..Len(more)), c \in T, ParentClosed(more, T)
        PROVE  a \in T
    <3> DEFINE U == T \cap (1..Len(objs))
    <3>1. c \in U /\ U \in SUBSET (1..Len(objs))
      BY <2>2
    <3>2. ParentClosed(objs, U)
      <4> SUFFICES ASSUME NEW i \in U \ {1} PROVE objs[i].parent \in U
        BY DEF ParentClosed
      <4>1. more[i] = objs[i] /\ i \in 2..Len(objs) /\ more[i].parent \in T
        BY <1>3, <2>2 DEF ParentClosed
      <4> QED BY <4>1 DEF IsHistory
    <3> HIDE DEF U
    <3>3. a \in U
      BY <3>1, <3>2, <1>7 DEF Ancestors
    <3> QED BY <3>3 DEF U
  <2> QED BY <2>1, <2>2 DEF Ancestors
<1> QED BY <1>3, <1>6, <1>7 DEF more

(* ------------------------- the inductive invariant ------------------------ *)

RepositoryOK ==
    /\ IsHistory(objects) /\ head \in 1..Len(objects)
    /\ DOMAIN ref = Tickets /\ \A t \in Tickets : ref[t] \in 0..Len(objects)

\* A commit that delivers the candidate of ticket t: the validated tree on the claimed
\* base, with its cost unless it is the candidate commit itself.
Delivers(t, commit, cost) ==
    /\ commit \in 1..Len(objects)
    /\ Parent(commit) = ticket[t].base /\ Tree(commit) = ticket[t].tree
    /\ commit # ticket[t].commit => objects[commit].trailer = cost

\* The row of ticket t: which states have a commit, that it is exact, and that a
\* delivered one is on the branch.
RowOK(t) ==
    /\ DOMAIN ticket[t] = {"state", "base", "tree", "commit", "receipt"}
    /\ ticket[t].state \in {"sponsored", "claimed", "submitted"} => ticket[t].commit = 0
    /\ ticket[t].state \in {"reviewed", "accepted", "delivered"} => ticket[t].commit # 0
    /\ ticket[t].commit # 0 => /\ ref[t] = ticket[t].commit
                               /\ Tree(ticket[t].commit) = ticket[t].tree
                               /\ Parent(ticket[t].commit) = ticket[t].base
    /\ ticket[t].state = "delivered" =>
         /\ Delivers(t, ticket[t].receipt.new, ticket[t].receipt.cost)
         /\ ticket[t].receipt.old = ticket[t].base
         /\ ticket[t].receipt.new \in Ancestors(objects, head)

RowsOK == DOMAIN ticket = Tickets /\ \A t \in Tickets : RowOK(t)

Claiming == {"replay", "seal", "claim"}
Working == {"launch", "materialize", "compile", "session", "checking", "edited", "validating", "submit",
            "record", "review"}
Leaving == {"ending", "cleanup"}
Attaching == {"construct", "bind", "attach"}
Delivering == {"merge", "verify", "settle"}

\* The fields of the driver's local state.
DriverShape(d) ==
    /\ "pc" \in DOMAIN d
    /\ d.pc \in Claiming \cup Working \cup Leaving \cup Attaching \cup Delivering
         => "t" \in DOMAIN d /\ d.t \in Tickets
    /\ d.pc \in Working \cup Leaving => "role" \in DOMAIN d /\ d.role \in Roles
    /\ d.pc \in {"submit", "record"} => "tree" \in DOMAIN d
    /\ d.pc = "submit" => d.role = "Engineering"
    /\ d.pc = "review" => d.role = "Quality"
    /\ d.pc \in Attaching => "snap" \in DOMAIN d
    /\ d.pc \in {"bind", "attach"} \cup Delivering => "object" \in DOMAIN d
    /\ d.pc \in Delivering => "cost" \in DOMAIN d

\* What the driver read, at whatever earlier step, still is so.
DriverLinks(d) ==
    /\ d.pc \in Claiming => ticket[d.t].state = "sponsored"
    /\ d.pc \in Working /\ d.role = "Engineering" => ticket[d.t].commit = 0
    /\ d.pc \in Working /\ d.role = "Quality" => ticket[d.t].commit # 0
    /\ d.pc \in Attaching => /\ ticket[d.t].commit = 0 /\ ticket[d.t].state = "validated"
                             /\ d.snap = ticket[d.t].base
    /\ d.pc \in {"bind", "attach"} =>
         /\ d.object \in 1..Len(objects)
         /\ Parent(d.object) = d.snap /\ Tree(d.object) = ticket[d.t].tree
    /\ d.pc = "attach" => ref[d.t] = d.object
    /\ d.pc \in Delivering => ticket[d.t].commit # 0 /\ Delivers(d.t, d.object, d.cost)
    /\ d.pc = "settle" => d.object \in Ancestors(objects, head)

DriverOK == DriverShape(driver) /\ DriverLinks(driver)

GitInv == RepositoryOK /\ RowsOK /\ DriverOK

\* The repository moves forward: objects are only added, and what was reachable from
\* the default branch still is.
Forward ==
    /\ RepositoryOK'
    /\ Len(objects) \in Nat /\ Len(objects') \in Nat /\ Len(objects) <= Len(objects')
    /\ \A i \in 1..Len(objects) : objects'[i] = objects[i]
    /\ \A a \in Ancestors(objects, head) : a \in Ancestors(objects', head')

\* A commit that delivers keeps doing so while its row is as it was.
LEMMA DeliversKept ==
    ASSUME Forward, NEW t, NEW commit, NEW cost, Delivers(t, commit, cost),
           ticket'[t].base = ticket[t].base, ticket'[t].tree = ticket[t].tree,
           ticket'[t].commit = ticket[t].commit
    PROVE  Delivers(t, commit, cost)'
BY DEF Forward, Delivers, Parent, Tree

\* A row that is not written, and whose ref is not, stays as good as it was.
LEMMA RowKept ==
    ASSUME GitInv, Forward, NEW t \in Tickets, ticket'[t] = ticket[t],
           ref'[t] = ref[t] \/ ticket[t].commit = 0
    PROVE  RowOK(t)'
<1>1. RowOK(t) /\ ref[t] \in 0..Len(objects)
    BY DEF GitInv, RowsOK, RepositoryOK
<1>2. CASE ticket[t].commit = 0
    BY <1>1, <1>2 DEF RowOK
<1>3. CASE ticket[t].commit # 0
  <2>1. /\ ref'[t] = ticket[t].commit /\ ticket[t].commit \in 1..Len(objects)
        /\ objects'[ticket[t].commit] = objects[ticket[t].commit]
    BY <1>1, <1>3 DEF RowOK, Forward
  <2>2. /\ Tree(ticket[t].commit)' = ticket[t].tree
        /\ Parent(ticket[t].commit)' = ticket[t].base
    BY <1>1, <1>3, <2>1 DEF RowOK, Tree, Parent
  <2>3. ticket[t].state = "delivered" =>
          Delivers(t, ticket[t].receipt.new, ticket[t].receipt.cost)'
    BY <1>1, DeliversKept DEF RowOK
  <2> QED BY <1>1, <1>3, <2>1, <2>2, <2>3 DEF RowOK, Forward, Delivers, Tree, Parent
<1> QED BY <1>2, <1>3

\* The local state of a driver that does not move stays good, if its row is not written.
LEMMA DriverKept ==
    ASSUME GitInv, Forward, UNCHANGED <<driver, ref>>,
           \A t \in Tickets : /\ ticket'[t].base = ticket[t].base
                              /\ ticket'[t].tree = ticket[t].tree
                              /\ ticket'[t].commit = ticket[t].commit
                              /\ ticket[t].state \in {"sponsored", "validated"}
                                   => ticket'[t].state = ticket[t].state
    PROVE  DriverOK'
<1> DEFINE d == driver
<1>1. DriverShape(d) /\ DriverLinks(d)
    BY DEF GitInv, DriverOK
<1>2. CASE d.pc \in Claiming \cup Working \cup Leaving \cup Attaching \cup Delivering
  <2>1. d.t \in Tickets
    BY <1>1, <1>2 DEF DriverShape
  <2>2. d.pc \in Delivering => Delivers(d.t, d.object, d.cost)'
    BY <1>1, <2>1, DeliversKept DEF DriverLinks
  <2>3. d.pc \in {"bind", "attach"} =>
          d.object \in 1..Len(objects) /\ objects'[d.object] = objects[d.object]
    BY <1>1 DEF DriverLinks, Forward
  <2>4. DriverLinks(driver)'
    BY <1>1, <2>1, <2>2, <2>3
    DEF DriverLinks, Forward, Parent, Tree, Claiming, Working, Attaching, Delivering
  <2> QED BY <1>1, <2>4 DEF DriverOK, DriverShape
<1>3. CASE d.pc \notin Claiming \cup Working \cup Leaving \cup Attaching \cup Delivering
    BY <1>1, <1>3 DEF DriverOK, DriverShape, DriverLinks, Claiming, Working, Attaching, Delivering
<1> QED BY <1>2, <1>3

\* Nothing in the repository moves.
LEMMA StaysForward ==
    ASSUME GitInv, UNCHANGED <<objects, head, ref>>
    PROVE  Forward
BY DEF GitInv, RepositoryOK, Forward, IsHistory

\* The branch moves to a commit it is reachable from.
LEMMA MovesForward ==
    ASSUME GitInv, UNCHANGED <<objects, ref>>, head' \in 1..Len(objects),
           head \in Ancestors(objects, head')
    PROVE  Forward
<1>1. IsHistory(objects) /\ Len(objects) \in Nat
    BY DEF GitInv, RepositoryOK, IsHistory
<1>2. \A a \in Ancestors(objects, head) : a \in Ancestors(objects, head')
    BY ReachTransitive
<1> QED BY <1>1, <1>2 DEF GitInv, RepositoryOK, Forward

\* A commit object is added, and the branch stays where it is.
LEMMA AppendsForward ==
    ASSUME GitInv, NEW row, row.parent \in 1..Len(objects), objects' = Append(objects, row),
           UNCHANGED <<head, ref>>
    PROVE  Forward /\ Len(objects') = Len(objects) + 1 /\ objects'[Len(objects) + 1] = row
<1>1. IsHistory(objects) /\ head \in 1..Len(objects)
    BY DEF GitInv, RepositoryOK
<1>2. /\ IsHistory(objects') /\ Len(objects) \in Nat /\ Len(objects') = Len(objects) + 1
      /\ \A i \in 1..Len(objects) : objects'[i] = objects[i]
      /\ objects'[Len(objects) + 1] = row
      /\ \A c \in 1..Len(objects) : \A a \in Ancestors(objects, c) : a \in Ancestors(objects', c)
    BY <1>1, CommitAppended
<1> QED BY <1>1, <1>2 DEF GitInv, RepositoryOK, Forward

\* The rows of a step that writes none, whatever the repository does.
LEMMA RowsKept ==
    ASSUME GitInv, Forward, UNCHANGED ticket,
           \A t \in Tickets : ref'[t] = ref[t] \/ ticket[t].commit = 0
    PROVE  RowsOK'
BY RowKept DEF GitInv, RowsOK

\* A step of the driver that reads the repository and the rows and writes neither.
LEMMA DriverReads ==
    ASSUME GitInv, UNCHANGED <<objects, head, ref, ticket>>,
           DriverShape(driver'), DriverLinks(driver')
    PROVE  GitInv'
<1>1. Forward
    BY StaysForward
<1>2. RowsOK'
    BY <1>1, RowsKept
<1>3. DriverOK'
    BY DEF DriverOK, DriverShape, DriverLinks, Delivers, Parent, Tree
<1> QED BY <1>1, <1>2, <1>3 DEF GitInv, Forward

\* A driver that is idle relies on nothing.
LEMMA DriverIdles ==
    ASSUME driver' = Idle
    PROVE  DriverShape(driver') /\ DriverLinks(driver') /\ DriverOK'
<1>1. driver'.pc = "idle" /\ "pc" \in DOMAIN driver'
    BY DEF Idle
<1> QED
    BY <1>1
    DEF DriverOK, DriverShape, DriverLinks, Claiming, Working, Leaving, Attaching, Delivering

\* A driver that is leaving an assignment relies on nothing either.
LEMMA DriverLeaves ==
    ASSUME "pc" \in DOMAIN driver', "t" \in DOMAIN driver', "role" \in DOMAIN driver',
           driver'.pc \in Leaving, driver'.t \in Tickets, driver'.role \in Roles
    PROVE  DriverShape(driver') /\ DriverLinks(driver') /\ DriverOK'
BY DEF DriverOK, DriverShape, DriverLinks, Claiming, Working, Leaving, Attaching, Delivering

\* An attempt that is failed, or a failure that is refused or retried: the row keeps
\* its commit, and a driver that relies on nothing afterwards may go on.
LEMMA AttemptFails ==
    ASSUME GitInv, Forward, NEW t \in Tickets, FailTicketAttempt(t) \/ UNCHANGED ticket,
           \A x \in Tickets : ref'[x] = ref[x] \/ ticket[x].commit = 0, DriverOK'
    PROVE  GitInv'
<1>1. CASE UNCHANGED ticket
    BY <1>1, RowsKept DEF GitInv, Forward
<1>2. CASE ticket' = [ticket EXCEPT ![t].state = "failed"]
  <2>1. DOMAIN ticket = Tickets /\ RowOK(t)
    BY DEF GitInv, RowsOK
  <2>2. /\ DOMAIN ticket' = Tickets
        /\ \A x \in Tickets : x # t => ticket'[x] = ticket[x]
        /\ ticket'[t].state = "failed" /\ ticket'[t].commit = ticket[t].commit
        /\ ticket'[t].tree = ticket[t].tree /\ ticket'[t].base = ticket[t].base
        /\ DOMAIN ticket'[t] = DOMAIN ticket[t]
    BY <1>2, <2>1 DEF RowOK
  <2>3. ASSUME ticket[t].commit # 0
        PROVE  /\ ref'[t] = ticket[t].commit
               /\ objects'[ticket[t].commit] = objects[ticket[t].commit]
    BY <2>1, <2>3 DEF GitInv, RepositoryOK, RowOK, Forward
  <2>4. RowOK(t)'
    BY <2>1, <2>2, <2>3 DEF RowOK, Tree, Parent
  <2>5. RowsOK'
    BY <2>2, <2>4, RowKept DEF RowsOK
  <2> QED BY <2>5 DEF GitInv, Forward
<1> QED BY <1>1, <1>2 DEF FailTicketAttempt

\* A launch that is refused leaves the repository and the refs alone.
LEMMA LaunchFails ==
    ASSUME GitInv, NEW t \in Tickets, NEW role, TerminalizeFailedLaunch(t, role),
           UNCHANGED <<objects, head, ref>>, driver' = Idle
    PROVE  GitInv'
BY AttemptFails, StaysForward, DriverIdles DEF TerminalizeFailedLaunch

\* The claim, up to its write.
LEMMA ClaimReads ==
    ASSUME GitInv,
           (\E t \in Tickets : RequalifySponsoredTicket(t)) \/ ReplayReturns \/ SealManifest
    PROVE  GitInv'
<1>d. DriverShape(driver) /\ DriverLinks(driver)
    BY DEF GitInv, DriverOK
<1>1. ASSUME NEW t \in Tickets, RequalifySponsoredTicket(t) PROVE GitInv'
  <2>1. /\ UNCHANGED <<objects, head, ref, ticket>> /\ ticket[t].state = "sponsored"
        /\ driver'.pc \in {"claim", "replay"} /\ driver'.t = t
        /\ "pc" \in DOMAIN driver' /\ "t" \in DOMAIN driver'
    BY <1>1 DEF RequalifySponsoredTicket, gitVars, rowVars
  <2> QED
    BY <2>1, DriverReads
    DEF DriverShape, DriverLinks, Claiming, Working, Leaving, Attaching, Delivering
<1>2. CASE ReplayReturns
  <2>1. /\ UNCHANGED <<objects, head, ref, ticket>> /\ driver.pc = "replay"
        /\ driver'.pc = "seal" /\ driver'.t = driver.t
        /\ "pc" \in DOMAIN driver' /\ "t" \in DOMAIN driver'
    BY <1>2 DEF ReplayReturns, gitVars, rowVars
  <2> QED
    BY <2>1, <1>d, DriverReads
    DEF DriverShape, DriverLinks, Claiming, Working, Leaving, Attaching, Delivering
<1>3. CASE SealManifest
  <2>1. UNCHANGED <<objects, head, ref, ticket>> /\ driver.pc = "seal"
    BY <1>3 DEF SealManifest, gitVars
  <2>2. "pc" \in DOMAIN driver /\ "t" \in DOMAIN driver /\ driver.t \in Tickets
    BY <2>1, <1>d DEF DriverShape, Claiming
  <2>3. \/ driver' = driver
        \/ driver' = [driver EXCEPT !.pc = "claim", !.seen = <<driver.seen[1], driver.seen[1]>>]
    BY <1>3 DEF SealManifest
  <2>4. /\ driver'.pc \in {"seal", "claim"} /\ driver'.t = driver.t
        /\ "pc" \in DOMAIN driver' /\ "t" \in DOMAIN driver'
    BY <2>1, <2>2, <2>3
  <2> QED
    BY <2>1, <2>4, <1>d, DriverReads
    DEF DriverShape, DriverLinks, Claiming, Working, Leaving, Attaching, Delivering
<1> QED BY <1>1, <1>2, <1>3

\* An assignment, up to its writes, and a launch that is refused.
LEMMA AssignmentReads ==
    ASSUME GitInv,
           \/ \E t \in Tickets, role \in Roles : ResolvePreAssignment(t, role)
           \/ MaterializeWorkspace \/ CompileAssignment \/ CheckpointRegression
           \/ CheckpointReturns \/ CaptureCandidate \/ RunQualityFullSuite \/ ValidationReturns
           \/ SessionEnds \/ CleanupResources
    PROVE  GitInv'
<1> USE DEF Claiming, Working, Leaving, Attaching, Delivering
<1>d. DriverShape(driver) /\ DriverLinks(driver)
    BY DEF GitInv, DriverOK
<1>1. ASSUME NEW t \in Tickets, NEW role \in Roles, ResolvePreAssignment(t, role) PROVE GitInv'
  <2>1. UNCHANGED <<objects, head, ref>> /\ LaunchRequested(t, role)
    BY <1>1 DEF ResolvePreAssignment, gitVars
  <2>2. /\ role = "Engineering" => ticket[t].commit = 0
        /\ role = "Quality" => ticket[t].commit # 0
    BY <2>1, <1>d DEF LaunchRequested, DriverLinks
  <2>3. CASE /\ UNCHANGED ticket
             /\ driver' = [pc |-> "materialize", t |-> t, role |-> role, snap |-> head]
    BY <2>1, <2>2, <2>3, DriverReads DEF DriverShape, DriverLinks
  <2>4. CASE TerminalizeFailedLaunch(t, role) /\ driver' = Idle
    BY <2>1, <2>4, LaunchFails
  <2> QED BY <1>1, <2>3, <2>4 DEF ResolvePreAssignment
<1>w. ASSUME UNCHANGED <<objects, head, ref, ticket>>, driver.pc \in Working,
             "pc" \in DOMAIN driver', "t" \in DOMAIN driver', "role" \in DOMAIN driver',
             driver'.pc \in Working \cup Leaving, driver'.t = driver.t,
             driver'.role = driver.role,
             driver'.pc \in {"submit", "record"} => "tree" \in DOMAIN driver',
             driver'.pc = "submit" => driver'.role = "Engineering",
             driver'.pc # "review"
      PROVE  GitInv'
    BY <1>d, <1>w, DriverReads DEF DriverShape, DriverLinks
<1>2. CASE MaterializeWorkspace
  <2>1. UNCHANGED <<objects, head, ref>> /\ driver.pc = "materialize" /\ driver.t \in Tickets
    BY <1>2, <1>d DEF MaterializeWorkspace, gitVars, DriverShape
  <2>2. CASE TerminalizeFailedLaunch(driver.t, driver.role) /\ driver' = Idle
    BY <2>1, <2>2, LaunchFails
  <2>3. CASE UNCHANGED ticket /\ driver' = [driver EXCEPT !.pc = "compile"]
    BY <2>1, <2>3, <1>d, <1>w DEF DriverShape
  <2> QED BY <1>2, <2>2, <2>3 DEF MaterializeWorkspace
<1>3. CASE CompileAssignment
  <2>1. UNCHANGED <<objects, head, ref, ticket>> /\ driver.pc = "compile"
    BY <1>3 DEF CompileAssignment, gitVars
  <2>2. \/ driver' = [pc |-> "session", t |-> driver.t, role |-> driver.role]
        \/ driver' = [driver EXCEPT !.pc = "cleanup"]
    BY <1>3 DEF CompileAssignment
  <2> QED BY <2>1, <2>2, <1>d, <1>w DEF DriverShape
<1>4. CASE CheckpointRegression \/ CheckpointReturns
  <2>1. /\ UNCHANGED <<objects, head, ref, ticket>> /\ driver.pc \in {"session", "checking"}
        /\ \E pc \in {"session", "checking", "edited"} : driver' = [driver EXCEPT !.pc = pc]
    BY <1>4 DEF CheckpointRegression, CheckpointReturns, ValidateInFreshWorktree, gitVars, rowVars
  <2> QED BY <2>1, <1>d, <1>w DEF DriverShape
<1>5. CASE CaptureCandidate \/ RunQualityFullSuite
  <2>1. /\ UNCHANGED <<objects, head, ref, ticket>> /\ driver.pc \in {"session", "edited"}
        /\ "pc" \in DOMAIN driver' /\ "t" \in DOMAIN driver' /\ "role" \in DOMAIN driver'
        /\ driver'.pc = "validating" /\ driver'.t = driver.t /\ driver'.role = driver.role
    BY <1>5 DEF CaptureCandidate, RunQualityFullSuite, ValidateInFreshWorktree, gitVars, rowVars
  <2> QED BY <2>1, <1>w
<1>6. CASE ValidationReturns
  <2>1. /\ UNCHANGED <<objects, head, ref, ticket>> /\ driver.pc = "validating"
        /\ {"pc", "t", "role", "tree"} \subseteq DOMAIN driver'
        /\ driver'.pc = IF driver.role = "Engineering" THEN "submit" ELSE "record"
        /\ driver'.t = driver.t /\ driver'.role = driver.role
    BY <1>6 DEF ValidationReturns, gitVars, rowVars
  <2> QED BY <2>1, <1>w
<1>7. CASE SessionEnds
  <2>1. /\ UNCHANGED <<objects, head, ref, ticket>> /\ driver.pc = "ending"
        /\ driver' = [driver EXCEPT !.pc = "cleanup"]
    BY <1>7 DEF SessionEnds, gitVars, rowVars
  <2> QED BY <2>1, <1>d, DriverLeaves, DriverReads DEF DriverShape
<1>8. CASE CleanupResources
  <2>1. UNCHANGED <<objects, head, ref, ticket>> /\ driver' = Idle
    BY <1>8 DEF CleanupResources, gitVars, rowVars
  <2> QED BY <2>1, DriverIdles, DriverReads
<1> QED BY <1>1, <1>2, <1>3, <1>4, <1>5, <1>6, <1>7, <1>8

\* The candidate commit is recovered from its ref, or built on the persisted base.
LEMMA AttachReads ==
    ASSUME GitInv, NEW t \in Tickets, ResumeCommitAttach(t)
    PROVE  GitInv'
<1> USE DEF Claiming, Working, Leaving, Attaching, Delivering
<1>1. /\ UNCHANGED <<objects, head, ref, ticket>> /\ head = ticket[t].base
      /\ ticket[t].state = "validated" /\ ticket[t].commit = 0
      /\ ref[t] # 0 => AssertCandidate(t, ref[t], head)
    BY DEF ResumeCommitAttach, CommitAttachRequired, Recoverable, SnapshotCurrent, gitVars,
           rowVars
<1>2. CASE /\ ref[t] # 0
           /\ driver' = [pc |-> "attach", t |-> t, snap |-> head, object |-> ref[t]]
  <2>1. ref[t] \in 1..Len(objects)
    BY <1>2 DEF GitInv, RepositoryOK
  <2> QED BY <1>1, <1>2, <2>1, DriverReads DEF AssertCandidate, DriverShape, DriverLinks
<1>3. CASE driver' = [pc |-> "construct", t |-> t, snap |-> head]
    BY <1>1, <1>3, DriverReads DEF DriverShape, DriverLinks
<1> QED BY <1>2, <1>3 DEF ResumeCommitAttach

\* The attach is refused, or one of its git commands is stopped after the ref was
\* bound or before: the attempt fails without a commit.
LEMMA AttachFails ==
    ASSUME GitInv, (\E t \in Tickets : FailCommitAttach(t)) \/ AttachTimesOut
    PROVE  GitInv'
<1> USE DEF Claiming, Working, Leaving, Attaching, Delivering
<1>d. DriverShape(driver) /\ DriverLinks(driver)
    BY DEF GitInv, DriverOK
<1>1. ASSUME NEW t \in Tickets, FailCommitAttach(t) PROVE GitInv'
  <2>1. UNCHANGED <<objects, head, ref>> /\ FailTicketAttempt(t) /\ driver' = Idle
    BY <1>1 DEF FailCommitAttach, gitVars
  <2> QED BY <2>1, AttemptFails, StaysForward, DriverIdles
<1>2. CASE AttachTimesOut
  <2>1. /\ UNCHANGED <<objects, head>> /\ FailTicketAttempt(driver.t) /\ driver' = Idle
        /\ driver.pc = "bind"
        /\ ref' \in {ref, [ref EXCEPT ![driver.t] = IF @ = 0 THEN driver.object ELSE @]}
    BY <1>2 DEF AttachTimesOut
  <2>2. /\ driver.t \in Tickets /\ driver.object \in 1..Len(objects)
        /\ ticket[driver.t].commit = 0
    BY <2>1, <1>d DEF DriverShape, DriverLinks
  <2>3. /\ DOMAIN ref' = Tickets /\ \A t \in Tickets : t # driver.t => ref'[t] = ref[t]
        /\ ref'[driver.t] \in {ref[driver.t], driver.object}
    BY <2>1, <2>2 DEF GitInv, RepositoryOK
  <2>4. Forward
    BY <2>1, <2>2, <2>3 DEF GitInv, RepositoryOK, Forward, IsHistory
  <2>5. \A x \in Tickets : ref'[x] = ref[x] \/ ticket[x].commit = 0
    BY <2>2, <2>3
  <2> QED BY <2>1, <2>2, <2>4, <2>5, AttemptFails, DriverIdles
<1> QED BY <1>1, <1>2

\* construct_candidate_commit adds the object, or finds it there.
LEMMA ConstructKeeps ==
    ASSUME GitInv, ConstructCandidateCommit
    PROVE  GitInv'
<1> USE DEF Claiming, Working, Leaving, Attaching, Delivering
<1> DEFINE content == [parent |-> driver.snap, tree |-> ticket[driver.t].tree,
                       trailer |-> NoTrailer]
           known == {i \in 1..Len(objects) : objects[i] = content}
<1>1. /\ driver.pc = "construct" /\ head = driver.snap /\ UNCHANGED <<head, ref, ticket>>
      /\ objects' = IF known = {} THEN Append(objects, content) ELSE objects
      /\ driver' = [pc |-> "bind", t |-> driver.t, snap |-> driver.snap,
                    object |-> IF known = {} THEN Len(objects) + 1 ELSE CHOOSE i \in known : TRUE]
    BY DEF ConstructCandidateCommit, SnapshotCurrent, rowVars
<1>2. DriverShape(driver) /\ DriverLinks(driver) /\ head \in 1..Len(objects)
    BY DEF GitInv, DriverOK, RepositoryOK
<1>3. content.parent = driver.snap /\ content.tree = ticket[driver.t].tree
    OBVIOUS
<1>4. /\ Forward
      /\ driver'.object \in 1..Len(objects') /\ objects'[driver'.object] = content
  <2>1. CASE known = {}
    <3>1. objects' = Append(objects, content) /\ content.parent \in 1..Len(objects)
      BY <1>1, <1>2, <1>3, <2>1
    <3>2. driver'.object = Len(objects) + 1
      BY <1>1, <2>1
    <3>3. UNCHANGED <<head, ref>>
      BY <1>1
    <3> HIDE DEF content, known
    <3>4. Forward /\ Len(objects') = Len(objects) + 1 /\ objects'[Len(objects) + 1] = content
      BY <3>1, <3>3, AppendsForward
    <3> QED BY <3>2, <3>4 DEF Forward
  <2>2. CASE known # {}
    <3>1. UNCHANGED <<objects, head, ref>> /\ driver'.object = CHOOSE i \in known : TRUE
      BY <1>1, <2>2
    <3>2. driver'.object \in known
      BY <2>2, <3>1
    <3> QED BY <3>1, <3>2, StaysForward
  <2> QED BY <2>1, <2>2
<1>5. RowsOK'
    BY <1>1, <1>4, RowsKept
<1>6. /\ driver'.pc = "bind" /\ driver'.t = driver.t /\ driver'.snap = driver.snap
      /\ {"pc", "t", "snap", "object"} \subseteq DOMAIN driver' /\ driver.t \in Tickets
    BY <1>1, <1>2 DEF DriverShape
<1>7. /\ ticket[driver.t].commit = 0 /\ ticket[driver.t].state = "validated"
      /\ driver.snap = ticket[driver.t].base
    BY <1>1, <1>2 DEF DriverLinks
<1> HIDE DEF content, known
<1>8. DriverOK'
    BY <1>1, <1>3, <1>4, <1>6, <1>7 DEF DriverOK, DriverShape, DriverLinks, Parent, Tree
<1> QED BY <1>4, <1>5, <1>8 DEF GitInv, Forward

\* bind_candidate_ref: an absent ref is created, a present one is left alone.
LEMMA BindKeeps ==
    ASSUME GitInv, BindCandidateRef
    PROVE  GitInv'
<1> USE DEF Claiming, Working, Leaving, Attaching, Delivering
<1>d. DriverShape(driver) /\ DriverLinks(driver) /\ driver.pc = "bind" /\ driver.t \in Tickets
    BY DEF GitInv, DriverOK, DriverShape, BindCandidateRef
<1>1. /\ UNCHANGED <<objects, head>>
      /\ ref' = [ref EXCEPT ![driver.t] = IF ref[driver.t] = 0 THEN driver.object ELSE ref[driver.t]]
    BY DEF BindCandidateRef
<1>2. /\ DOMAIN ref' = Tickets
      /\ \A t \in Tickets : t # driver.t => ref'[t] = ref[t]
      /\ ref'[driver.t] = IF ref[driver.t] = 0 THEN driver.object ELSE ref[driver.t]
    BY <1>1, <1>d DEF GitInv, RepositoryOK
<1>3. Forward
  <2>1. driver.object \in 0..Len(objects)
    BY <1>d DEF DriverLinks
  <2> QED BY <1>1, <1>2, <2>1 DEF GitInv, RepositoryOK, Forward, IsHistory
<1>4. ticket[driver.t].commit = 0
    BY <1>d DEF DriverLinks
<1>5. \A t \in Tickets : ref'[t] = ref[t] \/ ticket[t].commit = 0
    BY <1>2, <1>4
<1>6. CASE ref[driver.t] \in {0, driver.object}
  <2>1. /\ driver' = [driver EXCEPT !.pc = "attach"] /\ ref'[driver.t] = driver.object
        /\ UNCHANGED ticket
    BY <1>2, <1>6 DEF BindCandidateRef
  <2>2. /\ driver'.pc = "attach" /\ driver'.t = driver.t /\ driver'.snap = driver.snap
        /\ driver'.object = driver.object /\ DOMAIN driver' = DOMAIN driver
    BY <2>1, <1>d DEF DriverShape
  <2>3. DriverOK'
    BY <2>1, <2>2, <1>1, <1>d DEF DriverOK, DriverShape, DriverLinks, Parent, Tree
  <2>4. RowsOK'
    BY <2>1, <1>3, <1>5, RowsKept
  <2> QED BY <1>3, <2>3, <2>4 DEF GitInv, Forward
<1>7. CASE ref[driver.t] \notin {0, driver.object}
  <2>1. driver' = Idle /\ FailTicketAttempt(driver.t)
    BY <1>7 DEF BindCandidateRef
  <2> QED BY <1>3, <1>5, <1>d, <2>1, AttemptFails, DriverIdles
<1> QED BY <1>6, <1>7

\* A driver that writes the row of its own ticket and relies on nothing after it.
LEMMA RowWritten ==
    ASSUME GitInv, NEW t \in Tickets, UNCHANGED <<objects, head, ref>>,
           DOMAIN ticket' = Tickets, \A x \in Tickets : x # t => ticket'[x] = ticket[x],
           RowOK(t)', DriverOK'
    PROVE  GitInv'
<1>1. Forward
    BY StaysForward
<1>2. RowsOK'
    BY <1>1, RowKept DEF RowsOK
<1> QED BY <1>1, <1>2 DEF GitInv, Forward

\* The writes of the driver and of the Architect, each of one row.
LEMMA RowWrites ==
    ASSUME GitInv,
           \/ ClaimTicket \/ SubmitCandidate \/ RecordValidation \/ SubmitQualityReview
           \/ SessionFails \/ AttachCandidateCommit
           \/ \E t \in Tickets : ResolveCandidateDecision(t)
    PROVE  GitInv'
<1> USE DEF Claiming, Working, Leaving, Attaching, Delivering
<1>d. DriverShape(driver) /\ DriverLinks(driver)
    BY DEF GitInv, DriverOK
<1>r. /\ DOMAIN ticket = Tickets
      /\ \A t \in Tickets : RowOK(t) /\ DOMAIN ticket[t] = {"state", "base", "tree", "commit", "receipt"}
    BY DEF GitInv, RowsOK, RowOK
<1>1. CASE ClaimTicket
  <2>1. /\ UNCHANGED <<objects, head, ref>> /\ driver.pc = "claim"
        /\ \/ driver' = Idle
           \/ driver' = [pc |-> "launch", t |-> driver.t, role |-> "Engineering"]
    BY <1>1 DEF ClaimTicket, gitVars
  <2>2. driver.t \in Tickets /\ ticket[driver.t].state = "sponsored"
    BY <2>1, <1>d DEF DriverShape, DriverLinks
  <2>c. ASSUME ticket'[driver.t].commit = 0 PROVE DriverOK'
    <3>1. CASE driver' = Idle
      BY <3>1, DriverIdles
    <3>2. CASE driver' = [pc |-> "launch", t |-> driver.t, role |-> "Engineering"]
      <4>1. /\ driver'.pc = "launch" /\ driver'.t = driver.t /\ driver'.role = "Engineering"
            /\ {"pc", "t", "role"} \subseteq DOMAIN driver'
        BY <3>2
      <4> QED BY <4>1, <2>2, <2>c DEF DriverOK, DriverShape, DriverLinks, Roles
    <3> QED BY <2>1, <3>1, <3>2
  <2>3. CASE UNCHANGED ticket
    <3>1. PICK t \in Tickets : t = driver.t
      BY <2>2
    <3>2. ticket[t].commit = 0
      BY <2>2, <3>1, <1>r DEF RowOK
    <3>3. DriverOK'
      BY <2>3, <2>c, <3>1, <3>2
    <3> QED BY <2>1, <2>3, <3>3, AttemptFails, StaysForward
  <2>4. CASE ticket' = [ticket EXCEPT ![driver.t] =
                          [@ EXCEPT !.state = Classify(driver.seen), !.base = driver.snap]]
    <3>1. /\ DOMAIN ticket' = Tickets
          /\ \A x \in Tickets : x # driver.t => ticket'[x] = ticket[x]
          /\ ticket'[driver.t].state = Classify(driver.seen)
          /\ ticket'[driver.t].commit = ticket[driver.t].commit
          /\ DOMAIN ticket'[driver.t] = DOMAIN ticket[driver.t]
      BY <2>2, <2>4, <1>r
    <3>2. ticket'[driver.t].commit = 0
      BY <2>2, <3>1, <1>r DEF RowOK
    <3>3. ticket'[driver.t].state \in {"claimed", "resolved", "blocked"}
      BY <3>1 DEF Classify
    <3>4. ASSUME NEW t \in Tickets, t = driver.t PROVE RowOK(t)'
      BY <3>1, <3>2, <3>3, <3>4, <1>r DEF RowOK
    <3>5. PICK t \in Tickets : t = driver.t
      BY <2>2
    <3>6. DriverOK'
      BY <2>c, <3>2
    <3> QED BY <2>1, <3>1, <3>4, <3>5, <3>6, RowWritten
  <2> QED BY <1>1, <2>3, <2>4 DEF ClaimTicket
<1>2. CASE SubmitCandidate
  <2>1. /\ UNCHANGED <<objects, head, ref>> /\ driver.pc = "submit"
        /\ ticket' = [ticket EXCEPT ![driver.t] =
                        [@ EXCEPT !.state = "submitted", !.tree = driver.tree]]
        /\ driver' = [driver EXCEPT !.pc = "record"]
    BY <1>2 DEF SubmitCandidate, gitVars
  <2>2. PICK t \in Tickets : t = driver.t
    BY <2>1, <1>d DEF DriverShape
  <2>3. driver.role = "Engineering" /\ ticket[t].commit = 0
    BY <2>1, <2>2, <1>d DEF DriverShape, DriverLinks
  <2>4. /\ DOMAIN ticket' = Tickets
        /\ \A x \in Tickets : x # t => ticket'[x] = ticket[x]
        /\ ticket'[t].state = "submitted" /\ ticket'[t].commit = 0
        /\ DOMAIN ticket'[t] = DOMAIN ticket[t]
    BY <2>1, <2>2, <2>3, <1>r
  <2>5. RowOK(t)'
    BY <2>4, <1>r DEF RowOK
  <2>6. /\ driver'.pc = "record" /\ driver'.t = t /\ driver'.role = "Engineering"
        /\ DOMAIN driver' = DOMAIN driver /\ {"pc", "t", "role", "tree"} \subseteq DOMAIN driver
    BY <2>1, <2>2, <2>3, <1>d DEF DriverShape
  <2>7. DriverOK'
    BY <2>4, <2>6 DEF DriverOK, DriverShape, DriverLinks, Roles
  <2> QED BY <2>1, <2>4, <2>5, <2>7, RowWritten
<1>s. ASSUME NEW t \in Tickets, NEW state, UNCHANGED <<objects, head, ref>>,
             ticket' = [ticket EXCEPT ![t].state = state],
             state \in {"validated", "failed"} \/ (state = "reviewed" /\ ticket[t].commit # 0),
             DriverOK'
      PROVE  GitInv'
  <2>1. /\ DOMAIN ticket' = Tickets
        /\ \A x \in Tickets : x # t => ticket'[x] = ticket[x]
        /\ ticket'[t].state = state /\ ticket'[t].commit = ticket[t].commit
        /\ ticket'[t].tree = ticket[t].tree /\ ticket'[t].base = ticket[t].base
        /\ DOMAIN ticket'[t] = DOMAIN ticket[t]
    BY <1>s, <1>r
  <2>2. RowOK(t)'
    BY <1>s, <2>1, <1>r DEF RowOK, Tree, Parent
  <2> QED BY <1>s, <2>1, <2>2, RowWritten
<1>3. CASE RecordValidation
  <2>1. /\ UNCHANGED <<objects, head, ref>> /\ driver.pc = "record"
        /\ ticket' = [ticket EXCEPT ![driver.t].state =
                        IF driver.result = "Passed" THEN "validated" ELSE "failed"]
        /\ driver' = [pc |-> IF driver.result = "Passed" /\ driver.role = "Quality"
                             THEN "review" ELSE "ending",
                      t |-> driver.t, role |-> driver.role]
    BY <1>3 DEF RecordValidation, gitVars
  <2>2. PICK t \in Tickets : t = driver.t
    BY <2>1, <1>d DEF DriverShape
  <2>3. ticket'[t].commit = ticket[t].commit
    BY <2>1, <2>2, <1>r
  <2>4. DriverOK'
    BY <2>1, <2>2, <2>3, <1>d DEF DriverOK, DriverShape, DriverLinks
  <2>5. PICK state \in {"validated", "failed"} : ticket' = [ticket EXCEPT ![t].state = state]
    BY <2>1, <2>2
  <2> QED BY <2>1, <2>4, <2>5, <1>s
<1>4. CASE SubmitQualityReview \/ SessionFails
  <2>1. /\ UNCHANGED <<objects, head, ref>>
        /\ driver.pc \in {"session", "edited", "review"}
        /\ \/ driver' = [driver EXCEPT !.pc = "ending"]
           \/ driver' = [pc |-> "ending", t |-> driver.t, role |-> driver.role]
        /\ \/ FailTicketAttempt(driver.t)
           \/ driver.pc = "review" /\ ticket' = [ticket EXCEPT ![driver.t].state = "reviewed"]
    BY <1>4 DEF SubmitQualityReview, SessionFails, gitVars
  <2>2. PICK t \in Tickets : t = driver.t
    BY <2>1, <1>d DEF DriverShape
  <2>3. driver.pc = "review" => ticket[t].commit # 0
    BY <2>2, <1>d DEF DriverShape, DriverLinks
  <2>4. DriverOK'
    BY <2>1, <1>d, DriverLeaves DEF DriverShape
  <2>5. CASE FailTicketAttempt(driver.t)
    BY <2>1, <2>2, <2>4, <2>5, AttemptFails, StaysForward
  <2>6. CASE driver.pc = "review" /\ ticket' = [ticket EXCEPT ![driver.t].state = "reviewed"]
    BY <2>1, <2>2, <2>3, <2>4, <2>6, <1>s
  <2> QED BY <2>1, <2>5, <2>6
<1>5. CASE AttachCandidateCommit
  <2>1. /\ UNCHANGED <<objects, head, ref>> /\ driver.pc = "attach" /\ driver' = Idle
        /\ ticket' = [ticket EXCEPT ![driver.t].commit = driver.object]
    BY <1>5 DEF AttachCandidateCommit, gitVars
  <2>2. PICK t \in Tickets : t = driver.t
    BY <2>1, <1>d DEF DriverShape
  <2>3. /\ DOMAIN ticket' = Tickets
        /\ \A x \in Tickets : x # t => ticket'[x] = ticket[x]
        /\ ticket'[t].state = ticket[t].state /\ ticket'[t].commit = driver.object
        /\ ticket'[t].tree = ticket[t].tree /\ ticket'[t].base = ticket[t].base
        /\ DOMAIN ticket'[t] = DOMAIN ticket[t]
    BY <2>1, <2>2, <1>r
  <2>4. /\ ticket[t].state = "validated" /\ driver.snap = ticket[t].base
        /\ Parent(driver.object) = driver.snap /\ Tree(driver.object) = ticket[t].tree
        /\ ref[t] = driver.object
    BY <2>1, <2>2, <1>d DEF DriverLinks
  <2>5. RowOK(t)'
    BY <2>1, <2>3, <2>4, <1>r DEF RowOK, Parent, Tree
  <2> QED BY <2>1, <2>3, <2>5, DriverIdles, RowWritten
<1>6. ASSUME NEW t \in Tickets, ResolveCandidateDecision(t) PROVE GitInv'
  <2>1. /\ UNCHANGED <<objects, head, ref, driver>> /\ ticket[t].state = "reviewed"
        /\ ticket' = [ticket EXCEPT ![t].state = "accepted"]
    BY <1>6 DEF ResolveCandidateDecision, gitVars
  <2>2. /\ DOMAIN ticket' = Tickets
        /\ \A x \in Tickets : x # t => ticket'[x] = ticket[x]
        /\ ticket'[t].state = "accepted" /\ ticket'[t].commit = ticket[t].commit
        /\ ticket'[t].tree = ticket[t].tree /\ ticket'[t].base = ticket[t].base
        /\ DOMAIN ticket'[t] = DOMAIN ticket[t]
    BY <2>1, <1>r
  <2>3. RowOK(t)'
    BY <2>1, <2>2, <1>r DEF RowOK, Tree, Parent
  <2>4. DriverOK'
    BY <2>1, <2>2, StaysForward, DriverKept
  <2> QED BY <2>1, <2>2, <2>3, <2>4, RowWritten
<1> QED BY <1>1, <1>2, <1>3, <1>4, <1>5, <1>6

\* An unrecorded fast-forward is recognised, with or without its cost.
LEMMA RecoverReads ==
    ASSUME GitInv, NEW t \in Tickets, RecoverPlainDelivery(t) \/ RecoverCostDelivery(t)
    PROVE  GitInv'
<1> USE DEF Claiming, Working, Leaving, Attaching, Delivering
<1>1. /\ UNCHANGED <<objects, head, ref, ticket>> /\ ticket[t].state = "accepted"
      /\ driver' = [pc |-> "settle", t |-> t, object |-> head, cost |-> spend]
    BY DEF RecoverPlainDelivery, RecoverCostDelivery, Deliverable, gitVars, rowVars
<1>2. head \in 1..Len(objects) /\ RowOK(t)
    BY DEF GitInv, RepositoryOK, RowsOK
<1>3. ticket[t].commit # 0
    BY <1>1, <1>2 DEF RowOK
<1>4. Delivers(t, head, spend)
  <2>1. CASE RecoverPlainDelivery(t)
    BY <2>1, <1>2, <1>3 DEF RecoverPlainDelivery, RowOK, Delivers
  <2>2. CASE RecoverCostDelivery(t)
    BY <2>2, <1>2 DEF RecoverCostDelivery, AssertDeliveryCommit, Delivers, Parent, Tree
  <2> QED BY <2>1, <2>2
<1>5. head \in Ancestors(objects, head)
    BY <1>2, ReachSelf
<1> QED BY <1>1, <1>3, <1>4, <1>5, DriverReads DEF DriverShape, DriverLinks

\* The delivery commit is built on the head, which is the claimed base.
LEMMA ConstructDeliveryKeeps ==
    ASSUME GitInv, NEW t \in Tickets, ConstructDelivery(t)
    PROVE  GitInv'
<1> USE DEF Claiming, Working, Leaving, Attaching, Delivering
<1> DEFINE row == [parent |-> head, tree |-> ticket[t].tree, trailer |-> spend]
<1>1. /\ UNCHANGED <<head, ref, ticket>> /\ ticket[t].state = "accepted"
      /\ AssertCandidate(t, ticket[t].commit, head)
      /\ objects' = Append(objects, row)
      /\ driver' = [pc |-> "merge", t |-> t, object |-> Len(objects) + 1, cost |-> spend]
    BY DEF ConstructDelivery, Deliverable, rowVars
<1>2. head \in 1..Len(objects) /\ RowOK(t)
    BY DEF GitInv, RepositoryOK, RowsOK
<1>3. ticket[t].commit # 0 /\ head = ticket[t].base
    BY <1>1, <1>2 DEF RowOK, AssertCandidate
<1>4. row.parent = head /\ row.tree = ticket[t].tree /\ row.trailer = spend
    OBVIOUS
<1> HIDE DEF row
<1>5. Forward /\ Len(objects') = Len(objects) + 1 /\ objects'[Len(objects) + 1] = row
    BY <1>1, <1>2, <1>4, AppendsForward
<1>6. RowsOK'
    BY <1>1, <1>5, RowsKept
<1>7. /\ driver'.pc = "merge" /\ driver'.t = t /\ driver'.cost = spend
      /\ {"pc", "t", "object", "cost"} \subseteq DOMAIN driver'
      /\ driver'.object = Len(objects) + 1
    BY <1>1
<1>8. driver'.object \in 1..Len(objects')
    BY <1>5, <1>7 DEF Forward
<1>9. DriverOK'
    BY <1>1, <1>3, <1>4, <1>5, <1>7, <1>8
    DEF DriverOK, DriverShape, DriverLinks, Delivers, Parent, Tree
<1> QED BY <1>5, <1>6, <1>9 DEF GitInv, Forward

\* git merge --ff-only leaves the branch, or moves it to a commit it is reachable from.
LEMMA MergeForward ==
    ASSUME GitInv, driver.pc = "merge", UNCHANGED <<objects, ref>>,
           head' \in {head} \cup MergeOutcomes(driver.object)
    PROVE  Forward
<1>1. driver.object \in 1..Len(objects) /\ head \in 1..Len(objects)
    BY DEF GitInv, DriverOK, DriverLinks, Delivers, RepositoryOK, Delivering
<1>2. head' = head \/ (head' = driver.object /\ head \in Ancestors(objects, driver.object))
    BY DEF MergeOutcomes, FastForward
<1>3. CASE head' = head
    BY <1>3, StaysForward
<1>4. CASE head' = driver.object /\ head \in Ancestors(objects, driver.object)
    BY <1>1, <1>4, MovesForward
<1> QED BY <1>2, <1>3, <1>4

\* The merge, its deadline, its postcondition and the terminal transition.
LEMMA DeliveryKeeps ==
    ASSUME GitInv, MergeDelivery \/ MergeTimesOut \/ VerifyDelivery \/ RecordDelivery
    PROVE  GitInv'
<1> USE DEF Claiming, Working, Leaving, Attaching, Delivering
<1>d. DriverShape(driver) /\ DriverLinks(driver)
    BY DEF GitInv, DriverOK
<1>1. CASE MergeDelivery
  <2>1. /\ UNCHANGED <<objects, ref, ticket>> /\ driver.pc = "merge"
        /\ head' \in MergeOutcomes(driver.object)
        /\ driver' = Idle \/ driver' = [driver EXCEPT !.pc = "verify"]
    BY <1>1 DEF MergeDelivery, rowVars
  <2>2. Forward
    BY <2>1, MergeForward
  <2>3. RowsOK'
    BY <2>1, <2>2, RowsKept
  <2>4. CASE driver' = Idle
    BY <2>2, <2>3, <2>4, DriverIdles DEF GitInv, Forward
  <2>5. CASE driver' = [driver EXCEPT !.pc = "verify"]
    <3>1. /\ driver'.pc = "verify" /\ driver'.t = driver.t /\ driver'.object = driver.object
          /\ driver'.cost = driver.cost /\ DOMAIN driver' = DOMAIN driver
      BY <2>1, <2>5, <1>d DEF DriverShape
    <3>2. DriverOK'
      BY <2>1, <3>1, <1>d DEF DriverOK, DriverShape, DriverLinks, Delivers, Parent, Tree
    <3> QED BY <2>2, <2>3, <3>2 DEF GitInv, Forward
  <2> QED BY <2>1, <2>4, <2>5
<1>2. CASE MergeTimesOut
  <2>1. /\ UNCHANGED <<objects, ref, ticket>> /\ driver.pc = "merge" /\ driver' = Idle
        /\ head' \in {head} \cup MergeOutcomes(driver.object)
    BY <1>2 DEF MergeTimesOut, rowVars
  <2>2. Forward
    BY <2>1, MergeForward
  <2> QED BY <2>1, <2>2, RowsKept, DriverIdles DEF GitInv, Forward
<1>3. CASE VerifyDelivery
  <2>1. /\ UNCHANGED <<objects, head, ref, ticket>> /\ driver.pc = "verify"
        /\ \/ driver' = Idle
           \/ head = driver.object /\ driver' = [driver EXCEPT !.pc = "settle"]
    BY <1>3 DEF VerifyDelivery, SnapshotCurrent, gitVars, rowVars
  <2>2. CASE driver' = Idle
    BY <2>1, <2>2, DriverIdles, DriverReads
  <2>3. CASE head = driver.object /\ driver' = [driver EXCEPT !.pc = "settle"]
    <3>1. /\ driver'.pc = "settle" /\ driver'.t = driver.t /\ driver'.object = driver.object
          /\ driver'.cost = driver.cost /\ DOMAIN driver' = DOMAIN driver
      BY <2>1, <2>3, <1>d DEF DriverShape
    <3>2. driver.object \in Ancestors(objects, head)
      BY <2>3, ReachSelf DEF GitInv, RepositoryOK
    <3> QED BY <2>1, <3>1, <3>2, <1>d, DriverReads DEF DriverShape, DriverLinks
  <2> QED BY <2>1, <2>2, <2>3
<1>4. CASE RecordDelivery
  <2>1. /\ UNCHANGED <<objects, head, ref>> /\ driver.pc = "settle" /\ driver' = Idle
    BY <1>4 DEF RecordDelivery, gitVars
  <2>2. CASE UNCHANGED ticket
    BY <2>1, <2>2, DriverIdles, DriverReads
  <2>3. CASE ticket' = [ticket EXCEPT ![driver.t] =
                          [@ EXCEPT !.state = "delivered",
                                    !.receipt = [old |-> ticket[driver.t].base,
                                                 new |-> driver.object, cost |-> driver.cost]]]
    <3>1. PICK t \in Tickets : t = driver.t
      BY <2>1, <1>d DEF DriverShape
    <3>2. DOMAIN ticket = Tickets /\ RowOK(t)
      BY DEF GitInv, RowsOK
    <3>3. /\ DOMAIN ticket' = Tickets
          /\ \A x \in Tickets : x # t => ticket'[x] = ticket[x]
          /\ ticket'[t].state = "delivered" /\ ticket'[t].commit = ticket[t].commit
          /\ ticket'[t].tree = ticket[t].tree /\ ticket'[t].base = ticket[t].base
          /\ ticket'[t].receipt = [old |-> ticket[t].base, new |-> driver.object,
                                   cost |-> driver.cost]
          /\ DOMAIN ticket'[t] = DOMAIN ticket[t]
      BY <2>3, <3>1, <3>2 DEF RowOK
    <3>4. /\ ticket[t].commit # 0 /\ Delivers(t, driver.object, driver.cost)
          /\ driver.object \in Ancestors(objects, head)
      BY <2>1, <3>1, <1>d DEF DriverLinks
    <3>5. PICK new, cost : new = driver.object /\ cost = driver.cost
      OBVIOUS
    <3>6. Delivers(t, new, cost)'
      BY <2>1, <3>3, <3>4, <3>5 DEF Delivers, Parent, Tree
    <3>7. RowOK(t)'
      BY <2>1, <3>2, <3>3, <3>4, <3>5, <3>6 DEF RowOK, Parent, Tree, Delivers
    <3> QED BY <2>1, <3>3, <3>7, DriverIdles, RowWritten
  <2> QED BY <1>4, <2>2, <2>3 DEF RecordDelivery
<1> QED BY <1>1, <1>2, <1>3, <1>4

\* The operator's own work in the repository, and a crash.
LEMMA OthersKeep ==
    ASSUME GitInv, OperatorStep \/ CommandStep \/ Crash \/ UNCHANGED vars
    PROVE  GitInv'
<1>u. ASSUME UNCHANGED <<objects, head, ref, ticket, driver>> PROVE GitInv'
    BY <1>u, DriverReads DEF GitInv, DriverOK
<1>f. ASSUME Forward, UNCHANGED <<ref, ticket, driver>> PROVE GitInv'
    BY <1>f, RowsKept, DriverKept DEF GitInv, Forward
<1>1. ASSUME NEW c \in OperatorChanges, OperatorCommits(c) PROVE GitInv'
  <2> DEFINE row == [parent |-> head, tree |-> Tree(head) \cup {c}, trailer |-> NoTrailer]
  <2>1. /\ UNCHANGED <<ref, ticket, driver>> /\ head' = Len(objects) + 1
        /\ objects' = Append(objects, row)
    BY <1>1 DEF OperatorCommits, rowVars
  <2>2. row.parent = head
    OBVIOUS
  <2> HIDE DEF row
  <2>3. IsHistory(objects) /\ head \in 1..Len(objects)
    BY DEF GitInv, RepositoryOK
  <2>4. /\ IsHistory(objects') /\ Len(objects) \in Nat /\ Len(objects') = Len(objects) + 1
        /\ \A i \in 1..Len(objects) : objects'[i] = objects[i]
        /\ objects'[Len(objects) + 1] = row
        /\ \A x \in 1..Len(objects) : \A a \in Ancestors(objects, x) : a \in Ancestors(objects', x)
    BY <2>1, <2>2, <2>3, CommitAppended
  <2>5. head' \in 2..Len(objects') /\ objects'[head'].parent = head /\ head \in 1..Len(objects')
    BY <2>1, <2>2, <2>3, <2>4
  <2>6. head \in Ancestors(objects', head')
    BY <2>5, ReachParent
  <2>7. \A a \in Ancestors(objects, head) : a \in Ancestors(objects', head')
    BY <2>3, <2>4, <2>6, ReachTransitive
  <2>8. Forward
    BY <2>1, <2>4, <2>5, <2>7 DEF Forward, GitInv, RepositoryOK
  <2> QED BY <2>1, <2>8, <1>f
<1>2. ASSUME NEW t \in Tickets, OperatorMerges(t) PROVE GitInv'
  <2>1. /\ UNCHANGED <<objects, ref, ticket, driver>> /\ head' = ref[t] /\ ref[t] # 0
        /\ head = objects[ref[t]].parent
    BY <1>2 DEF OperatorMerges, Parent, rowVars
  <2>2. /\ IsHistory(objects) /\ head \in 1..Len(objects) /\ ref[t] \in 0..Len(objects)
    BY DEF GitInv, RepositoryOK
  <2>3. ref[t] \in 2..Len(objects)
    BY <2>1, <2>2 DEF IsHistory
  <2>4. head \in Ancestors(objects, head')
    BY <2>1, <2>2, <2>3, ReachParent
  <2>5. Forward
    BY <2>1, <2>3, <2>4, MovesForward
  <2> QED BY <2>1, <2>5, <1>f
<1>3. CASE OperatorEdits \/ CampaignCancelled \/ CommandStep \/ UNCHANGED vars
    BY <1>3, <1>u DEF OperatorEdits, CampaignCancelled, CommandStep, vars, gitVars, rowVars
<1>4. CASE Crash
  <2>1. UNCHANGED <<objects, head, ref, ticket>> /\ driver' = Idle
    BY <1>4 DEF Crash, gitVars
  <2> QED BY <2>1, DriverIdles, DriverReads
<1> QED BY <1>1, <1>2, <1>3, <1>4 DEF OperatorStep

(* -------------------------------- theorems -------------------------------- *)

\* The inductive invariant of the repository, the rows about it and what the driver
\* remembers between its steps.
THEOREM GitInvariant == Spec => []GitInv
<1>1. Init => GitInv
  <2> SUFFICES ASSUME Init PROVE GitInv
    OBVIOUS
  <2> DEFINE root == [parent |-> 0, tree |-> {}, trailer |-> NoTrailer]
  <2>1. objects = <<root>> /\ root.parent = 0
    BY DEF Init
  <2> HIDE DEF root
  <2>2. IsHistory(objects) /\ Len(objects) = 1
    BY <2>1 DEF IsHistory
  <2>3. RepositoryOK
    BY <2>2 DEF Init, RepositoryOK
  <2>4. RowsOK
    BY DEF Init, RowsOK, RowOK, NewTicket
  <2>5. DriverOK
    BY DEF Init, DriverOK, DriverShape, DriverLinks, Idle, Claiming, Working, Leaving, Attaching,
           Delivering
  <2> QED BY <2>3, <2>4, <2>5 DEF GitInv
<1>2. GitInv /\ [Next]_vars => GitInv'
    BY ClaimReads, AssignmentReads, AttachReads, AttachFails, ConstructKeeps, BindKeeps, RowWrites, RecoverReads,
       ConstructDeliveryKeeps, DeliveryKeeps, OthersKeep
    DEF Next, DriverStep, ActorStep
<1> QED BY <1>1, <1>2, PTL DEF Spec

\* What is recorded as delivered is on the default branch, as it was validated and on
\* the base it was claimed at, whatever the operator, a crash or a stopped merge did.
THEOREM DeliveredIsOnBranch == Spec => []DeliveryOnBranch
<1>1. GitInv => DeliveryOnBranch
    BY DEF GitInv, RowsOK, RowOK, Delivers, DeliveryOnBranch
<1> QED BY <1>1, GitInvariant, PTL

\* An attached candidate commit is the one its ref binds, with the validated tree on
\* the claimed base, through whichever crash or retry it came about.
THEOREM CandidateIsExact == Spec => []CandidateRefExact
<1>1. GitInv => CandidateRefExact
    BY DEF GitInv, RowsOK, RowOK, CandidateRefExact
<1> QED BY <1>1, GitInvariant, PTL
=============================================================================
