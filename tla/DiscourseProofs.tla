--------------------------- MODULE DiscourseProofs ---------------------------
(***************************************************************************)
(* The three invariants of Discourse, for every set of commands, callers,  *)
(* readers and views, every history and every page limit:                  *)
(*   CommandsActOnce     a command identity leaves at most one row;        *)
(*   ForumIsOneSequence  the Forum's revisions are 1, 2, 3, ... in the     *)
(*                       order of the commits;                             *)
(*   PagesAreComplete    paging loses and repeats nothing.                 *)
(* They follow from one inductive invariant, DiscourseInv.  Its parts say  *)
(* what a transaction may rely on before it commits: a Forum transaction   *)
(* that looked holds the advisory lock (LockOK), so its identity and its   *)
(* revision are still the next ones when it commits (IdsOK, RevisionsOK);  *)
(* a receipt that waits for its commit has the key of no other (KeysOK);   *)
(* rows, receipts and answers belong together (BackedOK); and a reader has *)
(* been sent what lies before its cursor and nothing beyond (ReadersOK).   *)
(* What a page holds is proved by counting places in the order of a view.  *)
(***************************************************************************)
EXTENDS Discourse, FiniteSetTheorems, TLAPS

-----------------------------------------------------------------------------
(* The invariant                                                           *)

\* Every command there is, and the rows and receipts they may leave.
Known == Commands \cup Range(History)
Row == {RowFor(c, n) : c \in Known, n \in Nat}
Receipt == {ReceiptFor(c, n, k) : c \in Known, n \in Nat, k \in Nat}
Transaction == [at : {"called", "looking", "inserted", "receipted"}, command : Commands,
                id : Nat, revision : Nat]
Reading == [at : {"idle", "reading", "attaching", "done"}, view : Views \cup {"none"},
            cursor : SUBSET Row, seen : Seq(Row), page : Seq(Row), asOf : SUBSET Row]

\* The types of the state, and that every row is in the relation of its command.
TypesOK ==
    /\ rows \in [Tables -> SUBSET Row]
    /\ \A t \in Tables : \A x \in rows[t] : TableOf(x.by.op) = t
    /\ nextId \in [Tables -> Nat]
    /\ audit \in Seq(Receipt)
    /\ tx \in [Callers -> {NoCall} \cup Transaction]
    /\ answers \in [Commands -> SUBSET [subject : Nat, revision : Nat]]
    /\ reader \in [Readers -> Reading]

\* Stages of a transaction.
Holding(w) == tx[w].at \in {"inserted", "receipted"}
Inside(w) == tx[w].at \in {"looking", "inserted", "receipted"}
Target(w) == TableOf(tx[w].command.op)
Writing(w) == Inside(w) /\ IsForum(tx[w].command)

\* A Forum transaction that has looked at the Forum holds its lock.
LockOK == \A w \in Callers : Writing(w) => forumLock = w

\* Identities are taken once; a Forum row that waits for its commit comes after
\* every row of its relation.
IdsOK ==
    /\ \A t \in Tables : \A x \in rows[t] : x.id < nextId[t]
    /\ \A t \in Tables : \A x, y \in rows[t] : x.id = y.id => x = y
    /\ \A w \in Callers : Holding(w) =>
         /\ tx[w].id < nextId[Target(w)]
         /\ \A x \in rows[Target(w)] : x.id # tx[w].id
         /\ IsForum(tx[w].command) => \A x \in rows[Target(w)] : x.id < tx[w].id
         /\ \A v \in Callers \ {w} :
              Holding(v) /\ Target(v) = Target(w) => tx[v].id # tx[w].id

\* A key has one receipt, committed or waiting for its commit.
KeysOK ==
    /\ \A i, j \in DOMAIN audit : audit[i].key = audit[j].key => i = j
    /\ \A w \in Callers : tx[w].at = "receipted" =>
         /\ ReceiptsOf(tx[w].command) = {}
         /\ \A v \in Callers \ {w} :
              tx[v].at = "receipted" => tx[v].command.key # tx[w].command.key

\* Each row has its receipt and each receipt its row, and answers come from receipts.
BackedOK ==
    /\ \A t \in Tables : \A x \in rows[t] :
         \E i \in DOMAIN audit : audit[i].by = x.by /\ audit[i].subject = x.id
    /\ \A i \in DOMAIN audit : RowFor(audit[i].by, audit[i].subject) \in rows[audit[i].table]
    /\ \A c \in Commands : \A a \in answers[c] :
         \E i \in DOMAIN audit : audit[i].by = c /\ audit[i].subject = a.subject

\* The Forum receipts among the first i; they number the revisions.
ForumUpTo(i) == {j \in 1..i : audit[j].table \in ForumTables}
\* A Forum row that waits for its commit carries the next revision.
RevisionsOK ==
    /\ ForumRevisionsDense
    /\ CurrentForumRevision = Cardinality(ForumUpTo(Len(audit)))
    /\ \A w \in Callers : Holding(w) /\ IsForum(tx[w].command) =>
         tx[w].revision = CurrentForumRevision + 1

\* Where a row lies, seen from a cursor.
UpTo(view, row, c) == row = c \/ Earlier(view, row, c)
AfterCursor(r, row) == \A c \in reader[r].cursor : Earlier(reader[r].view, c, row)
BeforeCursor(r, row) == \E c \in reader[r].cursor : UpTo(reader[r].view, row, c)

\* The items are the first rows beyond the cursor, in order and each once: in a
\* list all of them, elsewhere all that were there when the reading began.
FirstBeyond(r, items) ==
    LET V == Visible(reader[r].view)
        view == reader[r].view
    IN  /\ items \in Seq(V)
        /\ IsInjective(items)
        /\ \A i \in DOMAIN items : AfterCursor(r, items[i])
        /\ \A i, j \in DOMAIN items : i < j => Earlier(view, items[i], items[j])
        /\ \A i \in DOMAIN items : \A row \in V :
             AfterCursor(r, row) /\ Earlier(view, row, items[i])
             /\ (Listed(view) \/ row \in reader[r].asOf) => row \in Range(items)

\* Nothing that was there at first lies beyond the items.
Exhausts(r, items) == \A row \in reader[r].asOf : AfterCursor(r, row) => row \in Range(items)

\* A client has seen, once, what lies up to its cursor, and all when it is done.
ReadingOK(r) ==
    LET R == reader[r]
        V == Visible(R.view)
    IN  /\ R.view \in Views
        /\ R.cursor \subseteq V /\ R.asOf \subseteq V
        /\ \A a, b \in R.cursor : a = b
        /\ Range(R.seen) \subseteq V
        /\ IsInjective(R.seen)
        /\ R.at = "done" => R.cursor = {} /\ R.asOf \subseteq Range(R.seen)
        /\ R.at # "done" => \A row \in Range(R.seen) : BeforeCursor(r, row)
        /\ \A row \in V : BeforeCursor(r, row) /\ (Listed(R.view) \/ row \in R.asOf)
             => row \in Range(R.seen)
        /\ R.at = "attaching" =>
             /\ R.view = "posts" /\ R.page # <<>>
             /\ FirstBeyond(r, R.page)
             /\ Len(R.page) <= PageLimit
             /\ Len(R.page) < PageLimit => Exhausts(r, R.page)

ReadersOK == \A r \in Readers :
    IF reader[r].at = "idle" THEN reader[r] = NoReading ELSE ReadingOK(r)

DiscourseInv == TypesOK /\ LockOK /\ IdsOK /\ KeysOK /\ BackedOK /\ RevisionsOK /\ ReadersOK

-----------------------------------------------------------------------------
(* Rows, receipts and calls                                                *)

\* Every command names a relation.
LEMMA Operate ==
    ASSUME NEW c \in Known
    PROVE  /\ c.op \in Operations /\ c.rank \in Nat /\ TableOf(c.op) \in Tables
           /\ IsForum(c) <=> TableOf(c.op) \in ForumTables
<1>1. c.op \in Operations /\ c.rank \in Nat
    BY DiscourseAssumption, HistoryAssumption DEF Known, Operations
<1>2. TableOf(c.op) \in Tables
    BY <1>1 DEF Operations, ForumOperations, TableOf, Tables
<1> QED BY <1>1, <1>2 DEF IsForum

\* A row says which command made it.
LEMMA RowShape ==
    ASSUME NEW x \in Row
    PROVE  /\ x.id \in Nat /\ x.by \in Known /\ x = RowFor(x.by, x.id)
           /\ x.by.rank \in Nat
<1>1. PICK c \in Known, n \in Nat : x = RowFor(c, n)
    BY DEF Row
<1>2. x.id = n /\ x.by = c
    BY <1>1 DEF RowFor
<1> QED BY <1>1, <1>2, Operate

\* So does a receipt.
LEMMA ReceiptShape ==
    ASSUME NEW a \in Receipt
    PROVE  /\ a.by \in Known /\ a.subject \in Nat /\ a.revision \in Nat
           /\ a.key = a.by.key /\ a.table = TableOf(a.by.op) /\ a.table \in Tables
<1>1. PICK c \in Known, n \in Nat, k \in Nat : a = ReceiptFor(c, n, k)
    BY DEF Receipt
<1>2. /\ a.by = c /\ a.subject = n /\ a.revision = k /\ a.key = c.key
      /\ a.table = TableOf(c.op)
    BY <1>1 DEF ReceiptFor
<1> QED BY <1>2, Operate

\* A call beyond its beginning is a transaction record.
LEMMA CallShape ==
    ASSUME TypesOK, NEW w \in Callers, tx[w] # NoCall
    PROVE  /\ tx[w] \in Transaction /\ tx[w].command \in Commands /\ tx[w].command \in Known
           /\ Target(w) \in Tables /\ tx[w].id \in Nat /\ tx[w].revision \in Nat
<1>1. tx[w] \in Transaction
    BY DEF TypesOK
<1>2. tx[w].command \in Commands /\ tx[w].id \in Nat /\ tx[w].revision \in Nat
    BY <1>1 DEF Transaction
<1> QED BY <1>1, <1>2, Operate DEF Known, Target

\* An idle caller is at none of the stages.
LEMMA IdleStage ==
    ASSUME NEW w, tx[w].at \in {"called", "looking", "inserted", "receipted"}
    PROVE  tx[w] # NoCall
BY DEF NoCall

\* The receipts of the audit are receipts.
LEMMA AuditShape ==
    ASSUME TypesOK
    PROVE  /\ Len(audit) \in Nat /\ DOMAIN audit = 1..Len(audit)
           /\ \A i \in DOMAIN audit : audit[i] \in Receipt
BY DEF TypesOK

-----------------------------------------------------------------------------
(* What a step of a caller does to its transaction                         *)

\* It ends, whatever identity it lost.
Leave(w) ==
    /\ tx[w] # NoCall
    /\ tx' = [tx EXCEPT ![w] = NoCall]
    /\ Unlock(w) \/ UNCHANGED forumLock
    /\ nextId' \in [Tables -> Nat]
    /\ \A t \in Tables : nextId[t] <= nextId'[t]

\* A call begins.
Begin(w) ==
    /\ tx[w] = NoCall
    /\ \E c \in Commands :
         tx' = [tx EXCEPT ![w] = [at |-> "called", command |-> c, id |-> 0, revision |-> 0]]
    /\ UNCHANGED <<nextId, forumLock>>

\* It passes the checks, and takes the lock if it writes to the Forum.
Look(w) ==
    /\ tx[w].at = "called"
    /\ tx' = [tx EXCEPT ![w].at = "looking"]
    /\ IF IsForum(tx[w].command)
         THEN forumLock = Nobody /\ forumLock' = w
         ELSE forumLock' = forumLock
    /\ UNCHANGED nextId

\* It takes an identity for its row.
Take(w) ==
    /\ tx[w].at = "looking"
    /\ \E k \in Nat :
         /\ tx' = [tx EXCEPT ![w].at = "inserted", ![w].id = nextId[Target(w)],
                             ![w].revision = k]
         /\ IsForum(tx[w].command) => k = CurrentForumRevision + 1
    /\ nextId' = [nextId EXCEPT ![Target(w)] = @ + 1]
    /\ UNCHANGED forumLock

\* It writes its receipt.
Sign(w) ==
    /\ tx[w].at = "inserted"
    /\ ReceiptsOf(tx[w].command) = {} /\ ~ReceiptPending(w)
    /\ tx' = [tx EXCEPT ![w].at = "receipted"]
    /\ UNCHANGED <<nextId, forumLock>>

\* A step of a caller that commits nothing.
Moves(w) == Leave(w) \/ Begin(w) \/ Look(w) \/ Take(w) \/ Sign(w)

\* The answers of a step that commits nothing come from receipts.
Answered ==
    /\ answers' \in [Commands -> SUBSET [subject : Nat, revision : Nat]]
    /\ \A c \in Commands : \A a \in answers'[c] \ answers[c] :
         \E i \in DOMAIN audit : audit[i].by = c /\ audit[i].subject = a.subject

\* A step that commits nothing and moves no reader.
Quiet == rows' = rows /\ audit' = audit /\ reader' = reader /\ Answered

\* The highest revision is a number.
LEMMA CurrentIsNat ==
    ASSUME TypesOK, RevisionsOK
    PROVE  CurrentForumRevision \in Nat
<1>1. IsFiniteSet(1..Len(audit))
    BY AuditShape, FS_Interval
<1>2. IsFiniteSet(ForumUpTo(Len(audit))) /\ Cardinality(ForumUpTo(Len(audit))) \in Nat
    BY <1>1, FS_Subset, FS_CardinalityType DEF ForumUpTo
<1> QED BY <1>2 DEF RevisionsOK

\* Insert takes an identity for a row of revision k, valid or not.
Tried(w, k) ==
    /\ nextId' = [nextId EXCEPT ![Target(w)] = @ + 1]
    /\ \/ /\ tx' = [tx EXCEPT ![w].at = "inserted", ![w].id = nextId[Target(w)],
                              ![w].revision = k]
          /\ UNCHANGED forumLock
       \/ Return(w)

\* A command that is no replay writes its row, or its transaction ends.
Attempted(w) ==
    /\ tx[w].at = "looking"
    /\ \/ \E k \in Nat : /\ IsForum(tx[w].command) => k = CurrentForumRevision + 1
                         /\ Tried(w, k)
       \/ Return(w) /\ UNCHANGED nextId
    /\ UNCHANGED <<rows, audit, answers, reader>>

\* An attempt to write is a move that commits nothing.
LEMMA AttemptMoves ==
    ASSUME TypesOK, NEW w \in Callers, Attempted(w)
    PROVE  Moves(w) /\ Quiet
<1>1. tx[w] # NoCall /\ Target(w) \in Tables /\ nextId \in [Tables -> Nat]
    BY IdleStage, CallShape DEF Attempted, TypesOK
<1>2. Quiet
    BY DEF Attempted, Quiet, Answered, TypesOK
<1>3. CASE Return(w) /\ UNCHANGED nextId
  <2>1. Leave(w)
    BY <1>1, <1>3 DEF Leave, Return
  <2> QED BY <1>2, <2>1 DEF Moves
<1>4. CASE \E k \in Nat : /\ IsForum(tx[w].command) => k = CurrentForumRevision + 1
                          /\ Tried(w, k)
  <2>1. PICK k \in Nat : /\ IsForum(tx[w].command) => k = CurrentForumRevision + 1
                         /\ Tried(w, k)
    BY <1>4
  <2>2. nextId' \in [Tables -> Nat] /\ \A t \in Tables : nextId[t] <= nextId'[t]
    BY <1>1, <2>1 DEF Tried
  <2>3. CASE Return(w)
    <3>1. Leave(w)
      BY <1>1, <2>2, <2>3 DEF Leave, Return
    <3> QED BY <1>2, <3>1 DEF Moves
  <2>4. CASE ~Return(w)
    <3>1. Take(w)
      BY <2>1, <2>4 DEF Tried, Take, Attempted
    <3> QED BY <1>2, <3>1 DEF Moves
  <2> QED BY <2>3, <2>4
<1> QED BY <1>3, <1>4 DEF Attempted

\* The Forum's inserts, after the lock.
LEMMA ForumMoves ==
    ASSUME TypesOK, RevisionsOK, NEW w \in Callers,
           \/ CreateTopic(w) \/ CreateThread(w) \/ SupersedeTopic(w) \/ SupersedeThread(w)
           \/ AppendPost(w)
    PROVE  Moves(w) /\ Quiet
<1>1. CurrentForumRevision \in Nat /\ CurrentForumRevision + 1 \in Nat
    BY CurrentIsNat
<1> DEFINE k == CurrentForumRevision + 1
<1>2. /\ tx[w].at = "looking"
      /\ Tried(w, k) \/ (Return(w) /\ UNCHANGED nextId)
      /\ UNCHANGED <<rows, audit, answers, reader>>
  <2> HIDE DEF k
  <2>1. CASE CreateTopic(w)
    BY <2>1 DEF CreateTopic, Looking, InsertForumRow, Insert, Tried, Target, k
  <2>2. CASE CreateThread(w)
    BY <2>2 DEF CreateThread, Looking, InsertForumRow, Insert, Tried, Target, k
  <2>3. CASE SupersedeTopic(w)
    BY <2>3 DEF SupersedeTopic, Looking, InsertForumRow, Insert, Tried, Target, k
  <2>4. CASE SupersedeThread(w)
    BY <2>4 DEF SupersedeThread, Looking, InsertForumRow, Insert, Tried, Target, k
  <2>5. CASE AppendPost(w)
    BY <2>5 DEF AppendPost, Looking, InsertForumRow, Insert, Tried, Target, k
  <2> QED BY <2>1, <2>2, <2>3, <2>4, <2>5
<1>3. Attempted(w)
    BY <1>1, <1>2 DEF Attempted
<1> QED BY <1>3, AttemptMoves

\* A publication is inserted without a revision.
LEMMA PublicationMoves ==
    ASSUME TypesOK, NEW w \in Callers, InsertPublication(w)
    PROVE  Moves(w) /\ Quiet
<1>1. /\ tx[w].at = "looking" /\ ~IsForum(tx[w].command)
      /\ Tried(w, 0) \/ (Return(w) /\ UNCHANGED nextId)
      /\ UNCHANGED <<rows, audit, answers, reader>>
    BY DEF InsertPublication, Insert, Tried, Target
<1>2. Attempted(w)
    BY <1>1 DEF Attempted
<1> QED BY <1>2, AttemptMoves

\* find_idempotent answers from the receipts.
LEMMA ReplayMoves ==
    ASSUME TypesOK, NEW w \in Callers, Replay(w)
    PROVE  Moves(w) /\ Quiet
<1>1. tx[w] # NoCall /\ tx[w].command \in Commands
    BY IdleStage, CallShape DEF Replay
<1>2. Leave(w)
    BY <1>1 DEF Replay, Return, Leave, TypesOK
<1>3. Answered
  <2> DEFINE c == tx[w].command
             new == {[subject |-> a.subject, revision |-> a.revision] :
                       a \in {b \in ReceiptsOf(c) : SameFingerprint(b, c)}}
  <2>1. answers' = [answers EXCEPT ![c] = @ \cup new]
    BY DEF Replay
  <2>2. ASSUME NEW a \in new
        PROVE  /\ a \in [subject : Nat, revision : Nat]
               /\ \E i \in DOMAIN audit : audit[i].by = c /\ audit[i].subject = a.subject
    <3>1. PICK b \in ReceiptsOf(c) : /\ SameFingerprint(b, c)
                                     /\ a = [subject |-> b.subject, revision |-> b.revision]
      BY <2>2
    <3>2. PICK i \in DOMAIN audit : b = audit[i]
      BY DEF ReceiptsOf, Range
    <3>3. b.subject \in Nat /\ b.revision \in Nat
      BY <3>2, AuditShape, ReceiptShape
    <3> QED BY <3>1, <3>2, <3>3 DEF SameFingerprint
  <2>3. answers \in [Commands -> SUBSET [subject : Nat, revision : Nat]]
    BY DEF TypesOK
  <2> HIDE DEF new, c
  <2>4. new \subseteq [subject : Nat, revision : Nat]
    BY <2>2
  <2>5. answers' \in [Commands -> SUBSET [subject : Nat, revision : Nat]]
    BY <1>1, <2>1, <2>3, <2>4 DEF c
  <2>6. ASSUME NEW d \in Commands, NEW a \in answers'[d] \ answers[d]
        PROVE  \E i \in DOMAIN audit : audit[i].by = d /\ audit[i].subject = a.subject
    <3>1. d = c /\ a \in new
      BY <2>1, <2>3
    <3> QED BY <2>2, <3>1
  <2> QED BY <2>5, <2>6 DEF Answered
<1> QED BY <1>2, <1>3 DEF Moves, Quiet, Replay

\* The other steps that commit nothing.
LEMMA OtherMoves ==
    ASSUME TypesOK, NEW w \in Callers,
           \/ \E c \in Commands : Call(w, c)
           \/ LockForum(w) \/ CreateFromActor(w) \/ CreateFromOperator(w) \/ InsertReceipt(w)
           \/ DropCall(w)
    PROVE  Moves(w) /\ Quiet
<1>1. nextId \in [Tables -> Nat] /\ \A t \in Tables : nextId[t] <= nextId[t]
    BY DEF TypesOK
<1>2. UNCHANGED answers => Answered
    BY DEF Answered, TypesOK
<1>3. CASE \E c \in Commands : Call(w, c)
  <2>1. Begin(w)
    BY <1>3 DEF Call, Begin
  <2> QED BY <1>2, <1>3, <2>1 DEF Call, Moves, Quiet
<1>4. CASE LockForum(w)
  <2>1. Look(w)
    BY <1>4 DEF LockForum, Lock, Step, Look
  <2> QED BY <1>2, <1>4, <2>1 DEF LockForum, Moves, Quiet
<1>5. CASE CreateFromActor(w) \/ CreateFromOperator(w)
  <2>1. /\ tx[w].at = "called" /\ ~IsForum(tx[w].command)
        /\ Step(w, "looking") \/ tx' = [tx EXCEPT ![w] = NoCall]
        /\ UNCHANGED <<rows, nextId, audit, forumLock, answers, reader>>
    BY <1>5 DEF CreateFromActor, CreateFromOperator, StartPublication
  <2>2. Look(w) \/ Leave(w)
    BY <1>1, <2>1, IdleStage DEF Step, Look, Leave
  <2> QED BY <1>2, <2>1, <2>2 DEF Moves, Quiet
<1>6. CASE InsertReceipt(w)
  <2>1. Sign(w) \/ Leave(w)
    BY <1>1, <1>6, IdleStage DEF InsertReceipt, Step, Return, Sign, Leave
  <2> QED BY <1>2, <1>6, <2>1 DEF InsertReceipt, Moves, Quiet
<1>7. CASE DropCall(w)
  <2>1. Leave(w)
    BY <1>1, <1>7 DEF DropCall, Return, Leave
  <2> QED BY <1>2, <1>7, <2>1 DEF DropCall, Moves, Quiet
<1> QED BY <1>3, <1>4, <1>5, <1>6, <1>7

\* What a step that commits nothing leaves of the transactions.
LEMMA MovedCalls ==
    ASSUME TypesOK, NEW w \in Callers, Moves(w)
    PROVE  /\ tx' \in [Callers -> {NoCall} \cup Transaction]
           /\ \A v \in Callers \ {w} : tx'[v] = tx[v]
           /\ nextId' \in [Tables -> Nat] /\ \A t \in Tables : nextId[t] <= nextId'[t]
           /\ \A v \in Callers \ {w} : forumLock = v => forumLock' = v
           /\ tx'[w] # NoCall /\ tx[w] # NoCall => tx'[w].command = tx[w].command
<1>1. tx \in [Callers -> {NoCall} \cup Transaction] /\ nextId \in [Tables -> Nat]
    BY DEF TypesOK
<1>2. tx[w] # NoCall => /\ tx[w] \in Transaction /\ Target(w) \in Tables
    BY CallShape
<1>3. CASE Leave(w)
    BY <1>1, <1>2, <1>3 DEF Leave, Unlock
<1>4. CASE Begin(w)
  <2>1. PICK c \in Commands :
          tx' = [tx EXCEPT ![w] = [at |-> "called", command |-> c, id |-> 0, revision |-> 0]]
    BY <1>4 DEF Begin
  <2>2. [at |-> "called", command |-> c, id |-> 0, revision |-> 0] \in Transaction
    BY DEF Transaction
  <2> QED BY <1>1, <1>4, <2>1, <2>2 DEF Begin
<1>5. CASE Look(w)
  <2>1. tx[w] # NoCall /\ tx[w] \in Transaction
    BY <1>2, <1>5, IdleStage DEF Look
  <2>2. [tx[w] EXCEPT !.at = "looking"] \in Transaction
    BY <2>1 DEF Transaction
  <2>3. tx'[w] = [tx[w] EXCEPT !.at = "looking"] /\ tx'[w].command = tx[w].command
    BY <1>1, <1>5, <2>1 DEF Look, Transaction
  <2>4. \A v \in Callers \ {w} : forumLock = v => forumLock' = v
    BY <1>5, DiscourseAssumption DEF Look
  <2> QED BY <1>1, <1>5, <2>2, <2>3, <2>4 DEF Look
<1>6. CASE Take(w)
  <2>1. tx[w] # NoCall /\ tx[w] \in Transaction /\ Target(w) \in Tables
    BY <1>2, <1>6, IdleStage DEF Take
  <2>2. PICK k \in Nat :
          tx' = [tx EXCEPT ![w].at = "inserted", ![w].id = nextId[Target(w)], ![w].revision = k]
    BY <1>6 DEF Take
  <2> DEFINE n == nextId[Target(w)]
  <2>3. n \in Nat
    BY <1>1, <2>1
  <2>4. tx'[w] = [tx[w] EXCEPT !.at = "inserted", !.id = n, !.revision = k]
        /\ \A v \in Callers \ {w} : tx'[v] = tx[v]
    BY <1>1, <2>2
  <2> HIDE DEF n
  <2>5. tx'[w] \in Transaction /\ tx'[w].command = tx[w].command
    BY <2>1, <2>3, <2>4 DEF Transaction
  <2>6. tx' \in [Callers -> {NoCall} \cup Transaction]
    BY <1>1, <2>2, <2>5
  <2>7. nextId' \in [Tables -> Nat] /\ \A t \in Tables : nextId[t] <= nextId'[t]
    BY <1>1, <1>6, <2>1 DEF Take
  <2> QED BY <1>6, <2>4, <2>5, <2>6, <2>7 DEF Take
<1>7. CASE Sign(w)
  <2>1. tx[w] # NoCall /\ tx[w] \in Transaction
    BY <1>2, <1>7, IdleStage DEF Sign
  <2>2. [tx[w] EXCEPT !.at = "receipted"] \in Transaction
    BY <2>1 DEF Transaction
  <2>3. tx'[w] = [tx[w] EXCEPT !.at = "receipted"] /\ tx'[w].command = tx[w].command
    BY <1>1, <1>7, <2>1 DEF Sign, Transaction
  <2> QED BY <1>1, <1>7, <2>2, <2>3 DEF Sign
<1> QED BY <1>3, <1>4, <1>5, <1>6, <1>7 DEF Moves

\* How the moving transaction itself changes.
LEMMA MovedStage ==
    ASSUME TypesOK, NEW w \in Callers, Moves(w)
    PROVE  /\ Leave(w) => tx'[w] = NoCall
           /\ Begin(w) => tx'[w].at = "called"
           /\ Look(w) => /\ tx'[w].at = "looking" /\ tx'[w].command = tx[w].command
           /\ Take(w) => /\ tx'[w].at = "inserted" /\ tx'[w].command = tx[w].command
                         /\ tx'[w].id = nextId[Target(w)]
                         /\ IsForum(tx[w].command) =>
                              tx'[w].revision = CurrentForumRevision + 1
           /\ Sign(w) => /\ tx'[w].at = "receipted" /\ tx'[w].command = tx[w].command
                         /\ tx'[w].id = tx[w].id /\ tx'[w].revision = tx[w].revision
<1>1. tx \in [Callers -> {NoCall} \cup Transaction]
    BY DEF TypesOK
<1>2. tx[w] # NoCall => tx[w] \in Transaction
    BY CallShape
<1>3. Leave(w) => tx'[w] = NoCall
    BY <1>1 DEF Leave
<1>4. Begin(w) => tx'[w].at = "called"
    BY <1>1 DEF Begin
<1>5. Look(w) => tx'[w].at = "looking" /\ tx'[w].command = tx[w].command
    BY <1>1, <1>2, IdleStage DEF Look, Transaction
<1>6. ASSUME Take(w)
      PROVE  /\ tx'[w].at = "inserted" /\ tx'[w].command = tx[w].command
             /\ tx'[w].id = nextId[Target(w)]
             /\ IsForum(tx[w].command) => tx'[w].revision = CurrentForumRevision + 1
  <2>1. PICK k \in Nat :
          /\ tx' = [tx EXCEPT ![w].at = "inserted", ![w].id = nextId[Target(w)],
                              ![w].revision = k]
          /\ IsForum(tx[w].command) => k = CurrentForumRevision + 1
    BY <1>6 DEF Take
  <2>2. tx[w] \in Transaction
    BY <1>2, <1>6, IdleStage DEF Take
  <2> DEFINE n == nextId[Target(w)]
  <2>3. tx'[w] = [tx[w] EXCEPT !.at = "inserted", !.id = n, !.revision = k]
    BY <1>1, <2>1
  <2> HIDE DEF n
  <2>4. /\ tx'[w].at = "inserted" /\ tx'[w].command = tx[w].command
        /\ tx'[w].id = n /\ tx'[w].revision = k
    BY <2>2, <2>3 DEF Transaction
  <2> QED BY <2>1, <2>4 DEF n
<1>7. Sign(w) => /\ tx'[w].at = "receipted" /\ tx'[w].command = tx[w].command
                 /\ tx'[w].id = tx[w].id /\ tx'[w].revision = tx[w].revision
    BY <1>1, <1>2, IdleStage DEF Sign, Transaction
<1> QED BY <1>3, <1>4, <1>5, <1>6, <1>7

-----------------------------------------------------------------------------
(* Steps that commit nothing keep the invariant                            *)

\* A move keeps the types.
LEMMA TypesMoves ==
    ASSUME TypesOK, NEW w \in Callers, Moves(w), Quiet
    PROVE  TypesOK'
<1>1. /\ tx' \in [Callers -> {NoCall} \cup Transaction] /\ nextId' \in [Tables -> Nat]
    BY MovedCalls
<1> QED BY <1>1 DEF TypesOK, Quiet, Answered

\* The lock has one holder, and whoever writes the Forum is it.
LEMMA LockMoves ==
    ASSUME TypesOK, LockOK, NEW w \in Callers, Moves(w)
    PROVE  LockOK'
<1> SUFFICES ASSUME NEW v \in Callers, Writing(v)'
             PROVE  forumLock' = v
    BY DEF LockOK
<1>1. CASE v # w
    BY <1>1, MovedCalls DEF LockOK, Writing, Inside
<1>2. CASE v = w
  <2>1. tx'[w] # NoCall
    BY <1>2 DEF Writing, Inside, NoCall
  <2>2. CASE Leave(w)
    BY <2>1, <2>2, MovedStage
  <2>3. CASE Begin(w)
    BY <1>2, <2>3, MovedStage DEF Writing, Inside
  <2>4. CASE Look(w)
    BY <1>2, <2>4, MovedStage DEF Writing, Inside, Look
  <2>5. CASE Take(w)
    BY <1>2, <2>5, MovedStage DEF Writing, Inside, Take, LockOK
  <2>6. CASE Sign(w)
    BY <1>2, <2>6, MovedStage DEF Writing, Inside, Sign, LockOK
  <2> QED BY <2>2, <2>3, <2>4, <2>5, <2>6 DEF Moves
<1> QED BY <1>1, <1>2

\* A transaction that takes an identity takes one that nobody has; another one
\* keeps its own.
LEMMA IdsMoves ==
    ASSUME TypesOK, IdsOK, NEW w \in Callers, Moves(w), Quiet
    PROVE  IdsOK'
<1>1. /\ rows' = rows /\ rows \in [Tables -> SUBSET Row] /\ nextId \in [Tables -> Nat]
      /\ nextId' \in [Tables -> Nat] /\ \A t \in Tables : nextId[t] <= nextId'[t]
    BY MovedCalls DEF Quiet, TypesOK
<1>2. /\ \A t \in Tables : \A x \in rows'[t] : x.id < nextId'[t]
      /\ \A t \in Tables : \A x, y \in rows'[t] : x.id = y.id => x = y
    BY <1>1, RowShape DEF IdsOK
<1>3. ASSUME NEW v \in Callers, v # w, Holding(v)'
      PROVE  Holding(v) /\ Target(v)' = Target(v) /\ tx'[v] = tx[v] /\ Target(v) \in Tables
             /\ tx[v].id \in Nat
  <2>1. tx'[v] = tx[v]
    BY <1>3, MovedCalls
  <2>2. Holding(v) /\ Target(v)' = Target(v)
    BY <1>3, <2>1 DEF Holding, Target
  <2> QED BY <2>1, <2>2, IdleStage, CallShape DEF Holding
<1>4. ASSUME Holding(w)'
      PROVE  \/ /\ Take(w) /\ tx'[w].id = nextId[Target(w)] /\ tx'[w].command = tx[w].command
                /\ nextId'[Target(w)] = nextId[Target(w)] + 1
                /\ Target(w)' = Target(w) /\ Target(w) \in Tables
             \/ /\ Sign(w) /\ Holding(w) /\ tx'[w].id = tx[w].id
                /\ tx'[w].command = tx[w].command
                /\ Target(w)' = Target(w) /\ Target(w) \in Tables
  <2>1. Take(w) \/ Sign(w)
    <3>1. tx'[w].at \in {"inserted", "receipted"}
      BY <1>4 DEF Holding
    <3> QED BY <3>1, MovedStage DEF Moves, NoCall
  <2>2. CASE Take(w)
    <3>1. tx[w] # NoCall
      BY <2>2, IdleStage DEF Take
    <3>2. Target(w) \in Tables
      BY <3>1, CallShape
    <3>3. tx'[w].id = nextId[Target(w)] /\ tx'[w].command = tx[w].command
      BY <2>2, MovedStage
    <3>4. Target(w)' = Target(w)
      BY <3>3 DEF Target
    <3>5. nextId'[Target(w)] = nextId[Target(w)] + 1
      BY <1>1, <2>2, <3>2 DEF Take
    <3> QED BY <2>2, <3>2, <3>3, <3>4, <3>5
  <2>3. CASE Sign(w)
    <3>1. tx[w] # NoCall /\ Holding(w)
      BY <2>3, IdleStage DEF Sign, Holding
    <3>2. Target(w) \in Tables
      BY <3>1, CallShape
    <3>3. tx'[w].id = tx[w].id /\ tx'[w].command = tx[w].command
      BY <2>3, MovedStage
    <3>4. Target(w)' = Target(w)
      BY <3>3 DEF Target
    <3> QED BY <2>3, <3>1, <3>2, <3>3, <3>4
  <2> QED BY <2>1, <2>2, <2>3
<1>5. ASSUME NEW v \in Callers, Holding(v)'
      PROVE  /\ tx'[v].id < nextId'[Target(v)']
             /\ \A x \in rows'[Target(v)'] : x.id # tx'[v].id
             /\ IsForum(tx'[v].command) => \A x \in rows'[Target(v)'] : x.id < tx'[v].id
  <2>1. CASE v # w
    <3>1. /\ Holding(v) /\ Target(v)' = Target(v) /\ tx'[v] = tx[v] /\ Target(v) \in Tables
          /\ tx[v].id \in Nat
      BY <1>3, <1>5, <2>1
    <3>2. /\ tx[v].id < nextId[Target(v)]
          /\ \A x \in rows[Target(v)] : x.id # tx[v].id
          /\ IsForum(tx[v].command) => \A x \in rows[Target(v)] : x.id < tx[v].id
      BY <3>1 DEF IdsOK
    <3>3. tx[v].id < nextId'[Target(v)]
      BY <1>1, <3>1, <3>2
    <3> QED BY <1>1, <3>1, <3>2, <3>3
  <2>2. CASE v = w /\ Take(w)
    <3>1. /\ tx'[v].id = nextId[Target(v)] /\ nextId'[Target(v)] = nextId[Target(v)] + 1
          /\ Target(v)' = Target(v) /\ Target(v) \in Tables
      BY <1>4, <1>5, <2>2 DEF Take, Sign
    <3>2. \A x \in rows[Target(v)] : x.id \in Nat /\ x.id < nextId[Target(v)]
      BY <1>1, <3>1, RowShape DEF IdsOK
    <3> QED BY <1>1, <3>1, <3>2
  <2>3. CASE v = w /\ Sign(w)
    <3>1. /\ Holding(v) /\ tx'[v].id = tx[v].id /\ tx'[v].command = tx[v].command
          /\ Target(v)' = Target(v) /\ Target(v) \in Tables
      BY <1>4, <1>5, <2>3 DEF Take, Sign
    <3>2. /\ tx[v].id < nextId[Target(v)]
          /\ \A x \in rows[Target(v)] : x.id # tx[v].id
          /\ IsForum(tx[v].command) => \A x \in rows[Target(v)] : x.id < tx[v].id
      BY <3>1 DEF IdsOK
    <3>3. nextId' = nextId
      BY <2>3 DEF Sign
    <3> QED BY <1>1, <3>1, <3>2, <3>3
  <2> QED BY <1>4, <1>5, <2>1, <2>2, <2>3
<1>6. ASSUME NEW v \in Callers, v # w, Holding(v)', Holding(w)', Target(v)' = Target(w)'
      PROVE  tx'[v].id # tx'[w].id
  <2>1. /\ Holding(v) /\ Target(v)' = Target(v) /\ tx'[v] = tx[v] /\ Target(v) \in Tables
        /\ tx[v].id \in Nat
    BY <1>3, <1>6
  <2>2. CASE Take(w)
    <3>1. tx'[w].id = nextId[Target(w)] /\ Target(w)' = Target(w)
      BY <1>4, <1>6, <2>2 DEF Take, Sign
    <3>2. tx[v].id < nextId[Target(v)]
      BY <2>1 DEF IdsOK
    <3>3. Target(v) = Target(w) /\ tx'[v].id = tx[v].id
      BY <1>6, <2>1, <3>1
    <3>4. nextId[Target(v)] \in Nat
      BY <1>1, <2>1
    <3> QED BY <2>1, <3>1, <3>2, <3>3, <3>4
  <2>3. CASE Sign(w)
    <3>1. Holding(w) /\ tx'[w].id = tx[w].id /\ Target(w)' = Target(w)
      BY <1>4, <1>6, <2>3 DEF Take, Sign
    <3> QED BY <1>6, <2>1, <3>1 DEF IdsOK
  <2> QED BY <1>4, <1>6, <2>2, <2>3
<1>7. ASSUME NEW v \in Callers, NEW u \in Callers \ {v}, Holding(v)', Holding(u)',
             Target(u)' = Target(v)'
      PROVE  tx'[u].id # tx'[v].id
  <2>1. CASE u = w
    BY <1>6, <1>7, <2>1
  <2>2. CASE v = w
    BY <1>6, <1>7, <2>2
  <2>3. CASE u # w /\ v # w
    BY <1>3, <1>7, <2>3 DEF IdsOK
  <2> QED BY <2>1, <2>2, <2>3
<1> QED BY <1>2, <1>5, <1>7 DEF IdsOK

\* A receipt is signed when no other has its key, committed or pending.
LEMMA KeysMoves ==
    ASSUME TypesOK, KeysOK, NEW w \in Callers, Moves(w), Quiet
    PROVE  KeysOK'
<1>1. audit' = audit
    BY DEF Quiet
<1>2. ASSUME NEW v \in Callers, tx'[v].at = "receipted"
      PROVE  \/ v # w /\ tx'[v] = tx[v]
             \/ v = w /\ Sign(w) /\ tx'[v].command = tx[v].command
    BY <1>2, MovedCalls, MovedStage DEF Moves, NoCall
<1>3. ASSUME NEW v \in Callers, tx'[v].at = "receipted"
      PROVE  ReceiptsOf(tx[v].command)' = {}
  <2>1. ReceiptsOf(tx[v].command) = {} /\ tx'[v].command = tx[v].command
    BY <1>2, <1>3 DEF KeysOK, Sign
  <2> QED BY <1>1, <2>1 DEF ReceiptsOf
<1>4. ASSUME NEW v \in Callers, NEW u \in Callers \ {v}, tx'[v].at = "receipted",
             tx'[u].at = "receipted"
      PROVE  tx'[u].command.key # tx'[v].command.key
  <2>1. CASE v = w
    <3>1. Sign(w) /\ tx'[v].command = tx[v].command /\ tx'[u] = tx[u]
      BY <1>2, <1>4, <2>1
    <3> QED BY <1>4, <2>1, <3>1 DEF Sign, ReceiptPending
  <2>2. CASE u = w
    <3>1. Sign(w) /\ tx'[u].command = tx[u].command /\ tx'[v] = tx[v]
      BY <1>2, <1>4, <2>2
    <3> QED BY <1>4, <2>2, <3>1 DEF Sign, ReceiptPending
  <2>3. CASE u # w /\ v # w
    BY <1>2, <1>4, <2>3 DEF KeysOK
  <2> QED BY <2>1, <2>2, <2>3
<1> QED BY <1>1, <1>3, <1>4 DEF KeysOK

\* A step that commits nothing adds only answers, from receipts.
LEMMA BackedMoves ==
    ASSUME BackedOK, Quiet
    PROVE  BackedOK'
BY DEF BackedOK, Quiet, Answered

\* A row takes its revision under the lock, so it is still the next one later.
LEMMA RevisionsMoves ==
    ASSUME TypesOK, RevisionsOK, NEW w \in Callers, Moves(w), Quiet
    PROVE  RevisionsOK'
<1>1. audit' = audit
    BY DEF Quiet
<1>2. CurrentForumRevision' = CurrentForumRevision
    BY <1>1 DEF CurrentForumRevision, ForumReceipts
<1>3. ASSUME NEW v \in Callers, Holding(v)', IsForum(tx'[v].command)
      PROVE  tx'[v].revision = CurrentForumRevision + 1
  <2>1. CASE v # w
    BY <1>3, <2>1, MovedCalls DEF Holding, RevisionsOK
  <2>2. CASE v = w
    <3>1. Take(w) \/ Sign(w)
      <4>1. tx'[w].at \in {"inserted", "receipted"}
        BY <1>3, <2>2 DEF Holding
      <4> QED BY <4>1, MovedStage DEF Moves, NoCall
    <3>2. CASE Take(w)
      BY <1>3, <2>2, <3>2, MovedStage
    <3>3. CASE Sign(w)
      BY <1>3, <2>2, <3>3, MovedStage DEF Sign, Holding, RevisionsOK
    <3> QED BY <3>1, <3>2, <3>3
  <2> QED BY <2>1, <2>2
<1> QED BY <1>1, <1>2, <1>3 DEF RevisionsOK, ForumRevisionsDense, ForumUpTo

-----------------------------------------------------------------------------
(* A commit keeps the invariant                                            *)

\* What becomes visible with a commit.
LEMMA CommitEffect ==
    ASSUME TypesOK, NEW w \in Callers, Commit(w)
    PROVE  LET n == Len(audit)
               c == tx[w].command
               x == PendingRow(w)
               a == PendingReceipt(w)
           IN  /\ tx[w].at = "receipted" /\ c \in Commands /\ c \in Known
               /\ Target(w) \in Tables /\ tx[w].id \in Nat
               /\ x \in Row /\ x.id = tx[w].id /\ x.by = c
               /\ a \in Receipt /\ a.by = c /\ a.key = c.key /\ a.table = Target(w)
               /\ a.subject = tx[w].id /\ a.revision = tx[w].revision
               /\ rows' \in [Tables -> SUBSET Row]
               /\ rows'[Target(w)] = rows[Target(w)] \cup {x}
               /\ \A t \in Tables : t # Target(w) => rows'[t] = rows[t]
               /\ n \in Nat /\ audit' \in Seq(Receipt) /\ Len(audit') = n + 1
               /\ DOMAIN audit = 1..n /\ DOMAIN audit' = 1..(n + 1)
               /\ audit'[n + 1] = a /\ \A i \in 1..n : audit'[i] = audit[i]
               /\ nextId' = nextId /\ reader' = reader
               /\ tx' = [tx EXCEPT ![w] = NoCall] /\ Unlock(w)
<1>1. tx[w].at = "receipted" /\ tx[w] # NoCall
    BY IdleStage DEF Commit
<1>2. /\ tx[w].command \in Commands /\ tx[w].command \in Known /\ Target(w) \in Tables
      /\ tx[w].id \in Nat /\ tx[w].revision \in Nat
    BY <1>1, CallShape
<1>3. /\ PendingRow(w) \in Row /\ PendingRow(w).id = tx[w].id
      /\ PendingRow(w).by = tx[w].command
    BY <1>2 DEF PendingRow, RowFor, Row
<1>4. /\ PendingReceipt(w) \in Receipt /\ PendingReceipt(w).by = tx[w].command
      /\ PendingReceipt(w).key = tx[w].command.key /\ PendingReceipt(w).table = Target(w)
      /\ PendingReceipt(w).subject = tx[w].id /\ PendingReceipt(w).revision = tx[w].revision
    BY <1>2 DEF PendingReceipt, ReceiptFor, Receipt, Target
<1> DEFINE x == PendingRow(w)
           a == PendingReceipt(w)
<1>5. rows' = [rows EXCEPT ![Target(w)] = @ \cup {x}] /\ audit' = Append(audit, a)
    BY DEF Commit, Target
<1>6. rows \in [Tables -> SUBSET Row] /\ audit \in Seq(Receipt)
    BY DEF TypesOK
<1>7. /\ nextId' = nextId /\ reader' = reader
      /\ tx' = [tx EXCEPT ![w] = NoCall] /\ Unlock(w)
    BY DEF Commit, Return
<1> HIDE DEF x, a
<1>8. /\ rows' \in [Tables -> SUBSET Row]
      /\ rows'[Target(w)] = rows[Target(w)] \cup {x}
      /\ \A t \in Tables : t # Target(w) => rows'[t] = rows[t]
    BY <1>2, <1>3, <1>5, <1>6 DEF x
<1>9. /\ Len(audit) \in Nat /\ audit' \in Seq(Receipt) /\ Len(audit') = Len(audit) + 1
      /\ DOMAIN audit = 1..Len(audit) /\ DOMAIN audit' = 1..(Len(audit) + 1)
      /\ audit'[Len(audit) + 1] = a /\ \A i \in 1..Len(audit) : audit'[i] = audit[i]
    BY <1>4, <1>5, <1>6 DEF a
<1> QED BY <1>1, <1>2, <1>3, <1>4, <1>7, <1>8, <1>9 DEF x, a

\* The calls that a commit leaves.
LEMMA CommitCalls ==
    ASSUME TypesOK, NEW w \in Callers, Commit(w)
    PROVE  /\ tx' \in [Callers -> {NoCall} \cup Transaction]
           /\ \A v \in Callers : tx'[v] # NoCall => v # w /\ tx'[v] = tx[v]
           /\ \A v \in Callers \ {w} : tx'[v] = tx[v] /\ (forumLock = v => forumLock' = v)
<1>1. tx \in [Callers -> {NoCall} \cup Transaction]
    BY DEF TypesOK
<1>2. tx' = [tx EXCEPT ![w] = NoCall] /\ Unlock(w)
    BY CommitEffect
<1> QED BY <1>1, <1>2 DEF Unlock

\* A commit keeps the types.
LEMMA TypesCommit ==
    ASSUME TypesOK, NEW w \in Callers, Commit(w)
    PROVE  TypesOK'
<1>1. answers' \in [Commands -> SUBSET [subject : Nat, revision : Nat]]
  <2>1. answers \in [Commands -> SUBSET [subject : Nat, revision : Nat]]
    BY DEF TypesOK
  <2>2. /\ tx[w].command \in Commands /\ tx[w].id \in Nat /\ tx[w].revision \in Nat
    BY IdleStage, CallShape DEF Commit
  <2> DEFINE new == [subject |-> tx[w].id, revision |-> tx[w].revision]
  <2>3. new \in [subject : Nat, revision : Nat]
    BY <2>2
  <2>4. answers' = [answers EXCEPT ![tx[w].command] = @ \cup {new}] \/ UNCHANGED answers
    BY DEF Commit
  <2> HIDE DEF new
  <2> QED BY <2>1, <2>2, <2>3, <2>4
<1>2. \A t \in Tables : \A x \in rows'[t] : TableOf(x.by.op) = t
  <2> SUFFICES ASSUME NEW t \in Tables, NEW x \in rows'[t]
               PROVE  TableOf(x.by.op) = t
    OBVIOUS
  <2>1. CASE x \in rows[t]
    BY <2>1 DEF TypesOK
  <2>2. CASE x \notin rows[t]
    <3>1. t = Target(w) /\ x.by = tx[w].command
      BY <2>2, CommitEffect
    <3> QED BY <3>1 DEF Target
  <2> QED BY <2>1, <2>2
<1> QED BY <1>1, <1>2, CommitEffect, CommitCalls DEF TypesOK

\* A commit frees no lock but its own.
LEMMA LockCommit ==
    ASSUME TypesOK, LockOK, NEW w \in Callers, Commit(w)
    PROVE  LockOK'
<1> SUFFICES ASSUME NEW v \in Callers, Writing(v)'
             PROVE  forumLock' = v
    BY DEF LockOK
<1>1. tx'[v] # NoCall
    BY DEF Writing, Inside, NoCall
<1>2. v # w /\ tx'[v] = tx[v] /\ (forumLock = v => forumLock' = v)
    BY <1>1, CommitCalls
<1> QED BY <1>2 DEF LockOK, Writing, Inside

\* A committed row has an identity of its own; in a Forum table it is the highest.
LEMMA CommitFresh ==
    ASSUME TypesOK, IdsOK, NEW w \in Callers, Commit(w)
    PROVE  /\ tx[w].id < nextId[Target(w)]
           /\ \A x \in rows[Target(w)] : x.id # tx[w].id
           /\ Target(w) \in ForumTables => \A x \in rows[Target(w)] : x.id < tx[w].id
           /\ PendingRow(w) \notin rows[Target(w)]
<1>1. Holding(w) /\ tx[w].command \in Known /\ PendingRow(w).id = tx[w].id
    BY CommitEffect DEF Holding
<1>2. Target(w) \in ForumTables => IsForum(tx[w].command)
    BY <1>1, Operate DEF Target
<1> QED BY <1>1, <1>2 DEF IdsOK

\* The identity of a committed row is no other's.
LEMMA IdsCommit ==
    ASSUME TypesOK, IdsOK, LockOK, NEW w \in Callers, Commit(w)
    PROVE  IdsOK'
<1>1. /\ nextId' = nextId /\ Target(w) \in Tables
      /\ rows'[Target(w)] = rows[Target(w)] \cup {PendingRow(w)}
      /\ \A t \in Tables : t # Target(w) => rows'[t] = rows[t]
      /\ PendingRow(w).id = tx[w].id
    BY CommitEffect
<1>2. \A t \in Tables : \A x \in rows'[t] : x.id < nextId'[t]
    BY <1>1, CommitFresh DEF IdsOK
<1>3. \A t \in Tables : \A x, y \in rows'[t] : x.id = y.id => x = y
  <2> SUFFICES ASSUME NEW t \in Tables, NEW x \in rows'[t], NEW y \in rows'[t], x.id = y.id
               PROVE  x = y
    OBVIOUS
  <2>1. CASE t # Target(w)
    BY <1>1, <2>1 DEF IdsOK
  <2>2. CASE t = Target(w)
    BY <1>1, <2>2, CommitFresh DEF IdsOK
  <2> QED BY <2>1, <2>2
<1>4. ASSUME NEW v \in Callers, Holding(v)'
      PROVE  v # w /\ tx'[v] = tx[v] /\ Holding(v) /\ Target(v)' = Target(v)
             /\ Target(v) \in Tables /\ tx[v].command \in Known
  <2>1. tx'[v] # NoCall
    BY <1>4 DEF Holding, NoCall
  <2>2. v # w /\ tx'[v] = tx[v]
    BY <2>1, CommitCalls
  <2> QED BY <1>4, <2>1, <2>2, CallShape DEF Holding, Target
<1>5. ASSUME NEW v \in Callers, Holding(v)'
      PROVE  /\ tx'[v].id < nextId'[Target(v)']
             /\ \A x \in rows'[Target(v)'] : x.id # tx'[v].id
             /\ IsForum(tx'[v].command) => \A x \in rows'[Target(v)'] : x.id < tx'[v].id
  <2>1. /\ v # w /\ tx'[v] = tx[v] /\ Holding(v) /\ Target(v)' = Target(v)
        /\ Target(v) \in Tables /\ tx[v].command \in Known
    BY <1>4, <1>5
  <2>2. /\ tx[v].id < nextId[Target(v)]
        /\ \A x \in rows[Target(v)] : x.id # tx[v].id
        /\ IsForum(tx[v].command) => \A x \in rows[Target(v)] : x.id < tx[v].id
    BY <2>1 DEF IdsOK
  <2>3. CASE Target(v) # Target(w)
    BY <1>1, <2>1, <2>2, <2>3
  <2>4. CASE Target(v) = Target(w)
    <3>1. Holding(w) /\ tx[w].command \in Known
      BY CommitEffect DEF Holding
    <3>2. tx[v].id # tx[w].id
      BY <2>1, <2>4, <3>1 DEF IdsOK
    <3>3. ~IsForum(tx[v].command)
      <4>1. ASSUME IsForum(tx[v].command)
            PROVE  FALSE
        <5>1. IsForum(tx[w].command)
          BY <2>1, <2>4, <3>1, <4>1, Operate DEF Target
        <5>2. Writing(v) /\ Writing(w)
          BY <2>1, <3>1, <4>1, <5>1 DEF Writing, Inside, Holding
        <5> QED BY <2>1, <5>2 DEF LockOK
      <4> QED BY <4>1
    <3> QED BY <1>1, <2>1, <2>2, <2>4, <3>2, <3>3
  <2> QED BY <2>3, <2>4
<1>6. ASSUME NEW v \in Callers, NEW u \in Callers \ {v}, Holding(v)', Holding(u)',
             Target(u)' = Target(v)'
      PROVE  tx'[u].id # tx'[v].id
    BY <1>4, <1>6 DEF IdsOK
<1> QED BY <1>2, <1>3, <1>5, <1>6 DEF IdsOK

\* The key of a committed receipt is no other's.
LEMMA KeysCommit ==
    ASSUME TypesOK, KeysOK, NEW w \in Callers, Commit(w)
    PROVE  KeysOK'
<1> DEFINE n == Len(audit)
           key == tx[w].command.key
<1>1. /\ n \in Nat /\ DOMAIN audit = 1..n /\ DOMAIN audit' = 1..(n + 1)
      /\ audit'[n + 1].key = key /\ \A i \in 1..n : audit'[i] = audit[i]
      /\ tx[w].at = "receipted"
    BY CommitEffect
<1>2. \A i \in 1..n : audit[i].key # key
  <2>1. ReceiptsOf(tx[w].command) = {}
    BY <1>1 DEF KeysOK
  <2> QED BY <1>1, <2>1 DEF ReceiptsOf, Range
<1>3. \A i, j \in DOMAIN audit' : audit'[i].key = audit'[j].key => i = j
  <2> SUFFICES ASSUME NEW i \in 1..(n + 1), NEW j \in 1..(n + 1),
                      audit'[i].key = audit'[j].key
               PROVE  i = j
    BY <1>1
  <2> HIDE DEF n, key
  <2>1. CASE i \in 1..n /\ j \in 1..n
    BY <1>1, <2>1 DEF KeysOK
  <2>2. CASE i = n + 1 \/ j = n + 1
    BY <1>1, <1>2, <2>2
  <2> QED BY <1>1, <2>1, <2>2
<1>4. ASSUME NEW v \in Callers, tx'[v].at = "receipted"
      PROVE  v # w /\ tx'[v] = tx[v] /\ tx[v].command.key # key
  <2>1. tx'[v] # NoCall
    BY <1>4 DEF NoCall
  <2>2. v # w /\ tx'[v] = tx[v]
    BY <2>1, CommitCalls
  <2> QED BY <1>1, <1>4, <2>2 DEF KeysOK
<1>5. ASSUME NEW v \in Callers, tx'[v].at = "receipted"
      PROVE  ReceiptsOf(tx[v].command)' = {}
  <2>1. tx'[v].command = tx[v].command /\ tx[v].command.key # key /\ tx[v].at = "receipted"
    BY <1>4, <1>5
  <2>2. \A i \in 1..n : audit[i].key # tx[v].command.key
    BY <1>1, <2>1 DEF KeysOK, ReceiptsOf, Range
  <2>3. \A i \in 1..(n + 1) : audit'[i].key # tx[v].command.key
    <3> HIDE DEF n, key
    <3> QED BY <1>1, <2>1, <2>2
  <2> QED BY <1>1, <2>1, <2>3 DEF ReceiptsOf, Range
<1> QED BY <1>3, <1>4, <1>5 DEF KeysOK

\* Row, receipt and answer of a commit belong together.
LEMMA BackedCommit ==
    ASSUME TypesOK, BackedOK, NEW w \in Callers, Commit(w)
    PROVE  BackedOK'
<1> DEFINE n == Len(audit)
<1>1. /\ n \in Nat /\ DOMAIN audit = 1..n /\ DOMAIN audit' = 1..(n + 1)
      /\ audit'[n + 1] = PendingReceipt(w) /\ \A i \in 1..n : audit'[i] = audit[i]
      /\ PendingReceipt(w).by = tx[w].command /\ PendingReceipt(w).subject = tx[w].id
      /\ PendingReceipt(w).table = Target(w)
      /\ PendingRow(w).id = tx[w].id /\ PendingRow(w).by = tx[w].command
      /\ tx[w].command \in Commands /\ Target(w) \in Tables
      /\ rows'[Target(w)] = rows[Target(w)] \cup {PendingRow(w)}
      /\ \A t \in Tables : t # Target(w) => rows'[t] = rows[t]
    BY CommitEffect
<1> HIDE DEF n
<1>2. n + 1 \in DOMAIN audit' /\ \A i \in DOMAIN audit : i \in DOMAIN audit' /\ audit'[i] = audit[i]
    BY <1>1
<1>3. \A t \in Tables : \A x \in rows'[t] :
        \E i \in DOMAIN audit' : audit'[i].by = x.by /\ audit'[i].subject = x.id
  <2> SUFFICES ASSUME NEW t \in Tables, NEW x \in rows'[t]
               PROVE  \E i \in DOMAIN audit' : audit'[i].by = x.by /\ audit'[i].subject = x.id
    OBVIOUS
  <2>1. CASE x \in rows[t]
    BY <1>2, <2>1 DEF BackedOK
  <2>2. CASE x \notin rows[t]
    <3>1. x = PendingRow(w)
      BY <1>1, <2>2
    <3> QED BY <1>1, <1>2, <3>1
  <2> QED BY <2>1, <2>2
<1>4. \A i \in DOMAIN audit' :
        RowFor(audit'[i].by, audit'[i].subject) \in rows'[audit'[i].table]
  <2> SUFFICES ASSUME NEW i \in DOMAIN audit'
               PROVE  RowFor(audit'[i].by, audit'[i].subject) \in rows'[audit'[i].table]
    OBVIOUS
  <2>1. CASE i \in DOMAIN audit
    <3>1. /\ RowFor(audit[i].by, audit[i].subject) \in rows[audit[i].table]
          /\ audit[i].table \in Tables
      BY <2>1, AuditShape, ReceiptShape DEF BackedOK
    <3> QED BY <1>1, <1>2, <2>1, <3>1
  <2>2. CASE i = n + 1
    <3>1. RowFor(tx[w].command, tx[w].id) = PendingRow(w)
      BY DEF PendingRow
    <3> QED BY <1>1, <2>2, <3>1
  <2> QED BY <1>1, <2>1, <2>2
<1>5. \A c \in Commands : \A a \in answers'[c] :
        \E i \in DOMAIN audit' : audit'[i].by = c /\ audit'[i].subject = a.subject
  <2> SUFFICES ASSUME NEW c \in Commands, NEW a \in answers'[c]
               PROVE  \E i \in DOMAIN audit' : audit'[i].by = c /\ audit'[i].subject = a.subject
    OBVIOUS
  <2>1. CASE a \in answers[c]
    BY <1>2, <2>1 DEF BackedOK
  <2>2. CASE a \notin answers[c]
    <3>1. answers \in [Commands -> SUBSET [subject : Nat, revision : Nat]]
      BY DEF TypesOK
    <3>2. answers' = [answers EXCEPT ![tx[w].command] =
                        @ \cup {[subject |-> tx[w].id, revision |-> tx[w].revision]}]
          \/ answers' = answers
      BY DEF Commit
    <3>3. c = tx[w].command /\ a = [subject |-> tx[w].id, revision |-> tx[w].revision]
      BY <1>1, <2>2, <3>1, <3>2
    <3> QED BY <1>1, <1>2, <3>3
  <2> QED BY <2>1, <2>2
<1> QED BY <1>3, <1>4, <1>5 DEF BackedOK

\* The receipts up to a position can be counted.
LEMMA ForumUpToFinite ==
    ASSUME NEW i \in Nat
    PROVE  IsFiniteSet(ForumUpTo(i)) /\ Cardinality(ForumUpTo(i)) \in Nat
<1>1. IsFiniteSet(1..i)
    BY FS_Interval
<1> QED BY <1>1, FS_Subset, FS_CardinalityType DEF ForumUpTo

\* No receipt of the Forum has a revision beyond the current one.
LEMMA RevisionBound ==
    ASSUME TypesOK, RevisionsOK, NEW i \in DOMAIN audit, audit[i].table \in ForumTables
    PROVE  audit[i].revision \in Nat /\ audit[i].revision <= CurrentForumRevision
<1>1. Len(audit) \in Nat /\ i \in 1..Len(audit) /\ audit[i].revision \in Nat
    BY AuditShape, ReceiptShape
<1>2. ForumUpTo(i) \subseteq ForumUpTo(Len(audit))
    BY <1>1 DEF ForumUpTo
<1>3. Cardinality(ForumUpTo(i)) <= Cardinality(ForumUpTo(Len(audit)))
    BY <1>1, <1>2, ForumUpToFinite, FS_Subset
<1>4. audit[i].revision = Cardinality(ForumUpTo(i))
    BY DEF RevisionsOK, ForumRevisionsDense, ForumUpTo
<1> QED BY <1>1, <1>3, <1>4 DEF RevisionsOK

\* A new highest revision is the highest.
LEMMA HighestAdded ==
    ASSUME NEW S, NEW a, NEW cur \in Nat, \A b \in S : b.revision \in Nat /\ b.revision <= cur,
           a.revision = cur + 1
    PROVE  Highest(S \cup {a}) = cur + 1
<1> DEFINE T == S \cup {a}
           top == CHOOSE n \in {b.revision : b \in T} : \A b \in T : b.revision <= n
<1>1. cur + 1 \in {b.revision : b \in T} /\ \A b \in T : b.revision <= cur + 1
    OBVIOUS
<1>2. top \in {b.revision : b \in T} /\ \A b \in T : b.revision <= top
    BY <1>1
<1>3. PICK b \in T : top = b.revision
    BY <1>2
<1>4. Highest(T) = top
  <2>1. T # {}
    OBVIOUS
  <2> HIDE DEF T
  <2> QED BY <2>1 DEF Highest
<1> HIDE DEF top
<1>5. top \in Nat /\ top <= cur + 1 /\ cur + 1 <= top
    BY <1>1, <1>2, <1>3
<1> QED BY <1>4, <1>5

\* A commit appends a publication's receipt, which has no revision, or the
\* Forum's next revision.
LEMMA RevisionsCommit ==
    ASSUME TypesOK, LockOK, RevisionsOK, NEW w \in Callers, Commit(w)
    PROVE  RevisionsOK'
<1>0. PICK n, a, cur : n = Len(audit) /\ a = PendingReceipt(w) /\ cur = CurrentForumRevision
    OBVIOUS
<1>1. /\ n \in Nat /\ DOMAIN audit = 1..n /\ DOMAIN audit' = 1..(n + 1) /\ Len(audit') = n + 1
      /\ audit'[n + 1] = a /\ \A i \in 1..n : audit'[i] = audit[i]
      /\ a.table = Target(w) /\ a.revision = tx[w].revision
      /\ tx[w].command \in Known /\ tx[w].at = "receipted"
    BY <1>0, CommitEffect
<1>2. cur \in Nat
    BY <1>0, CurrentIsNat
<1>3. IsForum(tx[w].command) <=> a.table \in ForumTables
    BY <1>1, Operate DEF Target
<1>4. a.table \in ForumTables => a.revision = cur + 1
    BY <1>0, <1>1, <1>3 DEF RevisionsOK, Holding
<1>5. \A i \in 1..n : ForumUpTo(i)' = ForumUpTo(i)
    BY <1>1 DEF ForumUpTo
<1>6. ForumUpTo(n)' = ForumUpTo(n)
    BY <1>1 DEF ForumUpTo
<1>7. ForumUpTo(n + 1)' = IF a.table \in ForumTables THEN ForumUpTo(n) \cup {n + 1}
                                                     ELSE ForumUpTo(n)
    BY <1>1 DEF ForumUpTo
<1>8. IsFiniteSet(ForumUpTo(n)) /\ Cardinality(ForumUpTo(n)) = cur /\ n + 1 \notin ForumUpTo(n)
    BY <1>0, <1>1, ForumUpToFinite DEF RevisionsOK, ForumUpTo
<1>9. Cardinality(ForumUpTo(n + 1)') = IF a.table \in ForumTables THEN cur + 1 ELSE cur
    BY <1>7, <1>8, FS_AddElement
<1>10. CurrentForumRevision' = IF a.table \in ForumTables THEN cur + 1 ELSE cur
  <2>1. ForumReceipts' = IF a.table \in ForumTables THEN ForumReceipts \cup {a} ELSE ForumReceipts
    <3>1. Range(audit') = Range(audit) \cup {a}
      BY <1>1 DEF Range
    <3> QED BY <3>1 DEF ForumReceipts
  <2>2. \A b \in ForumReceipts : b.revision \in Nat /\ b.revision <= cur
    BY <1>0, RevisionBound DEF ForumReceipts, Range
  <2>3. CurrentForumRevision' = Highest(ForumReceipts')
    BY DEF CurrentForumRevision, Highest
  <2>4. CASE a.table \notin ForumTables
    BY <1>0, <2>1, <2>3, <2>4 DEF CurrentForumRevision
  <2>5. CASE a.table \in ForumTables
    BY <1>2, <1>4, <2>1, <2>2, <2>3, <2>5, HighestAdded
  <2> QED BY <2>4, <2>5
<1>11. ForumRevisionsDense'
  <2> SUFFICES ASSUME NEW i \in 1..(n + 1), audit'[i].table \in ForumTables
               PROVE  audit'[i].revision = Cardinality(ForumUpTo(i)')
    BY <1>1 DEF ForumRevisionsDense, ForumUpTo
  <2>1. CASE i \in 1..n
    <3>1. audit'[i] = audit[i] /\ i \in DOMAIN audit /\ ForumUpTo(i)' = ForumUpTo(i)
      BY <1>1, <1>5, <2>1
    <3> QED BY <3>1 DEF RevisionsOK, ForumRevisionsDense, ForumUpTo
  <2>2. CASE i = n + 1
    BY <1>1, <1>4, <1>9, <2>2
  <2> QED BY <1>1, <2>1, <2>2
<1>12. ASSUME NEW v \in Callers, Holding(v)', IsForum(tx'[v].command)
       PROVE  tx'[v].revision = CurrentForumRevision' + 1
  <2>1. tx'[v] # NoCall
    BY <1>12 DEF Holding, NoCall
  <2>2. v # w /\ tx'[v] = tx[v]
    BY <2>1, CommitCalls
  <2>3. Holding(v) /\ IsForum(tx[v].command)
    BY <1>12, <2>2 DEF Holding
  <2>4. a.table \notin ForumTables
    <3>1. ASSUME IsForum(tx[w].command)
          PROVE  FALSE
      <4>1. Writing(v) /\ Writing(w)
        BY <1>1, <2>3, <3>1 DEF Writing, Inside, Holding
      <4> QED BY <2>2, <4>1 DEF LockOK
    <3> QED BY <1>3, <3>1
  <2> QED BY <1>0, <1>10, <2>2, <2>3, <2>4 DEF RevisionsOK
<1>13. CurrentForumRevision' = Cardinality(ForumUpTo(Len(audit))')
  <2>1. ForumUpTo(Len(audit))' = ForumUpTo(n + 1)'
    BY <1>1 DEF ForumUpTo
  <2> QED BY <1>9, <1>10, <2>1
<1> QED BY <1>11, <1>12, <1>13 DEF RevisionsOK

-----------------------------------------------------------------------------
(* Pages                                                                   *)

\* A view reads one relation, and its order is total there.
LEMMA ViewOrder ==
    ASSUME TypesOK, IdsOK, NEW view \in Views
    PROVE  /\ TableRead(view) \in Tables /\ Visible(view) \subseteq rows[TableRead(view)]
           /\ \A a \in Visible(view) : a \in Row /\ ~Earlier(view, a, a)
           /\ \A a, b \in Visible(view) : a = b \/ Earlier(view, a, b) \/ Earlier(view, b, a)
           /\ \A a, b, c \in Visible(view) :
                Earlier(view, a, b) /\ Earlier(view, b, c) => Earlier(view, a, c)
<1>1. view \in {"topics", "threads", "posts", "search", "recent"}
    BY DiscourseAssumption
<1>2. TableRead(view) \in Tables /\ Visible(view) \subseteq rows[TableRead(view)]
    BY <1>1 DEF TableRead, Tables, Visible
<1>3. \A a \in Visible(view) : a \in Row /\ a.id \in Nat /\ a.by.rank \in Nat
    BY <1>2, RowShape DEF TypesOK
<1>4. \A a, b \in Visible(view) : a.id = b.id => a = b
    BY <1>2 DEF IdsOK
<1>5. \A a, b : Earlier(view, a, b) <=>
        \/ view \in {"topics", "threads", "posts"} /\ a.id < b.id
        \/ view = "search" /\ (a.by.rank > b.by.rank \/ (a.by.rank = b.by.rank /\ a.id < b.id))
        \/ view = "recent" /\ a.id > b.id
    BY <1>1 DEF Earlier, Listed
<1>6. \A a \in Visible(view) : ~Earlier(view, a, a)
    BY <1>3, <1>5
<1>7. \A a, b \in Visible(view) : a = b \/ Earlier(view, a, b) \/ Earlier(view, b, a)
    BY <1>1, <1>3, <1>4, <1>5
<1>8. \A a, b, c \in Visible(view) :
        Earlier(view, a, b) /\ Earlier(view, b, c) => Earlier(view, a, c)
    BY <1>3, <1>5
<1> QED BY <1>2, <1>3, <1>6, <1>7, <1>8

\* The rows of a view can be counted: they have different identities.
LEMMA ViewFinite ==
    ASSUME TypesOK, IdsOK, NEW view \in Views
    PROVE  IsFiniteSet(Visible(view))
<1> DEFINE V == Visible(view)
           t == TableRead(view)
           f == [x \in V |-> x.id]
           T == 0..nextId[t]
<1>1. t \in Tables /\ V \subseteq rows[t] /\ nextId[t] \in Nat
    BY ViewOrder DEF TypesOK
<1>2. IsFiniteSet(T)
  <2>1. 0 \in Int /\ nextId[t] \in Int
    BY <1>1
  <2> QED BY <2>1, FS_Interval
<1>3. \A x \in V : x.id \in T
    BY <1>1, ViewOrder, RowShape DEF IdsOK
<1>4. \A x, y \in V : x.id = y.id => x = y
    BY <1>1 DEF IdsOK
<1>5. f \in Injection(V, T)
    BY <1>3, <1>4 DEF Injection, IsInjective
<1> QED BY <1>2, <1>5, FS_Injection

\* R orders S strictly and totally.
Orders(R, S) ==
    /\ \A a \in S : <<a, a>> \notin R
    /\ \A a, b \in S : a = b \/ <<a, b>> \in R \/ <<b, a>> \in R
    /\ \A a, b, c \in S : <<a, b>> \in R /\ <<b, c>> \in R => <<a, c>> \in R

\* The members of S before x, and how many they are.
Below(R, S, x) == {b \in S : <<b, x>> \in R}
Place(R, S) == [x \in S |-> Cardinality(Below(R, S, x))]

\* The numbers below n are n many.
LEMMA FirstNumbers ==
    ASSUME NEW n \in Nat
    PROVE  /\ IsFiniteSet(0..(n - 1)) /\ Cardinality(0..(n - 1)) = n
           /\ \A p \in Nat : p <= n /\ p # n => p \in 0..(n - 1)
<1>1. 0 \in Int /\ n - 1 \in Int
    OBVIOUS
<1>2. IsFiniteSet(0..(n - 1)) /\ Cardinality(0..(n - 1)) = n
    BY <1>1, FS_Interval
<1> QED BY <1>2

\* The place of a member is a number below the size, and grows along the order.
LEMMA PlaceGrows ==
    ASSUME NEW S, IsFiniteSet(S), NEW R, Orders(R, S)
    PROVE  /\ Cardinality(S) \in Nat
           /\ \A x \in S : Place(R, S)[x] \in 0..(Cardinality(S) - 1)
           /\ \A x, y \in S : <<x, y>> \in R => Place(R, S)[x] < Place(R, S)[y]
<1>1. Cardinality(S) \in Nat
    BY FS_CardinalityType
<1>2. ASSUME NEW x \in S
      PROVE  /\ Place(R, S)[x] = Cardinality(Below(R, S, x)) /\ IsFiniteSet(Below(R, S, x))
             /\ Place(R, S)[x] \in Nat
  <2>1. Place(R, S)[x] = Cardinality(Below(R, S, x)) /\ Below(R, S, x) \in SUBSET S
    BY DEF Place, Below
  <2> QED BY <2>1, FS_Subset, FS_CardinalityType
<1>3. ASSUME NEW x \in S
      PROVE  Place(R, S)[x] \in 0..(Cardinality(S) - 1)
  <2>1. Below(R, S, x) \in SUBSET S /\ Below(R, S, x) # S
    BY DEF Below, Orders
  <2>2. Cardinality(Below(R, S, x)) <= Cardinality(S)
        /\ Cardinality(Below(R, S, x)) # Cardinality(S)
    BY <2>1, FS_Subset
  <2> QED BY <1>1, <1>2, <2>2, FirstNumbers
<1>4. ASSUME NEW x \in S, NEW y \in S, <<x, y>> \in R
      PROVE  Place(R, S)[x] < Place(R, S)[y]
  <2>1. /\ Below(R, S, x) \in SUBSET Below(R, S, y)
        /\ Below(R, S, x) # Below(R, S, y)
    BY <1>4 DEF Below, Orders
  <2>2. Cardinality(Below(R, S, x)) <= Cardinality(Below(R, S, y))
        /\ Cardinality(Below(R, S, y)) # Cardinality(Below(R, S, x))
    BY <1>2, <2>1, FS_Subset
  <2> QED BY <1>2, <2>2
<1> QED BY <1>1, <1>3, <1>4

\* Every place is taken by one member.  The places are counted: the pigeonhole
\* principle serves for an induction over the set.
LEMMA PlaceTaken ==
    ASSUME NEW S, IsFiniteSet(S), NEW R, Orders(R, S),
           NEW i \in 0..(Cardinality(S) - 1)
    PROVE  \E x \in S : Place(R, S)[x] = i
<1> DEFINE p == Place(R, S)
           n == Cardinality(S)
           T == 0..(n - 1)
<1>1. n \in Nat /\ (\A x \in S : p[x] \in T) /\ \A x, y \in S : <<x, y>> \in R => p[x] < p[y]
    BY PlaceGrows
<1>2. IsFiniteSet(T) /\ Cardinality(T) = n
    BY <1>1, FirstNumbers
<1>3. p \in [S -> T]
    BY <1>1 DEF Place
<1>4. \A x \in S : p[x] \in Int
    BY <1>1
<1> HIDE DEF p, T
<1>5. \A x, y \in S : p[x] = p[y] => x = y
  <2> SUFFICES ASSUME NEW x \in S, NEW y \in S, p[x] = p[y], x # y
               PROVE  FALSE
    OBVIOUS
  <2>1. <<x, y>> \in R \/ <<y, x>> \in R
    BY DEF Orders
  <2>2. p[x] < p[y] \/ p[y] < p[x]
    BY <1>1, <2>1
  <2> QED BY <1>4, <2>2
<1>6. p \in Injection(S, T)
    BY <1>3, <1>5 DEF Injection, IsInjective
<1>7. p \in Surjection(S, T)
    BY <1>2, <1>6, FS_Injection
<1>8. i \in T
    BY DEF T
<1> QED BY <1>7, <1>8 DEF Surjection, p

\* The order of a view as a relation.
OrderOf(view, S) == {p \in S \X S : Earlier(view, p[1], p[2])}

\* A page is the beginning of what lies beyond the cursor, in the view's order.
LEMMA PageHolds ==
    ASSUME TypesOK, IdsOK, NEW r \in Readers, reader[r].view \in Views, NEW n \in Nat,
           NEW p, p = Page(r, n), NEW B, B = Beyond(r)
    PROVE  /\ B = {row \in Visible(reader[r].view) : AfterCursor(r, row)}
           /\ Len(p) \in Nat /\ DOMAIN p = 1..Len(p) /\ p \in Seq(B) /\ Len(p) <= n
           /\ IsInjective(p)
           /\ \A i, j \in DOMAIN p : i < j => Earlier(reader[r].view, p[i], p[j])
           /\ \A i \in DOMAIN p : \A row \in B :
                Earlier(reader[r].view, row, p[i]) => row \in Range(p)
           /\ Len(p) < n => B \subseteq Range(p)
<1> DEFINE view == reader[r].view
           R == OrderOf(view, B)
           q == Place(R, B)
           found == Cardinality(B)
           k == IF found < n THEN found ELSE n
<1>1. B = {row \in Visible(view) : AfterCursor(r, row)}
    BY DEF Beyond, AfterCursor
<1>2. \A a, b \in B : <<a, b>> \in R <=> Earlier(view, a, b)
    BY DEF OrderOf
<1>3. Orders(R, B)
  <2>1. /\ \A a \in B : ~Earlier(view, a, a)
        /\ \A a, b \in B : a = b \/ Earlier(view, a, b) \/ Earlier(view, b, a)
        /\ \A a, b, c \in B : Earlier(view, a, b) /\ Earlier(view, b, c) => Earlier(view, a, c)
    BY <1>1, ViewOrder
  <2> HIDE DEF R
  <2> QED BY <1>2, <2>1 DEF Orders
<1>4. IsFiniteSet(B)
    BY <1>1, ViewFinite, FS_Subset
<1>5. /\ found \in Nat /\ (\A x \in B : q[x] \in 0..(found - 1))
      /\ \A x, y \in B : <<x, y>> \in R => q[x] < q[y]
    BY <1>3, <1>4, PlaceGrows
<1>6. \A i \in 0..(found - 1) : \E x \in B : q[x] = i
    BY <1>3, <1>4, PlaceTaken
<1>7. \A x \in B : q[x] = Cardinality(Before(r, x))
    BY <1>2 DEF Place, Below, Before
<1> HIDE DEF R, q, found
<1>8. k \in Nat /\ k <= found /\ k <= n /\ (k < n => k = found)
    BY <1>5
<1>9. p = [i \in 1..k |-> CHOOSE row \in B : Cardinality(Before(r, row)) = i - 1]
    BY DEF Page, found
<1>10. ASSUME NEW i \in 1..k
       PROVE  p[i] \in B /\ q[p[i]] = i - 1
  <2>1. i - 1 \in 0..(found - 1)
    BY <1>5, <1>8
  <2>2. PICK x \in B : q[x] = i - 1
    BY <1>6, <2>1
  <2>3. Cardinality(Before(r, x)) = i - 1
    BY <1>7, <2>2
  <2>4. p[i] = CHOOSE row \in B : Cardinality(Before(r, row)) = i - 1
    BY <1>9
  <2>5. p[i] \in B /\ Cardinality(Before(r, p[i])) = i - 1
    BY <2>3, <2>4
  <2> QED BY <1>7, <2>5
<1>11. /\ DOMAIN p = 1..k /\ p \in Seq(B) /\ Len(p) = k
  <2>1. p \in [1..k -> B]
    BY <1>9, <1>10
  <2> QED BY <1>8, <2>1
<1>12. ASSUME NEW x \in B, NEW y \in B, q[x] = q[y]
       PROVE  x = y
  <2>1. q[x] \in Int /\ q[y] \in Int
    BY <1>5
  <2>2. x # y => q[x] < q[y] \/ q[y] < q[x]
    BY <1>3, <1>5 DEF Orders
  <2> QED BY <1>12, <2>1, <2>2
<1>13. IsInjective(p)
  <2> SUFFICES ASSUME NEW i \in 1..k, NEW j \in 1..k, p[i] = p[j]
               PROVE  i = j
    BY <1>11 DEF IsInjective
  <2>1. q[p[i]] = i - 1 /\ q[p[j]] = j - 1
    BY <1>10
  <2>2. i - 1 = j - 1
    BY <2>1
  <2> QED BY <1>8, <2>2
<1>14. ASSUME NEW i \in 1..k, NEW j \in 1..k, i < j
       PROVE  Earlier(view, p[i], p[j])
  <2>1. p[i] \in B /\ p[j] \in B /\ q[p[i]] = i - 1 /\ q[p[j]] = j - 1
    BY <1>10
  <2>2. \/ p[i] = p[j] \/ <<p[i], p[j]>> \in R \/ <<p[j], p[i]>> \in R
    BY <1>3, <2>1 DEF Orders
  <2>3. i - 1 # j - 1 /\ ~(j - 1 < i - 1)
    BY <1>8, <1>14
  <2>4. <<p[i], p[j]>> \in R
    BY <1>5, <2>1, <2>2, <2>3
  <2> QED BY <1>2, <2>1, <2>4
<1>15. ASSUME NEW row \in B, q[row] + 1 \in 1..k
       PROVE  row \in Range(p)
  <2>1. PICK j \in 1..k : j = q[row] + 1
    BY <1>15
  <2>2. q[row] \in Int /\ j - 1 = q[row]
    BY <1>5, <2>1
  <2>3. p[j] \in B /\ q[p[j]] = q[row]
    BY <1>10, <2>2
  <2>4. p[j] = row
    BY <1>12, <2>3
  <2> QED BY <1>11, <2>4 DEF Range
<1>16. ASSUME NEW i \in 1..k, NEW row \in B, Earlier(view, row, p[i])
       PROVE  row \in Range(p)
  <2>1. p[i] \in B /\ q[p[i]] = i - 1
    BY <1>10
  <2>2. q[row] < i - 1 /\ q[row] \in 0..(found - 1)
    BY <1>2, <1>5, <1>16, <2>1
  <2>3. q[row] + 1 \in 1..k
    BY <1>5, <1>8, <2>2
  <2> QED BY <1>15, <2>3
<1>17. ASSUME k < n, NEW row \in B
       PROVE  row \in Range(p)
  <2>1. q[row] \in 0..(found - 1) /\ k = found
    BY <1>5, <1>8, <1>17
  <2>2. q[row] + 1 \in 1..k
    BY <1>5, <2>1
  <2> QED BY <1>15, <2>2
<1> HIDE DEF k
<1> QED BY <1>1, <1>8, <1>11, <1>13, <1>14, <1>16, <1>17

\* A page that Page returns is one that a reader may be sent.
LEMMA PageIsFirst ==
    ASSUME TypesOK, IdsOK, NEW r \in Readers, reader[r].view \in Views, NEW n \in Nat,
           NEW p, p = Page(r, n)
    PROVE  /\ Len(p) \in Nat /\ DOMAIN p = 1..Len(p) /\ Len(p) <= n
           /\ FirstBeyond(r, p)
           /\ Len(p) < n /\ reader[r].asOf \subseteq Visible(reader[r].view) => Exhausts(r, p)
<1> DEFINE V == Visible(reader[r].view)
<1>1. PICK B : B = Beyond(r)
    OBVIOUS
<1>2. /\ B = {row \in V : AfterCursor(r, row)}
      /\ Len(p) \in Nat /\ DOMAIN p = 1..Len(p) /\ p \in Seq(B) /\ Len(p) <= n
      /\ IsInjective(p)
      /\ \A i, j \in DOMAIN p : i < j => Earlier(reader[r].view, p[i], p[j])
      /\ \A i \in DOMAIN p : \A row \in B :
           Earlier(reader[r].view, row, p[i]) => row \in Range(p)
      /\ Len(p) < n => B \subseteq Range(p)
    BY <1>1, PageHolds
<1>3. p \in Seq(V) /\ \A i \in DOMAIN p : p[i] \in B
    BY <1>2
<1>4. FirstBeyond(r, p)
    BY <1>2, <1>3 DEF FirstBeyond
<1>5. ASSUME Len(p) < n, reader[r].asOf \subseteq V
      PROVE  Exhausts(r, p)
    BY <1>2, <1>5 DEF Exhausts
<1> QED BY <1>2, <1>4, <1>5

\* The fields of a reader.
LEMMA ReaderShape ==
    ASSUME TypesOK, NEW r \in Readers
    PROVE  /\ reader \in [Readers -> Reading] /\ reader[r] \in Reading
           /\ reader[r].seen \in Seq(Row) /\ reader[r].page \in Seq(Row)
           /\ reader[r].cursor \subseteq Row /\ reader[r].asOf \subseteq Row
           /\ reader[r].at \in {"idle", "reading", "attaching", "done"}
<1>1. reader \in [Readers -> Reading]
    BY DEF TypesOK
<1>2. reader[r] \in Reading
    BY <1>1
<1> QED BY <1>1, <1>2 DEF Reading

\* Two sequences without repetition and with no common member make one.
LEMMA JoinedInjective ==
    ASSUME NEW S, NEW s \in Seq(S), NEW t \in Seq(S), IsInjective(s), IsInjective(t),
           Range(s) \cap Range(t) = {}
    PROVE  /\ s \o t \in Seq(S) /\ IsInjective(s \o t)
           /\ Range(s \o t) = Range(s) \cup Range(t)
<1> DEFINE m == Len(s)
           n == Len(t)
           u == s \o t
<1>1. /\ m \in Nat /\ n \in Nat /\ DOMAIN s = 1..m /\ DOMAIN t = 1..n
      /\ u \in Seq(S) /\ Len(u) = m + n /\ DOMAIN u = 1..(m + n)
    OBVIOUS
<1>2. /\ \A i \in 1..m : u[i] = s[i]
      /\ \A i \in (m + 1)..(m + n) : u[i] = t[i - m] /\ i - m \in 1..n
    OBVIOUS
<1>3. \A i \in 1..m : u[i] \in Range(s)
    BY <1>1, <1>2 DEF Range
<1>4. \A i \in (m + 1)..(m + n) : u[i] \in Range(t)
    BY <1>1, <1>2 DEF Range
<1> HIDE DEF m, n, u
<1>5. ASSUME NEW i \in 1..(m + n), NEW j \in 1..(m + n), u[i] = u[j]
      PROVE  i = j
  <2>1. CASE i \in 1..m /\ j \in 1..m
    BY <1>1, <1>2, <1>5, <2>1 DEF IsInjective
  <2>2. CASE i \in (m + 1)..(m + n) /\ j \in (m + 1)..(m + n)
    <3>1. PICK a, b : a = i - m /\ b = j - m
      OBVIOUS
    <3>2. a \in DOMAIN t /\ b \in DOMAIN t /\ t[a] = t[b]
      BY <1>1, <1>2, <1>5, <2>2, <3>1
    <3>3. a = b
      BY <3>2 DEF IsInjective
    <3> QED BY <1>1, <3>1, <3>3
  <2>3. CASE \/ i \in 1..m /\ j \in (m + 1)..(m + n)
             \/ j \in 1..m /\ i \in (m + 1)..(m + n)
    BY <1>3, <1>4, <1>5, <2>3
  <2> QED BY <1>1, <2>1, <2>2, <2>3
<1>6. Range(u) \subseteq Range(s) \cup Range(t)
  <2>1. \A i \in 1..(m + n) : i \in 1..m \/ i \in (m + 1)..(m + n)
    BY <1>1
  <2> QED BY <1>1, <1>3, <1>4, <2>1 DEF Range
<1>7. Range(s) \subseteq Range(u)
  <2>1. \A i \in 1..m : i \in 1..(m + n)
    BY <1>1
  <2> QED BY <1>1, <1>2, <2>1 DEF Range
<1>8. Range(t) \subseteq Range(u)
  <2> SUFFICES ASSUME NEW j \in 1..n
               PROVE  t[j] \in Range(u)
    BY <1>1 DEF Range
  <2>1. /\ j + m \in (m + 1)..(m + n) /\ j + m \in 1..(m + n)
        /\ (j + m) - m = j
    BY <1>1
  <2>2. u[j + m] = t[j]
    BY <1>2, <2>1
  <2> QED BY <1>1, <2>1, <2>2 DEF Range
<1>9. IsInjective(u)
    BY <1>1, <1>5 DEF IsInjective
<1> QED BY <1>1, <1>6, <1>7, <1>8, <1>9 DEF u

\* Where a cursor is, a row lies beyond it or not, never both.
LEMMA CursorSplits ==
    ASSUME TypesOK, IdsOK, NEW r \in Readers, ReadingOK(r),
           NEW row \in Visible(reader[r].view)
    PROVE  AfterCursor(r, row) <=> ~BeforeCursor(r, row)
<1> DEFINE view == reader[r].view
<1>1. /\ view \in Views /\ reader[r].cursor \subseteq Visible(view)
      /\ \A a, b \in reader[r].cursor : a = b
    BY DEF ReadingOK
<1>2. /\ \A a \in Visible(view) : ~Earlier(view, a, a)
      /\ \A a, b \in Visible(view) : a = b \/ Earlier(view, a, b) \/ Earlier(view, b, a)
      /\ \A a, b, c \in Visible(view) :
           Earlier(view, a, b) /\ Earlier(view, b, c) => Earlier(view, a, c)
    BY <1>1, ViewOrder
<1>3. ASSUME AfterCursor(r, row), BeforeCursor(r, row)
      PROVE  FALSE
  <2>1. PICK c \in reader[r].cursor : row = c \/ Earlier(view, row, c)
    BY <1>3 DEF BeforeCursor, UpTo
  <2>2. Earlier(view, c, row) /\ c \in Visible(view)
    BY <1>1, <1>3, <2>1 DEF AfterCursor
  <2> QED BY <1>2, <2>1, <2>2
<1>4. ASSUME ~AfterCursor(r, row)
      PROVE  BeforeCursor(r, row)
  <2>1. PICK c \in reader[r].cursor : ~Earlier(view, c, row)
    BY <1>4 DEF AfterCursor
  <2>2. row = c \/ Earlier(view, row, c)
    BY <1>1, <1>2, <2>1
  <2> QED BY <2>1, <2>2 DEF BeforeCursor, UpTo
<1> QED BY <1>3, <1>4

\* A reply that begins beyond the cursor, and goes on or has exhausted the view,
\* leaves the reader in order.
LEMMA ReplyKeeps ==
    ASSUME TypesOK, IdsOK, NEW r \in Readers, ReadingOK(r), reader[r].at # "done", rows' = rows,
           NEW items, FirstBeyond(r, items), NEW next, Reply(r, items, next),
           \/ next = {} /\ Exhausts(r, items)
           \/ items # <<>> /\ next = {items[Len(items)]}
    PROVE  /\ ReadingOK(r)' /\ reader' \in [Readers -> Reading] /\ reader'[r].at # "idle"
           /\ \A q \in Readers \ {r} : reader'[q] = reader[q]
<1>1. PICK R, view, V, P :
        R = reader[r] /\ view = R.view /\ V = Visible(view) /\ P = reader'[r]
    OBVIOUS
<1>2. /\ reader \in [Readers -> Reading] /\ R \in Reading /\ R.seen \in Seq(Row)
      /\ R.cursor \subseteq Row /\ R.asOf \subseteq Row
    BY <1>1, ReaderShape
<1>3. /\ view \in Views /\ R.cursor \subseteq V /\ R.asOf \subseteq V
      /\ (\A a, b \in R.cursor : a = b) /\ Range(R.seen) \subseteq V /\ IsInjective(R.seen)
      /\ \A row \in Range(R.seen) : BeforeCursor(r, row)
      /\ \A row \in V : BeforeCursor(r, row) /\ (Listed(view) \/ row \in R.asOf)
           => row \in Range(R.seen)
    BY <1>1 DEF ReadingOK
<1>4. V \subseteq Row
    BY <1>1, <1>3, ViewOrder
<1>5. /\ items \in Seq(V) /\ IsInjective(items)
      /\ \A i \in DOMAIN items : AfterCursor(r, items[i])
      /\ \A i, j \in DOMAIN items : i < j => Earlier(view, items[i], items[j])
      /\ \A i \in DOMAIN items : \A row \in V :
           AfterCursor(r, row) /\ Earlier(view, row, items[i])
           /\ (Listed(view) \/ row \in R.asOf) => row \in Range(items)
    BY <1>1 DEF FirstBeyond
<1>6. items \in Seq(Row) /\ Range(items) \subseteq V
    BY <1>4, <1>5 DEF Range
<1>7. Range(R.seen) \cap Range(items) = {}
  <2>1. \A row \in Range(items) : AfterCursor(r, row) /\ row \in V
    BY <1>5, <1>6 DEF Range
  <2>2. \A row \in V : ~(AfterCursor(r, row) /\ BeforeCursor(r, row))
    BY <1>1, CursorSplits
  <2> QED BY <1>3, <2>1, <2>2
<1>8. /\ R.seen \o items \in Seq(Row) /\ IsInjective(R.seen \o items)
      /\ Range(R.seen \o items) = Range(R.seen) \cup Range(items)
    BY <1>2, <1>3, <1>5, <1>6, <1>7, JoinedInjective
<1>9. /\ reader' = [reader EXCEPT ![r] = P]
      /\ P = [R EXCEPT !.seen = R.seen \o items, !.cursor = next, !.page = <<>>,
                       !.at = IF next = {} THEN "done" ELSE "reading"]
    BY <1>1, <1>2 DEF Reply
<1>10. next \subseteq V /\ next \subseteq Row /\ \A a, b \in next : a = b
  <2>1. items # <<>> => Len(items) \in DOMAIN items /\ items[Len(items)] \in V
    BY <1>5
  <2> QED BY <1>4, <2>1
<1>11. /\ P.seen = R.seen \o items /\ P.cursor = next /\ P.page = <<>> /\ P.view = view
       /\ P.asOf = R.asOf /\ P.at = IF next = {} THEN "done" ELSE "reading"
    BY <1>1, <1>2, <1>9 DEF Reading
<1>12. P \in Reading
  <2>1. <<>> \in Seq(Row)
    OBVIOUS
  <2> QED BY <1>2, <1>8, <1>9, <1>10, <2>1 DEF Reading
<1>13. reader' \in [Readers -> Reading] /\ \A q \in Readers \ {r} : reader'[q] = reader[q]
    BY <1>2, <1>9, <1>12
<1>14. Visible(view)' = V
    BY <1>1 DEF Visible
<1>15. \A row \in V : (\E c \in next : UpTo(view, row, c)) /\ (Listed(view) \/ row \in R.asOf)
         => row \in Range(P.seen)
  <2> SUFFICES ASSUME NEW row \in V, NEW c \in next, UpTo(view, row, c),
                      Listed(view) \/ row \in R.asOf
               PROVE  row \in Range(R.seen) \cup Range(items)
    BY <1>8, <1>11
  <2>1. CASE BeforeCursor(r, row)
    BY <1>3, <2>1
  <2>2. CASE ~BeforeCursor(r, row)
    <3>1. AfterCursor(r, row)
      BY <1>1, <2>2, CursorSplits
    <3>2. c = items[Len(items)] /\ Len(items) \in DOMAIN items
      BY <1>5
    <3> QED BY <1>5, <3>1, <3>2 DEF UpTo, Range
  <2> QED BY <2>1, <2>2
<1>16. next = {} => R.asOf \subseteq Range(P.seen)
  <2> SUFFICES ASSUME next = {}, NEW row \in R.asOf
               PROVE  row \in Range(R.seen) \cup Range(items)
    BY <1>8, <1>11
  <2>1. row \in V /\ Exhausts(r, items)
    BY <1>3
  <2>2. CASE BeforeCursor(r, row)
    BY <1>3, <2>1, <2>2
  <2>3. CASE ~BeforeCursor(r, row)
    BY <1>1, <2>1, <2>3, CursorSplits DEF Exhausts
  <2> QED BY <2>2, <2>3
<1>17. next # {} => \A row \in Range(P.seen) : \E c \in next : UpTo(view, row, c)
  <2> SUFFICES ASSUME next # {}, NEW row \in Range(R.seen) \cup Range(items)
               PROVE  \E c \in next : UpTo(view, row, c)
    BY <1>8, <1>11
  <2>1. PICK n : n = Len(items)
    OBVIOUS
  <2>2. next = {items[n]} /\ n \in DOMAIN items /\ items[n] \in V
    BY <1>5, <2>1
  <2>3. CASE row \in Range(items)
    <3>1. PICK i \in DOMAIN items : row = items[i]
      BY <2>3 DEF Range
    <3>2. i = n \/ i < n
      BY <1>5, <2>1, <3>1
    <3> QED BY <1>5, <2>2, <3>1, <3>2 DEF UpTo
  <2>4. CASE row \in Range(R.seen)
    <3>1. PICK c \in R.cursor : row = c \/ Earlier(view, row, c)
      BY <1>1, <1>3, <2>4 DEF BeforeCursor, UpTo
    <3>2. Earlier(view, c, items[n]) /\ c \in V /\ row \in V
      BY <1>1, <1>3, <1>5, <2>2, <2>4, <3>1 DEF AfterCursor
    <3>3. Earlier(view, row, items[n])
      BY <1>1, <1>3, <2>2, <3>1, <3>2, ViewOrder
    <3> QED BY <2>2, <3>3 DEF UpTo
  <2> QED BY <2>3, <2>4
<1>18. ReadingOK(r)'
  <2>1. /\ reader'[r].view = view /\ reader'[r].cursor = next /\ reader'[r].asOf = R.asOf
        /\ reader'[r].seen = P.seen
        /\ reader'[r].at = IF next = {} THEN "done" ELSE "reading"
    BY <1>1, <1>11
  <2>2. /\ view \in Views /\ next \subseteq V /\ R.asOf \subseteq V
        /\ (\A a, b \in next : a = b) /\ Range(P.seen) \subseteq V /\ IsInjective(P.seen)
    BY <1>3, <1>6, <1>8, <1>10, <1>11
  <2>3. \A row : BeforeCursor(r, row)' <=> \E c \in next : UpTo(view, row, c)
    BY <2>1 DEF BeforeCursor, UpTo, Earlier, Listed
  <2>4. Visible(reader[r].view)' = V
    BY <1>1, <2>1 DEF Visible
  <2> QED BY <1>15, <1>16, <1>17, <2>1, <2>2, <2>3, <2>4 DEF ReadingOK
<1> QED BY <1>1, <1>11, <1>13, <1>18

\* What a reader's step has to keep.
Kept(r) ==
    /\ ReadingOK(r)' /\ reader' \in [Readers -> Reading] /\ reader'[r].at # "idle"
    /\ \A q \in Readers \ {r} : reader'[q] = reader[q]

\* A first request has passed nothing.
LEMMA StartKeeps ==
    ASSUME TypesOK, IdsOK, NEW r \in Readers, NEW view \in Views, StartReading(r, view)
    PROVE  Kept(r)
<1>1. PICK P : P = [NoReading EXCEPT !.at = "reading", !.view = view, !.asOf = Visible(view)]
    OBVIOUS
<1>2. /\ P.at = "reading" /\ P.view = view /\ P.asOf = Visible(view) /\ P.cursor = {}
      /\ P.seen = <<>> /\ P.page = <<>>
    BY <1>1 DEF NoReading
<1>3. reader' = [reader EXCEPT ![r] = P] /\ reader \in [Readers -> Reading] /\ rows' = rows
    BY <1>1, ReaderShape DEF StartReading
<1>4. P \in Reading
  <2>1. Visible(view) \subseteq Row /\ <<>> \in Seq(Row)
    BY ViewOrder
  <2> QED BY <1>1, <2>1 DEF NoReading, Reading
<1>5. /\ reader'[r] = P /\ reader' \in [Readers -> Reading]
      /\ \A q \in Readers \ {r} : reader'[q] = reader[q]
    BY <1>3, <1>4
<1>6. Visible(view)' = Visible(view) /\ Visible(reader[r].view)' = Visible(view)
    BY <1>2, <1>3, <1>5 DEF Visible
<1>7. Range(P.seen) = {} /\ IsInjective(P.seen)
    BY <1>2 DEF Range, IsInjective
<1>8. ReadingOK(r)'
    BY <1>2, <1>5, <1>6, <1>7 DEF ReadingOK, BeforeCursor
<1> QED BY <1>2, <1>5, <1>8 DEF Kept

\* A list or a search goes on after the last item of a full page.
LEMMA ListKeeps ==
    ASSUME TypesOK, IdsOK, NEW r \in Readers, ReadingOK(r), NEW view, ReadPage(r, view)
    PROVE  Kept(r)
<1>1. PICK items : items = Page(r, PageLimit)
    OBVIOUS
<1>2. /\ reader[r].at = "reading" /\ Reply(r, items, PageCursor(items)) /\ rows' = rows
    BY <1>1 DEF ReadPage
<1>3. PageLimit \in Nat /\ PageLimit # 0 /\ reader[r].view \in Views
      /\ reader[r].asOf \subseteq Visible(reader[r].view)
    BY DiscourseAssumption DEF ReadingOK
<1>4. /\ Len(items) \in Nat /\ Len(items) <= PageLimit /\ FirstBeyond(r, items)
      /\ Len(items) < PageLimit => Exhausts(r, items)
    BY <1>1, <1>3, PageIsFirst
<1>5. CASE Len(items) = PageLimit
  <2>1. items # <<>>
    BY <1>3, <1>5
  <2>2. PageCursor(items) = {items[Len(items)]}
    BY <1>5 DEF PageCursor
  <2> QED BY <1>2, <1>4, <2>1, <2>2, ReplyKeeps DEF Kept
<1>6. CASE Len(items) # PageLimit
  <2>1. PageCursor(items) = {} /\ Exhausts(r, items)
    BY <1>3, <1>4, <1>6 DEF PageCursor
  <2> QED BY <1>2, <1>4, <2>1, ReplyKeeps DEF Kept
<1> QED BY <1>5, <1>6

\* The beginning of a page is a page.
LEMMA PrefixIsFirst ==
    ASSUME TypesOK, IdsOK, NEW r \in Readers, reader[r].view \in Views, NEW items,
           FirstBeyond(r, items), NEW n \in Nat, n <= Len(items)
    PROVE  /\ FirstBeyond(r, SubSeq(items, 1, n)) /\ Len(SubSeq(items, 1, n)) = n
           /\ \A i \in 1..n : SubSeq(items, 1, n)[i] = items[i]
<1>1. PICK V, view, p : /\ view = reader[r].view /\ V = Visible(view) /\ p = SubSeq(items, 1, n)
    OBVIOUS
<1>2. /\ items \in Seq(V) /\ IsInjective(items)
      /\ \A i \in DOMAIN items : AfterCursor(r, items[i])
      /\ \A i, j \in DOMAIN items : i < j => Earlier(view, items[i], items[j])
      /\ \A i \in DOMAIN items : \A row \in V :
           AfterCursor(r, row) /\ Earlier(view, row, items[i])
           /\ (Listed(view) \/ row \in reader[r].asOf) => row \in Range(items)
    BY <1>1 DEF FirstBeyond
<1>3. /\ p \in Seq(V) /\ Len(p) = n /\ DOMAIN p = 1..n /\ \A i \in 1..n : p[i] = items[i]
    BY <1>1, <1>2
<1>4. DOMAIN items = 1..Len(items) /\ Len(items) \in Nat /\ 1..n \subseteq DOMAIN items
    BY <1>2
<1>5. IsInjective(p)
    BY <1>2, <1>3, <1>4 DEF IsInjective
<1>6. ASSUME NEW i \in 1..n, NEW row \in V, row \in Range(items), Earlier(view, row, items[i])
      PROVE  row \in Range(p)
  <2>1. PICK j \in DOMAIN items : row = items[j]
    BY <1>6 DEF Range
  <2>2. i \in DOMAIN items /\ items[i] \in V /\ items[j] \in V
    BY <1>2, <1>4
  <2>3. ~Earlier(view, items[i], items[j])
    BY <1>1, <1>6, <2>1, <2>2, ViewOrder
  <2>4. ~Earlier(view, items[j], items[j])
    BY <1>1, <2>2, ViewOrder
  <2>5. ~(i < j) /\ i # j
    BY <1>2, <1>6, <2>1, <2>2, <2>3, <2>4
  <2>6. j \in 1..n
    BY <1>4, <2>5
  <2> QED BY <1>3, <2>1, <2>6 DEF Range
<1> DEFINE Leads(i, row) ==
             /\ AfterCursor(r, row) /\ Earlier(view, row, p[i])
             /\ (Listed(view) \/ row \in reader[r].asOf)
<1>7. ASSUME NEW i \in 1..n, NEW row \in V, Leads(i, row)
      PROVE  row \in Range(p)
  <2>1. i \in DOMAIN items /\ p[i] = items[i]
    BY <1>3, <1>4
  <2>2. row \in Range(items)
    BY <1>2, <1>7, <2>1
  <2> QED BY <1>6, <1>7, <2>1, <2>2
<1>8. \A i \in DOMAIN p : AfterCursor(r, p[i])
  <2> SUFFICES ASSUME NEW i \in 1..n
               PROVE  AfterCursor(r, p[i])
    BY <1>3
  <2>1. i \in DOMAIN items /\ p[i] = items[i]
    BY <1>3, <1>4
  <2> QED BY <1>2, <2>1
<1>9. \A i, j \in DOMAIN p : i < j => Earlier(view, p[i], p[j])
  <2> SUFFICES ASSUME NEW i \in 1..n, NEW j \in 1..n, i < j
               PROVE  Earlier(view, p[i], p[j])
    BY <1>3
  <2>1. /\ i \in DOMAIN items /\ p[i] = items[i]
        /\ j \in DOMAIN items /\ p[j] = items[j]
    BY <1>3, <1>4
  <2> QED BY <1>2, <2>1
<1>10. FirstBeyond(r, p)
  <2>1. \A i \in DOMAIN p : \A row \in V : Leads(i, row) => row \in Range(p)
    BY <1>3, <1>7
  <2> QED BY <1>1, <1>3, <1>5, <1>8, <1>9, <2>1 DEF FirstBeyond
<1> QED BY <1>1, <1>3, <1>10

\* The operator's search looks one row further than it replies.
LEMMA SearchKeeps ==
    ASSUME TypesOK, IdsOK, NEW r \in Readers, ReadingOK(r), InstitutionalSearch(r)
    PROVE  Kept(r)
<1>1. PICK found : found = Page(r, PageLimit + 1)
    OBVIOUS
<1>2. PICK items : items = IF Len(found) > PageLimit THEN SubSeq(found, 1, PageLimit) ELSE found
    OBVIOUS
<1>3. /\ reader[r].at = "reading" /\ rows' = rows
      /\ Reply(r, items, IF Len(found) > PageLimit THEN {items[Len(items)]} ELSE {})
    BY <1>1, <1>2 DEF InstitutionalSearch
<1>4. PageLimit \in Nat /\ PageLimit # 0 /\ reader[r].view \in Views
      /\ reader[r].asOf \subseteq Visible(reader[r].view) /\ PageLimit + 1 \in Nat
    BY DiscourseAssumption DEF ReadingOK
<1>5. /\ Len(found) \in Nat /\ FirstBeyond(r, found)
      /\ Len(found) < PageLimit + 1 => Exhausts(r, found)
    BY <1>1, <1>4, PageIsFirst
<1>6. CASE Len(found) > PageLimit
  <2>1. FirstBeyond(r, items) /\ Len(items) = PageLimit
    BY <1>2, <1>4, <1>5, <1>6, PrefixIsFirst
  <2>2. items # <<>>
    BY <1>4, <2>1
  <2>3. Reply(r, items, {items[Len(items)]})
    BY <1>3, <1>6
  <2> QED BY <1>3, <2>1, <2>2, <2>3, ReplyKeeps DEF Kept
<1>7. CASE ~(Len(found) > PageLimit)
  <2>1. FirstBeyond(r, items) /\ Exhausts(r, items)
    BY <1>2, <1>4, <1>5, <1>7
  <2>2. Reply(r, items, {})
    BY <1>3, <1>7
  <2> QED BY <1>3, <2>1, <2>2, ReplyKeeps DEF Kept
<1> QED BY <1>6, <1>7

\* The posts of a page wait for their attachments.
LEMMA PostsKeeps ==
    ASSUME TypesOK, IdsOK, NEW r \in Readers, ReadingOK(r), ReadPosts(r)
    PROVE  Kept(r)
<1>1. PICK items : items = Page(r, PageLimit)
    OBVIOUS
<1>2. /\ reader[r].at = "reading" /\ reader[r].view = "posts" /\ rows' = rows
      /\ IF items = <<>> THEN Reply(r, <<>>, {})
           ELSE reader' = [reader EXCEPT ![r].at = "attaching", ![r].page = items]
    BY <1>1 DEF ReadPosts
<1>3. /\ PageLimit \in Nat /\ PageLimit # 0 /\ reader[r].view \in Views
      /\ reader[r].asOf \subseteq Visible(reader[r].view)
    BY DiscourseAssumption DEF ReadingOK
<1>4. /\ Len(items) \in Nat /\ Len(items) <= PageLimit /\ FirstBeyond(r, items)
      /\ Len(items) < PageLimit => Exhausts(r, items)
    BY <1>1, <1>3, PageIsFirst
<1>5. CASE items = <<>>
  <2>1. Exhausts(r, items)
    BY <1>3, <1>4, <1>5
  <2>2. Reply(r, items, {})
    BY <1>2, <1>5
  <2> QED BY <1>2, <1>4, <2>1, <2>2, ReplyKeeps DEF Kept
<1>6. CASE items # <<>>
  <2>1. PICK R, P, V : /\ R = reader[r] /\ V = Visible(R.view)
                       /\ P = [R EXCEPT !.at = "attaching", !.page = items]
    OBVIOUS
  <2>2. reader \in [Readers -> Reading] /\ R \in Reading
    BY <2>1, ReaderShape
  <2>3. /\ P.at = "attaching" /\ P.page = items /\ P.view = R.view /\ P.asOf = R.asOf
        /\ P.cursor = R.cursor /\ P.seen = R.seen
    BY <2>1, <2>2 DEF Reading
  <2>4. items \in Seq(Row)
    BY <1>3, <1>4, ViewOrder DEF FirstBeyond
  <2>5. P \in Reading
    BY <2>1, <2>2, <2>4 DEF Reading
  <2>6. reader' = [reader EXCEPT ![r] = P]
    BY <1>2, <1>6, <2>1, <2>2
  <2>7. /\ reader'[r] = P /\ reader' \in [Readers -> Reading]
        /\ \A q \in Readers \ {r} : reader'[q] = reader[q]
    BY <2>2, <2>5, <2>6
  <2>8. Visible(reader[r].view)' = V
    BY <1>2, <2>1, <2>3, <2>7 DEF Visible
  <2>9. \A row : /\ BeforeCursor(r, row)' <=> BeforeCursor(r, row)
                 /\ AfterCursor(r, row)' <=> AfterCursor(r, row)
    BY <2>1, <2>3, <2>7 DEF BeforeCursor, AfterCursor, UpTo, Earlier, Listed
  <2>10. FirstBeyond(r, items)'
    <3>1. /\ items \in Seq(V) /\ IsInjective(items)
          /\ \A i \in DOMAIN items : AfterCursor(r, items[i])'
          /\ \A i, j \in DOMAIN items : i < j => Earlier(R.view, items[i], items[j])
          /\ \A i \in DOMAIN items : \A row \in V :
               AfterCursor(r, row)' /\ Earlier(R.view, row, items[i])
               /\ (Listed(R.view) \/ row \in R.asOf) => row \in Range(items)
      BY <1>4, <2>1, <2>9 DEF FirstBeyond
    <3>2. reader'[r].view = R.view /\ reader'[r].asOf = R.asOf
      BY <2>3, <2>7
    <3>3. /\ Listed(reader[r].view)' <=> Listed(R.view)
          /\ \A a, b : Earlier(reader[r].view, a, b)' <=> Earlier(R.view, a, b)
      BY <3>2 DEF Earlier, Listed
    <3> QED BY <2>8, <3>1, <3>2, <3>3 DEF FirstBeyond
  <2>11. Exhausts(r, items)' <=> Exhausts(r, items)
    BY <2>1, <2>3, <2>7, <2>9 DEF Exhausts
  <2>12. reader'[r].page = items
    BY <2>3, <2>7
  <2>13. /\ R.view \in Views /\ R.cursor \subseteq V /\ R.asOf \subseteq V
         /\ (\A a, b \in R.cursor : a = b) /\ Range(R.seen) \subseteq V /\ IsInjective(R.seen)
         /\ \A row \in Range(R.seen) : BeforeCursor(r, row)
         /\ \A row \in V : BeforeCursor(r, row) /\ (Listed(R.view) \/ row \in R.asOf)
              => row \in Range(R.seen)
    BY <1>2, <2>1 DEF ReadingOK
  <2>14. /\ reader'[r].view = R.view /\ reader'[r].cursor = R.cursor
         /\ reader'[r].asOf = R.asOf /\ reader'[r].seen = R.seen
         /\ reader'[r].at = "attaching" /\ R.view = "posts"
    BY <1>2, <2>1, <2>3, <2>7
  <2>15. FirstBeyond(r, items)' /\ (Len(items) < PageLimit => Exhausts(r, items)')
    BY <1>4, <2>10, <2>11
  <2>16. ReadingOK(r)'
    BY <1>4, <1>6, <2>8, <2>9, <2>12, <2>13, <2>14, <2>15 DEF ReadingOK, Listed
  <2> QED BY <2>3, <2>7, <2>16 DEF Kept
<1> QED BY <1>5, <1>6

\* The attachments of a post are those it was written with: its row is the only
\* one with its identity, so the second statement finds the post of the first.
LEMMA AttachKeeps ==
    ASSUME TypesOK, IdsOK, NEW r \in Readers, ReadingOK(r), ReadAttachments(r)
    PROVE  Kept(r)
<1>1. PICK page, V : page = reader[r].page /\ V = Visible("posts")
    OBVIOUS
<1>2. /\ reader[r].at = "attaching" /\ rows' = rows
      /\ reader[r].view = "posts" /\ "posts" \in Views /\ page # <<>>
      /\ FirstBeyond(r, page) /\ Len(page) <= PageLimit
      /\ Len(page) < PageLimit => Exhausts(r, page)
    BY <1>1 DEF ReadAttachments, ReadingOK
<1>3. page \in Seq(V)
    BY <1>1, <1>2 DEF FirstBeyond
<1>4. /\ V \subseteq rows["posts"] /\ V \subseteq Row
      /\ \A x, y \in rows["posts"] : x.id = y.id => x = y
    BY <1>1, <1>2, ViewOrder DEF IdsOK, TableRead, Tables
<1>5. ASSUME NEW i \in DOMAIN page
      PROVE  [page[i] EXCEPT !.artifacts =
                UNION {row.artifacts : row \in {p \in rows["posts"] : p.id = page[i].id}}]
             = page[i]
  <2>1. page[i] \in V
    BY <1>3
  <2>2. {p \in rows["posts"] : p.id = page[i].id} = {page[i]}
    BY <1>4, <2>1
  <2>3. PICK c \in Known, n \in Nat : page[i] = RowFor(c, n)
    BY <1>4, <2>1 DEF Row
  <2>4. UNION {row.artifacts : row \in {page[i]}} = page[i].artifacts
    OBVIOUS
  <2>5. [page[i] EXCEPT !.artifacts = page[i].artifacts] = page[i]
    BY <2>3 DEF RowFor
  <2> QED BY <2>2, <2>4, <2>5
<1>6. [i \in DOMAIN page |->
         [page[i] EXCEPT !.artifacts =
            UNION {row.artifacts : row \in {p \in rows["posts"] : p.id = page[i].id}}]] = page
  <2>1. page = [i \in DOMAIN page |-> page[i]]
    BY <1>3
  <2> QED BY <1>5, <2>1
<1>7. Reply(r, page, PageCursor(page))
    BY <1>1, <1>6 DEF ReadAttachments
<1>8. CASE Len(page) = PageLimit
  <2>1. PageCursor(page) = {page[Len(page)]}
    BY <1>8 DEF PageCursor
  <2> QED BY <1>2, <1>7, <2>1, ReplyKeeps DEF Kept
<1>9. CASE Len(page) # PageLimit
  <2>1. Len(page) \in Nat /\ PageLimit \in Nat
    BY <1>3, DiscourseAssumption
  <2>2. PageCursor(page) = {} /\ Exhausts(r, page)
    BY <1>2, <1>9, <2>1 DEF PageCursor
  <2> QED BY <1>2, <1>7, <2>2, ReplyKeeps DEF Kept
<1> QED BY <1>8, <1>9

\* A reader that makes no step stays in order while no row is committed.
LEMMA ReadingStays ==
    ASSUME NEW r, ReadingOK(r), rows' = rows, reader'[r] = reader[r]
    PROVE  ReadingOK(r)'
<1>1. PICK R, V : R = reader[r] /\ V = Visible(R.view)
    OBVIOUS
<1>2. reader'[r] = R /\ Visible(reader[r].view)' = V /\ Visible(reader[r].view) = V
    BY <1>1 DEF Visible
<1>3. \A row : /\ BeforeCursor(r, row)' <=> BeforeCursor(r, row)
               /\ AfterCursor(r, row)' <=> AfterCursor(r, row)
    BY DEF BeforeCursor, AfterCursor, UpTo, Earlier, Listed
<1>4. FirstBeyond(r, R.page)' <=> FirstBeyond(r, R.page)
    BY <1>1, <1>2, <1>3 DEF FirstBeyond, Earlier, Listed
<1>5. Exhausts(r, R.page)' <=> Exhausts(r, R.page)
    BY <1>1, <1>2, <1>3 DEF Exhausts
<1> QED BY <1>1, <1>2, <1>3, <1>4, <1>5 DEF ReadingOK, Listed

\* A step of a reader keeps the readers in order.
LEMMA ReadersStep ==
    ASSUME TypesOK, IdsOK, ReadersOK, NEW r \in Readers, ReaderStep(r)
    PROVE  /\ UNCHANGED <<rows, nextId, audit, forumLock, tx, answers>>
           /\ reader' \in [Readers -> Reading] /\ ReadersOK'
<1>1. UNCHANGED <<rows, nextId, audit, forumLock, tx, answers>>
    BY DEF ReaderStep, StartReading, ListTopics, ListThreads, SearchForum, ReadPage, ReadPosts,
           ReadAttachments, InstitutionalSearch
<1>2. ASSUME \E view \in Views : StartReading(r, view)
      PROVE  Kept(r)
    BY <1>2, StartKeeps
<1>3. reader[r].at \in {"reading", "attaching"} => ReadingOK(r)
    BY DEF ReadersOK
<1>4. ASSUME ListTopics(r) \/ ListThreads(r) \/ SearchForum(r)
      PROVE  Kept(r)
    BY <1>3, <1>4, ListKeeps DEF ListTopics, ListThreads, SearchForum, ReadPage
<1>5. ASSUME ReadPosts(r)
      PROVE  Kept(r)
    BY <1>3, <1>5, PostsKeeps DEF ReadPosts
<1>6. ASSUME ReadAttachments(r)
      PROVE  Kept(r)
    BY <1>3, <1>6, AttachKeeps DEF ReadAttachments
<1>7. ASSUME InstitutionalSearch(r)
      PROVE  Kept(r)
    BY <1>3, <1>7, SearchKeeps DEF InstitutionalSearch
<1>8. Kept(r)
    BY <1>2, <1>4, <1>5, <1>6, <1>7 DEF ReaderStep
<1>9. ASSUME NEW q \in Readers \ {r}, reader'[q] = reader[q], rows' = rows, ReadingOK(q)
      PROVE  ReadingOK(q)'
    BY <1>9, ReadingStays
<1> QED BY <1>1, <1>8, <1>9 DEF Kept, ReadersOK

\* A row that appears in a list comes after every row that was there.
LEMMA RowAppears ==
    ASSUME TypesOK, IdsOK, NEW w \in Callers, Commit(w), NEW view \in Views
    PROVE  /\ Visible(view) \subseteq Visible(view)'
           /\ \A x \in Visible(view)' : x \notin Visible(view) /\ Listed(view) =>
                \A y \in Visible(view) : ~Earlier(view, x, y)
<1>1. view \in {"topics", "threads", "posts", "search", "recent"}
    BY DiscourseAssumption
<1>2. TableRead(view) \in Tables /\ (Listed(view) => TableRead(view) \in ForumTables)
    BY <1>1 DEF TableRead, Tables, ForumTables, Listed
<1>3. /\ rows'[Target(w)] = rows[Target(w)] \cup {PendingRow(w)}
      /\ \A t \in Tables : t # Target(w) => rows'[t] = rows[t]
      /\ PendingRow(w).id = tx[w].id
    BY CommitEffect
<1>4. Visible(view)' = {row \in rows'[TableRead(view)] : InScope(view, row)}
    BY DEF Visible, TableRead, InScope
<1>5. Visible(view) \subseteq Visible(view)'
    BY <1>2, <1>3, <1>4 DEF Visible
<1>6. ASSUME NEW x \in Visible(view)', x \notin Visible(view), Listed(view),
             NEW y \in Visible(view)
      PROVE  ~Earlier(view, x, y)
  <2>1. x = PendingRow(w) /\ TableRead(view) = Target(w)
    BY <1>2, <1>3, <1>4, <1>6 DEF Visible
  <2>2. y \in rows[Target(w)] /\ Target(w) \in ForumTables /\ y \in Row
    BY <1>2, <1>6, <2>1, ViewOrder DEF Visible
  <2>3. y.id < x.id /\ y.id \in Nat /\ x.id \in Nat
    BY <1>3, <2>1, <2>2, CommitFresh, CommitEffect, RowShape
  <2>4. Earlier(view, x, y) <=> x.id < y.id
    BY <1>1, <1>6 DEF Earlier, Listed
  <2> QED BY <2>3, <2>4
<1> QED BY <1>5, <1>6

\* A commit shows a reader nothing that it has passed.
LEMMA ReadingCommit ==
    ASSUME TypesOK, IdsOK, NEW w \in Callers, Commit(w), NEW r \in Readers, ReadingOK(r)
    PROVE  ReadingOK(r)'
<1>1. PICK R, view, V, W :
        R = reader[r] /\ view = R.view /\ V = Visible(view) /\ W = Visible(view)'
    OBVIOUS
<1>2. reader'[r] = R /\ Visible(reader[r].view)' = W
    BY <1>1, CommitEffect DEF Visible, TableRead, InScope
<1>3. view \in Views
    BY <1>1 DEF ReadingOK
<1>4. /\ V \subseteq W
      /\ \A x \in W : x \notin V /\ Listed(view) => \A y \in V : ~Earlier(view, x, y)
    BY <1>1, <1>3, RowAppears
<1>5. /\ R.cursor \subseteq V /\ R.asOf \subseteq V
      /\ \A a, b \in R.cursor : a = b
      /\ Range(R.seen) \subseteq V
      /\ IsInjective(R.seen)
      /\ R.at = "done" => R.cursor = {} /\ R.asOf \subseteq Range(R.seen)
      /\ R.at # "done" => \A row \in Range(R.seen) : BeforeCursor(r, row)
      /\ \A row \in V : BeforeCursor(r, row) /\ (Listed(view) \/ row \in R.asOf)
           => row \in Range(R.seen)
      /\ R.at = "attaching" =>
           /\ view = "posts" /\ R.page # <<>>
           /\ FirstBeyond(r, R.page)
           /\ Len(R.page) <= PageLimit
           /\ Len(R.page) < PageLimit => Exhausts(r, R.page)
    BY <1>1 DEF ReadingOK
<1>6. \A row : /\ BeforeCursor(r, row)' <=> BeforeCursor(r, row)
               /\ AfterCursor(r, row)' <=> AfterCursor(r, row)
    BY <1>1, <1>2 DEF BeforeCursor, AfterCursor, UpTo, Earlier, Listed
<1>7. ASSUME NEW row \in W, BeforeCursor(r, row), Listed(view) \/ row \in R.asOf
      PROVE  row \in V
  <2>1. PICK c \in R.cursor : row = c \/ Earlier(view, row, c)
    BY <1>1, <1>7 DEF BeforeCursor, UpTo
  <2> QED BY <1>4, <1>5, <1>7, <2>1
<1>8. ASSUME R.at = "attaching"
      PROVE  FirstBeyond(r, R.page)' /\ (Exhausts(r, R.page)' <=> Exhausts(r, R.page))
  <2>1. PICK p : p = R.page
    OBVIOUS
  <2>2. /\ p \in Seq(V) /\ IsInjective(p)
        /\ \A i \in DOMAIN p : AfterCursor(r, p[i])
        /\ \A i, j \in DOMAIN p : i < j => Earlier(view, p[i], p[j])
        /\ \A i \in DOMAIN p : \A row \in V :
             AfterCursor(r, row) /\ Earlier(view, row, p[i])
             /\ (Listed(view) \/ row \in R.asOf) => row \in Range(p)
    BY <1>1, <1>5, <1>8, <2>1 DEF FirstBeyond
  <2>3. p \in Seq(W) /\ \A i \in DOMAIN p : p[i] \in V
    BY <1>4, <2>2
  <2>4. ASSUME NEW i \in DOMAIN p, NEW row \in W, AfterCursor(r, row),
               Earlier(view, row, p[i]), Listed(view) \/ row \in R.asOf
        PROVE  row \in Range(p)
    <3>1. row \in V
      BY <1>4, <1>5, <2>3, <2>4
    <3> QED BY <2>2, <2>4, <3>1
  <2>5. \A a, b : Earlier(view, a, b)' <=> Earlier(view, a, b)
    BY DEF Earlier, Listed
  <2>6. FirstBeyond(r, p)'
    <3>1. /\ \A i \in DOMAIN p : AfterCursor(r, p[i])'
          /\ \A i \in DOMAIN p : \A row \in W :
               AfterCursor(r, row)' /\ Earlier(view, row, p[i])
               /\ (Listed(view) \/ row \in R.asOf) => row \in Range(p)
      BY <1>6, <2>2, <2>4
    <3> QED BY <1>1, <1>2, <2>2, <2>3, <3>1 DEF FirstBeyond, Earlier, Listed
  <2>7. Exhausts(r, p)' <=> Exhausts(r, p)
    BY <1>1, <1>2, <1>6 DEF Exhausts
  <2> QED BY <1>1, <1>2, <2>1, <2>6, <2>7
<1>9. /\ R.cursor \subseteq W /\ R.asOf \subseteq W /\ Range(R.seen) \subseteq W
      /\ \A row \in W : BeforeCursor(r, row)' /\ (Listed(view) \/ row \in R.asOf)
           => row \in Range(R.seen)
      /\ R.at # "done" => \A row \in Range(R.seen) : BeforeCursor(r, row)'
    BY <1>4, <1>5, <1>6, <1>7
<1>10. R.at = "attaching" =>
           /\ view = "posts" /\ R.page # <<>>
           /\ FirstBeyond(r, R.page)'
           /\ Len(R.page) <= PageLimit
           /\ Len(R.page) < PageLimit => Exhausts(r, R.page)'
    BY <1>5, <1>8
<1> QED BY <1>1, <1>2, <1>3, <1>5, <1>9, <1>10 DEF ReadingOK, Listed

\* Neither does it disturb the readers.
LEMMA ReadersCommit ==
    ASSUME TypesOK, IdsOK, ReadersOK, NEW w \in Callers, Commit(w)
    PROVE  ReadersOK'
<1>1. reader' = reader
    BY DEF Commit
<1>2. \A r \in Readers : ReadingOK(r) => ReadingOK(r)'
    BY ReadingCommit
<1> QED BY <1>1, <1>2 DEF ReadersOK

\* Nor a step that commits nothing.
LEMMA ReadersMoves ==
    ASSUME ReadersOK, rows' = rows, reader' = reader
    PROVE  ReadersOK'
<1>1. \A r \in Readers : ReadingOK(r) => ReadingOK(r)'
    BY ReadingStays
<1> QED BY <1>1 DEF ReadersOK

-----------------------------------------------------------------------------
(* The invariant                                                           *)

\* The highest revision, where one receipt has it.
LEMMA HighestIs ==
    ASSUME NEW S, NEW a \in S, \A b \in S : b.revision \in Nat /\ b.revision <= a.revision
    PROVE  Highest(S) = a.revision
<1> DEFINE top == CHOOSE n \in {b.revision : b \in S} : \A b \in S : b.revision <= n
<1>1. a.revision \in {b.revision : b \in S}
    OBVIOUS
<1>2. top \in {b.revision : b \in S} /\ \A b \in S : b.revision <= top
    BY <1>1
<1>3. Highest(S) = top
    BY DEF Highest
<1> HIDE DEF top
<1>4. PICK b \in S : top = b.revision
    BY <1>2
<1> QED BY <1>2, <1>3, <1>4

\* What was committed before has the revisions 1, 2, ... and the identity 1 in
\* its table.
LEMMA HistoryHolds ==
    ASSUME DiscourseInit
    PROVE  /\ Len(History) \in Nat /\ DOMAIN History = 1..Len(History)
           /\ DOMAIN audit = DOMAIN History /\ Len(audit) = Len(History)
           /\ audit \in Seq(Receipt)
           /\ \A i \in DOMAIN History :
                /\ History[i] \in Known /\ audit[i] = ReceiptFor(History[i], 1, i)
                /\ audit[i].by = History[i] /\ audit[i].key = History[i].key
                /\ audit[i].subject = 1 /\ audit[i].revision = i
                /\ audit[i].table = TableOf(History[i].op) /\ audit[i].table \in ForumTables
           /\ \A t \in Tables : \A x \in rows[t] : \E i \in DOMAIN History :
                x = RowFor(History[i], 1) /\ TableOf(History[i].op) = t
           /\ \A i \in DOMAIN History :
                RowFor(History[i], 1) \in rows[TableOf(History[i].op)]
<1> DEFINE n == Len(History)
<1>1. n \in Nat /\ DOMAIN History = 1..n
    BY HistoryAssumption
<1>2. audit = [i \in 1..n |-> ReceiptFor(History[i], 1, i)]
    BY <1>1 DEF DiscourseInit
<1>3. \A i \in 1..n : History[i] \in Range(History) /\ History[i] \in Known
    BY <1>1 DEF Range, Known
<1>4. \A i \in 1..n : ReceiptFor(History[i], 1, i) \in Receipt
  <2>1. 1 \in Nat /\ \A i \in 1..n : i \in Nat
    BY <1>1
  <2> QED BY <1>3, <2>1 DEF Receipt
<1>5. \A c \in Range(History) : TableOf(c.op) \in ForumTables /\ TableOf(c.op) \in Tables
    BY HistoryAssumption DEF ForumOperations, TableOf, ForumTables, Tables
<1>6. \A t \in Tables :
        rows[t] = {RowFor(c, 1) : c \in {d \in Range(History) : TableOf(d.op) = t}}
    BY DEF DiscourseInit
<1> HIDE DEF n
<1>7. DOMAIN audit = 1..n /\ audit \in Seq(Receipt) /\ Len(audit) = n
    BY <1>1, <1>2, <1>4
<1>8. \A i \in 1..n :
        /\ audit[i] = ReceiptFor(History[i], 1, i)
        /\ audit[i].by = History[i] /\ audit[i].key = History[i].key
        /\ audit[i].subject = 1 /\ audit[i].revision = i
        /\ audit[i].table = TableOf(History[i].op) /\ audit[i].table \in ForumTables
    BY <1>2, <1>3, <1>5 DEF ReceiptFor
<1>9. ASSUME NEW t \in Tables, NEW x \in rows[t]
      PROVE  \E i \in 1..n : x = RowFor(History[i], 1) /\ TableOf(History[i].op) = t
  <2>1. PICK c \in Range(History) : TableOf(c.op) = t /\ x = RowFor(c, 1)
    BY <1>6
  <2>2. PICK i \in 1..n : c = History[i]
    BY <1>1 DEF Range
  <2> QED BY <2>1, <2>2
<1>10. \A i \in 1..n : RowFor(History[i], 1) \in rows[TableOf(History[i].op)]
    BY <1>3, <1>5, <1>6
<1> QED BY <1>1, <1>3, <1>7, <1>8, <1>9, <1>10 DEF n

\* The stores, callers and readers begin in order.
LEMMA InitOK ==
    ASSUME DiscourseInit
    PROVE  DiscourseInv
<1> DEFINE n == Len(History)
<1>1. n \in Nat /\ DOMAIN History = 1..n /\ DOMAIN audit = 1..n /\ Len(audit) = n
    BY HistoryHolds
<1>2. \A w \in Callers : tx[w] = NoCall /\ tx[w].at = "idle"
    BY DEF DiscourseInit, NoCall
<1>3. ASSUME NEW t \in Tables, NEW x \in rows[t]
      PROVE  /\ x \in Row /\ x.id = 1 /\ TableOf(x.by.op) = t
             /\ \E i \in 1..n : x = RowFor(History[i], 1) /\ x.by = History[i]
                               /\ TableOf(History[i].op) = t
  <2>1. PICK i \in 1..n : /\ x = RowFor(History[i], 1) /\ TableOf(History[i].op) = t
                          /\ History[i] \in Known
    BY <1>1, HistoryHolds
  <2>2. x.id = 1 /\ x.by = History[i]
    BY <2>1 DEF RowFor
  <2>3. x \in Row
    BY <2>1 DEF Row
  <2> QED BY <2>1, <2>2, <2>3
<1>4. ASSUME NEW t \in Tables
      PROVE  nextId[t] \in Nat /\ \A x \in rows[t] : x.id < nextId[t]
  <2>1. nextId[t] = IF rows[t] = {} THEN 1 ELSE 2
    BY DEF DiscourseInit
  <2> QED BY <1>3, <2>1
<1>5. TypesOK
  <2>1. rows \in [Tables -> SUBSET Row]
    BY <1>3 DEF DiscourseInit
  <2>2. nextId \in [Tables -> Nat]
    BY <1>4 DEF DiscourseInit
  <2>3. tx \in [Callers -> {NoCall} \cup Transaction]
    BY DEF DiscourseInit
  <2>4. answers \in [Commands -> SUBSET [subject : Nat, revision : Nat]]
    BY DEF DiscourseInit
  <2>5. reader \in [Readers -> Reading]
    <3>1. <<>> \in Seq(Row)
      OBVIOUS
    <3>2. NoReading \in Reading
      BY <3>1 DEF NoReading, Reading
    <3> QED BY <3>2 DEF DiscourseInit
  <2> QED BY <1>3, <2>1, <2>2, <2>3, <2>4, <2>5, HistoryHolds DEF TypesOK
<1>6. LockOK
    BY <1>2 DEF LockOK, Writing, Inside
<1>7. IdsOK
  <2>1. ASSUME NEW t \in Tables, NEW x \in rows[t], NEW y \in rows[t]
        PROVE  x = y
    <3>1. PICK i \in 1..n : x = RowFor(History[i], 1) /\ TableOf(History[i].op) = t
      BY <1>3
    <3>2. PICK j \in 1..n : y = RowFor(History[j], 1) /\ TableOf(History[j].op) = t
      BY <1>3
    <3>3. i = j
      BY <1>1, <3>1, <3>2, HistoryAssumption
    <3> QED BY <3>1, <3>2, <3>3
  <2> QED BY <1>2, <1>4, <2>1 DEF IdsOK, Holding
<1>8. KeysOK
  <2>1. ASSUME NEW i \in DOMAIN audit, NEW j \in DOMAIN audit, audit[i].key = audit[j].key
        PROVE  i = j
    <3>1. /\ i \in DOMAIN History /\ j \in DOMAIN History
          /\ audit[i].key = History[i].key /\ audit[j].key = History[j].key
      BY HistoryHolds
    <3> QED BY <2>1, <3>1, HistoryAssumption
  <2> QED BY <1>2, <2>1 DEF KeysOK
<1>9. BackedOK
  <2>1. ASSUME NEW t \in Tables, NEW x \in rows[t]
        PROVE  \E i \in DOMAIN audit : audit[i].by = x.by /\ audit[i].subject = x.id
    BY <1>1, <1>3, HistoryHolds
  <2>2. ASSUME NEW i \in DOMAIN audit
        PROVE  RowFor(audit[i].by, audit[i].subject) \in rows[audit[i].table]
    BY HistoryHolds
  <2>3. \A c \in Commands : answers[c] = {}
    BY DEF DiscourseInit
  <2> QED BY <2>1, <2>2, <2>3 DEF BackedOK
<1>10. \A i \in 1..n : audit[i].table \in ForumTables /\ audit[i].revision = i
    BY <1>1, HistoryHolds
<1>11. ASSUME NEW i \in 0..n
       PROVE  ForumUpTo(i) = 1..i /\ Cardinality(ForumUpTo(i)) = i
  <2>1. i \in Nat /\ 1..i \subseteq 1..n
    BY <1>1
  <2>2. ForumUpTo(i) = 1..i
    BY <1>10, <2>1 DEF ForumUpTo
  <2>3. 1 \in Int /\ i \in Int
    BY <2>1
  <2>4. Cardinality(1..i) = IF 1 > i THEN 0 ELSE i - 1 + 1
    BY <2>3, FS_Interval
  <2> QED BY <2>1, <2>2, <2>4
<1>12. ForumRevisionsDense
  <2> SUFFICES ASSUME NEW i \in DOMAIN audit
               PROVE  audit[i].revision = Cardinality(ForumUpTo(i))
    BY DEF ForumRevisionsDense, ForumUpTo
  <2>1. i \in 1..n /\ i \in 0..n
    BY <1>1
  <2> QED BY <1>10, <1>11, <2>1
<1>13. CurrentForumRevision = n
  <2>1. CASE n = 0
    <3>1. ForumReceipts = {}
      BY <1>1, <2>1 DEF ForumReceipts, Range
    <3> QED BY <2>1, <3>1 DEF CurrentForumRevision, Highest
  <2>2. CASE n # 0
    <3>1. n \in 1..n
      BY <1>1, <2>2
    <3>2. audit[n] \in ForumReceipts /\ audit[n].revision = n
      BY <1>1, <1>10, <3>1 DEF ForumReceipts, Range
    <3>3. ASSUME NEW b \in ForumReceipts
          PROVE  b.revision \in Nat /\ b.revision <= n
      <4>1. PICK i \in 1..n : b = audit[i]
        BY <1>1 DEF ForumReceipts, Range
      <4> QED BY <1>1, <1>10, <4>1
    <3> HIDE DEF n
    <3> QED BY <3>2, <3>3, HighestIs DEF CurrentForumRevision
  <2> QED BY <2>1, <2>2
<1>14. RevisionsOK
  <2>1. n \in 0..n
    BY <1>1
  <2>2. CurrentForumRevision = Cardinality(ForumUpTo(Len(audit)))
    BY <1>1, <1>11, <1>13, <2>1
  <2> QED BY <1>2, <1>12, <2>2 DEF RevisionsOK, Holding
<1>15. ReadersOK
    BY DEF DiscourseInit, ReadersOK, NoReading
<1> QED BY <1>5, <1>6, <1>7, <1>8, <1>9, <1>14, <1>15 DEF DiscourseInv

\* Every step is a caller's that commits nothing, a commit, a reader's, or the
\* end of the session.
LEMMA StepKinds ==
    ASSUME DiscourseInv, DiscourseNext
    PROVE  \/ \E w \in Callers : Moves(w) /\ Quiet
           \/ \E w \in Callers : Commit(w)
           \/ \E r \in Readers : ReaderStep(r)
           \/ SessionEnds
<1>1. ASSUME NEW w \in Callers, CallerStep(w), ~Commit(w)
      PROVE  Moves(w) /\ Quiet
    BY <1>1, ForumMoves, PublicationMoves, ReplayMoves, OtherMoves DEF CallerStep, DiscourseInv
<1>2. ASSUME NEW w \in Callers, NEW c \in Commands, Call(w, c)
      PROVE  Moves(w) /\ Quiet
    BY <1>2, OtherMoves DEF DiscourseInv
<1> QED BY <1>1, <1>2 DEF DiscourseNext

\* The invariant is kept by every step.
LEMMA StepOK ==
    ASSUME DiscourseInv, [DiscourseNext]_discourseVars
    PROVE  DiscourseInv'
<1>1. ASSUME NEW w \in Callers, Moves(w), Quiet
      PROVE  DiscourseInv'
  <2>1. ReadersOK'
    BY <1>1, ReadersMoves DEF DiscourseInv, Quiet
  <2> QED BY <1>1, <2>1, TypesMoves, LockMoves, IdsMoves, KeysMoves, BackedMoves, RevisionsMoves
      DEF DiscourseInv
<1>2. ASSUME NEW w \in Callers, Commit(w)
      PROVE  DiscourseInv'
    BY <1>2, TypesCommit, LockCommit, IdsCommit, KeysCommit, BackedCommit, RevisionsCommit,
       ReadersCommit DEF DiscourseInv
<1>3. ASSUME UNCHANGED <<rows, nextId, audit, forumLock, tx, answers>>,
             reader' \in [Readers -> Reading], ReadersOK'
      PROVE  DiscourseInv'
  <2>1. TypesOK'
    BY <1>3 DEF DiscourseInv, TypesOK
  <2>2. LockOK' /\ IdsOK'
    BY <1>3 DEF DiscourseInv, LockOK, IdsOK, Writing, Inside, Holding, Target
  <2>3. KeysOK' /\ BackedOK'
    BY <1>3 DEF DiscourseInv, KeysOK, BackedOK, ReceiptsOf
  <2>4. RevisionsOK'
    BY <1>3 DEF DiscourseInv, RevisionsOK, ForumRevisionsDense, ForumUpTo, Holding,
                CurrentForumRevision, ForumReceipts
  <2> QED BY <1>3, <2>1, <2>2, <2>3, <2>4 DEF DiscourseInv
<1>4. CASE \E r \in Readers : ReaderStep(r)
    BY <1>3, <1>4, ReadersStep DEF DiscourseInv
<1>5. CASE SessionEnds \/ UNCHANGED discourseVars
  <2>1. UNCHANGED <<rows, nextId, audit, forumLock, tx, answers, reader>>
    BY <1>5 DEF SessionEnds, discourseVars
  <2>2. ReadersOK' /\ reader' \in [Readers -> Reading]
    BY <2>1, ReadersMoves DEF DiscourseInv, TypesOK
  <2> QED BY <1>3, <2>1, <2>2
<1> QED BY <1>1, <1>2, <1>4, <1>5, StepKinds

\* The stores keep DiscourseInv, whatever calls and pages run beside each other.
THEOREM DiscourseInvariant == DiscourseSpec => []DiscourseInv
<1>1. DiscourseInit => DiscourseInv
    BY InitOK
<1>2. DiscourseInv /\ [DiscourseNext]_discourseVars => DiscourseInv'
    BY StepOK
<1> QED BY <1>1, <1>2, PTL DEF DiscourseSpec

\* A command identity acts once: repeated, concurrent and dropped calls leave at
\* most one row, and every answer names that row (find_idempotent and the unique
\* index of the receipts).
THEOREM CommandsActOnce == DiscourseSpec => []OneRowPerCommand
<1>1. DiscourseInv => OneRowPerCommand
  <2> SUFFICES ASSUME DiscourseInv, NEW c \in Commands
               PROVE  /\ \A t, u \in Tables : \A x \in rows[t], y \in rows[u] :
                           x.by.key = c.key /\ y.by.key = c.key => t = u /\ x = y
                      /\ \A a \in answers[c] : \E t \in Tables : \E row \in rows[t] :
                           row.by = c /\ row.id = a.subject
    BY DEF OneRowPerCommand
  <2>1. TypesOK /\ KeysOK /\ BackedOK
    BY DEF DiscourseInv
  <2>2. ASSUME NEW t \in Tables, NEW x \in rows[t]
        PROVE  /\ x \in Row /\ TableOf(x.by.op) = t
               /\ \E i \in DOMAIN audit : /\ audit[i].by = x.by /\ audit[i].subject = x.id
                                         /\ audit[i].key = x.by.key
    <3>1. PICK i \in DOMAIN audit : audit[i].by = x.by /\ audit[i].subject = x.id
      BY <2>1 DEF BackedOK
    <3>2. audit[i].key = x.by.key
      BY <2>1, <3>1, AuditShape, ReceiptShape
    <3> QED BY <2>1, <3>1, <3>2 DEF TypesOK
  <2>3. ASSUME NEW t \in Tables, NEW u \in Tables, NEW x \in rows[t], NEW y \in rows[u],
               x.by.key = c.key, y.by.key = c.key
        PROVE  t = u /\ x = y
    <3>1. PICK i \in DOMAIN audit : /\ audit[i].by = x.by /\ audit[i].subject = x.id
                                    /\ audit[i].key = x.by.key
      BY <2>2
    <3>2. PICK j \in DOMAIN audit : /\ audit[j].by = y.by /\ audit[j].subject = y.id
                                    /\ audit[j].key = y.by.key
      BY <2>2
    <3>3. i = j
      BY <2>1, <2>3, <3>1, <3>2 DEF KeysOK
    <3>4. x.by = y.by /\ x.id = y.id
      BY <3>1, <3>2, <3>3
    <3>5. x = RowFor(x.by, x.id) /\ y = RowFor(y.by, y.id)
      BY <2>2, RowShape
    <3>6. TableOf(x.by.op) = t /\ TableOf(y.by.op) = u
      BY <2>2
    <3> QED BY <3>4, <3>5, <3>6
  <2>4. ASSUME NEW a \in answers[c]
        PROVE  \E t \in Tables : \E row \in rows[t] : row.by = c /\ row.id = a.subject
    <3>1. PICK i \in DOMAIN audit : audit[i].by = c /\ audit[i].subject = a.subject
      BY <2>1 DEF BackedOK
    <3>2. RowFor(audit[i].by, audit[i].subject) \in rows[audit[i].table]
      BY <2>1 DEF BackedOK
    <3>3. audit[i].table \in Tables
      BY <2>1, AuditShape, ReceiptShape
    <3> QED BY <3>1, <3>2, <3>3 DEF RowFor
  <2> QED BY <2>3, <2>4
<1> QED BY <1>1, DiscourseInvariant, PTL

\* The Forum is one sequence: the accepted mutations carry the revisions 1, 2,
\* 3, ... in the order in which they were committed (lock_forum,
\* require_expected).
THEOREM ForumIsOneSequence == DiscourseSpec => []ForumRevisionsDense
<1>1. DiscourseInv => ForumRevisionsDense
    BY DEF DiscourseInv, RevisionsOK
<1> QED BY <1>1, DiscourseInvariant, PTL

\* Paging loses and repeats nothing, although rows are committed between the
\* pages of a client (forum_store.rs list_threads and its sister statements).
THEOREM PagesAreComplete == DiscourseSpec => []PagesComplete
<1>1. DiscourseInv => PagesComplete
  <2> SUFFICES ASSUME DiscourseInv, NEW r \in Readers, reader[r] # NoReading
               PROVE  /\ IsInjective(reader[r].seen)
                      /\ \A row \in Visible(reader[r].view) :
                           HasPassed(r, row) /\ (Listed(reader[r].view) \/ row \in reader[r].asOf)
                             => row \in Range(reader[r].seen)
    BY DEF PagesComplete
  <2>1. ReadingOK(r)
    BY DEF DiscourseInv, ReadersOK
  <2>2. ASSUME NEW row \in Visible(reader[r].view), HasPassed(r, row),
               Listed(reader[r].view) \/ row \in reader[r].asOf
        PROVE  row \in Range(reader[r].seen)
    <3>1. CASE reader[r].at = "done" /\ row \in reader[r].asOf
      BY <2>1, <3>1 DEF ReadingOK
    <3>2. CASE \E c \in reader[r].cursor : c = row \/ Earlier(reader[r].view, row, c)
      <4>1. BeforeCursor(r, row)
        BY <3>2 DEF BeforeCursor, UpTo
      <4> QED BY <2>1, <2>2, <4>1 DEF ReadingOK
    <3> QED BY <2>2, <3>1, <3>2 DEF HasPassed
  <2> QED BY <2>1, <2>2 DEF ReadingOK
<1> QED BY <1>1, DiscourseInvariant, PTL
=============================================================================
