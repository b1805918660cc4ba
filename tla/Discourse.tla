------------------------------ MODULE Discourse ------------------------------
(***************************************************************************)
(* The two discourse stores over one PostgreSQL pool.                      *)
(*   ForumStore        (forum_store.rs): topics, threads and posts, every  *)
(*     mutation under one transaction advisory lock and one revision;      *)
(*   PublicationStore  (publication_store.rs): anchored publications, with *)
(*     no lock of their own;                                               *)
(* and the paged readers of both (forum_rpc.rs, operator_forum_rpc.rs,     *)
(* operator_navigation.rs).  Rows are immutable.  A transaction writes     *)
(* into itself until it commits: only the identity sequence and the locks  *)
(* are visible to the others before that.                                  *)
(***************************************************************************)
EXTENDS Naturals, Sequences, FiniteSets, Functions, TLC

CONSTANTS
    Callers,     \* tasks that run a store command, one at a time each
    Commands,    \* records [key, payload, op, origin, office, anchor, parent, target, artifacts, rank]
    History,     \* the Forum commands committed before, one per table at most
    Artifacts,   \* the registered artifacts
    Readers,     \* paging clients
    Views,       \* the paged reads they may make
    PageLimit,   \* the page limit of every request
    MaxCommands, \* bound: how many commands are called
    MaxRepeats   \* bound: how many calls repeat a command

VARIABLES
    rows,        \* rows[table]: the committed rows [id, by, artifacts], by their command
    nextId,      \* nextId[table]: the identity sequence, never rolled back
    audit,       \* committed receipts [key, by, table, subject, revision], in commit order
    forumLock,   \* the caller whose transaction holds the Forum advisory lock
    tx,          \* tx[w]: the call of caller w
    expects,     \* expects[c]: the Forum revision command c was minted at
    repeats,     \* how many calls repeated a command
    answers,     \* answers[c]: the receipts its callers were given
    sessionOpen, \* whether the actor's session is still running
    reader       \* reader[r]: the pages a client has read so far

discourseVars == <<rows, nextId, audit, forumLock, tx, expects, repeats, answers,
                   sessionOpen, reader>>

Tables == {"topics", "threads", "posts", "publications"}
ForumTables == Tables \ {"publications"}

\* The relation each operation inserts into.
ForumOperations == {"create_topic", "supersede_topic", "create_thread", "supersede_thread",
                    "append_post"}
Operations == ForumOperations \cup {"create_publication"}
TableOf(op) ==
    CASE op \in {"create_topic", "supersede_topic"} -> "topics"
      [] op \in {"create_thread", "supersede_thread"} -> "threads"
      [] op = "append_post" -> "posts"
      [] op = "create_publication" -> "publications"

IsForum(c) == TableOf(c.op) \in ForumTables
NoCall == [at |-> "idle"]
Nobody == "nobody"

\* Search ranks are numbers, and nobody is no caller.
ASSUME DiscourseAssumption ==
    /\ PageLimit \in Nat \ {0}
    /\ Nobody \notin Callers
    /\ \A c \in Commands : c.op \in Operations /\ c.rank \in Nat
    /\ Views \subseteq {"topics", "threads", "posts", "search", "recent"}

\* What was committed before is a history of the Forum: each command once.
ASSUME HistoryAssumption ==
    /\ History \in Seq(Range(History))
    /\ \A c \in Range(History) : c.op \in ForumOperations /\ c.rank \in Nat
    /\ \A i, j \in DOMAIN History :
         i # j => /\ History[i].key # History[j].key
                  /\ TableOf(History[i].op) # TableOf(History[j].op)

(* ---------------------------- shared statements --------------------------- *)

\* current_forum_revision: the highest revision of a committed Forum receipt.
ForumReceipts == {a \in Range(audit) : a.table \in ForumTables}
Highest(receipts) ==
    IF receipts = {} THEN 0
    ELSE CHOOSE n \in {a.revision : a \in receipts} : \A a \in receipts : a.revision <= n
CurrentForumRevision == Highest(ForumReceipts)

\* SELECT ... FROM audit_log WHERE principal = $1 AND command_id = $2.
ReceiptsOf(c) == {a \in Range(audit) : a.key = c.key}

\* The fingerprint of a command covers its operation and its whole payload.
SameFingerprint(receipt, c) == receipt.by = c

RowExists(table, id) == \E row \in rows[table] : row.id = id
RowOf(table, id) == CHOOSE row \in rows[table] : row.id = id

\* The row that command c leaves, and its receipt.
RowFor(c, id) == [id |-> id, by |-> c, artifacts |-> c.artifacts]
ReceiptFor(c, id, revision) ==
    [key |-> c.key, by |-> c, table |-> TableOf(c.op), subject |-> id, revision |-> revision]

\* The row a transaction of caller w inserts, and the receipt it writes.
PendingRow(w) == RowFor(tx[w].command, tx[w].id)
PendingReceipt(w) == ReceiptFor(tx[w].command, tx[w].id, tx[w].revision)

Lock(w) == forumLock' = w
Unlock(w) == forumLock' = IF forumLock = w THEN Nobody ELSE forumLock
Step(w, stage) == tx' = [tx EXCEPT ![w].at = stage]

\* The transaction ends and the call returns.
Return(w) == tx' = [tx EXCEPT ![w] = NoCall] /\ Unlock(w)

(* --------------------------------- callers -------------------------------- *)

\* A caller mints the command at the revision it sees, or repeats it exactly.
Call(w, c) ==
    /\ tx[w] = NoCall
    /\ \/ /\ c \notin DOMAIN expects /\ Cardinality(DOMAIN expects) < MaxCommands
          /\ expects' = expects @@ (c :> CurrentForumRevision)
          /\ UNCHANGED repeats
       \/ /\ c \in DOMAIN expects /\ repeats < MaxRepeats
          /\ repeats' = repeats + 1
          /\ UNCHANGED expects
    /\ tx' = [tx EXCEPT ![w] = [at |-> "called", command |-> c, id |-> 0, revision |-> 0]]
    /\ UNCHANGED <<rows, nextId, audit, forumLock, answers, sessionOpen, reader>>

\* A Forum store whose transactions do not serialise.
LockForumShared(w) ==
    /\ tx[w].at = "called" /\ IsForum(tx[w].command)
    /\ Lock(w)
    /\ Step(w, "looking")
    /\ UNCHANGED <<rows, nextId, audit, expects, repeats, answers, sessionOpen, reader>>

\* ForumStore: the transaction begins and waits for pg_advisory_xact_lock.
LockForum(w) ==
    /\ tx[w].at = "called" /\ IsForum(tx[w].command)
    /\ forumLock = Nobody
    /\ Lock(w)
    /\ Step(w, "looking")
    /\ UNCHANGED <<rows, nextId, audit, expects, repeats, answers, sessionOpen, reader>>

\* bound_actor_office reads through the pool, before the transaction begins:
\* the actor's session has to be running then.
BoundActorOffice(c) == c.origin = "actor" /\ sessionOpen

\* require_active_office, likewise: the operator names an office that is active.
RequireActiveOffice(c) == c.origin = "operator" /\ c.office = "active"

\* validate_command: the anchor is of a kind that carries publications, and no
\* artifact is attached twice.
ValidateCommand(c) == c.anchor # "none"

\* The checks create_from_actor and create_from_operator make before the
\* transaction begins.
StartPublication(w, authorised) ==
    /\ IF authorised /\ ValidateCommand(tx[w].command)
         THEN Step(w, "looking")
         ELSE tx' = [tx EXCEPT ![w] = NoCall]
    /\ UNCHANGED <<rows, nextId, audit, forumLock, expects, repeats, answers, sessionOpen, reader>>

CreateFromActor(w) ==
    /\ tx[w].at = "called" /\ ~IsForum(tx[w].command) /\ tx[w].command.origin = "actor"
    /\ StartPublication(w, BoundActorOffice(tx[w].command))

CreateFromOperator(w) ==
    /\ tx[w].at = "called" /\ ~IsForum(tx[w].command) /\ tx[w].command.origin = "operator"
    /\ StartPublication(w, RequireActiveOffice(tx[w].command))

\* find_idempotent: a receipt of the same operation and fingerprint is
\* answered again and the transaction committed; any other is a conflict.
Replay(w) ==
    /\ tx[w].at = "looking" /\ ReceiptsOf(tx[w].command) # {}
    /\ LET c == tx[w].command
       IN  answers' = [answers EXCEPT ![c] =
                         @ \cup {[subject |-> a.subject, revision |-> a.revision] :
                                 a \in {b \in ReceiptsOf(c) : SameFingerprint(b, c)}}]
    /\ Return(w)
    /\ UNCHANGED <<rows, nextId, audit, expects, repeats, sessionOpen, reader>>

\* require_expected refuses a Forum command minted at another revision.
RequireExpected(c) == expects[c] = CurrentForumRevision

\* forum_validate_post_relations: the target is an earlier post of the thread.
PostRelationsValid(c, id) ==
    c.target # 0 => /\ c.target < id
                    /\ RowExists("posts", c.target)
                    /\ RowOf("posts", c.target).by.parent = c.parent

\* An attachment is a foreign key into the artifacts.
AttachmentsValid(c) == c.artifacts \subseteq Artifacts

\* INSERT ... RETURNING id takes an identity, which a refused row loses.
Insert(w, valid, revision) ==
    LET table == TableOf(tx[w].command.op)
    IN  /\ nextId' = [nextId EXCEPT ![table] = @ + 1]
        /\ IF valid
             THEN /\ tx' = [tx EXCEPT ![w].at = "inserted", ![w].id = nextId[table],
                                      ![w].revision = revision]
                  /\ UNCHANGED forumLock
             ELSE Return(w)

\* A Forum command that is no replay: refused when it is stale or its target
\* is not there, otherwise its row is inserted, with the next revision.
InsertForumRow(w, targetFound, valid) ==
    /\ ReceiptsOf(tx[w].command) = {}
    /\ IF RequireExpected(tx[w].command) /\ targetFound
         THEN Insert(w, valid, CurrentForumRevision + 1)
         ELSE Return(w) /\ UNCHANGED nextId
    /\ UNCHANGED <<rows, audit, expects, repeats, answers, sessionOpen, reader>>

Looking(w, op) == tx[w].at = "looking" /\ tx[w].command.op = op

CreateTopic(w) == Looking(w, "create_topic") /\ InsertForumRow(w, TRUE, TRUE)

\* The topic of a thread is a foreign key.
CreateThread(w) ==
    /\ Looking(w, "create_thread")
    /\ InsertForumRow(w, TRUE, RowExists("topics", tx[w].command.parent))

SupersedeTopic(w) ==
    /\ Looking(w, "supersede_topic")
    /\ InsertForumRow(w, RowExists("topics", tx[w].command.target), TRUE)

\* The superseded thread is looked up in the topic of the new one.
SupersedeThread(w) ==
    /\ Looking(w, "supersede_thread")
    /\ LET c == tx[w].command
           found == RowExists("threads", c.target)
                    /\ RowOf("threads", c.target).by.parent = c.parent
       IN  InsertForumRow(w, found, RowExists("topics", c.parent))

\* The thread and each attachment are foreign keys; the relations of a post
\* are checked by a trigger.
AppendPost(w) ==
    /\ Looking(w, "append_post")
    /\ LET c == tx[w].command
       IN  InsertForumRow(w, TRUE, /\ RowExists("threads", c.parent)
                                   /\ PostRelationsValid(c, nextId["posts"])
                                   /\ AttachmentsValid(c))

\* require_artifact for the body and each attachment, then the row, whose
\* reply and supersession targets are foreign keys.
InsertPublication(w) ==
    /\ tx[w].at = "looking" /\ ~IsForum(tx[w].command)
    /\ ReceiptsOf(tx[w].command) = {}
    /\ LET c == tx[w].command
       IN  IF AttachmentsValid(c)
             THEN Insert(w, c.target # 0 => RowExists("publications", c.target), 0)
             ELSE Return(w) /\ UNCHANGED nextId
    /\ UNCHANGED <<rows, audit, expects, repeats, answers, sessionOpen, reader>>

\* Another open transaction has written a receipt with the same key: the
\* unique index makes this one wait for it.
ReceiptPending(w) ==
    \E v \in Callers \ {w} : /\ tx[v].at = "receipted"
                             /\ tx[v].command.key = tx[w].command.key

\* Mutant: receipts without the unique index.
InsertReceiptAgain(w) ==
    /\ tx[w].at = "inserted"
    /\ Step(w, "receipted")
    /\ UNCHANGED <<rows, nextId, audit, forumLock, expects, repeats, answers, sessionOpen, reader>>

\* insert_receipt and insert_audit under the unique (principal, command_id).
InsertReceipt(w) ==
    /\ tx[w].at = "inserted" /\ ~ReceiptPending(w)
    /\ IF ReceiptsOf(tx[w].command) = {}
         THEN Step(w, "receipted") /\ UNCHANGED forumLock
         ELSE Return(w)
    /\ UNCHANGED <<rows, nextId, audit, expects, repeats, answers, sessionOpen, reader>>

\* COMMIT makes row, attachments and receipt visible together and then frees
\* the advisory lock.  The answer may still be lost on its way.
Commit(w) ==
    /\ tx[w].at = "receipted"
    /\ LET c == tx[w].command
       IN  /\ rows' = [rows EXCEPT ![TableOf(c.op)] = @ \cup {PendingRow(w)}]
           /\ audit' = Append(audit, PendingReceipt(w))
           /\ \/ answers' = [answers EXCEPT ![c] = @ \cup {[subject |-> tx[w].id,
                                                            revision |-> tx[w].revision]}]
              \/ UNCHANGED answers
    /\ Return(w)
    /\ UNCHANGED <<nextId, expects, repeats, sessionOpen, reader>>

\* The task is dropped at an await point (operation deadline, peer gone,
\* daemon killed): sqlx rolls the transaction back.
DropCall(w) ==
    /\ tx[w] # NoCall
    /\ Return(w)
    /\ UNCHANGED <<rows, nextId, audit, expects, repeats, answers, sessionOpen, reader>>

\* The actor's session ends while its publication may be on the way.
SessionEnds ==
    /\ sessionOpen
    /\ sessionOpen' = FALSE
    /\ UNCHANGED <<rows, nextId, audit, forumLock, tx, expects, repeats, answers, reader>>

(* --------------------------------- readers -------------------------------- *)

\* A view reads one relation in one order.  "topics" lists topics, "threads"
\* the threads of topic 1 and "posts" the posts of thread 1, by rising id;
\* "search" ranks posts, best first; "recent" pages publications, newest first.
TableRead(view) == CASE view = "search" -> "posts" [] view = "recent" -> "publications"
                     [] OTHER -> view
InScope(view, row) == view \in {"threads", "posts"} => row.by.parent = 1
Listed(view) == view \in {"topics", "threads", "posts"}

\* The ORDER BY of each view; the cursor is a position in it.
Earlier(view, a, b) ==
    CASE Listed(view) -> a.id < b.id
      [] view = "search" -> \/ a.by.rank > b.by.rank
                            \/ a.by.rank = b.by.rank /\ a.id < b.id
      [] view = "recent" -> a.id > b.id

Visible(view) == {row \in rows[TableRead(view)] : InScope(view, row)}

\* The WHERE of each view: rows beyond the cursor, all of them without one.
Beyond(r) ==
    {row \in Visible(reader[r].view) :
       reader[r].cursor = {} \/ \A c \in reader[r].cursor : Earlier(reader[r].view, c, row)}

\* ORDER BY ... LIMIT n: the i-th item of the page has i - 1 rows before it.
Before(r, row) == {b \in Beyond(r) : Earlier(reader[r].view, b, row)}
Page(r, n) ==
    LET found == Cardinality(Beyond(r))
    IN  [i \in 1..(IF found < n THEN found ELSE n) |->
           CHOOSE row \in Beyond(r) : Cardinality(Before(r, row)) = i - 1]

NoReading == [at |-> "idle", view |-> "none", cursor |-> {}, seen |-> <<>>,
              page |-> <<>>, asOf |-> {}]

\* A client sends its first request, without a cursor.
StartReading(r, view) ==
    /\ reader[r] = NoReading
    /\ reader' = [reader EXCEPT ![r] = [NoReading EXCEPT !.at = "reading", !.view = view,
                                          !.asOf = Visible(view)]]
    /\ UNCHANGED <<rows, nextId, audit, forumLock, tx, expects, repeats, answers, sessionOpen>>

\* What a reply carries: the items, and the next cursor, empty after the last.
Reply(r, items, next) ==
    reader' = [reader EXCEPT ![r].seen = @ \o items, ![r].cursor = next, ![r].page = <<>>,
                             ![r].at = IF next = {} THEN "done" ELSE "reading"]

\* page_cursor: the last item of a full page, nothing otherwise.
PageCursor(items) == IF Len(items) = PageLimit THEN {items[Len(items)]} ELSE {}

\* Each of these answers one statement.
ReadPage(r, view) ==
    /\ reader[r].at = "reading" /\ reader[r].view = view
    /\ LET items == Page(r, PageLimit) IN Reply(r, items, PageCursor(items))
    /\ UNCHANGED <<rows, nextId, audit, forumLock, tx, expects, repeats, answers, sessionOpen>>

ListTopics(r) == ReadPage(r, "topics")
ListThreads(r) == ReadPage(r, "threads")
SearchForum(r) == ReadPage(r, "search")

\* read_thread: the posts are one statement ...
ReadPosts(r) ==
    /\ reader[r].at = "reading" /\ reader[r].view = "posts"
    /\ LET items == Page(r, PageLimit)
       IN  IF items = <<>>
             THEN Reply(r, <<>>, {})
             ELSE reader' = [reader EXCEPT ![r].at = "attaching", ![r].page = items]
    /\ UNCHANGED <<rows, nextId, audit, forumLock, tx, expects, repeats, answers, sessionOpen>>

\* ... and their attachments another, in no common snapshot.
ReadAttachments(r) ==
    /\ reader[r].at = "attaching"
    /\ LET items == [i \in DOMAIN reader[r].page |->
                       [reader[r].page[i] EXCEPT !.artifacts =
                          UNION {row.artifacts : row \in {p \in rows["posts"] :
                                                            p.id = reader[r].page[i].id}}]]
       IN  Reply(r, items, PageCursor(items))
    /\ UNCHANGED <<rows, nextId, audit, forumLock, tx, expects, repeats, answers, sessionOpen>>

\* A search that takes its cursor before it truncates the page.
InstitutionalSearchUntruncated(r) ==
    /\ reader[r].at = "reading" /\ reader[r].view = "recent"
    /\ LET found == Page(r, PageLimit + 1)
           hasMore == Len(found) > PageLimit
           items == IF hasMore THEN SubSeq(found, 1, PageLimit) ELSE found
       IN  Reply(r, items, IF hasMore THEN {found[Len(found)]} ELSE {})
    /\ UNCHANGED <<rows, nextId, audit, forumLock, tx, expects, repeats, answers, sessionOpen>>

\* institutional_search: one row more than the limit shows whether there is a
\* next page, which starts after the last item returned.
InstitutionalSearch(r) ==
    /\ reader[r].at = "reading" /\ reader[r].view = "recent"
    /\ LET found == Page(r, PageLimit + 1)
           hasMore == Len(found) > PageLimit
           items == IF hasMore THEN SubSeq(found, 1, PageLimit) ELSE found
       IN  Reply(r, items, IF hasMore THEN {items[Len(items)]} ELSE {})
    /\ UNCHANGED <<rows, nextId, audit, forumLock, tx, expects, repeats, answers, sessionOpen>>

(* ------------------------------ specification ----------------------------- *)

DiscourseInit ==
    /\ rows = [t \in Tables |-> {RowFor(c, 1) : c \in {d \in Range(History) : TableOf(d.op) = t}}]
    /\ nextId = [t \in Tables |-> IF rows[t] = {} THEN 1 ELSE 2]
    /\ audit = [i \in DOMAIN History |-> ReceiptFor(History[i], 1, i)]
    /\ forumLock = Nobody
    /\ tx = [w \in Callers |-> NoCall]
    /\ expects = <<>> /\ repeats = 0
    /\ answers = [c \in Commands |-> {}]
    /\ sessionOpen = TRUE
    /\ reader = [r \in Readers |-> NoReading]

CallerStep(w) ==
    \/ LockForum(w) \/ CreateFromActor(w) \/ CreateFromOperator(w) \/ Replay(w)
    \/ CreateTopic(w) \/ CreateThread(w) \/ SupersedeTopic(w) \/ SupersedeThread(w)
    \/ AppendPost(w) \/ InsertPublication(w)
    \/ InsertReceipt(w) \/ Commit(w) \/ DropCall(w)

ReaderStep(r) ==
    \/ \E view \in Views : StartReading(r, view)
    \/ ListTopics(r) \/ ListThreads(r) \/ SearchForum(r) \/ ReadPosts(r) \/ ReadAttachments(r) \/ InstitutionalSearch(r)

DiscourseNext ==
    \/ \E w \in Callers, c \in Commands : Call(w, c)
    \/ \E w \in Callers : CallerStep(w)
    \/ \E r \in Readers : ReaderStep(r)
    \/ SessionEnds

DiscourseSpec == DiscourseInit /\ [][DiscourseNext]_discourseVars

(* ------------------------------- properties ------------------------------- *)

\* Where a reader stands: it has passed every row when its last page came, and
\* otherwise the rows up to its cursor.
HasPassed(r, row) ==
    \/ reader[r].at = "done" /\ row \in reader[r].asOf
    \/ \E c \in reader[r].cursor : c = row \/ Earlier(reader[r].view, row, c)

\* Paging loses and repeats nothing: a client has seen, once and with all its
\* attachments, every row it has passed that existed when it began, and for a
\* list every committed row, although rows are committed between its pages.
\* (forum_store.rs list_threads: "no row can be skipped or repeated when posts
\* are appended between pages".)
PagesComplete ==
    \A r \in {q \in Readers : reader[q] # NoReading} :
      /\ IsInjective(reader[r].seen)
      /\ \A row \in Visible(reader[r].view) :
           HasPassed(r, row) /\ (Listed(reader[r].view) \/ row \in reader[r].asOf)
             => row \in Range(reader[r].seen)

\* The Forum is one sequence: the accepted mutations carry the revisions
\* 1, 2, 3, ... in the order in which they were committed, whatever
\* transactions ran beside them (forum_store.rs lock_forum, require_expected).
ForumRevisionsDense ==
    \A i \in DOMAIN audit :
      audit[i].table \in ForumTables =>
        audit[i].revision = Cardinality({j \in 1..i : audit[j].table \in ForumTables})

\* A command identity acts once: repeated, concurrent or dropped calls leave at
\* most one row, and every answer given for the command names that row
\* (find_idempotent, the unique (principal, command_id) of audit_log).
OneRowPerCommand ==
    \A c \in Commands :
      /\ \A t, u \in Tables : \A x \in rows[t], y \in rows[u] :
           x.by.key = c.key /\ y.by.key = c.key => t = u /\ x = y
      /\ \A a \in answers[c] : \E t \in Tables : \E row \in rows[t] :
           row.by = c /\ row.id = a.subject
=============================================================================
