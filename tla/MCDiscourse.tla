----------------------------- MODULE MCDiscourse -----------------------------
(***************************************************************************)
(* A small instance of Discourse: a topic and a thread exist, two callers  *)
(* run up to MaxCommands of these commands, and one client pages.          *)
(***************************************************************************)
EXTENDS Discourse, TLC

CONSTANTS a1, a2   \* a registered artifact and one that was never registered

Base == [key |-> "", payload |-> "x", op |-> "append_post", origin |-> "actor",
         office |-> "active", anchor |-> "ticket", parent |-> 1, target |-> 0, artifacts |-> {}, rank |-> 1]

MCHistory == <<[Base EXCEPT !.key = "k1", !.op = "create_topic"],
               [Base EXCEPT !.key = "k2", !.op = "create_thread"]>>

ForumCommands ==
    {[Base EXCEPT !.key = "topic", !.op = "create_topic"],
     [Base EXCEPT !.key = "topic2", !.op = "supersede_topic", !.target = 1],
     [Base EXCEPT !.key = "thread", !.op = "create_thread"],
     [Base EXCEPT !.key = "thread2", !.op = "supersede_thread", !.target = 1],
     [Base EXCEPT !.key = "post", !.artifacts = {a1}],
     [Base EXCEPT !.key = "post", !.payload = "y", !.artifacts = {a2}],
     [Base EXCEPT !.key = "reply", !.target = 1, !.rank = 2]}

PublicationCommands ==
    {[Base EXCEPT !.key = "p", !.op = "create_publication", !.artifacts = {a1}],
     [Base EXCEPT !.key = "p", !.op = "create_publication", !.payload = "y"],
     [Base EXCEPT !.key = "n", !.op = "create_publication", !.anchor = "none"],
     [Base EXCEPT !.key = "q", !.op = "create_publication", !.origin = "operator"],
     [Base EXCEPT !.key = "s", !.op = "create_publication", !.origin = "operator",
                  !.target = 1],
     [Base EXCEPT !.key = "r", !.op = "create_publication", !.origin = "operator",
                  !.office = "retired"],
     [Base EXCEPT !.key = "bad", !.op = "create_publication", !.artifacts = {a2}]}

MCCommands == ForumCommands \cup PublicationCommands
MCViews == {"topics", "threads", "posts", "search", "recent"}

Interchangeable == Permutations(Callers)
=============================================================================
