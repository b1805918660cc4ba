--------------------------- MODULE MCKernelRecords ---------------------------
(* Instances of KernelRecords for TLC. *)
EXTENDS BackupRestore

\* Two bundles of one application, the second declaring the first its predecessor,
\* and a third content that serves as template, qualification and rationale.
MCBundle ==
    [d \in {"first", "second"} |->
        [templates |-> {"text"}, path |-> "p1",
         predecessor |-> IF d = "first" THEN NoDigest ELSE "first"]]

\* A later command whose receipt the gate knows, and every one there is.
MCFamilies == {[kind |-> 45, operation |-> "ticket_attempt.retry_quality"]}
AllFamilies ==
    LaterRegistry \cup {[kind |-> 46, operation |-> "ticket_attempt.retry_engineering"],
                        [kind |-> 60, operation |-> "publication.create"]}

\* Client identities are taken in order.
InOrder ==
    LET used(k) == \/ FindIdempotentAudit(Client(k)) # {}
                   \/ \E w \in Workers : worker[w].command = Client(k)
    IN  \A n \in 2..MaxCommands : used(n) => used(n - 1)

\* Custody: handlers race on one content, and faults come at any time.
Custody ==
    /\ Len(audit) <= 3
    /\ revisions = <<>> /\ repository = NoDigest
    /\ \A w \in Workers : "second" \notin worker[w].seals \cup {worker[w].digest}
    /\ \A w, v \in Workers :
         worker[w].phase # "idle" /\ worker[v].phase # "idle"
             => worker[w].digest = worker[v].digest

\* Records: a long history of admissions, activations and campaigns, by one handler
\* at a time, which adopts its inputs in one order, and without faults.
Records ==
    /\ faults = 0
    /\ \A i \in DOMAIN audit :
         /\ audit[i].kind # 3
         /\ audit[i].fingerprint[1] = "application_revision.activate"
                => audit[i].fingerprint[2] = "text"
    /\ Cardinality({w \in Workers : worker[w] # IdleWorker}) <= 1
    /\ \A w \in Workers :
         /\ worker[w].phase # "reading"
         /\ "second" \in worker[w].seals \cup {worker[w].digest} => "text" \in worker[w].seals
         /\ "first" \in worker[w].seals \cup {worker[w].digest} =>
              "text" \in worker[w].seals /\ "second" \notin worker[w].seals
    /\ object["second"].present => revisions # <<>>

\* A backup beside a daemon with one handler, from the first commands on.
Beside ==
    /\ Len(audit) <= 3
    /\ faults = 0
    /\ repository = NoDigest
    /\ \A w \in Workers : worker[w].digest # "second" /\ "second" \notin worker[w].seals
    /\ Cardinality({w \in Workers : worker[w] # IdleWorker}) <= 1

Focus ==
    /\ InOrder
    /\ \A i \in DOMAIN audit :
         audit[i].kind > 4 => Len(audit) <= 4 /\ Records /\ backup.phase = "idle"
    /\ Custody \/ Records
    /\ \A i \in DOMAIN builds : builds[i].qualification = "text"
    /\ backup.phase = "idle" \/ Beside

Symmetry == {[w \in Workers |-> IF w = v THEN x ELSE IF w = x THEN v ELSE w] :
                v \in Workers, x \in Workers}
=============================================================================
