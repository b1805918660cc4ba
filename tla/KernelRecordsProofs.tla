------------------------- MODULE KernelRecordsProofs -------------------------
(***************************************************************************)
(* The content store, the command audit and the backup qualification,      *)
(* proved for every number of handlers, contents, commands and faults.     *)
(*                                                                         *)
(* A qualification only reads, so everything the records guarantee they    *)
(* guarantee beside one; what it concludes itself rests on two facts about *)
(* the records: an artifact row comes with a receipt, and a digest name    *)
(* only a power loss removes.                                              *)
(***************************************************************************)
EXTENDS BackupRestore, TLAPS

(* ------------------------- the content store ------------------------------ *)

WorkerFields == {"phase", "digest", "temp", "seals", "command", "reuse"}
ObjectFields == {"present", "leaf", "prefix", "bytes"}

\* Objects and workers are rows with these fields, and only a digest is sealed.
CasShape ==
    /\ DOMAIN object = Digests /\ \A d \in Digests : DOMAIN object[d] = ObjectFields
    /\ DOMAIN worker = Workers /\ \A w \in Workers : DOMAIN worker[w] = WorkerFields
    /\ sealed \subseteq Digests

\* How far the publication of worker w has come, and what it can rely on then.
PublicationBacked(w) ==
    /\ worker[w].phase \in {"streamed", "flushed", "linked", "leafSynced"}
         => worker[w].digest \in Digests
    /\ worker[w].phase = "flushed" => worker[w].temp = "synced"
    /\ worker[w].phase \in {"linked", "leafSynced"} => object[worker[w].digest].present
    /\ worker[w].phase = "leafSynced" => object[worker[w].digest].leaf

PublicationsBacked == \A w \in Workers : PublicationBacked(w)

\* Name and prefix of a sealed object are both synced.
Synced(d) == object[d].present /\ object[d].leaf /\ object[d].prefix
SealedSynced == \A d \in sealed : Synced(d)

CasInv == CasShape /\ PublicationsBacked /\ PublishedWhole /\ SealedSynced

\* Names stay, and what was synced stays synced.
ObjectsGrow ==
    \A d \in Digests : /\ object[d].present => object'[d].present /\ object'[d].bytes = object[d].bytes
                       /\ object[d].present /\ object[d].leaf => object'[d].leaf
                       /\ object[d].present /\ object[d].prefix => object'[d].prefix

\* One handler moves, over objects that only grow, to a state that is backed.
LEMMA CasStep ==
    ASSUME CasInv, NEW w \in Workers, CasShape', ObjectsGrow, PublishedWhole',
           \A x \in Workers : x # w => worker'[x] = worker[x],
           PublicationBacked(w)',
           \A d \in sealed' : d \in sealed \/ Synced(d)'
    PROVE  CasInv'
<1>1. PublicationsBacked'
  <2> SUFFICES ASSUME NEW x \in Workers, x # w PROVE PublicationBacked(x)'
    BY DEF PublicationsBacked
  <2>1. PublicationBacked(x) /\ worker'[x] = worker[x]
    BY DEF CasInv, PublicationsBacked
  <2> QED BY <2>1 DEF PublicationBacked, ObjectsGrow
<1>2. SealedSynced'
  <2> SUFFICES ASSUME NEW d \in sealed' PROVE Synced(d)'
    BY DEF SealedSynced
  <2>1. d \in Digests /\ (d \in sealed \/ Synced(d)')
    BY DEF CasShape
  <2>2. d \in sealed => Synced(d)
    BY DEF CasInv, SealedSynced
  <2> QED BY <2>1, <2>2 DEF Synced, ObjectsGrow
<1> QED BY <1>1, <1>2 DEF CasInv

\* Every handler starts over on the objects there are.
LEMMA CasRestart ==
    ASSUME PublishedWhole', DOMAIN object' = Digests,
           \A d \in Digests : DOMAIN object'[d] = ObjectFields,
           sealed' \subseteq Digests, SealedSynced',
           worker' = [w \in Workers |-> IdleWorker]
    PROVE  CasInv'
<1>1. DOMAIN IdleWorker = WorkerFields
    BY DEF IdleWorker, WorkerFields
<1>2. CasShape'
    BY <1>1 DEF CasShape
<1>3. \A w \in Workers : worker'[w].phase = "idle"
    BY DEF IdleWorker
<1> QED BY <1>2, <1>3 DEF CasInv, PublicationsBacked, PublicationBacked

\* A handler forgets what it holds.
LEMMA CasIdles ==
    ASSUME CasInv, NEW w \in Workers, worker' = [worker EXCEPT ![w] = IdleWorker],
           UNCHANGED files
    PROVE  CasInv'
<1>1. DOMAIN IdleWorker = WorkerFields
    BY DEF IdleWorker, WorkerFields
<1>2. CasShape'
    BY <1>1 DEF CasInv, CasShape, files
<1>3. worker'[w].phase = "idle"
    BY DEF CasInv, CasShape, IdleWorker
<1>4. \A x \in Workers : x # w => worker'[x] = worker[x]
    BY DEF CasInv, CasShape
<1>5. PublicationBacked(w)'
    BY <1>3 DEF PublicationBacked
<1>6. ObjectsGrow /\ PublishedWhole'
    BY DEF ObjectsGrow, CasInv, PublishedWhole, files
<1> QED BY <1>2, <1>3, <1>4, <1>5, <1>6, CasStep DEF files

\* A handler moves on without touching an object.
LEMMA CasMoves ==
    ASSUME CasInv, NEW w \in Workers, CasShape', UNCHANGED files,
           \A x \in Workers : x # w => worker'[x] = worker[x],
           PublicationBacked(w)'
    PROVE  CasInv'
<1>1. ObjectsGrow /\ PublishedWhole'
    BY DEF ObjectsGrow, CasInv, PublishedWhole, files
<1> QED BY <1>1, CasStep DEF files

\* Each step of an adoption, whoever else adopts the same content meanwhile.
LEMMA AdoptKeeps ==
    ASSUME CasInv, NEW w \in Workers, Adopt(w)
    PROVE  CasInv' /\ ObjectsGrow
<1>t. CasShape /\ PublicationBacked(w) /\ PublishedWhole
    BY DEF CasInv, PublicationsBacked
<1>g. ASSUME UNCHANGED files PROVE ObjectsGrow
    BY <1>g DEF ObjectsGrow, files
<1>1. ASSUME NEW d \in Digests, NEW source \in SourceKinds, AdoptOpenFile(w, d, source)
      PROVE  CasInv' /\ ObjectsGrow
  <2>1. CasShape'
    BY <1>1, <1>t DEF AdoptOpenFile, CasShape, WorkerFields, files
  <2>2. \A x \in Workers : x # w => worker'[x] = worker[x]
    BY <1>1, <1>t DEF AdoptOpenFile, CasShape, WorkerFields
  <2>3. /\ worker'[w].phase = "streamed" /\ worker'[w].digest = d
    BY <1>1, <1>t DEF AdoptOpenFile, CasShape, WorkerFields
  <2>4. UNCHANGED files /\ PublicationBacked(w)'
    BY <1>1, <2>3 DEF AdoptOpenFile, PublicationBacked
  <2> QED BY <2>1, <2>2, <2>3, <2>4, <1>g, CasMoves
<1>2. CASE FsyncTemporary(w)
  <2>1. CasShape'
    BY <1>2, <1>t DEF FsyncTemporary, CasShape, WorkerFields, files
  <2>2. \A x \in Workers : x # w => worker'[x] = worker[x]
    BY <1>2, <1>t DEF FsyncTemporary, CasShape, WorkerFields
  <2>3. /\ worker'[w].phase = "flushed" /\ worker'[w].digest = worker[w].digest
        /\ worker'[w].temp = "synced"
    BY <1>2, <1>t DEF FsyncTemporary, CasShape, WorkerFields
  <2>4. UNCHANGED files /\ PublicationBacked(w)'
    BY <1>2, <2>3, <1>t DEF FsyncTemporary, PublicationBacked
  <2> QED BY <2>1, <2>2, <2>3, <2>4, <1>g, CasMoves
<1>3. CASE HardLink(w)
  <2> DEFINE d == worker[w].digest
  <2>1. d \in Digests /\ worker[w].temp = "synced" /\ ~object[d].present
    BY <1>3, <1>t DEF HardLink, PublicationBacked
  <2>2. \A x \in Workers : x # w => worker'[x] = worker[x]
    BY <1>3, <1>t DEF HardLink, CasShape, WorkerFields
  <2>3. /\ sealed' = sealed /\ worker'[w].phase = "linked" /\ worker'[w].digest = d
        /\ DOMAIN worker' = Workers /\ DOMAIN worker'[w] = WorkerFields
    BY <1>3, <1>t DEF HardLink, CasShape, WorkerFields
  <2>4. /\ \A e \in Digests : e # d => object'[e] = object[e]
        /\ object'[d] = [present |-> TRUE, leaf |-> FALSE, prefix |-> object[d].prefix,
                         bytes |-> "synced"]
        /\ DOMAIN object' = Digests
    BY <1>3, <2>1, <1>t DEF HardLink, CasShape
  <2>5. CasShape'
    BY <2>1, <2>2, <2>3, <2>4, <1>t DEF CasShape, ObjectFields
  <2>6. ObjectsGrow
    BY <2>1, <2>4 DEF ObjectsGrow
  <2>7. PublishedWhole'
    BY <2>1, <2>4, <1>t DEF PublishedWhole
  <2>8. PublicationBacked(w)'
    BY <2>1, <2>3, <2>4 DEF PublicationBacked
  <2> HIDE DEF d
  <2> QED BY <2>2, <2>3, <2>5, <2>6, <2>7, <2>8, CasStep
<1>4. CASE AlreadyExists(w)
  <2>1. CasShape'
    BY <1>4, <1>t DEF AlreadyExists, CasShape, WorkerFields, files
  <2>2. \A x \in Workers : x # w => worker'[x] = worker[x]
    BY <1>4, <1>t DEF AlreadyExists, CasShape, WorkerFields
  <2>3. worker'[w].phase = "idle"
    BY <1>4, <1>t DEF AlreadyExists, CasShape, WorkerFields
  <2>4. UNCHANGED files /\ PublicationBacked(w)'
    BY <1>4, <2>3 DEF AlreadyExists, PublicationBacked
  <2> QED BY <2>1, <2>2, <2>3, <2>4, <1>g, CasMoves
<1>5. CASE SyncLeaf(w)
  <2> DEFINE d == worker[w].digest
  <2>1. d \in Digests /\ object[d].present
    BY <1>5, <1>t DEF SyncLeaf, PublicationBacked
  <2>2. \A x \in Workers : x # w => worker'[x] = worker[x]
    BY <1>5, <1>t DEF SyncLeaf, CasShape, WorkerFields
  <2>3. /\ sealed' = sealed /\ worker'[w].phase = "leafSynced" /\ worker'[w].digest = d
        /\ DOMAIN worker' = Workers /\ DOMAIN worker'[w] = WorkerFields
    BY <1>5, <1>t DEF SyncLeaf, CasShape, WorkerFields
  <2>4. /\ \A e \in Digests : e # d => object'[e] = object[e]
        /\ object'[d] = [object[d] EXCEPT !.leaf = TRUE]
        /\ DOMAIN object' = Digests
    BY <1>5, <2>1, <1>t DEF SyncLeaf, CasShape
  <2>5. /\ object'[d].leaf /\ (object'[d].present <=> object[d].present)
        /\ (object'[d].prefix <=> object[d].prefix) /\ object'[d].bytes = object[d].bytes
        /\ DOMAIN object'[d] = ObjectFields
    BY <2>1, <2>4, <1>t DEF CasShape, ObjectFields
  <2>6. CasShape'
    BY <2>1, <2>2, <2>3, <2>4, <2>5, <1>t DEF CasShape
  <2>7. ObjectsGrow
    BY <2>1, <2>4, <2>5 DEF ObjectsGrow
  <2>8. PublishedWhole'
    BY <2>1, <2>4, <2>5, <1>t DEF PublishedWhole
  <2>9. PublicationBacked(w)'
    BY <2>1, <2>3, <2>5 DEF PublicationBacked
  <2> HIDE DEF d
  <2> QED BY <2>2, <2>3, <2>6, <2>7, <2>8, <2>9, CasStep
<1>6. CASE SyncRoot(w)
  <2>1. PICK d \in Digests : worker[w].digest = d /\ object[d].present /\ object[d].leaf
    BY <1>6, <1>t DEF SyncRoot, PublicationBacked
  <2>2. \A x \in Workers : x # w => worker'[x] = worker[x]
    BY <1>6, <1>t DEF SyncRoot, CasShape
  <2>3. /\ sealed' = sealed \cup {d} /\ worker'[w].phase = "idle"
        /\ DOMAIN worker' = Workers /\ DOMAIN worker'[w] = WorkerFields
    BY <1>6, <2>1, <1>t DEF SyncRoot, CasShape, WorkerFields
  <2>4. object' = [e \in Digests |-> [object[e] EXCEPT !.prefix = @ \/ object[e].present]]
    BY <1>6 DEF SyncRoot
  <2>5. \A e \in Digests : /\ object'[e].present <=> object[e].present
                           /\ object'[e].leaf <=> object[e].leaf
                           /\ object'[e].bytes = object[e].bytes
                           /\ object[e].prefix \/ object[e].present => object'[e].prefix
    BY <2>4, <1>t DEF CasShape, ObjectFields
  <2>6. DOMAIN object' = Digests /\ \A e \in Digests : DOMAIN object'[e] = ObjectFields
    BY <2>4, <1>t DEF CasShape
  <2>7. CasShape'
    BY <2>1, <2>2, <2>3, <2>6, <1>t DEF CasShape
  <2>8. ObjectsGrow
    BY <2>5 DEF ObjectsGrow
  <2>9. PublishedWhole'
    BY <2>5, <1>t DEF PublishedWhole
  <2>10. PublicationBacked(w)'
    BY <2>3 DEF PublicationBacked
  <2>11. Synced(d)'
    BY <2>1, <2>5 DEF Synced
  <2> QED BY <2>2, <2>3, <2>7, <2>8, <2>9, <2>10, <2>11, CasStep
<1>7. CASE PublishFails(w)
  <2>1. CasShape'
    BY <1>7, <1>t DEF PublishFails, CasShape, WorkerFields, files
  <2>2. \A x \in Workers : x # w => worker'[x] = worker[x]
    BY <1>7, <1>t DEF PublishFails, CasShape, WorkerFields
  <2>3. worker'[w].phase = "idle"
    BY <1>7, <1>t DEF PublishFails, CasShape, WorkerFields
  <2>4. UNCHANGED files /\ PublicationBacked(w)'
    BY <1>7, <2>3 DEF PublishFails, PublicationBacked
  <2> QED BY <2>1, <2>2, <2>3, <2>4, <1>g, CasMoves
<1> QED
    BY <1>1, <1>2, <1>3, <1>4, <1>5, <1>6, <1>7 DEF Adopt

\* What is sealed is left by a power loss that leaves the tree.
LEMMA SyncedSurvives ==
    ASSUME CasInv, NEW d \in sealed, NEW o \in SurvivesPowerLoss(object[d])
    PROVE  o.present /\ o.leaf /\ o.prefix
<1>1. object[d].present /\ object[d].leaf /\ object[d].prefix /\ DOMAIN object[d] = ObjectFields
    BY DEF CasInv, SealedSynced, Synced, CasShape
<1>2. o = [object[d] EXCEPT !.leaf = TRUE, !.prefix = TRUE,
                            !.bytes = IF object[d].bytes = "cached" THEN "torn" ELSE @]
    BY <1>1 DEF SurvivesPowerLoss
<1> QED BY <1>1, <1>2 DEF ObjectFields

\* A power loss leaves, of the objects that were whole, whole objects.
LEMMA PowerLossKeeps ==
    ASSUME CasInv, CasPowerLoss
    PROVE  CasInv'
<1>t. CasShape /\ PublishedWhole
    BY DEF CasInv
<1>s. sealed' = {d \in sealed : object'[d].present} /\ worker' = [w \in Workers |-> IdleWorker]
    BY DEF CasPowerLoss
<1>5. CASE TreeLost
  <2>1. DOMAIN object' = Digests /\ \A d \in Digests : object'[d] = NoObject
    BY <1>5 DEF TreeLost
  <2>2. DOMAIN NoObject = ObjectFields /\ ~NoObject.present
    BY DEF NoObject, ObjectFields
  <2>3. PublishedWhole'
    BY <2>1, <2>2 DEF PublishedWhole
  <2>4. sealed' \subseteq Digests /\ SealedSynced'
    BY <1>s, <1>t, <2>1, <2>2 DEF CasShape, SealedSynced
  <2> QED BY <1>s, <2>1, <2>2, <2>3, <2>4, CasRestart
<1>6. SUFFICES ASSUME TreeSurvives PROVE CasInv'
    BY <1>5 DEF CasPowerLoss
<1>1. /\ \A d \in Digests : object'[d] \in SurvivesPowerLoss(object[d])
      /\ object' \in [Digests -> UNION {SurvivesPowerLoss(object[d]) : d \in Digests}]
    BY <1>6 DEF TreeSurvives
<1>2. ASSUME NEW d \in Digests, NEW o \in SurvivesPowerLoss(object[d])
      PROVE  DOMAIN o = ObjectFields /\ (o.present => o.bytes = "synced")
  <2>1. DOMAIN object[d] = ObjectFields /\ (object[d].present => object[d].bytes = "synced")
    BY <1>t DEF CasShape, PublishedWhole
  <2>2. CASE ~object[d].present
    BY <1>2, <2>1, <2>2 DEF SurvivesPowerLoss
  <2>3. CASE object[d].present
    <3> DEFINE kept == [object[d] EXCEPT !.leaf = TRUE, !.prefix = TRUE,
                          !.bytes = IF object[d].bytes = "cached" THEN "torn" ELSE @]
               gone == [NoObject EXCEPT !.prefix = object[d].prefix]
    <3>1. o = kept \/ o = gone
      BY <1>2, <2>3 DEF SurvivesPowerLoss
    <3>2. DOMAIN kept = ObjectFields /\ kept.bytes = "synced"
      BY <2>1, <2>3 DEF ObjectFields
    <3>3. DOMAIN gone = ObjectFields /\ ~gone.present
      BY <2>1 DEF ObjectFields, NoObject
    <3> HIDE DEF kept, gone
    <3> QED BY <3>1, <3>2, <3>3
  <2> QED BY <2>2, <2>3
<1>3. DOMAIN object' = Digests /\ \A d \in Digests : DOMAIN object'[d] = ObjectFields
    BY <1>1, <1>2
<1>4. PublishedWhole'
    BY <1>1, <1>2 DEF PublishedWhole
<1>7. sealed' \subseteq Digests /\ SealedSynced'
  <2>1. ASSUME NEW d \in sealed PROVE d \in Digests /\ Synced(d)'
    BY <1>1, <1>t, SyncedSurvives DEF CasShape, Synced
  <2> QED BY <1>s, <2>1 DEF SealedSynced
<1> QED BY <1>s, <1>3, <1>4, <1>7, CasRestart

(* ------------------------- the command audit ------------------------------ *)

\* A sequence, whatever its elements.
IsSequence(s) == s \in Seq({s[i] : i \in DOMAIN s})

\* A row appended to a sequence leaves the rows before it where they are.
LEMMA AppendRow ==
    ASSUME NEW s, NEW row, IsSequence(s)
    PROVE  /\ IsSequence(Append(s, row))
           /\ Len(s) \in Nat /\ DOMAIN s = 1..Len(s)
           /\ Len(Append(s, row)) = Len(s) + 1
           /\ DOMAIN Append(s, row) = 1..(Len(s) + 1)
           /\ \A i \in 1..Len(s) : Append(s, row)[i] = s[i]
           /\ Append(s, row)[Len(s) + 1] = row
<1> DEFINE t == Append(s, row)
<1>1. Len(s) \in Nat /\ DOMAIN s = 1..Len(s)
    BY DEF IsSequence
<1>2. PICK S : s \in Seq(S)
    BY DEF IsSequence
<1>3. t \in Seq(S \cup {row}) /\ Len(t) = Len(s) + 1 /\ DOMAIN t = 1..(Len(s) + 1)
    BY <1>2, s \in Seq(S \cup {row})
<1>4. (\A i \in 1..Len(s) : t[i] = s[i]) /\ t[Len(s) + 1] = row
    BY <1>2
<1> HIDE DEF t
<1>5. t \in Seq({t[i] : i \in DOMAIN t})
    BY <1>3
<1> QED BY <1>1, <1>3, <1>4, <1>5 DEF t, IsSequence

\* One receipt for every command identity.
ReceiptsUnique ==
    \A i, j \in DOMAIN audit : audit[i].command = audit[j].command => i = j

\* The last answer is taken from a receipt.
AnswerRecorded ==
    answer.row # 0 => /\ answer.row \in DOMAIN audit
                      /\ audit[answer.row].command = answer.command
                      /\ audit[answer.row].fingerprint = answer.fingerprint

AuditInv == IsSequence(audit) /\ ReceiptsUnique /\ AnswerRecorded

\* A receipt is inserted, and the client is answered from it or not at all.
LEMMA ReceiptInserted ==
    ASSUME AuditInv, NEW c, NEW f, NEW k, NEW s, InsertAuditReceipt(c, f, k, s),
           UNCHANGED answer \/ Reply(c, f, Len(audit) + 1, FALSE)
    PROVE  AuditInv' /\ Len(audit') > Len(audit)
<1> DEFINE row == [command |-> c, fingerprint |-> f, kind |-> k, subject |-> s]
<1>1. /\ IsSequence(audit') /\ Len(audit) \in Nat /\ DOMAIN audit = 1..Len(audit)
      /\ Len(audit') = Len(audit) + 1 /\ DOMAIN audit' = 1..(Len(audit) + 1)
      /\ \A i \in 1..Len(audit) : audit'[i] = audit[i]
      /\ audit'[Len(audit) + 1] = row
  <2>1. audit' = Append(audit, row) /\ IsSequence(audit)
    BY DEF InsertAuditReceipt, AuditInv
  <2> HIDE DEF row
  <2> QED BY <2>1, AppendRow
<1>2. row.command = c /\ row.fingerprint = f
    OBVIOUS
<1> HIDE DEF row
<1>3. \A i \in DOMAIN audit : audit[i].command # c
    BY DEF InsertAuditReceipt, FindIdempotentAudit
<1>4. ReceiptsUnique'
  <2> SUFFICES ASSUME NEW i \in DOMAIN audit', NEW j \in DOMAIN audit',
                      audit'[i].command = audit'[j].command
               PROVE  i = j
    BY DEF ReceiptsUnique
  <2>1. CASE i = Len(audit) + 1 /\ j # Len(audit) + 1
    <3>1. j \in DOMAIN audit /\ audit'[j] = audit[j]
      BY <1>1, <2>1
    <3> QED BY <1>1, <1>2, <1>3, <2>1, <3>1
  <2>2. CASE j = Len(audit) + 1 /\ i # Len(audit) + 1
    <3>1. i \in DOMAIN audit /\ audit'[i] = audit[i]
      BY <1>1, <2>2
    <3> QED BY <1>1, <1>2, <1>3, <2>2, <3>1
  <2>3. CASE i # Len(audit) + 1 /\ j # Len(audit) + 1
    <3>1. i \in DOMAIN audit /\ j \in DOMAIN audit /\ audit'[i] = audit[i] /\ audit'[j] = audit[j]
      BY <1>1, <2>3
    <3> QED BY <3>1 DEF AuditInv, ReceiptsUnique
  <2> QED BY <2>1, <2>2, <2>3
<1>5. AnswerRecorded'
  <2>1. CASE UNCHANGED answer
    <3>1. answer.row \in DOMAIN audit => /\ answer.row \in DOMAIN audit'
                                         /\ audit'[answer.row] = audit[answer.row]
      BY <1>1
    <3> QED BY <2>1, <3>1 DEF AuditInv, AnswerRecorded
  <2>2. CASE Reply(c, f, Len(audit) + 1, FALSE)
    <3>1. answer'.row = Len(audit) + 1 /\ answer'.command = c /\ answer'.fingerprint = f
      BY <2>2 DEF Reply
    <3> QED BY <1>1, <1>2, <3>1 DEF AnswerRecorded
  <2> QED BY <2>1, <2>2
<1> QED BY <1>1, <1>4, <1>5 DEF AuditInv

\* Without a receipt and an answer nothing changes here.
LEMMA AuditFrame ==
    ASSUME AuditInv, UNCHANGED <<audit, answer>>
    PROVE  AuditInv'
BY DEF AuditInv, ReceiptsUnique, AnswerRecorded, IsSequence

\* A repeated command is answered from its own receipt.
LEMMA ReplayKeeps ==
    ASSUME AuditInv, NEW i \in DOMAIN audit, ReplayCommand(i)
    PROVE  AuditInv'
<1>1. /\ audit' = audit
      /\ answer'.row = i /\ answer'.command = audit[i].command
      /\ answer'.fingerprint = audit[i].fingerprint
    BY DEF ReplayCommand, Reply
<1> QED BY <1>1 DEF AuditInv, ReceiptsUnique, AnswerRecorded, IsSequence

\* The first admission commits two receipts, of two different identities.
LEMMA FirstAdmissionKeeps ==
    ASSUME AuditInv, NEW w, NEW n, NEW d, AdmitFirstApplication(w, n, d)
    PROVE  AuditInv' /\ Len(audit') > Len(audit)
<1> DEFINE fingerprint == <<"application_revision.admit", d, Len(revisions)>>
           binding == [command |-> <<"application-repository", n>>,
                       fingerprint |-> <<"repository.register", Bundle[d].path>>,
                       kind |-> 2, subject |-> 1]
           admission == [command |-> Client(n), fingerprint |-> fingerprint,
                         kind |-> 1, subject |-> Len(revisions) + 1]
<1>1. /\ audit' = audit \o <<binding, admission>>
      /\ FindIdempotentAudit(Client(n)) = {} /\ FindIdempotentAudit(binding.command) = {}
      /\ Reply(Client(n), fingerprint, Len(audit) + 2, FALSE)
    BY DEF AdmitFirstApplication
<1>2. /\ binding.command = <<"application-repository", n>>
      /\ admission.command = Client(n) /\ admission.fingerprint = fingerprint
      /\ binding.command # admission.command
    BY DEF Client
<1> HIDE DEF binding, admission, fingerprint
<1>3. /\ Len(audit) \in Nat /\ DOMAIN audit = 1..Len(audit)
      /\ Len(audit') = Len(audit) + 2 /\ DOMAIN audit' = 1..(Len(audit) + 2)
      /\ \A i \in 1..Len(audit) : audit'[i] = audit[i]
      /\ audit'[Len(audit) + 1] = binding /\ audit'[Len(audit) + 2] = admission
      /\ IsSequence(audit')
  <2>1. PICK S : audit \in Seq(S)
    BY DEF AuditInv, IsSequence
  <2>2. audit \in Seq(S \cup {binding, admission})
    BY <2>1
  <2>3. <<binding, admission>> \in Seq(S \cup {binding, admission})
    OBVIOUS
  <2>4. /\ audit' \in Seq(S \cup {binding, admission})
        /\ Len(audit') = Len(audit) + 2
        /\ \A i \in 1..Len(audit) : audit'[i] = audit[i]
        /\ audit'[Len(audit) + 1] = binding /\ audit'[Len(audit) + 2] = admission
    BY <1>1, <2>2, <2>3
  <2>5. audit' \in Seq({audit'[i] : i \in DOMAIN audit'})
    BY <2>4
  <2> QED BY <2>1, <2>4, <2>5 DEF IsSequence
<1>4. \A i \in DOMAIN audit : /\ audit[i].command # binding.command
                              /\ audit[i].command # admission.command
    BY <1>1, <1>2 DEF FindIdempotentAudit
<1>5. \A i \in DOMAIN audit' : \/ i \in DOMAIN audit /\ audit'[i] = audit[i]
                               \/ i = Len(audit) + 1 /\ audit'[i] = binding
                               \/ i = Len(audit) + 2 /\ audit'[i] = admission
    BY <1>3
<1>6. ReceiptsUnique'
  <2> SUFFICES ASSUME NEW i \in DOMAIN audit', NEW j \in DOMAIN audit',
                      audit'[i].command = audit'[j].command
               PROVE  i = j
    BY DEF ReceiptsUnique
  <2> QED BY <1>2, <1>4, <1>5 DEF AuditInv, ReceiptsUnique
<1>7. AnswerRecorded'
  <2>1. /\ answer'.row = Len(audit) + 2 /\ answer'.command = Client(n)
        /\ answer'.fingerprint = fingerprint
    BY <1>1 DEF Reply
  <2> QED BY <1>2, <1>3, <2>1 DEF AnswerRecorded
<1> QED BY <1>3, <1>6, <1>7 DEF AuditInv

\* What a step of the records does to receipts: it leaves them alone, or commits new
\* ones, and no artifact is registered without one.
ReceiptStep ==
    /\ AuditInv'
    /\ Len(audit') > Len(audit) \/ UNCHANGED <<audit, artifacts>>

\* Every step of the records, a power loss included, is one of those.
LEMMA RecordsReceipts ==
    ASSUME AuditInv, RecordsNext
    PROVE  ReceiptStep
<1>1. ASSUME NEW w \in Workers, Adopt(w) PROVE ReceiptStep
    BY <1>1, AuditFrame DEF Adopt, recordVars, ReceiptStep
<1>2. ASSUME NEW w \in Workers, RegisterArtifactWrite(w) PROVE ReceiptStep
    BY <1>2, ReceiptInserted DEF RegisterArtifactWrite, ReceiptStep
<1>3. ASSUME NEW w \in Workers, RegisterArtifactRefused(w) PROVE ReceiptStep
    BY <1>3, AuditFrame DEF RegisterArtifactRefused, recordVars, ReceiptStep
<1>4. ASSUME NEW w \in Workers, NEW b \in Builds, NEW d \in Digests, InstallKernelBuild(w, b, d)
      PROVE  ReceiptStep
    BY <1>4, ReceiptInserted DEF InstallKernelBuild, ReceiptStep
<1>5. ASSUME NEW n \in 1..MaxCommands, ClientRequest(n) PROVE ReceiptStep
  <2>1. ASSUME NEW path \in Paths, RegisterRepository(n, path) PROVE ReceiptStep
    BY <2>1, ReceiptInserted DEF RegisterRepository, ReceiptStep
  <2>2. ASSUME NEW r \in DOMAIN revisions, NEW d \in Digests, ActivateApplicationRevision(n, r, d)
        PROVE  ReceiptStep
    BY <2>2, ReceiptInserted DEF ActivateApplicationRevision, ReceiptStep
  <2>3. ASSUME NEW r \in DOMAIN revisions, StartCampaign(n, r) PROVE ReceiptStep
    BY <2>3, ReceiptInserted DEF StartCampaign, ReceiptStep
  <2>4. ASSUME NEW family \in Families, LaterCommand(n, family) PROVE ReceiptStep
    BY <2>4, ReceiptInserted DEF LaterCommand, ReceiptStep
  <2>5. ASSUME NEW w \in Workers, NEW d \in Digests, RegisterArtifactRead(w, n, d)
        PROVE  ReceiptStep
    BY <2>5, AuditFrame DEF RegisterArtifactRead, recordVars, ReceiptStep
  <2>6. ASSUME NEW w \in Workers, NEW d \in DOMAIN Bundle, AdmitCompiledApplication(w, n, d)
        PROVE  ReceiptStep
    BY <2>6, ReceiptInserted DEF AdmitCompiledApplication, ReceiptStep
  <2>7. ASSUME NEW w \in Workers, NEW d \in DOMAIN Bundle, AdmitFirstApplication(w, n, d)
        PROVE  ReceiptStep
    BY <2>7, FirstAdmissionKeeps DEF ReceiptStep
  <2> QED BY <1>5, <2>1, <2>2, <2>3, <2>4, <2>5, <2>6, <2>7 DEF ClientRequest
<1>6. ASSUME NEW i \in DOMAIN audit, ReplayCommand(i) PROVE ReceiptStep
    BY <1>6, ReplayKeeps DEF ReplayCommand, ReceiptStep
<1>7. CASE EndCampaign \/ Serve \/ Kill \/ PowerLoss
    BY <1>7, AuditFrame DEF EndCampaign, Serve, Kill, PowerLoss, ReceiptStep
<1> QED
    BY <1>1, <1>2, <1>3, <1>4, <1>5, <1>6, <1>7 DEF RecordsNext, RecordsStep

(* ------------------- the records and the content store -------------------- *)

\* A step of the records is a step of an adoption, a handler that forgets or begins
\* a registration, or a loss of every handler; only a power loss touches a name.
LEMMA RecordsCas ==
    ASSUME CasInv, RecordsStep
    PROVE  CasInv' /\ ObjectsGrow
<1>g. ASSUME UNCHANGED files PROVE ObjectsGrow
    BY <1>g DEF ObjectsGrow, files
<1>f. ASSUME UNCHANGED <<files, worker>> PROVE CasInv' /\ ObjectsGrow
    BY <1>f, <1>g
    DEF CasInv, CasShape, PublicationsBacked, PublicationBacked, PublishedWhole,
        SealedSynced, Synced, files
<1>1. ASSUME NEW w \in Workers, Adopt(w) PROVE CasInv' /\ ObjectsGrow
    BY <1>1, AdoptKeeps
<1>2. ASSUME NEW w \in Workers, RegisterArtifactWrite(w) \/ RegisterArtifactRefused(w)
      PROVE  CasInv' /\ ObjectsGrow
    BY <1>2, <1>g, CasIdles DEF RegisterArtifactWrite, RegisterArtifactRefused
<1>3. ASSUME NEW w \in Workers, NEW b \in Builds, NEW d \in Digests, InstallKernelBuild(w, b, d)
      PROVE  CasInv' /\ ObjectsGrow
    BY <1>3, <1>g, CasIdles DEF InstallKernelBuild
<1>4. ASSUME NEW n \in 1..MaxCommands, ClientRequest(n) PROVE CasInv' /\ ObjectsGrow
  <2>1. ASSUME NEW w \in Workers, NEW d \in Digests, RegisterArtifactRead(w, n, d)
        PROVE  CasInv' /\ ObjectsGrow
    <3>1. CasShape /\ UNCHANGED files
      BY <2>1 DEF CasInv, RegisterArtifactRead
    <3>2. CasShape'
      BY <2>1, <3>1 DEF RegisterArtifactRead, CasShape, WorkerFields, files
    <3>3. \A x \in Workers : x # w => worker'[x] = worker[x]
      BY <2>1, <3>1 DEF RegisterArtifactRead, CasShape
    <3>4. worker'[w].phase = "reading"
      BY <2>1, <3>1 DEF RegisterArtifactRead, CasShape, WorkerFields
    <3>5. PublicationBacked(w)'
      BY <3>4 DEF PublicationBacked
    <3> QED BY <3>1, <3>2, <3>3, <3>4, <3>5, <1>g, CasMoves
  <2>2. ASSUME NEW w \in Workers, NEW d \in DOMAIN Bundle,
               AdmitCompiledApplication(w, n, d) \/ AdmitFirstApplication(w, n, d)
        PROVE  CasInv' /\ ObjectsGrow
    BY <2>2, <1>g, CasIdles DEF AdmitCompiledApplication, AdmitFirstApplication
  <2>3. CASE \/ \E path \in Paths : RegisterRepository(n, path)
             \/ \E r \in DOMAIN revisions, d \in Digests : ActivateApplicationRevision(n, r, d)
             \/ \E r \in DOMAIN revisions : StartCampaign(n, r)
             \/ \E family \in Families : LaterCommand(n, family)
    BY <2>3, <1>f
    DEF RegisterRepository, ActivateApplicationRevision, StartCampaign, LaterCommand, casVars
  <2> QED BY <1>4, <2>1, <2>2, <2>3 DEF ClientRequest
<1>5. CASE EndCampaign \/ Serve \/ \E i \in DOMAIN audit : ReplayCommand(i)
    BY <1>5, <1>f DEF EndCampaign, Serve, ReplayCommand, casVars
<1>6. CASE Kill
  <2>1. /\ CasShape /\ PublishedWhole /\ SealedSynced /\ UNCHANGED files
        /\ worker' = [w \in Workers |-> IdleWorker]
    BY <1>6 DEF CasInv, Kill
  <2> QED
    BY <2>1, <1>g, CasRestart DEF CasShape, PublishedWhole, SealedSynced, Synced, files
<1> QED BY <1>1, <1>2, <1>3, <1>4, <1>5, <1>6 DEF RecordsStep

\* The running campaign has pinned a revision that is there and is active.
PinInv ==
    /\ IsSequence(revisions) /\ DOMAIN campaign = {"running", "revision"}
    /\ campaign.running => /\ campaign.revision \in DOMAIN revisions
                           /\ revisions[campaign.revision].active

\* Revisions are appended, and the pointer moves, only so that a pin stays valid.
LEMMA RecordsPin ==
    ASSUME PinInv, RecordsNext
    PROVE  PinInv'
<1>f. ASSUME UNCHANGED <<revisions, campaign>> PROVE PinInv'
    BY <1>f DEF PinInv, IsSequence
<1>a. ASSUME NEW row, revisions' = Append(revisions, row), UNCHANGED campaign PROVE PinInv'
  <2>1. /\ IsSequence(revisions') /\ DOMAIN revisions = 1..Len(revisions)
        /\ DOMAIN revisions' = 1..(Len(revisions) + 1) /\ Len(revisions) \in Nat
        /\ \A i \in 1..Len(revisions) : revisions'[i] = revisions[i]
    BY <1>a, AppendRow DEF PinInv
  <2>2. \A i \in DOMAIN revisions : i \in DOMAIN revisions' /\ revisions'[i] = revisions[i]
    BY <2>1
  <2> QED BY <1>a, <2>1, <2>2 DEF PinInv
<1>1. ASSUME NEW w \in Workers,
             Adopt(w) \/ RegisterArtifactWrite(w) \/ RegisterArtifactRefused(w)
      PROVE  PinInv'
    BY <1>1, <1>f DEF Adopt, RegisterArtifactWrite, RegisterArtifactRefused, recordVars
<1>2. ASSUME NEW w \in Workers, NEW b \in Builds, NEW d \in Digests, InstallKernelBuild(w, b, d)
      PROVE  PinInv'
    BY <1>2, <1>f DEF InstallKernelBuild
<1>3. ASSUME NEW n \in 1..MaxCommands, ClientRequest(n) PROVE PinInv'
  <2>1. ASSUME NEW r \in DOMAIN revisions, NEW d \in Digests, ActivateApplicationRevision(n, r, d)
        PROVE  PinInv'
    <3>1. /\ ~campaign.running /\ campaign' = campaign
          /\ revisions' = [i \in DOMAIN revisions |-> [revisions[i] EXCEPT !.active = (i = r)]]
      BY <2>1 DEF ActivateApplicationRevision
    <3>2. DOMAIN revisions = 1..Len(revisions) /\ Len(revisions) \in Nat
      BY DEF PinInv, IsSequence
    <3>3. IsSequence(revisions')
      BY <3>1, <3>2 DEF IsSequence
    <3> QED BY <3>1, <3>3 DEF PinInv
  <2>2. ASSUME NEW r \in DOMAIN revisions, StartCampaign(n, r) PROVE PinInv'
    <3>1. /\ revisions' = revisions /\ revisions[r].active
          /\ campaign' = [running |-> TRUE, revision |-> r]
      BY <2>2 DEF StartCampaign
    <3> QED BY <3>1 DEF PinInv, IsSequence
  <2>3. ASSUME NEW w \in Workers, NEW d \in DOMAIN Bundle,
               AdmitCompiledApplication(w, n, d) \/ AdmitFirstApplication(w, n, d)
        PROVE  PinInv'
    BY <2>3, <1>a DEF AdmitCompiledApplication, AdmitFirstApplication
  <2>4. CASE \/ \E path \in Paths : RegisterRepository(n, path)
             \/ \E family \in Families : LaterCommand(n, family)
             \/ \E w \in Workers, d \in Digests : RegisterArtifactRead(w, n, d)
    BY <2>4, <1>f DEF RegisterRepository, LaterCommand, RegisterArtifactRead, recordVars
  <2> QED BY <1>3, <2>1, <2>2, <2>3, <2>4 DEF ClientRequest
<1>4. CASE EndCampaign
  <2>1. revisions' = revisions /\ campaign' = [campaign EXCEPT !.running = FALSE]
    BY <1>4 DEF EndCampaign
  <2>2. ~campaign'.running /\ DOMAIN campaign' = {"running", "revision"}
    BY <2>1 DEF PinInv
  <2> QED BY <2>1, <2>2 DEF PinInv, IsSequence
<1>5. CASE Serve \/ Kill \/ PowerLoss \/ \E i \in DOMAIN audit : ReplayCommand(i)
    BY <1>5, <1>f DEF Serve, Kill, PowerLoss, ReplayCommand
<1> QED BY <1>1, <1>2, <1>3, <1>4, <1>5 DEF RecordsNext, RecordsStep

(* ----------------------- the backup qualification ------------------------- *)

BackupFields ==
    {"phase", "before", "tree", "dump", "copy", "after", "atEnd", "objects"}

IsSnapshot(s) == s = [artifacts |-> s.artifacts, rows |-> s.rows, running |-> s.running]

BackupShape ==
    /\ DOMAIN backup = BackupFields
    /\ IsSnapshot(backup.before) /\ IsSnapshot(backup.after)

\* The rows of the first fingerprint are a prefix of the audit.
RowsRead ==
    backup.phase \in {"sourceRead", "fingerprinted", "dumped", "copied", "restored", "judged",
                      "sourceArtifactsAgain"}
      => backup.before.rows \in Nat /\ backup.before.rows <= Len(audit)

\* The names that were copied are still there.
CopyKept ==
    /\ backup.phase \in {"copied", "restored", "judged", "sourceArtifactsAgain"}
         => backup.copy.objects \subseteq Published
    /\ backup.phase = "sourceReadAgain"
         => backup.copy.objects \subseteq backup.objects /\ backup.objects \subseteq Published

\* The clone is the source as it was fingerprinted.
CloneMatches ==
    backup.phase \in {"restored", "judged", "sourceArtifactsAgain", "sourceReadAgain"}
      => backup.copy = backup.tree /\ backup.dump = backup.before

\* Artifacts read again are the artifacts there are, as long as no receipt came.
ArtifactsReadAgain ==
    backup.phase = "sourceArtifactsAgain"
      => (Len(audit) = backup.before.rows => backup.after.artifacts = artifacts)

\* The second fingerprint is the database at its last read, if it has the rows of
\* the first.
SourceReadAgain ==
    backup.phase = "sourceReadAgain"
      => /\ IsSnapshot(backup.atEnd)
         /\ backup.after.rows = backup.atEnd.rows
         /\ backup.after.running = backup.atEnd.running
         /\ backup.after.rows = backup.before.rows
              => backup.after.artifacts = backup.atEnd.artifacts

BackupInv ==
    /\ BackupShape /\ RowsRead /\ CopyKept /\ CloneMatches /\ ArtifactsReadAgain
    /\ SourceReadAgain /\ QualifiedPairIsSource

\* A qualification that has not started or has failed claims nothing.
LEMMA NothingClaimed ==
    ASSUME backup' = NoBackup \/ backup' = [NoBackup EXCEPT !.phase = "failed"]
    PROVE  BackupInv'
<1>1. BackupShape'
    BY DEF BackupShape, BackupFields, IsSnapshot, NoBackup, NoSnapshot
<1>2. backup'.phase \in {"idle", "failed"}
    BY DEF NoBackup
<1> QED
    BY <1>1, <1>2
    DEF BackupInv, RowsRead, CopyKept, CloneMatches, ArtifactsReadAgain, SourceReadAgain,
        QualifiedPairIsSource

\* What other commits may do between two reads of the qualification.
LEMMA RecordsBesideBackup ==
    ASSUME BackupInv, AuditInv, AuditInv', ObjectsGrow, UNCHANGED backup,
           Len(audit') > Len(audit) \/ UNCHANGED <<audit, artifacts>>
    PROVE  BackupInv'
<1>1. Len(audit) \in Nat /\ Len(audit') \in Nat /\ Len(audit') >= Len(audit)
    BY DEF AuditInv, IsSequence
<1>2. Published \subseteq Published'
    BY DEF Published, ObjectsGrow
<1>3. RowsRead'
    BY <1>1 DEF BackupInv, RowsRead
<1>4. CopyKept'
    BY <1>2 DEF BackupInv, CopyKept
<1>5. ArtifactsReadAgain'
  <2> SUFFICES ASSUME backup.phase = "sourceArtifactsAgain", Len(audit') = backup.before.rows
               PROVE  backup.after.artifacts = artifacts'
    BY DEF ArtifactsReadAgain
  <2>1. backup.before.rows \in Nat /\ backup.before.rows <= Len(audit)
    BY DEF BackupInv, RowsRead
  <2>2. UNCHANGED <<audit, artifacts>>
    BY <1>1, <2>1
  <2> QED BY <2>2 DEF BackupInv, ArtifactsReadAgain
<1>6. BackupShape' /\ CloneMatches' /\ SourceReadAgain' /\ QualifiedPairIsSource'
    BY DEF BackupInv, BackupShape, IsSnapshot, CloneMatches, SourceReadAgain, QualifiedPairIsSource
<1> QED BY <1>3, <1>4, <1>5, <1>6 DEF BackupInv

\* Each read and each comparison of the qualification.
LEMMA BackupStepKeeps ==
    ASSUME BackupInv, AuditInv, BackupStep
    PROVE  BackupInv'
<1> USE DEF BackupFields
<1>s. BackupShape
    BY DEF BackupInv
<1>l. Len(audit) \in Nat
    BY DEF AuditInv, IsSequence
<1>u. UNCHANGED <<audit, artifacts, object>>
    BY DEF BackupStep, FingerprintArtifacts, FingerprintAudit, FingerprintTree, Dump, CopyTree,
           CompareClone, JudgeClone, RefingerprintArtifacts, RefingerprintAudit, CompareSource,
           vars, casVars, files, recordVars
<1>p. Published' = Published
    BY <1>u DEF Published
<1>f. ASSUME NEW condition, NEW next, Require(condition, next), ~condition PROVE BackupInv'
    BY <1>f, NothingClaimed DEF Require
<1>1. CASE FingerprintArtifacts
  <2>1. backup'.phase = "sourceArtifacts" /\ BackupShape'
    BY <1>1, <1>s DEF FingerprintArtifacts, BackupShape, IsSnapshot
  <2> QED
    BY <2>1 DEF BackupInv, RowsRead, CopyKept, CloneMatches, ArtifactsReadAgain, SourceReadAgain,
                QualifiedPairIsSource
<1>2. CASE FingerprintAudit
  <2>1. backup'.phase = "sourceRead" /\ backup'.before.rows = Len(audit) /\ BackupShape'
    BY <1>2, <1>s DEF FingerprintAudit, BackupShape, IsSnapshot
  <2> QED
    BY <2>1, <1>l, <1>u
    DEF BackupInv, RowsRead, CopyKept, CloneMatches, ArtifactsReadAgain, SourceReadAgain,
        QualifiedPairIsSource
<1>3. CASE FingerprintTree \/ Dump
  <2>1. /\ backup'.phase \in {"fingerprinted", "dumped"} /\ backup'.before = backup.before
        /\ backup.phase \in {"sourceRead", "fingerprinted"} /\ BackupShape'
    BY <1>3, <1>s DEF FingerprintTree, Dump, BackupShape
  <2> QED
    BY <2>1, <1>u
    DEF BackupInv, RowsRead, CopyKept, CloneMatches, ArtifactsReadAgain, SourceReadAgain,
        QualifiedPairIsSource
<1>4. CASE CopyTree
  <2>1. /\ backup'.phase = "copied" /\ backup'.before = backup.before
        /\ backup.phase = "dumped" /\ BackupShape' /\ backup'.copy = TreeFingerprint
    BY <1>4, <1>s DEF CopyTree, BackupShape
  <2>2. backup'.copy.objects = Published
    BY <2>1 DEF TreeFingerprint
  <2> QED
    BY <2>1, <2>2, <1>u, <1>p
    DEF BackupInv, RowsRead, CopyKept, CloneMatches, ArtifactsReadAgain, SourceReadAgain,
        QualifiedPairIsSource
<1>5. CASE CompareClone
  <2> DEFINE same == backup.copy = backup.tree /\ backup.dump = backup.before
  <2>1. backup.phase = "copied" /\ Require(same, "restored")
    BY <1>5 DEF CompareClone
  <2>2. CASE same
    <3>1. /\ backup'.phase = "restored" /\ BackupShape' /\ backup'.before = backup.before
          /\ backup'.copy = backup.copy /\ backup'.tree = backup.tree /\ backup'.dump = backup.dump
      BY <2>1, <2>2, <1>s DEF Require, BackupShape
    <3> QED
      BY <2>1, <2>2, <3>1, <1>u, <1>p
      DEF BackupInv, RowsRead, CopyKept, CloneMatches, ArtifactsReadAgain, SourceReadAgain,
          QualifiedPairIsSource
  <2>3. CASE ~same
    BY <2>1, <2>3, <1>f
  <2> QED BY <2>2, <2>3
<1>6. CASE JudgeClone
  <2> DEFINE whole == backup.dump.artifacts \subseteq backup.copy.objects
  <2>1. backup.phase = "restored" /\ Require(whole, "judged")
    BY <1>6 DEF JudgeClone
  <2>2. CASE whole
    <3>1. /\ backup'.phase = "judged" /\ BackupShape' /\ backup'.before = backup.before
          /\ backup'.copy = backup.copy /\ backup'.tree = backup.tree /\ backup'.dump = backup.dump
      BY <2>1, <2>2, <1>s DEF Require, BackupShape
    <3> QED
      BY <2>1, <3>1, <1>u, <1>p
      DEF BackupInv, RowsRead, CopyKept, CloneMatches, ArtifactsReadAgain, SourceReadAgain,
          QualifiedPairIsSource
  <2>3. CASE ~whole
    BY <2>1, <2>3, <1>f
  <2> QED BY <2>2, <2>3
<1>7. CASE RefingerprintArtifacts
  <2>1. /\ backup'.phase = "sourceArtifactsAgain" /\ backup.phase = "judged"
        /\ backup'.before = backup.before /\ backup'.copy = backup.copy
        /\ backup'.tree = backup.tree /\ backup'.dump = backup.dump
        /\ backup'.after = [backup.after EXCEPT !.artifacts = artifacts]
        /\ DOMAIN backup' = BackupFields
    BY <1>7, <1>s DEF RefingerprintArtifacts, BackupShape
  <2>2. IsSnapshot(backup'.after) /\ backup'.after.artifacts = artifacts
    BY <2>1, <1>s DEF BackupShape, IsSnapshot
  <2> QED
    BY <2>1, <2>2, <1>s, <1>u, <1>p
    DEF BackupInv, BackupShape, RowsRead, CopyKept, CloneMatches, ArtifactsReadAgain,
        SourceReadAgain, QualifiedPairIsSource
<1>8. CASE RefingerprintAudit
  <2>1. /\ backup'.phase = "sourceReadAgain" /\ backup.phase = "sourceArtifactsAgain"
        /\ backup'.before = backup.before /\ backup'.copy = backup.copy
        /\ backup'.tree = backup.tree /\ backup'.dump = backup.dump
        /\ backup'.atEnd = DatabaseSnapshot /\ backup'.objects = Published
        /\ DOMAIN backup' = BackupFields
    BY <1>8, <1>s DEF RefingerprintAudit, BackupShape
  <2>2. /\ IsSnapshot(backup'.after) /\ backup'.after.rows = Len(audit)
        /\ backup'.after.running = campaign.running
        /\ backup'.after.artifacts = backup.after.artifacts
    BY <1>8, <1>s DEF RefingerprintAudit, BackupShape, IsSnapshot
  <2>3. /\ IsSnapshot(backup'.atEnd) /\ backup'.atEnd.rows = Len(audit)
        /\ backup'.atEnd.running = campaign.running /\ backup'.atEnd.artifacts = artifacts
    BY <2>1 DEF DatabaseSnapshot, IsSnapshot
  <2>4. BackupShape'
    BY <2>1, <2>2, <1>s DEF BackupShape
  <2>5. SourceReadAgain'
    BY <2>1, <2>2, <2>3 DEF BackupInv, ArtifactsReadAgain, SourceReadAgain
  <2> QED
    BY <2>1, <2>4, <2>5, <1>p
    DEF BackupInv, RowsRead, CopyKept, CloneMatches, ArtifactsReadAgain, QualifiedPairIsSource
<1>9. CASE CompareSource
  <2> DEFINE same == backup.after = backup.before /\ TreeFingerprint = backup.tree
  <2>1. backup.phase = "sourceReadAgain" /\ Require(same, "qualified")
    BY <1>9 DEF CompareSource
  <2>2. CASE same
    <3>1. /\ backup'.phase = "qualified" /\ BackupShape' /\ backup'.dump = backup.dump
          /\ backup'.copy = backup.copy /\ backup'.atEnd = backup.atEnd
          /\ backup'.objects = backup.objects
      BY <2>1, <2>2, <1>s DEF Require, BackupShape
    <3>2. backup.copy = backup.tree /\ backup.dump = backup.before
      BY <2>1 DEF BackupInv, CloneMatches
    <3>3. IsSnapshot(backup.after) /\ IsSnapshot(backup.atEnd)
      BY <2>1, <1>s DEF BackupInv, SourceReadAgain, BackupShape
    <3>4. /\ backup.after.rows = backup.atEnd.rows
          /\ backup.after.running = backup.atEnd.running
          /\ backup.after.artifacts = backup.atEnd.artifacts
      BY <2>1, <2>2 DEF BackupInv, SourceReadAgain
    <3>5. backup.after = backup.atEnd
      BY <3>3, <3>4 DEF IsSnapshot
    <3>6. backup.copy.objects = Published
      BY <2>2, <3>2 DEF TreeFingerprint
    <3>7. backup.copy.objects = backup.objects
      BY <2>1, <3>6 DEF BackupInv, CopyKept
    <3> QED
      BY <2>2, <3>1, <3>2, <3>5, <3>7
      DEF BackupInv, RowsRead, CopyKept, CloneMatches, ArtifactsReadAgain, SourceReadAgain,
          QualifiedPairIsSource
  <2>3. CASE ~same
    BY <2>1, <2>3, <1>f
  <2> QED BY <2>2, <2>3
<1> QED
    BY <1>1, <1>2, <1>3, <1>4, <1>5, <1>6, <1>7, <1>8, <1>9 DEF BackupStep

(* ------------------------------- theorems --------------------------------- *)

RecordsInv == CasInv /\ AuditInv /\ PinInv

\* The inductive invariant of the content store and the records: what a publication
\* can rely on, one receipt for each identity, and a pin that is valid.
THEOREM RecordsInvariant == RecordsSpec => []RecordsInv
<1>1. RecordsInit => RecordsInv
  <2> SUFFICES ASSUME RecordsInit PROVE RecordsInv
    OBVIOUS
  <2>1. CasInv
    BY DEF RecordsInit, CasInit, CasInv, CasShape, PublicationsBacked, PublicationBacked,
           PublishedWhole, SealedSynced, NoObject, IdleWorker, ObjectFields, WorkerFields
  <2>2. IsSequence(<<>>)
    BY DEF IsSequence
  <2>3. AuditInv
    BY <2>2 DEF RecordsInit, AuditInv, ReceiptsUnique, AnswerRecorded
  <2>4. PinInv
    BY <2>2 DEF RecordsInit, PinInv
  <2> QED BY <2>1, <2>3, <2>4 DEF RecordsInv
<1>2. RecordsInv /\ [RecordsNext]_vars => RecordsInv'
  <2> SUFFICES ASSUME RecordsInv, [RecordsNext]_vars PROVE RecordsInv'
    OBVIOUS
  <2>1. CASE RecordsStep
    BY <2>1, RecordsCas, RecordsReceipts, RecordsPin DEF RecordsNext, RecordsInv, ReceiptStep
  <2>2. CASE PowerLoss
    <3>1. CasPowerLoss
      BY <2>2 DEF PowerLoss
    <3> QED
      BY <2>2, <3>1, PowerLossKeeps, RecordsReceipts, RecordsPin
      DEF RecordsNext, RecordsInv, ReceiptStep
  <2>3. CASE UNCHANGED vars
    <3>1. UNCHANGED <<object, sealed, worker, audit, answer, revisions, campaign>>
      BY <2>3 DEF vars, casVars, files, recordVars
    <3> QED
      BY <3>1, AuditFrame
      DEF RecordsInv, CasInv, CasShape, PublicationsBacked, PublicationBacked, PublishedWhole,
          SealedSynced, Synced, PinInv, IsSequence
  <2> QED BY <2>1, <2>2, <2>3 DEF RecordsNext
<1> QED BY <1>1, <1>2, PTL DEF RecordsSpec

\* The qualification only reads: beside it the kernel behaves as it does alone.
THEOREM BackupOnlyReads == BackupSpec => RecordsSpec
<1>1. BackupInit => RecordsInit
    BY DEF BackupInit
<1>2. [BackupNext]_backupVars => [RecordsNext]_vars
  <2>1. BackupStep => UNCHANGED vars
    BY DEF BackupStep, FingerprintArtifacts, FingerprintAudit, FingerprintTree, Dump, CopyTree,
           CompareClone, JudgeClone, RefingerprintArtifacts, RefingerprintAudit, CompareSource
  <2> QED BY <2>1 DEF BackupNext, RecordsNext, backupVars
<1> QED BY <1>1, <1>2, PTL DEF BackupSpec, RecordsSpec

\* A digest name that can be read has all of its bytes, whichever handlers adopt the
\* same content at once, wherever one of them fails, and after any power loss.
THEOREM NamesAreWhole == BackupSpec => []PublishedWhole
<1>1. RecordsInv => PublishedWhole
    BY DEF RecordsInv, CasInv
<1> QED BY <1>1, RecordsInvariant, BackupOnlyReads, PTL

\* An object whose publisher has returned its seal is lost only together with the
\* whole store, by a power loss that comes before the entry of the objects root was
\* on disk: what publish_temporary syncs is never lost.
THEOREM SealsLostOnlyWithTree == BackupSpec => SealLostOnlyWithTree
<1>1. ASSUME RecordsInv, [RecordsNext]_vars, NEW d \in sealed, ~object'[d].present
      PROVE  ~tree /\ ~tree' /\ \A e \in Digests : ~object'[e].present
  <2>1. CasInv /\ d \in Digests /\ object[d].present
    BY <1>1 DEF RecordsInv, CasInv, CasShape, SealedSynced, Synced
  <2>2. CASE RecordsStep
    BY <1>1, <2>1, <2>2, RecordsCas DEF ObjectsGrow
  <2>3. CASE UNCHANGED vars
    BY <1>1, <2>1, <2>3 DEF vars, casVars, files
  <2>4. CASE PowerLoss
    <3>1. ~TreeSurvives
      BY <1>1, <2>1, SyncedSurvives DEF TreeSurvives
    <3>2. TreeLost
      BY <2>4, <3>1 DEF PowerLoss, CasPowerLoss
    <3> QED BY <3>2 DEF TreeLost, NoObject
  <2> QED BY <1>1, <2>2, <2>3, <2>4 DEF RecordsNext
<1>2. RecordsInv /\ [RecordsNext]_vars
        => [\A d \in sealed : ~object'[d].present =>
              ~tree /\ ~tree' /\ \A e \in Digests : ~object'[e].present]_casVars
    BY <1>1
<1> QED
    BY <1>2, RecordsInvariant, BackupOnlyReads, PTL DEF RecordsSpec, SealLostOnlyWithTree

\* However often a request is repeated, it is answered from the one receipt of its
\* identity.
THEOREM RepliesAgree == BackupSpec => []ReplayAgrees
<1>1. RecordsInv => ReplayAgrees
    BY DEF RecordsInv, AuditInv, ReceiptsUnique, AnswerRecorded, ReplayAgrees, FindIdempotentAudit
<1> QED BY <1>1, RecordsInvariant, BackupOnlyReads, PTL

\* The revision a running campaign has pinned stays the active one.
THEOREM PinnedRevisionActive == BackupSpec => []RunningCampaignPinsActive
<1>1. RecordsInv => RunningCampaignPinsActive
    BY DEF RecordsInv, PinInv, RunningCampaignPinsActive
<1> QED BY <1>1, RecordsInvariant, BackupOnlyReads, PTL

\* A pair that qualifies is the source as it was at one instant, although nothing was
\* locked and the fingerprint was read in pieces.
THEOREM QualifiedPairFaithful == BackupSpec => []QualifiedPairIsSource
<1>1. BackupInit => BackupInv
  <2>1. BackupInit => BackupShape /\ backup.phase = "idle"
    BY DEF BackupInit, BackupShape, BackupFields, IsSnapshot, NoBackup, NoSnapshot
  <2> QED
    BY <2>1
    DEF BackupInv, RowsRead, CopyKept, CloneMatches, ArtifactsReadAgain, SourceReadAgain,
        QualifiedPairIsSource
<1>2. RecordsInv /\ RecordsInv' /\ BackupInv /\ [BackupNext]_backupVars => BackupInv'
  <2> SUFFICES ASSUME RecordsInv, RecordsInv', BackupInv, [BackupNext]_backupVars
               PROVE  BackupInv'
    OBVIOUS
  <2>1. CASE BackupStep
    BY <2>1, BackupStepKeeps DEF RecordsInv
  <2>2. CASE RecordsStep /\ UNCHANGED backup
    BY <2>2, RecordsCas, RecordsReceipts, RecordsBesideBackup
    DEF RecordsInv, RecordsNext, ReceiptStep
  <2>3. CASE PowerLoss /\ (IF backup = NoBackup THEN UNCHANGED backup ELSE Require(FALSE, "failed"))
    BY <2>3, NothingClaimed DEF Require
  <2>4. CASE UNCHANGED backupVars
    <3>1. UNCHANGED <<object, audit, artifacts, backup>>
      BY <2>4 DEF backupVars, vars, casVars, files, recordVars
    <3> QED
      BY <3>1, RecordsBesideBackup DEF ObjectsGrow, RecordsInv
  <2> QED BY <2>1, <2>2, <2>3, <2>4 DEF BackupNext
<1>3. BackupInv => QualifiedPairIsSource
    BY DEF BackupInv
<1> QED BY <1>1, <1>2, <1>3, RecordsInvariant, BackupOnlyReads, PTL DEF BackupSpec
=============================================================================
