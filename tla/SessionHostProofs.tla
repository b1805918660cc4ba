------------------------- MODULE SessionHostProofs -------------------------
(***************************************************************************)
(* Proofs about SessionHost, for any number of launches, requests, retries *)
(* and faults and any prices: the child of a session is gone before its    *)
(* row is terminal, at most one admitted host acts, a stated cost covers   *)
(* what the provider charged for the answers, and a host differs from a    *)
(* complete ledger by rounding only.                                       *)
(*                                                                         *)
(* The inductive invariant has three parts besides the types.  CustodyInv  *)
(* relates the launch in progress to its row, its host and the custody     *)
(* thread; RowsInv the rows of all launches to their hosts.  MoneyInv      *)
(* follows the money through one request: what the ledger adds up to, what *)
(* the provider has charged and what the host knows.  The ledger rounds    *)
(* every request and the host only the sum, so the sums are related by the *)
(* number of roundings.                                                    *)
(***************************************************************************)
EXTENDS SessionHost, FiniteSetTheorems, TLAPS

-----------------------------------------------------------------------------
(* Sums over the ledger                                                    *)

\* f holds the running totals of the first n rows.
IsTotals(rows, n, f) ==
    f = [i \in 0..n |-> IF i = 0 THEN 0 ELSE f[i - 1] + rows[i].cost]

\* The first n rows cost s: there are running totals, and all end in s.
CostUpTo(rows, n, s) ==
    /\ \E f : IsTotals(rows, n, f)
    /\ \A f : IsTotals(rows, n, f) => f[n] = s

\* Nothing was bought, nothing is owed.
LEMMA NoRowsCostNothing ==
    ASSUME NEW rows
    PROVE  CostUpTo(rows, 0, 0)
<1>1. IsTotals(rows, 0, [i \in 0..0 |-> 0])
  BY DEF IsTotals
<1>2. ASSUME NEW f, IsTotals(rows, 0, f) PROVE f[0] = 0
  BY <1>2 DEF IsTotals
<1> QED
  BY <1>1, <1>2 DEF CostUpTo

\* Only the rows that are summed matter.
LEMMA CostOfSameRows ==
    ASSUME NEW rows, NEW other, NEW n \in Nat, NEW s,
           \A i \in 1..n : other[i].cost = rows[i].cost,
           CostUpTo(rows, n, s)
    PROVE  CostUpTo(other, n, s)
<1>1. ASSUME NEW f PROVE IsTotals(rows, n, f) <=> IsTotals(other, n, f)
  <2>1. [i \in 0..n |-> IF i = 0 THEN 0 ELSE f[i - 1] + rows[i].cost]
          = [i \in 0..n |-> IF i = 0 THEN 0 ELSE f[i - 1] + other[i].cost]
    OBVIOUS
  <2> QED
    BY <2>1 DEF IsTotals
<1> QED
  BY <1>1 DEF CostUpTo

\* One more row adds its cost.
LEMMA CostOfOneMore ==
    ASSUME NEW rows, NEW n \in Nat, NEW s \in Nat,
           rows[n + 1].cost \in Nat,
           CostUpTo(rows, n, s)
    PROVE  CostUpTo(rows, n + 1, s + rows[n + 1].cost)
<1>1. PICK f : IsTotals(rows, n, f)
  BY DEF CostUpTo
<1> DEFINE g == [i \in 0..(n + 1) |-> IF i = n + 1 THEN s + rows[n + 1].cost ELSE f[i]]
<1>2. f[n] = s
  BY <1>1 DEF CostUpTo
<1>3. IsTotals(rows, n + 1, g)
  <2>1. ASSUME NEW i \in 0..(n + 1)
        PROVE  g[i] = IF i = 0 THEN 0 ELSE g[i - 1] + rows[i].cost
    <3>1. CASE i = n + 1
      BY <3>1, <1>2
    <3>2. CASE i # n + 1
      <4>1. i \in 0..n /\ (i # 0 => i - 1 \in 0..n)
        BY <3>2
      <4>2. f[i] = IF i = 0 THEN 0 ELSE f[i - 1] + rows[i].cost
        BY <4>1, <1>1 DEF IsTotals
      <4> QED
        BY <4>1, <4>2
    <3> QED
      BY <3>1, <3>2
  <2>2. [i \in 0..(n + 1) |-> g[i]] = [i \in 0..(n + 1) |-> IF i = 0 THEN 0 ELSE g[i - 1] + rows[i].cost]
    <3> HIDE DEF g
    <3> QED
      BY <2>1
  <2>3. g = [i \in 0..(n + 1) |-> g[i]]
    OBVIOUS
  <2> HIDE DEF g
  <2> QED
    BY <2>2, <2>3 DEF IsTotals
<1>4. ASSUME NEW h, IsTotals(rows, n + 1, h)
      PROVE  h[n + 1] = s + rows[n + 1].cost
  <2> DEFINE r == [i \in 0..n |-> h[i]]
  <2>1. \A i \in 0..(n + 1) : h[i] = IF i = 0 THEN 0 ELSE h[i - 1] + rows[i].cost
    BY <1>4 DEF IsTotals
  <2>2. ASSUME NEW i \in 0..n
        PROVE  r[i] = IF i = 0 THEN 0 ELSE r[i - 1] + rows[i].cost
    <3>1. i \in 0..(n + 1) /\ (i # 0 => i - 1 \in 0..n)
      OBVIOUS
    <3> QED
      BY <3>1, <2>1
  <2>3. IsTotals(rows, n, r)
    <3>1. r = [i \in 0..n |-> r[i]]
      OBVIOUS
    <3> HIDE DEF r
    <3> QED
      BY <2>2, <3>1 DEF IsTotals
  <2>4. r[n] = s
    BY <2>3 DEF CostUpTo
  <2>5. h[n] = s
    BY <2>4
  <2> QED
    BY <2>1, <2>5
<1> QED
  BY <1>3, <1>4 DEF CostUpTo

\* What provider_effect_ledger_from_rows states of a settled ledger is its sum.
LEMMA LedgerCostIsSum ==
    ASSUME NEW rows, NEW s, Complete(rows), CostUpTo(rows, Len(rows), s)
    PROVE  LedgerCost(rows) = s
<1> DEFINE total == CHOOSE f : IsTotals(rows, Len(rows), f)
<1>1. IsTotals(rows, Len(rows), total)
  BY DEF CostUpTo
<1>2. LedgerCost(rows) = total[Len(rows)]
  BY DEF LedgerCost, IsTotals
<1> QED
  BY <1>1, <1>2 DEF CostUpTo

-----------------------------------------------------------------------------
(* Amounts and their rounding                                              *)

\* No money is an amount.
LEMMA NothingTyped == Nothing \in Amounts
BY SessionAssumption DEF Nothing, Amounts

\* Sums of amounts are amounts, and the order of the terms does not matter.
LEMMA PlusTyped ==
    ASSUME NEW a \in Amounts, NEW b \in Amounts
    PROVE  Plus(a, b) \in Amounts
BY SessionAssumption DEF Plus, Amounts

\* A term may be added before another one.
LEMMA PlusSwaps ==
    ASSUME NEW a \in Amounts, NEW b \in Amounts, NEW c \in Amounts
    PROVE  Plus(Plus(a, b), c) = Plus(Plus(a, c), b)
BY SessionAssumption DEF Plus, Amounts

\* Two terms may be added together first.
LEMMA PlusGroups ==
    ASSUME NEW a \in Amounts, NEW b \in Amounts, NEW c \in Amounts
    PROVE  Plus(Plus(a, b), c) = Plus(a, Plus(b, c))
BY SessionAssumption DEF Plus, Amounts

\* A rounded amount is a number of micro-USD.
LEMMA MicroUsdTyped ==
    ASSUME NEW a \in Amounts
    PROVE  MicroUsd(a) \in Nat
BY DEF MicroUsd, Amounts

\* Two roundings give the rounded sum, or one micro-USD more.
LEMMA RoundedSum ==
    ASSUME NEW a \in Amounts, NEW b \in Amounts
    PROVE  /\ MicroUsd(Plus(a, b)) <= MicroUsd(a) + MicroUsd(b)
           /\ MicroUsd(a) + MicroUsd(b) <= MicroUsd(Plus(a, b)) + 1
BY SessionAssumption DEF Plus, Amounts, MicroUsd

\* The first term rounds as itself.
LEMMA RoundedFirst ==
    ASSUME NEW b \in Amounts
    PROVE  MicroUsd(Plus(Nothing, b)) = MicroUsd(b)
BY SessionAssumption DEF Plus, Amounts, MicroUsd, Nothing

\* s is the sum of k rounded terms, whose exact sum is exact.
InRounding(s, exact, k) ==
    WithinRounding(s, MicroUsd(exact), k) /\ (k = 0 => exact = Nothing)

\* Each term adds less than one micro-USD to the difference.
LEMMA RoundingAdds ==
    ASSUME NEW s \in Nat, NEW exact \in Amounts, NEW k \in Nat, NEW a \in Amounts,
           InRounding(s, exact, k)
    PROVE  InRounding(s + MicroUsd(a), Plus(exact, a), k + 1)
<1>1. MicroUsd(exact) \in Nat /\ MicroUsd(a) \in Nat /\ MicroUsd(Plus(exact, a)) \in Nat
  BY PlusTyped, MicroUsdTyped
<1>2. CASE k = 0
  <2>1. s = 0 /\ MicroUsd(Plus(exact, a)) = MicroUsd(a)
    BY <1>2, RoundedFirst DEF InRounding, WithinRounding, MicroUsd, Nothing
  <2> QED
    BY <1>1, <1>2, <2>1 DEF InRounding, WithinRounding
<1>3. CASE k > 0
  BY <1>1, <1>3, RoundedSum DEF InRounding, WithinRounding
<1> QED
  BY <1>2, <1>3

\* More roundings leave more room.
LEMMA RoundingWidens ==
    ASSUME NEW cost \in Nat, NEW least \in Nat, NEW k \in Nat, NEW n \in Nat, k <= n,
           WithinRounding(cost, least, k)
    PROVE  WithinRounding(cost, least, n)
BY DEF WithinRounding

-----------------------------------------------------------------------------
(* The inductive invariant                                                 *)

MaybeCost == Nat \cup {Unknown}
HostStops == {"none", "cost_limit", "completed", "unknown_cost", "stopped"}
Reasons == {"nonzero", "cancelled"} \cup LimitReasons

Host == [phase : AlivePhases \cup {"none", "exited"}, ask : Requests,
         outcome : [state : {"none", "settled", "failed"}, cost : MaybeCost],
         open : BOOLEAN, retries : Nat, cost : Amounts, complete : BOOLEAN,
         stop : HostStops, edited : BOOLEAN]

Charge == [paid : Amounts, stated : Amounts, retried : Amounts]

Launch == [phase : {"idle", "spawned", "started", "registered", "racing", "stopping",
                    "evidence", "priced", "aborting"},
           id : 0..MaxLaunches, transport : {"process", "peerClosed", "failed"},
           terminal : BOOLEAN, usage : MaybeCost]

Rpc == [verified : BOOLEAN, transcript : BOOLEAN, summary : BOOLEAN,
        seen : {"nothing", "pinned", "other"}, proposal : BOOLEAN, cost : MaybeCost,
        stop : HostStops]

Custody == [thread : {"none", "watching", "terming", "done"}, cancel : BOOLEAN, reason : Reasons]

Row == [lifecycle : {"none", "running", "terminal"}, by : {"none", "actor", "kernel", "restart"},
        stop : HostStops \cup Reasons \cup {"protocol_error", "daemon_disconnected"},
        cost : MaybeCost, transcript : {"none", "sealed", "partial", "unavailable"}]

Effect == [state : {"started", "settled", "failed"}, cost : MaybeCost]

\* Every variable has the shape the code gives it.
SessionTypeOK ==
    /\ daemon \in {"serving", "cancelling", "closing", "stopped", "down", "recovering"}
    /\ launch \in Launch
    /\ row \in [Launches -> Row]
    /\ host \in [Launches -> Host]
    /\ server \in {"none", "serving", "parked", "peerClosed", "failed", "cancelled"}
    /\ rpc \in Rpc
    /\ ledger \in [Launches -> Seq(Effect)]
    /\ charged \in [Launches -> Charge]
    /\ custody \in Custody

\* The launch is before its server and its custody thread.
EarlyPhases == {"idle", "spawned", "started", "registered"}

\* The launch has a row.
RowPhases == {"started", "registered", "racing", "stopping", "evidence", "priced"}

Acting(l) == Alive(l) /\ host[l].phase # "booting"

\* The launch in progress against the daemon, the row, the host and the thread.
CustodyInv ==
    /\ launch.phase # "idle" => daemon \in {"serving", "cancelling"} /\ launch.id \in Launches
    /\ launch.phase \in EarlyPhases /\ daemon # "closing" => custody.thread = "none"
    /\ launch.phase \in EarlyPhases \cup {"aborting"} => server = "none" /\ rpc.cost = Unknown
    /\ launch.phase \in EarlyPhases \ {"idle"} => host[launch.id].phase \in {"booting", "exited"}
    /\ custody.thread # "none" => launch.id \in Launches
    /\ custody.thread = "done" => ~Alive(launch.id)
    /\ launch.phase \in {"evidence", "priced"} => ~Alive(launch.id)
    /\ launch.phase \in RowPhases => row[launch.id].lifecycle = "running"
    /\ launch.phase = "spawned" => \A l \in Launches : row[l].lifecycle # "running"

\* Rows and hosts of all launches.
RowsInv ==
    /\ \A l \in Launches : l > launch.id =>
         row[l].lifecycle = "none" /\ host[l].phase = "none"
    /\ \A k, l \in Launches :
         row[k].lifecycle = "running" /\ row[l].lifecycle = "running" => k = l
    /\ \A l \in Launches : row[l].lifecycle = "terminal" => ~Alive(l)
    /\ \A l \in Launches : Acting(l) => row[l].lifecycle = "running"
    /\ \A l \in Launches : host[l].ask # "none" => host[l].phase \in {"asking", "exited"}

\* The last row of a ledger is an open request, and the rows before it.
LastStarted(rows) == Len(rows) > 0 /\ rows[Len(rows)].state = "started"
PriorComplete(rows) ==
    \A i \in 1..(Len(rows) - 1) : rows[i].state = "settled" /\ rows[i].cost # Unknown

\* Every charge was stated by an answer, or went to an attempt that was repeated.
AllStated(c) == c.paid = Plus(c.stated, c.retried)

\* The first n rows are what the answers stated, each rounded.
Accounted(rows, n, c) ==
    /\ AllStated(c)
    /\ \E s \in Nat : CostUpTo(rows, n, s) /\ InRounding(s, c.stated, n)

\* So are the rows before the last one, with the cost that is on its way to it.
AccountedWith(rows, cost, c) ==
    /\ AllStated(c)
    /\ \E s \in Nat : /\ CostUpTo(rows, Len(rows) - 1, s)
                     /\ InRounding(s + cost, c.stated, Len(rows))

\* A cost covers the charges of n requests.
Covered(cost, c, n) == AllStated(c) /\ WithinRounding(cost, MicroUsd(c.stated), n)

\* The books of one session: its host h, its ledger, what it was charged and its row.
BooksOf(h, rows, c, r) ==
    /\ \A i \in 1..Len(rows) :
         rows[i].state = "settled" /\ rows[i].cost # Unknown => rows[i].cost \in Nat
    /\ h.phase = "none" => rows = << >> /\ c = NoCharge /\ h.cost = Nothing /\ ~h.open
    /\ h.phase \in {"cleared", "inflight"} =>
         /\ LastStarted(rows)
         /\ PriorComplete(rows) => Accounted(rows, Len(rows) - 1, c)
    /\ h.open => h.phase \in {"inflight", "exited"} /\ h.ask = "none" /\ ~Complete(rows)
    /\ h.ask = "settle" =>
         /\ LastStarted(rows) /\ ~h.open
         /\ h.outcome.state \in {"settled", "failed"}
         /\ h.outcome.state = "settled" /\ h.outcome.cost # Unknown =>
              /\ h.outcome.cost \in Nat
              /\ PriorComplete(rows) => AccountedWith(rows, h.outcome.cost, c)
    /\ Complete(rows) => Accounted(rows, Len(rows), c)
    /\ h.phase # "exited" \/ h.ask = "submit" => h.cost = c.stated
    /\ r.lifecycle = "terminal" /\ r.cost # Unknown => Covered(r.cost, c, Len(rows)) /\ ~h.open

Books(l) == BooksOf(host[l], ledger[l], charged[l], row[l])

\* The books of the session being settled.
ReportInv ==
    /\ rpc.cost # Unknown =>
         /\ launch.id \in Launches
         /\ server # "serving"
         /\ host[launch.id].ask = "submit"
         /\ rpc.cost = MicroUsd(host[launch.id].cost)
    /\ launch.phase = "priced" /\ launch.usage # Unknown =>
         /\ Covered(launch.usage, charged[launch.id], Len(ledger[launch.id]))
         /\ ~host[launch.id].open

MoneyInv == (\A l \in Launches : Books(l)) /\ ReportInv

SessionInv == SessionTypeOK /\ CustodyInv /\ RowsInv /\ MoneyInv

-----------------------------------------------------------------------------
(* What the steps do to a host                                             *)

HostPhases == AlivePhases \cup {"none", "exited"}

\* Only the host of l may change.
HostMoves(l) ==
    /\ host' \in [Launches -> Host]
    /\ \A k \in Launches : k # l => host'[k] = host[k]

\* The host of l keeps what it knows and what the provider owes it.
HostKeeps(l) ==
    /\ host'[l].outcome = host[l].outcome /\ host'[l].cost = host[l].cost
    /\ host'[l].open <=> host[l].open

\* A write of one host.
LEMMA HostWritten ==
    ASSUME NEW l \in Launches, NEW h \in Host, host \in [Launches -> Host],
           host' = [host EXCEPT ![l] = h]
    PROVE  HostMoves(l) /\ host'[l] = h
BY DEF HostMoves

\* A write of a phase and a request.
LEMMA PhaseAndAsk ==
    ASSUME NEW l \in Launches, NEW p \in HostPhases, NEW a \in Requests,
           host \in [Launches -> Host],
           host' = [host EXCEPT ![l].phase = p, ![l].ask = a]
    PROVE  HostMoves(l) /\ HostKeeps(l) /\ host'[l].phase = p /\ host'[l].ask = a
<1> DEFINE h == [host[l] EXCEPT !.phase = p, !.ask = a]
<1>1. host' = [host EXCEPT ![l] = h]
  OBVIOUS
<1>2. h \in Host
  BY DEF Host, HostPhases
<1>3. /\ h.phase = p /\ h.ask = a /\ h.outcome = host[l].outcome
      /\ h.cost = host[l].cost /\ (h.open <=> host[l].open)
  BY DEF Host
<1> HIDE DEF h
<1> QED
  BY <1>1, <1>2, <1>3, HostWritten DEF HostKeeps

\* spawn_tea_host starts the child.
LEMMA SpawnEffect ==
    ASSUME NEW l \in Launches, host \in [Launches -> Host], SpawnOwnedCommand(l)
    PROVE  /\ HostMoves(l) /\ HostKeeps(l)
           /\ host'[l].phase = "booting" /\ host'[l].ask = host[l].ask
<1> DEFINE h == [host[l] EXCEPT !.phase = "booting"]
<1>1. host' = [host EXCEPT ![l] = h]
  BY DEF SpawnOwnedCommand
<1>2. h \in Host
  BY DEF Host, AlivePhases
<1>3. /\ h.phase = "booting" /\ h.ask = host[l].ask /\ h.outcome = host[l].outcome
      /\ h.cost = host[l].cost /\ (h.open <=> host[l].open)
  BY DEF Host
<1> HIDE DEF h
<1> QED
  BY <1>1, <1>2, <1>3, HostWritten DEF HostKeeps

\* The admission line sets a live child to its first request.
LEMMA AdmissionEffect ==
    ASSUME NEW l \in Launches, host \in [Launches -> Host], ReadAdmission(l)
    PROVE  /\ HostMoves(l) /\ HostKeeps(l)
           /\ host'[l].phase = IF Alive(l) THEN "asking" ELSE host[l].phase
           /\ host'[l].ask = IF Alive(l) THEN "verify" ELSE host[l].ask
<1> DEFINE p == IF Alive(l) THEN "asking" ELSE host[l].phase
           a == IF Alive(l) THEN "verify" ELSE host[l].ask
<1>1. host' = [host EXCEPT ![l].phase = p, ![l].ask = a]
  BY DEF ReadAdmission, Host
<1>2. p \in HostPhases /\ a \in Requests
  BY DEF Host, HostPhases, AlivePhases, Requests
<1> HIDE DEF p, a
<1>3. HostMoves(l) /\ HostKeeps(l) /\ host'[l].phase = p /\ host'[l].ask = a
  BY <1>1, <1>2, PhaseAndAsk
<1> QED
  BY <1>3 DEF p, a

\* An answer sets a live host to its next phase, and ends the wait of a dead one.
LEMMA AnswerEffect ==
    ASSUME NEW l \in Launches, NEW phase \in AlivePhases, NEW next \in Requests,
           host \in [Launches -> Host], Answer(l, phase, next)
    PROVE  /\ HostMoves(l) /\ HostKeeps(l)
           /\ host'[l].phase = IF Alive(l) THEN phase ELSE host[l].phase
           /\ host'[l].ask = IF Alive(l) THEN next ELSE "none"
           /\ server' = IF Alive(l) THEN server ELSE "failed"
<1> DEFINE p == IF Alive(l) THEN phase ELSE host[l].phase
           a == IF Alive(l) THEN next ELSE "none"
<1>1. host' = [host EXCEPT ![l].phase = p, ![l].ask = a]
  BY DEF Answer, Host
<1>2. p \in HostPhases /\ a \in Requests
  BY DEF Host, HostPhases, Requests
<1> HIDE DEF p, a
<1>3. HostMoves(l) /\ HostKeeps(l) /\ host'[l].phase = p /\ host'[l].ask = a
  BY <1>1, <1>2, PhaseAndAsk
<1> QED
  BY <1>3 DEF p, a, Answer

\* A commit that outlived its handler leaves the request without an answer.
LEMMA UnansweredEffect ==
    ASSUME NEW l \in Launches, host \in [Launches -> Host],
           host' = [host EXCEPT ![l].ask = "none"]
    PROVE  /\ HostMoves(l) /\ HostKeeps(l)
           /\ host'[l].phase = host[l].phase /\ host'[l].ask = "none"
<1> DEFINE h == [host[l] EXCEPT !.ask = "none"]
<1>1. host' = [host EXCEPT ![l] = h]
  OBVIOUS
<1>2. h \in Host
  BY DEF Host, Requests
<1>3. /\ h.phase = host[l].phase /\ h.ask = "none" /\ h.outcome = host[l].outcome
      /\ h.cost = host[l].cost /\ (h.open <=> host[l].open)
  BY DEF Host
<1> HIDE DEF h
<1> QED
  BY <1>1, <1>2, <1>3, HostWritten DEF HostKeeps

\* A host sends a request to the daemon.
LEMMA AskEffect ==
    ASSUME NEW l \in Launches, NEW request \in Requests,
           host \in [Launches -> Host], Ask(l, request)
    PROVE  /\ HostMoves(l) /\ HostKeeps(l)
           /\ host'[l].phase = "asking" /\ host'[l].ask = request
BY PhaseAndAsk DEF Ask, HostPhases, AlivePhases

\* An edit of the required file.
LEMMA EditEffect ==
    ASSUME NEW l \in Launches, host \in [Launches -> Host],
           host' = [host EXCEPT ![l].edited = TRUE]
    PROVE  /\ HostMoves(l) /\ HostKeeps(l)
           /\ host'[l].phase = host[l].phase /\ host'[l].ask = host[l].ask
<1> DEFINE h == [host[l] EXCEPT !.edited = TRUE]
<1>1. host' = [host EXCEPT ![l] = h]
  OBVIOUS
<1>2. h \in Host
  BY DEF Host
<1>3. /\ h.phase = host[l].phase /\ h.ask = host[l].ask /\ h.outcome = host[l].outcome
      /\ h.cost = host[l].cost /\ (h.open <=> host[l].open)
  BY DEF Host
<1> HIDE DEF h
<1> QED
  BY <1>1, <1>2, <1>3, HostWritten DEF HostKeeps

\* The host turns to its report.
LEMMA FinishEffect ==
    ASSUME NEW l \in Launches, NEW terminal \in BOOLEAN, host \in [Launches -> Host],
           HostFinishes(l, terminal)
    PROVE  /\ HostMoves(l) /\ HostKeeps(l)
           /\ host'[l].phase = "asking" /\ host'[l].ask = "transcript"
<1> DEFINE s == IF CostLimitReached(l) THEN "cost_limit" ELSE IF terminal THEN "completed"
                ELSE IF ~host[l].complete THEN "unknown_cost" ELSE "stopped"
           h == [host[l] EXCEPT !.phase = "asking", !.ask = "transcript", !.stop = s]
<1>1. host' = [host EXCEPT ![l] = h]
  BY DEF HostFinishes
<1>2. s \in HostStops
  BY DEF HostStops
<1> HIDE DEF s
<1>3. h \in Host
  BY <1>2 DEF Host, AlivePhases, Requests
<1>4. /\ h.phase = "asking" /\ h.ask = "transcript" /\ h.outcome = host[l].outcome
      /\ h.cost = host[l].cost /\ (h.open <=> host[l].open)
  BY DEF Host
<1> HIDE DEF h
<1> QED
  BY <1>1, <1>3, <1>4, HostWritten DEF HostKeeps

\* The request leaves for the provider.
LEMMA SendEffect ==
    ASSUME NEW l \in Launches, host \in [Launches -> Host],
           host' = [host EXCEPT ![l].phase = "inflight", ![l].open = TRUE, ![l].retries = 0]
    PROVE  /\ HostMoves(l)
           /\ host'[l].phase = "inflight" /\ host'[l].open
           /\ host'[l].ask = host[l].ask /\ host'[l].cost = host[l].cost
<1> DEFINE h == [host[l] EXCEPT !.phase = "inflight", !.open = TRUE, !.retries = 0]
<1>1. host' = [host EXCEPT ![l] = h]
  OBVIOUS
<1>2. h \in Host
  BY DEF Host, AlivePhases
<1>3. h.phase = "inflight" /\ h.open /\ h.ask = host[l].ask /\ h.cost = host[l].cost
  BY DEF Host
<1> HIDE DEF h
<1> QED
  BY <1>1, <1>2, <1>3, HostWritten

\* An attempt is repeated inside the request.
LEMMA RetryEffect ==
    ASSUME NEW l \in Launches, NEW cost, NEW complete \in BOOLEAN, host \in [Launches -> Host],
           ProviderRetries(l, cost, complete)
    PROVE  /\ HostMoves(l) /\ HostKeeps(l)
           /\ host'[l].phase = "inflight" /\ host'[l].ask = host[l].ask
<1> DEFINE n == host[l].retries + 1
           f == host[l].complete /\ complete
           h == [host[l] EXCEPT !.retries = n, !.complete = f]
<1>1. host' = [host EXCEPT ![l] = h] /\ host[l].phase = "inflight"
  BY DEF ProviderRetries
<1>0. n \in Nat /\ f \in BOOLEAN
  BY DEF Host
<1> HIDE DEF n, f
<1>2. h \in Host
  BY <1>0 DEF Host
<1>3. /\ h.phase = host[l].phase /\ h.ask = host[l].ask /\ h.outcome = host[l].outcome
      /\ h.cost = host[l].cost /\ (h.open <=> host[l].open)
  BY DEF Host
<1> HIDE DEF h
<1> QED
  BY <1>1, <1>2, <1>3, HostWritten DEF HostKeeps

\* A request is settled, with its cost or without.
LEMMA OutcomeEffect ==
    ASSUME NEW l \in Launches, NEW state \in {"settled", "failed"}, NEW cost \in Amounts,
           NEW stated \in BOOLEAN, host \in [Launches -> Host], Settle(l, state, cost, stated)
    PROVE  /\ HostMoves(l)
           /\ host'[l].phase = "asking" /\ host'[l].ask = "settle" /\ ~host'[l].open
           /\ host'[l].outcome.state = state
           /\ host'[l].outcome.cost = IF stated THEN MicroUsd(cost) ELSE Unknown
           /\ host'[l].cost = IF stated THEN Plus(host[l].cost, cost) ELSE host[l].cost
<1> DEFINE e == IF stated THEN Plus(host[l].cost, cost) ELSE host[l].cost
           m == IF stated THEN MicroUsd(cost) ELSE Unknown
           o == [state |-> state, cost |-> m]
           f == host[l].complete /\ stated
           h == [host[l] EXCEPT !.phase = "asking", !.ask = "settle", !.open = FALSE,
                                !.outcome = o, !.cost = e, !.complete = f]
<1>1. host' = [host EXCEPT ![l] = h]
  BY DEF Settle, Host
<1>2. /\ e \in Amounts /\ m \in MaybeCost /\ f \in BOOLEAN
      /\ o \in [state : {"none", "settled", "failed"}, cost : MaybeCost]
  BY PlusTyped, MicroUsdTyped DEF MaybeCost, Host
<1>3. o.state = state /\ o.cost = m
  OBVIOUS
<1> HIDE DEF e, m, o, f
<1>4. h \in Host
  BY <1>2, ZenonT(60) DEF Host, AlivePhases, Requests
<1>5. h.phase = "asking" /\ h.ask = "settle" /\ ~h.open /\ h.outcome = o /\ h.cost = e
  BY DEF Host
<1> HIDE DEF h
<1>6. HostMoves(l) /\ host'[l] = h
  BY <1>1, <1>4, HostWritten
<1> QED
  BY <1>3, <1>5, <1>6 DEF e, m

\* The provider charges for a request whose sender is gone.
LEMMA ChargeEffect ==
    ASSUME NEW l \in Launches, host \in [Launches -> Host],
           host' = [host EXCEPT ![l].open = FALSE]
    PROVE  /\ HostMoves(l)
           /\ host'[l].phase = host[l].phase /\ host'[l].ask = host[l].ask /\ ~host'[l].open
           /\ host'[l].outcome = host[l].outcome /\ host'[l].cost = host[l].cost
<1> DEFINE h == [host[l] EXCEPT !.open = FALSE]
<1>1. host' = [host EXCEPT ![l] = h]
  OBVIOUS
<1>2. h \in Host
  BY DEF Host
<1>3. /\ h.phase = host[l].phase /\ h.ask = host[l].ask /\ ~h.open
      /\ h.outcome = host[l].outcome /\ h.cost = host[l].cost
  BY DEF Host
<1> HIDE DEF h
<1> QED
  BY <1>1, <1>2, <1>3, HostWritten

\* What is left of a host that died, in whichever way.
LEMMA DeathEffect ==
    ASSUME NEW l \in Launches, host \in [Launches -> Host],
           host' = [host EXCEPT ![l] = Dead(@)]
    PROVE  /\ HostMoves(l)
           /\ host'[l].phase = "exited" /\ host'[l].ask = host[l].ask
           /\ host'[l].open <=> host[l].open
           /\ host[l].ask = "settle" => host'[l].outcome = host[l].outcome
           /\ host[l].ask = "submit" => host'[l].cost = host[l].cost
<1> DEFINE h == host[l]
           o == IF h.ask = "settle" THEN h.outcome ELSE NoOutcome
           c == IF h.ask = "submit" THEN h.cost ELSE Nothing
           f == h.ask = "submit" => h.complete
           s == IF h.ask = "submit" THEN h.stop ELSE "none"
           d == [NoHost EXCEPT !.phase = "exited", !.ask = h.ask, !.open = h.open,
                               !.outcome = o, !.cost = c, !.complete = f, !.stop = s]
<1>1. host' = [host EXCEPT ![l] = d]
  BY DEF Dead
<1>2. /\ o \in [state : {"none", "settled", "failed"}, cost : MaybeCost]
      /\ c \in Amounts /\ f \in BOOLEAN /\ s \in HostStops
  BY NothingTyped DEF Host, NoOutcome, MaybeCost, HostStops
<1> HIDE DEF o, c, f, s
<1>3. NoHost \in Host
  BY NothingTyped DEF NoHost, NoOutcome, Host, MaybeCost, HostStops, AlivePhases, Requests
<1>4. d \in Host
  BY <1>2, <1>3 DEF Host
<1>5. d.phase = "exited" /\ d.ask = h.ask /\ (d.open <=> h.open) /\ d.outcome = o /\ d.cost = c
  BY <1>3 DEF Host
<1> HIDE DEF d
<1>6. HostMoves(l) /\ host'[l] = d
  BY <1>1, <1>4, HostWritten
<1> QED
  BY <1>5, <1>6 DEF o, c

-----------------------------------------------------------------------------
(* What the transactions do to the rows                                    *)

\* Only the ledger of l may change.
LedgerMoves(l) ==
    /\ ledger' \in [Launches -> Seq(Effect)]
    /\ \A k \in Launches : k # l => ledger'[k] = ledger[k]

\* provider_effect_start appends an open request.
LEMMA InsertEffect ==
    ASSUME NEW l \in Launches, ledger \in [Launches -> Seq(Effect)], InsertStarted(l)
    PROVE  /\ LedgerMoves(l)
           /\ Len(ledger'[l]) = Len(ledger[l]) + 1
           /\ \A i \in 1..Len(ledger[l]) : ledger'[l][i] = ledger[l][i]
           /\ ledger'[l][Len(ledger[l]) + 1].state = "started"
<1> DEFINE e == [state |-> "started", cost |-> Unknown]
<1>1. e \in Effect /\ e.state = "started"
  BY DEF Effect, MaybeCost
<1>2. ledger' = [ledger EXCEPT ![l] = Append(ledger[l], e)]
  BY DEF InsertStarted
<1> HIDE DEF e
<1>3. ledger[l] \in Seq(Effect)
  OBVIOUS
<1>4. /\ Append(ledger[l], e) \in Seq(Effect)
      /\ Len(Append(ledger[l], e)) = Len(ledger[l]) + 1
      /\ \A i \in 1..Len(ledger[l]) : Append(ledger[l], e)[i] = ledger[l][i]
      /\ Append(ledger[l], e)[Len(ledger[l]) + 1] = e
  BY <1>1, <1>3
<1> QED
  BY <1>1, <1>2, <1>4 DEF LedgerMoves

\* provider_effect_settle replaces the open request by its outcome.
LEMMA SettleEffect ==
    ASSUME NEW l \in Launches, ledger \in [Launches -> Seq(Effect)], UpdateSettled(l),
           LastStarted(ledger[l]), host \in [Launches -> Host],
           host[l].outcome.state \in {"settled", "failed"}
    PROVE  /\ LedgerMoves(l)
           /\ Len(ledger'[l]) = Len(ledger[l])
           /\ \A i \in 1..(Len(ledger[l]) - 1) : ledger'[l][i] = ledger[l][i]
           /\ ledger'[l][Len(ledger[l])] = host[l].outcome
<1> DEFINE n == Len(ledger[l])
           o == host[l].outcome
           s == [ledger[l] EXCEPT ![n] = o]
<1>1. o \in Effect
  BY DEF Host, Effect
<1>2. ledger[l] \in Seq(Effect) /\ n \in Nat /\ n > 0
  BY DEF LastStarted
<1>3. ledger' = [ledger EXCEPT ![l] = s]
  BY DEF UpdateSettled
<1> HIDE DEF o
<1>4. /\ s \in Seq(Effect) /\ Len(s) = n
      /\ \A i \in 1..(n - 1) : s[i] = ledger[l][i]
      /\ s[n] = o
  BY <1>1, <1>2
<1> HIDE DEF n, s
<1> QED
  BY <1>3, <1>4 DEF LedgerMoves, n, o

\* process.start_session sets the lifecycle of one row.
LEMMA StartedRow ==
    ASSUME NEW l \in Launches, row \in [Launches -> Row],
           row' = [row EXCEPT ![l].lifecycle = "running"]
    PROVE  /\ row' \in [Launches -> Row]
           /\ row'[l].lifecycle = "running"
           /\ \A k \in Launches : k # l => row'[k] = row[k]
<1> DEFINE r == [row[l] EXCEPT !.lifecycle = "running"]
<1>1. row' = [row EXCEPT ![l] = r]
  OBVIOUS
<1>2. r \in Row /\ r.lifecycle = "running"
  BY DEF Row
<1> HIDE DEF r
<1> QED
  BY <1>1, <1>2

\* terminal_session, by whichever of the three writers, replaces one row.
LEMMA TerminalRow ==
    ASSUME NEW l \in Launches, row \in [Launches -> Row],
           NEW by \in {"actor", "kernel", "restart"},
           NEW stop \in HostStops \cup Reasons \cup {"protocol_error", "daemon_disconnected"},
           NEW cost \in MaybeCost, NEW transcript \in {"sealed", "partial", "unavailable"},
           row' = [row EXCEPT ![l] = [lifecycle |-> "terminal", by |-> by, stop |-> stop,
                                      cost |-> cost, transcript |-> transcript]]
    PROVE  /\ row' \in [Launches -> Row]
           /\ row'[l].lifecycle = "terminal" /\ row'[l].cost = cost
           /\ \A k \in Launches : k # l => row'[k] = row[k]
<1> DEFINE r == [lifecycle |-> "terminal", by |-> by, stop |-> stop, cost |-> cost,
                 transcript |-> transcript]
<1>1. r \in Row /\ r.lifecycle = "terminal" /\ r.cost = cost
  BY DEF Row
<1>2. row' = [row EXCEPT ![l] = r]
  OBVIOUS
<1> HIDE DEF r
<1> QED
  BY <1>1, <1>2

\* reconcile_terminal writes the usage it has reconciled.
LEMMA TerminalEffect ==
    ASSUME NEW l \in Launches, SessionTypeOK, TerminalSession(l)
    PROVE  /\ row' \in [Launches -> Row]
           /\ row'[l].lifecycle = "terminal" /\ row'[l].cost = launch.usage
           /\ \A k \in Launches : k # l => row'[k] = row[k]
<1>1. Transcript \in {"sealed", "partial", "unavailable"}
  BY DEF Transcript
<1>2. rpc.stop \in HostStops /\ launch.usage \in MaybeCost
  BY DEF SessionTypeOK, Rpc, Launch
<1>3. InfrastructureStopReason \in Reasons \cup {"protocol_error", "daemon_disconnected"}
  BY DEF InfrastructureStopReason, SessionTypeOK, Custody, Reasons
<1>4. row \in [Launches -> Row]
  BY DEF SessionTypeOK
<1>5. CASE launch.terminal /\ ActorTerminalAccepted
  <2>1. row' = [row EXCEPT ![l] = [lifecycle |-> "terminal", by |-> "actor", stop |-> rpc.stop,
                                   cost |-> launch.usage, transcript |-> Transcript]]
    BY <1>5 DEF TerminalSession
  <2> QED
    BY <2>1, <1>1, <1>2, <1>4, TerminalRow
<1>6. CASE ~(launch.terminal /\ ActorTerminalAccepted)
  <2>1. row' = [row EXCEPT ![l] = [lifecycle |-> "terminal", by |-> "kernel",
                                   stop |-> InfrastructureStopReason,
                                   cost |-> launch.usage, transcript |-> Transcript]]
    BY <1>6 DEF TerminalSession
  <2> QED
    BY <2>1, <1>1, <1>2, <1>3, <1>4, TerminalRow
<1> QED
  BY <1>5, <1>6

\* Recovery settles a row without a cost.
LEMMA RecoveredEffect ==
    ASSUME NEW l \in Launches, SessionTypeOK, NEW transcript \in RecoveredTranscripts,
           ReconcileOneSession(l, transcript)
    PROVE  /\ row' \in [Launches -> Row]
           /\ row'[l].lifecycle = "terminal" /\ row'[l].cost = Unknown
           /\ \A k \in Launches : k # l => row'[k] = row[k]
<1>1. row' = [row EXCEPT ![l] = [lifecycle |-> "terminal", by |-> "restart",
                                 stop |-> "daemon_disconnected", cost |-> Unknown,
                                 transcript |-> transcript]]
  BY DEF ReconcileOneSession
<1> QED
  BY <1>1, TerminalRow DEF RecoveredTranscripts, SessionTypeOK, MaybeCost

-----------------------------------------------------------------------------
(* Every step keeps the types                                              *)

\* The reconciled usage is a cost or unknown.
LEMMA UsageTyped ==
    ASSUME NEW l \in Launches, SessionTypeOK, MoneyInv
    PROVE  ReconcileProviderUsage(ledger[l]) \in MaybeCost
<1>1. CASE Complete(ledger[l])
  <2>1. PICK s \in Nat : CostUpTo(ledger[l], Len(ledger[l]), s)
    BY <1>1 DEF MoneyInv, Books, BooksOf, Accounted
  <2>2. LedgerCost(ledger[l]) = s
    BY <1>1, <2>1, LedgerCostIsSum
  <2> QED
    BY <2>2 DEF ReconcileProviderUsage, MaybeCost
<1>2. CASE ~Complete(ledger[l])
  BY <1>2 DEF ReconcileProviderUsage, LedgerCost, MaybeCost
<1> QED
  BY <1>1, <1>2

\* A charge of the provider.
LEMMA BillEffect ==
    ASSUME NEW l \in Launches, NEW cost \in Amounts, NEW kind,
           charged \in [Launches -> Charge], Bill(l, cost, kind)
    PROVE  /\ charged' \in [Launches -> Charge]
           /\ charged'[l].paid = Plus(charged[l].paid, cost)
           /\ charged'[l].stated =
                IF kind = "stated" THEN Plus(charged[l].stated, cost) ELSE charged[l].stated
           /\ charged'[l].retried =
                IF kind = "retried" THEN Plus(charged[l].retried, cost) ELSE charged[l].retried
           /\ \A k \in Launches : k # l => charged'[k] = charged[k]
<1> DEFINE p == Plus(charged[l].paid, cost)
           t == IF kind = "stated" THEN Plus(charged[l].stated, cost) ELSE charged[l].stated
           r == IF kind = "retried" THEN Plus(charged[l].retried, cost) ELSE charged[l].retried
           c == [paid |-> p, stated |-> t, retried |-> r]
<1>1. charged' = [charged EXCEPT ![l] = c]
  BY DEF Bill
<1>2. p \in Amounts /\ t \in Amounts /\ r \in Amounts
  BY PlusTyped DEF Charge
<1> HIDE DEF p, t, r
<1>3. c \in Charge /\ c.paid = p /\ c.stated = t /\ c.retried = r
  BY <1>2 DEF Charge
<1> HIDE DEF c
<1> QED
  BY <1>1, <1>3 DEF p, t, r

\* What a settlement on the wire needs is there.
LEMMA SettleReady ==
    ASSUME NEW l \in Launches, MoneyInv, host[l].ask = "settle"
    PROVE  LastStarted(ledger[l]) /\ host[l].outcome.state \in {"settled", "failed"}
BY DEF MoneyInv, Books, BooksOf

\* No step leaves the types; that the settled outcome exists is in the books.
LEMMA TypeStep ==
    ASSUME SessionInv, [SessionNext]_vars
    PROVE  SessionTypeOK'
<1> USE SessionAssumption DEF SessionInv, SessionTypeOK
<1>1. ASSUME NEW l \in Launches, Spawn(l) PROVE SessionTypeOK'
  <2>1. l \in 0..MaxLaunches
    BY DEF Launches
  <2>2. launch' \in Launch
    BY <1>1, <2>1 DEF Spawn, Launch
  <2> QED
    BY <1>1, <2>2, SpawnEffect DEF Spawn, HostMoves
<1>2. ASSUME NEW l \in Launches, StartSession(l) PROVE SessionTypeOK'
  BY <1>2, StartedRow DEF StartSession, Launch
<1>3. ASSUME NEW l \in Launches, Register(l) PROVE SessionTypeOK'
  BY <1>3 DEF Register, Launch
<1>4. ASSUME NEW l \in Launches, Admit(l) PROVE SessionTypeOK'
  BY <1>4, AdmissionEffect DEF Admit, HostMoves, Launch, Custody
<1>5. ASSUME NEW l \in Launches, AbortReturns(l) PROVE SessionTypeOK'
  BY <1>5 DEF AbortReturns, Return, NoLaunch, NoRpc, NoCustody, Launch, Rpc, Custody,
    Reasons, MaybeCost, HostStops
<1>6. ASSUME NEW l \in Launches, ProcessStops(l) PROVE SessionTypeOK'
  BY <1>6 DEF ProcessStops, Launch, Rpc
<1>7. ASSUME NEW l \in Launches, TransportStops(l) PROVE SessionTypeOK'
  BY <1>7 DEF TransportStops, Launch, Custody
<1>8. ASSUME NEW l \in Launches, ChildWaited(l) PROVE SessionTypeOK'
  BY <1>8, ZenonT(60) DEF ChildWaited, Launch, Rpc
<1>9. ASSUME NEW l \in Launches, SealEvidence(l) PROVE SessionTypeOK'
  BY <1>9, UsageTyped DEF SealEvidence, Launch
<1>10. ASSUME NEW l \in Launches, TerminalSession(l) PROVE SessionTypeOK'
  BY <1>10, TerminalEffect DEF TerminalSession, Return, NoLaunch, NoRpc, NoCustody, Launch, Rpc,
    Custody, Reasons, MaybeCost, HostStops
<1>11. ASSUME NEW l \in Launches, StartRefused(l) PROVE SessionTypeOK'
  BY <1>11 DEF StartRefused, Abort, Launch, Custody
<1>12. ASSUME NEW l \in Launches, AdmissionFails(l) PROVE SessionTypeOK'
  BY <1>12 DEF AdmissionFails, Abort, Launch, Custody
<1>13. ASSUME NEW l \in Launches, ReconcileFails(l) PROVE SessionTypeOK'
  BY <1>13 DEF ReconcileFails, Return, NoLaunch, NoRpc, NoCustody, Launch, Rpc, Custody,
    Reasons, MaybeCost, HostStops
<1>14. ASSUME NEW l \in Launches, TransportFails(l) PROVE SessionTypeOK'
  BY <1>14 DEF TransportFails
<1>15. ASSUME NEW l \in Launches, LateCommit(l) PROVE SessionTypeOK'
  <2>1. CASE host[l].ask = "start" /\ InsertStarted(l)
    BY <1>15, <2>1, InsertEffect, UnansweredEffect DEF LateCommit, LedgerMoves, HostMoves
  <2>2. CASE host[l].ask = "settle" /\ UpdateSettled(l)
    BY <1>15, <2>2, SettleReady, SettleEffect, UnansweredEffect DEF LateCommit, LedgerMoves, HostMoves
  <2> QED
    BY <1>15, <2>1, <2>2 DEF LateCommit
<1>16. ASSUME NEW l \in Launches, ReapChild(l) PROVE SessionTypeOK'
  BY <1>16 DEF ReapChild, Custody
<1>17. ASSUME NEW l \in Launches, \E reason \in {"cancelled"} \cup LimitReasons : TermGroup(l, reason)
      PROVE  SessionTypeOK'
  BY <1>17 DEF TermGroup, Custody, Reasons
<1>18. ASSUME NEW l \in Launches, KillGroup(l) PROVE SessionTypeOK'
  BY <1>18, DeathEffect DEF KillGroup, HostMoves
<1>19. ASSUME NEW l \in Launches, VerifyPacket(l) PROVE SessionTypeOK'
  BY <1>19, AnswerEffect DEF VerifyPacket, HostMoves, Rpc, AlivePhases, Requests
<1>20. ASSUME NEW l \in Launches, WorkspaceRead(l) PROVE SessionTypeOK'
  BY <1>20, AnswerEffect DEF WorkspaceRead, ReadExactWorkspaceFile, HostMoves, Rpc, AlivePhases, Requests
<1>21. ASSUME NEW l \in Launches, ProviderEffectStart(l) PROVE SessionTypeOK'
  BY <1>21, AnswerEffect, InsertEffect DEF ProviderEffectStart, HostMoves, LedgerMoves,
    AlivePhases, Requests
<1>22. ASSUME NEW l \in Launches, ProviderEffectSettle(l) PROVE SessionTypeOK'
  BY <1>22, AnswerEffect, SettleReady, SettleEffect DEF ProviderEffectSettle, Dispatch,
    HostMoves, LedgerMoves, AlivePhases, Requests
<1>23. ASSUME NEW l \in Launches, \E request \in {"transcript", "summary"} : SealArtifact(l, request)
      PROVE  SessionTypeOK'
  BY <1>23, AnswerEffect, ZenonT(60) DEF SealArtifact, HostMoves, Rpc, AlivePhases, Requests
<1>24. ASSUME NEW l \in Launches, SubmitTerminal(l) PROVE SessionTypeOK'
  <2>1. HostReport(host[l]) \in MaybeCost
    BY MicroUsdTyped DEF HostReport, Host, MaybeCost
  <2> QED
    BY <1>24, <2>1 DEF SubmitTerminal, Rpc, Host
<1>25. ASSUME NEW l \in Launches, PeerClosed(l) PROVE SessionTypeOK'
  BY <1>25 DEF PeerClosed
<1>26. ASSUME NEW l \in Launches, HostReads(l) PROVE SessionTypeOK'
  BY <1>26, AskEffect DEF HostReads, Economy, HostMoves, Requests
<1>27. ASSUME NEW l \in Launches, HostEdits(l) PROVE SessionTypeOK'
  BY <1>27, EditEffect DEF HostEdits, Economy, HostMoves
<1>28. ASSUME NEW l \in Launches, RecordStart(l) PROVE SessionTypeOK'
  BY <1>28, AskEffect DEF RecordStart, Economy, HostMoves, Requests
<1>29. ASSUME NEW l \in Launches, SendProviderRequest(l) PROVE SessionTypeOK'
  BY <1>29, SendEffect DEF SendProviderRequest, Economy, HostMoves
<1>30. ASSUME NEW l \in Launches, HostExits(l) PROVE SessionTypeOK'
  BY <1>30, DeathEffect DEF HostExits, Economy, HostMoves
<1>31. ASSUME NEW l \in Launches, \E terminal \in BOOLEAN : HostFinishes(l, terminal)
      PROVE  SessionTypeOK'
  <2>1. PICK terminal \in BOOLEAN : HostFinishes(l, terminal)
    BY <1>31
  <2> QED
    BY <2>1, FinishEffect DEF HostFinishes, Economy, HostMoves
<1>32. ASSUME NEW l \in Launches,
              \E cost \in Costs, stated \in BOOLEAN : ProviderAnswers(l, cost, stated)
       PROVE  SessionTypeOK'
  <2>1. PICK cost \in Costs, stated \in BOOLEAN : ProviderAnswers(l, cost, stated)
    BY <1>32
  <2>2. cost \in Amounts
    OBVIOUS
  <2>3. charged' \in [Launches -> Charge]
    BY <2>1, <2>2, BillEffect DEF ProviderAnswers, Settle
  <2>4. host' \in [Launches -> Host]
    BY <2>1, <2>2, OutcomeEffect DEF ProviderAnswers, HostMoves
  <2> QED
    BY <2>1, <2>3, <2>4 DEF ProviderAnswers, Economy
<1>33. ASSUME NEW l \in Launches, \E cost \in Costs : ProviderChargesDead(l, cost)
       PROVE  SessionTypeOK'
  <2>1. PICK cost \in Costs : ProviderChargesDead(l, cost)
    BY <1>33
  <2>2. cost \in Amounts
    OBVIOUS
  <2>3. charged' \in [Launches -> Charge]
    BY <2>1, <2>2, BillEffect DEF ProviderChargesDead
  <2>4. host' \in [Launches -> Host]
    BY <2>1, ChargeEffect DEF ProviderChargesDead, HostMoves
  <2> QED
    BY <2>1, <2>3, <2>4 DEF ProviderChargesDead, Economy
<1>34. ASSUME NEW l \in Launches,
              \E cost \in Costs \cup {Nothing}, stated \in BOOLEAN : ProviderFails(l, cost, stated)
       PROVE  SessionTypeOK'
  <2>1. PICK cost \in Costs \cup {Nothing}, stated \in BOOLEAN : ProviderFails(l, cost, stated)
    BY <1>34
  <2>2. cost \in Amounts
    BY NothingTyped
  <2>3. charged' \in [Launches -> Charge]
    BY <2>1, <2>2, BillEffect DEF ProviderFails, Settle
  <2>4. host' \in [Launches -> Host]
    BY <2>1, <2>2, OutcomeEffect DEF ProviderFails, HostMoves
  <2> QED
    BY <2>1, <2>3, <2>4 DEF ProviderFails, Economy
<1>35. ASSUME NEW l \in Launches, TerminateOwnedProcessGroup(l) PROVE SessionTypeOK'
  BY <1>35, DeathEffect DEF TerminateOwnedProcessGroup, Economy, HostMoves
<1>36. ASSUME NEW l \in Launches, CreateEvidence(l) PROVE SessionTypeOK'
  BY <1>36 DEF CreateEvidence
<1>37. ASSUME NEW l \in Launches, WriteEvidence(l) PROVE SessionTypeOK'
  BY <1>37 DEF WriteEvidence
<1>38. ASSUME NEW l \in Launches, EvidenceChanged(l) PROVE SessionTypeOK'
  BY <1>38 DEF EvidenceChanged
<1>39. ASSUME NEW l \in Launches, \E transcript \in RecoveredTranscripts : ReconcileOneSession(l, transcript)
      PROVE  SessionTypeOK'
  BY <1>39, RecoveredEffect DEF ReconcileOneSession
<1>40. ASSUME NEW l \in Launches, OperatorCancels(l) PROVE SessionTypeOK'
  BY <1>40 DEF OperatorCancels, CancelAndWait, Custody
<1>41. CASE BeginShutdown
  BY <1>41 DEF BeginShutdown, CancelAndWait, Custody
<1>42. CASE CancelDriver
  BY <1>42 DEF CancelDriver, NoLaunch, NoRpc, Launch, Rpc, MaybeCost, HostStops
<1>43. CASE ReleaseLock
  BY <1>43 DEF ReleaseLock, NoCustody, Custody, Reasons
<1>44. CASE Crash
  BY <1>44 DEF Crash, Return, NoLaunch, NoRpc, NoCustody, Launch, Rpc, Custody, Reasons, MaybeCost,
    HostStops
<1>45. CASE Restart
  BY <1>45 DEF Restart
<1>46. CASE ServeOperators
  BY <1>46 DEF ServeOperators
<1>47. CASE UNCHANGED vars
  BY <1>47 DEF vars
<1>48. ASSUME NEW l \in Launches, LedgerConflicts(l) PROVE SessionTypeOK'
  BY <1>48 DEF LedgerConflicts, Return, NoLaunch, NoRpc, NoCustody, Launch, Rpc, Custody,
    Reasons, MaybeCost, HostStops
<1>49. ASSUME NEW l \in Launches, AdmissionAbandoned(l) PROVE SessionTypeOK'
  <2>1. host' \in [Launches -> Host]
    BY <1>49, AdmissionEffect DEF AdmissionAbandoned, HostMoves
  <2> QED
    BY <1>49, <2>1 DEF AdmissionAbandoned, Return, NoLaunch, NoRpc, NoCustody, Launch, Rpc,
      Custody, Reasons, MaybeCost, HostStops
<1>50. ASSUME NEW l \in Launches,
              \E cost \in Costs \cup {Nothing}, complete \in BOOLEAN : ProviderRetries(l, cost, complete)
       PROVE  SessionTypeOK'
  <2>1. PICK cost \in Costs \cup {Nothing}, complete \in BOOLEAN : ProviderRetries(l, cost, complete)
    BY <1>50
  <2>2. cost \in Amounts
    BY NothingTyped
  <2>3. charged' \in [Launches -> Charge]
    BY <2>1, <2>2, BillEffect DEF ProviderRetries
  <2>4. host' \in [Launches -> Host]
    BY <2>1, RetryEffect DEF HostMoves
  <2> QED
    BY <2>1, <2>3, <2>4 DEF ProviderRetries, Economy
<1> QED
  BY <1>1, <1>2, <1>3, <1>4, <1>5, <1>6, <1>7, <1>8, <1>9, <1>10, <1>11,
     <1>12, <1>13, <1>14, <1>15, <1>16, <1>17, <1>18, <1>19, <1>20, <1>21,
     <1>22, <1>23, <1>24, <1>25, <1>26, <1>27, <1>28, <1>29, <1>30, <1>31,
     <1>32, <1>33, <1>34, <1>35, <1>36, <1>37, <1>38, <1>39, <1>40, <1>41,
     <1>42, <1>43, <1>44, <1>45, <1>46, <1>47, <1>48,
     <1>49, <1>50
  DEF SessionNext, LaunchStep, LaunchFault, CustodyStep, ServerStep, HostStep, ProviderStep,
      RecoveryStep, ShutdownStep

-----------------------------------------------------------------------------
(* Every step keeps the launch in order                                    *)

\* The launch in progress stays with its row, its host and its thread.
LEMMA CustodyKept ==
    ASSUME SessionInv, [SessionNext]_vars
    PROVE  CustodyInv'
<1> USE SessionAssumption
    DEF SessionInv, SessionTypeOK, CustodyInv, Alive, EarlyPhases, RowPhases, Launch, Custody, Rpc
<1>1. ASSUME NEW l \in Launches, Spawn(l) PROVE CustodyInv'
  BY <1>1, SpawnEffect DEF Spawn, Driving, Launches, HostMoves, HostKeeps, RowsInv
<1>2. ASSUME NEW l \in Launches, StartSession(l) PROVE CustodyInv'
  BY <1>2, StartedRow DEF StartSession
<1>3. ASSUME NEW l \in Launches, Register(l) PROVE CustodyInv'
  BY <1>3 DEF Register
<1>4. ASSUME NEW l \in Launches, Admit(l) PROVE CustodyInv'
  BY <1>4, AdmissionEffect DEF Admit, HostMoves, HostKeeps, AlivePhases
<1>5. ASSUME NEW l \in Launches, AbortReturns(l) PROVE CustodyInv'
  BY <1>5 DEF AbortReturns, Return, NoLaunch, NoRpc, NoCustody
<1>6. ASSUME NEW l \in Launches, ProcessStops(l) PROVE CustodyInv'
  BY <1>6 DEF ProcessStops
<1>7. ASSUME NEW l \in Launches, TransportStops(l) PROVE CustodyInv'
  BY <1>7 DEF TransportStops
<1>8. ASSUME NEW l \in Launches, ChildWaited(l) PROVE CustodyInv'
  BY <1>8 DEF ChildWaited
<1>9. ASSUME NEW l \in Launches, SealEvidence(l) PROVE CustodyInv'
  BY <1>9 DEF SealEvidence
<1>10. ASSUME NEW l \in Launches, TerminalSession(l) PROVE CustodyInv'
  BY <1>10, TerminalEffect DEF TerminalSession, Return, NoLaunch, NoRpc, NoCustody
<1>11. ASSUME NEW l \in Launches, StartRefused(l) PROVE CustodyInv'
  BY <1>11 DEF StartRefused, Abort
<1>12. ASSUME NEW l \in Launches, AdmissionFails(l) PROVE CustodyInv'
  BY <1>12 DEF AdmissionFails, Abort
<1>13. ASSUME NEW l \in Launches, ReconcileFails(l) PROVE CustodyInv'
  BY <1>13 DEF ReconcileFails, Return, NoLaunch, NoRpc, NoCustody
<1>14. ASSUME NEW l \in Launches, TransportFails(l) PROVE CustodyInv'
  BY <1>14 DEF TransportFails
<1>15. ASSUME NEW l \in Launches, LateCommit(l) PROVE CustodyInv'
  BY <1>15, UnansweredEffect DEF LateCommit, HostMoves, HostKeeps
<1>16. ASSUME NEW l \in Launches, ReapChild(l) PROVE CustodyInv'
  BY <1>16 DEF ReapChild
<1>17. ASSUME NEW l \in Launches, \E reason \in {"cancelled"} \cup LimitReasons : TermGroup(l, reason)
      PROVE  CustodyInv'
  BY <1>17 DEF TermGroup, Reasons
<1>18. ASSUME NEW l \in Launches, KillGroup(l) PROVE CustodyInv'
  BY <1>18, DeathEffect DEF KillGroup, HostMoves, HostKeeps, AlivePhases
<1>19. ASSUME NEW l \in Launches, VerifyPacket(l) PROVE CustodyInv'
  BY <1>19, AnswerEffect DEF VerifyPacket, Dispatch, HostMoves, HostKeeps, AlivePhases, Requests
<1>20. ASSUME NEW l \in Launches, WorkspaceRead(l) PROVE CustodyInv'
  BY <1>20, AnswerEffect DEF WorkspaceRead, Dispatch, HostMoves, HostKeeps, AlivePhases, Requests
<1>21. ASSUME NEW l \in Launches, ProviderEffectStart(l) PROVE CustodyInv'
  BY <1>21, AnswerEffect DEF ProviderEffectStart, Dispatch, HostMoves, HostKeeps, AlivePhases, Requests
<1>22. ASSUME NEW l \in Launches, ProviderEffectSettle(l) PROVE CustodyInv'
  BY <1>22, AnswerEffect DEF ProviderEffectSettle, Dispatch, HostMoves, HostKeeps, AlivePhases, Requests
<1>23. ASSUME NEW l \in Launches, \E request \in {"transcript", "summary"} : SealArtifact(l, request)
      PROVE  CustodyInv'
  <2>1. PICK request \in {"transcript", "summary"} : SealArtifact(l, request)
    BY <1>23
  <2>2. HostMoves(l) /\ HostKeeps(l)
        /\ host'[l].phase = IF Alive(l) THEN "asking" ELSE host[l].phase
    BY <2>1, AnswerEffect DEF SealArtifact, AlivePhases, Requests
  <2>3. /\ launch.id = l /\ UNCHANGED <<daemon, launch, row, custody>> /\ rpc'.cost = rpc.cost
        /\ server = "serving"
    BY <2>1 DEF SealArtifact, Dispatch, Rpc
  <2> QED
    BY <2>1, <2>2, <2>3, Zenon DEF HostMoves, HostKeeps, AlivePhases
<1>24. ASSUME NEW l \in Launches, SubmitTerminal(l) PROVE CustodyInv'
  BY <1>24 DEF SubmitTerminal, Dispatch
<1>25. ASSUME NEW l \in Launches, PeerClosed(l) PROVE CustodyInv'
  BY <1>25 DEF PeerClosed
<1>26. ASSUME NEW l \in Launches, HostReads(l) PROVE CustodyInv'
  <2>1. HostMoves(l) /\ host'[l].phase = "asking" /\ host[l].phase = "working"
    BY <1>26, AskEffect DEF HostReads, Requests
  <2> QED
    BY <1>26, <2>1 DEF HostReads, Economy, HostMoves, AlivePhases
<1>27. ASSUME NEW l \in Launches, HostEdits(l) PROVE CustodyInv'
  BY <1>27, EditEffect DEF HostEdits, Economy, HostMoves, HostKeeps
<1>28. ASSUME NEW l \in Launches, RecordStart(l) PROVE CustodyInv'
  <2>1. HostMoves(l) /\ host'[l].phase = "asking" /\ host[l].phase = "working"
    BY <1>28, AskEffect DEF RecordStart, Requests
  <2> QED
    BY <1>28, <2>1 DEF RecordStart, Economy, HostMoves, AlivePhases
<1>29. ASSUME NEW l \in Launches, SendProviderRequest(l) PROVE CustodyInv'
  BY <1>29, SendEffect, ZenonT(60) DEF SendProviderRequest, Economy, HostMoves, HostKeeps, AlivePhases
<1>30. ASSUME NEW l \in Launches, HostExits(l) PROVE CustodyInv'
  BY <1>30, DeathEffect, ZenonT(60) DEF HostExits, Economy, HostMoves, HostKeeps, AlivePhases
<1>31. ASSUME NEW l \in Launches, \E terminal \in BOOLEAN : HostFinishes(l, terminal)
      PROVE  CustodyInv'
  <2>1. PICK terminal \in BOOLEAN : HostFinishes(l, terminal)
    BY <1>31
  <2> QED
    BY <2>1, FinishEffect, ZenonT(60) DEF HostFinishes, Economy, HostMoves, HostKeeps, AlivePhases
<1>32. ASSUME NEW l \in Launches,
              \E cost \in Costs, stated \in BOOLEAN : ProviderAnswers(l, cost, stated)
       PROVE  CustodyInv'
  <2>1. PICK cost \in Costs, stated \in BOOLEAN : ProviderAnswers(l, cost, stated)
    BY <1>32
  <2>2. HostMoves(l) /\ host'[l].phase = "asking" /\ host[l].phase = "inflight"
    BY <2>1, OutcomeEffect DEF ProviderAnswers
  <2> QED
    BY <2>1, <2>2, ZenonT(60) DEF ProviderAnswers, Economy, HostMoves, AlivePhases
<1>33. ASSUME NEW l \in Launches, \E cost \in Costs : ProviderChargesDead(l, cost)
      PROVE  CustodyInv'
  BY <1>33, ChargeEffect DEF ProviderChargesDead, Economy, HostMoves, HostKeeps
<1>34. ASSUME NEW l \in Launches,
              \E cost \in Costs \cup {Nothing}, stated \in BOOLEAN : ProviderFails(l, cost, stated)
       PROVE  CustodyInv'
  <2>1. PICK cost \in Costs \cup {Nothing}, stated \in BOOLEAN : ProviderFails(l, cost, stated)
    BY <1>34
  <2>2. cost \in Amounts
    BY NothingTyped
  <2>3. HostMoves(l) /\ host'[l].phase = "asking" /\ host[l].phase = "inflight"
    BY <2>1, <2>2, OutcomeEffect DEF ProviderFails
  <2> QED
    BY <2>1, <2>3, ZenonT(60) DEF ProviderFails, Economy, HostMoves, AlivePhases
<1>35. ASSUME NEW l \in Launches, TerminateOwnedProcessGroup(l) PROVE CustodyInv'
  BY <1>35, DeathEffect, ZenonT(60) DEF TerminateOwnedProcessGroup, Economy, HostMoves, HostKeeps, AlivePhases
<1>36. ASSUME NEW l \in Launches, CreateEvidence(l) PROVE CustodyInv'
  BY <1>36 DEF CreateEvidence
<1>37. ASSUME NEW l \in Launches, WriteEvidence(l) PROVE CustodyInv'
  BY <1>37 DEF WriteEvidence
<1>38. ASSUME NEW l \in Launches, EvidenceChanged(l) PROVE CustodyInv'
  BY <1>38 DEF EvidenceChanged, Recovering
<1>39. ASSUME NEW l \in Launches, \E transcript \in RecoveredTranscripts : ReconcileOneSession(l, transcript)
      PROVE  CustodyInv'
  <2>1. PICK transcript \in RecoveredTranscripts : ReconcileOneSession(l, transcript)
    BY <1>39
  <2> QED
    BY <2>1, RecoveredEffect DEF ReconcileOneSession, Recovering
<1>40. ASSUME NEW l \in Launches, OperatorCancels(l) PROVE CustodyInv'
  BY <1>40 DEF OperatorCancels, CancelAndWait
<1>41. CASE BeginShutdown
  BY <1>41 DEF BeginShutdown, CancelAndWait
<1>42. CASE CancelDriver
  BY <1>42 DEF CancelDriver, NoLaunch, NoRpc
<1>43. CASE ReleaseLock
  BY <1>43 DEF ReleaseLock, NoCustody
<1>44. CASE Crash
  BY <1>44 DEF Crash, Return, NoLaunch, NoRpc, NoCustody
<1>45. CASE Restart
  BY <1>45 DEF Restart, Up
<1>46. CASE ServeOperators
  BY <1>46 DEF ServeOperators
<1>47. CASE UNCHANGED vars
  BY <1>47 DEF vars
<1>48. ASSUME NEW l \in Launches, LedgerConflicts(l) PROVE CustodyInv'
  BY <1>48 DEF LedgerConflicts, Return, NoLaunch, NoRpc, NoCustody
<1>49. ASSUME NEW l \in Launches, AdmissionAbandoned(l) PROVE CustodyInv'
  BY <1>49 DEF AdmissionAbandoned, Return, NoLaunch, NoRpc, NoCustody
<1>50. ASSUME NEW l \in Launches,
              \E cost \in Costs \cup {Nothing}, complete \in BOOLEAN : ProviderRetries(l, cost, complete)
       PROVE  CustodyInv'
  <2>1. PICK cost \in Costs \cup {Nothing}, complete \in BOOLEAN : ProviderRetries(l, cost, complete)
    BY <1>50
  <2>2. HostMoves(l) /\ host'[l].phase = "inflight" /\ host[l].phase = "inflight"
    BY <2>1, RetryEffect DEF ProviderRetries
  <2> QED
    BY <2>1, <2>2, ZenonT(60) DEF ProviderRetries, Economy, HostMoves, AlivePhases
<1> QED
  BY <1>1, <1>2, <1>3, <1>4, <1>5, <1>6, <1>7, <1>8, <1>9, <1>10, <1>11,
     <1>12, <1>13, <1>14, <1>15, <1>16, <1>17, <1>18, <1>19, <1>20, <1>21,
     <1>22, <1>23, <1>24, <1>25, <1>26, <1>27, <1>28, <1>29, <1>30, <1>31,
     <1>32, <1>33, <1>34, <1>35, <1>36, <1>37, <1>38, <1>39, <1>40, <1>41,
     <1>42, <1>43, <1>44, <1>45, <1>46, <1>47, <1>48,
     <1>49, <1>50
  DEF SessionNext, LaunchStep, LaunchFault, CustodyStep, ServerStep, HostStep, ProviderStep,
      RecoveryStep, ShutdownStep

-----------------------------------------------------------------------------
(* Every step keeps rows and hosts in order                                *)

\* A host may do as it likes, short of coming to life or acting without a row.
LEMMA RowsAfterHost ==
    ASSUME RowsInv, NEW l \in Launches, HostMoves(l), row' = row, launch'.id = launch.id,
           host[l].phase = "none" => host'[l].phase = "none",
           host'[l].phase \in AlivePhases => host[l].phase \in AlivePhases,
           host'[l].phase \in AlivePhases \ {"booting"} =>
             host[l].phase # "booting" \/ row[l].lifecycle = "running",
           host'[l].ask # "none" => host'[l].phase \in {"asking", "exited"}
    PROVE  RowsInv'
<1>1. ASSUME NEW k \in Launches, k > launch'.id
      PROVE  row'[k].lifecycle = "none" /\ host'[k].phase = "none"
  BY <1>1 DEF RowsInv, HostMoves
<1>2. ASSUME NEW k \in Launches, row'[k].lifecycle = "terminal"
      PROVE  host'[k].phase \notin AlivePhases
  BY <1>2 DEF RowsInv, HostMoves, Alive
<1>3. ASSUME NEW k \in Launches, host'[k].phase \in AlivePhases, host'[k].phase # "booting"
      PROVE  row'[k].lifecycle = "running"
  BY <1>3 DEF RowsInv, HostMoves, Acting, Alive
<1>4. ASSUME NEW k \in Launches, host'[k].ask # "none"
      PROVE  host'[k].phase \in {"asking", "exited"}
  BY <1>4 DEF RowsInv, HostMoves
<1>5. ASSUME NEW j \in Launches, NEW k \in Launches,
             row'[j].lifecycle = "running", row'[k].lifecycle = "running"
      PROVE  j = k
  BY <1>5 DEF RowsInv
<1> QED
  BY <1>1, <1>2, <1>3, <1>4, <1>5 DEF RowsInv, Acting, Alive

\* An answer ends the wait of a host.
LEMMA RowsAfterAnswer ==
    ASSUME RowsInv, NEW l \in Launches, NEW phase \in AlivePhases, NEW next \in Requests,
           host \in [Launches -> Host], Answer(l, phase, next), next = "none" \/ phase = "asking",
           row' = row, launch' = launch, host[l].ask # "none"
    PROVE  RowsInv'
<1>1. host[l].phase \in {"asking", "exited"}
  BY DEF RowsInv
<1>2. /\ HostMoves(l)
      /\ host'[l].phase = IF Alive(l) THEN phase ELSE host[l].phase
      /\ host'[l].ask = IF Alive(l) THEN next ELSE "none"
  BY AnswerEffect
<1> QED
  BY <1>1, <1>2, RowsAfterHost DEF Alive, AlivePhases

\* One row runs at a time, an admitted host has it, a terminal one has none.
LEMMA RowsKept ==
    ASSUME SessionInv, [SessionNext]_vars
    PROVE  RowsInv'
<1> USE SessionAssumption DEF SessionInv, SessionTypeOK
<1>1. ASSUME NEW l \in Launches, Spawn(l) PROVE RowsInv'
  <2>0. l > launch.id /\ launch.id \in Nat
    BY <1>1 DEF Spawn, Launch, Launches
  <2>1. host[l].phase = "none" /\ row[l].lifecycle = "none" /\ host[l].ask = "none"
    BY <2>0 DEF RowsInv
  <2>2. HostMoves(l) /\ host'[l].phase = "booting" /\ host'[l].ask = "none"
    BY <1>1, <2>1, SpawnEffect DEF Spawn
  <2>3. row' = row /\ launch'.id = l /\ l = launch.id + 1 /\ launch.id \in Nat
    BY <1>1 DEF Spawn, Launch
  <2>4. ASSUME NEW k \in Launches, k > launch'.id
        PROVE  row'[k].lifecycle = "none" /\ host'[k].phase = "none"
    <3>1. k # l /\ k > launch.id
      BY <2>3, <2>4 DEF Launches
    <3>2. row[k].lifecycle = "none" /\ host[k].phase = "none"
      BY <3>1 DEF RowsInv
    <3> QED
      BY <3>1, <3>2, <2>2, <2>3 DEF HostMoves
  <2>5. ASSUME NEW k \in Launches, row'[k].lifecycle = "terminal"
        PROVE  host'[k].phase \notin AlivePhases
    BY <2>1, <2>2, <2>3, <2>5 DEF RowsInv, HostMoves, Alive
  <2>6. ASSUME NEW k \in Launches, host'[k].phase \in AlivePhases, host'[k].phase # "booting"
        PROVE  row'[k].lifecycle = "running"
    BY <2>2, <2>3, <2>6 DEF RowsInv, HostMoves, Acting, Alive
  <2>7. ASSUME NEW k \in Launches, host'[k].ask # "none"
        PROVE  host'[k].phase \in {"asking", "exited"}
    BY <2>2, <2>7 DEF RowsInv, HostMoves
  <2> QED
    BY <2>3, <2>4, <2>5, <2>6, <2>7 DEF RowsInv, Acting, Alive
<1>2. ASSUME NEW l \in Launches, StartSession(l) PROVE RowsInv'
  BY <1>2, StartedRow DEF StartSession, CustodyInv, RowPhases, AlivePhases, RowsInv, Acting,
      Alive, Launch
<1>3. ASSUME NEW l \in Launches, Register(l) PROVE RowsInv'
  BY <1>3 DEF Register, RowsInv, Acting, Alive, Launch
<1>4. ASSUME NEW l \in Launches, Admit(l) PROVE RowsInv'
  <2>1. row[l].lifecycle = "running" /\ row' = row /\ launch'.id = launch.id
    BY <1>4 DEF Admit, CustodyInv, RowPhases, Launch
  <2>2. host[l].ask # "none" => host[l].phase \in {"asking", "exited"}
    BY DEF RowsInv
  <2> QED
    BY <1>4, <2>1, <2>2, AdmissionEffect, RowsAfterHost DEF Admit, Alive, AlivePhases
<1>5. ASSUME NEW l \in Launches, AbortReturns(l) PROVE RowsInv'
  BY <1>5 DEF AbortReturns, Return, NoLaunch, NoRpc, NoCustody, RowsInv, Acting, Alive, Launch
<1>6. ASSUME NEW l \in Launches, ProcessStops(l) PROVE RowsInv'
  BY <1>6 DEF ProcessStops, RowsInv, Acting, Alive, Launch
<1>7. ASSUME NEW l \in Launches, TransportStops(l) PROVE RowsInv'
  BY <1>7 DEF TransportStops, RowsInv, Acting, Alive, Launch
<1>8. ASSUME NEW l \in Launches, ChildWaited(l) PROVE RowsInv'
  BY <1>8 DEF ChildWaited, RowsInv, Acting, Alive, Launch
<1>9. ASSUME NEW l \in Launches, SealEvidence(l) PROVE RowsInv'
  BY <1>9 DEF SealEvidence, RowsInv, Acting, Alive, Launch
<1>10. ASSUME NEW l \in Launches, TerminalSession(l) PROVE RowsInv'
  BY <1>10, TerminalEffect DEF TerminalSession, Return, NoLaunch, NoRpc, NoCustody, CustodyInv,
      RowsInv, Acting, Alive, Launch
<1>11. ASSUME NEW l \in Launches, StartRefused(l) PROVE RowsInv'
  BY <1>11 DEF StartRefused, Abort, RowsInv, Acting, Alive, Launch
<1>12. ASSUME NEW l \in Launches, AdmissionFails(l) PROVE RowsInv'
  BY <1>12 DEF AdmissionFails, Abort, RowsInv, Acting, Alive, Launch
<1>13. ASSUME NEW l \in Launches, ReconcileFails(l) PROVE RowsInv'
  BY <1>13 DEF ReconcileFails, Return, NoLaunch, NoRpc, NoCustody, RowsInv, Acting, Alive, Launch
<1>14. ASSUME NEW l \in Launches, TransportFails(l) PROVE RowsInv'
  BY <1>14 DEF TransportFails, RowsInv, Acting, Alive, Launch
<1>15. ASSUME NEW l \in Launches, LateCommit(l) PROVE RowsInv'
  BY <1>15, UnansweredEffect, RowsAfterHost DEF LateCommit, RowsInv, Acting
<1>16. ASSUME NEW l \in Launches, ReapChild(l) PROVE RowsInv'
  BY <1>16 DEF ReapChild, RowsInv, Acting, Alive, Launch
<1>17. ASSUME NEW l \in Launches, \E reason \in {"cancelled"} \cup LimitReasons : TermGroup(l, reason)
      PROVE  RowsInv'
  BY <1>17 DEF TermGroup, Reasons, RowsInv, Acting, Alive, Launch
<1>18. ASSUME NEW l \in Launches, KillGroup(l) PROVE RowsInv'
  <2>1. HostMoves(l) /\ row' = row /\ launch'.id = launch.id
    BY <1>18, DeathEffect DEF KillGroup
  <2> QED
    BY <1>18, <2>1, DeathEffect, RowsAfterHost DEF KillGroup, RowsInv, Acting, Alive,
        AlivePhases, HostKeeps
<1>19. ASSUME NEW l \in Launches, VerifyPacket(l) PROVE RowsInv'
  <2>1. Answer(l, "working", "none") /\ row' = row /\ launch' = launch /\ host[l].ask # "none"
    BY <1>19 DEF VerifyPacket, Dispatch
  <2> QED
    BY <2>1, RowsAfterAnswer DEF AlivePhases, Requests
<1>20. ASSUME NEW l \in Launches, WorkspaceRead(l) PROVE RowsInv'
  <2>1. Answer(l, "working", "none") /\ row' = row /\ launch' = launch /\ host[l].ask # "none"
    BY <1>20 DEF WorkspaceRead, Dispatch
  <2> QED
    BY <2>1, RowsAfterAnswer DEF AlivePhases, Requests
<1>21. ASSUME NEW l \in Launches, ProviderEffectStart(l) PROVE RowsInv'
  <2>1. Answer(l, "cleared", "none") /\ row' = row /\ launch' = launch /\ host[l].ask # "none"
    BY <1>21 DEF ProviderEffectStart, Dispatch
  <2> QED
    BY <2>1, RowsAfterAnswer DEF AlivePhases, Requests
<1>22. ASSUME NEW l \in Launches, ProviderEffectSettle(l) PROVE RowsInv'
  <2>1. Answer(l, "working", "none") /\ row' = row /\ launch' = launch /\ host[l].ask # "none"
    BY <1>22 DEF ProviderEffectSettle, Dispatch
  <2> QED
    BY <2>1, RowsAfterAnswer DEF AlivePhases, Requests
<1>23. ASSUME NEW l \in Launches, \E request \in {"transcript", "summary"} : SealArtifact(l, request)
      PROVE  RowsInv'
  <2>1. /\ Answer(l, "asking", "summary") \/ Answer(l, "asking", "submit")
        /\ row' = row /\ launch' = launch /\ host[l].ask # "none"
    BY <1>23 DEF SealArtifact, Dispatch
  <2> QED
    BY <2>1, RowsAfterAnswer DEF AlivePhases, Requests
<1>24. ASSUME NEW l \in Launches, SubmitTerminal(l) PROVE RowsInv'
  BY <1>24 DEF SubmitTerminal, Dispatch, RowsInv, Acting, Alive, Launch
<1>25. ASSUME NEW l \in Launches, PeerClosed(l) PROVE RowsInv'
  BY <1>25 DEF PeerClosed, RowsInv, Acting, Alive, Launch
<1>26. ASSUME NEW l \in Launches, HostReads(l) PROVE RowsInv'
  <2>1. HostMoves(l) /\ row' = row /\ launch'.id = launch.id
    BY <1>26, AskEffect DEF HostReads, Economy, Requests
  <2> QED
    BY <1>26, <2>1, AskEffect, RowsAfterHost DEF HostReads, Economy, Requests, RowsInv, Acting,
        Alive, AlivePhases, HostKeeps
<1>27. ASSUME NEW l \in Launches, HostEdits(l) PROVE RowsInv'
  <2>1. HostMoves(l) /\ row' = row /\ launch'.id = launch.id
    BY <1>27, EditEffect DEF HostEdits, Economy
  <2> QED
    BY <1>27, <2>1, EditEffect, RowsAfterHost DEF HostEdits, Economy, RowsInv, Acting, Alive,
        AlivePhases, HostKeeps
<1>28. ASSUME NEW l \in Launches, RecordStart(l) PROVE RowsInv'
  <2>1. HostMoves(l) /\ row' = row /\ launch'.id = launch.id
    BY <1>28, AskEffect DEF RecordStart, Economy, Requests
  <2> QED
    BY <1>28, <2>1, AskEffect, RowsAfterHost DEF RecordStart, Economy, Requests, RowsInv,
        Acting, Alive, AlivePhases, HostKeeps
<1>29. ASSUME NEW l \in Launches, SendProviderRequest(l) PROVE RowsInv'
  <2>1. /\ HostMoves(l) /\ host'[l].phase = "inflight" /\ host'[l].ask = host[l].ask
        /\ row' = row /\ launch'.id = launch.id /\ host[l].phase = "cleared"
    BY <1>29, SendEffect DEF SendProviderRequest, Economy
  <2>2. host[l].ask = "none"
    BY <2>1 DEF RowsInv
  <2> QED
    BY <2>1, <2>2, RowsAfterHost DEF AlivePhases
<1>30. ASSUME NEW l \in Launches, HostExits(l) PROVE RowsInv'
  <2>1. HostMoves(l) /\ row' = row /\ launch'.id = launch.id
    BY <1>30, DeathEffect DEF HostExits, Economy
  <2> QED
    BY <1>30, <2>1, DeathEffect, RowsAfterHost DEF HostExits, Economy, RowsInv, Acting, Alive,
        AlivePhases, HostKeeps
<1>31. ASSUME NEW l \in Launches, \E terminal \in BOOLEAN : HostFinishes(l, terminal)
      PROVE  RowsInv'
  <2>1. PICK terminal \in BOOLEAN : HostFinishes(l, terminal)
    BY <1>31
  <2>2. HostMoves(l) /\ row' = row /\ launch'.id = launch.id
    BY <2>1, FinishEffect DEF HostFinishes, Economy
  <2> QED
    BY <2>1, <2>2, FinishEffect, RowsAfterHost DEF HostFinishes, Economy, RowsInv, Acting,
        Alive, AlivePhases, HostKeeps
<1>32. ASSUME NEW l \in Launches,
              \E cost \in Costs, stated \in BOOLEAN : ProviderAnswers(l, cost, stated)
       PROVE  RowsInv'
  <2>1. PICK cost \in Costs, stated \in BOOLEAN : ProviderAnswers(l, cost, stated)
    BY <1>32
  <2>2. /\ HostMoves(l) /\ host'[l].phase = "asking"
        /\ row' = row /\ launch'.id = launch.id /\ host[l].phase = "inflight"
    BY <2>1, OutcomeEffect DEF ProviderAnswers, Economy
  <2> QED
    BY <2>2, RowsAfterHost DEF AlivePhases
<1>33. ASSUME NEW l \in Launches, \E cost \in Costs : ProviderChargesDead(l, cost)
      PROVE  RowsInv'
  <2>1. HostMoves(l) /\ row' = row /\ launch'.id = launch.id
    BY <1>33, ChargeEffect DEF ProviderChargesDead, Economy
  <2> QED
    BY <1>33, <2>1, ChargeEffect, RowsAfterHost DEF ProviderChargesDead, Economy, RowsInv,
        Acting, Alive, AlivePhases, HostKeeps
<1>34. ASSUME NEW l \in Launches,
              \E cost \in Costs \cup {Nothing}, stated \in BOOLEAN : ProviderFails(l, cost, stated)
       PROVE  RowsInv'
  <2>1. PICK cost \in Costs \cup {Nothing}, stated \in BOOLEAN : ProviderFails(l, cost, stated)
    BY <1>34
  <2>2. cost \in Amounts
    BY NothingTyped
  <2>3. /\ HostMoves(l) /\ host'[l].phase = "asking"
        /\ row' = row /\ launch'.id = launch.id /\ host[l].phase = "inflight"
    BY <2>1, <2>2, OutcomeEffect DEF ProviderFails, Economy
  <2> QED
    BY <2>3, RowsAfterHost DEF AlivePhases
<1>35. ASSUME NEW l \in Launches, TerminateOwnedProcessGroup(l) PROVE RowsInv'
  <2>1. HostMoves(l) /\ row' = row /\ launch'.id = launch.id
    BY <1>35, DeathEffect DEF TerminateOwnedProcessGroup, Economy
  <2> QED
    BY <1>35, <2>1, DeathEffect, RowsAfterHost DEF TerminateOwnedProcessGroup, Economy, RowsInv,
        Acting, Alive, AlivePhases, HostKeeps
<1>36. ASSUME NEW l \in Launches, CreateEvidence(l) PROVE RowsInv'
  BY <1>36 DEF CreateEvidence, RowsInv, Acting, Alive, Launch
<1>37. ASSUME NEW l \in Launches, WriteEvidence(l) PROVE RowsInv'
  BY <1>37 DEF WriteEvidence, RowsInv, Acting, Alive, Launch
<1>38. ASSUME NEW l \in Launches, EvidenceChanged(l) PROVE RowsInv'
  BY <1>38 DEF EvidenceChanged, Recovering, RowsInv, Acting, Alive, Launch
<1>39. ASSUME NEW l \in Launches, \E transcript \in RecoveredTranscripts : ReconcileOneSession(l, transcript)
      PROVE  RowsInv'
  <2>1. PICK transcript \in RecoveredTranscripts : ReconcileOneSession(l, transcript)
    BY <1>39
  <2> QED
    BY <2>1, RecoveredEffect DEF ReconcileOneSession, Recovering, RowsInv, Acting, Alive, Launch
<1>40. ASSUME NEW l \in Launches, OperatorCancels(l) PROVE RowsInv'
  BY <1>40 DEF OperatorCancels, CancelAndWait, RowsInv, Acting, Alive, Launch
<1>41. CASE BeginShutdown
  BY <1>41 DEF BeginShutdown, CancelAndWait, RowsInv, Acting, Alive, Launch
<1>42. CASE CancelDriver
  BY <1>42 DEF CancelDriver, NoLaunch, NoRpc, RowsInv, Acting, Alive, Launch
<1>43. CASE ReleaseLock
  BY <1>43 DEF ReleaseLock, NoCustody, RowsInv, Acting, Alive, Launch
<1>44. CASE Crash
  BY <1>44 DEF Crash, Return, NoLaunch, NoRpc, NoCustody, RowsInv, Acting, Alive, Launch
<1>45. CASE Restart
  BY <1>45 DEF Restart, Up, RowsInv, Acting, Alive, Launch
<1>46. CASE ServeOperators
  BY <1>46 DEF ServeOperators, RowsInv, Acting, Alive, Launch
<1>47. CASE UNCHANGED vars
  BY <1>47 DEF vars, RowsInv, Acting, Alive, Launch
<1>48. ASSUME NEW l \in Launches, LedgerConflicts(l) PROVE RowsInv'
  BY <1>48 DEF LedgerConflicts, Return, NoLaunch, NoRpc, NoCustody, RowsInv, Acting, Alive, Launch
<1>49. ASSUME NEW l \in Launches, AdmissionAbandoned(l) PROVE RowsInv'
  <2>1. row[l].lifecycle = "running" /\ row' = row /\ launch'.id = launch.id
    BY <1>49 DEF AdmissionAbandoned, Return, NoLaunch, CustodyInv, RowPhases, Launch
  <2>2. host[l].ask # "none" => host[l].phase \in {"asking", "exited"}
    BY DEF RowsInv
  <2>3. CASE host' = host
    BY <2>1, <2>2, <2>3, RowsAfterHost DEF HostMoves, AlivePhases
  <2>4. CASE ReadAdmission(l)
    BY <2>1, <2>2, <2>4, AdmissionEffect, RowsAfterHost DEF Alive, AlivePhases
  <2> QED
    BY <1>49, <2>3, <2>4 DEF AdmissionAbandoned
<1>50. ASSUME NEW l \in Launches,
              \E cost \in Costs \cup {Nothing}, complete \in BOOLEAN : ProviderRetries(l, cost, complete)
       PROVE  RowsInv'
  <2>1. PICK cost \in Costs \cup {Nothing}, complete \in BOOLEAN : ProviderRetries(l, cost, complete)
    BY <1>50
  <2>2. /\ HostMoves(l) /\ host'[l].phase = "inflight" /\ host'[l].ask = host[l].ask
        /\ row' = row /\ launch'.id = launch.id /\ host[l].phase = "inflight"
    BY <2>1, RetryEffect DEF ProviderRetries, Economy
  <2>3. host[l].ask = "none"
    BY <2>2 DEF RowsInv
  <2> QED
    BY <2>2, <2>3, RowsAfterHost DEF AlivePhases
<1> QED
  BY <1>1, <1>2, <1>3, <1>4, <1>5, <1>6, <1>7, <1>8, <1>9, <1>10, <1>11,
     <1>12, <1>13, <1>14, <1>15, <1>16, <1>17, <1>18, <1>19, <1>20, <1>21,
     <1>22, <1>23, <1>24, <1>25, <1>26, <1>27, <1>28, <1>29, <1>30, <1>31,
     <1>32, <1>33, <1>34, <1>35, <1>36, <1>37, <1>38, <1>39, <1>40, <1>41,
     <1>42, <1>43, <1>44, <1>45, <1>46, <1>47, <1>48,
     <1>49, <1>50
  DEF SessionNext, LaunchStep, LaunchFault, CustodyStep, ServerStep, HostStep, ProviderStep,
      RecoveryStep, ShutdownStep

-----------------------------------------------------------------------------
(* The books through one request                                           *)

\* A host that neither buys, settles nor dies leaves the books as they are.
LEMMA BooksQuiet ==
    ASSUME NEW h, NEW next, NEW rows, NEW c, NEW r,
           BooksOf(h, rows, c, r),
           next.outcome = h.outcome, next.cost = h.cost, next.open <=> h.open,
           next.phase = "none" => h.phase = "none",
           next.phase \in {"cleared", "inflight"} => h.phase = next.phase,
           h.open => next.phase = h.phase /\ next.ask = "none",
           next.ask = "settle" => h.ask = "settle",
           next.ask = "submit" => h.ask = "submit" \/ h.phase # "exited",
           h.phase = "exited" => next.phase = "exited"
    PROVE  BooksOf(next, rows, c, r)
BY DEF BooksOf

\* A death leaves the request on the wire, and a request with the provider open.
LEMMA BooksDead ==
    ASSUME NEW h, NEW next, NEW rows, NEW c, NEW r,
           BooksOf(h, rows, c, r),
           next.phase = "exited", next.ask = h.ask, next.open <=> h.open,
           h.ask = "settle" => next.outcome = h.outcome,
           h.ask = "submit" => next.cost = h.cost
    PROVE  BooksOf(next, rows, c, r)
BY DEF BooksOf

\* An intent opens the ledger; nothing is owed for it yet.
LEMMA BooksInserted ==
    ASSUME NEW h, NEW next, NEW rows \in Seq(Effect), NEW more \in Seq(Effect), NEW c, NEW r,
           BooksOf(h, rows, c, r), r.lifecycle = "running",
           Len(more) = Len(rows) + 1,
           \A i \in 1..Len(rows) : more[i] = rows[i],
           more[Len(rows) + 1].state = "started",
           h.ask = "start", h.phase \in {"asking", "exited"},
           next.outcome = h.outcome, next.cost = h.cost, next.open <=> h.open,
           next.ask = "none",
           next.phase = h.phase \/ (next.phase = "cleared" /\ h.phase = "asking")
    PROVE  BooksOf(next, more, c, r)
<1>1. Len(rows) \in Nat /\ DOMAIN rows = 1..Len(rows) /\ DOMAIN more = 1..(Len(rows) + 1)
  OBVIOUS
<1>2. ~Complete(more)
  BY <1>1 DEF Complete
<1>3. LastStarted(more)
  BY <1>1 DEF LastStarted
<1>4. ASSUME PriorComplete(more) PROVE Accounted(more, Len(more) - 1, c)
  <2>1. Complete(rows)
    BY <1>1, <1>4 DEF PriorComplete, Complete
  <2>2. Accounted(rows, Len(rows), c)
    BY <2>1 DEF BooksOf
  <2>3. PICK s \in Nat : CostUpTo(rows, Len(rows), s) /\ InRounding(s, c.stated, Len(rows))
    BY <2>2 DEF Accounted
  <2>4. CostUpTo(more, Len(rows), s)
    BY <1>1, <2>3, CostOfSameRows
  <2>5. Len(more) - 1 = Len(rows)
    BY <1>1
  <2> QED
    BY <2>2, <2>3, <2>4, <2>5 DEF Accounted
<1>5. \A i \in 1..Len(more) : more[i].state = "settled" /\ more[i].cost # Unknown => more[i].cost \in Nat
  <2> SUFFICES ASSUME NEW i \in 1..Len(more), more[i].state = "settled", more[i].cost # Unknown
               PROVE  more[i].cost \in Nat
    OBVIOUS
  <2>1. i \in 1..Len(rows)
    BY <1>1
  <2> QED
    BY <2>1 DEF BooksOf
<1>6. h.open => FALSE
  BY DEF BooksOf
<1> QED
  BY <1>2, <1>3, <1>4, <1>5, <1>6 DEF BooksOf

\* A row that is not the last comes before it.
LEMMA BeforeLast ==
    ASSUME NEW n \in Nat, NEW i \in 1..n, i # n
    PROVE  i \in 1..(n - 1)
OBVIOUS

\* A settlement closes the ledger with the cost that was stated, or for good.
LEMMA BooksSettled ==
    ASSUME NEW h, NEW next, NEW rows \in Seq(Effect), NEW more \in Seq(Effect), NEW c, NEW r,
           BooksOf(h, rows, c, r), r.lifecycle = "running",
           Len(more) = Len(rows),
           \A i \in 1..(Len(rows) - 1) : more[i] = rows[i],
           more[Len(rows)] = h.outcome,
           h.ask = "settle", h.phase \in {"asking", "exited"},
           next.outcome = h.outcome, next.cost = h.cost, next.open <=> h.open,
           next.ask = "none",
           next.phase = h.phase \/ (next.phase = "working" /\ h.phase = "asking")
    PROVE  BooksOf(next, more, c, r)
<1>1. Len(rows) \in Nat /\ Len(rows) > 0 /\ DOMAIN rows = 1..Len(rows) /\ DOMAIN more = 1..Len(rows)
  BY DEF BooksOf, LastStarted
<1>2. ASSUME Complete(more) PROVE Accounted(more, Len(more), c)
  <2>1. h.outcome.state = "settled" /\ h.outcome.cost # Unknown /\ PriorComplete(rows)
    BY <1>1, <1>2 DEF Complete, PriorComplete
  <2>2. h.outcome.cost \in Nat /\ AccountedWith(rows, h.outcome.cost, c)
    BY <2>1 DEF BooksOf
  <2>3. PICK s \in Nat : /\ CostUpTo(rows, Len(rows) - 1, s)
                         /\ InRounding(s + h.outcome.cost, c.stated, Len(rows))
    BY <2>2 DEF AccountedWith
  <2>4. Len(rows) - 1 \in Nat /\ (Len(rows) - 1) + 1 = Len(rows)
    BY <1>1
  <2>5. CostUpTo(more, Len(rows) - 1, s)
    BY <2>3, <2>4, CostOfSameRows
  <2>6. CostUpTo(more, (Len(rows) - 1) + 1, s + more[(Len(rows) - 1) + 1].cost)
    BY <2>2, <2>4, <2>5, CostOfOneMore
  <2>7. CostUpTo(more, Len(more), s + h.outcome.cost) /\ s + h.outcome.cost \in Nat
    BY <2>2, <2>4, <2>6
  <2> QED
    BY <2>2, <2>3, <2>7 DEF Accounted, AccountedWith
<1>3. \A i \in 1..Len(more) : more[i].state = "settled" /\ more[i].cost # Unknown => more[i].cost \in Nat
  <2> SUFFICES ASSUME NEW i \in 1..Len(more), more[i].state = "settled", more[i].cost # Unknown
               PROVE  more[i].cost \in Nat
    OBVIOUS
  <2>1. CASE i = Len(rows)
    BY <2>1 DEF BooksOf
  <2>2. CASE i # Len(rows)
    <3>1. i \in 1..Len(rows)
      OBVIOUS
    <3>2. i \in 1..(Len(rows) - 1)
      BY <1>1, <2>2, <3>1, BeforeLast
    <3> QED
      BY <3>1, <3>2 DEF BooksOf
  <2> QED
    BY <2>1, <2>2
<1>4. ~h.open
  BY DEF BooksOf
<1> QED
  BY <1>2, <1>3, <1>4 DEF BooksOf

\* The request leaves: the provider may charge for it.
LEMMA BooksSent ==
    ASSUME NEW h, NEW next, NEW rows \in Seq(Effect), NEW c, NEW r,
           BooksOf(h, rows, c, r),
           h.phase = "cleared", h.ask = "none", r.lifecycle = "running",
           next.phase = "inflight", next.ask = "none", next.open, next.cost = h.cost
    PROVE  BooksOf(next, rows, c, r)
<1>1. ~Complete(rows)
  BY DEF BooksOf, LastStarted, Complete
<1> QED
  BY <1>1 DEF BooksOf

\* A charge for a repeated attempt stays accounted for.
LEMMA AccountedRetry ==
    ASSUME NEW rows, NEW n, NEW c \in Charge, NEW d \in Charge, NEW cost \in Amounts,
           d.paid = Plus(c.paid, cost), d.stated = c.stated, d.retried = Plus(c.retried, cost),
           Accounted(rows, n, c)
    PROVE  Accounted(rows, n, d)
<1>1. c.stated \in Amounts /\ c.retried \in Amounts
  BY DEF Charge
<1>2. AllStated(d)
  BY <1>1, PlusGroups DEF Accounted, AllStated
<1> QED
  BY <1>2 DEF Accounted

\* A repeated attempt is charged while its request is in flight.
LEMMA BooksRetried ==
    ASSUME NEW h, NEW next, NEW rows \in Seq(Effect), NEW c \in Charge, NEW d \in Charge,
           NEW cost \in Amounts, NEW r,
           BooksOf(h, rows, c, r),
           h.phase = "inflight", h.ask = "none", r.lifecycle = "running",
           next.phase = "inflight", next.ask = "none", next.open <=> h.open, next.cost = h.cost,
           d.paid = Plus(c.paid, cost), d.stated = c.stated, d.retried = Plus(c.retried, cost)
    PROVE  BooksOf(next, rows, d, r)
<1>1. LastStarted(rows) /\ ~Complete(rows)
  BY DEF BooksOf, LastStarted, Complete
<1>2. PriorComplete(rows) => Accounted(rows, Len(rows) - 1, d)
  BY AccountedRetry DEF BooksOf
<1> QED
  BY <1>1, <1>2 DEF BooksOf

\* An answer that states its cost goes to the ledger rounded.
LEMMA AccountedAnswer ==
    ASSUME NEW rows, NEW c \in Charge, NEW d \in Charge, NEW cost \in Amounts,
           Len(rows) \in Nat, Len(rows) > 0,
           d.paid = Plus(c.paid, cost), d.stated = Plus(c.stated, cost), d.retried = c.retried,
           Accounted(rows, Len(rows) - 1, c)
    PROVE  AccountedWith(rows, MicroUsd(cost), d)
<1>1. c.stated \in Amounts /\ c.retried \in Amounts
  BY DEF Charge
<1>2. AllStated(d)
  BY <1>1, PlusSwaps DEF Accounted, AllStated
<1>3. PICK s \in Nat : CostUpTo(rows, Len(rows) - 1, s) /\ InRounding(s, c.stated, Len(rows) - 1)
  BY DEF Accounted
<1>4. Len(rows) - 1 \in Nat /\ (Len(rows) - 1) + 1 = Len(rows)
  OBVIOUS
<1>5. InRounding(s + MicroUsd(cost), d.stated, (Len(rows) - 1) + 1)
  BY <1>1, <1>3, <1>4, RoundingAdds
<1> QED
  BY <1>2, <1>3, <1>4, <1>5 DEF AccountedWith

\* The provider answers or fails: what it states is known to the host and on its way.
LEMMA BooksAnswered ==
    ASSUME NEW h, NEW next, NEW rows \in Seq(Effect), NEW c \in Charge, NEW d \in Charge,
           NEW cost \in Amounts, NEW stated \in BOOLEAN, NEW r,
           BooksOf(h, rows, c, r),
           h.phase = "inflight", r.lifecycle = "running",
           next.phase = "asking", next.ask = "settle", ~next.open,
           next.outcome.state \in {"settled", "failed"},
           next.outcome.cost = IF stated THEN MicroUsd(cost) ELSE Unknown,
           next.cost = IF stated THEN Plus(h.cost, cost) ELSE h.cost,
           d.paid = Plus(c.paid, cost), d.retried = c.retried,
           d.stated = IF stated THEN Plus(c.stated, cost) ELSE c.stated
    PROVE  BooksOf(next, rows, d, r)
<1>1. LastStarted(rows) /\ ~Complete(rows)
  BY DEF BooksOf, LastStarted, Complete
<1>2. PriorComplete(rows) => Accounted(rows, Len(rows) - 1, c)
  BY DEF BooksOf
<1>3. next.cost = d.stated
  BY DEF BooksOf
<1>4. ASSUME next.outcome.cost # Unknown
      PROVE  /\ next.outcome.cost \in Nat
             /\ PriorComplete(rows) => AccountedWith(rows, next.outcome.cost, d)
  <2>1. stated /\ next.outcome.cost = MicroUsd(cost) /\ d.stated = Plus(c.stated, cost)
    BY <1>4
  <2>2. Len(rows) \in Nat /\ Len(rows) > 0
    BY <1>1 DEF LastStarted
  <2>3. PriorComplete(rows) => AccountedWith(rows, MicroUsd(cost), d)
    BY <1>2, <2>1, <2>2, AccountedAnswer
  <2> QED
    BY <2>1, <2>3, MicroUsdTyped
<1> QED
  BY <1>1, <1>3, <1>4 DEF BooksOf

\* A late charge falls on a session whose ledger is not complete.
LEMMA BooksCharged ==
    ASSUME NEW h, NEW next, NEW rows, NEW c, NEW d, NEW r,
           BooksOf(h, rows, c, r),
           h.phase = "exited", h.open,
           next.phase = h.phase, next.ask = h.ask, ~next.open, d.stated = c.stated
    PROVE  BooksOf(next, rows, d, r)
BY DEF BooksOf

-----------------------------------------------------------------------------
(* Every step keeps the books                                              *)

\* A step touches the books of one session.
LEMMA BooksOfOne ==
    ASSUME NEW l \in Launches, \A k \in Launches : Books(k),
           \A k \in Launches : k # l =>
             /\ host'[k] = host[k] /\ ledger'[k] = ledger[k]
             /\ charged'[k] = charged[k] /\ row'[k] = row[k],
           BooksOf(host'[l], ledger'[l], charged'[l], row'[l])
    PROVE  \A k \in Launches : Books(k)'
BY DEF Books

\* A step that only moves the host.
LEMMA BooksOfHost ==
    ASSUME NEW l \in Launches, \A k \in Launches : Books(k), HostMoves(l),
           ledger' = ledger, charged' = charged, row' = row,
           BooksOf(host'[l], ledger[l], charged[l], row[l])
    PROVE  \A k \in Launches : Books(k)'
BY BooksOfOne DEF HostMoves

\* What the books, the types and the rows say of a host.
LEMMA HostFacts ==
    ASSUME SessionInv, NEW l \in Launches
    PROVE  /\ \A k \in Launches : Books(k)
           /\ BooksOf(host[l], ledger[l], charged[l], row[l])
           /\ host \in [Launches -> Host] /\ ledger \in [Launches -> Seq(Effect)]
           /\ charged \in [Launches -> Charge]
           /\ host[l].ask # "none" => host[l].phase \in {"asking", "exited"}
           /\ host[l].open => host[l].phase \in {"inflight", "exited"} /\ host[l].ask = "none"
           /\ host[l].phase \in AlivePhases \ {"booting"} => row[l].lifecycle = "running"
BY DEF SessionInv, SessionTypeOK, RowsInv, MoneyInv, Books, BooksOf, Host, Acting, Alive

\* An answer that touches no ledger.
LEMMA BooksAfterAnswer ==
    ASSUME SessionInv, NEW l \in Launches, NEW phase \in {"working", "asking"},
           NEW next \in {"none", "summary", "submit"}, Answer(l, phase, next),
           host[l].ask # "none", ledger' = ledger, charged' = charged, row' = row
    PROVE  \A k \in Launches : Books(k)'
<1>1. /\ HostMoves(l) /\ HostKeeps(l)
      /\ host'[l].phase = IF Alive(l) THEN phase ELSE host[l].phase
      /\ host'[l].ask = IF Alive(l) THEN next ELSE "none"
  BY HostFacts, AnswerEffect DEF AlivePhases, Requests
<1>2. host[l].phase \in {"asking", "exited"} /\ ~host[l].open
  BY HostFacts
<1>3. BooksOf(host'[l], ledger[l], charged[l], row[l])
  <2>1. CASE host[l].phase = "asking"
    BY <1>1, <1>2, <2>1, HostFacts, BooksQuiet DEF HostKeeps, Alive, AlivePhases
  <2>2. CASE host[l].phase = "exited"
    BY <1>1, <1>2, <2>2, HostFacts, BooksQuiet DEF HostKeeps, Alive, AlivePhases
  <2> QED
    BY <1>2, <2>1, <2>2
<1> QED
  BY <1>1, <1>3, HostFacts, BooksOfHost

\* A host that works sends a request other than a settlement.
LEMMA BooksAfterAsk ==
    ASSUME SessionInv, NEW l \in Launches, host[l].phase = "working",
           HostMoves(l), HostKeeps(l), host'[l].phase = "asking",
           host'[l].ask \in {"read", "start", "transcript"},
           ledger' = ledger, charged' = charged, row' = row
    PROVE  \A k \in Launches : Books(k)'
<1>1. ~host[l].open
  BY HostFacts
<1>2. BooksOf(host'[l], ledger[l], charged[l], row[l])
  BY <1>1, HostFacts, BooksQuiet DEF HostKeeps
<1> QED
  BY <1>2, HostFacts, BooksOfHost

\* A host reads its admission.
LEMMA BooksAfterAdmission ==
    ASSUME SessionInv, NEW l \in Launches, ReadAdmission(l),
           host[l].phase \in {"booting", "exited"},
           ledger' = ledger, charged' = charged, row' = row
    PROVE  \A k \in Launches : Books(k)'
<1>1. /\ HostMoves(l) /\ HostKeeps(l)
      /\ host'[l].phase = IF Alive(l) THEN "asking" ELSE host[l].phase
      /\ host'[l].ask = IF Alive(l) THEN "verify" ELSE host[l].ask
  BY HostFacts, AdmissionEffect
<1>2. CASE host[l].phase = "booting"
  <2>1. ~host[l].open
    BY <1>2, HostFacts
  <2>2. BooksOf(host'[l], ledger[l], charged[l], row[l])
    BY <1>1, <1>2, <2>1, HostFacts, BooksQuiet DEF HostKeeps, Alive, AlivePhases
  <2> QED
    BY <1>1, <2>2, HostFacts, BooksOfHost
<1>3. CASE host[l].phase = "exited"
  <2>1. BooksOf(host'[l], ledger[l], charged[l], row[l])
    BY <1>1, <1>3, HostFacts, BooksQuiet DEF HostKeeps, Alive, AlivePhases
  <2> QED
    BY <1>1, <2>1, HostFacts, BooksOfHost
<1> QED
  BY <1>2, <1>3

\* A host dies.
LEMMA BooksAfterDeath ==
    ASSUME SessionInv, NEW l \in Launches, host' = [host EXCEPT ![l] = Dead(@)],
           ledger' = ledger, charged' = charged, row' = row
    PROVE  \A k \in Launches : Books(k)'
<1>1. BooksOf(host'[l], ledger[l], charged[l], row[l])
  BY HostFacts, DeathEffect, BooksDead
<1>2. HostMoves(l)
  BY HostFacts, DeathEffect
<1> QED
  BY <1>1, <1>2, HostFacts, BooksOfHost

\* The intent of a request is committed.
LEMMA BooksAfterInsert ==
    ASSUME SessionInv, NEW l \in Launches, InsertStarted(l), host[l].ask = "start",
           HostMoves(l), HostKeeps(l), host'[l].ask = "none",
           host'[l].phase = host[l].phase
             \/ (host'[l].phase = "cleared" /\ host[l].phase = "asking"),
           charged' = charged, row' = row
    PROVE  \A k \in Launches : Books(k)'
<1>1. /\ LedgerMoves(l) /\ Len(ledger'[l]) = Len(ledger[l]) + 1
      /\ \A i \in 1..Len(ledger[l]) : ledger'[l][i] = ledger[l][i]
      /\ ledger'[l][Len(ledger[l]) + 1].state = "started"
  BY HostFacts, InsertEffect
<1>2. ledger[l] \in Seq(Effect) /\ ledger'[l] \in Seq(Effect)
  BY <1>1, HostFacts DEF LedgerMoves
<1>3. host[l].phase \in {"asking", "exited"} /\ row[l].lifecycle = "running"
  BY HostFacts DEF InsertStarted, ProviderEffectSessionMatches
<1>4. BooksOf(host'[l], ledger'[l], charged[l], row[l])
  BY <1>1, <1>2, <1>3, HostFacts, BooksInserted DEF HostKeeps
<1> QED
  BY <1>1, <1>4, HostFacts, BooksOfOne DEF HostMoves, LedgerMoves

\* The outcome of a request is committed.
LEMMA BooksAfterSettle ==
    ASSUME SessionInv, NEW l \in Launches, UpdateSettled(l), host[l].ask = "settle",
           HostMoves(l), HostKeeps(l), host'[l].ask = "none",
           host'[l].phase = host[l].phase
             \/ (host'[l].phase = "working" /\ host[l].phase = "asking"),
           charged' = charged, row' = row
    PROVE  \A k \in Launches : Books(k)'
<1>1. LastStarted(ledger[l]) /\ host[l].outcome.state \in {"settled", "failed"}
  BY SettleReady DEF SessionInv
<1>2. /\ LedgerMoves(l) /\ Len(ledger'[l]) = Len(ledger[l])
      /\ \A i \in 1..(Len(ledger[l]) - 1) : ledger'[l][i] = ledger[l][i]
      /\ ledger'[l][Len(ledger[l])] = host[l].outcome
  BY <1>1, HostFacts, SettleEffect
<1>3. ledger[l] \in Seq(Effect) /\ ledger'[l] \in Seq(Effect)
  BY <1>2, HostFacts DEF LedgerMoves
<1>4. host[l].phase \in {"asking", "exited"} /\ row[l].lifecycle = "running"
  BY HostFacts DEF UpdateSettled, ProviderEffectSessionMatches
<1>5. BooksOf(host'[l], ledger'[l], charged[l], row[l])
  BY <1>2, <1>3, <1>4, HostFacts, BooksSettled DEF HostKeeps
<1> QED
  BY <1>2, <1>5, HostFacts, BooksOfOne DEF HostMoves, LedgerMoves

\* Every step keeps the books of every session.
LEMMA BooksKept ==
    ASSUME SessionInv, [SessionNext]_vars
    PROVE  \A k \in Launches : Books(k)'
<1>1. ASSUME NEW l \in Launches, Spawn(l)
      PROVE  \A k \in Launches : Books(k)'
  <2>1. host[l].phase = "none" /\ row' = row /\ ledger' = ledger /\ charged' = charged
    BY <1>1 DEF Spawn, SessionInv, SessionTypeOK, Launch, Launches, RowsInv
  <2>2. HostMoves(l) /\ HostKeeps(l) /\ host'[l].phase = "booting" /\ host'[l].ask = host[l].ask
    BY <1>1, HostFacts, SpawnEffect DEF Spawn
  <2>3. ~host[l].open /\ host[l].ask = "none"
    BY <2>1, HostFacts
  <2>4. BooksOf(host'[l], ledger[l], charged[l], row[l])
    BY <2>1, <2>2, <2>3, HostFacts, BooksQuiet DEF HostKeeps
  <2> QED
    BY <2>1, <2>2, <2>4, HostFacts, BooksOfHost
<1>2. ASSUME NEW l \in Launches, StartSession(l)
      PROVE  \A k \in Launches : Books(k)'
  <2>1. row'[l].lifecycle = "running" /\ \A k \in Launches : k # l => row'[k] = row[k]
    BY <1>2, StartedRow DEF StartSession, SessionInv, SessionTypeOK
  <2>2. BooksOf(host[l], ledger[l], charged[l], row'[l])
    BY <2>1, HostFacts DEF BooksOf
  <2> QED
    BY <1>2, <2>1, <2>2, HostFacts, BooksOfOne DEF StartSession
<1>3. ASSUME NEW l \in Launches, Register(l)
      PROVE  \A k \in Launches : Books(k)'
  BY <1>3 DEF Register, SessionInv, MoneyInv, Books
<1>4. ASSUME NEW l \in Launches, Admit(l)
      PROVE  \A k \in Launches : Books(k)'
  <2>1. host[l].phase \in {"booting", "exited"} /\ row' = row /\ ledger' = ledger /\
      charged' = charged
    BY <1>4 DEF Admit, SessionInv, CustodyInv, EarlyPhases
  <2> QED
    BY <1>4, <2>1, BooksAfterAdmission DEF Admit
<1>5. ASSUME NEW l \in Launches, AbortReturns(l)
      PROVE  \A k \in Launches : Books(k)'
  BY <1>5 DEF AbortReturns, Return, SessionInv, MoneyInv, Books
<1>6. ASSUME NEW l \in Launches, ProcessStops(l)
      PROVE  \A k \in Launches : Books(k)'
  BY <1>6 DEF ProcessStops, SessionInv, MoneyInv, Books
<1>7. ASSUME NEW l \in Launches, TransportStops(l)
      PROVE  \A k \in Launches : Books(k)'
  BY <1>7 DEF TransportStops, SessionInv, MoneyInv, Books
<1>8. ASSUME NEW l \in Launches, ChildWaited(l)
      PROVE  \A k \in Launches : Books(k)'
  BY <1>8 DEF ChildWaited, SessionInv, MoneyInv, Books
<1>9. ASSUME NEW l \in Launches, SealEvidence(l)
      PROVE  \A k \in Launches : Books(k)'
  BY <1>9 DEF SealEvidence, SessionInv, MoneyInv, Books
<1>10. ASSUME NEW l \in Launches, TerminalSession(l)
      PROVE  \A k \in Launches : Books(k)'
  <2>1. /\ row'[l].cost = launch.usage
        /\ \A k \in Launches : k # l => row'[k] = row[k]
    BY <1>10, TerminalEffect DEF SessionInv
  <2>2. launch.usage # Unknown =>
          Covered(launch.usage, charged[l], Len(ledger[l])) /\ ~host[l].open
    BY <1>10 DEF TerminalSession, SessionInv, MoneyInv, ReportInv
  <2>3. BooksOf(host[l], ledger[l], charged[l], row'[l])
    BY <2>1, <2>2, HostFacts DEF BooksOf
  <2> QED
    BY <1>10, <2>1, <2>3, HostFacts, BooksOfOne DEF TerminalSession
<1>11. ASSUME NEW l \in Launches, StartRefused(l)
      PROVE  \A k \in Launches : Books(k)'
  BY <1>11 DEF StartRefused, Abort, SessionInv, MoneyInv, Books
<1>12. ASSUME NEW l \in Launches, AdmissionFails(l)
      PROVE  \A k \in Launches : Books(k)'
  BY <1>12 DEF AdmissionFails, Abort, SessionInv, MoneyInv, Books
<1>13. ASSUME NEW l \in Launches, ReconcileFails(l)
      PROVE  \A k \in Launches : Books(k)'
  BY <1>13 DEF ReconcileFails, Return, SessionInv, MoneyInv, Books
<1>14. ASSUME NEW l \in Launches, TransportFails(l)
      PROVE  \A k \in Launches : Books(k)'
  BY <1>14 DEF TransportFails, SessionInv, MoneyInv, Books
<1>15. ASSUME NEW l \in Launches, LateCommit(l)
      PROVE  \A k \in Launches : Books(k)'
  <2>1. /\ HostMoves(l) /\ HostKeeps(l) /\ host'[l].phase = host[l].phase
        /\ host'[l].ask = "none" /\ row' = row /\ charged' = charged
    BY <1>15, HostFacts, UnansweredEffect DEF LateCommit
  <2> QED
    BY <1>15, <2>1, BooksAfterInsert, BooksAfterSettle DEF LateCommit
<1>16. ASSUME NEW l \in Launches, ReapChild(l)
      PROVE  \A k \in Launches : Books(k)'
  BY <1>16 DEF ReapChild, SessionInv, MoneyInv, Books
<1>17. ASSUME NEW l \in Launches, \E reason \in {"cancelled"} \cup LimitReasons : TermGroup(l, reason)
      PROVE  \A k \in Launches : Books(k)'
  BY <1>17 DEF TermGroup, Reasons, SessionInv, MoneyInv, Books
<1>18. ASSUME NEW l \in Launches, KillGroup(l)
      PROVE  \A k \in Launches : Books(k)'
  BY <1>18, BooksAfterDeath DEF KillGroup
<1>19. ASSUME NEW l \in Launches, VerifyPacket(l)
      PROVE  \A k \in Launches : Books(k)'
  BY <1>19, BooksAfterAnswer DEF VerifyPacket, Dispatch
<1>20. ASSUME NEW l \in Launches, WorkspaceRead(l)
      PROVE  \A k \in Launches : Books(k)'
  BY <1>20, BooksAfterAnswer DEF WorkspaceRead, Dispatch
<1>21. ASSUME NEW l \in Launches, ProviderEffectStart(l)
      PROVE  \A k \in Launches : Books(k)'
  <2>1. /\ host[l].ask = "start" /\ row' = row /\ charged' = charged
        /\ InsertStarted(l) /\ Answer(l, "cleared", "none")
    BY <1>21 DEF ProviderEffectStart, Dispatch
  <2>2. /\ HostMoves(l) /\ HostKeeps(l) /\ host'[l].ask = "none"
        /\ host'[l].phase = IF Alive(l) THEN "cleared" ELSE host[l].phase
    BY <2>1, HostFacts, AnswerEffect DEF AlivePhases, Requests
  <2>3. host[l].phase \in {"asking", "exited"}
    BY <2>1, HostFacts
  <2> QED
    BY <2>1, <2>2, <2>3, BooksAfterInsert DEF Alive, AlivePhases
<1>22. ASSUME NEW l \in Launches, ProviderEffectSettle(l)
      PROVE  \A k \in Launches : Books(k)'
  <2>1. /\ host[l].ask = "settle" /\ row' = row /\ charged' = charged
        /\ UpdateSettled(l) /\ Answer(l, "working", "none")
    BY <1>22 DEF ProviderEffectSettle, Dispatch
  <2>2. /\ HostMoves(l) /\ HostKeeps(l) /\ host'[l].ask = "none"
        /\ host'[l].phase = IF Alive(l) THEN "working" ELSE host[l].phase
    BY <2>1, HostFacts, AnswerEffect DEF AlivePhases, Requests
  <2>3. host[l].phase \in {"asking", "exited"}
    BY <2>1, HostFacts
  <2> QED
    BY <2>1, <2>2, <2>3, BooksAfterSettle DEF Alive, AlivePhases
<1>23. ASSUME NEW l \in Launches, \E request \in {"transcript", "summary"} : SealArtifact(l, request)
      PROVE  \A k \in Launches : Books(k)'
  BY <1>23, BooksAfterAnswer DEF SealArtifact, Dispatch
<1>24. ASSUME NEW l \in Launches, SubmitTerminal(l)
      PROVE  \A k \in Launches : Books(k)'
  BY <1>24 DEF SubmitTerminal, SessionInv, MoneyInv, Books
<1>25. ASSUME NEW l \in Launches, PeerClosed(l)
      PROVE  \A k \in Launches : Books(k)'
  BY <1>25 DEF PeerClosed, SessionInv, MoneyInv, Books
<1>26. ASSUME NEW l \in Launches, HostReads(l)
      PROVE  \A k \in Launches : Books(k)'
  BY <1>26, HostFacts, AskEffect, BooksAfterAsk DEF HostReads, Economy, Requests
<1>27. ASSUME NEW l \in Launches, HostEdits(l)
      PROVE  \A k \in Launches : Books(k)'
  <2>1. /\ HostMoves(l) /\ HostKeeps(l)
        /\ host'[l].phase = host[l].phase /\ host'[l].ask = host[l].ask
    BY <1>27, HostFacts, EditEffect DEF HostEdits
  <2>2. BooksOf(host'[l], ledger[l], charged[l], row[l])
    BY <2>1, HostFacts, BooksQuiet DEF HostKeeps
  <2> QED
    BY <1>27, <2>1, <2>2, HostFacts, BooksOfHost DEF HostEdits, Economy
<1>28. ASSUME NEW l \in Launches, RecordStart(l)
      PROVE  \A k \in Launches : Books(k)'
  BY <1>28, HostFacts, AskEffect, BooksAfterAsk DEF RecordStart, Economy, Requests
<1>29. ASSUME NEW l \in Launches, SendProviderRequest(l)
      PROVE  \A k \in Launches : Books(k)'
  <2>1. /\ HostMoves(l) /\ host'[l].phase = "inflight" /\ host'[l].open
        /\ host'[l].ask = host[l].ask /\ host'[l].cost = host[l].cost
    BY <1>29, HostFacts, SendEffect DEF SendProviderRequest
  <2>2. host[l].phase = "cleared" /\ host[l].ask = "none" /\ row[l].lifecycle = "running"
    BY <1>29, HostFacts DEF SendProviderRequest, AlivePhases
  <2>3. BooksOf(host'[l], ledger[l], charged[l], row[l])
    BY <2>1, <2>2, HostFacts, BooksSent
  <2> QED
    BY <1>29, <2>1, <2>3, HostFacts, BooksOfHost DEF SendProviderRequest, Economy
<1>30. ASSUME NEW l \in Launches, HostExits(l)
      PROVE  \A k \in Launches : Books(k)'
  BY <1>30, BooksAfterDeath DEF HostExits, Economy
<1>31. ASSUME NEW l \in Launches, \E terminal \in BOOLEAN : HostFinishes(l, terminal)
      PROVE  \A k \in Launches : Books(k)'
  <2>1. PICK terminal \in BOOLEAN : HostFinishes(l, terminal)
    BY <1>31
  <2> QED
    BY <2>1, HostFacts, FinishEffect, BooksAfterAsk DEF HostFinishes, Economy
<1>32. ASSUME NEW l \in Launches,
              \E cost \in Costs, stated \in BOOLEAN : ProviderAnswers(l, cost, stated)
       PROVE  \A k \in Launches : Books(k)'
  <2>1. PICK cost \in Costs, stated \in BOOLEAN : ProviderAnswers(l, cost, stated)
    BY <1>32
  <2>2. cost \in Amounts
    BY SessionAssumption
  <2>3. HostMoves(l) /\ UNCHANGED <<row, ledger>>
    BY <2>1, <2>2, HostFacts, OutcomeEffect DEF ProviderAnswers, Economy
  <2>4. host[l].phase = "inflight" /\ row[l].lifecycle = "running"
    BY <2>1, HostFacts DEF ProviderAnswers, AlivePhases
  <2>5. Bill(l, cost, IF stated THEN "stated" ELSE "lost")
    BY <2>1 DEF ProviderAnswers, Settle
  <2>6. /\ charged' \in [Launches -> Charge]
        /\ \A k \in Launches : k # l => charged'[k] = charged[k]
        /\ charged'[l].paid = Plus(charged[l].paid, cost)
        /\ charged'[l].retried = charged[l].retried
        /\ charged'[l].stated = IF stated THEN Plus(charged[l].stated, cost) ELSE charged[l].stated
    BY <2>2, <2>5, HostFacts, BillEffect
  <2>7. /\ host'[l].phase = "asking" /\ host'[l].ask = "settle" /\ ~host'[l].open
        /\ host'[l].outcome.state \in {"settled", "failed"}
        /\ host'[l].outcome.cost = IF stated THEN MicroUsd(cost) ELSE Unknown
        /\ host'[l].cost = IF stated THEN Plus(host[l].cost, cost) ELSE host[l].cost
    BY <2>1, <2>2, HostFacts, OutcomeEffect DEF ProviderAnswers
  <2>8. BooksOf(host'[l], ledger[l], charged'[l], row[l])
    BY <2>2, <2>4, <2>6, <2>7, HostFacts, BooksAnswered
  <2> QED
    BY <2>3, <2>6, <2>8, HostFacts, BooksOfOne DEF HostMoves
<1>33. ASSUME NEW l \in Launches, \E cost \in Costs : ProviderChargesDead(l, cost)
       PROVE  \A k \in Launches : Books(k)'
  <2>1. PICK cost \in Costs : ProviderChargesDead(l, cost)
    BY <1>33
  <2>2. cost \in Amounts
    BY SessionAssumption
  <2>3. /\ charged'[l].stated = charged[l].stated
        /\ \A k \in Launches : k # l => charged'[k] = charged[k]
    BY <2>1, <2>2, HostFacts, BillEffect DEF ProviderChargesDead
  <2>4. /\ host[l].phase = "exited" /\ host[l].open
        /\ HostMoves(l) /\ host'[l].phase = host[l].phase /\ host'[l].ask = host[l].ask
        /\ ~host'[l].open
    BY <2>1, HostFacts, ChargeEffect DEF ProviderChargesDead
  <2>5. BooksOf(host'[l], ledger[l], charged'[l], row[l])
    BY <2>3, <2>4, HostFacts, BooksCharged
  <2> QED
    BY <2>1, <2>3, <2>4, <2>5, HostFacts, BooksOfOne DEF ProviderChargesDead, Economy, HostMoves
<1>34. ASSUME NEW l \in Launches,
              \E cost \in Costs \cup {Nothing}, stated \in BOOLEAN : ProviderFails(l, cost, stated)
       PROVE  \A k \in Launches : Books(k)'
  <2>1. PICK cost \in Costs \cup {Nothing}, stated \in BOOLEAN : ProviderFails(l, cost, stated)
    BY <1>34
  <2>2. cost \in Amounts
    BY SessionAssumption, NothingTyped
  <2>3. HostMoves(l) /\ UNCHANGED <<row, ledger>>
    BY <2>1, <2>2, HostFacts, OutcomeEffect DEF ProviderFails, Economy
  <2>4. host[l].phase = "inflight" /\ row[l].lifecycle = "running"
    BY <2>1, HostFacts DEF ProviderFails, AlivePhases
  <2>5. Bill(l, cost, IF stated THEN "stated" ELSE "lost")
    BY <2>1 DEF ProviderFails, Settle
  <2>6. /\ charged' \in [Launches -> Charge]
        /\ \A k \in Launches : k # l => charged'[k] = charged[k]
        /\ charged'[l].paid = Plus(charged[l].paid, cost)
        /\ charged'[l].retried = charged[l].retried
        /\ charged'[l].stated = IF stated THEN Plus(charged[l].stated, cost) ELSE charged[l].stated
    BY <2>2, <2>5, HostFacts, BillEffect
  <2>7. /\ host'[l].phase = "asking" /\ host'[l].ask = "settle" /\ ~host'[l].open
        /\ host'[l].outcome.state \in {"settled", "failed"}
        /\ host'[l].outcome.cost = IF stated THEN MicroUsd(cost) ELSE Unknown
        /\ host'[l].cost = IF stated THEN Plus(host[l].cost, cost) ELSE host[l].cost
    BY <2>1, <2>2, HostFacts, OutcomeEffect DEF ProviderFails
  <2>8. BooksOf(host'[l], ledger[l], charged'[l], row[l])
    BY <2>2, <2>4, <2>6, <2>7, HostFacts, BooksAnswered
  <2> QED
    BY <2>3, <2>6, <2>8, HostFacts, BooksOfOne DEF HostMoves
<1>35. ASSUME NEW l \in Launches, TerminateOwnedProcessGroup(l)
      PROVE  \A k \in Launches : Books(k)'
  BY <1>35, BooksAfterDeath DEF TerminateOwnedProcessGroup, Economy
<1>36. ASSUME NEW l \in Launches, CreateEvidence(l)
      PROVE  \A k \in Launches : Books(k)'
  BY <1>36 DEF CreateEvidence, SessionInv, MoneyInv, Books
<1>37. ASSUME NEW l \in Launches, WriteEvidence(l)
      PROVE  \A k \in Launches : Books(k)'
  BY <1>37 DEF WriteEvidence, SessionInv, MoneyInv, Books
<1>38. ASSUME NEW l \in Launches, EvidenceChanged(l)
      PROVE  \A k \in Launches : Books(k)'
  BY <1>38 DEF EvidenceChanged, SessionInv, MoneyInv, Books
<1>39. ASSUME NEW l \in Launches, \E transcript \in RecoveredTranscripts : ReconcileOneSession(l, transcript)
      PROVE  \A k \in Launches : Books(k)'
  <2>1. PICK transcript \in RecoveredTranscripts : ReconcileOneSession(l, transcript)
    BY <1>39
  <2>2. row'[l].cost = Unknown /\ \A k \in Launches : k # l => row'[k] = row[k]
    BY <2>1, RecoveredEffect DEF SessionInv
  <2>3. BooksOf(host[l], ledger[l], charged[l], row'[l])
    BY <2>2, HostFacts DEF BooksOf
  <2> QED
    BY <2>1, <2>2, <2>3, HostFacts, BooksOfOne DEF ReconcileOneSession
<1>40. ASSUME NEW l \in Launches, OperatorCancels(l)
      PROVE  \A k \in Launches : Books(k)'
  BY <1>40 DEF OperatorCancels, CancelAndWait, SessionInv, MoneyInv, Books
<1>41. CASE BeginShutdown
  BY <1>41 DEF BeginShutdown, CancelAndWait, SessionInv, MoneyInv, Books
<1>42. CASE CancelDriver
  BY <1>42 DEF CancelDriver, SessionInv, MoneyInv, Books
<1>43. CASE ReleaseLock
  BY <1>43 DEF ReleaseLock, SessionInv, MoneyInv, Books
<1>44. CASE Crash
  BY <1>44 DEF Crash, Return, SessionInv, MoneyInv, Books
<1>45. CASE Restart
  BY <1>45 DEF Restart, SessionInv, MoneyInv, Books
<1>46. CASE ServeOperators
  BY <1>46 DEF ServeOperators, SessionInv, MoneyInv, Books
<1>47. CASE UNCHANGED vars
  BY <1>47 DEF vars, SessionInv, MoneyInv, Books
<1>48. ASSUME NEW l \in Launches, LedgerConflicts(l)
       PROVE  \A k \in Launches : Books(k)'
  BY <1>48 DEF LedgerConflicts, Return, SessionInv, MoneyInv, Books
<1>49. ASSUME NEW l \in Launches, AdmissionAbandoned(l)
       PROVE  \A k \in Launches : Books(k)'
  <2>1. /\ host[l].phase \in {"booting", "exited"}
        /\ row' = row /\ ledger' = ledger /\ charged' = charged
    BY <1>49 DEF AdmissionAbandoned, SessionInv, CustodyInv, EarlyPhases
  <2>2. CASE host' = host
    BY <2>1, <2>2 DEF SessionInv, MoneyInv, Books
  <2>3. CASE ReadAdmission(l)
    BY <2>1, <2>3, BooksAfterAdmission
  <2> QED
    BY <1>49, <2>2, <2>3 DEF AdmissionAbandoned
<1>50. ASSUME NEW l \in Launches,
              \E cost \in Costs \cup {Nothing}, complete \in BOOLEAN : ProviderRetries(l, cost, complete)
       PROVE  \A k \in Launches : Books(k)'
  <2>1. PICK cost \in Costs \cup {Nothing}, complete \in BOOLEAN : ProviderRetries(l, cost, complete)
    BY <1>50
  <2>2. cost \in Amounts
    BY SessionAssumption, NothingTyped
  <2>3. /\ HostMoves(l) /\ HostKeeps(l) /\ host'[l].phase = "inflight"
        /\ host'[l].ask = host[l].ask /\ UNCHANGED <<row, ledger>>
    BY <2>1, HostFacts, RetryEffect DEF ProviderRetries, Economy
  <2>4. host[l].phase = "inflight" /\ host[l].ask = "none" /\ row[l].lifecycle = "running"
    BY <2>1, HostFacts DEF ProviderRetries, AlivePhases
  <2>5. Bill(l, cost, "retried")
    BY <2>1 DEF ProviderRetries
  <2>6. /\ charged' \in [Launches -> Charge]
        /\ \A k \in Launches : k # l => charged'[k] = charged[k]
        /\ charged'[l].paid = Plus(charged[l].paid, cost)
        /\ charged'[l].stated = charged[l].stated
        /\ charged'[l].retried = Plus(charged[l].retried, cost)
    BY <2>2, <2>5, HostFacts, BillEffect
  <2>7. BooksOf(host'[l], ledger[l], charged'[l], row[l])
    BY <2>2, <2>3, <2>4, <2>6, HostFacts, BooksRetried DEF HostKeeps
  <2> QED
    BY <2>3, <2>6, <2>7, HostFacts, BooksOfOne DEF HostMoves
<1> QED
  BY <1>1, <1>2, <1>3, <1>4, <1>5, <1>6, <1>7, <1>8, <1>9, <1>10, <1>11,
     <1>12, <1>13, <1>14, <1>15, <1>16, <1>17, <1>18, <1>19, <1>20, <1>21,
     <1>22, <1>23, <1>24, <1>25, <1>26, <1>27, <1>28, <1>29, <1>30, <1>31,
     <1>32, <1>33, <1>34, <1>35, <1>36, <1>37, <1>38, <1>39, <1>40, <1>41,
     <1>42, <1>43, <1>44, <1>45, <1>46, <1>47, <1>48,
     <1>49, <1>50
  DEF SessionNext, LaunchStep, LaunchFault, CustodyStep, ServerStep, HostStep, ProviderStep,
      RecoveryStep, ShutdownStep

-----------------------------------------------------------------------------
(* Every step keeps the report                                             *)

\* No request is taken out of a ledger.
LedgersGrow == \A k \in Launches : Len(ledger[k]) <= Len(ledger'[k]) /\ Len(ledger'[k]) \in Nat

\* A step that leaves the ledgers alone, or appends to one.
LEMMA Growing ==
    ASSUME SessionInv, NEW l \in Launches,
           \/ ledger' = ledger
           \/ InsertStarted(l)
           \/ host[l].ask = "settle" /\ UpdateSettled(l)
    PROVE  LedgersGrow
<1>1. ledger \in [Launches -> Seq(Effect)] /\ host \in [Launches -> Host]
  BY HostFacts
<1>2. CASE ledger' = ledger
  BY <1>1, <1>2 DEF LedgersGrow
<1>3. CASE InsertStarted(l)
  <2>1. LedgerMoves(l) /\ Len(ledger'[l]) = Len(ledger[l]) + 1
    BY <1>1, <1>3, InsertEffect
  <2>2. ASSUME NEW k \in Launches PROVE Len(ledger[k]) \in Nat /\ Len(ledger'[k]) \in Nat
    BY <1>1, <2>1 DEF LedgerMoves
  <2>3. \A k \in Launches : k # l => ledger'[k] = ledger[k]
    BY <2>1 DEF LedgerMoves
  <2> QED
    BY <2>1, <2>2, <2>3 DEF LedgersGrow
<1>4. CASE host[l].ask = "settle" /\ UpdateSettled(l)
  <2>1. LastStarted(ledger[l]) /\ host[l].outcome.state \in {"settled", "failed"}
    BY <1>4, SettleReady DEF SessionInv
  <2>2. LedgerMoves(l) /\ Len(ledger'[l]) = Len(ledger[l])
    BY <1>1, <1>4, <2>1, SettleEffect
  <2>3. ASSUME NEW k \in Launches PROVE Len(ledger[k]) \in Nat /\ Len(ledger'[k]) \in Nat
    BY <1>1, <2>2 DEF LedgerMoves
  <2>4. \A k \in Launches : k # l => ledger'[k] = ledger[k]
    BY <2>2 DEF LedgerMoves
  <2> QED
    BY <2>2, <2>3, <2>4 DEF LedgersGrow
<1> QED
  BY <1>2, <1>3, <1>4

\* A price that covers the charges still does when the ledger grows.
LEMMA PricedKept ==
    ASSUME SessionInv, LedgersGrow, launch.phase = "priced", launch.usage # Unknown
    PROVE  Covered(launch.usage, charged[launch.id], Len(ledger'[launch.id]))
<1>1. launch.id \in Launches
  BY DEF SessionInv, CustodyInv
<1>2. Covered(launch.usage, charged[launch.id], Len(ledger[launch.id]))
  BY DEF SessionInv, MoneyInv, ReportInv
<1>3. launch.usage \in Nat
  BY DEF SessionInv, SessionTypeOK, Launch, MaybeCost
<1>4. MicroUsd(charged[launch.id].stated) \in Nat
  BY <1>1, MicroUsdTyped DEF SessionInv, SessionTypeOK, Charge
<1>5. /\ Len(ledger[launch.id]) \in Nat /\ Len(ledger'[launch.id]) \in Nat
      /\ Len(ledger[launch.id]) <= Len(ledger'[launch.id])
  BY <1>1 DEF LedgersGrow, SessionInv, SessionTypeOK
<1> QED
  BY <1>2, <1>3, <1>4, <1>5, RoundingWidens DEF Covered

\* A host that has not submitted, or that dies, does not disturb the report.
LEMMA ReportAfterHost ==
    ASSUME SessionInv, NEW l \in Launches, HostMoves(l),
           host[l].ask # "submit" \/ (host'[l].ask = "submit" /\ host'[l].cost = host[l].cost),
           host[l].phase \in AlivePhases \/ (host'[l].open => host[l].open),
           launch' = launch, rpc' = rpc, charged' = charged, LedgersGrow,
           server' = server \/ server' # "serving"
    PROVE  ReportInv'
<1>1. ASSUME rpc'.cost # Unknown
      PROVE  /\ launch'.id \in Launches /\ server' # "serving"
             /\ host'[launch'.id].ask = "submit"
             /\ rpc'.cost = MicroUsd(host'[launch'.id].cost)
  BY <1>1 DEF SessionInv, MoneyInv, ReportInv, HostMoves
<1>2. ASSUME launch'.phase = "priced", launch'.usage # Unknown
      PROVE  /\ Covered(launch'.usage, charged'[launch'.id], Len(ledger'[launch'.id]))
             /\ ~host'[launch'.id].open
  <2>1. launch.id \in Launches /\ host[launch.id].phase \notin AlivePhases
    BY <1>2 DEF SessionInv, CustodyInv, Alive
  <2>2. ~host[launch.id].open
    BY <1>2 DEF SessionInv, MoneyInv, ReportInv
  <2> QED
    BY <1>2, <2>1, <2>2, PricedKept DEF HostMoves
<1> QED
  BY <1>1, <1>2 DEF ReportInv

\* A death does not.
LEMMA ReportAfterDeath ==
    ASSUME SessionInv, NEW l \in Launches, host' = [host EXCEPT ![l] = Dead(@)],
           launch' = launch, rpc' = rpc, charged' = charged, ledger' = ledger,
           server' = server
    PROVE  ReportInv'
<1>1. host \in [Launches -> Host] /\ LedgersGrow
  BY HostFacts, Growing
<1>2. /\ HostMoves(l) /\ host'[l].ask = host[l].ask /\ (host'[l].open <=> host[l].open)
      /\ host[l].ask = "submit" => host'[l].cost = host[l].cost
  BY <1>1, DeathEffect
<1> QED
  BY <1>1, <1>2, ReportAfterHost

\* The server answers nobody once there is a report.
LEMMA ReportAfterAnswer ==
    ASSUME SessionInv, NEW l \in Launches, NEW phase \in AlivePhases, NEW next \in Requests,
           Answer(l, phase, next), server = "serving",
           launch' = launch, rpc'.cost = rpc.cost, charged' = charged, LedgersGrow
    PROVE  ReportInv'
<1>1. rpc.cost = Unknown
  BY DEF SessionInv, MoneyInv, ReportInv
<1>2. HostMoves(l) /\ HostKeeps(l)
  BY HostFacts, AnswerEffect
<1>3. ASSUME launch'.phase = "priced", launch'.usage # Unknown
      PROVE  /\ Covered(launch'.usage, charged'[launch'.id], Len(ledger'[launch'.id]))
             /\ ~host'[launch'.id].open
  <2>1. launch.id \in Launches
    BY <1>3 DEF SessionInv, CustodyInv
  <2>2. ~host'[launch.id].open
    BY <1>2, <1>3, <2>1 DEF SessionInv, MoneyInv, ReportInv, HostMoves, HostKeeps
  <2> QED
    BY <1>3, <2>2, PricedKept
<1> QED
  BY <1>1, <1>3 DEF ReportInv

\* Nor does a charge: what was submitted or priced was not in flight.
LEMMA ReportAfterCharge ==
    ASSUME SessionInv, NEW l \in Launches, HostMoves(l),
           host[l].phase = "inflight" \/ (host[l].phase = "exited" /\ host[l].open),
           UNCHANGED <<launch, server, rpc, ledger>>,
           \A k \in Launches : k # l => charged'[k] = charged[k]
    PROVE  ReportInv'
<1>1. host[l].ask # "submit"
  BY HostFacts
<1>2. launch.phase = "priced" /\ launch.usage # Unknown => launch.id # l
  BY DEF AlivePhases, SessionInv, CustodyInv, Alive, MoneyInv, ReportInv
<1>3. rpc.cost # Unknown => launch.id # l
  BY <1>1 DEF SessionInv, MoneyInv, ReportInv
<1>4. launch.phase # "idle" => launch.id \in Launches
  BY DEF SessionInv, CustodyInv
<1> QED
  BY <1>2, <1>3, <1>4 DEF HostMoves, SessionInv, MoneyInv, ReportInv

\* What was submitted stays submitted, and what was priced stays paid.
LEMMA ReportKept ==
    ASSUME SessionInv, [SessionNext]_vars
    PROVE  ReportInv'
<1>1. ASSUME NEW l \in Launches, Spawn(l) PROVE ReportInv'
  <2>1. rpc'.cost = Unknown /\ launch'.phase = "spawned"
    BY <1>1 DEF Spawn, SessionInv, SessionTypeOK, CustodyInv, EarlyPhases, Launch
  <2> QED
    BY <2>1 DEF ReportInv
<1>2. ASSUME NEW l \in Launches, StartSession(l) PROVE ReportInv'
  <2>1. launch'.id = launch.id /\ launch'.phase # "priced"
    BY <1>2 DEF StartSession, SessionInv, SessionTypeOK, Launch
  <2> QED
    BY <1>2, <2>1 DEF StartSession, SessionInv, MoneyInv, ReportInv
<1>3. ASSUME NEW l \in Launches, Register(l) PROVE ReportInv'
  <2>1. launch'.id = launch.id /\ launch'.phase # "priced"
    BY <1>3 DEF Register, SessionInv, SessionTypeOK, Launch
  <2> QED
    BY <1>3, <2>1 DEF Register, SessionInv, MoneyInv, ReportInv
<1>4. ASSUME NEW l \in Launches, Admit(l) PROVE ReportInv'
  <2>1. rpc'.cost = Unknown /\ launch'.phase = "racing"
    BY <1>4 DEF Admit, SessionInv, SessionTypeOK, CustodyInv, EarlyPhases, Launch
  <2> QED
    BY <2>1 DEF ReportInv
<1>5. ASSUME NEW l \in Launches, AbortReturns(l) PROVE ReportInv'
  <2>1. rpc'.cost = Unknown /\ launch'.phase = "idle"
    BY <1>5 DEF AbortReturns, Return, NoLaunch, NoRpc
  <2> QED
    BY <2>1 DEF ReportInv
<1>6. ASSUME NEW l \in Launches, ProcessStops(l) PROVE ReportInv'
  <2>1. launch'.id = launch.id /\ launch'.phase # "priced"
    BY <1>6 DEF ProcessStops, SessionInv, SessionTypeOK, Launch
  <2> QED
    BY <1>6, <2>1 DEF ProcessStops, SessionInv, MoneyInv, ReportInv
<1>7. ASSUME NEW l \in Launches, TransportStops(l) PROVE ReportInv'
  <2>1. launch'.id = launch.id /\ launch'.phase # "priced"
    BY <1>7 DEF TransportStops, SessionInv, SessionTypeOK, Launch
  <2> QED
    BY <1>7, <2>1 DEF TransportStops, SessionInv, MoneyInv, ReportInv
<1>8. ASSUME NEW l \in Launches, ChildWaited(l) PROVE ReportInv'
  <2>1. launch'.id = launch.id /\ launch'.phase # "priced"
    BY <1>8 DEF ChildWaited, SessionInv, SessionTypeOK, Launch
  <2> QED
    BY <1>8, <2>1 DEF ChildWaited, SessionInv, MoneyInv, ReportInv
<1>9. ASSUME NEW l \in Launches, SealEvidence(l) PROVE ReportInv'
  <2>1. ASSUME launch'.usage # Unknown
        PROVE  Covered(launch'.usage, charged[l], Len(ledger[l])) /\ ~host[l].open
    <3>1. launch'.usage = LedgerCost(ledger[l])
      BY <1>9 DEF SealEvidence, ReconcileProviderUsage, SessionInv, SessionTypeOK, Launch
    <3>2. Complete(ledger[l])
      BY <2>1, <3>1 DEF LedgerCost
    <3>3. Accounted(ledger[l], Len(ledger[l]), charged[l]) /\ ~host[l].open
      BY <3>2, HostFacts DEF BooksOf
    <3>4. PICK s \in Nat : /\ CostUpTo(ledger[l], Len(ledger[l]), s)
                           /\ InRounding(s, charged[l].stated, Len(ledger[l]))
      BY <3>3 DEF Accounted
    <3>5. launch'.usage = s
      BY <3>1, <3>2, <3>4, LedgerCostIsSum
    <3> QED
      BY <3>3, <3>4, <3>5 DEF Covered, Accounted, InRounding
  <2>2. launch'.id = l /\ launch.id = l
    BY <1>9 DEF SealEvidence, SessionInv, SessionTypeOK, Launch
  <2>3. /\ rpc' = rpc /\ server' = server /\ host' = host
        /\ charged' = charged /\ ledger' = ledger
    BY <1>9 DEF SealEvidence
  <2>4. launch'.usage # Unknown =>
          Covered(launch'.usage, charged[l], Len(ledger[l])) /\ ~host[l].open
    BY <2>1
  <2> QED
    BY <2>2, <2>3, <2>4 DEF SessionInv, MoneyInv, ReportInv
<1>10. ASSUME NEW l \in Launches, TerminalSession(l) PROVE ReportInv'
  <2>1. rpc'.cost = Unknown /\ launch'.phase = "idle"
    BY <1>10 DEF TerminalSession, Return, NoLaunch, NoRpc
  <2> QED
    BY <2>1 DEF ReportInv
<1>11. ASSUME NEW l \in Launches, StartRefused(l) PROVE ReportInv'
  <2>1. launch'.id = launch.id /\ launch'.phase # "priced"
    BY <1>11 DEF StartRefused, Abort, SessionInv, SessionTypeOK, Launch
  <2> QED
    BY <1>11, <2>1 DEF StartRefused, SessionInv, MoneyInv, ReportInv
<1>12. ASSUME NEW l \in Launches, AdmissionFails(l) PROVE ReportInv'
  <2>1. launch'.id = launch.id /\ launch'.phase # "priced"
    BY <1>12 DEF AdmissionFails, Abort, SessionInv, SessionTypeOK, Launch
  <2> QED
    BY <1>12, <2>1 DEF AdmissionFails, SessionInv, MoneyInv, ReportInv
<1>13. ASSUME NEW l \in Launches, ReconcileFails(l) PROVE ReportInv'
  <2>1. rpc'.cost = Unknown /\ launch'.phase = "idle"
    BY <1>13 DEF ReconcileFails, Return, NoLaunch, NoRpc
  <2> QED
    BY <2>1 DEF ReportInv
<1>14. ASSUME NEW l \in Launches, TransportFails(l) PROVE ReportInv'
  BY <1>14 DEF TransportFails, SessionInv, MoneyInv, ReportInv
<1>15. ASSUME NEW l \in Launches, LateCommit(l) PROVE ReportInv'
  <2>1. LedgersGrow
    BY <1>15, Growing DEF LateCommit
  <2> QED
    BY <1>15, <2>1, HostFacts, UnansweredEffect, ReportAfterHost DEF LateCommit, HostKeeps
<1>16. ASSUME NEW l \in Launches, ReapChild(l) PROVE ReportInv'
  BY <1>16 DEF ReapChild, SessionInv, MoneyInv, ReportInv
<1>17. ASSUME NEW l \in Launches, \E reason \in {"cancelled"} \cup LimitReasons : TermGroup(l, reason)
      PROVE  ReportInv'
  BY <1>17 DEF TermGroup, Reasons, SessionInv, MoneyInv, ReportInv
<1>18. ASSUME NEW l \in Launches, KillGroup(l) PROVE ReportInv'
  BY <1>18, ReportAfterDeath DEF KillGroup
<1>19. ASSUME NEW l \in Launches, VerifyPacket(l) PROVE ReportInv'
  <2>1. LedgersGrow
    BY <1>19, Growing DEF VerifyPacket, Dispatch
  <2>2. rpc'.cost = rpc.cost
    BY <1>19 DEF VerifyPacket, SessionInv, SessionTypeOK, Rpc
  <2> QED
    BY <1>19, <2>1, <2>2, ReportAfterAnswer DEF VerifyPacket, Dispatch, AlivePhases, Requests
<1>20. ASSUME NEW l \in Launches, WorkspaceRead(l) PROVE ReportInv'
  <2>1. LedgersGrow
    BY <1>20, Growing DEF WorkspaceRead, Dispatch
  <2>2. rpc'.cost = rpc.cost
    BY <1>20 DEF WorkspaceRead, SessionInv, SessionTypeOK, Rpc
  <2> QED
    BY <1>20, <2>1, <2>2, ReportAfterAnswer DEF WorkspaceRead, Dispatch, AlivePhases, Requests
<1>21. ASSUME NEW l \in Launches, ProviderEffectStart(l) PROVE ReportInv'
  <2>1. LedgersGrow
    BY <1>21, Growing DEF ProviderEffectStart, Dispatch
  <2>2. rpc'.cost = rpc.cost
    BY <1>21 DEF ProviderEffectStart
  <2> QED
    BY <1>21, <2>1, <2>2, ReportAfterAnswer DEF ProviderEffectStart, Dispatch, AlivePhases, Requests
<1>22. ASSUME NEW l \in Launches, ProviderEffectSettle(l) PROVE ReportInv'
  <2>1. LedgersGrow
    BY <1>22, Growing DEF ProviderEffectSettle, Dispatch
  <2>2. rpc'.cost = rpc.cost
    BY <1>22 DEF ProviderEffectSettle
  <2> QED
    BY <1>22, <2>1, <2>2, ReportAfterAnswer DEF ProviderEffectSettle, Dispatch, AlivePhases, Requests
<1>23. ASSUME NEW l \in Launches, \E request \in {"transcript", "summary"} : SealArtifact(l, request)
      PROVE  ReportInv'
  <2>1. PICK request \in {"transcript", "summary"} : SealArtifact(l, request)
    BY <1>23
  <2>2. LedgersGrow
    BY <2>1, Growing DEF SealArtifact
  <2>3. rpc'.cost = rpc.cost
    BY <2>1 DEF SealArtifact, SessionInv, SessionTypeOK, Rpc
  <2> QED
    BY <2>1, <2>2, <2>3, ReportAfterAnswer DEF SealArtifact, Dispatch, AlivePhases, Requests
<1>24. ASSUME NEW l \in Launches, SubmitTerminal(l) PROVE ReportInv'
  <2>1. /\ host[l].ask = "submit" /\ launch.id = l /\ server' = "parked"
        /\ rpc'.cost = HostReport(host[l]) /\ host' = host /\ launch' = launch
        /\ charged' = charged /\ ledger' = ledger
    BY <1>24 DEF SubmitTerminal, Dispatch, SessionInv, SessionTypeOK, Rpc
  <2>2. rpc'.cost # Unknown => rpc'.cost = MicroUsd(host[l].cost)
    BY <2>1 DEF HostReport
  <2> QED
    BY <2>1, <2>2 DEF SessionInv, MoneyInv, ReportInv
<1>25. ASSUME NEW l \in Launches, PeerClosed(l) PROVE ReportInv'
  BY <1>25 DEF PeerClosed, SessionInv, MoneyInv, ReportInv
<1>26. ASSUME NEW l \in Launches, HostReads(l) PROVE ReportInv'
  <2>1. LedgersGrow
    BY <1>26, Growing DEF HostReads, Economy
  <2> QED
    BY <1>26, <2>1, HostFacts, AskEffect, ReportAfterHost DEF HostReads, Economy, HostKeeps,
        AlivePhases, Requests
<1>27. ASSUME NEW l \in Launches, HostEdits(l) PROVE ReportInv'
  <2>1. LedgersGrow
    BY <1>27, Growing DEF HostEdits, Economy
  <2> QED
    BY <1>27, <2>1, HostFacts, EditEffect, ReportAfterHost DEF HostEdits, Economy, HostKeeps,
        AlivePhases
<1>28. ASSUME NEW l \in Launches, RecordStart(l) PROVE ReportInv'
  <2>1. LedgersGrow
    BY <1>28, Growing DEF RecordStart, Economy
  <2> QED
    BY <1>28, <2>1, HostFacts, AskEffect, ReportAfterHost DEF RecordStart, Economy, HostKeeps,
        AlivePhases, Requests
<1>29. ASSUME NEW l \in Launches, SendProviderRequest(l) PROVE ReportInv'
  <2>1. LedgersGrow
    BY <1>29, Growing DEF SendProviderRequest, Economy
  <2> QED
    BY <1>29, <2>1, HostFacts, SendEffect, ReportAfterHost DEF SendProviderRequest, Economy,
        AlivePhases
<1>30. ASSUME NEW l \in Launches, HostExits(l) PROVE ReportInv'
  BY <1>30, ReportAfterDeath DEF HostExits, Economy
<1>31. ASSUME NEW l \in Launches, \E terminal \in BOOLEAN : HostFinishes(l, terminal)
      PROVE  ReportInv'
  <2>1. PICK terminal \in BOOLEAN : HostFinishes(l, terminal)
    BY <1>31
  <2>2. LedgersGrow
    BY <2>1, Growing DEF HostFinishes, Economy
  <2> QED
    BY <2>1, <2>2, HostFacts, FinishEffect, ReportAfterHost DEF HostFinishes, Economy, HostKeeps,
        AlivePhases
<1>32. ASSUME NEW l \in Launches,
              \E cost \in Costs, stated \in BOOLEAN : ProviderAnswers(l, cost, stated)
       PROVE  ReportInv'
  <2>1. PICK cost \in Costs, stated \in BOOLEAN : ProviderAnswers(l, cost, stated)
    BY <1>32
  <2>2. cost \in Amounts
    BY SessionAssumption, NothingTyped
  <2>3. HostMoves(l) /\ ~host'[l].open /\ \A k \in Launches : k # l => charged'[k] = charged[k]
    <3>1. Settle(l, "settled", cost, stated)
      BY <2>1 DEF ProviderAnswers
    <3>2. Bill(l, cost, IF stated THEN "stated" ELSE "lost")
      BY <3>1 DEF Settle
    <3> QED
      BY <2>2, <3>1, <3>2, HostFacts, BillEffect, OutcomeEffect
  <2>4. UNCHANGED <<launch, server, rpc, ledger>> /\ host[l].phase = "inflight"
    BY <2>1 DEF ProviderAnswers, Economy
  <2> QED
    BY <2>3, <2>4, ReportAfterCharge
<1>33. ASSUME NEW l \in Launches,
              \E cost \in Costs : ProviderChargesDead(l, cost)
       PROVE  ReportInv'
  <2>1. PICK cost \in Costs : ProviderChargesDead(l, cost)
    BY <1>33
  <2>2. cost \in Amounts
    BY SessionAssumption, NothingTyped
  <2>3. HostMoves(l) /\ ~host'[l].open /\ \A k \in Launches : k # l => charged'[k] = charged[k]
    <3>1. Bill(l, cost, "lost") /\ host' = [host EXCEPT ![l].open = FALSE]
      BY <2>1 DEF ProviderChargesDead
    <3> QED
      BY <2>2, <3>1, HostFacts, BillEffect, ChargeEffect
  <2>4. UNCHANGED <<launch, server, rpc, ledger>> /\ host[l].phase = "exited" /\ host[l].open
    BY <2>1 DEF ProviderChargesDead, Economy
  <2> QED
    BY <2>3, <2>4, ReportAfterCharge
<1>34. ASSUME NEW l \in Launches,
              \E cost \in Costs \cup {Nothing}, stated \in BOOLEAN : ProviderFails(l, cost, stated)
       PROVE  ReportInv'
  <2>1. PICK cost \in Costs \cup {Nothing}, stated \in BOOLEAN : ProviderFails(l, cost, stated)
    BY <1>34
  <2>2. cost \in Amounts
    BY SessionAssumption, NothingTyped
  <2>3. HostMoves(l) /\ ~host'[l].open /\ \A k \in Launches : k # l => charged'[k] = charged[k]
    <3>1. Settle(l, "failed", cost, stated)
      BY <2>1 DEF ProviderFails
    <3>2. Bill(l, cost, IF stated THEN "stated" ELSE "lost")
      BY <3>1 DEF Settle
    <3> QED
      BY <2>2, <3>1, <3>2, HostFacts, BillEffect, OutcomeEffect
  <2>4. UNCHANGED <<launch, server, rpc, ledger>> /\ host[l].phase = "inflight"
    BY <2>1 DEF ProviderFails, Economy
  <2> QED
    BY <2>3, <2>4, ReportAfterCharge
<1>35. ASSUME NEW l \in Launches, TerminateOwnedProcessGroup(l) PROVE ReportInv'
  BY <1>35, ReportAfterDeath DEF TerminateOwnedProcessGroup, Economy
<1>36. ASSUME NEW l \in Launches, CreateEvidence(l) PROVE ReportInv'
  BY <1>36 DEF CreateEvidence, SessionInv, MoneyInv, ReportInv
<1>37. ASSUME NEW l \in Launches, WriteEvidence(l) PROVE ReportInv'
  BY <1>37 DEF WriteEvidence, SessionInv, MoneyInv, ReportInv
<1>38. ASSUME NEW l \in Launches, EvidenceChanged(l) PROVE ReportInv'
  BY <1>38 DEF EvidenceChanged, SessionInv, MoneyInv, ReportInv
<1>39. ASSUME NEW l \in Launches, \E transcript \in RecoveredTranscripts : ReconcileOneSession(l, transcript)
      PROVE  ReportInv'
  BY <1>39 DEF ReconcileOneSession, RecoveredTranscripts, SessionInv, MoneyInv, ReportInv
<1>40. ASSUME NEW l \in Launches, OperatorCancels(l) PROVE ReportInv'
  BY <1>40 DEF OperatorCancels, CancelAndWait, SessionInv, MoneyInv, ReportInv
<1>41. CASE BeginShutdown
  BY <1>41 DEF BeginShutdown, CancelAndWait, SessionInv, MoneyInv, ReportInv
<1>42. CASE CancelDriver
  <2>1. rpc'.cost = Unknown /\ launch'.phase = "idle"
    BY <1>42 DEF CancelDriver, NoLaunch, NoRpc
  <2> QED
    BY <2>1 DEF ReportInv
<1>43. CASE ReleaseLock
  BY <1>43 DEF ReleaseLock, SessionInv, MoneyInv, ReportInv
<1>44. CASE Crash
  <2>1. rpc'.cost = Unknown /\ launch'.phase = "idle"
    BY <1>44 DEF Crash, Return, NoLaunch, NoRpc
  <2> QED
    BY <2>1 DEF ReportInv
<1>45. CASE Restart
  BY <1>45 DEF Restart, SessionInv, MoneyInv, ReportInv
<1>46. CASE ServeOperators
  BY <1>46 DEF ServeOperators, SessionInv, MoneyInv, ReportInv
<1>47. CASE UNCHANGED vars
  BY <1>47 DEF vars, SessionInv, MoneyInv, ReportInv
<1>48. ASSUME NEW l \in Launches, LedgerConflicts(l) PROVE ReportInv'
  <2>1. rpc'.cost = Unknown /\ launch'.phase = "idle"
    BY <1>48 DEF LedgerConflicts, Return, NoLaunch, NoRpc
  <2> QED
    BY <2>1 DEF ReportInv
<1>49. ASSUME NEW l \in Launches, AdmissionAbandoned(l) PROVE ReportInv'
  <2>1. rpc'.cost = Unknown /\ launch'.phase = "idle"
    BY <1>49 DEF AdmissionAbandoned, Return, NoLaunch, NoRpc
  <2> QED
    BY <2>1 DEF ReportInv
<1>50. ASSUME NEW l \in Launches,
              \E cost \in Costs \cup {Nothing}, complete \in BOOLEAN : ProviderRetries(l, cost, complete)
       PROVE  ReportInv'
  <2>1. PICK cost \in Costs \cup {Nothing}, complete \in BOOLEAN : ProviderRetries(l, cost, complete)
    BY <1>50
  <2>2. cost \in Amounts
    BY SessionAssumption, NothingTyped
  <2>3. HostMoves(l) /\ \A k \in Launches : k # l => charged'[k] = charged[k]
    <3>1. Bill(l, cost, "retried")
      BY <2>1 DEF ProviderRetries
    <3> QED
      BY <2>1, <2>2, <3>1, HostFacts, BillEffect, RetryEffect
  <2>4. UNCHANGED <<launch, server, rpc, ledger>> /\ host[l].phase = "inflight"
    BY <2>1 DEF ProviderRetries, Economy
  <2> QED
    BY <2>3, <2>4, ReportAfterCharge
<1> QED
  BY <1>1, <1>2, <1>3, <1>4, <1>5, <1>6, <1>7, <1>8, <1>9, <1>10, <1>11,
     <1>12, <1>13, <1>14, <1>15, <1>16, <1>17, <1>18, <1>19, <1>20, <1>21,
     <1>22, <1>23, <1>24, <1>25, <1>26, <1>27, <1>28, <1>29, <1>30, <1>31,
     <1>32, <1>33, <1>34, <1>35, <1>36, <1>37, <1>38, <1>39, <1>40, <1>41,
     <1>42, <1>43, <1>44, <1>45, <1>46, <1>47, <1>48,
     <1>49, <1>50
  DEF SessionNext, LaunchStep, LaunchFault, CustodyStep, ServerStep, HostStep, ProviderStep,
      RecoveryStep, ShutdownStep

-----------------------------------------------------------------------------
(* Theorems                                                                *)

\* The invariant holds when the daemon first serves.
LEMMA SessionStarts ==
    ASSUME SessionInit
    PROVE  SessionInv
<1> USE SessionAssumption DEF SessionInit
<1>1. SessionTypeOK
  <2>1. NoLaunch \in Launch /\ NoRpc \in Rpc /\ NoCustody \in Custody
    BY DEF NoLaunch, NoRpc, NoCustody, Launch, Rpc, Custody, MaybeCost, HostStops, Reasons
  <2>2. NoRow \in Row /\ NoHost \in Host /\ NoCharge \in Charge
    BY NothingTyped DEF NoCharge, Charge, NoRow, NoHost, NoOutcome, Row, Host, MaybeCost, HostStops, AlivePhases, Requests
  <2>3. << >> \in Seq(Effect)
    OBVIOUS
  <2> QED
    BY <2>1, <2>2, <2>3 DEF SessionTypeOK
<1>2. CustodyInv
  BY DEF CustodyInv, NoLaunch, NoCustody, NoRpc, EarlyPhases, RowPhases
<1>3. RowsInv
  BY DEF RowsInv, NoRow, NoHost, NoLaunch, Acting, Alive, AlivePhases
<1>4. ASSUME NEW l \in Launches PROVE Books(l)
  <2>1. host[l] = NoHost /\ ledger[l] = << >> /\ charged[l] = NoCharge /\ row[l] = NoRow
    OBVIOUS
  <2>2. CostUpTo(<< >>, 0, 0)
    BY NoRowsCostNothing
  <2>3. Len(<< >>) = 0
    OBVIOUS
  <2>4. Plus(Nothing, Nothing) = Nothing /\ MicroUsd(Nothing) = 0
    BY DEF Plus, Nothing, MicroUsd
  <2>5. Accounted(<< >>, 0, NoCharge)
    BY <2>2, <2>4 DEF Accounted, AllStated, NoCharge, InRounding, WithinRounding
  <2>6. NoHost.cost = Nothing /\ NoCharge.stated = Nothing
    BY DEF NoHost, NoCharge
  <2> QED
    BY <2>1, <2>3, <2>5, <2>6 DEF Books, BooksOf, NoHost, NoRow
<1>5. ReportInv
  BY DEF ReportInv, NoRpc, NoLaunch
<1> QED
  BY <1>1, <1>2, <1>3, <1>4, <1>5 DEF SessionInv, MoneyInv

\* The inductive invariant of one session after another: types, custody, rows, books.
LEMMA SessionInvariant == SessionSpec => []SessionInv
<1>1. SessionInit => SessionInv
  BY SessionStarts
<1>2. SessionInv /\ [SessionNext]_vars => SessionInv'
  <2> SUFFICES ASSUME SessionInv, [SessionNext]_vars PROVE SessionInv'
    OBVIOUS
  <2>1. SessionTypeOK' /\ CustodyInv' /\ RowsInv' /\ ReportInv'
    BY TypeStep, CustodyKept, RowsKept, ReportKept
  <2>2. \A k \in Launches : Books(k)'
    BY BooksKept
  <2> QED
    BY <2>1, <2>2 DEF SessionInv, MoneyInv, Launches
<1> QED
  BY <1>1, <1>2, PTL DEF SessionSpec

\* The child of a session is gone before its row is terminal, whichever of the
\* report, the transport, the custody thread, the shutdown and the recovery ended it.
THEOREM ChildGoneBeforeTerminal == SessionSpec => []TerminalAfterExit
<1>1. SessionInv => TerminalAfterExit
  BY DEF SessionInv, RowsInv, TerminalAfterExit
<1> QED
  BY <1>1, SessionInvariant, PTL

\* At most one admitted host acts, for any number of launches, crashes and recoveries:
\* an acting host has a running row, and start_session leaves no room for two.
THEOREM OnePaidProcess == SessionSpec => []OneActingHost
<1>1. ASSUME SessionInv PROVE OneActingHost
  <2> DEFINE S == {l \in Launches : Alive(l) /\ host[l].phase # "booting"}
  <2>1. ASSUME NEW k \in S, NEW l \in S PROVE k = l
    BY <1>1 DEF SessionInv, RowsInv, Acting
  <2>2. CASE S = {}
    BY <2>2, FS_EmptySet DEF OneActingHost
  <2>3. CASE S # {}
    <3>1. PICK l \in S : S = {l}
      BY <2>1, <2>3
    <3>2. Cardinality({l}) = 1
      BY FS_Singleton
    <3> QED
      BY <3>1, <3>2 DEF OneActingHost
  <2> QED
    BY <2>2, <2>3
<1> QED
  BY <1>1, SessionInvariant, PTL

\* A terminal row that states a cost covers what the provider charged for every answer,
\* whatever was repeated inside a request and however the session ended, and overstates
\* it by rounding alone: a ledger is complete only when every request was settled with
\* what its answer stated, and a late commit never completes one that was priced.
THEOREM KnownCostCovers == SessionSpec => []KnownCostCoversCharges
<1>1. ASSUME SessionInv, NEW l \in Launches,
             row[l].lifecycle = "terminal", row[l].cost # Unknown
      PROVE  /\ WithinRounding(row[l].cost, MicroUsd(charged[l].stated), Len(ledger[l]))
             /\ charged[l].paid = Plus(charged[l].stated, charged[l].retried)
             /\ ~host[l].open
  BY <1>1, HostFacts DEF BooksOf, Covered, AllStated
<1>2. SessionInv => KnownCostCoversCharges
  BY <1>1 DEF KnownCostCoversCharges
<1> QED
  BY <1>2, SessionInvariant, PTL

\* The host's report is one rounding of the sum whose roundings the ledger adds up, so
\* it never exceeds a complete ledger and misses it by less than one micro-USD for each
\* request: nothing but rounding can make the two differ.
THEOREM ReportDiffersByRounding == SessionSpec => []ReportWithinRounding
<1>1. ASSUME SessionInv, launch.phase = "evidence", rpc.cost # Unknown,
             Complete(ledger[launch.id])
      PROVE  WithinRounding(LedgerCost(ledger[launch.id]), rpc.cost, Len(ledger[launch.id]))
  <2>1. launch.id \in Launches
    BY <1>1 DEF SessionInv, CustodyInv
  <2>2. host[launch.id].ask = "submit" /\ rpc.cost = MicroUsd(host[launch.id].cost)
    BY <1>1 DEF SessionInv, MoneyInv, ReportInv
  <2>3. /\ host[launch.id].cost = charged[launch.id].stated
        /\ Accounted(ledger[launch.id], Len(ledger[launch.id]), charged[launch.id])
    BY <1>1, <2>1, <2>2, HostFacts DEF BooksOf
  <2>4. PICK s \in Nat : /\ CostUpTo(ledger[launch.id], Len(ledger[launch.id]), s)
                         /\ InRounding(s, charged[launch.id].stated, Len(ledger[launch.id]))
    BY <2>3 DEF Accounted
  <2>5. LedgerCost(ledger[launch.id]) = s
    BY <1>1, <2>4, LedgerCostIsSum
  <2> QED
    BY <2>2, <2>3, <2>4, <2>5 DEF InRounding
<1>2. SessionInv => ReportWithinRounding
  BY <1>1 DEF ReportWithinRounding
<1> QED
  BY <1>2, SessionInvariant, PTL
=============================================================================
