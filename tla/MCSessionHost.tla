---------------------------- MODULE MCSessionHost ----------------------------
(* Instances of SessionHost for TLC. *)
EXTENDS SessionHost

\* Half a micro-USD.
Half == [micro |-> 0, rest |-> 1]
MCCosts == {Half}

Bought == Len(ledger[1])
OneLaunch == launch.id <= 1
Reads == rpc.seen # "nothing" \/ host[1].ask = "read"

\* One session in full: a request and one fault, or no request and two faults.
OneSession ==
    /\ OneLaunch
    /\ Bought <= 1 /\ host[1].retries = 0 /\ Bought + faults <= 2
    /\ host[1].edited \/ rpc.seen # "nothing" => faults = 0

\* The money of one session: two requests and a repeated attempt, of a host that
\* neither reads nor edits and is not cancelled by the operator, without faults.
OneAccount ==
    /\ OneLaunch
    /\ faults = 0 /\ daemon = "serving"
    /\ waiter["operator"] = "idle" /\ ~Reads /\ ~host[1].edited

\* A second launch after a first one that was refused, cancelled or interrupted
\* before it bought anything; the second session neither buys nor reads.
TwoSessions ==
    /\ launch.id = 2
    /\ row[1].stop \in {"none", "cancelled", "daemon_disconnected"}
    /\ ledger[1] = <<>>
    /\ ledger[2] = <<>> /\ host[2].ask # "start"
    /\ rpc.seen = "nothing" /\ host[2].ask # "read"
    /\ ~host[2].edited
    /\ faults <= 1

Focus == OneSession \/ OneAccount \/ TwoSessions
=============================================================================
