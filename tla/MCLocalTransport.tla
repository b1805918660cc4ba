--------------------------- MODULE MCLocalTransport ---------------------------
(* Instances of LocalTransport for TLC. *)
EXTENDS LocalTransport

CONSTANT c1  \* the client whose exchanges meet every fault

\* Exchanges of a second client are looked at on one runtime root with at most
\* one fault; those of the first one under clears and faults, two at most.
Focus ==
    \/ (\A c \in Clients \ {c1} : exchange[c] = Idle) /\ epoch + faults <= 2
    \/ epoch = 0 /\ faults <= 1
===============================================================================
