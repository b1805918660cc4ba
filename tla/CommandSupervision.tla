------------------------- MODULE CommandSupervision -------------------------
(***************************************************************************)
(* One supervised command: CommandRunner::run of command_supervision.rs.   *)
(* The command leads its own process group and inherits two pipes that two *)
(* capture threads drain.  The runner polls the leader, stops the group    *)
(* when a stream passes its limit or the wall limit elapses, and joins the *)
(* capture threads, which end when no process holds a pipe any more.       *)
(***************************************************************************)
EXTENDS Naturals

VARIABLE command
    \* [stage, leader, member, flooded, forced, signal]: where the runner is,
    \* whether the leader and a descendant of its group are alive, whether a
    \* stream passed its limit, the ForcedStop, and the last signal sent

NoCommand == [stage |-> "none", leader |-> FALSE, member |-> FALSE, flooded |-> FALSE,
              forced |-> "None", signal |-> "None"]

\* Spawn with process_group(0) and piped streams; the capture threads start.
Spawned == [NoCommand EXCEPT !.stage = "waiting", !.leader = TRUE]

\* A process of the group is alive and holds the write ends of the pipes.
PipesOpen == command.leader \/ command.member

(* ------------------------------ the command ------------------------------ *)

\* The leader starts a descendant that keeps its streams.
ForkMember ==
    /\ command.leader /\ ~command.member
    /\ command' = [command EXCEPT !.member = TRUE]

\* capture_stream keeps the admitted prefix and raises the flag.
StreamPassesLimit ==
    /\ PipesOpen /\ ~command.flooded
    /\ command' = [command EXCEPT !.flooded = TRUE]

\* The leader exits, by itself or because TERM reached it.
LeaderExits ==
    /\ command.leader
    /\ command' = [command EXCEPT !.leader = FALSE]

\* A descendant ends by itself, or because TERM reached it.
MemberExits ==
    /\ command.member
    /\ command' = [command EXCEPT !.member = FALSE]

(* ------------------------------- the runner ------------------------------ *)

\* wait_for_terminal: try_wait reports the leader's own exit.
ObserveExit ==
    /\ command.stage = "waiting" /\ ~command.leader
    /\ command' = [command EXCEPT !.stage = "joining"]

\* wait_for_terminal: a stream flag is tested before the wall limit; either
\* stops the group with TERM.
ForceStop ==
    /\ command.stage = "waiting" /\ command.leader
    /\ command' = [command EXCEPT !.stage = "stopping", !.signal = "TERM",
                     !.forced = IF command.flooded THEN "StreamLimit" ELSE "TimedOut"]

\* terminate_group: the leader is gone within the grace.
ObserveStopped ==
    /\ command.stage = "stopping" /\ ~command.leader
    /\ command' = [command EXCEPT !.stage = "joining"]

\* terminate_group: the grace elapsed.  KILL ends the whole group, and the
\* direct wait returns.
KillGroup ==
    /\ command.stage = "stopping" /\ command.leader
    /\ command' = [command EXCEPT !.stage = "joining", !.signal = "KILL",
                     !.leader = FALSE, !.member = FALSE]

\* join_capture on both streams returns at the end of file.
JoinCaptures ==
    /\ command.stage = "joining" /\ ~PipesOpen
    /\ command' = [command EXCEPT !.stage = "returned"]

\* The terminals the receipt may carry: terminal_from_status for a leader that
\* was not stopped, forced_terminal otherwise.
CommandTerminal ==
    IF command.forced = "None" THEN {"Exited", "Signaled"} ELSE {command.forced}

\* matches_expectation: only a leader that exited by itself can match.
MayMatch == "Exited" \in CommandTerminal

ChildStep == ForkMember \/ StreamPassesLimit \/ LeaderExits \/ MemberExits
RunnerStep == ObserveExit \/ ForceStop \/ ObserveStopped \/ KillGroup \/ JoinCaptures
=============================================================================
