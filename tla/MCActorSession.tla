--------------------------- MODULE MCActorSession ---------------------------
(***************************************************************************)
(* The sessions of one ticket: Product, Engineering, Quality and, after a  *)
(* rework or a failure, the sessions that follow.  Steps depend on a       *)
(* revision only through whether a held one is still current, and on the   *)
(* end of a session only through whether it succeeded.                     *)
(***************************************************************************)
EXTENDS ActorSession

\* A campaign in good standing whose first session, and only that, is Product.
HealthyCampaign ==
    /\ \A c \in CampaignId :
         /\ campaign[c].cost = "Known"
         /\ campaign[c].state \in {"Absent", "Running", "Completed"}
    /\ \A s \in SessionId :
         session[s].state # "Absent" => (session[s].office = "Product" <=> s = 1)

SessionView(s) ==
    << IF session[s].state \in SessionTerminal \ {"Succeeded"} THEN "Ended" ELSE session[s].state,
       session[s].office, session[s].attempt, session[s].candidate >>

\* Which of the fences the handler holds are current
AuthorityView ==
    LET held == rpc.authority IN
    << packet.attempt # 0 /\ attempt[packet.attempt].rev = held.attempt,
       packet.attempt # 0 /\ TicketOf(packet.attempt).rev = held.ticket,
       packet.candidate # 0 /\ candidate[packet.candidate].rev = held.candidate,
       held.suite >>

ActorView ==
    << [c \in CampaignId |-> campaign[c].state],
       [t \in TicketId |-> ticket[t].state],
       [a \in AttemptId |-> [attempt[a] EXCEPT !.rev = 0]],
       [k \in CandidateId |-> [candidate[k] EXCEPT !.rev = 0]],
       [s \in SessionId |-> SessionView(s)],
       [launch EXCEPT !.revision = 0],
       launch.pc = "resolved" /\ campaign[launch.campaign].rev = launch.revision,
       packet, host, [rpc EXCEPT !.authority = NoAuthority], AuthorityView >>
=============================================================================
