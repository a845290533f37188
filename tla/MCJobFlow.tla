----------------------------- MODULE MCJobFlow -----------------------------
(* Instances of JobFlow, and of printing on Windows, for TLC.  The two     *)
(* share no variable; one of them is busy at a time.                       *)
EXTENDS JobFlow, Winspool, TLC

CONSTANTS j1, j2, p1

SamePrinter == [j \in Jobs |-> p1]

\* Both jobs are fetched once and nothing fails, or one job is fetched as
\* often, and calls fail as often, as the bounds allow.
OnceEach == InitWith([j \in Jobs |-> MaxDeliveries - 1], MaxFaults)
OneJob   == InitWith([j \in Jobs |-> IF j = j1 THEN 0 ELSE MaxDeliveries], 0)

\* No job is ever fetched.
Nothing == InitWith([j \in Jobs |-> MaxDeliveries], MaxFaults)
Unused  == delivered = [j \in Jobs |-> MaxDeliveries] /\ \A d \in Deliveries : pc[d] = "none"

SpoolOff == SpoolInitAt("ended") /\ ticket = [j \in WinJobs |-> "fine"]

MCInit ==
  \/ (OnceEach \/ OneJob) /\ SpoolOff
  \/ Nothing /\ SpoolInit

MCNext ==
  \/ ~Unused /\ Next /\ UNCHANGED spoolVars
  \/ SpoolNext /\ UNCHANGED vars

MCSpec == MCInit /\ [][MCNext]_<<vars, spoolVars>> /\ Fairness /\ SpoolFairness
=============================================================================
