---------------------------- MODULE PrintService ----------------------------
(***************************************************************************)
(* What manager/printermanager.go promises about print jobs, whatever the  *)
(* number of deliveries, channels and goroutines behind it: at most one    *)
(* attempt to print a job is under way, every attempt is counted exactly   *)
(* once, as done or as failed, before another attempt may begin, and a     *)
(* delivery that fails before it is printed counts as failed.              *)
(***************************************************************************)
EXTENDS Naturals

CONSTANT Jobs

VARIABLES
  stage,     \* stage[j]: the attempt to print j
  jobsDone,
  jobsError

serviceVars == <<stage, jobsDone, jobsError>>

ServiceInit ==
  /\ stage = [j \in Jobs |-> "idle"]
  /\ jobsDone = 0 /\ jobsError = 0

Begin(j) ==
  /\ stage[j] = "idle"
  /\ stage' = [stage EXCEPT ![j] = "printing"]
  /\ UNCHANGED <<jobsDone, jobsError>>

Count(j) ==
  /\ stage[j] = "printing"
  /\ stage' = [stage EXCEPT ![j] = "counted"]
  /\ \/ jobsDone' = jobsDone + 1 /\ UNCHANGED jobsError
     \/ jobsError' = jobsError + 1 /\ UNCHANGED jobsDone

Conclude(j) ==
  /\ stage[j] = "counted"
  /\ stage' = [stage EXCEPT ![j] = "idle"]
  /\ UNCHANGED <<jobsDone, jobsError>>

Reject == jobsError' = jobsError + 1 /\ UNCHANGED <<stage, jobsDone>>

ServiceNext == Reject \/ \E j \in Jobs : Begin(j) \/ Count(j) \/ Conclude(j)

ServiceSpec == ServiceInit /\ [][ServiceNext]_serviceVars
=============================================================================
