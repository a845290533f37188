------------------------- MODULE JobFlow_refinement -------------------------
(***************************************************************************)
(* JobFlow implements PrintService: the stage of a job is read off the     *)
(* delivery of it that is inside printJob; mutual exclusion makes that one *)
(* delivery.                                                               *)
(***************************************************************************)
EXTENDS JobFlow_proofs

Stages == [j \in Jobs |-> StageOf(j)]

\* The stage a delivery gives its job.
Class(step) ==
  IF step \in Uncounted THEN "printing" ELSE IF step \in Counted THEN "counted" ELSE "idle"

USE DEF gcpVars, semVars, nativeVars, statVars, cloudVars, assembleFrame, nativeFrame,
        At, GoTo, Fault, NoFault

LEMMA StepClasses ==
  /\ Uncounted \cap Counted = {} /\ Critical = Uncounted \cup Counted
  /\ \A s : s \in Critical <=> Class(s) # "idle"
  BY DEF Critical, Uncounted, Counted, Class

\* A job has the stage of the delivery in printJob, and is idle without one.
LEMMA StageOfCritical ==
  ASSUME OnePrintAtATime
  PROVE  /\ \A d \in Deliveries : pc[d] \in Critical => StageOf(JobOf(d)) = Class(pc[d])
         /\ \A j \in Jobs : (\A d \in Deliveries : JobOf(d) = j => pc[d] \notin Critical)
                              => StageOf(j) = "idle"
<1>1. ASSUME NEW d \in Deliveries, pc[d] \in Critical
      PROVE  StageOf(JobOf(d)) = Class(pc[d])
  <2>1. \A e \in Deliveries : JobOf(e) = JobOf(d) /\ pc[e] \in Critical => e = d
    BY <1>1 DEF OnePrintAtATime
  <2>2. CASE pc[d] \in Uncounted
    BY <2>2 DEF StageOf, Class
  <2>3. CASE pc[d] \in Counted
    BY <2>1, <2>3, StepClasses DEF StageOf, Class
  <2>4. QED
    BY <1>1, <2>2, <2>3, StepClasses
<1>2. ASSUME NEW j \in Jobs, \A d \in Deliveries : JobOf(d) = j => pc[d] \notin Critical
      PROVE  StageOf(j) = "idle"
  BY <1>2, StepClasses DEF StageOf
<1>3. QED
  BY <1>1, <1>2

\* A step of a delivery changes at most the stage of its own job, ...
LEMMA OthersKeepStage ==
  ASSUME TypeOK, NEW d \in Deliveries, NEW to, pc' = [pc EXCEPT ![d] = to],
         NEW j \in Jobs, j # JobOf(d)
  PROVE  StageOf(j)' = StageOf(j)
<1>1. \A e \in Deliveries : JobOf(e) = j => pc'[e] = pc[e]
  BY DEF TypeOK
<1>2. QED
  BY <1>1 DEF StageOf

\* ... from the class of the step it leaves to that of the step it enters.
LEMMA OwnStage ==
  ASSUME IInv, IInv', NEW d \in Deliveries, NEW to \in Step, pc' = [pc EXCEPT ![d] = to],
         pc[d] \in Critical \/ to \in Critical
  PROVE  /\ StageOf(JobOf(d)) = Class(pc[d]) /\ StageOf(JobOf(d))' = Class(to)
         /\ Stages' = [Stages EXCEPT ![JobOf(d)] = Class(to)]
<1>1. pc'[d] = to /\ \A e \in Deliveries : e # d => pc'[e] = pc[e]
  BY DEF IInv, TypeOK
<1>2. \A e \in Deliveries : (e # d /\ JobOf(e) = JobOf(d)) => pc[e] \notin Critical
  BY <1>1 DEF IInv, OnePrintAtATime
<1>3. StageOf(JobOf(d)) = Class(pc[d])
  <2>1. CASE pc[d] \in Critical
    BY <2>1, StageOfCritical DEF IInv
  <2>2. CASE pc[d] \notin Critical
    BY <2>2, <1>2, StageOfCritical, StepClasses, DeliveryParts DEF IInv
  <2>3. QED
    BY <2>1, <2>2
<1>4. StageOf(JobOf(d))' = Class(to)
  <2>1. OnePrintAtATime'
    BY DEF IInv
  <2>2. /\ pc'[d] \in Critical => StageOf(JobOf(d))' = Class(pc'[d])
        /\ (\A e \in Deliveries : JobOf(e) = JobOf(d) => pc'[e] \notin Critical)
             => StageOf(JobOf(d))' = "idle"
    <3>1. \A j \in Jobs : (\A e \in Deliveries : JobOf(e) = j => pc'[e] \notin Critical)
                            => StageOf(j)' = "idle"
      BY StepClasses DEF StageOf
    <3>2. ASSUME pc'[d] \in Critical PROVE StageOf(JobOf(d))' = Class(pc'[d])
      <4>1. \A e \in Deliveries : JobOf(e) = JobOf(d) /\ pc'[e] \in Critical => e = d
        BY <3>2, <2>1 DEF OnePrintAtATime
      <4>2. CASE pc'[d] \in Uncounted
        BY <4>2 DEF StageOf, Class
      <4>3. CASE pc'[d] \in Counted
        BY <4>1, <4>3, StepClasses DEF StageOf, Class
      <4>4. QED
        BY <3>2, <4>2, <4>3, StepClasses
    <3>3. QED
      BY <3>1, <3>2, DeliveryParts
  <2>3. CASE to \in Critical
    BY <2>2, <2>3, <1>1
  <2>4. CASE to \notin Critical
    BY <2>2, <2>4, <1>1, <1>2, StepClasses
  <2>5. QED
    BY <2>3, <2>4
<1>5. \A j \in Jobs : j # JobOf(d) => StageOf(j)' = StageOf(j)
  BY OthersKeepStage DEF IInv
<1>6. QED
  BY <1>3, <1>4, <1>5 DEF Stages

\* A step that stays on its side of the borders changes no stage.
LEMMA SameClassKeepsStages ==
  ASSUME IInv, IInv', NEW d \in Deliveries, NEW to \in Step, pc' = [pc EXCEPT ![d] = to],
         Class(to) = Class(pc[d])
  PROVE  Stages' = Stages
<1>1. CASE pc[d] \in Critical
  BY <1>1, OwnStage DEF Stages
<1>2. CASE pc[d] \notin Critical
  <2>1. to \notin Critical
    BY <1>2, StepClasses
  <2>2. \A e \in Deliveries : /\ pc'[e] \in Uncounted <=> pc[e] \in Uncounted
                              /\ pc'[e] \in Counted <=> pc[e] \in Counted
    BY <1>2, <2>1, StepClasses DEF IInv, TypeOK
  <2>3. \A j \in Jobs : StageOf(j)' = StageOf(j)
    BY <2>2 DEF StageOf
  <2>4. QED
    BY <2>3 DEF Stages
<1>3. QED
  BY <1>1, <1>2

-----------------------------------------------------------------------------
(* Every step implements a step of the service, or a stuttering step *)

\* The same stages and counters: a stuttering step.
LEMMA Stutter ==
  ASSUME Stages' = Stages, UNCHANGED statVars
  PROVE  UNCHANGED Service!serviceVars
  BY DEF Stages, Service!serviceVars

LEMMA ClassOf ==
  /\ \A s \in Assembling \cup Failing \cup Waiting \cup {"none", "remove", "end"} : Class(s) = "idle"
  /\ \A s \in Uncounted : Class(s) = "printing"
  /\ \A s \in Counted : Class(s) = "counted"
  BY DEF Assembling, Failing, Waiting, Uncounted, Counted, Class

\* ReportFailed counts the delivery of a job that stays at its stage.
LEMMA ReportFailedRefines ==
  ASSUME IInv, IInv', NEW d \in Deliveries, ReportFailed(d)
  PROVE  Service!ServiceNext
<1>1. pc[d] = "report" /\ pc' = [pc EXCEPT ![d] = "control"] /\ "control" \in Step
  BY DEF ReportFailed, Step, Failing
<1>2. Stages' = Stages
  BY <1>1, SameClassKeepsStages, ClassOf DEF Failing
<1>3. Service!Reject
  BY <1>2 DEF ReportFailed, CountJob, Stages, Service!Reject
<1>4. QED
  BY <1>3 DEF Service!ServiceNext

\* The other steps of assembling a job are invisible.
LEMMA ProcessJobRefines ==
  ASSUME IInv, IInv', NEW d \in Deliveries, ProcessJob(d)
  PROVE  [Service!ServiceNext]_(Service!serviceVars)
<1>1. CASE ReportFailed(d)
  BY <1>1, ReportFailedRefines
<1>2. CASE Ticket(d) \/ TempFile(d) \/ AcquireDownload(d) \/ Download(d) \/ ControlAborted(d) \/ SendJob(d)
  <2>1. PICK to \in Step \ Critical : pc' = [pc EXCEPT ![d] = to]
    BY <1>2 DEF Ticket, TempFile, AcquireDownload, Download, ControlAborted, SendJob,
       Step, Assembling, Failing, Waiting, Critical, Uncounted, Counted
  <2>2. pc[d] \notin Critical
    BY <1>2 DEF Ticket, TempFile, AcquireDownload, Download, ControlAborted, SendJob,
       Critical, Uncounted, Counted
  <2>3. Stages' = Stages
    BY <2>1, <2>2, SameClassKeepsStages, StepClasses
  <2>4. UNCHANGED statVars
    BY <1>2 DEF Ticket, TempFile, AcquireDownload, Download, ControlAborted, SendJob
  <2>5. QED
    BY <2>3, <2>4, Stutter
<1>3. QED
  BY <1>1, <1>2 DEF ProcessJob

\* A job received is begun, or thrown away.
LEMMA AddInFlightJobRefines ==
  ASSUME IInv, IInv', NEW d \in Deliveries, AddInFlightJob(d)
  PROVE  [Service!ServiceNext]_(Service!serviceVars)
<1>1. pc[d] = "start" /\ UNCHANGED statVars
  BY DEF AddInFlightJob
<1>2. CASE JobOf(d) \in inFlight
  <2>1. pc' = [pc EXCEPT ![d] = "remove"] /\ "remove" \in Step
    BY <1>2 DEF AddInFlightJob, Step
  <2>2. Stages' = Stages
    BY <1>1, <2>1, SameClassKeepsStages, ClassOf DEF Waiting
  <2>3. QED
    BY <1>1, <2>2, Stutter
<1>3. CASE JobOf(d) \notin inFlight
  <2>1. pc' = [pc EXCEPT ![d] = "lookup"] /\ "lookup" \in Step /\ "lookup" \in Uncounted
    BY <1>3 DEF AddInFlightJob, Step, Critical, Uncounted
  <2>2. Class(pc[d]) = "idle" /\ Class("lookup") = "printing" /\ "lookup" \in Critical
    BY <1>1, <2>1, ClassOf, StepClasses DEF Waiting
  <2>3. /\ StageOf(JobOf(d)) = "idle"
        /\ Stages' = [Stages EXCEPT ![JobOf(d)] = "printing"]
    BY <2>1, <2>2, OwnStage
  <2>4. Service!Begin(JobOf(d))
    BY <1>1, <2>3, DeliveryParts DEF Stages, Service!Begin
  <2>5. QED
    BY <2>4, DeliveryParts DEF Service!ServiceNext
<1>4. QED
  BY <1>2, <1>3

\* A step from an uncounted to a counted one counts the job.
LEMMA CountRefines ==
  ASSUME IInv, IInv', NEW d \in Deliveries, NEW to \in Counted, NEW success \in BOOLEAN,
         pc[d] \in Uncounted, pc' = [pc EXCEPT ![d] = to], CountJob(success)
  PROVE  Service!ServiceNext
<1>1. to \in Step /\ to \in Critical
  BY DEF Step, Critical
<1>2. /\ StageOf(JobOf(d)) = "printing"
      /\ Stages' = [Stages EXCEPT ![JobOf(d)] = "counted"]
  BY <1>1, OwnStage, ClassOf
<1>3. Service!Count(JobOf(d))
  BY <1>2, DeliveryParts DEF Stages, Service!Count, CountJob
<1>4. QED
  BY <1>3, DeliveryParts DEF Service!ServiceNext

\* A step among the uncounted ones is invisible.
LEMMA UncountedRefines ==
  ASSUME IInv, IInv', NEW d \in Deliveries, NEW to \in Uncounted,
         pc[d] \in Uncounted, pc' = [pc EXCEPT ![d] = to], UNCHANGED statVars
  PROVE  UNCHANGED Service!serviceVars
<1>1. to \in Step
  BY DEF Step, Critical
<1>2. Stages' = Stages
  BY <1>1, SameClassKeepsStages, ClassOf
<1>3. QED
  BY <1>2, Stutter

LEMMA PrintingRefines ==
  ASSUME IInv, IInv', NEW d \in Deliveries,
         Lookup(d) \/ AcquirePrinter(d) \/ NativePrint(d) \/ Poll(d) \/ Update(d)
  PROVE  [Service!ServiceNext]_(Service!serviceVars)
<1>1. pc[d] \in Uncounted
  BY DEF Lookup, AcquirePrinter, NativePrint, Poll, Update, Uncounted
<1>2. \/ \E to \in Uncounted : pc' = [pc EXCEPT ![d] = to] /\ UNCHANGED statVars
      \/ \E to \in Counted, success \in BOOLEAN : pc' = [pc EXCEPT ![d] = to] /\ CountJob(success)
  <2>1. CASE Lookup(d)
    BY <2>1 DEF Lookup, Uncounted, Counted
  <2>2. CASE AcquirePrinter(d) \/ Poll(d)
    BY <2>2 DEF AcquirePrinter, Poll, Uncounted
  <2>3. CASE NativePrint(d)
    BY <2>3 DEF NativePrint, Uncounted, Counted
  <2>4. CASE Update(d)
    BY <2>4 DEF Update, Uncounted, Counted
  <2>5. QED
    BY <2>1, <2>2, <2>3, <2>4
<1>3. QED
  BY <1>1, <1>2, UncountedRefines, CountRefines

LEMMA ClosingRefines ==
  ASSUME IInv, IInv', NEW d \in Deliveries,
         Abort(d) \/ ReleaseJob(d) \/ DeleteInFlightJob(d) \/ RemoveFile(d)
  PROVE  [Service!ServiceNext]_(Service!serviceVars)
<1>1. UNCHANGED statVars
  BY DEF Abort, ReleaseJob, DeleteInFlightJob, RemoveFile
<1>2. CASE Abort(d) \/ ReleaseJob(d)
  <2>1. /\ pc[d] \in Counted /\ "leave" \in Counted /\ "leave" \in Step
        /\ pc' = [pc EXCEPT ![d] = "leave"]
    BY <1>2 DEF Abort, ReleaseJob, Step, Critical, Counted
  <2>2. Stages' = Stages
    BY <2>1, SameClassKeepsStages, ClassOf
  <2>3. QED
    BY <1>1, <2>2, Stutter
<1>3. CASE DeleteInFlightJob(d)
  <2>1. /\ pc[d] \in Counted /\ "remove" \in Step /\ pc' = [pc EXCEPT ![d] = "remove"]
    BY <1>3 DEF DeleteInFlightJob, Step, Counted
  <2>2. /\ StageOf(JobOf(d)) = "counted"
        /\ Stages' = [Stages EXCEPT ![JobOf(d)] = "idle"]
    BY <2>1, OwnStage, ClassOf, StepClasses
  <2>3. Service!Conclude(JobOf(d))
    BY <1>1, <2>2, DeliveryParts DEF Stages, Service!Conclude
  <2>4. QED
    BY <2>3, DeliveryParts DEF Service!ServiceNext
<1>4. CASE RemoveFile(d)
  <2>1. pc[d] = "remove" /\ "end" \in Step /\ pc' = [pc EXCEPT ![d] = "end"]
    BY <1>4 DEF RemoveFile, Step
  <2>2. Stages' = Stages
    BY <2>1, SameClassKeepsStages, ClassOf
  <2>3. QED
    BY <1>1, <2>2, Stutter
<1>5. QED
  BY <1>2, <1>3, <1>4

\* What moves no delivery across the borders of printJob: fetching jobs,
\* receiving them, and the environment.
LEMMA OutsideRefines ==
  ASSUME IInv, IInv',
         \/ \E p \in Printers : HandleJobs(p)
         \/ ReceiveJob \/ Environment \/ Quit \/ UNCHANGED vars
  PROVE  UNCHANGED Service!serviceVars
<1>1. UNCHANGED statVars
  BY DEF HandleJobs, ReceiveJob, Environment, NativeStall, NativeFinish, PrinterLeaves,
     PrinterEnters, Quit, vars
<1>2. \A d \in Deliveries : pc'[d] # pc[d] => pc[d] \in {"none", "queued"} /\ pc'[d] \in {"ticket", "start"}
  <2>1. CASE \E p \in Printers : HandleJobs(p)
    BY <2>1, DeliveryParts DEF HandleJobs, IInv, FreshNone, Queued, TypeOK
  <2>2. CASE ReceiveJob
    <3>1. Len(jobs) \in Nat /\ Len(jobs) > 0 /\ Head(jobs) = jobs[1] /\ jobs[1] \in Deliveries
      BY <2>2 DEF ReceiveJob, IInv, TypeOK
    <3>2. pc[jobs[1]] = "queued" /\ pc' = [pc EXCEPT ![jobs[1]] = "start"]
      BY <2>2, <3>1 DEF ReceiveJob, IInv, QueueExact
    <3>3. QED
      BY <3>1, <3>2 DEF IInv, TypeOK
  <2>3. CASE Environment \/ Quit \/ UNCHANGED vars
    BY <2>3 DEF Environment, NativeStall, NativeFinish, PrinterLeaves, PrinterEnters, Quit, vars
  <2>4. QED
    BY <2>1, <2>2, <2>3
<1>3. \A d \in Deliveries : /\ pc'[d] \in Uncounted <=> pc[d] \in Uncounted
                            /\ pc'[d] \in Counted <=> pc[d] \in Counted
  BY <1>2 DEF Uncounted, Counted
<1>4. \A j \in Jobs : StageOf(j)' = StageOf(j)
  BY <1>3 DEF StageOf
<1>5. QED
  BY <1>1, <1>4, Stutter DEF Stages

LEMMA NextRefines ==
  ASSUME IInv, IInv', [Next]_vars
  PROVE  [Service!ServiceNext]_(Service!serviceVars)
<1>1. ASSUME NEW d \in Deliveries, PrintJob(d)
      PROVE  [Service!ServiceNext]_(Service!serviceVars)
  BY <1>1, AddInFlightJobRefines, PrintingRefines, ClosingRefines DEF PrintJob
<1>2. ASSUME NEW d \in Deliveries, ProcessJob(d)
      PROVE  [Service!ServiceNext]_(Service!serviceVars)
  BY <1>2, ProcessJobRefines
<1>3. QED
  BY <1>1, <1>2, OutsideRefines DEF Next

LEMMA InitRefines == Init => Service!ServiceInit
<1> SUFFICES ASSUME Init PROVE Service!ServiceInit
  OBVIOUS
<1>1. \A j \in Jobs : StageOf(j) = "idle"
  BY DEF Init, InitWith, StageOf, Uncounted, Counted
<1>2. QED
  BY <1>1 DEF Init, InitWith, Service!ServiceInit

\* What the manager does with deliveries, goroutines and channels is what
\* PrintService promises: at most one attempt at a job is under way, and each
\* is counted exactly once before the next may begin.
THEOREM Refinement == Spec => ImplementsService
<1>1. Init => Service!ServiceInit
  BY InitRefines
<1>2. IInv /\ IInv' /\ [Next]_vars => [Service!ServiceNext]_(Service!serviceVars)
  BY NextRefines
<1>3. QED
  BY <1>1, <1>2, Invariance, PTL DEF Spec, ImplementsService, Service!ServiceSpec
=============================================================================
