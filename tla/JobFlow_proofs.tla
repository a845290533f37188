--------------------------- MODULE JobFlow_proofs ---------------------------
(***************************************************************************)
(* Theorems about JobFlow, for any jobs, printers, deliveries, semaphore   *)
(* sizes and failures.                                                     *)
(***************************************************************************)
EXTENDS JobFlow, FiniteSetTheorems, TLAPS

-----------------------------------------------------------------------------
(* The inductive invariant *)

\* A delivery has begun if and only if its number has been handed out.
FreshNone == \A d \in Deliveries : pc[d] = "none" <=> d[2] > delivered[JobOf(d)]

\* The channel holds the deliveries that wait on it, each one once.
QueueExact ==
  /\ \A k \in 1 .. Len(jobs) : pc[jobs[k]] = "queued"
  /\ \A k, l \in 1 .. Len(jobs) : jobs[k] = jobs[l] => k = l

\* A delivery that follows a native job has one, and reports a real state.
FollowsJob ==
  \A d \in Deliveries :
    /\ pc[d] \in {"poll", "update"} => native[d] # "none"
    /\ pc[d] = "update" => state[d] # "none"

IInv ==
  /\ TypeOK /\ FreshNone /\ QueueExact /\ FollowsJob
  /\ OnePrintAtATime /\ SemaphoresExact

\* There are finitely many deliveries, so that those at a step can be counted.
LEMMA DeliveriesFinite == IsFiniteSet(Deliveries)
<1>1. IsFiniteSet(1 .. MaxDeliveries)
  BY FS_Interval, ConstantsAssumption
<1>2. QED
  BY <1>1, FS_Product, ConstantsAssumption DEF Deliveries

\* A delivery consists of a job and a number.
LEMMA DeliveryParts ==
  ASSUME NEW d \in Deliveries
  PROVE  /\ JobOf(d) \in Jobs /\ d[2] \in 1 .. MaxDeliveries /\ d = <<JobOf(d), d[2]>>
         /\ Printer(d) \in Printers
  BY ConstantsAssumption DEF Deliveries, JobOf, Printer

LEMMA Bounds ==
  /\ MaxDeliveries \in Nat /\ MaxFaults \in Nat /\ MaxSemaphores \in Nat
  /\ MaxDownloads \in Nat /\ JobsCap \in Nat /\ QueueSize \in Nat
  /\ MaxDownloads > 0 /\ QueueSize > 0
  BY ConstantsAssumption

LEMMA States ==
  /\ "ABORTED" \in NativeState /\ "IN_PROGRESS" \in NativeState
  /\ Final \subseteq NativeState
  BY DEF NativeState, Final

-----------------------------------------------------------------------------
(* What a step of one delivery leaves intact *)

\* The parts of the invariant survive a step of a delivery that is neither
\* fresh nor on the channel.
LEMMA MoveKeepsQueue ==
  ASSUME TypeOK, FreshNone, QueueExact,
         NEW d \in Deliveries, NEW to \in Step \ {"none"},
         pc[d] \notin {"none", "queued"}, pc' = [pc EXCEPT ![d] = to],
         UNCHANGED <<jobs, delivered>>
  PROVE  FreshNone' /\ QueueExact'
<1>1. FreshNone'
  BY DEF FreshNone, TypeOK, JobOf
<1>2. QueueExact'
  BY DEF QueueExact, TypeOK
<1>3. QED
  BY <1>1, <1>2

\* Mutual exclusion survives a step that neither enters nor leaves printJob's
\* critical part.
LEMMA MoveKeepsExclusion ==
  ASSUME TypeOK, OnePrintAtATime,
         NEW d \in Deliveries, NEW to \in Step, pc' = [pc EXCEPT ![d] = to],
         pc[d] \in Critical <=> to \in Critical, UNCHANGED inFlight
  PROVE  OnePrintAtATime'
<1>1. \A e \in Deliveries : pc'[e] \in Critical <=> pc[e] \in Critical
  BY DEF TypeOK
<1>2. QED
  BY <1>1 DEF OnePrintAtATime

\* The semaphores survive a step that holds none of them before or after.
LEMMA MoveKeepsSemaphores ==
  ASSUME TypeOK, SemaphoresExact,
         NEW d \in Deliveries, NEW to \in Step, pc' = [pc EXCEPT ![d] = to],
         pc[d] \notin {"download", "submit"}, to \notin {"download", "submit"},
         \A e \in Deliveries : e # d => mine'[e] = mine[e],
         UNCHANGED <<downloads, acquired>>
  PROVE  SemaphoresExact'
<1>1. Downloading' = Downloading
  BY DEF TypeOK, Downloading
<1>2. ASSUME NEW p \in Printers, NEW s \in Semaphores
      PROVE  Submitting(p, s)' = Submitting(p, s)
  BY DEF TypeOK, Submitting, Printer
<1>3. QED
  BY <1>1, <1>2 DEF SemaphoresExact, Semaphores

-----------------------------------------------------------------------------
(* The invariant holds initially, and every action preserves it *)

USE DEF gcpVars, semVars, nativeVars, statVars, cloudVars, assembleFrame, nativeFrame,
        At, GoTo, Fault, NoFault

LEMMA InitIInv == Init => IInv
<1> SUFFICES ASSUME Init PROVE IInv
  OBVIOUS
<1>1. TypeOK
  <2>1. 0 \in Semaphores /\ 0 \in 0 .. QueueSize /\ 0 \in 0 .. MaxDownloads /\ 0 \in 0 .. MaxDeliveries
    BY Bounds DEF Semaphores
  <2>2. acquired \in [Printers -> [Semaphores -> 0 .. QueueSize]]
    BY <2>1 DEF Init, InitWith
  <2>3. cloud \in [Jobs -> {"QUEUED"} \cup NativeState] /\ delivered \in [Jobs -> 0 .. MaxDeliveries]
    BY <2>1 DEF Init, InitWith
  <2>4. pc \in [Deliveries -> Step] /\ jobs \in Seq(Deliveries)
    BY DEF Init, InitWith, Step
  <2>5. semaphore \in [Printers -> Semaphores] /\ mine \in [Deliveries -> Semaphores]
    BY <2>1 DEF Init, InitWith
  <2>6. QED
    BY <2>1, <2>2, <2>3, <2>4, <2>5 DEF Init, InitWith, TypeOK
<1>2. FreshNone
  <2>1. \A d \in Deliveries : pc[d] = "none" /\ delivered[JobOf(d)] = 0 /\ d[2] > 0
    BY DeliveryParts, ConstantsAssumption DEF Init, InitWith
  <2>2. QED
    BY <2>1 DEF FreshNone
<1>7. QueueExact /\ FollowsJob
  BY DEF Init, InitWith, QueueExact, FollowsJob
<1>3. OnePrintAtATime
  BY DEF Init, InitWith, OnePrintAtATime, Critical, Uncounted, Counted
<1>4. Downloading = {} /\ \A p \in Printers : \A s \in Semaphores : Submitting(p, s) = {}
  BY DEF Init, InitWith, Downloading, Submitting
<1>5. SemaphoresExact
  BY <1>4, FS_EmptySet DEF Init, InitWith, SemaphoresExact
<1>6. QED
  BY <1>1, <1>2, <1>3, <1>5, <1>7 DEF IInv

LEMMA HandleJobsIInv ==
  ASSUME IInv, NEW p \in Printers, HandleJobs(p)
  PROVE  IInv'
<1> USE DEF IInv
<1>1. TypeOK'
  BY ConstantsAssumption DEF HandleJobs, TypeOK, Step, Assembling, Queued
<1>2. \A d \in Deliveries : pc'[d] # pc[d] => pc[d] = "none" /\ pc'[d] = "ticket"
  BY DeliveryParts DEF HandleJobs, FreshNone, Queued, TypeOK
<1>3. FreshNone'
  BY DeliveryParts DEF HandleJobs, FreshNone, Queued, TypeOK
<1>4. QueueExact' /\ FollowsJob'
  <2>1. \A k \in 1 .. Len(jobs) : jobs[k] \in Deliveries
    BY DEF TypeOK
  <2>2. QueueExact'
    BY <1>2, <2>1 DEF QueueExact, HandleJobs
  <2>3. FollowsJob'
    BY <1>2 DEF FollowsJob, HandleJobs
  <2>4. QED
    BY <2>2, <2>3
<1>5. OnePrintAtATime'
  <2>1. \A d \in Deliveries : pc'[d] \in Critical <=> pc[d] \in Critical
    BY <1>2 DEF Critical, Uncounted, Counted
  <2>2. QED
    BY <2>1 DEF OnePrintAtATime, HandleJobs
<1>6. SemaphoresExact'
  <2>1. Downloading' = Downloading
    BY <1>2 DEF Downloading
  <2>2. ASSUME NEW q \in Printers, NEW s \in Semaphores
        PROVE  Submitting(q, s)' = Submitting(q, s)
    BY <1>2 DEF Submitting, HandleJobs, Printer
  <2>3. QED
    BY <2>1, <2>2 DEF SemaphoresExact, HandleJobs, Semaphores
<1>7. QED
  BY <1>1, <1>3, <1>4, <1>5, <1>6

\* A step outside the channel and the semaphores that does not cross the
\* border of printJob's critical part.
LEMMA PlainMove ==
  ASSUME IInv, NEW d \in Deliveries, NEW to \in Step,
         pc[d] \notin {"none", "queued", "download", "submit"},
         to \notin {"none", "download", "submit"},
         pc[d] \in Critical <=> to \in Critical,
         pc' = [pc EXCEPT ![d] = to],
         \A e \in Deliveries : e # d => mine'[e] = mine[e],
         UNCHANGED <<jobs, delivered, inFlight, downloads, acquired>>
  PROVE  FreshNone' /\ QueueExact' /\ OnePrintAtATime' /\ SemaphoresExact'
<1>1. FreshNone' /\ QueueExact'
  BY MoveKeepsQueue DEF IInv
<1>2. OnePrintAtATime'
  BY MoveKeepsExclusion DEF IInv
<1>3. SemaphoresExact'
  BY MoveKeepsSemaphores DEF IInv
<1>4. QED
  BY <1>1, <1>2, <1>3

LEMMA TicketIInv ==
  ASSUME IInv, NEW d \in Deliveries, Ticket(d)
  PROVE  IInv'
<1>1. PICK to \in {"file", "report"} : pc' = [pc EXCEPT ![d] = to]
  BY DEF Ticket
<1>2. FreshNone' /\ QueueExact' /\ OnePrintAtATime' /\ SemaphoresExact'
  BY <1>1, PlainMove DEF Ticket, Step, Assembling, Failing, Waiting, Critical, Uncounted, Counted,
     IInv, TypeOK
<1>3. TypeOK'
  <2>1. pc' \in [Deliveries -> Step] /\ JobOf(d) \in Jobs /\ Printer(d) \in Printers
    BY <1>1, DeliveryParts DEF IInv, TypeOK, Step, Assembling, Failing, Critical, Uncounted, Counted
  <2>2. QED
    BY <2>1, States DEF IInv, Ticket, TypeOK
<1>4. FollowsJob'
  BY <1>1 DEF IInv, Ticket, TypeOK, FollowsJob
<1>5. QED
  BY <1>2, <1>3, <1>4 DEF IInv

LEMMA TempFileIInv ==
  ASSUME IInv, NEW d \in Deliveries, TempFile(d)
  PROVE  IInv'
<1>1. PICK to \in {"acquire", "report"} : pc' = [pc EXCEPT ![d] = to]
  BY DEF TempFile
<1>2. FreshNone' /\ QueueExact' /\ OnePrintAtATime' /\ SemaphoresExact'
  BY <1>1, PlainMove DEF TempFile, Step, Assembling, Failing, Waiting, Critical, Uncounted, Counted,
     IInv, TypeOK
<1>3. TypeOK'
  <2>1. pc' \in [Deliveries -> Step] /\ JobOf(d) \in Jobs /\ Printer(d) \in Printers
    BY <1>1, DeliveryParts DEF IInv, TypeOK, Step, Assembling, Failing, Critical, Uncounted, Counted
  <2>2. QED
    BY <2>1, States DEF IInv, TempFile, TypeOK
<1>4. FollowsJob'
  BY <1>1 DEF IInv, TempFile, TypeOK, FollowsJob
<1>5. QED
  BY <1>2, <1>3, <1>4 DEF IInv

LEMMA ReportFailedIInv ==
  ASSUME IInv, NEW d \in Deliveries, ReportFailed(d)
  PROVE  IInv'
<1>1. PICK to \in {"control"} : pc' = [pc EXCEPT ![d] = to]
  BY DEF ReportFailed
<1>2. FreshNone' /\ QueueExact' /\ OnePrintAtATime' /\ SemaphoresExact'
  BY <1>1, PlainMove DEF ReportFailed, Step, Assembling, Failing, Waiting, Critical, Uncounted, Counted,
     IInv, TypeOK
<1>3. TypeOK'
  <2>1. pc' \in [Deliveries -> Step] /\ JobOf(d) \in Jobs /\ Printer(d) \in Printers
    BY <1>1, DeliveryParts DEF IInv, TypeOK, Step, Assembling, Failing, Critical, Uncounted, Counted
  <2>2. QED
    BY <2>1, States DEF IInv, ReportFailed, TypeOK, CountJob
<1>4. FollowsJob'
  BY <1>1 DEF IInv, ReportFailed, TypeOK, FollowsJob
<1>5. QED
  BY <1>2, <1>3, <1>4 DEF IInv

\* A report to the cloud, whether it arrives or not.
LEMMA UpdateJobTypes ==
  ASSUME NEW d \in Deliveries, NEW s \in NativeState, UpdateJob(d, s),
         cloud \in [Jobs -> {"QUEUED"} \cup NativeState], unreported \subseteq Jobs, faults \in Nat
  PROVE  /\ cloud' \in [Jobs -> {"QUEUED"} \cup NativeState]
         /\ unreported' \subseteq Jobs /\ faults' \in Nat
<1>1. JobOf(d) \in Jobs
  BY DeliveryParts
<1>2. CASE cloud' = [cloud EXCEPT ![JobOf(d)] = s] /\ UNCHANGED <<unreported, faults>>
  BY <1>1, <1>2
<1>3. CASE UNCHANGED cloud /\ unreported' = unreported \cup {JobOf(d)} /\ faults' = faults + 1
  BY <1>1, <1>3
<1>4. QED
  BY <1>2, <1>3 DEF UpdateJob, Fault, NoFault

LEMMA ControlAbortedIInv ==
  ASSUME IInv, NEW d \in Deliveries, ControlAborted(d)
  PROVE  IInv'
<1>1. PICK to \in {"end"} : pc' = [pc EXCEPT ![d] = to]
  BY DEF ControlAborted
<1>2. FreshNone' /\ QueueExact' /\ OnePrintAtATime' /\ SemaphoresExact'
  BY <1>1, PlainMove DEF ControlAborted, Step, Assembling, Failing, Waiting, Critical, Uncounted, Counted,
     IInv, TypeOK
<1>3. TypeOK'
  <2>1. pc' \in [Deliveries -> Step] /\ JobOf(d) \in Jobs /\ Printer(d) \in Printers
    BY <1>1, DeliveryParts DEF IInv, TypeOK, Step, Assembling, Failing, Critical, Uncounted, Counted
  <2>2. cloud' \in [Jobs -> {"QUEUED"} \cup NativeState] /\ unreported' \subseteq Jobs /\ faults' \in Nat
    BY UpdateJobTypes, States DEF IInv, ControlAborted, TypeOK
  <2>3. QED
    BY <2>1, <2>2 DEF IInv, ControlAborted, TypeOK
<1>4. FollowsJob'
  BY <1>1 DEF IInv, ControlAborted, TypeOK, FollowsJob
<1>5. QED
  BY <1>2, <1>3, <1>4 DEF IInv

LEMMA LookupIInv ==
  ASSUME IInv, NEW d \in Deliveries, Lookup(d)
  PROVE  IInv'
<1>1. PICK to \in {"print", "abort"} : pc' = [pc EXCEPT ![d] = to]
  BY DEF Lookup
<1>2. FreshNone' /\ QueueExact' /\ OnePrintAtATime' /\ SemaphoresExact'
  BY <1>1, PlainMove DEF Lookup, Step, Assembling, Failing, Waiting, Critical, Uncounted, Counted,
     IInv, TypeOK
<1>3. TypeOK'
  <2>1. pc' \in [Deliveries -> Step] /\ JobOf(d) \in Jobs /\ Printer(d) \in Printers
    BY <1>1, DeliveryParts DEF IInv, TypeOK, Step, Assembling, Failing, Critical, Uncounted, Counted
  <2>2. state' \in [Deliveries -> {"none"} \cup NativeState]
    BY States DEF IInv, Lookup, TypeOK
  <2>3. mine' \in [Deliveries -> Semaphores]
    BY <2>1 DEF IInv, Lookup, TypeOK
  <2>4. jobsDone' \in Nat /\ jobsError' \in Nat
    BY DEF IInv, Lookup, TypeOK, CountJob
  <2>5. QED
    BY <2>1, <2>2, <2>3, <2>4 DEF IInv, Lookup, TypeOK
<1>4. FollowsJob'
  BY <1>1 DEF IInv, Lookup, TypeOK, FollowsJob
<1>5. QED
  BY <1>2, <1>3, <1>4 DEF IInv

LEMMA PollIInv ==
  ASSUME IInv, NEW d \in Deliveries, Poll(d)
  PROVE  IInv'
<1>1. PICK to \in {"update"} : pc' = [pc EXCEPT ![d] = to]
  BY DEF Poll
<1>2. FreshNone' /\ QueueExact' /\ OnePrintAtATime' /\ SemaphoresExact'
  BY <1>1, PlainMove DEF Poll, Step, Assembling, Failing, Waiting, Critical, Uncounted, Counted,
     IInv, TypeOK
<1>3. TypeOK'
  <2>1. pc' \in [Deliveries -> Step] /\ JobOf(d) \in Jobs /\ Printer(d) \in Printers
    BY <1>1, DeliveryParts DEF IInv, TypeOK, Step, Assembling, Failing, Critical, Uncounted, Counted
  <2>2. state' \in [Deliveries -> {"none"} \cup NativeState]
    BY <2>1, States DEF IInv, Poll, TypeOK
  <2>3. faults' \in Nat
    BY <2>1, States DEF IInv, Poll, TypeOK
  <2>4. QED
    BY <2>1, <2>2, <2>3, States DEF IInv, Poll, TypeOK
<1>4. FollowsJob'
  BY <1>1 DEF IInv, Poll, TypeOK, FollowsJob
<1>5. QED
  BY <1>2, <1>3, <1>4 DEF IInv

LEMMA UpdateIInv ==
  ASSUME IInv, NEW d \in Deliveries, Update(d)
  PROVE  IInv'
<1>1. PICK to \in {"release", "poll"} : pc' = [pc EXCEPT ![d] = to]
  BY DEF Update
<1>2. FreshNone' /\ QueueExact' /\ OnePrintAtATime' /\ SemaphoresExact'
  BY <1>1, PlainMove DEF Update, Step, Assembling, Failing, Waiting, Critical, Uncounted, Counted,
     IInv, TypeOK
<1>3. TypeOK'
  <2>1. pc' \in [Deliveries -> Step] /\ JobOf(d) \in Jobs /\ Printer(d) \in Printers
    BY <1>1, DeliveryParts DEF IInv, TypeOK, Step, Assembling, Failing, Critical, Uncounted, Counted
  <2>2. state[d] \in NativeState
    BY DEF IInv, TypeOK, FollowsJob, Update, At
  <2>3. cloud' \in [Jobs -> {"QUEUED"} \cup NativeState] /\ unreported' \subseteq Jobs /\ faults' \in Nat
    BY <2>2, UpdateJobTypes DEF IInv, Update, TypeOK
  <2>4. jobsDone' \in Nat /\ jobsError' \in Nat
    BY DEF IInv, Update, TypeOK, CountJob
  <2>5. QED
    BY <2>1, <2>3, <2>4 DEF IInv, Update, TypeOK
<1>4. FollowsJob'
  BY <1>1 DEF IInv, Update, TypeOK, FollowsJob
<1>5. QED
  BY <1>2, <1>3, <1>4 DEF IInv

LEMMA AbortIInv ==
  ASSUME IInv, NEW d \in Deliveries, Abort(d)
  PROVE  IInv'
<1>1. PICK to \in {"leave"} : pc' = [pc EXCEPT ![d] = to]
  BY DEF Abort
<1>2. FreshNone' /\ QueueExact' /\ OnePrintAtATime' /\ SemaphoresExact'
  BY <1>1, PlainMove DEF Abort, Step, Assembling, Failing, Waiting, Critical, Uncounted, Counted,
     IInv, TypeOK
<1>3. TypeOK'
  <2>1. pc' \in [Deliveries -> Step] /\ JobOf(d) \in Jobs /\ Printer(d) \in Printers
    BY <1>1, DeliveryParts DEF IInv, TypeOK, Step, Assembling, Failing, Critical, Uncounted, Counted
  <2>2. cloud' \in [Jobs -> {"QUEUED"} \cup NativeState] /\ unreported' \subseteq Jobs /\ faults' \in Nat
    BY UpdateJobTypes, States DEF IInv, Abort, TypeOK
  <2>3. QED
    BY <2>1, <2>2 DEF IInv, Abort, TypeOK
<1>4. FollowsJob'
  BY <1>1 DEF IInv, Abort, TypeOK, FollowsJob
<1>5. QED
  BY <1>2, <1>3, <1>4 DEF IInv

LEMMA ReleaseJobIInv ==
  ASSUME IInv, NEW d \in Deliveries, ReleaseJob(d)
  PROVE  IInv'
<1>1. PICK to \in {"leave"} : pc' = [pc EXCEPT ![d] = to]
  BY DEF ReleaseJob
<1>2. FreshNone' /\ QueueExact' /\ OnePrintAtATime' /\ SemaphoresExact'
  BY <1>1, PlainMove DEF ReleaseJob, Step, Assembling, Failing, Waiting, Critical, Uncounted, Counted,
     IInv, TypeOK
<1>3. TypeOK'
  <2>1. pc' \in [Deliveries -> Step] /\ JobOf(d) \in Jobs /\ Printer(d) \in Printers
    BY <1>1, DeliveryParts DEF IInv, TypeOK, Step, Assembling, Failing, Critical, Uncounted, Counted
  <2>2. QED
    BY <2>1, States DEF IInv, ReleaseJob, TypeOK
<1>4. FollowsJob'
  BY <1>1 DEF IInv, ReleaseJob, TypeOK, FollowsJob
<1>5. QED
  BY <1>2, <1>3, <1>4 DEF IInv

LEMMA RemoveFileIInv ==
  ASSUME IInv, NEW d \in Deliveries, RemoveFile(d)
  PROVE  IInv'
<1>1. PICK to \in {"end"} : pc' = [pc EXCEPT ![d] = to]
  BY DEF RemoveFile
<1>2. FreshNone' /\ QueueExact' /\ OnePrintAtATime' /\ SemaphoresExact'
  BY <1>1, PlainMove DEF RemoveFile, Step, Assembling, Failing, Waiting, Critical, Uncounted, Counted,
     IInv, TypeOK
<1>3. TypeOK'
  <2>1. pc' \in [Deliveries -> Step] /\ JobOf(d) \in Jobs /\ Printer(d) \in Printers
    BY <1>1, DeliveryParts DEF IInv, TypeOK, Step, Assembling, Failing, Critical, Uncounted, Counted
  <2>2. QED
    BY <2>1, States DEF IInv, RemoveFile, TypeOK
<1>4. FollowsJob'
  BY <1>1 DEF IInv, RemoveFile, TypeOK, FollowsJob
<1>5. QED
  BY <1>2, <1>3, <1>4 DEF IInv

-----------------------------------------------------------------------------
(* The channel *)

LEMMA SendJobIInv ==
  ASSUME IInv, NEW d \in Deliveries, SendJob(d)
  PROVE  IInv'
<1>1. pc' = [pc EXCEPT ![d] = "queued"] /\ pc[d] = "send" /\ jobs' = Append(jobs, d)
  BY DEF SendJob
<1>2. TypeOK'
  <2>1. jobs' \in Seq(Deliveries)
    BY <1>1 DEF IInv, TypeOK
  <2>2. QED
    BY <1>1, <2>1 DEF SendJob, IInv, TypeOK, Step, Waiting
<1>3. FreshNone' /\ FollowsJob'
  BY <1>1 DEF SendJob, IInv, TypeOK, FreshNone, FollowsJob
<1>4. QueueExact'
  <2>1. /\ Len(jobs') = Len(jobs) + 1 /\ Len(jobs) \in Nat
        /\ \A k \in 1 .. Len(jobs) : jobs[k] \in Deliveries /\ jobs'[k] = jobs[k]
        /\ jobs'[Len(jobs) + 1] = d
    BY <1>1 DEF IInv, TypeOK
  <2>2. \A k \in 1 .. Len(jobs) : pc[jobs[k]] = "queued" /\ jobs[k] # d
    BY <1>1 DEF IInv, QueueExact
  <2>3. \A k \in 1 .. Len(jobs') : pc'[jobs'[k]] = "queued"
    BY <1>1, <2>1, <2>2 DEF IInv, TypeOK
  <2>4. \A k, l \in 1 .. Len(jobs') : jobs'[k] = jobs'[l] => k = l
    BY <2>1, <2>2 DEF IInv, QueueExact
  <2>5. QED
    BY <2>3, <2>4 DEF QueueExact
<1>5. OnePrintAtATime'
  BY <1>1, MoveKeepsExclusion DEF SendJob, IInv, Step, Waiting, Critical, Uncounted, Counted
<1>6. SemaphoresExact'
  <2>1. "queued" \in Step /\ mine' = mine /\ downloads' = downloads /\ acquired' = acquired
    BY DEF SendJob, Step, Waiting
  <2>2. QED
    BY <1>1, <2>1, MoveKeepsSemaphores DEF IInv
<1>7. QED
  BY <1>2, <1>3, <1>4, <1>5, <1>6 DEF IInv

LEMMA ReceiveJobIInv ==
  ASSUME IInv, ReceiveJob
  PROVE  IInv'
<1> DEFINE d == Head(jobs)
<1>1. /\ Len(jobs) \in Nat /\ Len(jobs) > 0 /\ d = jobs[1]
      /\ \A k \in 1 .. Len(jobs) : jobs[k] \in Deliveries
      /\ Len(jobs') = Len(jobs) - 1 /\ jobs' \in Seq(Deliveries)
      /\ \A k \in 1 .. Len(jobs') : jobs'[k] = jobs[k + 1]
  BY DEF ReceiveJob, IInv, TypeOK
<1>2. d \in Deliveries /\ pc[d] = "queued" /\ pc' = [pc EXCEPT ![d] = "start"]
  BY <1>1 DEF ReceiveJob, IInv, QueueExact
<1> HIDE DEF d
<1>3. TypeOK'
  BY <1>1, <1>2 DEF ReceiveJob, IInv, TypeOK, Step, Waiting
<1>4. FreshNone' /\ FollowsJob'
  BY <1>2 DEF ReceiveJob, IInv, TypeOK, FreshNone, FollowsJob
<1>5. QueueExact'
  <2>1. \A k \in 1 .. Len(jobs') : k + 1 \in 1 .. Len(jobs) /\ jobs'[k] = jobs[k + 1] /\ jobs[k + 1] # d
    BY <1>1 DEF IInv, QueueExact
  <2>2. \A k \in 1 .. Len(jobs') : pc'[jobs'[k]] = "queued"
    <3>1. \A k \in 1 .. Len(jobs') : jobs[k + 1] \in Deliveries /\ pc[jobs[k + 1]] = "queued"
      BY <1>1, <2>1 DEF IInv, QueueExact
    <3>2. \A e \in Deliveries \ {d} : pc'[e] = pc[e]
      BY <1>2 DEF IInv, TypeOK
    <3>3. QED
      BY <2>1, <3>1, <3>2
  <2>3. \A k, l \in 1 .. Len(jobs') : jobs'[k] = jobs'[l] => k = l
    BY <2>1 DEF IInv, QueueExact
  <2>4. QED
    BY <2>2, <2>3 DEF QueueExact
<1>6. OnePrintAtATime'
  BY <1>2, MoveKeepsExclusion DEF ReceiveJob, IInv, Step, Waiting, Critical, Uncounted, Counted
<1>7. SemaphoresExact'
  <2>1. "start" \in Step /\ mine' = mine /\ downloads' = downloads /\ acquired' = acquired
    BY DEF ReceiveJob, Step, Waiting
  <2>2. QED
    BY <1>2, <2>1, MoveKeepsSemaphores DEF IInv
<1>8. QED
  BY <1>3, <1>4, <1>5, <1>6, <1>7 DEF IInv

-----------------------------------------------------------------------------
(* The in-flight set *)

LEMMA AddInFlightJobIInv ==
  ASSUME IInv, NEW d \in Deliveries, AddInFlightJob(d)
  PROVE  IInv'
<1>1. PICK to \in {"remove", "lookup"} : pc' = [pc EXCEPT ![d] = to]
  BY DEF AddInFlightJob
<1>2. TypeOK'
  BY <1>1, DeliveryParts DEF AddInFlightJob, IInv, TypeOK, Step, Critical, Uncounted
<1>3. FreshNone' /\ QueueExact'
  BY <1>1, MoveKeepsQueue DEF AddInFlightJob, IInv, Step, Critical, Uncounted
<1>4. FollowsJob'
  BY <1>1 DEF AddInFlightJob, IInv, TypeOK, FollowsJob
<1>5. SemaphoresExact'
  BY <1>1, MoveKeepsSemaphores DEF AddInFlightJob, IInv, Step, Critical, Uncounted
<1>6. OnePrintAtATime'
  <2>1. CASE JobOf(d) \in inFlight
    BY <2>1, MoveKeepsExclusion
       DEF AddInFlightJob, IInv, Step, Critical, Uncounted, Counted
  <2>2. CASE JobOf(d) \notin inFlight
    <3>1. /\ pc' = [pc EXCEPT ![d] = "lookup"] /\ inFlight' = inFlight \cup {JobOf(d)}
          /\ pc[d] \notin Critical /\ pc'[d] \in Critical
      BY <2>2 DEF AddInFlightJob, IInv, TypeOK, Critical, Uncounted, Counted
    <3>2. \A e \in Deliveries : pc[e] \in Critical => JobOf(e) # JobOf(d)
      BY <2>2 DEF IInv, OnePrintAtATime
    <3>3. \A e \in Deliveries : pc'[e] \in Critical <=> (e = d \/ pc[e] \in Critical)
      BY <3>1 DEF IInv, TypeOK
    <3>4. {JobOf(e) : e \in {f \in Deliveries : pc'[f] \in Critical}}
          = {JobOf(e) : e \in {f \in Deliveries : pc[f] \in Critical}} \cup {JobOf(d)}
      BY <3>3
    <3>5. inFlight' = {JobOf(e) : e \in {f \in Deliveries : pc'[f] \in Critical}}
      BY <3>1, <3>4 DEF IInv, OnePrintAtATime
    <3>6. \A e, f \in Deliveries :
            (JobOf(e) = JobOf(f) /\ pc'[e] \in Critical /\ pc'[f] \in Critical) => e = f
      BY <3>2, <3>3 DEF IInv, OnePrintAtATime
    <3>7. QED
      BY <3>5, <3>6 DEF OnePrintAtATime
  <2>3. QED
    BY <2>1, <2>2
<1>7. QED
  BY <1>2, <1>3, <1>4, <1>5, <1>6 DEF IInv

LEMMA DeleteInFlightJobIInv ==
  ASSUME IInv, NEW d \in Deliveries, DeleteInFlightJob(d)
  PROVE  IInv'
<1>1. pc' = [pc EXCEPT ![d] = "remove"] /\ pc[d] = "leave" /\ inFlight' = inFlight \ {JobOf(d)}
  BY DEF DeleteInFlightJob
<1>2. TypeOK'
  BY <1>1 DEF DeleteInFlightJob, IInv, TypeOK, Step
<1>3. FreshNone' /\ QueueExact'
  BY <1>1, MoveKeepsQueue DEF DeleteInFlightJob, IInv, Step
<1>4. FollowsJob'
  BY <1>1 DEF DeleteInFlightJob, IInv, TypeOK, FollowsJob
<1>5. SemaphoresExact'
  <2>1. "remove" \in Step /\ mine' = mine /\ downloads' = downloads /\ acquired' = acquired
    BY DEF DeleteInFlightJob, Step
  <2>2. QED
    BY <1>1, <2>1, MoveKeepsSemaphores DEF IInv
<1>6. OnePrintAtATime'
  <2>1. \A e \in Deliveries : pc'[e] \in Critical <=> (e # d /\ pc[e] \in Critical)
    BY <1>1 DEF IInv, TypeOK, Critical, Uncounted, Counted
  <2>2. \A e \in Deliveries : (pc[e] \in Critical /\ e # d) => JobOf(e) # JobOf(d)
    BY <1>1 DEF IInv, OnePrintAtATime, Critical, Counted
  <2>3. {JobOf(e) : e \in {f \in Deliveries : pc'[f] \in Critical}}
        = {JobOf(e) : e \in {f \in Deliveries : pc[f] \in Critical}} \ {JobOf(d)}
    BY <2>1, <2>2
  <2>4. inFlight' = {JobOf(e) : e \in {f \in Deliveries : pc'[f] \in Critical}}
    BY <1>1, <2>3 DEF IInv, OnePrintAtATime
  <2>5. \A e, f \in Deliveries :
          (JobOf(e) = JobOf(f) /\ pc'[e] \in Critical /\ pc'[f] \in Critical) => e = f
    BY <2>1 DEF IInv, OnePrintAtATime
  <2>6. QED
    BY <2>4, <2>5 DEF OnePrintAtATime
<1>7. QED
  BY <1>2, <1>3, <1>4, <1>5, <1>6 DEF IInv

-----------------------------------------------------------------------------
(* The semaphores *)

LEMMA HoldersFinite ==
  /\ IsFiniteSet(Downloading) /\ Cardinality(Downloading) \in Nat
  /\ \A p, s : IsFiniteSet(Submitting(p, s)) /\ Cardinality(Submitting(p, s)) \in Nat
<1>1. Downloading \in SUBSET Deliveries /\ \A p, s : Submitting(p, s) \in SUBSET Deliveries
  BY DEF Downloading, Submitting
<1>2. QED
  BY <1>1, DeliveriesFinite, FS_Subset, FS_CardinalityType

LEMMA AcquireDownloadIInv ==
  ASSUME IInv, NEW d \in Deliveries, AcquireDownload(d)
  PROVE  IInv'
<1>1. /\ pc[d] = "acquire" /\ pc' = [pc EXCEPT ![d] = "download"] /\ "download" \in Step
      /\ downloads < MaxDownloads /\ downloads' = downloads + 1
  BY DEF AcquireDownload, Step, Assembling
<1>2. TypeOK'
  BY <1>1, Bounds DEF AcquireDownload, IInv, TypeOK
<1>3. FreshNone' /\ QueueExact'
  BY <1>1, MoveKeepsQueue DEF AcquireDownload, IInv
<1>4. FollowsJob'
  BY <1>1 DEF AcquireDownload, IInv, TypeOK, FollowsJob
<1>5. OnePrintAtATime'
  BY <1>1, MoveKeepsExclusion DEF AcquireDownload, IInv, Critical, Uncounted, Counted
<1>6. SemaphoresExact'
  <2>1. Downloading' = Downloading \cup {d} /\ d \notin Downloading
    BY <1>1 DEF Downloading, IInv, TypeOK
  <2>2. Cardinality(Downloading') = Cardinality(Downloading) + 1
    BY <2>1, HoldersFinite, FS_AddElement
  <2>3. ASSUME NEW p \in Printers, NEW s \in Semaphores
        PROVE  Submitting(p, s)' = Submitting(p, s)
    BY <1>1 DEF AcquireDownload, Submitting, IInv, TypeOK, Printer
  <2>4. QED
    BY <1>1, <2>2, <2>3 DEF AcquireDownload, IInv, SemaphoresExact, Semaphores
<1>7. QED
  BY <1>2, <1>3, <1>4, <1>5, <1>6 DEF IInv

LEMMA DownloadIInv ==
  ASSUME IInv, NEW d \in Deliveries, Download(d)
  PROVE  IInv'
<1>1. PICK to \in {"send", "report"} : pc' = [pc EXCEPT ![d] = to]
  BY DEF Download
<1>2. pc[d] = "download" /\ downloads' = downloads - 1 /\ to \in Step
  BY <1>1 DEF Download, Step, Assembling, Failing
<1>3. SemaphoresExact'
  <2>1. Downloading' = Downloading \ {d} /\ d \in Downloading
    BY <1>1, <1>2 DEF Downloading, IInv, TypeOK
  <2>2. Cardinality(Downloading') = Cardinality(Downloading) - 1
    BY <2>1, HoldersFinite, FS_RemoveElement
  <2>3. ASSUME NEW p \in Printers, NEW s \in Semaphores
        PROVE  Submitting(p, s)' = Submitting(p, s)
    BY <1>1, <1>2 DEF Download, Submitting, IInv, TypeOK, Printer
  <2>4. QED
    BY <1>2, <2>2, <2>3 DEF Download, IInv, SemaphoresExact, Semaphores
<1>4. downloads > 0
  <2>1. Downloading # {}
    BY <1>2 DEF Downloading
  <2>2. Cardinality(Downloading) # 0
    BY <2>1, HoldersFinite, FS_EmptySet
  <2>3. QED
    BY <2>2, HoldersFinite DEF IInv, SemaphoresExact
<1>5. TypeOK'
  <2>1. pc' \in [Deliveries -> Step] /\ downloads' \in 0 .. MaxDownloads
    BY <1>1, <1>2, <1>4, Bounds DEF IInv, TypeOK
  <2>2. files' \subseteq Deliveries /\ faults' \in Nat
    BY DEF Download, IInv, TypeOK
  <2>3. QED
    BY <2>1, <2>2 DEF Download, IInv, TypeOK
<1>6. FreshNone' /\ QueueExact'
  BY <1>1, <1>2, MoveKeepsQueue DEF Download, IInv
<1>7. FollowsJob'
  BY <1>1, <1>2 DEF Download, IInv, TypeOK, FollowsJob
<1>8. OnePrintAtATime'
  BY <1>1, <1>2, MoveKeepsExclusion DEF Download, IInv, Critical, Uncounted, Counted
<1>9. QED
  BY <1>3, <1>5, <1>6, <1>7, <1>8 DEF IInv

LEMMA AcquirePrinterIInv ==
  ASSUME IInv, NEW d \in Deliveries, AcquirePrinter(d)
  PROVE  IInv'
<1>0. PICK P \in Printers, M \in Semaphores : P = Printer(d) /\ M = mine[d]
  BY DeliveryParts DEF IInv, TypeOK
<1>1. /\ pc[d] = "print" /\ pc' = [pc EXCEPT ![d] = "submit"] /\ "submit" \in Step
      /\ acquired[P][M] < QueueSize
      /\ acquired' = [acquired EXCEPT ![P][M] = @ + 1]
      /\ mine' = mine /\ downloads' = downloads
  BY <1>0 DEF AcquirePrinter, Step, Critical, Uncounted
<1>3. /\ acquired' \in [Printers -> [Semaphores -> 0 .. QueueSize]]
      /\ acquired'[P][M] = acquired[P][M] + 1
      /\ \A p \in Printers, s \in Semaphores : (p # P \/ s # M) => acquired'[p][s] = acquired[p][s]
  <2>1. /\ acquired \in [Printers -> [Semaphores -> 0 .. QueueSize]]
        /\ acquired[P][M] + 1 \in 0 .. QueueSize
    BY <1>1, Bounds DEF IInv, TypeOK
  <2>2. QED
    BY <1>1, <2>1
<1>4. TypeOK'
  BY <1>1, <1>3 DEF AcquirePrinter, IInv, TypeOK
<1>5. FreshNone' /\ QueueExact'
  BY <1>1, MoveKeepsQueue DEF AcquirePrinter, IInv
<1>6. FollowsJob'
  BY <1>1 DEF AcquirePrinter, IInv, TypeOK, FollowsJob
<1>7. OnePrintAtATime'
  BY <1>1, MoveKeepsExclusion DEF AcquirePrinter, IInv, Critical, Uncounted, Counted
<1>8. SemaphoresExact'
  <2>1. Downloading' = Downloading
    BY <1>1 DEF Downloading, IInv, TypeOK
  <2>2. Submitting(P, M)' = Submitting(P, M) \cup {d} /\ d \notin Submitting(P, M)
    BY <1>0, <1>1 DEF Submitting, IInv, TypeOK, Printer
  <2>3. Cardinality(Submitting(P, M)') = Cardinality(Submitting(P, M)) + 1
    BY <2>2, HoldersFinite, FS_AddElement
  <2>4. ASSUME NEW p \in Printers, NEW s \in Semaphores, p # P \/ s # M
        PROVE  Submitting(p, s)' = Submitting(p, s)
    BY <1>0, <1>1, <2>4 DEF Submitting, IInv, TypeOK, Printer
  <2>5. ASSUME NEW p \in Printers, NEW s \in Semaphores
        PROVE  acquired'[p][s] = Cardinality(Submitting(p, s)')
    <3>1. CASE p = P /\ s = M
      BY <3>1, <1>3, <2>3 DEF IInv, SemaphoresExact
    <3>2. CASE p # P \/ s # M
      BY <3>2, <1>3, <2>4 DEF IInv, SemaphoresExact
    <3>3. QED
      BY <3>1, <3>2
  <2>6. QED
    BY <1>1, <2>1, <2>5 DEF IInv, SemaphoresExact, Semaphores
<1>9. QED
  BY <1>4, <1>5, <1>6, <1>7, <1>8 DEF IInv

LEMMA NativePrintIInv ==
  ASSUME IInv, NEW d \in Deliveries, NativePrint(d)
  PROVE  IInv'
<1>0. PICK P \in Printers, M \in Semaphores : P = Printer(d) /\ M = mine[d]
  BY DeliveryParts DEF IInv, TypeOK
<1>1. PICK to \in {"poll", "abort"} : pc' = [pc EXCEPT ![d] = to]
  BY DEF NativePrint
<1>2. /\ pc[d] = "submit" /\ to \in Step
      /\ acquired' = [acquired EXCEPT ![P][M] = @ - 1]
      /\ mine' = mine /\ downloads' = downloads
  BY <1>0, <1>1 DEF NativePrint, Step, Critical, Uncounted, Counted
<1>4. acquired[P][M] > 0
  <2>1. d \in Submitting(P, M)
    BY <1>0, <1>2 DEF Submitting
  <2>2. Cardinality(Submitting(P, M)) # 0
    BY <2>1, HoldersFinite, FS_EmptySet
  <2>3. QED
    BY <2>2, HoldersFinite DEF IInv, SemaphoresExact
<1>5. /\ acquired' \in [Printers -> [Semaphores -> 0 .. QueueSize]]
      /\ acquired'[P][M] = acquired[P][M] - 1
      /\ \A p \in Printers, s \in Semaphores : (p # P \/ s # M) => acquired'[p][s] = acquired[p][s]
  <2>1. /\ acquired \in [Printers -> [Semaphores -> 0 .. QueueSize]]
        /\ acquired[P][M] - 1 \in 0 .. QueueSize
    BY <1>4, Bounds DEF IInv, TypeOK
  <2>2. QED
    BY <1>2, <2>1
<1>6. TypeOK'
  <2>1. pc' \in [Deliveries -> Step]
    BY <1>1, <1>2 DEF IInv, TypeOK
  <2>2. /\ native' \in [Deliveries -> {"none"} \cup NativeState]
        /\ held' \subseteq Deliveries /\ unreleased' \subseteq Deliveries
    <3>1. CASE /\ native' = [native EXCEPT ![d] = "IN_PROGRESS"] /\ held' = held \cup {d}
               /\ UNCHANGED unreleased
      BY <3>1, States DEF IInv, TypeOK
    <3>2. CASE UNCHANGED nativeVars
      BY <3>2 DEF nativeVars, IInv, TypeOK
    <3>3. QED
      BY <3>1, <3>2 DEF NativePrint
  <2>3. state' \in [Deliveries -> {"none"} \cup NativeState]
    BY States DEF NativePrint, IInv, TypeOK
  <2>4. jobsDone' \in Nat /\ jobsError' \in Nat /\ faults' \in Nat
    BY DEF NativePrint, IInv, TypeOK, CountJob
  <2>5. QED
    BY <1>5, <2>1, <2>2, <2>3, <2>4 DEF NativePrint, IInv, TypeOK
<1>7. FreshNone' /\ QueueExact'
  BY <1>1, <1>2, MoveKeepsQueue DEF NativePrint, IInv
<1>8. FollowsJob'
  BY <1>1, <1>2 DEF NativePrint, IInv, TypeOK, FollowsJob
<1>9. OnePrintAtATime'
  BY <1>1, <1>2, MoveKeepsExclusion DEF NativePrint, IInv, Critical, Uncounted, Counted
<1>10. SemaphoresExact'
  <2>1. Downloading' = Downloading
    BY <1>1, <1>2 DEF Downloading, IInv, TypeOK
  <2>2. Submitting(P, M)' = Submitting(P, M) \ {d} /\ d \in Submitting(P, M)
    BY <1>0, <1>1, <1>2 DEF Submitting, IInv, TypeOK, Printer
  <2>3. Cardinality(Submitting(P, M)') = Cardinality(Submitting(P, M)) - 1
    BY <2>2, HoldersFinite, FS_RemoveElement
  <2>4. ASSUME NEW p \in Printers, NEW s \in Semaphores, p # P \/ s # M
        PROVE  Submitting(p, s)' = Submitting(p, s)
    BY <1>0, <1>1, <1>2, <2>4 DEF Submitting, IInv, TypeOK, Printer
  <2>5. ASSUME NEW p \in Printers, NEW s \in Semaphores
        PROVE  acquired'[p][s] = Cardinality(Submitting(p, s)')
    <3>1. CASE p = P /\ s = M
      BY <3>1, <1>5, <2>3 DEF IInv, SemaphoresExact
    <3>2. CASE p # P \/ s # M
      BY <3>2, <1>5, <2>4 DEF IInv, SemaphoresExact
    <3>3. QED
      BY <3>1, <3>2
  <2>6. QED
    BY <1>2, <2>1, <2>5 DEF IInv, SemaphoresExact, Semaphores
<1>11. QED
  BY <1>6, <1>7, <1>8, <1>9, <1>10 DEF IInv

-----------------------------------------------------------------------------
(* The environment, and steps that change nothing *)

LEMMA StaticIInv ==
  ASSUME IInv, TypeOK', FollowsJob',
         UNCHANGED <<pc, delivered, jobs, inFlight, downloads, acquired, mine>>
  PROVE  IInv'
<1>1. Downloading' = Downloading /\ \A p, s : Submitting(p, s)' = Submitting(p, s)
  BY DEF Downloading, Submitting
<1>2. FreshNone' /\ QueueExact' /\ OnePrintAtATime' /\ SemaphoresExact'
  BY <1>1 DEF IInv, FreshNone, QueueExact, OnePrintAtATime, SemaphoresExact
<1>3. QED
  BY <1>2 DEF IInv

LEMMA EnvironmentIInv ==
  ASSUME IInv, Environment \/ Quit \/ UNCHANGED vars
  PROVE  IInv'
<1>1. ASSUME NEW d \in Deliveries, NativeStall(d) \/ NativeFinish(d)
      PROVE  IInv'
  <2>1. native[d] # "none" /\ native' \in [Deliveries -> {"none"} \cup NativeState]
    BY <1>1, States DEF NativeStall, NativeFinish, IInv, TypeOK, NativeState
  <2>2. TypeOK'
    BY <1>1, <2>1 DEF NativeStall, NativeFinish, IInv, TypeOK
  <2>3. \A e \in Deliveries : native[e] # "none" => native'[e] # "none"
    BY <1>1 DEF NativeStall, NativeFinish, IInv, TypeOK, Final
  <2>4. FollowsJob'
    BY <1>1, <2>3 DEF NativeStall, NativeFinish, IInv, FollowsJob
  <2>5. QED
    BY <1>1, <2>2, <2>4, StaticIInv DEF NativeStall, NativeFinish
<1>2. ASSUME NEW p \in Printers, PrinterLeaves(p) \/ PrinterEnters(p)
      PROVE  IInv'
  <2>0. semaphore' \in [Printers -> Semaphores]
    <3>1. 0 \in Semaphores
      BY Bounds DEF Semaphores
    <3>2. PICK s \in Semaphores : semaphore' = [semaphore EXCEPT ![p] = s]
      BY <1>2, <3>1 DEF PrinterLeaves, PrinterEnters
    <3>3. QED
      BY <3>2 DEF IInv, TypeOK
  <2>1. TypeOK'
    BY <1>2, <2>0 DEF PrinterLeaves, PrinterEnters, IInv, TypeOK
  <2>2. FollowsJob'
    BY <1>2 DEF PrinterLeaves, PrinterEnters, IInv, FollowsJob
  <2>3. QED
    BY <1>2, <2>1, <2>2, StaticIInv DEF PrinterLeaves, PrinterEnters
<1>3. CASE Quit
  <2>1. TypeOK' /\ FollowsJob'
    BY <1>3 DEF Quit, IInv, TypeOK, FollowsJob
  <2>2. QED
    BY <1>3, <2>1, StaticIInv DEF Quit
<1>4. CASE UNCHANGED vars
  <2>1. TypeOK' /\ FollowsJob'
    BY <1>4 DEF vars, IInv, TypeOK, FollowsJob
  <2>2. QED
    BY <1>4, <2>1, StaticIInv DEF vars
<1>5. QED
  BY <1>1, <1>2, <1>3, <1>4 DEF Environment

-----------------------------------------------------------------------------
(* The theorems *)

\* Every step preserves the invariant.
LEMMA NextIInv == IInv /\ [Next]_vars => IInv'
<1> SUFFICES ASSUME IInv, [Next]_vars PROVE IInv'
  OBVIOUS
<1>1. ASSUME NEW p \in Printers, HandleJobs(p) PROVE IInv'
  BY <1>1, HandleJobsIInv
<1>2. ASSUME ReceiveJob PROVE IInv'
  BY <1>2, ReceiveJobIInv
<1>3. ASSUME NEW d \in Deliveries, ProcessJob(d) PROVE IInv'
  BY <1>3, TicketIInv, TempFileIInv, AcquireDownloadIInv, DownloadIInv, ReportFailedIInv,
     ControlAbortedIInv, SendJobIInv DEF ProcessJob
<1>4. ASSUME NEW d \in Deliveries, PrintJob(d) PROVE IInv'
  BY <1>4, AddInFlightJobIInv, LookupIInv, AcquirePrinterIInv, NativePrintIInv, PollIInv,
     UpdateIInv, AbortIInv, ReleaseJobIInv, DeleteInFlightJobIInv, RemoveFileIInv DEF PrintJob
<1>5. ASSUME Environment \/ Quit \/ UNCHANGED vars PROVE IInv'
  BY <1>5, EnvironmentIInv
<1>6. QED
  BY <1>1, <1>2, <1>3, <1>4, <1>5 DEF Next

\* The strengthened invariant holds in every behaviour.
THEOREM Invariance == Spec => []IInv
<1>1. Init => IInv
  BY InitIInv
<1>2. IInv /\ [Next]_vars => IInv'
  BY NextIInv
<1>3. QED
  BY <1>1, <1>2, PTL DEF Spec

\* Every variable keeps its type: in particular no semaphore ever holds more
\* than its size or less than nothing (Semaphore.Release cannot panic).
THEOREM TypeCorrectness == Spec => []TypeOK
<1>1. IInv => TypeOK
  BY DEF IInv
<1>2. QED
  BY <1>1, Invariance, PTL

\* Two deliveries of one job are never inside printJob together, and the
\* in-flight set is the set of the jobs that are.
THEOREM MutualExclusion == Spec => []OnePrintAtATime
<1>1. IInv => OnePrintAtATime
  BY DEF IInv
<1>2. QED
  BY <1>1, Invariance, PTL

\* Each semaphore counts the goroutines between its Acquire and its Release.
THEOREM SemaphoreAccounting == Spec => []SemaphoresExact
<1>1. IInv => SemaphoresExact
  BY DEF IInv
<1>2. QED
  BY <1>1, Invariance, PTL
-----------------------------------------------------------------------------
(* What deliveries leave behind, and what the cloud is told *)

\* The steps before a delivery has a native job.
Unprinted == {"none"} \cup Assembling \cup Failing \cup Waiting \cup {"lookup", "print", "submit"}

\* The steps at which a delivery's file, native job and state are the business
\* of a step to come: a file is removed, a native job released, a state scored.
OwnsItsThings(d) ==
  /\ d \in files => pc[d] \in {"acquire", "download", "send", "remove"} \cup Waiting \cup Critical
  /\ d \in held => pc[d] \in {"poll", "update", "release"} \/ d \in unreleased
  /\ d \in unreleased => pc[d] \in {"leave", "remove", "end"}
  /\ pc[d] \in Unprinted \ {"control"} => state[d] = "none"
  /\ pc[d] \in Unprinted => native[d] = "none"
  /\ pc[d] = "poll" => state[d] \notin Final
  /\ state[d] = "DONE" => native[d] = "DONE"

\* A job the cloud shows as printing has a printJob in its poll loop, or a
\* report was lost; DONE comes from a native job; and what has been reported of
\* the only delivery of a job as final is the last that it reports.
CloudFollows(j) ==
  /\ cloud[j] \in {"IN_PROGRESS", "STOPPED"} =>
       j \in unreported \/ \E d \in Deliveries : JobOf(d) = j /\ pc[d] \in {"poll", "update"}
  /\ cloud[j] = "DONE" => \E d \in Deliveries : JobOf(d) = j /\ native[d] = "DONE"
  /\ cloud[j] \in Final /\ delivered[j] = 1 =>
       \A d \in Deliveries : JobOf(d) = j => pc[d] \in {"none", "end", "release", "leave", "remove"}

\* The second invariant, inductive relative to the first.
Outcomes ==
  /\ \A d \in Deliveries : OwnsItsThings(d)
  /\ \A j \in Jobs : CloudFollows(j)
  /\ StatsExact

Over  == {"none", "end", "release", "leave", "remove"}
Polls == {"poll", "update"}

\* A step of another delivery leaves this one alone.
Same(e) ==
  /\ pc'[e] = pc[e] /\ state'[e] = state[e] /\ native'[e] = native[e]
  /\ (e \in files' <=> e \in files) /\ (e \in held' <=> e \in held)
  /\ (e \in unreleased' <=> e \in unreleased)

LEMMA SameOwns ==
  ASSUME NEW e \in Deliveries, Same(e), OwnsItsThings(e)
  PROVE  OwnsItsThings(e)'
  BY DEF Same, OwnsItsThings

Ends(s) == {d \in Deliveries : Scored(d) /\ state[d] = s}

LEMMA EndsFinite ==
  ASSUME NEW s
  PROVE  IsFiniteSet(Ends(s)) /\ Cardinality(Ends(s)) \in Nat
  BY DeliveriesFinite, FS_Subset, FS_CardinalityType DEF Ends

\* A step that does not come to a point of no return changes no score.
LEMMA ScoreKept ==
  ASSUME TypeOK, StatsExact, UNCHANGED statVars,
         \A d \in Deliveries : \A s \in Final : (d \in Ends(s))' <=> d \in Ends(s)
  PROVE  StatsExact'
<1>1. \A s \in Final : Ends(s)' = Ends(s)
  BY DEF Ends
<1>2. Ends("DONE")' = Ends("DONE") /\ Ends("ABORTED")' = Ends("ABORTED")
  BY <1>1 DEF Final
<1>3. QED
  BY <1>2 DEF StatsExact, Ends

\* One that does scores the delivery under the state it reports.
LEMMA ScoreAdded ==
  ASSUME TypeOK, StatsExact, NEW d \in Deliveries, NEW success \in BOOLEAN,
         CountJob(success), ~Scored(d), Scored(d)',
         state'[d] = (IF success THEN "DONE" ELSE "ABORTED"),
         \A e \in Deliveries \ {d} : pc'[e] = pc[e] /\ state'[e] = state[e]
  PROVE  StatsExact'
<1>1. \A e \in Deliveries \ {d} : \A s : (e \in Ends(s))' <=> e \in Ends(s)
  BY DEF Ends, Scored
<1>2. \A s : d \notin Ends(s)
  BY DEF Ends
<1>3. CASE success
  <2>1. Ends("DONE")' = Ends("DONE") \cup {d} /\ Ends("ABORTED")' = Ends("ABORTED")
    BY <1>1, <1>2, <1>3 DEF Ends
  <2>2. Cardinality(Ends("DONE")') = Cardinality(Ends("DONE")) + 1
    BY <2>1, <1>2, EndsFinite, FS_AddElement
  <2>3. jobsDone' = jobsDone + 1 /\ jobsError' = jobsError
    BY <1>3 DEF CountJob
  <2>4. QED
    BY <2>1, <2>2, <2>3 DEF StatsExact, Ends
<1>4. CASE ~success
  <2>1. Ends("ABORTED")' = Ends("ABORTED") \cup {d} /\ Ends("DONE")' = Ends("DONE")
    BY <1>1, <1>2, <1>4 DEF Ends
  <2>2. Cardinality(Ends("ABORTED")') = Cardinality(Ends("ABORTED")) + 1
    BY <2>1, <1>2, EndsFinite, FS_AddElement
  <2>3. jobsError' = jobsError + 1 /\ jobsDone' = jobsDone
    BY <1>4 DEF CountJob
  <2>4. QED
    BY <2>1, <2>2, <2>3 DEF StatsExact, Ends
<1>5. QED
  BY <1>3, <1>4

\* What the cloud shows stays right when a delivery takes a step without a
\* report.
LEMMA CloudQuiet ==
  ASSUME TypeOK, \A j \in Jobs : CloudFollows(j),
         NEW d \in Deliveries, NEW to \in Step, pc' = [pc EXCEPT ![d] = to],
         UNCHANGED <<cloud, unreported, delivered>>,
         \A e \in Deliveries : native[e] = "DONE" => native'[e] = "DONE",
         pc[d] \in Polls => to \in Polls, pc[d] \in Over => to \in Over
  PROVE  \A j \in Jobs : CloudFollows(j)'
<1> SUFFICES ASSUME NEW j \in Jobs PROVE CloudFollows(j)'
  OBVIOUS
<1>1. \A e \in Deliveries : (pc[e] \in Polls => pc'[e] \in Polls) /\ (pc[e] \in Over => pc'[e] \in Over)
  BY DEF TypeOK
<1>2. cloud[j] \in {"IN_PROGRESS", "STOPPED"} =>
        j \in unreported \/ \E e \in Deliveries : JobOf(e) = j /\ pc'[e] \in {"poll", "update"}
  BY <1>1 DEF CloudFollows, Polls
<1>3. cloud[j] = "DONE" => \E e \in Deliveries : JobOf(e) = j /\ native'[e] = "DONE"
  BY DEF CloudFollows
<1>4. cloud[j] \in Final /\ delivered[j] = 1 => \A e \in Deliveries : JobOf(e) = j => pc'[e] \in Over
  BY <1>1 DEF CloudFollows, Over
<1>5. QED
  BY <1>2, <1>3, <1>4 DEF CloudFollows, Over

\* The same when it reports a state: the report arrives or is lost.
LEMMA CloudReported ==
  ASSUME IInv, \A j \in Jobs : CloudFollows(j),
         NEW d \in Deliveries, NEW to \in Step, pc' = [pc EXCEPT ![d] = to],
         NEW s \in NativeState, UpdateJob(d, s), UNCHANGED <<delivered, native>>,
         pc[d] \notin Over, s \in Final => to \in Over, s \notin Final => to \in Polls,
         s = "DONE" => native[d] = "DONE"
  PROVE  \A j \in Jobs : CloudFollows(j)'
<1> SUFFICES ASSUME NEW j \in Jobs PROVE CloudFollows(j)'
  OBVIOUS
<1>0. pc'[d] = to /\ \A e \in Deliveries \ {d} : pc'[e] = pc[e]
  BY DEF IInv, TypeOK
<1>1. CASE j # JobOf(d)
  <2>1. cloud'[j] = cloud[j] /\ (j \in unreported' <=> j \in unreported)
    BY <1>1 DEF UpdateJob, IInv, TypeOK
  <2>2. \A e \in Deliveries : JobOf(e) = j => pc'[e] = pc[e]
    BY <1>0, <1>1
  <2>3. QED
    BY <2>1, <2>2 DEF CloudFollows
<1>2. CASE j = JobOf(d) /\ cloud' = [cloud EXCEPT ![j] = s]
  <2>1. cloud'[j] = s
    BY <1>2 DEF IInv, TypeOK
  <2>2. s \in {"IN_PROGRESS", "STOPPED"} => s \notin Final
    BY DEF Final
  <2>3. ASSUME delivered[j] = 1, NEW e \in Deliveries, JobOf(e) = j, s \in Final
        PROVE  pc'[e] \in Over
    <3>1. CASE e = d
      BY <3>1, <1>0, <2>3
    <3>2. CASE e # d
      <4>1. d[2] = 1
        <5>1. pc[d] # "none"
          BY DEF Over
        <5>2. ~(d[2] > delivered[JobOf(d)]) /\ d[2] \in 1 .. MaxDeliveries
          BY <5>1, DeliveryParts DEF IInv, FreshNone
        <5>3. QED
          BY <5>2, <1>2, <2>3, Bounds
      <4>2. e[2] # 1 /\ e[2] \in 1 .. MaxDeliveries
        BY <4>1, <3>2, <1>2, <2>3, DeliveryParts
      <4>3. pc[e] = "none"
        BY <4>2, <2>3, Bounds DEF IInv, FreshNone
      <4>4. QED
        BY <4>3, <3>2, <1>0 DEF Over
    <3>3. QED
      BY <3>1, <3>2
  <2>4. cloud'[j] \in {"IN_PROGRESS", "STOPPED"} =>
          \E e \in Deliveries : JobOf(e) = j /\ pc'[e] \in {"poll", "update"}
    BY <1>0, <1>2, <2>1, <2>2 DEF Polls
  <2>5. cloud'[j] = "DONE" => \E e \in Deliveries : JobOf(e) = j /\ native'[e] = "DONE"
    BY <1>2, <2>1
  <2>6. cloud'[j] \in Final /\ delivered'[j] = 1 =>
          \A e \in Deliveries : JobOf(e) = j => pc'[e] \in Over
    BY <2>1, <2>3
  <2>7. QED
    BY <2>4, <2>5, <2>6 DEF CloudFollows, Over
<1>3. CASE j = JobOf(d) /\ UNCHANGED cloud /\ unreported' = unreported \cup {j}
  <2>1. cloud[j] \in Final /\ delivered[j] = 1 => FALSE
    BY <1>3 DEF CloudFollows, Over
  <2>2. QED
    BY <1>3, <2>1 DEF CloudFollows
<1>4. QED
  BY <1>1, <1>2, <1>3 DEF UpdateJob

\* Putting the step of one delivery together.
LEMMA OutcomesStep ==
  ASSUME Outcomes, NEW d \in Deliveries, \A e \in Deliveries \ {d} : Same(e), OwnsItsThings(d)',
         StatsExact', \A j \in Jobs : CloudFollows(j)'
  PROVE  Outcomes'
<1>1. \A e \in Deliveries : OwnsItsThings(e)'
  BY SameOwns DEF Outcomes
<1>2. QED
  BY <1>1 DEF Outcomes

-----------------------------------------------------------------------------
(* The steps of a delivery that report nothing *)

LEMMA TicketOut ==
  ASSUME IInv, Outcomes, NEW d \in Deliveries, Ticket(d)
  PROVE  Outcomes'
<1>1. /\ pc[d] = "ticket" /\ UNCHANGED <<cloud, unreported, delivered>>
      /\ \E to \in {"file", "report"} : pc' = [pc EXCEPT ![d] = to]
  BY DEF Ticket
<1>2. PICK to \in Step : pc' = [pc EXCEPT ![d] = to] /\ to \in {"file", "report"}
  BY <1>1 DEF Step, Assembling, Failing, Waiting, Uncounted, Counted, Critical
<1>3. pc'[d] = to /\ \A e \in Deliveries \ {d} : Same(e)
  BY <1>2 DEF Ticket, IInv, TypeOK, Same
<1>4. OwnsItsThings(d)'
  BY <1>1, <1>2, <1>3 DEF Ticket, IInv, TypeOK, Outcomes, OwnsItsThings, Unprinted, Assembling,
     Failing, Waiting, Uncounted, Counted, Critical, Final
<1>5. StatsExact'
  <2>1. UNCHANGED statVars
    BY DEF Ticket
  <2>2. \A e \in Deliveries : \A s \in Final : (e \in Ends(s))' <=> e \in Ends(s)
    BY <1>1, <1>2, <1>3 DEF Ticket, Outcomes, OwnsItsThings, Unprinted, Same, Ends, Scored, Final,
       Assembling, Failing, Waiting, Uncounted, Counted, Critical
  <2>3. QED
    BY <2>1, <2>2, ScoreKept DEF IInv, Outcomes
<1>6. \A j \in Jobs : CloudFollows(j)'
  <2>1. \A e \in Deliveries : native[e] = "DONE" => native'[e] = "DONE"
    BY <1>1 DEF Ticket, IInv, TypeOK, Outcomes, OwnsItsThings, Unprinted, Assembling, Failing,
       Waiting, Uncounted, Counted, Critical
  <2>2. (pc[d] \in Polls => to \in Polls) /\ (pc[d] \in Over => to \in Over)
    BY <1>1, <1>2 DEF Polls, Over
  <2>3. QED
    BY <1>1, <1>2, <2>1, <2>2, CloudQuiet DEF IInv, Outcomes
<1>7. QED
  BY <1>3, <1>4, <1>5, <1>6, OutcomesStep

LEMMA TempFileOut ==
  ASSUME IInv, Outcomes, NEW d \in Deliveries, TempFile(d)
  PROVE  Outcomes'
<1>1. /\ pc[d] = "file" /\ UNCHANGED <<cloud, unreported, delivered>>
      /\ \E to \in {"acquire", "report"} : pc' = [pc EXCEPT ![d] = to]
  BY DEF TempFile
<1>2. PICK to \in Step : pc' = [pc EXCEPT ![d] = to] /\ to \in {"acquire", "report"}
  BY <1>1 DEF Step, Assembling, Failing, Waiting, Uncounted, Counted, Critical
<1>3. pc'[d] = to /\ \A e \in Deliveries \ {d} : Same(e)
  BY <1>2 DEF TempFile, IInv, TypeOK, Same
<1>4. OwnsItsThings(d)'
  BY <1>1, <1>2, <1>3 DEF TempFile, IInv, TypeOK, Outcomes, OwnsItsThings, Unprinted, Assembling,
     Failing, Waiting, Uncounted, Counted, Critical, Final
<1>5. StatsExact'
  <2>1. UNCHANGED statVars
    BY DEF TempFile
  <2>2. \A e \in Deliveries : \A s \in Final : (e \in Ends(s))' <=> e \in Ends(s)
    BY <1>1, <1>2, <1>3 DEF TempFile, Outcomes, OwnsItsThings, Unprinted, Same, Ends, Scored, Final,
       Assembling, Failing, Waiting, Uncounted, Counted, Critical
  <2>3. QED
    BY <2>1, <2>2, ScoreKept DEF IInv, Outcomes
<1>6. \A j \in Jobs : CloudFollows(j)'
  <2>1. \A e \in Deliveries : native[e] = "DONE" => native'[e] = "DONE"
    BY <1>1 DEF TempFile, IInv, TypeOK, Outcomes, OwnsItsThings, Unprinted, Assembling, Failing,
       Waiting, Uncounted, Counted, Critical
  <2>2. (pc[d] \in Polls => to \in Polls) /\ (pc[d] \in Over => to \in Over)
    BY <1>1, <1>2 DEF Polls, Over
  <2>3. QED
    BY <1>1, <1>2, <2>1, <2>2, CloudQuiet DEF IInv, Outcomes
<1>7. QED
  BY <1>3, <1>4, <1>5, <1>6, OutcomesStep

LEMMA AcquireDownloadOut ==
  ASSUME IInv, Outcomes, NEW d \in Deliveries, AcquireDownload(d)
  PROVE  Outcomes'
<1>1. /\ pc[d] = "acquire" /\ UNCHANGED <<cloud, unreported, delivered>>
      /\ \E to \in {"download"} : pc' = [pc EXCEPT ![d] = to]
  BY DEF AcquireDownload
<1>2. PICK to \in Step : pc' = [pc EXCEPT ![d] = to] /\ to \in {"download"}
  BY <1>1 DEF Step, Assembling, Failing, Waiting, Uncounted, Counted, Critical
<1>3. pc'[d] = to /\ \A e \in Deliveries \ {d} : Same(e)
  BY <1>2 DEF AcquireDownload, IInv, TypeOK, Same
<1>4. OwnsItsThings(d)'
  BY <1>1, <1>2, <1>3 DEF AcquireDownload, IInv, TypeOK, Outcomes, OwnsItsThings, Unprinted,
     Assembling, Failing, Waiting, Uncounted, Counted, Critical, Final
<1>5. StatsExact'
  <2>1. UNCHANGED statVars
    BY DEF AcquireDownload
  <2>2. \A e \in Deliveries : \A s \in Final : (e \in Ends(s))' <=> e \in Ends(s)
    BY <1>1, <1>2, <1>3 DEF AcquireDownload, Outcomes, OwnsItsThings, Unprinted, Same, Ends, Scored,
       Final, Assembling, Failing, Waiting, Uncounted, Counted, Critical
  <2>3. QED
    BY <2>1, <2>2, ScoreKept DEF IInv, Outcomes
<1>6. \A j \in Jobs : CloudFollows(j)'
  <2>1. \A e \in Deliveries : native[e] = "DONE" => native'[e] = "DONE"
    BY <1>1 DEF AcquireDownload, IInv, TypeOK, Outcomes, OwnsItsThings, Unprinted, Assembling,
       Failing, Waiting, Uncounted, Counted, Critical
  <2>2. (pc[d] \in Polls => to \in Polls) /\ (pc[d] \in Over => to \in Over)
    BY <1>1, <1>2 DEF Polls, Over
  <2>3. QED
    BY <1>1, <1>2, <2>1, <2>2, CloudQuiet DEF IInv, Outcomes
<1>7. QED
  BY <1>3, <1>4, <1>5, <1>6, OutcomesStep

LEMMA DownloadOut ==
  ASSUME IInv, Outcomes, NEW d \in Deliveries, Download(d)
  PROVE  Outcomes'
<1>1. /\ pc[d] = "download" /\ UNCHANGED <<cloud, unreported, delivered>>
      /\ \E to \in {"send", "report"} : pc' = [pc EXCEPT ![d] = to]
  BY DEF Download
<1>2. PICK to \in Step : pc' = [pc EXCEPT ![d] = to] /\ to \in {"send", "report"}
  BY <1>1 DEF Step, Assembling, Failing, Waiting, Uncounted, Counted, Critical
<1>3. pc'[d] = to /\ \A e \in Deliveries \ {d} : Same(e)
  BY <1>2 DEF Download, IInv, TypeOK, Same
<1>4. OwnsItsThings(d)'
  BY <1>1, <1>2, <1>3 DEF Download, IInv, TypeOK, Outcomes, OwnsItsThings, Unprinted, Assembling,
     Failing, Waiting, Uncounted, Counted, Critical, Final
<1>5. StatsExact'
  <2>1. UNCHANGED statVars
    BY DEF Download
  <2>2. \A e \in Deliveries : \A s \in Final : (e \in Ends(s))' <=> e \in Ends(s)
    BY <1>1, <1>2, <1>3 DEF Download, Outcomes, OwnsItsThings, Unprinted, Same, Ends, Scored, Final,
       Assembling, Failing, Waiting, Uncounted, Counted, Critical
  <2>3. QED
    BY <2>1, <2>2, ScoreKept DEF IInv, Outcomes
<1>6. \A j \in Jobs : CloudFollows(j)'
  <2>1. \A e \in Deliveries : native[e] = "DONE" => native'[e] = "DONE"
    BY <1>1 DEF Download, IInv, TypeOK, Outcomes, OwnsItsThings, Unprinted, Assembling, Failing,
       Waiting, Uncounted, Counted, Critical
  <2>2. (pc[d] \in Polls => to \in Polls) /\ (pc[d] \in Over => to \in Over)
    BY <1>1, <1>2 DEF Polls, Over
  <2>3. QED
    BY <1>1, <1>2, <2>1, <2>2, CloudQuiet DEF IInv, Outcomes
<1>7. QED
  BY <1>3, <1>4, <1>5, <1>6, OutcomesStep

LEMMA SendJobOut ==
  ASSUME IInv, Outcomes, NEW d \in Deliveries, SendJob(d)
  PROVE  Outcomes'
<1>1. /\ pc[d] = "send" /\ UNCHANGED <<cloud, unreported, delivered>>
      /\ \E to \in {"queued"} : pc' = [pc EXCEPT ![d] = to]
  BY DEF SendJob
<1>2. PICK to \in Step : pc' = [pc EXCEPT ![d] = to] /\ to \in {"queued"}
  BY <1>1 DEF Step, Assembling, Failing, Waiting, Uncounted, Counted, Critical
<1>3. pc'[d] = to /\ \A e \in Deliveries \ {d} : Same(e)
  BY <1>2 DEF SendJob, IInv, TypeOK, Same
<1>4. OwnsItsThings(d)'
  BY <1>1, <1>2, <1>3 DEF SendJob, IInv, TypeOK, Outcomes, OwnsItsThings, Unprinted, Assembling,
     Failing, Waiting, Uncounted, Counted, Critical, Final
<1>5. StatsExact'
  <2>1. UNCHANGED statVars
    BY DEF SendJob
  <2>2. \A e \in Deliveries : \A s \in Final : (e \in Ends(s))' <=> e \in Ends(s)
    BY <1>1, <1>2, <1>3 DEF SendJob, Outcomes, OwnsItsThings, Unprinted, Same, Ends, Scored, Final,
       Assembling, Failing, Waiting, Uncounted, Counted, Critical
  <2>3. QED
    BY <2>1, <2>2, ScoreKept DEF IInv, Outcomes
<1>6. \A j \in Jobs : CloudFollows(j)'
  <2>1. \A e \in Deliveries : native[e] = "DONE" => native'[e] = "DONE"
    BY <1>1 DEF SendJob, IInv, TypeOK, Outcomes, OwnsItsThings, Unprinted, Assembling, Failing,
       Waiting, Uncounted, Counted, Critical
  <2>2. (pc[d] \in Polls => to \in Polls) /\ (pc[d] \in Over => to \in Over)
    BY <1>1, <1>2 DEF Polls, Over
  <2>3. QED
    BY <1>1, <1>2, <2>1, <2>2, CloudQuiet DEF IInv, Outcomes
<1>7. QED
  BY <1>3, <1>4, <1>5, <1>6, OutcomesStep

LEMMA ReportFailedOut ==
  ASSUME IInv, Outcomes, NEW d \in Deliveries, ReportFailed(d)
  PROVE  Outcomes'
<1>1. /\ pc[d] = "report" /\ UNCHANGED <<cloud, unreported, delivered>>
      /\ \E to \in {"control"} : pc' = [pc EXCEPT ![d] = to]
  BY DEF ReportFailed
<1>2. PICK to \in Step : pc' = [pc EXCEPT ![d] = to] /\ to \in {"control"}
  BY <1>1 DEF Step, Assembling, Failing, Waiting, Uncounted, Counted, Critical
<1>3. pc'[d] = to /\ \A e \in Deliveries \ {d} : Same(e)
  BY <1>2 DEF ReportFailed, IInv, TypeOK, Same
<1>4. OwnsItsThings(d)'
  BY <1>1, <1>2, <1>3 DEF ReportFailed, IInv, TypeOK, Outcomes, OwnsItsThings, Unprinted, Assembling,
     Failing, Waiting, Uncounted, Counted, Critical, Final
<1>5. StatsExact'
  <2>1. CountJob(FALSE) /\ ~Scored(d) /\ state'[d] = "ABORTED"
    BY <1>1 DEF ReportFailed, IInv, TypeOK, Scored, Counted
  <2>2. Scored(d)'
    BY <2>1, <1>2, <1>3 DEF Scored
  <2>3. QED
    BY <2>1, <2>2, <1>3, ScoreAdded DEF IInv, Outcomes, Same
<1>6. \A j \in Jobs : CloudFollows(j)'
  <2>1. \A e \in Deliveries : native[e] = "DONE" => native'[e] = "DONE"
    BY <1>1 DEF ReportFailed, IInv, TypeOK, Outcomes, OwnsItsThings, Unprinted, Assembling, Failing,
       Waiting, Uncounted, Counted, Critical
  <2>2. (pc[d] \in Polls => to \in Polls) /\ (pc[d] \in Over => to \in Over)
    BY <1>1, <1>2 DEF Polls, Over
  <2>3. QED
    BY <1>1, <1>2, <2>1, <2>2, CloudQuiet DEF IInv, Outcomes
<1>7. QED
  BY <1>3, <1>4, <1>5, <1>6, OutcomesStep

LEMMA AddInFlightJobOut ==
  ASSUME IInv, Outcomes, NEW d \in Deliveries, AddInFlightJob(d)
  PROVE  Outcomes'
<1>1. /\ pc[d] = "start" /\ UNCHANGED <<cloud, unreported, delivered>>
      /\ \E to \in {"remove", "lookup"} : pc' = [pc EXCEPT ![d] = to]
  BY DEF AddInFlightJob
<1>2. PICK to \in Step : pc' = [pc EXCEPT ![d] = to] /\ to \in {"remove", "lookup"}
  BY <1>1 DEF Step, Assembling, Failing, Waiting, Uncounted, Counted, Critical
<1>3. pc'[d] = to /\ \A e \in Deliveries \ {d} : Same(e)
  BY <1>2 DEF AddInFlightJob, IInv, TypeOK, Same
<1>4. OwnsItsThings(d)'
  BY <1>1, <1>2, <1>3 DEF AddInFlightJob, IInv, TypeOK, Outcomes, OwnsItsThings, Unprinted,
     Assembling, Failing, Waiting, Uncounted, Counted, Critical, Final
<1>5. StatsExact'
  <2>1. UNCHANGED statVars
    BY DEF AddInFlightJob
  <2>2. \A e \in Deliveries : \A s \in Final : (e \in Ends(s))' <=> e \in Ends(s)
    BY <1>1, <1>2, <1>3 DEF AddInFlightJob, Outcomes, OwnsItsThings, Unprinted, Same, Ends, Scored,
       Final, Assembling, Failing, Waiting, Uncounted, Counted, Critical
  <2>3. QED
    BY <2>1, <2>2, ScoreKept DEF IInv, Outcomes
<1>6. \A j \in Jobs : CloudFollows(j)'
  <2>1. \A e \in Deliveries : native[e] = "DONE" => native'[e] = "DONE"
    BY <1>1 DEF AddInFlightJob, IInv, TypeOK, Outcomes, OwnsItsThings, Unprinted, Assembling, Failing,
       Waiting, Uncounted, Counted, Critical
  <2>2. (pc[d] \in Polls => to \in Polls) /\ (pc[d] \in Over => to \in Over)
    BY <1>1, <1>2 DEF Polls, Over
  <2>3. QED
    BY <1>1, <1>2, <2>1, <2>2, CloudQuiet DEF IInv, Outcomes
<1>7. QED
  BY <1>3, <1>4, <1>5, <1>6, OutcomesStep

LEMMA LookupOut ==
  ASSUME IInv, Outcomes, NEW d \in Deliveries, Lookup(d)
  PROVE  Outcomes'
<1>1. /\ pc[d] = "lookup" /\ UNCHANGED <<cloud, unreported, delivered>>
      /\ \E to \in {"print", "abort"} : pc' = [pc EXCEPT ![d] = to]
  BY DEF Lookup
<1>2. PICK to \in Step : pc' = [pc EXCEPT ![d] = to] /\ to \in {"print", "abort"}
  BY <1>1 DEF Step, Assembling, Failing, Waiting, Uncounted, Counted, Critical
<1>3. pc'[d] = to /\ \A e \in Deliveries \ {d} : Same(e)
  BY <1>2 DEF Lookup, IInv, TypeOK, Same
<1>4. OwnsItsThings(d)'
  BY <1>1, <1>2, <1>3 DEF Lookup, IInv, TypeOK, Outcomes, OwnsItsThings, Unprinted, Assembling,
     Failing, Waiting, Uncounted, Counted, Critical, Final
<1>5. StatsExact'
  <2>1. CASE to = "abort"
    <3>1. CountJob(FALSE) /\ state' = [state EXCEPT ![d] = "ABORTED"]
      BY <1>3, <2>1 DEF Lookup, IInv, TypeOK
    <3>2. ~Scored(d)
      BY <1>1 DEF Scored, Counted
    <3>3. state'[d] = "ABORTED"
      BY <3>1 DEF IInv, TypeOK
    <3>4. Scored(d)'
      BY <3>3, <1>3, <2>1 DEF Scored, Counted
    <3>5. QED
      BY <3>1, <3>2, <3>3, <3>4, <1>3, ScoreAdded DEF IInv, Outcomes, Same
  <2>2. CASE to # "abort"
    <3>1. UNCHANGED <<state, statVars>>
      BY <1>3, <2>2 DEF Lookup, IInv, TypeOK
    <3>2. \A e \in Deliveries : \A s \in Final : (e \in Ends(s))' <=> e \in Ends(s)
      BY <3>1, <1>1, <1>2, <1>3, <2>2 DEF Same, Ends, Scored, Counted
    <3>3. QED
      BY <3>1, <3>2, ScoreKept DEF IInv, Outcomes
  <2>3. QED
    BY <2>1, <2>2
<1>6. \A j \in Jobs : CloudFollows(j)'
  <2>1. \A e \in Deliveries : native[e] = "DONE" => native'[e] = "DONE"
    BY <1>1 DEF Lookup, IInv, TypeOK, Outcomes, OwnsItsThings, Unprinted, Assembling, Failing,
       Waiting, Uncounted, Counted, Critical
  <2>2. (pc[d] \in Polls => to \in Polls) /\ (pc[d] \in Over => to \in Over)
    BY <1>1, <1>2 DEF Polls, Over
  <2>3. QED
    BY <1>1, <1>2, <2>1, <2>2, CloudQuiet DEF IInv, Outcomes
<1>7. QED
  BY <1>3, <1>4, <1>5, <1>6, OutcomesStep

LEMMA AcquirePrinterOut ==
  ASSUME IInv, Outcomes, NEW d \in Deliveries, AcquirePrinter(d)
  PROVE  Outcomes'
<1>1. /\ pc[d] = "print" /\ UNCHANGED <<cloud, unreported, delivered>>
      /\ \E to \in {"submit"} : pc' = [pc EXCEPT ![d] = to]
  BY DEF AcquirePrinter
<1>2. PICK to \in Step : pc' = [pc EXCEPT ![d] = to] /\ to \in {"submit"}
  BY <1>1 DEF Step, Assembling, Failing, Waiting, Uncounted, Counted, Critical
<1>3. pc'[d] = to /\ \A e \in Deliveries \ {d} : Same(e)
  BY <1>2 DEF AcquirePrinter, IInv, TypeOK, Same
<1>4. OwnsItsThings(d)'
  BY <1>1, <1>2, <1>3 DEF AcquirePrinter, IInv, TypeOK, Outcomes, OwnsItsThings, Unprinted,
     Assembling, Failing, Waiting, Uncounted, Counted, Critical, Final
<1>5. StatsExact'
  <2>1. UNCHANGED statVars
    BY DEF AcquirePrinter
  <2>2. \A e \in Deliveries : \A s \in Final : (e \in Ends(s))' <=> e \in Ends(s)
    BY <1>1, <1>2, <1>3 DEF AcquirePrinter, Outcomes, OwnsItsThings, Unprinted, Same, Ends, Scored,
       Final, Assembling, Failing, Waiting, Uncounted, Counted, Critical
  <2>3. QED
    BY <2>1, <2>2, ScoreKept DEF IInv, Outcomes
<1>6. \A j \in Jobs : CloudFollows(j)'
  <2>1. \A e \in Deliveries : native[e] = "DONE" => native'[e] = "DONE"
    BY <1>1 DEF AcquirePrinter, IInv, TypeOK, Outcomes, OwnsItsThings, Unprinted, Assembling, Failing,
       Waiting, Uncounted, Counted, Critical
  <2>2. (pc[d] \in Polls => to \in Polls) /\ (pc[d] \in Over => to \in Over)
    BY <1>1, <1>2 DEF Polls, Over
  <2>3. QED
    BY <1>1, <1>2, <2>1, <2>2, CloudQuiet DEF IInv, Outcomes
<1>7. QED
  BY <1>3, <1>4, <1>5, <1>6, OutcomesStep

LEMMA NativePrintOut ==
  ASSUME IInv, Outcomes, NEW d \in Deliveries, NativePrint(d)
  PROVE  Outcomes'
<1>1. /\ pc[d] = "submit" /\ UNCHANGED <<cloud, unreported, delivered>>
      /\ \E to \in {"poll", "abort"} : pc' = [pc EXCEPT ![d] = to]
  BY DEF NativePrint
<1>2. PICK to \in Step : pc' = [pc EXCEPT ![d] = to] /\ to \in {"poll", "abort"}
  BY <1>1 DEF Step, Assembling, Failing, Waiting, Uncounted, Counted, Critical
<1>3. pc'[d] = to /\ \A e \in Deliveries \ {d} : Same(e)
  BY <1>2 DEF NativePrint, IInv, TypeOK, Same
<1>4. OwnsItsThings(d)'
  BY <1>1, <1>2, <1>3 DEF NativePrint, IInv, TypeOK, Outcomes, OwnsItsThings, Unprinted, Assembling,
     Failing, Waiting, Uncounted, Counted, Critical, Final
<1>5. StatsExact'
  <2>1. CASE to = "abort"
    <3>1. CountJob(FALSE) /\ state' = [state EXCEPT ![d] = "ABORTED"]
      BY <1>3, <2>1 DEF NativePrint, IInv, TypeOK
    <3>2. ~Scored(d)
      BY <1>1 DEF Scored, Counted
    <3>3. state'[d] = "ABORTED"
      BY <3>1 DEF IInv, TypeOK
    <3>4. Scored(d)'
      BY <3>3, <1>3, <2>1 DEF Scored, Counted
    <3>5. QED
      BY <3>1, <3>2, <3>3, <3>4, <1>3, ScoreAdded DEF IInv, Outcomes, Same
  <2>2. CASE to # "abort"
    <3>1. UNCHANGED <<state, statVars>>
      BY <1>3, <2>2 DEF NativePrint, IInv, TypeOK
    <3>2. \A e \in Deliveries : \A s \in Final : (e \in Ends(s))' <=> e \in Ends(s)
      BY <3>1, <1>1, <1>2, <1>3, <2>2 DEF Same, Ends, Scored, Counted
    <3>3. QED
      BY <3>1, <3>2, ScoreKept DEF IInv, Outcomes
  <2>3. QED
    BY <2>1, <2>2
<1>6. \A j \in Jobs : CloudFollows(j)'
  <2>1. \A e \in Deliveries : native[e] = "DONE" => native'[e] = "DONE"
    BY <1>1 DEF NativePrint, IInv, TypeOK, Outcomes, OwnsItsThings, Unprinted, Assembling, Failing,
       Waiting, Uncounted, Counted, Critical
  <2>2. (pc[d] \in Polls => to \in Polls) /\ (pc[d] \in Over => to \in Over)
    BY <1>1, <1>2 DEF Polls, Over
  <2>3. QED
    BY <1>1, <1>2, <2>1, <2>2, CloudQuiet DEF IInv, Outcomes
<1>7. QED
  BY <1>3, <1>4, <1>5, <1>6, OutcomesStep

LEMMA PollOut ==
  ASSUME IInv, Outcomes, NEW d \in Deliveries, Poll(d)
  PROVE  Outcomes'
<1>1. /\ pc[d] = "poll" /\ UNCHANGED <<cloud, unreported, delivered>>
      /\ \E to \in {"update"} : pc' = [pc EXCEPT ![d] = to]
  BY DEF Poll
<1>2. PICK to \in Step : pc' = [pc EXCEPT ![d] = to] /\ to \in {"update"}
  BY <1>1 DEF Step, Assembling, Failing, Waiting, Uncounted, Counted, Critical
<1>3. pc'[d] = to /\ \A e \in Deliveries \ {d} : Same(e)
  BY <1>2 DEF Poll, IInv, TypeOK, Same
<1>4. OwnsItsThings(d)'
  BY <1>1, <1>2, <1>3 DEF Poll, IInv, TypeOK, Outcomes, OwnsItsThings, Unprinted, Assembling, Failing,
     Waiting, Uncounted, Counted, Critical, Final
<1>5. StatsExact'
  <2>1. UNCHANGED statVars
    BY DEF Poll
  <2>2. \A e \in Deliveries : \A s \in Final : (e \in Ends(s))' <=> e \in Ends(s)
    BY <1>1, <1>2, <1>3 DEF Poll, Outcomes, OwnsItsThings, Unprinted, Same, Ends, Scored, Final,
       Assembling, Failing, Waiting, Uncounted, Counted, Critical
  <2>3. QED
    BY <2>1, <2>2, ScoreKept DEF IInv, Outcomes
<1>6. \A j \in Jobs : CloudFollows(j)'
  <2>1. \A e \in Deliveries : native[e] = "DONE" => native'[e] = "DONE"
    BY <1>1 DEF Poll, IInv, TypeOK, Outcomes, OwnsItsThings, Unprinted, Assembling, Failing, Waiting,
       Uncounted, Counted, Critical
  <2>2. (pc[d] \in Polls => to \in Polls) /\ (pc[d] \in Over => to \in Over)
    BY <1>1, <1>2 DEF Polls, Over
  <2>3. QED
    BY <1>1, <1>2, <2>1, <2>2, CloudQuiet DEF IInv, Outcomes
<1>7. QED
  BY <1>3, <1>4, <1>5, <1>6, OutcomesStep

LEMMA ReleaseJobOut ==
  ASSUME IInv, Outcomes, NEW d \in Deliveries, ReleaseJob(d)
  PROVE  Outcomes'
<1>1. /\ pc[d] = "release" /\ UNCHANGED <<cloud, unreported, delivered>>
      /\ \E to \in {"leave"} : pc' = [pc EXCEPT ![d] = to]
  BY DEF ReleaseJob
<1>2. PICK to \in Step : pc' = [pc EXCEPT ![d] = to] /\ to \in {"leave"}
  BY <1>1 DEF Step, Assembling, Failing, Waiting, Uncounted, Counted, Critical
<1>3. pc'[d] = to /\ \A e \in Deliveries \ {d} : Same(e)
  BY <1>2 DEF ReleaseJob, IInv, TypeOK, Same
<1>4. OwnsItsThings(d)'
  BY <1>1, <1>2, <1>3 DEF ReleaseJob, IInv, TypeOK, Outcomes, OwnsItsThings, Unprinted, Assembling,
     Failing, Waiting, Uncounted, Counted, Critical, Final
<1>5. StatsExact'
  <2>1. UNCHANGED statVars
    BY DEF ReleaseJob
  <2>2. \A e \in Deliveries : \A s \in Final : (e \in Ends(s))' <=> e \in Ends(s)
    BY <1>1, <1>2, <1>3 DEF ReleaseJob, Outcomes, OwnsItsThings, Unprinted, Same, Ends, Scored, Final,
       Assembling, Failing, Waiting, Uncounted, Counted, Critical
  <2>3. QED
    BY <2>1, <2>2, ScoreKept DEF IInv, Outcomes
<1>6. \A j \in Jobs : CloudFollows(j)'
  <2>1. \A e \in Deliveries : native[e] = "DONE" => native'[e] = "DONE"
    BY <1>1 DEF ReleaseJob, IInv, TypeOK, Outcomes, OwnsItsThings, Unprinted, Assembling, Failing,
       Waiting, Uncounted, Counted, Critical
  <2>2. (pc[d] \in Polls => to \in Polls) /\ (pc[d] \in Over => to \in Over)
    BY <1>1, <1>2 DEF Polls, Over
  <2>3. QED
    BY <1>1, <1>2, <2>1, <2>2, CloudQuiet DEF IInv, Outcomes
<1>7. QED
  BY <1>3, <1>4, <1>5, <1>6, OutcomesStep

LEMMA DeleteInFlightJobOut ==
  ASSUME IInv, Outcomes, NEW d \in Deliveries, DeleteInFlightJob(d)
  PROVE  Outcomes'
<1>1. /\ pc[d] = "leave" /\ UNCHANGED <<cloud, unreported, delivered>>
      /\ \E to \in {"remove"} : pc' = [pc EXCEPT ![d] = to]
  BY DEF DeleteInFlightJob
<1>2. PICK to \in Step : pc' = [pc EXCEPT ![d] = to] /\ to \in {"remove"}
  BY <1>1 DEF Step, Assembling, Failing, Waiting, Uncounted, Counted, Critical
<1>3. pc'[d] = to /\ \A e \in Deliveries \ {d} : Same(e)
  BY <1>2 DEF DeleteInFlightJob, IInv, TypeOK, Same
<1>4. OwnsItsThings(d)'
  BY <1>1, <1>2, <1>3 DEF DeleteInFlightJob, IInv, TypeOK, Outcomes, OwnsItsThings, Unprinted,
     Assembling, Failing, Waiting, Uncounted, Counted, Critical, Final
<1>5. StatsExact'
  <2>1. UNCHANGED statVars
    BY DEF DeleteInFlightJob
  <2>2. \A e \in Deliveries : \A s \in Final : (e \in Ends(s))' <=> e \in Ends(s)
    BY <1>1, <1>2, <1>3 DEF DeleteInFlightJob, Outcomes, OwnsItsThings, Unprinted, Same, Ends, Scored,
       Final, Assembling, Failing, Waiting, Uncounted, Counted, Critical
  <2>3. QED
    BY <2>1, <2>2, ScoreKept DEF IInv, Outcomes
<1>6. \A j \in Jobs : CloudFollows(j)'
  <2>1. \A e \in Deliveries : native[e] = "DONE" => native'[e] = "DONE"
    BY <1>1 DEF DeleteInFlightJob, IInv, TypeOK, Outcomes, OwnsItsThings, Unprinted, Assembling,
       Failing, Waiting, Uncounted, Counted, Critical
  <2>2. (pc[d] \in Polls => to \in Polls) /\ (pc[d] \in Over => to \in Over)
    BY <1>1, <1>2 DEF Polls, Over
  <2>3. QED
    BY <1>1, <1>2, <2>1, <2>2, CloudQuiet DEF IInv, Outcomes
<1>7. QED
  BY <1>3, <1>4, <1>5, <1>6, OutcomesStep

LEMMA RemoveFileOut ==
  ASSUME IInv, Outcomes, NEW d \in Deliveries, RemoveFile(d)
  PROVE  Outcomes'
<1>1. /\ pc[d] = "remove" /\ UNCHANGED <<cloud, unreported, delivered>>
      /\ \E to \in {"end"} : pc' = [pc EXCEPT ![d] = to]
  BY DEF RemoveFile
<1>2. PICK to \in Step : pc' = [pc EXCEPT ![d] = to] /\ to \in {"end"}
  BY <1>1 DEF Step, Assembling, Failing, Waiting, Uncounted, Counted, Critical
<1>3. pc'[d] = to /\ \A e \in Deliveries \ {d} : Same(e)
  BY <1>2 DEF RemoveFile, IInv, TypeOK, Same
<1>4. OwnsItsThings(d)'
  BY <1>1, <1>2, <1>3 DEF RemoveFile, IInv, TypeOK, Outcomes, OwnsItsThings, Unprinted, Assembling,
     Failing, Waiting, Uncounted, Counted, Critical, Final
<1>5. StatsExact'
  <2>1. UNCHANGED statVars
    BY DEF RemoveFile
  <2>2. \A e \in Deliveries : \A s \in Final : (e \in Ends(s))' <=> e \in Ends(s)
    BY <1>1, <1>2, <1>3 DEF RemoveFile, Outcomes, OwnsItsThings, Unprinted, Same, Ends, Scored, Final,
       Assembling, Failing, Waiting, Uncounted, Counted, Critical
  <2>3. QED
    BY <2>1, <2>2, ScoreKept DEF IInv, Outcomes
<1>6. \A j \in Jobs : CloudFollows(j)'
  <2>1. \A e \in Deliveries : native[e] = "DONE" => native'[e] = "DONE"
    BY <1>1 DEF RemoveFile, IInv, TypeOK, Outcomes, OwnsItsThings, Unprinted, Assembling, Failing,
       Waiting, Uncounted, Counted, Critical
  <2>2. (pc[d] \in Polls => to \in Polls) /\ (pc[d] \in Over => to \in Over)
    BY <1>1, <1>2 DEF Polls, Over
  <2>3. QED
    BY <1>1, <1>2, <2>1, <2>2, CloudQuiet DEF IInv, Outcomes
<1>7. QED
  BY <1>3, <1>4, <1>5, <1>6, OutcomesStep

LEMMA ReceiveJobOut ==
  ASSUME IInv, Outcomes, ReceiveJob
  PROVE  Outcomes'
<1>0. PICK d \in Deliveries : d = Head(jobs) /\ jobs # <<>> /\ pc[d] = "queued"
  <2>1. jobs \in Seq(Deliveries) /\ jobs # <<>>
    BY DEF ReceiveJob, IInv, TypeOK
  <2>2. Head(jobs) = jobs[1] /\ 1 \in 1 .. Len(jobs) /\ Head(jobs) \in Deliveries
    BY <2>1
  <2>3. QED
    BY <2>1, <2>2 DEF IInv, QueueExact
<1>1. /\ pc[d] = "queued" /\ UNCHANGED <<cloud, unreported, delivered>>
      /\ \E to \in {"start"} : pc' = [pc EXCEPT ![d] = to]
  BY <1>0 DEF ReceiveJob
<1>2. PICK to \in Step : pc' = [pc EXCEPT ![d] = to] /\ to \in {"start"}
  BY <1>1 DEF Step, Assembling, Failing, Waiting, Uncounted, Counted, Critical
<1>3. pc'[d] = to /\ \A e \in Deliveries \ {d} : Same(e)
  BY <1>2 DEF ReceiveJob, IInv, TypeOK, Same
<1>4. OwnsItsThings(d)'
  BY <1>1, <1>2, <1>3 DEF ReceiveJob, IInv, TypeOK, Outcomes, OwnsItsThings, Unprinted, Assembling,
     Failing, Waiting, Uncounted, Counted, Critical, Final
<1>5. StatsExact'
  <2>1. UNCHANGED statVars
    BY DEF ReceiveJob
  <2>2. \A e \in Deliveries : \A s \in Final : (e \in Ends(s))' <=> e \in Ends(s)
    BY <1>1, <1>2, <1>3 DEF ReceiveJob, Outcomes, OwnsItsThings, Unprinted, Same, Ends, Scored, Final,
       Assembling, Failing, Waiting, Uncounted, Counted, Critical
  <2>3. QED
    BY <2>1, <2>2, ScoreKept DEF IInv, Outcomes
<1>6. \A j \in Jobs : CloudFollows(j)'
  <2>1. \A e \in Deliveries : native[e] = "DONE" => native'[e] = "DONE"
    BY <1>1 DEF ReceiveJob, IInv, TypeOK, Outcomes, OwnsItsThings, Unprinted, Assembling, Failing,
       Waiting, Uncounted, Counted, Critical
  <2>2. (pc[d] \in Polls => to \in Polls) /\ (pc[d] \in Over => to \in Over)
    BY <1>1, <1>2 DEF Polls, Over
  <2>3. QED
    BY <1>1, <1>2, <2>1, <2>2, CloudQuiet DEF IInv, Outcomes
<1>7. QED
  BY <1>3, <1>4, <1>5, <1>6, OutcomesStep

-----------------------------------------------------------------------------
(* The steps that report a state *)

LEMMA ControlAbortedOut ==
  ASSUME IInv, Outcomes, NEW d \in Deliveries, ControlAborted(d)
  PROVE  Outcomes'
<1>1. /\ pc[d] = "control" /\ UpdateJob(d, "ABORTED") /\ pc' = [pc EXCEPT ![d] = "end"]
      /\ UNCHANGED <<delivered, files, held, unreleased, state, native, statVars>>
  BY DEF ControlAborted
<1>2. "end" \in Step /\ "ABORTED" \in NativeState \cap Final
  BY DEF Step, Assembling, Failing, Waiting, Uncounted, Counted, Critical, NativeState, Final
<1>3. pc'[d] = "end" /\ \A e \in Deliveries \ {d} : Same(e)
  BY <1>1 DEF IInv, TypeOK, Same
<1>4. OwnsItsThings(d)'
  BY <1>1, <1>3 DEF Outcomes, OwnsItsThings, Unprinted, Assembling, Failing, Waiting, Uncounted,
     Counted, Critical
<1>5. StatsExact'
  <2>1. \A e \in Deliveries : \A s \in Final : (e \in Ends(s))' <=> e \in Ends(s)
    BY <1>1, <1>3 DEF Same, Ends, Scored, Counted
  <2>2. QED
    BY <1>1, <2>1, ScoreKept DEF IInv, Outcomes
<1>6. \A j \in Jobs : CloudFollows(j)'
  BY <1>1, <1>2, CloudReported DEF Outcomes, Over
<1>7. QED
  BY <1>3, <1>4, <1>5, <1>6, OutcomesStep

LEMMA AbortOut ==
  ASSUME IInv, Outcomes, NEW d \in Deliveries, Abort(d)
  PROVE  Outcomes'
<1>1. /\ pc[d] = "abort" /\ UpdateJob(d, "ABORTED") /\ pc' = [pc EXCEPT ![d] = "leave"]
      /\ UNCHANGED <<delivered, files, held, unreleased, state, native, statVars>>
  BY DEF Abort
<1>2. "leave" \in Step /\ "ABORTED" \in NativeState \cap Final
  BY DEF Step, Assembling, Failing, Waiting, Uncounted, Counted, Critical, NativeState, Final
<1>3. pc'[d] = "leave" /\ \A e \in Deliveries \ {d} : Same(e)
  BY <1>1 DEF IInv, TypeOK, Same
<1>4. OwnsItsThings(d)'
  BY <1>1, <1>3 DEF Outcomes, OwnsItsThings, Unprinted, Assembling, Failing, Waiting, Uncounted,
     Counted, Critical
<1>5. StatsExact'
  <2>1. \A e \in Deliveries : \A s \in Final : (e \in Ends(s))' <=> e \in Ends(s)
    BY <1>1, <1>3 DEF Same, Ends, Scored, Counted
  <2>2. QED
    BY <1>1, <2>1, ScoreKept DEF IInv, Outcomes
<1>6. \A j \in Jobs : CloudFollows(j)'
  BY <1>1, <1>2, CloudReported DEF Outcomes, Over
<1>7. QED
  BY <1>3, <1>4, <1>5, <1>6, OutcomesStep

LEMMA UpdateOut ==
  ASSUME IInv, Outcomes, NEW d \in Deliveries, Update(d)
  PROVE  Outcomes'
<1>0. /\ pc[d] = "update" /\ UpdateJob(d, state[d]) /\ state[d] \in NativeState
      /\ UNCHANGED <<delivered, files, held, unreleased, state, native>>
  BY DEF Update, IInv, TypeOK, FollowsJob
<1>1. PICK to \in Step :
        /\ pc' = [pc EXCEPT ![d] = to]
        /\ to = (IF state[d] \in Final THEN "release" ELSE "poll")
        /\ IF state[d] \in Final THEN CountJob(state[d] = "DONE") ELSE UNCHANGED statVars
  BY DEF Update, Step, Assembling, Failing, Waiting, Uncounted, Counted, Critical
<1>2. pc'[d] = to /\ \A e \in Deliveries \ {d} : Same(e)
  BY <1>0, <1>1 DEF IInv, TypeOK, Same
<1>3. OwnsItsThings(d)'
  BY <1>0, <1>1, <1>2
     DEF Outcomes, OwnsItsThings, Unprinted, Assembling, Failing, Waiting, Uncounted, Counted, Critical
<1>4. StatsExact'
  <2>1. CASE state[d] \in Final
    <3>1. state'[d] = (IF state[d] = "DONE" THEN "DONE" ELSE "ABORTED")
      BY <1>0, <2>1 DEF Final
    <3>2. ~Scored(d) /\ Scored(d)'
      BY <1>0, <1>1, <1>2, <2>1, <3>1 DEF Scored, Counted
    <3>3. CountJob(state[d] = "DONE")
      BY <1>1, <2>1
    <3>4. PICK success \in BOOLEAN : success = (state[d] = "DONE")
      OBVIOUS
    <3>5. CountJob(success) /\ state'[d] = (IF success THEN "DONE" ELSE "ABORTED")
      BY <3>1, <3>3, <3>4
    <3>6. QED
      BY <3>2, <3>5, <1>2, ScoreAdded DEF IInv, Outcomes, Same
  <2>2. CASE state[d] \notin Final
    <3>1. \A e \in Deliveries : \A s \in Final : (e \in Ends(s))' <=> e \in Ends(s)
      BY <1>0, <1>2, <2>2 DEF Same, Ends, Scored
    <3>2. QED
      BY <1>1, <2>2, <3>1, ScoreKept DEF IInv, Outcomes
  <2>3. QED
    BY <2>1, <2>2
<1>5. \A j \in Jobs : CloudFollows(j)'
  <2>1. state[d] = "DONE" => native[d] = "DONE"
    BY DEF Outcomes, OwnsItsThings
  <2>2. QED
    BY <1>0, <1>1, <2>1, CloudReported DEF Outcomes, Over, Polls
<1>6. QED
  BY <1>2, <1>3, <1>4, <1>5, OutcomesStep

-----------------------------------------------------------------------------
(* A fetch and the environment *)

LEMMA HandleJobsOut ==
  ASSUME IInv, Outcomes, NEW p \in Printers, HandleJobs(p)
  PROVE  Outcomes'
<1>1. /\ UNCHANGED <<cloud, unreported, files, held, unreleased, state, native, statVars>>
      /\ delivered' = [j \in Jobs |-> IF j \in Queued(p) THEN delivered[j] + 1 ELSE delivered[j]]
      /\ pc' = [d \in Deliveries |->
                 IF JobOf(d) \in Queued(p) /\ d[2] = delivered[JobOf(d)] + 1 THEN "ticket" ELSE pc[d]]
  BY DEF HandleJobs
<1>2. ASSUME NEW d \in Deliveries
      PROVE  pc'[d] = pc[d] \/ (pc[d] = "none" /\ pc'[d] = "ticket" /\ JobOf(d) \in Queued(p))
  <2>1. CASE JobOf(d) \in Queued(p) /\ d[2] = delivered[JobOf(d)] + 1
    <3>1. d[2] > delivered[JobOf(d)]
      BY <2>1, DeliveryParts DEF IInv, TypeOK
    <3>2. QED
      BY <1>1, <2>1, <3>1 DEF IInv, FreshNone
  <2>2. CASE ~(JobOf(d) \in Queued(p) /\ d[2] = delivered[JobOf(d)] + 1)
    BY <1>1, <2>2
  <2>3. QED
    BY <2>1, <2>2
<1>3. \A d \in Deliveries : OwnsItsThings(d)'
  BY <1>1, <1>2 DEF Outcomes, OwnsItsThings, Unprinted, Assembling, Failing, Waiting, Uncounted,
     Counted, Critical
<1>4. StatsExact'
  <2>1. \A d \in Deliveries : \A s \in Final : (d \in Ends(s))' <=> d \in Ends(s)
    BY <1>1, <1>2 DEF Ends, Scored, Counted
  <2>2. QED
    BY <1>1, <2>1, ScoreKept DEF IInv, Outcomes
<1>5. ASSUME NEW j \in Jobs PROVE CloudFollows(j)'
  <2>1. cloud[j] \in {"IN_PROGRESS", "STOPPED"} =>
          j \in unreported \/ \E d \in Deliveries : JobOf(d) = j /\ pc'[d] \in {"poll", "update"}
    BY <1>2 DEF Outcomes, CloudFollows
  <2>2. cloud[j] \in Final => delivered'[j] = delivered[j] /\ j \notin Queued(p)
    BY <1>1 DEF Queued, Final
  <2>3. cloud[j] \in Final /\ delivered'[j] = 1 =>
          \A d \in Deliveries : JobOf(d) = j => pc'[d] \in {"none", "end", "release", "leave", "remove"}
    BY <1>2, <2>2 DEF Outcomes, CloudFollows
  <2>4. QED
    BY <1>1, <2>1, <2>3 DEF Outcomes, CloudFollows
<1>6. QED
  BY <1>3, <1>4, <1>5 DEF Outcomes

LEMMA NativeOut ==
  ASSUME IInv, Outcomes, NEW d \in Deliveries, NativeStall(d) \/ NativeFinish(d)
  PROVE  Outcomes'
<1>1. /\ native[d] \in {"IN_PROGRESS", "STOPPED"}
      /\ \E s : native' = [native EXCEPT ![d] = s]
      /\ UNCHANGED <<cloud, unreported, delivered, pc, files, held, unreleased, state, statVars>>
  BY DEF NativeStall, NativeFinish
<1>2. native \in [Deliveries -> {"none"} \cup NativeState] /\ pc \in [Deliveries -> Step]
  BY DEF IInv, TypeOK
<1>3. \A e \in Deliveries \ {d} : Same(e)
  BY <1>1, <1>2 DEF Same
<1>4. OwnsItsThings(d)'
  BY <1>1 DEF Outcomes, OwnsItsThings
<1>5. StatsExact'
  BY <1>1 DEF Outcomes, StatsExact, Scored
<1>6. \A j \in Jobs : CloudFollows(j)'
  <2>1. \A e \in Deliveries : native[e] = "DONE" => native'[e] = "DONE"
    BY <1>1, <1>2
  <2>2. QED
    BY <1>1, <2>1 DEF Outcomes, CloudFollows
<1>7. QED
  BY <1>3, <1>4, <1>5, <1>6, OutcomesStep

LEMMA QuietOut ==
  ASSUME Outcomes, UNCHANGED <<cloud, unreported, delivered, pc, files, held, unreleased, state, native, statVars>>
  PROVE  Outcomes'
<1>1. \A d \in Deliveries : OwnsItsThings(d)'
  BY DEF Outcomes, OwnsItsThings
<1>2. \A j \in Jobs : CloudFollows(j)'
  BY DEF Outcomes, CloudFollows
<1>3. StatsExact'
  BY DEF Outcomes, StatsExact, Scored
<1>4. QED
  BY <1>1, <1>2, <1>3 DEF Outcomes

LEMMA InitOut == Init => Outcomes
<1> SUFFICES ASSUME Init PROVE Outcomes
  OBVIOUS
<1>1. \A d \in Deliveries : OwnsItsThings(d)
  BY DEF Init, InitWith, OwnsItsThings, Final
<1>2. \A j \in Jobs : CloudFollows(j)
  BY DEF Init, InitWith, CloudFollows, Final
<1>3. StatsExact
  <2>1. \A s : Ends(s) = {}
    BY DEF Init, InitWith, Ends, Scored, Counted
  <2>2. \A s : Cardinality(Ends(s)) = 0
    BY <2>1, FS_EmptySet
  <2>3. QED
    BY <2>2 DEF Init, InitWith, StatsExact, Ends
<1>4. QED
  BY <1>1, <1>2, <1>3 DEF Outcomes

LEMMA NextOut == IInv /\ Outcomes /\ [Next]_vars => Outcomes'
<1> SUFFICES ASSUME IInv, Outcomes, [Next]_vars PROVE Outcomes'
  OBVIOUS
<1>1. ASSUME NEW d \in Deliveries, ProcessJob(d) PROVE Outcomes'
  BY <1>1, TicketOut, TempFileOut, AcquireDownloadOut, DownloadOut, ReportFailedOut,
     ControlAbortedOut, SendJobOut DEF ProcessJob
<1>2. ASSUME NEW d \in Deliveries, PrintJob(d) PROVE Outcomes'
  BY <1>2, AddInFlightJobOut, LookupOut, AcquirePrinterOut, NativePrintOut, PollOut,
     UpdateOut, AbortOut, ReleaseJobOut, DeleteInFlightJobOut, RemoveFileOut DEF PrintJob
<1>3. CASE Environment
  <2>1. ASSUME NEW p \in Printers, PrinterLeaves(p) \/ PrinterEnters(p) PROVE Outcomes'
    BY <2>1, QuietOut DEF PrinterLeaves, PrinterEnters
  <2>2. QED
    BY <1>3, <2>1, NativeOut DEF Environment
<1>4. CASE Quit
  BY <1>4, QuietOut DEF Quit
<1>5. CASE UNCHANGED vars
  BY <1>5, QuietOut DEF vars
<1>6. QED
  BY <1>1, <1>2, <1>3, <1>4, <1>5, HandleJobsOut, ReceiveJobOut DEF Next

-----------------------------------------------------------------------------
(* The theorems about outcomes *)

\* The second invariant holds in every behaviour.
THEOREM OutcomesHold == Spec => []Outcomes
<1>1. Init => Outcomes
  BY InitOut
<1>2. QED
  BY <1>1, NextOut, Invariance, PTL DEF Spec

\* jobsDone and jobsError count each delivery once, at its point of no return.
\* (manager.printJob, processedJob; gcp.processJob.)
THEOREM StatisticsExact == Spec => []StatsExact
<1>1. Outcomes => StatsExact
  BY DEF Outcomes
<1>2. QED
  BY <1>1, OutcomesHold, PTL

\* A delivery that is over, or has failed to be assembled, has left no temporary
\* file, and a native job still retained only if its ReleaseJob failed, which
\* printJob logs and does not repeat.  (gcp.assembleJob; printJob's deferred
\* calls.)
THEOREM CleanedUp == Spec => []NothingLeftBehind
<1>1. Outcomes => NothingLeftBehind
  BY DEF Outcomes, OwnsItsThings, NothingLeftBehind, Ended, Failing, Waiting, Critical, Uncounted, Counted
<1>2. QED
  BY <1>1, OutcomesHold, PTL

\* A job the cloud shows in progress is in printJob, or a report was lost.
\* (manager.printJob, updateJob.)
THEOREM NotStuck == Spec => []NotStuckInProgress
<1>1. Outcomes => NotStuckInProgress
  BY DEF Outcomes, CloudFollows, NotStuckInProgress, Uncounted
<1>2. QED
  BY <1>1, OutcomesHold, PTL

\* The cloud is told DONE only of a job some native job has completed.
\* (manager.printJob; cups.convertJobState.)
THEOREM DoneMeansPrinted == Spec => []DoneIsPrinted
<1>1. Outcomes => DoneIsPrinted
  BY DEF Outcomes, CloudFollows, DoneIsPrinted
<1>2. QED
  BY <1>1, OutcomesHold, PTL

\* Only a delivery on its way reports, so the final state of a job that was
\* delivered once is never replaced.  (manager.printJob, updateJob.)
THEOREM FinalStays == Spec => FinalStateStays
<1>1. ASSUME IInv, Outcomes, [Next]_vars
      PROVE  [\A j \in Jobs : (cloud[j] \in Final /\ delivered[j] = 1) => cloud'[j] = cloud[j]]_vars
  <2> SUFFICES ASSUME NEW j \in Jobs, cloud[j] \in Final, delivered[j] = 1
               PROVE  cloud'[j] = cloud[j]
    OBVIOUS
  <2>1. ASSUME NEW d \in Deliveries, NEW s, UpdateJob(d, s), pc[d] \in {"control", "update", "abort"}
        PROVE  cloud'[j] = cloud[j]
    <3>1. JobOf(d) # j
      BY <1>1, <2>1 DEF Outcomes, CloudFollows
    <3>2. QED
      BY <1>1, <2>1, <3>1 DEF UpdateJob, IInv, TypeOK
  <2>2. ASSUME NEW d \in Deliveries, ProcessJob(d) PROVE cloud'[j] = cloud[j]
    BY <2>1, <2>2 DEF ProcessJob, Ticket, TempFile, AcquireDownload, Download, ReportFailed,
       ControlAborted, SendJob
  <2>3. ASSUME NEW d \in Deliveries, PrintJob(d) PROVE cloud'[j] = cloud[j]
    BY <2>1, <2>3 DEF PrintJob, AddInFlightJob, Lookup, AcquirePrinter, NativePrint, Poll, Update,
       Abort, ReleaseJob, DeleteInFlightJob, RemoveFile
  <2>4. CASE Environment \/ Quit \/ ReceiveJob \/ UNCHANGED vars
    BY <2>4 DEF Environment, NativeStall, NativeFinish, PrinterLeaves, PrinterEnters, Quit,
       ReceiveJob, vars
  <2>5. ASSUME NEW p \in Printers, HandleJobs(p) PROVE cloud'[j] = cloud[j]
    BY <2>5 DEF HandleJobs
  <2>6. QED
    BY <1>1, <2>2, <2>3, <2>4, <2>5 DEF Next
<1>2. QED
  BY <1>1, Invariance, OutcomesHold, PTL DEF Spec, FinalStateStays
=============================================================================
