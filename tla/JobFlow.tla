------------------------------ MODULE JobFlow ------------------------------
(***************************************************************************)
(* The way of a cloud print job through the connector: the manager asks    *)
(* for a printer's queued jobs (gcp.HandleJobs), each job fetched gets a   *)
(* goroutine that assembles it (gcp.processJob) and sends it on the jobs   *)
(* channel; the manager receives it (listenNotifications) and starts       *)
(* printJob, which prints it, follows the native job and reports its state *)
(* to the cloud.                                                           *)
(*                                                                         *)
(* A job is delivered again by every fetch that finds it QUEUED, so all    *)
(* the steps belong to a delivery <<j, k>>, the k-th one of job j.  The    *)
(* cloud, the native print system and the printer map (module PrinterSync) *)
(* are the environment.                                                    *)
(***************************************************************************)
EXTENDS Naturals, Sequences, FiniteSets

CONSTANTS
  Jobs, Printers,
  PrinterOf,        \* the printer each job is for
  MaxDeliveries,    \* bound: times one job is fetched
  MaxDownloads,     \* size of gcp.downloadSemaphore
  JobsCap,          \* capacity of the jobs channel
  QueueSize,        \* nativeJobQueueSize: size of a printer's semaphore
  MaxSemaphores,    \* bound: times a printer enters the map
  MaxFaults         \* bound on failed calls

ASSUME ConstantsAssumption ==
  /\ IsFiniteSet(Jobs)
  /\ PrinterOf \in [Jobs -> Printers]
  /\ {MaxDeliveries, MaxFaults, MaxSemaphores} \subseteq Nat
  /\ {MaxDownloads, JobsCap, QueueSize} \subseteq Nat \ {0}

Deliveries == Jobs \X (1 .. MaxDeliveries)
JobOf(d) == d[1]
Printer(d) == PrinterOf[d[1]]

Final == {"DONE", "ABORTED"}
NativeState == {"IN_PROGRESS", "STOPPED"} \cup Final

\* What a delivery does next.
Assembling == {"ticket", "file", "acquire", "download", "send"}
Failing    == {"report", "control"}
Waiting    == {"queued", "start"}
Uncounted  == {"lookup", "print", "submit", "poll", "update"}
Counted    == {"abort", "release", "leave"}
Critical   == Uncounted \cup Counted    \* between addInFlightJob and deleteInFlightJob
Step == {"none", "remove", "end"} \cup Assembling \cup Failing \cup Waiting \cup Critical

VARIABLES
  cloud,      \* state of each job in the cloud
  delivered,  \* how often each job has been fetched
  pc,         \* the next step of each delivery
  files,      \* deliveries whose temporary file exists
  downloads,  \* count of gcp.downloadSemaphore
  jobs,       \* the jobs channel
  inFlight,   \* pm.jobsInFlight
  semaphore,  \* the semaphore of each printer of the map, 0 when not in it
  acquired,   \* count of each semaphore ever made for a printer
  mine,       \* printJob's printer.NativeJobSemaphore
  state,      \* the state last reported, or about to be, by a delivery
  native,     \* state of each delivery's native job
  held,       \* native jobs printed and not yet released (ReleaseJob)
  jobsDone, jobsError,
  quit,       \* listenNotifications has returned
  unreported, \* (history) jobs with a state the cloud did not receive
  unreleased, \* (history) deliveries whose ReleaseJob failed
  faults

gcpVars    == <<files, downloads>>
semVars    == <<semaphore, acquired, mine>>
nativeVars == <<native, held, unreleased>>
statVars   == <<jobsDone, jobsError>>
cloudVars  == <<cloud, unreported>>
vars == <<cloudVars, delivered, pc, gcpVars, jobs, inFlight, semVars, state,
          nativeVars, statVars, quit, faults>>

Semaphores == 0 .. MaxSemaphores

TypeOK ==
  /\ cloud \in [Jobs -> {"QUEUED"} \cup NativeState]
  /\ delivered \in [Jobs -> 0 .. MaxDeliveries]
  /\ pc \in [Deliveries -> Step]
  /\ files \subseteq Deliveries
  /\ downloads \in 0 .. MaxDownloads
  /\ jobs \in Seq(Deliveries)
  /\ inFlight \subseteq Jobs
  /\ semaphore \in [Printers -> Semaphores]
  /\ acquired \in [Printers -> [Semaphores -> 0 .. QueueSize]]
  /\ mine \in [Deliveries -> Semaphores]
  /\ state \in [Deliveries -> {"none"} \cup NativeState]
  /\ native \in [Deliveries -> {"none"} \cup NativeState]
  /\ held \subseteq Deliveries /\ unreleased \subseteq Deliveries
  /\ jobsDone \in Nat /\ jobsError \in Nat
  /\ quit \in BOOLEAN
  /\ unreported \subseteq Jobs
  /\ faults \in Nat

\* The connector starts; `fetched` and `failed` spend part of the bounds.
InitWith(fetched, failed) ==
  /\ cloud = [j \in Jobs |-> "QUEUED"] /\ unreported = {}
  /\ delivered = fetched
  /\ pc = [d \in Deliveries |-> "none"]
  /\ files = {} /\ downloads = 0 /\ jobs = <<>> /\ inFlight = {}
  /\ semaphore \in [Printers -> {0, 1} \cap Semaphores]
  /\ acquired = [p \in Printers |-> [s \in Semaphores |-> 0]]
  /\ mine = [d \in Deliveries |-> 0]
  /\ state = [d \in Deliveries |-> "none"]
  /\ native = [d \in Deliveries |-> "none"] /\ held = {} /\ unreleased = {}
  /\ jobsDone = 0 /\ jobsError = 0
  /\ quit = FALSE /\ faults = failed

Init == InitWith([j \in Jobs |-> 0], 0)

Fault   == faults < MaxFaults /\ faults' = faults + 1
NoFault == UNCHANGED faults

GoTo(d, step) == pc' = [pc EXCEPT ![d] = step]
At(d, step)   == pc[d] = step

\* updateJob, that is gcp.Control: an error is only logged.
UpdateJob(d, s) ==
  \/ cloud' = [cloud EXCEPT ![JobOf(d)] = s] /\ UNCHANGED unreported /\ NoFault
  \/ UNCHANGED cloud /\ unreported' = unreported \cup {JobOf(d)} /\ Fault

CountJob(success) ==
  IF success THEN jobsDone' = jobsDone + 1 /\ UNCHANGED jobsError
             ELSE jobsError' = jobsError + 1 /\ UNCHANGED jobsDone
-----------------------------------------------------------------------------
(* gcp.HandleJobs, on a notification or at start-up *)

Queued(p) ==
  {j \in Jobs : PrinterOf[j] = p /\ cloud[j] = "QUEUED" /\ delivered[j] < MaxDeliveries}

\* A notification for a printer that is not in the map is dropped; one
\* goroutine is started for each job that the cloud returns.
HandleJobs(p) ==
  /\ ~quit /\ semaphore[p] # 0 /\ Queued(p) # {}
  /\ delivered' = [j \in Jobs |-> IF j \in Queued(p) THEN delivered[j] + 1 ELSE delivered[j]]
  /\ pc' = [d \in Deliveries |->
              IF JobOf(d) \in Queued(p) /\ d[2] = delivered[JobOf(d)] + 1 THEN "ticket" ELSE pc[d]]
  /\ UNCHANGED <<cloudVars, gcpVars, jobs, inFlight, semVars, state, nativeVars, statVars, quit, faults>>

-----------------------------------------------------------------------------
(* gcp.processJob and gcp.assembleJob *)

assembleFrame ==
  <<cloudVars, delivered, inFlight, semVars, state, nativeVars, statVars, quit>>

Ticket(d) ==
  /\ At(d, "ticket")
  /\ \/ GoTo(d, "file") /\ NoFault
     \/ GoTo(d, "report") /\ Fault
  /\ UNCHANGED <<assembleFrame, gcpVars, jobs>>

TempFile(d) ==
  /\ At(d, "file")
  /\ \/ files' = files \cup {d} /\ GoTo(d, "acquire") /\ NoFault
     \/ UNCHANGED files /\ GoTo(d, "report") /\ Fault
  /\ UNCHANGED <<assembleFrame, downloads, jobs>>

AcquireDownload(d) ==
  /\ At(d, "acquire") /\ downloads < MaxDownloads
  /\ downloads' = downloads + 1
  /\ GoTo(d, "download")
  /\ UNCHANGED <<assembleFrame, files, jobs, faults>>

\* Seeded faults of Download: the slot is released twice, never, or only when
\* the download succeeds; the file of a failed download stays.
Download_ReleaseTwice(d) ==
  /\ At(d, "download")
  /\ downloads' = downloads - 2
  /\ GoTo(d, "send") /\ NoFault
  /\ UNCHANGED <<assembleFrame, files, jobs>>

Download_NoRelease(d) ==
  /\ At(d, "download")
  /\ GoTo(d, "send") /\ NoFault
  /\ UNCHANGED <<assembleFrame, gcpVars, jobs>>

Download_NoReleaseOnError(d) ==
  /\ At(d, "download")
  /\ \/ downloads' = downloads - 1 /\ UNCHANGED files /\ GoTo(d, "send") /\ NoFault
     \/ UNCHANGED downloads /\ files' = files \ {d} /\ GoTo(d, "report") /\ Fault
  /\ UNCHANGED <<assembleFrame, jobs>>

Download_KeepFile(d) ==
  /\ At(d, "download")
  /\ downloads' = downloads - 1
  /\ \/ GoTo(d, "send") /\ NoFault
     \/ GoTo(d, "report") /\ Fault
  /\ UNCHANGED <<assembleFrame, files, jobs>>

\* The semaphore is released before the error is looked at.
Download(d) ==
  /\ At(d, "download")
  /\ downloads' = downloads - 1
  /\ \/ UNCHANGED files /\ GoTo(d, "send") /\ NoFault
     \/ files' = files \ {d} /\ GoTo(d, "report") /\ Fault
  /\ UNCHANGED <<assembleFrame, jobs>>

\* reportJobFailed, then Control(ABORTED).
ReportFailed(d) ==
  /\ At(d, "report")
  /\ CountJob(FALSE)
  /\ state' = [state EXCEPT ![d] = "ABORTED"]
  /\ GoTo(d, "control")
  /\ UNCHANGED <<cloudVars, delivered, gcpVars, jobs, inFlight, semVars, nativeVars, quit, faults>>

ControlAborted(d) ==
  /\ At(d, "control")
  /\ UpdateJob(d, "ABORTED")
  /\ GoTo(d, "end")
  /\ UNCHANGED <<delivered, gcpVars, jobs, inFlight, semVars, state, nativeVars, statVars, quit>>

SendJob(d) ==
  /\ At(d, "send") /\ Len(jobs) < JobsCap
  /\ jobs' = Append(jobs, d)
  /\ GoTo(d, "queued")
  /\ UNCHANGED <<assembleFrame, gcpVars, faults>>

ProcessJob(d) ==
  \/ Ticket(d) \/ TempFile(d) \/ AcquireDownload(d) \/ Download(d)
  \/ ReportFailed(d) \/ ControlAborted(d) \/ SendJob(d)
-----------------------------------------------------------------------------
(* listenNotifications and printJob *)

ReceiveJob ==
  /\ ~quit /\ jobs # <<>>
  /\ GoTo(Head(jobs), "start")
  /\ jobs' = Tail(jobs)
  /\ UNCHANGED <<assembleFrame, gcpVars, faults>>

\* Seeded faults: a duplicate runs the deferred deleteInFlightJob; or the set
\* is not looked at.
AddInFlightJob_DeferFirst(d) ==
  /\ At(d, "start")
  /\ IF JobOf(d) \in inFlight
     THEN GoTo(d, "leave") /\ UNCHANGED inFlight
     ELSE GoTo(d, "lookup") /\ inFlight' = inFlight \cup {JobOf(d)}
  /\ UNCHANGED <<cloudVars, delivered, gcpVars, jobs, semVars, state, nativeVars, statVars, quit, faults>>

AddInFlightJob_NoCheck(d) ==
  /\ At(d, "start")
  /\ GoTo(d, "lookup") /\ inFlight' = inFlight \cup {JobOf(d)}
  /\ UNCHANGED <<cloudVars, delivered, gcpVars, jobs, semVars, state, nativeVars, statVars, quit, faults>>

\* addInFlightJob: a job that is in flight already is dropped.
AddInFlightJob(d) ==
  /\ At(d, "start")
  /\ IF JobOf(d) \in inFlight
     THEN GoTo(d, "remove") /\ UNCHANGED inFlight
     ELSE GoTo(d, "lookup") /\ inFlight' = inFlight \cup {JobOf(d)}
  /\ UNCHANGED <<cloudVars, delivered, gcpVars, jobs, semVars, state, nativeVars, statVars, quit, faults>>

\* Seeded fault: a job whose printer is gone is not counted.
Lookup_NotCounted(d) ==
  /\ At(d, "lookup")
  /\ IF semaphore[Printer(d)] # 0
     THEN /\ mine' = [mine EXCEPT ![d] = semaphore[Printer(d)]]
          /\ GoTo(d, "print") /\ UNCHANGED state
     ELSE /\ state' = [state EXCEPT ![d] = "ABORTED"]
          /\ GoTo(d, "abort") /\ UNCHANGED mine
  /\ UNCHANGED <<cloudVars, delivered, gcpVars, jobs, inFlight, semaphore, acquired, nativeVars, statVars, quit, faults>>

Lookup(d) ==
  /\ At(d, "lookup")
  /\ IF semaphore[Printer(d)] # 0
     THEN /\ mine' = [mine EXCEPT ![d] = semaphore[Printer(d)]]
          /\ GoTo(d, "print") /\ UNCHANGED <<state, statVars>>
     ELSE /\ CountJob(FALSE) /\ state' = [state EXCEPT ![d] = "ABORTED"]
          /\ GoTo(d, "abort") /\ UNCHANGED mine
  /\ UNCHANGED <<cloudVars, delivered, gcpVars, jobs, inFlight, semaphore, acquired, nativeVars, quit, faults>>

\* native.Print waits for the printer's semaphore, ...
AcquirePrinter(d) ==
  /\ At(d, "print") /\ acquired[Printer(d)][mine[d]] < QueueSize
  /\ acquired' = [acquired EXCEPT ![Printer(d)][mine[d]] = @ + 1]
  /\ GoTo(d, "submit")
  /\ UNCHANGED <<cloudVars, delivered, gcpVars, jobs, inFlight, semaphore, mine, state, nativeVars, statVars, quit, faults>>

\* ... submits the native job and releases it.
NativePrint(d) ==
  /\ At(d, "submit")
  /\ acquired' = [acquired EXCEPT ![Printer(d)][mine[d]] = @ - 1]
  /\ \/ /\ native' = [native EXCEPT ![d] = "IN_PROGRESS"] /\ held' = held \cup {d}
        /\ GoTo(d, "poll") /\ NoFault /\ UNCHANGED <<unreleased, state, statVars>>
     \/ /\ CountJob(FALSE) /\ state' = [state EXCEPT ![d] = "ABORTED"]
        /\ GoTo(d, "abort") /\ Fault /\ UNCHANGED nativeVars
  /\ UNCHANGED <<cloudVars, delivered, gcpVars, jobs, inFlight, semaphore, mine, quit>>

\* Seeded fault: a native job that is no longer known counts as printed.
Poll_UnknownIsDone(d) ==
  /\ At(d, "poll")
  /\ \/ native[d] # state[d] /\ state' = [state EXCEPT ![d] = native[d]] /\ NoFault
     \/ state' = [state EXCEPT ![d] = "DONE"] /\ Fault
  /\ GoTo(d, "update")
  /\ UNCHANGED <<cloudVars, delivered, gcpVars, jobs, inFlight, semVars, nativeVars, statVars, quit>>

\* A tick of the poll loop: only a state that differs from the last one is
\* reported; a job whose state cannot be had is given up.
Poll(d) ==
  /\ At(d, "poll")
  /\ \/ native[d] # state[d] /\ state' = [state EXCEPT ![d] = native[d]] /\ NoFault
     \/ state' = [state EXCEPT ![d] = "ABORTED"] /\ Fault
  /\ GoTo(d, "update")
  /\ UNCHANGED <<cloudVars, delivered, gcpVars, jobs, inFlight, semVars, nativeVars, statVars, quit>>

\* Seeded faults: the final state is not reported; only DONE ends the loop.
Update_FinalNotReported(d) ==
  /\ At(d, "update")
  /\ IF state[d] \in Final
     THEN CountJob(state[d] = "DONE") /\ GoTo(d, "release") /\ UNCHANGED <<cloudVars, faults>>
     ELSE UpdateJob(d, state[d]) /\ UNCHANGED statVars /\ GoTo(d, "poll")
  /\ UNCHANGED <<delivered, gcpVars, jobs, inFlight, semVars, state, nativeVars, quit>>

Update_OnlyDoneEnds(d) ==
  /\ At(d, "update")
  /\ UpdateJob(d, state[d])
  /\ IF state[d] = "DONE"
     THEN CountJob(TRUE) /\ GoTo(d, "release")
     ELSE UNCHANGED statVars /\ GoTo(d, "poll")
  /\ UNCHANGED <<delivered, gcpVars, jobs, inFlight, semVars, state, nativeVars, quit>>

Update(d) ==
  /\ At(d, "update")
  /\ UpdateJob(d, state[d])
  /\ IF state[d] \in Final
     THEN CountJob(state[d] = "DONE") /\ GoTo(d, "release")
     ELSE UNCHANGED statVars /\ GoTo(d, "poll")
  /\ UNCHANGED <<delivered, gcpVars, jobs, inFlight, semVars, state, nativeVars, quit>>

\* The printer is gone or printing failed.
Abort(d) ==
  /\ At(d, "abort")
  /\ UpdateJob(d, "ABORTED")
  /\ GoTo(d, "leave")
  /\ UNCHANGED <<delivered, gcpVars, jobs, inFlight, semVars, state, nativeVars, statVars, quit>>

\* The deferred calls, last to first.  An error of ReleaseJob is only logged,
\* and nobody tries again: the native job stays retained.
ReleaseJob(d) ==
  /\ At(d, "release")
  /\ \/ held' = held \ {d} /\ UNCHANGED unreleased /\ NoFault
     \/ UNCHANGED held /\ unreleased' = unreleased \cup {d} /\ Fault
  /\ GoTo(d, "leave")
  /\ UNCHANGED <<cloudVars, delivered, gcpVars, jobs, inFlight, semVars, state, native, statVars, quit>>

DeleteInFlightJob(d) ==
  /\ At(d, "leave")
  /\ inFlight' = inFlight \ {JobOf(d)}
  /\ GoTo(d, "remove")
  /\ UNCHANGED <<cloudVars, delivered, gcpVars, jobs, semVars, state, nativeVars, statVars, quit, faults>>

\* os.Remove of printJob's own file is taken to succeed.
RemoveFile(d) ==
  /\ At(d, "remove")
  /\ files' = files \ {d}
  /\ GoTo(d, "end")
  /\ UNCHANGED <<assembleFrame, downloads, jobs, faults>>

PrintJob(d) ==
  \/ AddInFlightJob(d) \/ Lookup(d) \/ AcquirePrinter(d) \/ NativePrint(d) \/ Poll(d)
  \/ Update(d) \/ Abort(d) \/ ReleaseJob(d) \/ DeleteInFlightJob(d) \/ RemoveFile(d)
-----------------------------------------------------------------------------
(* Environment *)

nativeFrame ==
  <<cloudVars, delivered, pc, gcpVars, jobs, inFlight, semVars, state, held,
    unreleased, statVars, quit, faults>>

NativeStall(d) ==
  /\ native[d] \in {"IN_PROGRESS", "STOPPED"}
  /\ native' = [native EXCEPT ![d] = IF @ = "STOPPED" THEN "IN_PROGRESS" ELSE "STOPPED"]
  /\ UNCHANGED nativeFrame

NativeFinish(d) ==
  /\ native[d] \in {"IN_PROGRESS", "STOPPED"}
  /\ \E s \in Final : native' = [native EXCEPT ![d] = s]
  /\ UNCHANGED nativeFrame

\* A sync drops a printer from the map, or registers it: with a new semaphore.
PrinterLeaves(p) ==
  /\ semaphore[p] # 0
  /\ semaphore' = [semaphore EXCEPT ![p] = 0]
  /\ UNCHANGED <<cloudVars, delivered, pc, gcpVars, jobs, inFlight, acquired, mine, state,
                 nativeVars, statVars, quit, faults>>

\* (The fresh semaphore is the least that no delivery has ever used.)
PrinterEnters(p) ==
  /\ semaphore[p] = 0
  /\ \E s \in Semaphores \ {0} :
       /\ \A d \in Deliveries : Printer(d) = p => mine[d] < s
       /\ s = 1 \/ \E d \in Deliveries : Printer(d) = p /\ mine[d] = s - 1
       /\ semaphore' = [semaphore EXCEPT ![p] = s]
  /\ UNCHANGED <<cloudVars, delivered, pc, gcpVars, jobs, inFlight, acquired, mine, state,
                 nativeVars, statVars, quit, faults>>

Quit ==
  /\ ~quit /\ quit' = TRUE
  /\ UNCHANGED <<cloudVars, delivered, pc, gcpVars, jobs, inFlight, semVars, state,
                 nativeVars, statVars, faults>>

Environment ==
  \/ \E d \in Deliveries : NativeStall(d) \/ NativeFinish(d)
  \/ \E p \in Printers : PrinterLeaves(p) \/ PrinterEnters(p)
-----------------------------------------------------------------------------
Next ==
  \/ \E p \in Printers : HandleJobs(p)
  \/ ReceiveJob
  \/ \E d \in Deliveries : ProcessJob(d) \/ PrintJob(d)
  \/ Environment
  \/ Quit

Spec == Init /\ [][Next]_vars

\* The goroutines run, processJob's and then printJob's of each delivery, and
\* a native job does not stay unfinished for ever.
Fairness ==
  /\ WF_vars(ReceiveJob)
  /\ \A d \in Deliveries :
       /\ WF_vars(ProcessJob(d) \/ PrintJob(d))
       /\ WF_vars(NativeFinish(d))

FairSpec == Spec /\ Fairness
-----------------------------------------------------------------------------
(* Properties *)

Ended(d) == pc[d] = "end"

\* printJob's in-flight set excludes: two deliveries of one job are never
\* printed at the same time, and the set holds exactly the jobs in printJob.
\* (addInFlightJob and deleteInFlightJob.)
OnePrintAtATime ==
  /\ inFlight = {JobOf(d) : d \in {e \in Deliveries : pc[e] \in Critical}}
  /\ \A d, e \in Deliveries :
       (JobOf(d) = JobOf(e) /\ pc[d] \in Critical /\ pc[e] \in Critical) => d = e

\* The goroutines that hold a download slot, and a printer's semaphore.
Downloading      == {d \in Deliveries : pc[d] = "download"}
Submitting(p, s) == {d \in Deliveries : pc[d] = "submit" /\ Printer(d) = p /\ mine[d] = s}

\* The semaphores count exactly the goroutines between Acquire and Release,
\* on every path: no slot is leaked or freed twice.
SemaphoresExact ==
  /\ downloads = Cardinality(Downloading)
  /\ \A p \in Printers : \A s \in Semaphores : acquired[p][s] = Cardinality(Submitting(p, s))

\* jobsDone and jobsError count every delivery once, at its point of no
\* return, and duplicates that are thrown away not at all.
Scored(d) == pc[d] \in Counted \cup {"control", "remove", "end"} /\ state[d] # "none"
StatsExact ==
  /\ jobsDone = Cardinality({d \in Deliveries : Scored(d) /\ state[d] = "DONE"})
  /\ jobsError = Cardinality({d \in Deliveries : Scored(d) /\ state[d] = "ABORTED"})

\* A delivery that is over, however it ended, has left no temporary file, and
\* a native job still retained only if the one call that releases it failed.
\* (assembleJob's clean-up; printJob's deferred os.Remove and releaseJob, which
\* logs an error of native.ReleaseJob and does not retry.)
NothingLeftBehind ==
  \A d \in Deliveries :
    (Ended(d) \/ pc[d] \in Failing) => d \notin files /\ (d \in held => d \in unreleased)

\* A job the cloud shows as being printed is in printJob, or a report was
\* lost: errors of updateJob are logged and never retried.
NotStuckInProgress ==
  \A j \in Jobs : cloud[j] \in {"IN_PROGRESS", "STOPPED"} =>
    j \in unreported \/ \E d \in Deliveries : JobOf(d) = j /\ pc[d] \in Uncounted

\* The cloud is told DONE only of a job that some native job has completed, as
\* CUPS reports it.  (Windows' native states, where a paused job counts as
\* done, are those of Winspool: see PausedJobsStay.)
DoneIsPrinted ==
  \A j \in Jobs : cloud[j] = "DONE" =>
    \E d \in Deliveries : JobOf(d) = j /\ native[d] = "DONE"

\* The final state of a job that was delivered once stays.
FinalStateStays ==
  [][\A j \in Jobs : (cloud[j] \in Final /\ delivered[j] = 1) => cloud'[j] = cloud[j]]_vars

\* Every job fetched is brought to an end, unless the manager quits: no
\* delivery waits for ever for a semaphore or for room on the channel.  (As the
\* deliveries are finitely many, time and again none is under way.)
UnderWay(d) == pc[d] \notin {"none", "end"}
EveryDeliveryEnds == []<>(quit \/ \A d \in Deliveries : ~UnderWay(d))

\* What the manager promises about jobs (module PrintService).
StageOf(j) ==
  IF \E d \in Deliveries : JobOf(d) = j /\ pc[d] \in Uncounted THEN "printing"
  ELSE IF \E d \in Deliveries : JobOf(d) = j /\ pc[d] \in Counted THEN "counted"
  ELSE "idle"
Service == INSTANCE PrintService WITH stage <- [j \in Jobs |-> StageOf(j)]
ImplementsService == Service!ServiceSpec

\* printermanager.go says of a job received again "just throw away the second
\* instance": a job is handed to the native print system once.
PrintedOnce ==
  \A d, e \in Deliveries :
    (JobOf(d) = JobOf(e) /\ native[d] # "none" /\ native[e] # "none") => d = e
=============================================================================
