----------------------------- MODULE LocalJobs -----------------------------
(***************************************************************************)
(* Local print jobs (privet/api-server.go, privet/jobcache.go): createjob  *)
(* and submitdoc of a printer's HTTP API, the cache of jobs with their     *)
(* timers, and the printing of what they submit.  The steps are composed   *)
(* with the program in Connector.                                          *)
(***************************************************************************)
EXTENDS Naturals, Sequences, FiniteSets

CONSTANTS
  Requests,     \* requests to the API of one printer
  JobIds,       \* job IDs, in the order in which they are handed out
  JobsCap,      \* capacity of the jobs channel
  Lifetime,     \* jobLifetime
  MaxClock      \* bound on time

ASSUME LocalJobsAssumption ==
  /\ IsFiniteSet(Requests) /\ IsFiniteSet(JobIds) /\ JobIds = 1 .. Cardinality(JobIds)
  /\ Requests \cap JobIds = {}
  /\ {JobsCap, Lifetime} \subseteq Nat \ {0} /\ MaxClock \in Nat

VARIABLES
  clock,
  printer,    \* the printer in the manager's map: "idle", "stopped" or "gone"
  cache,      \* jobCache.entries: [state, expires], or NoJob
  timer,      \* the AfterFunc of each entry: "none", "set" or "fired"
  issued,     \* job IDs handed out
  promised,   \* (history) until when a client was told its job ID would do
  req,        \* each request: [at, job]
  file,       \* requests of this process whose temporary file exists
  orphans,    \* temporary files that former processes have left on the disk
  jobs        \* the jobs channel

jobVars == <<clock, printer, cache, timer, issued, promised, req, file, orphans, jobs>>
NoJob   == [state |-> "none", expires |-> 0]
NoReq   == [at |-> "idle", job |-> 0]

JobsOff ==
  /\ clock = 0 /\ printer = "idle" /\ cache = [i \in JobIds |-> NoJob]
  /\ timer = [i \in JobIds |-> "none"] /\ issued = 0
  /\ promised = [i \in JobIds |-> 0] /\ req = [r \in Requests |-> NoReq]
  /\ file = {} /\ orphans = 0 /\ jobs = <<>>

\* The process ends: what it knew of its files is lost, the files stay, and no
\* process ever removes them.
JobsEnd ==
  /\ cache' = [i \in JobIds |-> NoJob]
  /\ timer' = [i \in JobIds |-> "none"] /\ issued' = 0
  /\ promised' = [i \in JobIds |-> 0] /\ req' = [r \in Requests |-> NoReq]
  /\ orphans' = orphans + Cardinality(file) /\ file' = {}
  /\ jobs' = <<>> /\ UNCHANGED <<clock, printer>>

cacheVars == <<cache, timer, issued, promised>>
At(r, at) == req' = [req EXCEPT ![r].at = at]

-----------------------------------------------------------------------------
(* The job cache *)

\* The next ID, in getNextJobID's order, gets an entry and a timer.
CreateEntry(i, state) ==
  /\ i = issued + 1 /\ i \in JobIds
  /\ issued' = i
  /\ cache' = [cache EXCEPT ![i] = [state |-> state, expires |-> clock + Lifetime]]
  /\ timer' = [timer EXCEPT ![i] = "set"]
  /\ promised' = [promised EXCEPT ![i] = clock + Lifetime]

\* The timer fires, not before its time.
DeleteEntry(i) ==
  /\ timer[i] = "set" /\ clock >= cache[i].expires
  /\ timer' = [timer EXCEPT ![i] = "fired"]
  /\ cache' = [cache EXCEPT ![i] = NoJob]
  /\ UNCHANGED <<clock, printer, issued, promised, req, file, orphans, jobs>>

\* Seeded fault: the entry is written back although it has expired.
UpdateJob_Always(i, state) == cache' = [cache EXCEPT ![i].state = state]

\* Of a job that has expired nothing is kept, and nothing is said.
UpdateJob(i, state) ==
  cache' = IF cache[i] = NoJob THEN cache ELSE [cache EXCEPT ![i].state = state]

-----------------------------------------------------------------------------
(* createjob and submitdoc *)

Accepting == printer = "idle"

CreateJob(r) ==
  /\ req[r].at = "idle" /\ Accepting
  /\ \E i \in JobIds : CreateEntry(i, "QUEUED")
  /\ At(r, "done")
  /\ UNCHANGED <<clock, printer, file, orphans, jobs>>

Upload(r) ==
  /\ req[r].at = "idle"
  /\ \E i \in {0} \cup 1 .. issued : req' = [req EXCEPT ![r] = [at |-> "upload", job |-> i]]
  /\ file' = file \cup {r}
  /\ UNCHANGED <<clock, printer, cacheVars, orphans, jobs>>

\* Seeded fault: the file of a rejected request stays.
Rejected_KeepsFile(r) == At(r, "done") /\ UNCHANGED file

\* A request is turned down: its file is removed.
Rejected(r) == At(r, "done") /\ file' = file \ {r}

\* The copy fails, the length is wrong or the type is missing.
BadUpload(r) ==
  /\ req[r].at = "upload"
  /\ Rejected(r)
  /\ UNCHANGED <<clock, printer, cacheVars, orphans, jobs>>

\* The printer is gone, or stopped.
Unavailable(r) ==
  /\ req[r].at = "upload" /\ ~Accepting
  /\ Rejected(r)
  /\ UNCHANGED <<clock, printer, cacheVars, orphans, jobs>>

\* Without a job ID the document is a job of its own, without a ticket.
NewJob(r) ==
  /\ req[r].at = "upload" /\ Accepting /\ req[r].job = 0
  /\ \E i \in JobIds :
       /\ CreateEntry(i, "DRAFT")
       /\ req' = [req EXCEPT ![r] = [at |-> "send", job |-> i]]
  /\ UNCHANGED <<clock, printer, file, orphans, jobs>>

\* getJobExpiresIn: the entry is read, and stays as it is.
KnownJob(r) ==
  LET i == req[r].job
  IN  /\ req[r].at = "upload" /\ Accepting /\ i \in JobIds /\ cache[i] # NoJob
      /\ At(r, "send")
      /\ promised' = [promised EXCEPT ![i] = cache[i].expires]
      /\ UNCHANGED <<clock, printer, cache, timer, issued, file, orphans, jobs>>

UnknownJob(r) ==
  /\ req[r].at = "upload" /\ Accepting
  /\ req[r].job \in JobIds /\ cache[req[r].job] = NoJob
  /\ Rejected(r)
  /\ UNCHANGED <<clock, printer, cacheVars, orphans, jobs>>

SendJob(r) ==
  /\ req[r].at = "send" /\ Len(jobs) < JobsCap
  /\ jobs' = Append(jobs, r)
  /\ At(r, "queued")
  /\ UNCHANGED <<clock, printer, cacheVars, file, orphans>>

SubmitDoc(r) ==
  BadUpload(r) \/ Unavailable(r) \/ NewJob(r) \/ KnownJob(r) \/ UnknownJob(r) \/ SendJob(r)

-----------------------------------------------------------------------------
(* listenNotifications and printJob *)
InFlight(i) == \E r \in Requests : req[r].at = "print" /\ req[r].job = i

\* A second document of a job that is being printed is thrown away.
JobReceived ==
  /\ jobs # <<>> /\ jobs' = Tail(jobs)
  /\ LET r == Head(jobs)
     IN  IF InFlight(req[r].job) THEN Rejected(r) ELSE At(r, "print") /\ UNCHANGED file
  /\ UNCHANGED <<clock, printer, cacheVars, orphans>>

JobPrinting(r) ==
  /\ req[r].at = "print"
  /\ UpdateJob(req[r].job, "IN_PROGRESS")
  /\ UNCHANGED <<clock, printer, timer, issued, promised, req, file, orphans, jobs>>

JobEnds(r) ==
  /\ req[r].at = "print"
  /\ \E state \in {"DONE", "ABORTED"} : UpdateJob(req[r].job, state)
  /\ At(r, "done") /\ file' = file \ {r}
  /\ UNCHANGED <<clock, printer, timer, issued, promised, orphans, jobs>>

-----------------------------------------------------------------------------
Tick == clock < MaxClock /\ clock' = clock + 1
        /\ UNCHANGED <<printer, cacheVars, req, file, orphans, jobs>>

PrinterChanges ==
  /\ printer' \in {"idle", "stopped", "gone"} \ {printer}
  /\ UNCHANGED <<clock, cacheVars, req, file, orphans, jobs>>

JobSteps ==
  \/ \E i \in JobIds : DeleteEntry(i)
  \/ \E r \in Requests : SubmitDoc(r) \/ JobPrinting(r) \/ JobEnds(r)

JobRequests == Tick \/ \E r \in Requests : CreateJob(r) \/ Upload(r)

\* The temporary file of a request exists exactly as long as something is left
\* to do with it: while it is handled, waits in the channel or is printed.
\* (submitdoc removes it on every error path, printJob when it returns; what
\* the end of a process leaves behind is not counted here but in orphans.)
FilesExact == file = {r \in Requests : req[r].at \in {"upload", "send", "queued", "print"}}

\* A job is in the cache until its time is over, whatever was promised to
\* whom, and never again afterwards: an update that comes late does not bring
\* it back, which would leave an entry without a timer for good.
CacheExact ==
  \A i \in JobIds :
    /\ cache[i].state # "none" <=> timer[i] = "set"
    /\ clock < promised[i] => cache[i] # NoJob
=============================================================================
