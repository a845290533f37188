------------------------------ MODULE Winspool ------------------------------
(***************************************************************************)
(* Printing on Windows (winspool/winspool.go): Print renders a document    *)
(* through a ladder of resources and hands it to the spooler, retains the  *)
(* job so that it can be asked for later, and frees the ladder; printJob   *)
(* of the printer manager then polls GetJobState and calls ReleaseJob.     *)
(*                                                                         *)
(* The spooler and the user in front of its queue act at the same time.    *)
(***************************************************************************)
EXTENDS Naturals, Sequences, FiniteSetsExt

CONSTANTS
  WinJobs,
  Pages,        \* number of pages of a document
  WinQueueSize,    \* native_job_queue_size: prints at a time
  MaxCallFaults,    \* bound: calls of Windows, Cairo or Poppler that fail
  MaxTouches    \* bound: what users and the printer do to the queue

ASSUME WinspoolAssumption ==
  /\ IsFiniteSet(WinJobs)
  /\ {Pages, MaxCallFaults, MaxTouches} \subseteq Nat /\ WinQueueSize \in Nat \ {0}

VARIABLES
  doing,        \* where each job's printJob is
  slots,     \* how many hold printer.NativeJobSemaphore
  ticket,    \* the job's ticket: "fine", "malformed" (a vendor ID is no number), "nil"
  context,      \* what the job's jobContext holds
  rung,      \* how many calls newJobContext has made
  page,      \* pages printed
  result,    \* what Print is going to return: "none", "id" or "error"
  reported,  \* the state last reported to the cloud
  spool,     \* the job in the spooler: [phase, paused, retained, trouble]
  stopped,   \* (history) jobContext.free has returned an error
  touched,   \* (history) a user, the printer or a failed call interfered
  metWaiting,   \* (history) a poll has met the job waiting in the queue
  printed,   \* (history) the spooler has printed the whole job
  callFaults, touches

ctxVars  == <<context, rung, page>>
histVars == <<stopped, touched, metWaiting, printed>>
spoolVars == <<doing, slots, ticket, ctxVars, result, reported, spool, histVars, callFaults, touches>>

\* The calls of newJobContext in order, and what each leaves to be released.
Ladder == <<"document", "printer", "get properties", "set properties", "dc", "doc",
            "surface", "context">>
Resources == {"document", "printer", "dc", "doc", "surface", "context"}

NoSpool == [phase |-> "none", paused |-> FALSE, retained |-> FALSE, trouble |-> "none"]

SpoolInitAt(place) ==
  /\ doing = [j \in WinJobs |-> place] /\ slots = 0
  /\ ticket \in [WinJobs -> {"fine", "malformed", "nil"}]
  /\ context = [j \in WinJobs |-> {}] /\ rung = [j \in WinJobs |-> 0] /\ page = [j \in WinJobs |-> 0]
  /\ result = [j \in WinJobs |-> "none"] /\ reported = [j \in WinJobs |-> "QUEUED"]
  /\ spool = [j \in WinJobs |-> NoSpool]
  /\ stopped = [j \in WinJobs |-> FALSE] /\ touched = [j \in WinJobs |-> FALSE]
  /\ metWaiting = [j \in WinJobs |-> FALSE] /\ printed = [j \in WinJobs |-> FALSE]
  /\ callFaults = 0 /\ touches = 0

SpoolInit == SpoolInitAt("new")

Proceed(j, at) == doing' = [doing EXCEPT ![j] = at]

\* A call fails, within the bound.
CallFails(j) ==
  /\ callFaults < MaxCallFaults /\ callFaults' = callFaults + 1
  /\ touched' = [touched EXCEPT ![j] = TRUE]
CallWorks == UNCHANGED <<callFaults, touched>>

-----------------------------------------------------------------------------
(* Print *)

\* GetJob finds the job in the spooler.
GetJob(j) == spool[j].phase # "gone"

StartDoc(j) == spool' = [spool EXCEPT ![j].phase = "spooling"]

\* EndDoc hands the document, whatever there is of it, to the printer's queue.
EndDoc(j) ==
  spool' = [spool EXCEPT ![j].phase = IF @ = "spooling" THEN "waiting" ELSE @]

\* Print returns: the semaphore is released, and printJob either reports the
\* failure and ends or starts to poll.
Return(j, res) ==
  /\ slots' = slots - 1
  /\ Proceed(j, IF res = "id" THEN "poll" ELSE "ended")
  /\ result' = [result EXCEPT ![j] = res]
  /\ reported' = [reported EXCEPT ![j] = IF res = "id" THEN @ ELSE "ABORTED"]

Acquire(j) ==
  /\ doing[j] = "new" /\ slots < WinQueueSize
  /\ slots' = slots + 1
  /\ Proceed(j, "open")
  /\ UNCHANGED <<ticket, ctxVars, result, reported, spool, histVars, callFaults, touches>>

NoTicket(j) ==
  /\ doing[j] = "open" /\ ticket[j] = "nil"
  /\ Return(j, "error")
  /\ UNCHANGED <<ticket, ctxVars, spool, histVars, callFaults, touches>>

\* The next call of newJobContext succeeds.
Open(j) ==
  /\ doing[j] = "open" /\ ticket[j] # "nil"
  /\ rung' = [rung EXCEPT ![j] = @ + 1]
  /\ LET call == Ladder[rung'[j]]
     IN  /\ context' = [context EXCEPT ![j] = @ \cup ({call} \cap Resources)]
         /\ IF call = "doc" THEN StartDoc(j) ELSE UNCHANGED spool
  /\ Proceed(j, IF rung'[j] = Len(Ladder) THEN "options" ELSE "open")
  /\ UNCHANGED <<slots, ticket, page, result, reported, histVars, callFaults, touches>>

\* Seeded fault: the error path of the last call forgets EndDoc.
CleanUp_NoEndDoc(n) ==
  CASE n = 1      -> {}
    [] n = 2      -> {"document"}
    [] n \in 3 .. 5 -> {"printer", "document"}
    [] n = 6      -> {"dc", "printer", "document"}
    [] n = 7      -> {"doc", "dc", "printer", "document"}
    [] n = 8      -> {"surface", "dc", "printer", "document"}

\* What newJobContext releases when its n-th call fails: each call has an error
\* path of its own.  (The results of these releases are not looked at.)
CleanUp(n) ==
  CASE n = 1      -> {}
    [] n = 2      -> {"document"}
    [] n \in 3 .. 5 -> {"printer", "document"}
    [] n = 6      -> {"dc", "printer", "document"}
    [] n = 7      -> {"doc", "dc", "printer", "document"}
    [] n = 8      -> {"surface", "doc", "dc", "printer", "document"}

\* The next call fails; a document that was started is queued, empty.
OpenFails(j) ==
  /\ doing[j] = "open" /\ ticket[j] # "nil"
  /\ CallFails(j)
  /\ LET released == CleanUp(rung[j] + 1)
     IN  /\ context' = [context EXCEPT ![j] = @ \ released]
         /\ IF "doc" \in released THEN EndDoc(j) ELSE UNCHANGED spool
  /\ Return(j, "error")
  /\ UNCHANGED <<ticket, rung, page, stopped, metWaiting, printed, touches>>

\* The options of the ticket are set in the DevMode; a vendor ID that is no
\* number is an error, after the document was started.
Options(j) ==
  /\ doing[j] = "options"
  /\ Proceed(j, IF ticket[j] = "fine" THEN "pages" ELSE "free")
  /\ result' = [result EXCEPT ![j] = IF ticket[j] = "fine" THEN @ ELSE "error"]
  /\ UNCHANGED <<slots, ticket, ctxVars, reported, spool, histVars, callFaults, touches>>

PrintPage(j) ==
  /\ doing[j] = "pages" /\ page[j] < Pages
  /\ \/ /\ CallWorks
        /\ page' = [page EXCEPT ![j] = @ + 1]
        /\ UNCHANGED <<doing, result>>
     \/ /\ CallFails(j)
        /\ result' = [result EXCEPT ![j] = "error"]
        /\ Proceed(j, "free")
        /\ UNCHANGED page
  /\ UNCHANGED <<slots, ticket, context, rung, reported, spool, stopped, metWaiting, printed, touches>>

\* GetJob, to see whether the job is paused; it fails when the job is gone.
CheckPaused(j) ==
  /\ doing[j] = "pages" /\ page[j] = Pages
  /\ \/ /\ GetJob(j) /\ CallWorks
        /\ Proceed(j, IF spool[j].paused THEN "free" ELSE "retain")
        /\ result' = [result EXCEPT ![j] = IF spool[j].paused THEN "id" ELSE @]
     \/ /\ CallFails(j) \/ (~GetJob(j) /\ CallWorks)
        /\ Proceed(j, "free")
        /\ result' = [result EXCEPT ![j] = "error"]
  /\ UNCHANGED <<slots, ticket, ctxVars, reported, spool, stopped, metWaiting, printed, touches>>

\* Seeded fault: the job is not retained.
Retain_Not(j) ==
  /\ doing[j] = "retain"
  /\ result' = [result EXCEPT ![j] = "id"]
  /\ Proceed(j, "free")
  /\ UNCHANGED <<slots, ticket, ctxVars, reported, spool, histVars, callFaults, touches>>

Retain(j) ==
  /\ doing[j] = "retain"
  /\ \/ /\ GetJob(j) /\ CallWorks
        /\ spool' = [spool EXCEPT ![j].retained = TRUE]
        /\ result' = [result EXCEPT ![j] = "id"]
     \/ /\ CallFails(j) \/ (~GetJob(j) /\ CallWorks)
        /\ result' = [result EXCEPT ![j] = "error"]
        /\ UNCHANGED spool
  /\ Proceed(j, "free")
  /\ UNCHANGED <<slots, ticket, ctxVars, reported, stopped, metWaiting, printed, touches>>

\* jobContext.free destroys the context, the surface (whose status it reads
\* after the destruction), ends the document, deletes the DC, closes the
\* printer and drops the document; it returns at the first error.
FreeOrder == <<"context", "surface", "doc", "dc", "printer", "document">>
Released(n) == {FreeOrder[i] : i \in 1 .. n}

Free(j) ==
  /\ doing[j] = "free"
  /\ context' = [context EXCEPT ![j] = @ \ Released(Len(FreeOrder))]
  /\ EndDoc(j)
  /\ Return(j, result[j])
  /\ UNCHANGED <<ticket, rung, page, histVars, callFaults, touches>>

\* The n-th release reports an error: a surface is destroyed all the same, the
\* others are not.  Print ignores the error of free.
FreeStops(j) ==
  /\ doing[j] = "free"
  /\ CallFails(j)
  /\ \E n \in 2 .. 5 :
       /\ context' = [context EXCEPT ![j] = @ \ Released(IF n = 2 THEN n ELSE n - 1)]
       /\ IF n > 3 THEN EndDoc(j) ELSE UNCHANGED spool
  /\ stopped' = [stopped EXCEPT ![j] = TRUE]
  /\ Return(j, result[j])
  /\ UNCHANGED <<ticket, rung, page, metWaiting, printed, touches>>

-----------------------------------------------------------------------------
(* GetJobState and ReleaseJob, as printJob calls them *)

\* The status of the job; whether a job that still waits already shows
\* JOB_STATUS_RETAINED is up to Windows.
Flags(s, shown) ==
  {f \in {"SPOOLING", "PRINTING", "PRINTED", "DELETING"} :
     f = CASE s.phase = "spooling" -> "SPOOLING" [] s.phase = "printing" -> "PRINTING"
           [] s.phase = "printed"  -> "PRINTED"  [] s.phase = "deleting" -> "DELETING"
           [] OTHER -> "none"}
  \cup (IF s.paused THEN {"PAUSED"} ELSE {})
  \cup (IF s.retained /\ (shown \/ s.phase = "printed") THEN {"RETAINED"} ELSE {})
  \cup ({s.trouble} \ {"none"})

\* The first status that applies; anything unknown is given up.
ConvertJobState(fs) ==
  IF fs \cap {"SPOOLING", "PRINTING"} # {} THEN "IN_PROGRESS"
  ELSE IF "PRINTED" \in fs THEN "DONE"
  ELSE IF "PAUSED" \in fs \/ fs = {} THEN "DONE"
  ELSE IF fs \cap {"ERROR", "DELETING"} # {} THEN "ABORTED"
  ELSE IF "OFFLINE" \in fs THEN "STOPPED"
  ELSE "ABORTED"

\* Once a second; printJob goes on while the job is in progress or stopped.
Reports(j, state) ==
  /\ reported' = [reported EXCEPT ![j] = state]
  /\ Proceed(j, IF state \in {"IN_PROGRESS", "STOPPED"} THEN "poll" ELSE "release")

\* Seeded fault: a job the spooler does not know counts as stopped.
UnknownState_Stopped == "STOPPED"

\* What GetJobState makes of a job the spooler does not know any more.
UnknownState == "ABORTED"

GetJobState(j) ==
  /\ doing[j] = "poll"
  /\ IF GetJob(j)
     THEN \E shown \in BOOLEAN : Reports(j, ConvertJobState(Flags(spool[j], shown)))
     ELSE Reports(j, UnknownState)
  /\ metWaiting' = [metWaiting EXCEPT ![j] = @ \/ spool[j].phase = "waiting"]
  /\ UNCHANGED <<slots, ticket, ctxVars, result, spool, stopped, touched, printed, callFaults, touches>>

GetJobStateFails(j) ==
  /\ doing[j] = "poll"
  /\ CallFails(j)
  /\ Reports(j, "ABORTED")
  /\ UNCHANGED <<slots, ticket, ctxVars, result, spool, stopped, metWaiting, printed, touches>>

\* Releasing a retained job takes a printed one out of the queue, lets one
\* that waits or prints go its way, and deletes one that is paused.
AfterRelease(s) ==
  IF s.phase = "printed" THEN [s EXCEPT !.phase = "gone"]
  ELSE IF s.phase = "waiting" /\ s.paused THEN [s EXCEPT !.phase = "deleted"]
  ELSE [s EXCEPT !.retained = FALSE]

ReleaseWinJob(j) ==
  /\ doing[j] = "release"
  /\ \/ /\ CallWorks
        /\ \E shown \in BOOLEAN :
             spool' = IF GetJob(j) /\ "RETAINED" \in Flags(spool[j], shown)
                      THEN [spool EXCEPT ![j] = AfterRelease(@)] ELSE spool
     \/ CallFails(j) /\ UNCHANGED spool
  /\ Proceed(j, "ended")
  /\ UNCHANGED <<slots, ticket, ctxVars, result, reported, stopped, metWaiting, printed, touches>>

-----------------------------------------------------------------------------
(* The spooler prints what waits, and removes a printed job unless it is    *)
(* retained; a user pauses, resumes and cancels; the printer has trouble.   *)
Becomes(j, s) ==
  /\ spool' = [spool EXCEPT ![j] = s]
  /\ UNCHANGED <<doing, slots, ticket, ctxVars, result, reported, stopped, metWaiting, callFaults>>

StartsPrinting(j) ==
  /\ spool[j].phase = "waiting" /\ ~spool[j].paused /\ spool[j].trouble = "none"
  /\ Becomes(j, [spool[j] EXCEPT !.phase = "printing"])
  /\ UNCHANGED <<touched, printed, touches>>

Printed(j) ==
  /\ spool[j].phase = "printing" /\ ~spool[j].paused /\ spool[j].trouble = "none"
  /\ Becomes(j, [spool[j] EXCEPT !.phase = IF spool[j].retained THEN "printed" ELSE "gone"])
  /\ printed' = [printed EXCEPT ![j] = TRUE]
  /\ UNCHANGED <<touched, touches>>

Deletes(j) ==
  /\ spool[j].phase = "deleting"
  /\ Becomes(j, [spool[j] EXCEPT !.phase = "gone"])
  /\ UNCHANGED <<touched, printed, touches>>

Spooler(j) == StartsPrinting(j) \/ Printed(j) \/ Deletes(j)

Touched(j, s) ==
  /\ touches < MaxTouches /\ touches' = touches + 1
  /\ Becomes(j, s)
  /\ touched' = [touched EXCEPT ![j] = TRUE]
  /\ UNCHANGED printed

User(j) ==
  /\ spool[j].phase \in {"spooling", "waiting", "printing"}
  /\ \/ Touched(j, [spool[j] EXCEPT !.paused = ~@])
     \/ Touched(j, [spool[j] EXCEPT !.phase = IF @ = "spooling" THEN "gone" ELSE "deleting"])
     \/ \E t \in {"none", "OFFLINE", "ERROR"} \ {spool[j].trouble} :
          Touched(j, [spool[j] EXCEPT !.trouble = t])

-----------------------------------------------------------------------------
PrintDocument(j) ==
  \/ Acquire(j) \/ NoTicket(j) \/ Open(j) \/ OpenFails(j) \/ Options(j) \/ PrintPage(j)
  \/ CheckPaused(j) \/ Retain(j) \/ Free(j) \/ FreeStops(j)

SpoolNext == \E j \in WinJobs :
  \/ PrintDocument(j) \/ GetJobState(j) \/ GetJobStateFails(j) \/ ReleaseWinJob(j) \/ Spooler(j) \/ User(j)

SpoolSpec == SpoolInit /\ [][SpoolNext]_spoolVars

\* printJob's goroutine, its ticker and the spooler run; nobody need resume a
\* paused job, nor any call fail.
SpoolFairness == \A j \in WinJobs :
  WF_spoolVars(PrintDocument(j) \/ GetJobState(j) \/ ReleaseWinJob(j)) /\ WF_spoolVars(Spooler(j))
FairSpoolSpec == SpoolSpec /\ SpoolFairness

-----------------------------------------------------------------------------
(* Properties *)

Printing(j) == doing[j] \notin {"new", "poll", "release", "ended"}

\* Whatever failed, a Print that has returned holds nothing and has ended its
\* document, unless free() came to an error; and the printer's semaphore counts
\* exactly the Prints that are running.  (The ladders of newJobContext and
\* free; Print's deferred calls.)
ContextFreed ==
  /\ \A j \in WinJobs : ~Printing(j) /\ ~stopped[j] => context[j] = {} /\ spool[j].phase # "spooling"
  /\ slots = Cardinality({j \in WinJobs : Printing(j)})

\* A job that was printed, that nobody touched and that no poll met while it
\* was waiting, is reported DONE in the end: it is retained until it has been
\* polled.
PrintedIsDone ==
  \A j \in WinJobs :
    (doing[j] = "ended" /\ printed[j] /\ result[j] = "id" /\ ~touched[j] /\ ~metWaiting[j])
      => reported[j] = "DONE"

\* printJob does not poll for ever: a job the spooler accepted comes to a final
\* state, unless the document was never ended or its printing is held up.
HeldUp(j) == spool[j].paused \/ spool[j].trouble # "none"
PollingEnds == []<>(\A j \in WinJobs : doing[j] # "poll" \/ stopped[j] \/ HeldUp(j))

\* Print says that it does not retain paused jobs "because release would delete
\* the job even if it was still paused and hadn't been printed": no job is
\* deleted in that way.
PausedJobsStay == \A j \in WinJobs : spool[j].phase # "deleted"
=============================================================================
