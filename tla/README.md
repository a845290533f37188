# A verification of the Google Cloud Print connector

The connector (`src/`) makes the printers of a print server (CUPS or the
Windows spooler) available through Google Cloud Print and, on a local network,
through Privet.  This directory holds TLA+ models of it, the configurations that
check them with TLC, and theorems checked by TLAPS.  Every definition is a
translation of the Go code; `PROJECT.json` maps each to its lines.

## 1. The system

| part | code | state it keeps | operations | talks to |
|---|---|---|---|---|
| printer manager, sync | `manager/printermanager.go`, `lib/printer.go`, `lib/concprintermap.go` | the printer map (two indexes) | `SyncPrinters`, `applyDiff` (one goroutine per difference), the poll timer | native system, `gcp`, `privet` |
| printer manager, jobs | `manager/printermanager.go` | `jobsInFlight`, `jobsDone`, `jobsError`, a semaphore per printer | `listenNotifications`, `printJob` (a goroutine per job) | `gcp`, native system |
| cloud client | `gcp/` | download semaphore, HTTP lock | register, update, delete, share, list, fetch, ticket, download, control; `HandleJobs`, `processJob` | the cloud over HTTP, with retries |
| XMPP | `xmpp/` | one conversation, its pongs, `dead`, `quit` | start, ping, dispatch, restart, `Quit` | XMPP server, manager (notifications channel) |
| FCM | `fcm/` | token, backoff, `dead`, `quit` | get token, connect, read, restart, `Quit` | FCM server, manager |
| Privet | `privet/` | HTTP APIs, ports, jobs created locally, DNS-SD records | add / update / delete printer, `/privet/*` handlers, port manager, job cache, Avahi / Bonjour | manager (jobs channel), local clients |
| CUPS | `cups/` | connection pool, PPD cache | get printers, print, job state, PPD translation | `libcups` |
| Windows spooler | `winspool/` | job contexts, handles | get printers, print, job state, release | Win32 API |
| monitor | `monitor/` | listener socket | answer statistics, `Quit` | every other part |
| log, lib | `log/`, `lib/` | log files, configuration | roll, backoff, deep hash, configuration | - |
| programs | `gcp-cups-connector/`, `gcp-windows-connector/`, `gcp-connector-util/` | - | start and stop everything in order; write the configuration, delete printers and jobs | all of the above |

How they interact: `main` makes two channels, `jobs` (capacity 10) and
`notifications` (capacity 5), starts the cloud client, XMPP or FCM, the native
system, Privet, the manager and the monitor in this order and quits them in the
opposite one.  A notification makes the manager fetch the printer's jobs; each
job is assembled by a goroutine of its own and comes back on the jobs channel;
the manager prints it, follows the native job and reports its state.

What is hard about it: every arrow above is a goroutine, a channel or a network
call.  Syncs may overlap, jobs are delivered more than once, the cloud's answers
get lost, printers come and go while jobs for them are on their way,
conversations die and are replaced, and shutting down has to stop goroutines
that wait for one another.  `PROJECT.json` lists these hazards at their lines.

What makes each part correct: *sync*: the map, the cloud and Privet converge to
the native printers, no printer is registered twice, nothing known is lost without
a failure.  *Jobs*: one attempt at a time, every attempt counted and reported,
semaphores balanced, every delivery ends.  *XMPP, FCM*: at most one conversation,
a dead one is replaced, quitting ends it.  *Privet*: a port belongs to one API and
returns to the pool; a published record names a port that is served; no local
job's file is forgotten while the process runs.  *CUPS*: no more calls than the
limit, no connection used by two, no cache entry used after it is freed or lost
before. *Windows spooler*: what a print acquired is released, a printed job is
reported so. *Monitor*: quitting returns and frees the socket.  *Log*: no log
overwritten, and no more rolled files than the limit.  Two limits are not what the
documentation says of them (`CupsOpen` and `LogFiles` in section 3): that of CUPS
counts calls and not open connections, and that of the log files leaves out the
one being written.

## 2. What is modelled, and how it corresponds to the code

An action stands for the code between two points at which another goroutine, the
cloud or the print system can be noticed.  Every function that talks to the cloud
has, besides its success, the failures its caller can see; lost answers (the
call was carried out, the answer is an error) are separate from refused calls.

**PrinterSync** (`manager/printermanager.go:64-296`, `lib/printer.go:65-241`,
`lib/concprintermap.go`).

| state | code |
|---|---|
| `config` | which of `pm.gcp`, `pm.privet` are set, `gcp.CanShare()` |
| `byName`, `byId` | `ConcurrentPrinterMap.byNativeName`, `byGCPID` |
| `work[s]` | the `PrinterDiff`s of the sync that `s` is in; `at` is how far the `applyDiff` goroutine of each has come |
| `mode`, `unpublished` | how far `NewPrinterManager` has come |
| `cloud`, `issued` | the registry: what the cloud really has |
| `local` | the DNS-SD records of the Privet service |
| `native` | the print system, which changes by itself (`NativeChange`) |
| `lost` | history: cloud printers whose existence the connector has no way to know of |
| `deleted` | history: cloud printers the administration tool deleted under this process |

`SyncStart` is `SyncPrinters` up to the start of its goroutines: it reads the
native printers, computes `DiffPrinters` and stops there when the diff is nil.
`Register`, `Share`, `Update`, `Delete`, `Privet` are the steps of `applyDiff`;
`SyncFinish` is `Refresh` with the answers.  `Boot` is the rest of
`NewPrinterManager`, `Restart` a crash at any point followed by `ListPrinters`,
`ToolDeletes` one step of `gcp-connector-util delete-all-gcp-printers`.
A printer's fields are two: `display`, which Privet shows, and `caps`, everything
else that `diffPrinter` compares.

**JobFlow** (`gcp/gcp.go:679-784`, `manager/printermanager.go:299-460`,
`lib/semaphore.go`, `cups/cups.go:444-524`).  The k-th delivery of job j is
`<<j, k>>`; `pc` is the next step of its goroutine, first `processJob`, then
`printJob`.  `jobs` is the channel between them, `inFlight` is `jobsInFlight`,
`downloads` the count of `downloadSemaphore`.  A printer that leaves the map and
comes back has a new semaphore, so `acquired` counts each of them and `mine` is
the one a `printJob` took with it.  The deferred calls of `printJob` are steps of
their own, in the order in which Go runs them.  `held` are the native jobs that the
spooler retains; a `ReleaseJob` that fails is only logged, and its job stays there
(`unreleased`).  Native states are those of CUPS; `Winspool` has those of Windows.

**PrintService** is the abstract specification: at most one attempt to print a
job at a time, each counted exactly once as done or failed before another one
may begin.  `JobFlow!ImplementsService` is the refinement, with `stage` mapped to
`StageOf`.

**Xmpp** (`xmpp/xmpp.go`, `xmpp/internal-xmpp.go`).  `keepAlive` is the goroutine of
`NewXMPP` and `keepXMPPAlive`; `dispatcher[c]` and `pinger[c]` are the goroutines
of the c-th conversation.  Unbuffered channels (`dying`, `dead`, `quit`) are a
joint step of sender and receiver.  The manager and `main` appear as far as they
matter here: the reader of the notifications channel starts after `NewXMPP` has
returned and stops before `XMPP.Quit`.

**Cups** (`cups/core.go`, `cups/ppdcache.go`, `cups/cups.go:189-351`).  `at[u]` is the
next step of each goroutine: the one that syncs, one per printer whose PPD it
fetches, and jobs that ask for their state.  `sem` is the connection semaphore and
`handle` what became of each `http_t`: held by a call, or offered to the pool by a
goroutine of its own that gives up after a while.  `cache` and `entry` are the PPD
cache and its entries, `get[n]` the local variables of `getPPDCacheEntry`.  A map
access that meets the unlocked `delete` may end the process (`Access`).

**Privet** (`privet/privet.go`, `privet/portmanager.go`, `privet/avahi.go`,
`privet/bonjour.go`).  `call[p]` is how far an add or a delete of printer p has come,
`marked` the port manager's map, `listener` and `serve` each listener and its
`http.Serve`, both of which close it.  `record` is what is published, `spMutex` and
`poll` name the holders of the two locks, `callback` is Avahi's poll thread in
`handleClientStateChange` or `handleGroupStateChange`, `rq` is `restartAndQuit`, and
`ranged` the printers its loop over the records has still to come to when it quits.
A removal may fail there as well as in `DeletePrinter`: the record stays
(`unremoved`), and the loop goes on.
With Bonjour there is one lock and no callback.
`quittableListener.quit` closes its channel first and the socket afterwards
(`CloseQ`, `CloseSocket`), and `serve` may run in between; whose `Close` finds the
socket open frees the port.

**Winspool** (`winspool/winspool.go:558-948`).  `Print` opens the ladder of
`newJobContext` one call (`rung`) after another, each with an error path of its own
(`CleanUp`), renders pages, checks for a pause,
retains the job and frees the ladder; then `printJob` polls and releases.  `spool[j]`
is the job as the spooler sees it.  The spooler prints, a user pauses, resumes and
cancels, the printer goes off line.  What Windows does is external: a release takes
a printed job out of the queue and deletes a paused one (the source says so,
`winspool.go:913`), and whether a retained job that is not printed shows
`JOB_STATUS_RETAINED` is left open.

**Connector** composes what one process contains and has no module above:

* `Connector` itself: `todo` are the steps of the start that remain, `deferred` the
  deferred calls, for both main programs; signals, Windows' stop request, panics;
  the monitor, with `loop` and `acceptor` for its two goroutines and `socket` for
  its file, which with the log files is all that outlives the process.
* **Fcm** (`fcm/fcm.go`): `keeper` is `Init` and then `KeepFcmAlive`, `reader[c]` the
  goroutine of each connection.
* **LocalJobs** (`privet/jobcache.go`, `privet/api-server.go:331-475`): `cache` and
  `timer` are the entries and their `AfterFunc`s, `req` the requests with their
  temporary files, up to the end of `printJob`; `orphans` counts the files that
  processes which have ended left on the disk.
* **LogRoller** (`log/logroller.go`): the files on the disk, by place, and the step
  a roll has come to, one system call at a time.

Abstracted in all of them: the contents of messages, tickets and capabilities,
XML and JSON, logging, how long a timer runs (a timer is a step that may always
be taken, or may be taken when its condition holds for good).

## 3. The runs

| run | question | states | result |
|---|---|---|---|
| `SyncSettles` | one syncer with three configurations, a failed call, a crash and a tool that deletes; two syncers with two failed calls: are map, cloud and diffs consistent, and do all of them reach the native printers? | 560 000 | holds |
| `SyncDupes` | are two cloud printers of one name reduced to one? | - | violated |
| `SyncRecords` | do the DNS-SD records show the current display names? | - | violated |
| `Jobs` | one job delivered twice with failed calls and a printer that leaves and returns; two jobs that compete for slots and channel: exclusion, statistics, reports, clean-up, semaphores, refinement of PrintService, and does every delivery end?  And two jobs on Windows, a failed call, a user at the queue: is everything released, a printed job DONE, and does polling end? | 356 000 | holds |
| `JobsTwice` | is a job printed once? | - | violated |
| `XmppStartup` | does the dispatcher of a closed connection end? | - | violated |
| `CupsSafe` | a PPD that changes beside a job, and two PPDs fetched at once, over one connection that may fail: are connections and entries accounted for, descriptions fresh, and does every call end? | 200 000 | holds |
| `CupsOpen` | are no more connections open than allowed? | - | violated |
| `PrivetSafe` | two printers and two ports, one of them taken by another process, while Avahi's client changes state: are ports, listeners and records in step, and do calls and `Quit` return? | 404 000 | holds |
| `WinspoolPaused` | is a paused job never deleted unprinted? | - | violated |
| `Connector` | starts that fail at any step, signals at any moment, busy parts: one Cloud Messaging conversation, no file forgotten, the job cache exact, the newest logs kept, the socket freed, the shutdown complete.  And XMPP with two failures and a shutdown at any time: one conversation, watched, replaced when dead, and quit for good | 850 000 | holds |
| `LogFiles` | are there no more log files than the limit? | - | violated |

`Jobs` and `Connector` each hold two systems that share no variable: `JobFlow` and
`Winspool`, `Connector` and `Xmpp`.  In an execution only one of the two is busy,
the other one stays where it would be when it is not used (`MCInit`); what such a
run shows of each is what a run of its own would show.

Each property of a passing run has a seeded fault of the code, an operator next
to the one it replaces (`Download_KeepFile`, `Refresh_KeepsIds`, ...), that breaks
it; `PROJECT.json` lists the pairs.

**Findings.**  In the first five the code does what it should not; the last two are
limits that mean something else than is said of them.


* `SyncDupes`: `SyncPrinters` gives `DiffPrinters` what `GetAll` returns, one
  printer per name, so the branch that would delete a duplicate never has one to
  delete.  Two printers of one name arise from a register whose answer is lost.
* `SyncRecords`: `Privet.UpdatePrinter` passes the GCPID where the record's name
  is expected; a changed display name never reaches the record.
* `JobsTwice`: `jobsInFlight` knows a job only while it is in `printJob`.  A second
  instance fetched while the first was QUEUED, and assembled after the first has
  ended, is printed again.
* `XmppStartup`: nobody reads the notifications channel before `NewXMPP` has
  returned.  With five notifications in the channel and a sixth in hand the
  dispatcher does not read the pong; `newInternalXMPP` then closes the connection
  and waits for the dispatcher for ever.
* `WinspoolPaused`: `convertJobState` reports a paused job as DONE, so `printJob`
  releases it.  When it was retained before it was paused, the release deletes it
  unprinted.
* `CupsOpen`: `disconnect` releases the semaphore while the connection is still open
  and is offered to the pool.  The next call may then open another one: with
  `MaxConnections` = 1 two are open, and `ConnQtyOpen`, which is the semaphore's
  count, says one.  `PoolExact` is what the semaphore does count: calls.
* `LogFiles`: `log_max_files` is the "Maximum log file quantity", but a roll keeps so
  many files besides the one that is written.  `LogsKept` is what a roll does keep.

**Where properties name an exception**, the exception is something the models
reach and no comment denies:

* A crash, or a failed `Share`, between `Register` and `Share` leaves the printer
  unshared for good, so `CloudConverges` asks for no restart when printers are
  shared.  Two syncs at a time register a printer twice, so the cloud properties
  speak of one syncer; `Converges` holds for two as well, but sees the map alone.  An
  `Update` that fails leaves the cloud stale for good, so `CloudConverges` speaks of
  executions without failed calls.  What the tool deletes is
  missed until the next start (`deleted` in `NoPhantom` and `CloudConverges`).
* An update of a job that fails is never repeated (`NotStuckInProgress` excludes the
  jobs whose report was lost), and a duplicate that cannot be assembled reports
  ABORTED over whatever its first instance has reported (`FinalStateStays` speaks of
  jobs delivered once).  `DoneIsPrinted` speaks of native jobs that are reported as
  CUPS does; on Windows a paused job counts as DONE (`WinspoolPaused`).
* `NothingLeftBehind` excludes native jobs whose `ReleaseJob` failed.
* `CallsReturn` excludes `Crossed`, the opposite order in which Avahi's callback and
  the manager's calls take the two locks, and `RestartLost`, a callback that waits
  for `restartAndQuit` when it has begun to quit.  Both are deadlocks of the code;
  TLC shows that nothing else blocks, as long as no group and no client is used after
  it was freed: after that (`misused`) the models go no further.
* `GroupsFollow` speaks of Avahi, before any call of it has failed, not of the time
  between the stop of a client and the next start, and not of what follows a restart
  with records present, which adds their groups to the client that was stopped
  (`misused`).
* `FilesExact` speaks of the files of the running process: what a process leaves on
  the disk when it ends, nobody removes.
* `ShutdownEnds` excludes `Crossed` of the monitor: a client accepted after the loop
  has taken the quit request.
* `EntriesAlive` speaks of the time before `CUPS.Quit`, and nothing is said once the
  runtime has ended the process over the unlocked map access.
* `FcmWatched` admits a refused connection, after which nobody listens any more.
* `SocketFreed` speaks of processes that ran their deferred calls: after a kill, or a
  panic of any goroutine but main's, the socket stays and every later start is
  refused until somebody removes it.
* `PortsExact` counts ports whose bind failed as lost, which they are.
* `ContextFreed` and `PollingEnds` exclude a `free` that stopped at its first error;
  `PollingEnds` also a job that stays paused, or whose printer stays in trouble.
* `PrintedIsDone` excludes jobs a poll met while they waited: their state is
  reported as final.

**Bounds.**  Two names are the least with which diffs of one sync interleave, and
one name with two cloud printers comes from one lost answer.  Two changes let a
printer vanish, or change, in the middle of a sync and return, or be deleted in
the cloud and reconfigured.  `MaxIds` is large enough that the cloud never runs
out of GCPIDs under the other bounds.  `MCPrinterSync` and `MCCups` give each
configuration bounds of its own, so that one run holds several small instances:
two syncers need one name only, two PPDs at once need no changing server.  For
jobs, a duplicate needs two deliveries, competition two jobs, a stale semaphore
two semaphores; channel and slots have size one so that they are full as early as
possible.  For XMPP, three conversations let the second be the one that fails and
the third the one that has to replace it; `XmppStartup` uses the real capacities
of the channels (10 pongs, 5 notifications).  For CUPS one connection is the
least, and the one for which calls wait; two handles let one be offered to the
pool while the other is in use; three entries let a removed one, a cached one and
a new one exist together. For Privet, two adds let a printer leave and return on
the same port, two state changes let the client go down and up, one error and one
foreign port let each call fail once (a port in use from the start costs one of
the two changes).  For Windows, one page, one failed call and one intervention
reach every branch of `newJobContext`, `free`, `Print` and `convertJobState`.  In
`MCConnector` one part is busy at a time, because the parts do not touch each
other's state except at start and shutdown: the budget of each configuration says
what may happen in it.  Two clients let one be served and one be waiting; three
Cloud Messaging connections let one fail, one replace it and be refused; one job
ID per request and a lifetime of one tick let an entry expire at any step; nine
rolls in four processes with `MaxFiles` = 3 reach every cut-off roll on a full set
of files.

**Deadlock** is not checked in any run: the systems may really stop, when nothing
changes in the print system any more, every delivery has ended, or the connector
has been shut down.  Goroutines that wait for each other are caught by the
liveness properties instead.

**Fairness** is only on what the Go runtime, libcups' and Avahi's threads or the
connector itself drives: goroutines whose next step is possible take it, and the
poll timer fires again (`SyncStart` is part of `Sync`).  It is weak, with one
exception: the semaphore of Cups (`Acquire`) serves its waiters in turn, as Go's
channels do, so a goroutine that waits gets its slot although others come and go;
that is strong fairness.  (In JobFlow and Winspool every delivery and every job
comes once, so that whoever holds a slot releases it and a waiter's turn comes
without it.) Where a goroutine runs one step after another, one fairness condition
covers all its steps: each of its steps is possible only at the place it has come
to.  In Connector, `Client` is bounded, so that Go's random choice among ready
cases needs no strong fairness for the quit request.  Of the environment it is
assumed that a native job ends at some time, that the spooler prints what it can,
and that the XMPP server answers a ping whose answer is not lost.  Nothing is
assumed about failures, changes, restarts or shutdown.

## 4. The proofs

Every safety property that a passing run checks is also a theorem of the
specification, for every value of the constants: any printers, jobs, users,
connections, ports and files, any capacities, and any number of failures, changes
and restarts.  The assumptions are the named `ASSUME`s of the modules, which TLC
evaluates in every run; they say that numbers are numbers, that sets which the code
can only fill with finitely many things are finite, and that the models' tags
("none", 0, ...) are no names of printers, jobs or listeners.

Each module of proofs has the same shape: the inductive invariant, lemmas on the
operators of the model, one lemma per action (`<Action>Keeps`), the theorem that
the invariant always holds, and the properties as consequences.  TLC checked each
invariant on the instance of the component's run before it was proved.

| theorem | in | what it adds to the property in order to be inductive |
|---|---|---|
| `TypeCorrect`, `IndexesAgree` | `PrinterSync_proofs` | `IdsIssued`, `TasksDistinct`, `TasksAlong`, `Booting` |
| `KnownAreRegistered` (`NoPhantom`), `RegisteredAreKnown` (`CloudAccounted`), `NoSecondPrinter` (`OneLivePrinter`) | `PrinterSync_proofs` | `NamesKept`, `DroppedGone`, `KeptPresent`, `InHand` |
| `TypeCorrectness`, `MutualExclusion`, `SemaphoreAccounting` | `JobFlow_proofs` | `FreshNone`, `QueueExact`, `FollowsJob` |
| `StatisticsExact`, `CleanedUp`, `NotStuck`, `DoneMeansPrinted`, `FinalStays` | `JobFlow_proofs` | `OwnsItsThings`, `CloudFollows` |
| `Refinement` | `JobFlow_refinement` | the first invariant of `JobFlow_proofs` |
| `TypeCorrectness`, `OneConversationAlways`, `WatchedAlways`, `QuitIsFinalAlways` | `Xmpp_proofs` | `PairedGoroutines`, `KeeperKnows` |
| `TypeCorrect`, `PoolIsExact` | `Cups_proofs` | `PlacesOK`; a connection is held by a call |
| `NoFreedEntryInUse`, `NoEntryLeaks`, `AnswersAreFresh` | `Cups_proofs` | `OneOwner`, `Alive`, `Kept`, `Own`, `Sound` |
| `PortsAccounted`, `RecordsServed`, `GroupsFollowState` | `Privet_proofs` | `Locked`, `Owned`, `PortsInv`, `Recorded`, `Grouped`, `Ranging` |
| `EverythingFreed`, `PrintedJobsAreDone` | `Winspool_proofs` | `Held`, `Followed`, `Results` |
| `OneConnection`, `FilesMatch`, `CacheKeepsPromise`, `RollsKeepLogs`, `SocketNotLeft` | `Connector_proofs` | `FcmInv`, `EntriesExact`, `ChannelExact`, `Ordered`, `NoGap`, `Counted`, `Rolling`, `MonitorInv` |

**PrinterSync.**  `RegisteredAreKnown` rests on `InHand`: while a sync runs, every
cloud printer that is not lost is in one of its diffs, which is what makes it safe
that `Refresh` replaces the whole map by the answers.  `DroppedGone` is the other
direction: a diff that answers with no printer has removed it from the cloud, or
its failure is recorded in `lost`.  That the maps agree needs the diffs of a sync
to be about different names and different GCPIDs (`TasksDistinct`), which in turn
needs each GCPID to be one the cloud has handed out (`IdsIssued`).  The three cloud
theorems speak of one syncer at a time, as the properties do; `IndexesAgree` and
`TypeCorrect` hold for any number.

**JobFlow.**  None of the first three properties is inductive alone.  `TypeOK` bounds
the semaphores from below, which only the exact count does.  `FreshNone` (a delivery
that has not been made has no goroutine) keeps `HandleJobs` from starting one twice,
`QueueExact` (the channel holds exactly the deliveries at "queued", none twice)
keeps `ReceiveJob` from doing so, and `FollowsJob` (a `printJob` in its poll loop has
a native job and reports a real state) keeps nonsense out of the cloud's job states.
The second invariant, `Outcomes`, is inductive relative to the first:
`OwnsItsThings` says at which steps a delivery may own a temporary file, a retained
job and a state, so that the steps after its clean-up own none (but a job whose
`ReleaseJob` failed, which is all that `CleanedUp` admits), and `CloudFollows`
ties what the cloud shows of a job to the `printJob` that reports it.  For
`FinalStays` it says that the only delivery of a job whose final state the cloud
has is past its last report.  Most actions only move a delivery between steps that
hold neither a slot nor the in-flight mark; they share the `MoveKeeps...` lemmas.
The counts use the cardinality theorems of finite sets.

`JobFlow_refinement` proves `Refinement` (`Spec => ImplementsService`).
`OnePrintAtATime` makes `StageOf` well defined by the one delivery of a job that is
in `printJob`; a step that leaves the class of its delivery (outside, uncounted,
counted) alone is a stutter, and the six that do not are `Begin`, `Count`,
`Conclude` or `Reject`.

**Xmpp.**  The invariant adds `PairedGoroutines` (a pinger that works has a
dispatcher, one that has seen `dying` has none, and a conversation not yet made has
neither) and `KeeperKnows` (while the keeper dials nothing runs; while it verifies or
awaits, the last conversation has a dispatcher and no pinger; later `ix` is the last
conversation).  A signal on `dead` therefore comes from the last conversation and
ends it, whoever receives it: `keepXMPPAlive`, which then dials, or `XMPP.Quit`,
after which the keeper can only be at its `select` or gone.

**Cups.**  The pool half counts calls: each step adds one to the semaphore's count or
takes one off together with the call that is counted, and a handle is in one of
four conditions, so that offering it to the pool ends its use.  The entry half is
about ownership: an entry belongs to the cache or to one goroutine (`OneOwner`,
`Own`), one in either place is not freed (`Alive`), and one that is not freed is in
either (`Kept`).  The places at which a goroutine has removed its entry from the
map but still works with it ("drop" to "free") are those where the unlocked
`delete` bites.  `Sound` says that description and modification time of an entry
belong together except between a failed refresh and the drop; `AnswersAreFresh`
follows because the server's version only grows.

**Privet.**  `PortsInv` gives each marked port one holder: a call about to bind
it, a listener that is open, or one that has been closed and is on its way to
freeing it. There are three on that way, `http.Serve`, the manager's call and
`Privet.Quit`. Only the one whose `Close` found the socket open takes it, so at
each listener the three exclude each other (`OneFreer`); that is why the port is
freed once, and why the second `Close` never frees the port of a listener opened
since. `Locked` is who holds `apisMutex` and `spMutex`, and that restartAndQuit
removes records only while `Quit` waits for it; `Owned` ties a listener to its
printer, its call and the map of APIs.  `Recorded` follows a record from the end
of its publication to its removal and says that `Quit` closes an API only after
its record has gone, or could not be removed; for that `Ranging` says that the
loop of restartAndQuit has still to come to every record of an API that is left.
`Grouped` is `GroupsFollow` (with the exceptions named above) with what must hold
when a callback waits to be received by restartAndQuit.  The invariant speaks of
Avahi and of Bonjour.  The assumption that no printer is called "quit" and the
like only separates printers from the models' names for lock holders and states.

**Winspool.**  `Held` ties a document that is being spooled to a `Print` that will
end it, and what a `Print` holds to what the error path of its next call releases;
`Followed` traces a job that nobody touches: it spools until its document ends, is
retained from then on, is in the spooler as long as it is polled, and a poll that
did not meet it waiting finds it done.  `Slots` counts by cardinality.

**Connector.**  Each part has its invariant, and no step of another part touches
it, so one theorem (`InvariantHolds`) joins them; a crash and the next start must
keep them as well.  `FcmInv`: while `KeepFcmAlive` connects every connection is
over, while it waits exactly one is not.  `EntriesExact`: a timer is set exactly
when the entry exists, and an entry says what was promised.  `ChannelExact`: the
jobs channel holds the waiting requests, each once.  For the logs, `Ordered` and
`NoGap` say that lower places hold later logs and none is missing, `Counted` that
there are enough and not too many; `Rolling` says that a roll moves files from the
last place on, into a place that is free (`pending` lies above every gap),
whatever the rolls before it left behind.  `MonitorInv`: `Monitor.Quit` stays
deferred until the monitor ends.

**Only model-checked.**  The liveness properties (`Converges`, `CloudConverges`,
`EveryDeliveryEnds`, `Recovers`, `CallsEnd`, `CallsReturn`, `PollingEnds`,
`ShutdownEnds`): liveness under fairness needs ENABLED, which is out of the prover's
reach.  That the seven findings are reachable is TLC's to show.

## 5. Not modelled, and what remains

Not modelled, because it has no state or is input and output only: the parsing of
PPDs, attributes and tickets (`cups/translate-*.go`), the bindings to C and Win32
(`winspool/win32.go`, `cairo.go`, `poppler.go`), the reading of printers on Windows,
configuration files and their upgrade (`lib/config*.go`, most of
`gcp-connector-util/`), the XML of the XMPP handshakes, the OAuth and JSON layers of
`gcp/`, the read-only handlers of Privet and its xsrf tokens, log formats, and the
CDD types.  `PROJECT.json` names each part and the reason.

Seen while reading, and outside the models: `GetJobState` and `ReleaseJob` of
`winspool` open a printer handle on every call and close none
(`winspool/winspool.go:593`); the handshakes of XMPP set no read deadline, so a silent
server holds `NewXMPP` for ever (`xmpp/internal-xmpp.go:371`); a cloud printer with a
later GCP version makes every diff panic (`lib/printer.go:180`); a job state without a
`State` is dereferenced (`manager/printermanager.go:440`); the channel of
`waitIndefinitely` is unbuffered, so a signal between `Notify` and the receive is lost
(`gcp-cups-connector/gcp-cups-connector.go:244`, part of `Signal` in Connector).

What remains: a safety core for `CallsReturn` (which calls can be waiting for which
lock at once, stated with explicit guards instead of ENABLED, so that it can be
proved), and one abstract notification service that both Xmpp and Fcm implement.
