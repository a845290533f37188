-------------------------- MODULE Connector_proofs --------------------------
(***************************************************************************)
(* Theorems about Connector and the parts composed in it (Fcm, LocalJobs,  *)
(* LogRoller), for any configurations, numbers of connections, requests,   *)
(* jobs and log files, and lengths of a behaviour.                         *)
(***************************************************************************)
EXTENDS Connector, Integers, FiniteSetTheorems, FunctionTheorems, WellFoundedInduction, TLAPS

-----------------------------------------------------------------------------
(* The inductive invariants, one per part *)

\* Fcm: while KeepFcmAlive connects, every connection is over; while it
\* watches, there is one that is not, or that the server refused.
Pending(c) == reader[c] \notin {"new", "ended"}

FcmInv ==
  /\ reader \in [Conns -> {"new", "read", "send", "send last", "report", "refused", "ended", "panic"}]
  /\ keeper \in {"off", "token", "connect", "sleep"} => \A c \in Conns : ~Pending(c)
  /\ keeper = "watch" => \E c \in Conns : Pending(c) /\ \A d \in Conns : Pending(d) => d = c

JobState == {"none", "DRAFT", "QUEUED", "IN_PROGRESS", "DONE", "ABORTED"}

JobsTypeOK ==
  /\ clock \in Nat /\ issued \in Nat
  /\ cache \in [JobIds -> [state : JobState, expires : Nat]]
  /\ timer \in [JobIds -> {"none", "set", "fired"}]
  /\ promised \in [JobIds -> Nat]
  /\ req \in [Requests -> [at : {"idle", "upload", "send", "queued", "print", "done"}, job : Nat]]
  /\ file \subseteq Requests /\ jobs \in Seq(Requests)

\* LocalJobs: what has been promised for a job is what its entry says, and the
\* timer stands for the entry; of a job that was not created there is nothing.
EntriesExact ==
  \A i \in JobIds :
    /\ cache[i].state = "none" => cache[i] = NoJob
    /\ cache[i].state # "none" <=> timer[i] = "set"
    /\ timer[i] = "none" => promised[i] = 0
    /\ timer[i] = "set" => promised[i] = cache[i].expires
    /\ timer[i] = "fired" => promised[i] <= clock
    /\ i > issued => timer[i] = "none"

\* The channel holds the requests that wait on it, each one once, and each
\* with the job it is for.
ChannelExact ==
  /\ \A k \in 1 .. Len(jobs) : req[jobs[k]].at = "queued"
  /\ \A k, l \in 1 .. Len(jobs) : jobs[k] = jobs[l] => k = l
  /\ \A r \in Requests : req[r].at \in {"send", "queued", "print"} => req[r].job \in JobIds

JobsInv == JobsTypeOK /\ EntriesExact /\ ChannelExact /\ FilesExact

\* LogRoller: the places in use, and those of them that a roll has moved.
Held  == {p \in Places : There(p)}
Moved == {p \in Held : p # 0 /\ p \notin pending}

LogsTypeOK ==
  /\ disk \in [Places -> Nat] /\ newest \in Nat /\ open \in BOOLEAN
  /\ roller \in {"idle", "roll", "create"}
  /\ pending \subseteq Held \ {0}
  /\ \A p \in Places : disk[p] <= newest

\* Lower places hold later logs, and no log is missing between two.
Ordered == \A p, q \in Places : p < q /\ There(p) /\ There(q) => disk[p] > disk[q]
NoGap   == \A n \in 1 .. newest : (\E p \in Held : disk[p] = n) \/ \A p \in Held : n < disk[p]

\* Enough files, and not too many: one more than MaxFiles only while the newest
\* is at place 0.
Counted ==
  /\ Cardinality(Held) >= IF newest < MaxFiles THEN newest ELSE MaxFiles
  /\ Cardinality(Held) <= IF There(0) THEN MaxFiles + 1 ELSE MaxFiles

\* A roll moves the files from the last place on, so that the next place is
\* free; files are only removed before any is moved.
Rolling ==
  /\ roller = "roll" =>
       /\ There(0)
       /\ \A p \in pending \cup {0} : p < MaxPlace /\ There(p + 1) => p + 1 \in pending
       /\ Moved # {} => Cardinality(Moved) + Cardinality(pending) < MaxFiles
  /\ roller # "roll" => pending = {}
  /\ roller = "create" /\ There(0) => MaxFiles = 0 /\ Held = {0}

LogsInv == LogsTypeOK /\ Ordered /\ NoGap /\ Counted /\ Rolling

\* Connector: the monitor's Quit stays deferred until the monitor has ended,
\* and the socket is gone when its loop acknowledges.
Deferrable == {"notify", "cups", "privet", "manager", "monitor"}

MonitorInv ==
  /\ deferred \in Seq(Deferrable)
  /\ loop \in {"off", "select", "stats", "close", "ack", "acked", "ended"}
  /\ loop \notin {"off", "ended"} => \E k \in 1 .. Len(deferred) : deferred[k] = "monitor"
  /\ loop \in {"ack", "acked"} => ~socket
  /\ SocketFreed

-----------------------------------------------------------------------------
(* Fcm *)

LEMMA FcmInvStep ==
  ASSUME FcmInv,
         \/ FcmStart \/ FcmQuit \/ FcmEnds \/ FcmSteps \/ FcmFaults \/ NoteReceived
         \/ UNCHANGED fcmVars
  PROVE  FcmInv'
<1>1. CASE FcmEnds
  BY <1>1 DEF FcmEnds, FcmInv, Pending
<1>2. CASE FcmStart
  BY <1>2 DEF FcmStart, FcmInv, Pending
<1>3. CASE FcmQuit \/ NoteReceived \/ TokenExpires \/ UNCHANGED fcmVars
  BY <1>3 DEF FcmQuit, NoteReceived, TokenExpires, FcmInv, Pending, fcmVars
<1>4. CASE HaveToken \/ NoToken \/ ConnectFails \/ Wake \/ KeeperQuits
  BY <1>4 DEF HaveToken, NoToken, ConnectFails, Wake, KeeperQuits, FcmInv, Pending
<1>5. CASE Connect \/ Refused
  <2>1. PICK c \in Conns, at \in {"read", "refused"} :
          /\ keeper = "connect" /\ keeper' = "watch"
          /\ reader' = [reader EXCEPT ![c] = at]
    BY <1>5 DEF Connect, Refused, Connected
  <2>2. \A d \in Conns : d # c => ~Pending(d)'
    BY <2>1 DEF FcmInv, Pending
  <2>3. Pending(c)'
    BY <2>1 DEF FcmInv, Pending
  <2>4. QED
    BY <2>1, <2>2, <2>3 DEF FcmInv
<1>6. ASSUME NEW c \in Conns, Message(c) \/ LastOne(c) \/ LostConn(c) \/ Malformed(c) \/ Notify(c)
      PROVE  FcmInv'
  <2>1. PICK at \in {"read", "send", "send last", "report", "panic"} :
          reader' = [reader EXCEPT ![c] = at] /\ UNCHANGED keeper /\ Pending(c)
    BY <1>6 DEF Message, LastOne, LostConn, Malformed, Reads, Notify, Pending
  <2>2. \A d \in Conns : Pending(d)' <=> Pending(d)
    BY <2>1 DEF FcmInv, Pending
  <2>3. QED
    BY <2>1, <2>2 DEF FcmInv
<1>7. ASSUME NEW c \in Conns, Report(c)
      PROVE  FcmInv'
  <2>1. Pending(c) /\ keeper = "watch" /\ keeper' = "token" /\ reader' = [reader EXCEPT ![c] = "ended"]
    BY <1>7 DEF Report, Pending
  <2>2. \A d \in Conns : ~Pending(d)'
    BY <2>1 DEF FcmInv, Pending
  <2>3. QED
    BY <2>1, <2>2 DEF FcmInv
<1>8. QED
  BY <1>1, <1>2, <1>3, <1>4, <1>5, <1>6, <1>7 DEF FcmSteps, FcmFaults

\* The invariant says how many connections are live or refused.
LEMMA FcmInvWatched == FcmInv => FcmWatched
<1> SUFFICES ASSUME FcmInv PROVE FcmWatched
  OBVIOUS
<1> DEFINE Off == {c \in Conns : reader[c] = "refused"}
<1>1. keeper \in {"token", "connect", "sleep"} => Live = {}
  BY DEF FcmInv, Pending, Live
<1>2. ASSUME keeper = "watch"
      PROVE  Cardinality(Live) + Cardinality(Off) = 1
  <2>1. PICK c \in Conns : Pending(c) /\ \A d \in Conns : Pending(d) => d = c
    BY <1>2 DEF FcmInv
  <2>2. CASE reader[c] = "refused"
    <3>1. Live = {} /\ Off = {c}
      BY <2>1, <2>2 DEF Live, Pending
    <3>2. Cardinality(Live) = 0 /\ Cardinality(Off) = 1
      BY <3>1, FS_EmptySet, FS_Singleton, Zenon
    <3> HIDE DEF Off
    <3>3. QED
      BY <3>2
  <2>3. CASE reader[c] # "refused"
    <3>1. Live = {c} /\ Off = {}
      BY <2>1, <2>3 DEF Live, Pending
    <3>2. Cardinality(Live) = 1 /\ Cardinality(Off) = 0
      BY <3>1, FS_EmptySet, FS_Singleton, Zenon
    <3> HIDE DEF Off
    <3>3. QED
      BY <3>2
  <2>4. QED
    BY <2>2, <2>3
<1>3. QED
  BY <1>1, <1>2 DEF FcmWatched

-----------------------------------------------------------------------------
(* LocalJobs *)

USE DEF jobVars, cacheVars, At

LEMMA JobIdsNat == JobIds \subseteq Nat \ {0} /\ Lifetime \in Nat /\ Lifetime > 0
<1>1. Cardinality(JobIds) \in Nat
  BY FS_CardinalityType, LocalJobsAssumption
<1>2. QED
  BY <1>1, LocalJobsAssumption

\* A new entry has its timer and its promise.
LEMMA CreateEntryInv ==
  ASSUME JobsTypeOK, EntriesExact, NEW i \in JobIds, NEW state \in JobState \ {"none"},
         CreateEntry(i, state), UNCHANGED clock
  PROVE  /\ EntriesExact' /\ issued' \in Nat
         /\ cache' \in [JobIds -> [state : JobState, expires : Nat]]
         /\ timer' \in [JobIds -> {"none", "set", "fired"}]
         /\ promised' \in [JobIds -> Nat]
<1> DEFINE e == [state |-> state, expires |-> clock + Lifetime]
<1>1. /\ issued' = i /\ i = issued + 1
      /\ cache' = [cache EXCEPT ![i] = e]
      /\ timer' = [timer EXCEPT ![i] = "set"]
      /\ promised' = [promised EXCEPT ![i] = clock + Lifetime]
  BY DEF CreateEntry
<1>2. clock + Lifetime \in Nat
  BY JobIdsNat DEF JobsTypeOK
<1>3. e \in [state : JobState, expires : Nat] /\ e.state # "none" /\ e.expires = clock + Lifetime
  BY <1>2
<1> HIDE DEF e
<1>4. /\ issued' \in Nat
      /\ cache' \in [JobIds -> [state : JobState, expires : Nat]]
      /\ timer' \in [JobIds -> {"none", "set", "fired"}]
      /\ promised' \in [JobIds -> Nat]
  BY <1>1, <1>2, <1>3, JobIdsNat DEF JobsTypeOK
<1>5. EntriesExact'
  <2> SUFFICES ASSUME NEW j \in JobIds
               PROVE  (/\ cache[j].state = "none" => cache[j] = NoJob
                       /\ cache[j].state # "none" <=> timer[j] = "set"
                       /\ timer[j] = "none" => promised[j] = 0
                       /\ timer[j] = "set" => promised[j] = cache[j].expires
                       /\ timer[j] = "fired" => promised[j] <= clock
                       /\ j > issued => timer[j] = "none")'
    BY DEF EntriesExact
  <2>1. CASE j = i
    BY <1>1, <1>3, <2>1, JobIdsNat DEF JobsTypeOK
  <2>2. CASE j # i
    BY <1>1, <2>2, JobIdsNat DEF JobsTypeOK, EntriesExact, NoJob
  <2>3. QED
    BY <2>1, <2>2
<1>6. QED
  BY <1>4, <1>5

\* An update of a job concerns the state of its entry alone, if it has one.
LEMMA UpdateJobInv ==
  ASSUME JobsTypeOK, EntriesExact, NEW i \in JobIds, NEW state \in JobState \ {"none"},
         UpdateJob(i, state), UNCHANGED <<clock, timer, issued, promised>>
  PROVE  EntriesExact' /\ cache' \in [JobIds -> [state : JobState, expires : Nat]]
<1>1. CASE cache[i] = NoJob
  BY <1>1 DEF UpdateJob, JobsTypeOK, EntriesExact
<1>2. CASE cache[i] # NoJob
  <2> DEFINE e == [cache[i] EXCEPT !.state = state]
  <2>1. e \in [state : JobState, expires : Nat] /\ e.state = state /\ e.expires = cache[i].expires
    BY DEF JobsTypeOK
  <2>2. cache' = [cache EXCEPT ![i] = e]
    BY <1>2 DEF UpdateJob
  <2> HIDE DEF e
  <2>3. cache' \in [JobIds -> [state : JobState, expires : Nat]]
    BY <2>1, <2>2 DEF JobsTypeOK
  <2>4. cache[i].state # "none"
    BY <1>2 DEF EntriesExact
  <2>5. cache'[i] = e /\ \A j \in JobIds : j # i => cache'[j] = cache[j]
    BY <2>2 DEF JobsTypeOK
  <2>6. EntriesExact'
    BY <2>1, <2>4, <2>5 DEF EntriesExact
  <2>7. QED
    BY <2>3, <2>6
<1>3. QED
  BY <1>1, <1>2

\* A request moves on, neither onto the channel nor off it, with its file where
\* it has one to have.
LEMMA MoveRequest ==
  ASSUME JobsTypeOK, ChannelExact, FilesExact, NEW r \in Requests, NEW job \in Nat,
         NEW at \in {"idle", "upload", "send", "print", "done"},
         req[r].at # "queued", at \in {"send", "print"} => job \in JobIds,
         req' = [req EXCEPT ![r] = [at |-> at, job |-> job]],
         file' = IF at \in {"upload", "send", "print"} THEN file \cup {r} ELSE file \ {r},
         UNCHANGED jobs
  PROVE  /\ req' \in [Requests -> [at : {"idle", "upload", "send", "queued", "print", "done"}, job : Nat]]
         /\ file' \subseteq Requests /\ ChannelExact' /\ FilesExact'
<1> DEFINE q == [at |-> at, job |-> job]
<1>1. /\ q \in [at : {"idle", "upload", "send", "queued", "print", "done"}, job : Nat]
      /\ q.at = at /\ q.job = job
  OBVIOUS
<1>2. req' = [req EXCEPT ![r] = q]
  OBVIOUS
<1> HIDE DEF q
<1>3. /\ req' \in [Requests -> [at : {"idle", "upload", "send", "queued", "print", "done"}, job : Nat]]
      /\ req'[r] = q /\ \A o \in Requests : o # r => req'[o] = req[o]
  BY <1>1, <1>2 DEF JobsTypeOK
<1>4. file' \subseteq Requests
  BY DEF JobsTypeOK
<1>5. FilesExact'
  BY <1>1, <1>3 DEF FilesExact
<1>6. ChannelExact'
  <2>1. \A k \in 1 .. Len(jobs) : jobs[k] \in Requests
    BY DEF JobsTypeOK
  <2>2. QED
    BY <1>1, <1>3, <2>1 DEF ChannelExact
<1>7. QED
  BY <1>3, <1>4, <1>5, <1>6

\* The parts of a request.
LEMMA RequestParts ==
  ASSUME JobsTypeOK, NEW r \in Requests, NEW at
  PROVE  /\ req[r].job \in Nat
         /\ [req EXCEPT ![r].at = at] = [req EXCEPT ![r] = [at |-> at, job |-> req[r].job]]
<1>1. req[r] \in [at : {"idle", "upload", "send", "queued", "print", "done"}, job : Nat]
  BY DEF JobsTypeOK
<1>2. [req[r] EXCEPT !.at = at] = [at |-> at, job |-> req[r].job]
  BY <1>1
<1>3. [req EXCEPT ![r].at = at] = [req EXCEPT ![r] = [req[r] EXCEPT !.at = at]]
  OBVIOUS
<1>4. QED
  BY <1>1, <1>2, <1>3

LEMMA CreateJobInv ==
  ASSUME JobsInv, NEW r \in Requests, CreateJob(r)
  PROVE  JobsInv'
<1>1. PICK i \in JobIds : CreateEntry(i, "QUEUED")
  BY DEF CreateJob
<1>2. EntriesExact' /\ issued' \in Nat
      /\ cache' \in [JobIds -> [state : JobState, expires : Nat]]
      /\ timer' \in [JobIds -> {"none", "set", "fired"}]
      /\ promised' \in [JobIds -> Nat]
  BY <1>1, CreateEntryInv DEF JobsInv, CreateJob, JobState
<1>3. req' = [req EXCEPT ![r] = [at |-> "done", job |-> req[r].job]] /\ req[r].job \in Nat
  BY RequestParts DEF JobsInv, CreateJob
<1>4. file' = file \ {r}
  BY DEF CreateJob, JobsInv, FilesExact
<1>5. QED
  BY <1>2, <1>3, <1>4, MoveRequest DEF JobsInv, JobsTypeOK, CreateJob

LEMMA UploadInv ==
  ASSUME JobsInv, NEW r \in Requests, Upload(r)
  PROVE  JobsInv'
<1>1. PICK i \in {0} \cup 1 .. issued : req' = [req EXCEPT ![r] = [at |-> "upload", job |-> i]]
  BY DEF Upload
<1>2. i \in Nat
  BY DEF JobsInv, JobsTypeOK
<1>3. file' = file \cup {r} /\ req[r].at # "queued" /\ UNCHANGED <<clock, printer, cacheVars, jobs>>
  BY DEF Upload
<1>4. EntriesExact'
  BY <1>3 DEF JobsInv, EntriesExact
<1>5. QED
  BY <1>1, <1>2, <1>3, <1>4, MoveRequest DEF JobsInv, JobsTypeOK

\* A request that ends, for whatever reason, takes its file with it.
LEMMA RejectedInv ==
  ASSUME JobsInv, NEW r \in Requests, Rejected(r), req[r].at # "queued",
         UNCHANGED <<clock, printer, cacheVars, jobs>>
  PROVE  JobsInv'
<1>1. req' = [req EXCEPT ![r] = [at |-> "done", job |-> req[r].job]] /\ req[r].job \in Nat
  BY RequestParts DEF JobsInv, Rejected
<1>2. EntriesExact'
  BY DEF JobsInv, EntriesExact
<1>3. QED
  BY <1>1, <1>2, MoveRequest DEF JobsInv, JobsTypeOK, Rejected

LEMMA NewJobInv ==
  ASSUME JobsInv, NEW r \in Requests, NewJob(r)
  PROVE  JobsInv'
<1>1. PICK i \in JobIds : CreateEntry(i, "DRAFT") /\ req' = [req EXCEPT ![r] = [at |-> "send", job |-> i]]
  BY DEF NewJob
<1>2. EntriesExact' /\ issued' \in Nat
      /\ cache' \in [JobIds -> [state : JobState, expires : Nat]]
      /\ timer' \in [JobIds -> {"none", "set", "fired"}]
      /\ promised' \in [JobIds -> Nat]
  BY <1>1, CreateEntryInv DEF JobsInv, NewJob, JobState
<1>3. file' = file \cup {r} /\ req[r].at # "queued" /\ i \in Nat
  BY JobIdsNat DEF NewJob, JobsInv, FilesExact
<1>4. QED
  BY <1>1, <1>2, <1>3, MoveRequest DEF JobsInv, JobsTypeOK, NewJob

LEMMA KnownJobInv ==
  ASSUME JobsInv, NEW r \in Requests, KnownJob(r)
  PROVE  JobsInv'
<1> DEFINE i == req[r].job
<1>1. /\ i \in JobIds /\ cache[i] # NoJob /\ req[r].at = "upload"
      /\ promised' = [promised EXCEPT ![i] = cache[i].expires]
      /\ req' = [req EXCEPT ![r] = [at |-> "send", job |-> i]]
      /\ UNCHANGED <<clock, printer, cache, timer, issued, file, jobs>>
  BY RequestParts DEF JobsInv, KnownJob
<1>2. cache[i].expires \in Nat
  BY <1>1 DEF JobsInv, JobsTypeOK
<1>3. file' = file \cup {r} /\ i \in Nat
  BY <1>1, JobIdsNat DEF JobsInv, FilesExact
<1>4. promised' \in [JobIds -> Nat]
  BY <1>1, <1>2 DEF JobsInv, JobsTypeOK
<1> HIDE DEF i
<1>5. EntriesExact'
  BY <1>1 DEF JobsInv, JobsTypeOK, EntriesExact
<1>6. QED
  BY <1>1, <1>3, <1>4, <1>5, MoveRequest DEF JobsInv, JobsTypeOK

LEMMA SendJobInv ==
  ASSUME JobsInv, NEW r \in Requests, SendJob(r)
  PROVE  JobsInv'
<1>1. /\ req[r].at = "send" /\ jobs' = Append(jobs, r)
      /\ req' = [req EXCEPT ![r].at = "queued"]
      /\ UNCHANGED <<clock, printer, cacheVars, file>>
  BY DEF SendJob
<1>2. /\ req' \in [Requests -> [at : {"idle", "upload", "send", "queued", "print", "done"}, job : Nat]]
      /\ req'[r].at = "queued" /\ req'[r].job = req[r].job
      /\ \A o \in Requests : o # r => req'[o] = req[o]
  BY <1>1 DEF JobsInv, JobsTypeOK
<1>3. /\ jobs' \in Seq(Requests) /\ Len(jobs') = Len(jobs) + 1 /\ Len(jobs) \in Nat
      /\ \A k \in 1 .. Len(jobs) : jobs'[k] = jobs[k] /\ jobs[k] \in Requests
      /\ jobs'[Len(jobs) + 1] = r
  BY <1>1 DEF JobsInv, JobsTypeOK
<1>4. \A k \in 1 .. Len(jobs) : jobs[k] # r
  BY <1>1 DEF JobsInv, ChannelExact
<1>5. ChannelExact'
  BY <1>1, <1>2, <1>3, <1>4 DEF JobsInv, ChannelExact
<1>6. FilesExact'
  BY <1>1, <1>2 DEF JobsInv, FilesExact
<1>7. EntriesExact'
  BY <1>1 DEF JobsInv, EntriesExact
<1>8. QED
  BY <1>1, <1>2, <1>3, <1>5, <1>6, <1>7 DEF JobsInv, JobsTypeOK

LEMMA JobReceivedInv ==
  ASSUME JobsInv, JobReceived
  PROVE  JobsInv'
<1> DEFINE r == Head(jobs)
<1>1. /\ jobs # <<>> /\ jobs' = Tail(jobs)
      /\ UNCHANGED <<clock, printer, cacheVars>>
  BY DEF JobReceived
<1>2. /\ r \in Requests /\ r = jobs[1] /\ Len(jobs) \in Nat /\ Len(jobs) > 0
      /\ jobs' \in Seq(Requests) /\ Len(jobs') = Len(jobs) - 1
      /\ \A k \in 1 .. Len(jobs') : jobs'[k] = jobs[k + 1] /\ jobs'[k] \in Requests
  BY <1>1 DEF JobsInv, JobsTypeOK
<1> HIDE DEF r
<1>3. req[r].at = "queued" /\ req[r].job \in JobIds /\ r \in file
  BY <1>2 DEF JobsInv, ChannelExact, FilesExact
<1>4. PICK at \in {"done", "print"} :
        /\ req' = [req EXCEPT ![r].at = at]
        /\ file' = IF at = "print" THEN file ELSE file \ {r}
  BY DEF JobReceived, Rejected, r
<1>5. /\ req' \in [Requests -> [at : {"idle", "upload", "send", "queued", "print", "done"}, job : Nat]]
      /\ req'[r].at = at /\ req'[r].job = req[r].job
      /\ \A o \in Requests : o # r => req'[o] = req[o]
  BY <1>2, <1>4 DEF JobsInv, JobsTypeOK
<1>6. \A k \in 1 .. Len(jobs') : jobs'[k] # r
  BY <1>2 DEF JobsInv, ChannelExact
<1>7. ChannelExact'
  <2>0. \A k \in 1 .. Len(jobs') : k + 1 \in 1 .. Len(jobs) /\ k \in Nat
    BY <1>2
  <2>1. \A k \in 1 .. Len(jobs') : req'[jobs'[k]].at = "queued"
    <3>1. \A k \in 1 .. Len(jobs') : req[jobs'[k]].at = "queued"
      BY <1>2, <2>0 DEF JobsInv, ChannelExact
    <3>2. QED
      BY <1>2, <1>5, <1>6, <3>1
  <2>2. ASSUME NEW k \in 1 .. Len(jobs'), NEW l \in 1 .. Len(jobs'), jobs'[k] = jobs'[l]
        PROVE  k = l
    <3>1. jobs[k + 1] = jobs[l + 1]
      BY <1>2, <2>2
    <3>2. k + 1 = l + 1
      BY <2>0, <3>1 DEF JobsInv, ChannelExact
    <3>3. QED
      BY <2>0, <3>2
  <2>3. \A o \in Requests : req'[o].at \in {"send", "queued", "print"} => req'[o].job \in JobIds
    BY <1>3, <1>5 DEF JobsInv, ChannelExact
  <2>4. QED
    BY <2>1, <2>2, <2>3 DEF ChannelExact
<1>8. FilesExact'
  BY <1>2, <1>3, <1>4, <1>5 DEF JobsInv, FilesExact
<1>9. EntriesExact'
  BY <1>1 DEF JobsInv, EntriesExact
<1>10. QED
  BY <1>1, <1>2, <1>4, <1>5, <1>7, <1>8, <1>9 DEF JobsInv, JobsTypeOK

LEMMA JobPrintingInv ==
  ASSUME JobsInv, NEW r \in Requests, JobPrinting(r)
  PROVE  JobsInv'
<1>1. req[r].job \in JobIds
  BY DEF JobsInv, ChannelExact, JobPrinting
<1>2. EntriesExact' /\ cache' \in [JobIds -> [state : JobState, expires : Nat]]
  BY <1>1, UpdateJobInv DEF JobsInv, JobPrinting, JobState
<1>3. QED
  BY <1>2 DEF JobsInv, JobsTypeOK, ChannelExact, FilesExact, JobPrinting

LEMMA JobEndsInv ==
  ASSUME JobsInv, NEW r \in Requests, JobEnds(r)
  PROVE  JobsInv'
<1>1. req[r].job \in JobIds /\ req[r].at # "queued"
  BY DEF JobsInv, ChannelExact, JobEnds
<1>2. EntriesExact' /\ cache' \in [JobIds -> [state : JobState, expires : Nat]]
  BY <1>1, UpdateJobInv DEF JobsInv, JobEnds, JobState
<1>3. req' = [req EXCEPT ![r] = [at |-> "done", job |-> req[r].job]] /\ req[r].job \in Nat
  BY RequestParts DEF JobsInv, JobEnds
<1>4. QED
  BY <1>1, <1>2, <1>3, MoveRequest DEF JobsInv, JobsTypeOK, JobEnds

\* The timer fires when the time is over, so that nothing is promised any more.
LEMMA DeleteEntryInv ==
  ASSUME JobsInv, NEW i \in JobIds, DeleteEntry(i)
  PROVE  JobsInv'
<1>1. NoJob \in [state : JobState, expires : Nat] /\ NoJob.state = "none"
  BY DEF NoJob, JobState
<1>2. /\ timer[i] = "set" /\ clock >= cache[i].expires
      /\ timer' = [timer EXCEPT ![i] = "fired"] /\ cache' = [cache EXCEPT ![i] = NoJob]
      /\ UNCHANGED <<clock, printer, issued, promised, req, file, jobs>>
  BY DEF DeleteEntry
<1>3. EntriesExact'
  BY <1>1, <1>2 DEF JobsInv, JobsTypeOK, EntriesExact
<1>4. QED
  BY <1>1, <1>2, <1>3 DEF JobsInv, JobsTypeOK, ChannelExact, FilesExact

LEMMA JobsInvStep ==
  ASSUME JobsInv,
         \/ JobsEnd \/ JobSteps \/ JobReceived \/ JobRequests \/ PrinterChanges
         \/ UNCHANGED jobVars
  PROVE  JobsInv'
<1>1. CASE JobsEnd
  <2>1. JobsTypeOK'
    BY <1>1 DEF JobsEnd, JobsInv, JobsTypeOK, NoJob, NoReq, JobState
  <2>2. EntriesExact'
    BY <1>1 DEF JobsEnd, EntriesExact, NoJob
  <2>3. ChannelExact' /\ FilesExact'
    BY <1>1 DEF JobsEnd, ChannelExact, FilesExact, NoReq
  <2>4. QED
    BY <2>1, <2>2, <2>3 DEF JobsInv
<1>2. CASE Tick
  BY <1>2 DEF Tick, JobsInv, JobsTypeOK, EntriesExact, ChannelExact, FilesExact
<1>3. CASE PrinterChanges \/ UNCHANGED jobVars
  BY <1>3 DEF PrinterChanges, JobsInv, JobsTypeOK, EntriesExact, ChannelExact, FilesExact
<1>4. ASSUME NEW r \in Requests, SubmitDoc(r)
      PROVE  JobsInv'
  <2>1. CASE BadUpload(r) \/ Unavailable(r)
    BY <2>1, RejectedInv DEF BadUpload, Unavailable
  <2>2. CASE UnknownJob(r)
    BY <2>2, RejectedInv DEF UnknownJob
  <2>3. QED
    BY <1>4, <2>1, <2>2, NewJobInv, KnownJobInv, SendJobInv DEF SubmitDoc
<1>5. QED
  BY <1>1, <1>2, <1>3, <1>4, CreateJobInv, UploadInv, JobReceivedInv, JobPrintingInv, JobEndsInv,
     DeleteEntryInv DEF JobSteps, JobRequests

\* The invariant implies what is promised to clients.
LEMMA JobsInvExact == JobsInv => CacheExact
<1> SUFFICES ASSUME JobsInv, NEW i \in JobIds
             PROVE  /\ cache[i].state # "none" <=> timer[i] = "set"
                    /\ clock < promised[i] => cache[i] # NoJob
  BY DEF CacheExact
<1>1. timer[i] \in {"none", "set", "fired"} /\ clock \in Nat /\ promised[i] \in Nat
  BY DEF JobsInv, JobsTypeOK
<1>2. clock < promised[i] => timer[i] = "set"
  BY <1>1 DEF JobsInv, EntriesExact
<1>3. NoJob.state = "none"
  BY DEF NoJob
<1>4. QED
  BY <1>2, <1>3 DEF JobsInv, EntriesExact

-----------------------------------------------------------------------------
(* LogRoller *)

USE DEF logVars

LEMMA LogBounds ==
  /\ MaxFiles \in Nat /\ MaxPlace \in Nat /\ MaxFiles < MaxPlace
  /\ Places \subseteq Nat /\ 0 \in Places /\ 1 \in Places
  /\ \A p \in Places : p < MaxPlace => p + 1 \in Places
  /\ \A p \in Places : p <= MaxPlace
  BY LogAssumption DEF Places

LEMMA HeldFinite ==
  /\ IsFiniteSet(Places) /\ IsFiniteSet(Held) /\ Cardinality(Held) \in Nat
  /\ IsFiniteSet(Moved) /\ Cardinality(Moved) \in Nat
<1>1. IsFiniteSet(Places)
  BY FS_Interval, LogBounds DEF Places
<1>2. Held \subseteq Places /\ Moved \subseteq Places
  BY DEF Held, Moved
<1>3. QED
  BY <1>1, <1>2, FS_Subset, FS_CardinalityType

\* A set of places has a last one, which Max denotes.
LEMMA LastPlace ==
  ASSUME NEW S \in SUBSET Places, S # {}
  PROVE  Max(S) \in S /\ \A q \in S : q <= Max(S)
<1> DEFINE R == {ss \in Nat \X Nat : ss[1] < ss[2]}
           T == {n \in Nat : \E p \in S : n = MaxPlace - p}
<1>1. IsWellFoundedOn(R, Nat)
  BY NatLessThanWellFounded DEF OpToRel
<1>2. \A p \in S : p \in Nat /\ p <= MaxPlace /\ MaxPlace - p \in Nat
  BY LogBounds
<1>3. T \subseteq Nat /\ T # {}
  BY <1>2
<1>4. PICK n \in T : \A m \in T : ~(<<m, n>> \in R)
  BY <1>1, <1>3, WFMin
<1>5. PICK p \in S : n = MaxPlace - p
  BY <1>4
<1>6. ASSUME NEW q \in S PROVE p >= q
  <2>1. MaxPlace - q \in T
    BY <1>2
  <2>2. ~(MaxPlace - q < MaxPlace - p)
    BY <1>2, <1>4, <1>5, <2>1
  <2>3. QED
    BY <1>2, <2>2, LogBounds
<1>7. \A y \in S : Max(S) >= y /\ Max(S) \in S
  BY <1>6 DEF Max
<1>8. QED
  BY <1>2, <1>7

\* Moving a file to a free place keeps the order of the logs.
LEMMA MoveKeeps ==
  ASSUME LogsTypeOK, Ordered, NoGap, NEW p \in Held, p < MaxPlace, ~There(p + 1),
         Move(p), UNCHANGED newest
  PROVE  /\ disk' \in [Places -> Nat] /\ (\A q \in Places : disk'[q] <= newest)
         /\ Held' = (Held \ {p}) \cup {p + 1} /\ p + 1 \in Places
         /\ Cardinality(Held') = Cardinality(Held)
         /\ Ordered' /\ NoGap'
<1>1. p \in Places /\ p \in Nat /\ p + 1 \in Places /\ disk[p] \in Nat /\ disk[p] # 0
  BY LogBounds DEF Held, There, LogsTypeOK
<1>2. /\ disk' \in [Places -> Nat] /\ disk'[p] = 0 /\ disk'[p + 1] = disk[p]
      /\ \A q \in Places : q # p /\ q # p + 1 => disk'[q] = disk[q]
  BY <1>1 DEF Move, LogsTypeOK
<1>3. Held' = (Held \ {p}) \cup {p + 1}
  BY <1>1, <1>2 DEF Held, There
<1>4. \A q \in Places : disk'[q] <= newest
  BY <1>1, <1>2 DEF LogsTypeOK
<1>5. Cardinality(Held') = Cardinality(Held)
  <2>1. IsFiniteSet(Held \ {p}) /\ Cardinality(Held \ {p}) = Cardinality(Held) - 1
    BY HeldFinite, FS_RemoveElement
  <2>2. p + 1 \notin Held \ {p}
    BY DEF Held
  <2>3. Cardinality(Held') = Cardinality(Held \ {p}) + 1
    BY <1>3, <2>1, <2>2, FS_AddElement
  <2>4. QED
    BY <2>1, <2>3, HeldFinite
<1>6. Ordered'
  <2> SUFFICES ASSUME NEW a \in Places, NEW b \in Places, a < b, There(a)', There(b)'
               PROVE  disk'[a] > disk'[b]
    BY DEF Ordered
  <2>1. a # p /\ b # p /\ a \in Nat /\ b \in Nat
    BY <1>2, LogBounds DEF There
  <2>2. CASE a = p + 1
    <3>1. disk'[b] = disk[b] /\ p < b
      BY <1>1, <1>2, <2>1, <2>2
    <3>2. There(b) /\ There(p)
      BY <1>1, <3>1 DEF There
    <3>3. disk[p] > disk[b]
      BY <1>1, <3>1, <3>2 DEF Ordered
    <3>4. QED
      BY <1>2, <2>2, <3>1, <3>3
  <2>3. CASE b = p + 1
    <3>1. disk'[a] = disk[a] /\ a < p
      BY <1>1, <1>2, <2>1, <2>3
    <3>2. There(a) /\ There(p)
      BY <1>1, <3>1 DEF There
    <3>3. disk[a] > disk[p]
      BY <1>1, <3>1, <3>2 DEF Ordered
    <3>4. QED
      BY <1>2, <2>3, <3>1, <3>3
  <2>4. CASE a # p + 1 /\ b # p + 1
    BY <1>2, <2>1, <2>4 DEF Ordered, There
  <2>5. QED
    BY <2>2, <2>3, <2>4
<1>7. \A q \in Held : \E o \in Held' : disk'[o] = disk[q]
  <2> SUFFICES ASSUME NEW q \in Held PROVE \E o \in Held' : disk'[o] = disk[q]
    OBVIOUS
  <2>1. CASE q = p
    BY <1>2, <1>3, <2>1
  <2>2. CASE q # p
    <3>1. q # p + 1 /\ q \in Places
      BY DEF Held
    <3>2. QED
      BY <1>2, <1>3, <2>2, <3>1
  <2>3. QED
    BY <2>1, <2>2
<1>8. \A o \in Held' : \E q \in Held : disk'[o] = disk[q]
  BY <1>1, <1>2, <1>3 DEF Held
<1>9. NoGap'
  BY <1>7, <1>8 DEF NoGap
<1>10. QED
  BY <1>1, <1>2, <1>3, <1>4, <1>5, <1>6, <1>9

LEMMA WriteInv ==
  ASSUME LogsInv, Write
  PROVE  LogsInv'
<1>1. /\ UNCHANGED <<disk, newest, open>> /\ roller' \in {"roll", "create"}
      /\ roller' = "roll" <=> There(0)
      /\ pending' = IF There(0) THEN {p \in Places \ {0} : There(p)} ELSE {}
  BY DEF Write
<1>2. Held' = Held
  BY <1>1 DEF Held, There
<1>3. LogsTypeOK'
  BY <1>1, <1>2 DEF LogsInv, LogsTypeOK, Held
<1>4. Ordered' /\ NoGap' /\ Counted'
  BY <1>1, <1>2 DEF LogsInv, Ordered, NoGap, Counted, There
<1>5. There(0) => Moved' = {}
  BY <1>1, <1>2 DEF Moved, Held
<1>6. There(0)' <=> There(0)
  BY <1>1 DEF There
<1>7. There(0) => \A p \in Places : p < MaxPlace /\ There(p + 1)' => p + 1 \in pending'
  BY <1>1, LogBounds DEF There
<1>8. Rolling'
  BY <1>1, <1>5, <1>6, <1>7, LogBounds DEF Rolling
<1>9. QED
  BY <1>3, <1>4, <1>8 DEF LogsInv

\* A roll that is cut short, and one that is not begun, leave the logs as they
\* are.
LEMMA LogsStayInv ==
  ASSUME LogsInv, UNCHANGED <<disk, newest>>, open' \in BOOLEAN,
         \/ roller' = "idle" /\ pending' = {}
         \/ UNCHANGED <<roller, pending>>
  PROVE  LogsInv'
<1>1. Held' = Held /\ \A p \in Places : There(p)' <=> There(p)
  BY DEF Held, There
<1>2. LogsTypeOK' /\ Ordered' /\ NoGap'
  BY <1>1 DEF LogsInv, LogsTypeOK, Ordered, NoGap
<1>3. Counted'
  BY <1>1, LogBounds DEF LogsInv, Counted
<1>4. Rolling'
  <2>1. CASE roller' = "idle" /\ pending' = {}
    BY <2>1 DEF Rolling
  <2>2. CASE UNCHANGED <<roller, pending>>
    <3>1. Moved' = Moved
      BY <1>1, <2>2 DEF Moved
    <3>2. QED
      BY <1>1, <2>2, <3>1, LogBounds DEF LogsInv, Rolling, There
  <2>3. QED
    BY <2>1, <2>2
<1>5. QED
  BY <1>2, <1>3, <1>4 DEF LogsInv

LEMMA CreateInv ==
  ASSUME LogsInv, Create
  PROVE  LogsInv'
<1>1. /\ roller = "create" /\ roller' = "idle" /\ open' = TRUE /\ UNCHANGED pending
      /\ newest' = newest + 1 /\ disk' = [disk EXCEPT ![0] = newest + 1]
      /\ pending = {} /\ newest \in Nat
  BY DEF Create, LogsInv, Rolling, LogsTypeOK
<1>2. /\ disk' \in [Places -> Nat] /\ disk'[0] = newest + 1
      /\ \A q \in Places : q # 0 => disk'[q] = disk[q] /\ disk[q] <= newest /\ disk[q] \in Nat
  BY <1>1, LogBounds DEF LogsInv, LogsTypeOK
<1>3. Held' = Held \cup {0}
  BY <1>1, <1>2, LogBounds DEF Held, There
<1>4. LogsTypeOK'
  BY <1>1, <1>2, LogBounds DEF LogsTypeOK
<1>5. Ordered'
  <2> SUFFICES ASSUME NEW a \in Places, NEW b \in Places, a < b, There(a)', There(b)'
               PROVE  disk'[a] > disk'[b]
    BY DEF Ordered
  <2>1. b # 0 /\ There(b)
    BY <1>2, LogBounds DEF There
  <2>2. CASE a = 0
    BY <1>1, <1>2, <2>1, <2>2
  <2>3. CASE a # 0
    BY <1>2, <2>1, <2>3 DEF LogsInv, Ordered, There
  <2>4. QED
    BY <2>2, <2>3
<1>6. There(0)'
  BY <1>1, <1>2 DEF There
<1>7. NoGap' /\ Counted'
  <2>1. CASE There(0)
    <3>1. MaxFiles = 0 /\ Held' = {0}
      BY <1>1, <1>3, <2>1 DEF LogsInv, Rolling
    <3>2. NoGap'
      BY <1>1, <1>2, <3>1 DEF NoGap
    <3>3. Cardinality(Held') = 1
      BY <3>1, FS_Singleton
    <3>4. QED
      BY <1>1, <1>6, <3>1, <3>2, <3>3 DEF Counted
  <2>2. CASE ~There(0)
    <3>1. 0 \notin Held
      BY <2>2 DEF Held
    <3>2. Cardinality(Held') = Cardinality(Held) + 1
      BY <1>3, <3>1, HeldFinite, FS_AddElement
    <3>3. Counted'
      BY <1>1, <1>6, <2>2, <3>2, HeldFinite, LogBounds DEF LogsInv, Counted
    <3>4. NoGap'
      <4> SUFFICES ASSUME NEW n \in 1 .. newest + 1
                   PROVE  (\E p \in Held' : disk'[p] = n) \/ \A p \in Held' : n < disk'[p]
        BY <1>1 DEF NoGap
      <4>1. CASE n = newest + 1
        BY <1>2, <1>3, <4>1
      <4>2. CASE n \in 1 .. newest
        <5>1. \A p \in Held : p # 0 /\ disk'[p] = disk[p]
          BY <1>2, <3>1 DEF Held
        <5>2. n < newest + 1
          BY <1>1, <4>2
        <5>3. (\E p \in Held : disk[p] = n) \/ \A p \in Held : n < disk[p]
          BY <4>2 DEF LogsInv, NoGap
        <5>4. QED
          BY <1>2, <1>3, <5>1, <5>2, <5>3
      <4>3. QED
        BY <1>1, <4>1, <4>2
    <3>5. QED
      BY <3>3, <3>4
  <2>3. QED
    BY <2>1, <2>2
<1>8. Rolling'
  BY <1>1 DEF Rolling
<1>9. QED
  BY <1>4, <1>5, <1>7, <1>8 DEF LogsInv

\* What RollOne reads: the file to move is the last one, and the condition
\* counts the files that remain.
LEMMA NextToRoll ==
  ASSUME LogsInv, pending # {}
  PROVE  /\ NextFile \in pending /\ NextFile \in Held /\ NextFile # 0
         /\ \A q \in pending : q <= NextFile
         /\ IsFiniteSet(pending) /\ Cardinality(pending) \in Nat /\ Cardinality(pending) > 0
         /\ IsFiniteSet(pending \ {NextFile})
         /\ Cardinality(pending \ {NextFile}) = Cardinality(pending) - 1
         /\ {q \in pending : q < NextFile} = pending \ {NextFile}
<1>1. pending \subseteq Held \ {0} /\ pending \subseteq Places /\ pending \subseteq Nat
  BY LogBounds DEF LogsInv, LogsTypeOK, Held
<1>2. NextFile \in pending /\ \A q \in pending : q <= NextFile
  BY <1>1, LastPlace DEF NextFile
<1> HIDE DEF NextFile
<1>3. IsFiniteSet(pending)
  BY <1>1, HeldFinite, FS_Subset
<1>4. Cardinality(pending) \in Nat /\ Cardinality(pending) # 0
  BY <1>3, FS_CardinalityType, FS_EmptySet
<1>5. IsFiniteSet(pending \ {NextFile}) /\ Cardinality(pending \ {NextFile}) = Cardinality(pending) - 1
  BY <1>2, <1>3, FS_RemoveElement
<1>6. {q \in pending : q < NextFile} = pending \ {NextFile}
  <2>1. \A q \in pending : q < NextFile <=> q # NextFile
    BY <1>1, <1>2
  <2>2. QED
    BY <2>1
<1>7. QED
  BY <1>1, <1>2, <1>3, <1>4, <1>5, <1>6

\* The last file goes when enough are left without it.
LEMMA RollDeletesInv ==
  ASSUME LogsInv, roller = "roll", pending # {}, UNCHANGED <<newest, open, roller>>,
         Cardinality(pending) >= MaxFiles,
         disk' = [disk EXCEPT ![NextFile] = 0], pending' = pending \ {NextFile}
  PROVE  LogsInv'
<1> DEFINE p == NextFile
<1>1. /\ p \in pending /\ p \in Held /\ p # 0 /\ p \in Places /\ p \in Nat
      /\ \A q \in pending : q <= p
      /\ Cardinality(pending) \in Nat /\ IsFiniteSet(pending)
  BY NextToRoll, LogBounds DEF Held
<1>2. disk' = [disk EXCEPT ![p] = 0] /\ pending' = pending \ {p}
  OBVIOUS
<1> HIDE DEF p
<1>3. /\ disk' \in [Places -> Nat] /\ disk'[p] = 0
      /\ \A q \in Places : q # p => disk'[q] = disk[q]
  BY <1>1, <1>2 DEF LogsInv, LogsTypeOK
<1>4. Held' = Held \ {p} /\ \A q \in Places : There(q)' <=> There(q) /\ q # p
  BY <1>3 DEF Held, There
<1>5. Moved = {}
  <2>1. Cardinality(Moved) \in Nat
    BY HeldFinite
  <2>2. Moved # {} => Cardinality(Moved) + Cardinality(pending) < MaxFiles
    BY DEF LogsInv, Rolling
  <2>3. QED
    BY <1>1, <2>1, <2>2, LogBounds
<1>6. Held = pending \cup {0} /\ 0 \notin pending /\ There(0)
  BY <1>5, LogBounds DEF LogsInv, LogsTypeOK, Rolling, Held, Moved
<1>7. Counted'
  <2>1. Cardinality(Held) = Cardinality(pending) + 1
    BY <1>1, <1>6, FS_AddElement
  <2>2. Cardinality(Held') = Cardinality(Held) - 1
    BY <1>1, <1>4, HeldFinite, FS_RemoveElement
  <2>3. There(0)' /\ newest' = newest /\ newest \in Nat
    BY <1>1, <1>4, <1>6, LogBounds DEF LogsInv, LogsTypeOK
  <2>4. Cardinality(Held) <= MaxFiles + 1
    BY <1>6 DEF LogsInv, Counted
  <2>5. QED
    BY <1>1, <2>1, <2>2, <2>3, <2>4, LogBounds DEF Counted
<1>8. LogsTypeOK'
  BY <1>2, <1>3, <1>4 DEF LogsInv, LogsTypeOK
<1>9. Ordered'
  BY <1>3, <1>4 DEF LogsInv, Ordered
<1>10. NoGap'
  <2>1. \A q \in Held \ {p} : disk[p] < disk[q]
    <3> SUFFICES ASSUME NEW q \in Held \ {p} PROVE disk[p] < disk[q]
      OBVIOUS
    <3>1. q \in Places /\ q \in Nat /\ There(q) /\ There(p)
      BY <1>1, LogBounds DEF Held
    <3>2. q < p
      BY <1>1, <1>6, <3>1
    <3>3. disk[q] > disk[p]
      BY <1>1, <3>1, <3>2 DEF LogsInv, Ordered
    <3>4. QED
      BY <1>1, <3>1, <3>3 DEF LogsInv, LogsTypeOK
  <2>2. \A q \in Held' : disk'[q] = disk[q] /\ q \in Held \ {p}
    BY <1>3, <1>4 DEF Held
  <2> SUFFICES ASSUME NEW n \in 1 .. newest
               PROVE  (\E q \in Held' : disk'[q] = n) \/ \A q \in Held' : n < disk'[q]
    BY DEF NoGap
  <2>3. (\E q \in Held : disk[q] = n) \/ \A q \in Held : n < disk[q]
    BY DEF LogsInv, NoGap
  <2>4. CASE disk[p] = n
    BY <2>1, <2>2, <2>4
  <2>5. CASE disk[p] # n
    BY <1>3, <1>4, <2>2, <2>3, <2>5
  <2>6. QED
    BY <2>4, <2>5
<1>11. Rolling'
  <2>1. Moved' = {}
    BY <1>2, <1>4, <1>6 DEF Moved
  <2>2. \A q \in pending \cup {0} : q < MaxPlace /\ There(q + 1) => q + 1 \in pending
    BY DEF LogsInv, Rolling
  <2>3. \A q \in pending' \cup {0} : q \in Places /\ (q < MaxPlace => q + 1 \in Places)
    BY <1>2, LogBounds DEF LogsInv, LogsTypeOK, Held
  <2>4. \A q \in pending' \cup {0} : q < MaxPlace /\ There(q + 1)' => q + 1 \in pending'
    BY <1>2, <1>3, <1>4, <2>2, <2>3 DEF There
  <2>5. There(0)'
    BY <1>1, <1>4, <1>6, LogBounds
  <2>6. QED
    BY <2>1, <2>4, <2>5 DEF Rolling, There
<1>12. QED
  BY <1>7, <1>8, <1>9, <1>10, <1>11 DEF LogsInv

\* Any other file goes to the next place, which the ones after it have left.
LEMMA RollMovesInv ==
  ASSUME LogsInv, roller = "roll", pending # {}, UNCHANGED <<newest, open, roller>>,
         Cardinality(pending) < MaxFiles, NextFile < MaxPlace,
         Move(NextFile), pending' = pending \ {NextFile}
  PROVE  LogsInv'
<1> DEFINE p == NextFile
<1>1. /\ p \in pending /\ p \in Held /\ p # 0 /\ p \in Places /\ p \in Nat
      /\ \A q \in pending : q <= p
      /\ Cardinality(pending) \in Nat /\ IsFiniteSet(pending)
      /\ Cardinality(pending \ {p}) = Cardinality(pending) - 1
  BY NextToRoll, LogBounds DEF Held
<1>2. Move(p) /\ p < MaxPlace /\ pending' = pending \ {p}
  OBVIOUS
<1> HIDE DEF p
<1>3. \A q \in pending \cup {0} : q < MaxPlace /\ There(q + 1) => q + 1 \in pending
  BY DEF LogsInv, Rolling
<1>4. ~There(p + 1) /\ p + 1 \notin Held
  BY <1>1, <1>2, <1>3 DEF Held
<1>5. /\ disk' \in [Places -> Nat] /\ (\A q \in Places : disk'[q] <= newest)
      /\ Held' = (Held \ {p}) \cup {p + 1} /\ p + 1 \in Places
      /\ Cardinality(Held') = Cardinality(Held)
      /\ Ordered' /\ NoGap'
  BY <1>1, <1>2, <1>4, MoveKeeps DEF LogsInv
<1>6. \A q \in Places : There(q)' <=> q \in Held'
  BY DEF Held, There
<1>7. There(0) /\ 0 \in Held
  BY LogBounds DEF LogsInv, Rolling, Held
<1>8. There(0)'
  BY <1>1, <1>5, <1>6, <1>7, LogBounds
<1>9. LogsTypeOK'
  BY <1>1, <1>2, <1>5 DEF LogsInv, LogsTypeOK
<1>10. Counted'
  BY <1>5, <1>7, <1>8, LogBounds DEF LogsInv, Counted
<1>11. Rolling'
  <2>1. Moved' = Moved \cup {p + 1} /\ p + 1 \notin Moved
    <3>1. pending \subseteq Held
      BY DEF LogsInv, LogsTypeOK
    <3>2. p + 1 # p /\ p + 1 # 0 /\ p \notin Moved
      BY <1>1 DEF Moved
    <3>3. QED
      BY <1>1, <1>2, <1>4, <1>5, <3>1, <3>2 DEF Moved
  <2>2. Cardinality(Moved') = Cardinality(Moved) + 1 /\ Cardinality(Moved) \in Nat
    BY <2>1, HeldFinite, FS_AddElement
  <2>3. Moved = {} => Cardinality(Moved) = 0
    BY FS_EmptySet
  <2>4. Moved # {} => Cardinality(Moved) + Cardinality(pending) < MaxFiles
    BY DEF LogsInv, Rolling
  <2>5. Cardinality(Moved') + Cardinality(pending') < MaxFiles
    BY <1>1, <1>2, <2>2, <2>3, <2>4, LogBounds
  <2>6. ASSUME NEW q \in pending' \cup {0}, q < MaxPlace, There(q + 1)'
        PROVE  q + 1 \in pending'
    <3>1. q \in Nat /\ q # p /\ q + 1 \in Places /\ q \in pending \cup {0}
      BY <1>1, <1>2, <2>6, LogBounds DEF LogsInv, LogsTypeOK, Held
    <3>2. q + 1 \in Held'
      BY <2>6, <3>1 DEF Held, There
    <3>3. q + 1 \in Held /\ q + 1 # p
      BY <1>1, <1>5, <3>1, <3>2
    <3>4. q + 1 \in pending
      BY <1>3, <2>6, <3>1, <3>3 DEF Held
    <3>5. QED
      BY <1>2, <3>3, <3>4
  <2>7. QED
    BY <1>8, <2>5, <2>6 DEF Rolling, There
<1>12. QED
  BY <1>5, <1>9, <1>10, <1>11 DEF LogsInv

LEMMA RollOneInv ==
  ASSUME LogsInv, RollOne
  PROVE  LogsInv'
<1> DEFINE p == NextFile
<1>1. /\ {q \in pending : q < p} = pending \ {p}
      /\ Cardinality(pending \ {p}) = Cardinality(pending) - 1 /\ Cardinality(pending) \in Nat
  BY NextToRoll DEF RollOne
<1>2. /\ roller = "roll" /\ pending # {} /\ UNCHANGED <<newest, open, roller>>
      /\ pending' = pending \ {p}
      /\ IF Cardinality({q \in pending : q < p}) + 1 >= MaxFiles
         THEN disk' = [disk EXCEPT ![p] = 0] ELSE p < MaxPlace /\ Move(p)
  BY DEF RollOne
<1> HIDE DEF p
<1>3. IF Cardinality(pending) >= MaxFiles
      THEN disk' = [disk EXCEPT ![p] = 0] ELSE p < MaxPlace /\ Move(p)
  <2>1. Cardinality({q \in pending : q < p}) = Cardinality(pending) - 1
    BY <1>1, Zenon
  <2>2. (Cardinality({q \in pending : q < p}) + 1 >= MaxFiles) = (Cardinality(pending) >= MaxFiles)
    BY <1>1, <2>1, LogBounds
  <2>3. QED
    BY <1>2, <2>2, Zenon
<1> USE DEF p
<1>4. CASE Cardinality(pending) >= MaxFiles
  BY <1>2, <1>3, <1>4, RollDeletesInv
<1>5. CASE Cardinality(pending) < MaxFiles
  BY <1>2, <1>3, <1>5, RollMovesInv, LogBounds, <1>1
<1>6. QED
  BY <1>1, <1>4, <1>5, LogBounds

LEMMA RollLastInv ==
  ASSUME LogsInv, RollLast
  PROVE  LogsInv'
<1>1. /\ roller = "roll" /\ pending = {} /\ roller' = "create"
      /\ UNCHANGED <<newest, open, pending>>
  BY DEF RollLast
<1>2. There(0) /\ 0 \in Held /\ Held = Moved \cup {0} /\ 0 \notin Moved
  BY <1>1, LogBounds DEF LogsInv, Rolling, Held, Moved
<1>3. Cardinality(Held) = Cardinality(Moved) + 1 /\ Cardinality(Moved) \in Nat
  BY <1>2, HeldFinite, FS_AddElement
<1>4. Moved # {} => Cardinality(Moved) < MaxFiles
  <2>1. Moved # {} => Cardinality(Moved) + Cardinality(pending) < MaxFiles
    BY <1>1 DEF LogsInv, Rolling
  <2>2. Cardinality(pending) = 0
    BY <1>1, FS_EmptySet
  <2>3. QED
    BY <1>3, <2>1, <2>2
<1>5. Moved = {} => Cardinality(Moved) = 0
  BY FS_EmptySet
<1>6. CASE MaxFiles > 0
  <2>1. Move(0)
    BY <1>6 DEF RollLast
  <2>2. ~There(0 + 1)
    BY <1>1, LogBounds DEF LogsInv, Rolling
  <2>3. /\ disk' \in [Places -> Nat] /\ (\A q \in Places : disk'[q] <= newest)
        /\ Held' = (Held \ {0}) \cup {0 + 1}
        /\ Cardinality(Held') = Cardinality(Held)
        /\ Ordered' /\ NoGap'
    BY <1>1, <1>2, <1>6, <2>1, <2>2, MoveKeeps, LogBounds DEF LogsInv
  <2>4. ~There(0)'
    BY <2>3, LogBounds DEF Held
  <2>5. Cardinality(Held') <= MaxFiles
    BY <1>3, <1>4, <1>5, <1>6, <2>3, LogBounds
  <2>6. Counted'
    BY <1>1, <2>3, <2>4, <2>5 DEF LogsInv, Counted
  <2>7. LogsTypeOK' /\ Rolling'
    BY <1>1, <2>3, <2>4 DEF LogsInv, LogsTypeOK, Rolling
  <2>8. QED
    BY <2>3, <2>6, <2>7 DEF LogsInv
<1>7. CASE MaxFiles = 0
  <2>1. UNCHANGED disk
    BY <1>7 DEF RollLast
  <2>2. Held' = Held /\ \A p \in Places : There(p)' <=> There(p)
    BY <2>1 DEF Held, There
  <2>3. Held = {0}
    BY <1>2, <1>3, <1>4, <1>7
  <2>4. LogsTypeOK' /\ Ordered' /\ NoGap' /\ Counted'
    BY <1>1, <2>1, <2>2, LogBounds DEF LogsInv, LogsTypeOK, Ordered, NoGap, Counted
  <2>5. Rolling'
    BY <1>1, <1>7, <2>2, <2>3 DEF Rolling
  <2>6. QED
    BY <2>4, <2>5 DEF LogsInv
<1>8. QED
  BY <1>6, <1>7, LogBounds

LEMMA LogsInvStep ==
  ASSUME LogsInv, LogsEnd \/ LogSteps \/ Write \/ WriteFails \/ UNCHANGED logVars
  PROVE  LogsInv'
<1>1. CASE LogsEnd \/ WriteFails \/ Full \/ UNCHANGED logVars
  BY <1>1, LogsStayInv DEF LogsEnd, WriteFails, Full, LogsInv, LogsTypeOK
<1>2. QED
  BY <1>1, WriteInv, RollOneInv, RollLastInv, CreateInv DEF LogSteps

\* No two places hold the same log, so there are as many logs as places in use.
LEMMA LogsInvKept == LogsInv => LogsKept
<1> SUFFICES ASSUME LogsInv PROVE LogsKept
  OBVIOUS
<1> DEFINE kept == {disk[p] : p \in Held}
           f == [p \in Held |-> disk[p]]
<1>1. \A p, q \in Held : disk[p] = disk[q] => p = q
  <2> SUFFICES ASSUME NEW p \in Held, NEW q \in Held, disk[p] = disk[q] PROVE p = q
    OBVIOUS
  <2>1. p \in Places /\ q \in Places /\ p \in Nat /\ q \in Nat /\ There(p) /\ There(q)
    BY LogBounds DEF Held
  <2>2. disk[p] \in Nat
    BY <2>1 DEF LogsInv, LogsTypeOK
  <2>3. ~(p < q) /\ ~(q < p)
    BY <2>1, <2>2 DEF LogsInv, Ordered
  <2>4. QED
    BY <2>1, <2>3
<1>2. f \in Bijection(Held, kept)
  <2>1. f \in [Held -> kept]
    OBVIOUS
  <2>2. \A p, q \in Held : f[p] = f[q] => p = q
    BY <1>1
  <2>3. \A n \in kept : \E p \in Held : f[p] = n
    OBVIOUS
  <2>4. QED
    BY <2>1, <2>2, <2>3, Fun_IsBij
<1>3. IsFiniteSet(kept) /\ Cardinality(kept) = Cardinality(Held)
  BY <1>2, HeldFinite, FS_Bijection DEF ExistsBijection
<1>4. \A n \in 1 .. newest : n \in kept \/ \A m \in kept : n < m
  BY DEF LogsInv, NoGap
<1>5. Cardinality({p \in Places \ {0} : There(p)}) <= MaxFiles
  <2>1. {p \in Places \ {0} : There(p)} = Held \ {0}
    BY DEF Held
  <2>2. There(0) => 0 \in Held /\ Cardinality(Held \ {0}) = Cardinality(Held) - 1
    BY HeldFinite, LogBounds, FS_RemoveElement DEF Held
  <2>3. ~There(0) => Held \ {0} = Held
    BY DEF Held
  <2>4. QED
    BY <2>1, <2>2, <2>3, HeldFinite, LogBounds DEF LogsInv, Counted
<1>6. Cardinality(kept) >= IF newest < MaxFiles THEN newest ELSE MaxFiles
  BY <1>3 DEF LogsInv, Counted
<1>7. kept = {disk[p] : p \in {q \in Places : There(q)}}
  BY DEF Held
<1> HIDE DEF kept
<1>8. QED
  BY <1>4, <1>5, <1>6, <1>7 DEF LogsInv, Ordered, LogsKept

-----------------------------------------------------------------------------
(* The steps of the program, seen from each part *)

USE DEF mainVars, monitorVars, Beside, MonitorStep

\* What a step of the program is for the FCM client.
LEMMA NextFcm ==
  ASSUME [Next]_vars
  PROVE  \/ FcmStart \/ FcmQuit \/ FcmEnds \/ FcmSteps \/ FcmFaults \/ NoteReceived
         \/ UNCHANGED fcmVars
<1>1. CASE Start \/ Step \/ FcmInit \/ StepFails \/ Wait \/ ListenerEnds
  BY <1>1 DEF Start, Step, FcmInit, StepFails, Wait, ListenerEnds
<1>2. CASE Signal \/ Panic
  BY <1>2 DEF Signal, Panic, ProcessEnds
<1>3. CASE Shutdown
  BY <1>3 DEF Shutdown, QuitMonitor, QuitPart, Returns, ProcessEnds
<1>4. CASE Loop \/ Acceptor \/ Client \/ AcceptFails
  BY <1>4 DEF Loop, Stats, MonitorCloses, Acceptor, Accept, Closed, Hand, Acknowledge, Client, AcceptFails
<1>5. CASE FcmRuns \/ JobsRun \/ LogRuns
  BY <1>5 DEF FcmRuns, JobsRun, LogRuns
<1>6. CASE UNCHANGED vars
  BY <1>6 DEF vars
<1>7. QED
  BY <1>1, <1>2, <1>3, <1>4, <1>5, <1>6 DEF Next

\* What it is for the local jobs.
LEMMA NextJobs ==
  ASSUME [Next]_vars
  PROVE  \/ JobsEnd \/ JobSteps \/ JobReceived \/ JobRequests \/ PrinterChanges
         \/ UNCHANGED jobVars
<1> USE DEF jobVars, cacheVars
<1>1. CASE Start \/ Step \/ FcmInit \/ StepFails \/ Wait \/ ListenerEnds
  BY <1>1 DEF Start, Step, FcmInit, StepFails, Wait, ListenerEnds
<1>2. CASE Signal \/ Panic
  BY <1>2 DEF Signal, Panic, ProcessEnds
<1>3. CASE Shutdown
  BY <1>3 DEF Shutdown, QuitMonitor, QuitPart, Returns, ProcessEnds
<1>4. CASE Loop \/ Acceptor \/ Client \/ AcceptFails
  BY <1>4 DEF Loop, Stats, MonitorCloses, Acceptor, Accept, Closed, Hand, Acknowledge, Client, AcceptFails
<1>5. CASE FcmRuns \/ JobsRun \/ LogRuns
  BY <1>5 DEF FcmRuns, JobsRun, LogRuns
<1>6. CASE UNCHANGED vars
  BY <1>6 DEF vars
<1>7. QED
  BY <1>1, <1>2, <1>3, <1>4, <1>5, <1>6 DEF Next

\* What it is for the log files.
LEMMA NextLogs ==
  ASSUME [Next]_vars
  PROVE  LogsEnd \/ LogSteps \/ Write \/ WriteFails \/ UNCHANGED logVars
<1>1. CASE Start \/ Step \/ FcmInit \/ StepFails \/ Wait \/ ListenerEnds
  BY <1>1 DEF Start, Step, FcmInit, StepFails, Wait, ListenerEnds
<1>2. CASE Signal \/ Panic
  BY <1>2 DEF Signal, Panic, ProcessEnds
<1>3. CASE Shutdown
  BY <1>3 DEF Shutdown, QuitMonitor, QuitPart, Returns, ProcessEnds
<1>4. CASE Loop \/ Acceptor \/ Client \/ AcceptFails
  BY <1>4 DEF Loop, Stats, MonitorCloses, Acceptor, Accept, Closed, Hand, Acknowledge, Client, AcceptFails
<1>5. CASE FcmRuns \/ JobsRun \/ LogRuns
  BY <1>5 DEF FcmRuns, JobsRun, LogRuns
<1>6. CASE UNCHANGED vars
  BY <1>6 DEF vars
<1>7. QED
  BY <1>1, <1>2, <1>3, <1>4, <1>5, <1>6 DEF Next

\* The end of a process frees the monitor, and leaves the socket as it is.
LEMMA ProcessEndsMonitor ==
  ASSUME MonitorInv, ProcessEnds, socket => abrupt'
  PROVE  MonitorInv'
  BY DEF ProcessEnds, MonitorInv, SocketFreed

LEMMA StepMonitorInv ==
  ASSUME MonitorInv, Step
  PROVE  MonitorInv'
<1> DEFINE step == Head(todo)
<1>1. /\ deferred' = IF Defers(step) THEN <<step>> \o deferred ELSE deferred
      /\ IF step = "monitor"
         THEN socket' = TRUE /\ loop' = "select" /\ acceptor' = "accept" /\ waiting' = 0
         ELSE UNCHANGED monitorVars
      /\ UNCHANGED abrupt
  BY DEF Step
<1> HIDE DEF step
<1>2. deferred' \in Seq(Deferrable)
  <2>1. CASE Defers(step)
    <3>1. step \in Deferrable
      BY <2>1 DEF Defers, Deferrable
    <3> HIDE DEF Deferrable
    <3>2. <<step>> \in Seq(Deferrable)
      BY <3>1
    <3>3. QED
      BY <1>1, <2>1, <3>2 DEF MonitorInv
  <2>2. QED
    BY <1>1, <2>1 DEF MonitorInv
<1>3. CASE step = "monitor"
  <2>1. Len(deferred') >= 1 /\ deferred'[1] = "monitor"
    BY <1>1, <1>3 DEF Defers, MonitorInv
  <2>2. \E k \in 1 .. Len(deferred') : deferred'[k] = "monitor"
    BY <1>2, <2>1
  <2>3. QED
    BY <1>1, <1>2, <1>3, <2>2 DEF MonitorInv, SocketFreed
<1>4. CASE step # "monitor"
  <2>1. ASSUME NEW k \in 1 .. Len(deferred), deferred[k] = "monitor"
        PROVE  \E l \in 1 .. Len(deferred') : deferred'[l] = "monitor"
    <3>1. CASE ~Defers(step)
      BY <1>1, <2>1, <3>1
    <3>2. CASE Defers(step)
      <4>1. Len(deferred') = Len(deferred) + 1 /\ deferred'[k + 1] = deferred[k]
        BY <1>1, <3>2 DEF MonitorInv, Defers, Deferrable
      <4>2. k + 1 \in 1 .. Len(deferred')
        BY <4>1
      <4>3. QED
        BY <2>1, <4>1, <4>2
    <3>3. QED
      BY <3>1, <3>2
  <2>2. QED
    BY <1>1, <1>2, <1>4, <2>1 DEF MonitorInv, SocketFreed
<1>5. QED
  BY <1>3, <1>4

LEMMA ShutdownMonitorInv ==
  ASSUME MonitorInv, Shutdown
  PROVE  MonitorInv'
<1>1. deferred # <<>> => /\ Tail(deferred) \in Seq(Deferrable) /\ Len(deferred) \in Nat
                         /\ Len(Tail(deferred)) = Len(deferred) - 1
                         /\ Head(deferred) = deferred[1]
                         /\ \A k \in 1 .. Len(Tail(deferred)) : Tail(deferred)[k] = deferred[k + 1]
  BY DEF MonitorInv
<1>2. CASE QuitMonitor
  <2>1. deferred' \in Seq(Deferrable)
    BY <1>1, <1>2 DEF QuitMonitor, MonitorInv
  <2>2. CASE loop = "select" /\ loop' = "close" /\ UNCHANGED deferred
    BY <1>2, <2>2 DEF QuitMonitor, MonitorInv, SocketFreed
  <2>3. CASE loop = "acked" /\ loop' = "ended"
    BY <1>2, <2>1, <2>3 DEF QuitMonitor, MonitorInv, SocketFreed
  <2>4. QED
    BY <1>2, <2>2, <2>3 DEF QuitMonitor
<1>3. CASE QuitPart
  <2>1. /\ deferred # <<>> /\ Head(deferred) # "monitor" /\ deferred' = Tail(deferred)
        /\ UNCHANGED <<monitorVars, abrupt>>
    BY <1>3 DEF QuitPart
  <2>2. ASSUME NEW k \in 1 .. Len(deferred), deferred[k] = "monitor"
        PROVE  \E l \in 1 .. Len(deferred') : deferred'[l] = "monitor"
    <3>1. k # 1
      BY <1>1, <2>1, <2>2
    <3>2. k - 1 \in 1 .. Len(deferred') /\ (k - 1) + 1 = k
      BY <1>1, <2>1, <3>1
    <3>3. deferred'[k - 1] = deferred[k]
      BY <1>1, <2>1, <3>2
    <3>4. QED
      BY <2>2, <3>2, <3>3
  <2>3. QED
    BY <1>1, <2>1, <2>2 DEF MonitorInv, SocketFreed
<1>4. CASE Returns
  <2>1. loop \in {"off", "ended"}
    BY <1>4 DEF Returns, MonitorInv
  <2>2. QED
    BY <1>4, <2>1, ProcessEndsMonitor DEF Returns, MonitorInv, SocketFreed
<1>5. QED
  BY <1>2, <1>3, <1>4 DEF Shutdown

LEMMA MonitorInvStep ==
  ASSUME MonitorInv, [Next]_vars
  PROVE  MonitorInv'
<1>1. CASE Start \/ FcmInit \/ StepFails \/ Wait \/ ListenerEnds
  BY <1>1 DEF Start, FcmInit, StepFails, Wait, ListenerEnds, MonitorInv, SocketFreed
<1>2. CASE Signal \/ Panic
  <2>1. \/ ProcessEnds /\ abrupt' = TRUE
        \/ UNCHANGED <<deferred, socket, loop, abrupt>>
    BY <1>2 DEF Signal, Panic
  <2>2. QED
    BY <2>1, ProcessEndsMonitor DEF MonitorInv, SocketFreed
<1>3. CASE Loop \/ Client \/ AcceptFails
  BY <1>3 DEF Loop, Stats, MonitorCloses, Client, AcceptFails, MonitorInv, SocketFreed
<1>4. CASE Acceptor
  BY <1>4 DEF Acceptor, Accept, Closed, Hand, Acknowledge, MonitorInv, SocketFreed
<1>5. CASE FcmRuns \/ JobsRun \/ LogRuns \/ UNCHANGED vars
  BY <1>5 DEF FcmRuns, JobsRun, LogRuns, vars, MonitorInv, SocketFreed
<1>6. QED
  BY <1>1, <1>2, <1>3, <1>4, <1>5, StepMonitorInv, ShutdownMonitorInv DEF Next

LEMMA InitInv ==
  ASSUME Init
  PROVE  FcmInv /\ JobsInv /\ LogsInv /\ MonitorInv
<1>1. FcmInv
  BY DEF Init, FcmOff, FcmInv, Pending
<1>2. JobsInv
  <2>1. JobsTypeOK
    BY DEF Init, JobsOff, JobsTypeOK, NoJob, NoReq, JobState
  <2>2. EntriesExact
    BY JobIdsNat DEF Init, JobsOff, EntriesExact, NoJob
  <2>3. ChannelExact /\ FilesExact
    BY DEF Init, JobsOff, ChannelExact, FilesExact, NoReq
  <2>4. QED
    BY <2>1, <2>2, <2>3 DEF JobsInv
<1>3. LogsInv
  <2>1. Held = {} /\ \A p \in Places : disk[p] = 0
    BY DEF Init, LogsOff, Held, There
  <2>2. Cardinality(Held) = 0
    BY <2>1, FS_EmptySet
  <2>3. LogsTypeOK
    <3>1. /\ disk = [p \in Places |-> 0] /\ newest = 0 /\ open = FALSE
          /\ roller = "idle" /\ pending = {}
      BY DEF Init, LogsOff
    <3>2. disk \in [Places -> Nat] /\ newest \in Nat /\ open \in BOOLEAN
      BY <3>1
    <3>3. \A p \in Places : disk[p] <= newest
      BY <2>1, <3>1
    <3>4. QED
      BY <3>1, <3>2, <3>3 DEF LogsTypeOK
  <2>4. Ordered /\ NoGap
    BY <2>1 DEF Init, LogsOff, Ordered, NoGap, There
  <2>5. Rolling
    BY DEF Init, LogsOff, Rolling
  <2>6. Counted
    BY <2>2, LogBounds DEF Init, LogsOff, Counted
  <2>7. QED
    BY <2>3, <2>4, <2>5, <2>6 DEF LogsInv
<1>4. MonitorInv
  BY DEF Init, MonitorInv, SocketFreed
<1>5. QED
  BY <1>1, <1>2, <1>3, <1>4

-----------------------------------------------------------------------------
(* The theorems *)

\* The four invariants hold of every behaviour.
THEOREM InvariantHolds == Spec => [](FcmInv /\ JobsInv /\ LogsInv /\ MonitorInv)
<1>1. FcmInv /\ [Next]_vars => FcmInv'
  BY NextFcm, FcmInvStep
<1>2. JobsInv /\ [Next]_vars => JobsInv'
  BY NextJobs, JobsInvStep
<1>3. LogsInv /\ [Next]_vars => LogsInv'
  BY NextLogs, LogsInvStep
<1>4. MonitorInv /\ [Next]_vars => MonitorInv'
  BY MonitorInvStep
<1>5. Init => FcmInv /\ JobsInv /\ LogsInv /\ MonitorInv
  BY InitInv
<1>6. QED
  BY <1>1, <1>2, <1>3, <1>4, <1>5, PTL DEF Spec

\* However many connections the client makes, and whatever they end with: no
\* reader is left while it connects, and while it waits there is exactly one
\* connection whose end it will be told of, or the one that was refused.
\* (fcm.ConnectToFcm, KeepFcmAlive.)
THEOREM OneConnection == Spec => []FcmWatched
<1>1. FcmInv => FcmWatched
  BY FcmInvWatched
<1>2. QED
  BY <1>1, InvariantHolds, PTL

\* The temporary files on the disk are those of the requests that still need
\* theirs.  (privet-api, printermanager.)
THEOREM FilesMatch == Spec => []FilesExact
<1>1. JobsInv => FilesExact
  BY DEF JobsInv
<1>2. QED
  BY <1>1, InvariantHolds, PTL

\* An entry of the cache has its timer, whatever updates come late, and a job
\* is known for as long as its client was told.  (jobcache.)
THEOREM CacheKeepsPromise == Spec => []CacheExact
<1>1. JobsInv => CacheExact
  BY JobsInvExact
<1>2. QED
  BY <1>1, InvariantHolds, PTL

\* Wherever a roll of the log files is cut short, by a failing system call or
\* by the end of the process, and however often: the newest MaxFiles logs are
\* there, in order, and no more than MaxFiles are rolled ones.  (LogRoller.roll.)
THEOREM RollsKeepLogs == Spec => []LogsKept
<1>1. LogsInv => LogsKept
  BY LogsInvKept
<1>2. QED
  BY <1>1, InvariantHolds, PTL

\* The socket outlives the monitor only where a process has ended without its
\* deferred calls.  (connector, Monitor.Quit.)
THEOREM SocketNotLeft == Spec => []SocketFreed
<1>1. MonitorInv => SocketFreed
  BY DEF MonitorInv
<1>2. QED
  BY <1>1, InvariantHolds, PTL
=============================================================================
