-------------------------------- MODULE Cups --------------------------------
(***************************************************************************)
(* The CUPS client (cups/): the connection pool of cupsCore, the cache of  *)
(* PPDs, and the calls that use them.  GetPrinters asks for the printers   *)
(* and then fetches the PPD of each in a goroutine of its own; print jobs  *)
(* ask for job states at the same time; Quit empties the cache.            *)
(*                                                                         *)
(* The caller of GetPrinters is the one goroutine that syncs the printers; *)
(* it removes the cached PPD of each printer that is gone.  libcups, the   *)
(* print server and its PPDs are the environment.                          *)
(***************************************************************************)
EXTENDS Naturals, FiniteSets

CONSTANTS
  Names,           \* printers, each with the goroutine that fetches its PPD
  Jobs,            \* goroutines that print and poll a job's state
  Syncer,          \* the goroutine that calls GetPrinters
  MaxConnections,  \* size of the connection semaphore
  Handles,         \* bound: connections that exist at one time
  Entries,         \* bound: cache entries that exist at one time
  MaxChanges,      \* bound: changes of the print server
  Configs          \* whether the print server is local, and the bounds of each
                   \* instance: its names, jobs, changes and failures

ASSUME ConstantsAssumption ==
  /\ IsFiniteSet(Names) /\ IsFiniteSet(Jobs) /\ Names \cap Jobs = {}
  /\ Syncer \notin Names \cup Jobs
  /\ MaxConnections \in Nat \ {0}
  /\ 0 \notin Handles \cup Entries
  /\ MaxChanges \in Nat
  /\ \A c \in Configs :
       /\ c.local \in BOOLEAN /\ c.names \subseteq Names /\ c.jobs \subseteq Jobs
       /\ c.changes \in 0 .. MaxChanges /\ c.faults \in Nat

Users == Names \cup Jobs \cup {Syncer}
None  == 0
Versions == 1 .. MaxChanges + 1

VARIABLES
  config,       \* .local: cupsCore.config, PPDs are read without a connection;
                \* bounds: .names, .jobs, .changes, .faults
  sem,          \* connectionSemaphore
  handle,       \* each http_t: unused, "held" by a call, offered by a goroutine
                \* that is about to ("offered") or does wait ("pooled") to send it
  nil,          \* the http_t is NULL
  started,      \* NewCUPS has returned
  at,           \* the next step of each goroutine
  held,         \* the connection of the call each goroutine is in
  cache,        \* ppdCache.cache
  entry,        \* every ppdCacheEntry
  get,          \* local variables of getPPDCacheEntry for each printer
  found,        \* printers of the last response
  known,        \* printers the manager knows
  mapLock,      \* cacheMutex, held over several steps by quit only
  quitting,     \* CUPS.Quit: "no", "frees", "done"
  crashed,      \* the Go runtime has found a concurrent use of the map
  server,       \* the print server: [version of each PPD, those it can parse, printers]
  changes, faults

poolVars  == <<sem, handle, nil, held>>
cacheVars == <<cache, entry, mapLock>>
mainVars  == <<started, found, known, quitting, crashed>>
envVars   == <<server, changes, faults, config>>
vars == <<poolVars, at, cacheVars, get, mainVars, envVars>>

PPDEntry == [freed : BOOLEAN, modtime : {0} \cup Versions,
             description : {0} \cup Versions, lock : BOOLEAN]
Fetch == [entry : Entries \cup {None}, new : BOOLEAN,
          since : {0} \cup Versions, answer : {0} \cup Versions]

TypeOK ==
  /\ config \in Configs /\ started \in BOOLEAN
  /\ sem \in 0 .. MaxConnections
  /\ handle \in [Handles -> {"none", "held", "offered", "pooled"}]
  /\ nil \in [Handles -> BOOLEAN]
  /\ at \in [Users -> {"idle", "lookup", "refresh", "acquire", "connect", "call",
                       "store", "fields", "drop", "dropping", "free", "wait", "apply", "end"}]
  /\ held \in [Users -> Handles \cup {None}]
  /\ cache \in [Names -> Entries \cup {None}]
  /\ entry \in [Entries -> PPDEntry]
  /\ get \in [Names -> Fetch]
  /\ found \subseteq Names /\ known \subseteq Names
  /\ mapLock \in BOOLEAN /\ crashed \in BOOLEAN
  /\ quitting \in {"no", "frees", "done"}
  /\ server \in [version : [Names -> Versions], broken : SUBSET Names, printers : SUBSET Names]
  /\ {changes, faults} \subseteq Nat

NoFetch == [entry |-> None, new |-> FALSE, since |-> 0, answer |-> 0]
NoEntry == [freed |-> TRUE, modtime |-> 0, description |-> 0, lock |-> FALSE]

\* ppdCacheEntry.free, under the entry's mutex.
Freed(e) == [entry EXCEPT ![e].freed = TRUE]

\* newCUPSCore begins with a connection that is only tried.
Init ==
  /\ config \in Configs /\ started = FALSE
  /\ sem = 0 /\ handle = [h \in Handles |-> "none"] /\ nil = [h \in Handles |-> FALSE]
  /\ at = [u \in Users |-> IF u = Syncer THEN "acquire" ELSE "idle"]
  /\ held = [u \in Users |-> None]
  /\ cache = [n \in Names |-> None] /\ entry = [e \in Entries |-> NoEntry]
  /\ get = [n \in Names |-> NoFetch]
  /\ found = {} /\ known = {} /\ mapLock = FALSE /\ quitting = "no" /\ crashed = FALSE
  /\ server = [version |-> [n \in Names |-> 1], broken |-> {}, printers |-> config.names]
  /\ changes = 0 /\ faults = 0

Fault   == faults < config.faults /\ faults' = faults + 1
NoFault == UNCHANGED faults

Goto(u, to) == at' = [at EXCEPT ![u] = to]
-----------------------------------------------------------------------------
(* connect and disconnect *)

\* disconnect: a goroutine offers the connection, and the semaphore is released.
Disconnect(u, h) ==
  /\ handle' = [handle EXCEPT ![h] = "offered"]
  /\ held' = [held EXCEPT ![u] = None]
  /\ sem' = sem - 1

Acquire(u) ==
  /\ at[u] = "acquire" /\ sem < MaxConnections
  /\ sem' = sem + 1 /\ Goto(u, "connect")
  /\ UNCHANGED <<handle, nil, held, cacheVars, get, mainVars, envVars>>

\* A connection whose goroutine waits is taken; nobody looks whether it is nil.
Reuse(u) ==
  /\ at[u] = "connect"
  /\ \E h \in Handles :
       /\ handle[h] = "pooled"
       /\ handle' = [handle EXCEPT ![h] = "held"] /\ held' = [held EXCEPT ![u] = h]
  /\ Goto(u, "call")
  /\ UNCHANGED <<sem, nil, cacheVars, get, mainVars, envVars>>

\* httpConnect2 makes a connection: there is none in the pool.  (h is the first
\* that is unused: which one it is makes no difference.)
Dials(u, h) ==
  /\ at[u] = "connect" /\ \E g \in Handles : handle[g] = "none"
  /\ h = CHOOSE g \in Handles : handle[g] = "none"
  /\ \A g \in Handles : handle[g] # "pooled"

Dial(u, h) ==
  /\ Dials(u, h)
  /\ handle' = [handle EXCEPT ![h] = "held"] /\ UNCHANGED nil
  /\ held' = [held EXCEPT ![u] = h] /\ Goto(u, "call")
  /\ UNCHANGED <<sem, cacheVars, get, mainVars, envVars>>

\* What a goroutine does with an error of the call it is in.
Fails(u) == IF u \in Names THEN IF get[u].new THEN "free" ELSE "drop"
            ELSE IF u = Syncer /\ ~started THEN "end" ELSE "idle"

\* The mutex of the entry is released when refresh returns.
Unlocked(u) ==
  entry' = IF u \in Names THEN [entry EXCEPT ![get[u].entry].lock = FALSE] ELSE entry

\* Seeded fault: nothing is released.
DialFails_Keeps(u, h) ==
  /\ Dials(u, h) /\ Fault
  /\ Goto(u, Fails(u)) /\ Unlocked(u)
  /\ UNCHANGED <<poolVars, cache, mapLock, get, mainVars, server, changes, config>>

\* The nil connection goes the way of the others.
DialFails(u, h) ==
  /\ Dials(u, h) /\ Fault
  /\ nil' = [nil EXCEPT ![h] = TRUE] /\ Disconnect(u, h)
  /\ Goto(u, Fails(u)) /\ Unlocked(u)
  /\ UNCHANGED <<cache, mapLock, get, mainVars, server, changes, config>>

\* The goroutine of disconnect waits for a second, then closes.
OfferWaits(h) ==
  /\ handle[h] = "offered" /\ handle' = [handle EXCEPT ![h] = "pooled"]
  /\ UNCHANGED <<sem, nil, held, at, cacheVars, get, mainVars, envVars>>

OfferEnds(h) ==
  /\ handle[h] = "pooled" /\ handle' = [handle EXCEPT ![h] = "none"]
  /\ nil' = [nil EXCEPT ![h] = FALSE]
  /\ UNCHANGED <<sem, held, at, cacheVars, get, mainVars, envVars>>

\* Seeded fault: the connection is offered before the call has ended.
Return_StillHeld(u) ==
  IF held[u] = None THEN UNCHANGED poolVars
  ELSE /\ handle' = [handle EXCEPT ![held[u]] = "offered"]
       /\ sem' = sem - 1 /\ UNCHANGED <<nil, held>>

\* The deferred disconnect of a call, when it has a connection.
Return(u) ==
  IF held[u] = None THEN UNCHANGED poolVars
  ELSE Disconnect(u, held[u]) /\ UNCHANGED nil

Connection(u) ==
  Acquire(u) \/ Reuse(u) \/ (\E h \in Handles : Dial(u, h) \/ DialFails(u, h))
-----------------------------------------------------------------------------
(* printFile and getJobAttributes *)

JobCalls(j) ==
  /\ j \in config.jobs /\ at[j] = "idle" /\ started /\ Goto(j, "acquire")
  /\ UNCHANGED <<poolVars, cacheVars, get, mainVars, envVars>>

JobReturns(j) ==
  /\ at[j] = "call" /\ Return(j) /\ Goto(j, "idle")
  /\ UNCHANGED <<cacheVars, get, mainVars, envVars>>
-----------------------------------------------------------------------------
(* getPPDCacheEntry *)

\* A map access excludes the others, which all take cacheMutex: an access while
\* another goroutine is in the unlocked delete ends the process, if it is seen.
Clash(n) == \E m \in Names \ {n} : at[m] = "dropping"
Access   == crashed' \in BOOLEAN

\* createPPDCacheEntry takes any entry that nobody uses.
Unused ==
  {e \in Entries : entry[e].freed /\ \A m \in Names : get[m].entry # e /\ cache[m] # e}

Lookup(n) ==
  /\ at[n] = "lookup" /\ ~mapLock
  /\ IF cache[n] = None
     THEN \E e \in Entries :
            /\ Unused # {} /\ e = CHOOSE f \in Entries : f \in Unused
            /\ entry' = [entry EXCEPT ![e] = [NoEntry EXCEPT !.freed = FALSE]]
            /\ get' = [get EXCEPT ![n].entry = e, ![n].new = TRUE]
     ELSE /\ get' = [get EXCEPT ![n].entry = cache[n], ![n].new = FALSE]
          /\ UNCHANGED entry
  /\ IF Clash(n) THEN Access ELSE UNCHANGED crashed
  /\ Goto(n, "refresh")
  /\ UNCHANGED <<poolVars, cache, mapLock, started, found, known, quitting, envVars>>

Refresh(n) ==
  /\ at[n] = "refresh" /\ ~entry[get[n].entry].lock
  /\ entry' = [entry EXCEPT ![get[n].entry].lock = TRUE]
  /\ Goto(n, IF config.local THEN "call" ELSE "acquire")
  /\ UNCHANGED <<poolVars, cache, mapLock, get, mainVars, envVars>>

\* cupsGetPPD3: the PPD has not changed, ...
NotModified(n) ==
  /\ at[n] = "call" /\ entry[get[n].entry].modtime = server.version[n]
  /\ Return(n) /\ Unlocked(n) /\ Goto(n, IF get[n].new THEN "store" ELSE "fields")
  /\ UNCHANGED <<cache, mapLock, get, mainVars, envVars>>

\* ... or it is copied to a temporary file, read and translated, ...
Fetched(n) ==
  /\ at[n] = "call" /\ entry[get[n].entry].modtime # server.version[n] /\ n \notin server.broken
  /\ entry' = [entry EXCEPT ![get[n].entry] = [freed |-> @.freed, lock |-> FALSE,
                 modtime |-> server.version[n], description |-> server.version[n]]]
  /\ Return(n) /\ Goto(n, IF get[n].new THEN "store" ELSE "fields")
  /\ UNCHANGED <<cache, mapLock, get, mainVars, envVars>>

\* ... or there is an error: of cupsGetPPD3, or of reading or translating the
\* file, when the entry has the time of the new PPD already.
FetchFails(n) ==
  /\ at[n] = "call" /\ Fault
  /\ Return(n) /\ Unlocked(n) /\ Goto(n, Fails(n))
  /\ UNCHANGED <<cache, mapLock, get, mainVars, server, changes, config>>

\* Seeded fault: the error of the translation is not looked at.
ParseFails_Ignored(n) ==
  /\ at[n] = "call" /\ entry[get[n].entry].modtime # server.version[n]
  /\ (n \in server.broken /\ NoFault) \/ Fault
  /\ entry' = [entry EXCEPT ![get[n].entry].modtime = server.version[n],
                            ![get[n].entry].lock = FALSE]
  /\ Return(n) /\ Goto(n, IF get[n].new THEN "store" ELSE "fields")
  /\ UNCHANGED <<cache, mapLock, get, mainVars, server, changes, config>>

ParseFails(n) ==
  /\ at[n] = "call" /\ entry[get[n].entry].modtime # server.version[n]
  /\ (n \in server.broken /\ NoFault) \/ Fault
  /\ entry' = [entry EXCEPT ![get[n].entry].modtime = server.version[n],
                            ![get[n].entry].lock = FALSE]
  /\ Return(n) /\ Goto(n, Fails(n))
  /\ UNCHANGED <<cache, mapLock, get, mainVars, server, changes, config>>

\* A new entry replaces what another call has stored meanwhile, which is freed
\* in a goroutine of its own: that never waits here, for nobody refreshes it.
Store(n) ==
  /\ at[n] = "store" /\ ~mapLock
  /\ IF Clash(n) THEN Access ELSE UNCHANGED crashed
  /\ entry' = IF cache[n] = None THEN entry ELSE Freed(cache[n])
  /\ cache' = [cache EXCEPT ![n] = get[n].entry]
  /\ get' = [get EXCEPT ![n].answer = entry[get[n].entry].description, ![n].entry = None]
  /\ Goto(n, "idle")
  /\ UNCHANGED <<poolVars, mapLock, started, found, known, quitting, envVars>>

GetFields(n) ==
  /\ at[n] = "fields"
  /\ get' = [get EXCEPT ![n].answer = entry[get[n].entry].description, ![n].entry = None]
  /\ Goto(n, "idle")
  /\ UNCHANGED <<poolVars, cacheVars, mainVars, envVars>>

\* The delete of an entry that could not be refreshed: without cacheMutex.
DropBegins(n) ==
  /\ at[n] = "drop" /\ Goto(n, "dropping")
  /\ IF Clash(n) \/ mapLock THEN Access ELSE UNCHANGED crashed
  /\ UNCHANGED <<poolVars, cacheVars, get, started, found, known, quitting, envVars>>

DropEnds(n) ==
  /\ at[n] = "dropping" /\ Goto(n, "free")
  /\ cache' = [cache EXCEPT ![n] = None]
  /\ UNCHANGED <<poolVars, entry, mapLock, get, mainVars, envVars>>

\* Seeded fault: an entry that was never stored is forgotten.
Free_Forgets(n) ==
  /\ at[n] = "free" /\ ~entry[get[n].entry].lock
  /\ get' = [get EXCEPT ![n].entry = None] /\ Goto(n, "idle")
  /\ entry' = IF get[n].new THEN entry ELSE Freed(get[n].entry)
  /\ UNCHANGED <<poolVars, cache, mapLock, mainVars, envVars>>

Free(n) ==
  /\ at[n] = "free" /\ ~entry[get[n].entry].lock
  /\ entry' = Freed(get[n].entry)
  /\ get' = [get EXCEPT ![n].entry = None] /\ Goto(n, "idle")
  /\ UNCHANGED <<poolVars, cache, mapLock, mainVars, envVars>>

GetPPD(n) ==
  \/ Lookup(n) \/ Refresh(n) \/ NotModified(n) \/ Fetched(n) \/ FetchFails(n)
  \/ ParseFails(n) \/ Store(n) \/ GetFields(n)
  \/ DropBegins(n) \/ DropEnds(n) \/ Free(n)
-----------------------------------------------------------------------------
(* NewCUPS, GetPrinters, RemoveCachedPPD *)

GetPrinters ==
  /\ at[Syncer] = "idle" /\ quitting = "no" /\ Goto(Syncer, "acquire")
  /\ UNCHANGED <<poolVars, cacheVars, get, mainVars, envVars>>

\* The check of newCUPSCore, or the response to GET_PRINTERS: each printer that
\* is not filtered gets a goroutine.
Response ==
  /\ at[Syncer] = "call" /\ Return(Syncer)
  /\ started' = TRUE
  /\ IF ~started THEN Goto(Syncer, "idle") /\ UNCHANGED <<get, found>>
     ELSE /\ found' = server.printers
          /\ at' = [u \in Users |-> IF u = Syncer THEN "wait"
                                    ELSE IF u \in server.printers THEN "lookup" ELSE at[u]]
          /\ get' = [n \in Names |-> IF n \in server.printers
                                     THEN [NoFetch EXCEPT !.since = server.version[n]]
                                     ELSE get[n]]
  /\ UNCHANGED <<cacheVars, known, quitting, crashed, envVars>>

ResponseFails ==
  /\ at[Syncer] = "call" /\ started /\ Fault
  /\ Return(Syncer) /\ Goto(Syncer, "idle")
  /\ UNCHANGED <<cacheVars, get, mainVars, server, changes, config>>

\* Those whose PPD was read are the printers; of the rest of what was known
\* the manager removes the PPD.
Result == {n \in found : get[n].answer # 0}
GetPrintersReturns ==
  /\ at[Syncer] = "wait" /\ \A n \in Names : at[n] = "idle"
  /\ Goto(Syncer, "apply")
  /\ UNCHANGED <<poolVars, cacheVars, get, mainVars, envVars>>

\* Seeded fault: the entry is freed and left in the map.
RemovePPD_Stays(n) ==
  /\ at[Syncer] = "apply" /\ n \in known \ Result /\ ~mapLock
  /\ known' = known \ {n}
  /\ IF cache[n] = None THEN UNCHANGED entry
     ELSE /\ ~entry[cache[n]].lock
          /\ entry' = Freed(cache[n])
  /\ UNCHANGED <<poolVars, at, cache, mapLock, get, started, found, quitting, crashed, envVars>>

RemovePPD(n) ==
  /\ at[Syncer] = "apply" /\ n \in known \ Result /\ ~mapLock
  /\ known' = known \ {n}
  /\ IF cache[n] = None THEN UNCHANGED <<cache, entry>>
     ELSE /\ ~entry[cache[n]].lock
          /\ entry' = Freed(cache[n])
          /\ cache' = [cache EXCEPT ![n] = None]
  /\ UNCHANGED <<poolVars, at, mapLock, get, started, found, quitting, crashed, envVars>>

SyncEnds ==
  /\ at[Syncer] = "apply" /\ known \subseteq Result
  /\ known' = Result /\ Goto(Syncer, "idle")
  /\ get' = [n \in Names |-> NoFetch] /\ found' = {}
  /\ UNCHANGED <<poolVars, cacheVars, started, quitting, crashed, envVars>>

Sync == GetPrinters \/ Response \/ ResponseFails \/ GetPrintersReturns
        \/ (\E n \in Names : RemovePPD(n)) \/ SyncEnds
-----------------------------------------------------------------------------
(* Quit *)

QuitStarts ==
  /\ quitting = "no" /\ started /\ ~mapLock
  /\ quitting' = "frees" /\ mapLock' = TRUE
  /\ IF Clash(Syncer) THEN Access ELSE UNCHANGED crashed
  /\ UNCHANGED <<poolVars, at, cache, entry, get, started, found, known, envVars>>

QuitFrees(n) ==
  /\ quitting = "frees" /\ cache[n] # None /\ ~entry[cache[n]].lock
  /\ IF Clash(Syncer) THEN Access ELSE UNCHANGED crashed
  /\ entry' = Freed(cache[n])
  /\ cache' = [cache EXCEPT ![n] = None]
  /\ UNCHANGED <<poolVars, at, mapLock, get, started, found, known, quitting, envVars>>

QuitEnds ==
  /\ quitting = "frees" /\ \A n \in Names : cache[n] = None
  /\ quitting' = "done" /\ mapLock' = FALSE
  /\ UNCHANGED <<poolVars, at, cache, entry, get, started, found, known, crashed, envVars>>
-----------------------------------------------------------------------------
(* The print server *)

ServerChanges(n) ==
  /\ n \in config.names /\ changes < config.changes /\ changes' = changes + 1
  /\ \/ server' = [server EXCEPT !.version[n] = @ + 1, !.broken = @ \ {n}]
     \/ server' = [server EXCEPT !.version[n] = @ + 1, !.broken = @ \cup {n}]
     \/ server' = [server EXCEPT !.printers = IF n \in @ THEN @ \ {n} ELSE @ \cup {n}]
  /\ UNCHANGED <<poolVars, at, cacheVars, get, mainVars, faults, config>>
-----------------------------------------------------------------------------
\* The process ends soon after Quit.
Running == ~crashed /\ quitting # "done"

Next ==
  /\ Running
  /\ \/ \E u \in Users : Connection(u)
     \/ \E h \in Handles : OfferWaits(h) \/ OfferEnds(h)
     \/ \E j \in Jobs : JobCalls(j) \/ JobReturns(j)
     \/ \E n \in Names : GetPPD(n) \/ QuitFrees(n) \/ ServerChanges(n)
     \/ Sync \/ QuitStarts \/ QuitEnds

Spec == Init /\ [][Next]_vars

\* The goroutines run, and those that wait for the semaphore are served in
\* turn; rounds, jobs and the server need not go on.
Step(u) ==
  \/ Connection(u)
  \/ u \in Jobs /\ JobReturns(u)
  \/ u \in Names /\ GetPPD(u)
  \/ u = Syncer /\ at[u] # "idle" /\ Sync
Quit == QuitEnds \/ \E n \in Names : QuitFrees(n)
Offers == \E h \in Handles : OfferWaits(h) \/ OfferEnds(h)

Fairness ==
  /\ WF_vars(Running /\ Quit) /\ WF_vars(Running /\ Offers)
  /\ \A u \in Users : WF_vars(Running /\ Step(u)) /\ SF_vars(Running /\ Acquire(u))

FairSpec == Spec /\ Fairness
-----------------------------------------------------------------------------
(* Properties *)

Connected(u) == at[u] = "connect" \/ held[u] # None

\* The semaphore counts the calls that have a connection or are getting one
\* (not the connections that are open: see ConnectionsLimited), and a
\* connection is used by one call at a time and never offered or closed while
\* it is.  (connect and disconnect.)
PoolExact ==
  /\ sem = Cardinality({u \in Users : Connected(u)})
  /\ \A h \in Handles : handle[h] = "held" <=> \E u \in Users : held[u] = h
  /\ \A u, v \in Users : u # v /\ held[u] # None => held[u] # held[v]
  /\ \A u \in Users : at[u] = "call" => held[u] # None \/ (config.local /\ u \in Names)

\* cupsCore says of connectionSemaphore that it "limits the quantity of open
\* CUPS connections": no more than MaxConnections are open at a time.
Open(h) == handle[h] # "none" /\ ~nil[h]
ConnectionsLimited == Cardinality({h \in Handles : Open(h)}) <= MaxConnections

Uses(n, e) == get[n].entry = e /\ at[n] \notin {"idle", "lookup"}

\* No entry of the cache that a lookup may find, and no entry a goroutine
\* works with, has been freed, as long as the connector runs.
EntriesAlive ==
  quitting = "no" =>
    \A e \in Entries : (\E n \in Names : cache[n] = e \/ Uses(n, e)) => ~entry[e].freed

\* An entry that is not freed is still in the cache or in use.
NothingLeaked ==
  \A e \in Entries : ~entry[e].freed => \E n \in Names : cache[n] = e \/ Uses(n, e)

\* The description GetPrinters adds to a printer is not older than the PPD the
\* print server had when it was asked, whatever failed before.
Fresh == \A n \in Names : get[n].answer # 0 => get[n].answer >= get[n].since

\* Every call ends, GetPrinters with the fetches it waits for: nobody waits for
\* ever for a connection or a lock.
CallsEnd ==
  \A u \in Jobs \cup {Syncer} : at[u] # "idle" ~> at[u] \in {"idle", "end"} \/ ~Running
=============================================================================
