---------------------------- MODULE Cups_proofs ----------------------------
(***************************************************************************)
(* Theorems about Cups, for any printers, jobs, numbers of connections and *)
(* cache entries, and lengths of a behaviour.                              *)
(***************************************************************************)
EXTENDS Cups, Integers, FiniteSetTheorems, TLAPS

-----------------------------------------------------------------------------
(* The inductive invariant *)

\* Where each kind of goroutine can be; there are fetches only while
\* getPrinters waits for them.
PlacesOK ==
  /\ \A n \in Names : at[n] \in {"idle", "lookup", "refresh", "acquire", "connect", "call",
                                 "store", "fields", "drop", "dropping", "free"}
  /\ \A j \in Jobs : at[j] \in {"idle", "acquire", "connect", "call"}
  /\ at[Syncer] \in {"idle", "acquire", "connect", "call", "wait", "apply", "end"}
  /\ at[Syncer] # "wait" => \A n \in Names : at[n] = "idle"

\* A connection is held by a call.
PoolInv == PoolExact /\ \A u \in Users : held[u] # None => at[u] = "call"

VersionsBounded ==
  changes <= config.changes /\ \A n \in Names : server.version[n] <= changes + 1

\* An entry is that of one printer, in the cache or with the goroutine.
OneOwner ==
  \A m, n \in Names :
    /\ cache[m] # None /\ cache[m] = cache[n] => m = n
    /\ get[m].entry # None /\ get[m].entry = get[n].entry => m = n
    /\ get[m].entry # None /\ get[m].entry = cache[n] => m = n /\ ~get[m].new

\* EntriesAlive and NothingLeaked, where using an entry is having it.
Alive ==
  quitting = "no" =>
    \A n \in Names : /\ cache[n] # None => ~entry[cache[n]].freed
                     /\ get[n].entry # None => ~entry[get[n].entry].freed
Kept ==
  \A e \in Entries : ~entry[e].freed => \E n \in Names : cache[n] = e \/ get[n].entry = e

Fetching == {"refresh", "acquire", "connect", "call"}

\* A goroutine has an entry from its lookup on.  A new one is not in the cache;
\* any other is, until the goroutine or a Quit removes it.
Own(n) ==
  LET e == get[n].entry
  IN  /\ e = None <=> at[n] \in {"idle", "lookup"}
      /\ e # None /\ get[n].new => cache[n] = None
      /\ e # None /\ ~get[n].new =>
           \/ cache[n] = e
           \/ cache[n] = None /\ (entry[e].freed \/ at[n] = "free")
      /\ at[n] = "store" => get[n].new
      /\ at[n] \in {"fields", "drop", "dropping"} => ~get[n].new
      /\ at[n] = "free" => cache[n] = None

\* The description of an entry is that of its modification time, except in an
\* entry that is about to be dropped.
Sound(n) ==
  LET e == get[n].entry
  IN  /\ get[n].since <= server.version[n]
      /\ at[n] \in Fetching \cup {"store", "fields"} => entry[e].description = entry[e].modtime
      /\ at[n] \in {"store", "fields"} => entry[e].description >= get[n].since
      /\ cache[n] # None /\ at[n] \notin {"drop", "dropping"} =>
           entry[cache[n]].description = entry[cache[n]].modtime
      /\ get[n].answer # 0 => get[n].answer >= get[n].since

EntryInv == OneOwner /\ Alive /\ Kept /\ \A n \in Names : Own(n) /\ Sound(n)

IInv == TypeOK /\ PlacesOK /\ PoolInv /\ VersionsBounded /\ EntryInv

-----------------------------------------------------------------------------
(* The connection pool *)

USE DEF poolVars, cacheVars, mainVars, envVars

NamePlaces == {"idle", "lookup", "refresh", "acquire", "connect", "call",
               "store", "fields", "drop", "dropping", "free"}
JobPlaces  == {"idle", "acquire", "connect", "call"}
SyncPlaces == {"idle", "acquire", "connect", "call", "wait", "apply", "end"}

AtTypes == at \in [Users -> NamePlaces \cup SyncPlaces]

PoolTypes ==
  /\ sem \in 0 .. MaxConnections
  /\ handle \in [Handles -> {"none", "held", "offered", "pooled"}]
  /\ nil \in [Handles -> BOOLEAN]
  /\ held \in [Users -> Handles \cup {None}]

\* The calls the semaphore counts.
Counted == {u \in Users : Connected(u)}

LEMMA CountedFinite ==
  /\ IsFiniteSet(Users) /\ IsFiniteSet(Counted) /\ Cardinality(Counted) \in Nat
  /\ \A u \in Counted : /\ Cardinality(Counted \ {u}) = Cardinality(Counted) - 1
                        /\ Cardinality(Counted) > 0
  /\ \A u \in Users \ Counted : Cardinality(Counted \cup {u}) = Cardinality(Counted) + 1
<1>1. IsFiniteSet(Users)
  BY ConstantsAssumption, FS_Union, FS_Singleton DEF Users
<1>2. IsFiniteSet(Counted) /\ Cardinality(Counted) \in Nat
  BY <1>1, FS_Subset, FS_CardinalityType DEF Counted
<1>3. ASSUME NEW u \in Counted
      PROVE  Cardinality(Counted \ {u}) = Cardinality(Counted) - 1 /\ Cardinality(Counted) > 0
  <2>1. Cardinality(Counted) # 0
    BY <1>2, FS_EmptySet
  <2>2. QED
    BY <1>2, <2>1, FS_RemoveElement
<1>4. \A u \in Users \ Counted : Cardinality(Counted \cup {u}) = Cardinality(Counted) + 1
  BY <1>2, FS_AddElement
<1>5. QED
  BY <1>1, <1>2, <1>3, <1>4

Connects == {"connect", "call"}

\* A step of goroutines that neither get a connection nor have one, but for the
\* fetches from a local print server, which need none.
LEMMA PoolStays ==
  ASSUME PoolTypes, PoolInv, UNCHANGED <<poolVars, config>>,
         \A u \in Users : \/ at'[u] = at[u]
                          \/ at[u] \notin Connects /\ at'[u] \notin Connects
                          \/ at[u] \notin Connects /\ at'[u] = "call" /\ config.local /\ u \in Names
  PROVE  PoolTypes' /\ PoolInv'
<1>1. Counted' = Counted
  BY DEF Counted, Connected, Connects
<1>2. QED
  BY <1>1 DEF PoolTypes, PoolInv, PoolExact, Counted, Connects

LEMMA PoolAcquires ==
  ASSUME PoolTypes, PoolInv, AtTypes, NEW u \in Users, Acquire(u)
  PROVE  PoolTypes' /\ PoolInv'
<1>1. /\ at[u] = "acquire" /\ at'[u] = "connect" /\ \A v \in Users : v # u => at'[v] = at[v]
      /\ sem < MaxConnections /\ sem' = sem + 1 /\ UNCHANGED <<handle, nil, held, config>>
  BY DEF Acquire, Goto, AtTypes
<1>2. held[u] = None /\ u \notin Counted
  BY <1>1 DEF PoolInv, Counted, Connected
<1>3. Counted' = Counted \cup {u}
  BY <1>1 DEF Counted, Connected
<1>4. sem' = Cardinality(Counted')
  BY <1>1, <1>2, <1>3, CountedFinite DEF PoolInv, PoolExact, Counted
<1>5. PoolTypes'
  BY <1>1, ConstantsAssumption DEF PoolTypes
<1>6. QED
  BY <1>1, <1>2, <1>4, <1>5 DEF PoolInv, PoolExact, Counted

\* A pooled connection, or a new one, is given to the call that asked.
LEMMA PoolConnects ==
  ASSUME PoolTypes, PoolInv, AtTypes, NEW u \in Users, NEW h \in Handles,
         at[u] = "connect", handle[h] # "held", Goto(u, "call"), UNCHANGED <<sem, nil, config>>,
         handle' = [handle EXCEPT ![h] = "held"], held' = [held EXCEPT ![u] = h]
  PROVE  PoolTypes' /\ PoolInv'
<1>1. /\ at'[u] = "call" /\ (\A v \in Users : v # u => at'[v] = at[v])
      /\ held'[u] = h /\ (\A v \in Users : v # u => held'[v] = held[v])
      /\ handle'[h] = "held" /\ (\A g \in Handles : g # h => handle'[g] = handle[g])
      /\ h # None
  BY ConstantsAssumption DEF Goto, AtTypes, PoolTypes, None
<1>2. PoolTypes'
  BY DEF PoolTypes
<1>3. held[u] = None /\ \A v \in Users : held[v] # h
  BY <1>1 DEF PoolInv, PoolExact
<1>4. Counted' = Counted
  BY <1>1 DEF Counted, Connected
<1>5. \A g \in Handles : handle'[g] = "held" <=> \E v \in Users : held'[v] = g
  <2> SUFFICES ASSUME NEW g \in Handles
               PROVE  handle'[g] = "held" <=> \E v \in Users : held'[v] = g
    OBVIOUS
  <2>1. CASE g = h
    BY <1>1, <2>1
  <2>2. CASE g # h
    <3>1. handle[g] = "held" <=> \E v \in Users : held[v] = g
      BY DEF PoolInv, PoolExact
    <3>2. held[u] # g /\ held'[u] # g
      BY <1>1, <1>3, <2>2, ConstantsAssumption DEF None
    <3>3. QED
      BY <1>1, <2>2, <3>1, <3>2
  <2>3. QED
    BY <2>1, <2>2
<1>6. \A v, w \in Users : v # w /\ held'[v] # None => held'[v] # held'[w]
  BY <1>1, <1>3 DEF PoolInv, PoolExact
<1>7. \A v \in Users : /\ at'[v] = "call" => held'[v] # None \/ (config'.local /\ v \in Names)
                       /\ held'[v] # None => at'[v] = "call"
  BY <1>1 DEF PoolInv, PoolExact
<1>8. sem' = Cardinality(Counted')
  BY <1>4 DEF PoolInv, PoolExact, Counted
<1>9. QED
  BY <1>2, <1>5, <1>6, <1>7, <1>8 DEF PoolInv, PoolExact, Counted

\* A connection that no call holds is offered, waits and is closed.
LEMMA PoolOffers ==
  ASSUME PoolTypes, PoolInv, NEW h \in Handles, NEW to \in {"none", "pooled"},
         handle[h] # "held", handle' = [handle EXCEPT ![h] = to], nil' \in [Handles -> BOOLEAN],
         UNCHANGED <<sem, held, at, config>>
  PROVE  PoolTypes' /\ PoolInv'
<1>1. \A g \in Handles : handle'[g] = "held" <=> handle[g] = "held"
  BY DEF PoolTypes
<1>2. Counted' = Counted
  BY DEF Counted, Connected
<1>3. PoolTypes'
  BY DEF PoolTypes
<1>4. QED
  BY <1>1, <1>2, <1>3 DEF PoolInv, PoolExact, Counted

\* What a goroutine that disconnects leaves behind.
LEMMA PoolDisconnects ==
  ASSUME PoolTypes, PoolInv, NEW u \in Users, NEW h \in Handles, Connected(u),
         Disconnect(u, h), held[u] = h \/ (held[u] = None /\ handle[h] # "held"),
         nil' \in [Handles -> BOOLEAN], UNCHANGED config, at'[u] \notin Connects,
         \A v \in Users : v # u => at'[v] = at[v] \/ (at[v] \notin Connects /\ at'[v] \notin Connects)
  PROVE  PoolTypes' /\ PoolInv'
<1>1. /\ held'[u] = None /\ (\A v \in Users : v # u => held'[v] = held[v])
      /\ handle'[h] = "offered" /\ (\A g \in Handles : g # h => handle'[g] = handle[g])
      /\ h # None /\ sem' = sem - 1
  BY ConstantsAssumption DEF Disconnect, PoolTypes, None
<1>2. u \in Counted
  BY DEF Counted
<1>3. Counted' = Counted \ {u}
  BY <1>1 DEF Counted, Connected, Connects
<1>4. sem = Cardinality(Counted) /\ sem' = Cardinality(Counted') /\ sem > 0
  <2>1. sem = Cardinality(Counted)
    BY DEF PoolInv, PoolExact, Counted
  <2>2. Cardinality(Counted \ {u}) = Cardinality(Counted) - 1 /\ Cardinality(Counted) > 0
    BY <1>2, CountedFinite
  <2>3. Cardinality(Counted') = Cardinality(Counted \ {u})
    BY <1>3, Zenon
  <2>4. QED
    BY <1>1, <2>1, <2>2, <2>3
<1>5. PoolTypes'
  <2>1. sem' \in 0 .. MaxConnections
    BY <1>1, <1>4, ConstantsAssumption DEF PoolTypes
  <2>2. handle' = [handle EXCEPT ![h] = "offered"] /\ held' = [held EXCEPT ![u] = None]
    BY DEF Disconnect
  <2>3. QED
    BY <2>1, <2>2 DEF PoolTypes
<1>6. \A v \in Users : v # u => held[v] # h
  BY <1>1 DEF PoolInv, PoolExact
<1>7. \A g \in Handles : handle'[g] = "held" <=> \E v \in Users : held'[v] = g
  <2> SUFFICES ASSUME NEW g \in Handles
               PROVE  handle'[g] = "held" <=> \E v \in Users : held'[v] = g
    OBVIOUS
  <2>1. g # None
    BY ConstantsAssumption DEF None
  <2>2. CASE g = h
    BY <1>1, <1>6, <2>1, <2>2
  <2>3. CASE g # h
    <3>1. held[u] # g
      BY <2>1, <2>3
    <3>2. handle[g] = "held" <=> \E v \in Users : held[v] = g
      BY DEF PoolInv, PoolExact
    <3>3. QED
      BY <1>1, <2>1, <2>3, <3>1, <3>2
  <2>4. QED
    BY <2>2, <2>3
<1>8. \A v, w \in Users : v # w /\ held'[v] # None => held'[v] # held'[w]
  BY <1>1 DEF PoolInv, PoolExact
<1>9. \A v \in Users : /\ at'[v] = "call" => held'[v] # None \/ (config'.local /\ v \in Names)
                       /\ held'[v] # None => at'[v] = "call"
  BY <1>1 DEF PoolInv, PoolExact, Connects
<1>10. QED
  BY <1>4, <1>5, <1>7, <1>8, <1>9 DEF PoolInv, PoolExact, Counted

\* The end of a call.
LEMMA PoolReturns ==
  ASSUME PoolTypes, PoolInv, NEW u \in Users, at[u] = "call", Return(u),
         UNCHANGED config, at'[u] \notin Connects,
         \A v \in Users : v # u => at'[v] = at[v] \/ (at[v] \notin Connects /\ at'[v] \notin Connects)
  PROVE  PoolTypes' /\ PoolInv'
<1>1. CASE held[u] = None
  <2>1. UNCHANGED poolVars
    BY <1>1 DEF Return
  <2>2. Counted' = Counted
    BY <1>1, <2>1 DEF Counted, Connected, Connects
  <2>3. \A v \in Users : at'[v] = "call" => at[v] = "call"
    BY DEF Connects
  <2>4. \A v \in Users : held[v] # None => at'[v] = "call"
    BY <1>1 DEF PoolInv, Connects
  <2>5. QED
    BY <2>1, <2>2, <2>3, <2>4 DEF PoolTypes, PoolInv, PoolExact, Counted
<1>2. CASE held[u] # None
  <2>1. held[u] \in Handles
    BY <1>2 DEF PoolTypes
  <2>2. Disconnect(u, held[u]) /\ UNCHANGED nil
    BY <1>2 DEF Return
  <2>3. Connected(u) /\ nil' \in [Handles -> BOOLEAN]
    BY <1>2, <2>2 DEF Connected, PoolTypes
  <2>4. QED
    BY <2>1, <2>2, <2>3, PoolDisconnects
<1>3. QED
  BY <1>1, <1>2

-----------------------------------------------------------------------------
(* The places *)

LEMMA UsersApart ==
  /\ Names \subseteq Users /\ Jobs \subseteq Users /\ Syncer \in Users
  /\ Names \cap Jobs = {} /\ Syncer \notin Names \cup Jobs
  /\ \A u \in Users : u \in Names \/ u \in Jobs \/ u = Syncer
  BY ConstantsAssumption DEF Users

LEMMA PlacesMove ==
  ASSUME AtTypes, PlacesOK, NEW u \in Users, NEW to, Goto(u, to),
         u \in Names => at[u] # "idle" /\ to \in NamePlaces,
         u \in Jobs => to \in JobPlaces,
         u = Syncer => to \in SyncPlaces /\ (to # "wait" => \A n \in Names : at[n] = "idle")
  PROVE  AtTypes' /\ PlacesOK'
<1>1. at'[u] = to /\ \A v \in Users : v # u => at'[v] = at[v]
  BY DEF Goto, AtTypes
<1>2. to \in NamePlaces \cup SyncPlaces
  BY UsersApart DEF NamePlaces, JobPlaces, SyncPlaces
<1>3. AtTypes'
  BY <1>2 DEF Goto, AtTypes
<1>4. \A n \in Names : at'[n] \in NamePlaces
  BY <1>1, UsersApart DEF PlacesOK, NamePlaces
<1>5. \A j \in Jobs : at'[j] \in JobPlaces
  BY <1>1, UsersApart DEF PlacesOK, JobPlaces
<1>6. at'[Syncer] \in SyncPlaces
  BY <1>1, UsersApart DEF PlacesOK, SyncPlaces
<1>7. ASSUME at'[Syncer] # "wait", NEW n \in Names
      PROVE  at'[n] = "idle"
  <2>1. CASE u = Syncer
    BY <1>1, <1>7, <2>1, UsersApart
  <2>2. CASE u # Syncer
    <3>1. at[Syncer] # "wait"
      BY <1>1, <1>7, <2>2, UsersApart
    <3>2. \A m \in Names : at[m] = "idle"
      BY <3>1 DEF PlacesOK
    <3>3. QED
      BY <1>1, <3>2, UsersApart
  <2>3. QED
    BY <2>1, <2>2
<1>8. QED
  BY <1>3, <1>4, <1>5, <1>6, <1>7 DEF PlacesOK, NamePlaces, JobPlaces, SyncPlaces

-----------------------------------------------------------------------------
(* The entries *)

CacheTypes == cache \in [Names -> Entries \cup {None}] /\ entry \in [Entries -> PPDEntry]
GetTypes   == get \in [Names -> Fetch]

\* The parts of an entry, and of a goroutine's variables.
LEMMA Parts ==
  ASSUME CacheTypes, GetTypes
  PROVE  /\ None \notin Entries
         /\ \A e \in Entries : /\ entry[e].freed \in BOOLEAN /\ entry[e].lock \in BOOLEAN
                               /\ entry[e].modtime \in {0} \cup Versions
                               /\ entry[e].description \in {0} \cup Versions
         /\ \A n \in Names : /\ cache[n] \in Entries \cup {None}
                             /\ get[n].entry \in Entries \cup {None} /\ get[n].new \in BOOLEAN
                             /\ get[n].since \in {0} \cup Versions
                             /\ get[n].answer \in {0} \cup Versions
         /\ {0} \cup Versions \subseteq Nat
<1>1. {0} \cup Versions \subseteq Nat /\ None \notin Entries
  BY ConstantsAssumption DEF Versions, None
<1>2. \A e \in Entries : entry[e] \in PPDEntry
  BY DEF CacheTypes
<1>3. \A n \in Names : get[n] \in Fetch /\ cache[n] \in Entries \cup {None}
  BY DEF CacheTypes, GetTypes
<1>4. QED
  BY <1>1, <1>2, <1>3 DEF PPDEntry, Fetch

Same(e) ==
  /\ entry'[e].freed = entry[e].freed
  /\ entry'[e].modtime = entry[e].modtime
  /\ entry'[e].description = entry[e].description

LEMMA FreedEntry ==
  ASSUME CacheTypes, NEW e \in Entries, entry' = Freed(e)
  PROVE  /\ entry' \in [Entries -> PPDEntry] /\ entry'[e].freed
         /\ entry'[e].modtime = entry[e].modtime /\ entry'[e].description = entry[e].description
         /\ \A f \in Entries : f # e => entry'[f] = entry[f]
<1> DEFINE v == [entry[e] EXCEPT !.freed = TRUE]
<1>1. entry' = [entry EXCEPT ![e] = v]
  BY DEF Freed
<1>2. entry[e] \in PPDEntry
  BY DEF CacheTypes
<1>3. v \in PPDEntry /\ v.freed /\ v.modtime = entry[e].modtime /\ v.description = entry[e].description
  BY <1>2 DEF PPDEntry
<1> HIDE DEF v
<1>4. QED
  BY <1>1, <1>3 DEF CacheTypes

LEMMA LockedEntry ==
  ASSUME CacheTypes, NEW e \in Entries, NEW b \in BOOLEAN, entry' = [entry EXCEPT ![e].lock = b]
  PROVE  entry' \in [Entries -> PPDEntry] /\ \A f \in Entries : Same(f)
<1> DEFINE v == [entry[e] EXCEPT !.lock = b]
<1>1. entry' = [entry EXCEPT ![e] = v]
  OBVIOUS
<1>2. entry[e] \in PPDEntry
  BY DEF CacheTypes
<1>3. /\ v \in PPDEntry /\ v.freed = entry[e].freed
      /\ v.modtime = entry[e].modtime /\ v.description = entry[e].description
  BY <1>2 DEF PPDEntry
<1> HIDE DEF v
<1>4. QED
  BY <1>1, <1>3 DEF CacheTypes, Same

VersionTypes == \A n \in Names : server.version[n] \in Nat

\* A printer whose goroutine and entries a step does not touch.
LEMMA Untouched ==
  ASSUME CacheTypes, GetTypes, VersionTypes, VersionTypes', NEW n \in Names, Own(n), Sound(n),
         at'[n] = at[n], get'[n] = get[n], cache'[n] = cache[n],
         get[n].entry # None => Same(get[n].entry), cache[n] # None => Same(cache[n]),
         server.version[n] <= server.version[n]'
  PROVE  Own(n)' /\ Sound(n)'
<1>1. Own(n)'
  BY DEF Own, Same
<1>2. Sound(n)'
  <2>1. at[n] \in Fetching \cup {"store", "fields"} => get[n].entry # None
    BY DEF Own, Fetching
  <2>2. get[n].since \in Nat
    BY Parts
  <2>3. get[n].since <= server'.version[n]
    BY <2>2 DEF Sound, VersionTypes
  <2>4. QED
    BY <2>1, <2>3 DEF Sound, Same
<1>3. QED
  BY <1>1, <1>2

\* A step that concerns none of the entries.
LEMMA EntriesStay ==
  ASSUME CacheTypes, GetTypes, VersionTypes, VersionTypes', EntryInv,
         UNCHANGED <<get, cache>>, \A e \in Entries : Same(e),
         \A n \in Names : at'[n] = at[n] /\ server.version[n] <= server.version[n]',
         quitting' = "no" => quitting = "no"
  PROVE  EntryInv'
<1>1. \A n \in Names : Own(n)' /\ Sound(n)'
  BY Untouched, Parts DEF EntryInv
<1>2. OneOwner'
  BY DEF EntryInv, OneOwner
<1>3. Alive' /\ Kept'
  BY Parts DEF EntryInv, Alive, Kept, Same
<1>4. QED
  BY <1>1, <1>2, <1>3 DEF EntryInv

\* A goroutine that goes on with its entry, which stays as it is.
LEMMA FetchMoves ==
  ASSUME CacheTypes, GetTypes, VersionTypes, AtTypes, EntryInv, NEW n \in Names, NEW to \in NamePlaces,
         at[n] \notin {"idle", "lookup", "free"}, Goto(n, to),
         UNCHANGED <<get, cache, server, quitting>>, \A e \in Entries : Same(e),
         to \notin {"idle", "lookup"},
         to \in {"store", "free"} => get[n].new,
         to \in {"fields", "drop", "dropping"} => ~get[n].new,
         to \in Fetching => at[n] \in Fetching,
         to \in {"store", "fields"} => at[n] = "call" /\ entry[get[n].entry].modtime = server.version[n],
         at[n] \in {"drop", "dropping"} => to = "dropping"
  PROVE  EntryInv'
<1>1. at'[n] = to /\ \A m \in Names : m # n => at'[m] = at[m]
  BY UsersApart DEF Goto, AtTypes
<1>2. OneOwner' /\ Alive' /\ Kept'
  BY Parts DEF EntryInv, OneOwner, Alive, Kept, Same
<1>3. VersionTypes'
  BY DEF VersionTypes
<1>4. ASSUME NEW m \in Names, m # n
      PROVE  Own(m)' /\ Sound(m)'
  <2>1. server.version[m] <= server.version[m]'
    BY DEF VersionTypes
  <2>2. QED
    BY <1>1, <1>3, <1>4, <2>1, Untouched, Parts DEF EntryInv
<1>5. get[n].entry # None /\ get[n].entry \in Entries /\ Same(get[n].entry)
      /\ (cache[n] # None => Same(cache[n])) /\ Own(n) /\ Sound(n)
  BY Parts DEF EntryInv, Own
<1>6. Own(n)'
  BY <1>1, <1>5 DEF Own, Same
<1>7. Sound(n)'
  <2>1. get[n].since <= server.version[n]' /\ (get[n].answer # 0 => get[n].answer >= get[n].since)
    BY <1>5 DEF Sound
  <2>2. to \in {"store", "fields"} => entry[get[n].entry].description >= get[n].since
    BY <1>5, Parts DEF Sound, Fetching, VersionTypes
  <2>3. to \in Fetching \cup {"store", "fields"} =>
          entry[get[n].entry].description = entry[get[n].entry].modtime
    BY <1>5 DEF Sound, Fetching
  <2>4. cache[n] # None /\ to \notin {"drop", "dropping"} =>
          entry[cache[n]].description = entry[cache[n]].modtime
    BY <1>5 DEF Sound
  <2>5. QED
    BY <1>1, <1>5, <2>1, <2>2, <2>3, <2>4 DEF Sound, Same
<1>8. QED
  BY <1>2, <1>4, <1>6, <1>7 DEF EntryInv

\* A goroutine takes an entry, or gives it up with an answer or without one.
LEMMA GetEntry ==
  ASSUME GetTypes, NEW n \in Names, NEW e \in Entries \cup {None}, NEW b \in BOOLEAN,
         get' = [get EXCEPT ![n].entry = e, ![n].new = b]
  PROVE  /\ GetTypes' /\ get'[n].entry = e /\ get'[n].new = b /\ get'[n].since = get[n].since
         /\ get'[n].answer = get[n].answer /\ \A m \in Names : m # n => get'[m] = get[m]
<1> DEFINE g == [get[n] EXCEPT !.entry = e, !.new = b]
<1>1. get[n] \in Fetch
  BY DEF GetTypes
<1>2. /\ g \in Fetch /\ g.entry = e /\ g.new = b
      /\ g.since = get[n].since /\ g.answer = get[n].answer
  BY <1>1 DEF Fetch
<1>3. get' = [get EXCEPT ![n] = g]
  BY <1>1 DEF GetTypes
<1> HIDE DEF g
<1>4. QED
  BY <1>2, <1>3 DEF GetTypes

LEMMA GetAnswer ==
  ASSUME GetTypes, NEW n \in Names, NEW a \in {0} \cup Versions,
         get' = [get EXCEPT ![n].answer = a, ![n].entry = None]
  PROVE  /\ GetTypes' /\ get'[n].entry = None /\ get'[n].new = get[n].new
         /\ get'[n].since = get[n].since /\ get'[n].answer = a
         /\ \A m \in Names : m # n => get'[m] = get[m]
<1> DEFINE g == [get[n] EXCEPT !.answer = a, !.entry = None]
<1>1. get[n] \in Fetch
  BY DEF GetTypes
<1>2. /\ g \in Fetch /\ g.entry = None /\ g.new = get[n].new
      /\ g.since = get[n].since /\ g.answer = a
  BY <1>1 DEF Fetch
<1>3. get' = [get EXCEPT ![n] = g]
  BY <1>1 DEF GetTypes
<1> HIDE DEF g
<1>4. QED
  BY <1>2, <1>3 DEF GetTypes

LEMMA GetNothing ==
  ASSUME GetTypes, NEW n \in Names, get' = [get EXCEPT ![n].entry = None]
  PROVE  /\ GetTypes' /\ get'[n].entry = None /\ get'[n].new = get[n].new
         /\ get'[n].since = get[n].since /\ get'[n].answer = get[n].answer
         /\ \A m \in Names : m # n => get'[m] = get[m]
<1> DEFINE g == [get[n] EXCEPT !.entry = None]
<1>1. get[n] \in Fetch
  BY DEF GetTypes
<1>2. /\ g \in Fetch /\ g.entry = None /\ g.new = get[n].new
      /\ g.since = get[n].since /\ g.answer = get[n].answer
  BY <1>1 DEF Fetch
<1>3. get' = [get EXCEPT ![n] = g]
  BY <1>1 DEF GetTypes
<1> HIDE DEF g
<1>4. QED
  BY <1>2, <1>3 DEF GetTypes

\* The other printers, and the versions, in a step of one goroutine.
LEMMA Others ==
  ASSUME CacheTypes, GetTypes, VersionTypes, EntryInv, NEW n \in Names,
         \A m \in Names : m # n => at'[m] = at[m] /\ get'[m] = get[m] /\ cache'[m] = cache[m],
         \A m \in Names : m # n => /\ get[m].entry # None => Same(get[m].entry)
                                   /\ cache[m] # None => Same(cache[m]),
         UNCHANGED server
  PROVE  \A m \in Names : m # n => Own(m)' /\ Sound(m)'
<1> SUFFICES ASSUME NEW m \in Names, m # n PROVE Own(m)' /\ Sound(m)'
  OBVIOUS
<1>1. VersionTypes' /\ server.version[m] <= server.version[m]'
  BY DEF VersionTypes
<1>2. Own(m) /\ Sound(m)
  BY DEF EntryInv
<1>3. at'[m] = at[m] /\ get'[m] = get[m] /\ cache'[m] = cache[m]
  OBVIOUS
<1>4. (get[m].entry # None => Same(get[m].entry)) /\ (cache[m] # None => Same(cache[m]))
  BY DEF Same
<1>5. QED
  BY <1>1, <1>2, <1>3, <1>4, Untouched

LEMMA LookupInv ==
  ASSUME CacheTypes, GetTypes, VersionTypes, AtTypes, EntryInv, NEW n \in Names, Lookup(n)
  PROVE  CacheTypes' /\ GetTypes' /\ EntryInv'
<1>1. /\ at[n] = "lookup" /\ at'[n] = "refresh" /\ \A m \in Names : m # n => at'[m] = at[m]
      /\ UNCHANGED <<cache, server, quitting>>
  BY UsersApart DEF Lookup, Goto, AtTypes
<1>2. get[n].entry = None /\ Own(n) /\ Sound(n)
  BY <1>1 DEF EntryInv, Own
<1>3. CASE cache[n] = None
  <2>1. PICK e \in Entries :
          /\ Unused # {} /\ e = CHOOSE f \in Entries : f \in Unused
          /\ entry' = [entry EXCEPT ![e] = [NoEntry EXCEPT !.freed = FALSE]]
          /\ get' = [get EXCEPT ![n].entry = e, ![n].new = TRUE]
    BY <1>3 DEF Lookup
  <2>2. e \in Unused
    <3>1. \E f \in Entries : f \in Unused
      BY <2>1 DEF Unused
    <3>2. QED
      BY <2>1, <3>1
  <2>3. entry[e].freed /\ \A m \in Names : get[m].entry # e /\ cache[m] # e
    BY <2>2 DEF Unused
  <2>4. /\ CacheTypes' /\ ~entry'[e].freed /\ entry'[e].description = 0 /\ entry'[e].modtime = 0
        /\ \A f \in Entries : f # e => entry'[f] = entry[f]
    BY <1>1, <2>1 DEF CacheTypes, NoEntry, PPDEntry
  <2>5. /\ GetTypes' /\ get'[n].entry = e /\ get'[n].new /\ get'[n].since = get[n].since
        /\ get'[n].answer = get[n].answer /\ \A m \in Names : m # n => get'[m] = get[m]
    BY <2>1, GetEntry
  <2>6. e # None
    BY Parts
  <2>7. \A m \in Names : m # n => Own(m)' /\ Sound(m)'
    <3>1. \A m \in Names : m # n => /\ get[m].entry # None => Same(get[m].entry)
                                    /\ cache[m] # None => Same(cache[m])
      BY <2>3, <2>4, Parts DEF Same
    <3>2. QED
      BY <1>1, <2>5, <3>1, Others
  <2>8. Own(n)' /\ Sound(n)'
    BY <1>1, <1>2, <1>3, <2>4, <2>5, <2>6 DEF Own, Sound, Fetching
  <2>9. OneOwner'
    BY <1>1, <2>3, <2>5 DEF EntryInv, OneOwner
  <2>10. Alive'
    BY <1>1, <2>3, <2>4, <2>5, Parts DEF EntryInv, Alive
  <2>11. Kept'
    BY <1>1, <1>2, <2>4, <2>5, Parts DEF EntryInv, Kept
  <2>12. QED
    BY <2>4, <2>5, <2>7, <2>8, <2>9, <2>10, <2>11 DEF EntryInv
<1>4. CASE cache[n] # None
  <2>1. UNCHANGED entry /\ get' = [get EXCEPT ![n].entry = cache[n], ![n].new = FALSE]
    BY <1>4 DEF Lookup
  <2>2. /\ GetTypes' /\ get'[n].entry = cache[n] /\ ~get'[n].new /\ get'[n].since = get[n].since
        /\ get'[n].answer = get[n].answer /\ \A m \in Names : m # n => get'[m] = get[m]
    BY <2>1, GetEntry, Parts
  <2>3. \A m \in Names : m # n => Own(m)' /\ Sound(m)'
    BY <1>1, <2>1, <2>2, Others DEF Same
  <2>4. Own(n)' /\ Sound(n)'
    BY <1>1, <1>2, <1>4, <2>1, <2>2 DEF Own, Sound, Fetching
  <2>5. OneOwner' /\ Alive'
    <3>1. OneOwner'
      <4>1. \A m \in Names : get'[m].entry # None /\ get'[m].entry = cache[n] => m = n
        BY <1>4, <2>2 DEF EntryInv, OneOwner
      <4>2. QED
        BY <1>1, <1>4, <2>2, <4>1 DEF EntryInv, OneOwner
    <3>2. Alive'
      BY <1>1, <1>4, <2>1, <2>2 DEF EntryInv, Alive
    <3>3. QED
      BY <3>1, <3>2
  <2>6. Kept'
    <3> SUFFICES ASSUME NEW f \in Entries, ~entry[f].freed
                 PROVE  \E m \in Names : cache[m] = f \/ get'[m].entry = f
      BY <1>1, <2>1 DEF Kept
    <3>1. PICK m \in Names : cache[m] = f \/ get[m].entry = f
      BY DEF EntryInv, Kept
    <3>2. m = n => cache[m] = f
      BY <1>2, <3>1, Parts
    <3>3. QED
      BY <2>2, <3>1, <3>2
  <2>7. CacheTypes'
    BY <1>1, <2>1 DEF CacheTypes
  <2>8. QED
    BY <2>2, <2>3, <2>4, <2>5, <2>6, <2>7 DEF EntryInv
<1>5. QED
  BY <1>3, <1>4

\* A PPD is written into the entry of the goroutine: the whole of it, or its
\* time alone when it could not be read.
LEMMA FetchWrites ==
  ASSUME CacheTypes, GetTypes, VersionTypes, AtTypes, EntryInv, NEW n \in Names,
         NEW to \in {"store", "fields", "drop", "free"}, NEW v \in PPDEntry,
         at[n] = "call", Goto(n, to), UNCHANGED <<get, cache, server, quitting>>,
         entry' = [entry EXCEPT ![get[n].entry] = v], v.freed = entry[get[n].entry].freed,
         to \in {"store", "free"} <=> get[n].new,
         to \in {"store", "fields"} => v.modtime = server.version[n] /\ v.description = server.version[n]
  PROVE  CacheTypes' /\ EntryInv'
<1> DEFINE e == get[n].entry
<1>1. at'[n] = to /\ \A m \in Names : m # n => at'[m] = at[m]
  BY UsersApart DEF Goto, AtTypes
<1>2. e \in Entries /\ e # None /\ Own(n) /\ Sound(n)
  BY Parts DEF EntryInv, Own
<1>3. /\ CacheTypes' /\ entry'[e] = v
      /\ \A f \in Entries : f # e => entry'[f] = entry[f]
      /\ \A f \in Entries : entry'[f].freed = entry[f].freed
  BY <1>2 DEF CacheTypes
<1>4. OneOwner' /\ Alive' /\ Kept'
  BY <1>3, Parts DEF EntryInv, OneOwner, Alive, Kept
<1>5. \A m \in Names : m # n => Own(m)' /\ Sound(m)'
  <2>1. \A m \in Names : m # n => /\ get[m].entry # None => Same(get[m].entry)
                                  /\ cache[m] # None => Same(cache[m])
    BY <1>2, <1>3, Parts DEF EntryInv, OneOwner, Same
  <2>2. QED
    BY <1>1, <2>1, Others
<1>6. Own(n)'
  BY <1>1, <1>2, <1>3 DEF Own
<1>7. cache[n] # None => cache[n] = e
  BY <1>2 DEF Own
<1>8. Sound(n)'
  <2>1. to \in {"store", "fields"} => v.description >= get[n].since
    BY <1>2, Parts DEF Sound, VersionTypes
  <2>2. to = "free" => cache[n] = None
    BY <1>2 DEF Own
  <2>3. QED
    BY <1>1, <1>2, <1>3, <1>7, <2>1, <2>2 DEF Sound, Fetching
<1>9. QED
  BY <1>3, <1>4, <1>5, <1>6, <1>8 DEF EntryInv

LEMMA StoreInv ==
  ASSUME CacheTypes, GetTypes, VersionTypes, AtTypes, EntryInv, NEW n \in Names, Store(n)
  PROVE  CacheTypes' /\ GetTypes' /\ EntryInv'
<1> DEFINE e == get[n].entry
<1>1. /\ at[n] = "store" /\ at'[n] = "idle" /\ (\A m \in Names : m # n => at'[m] = at[m])
      /\ UNCHANGED <<server, quitting>> /\ cache' = [cache EXCEPT ![n] = e]
      /\ get' = [get EXCEPT ![n].answer = entry[e].description, ![n].entry = None]
  BY UsersApart DEF Store, Goto, AtTypes
<1>2. e \in Entries /\ e # None /\ Own(n) /\ Sound(n) /\ get[n].new /\ cache[n] = None
  BY <1>1, Parts DEF EntryInv, Own
<1>3. UNCHANGED entry
  BY <1>2 DEF Store
<1>4. entry[e].description \in {0} \cup Versions
  BY <1>2, Parts
<1>5. /\ GetTypes' /\ get'[n].entry = None /\ get'[n].since = get[n].since
      /\ get'[n].answer = entry[e].description /\ \A m \in Names : m # n => get'[m] = get[m]
  BY <1>1, <1>4, GetAnswer
<1>6. CacheTypes' /\ cache'[n] = e /\ \A m \in Names : m # n => cache'[m] = cache[m]
  BY <1>1, <1>2, <1>3 DEF CacheTypes
<1>7. \A m \in Names : m # n => Own(m)' /\ Sound(m)'
  BY <1>1, <1>3, <1>5, <1>6, Others DEF Same
<1>8. Own(n)' /\ Sound(n)'
  BY <1>1, <1>2, <1>3, <1>5, <1>6 DEF Own, Sound, Fetching
<1>9. OneOwner'
  BY <1>2, <1>5, <1>6 DEF EntryInv, OneOwner
<1>10. Alive' /\ Kept'
  <2>1. Alive'
    <3> SUFFICES ASSUME quitting = "no", NEW m \in Names
                 PROVE  /\ cache'[m] # None => ~entry[cache'[m]].freed
                        /\ get'[m].entry # None => ~entry[get'[m].entry].freed
      BY <1>1, <1>3 DEF Alive
    <3>1. ~entry[e].freed
      BY <1>2 DEF EntryInv, Alive
    <3>2. /\ cache[m] # None => ~entry[cache[m]].freed
          /\ get[m].entry # None => ~entry[get[m].entry].freed
      BY DEF EntryInv, Alive
    <3>3. CASE m = n
      BY <1>5, <1>6, <3>1, <3>3
    <3>4. CASE m # n
      BY <1>5, <1>6, <3>2, <3>4
    <3>5. QED
      BY <3>3, <3>4
  <2>2. ASSUME NEW f \in Entries, ~entry[f].freed
        PROVE  \E m \in Names : cache'[m] = f \/ get'[m].entry = f
    <3>1. PICK m \in Names : cache[m] = f \/ get[m].entry = f
      BY <2>2 DEF EntryInv, Kept
    <3>2. CASE m # n
      BY <1>5, <1>6, <3>1, <3>2
    <3>3. CASE m = n
      BY <1>2, <1>6, <3>1, <3>3, Parts
    <3>4. QED
      BY <3>2, <3>3
  <2>3. Kept'
    BY <1>3, <2>2 DEF Kept
  <2>4. QED
    BY <2>1, <2>3
<1>11. QED
  BY <1>5, <1>6, <1>7, <1>8, <1>9, <1>10 DEF EntryInv

LEMMA GetFieldsInv ==
  ASSUME CacheTypes, GetTypes, VersionTypes, AtTypes, EntryInv, NEW n \in Names, GetFields(n)
  PROVE  CacheTypes' /\ GetTypes' /\ EntryInv'
<1> DEFINE e == get[n].entry
<1>1. /\ at[n] = "fields" /\ at'[n] = "idle" /\ (\A m \in Names : m # n => at'[m] = at[m])
      /\ UNCHANGED <<server, quitting, cache, entry>>
      /\ get' = [get EXCEPT ![n].answer = entry[e].description, ![n].entry = None]
  BY UsersApart DEF GetFields, Goto, AtTypes
<1>2. e \in Entries /\ e # None /\ Own(n) /\ Sound(n) /\ ~get[n].new
  BY <1>1, Parts DEF EntryInv, Own
<1>4. entry[e].description \in {0} \cup Versions
  BY <1>2, Parts
<1>5. /\ GetTypes' /\ get'[n].entry = None /\ get'[n].since = get[n].since
      /\ get'[n].answer = entry[e].description /\ \A m \in Names : m # n => get'[m] = get[m]
  BY <1>1, <1>4, GetAnswer
<1>6. ~entry[e].freed => cache[n] = e
  BY <1>1, <1>2 DEF Own
<1>7. \A m \in Names : m # n => Own(m)' /\ Sound(m)'
  BY <1>1, <1>5, Others DEF Same
<1>8. Own(n)' /\ Sound(n)'
  BY <1>1, <1>2, <1>5 DEF Own, Sound, Fetching
<1> HIDE DEF e
<1>9. \A m \in Names : get'[m].entry # None => get'[m] = get[m]
  BY <1>5
<1>10. OneOwner' /\ Alive'
  <2>1. OneOwner'
    <3> SUFFICES ASSUME NEW m \in Names, NEW k \in Names
                 PROVE  (/\ cache[m] # None /\ cache[m] = cache[k] => m = k
                         /\ get[m].entry # None /\ get[m].entry = get[k].entry => m = k
                         /\ get[m].entry # None /\ get[m].entry = cache[k] => m = k /\ ~get[m].new)'
      BY DEF OneOwner
    <3>1. /\ cache[m] # None /\ cache[m] = cache[k] => m = k
          /\ get[m].entry # None /\ get[m].entry = get[k].entry => m = k
          /\ get[m].entry # None /\ get[m].entry = cache[k] => m = k /\ ~get[m].new
      BY DEF EntryInv, OneOwner
    <3>2. /\ get'[m].entry # None => get'[m] = get[m]
          /\ get'[k].entry # None => get'[k] = get[k]
      BY <1>9
    <3>3. QED
      BY <1>1, <3>1, <3>2
  <2>2. Alive'
    BY <1>1, <1>9 DEF EntryInv, Alive
  <2>3. QED
    BY <2>1, <2>2
<1>11. Kept'
  <2> SUFFICES ASSUME NEW f \in Entries, ~entry[f].freed
               PROVE  \E m \in Names : cache[m] = f \/ get'[m].entry = f
    BY <1>1 DEF Kept
  <2>1. PICK m \in Names : cache[m] = f \/ get[m].entry = f
    BY DEF EntryInv, Kept
  <2>2. CASE m # n
    BY <1>5, <2>1, <2>2
  <2>3. CASE m = n
    BY <1>6, <2>1, <2>3 DEF e
  <2>4. QED
    BY <2>2, <2>3
<1>12. QED
  BY <1>1, <1>5, <1>7, <1>8, <1>10, <1>11 DEF EntryInv, CacheTypes

LEMMA DropEndsInv ==
  ASSUME CacheTypes, GetTypes, VersionTypes, AtTypes, EntryInv, NEW n \in Names, DropEnds(n)
  PROVE  CacheTypes' /\ EntryInv'
<1>1. /\ at[n] = "dropping" /\ at'[n] = "free" /\ (\A m \in Names : m # n => at'[m] = at[m])
      /\ UNCHANGED <<server, quitting, get, entry>>
      /\ CacheTypes' /\ cache'[n] = None /\ \A m \in Names : m # n => cache'[m] = cache[m]
  BY UsersApart DEF DropEnds, Goto, AtTypes, CacheTypes
<1>2. Own(n) /\ Sound(n) /\ get[n].entry # None /\ cache[n] \in {None, get[n].entry}
  BY <1>1 DEF EntryInv, Own
<1>3. \A m \in Names : m # n => Own(m)' /\ Sound(m)'
  BY <1>1, Others DEF Same
<1>4. Own(n)' /\ Sound(n)'
  BY <1>1, <1>2 DEF Own, Sound, Fetching
<1>5. OneOwner' /\ Alive'
  BY <1>1 DEF EntryInv, OneOwner, Alive
<1>6. Kept'
  BY <1>1, <1>2, Parts DEF EntryInv, Kept
<1>7. QED
  BY <1>1, <1>3, <1>4, <1>5, <1>6 DEF EntryInv

LEMMA FreeInv ==
  ASSUME CacheTypes, GetTypes, VersionTypes, AtTypes, EntryInv, NEW n \in Names, Free(n)
  PROVE  CacheTypes' /\ GetTypes' /\ EntryInv'
<1> DEFINE e == get[n].entry
<1>1. /\ at[n] = "free" /\ at'[n] = "idle" /\ (\A m \in Names : m # n => at'[m] = at[m])
      /\ UNCHANGED <<server, quitting, cache>> /\ entry' = Freed(e)
      /\ get' = [get EXCEPT ![n].entry = None]
  BY UsersApart DEF Free, Goto, AtTypes
<1>2. e \in Entries /\ e # None /\ Own(n) /\ Sound(n) /\ cache[n] = None
  BY <1>1, Parts DEF EntryInv, Own
<1>3. /\ entry' \in [Entries -> PPDEntry] /\ entry'[e].freed
      /\ \A f \in Entries : f # e => entry'[f] = entry[f]
  BY <1>1, <1>2, FreedEntry
<1>4. /\ GetTypes' /\ get'[n].entry = None /\ get'[n].since = get[n].since
      /\ get'[n].answer = get[n].answer /\ \A m \in Names : m # n => get'[m] = get[m]
  BY <1>1, GetNothing
<1>5. \A m \in Names : cache[m] # e /\ (m # n => get[m].entry # e)
  BY <1>2 DEF EntryInv, OneOwner
<1>6. \A m \in Names : m # n => Own(m)' /\ Sound(m)'
  <2>1. \A m \in Names : m # n => /\ get[m].entry # None => Same(get[m].entry)
                                  /\ cache[m] # None => Same(cache[m])
    BY <1>3, <1>5, Parts DEF Same
  <2>2. QED
    BY <1>1, <1>4, <2>1, Others
<1>7. Own(n)' /\ Sound(n)'
  BY <1>1, <1>2, <1>4 DEF Own, Sound, Fetching
<1>8. OneOwner'
  BY <1>1, <1>4 DEF EntryInv, OneOwner
<1>9. Alive'
  BY <1>1, <1>3, <1>4, <1>5, Parts DEF EntryInv, Alive
<1>10. Kept'
  BY <1>1, <1>3, <1>4, <1>5, Parts DEF EntryInv, Kept
<1>11. QED
  BY <1>1, <1>3, <1>4, <1>6, <1>7, <1>8, <1>9, <1>10 DEF EntryInv, CacheTypes

\* The cached entry of a printer is removed and freed, by the manager while
\* nobody fetches, or by Quit.
LEMMA Uncached ==
  ASSUME CacheTypes, GetTypes, VersionTypes, EntryInv, NEW n \in Names, cache[n] # None,
         entry' = Freed(cache[n]), cache' = [cache EXCEPT ![n] = None],
         UNCHANGED <<at, get, server, quitting>>,
         quitting # "no" \/ \A m \in Names : get[m].entry = None
  PROVE  CacheTypes' /\ EntryInv'
<1> DEFINE e == cache[n]
<1>1. e \in Entries /\ e # None /\ Own(n) /\ Sound(n)
  BY Parts DEF EntryInv
<1>2. /\ entry' \in [Entries -> PPDEntry] /\ entry'[e].freed
      /\ entry'[e].modtime = entry[e].modtime /\ entry'[e].description = entry[e].description
      /\ \A f \in Entries : f # e => entry'[f] = entry[f]
  BY <1>1, FreedEntry
<1>3. CacheTypes' /\ cache'[n] = None /\ \A m \in Names : m # n => cache'[m] = cache[m]
  BY <1>2 DEF CacheTypes
<1>4. \A m \in Names : m # n => cache[m] # e /\ get[m].entry # e
  BY <1>1 DEF EntryInv, OneOwner
<1>5. \A m \in Names : m # n => Own(m)' /\ Sound(m)'
  <2>1. \A m \in Names : m # n => /\ get[m].entry # None => Same(get[m].entry)
                                  /\ cache[m] # None => Same(cache[m])
    BY <1>2, <1>4, Parts DEF Same
  <2>2. QED
    BY <1>3, <2>1, Others
<1>6. get[n].entry # None => get[n].entry = e /\ ~get[n].new
  BY <1>1 DEF Own
<1>7. Own(n)'
  BY <1>1, <1>2, <1>3, <1>6 DEF Own
<1>8. Sound(n)'
  <2>1. at[n] \in Fetching \cup {"store", "fields"} => get[n].entry = e
    BY <1>1, <1>6 DEF Own, Fetching
  <2>2. QED
    BY <1>1, <1>2, <1>3, <2>1 DEF Sound
<1>9. OneOwner' /\ Kept'
  BY <1>2, <1>3, <1>4, Parts DEF EntryInv, OneOwner, Kept
<1>10. Alive'
  BY <1>1, <1>2, <1>3, <1>4, Parts DEF EntryInv, Alive
<1>11. QED
  BY <1>3, <1>5, <1>7, <1>8, <1>9, <1>10 DEF EntryInv

\* A round begins or ends: no goroutine has an entry, before or after.
LEMMA RoundInv ==
  ASSUME CacheTypes, GetTypes, GetTypes', VersionTypes, EntryInv, \A n \in Names : at[n] = "idle",
         UNCHANGED <<cache, entry, server, quitting>>,
         \A n \in Names : /\ at'[n] \in {"idle", "lookup"} /\ get'[n].entry = None
                          /\ get'[n].since <= server.version[n]
                          /\ get'[n].answer # 0 => get'[n].answer >= get'[n].since
  PROVE  EntryInv'
<1>1. \A n \in Names : get[n].entry = None /\ Own(n) /\ Sound(n)
  BY DEF EntryInv, Own
<1>2. ASSUME NEW n \in Names
      PROVE  Own(n)' /\ Sound(n)'
  <2>1. /\ at'[n] \in {"idle", "lookup"} /\ get'[n].entry = None
        /\ get'[n].since <= server.version[n]
        /\ get'[n].answer # 0 => get'[n].answer >= get'[n].since
    OBVIOUS
  <2>2. Own(n)'
    BY <2>1 DEF Own
  <2>3. cache[n] # None => entry[cache[n]].description = entry[cache[n]].modtime
    BY <1>1 DEF Sound
  <2>4. Sound(n)'
    BY <2>1, <2>3 DEF Sound, Fetching
  <2>5. QED
    BY <2>2, <2>4
<1>3. OneOwner' /\ Alive' /\ Kept'
  <2>1. OneOwner' /\ Alive'
    <3>1. \A n \in Names : get'[n].entry = None
      OBVIOUS
    <3>2. OneOwner'
      BY <3>1 DEF EntryInv, OneOwner
    <3>3. Alive'
      BY <3>1 DEF EntryInv, Alive
    <3>4. QED
      BY <3>2, <3>3
  <2>2. \A e \in Entries : ~entry[e].freed => \E n \in Names : cache[n] = e
    BY <1>1, Parts DEF EntryInv, Kept
  <2>3. Kept'
    BY <2>2 DEF Kept
  <2>4. QED
    BY <2>1, <2>3
<1>4. QED
  BY <1>2, <1>3 DEF EntryInv

-----------------------------------------------------------------------------
(* The actions *)

MainTypes ==
  /\ started \in BOOLEAN /\ found \subseteq Names /\ known \subseteq Names
  /\ mapLock \in BOOLEAN /\ crashed \in BOOLEAN /\ quitting \in {"no", "frees", "done"}

EnvTypes ==
  /\ config \in Configs
  /\ server \in [version : [Names -> Versions], broken : SUBSET Names, printers : SUBSET Names]
  /\ changes \in Nat /\ faults \in Nat /\ VersionsBounded

LEMMA InvParts ==
  ASSUME IInv
  PROVE  /\ PoolTypes /\ PoolInv /\ AtTypes /\ PlacesOK /\ CacheTypes /\ GetTypes
         /\ MainTypes /\ EnvTypes /\ EntryInv
         /\ VersionTypes /\ \A n \in Names : server.version[n] \in Versions
<1>1. at \in [Users -> NamePlaces \cup SyncPlaces]
  BY DEF IInv, TypeOK, NamePlaces, SyncPlaces
<1>2. \A n \in Names : server.version[n] \in Versions
  BY DEF IInv, TypeOK
<1>3. Versions \subseteq Nat
  BY ConstantsAssumption DEF Versions
<1>4. QED
  BY <1>1, <1>2, <1>3 DEF IInv, TypeOK, PoolTypes, AtTypes, CacheTypes, GetTypes, MainTypes,
     EnvTypes, VersionTypes

LEMMA Collect ==
  ASSUME PoolTypes', PoolInv', AtTypes', PlacesOK', CacheTypes', GetTypes', MainTypes', EnvTypes',
         EntryInv'
  PROVE  IInv'
<1>1. at' \in [Users -> {"idle", "lookup", "refresh", "acquire", "connect", "call",
                         "store", "fields", "drop", "dropping", "free", "wait", "apply", "end"}]
  BY DEF AtTypes, NamePlaces, SyncPlaces
<1>2. TypeOK'
  BY <1>1 DEF PoolTypes, AtTypes, CacheTypes, GetTypes, MainTypes, EnvTypes, TypeOK
<1>3. QED
  BY <1>2 DEF EnvTypes, IInv

\* Variables most steps leave alone, or change by one more failure.
LEMMA RestStays ==
  ASSUME MainTypes, EnvTypes, UNCHANGED <<mainVars, mapLock, server, changes, config>>,
         faults' = faults + 1 \/ UNCHANGED faults
  PROVE  MainTypes' /\ EnvTypes'
  BY DEF MainTypes, EnvTypes, VersionsBounded

\* A step of a job, or of the goroutine that syncs, is none of the entries'.
LEMMA UserMoves ==
  ASSUME IInv, NEW u \in Users, u \notin Names, NEW to, Goto(u, to),
         UNCHANGED <<get, cache, entry, server, quitting>>
  PROVE  EntryInv'
<1>1. \A n \in Names : at'[n] = at[n]
  BY UsersApart, InvParts DEF Goto, AtTypes
<1>2. VersionTypes' /\ \A n \in Names : server.version[n] <= server.version[n]'
  BY InvParts DEF VersionTypes
<1>3. QED
  BY <1>1, <1>2, InvParts, EntriesStay DEF Same

LEMMA StepOfUser ==
  ASSUME IInv, NEW u \in Users, NEW to, Goto(u, to), at[u] \in {"acquire", "connect", "call"},
         u \in Names => to \in NamePlaces, u \in Jobs => to \in JobPlaces,
         u = Syncer => to \in SyncPlaces
  PROVE  AtTypes' /\ PlacesOK'
<1>1. u = Syncer => \A n \in Names : at[n] = "idle"
  BY InvParts DEF PlacesOK
<1>2. QED
  BY <1>1, InvParts, PlacesMove

LEMMA ConnectionInv ==
  ASSUME IInv, NEW u \in Users, Connection(u)
  PROVE  IInv'
<1>2. \A to \in {"connect", "call"} :
        at[u] \in {"acquire", "connect"} /\ Goto(u, to) /\ UNCHANGED <<get, cache, entry, server, quitting>>
        => EntryInv'
  <2> SUFFICES ASSUME NEW to \in {"connect", "call"}, at[u] \in {"acquire", "connect"}, Goto(u, to),
                      UNCHANGED <<get, cache, entry, server, quitting>>
               PROVE  EntryInv'
    OBVIOUS
  <2>1. CASE u \in Names
    BY <2>1, InvParts, FetchMoves DEF NamePlaces, Fetching, Same
  <2>2. CASE u \notin Names
    BY <2>2, UserMoves
  <2>3. QED
    BY <2>1, <2>2
<1>3. CASE Acquire(u)
  <2>1. PoolTypes' /\ PoolInv'
    BY <1>3, InvParts, PoolAcquires
  <2>2. /\ at[u] = "acquire" /\ Goto(u, "connect")
        /\ UNCHANGED <<cacheVars, get, mainVars, envVars>>
    BY <1>3 DEF Acquire
  <2>3. AtTypes' /\ PlacesOK'
    BY <2>2, StepOfUser DEF NamePlaces, JobPlaces, SyncPlaces
  <2>4. CacheTypes' /\ GetTypes' /\ MainTypes' /\ EnvTypes'
    BY <2>2, InvParts, RestStays DEF CacheTypes, GetTypes
  <2>5. EntryInv'
    BY <1>2, <2>2
  <2>6. QED
    BY <2>1, <2>3, <2>4, <2>5, Collect
<1>4. CASE Reuse(u) \/ \E h \in Handles : Dial(u, h)
  <2>1. PICK h \in Handles :
          /\ at[u] = "connect" /\ handle[h] # "held" /\ Goto(u, "call")
          /\ handle' = [handle EXCEPT ![h] = "held"] /\ held' = [held EXCEPT ![u] = h]
          /\ UNCHANGED <<sem, nil, cacheVars, get, mainVars, envVars>>
    <3>1. CASE Reuse(u)
      BY <3>1 DEF Reuse
    <3>2. ASSUME NEW h \in Handles, Dial(u, h)
          PROVE  handle[h] = "none"
      BY <3>2 DEF Dial, Dials
    <3>3. QED
      BY <1>4, <3>1, <3>2 DEF Dial, Dials
  <2>2. PoolTypes' /\ PoolInv'
    BY <2>1, InvParts, PoolConnects
  <2>3. AtTypes' /\ PlacesOK'
    BY <2>1, StepOfUser DEF NamePlaces, JobPlaces, SyncPlaces
  <2>4. CacheTypes' /\ GetTypes' /\ MainTypes' /\ EnvTypes'
    BY <2>1, InvParts, RestStays DEF CacheTypes, GetTypes
  <2>5. EntryInv'
    BY <1>2, <2>1
  <2>6. QED
    BY <2>2, <2>3, <2>4, <2>5, Collect
<1>5. ASSUME NEW h \in Handles, DialFails(u, h)
      PROVE  IInv'
  <2>1. /\ at[u] = "connect" /\ handle[h] = "none" /\ nil' = [nil EXCEPT ![h] = TRUE]
        /\ Disconnect(u, h) /\ Goto(u, Fails(u)) /\ Unlocked(u) /\ faults' = faults + 1
        /\ UNCHANGED <<cache, mapLock, get, mainVars, server, changes, config>>
    BY <1>5 DEF DialFails, Dials, Fault
  <2>2. /\ u \in Names => Fails(u) = IF get[u].new THEN "free" ELSE "drop"
        /\ u \notin Names => Fails(u) \in {"idle", "end"} /\ (u # Syncer => Fails(u) = "idle")
    BY DEF Fails
  <2>3. AtTypes' /\ PlacesOK'
    BY <2>1, <2>2, StepOfUser, UsersApart DEF NamePlaces, JobPlaces, SyncPlaces
  <2>4. PoolTypes' /\ PoolInv'
    <3>1. held[u] = None /\ Connected(u) /\ nil' \in [Handles -> BOOLEAN]
      BY <2>1, InvParts DEF PoolInv, Connected, PoolTypes
    <3>2. at'[u] = Fails(u) /\ \A v \in Users : v # u => at'[v] = at[v]
      BY <2>1, InvParts DEF Goto, AtTypes
    <3>3. at'[u] \notin Connects
      BY <2>2, <3>2 DEF Connects
    <3>4. QED
      BY <2>1, <3>1, <3>2, <3>3, InvParts, PoolDisconnects
  <2>5. CASE u \in Names
    <3>1. get[u].entry \in Entries
      BY <2>1, <2>5, InvParts, Parts DEF EntryInv, Own
    <3>2. CacheTypes' /\ \A e \in Entries : Same(e)
      BY <2>1, <2>5, <3>1, InvParts, LockedEntry DEF Unlocked, CacheTypes
    <3>3. EntryInv'
      BY <2>1, <2>2, <2>5, <3>2, InvParts, FetchMoves DEF NamePlaces, Fetching
    <3>4. MainTypes' /\ EnvTypes' /\ GetTypes'
      BY <2>1, InvParts, RestStays DEF GetTypes
    <3>5. QED
      BY <2>3, <2>4, <3>2, <3>3, <3>4, Collect
  <2>6. CASE u \notin Names
    <3>1. UNCHANGED entry
      BY <2>1, <2>6 DEF Unlocked
    <3>2. EntryInv'
      BY <2>1, <2>6, <3>1, UserMoves
    <3>3. CacheTypes' /\ MainTypes' /\ EnvTypes' /\ GetTypes'
      BY <2>1, <3>1, InvParts, RestStays DEF GetTypes, CacheTypes
    <3>4. QED
      BY <2>3, <2>4, <3>2, <3>3, Collect
  <2>7. QED
    BY <2>5, <2>6
<1>6. QED
  BY <1>3, <1>4, <1>5 DEF Connection

LEMMA OfferInv ==
  ASSUME IInv, NEW h \in Handles, OfferWaits(h) \/ OfferEnds(h)
  PROVE  IInv'
<1>1. PICK to \in {"none", "pooled"} :
        /\ handle[h] # "held" /\ handle' = [handle EXCEPT ![h] = to]
        /\ nil' = nil \/ nil' = [nil EXCEPT ![h] = FALSE]
        /\ UNCHANGED <<sem, held, at, cacheVars, get, mainVars, envVars>>
  BY DEF OfferWaits, OfferEnds
<1>2. PoolTypes' /\ PoolInv'
  BY <1>1, InvParts, PoolOffers DEF PoolTypes
<1>3. AtTypes' /\ PlacesOK' /\ CacheTypes' /\ GetTypes' /\ MainTypes' /\ EnvTypes'
  BY <1>1, InvParts, RestStays DEF AtTypes, PlacesOK, CacheTypes, GetTypes
<1>4. VersionTypes' /\ \A n \in Names : server.version[n] <= server.version[n]'
  BY <1>1, InvParts DEF VersionTypes
<1>5. EntryInv'
  BY <1>1, <1>4, InvParts, EntriesStay DEF Same
<1>6. QED
  BY <1>2, <1>3, <1>5, Collect

LEMMA JobInv ==
  ASSUME IInv, NEW j \in Jobs, JobCalls(j) \/ JobReturns(j)
  PROVE  IInv'
<1>1. j \in Users /\ j \notin Names /\ j # Syncer
  BY UsersApart
<1>2. PICK to \in {"acquire", "idle"} :
        /\ Goto(j, to) /\ UNCHANGED <<cacheVars, get, mainVars, envVars>>
        /\ \/ at[j] = "idle" /\ UNCHANGED poolVars
           \/ at[j] = "call" /\ Return(j)
  BY DEF JobCalls, JobReturns
<1>3. AtTypes' /\ PlacesOK'
  BY <1>1, <1>2, InvParts, PlacesMove DEF JobPlaces
<1>4. PoolTypes' /\ PoolInv'
  <2>1. at'[j] = to /\ \A v \in Users : v # j => at'[v] = at[v]
    BY <1>1, <1>2, InvParts DEF Goto, AtTypes
  <2>2. CASE at[j] = "idle" /\ UNCHANGED poolVars
    BY <1>2, <2>1, <2>2, InvParts, PoolStays DEF Connects
  <2>3. CASE at[j] = "call" /\ Return(j)
    BY <1>1, <1>2, <2>1, <2>3, InvParts, PoolReturns DEF Connects
  <2>4. QED
    BY <1>2, <2>2, <2>3
<1>5. CacheTypes' /\ GetTypes' /\ MainTypes' /\ EnvTypes'
  BY <1>2, InvParts, RestStays DEF CacheTypes, GetTypes
<1>6. EntryInv'
  BY <1>1, <1>2, UserMoves
<1>7. QED
  BY <1>3, <1>4, <1>5, <1>6, Collect

\* Where a fetch goes, and that the pool does not see it, or sees its call end.
LEMMA StepOfFetch ==
  ASSUME IInv, NEW n \in Names, NEW to \in NamePlaces, at[n] # "idle", Goto(n, to), UNCHANGED config,
         \/ UNCHANGED poolVars /\ at[n] \notin Connects /\ to \notin Connects
         \/ UNCHANGED poolVars /\ at[n] \notin Connects /\ to = "call" /\ config.local
         \/ at[n] = "call" /\ to \notin Connects /\ Return(n)
  PROVE  AtTypes' /\ PlacesOK' /\ PoolTypes' /\ PoolInv'
<1>1. n \in Users /\ n \notin Jobs /\ n # Syncer
  BY UsersApart
<1>2. AtTypes' /\ PlacesOK'
  BY <1>1, InvParts, PlacesMove
<1>3. at'[n] = to /\ \A v \in Users : v # n => at'[v] = at[v]
  BY <1>1, InvParts DEF Goto, AtTypes
<1>4. CASE UNCHANGED poolVars /\ at[n] \notin Connects /\ to \notin Connects
  <2>1. \A v \in Users : at'[v] = at[v] \/ (at[v] \notin Connects /\ at'[v] \notin Connects)
    BY <1>3, <1>4
  <2>2. PoolTypes /\ PoolInv
    BY InvParts
  <2>3. QED
    BY <1>2, <1>4, <2>1, <2>2, PoolStays
<1>5. CASE UNCHANGED poolVars /\ at[n] \notin Connects /\ to = "call" /\ config.local
  <2>1. \A v \in Users : at'[v] = at[v] \/ (at[v] \notin Connects /\ at'[v] = "call" /\ config.local /\ v \in Names)
    BY <1>3, <1>5
  <2>2. PoolTypes /\ PoolInv
    BY InvParts
  <2>3. QED
    BY <1>2, <1>5, <2>1, <2>2, PoolStays
<1>6. CASE at[n] = "call" /\ to \notin Connects /\ Return(n)
  <2>1. \A v \in Users : v # n => at'[v] = at[v] \/ (at[v] \notin Connects /\ at'[v] \notin Connects)
    BY <1>3
  <2>2. PoolTypes /\ PoolInv
    BY InvParts
  <2>3. at'[n] \notin Connects
    BY <1>3, <1>6
  <2>4. QED
    BY <1>1, <1>2, <1>6, <2>1, <2>2, <2>3, PoolReturns
<1>7. QED
  BY <1>2, <1>4, <1>5, <1>6

LEMMA RefreshInv ==
  ASSUME IInv, NEW n \in Names, Refresh(n)
  PROVE  IInv'
<1>1. /\ at[n] = "refresh" /\ entry' = [entry EXCEPT ![get[n].entry].lock = TRUE]
      /\ UNCHANGED <<poolVars, cache, mapLock, get, mainVars, envVars>>
  BY DEF Refresh
<1>2. PICK to \in {"call", "acquire"} : Goto(n, to) /\ (to = "call" => config.local)
  BY DEF Refresh
<1>3. AtTypes' /\ PlacesOK' /\ PoolTypes' /\ PoolInv'
  BY <1>1, <1>2, StepOfFetch DEF NamePlaces, Connects
<1>4. get[n].entry \in Entries
  BY <1>1, InvParts, Parts DEF EntryInv, Own
<1>5. CacheTypes' /\ \A e \in Entries : Same(e)
  BY <1>1, <1>4, InvParts, LockedEntry DEF CacheTypes
<1>6. EntryInv'
  BY <1>1, <1>2, <1>5, InvParts, FetchMoves DEF NamePlaces, Fetching
<1>7. GetTypes' /\ MainTypes' /\ EnvTypes'
  BY <1>1, InvParts, RestStays DEF GetTypes
<1>8. QED
  BY <1>3, <1>5, <1>6, <1>7, Collect

\* A call ends with the entry as it was.
LEMMA CallEndsInv ==
  ASSUME IInv, NEW n \in Names, NotModified(n) \/ FetchFails(n)
  PROVE  IInv'
<1>1. /\ at[n] = "call" /\ Return(n) /\ entry' = [entry EXCEPT ![get[n].entry].lock = FALSE]
      /\ UNCHANGED <<cache, mapLock, get, mainVars, server, changes, config>>
      /\ faults' = faults + 1 \/ UNCHANGED faults
  BY DEF NotModified, FetchFails, Unlocked, Fault
<1>2. PICK to \in {"store", "fields", "free", "drop"} :
        /\ Goto(n, to)
        /\ to \in {"store", "fields"} => entry[get[n].entry].modtime = server.version[n]
        /\ to \in {"store", "free"} <=> get[n].new
  BY DEF NotModified, FetchFails, Fails
<1>3. AtTypes' /\ PlacesOK' /\ PoolTypes' /\ PoolInv'
  BY <1>1, <1>2, StepOfFetch DEF NamePlaces, Connects
<1>4. get[n].entry \in Entries
  BY <1>1, InvParts, Parts DEF EntryInv, Own
<1>5. CacheTypes' /\ \A e \in Entries : Same(e)
  BY <1>1, <1>4, InvParts, LockedEntry DEF CacheTypes
<1>6. EntryInv'
  BY <1>1, <1>2, <1>5, InvParts, FetchMoves DEF NamePlaces, Fetching
<1>7. GetTypes' /\ MainTypes' /\ EnvTypes'
  BY <1>1, InvParts, RestStays DEF GetTypes
<1>8. QED
  BY <1>3, <1>5, <1>6, <1>7, Collect

\* A call ends with the PPD in the entry, or with its time alone.
LEMMA CallWritesInv ==
  ASSUME IInv, NEW n \in Names, Fetched(n) \/ ParseFails(n)
  PROVE  IInv'
<1> DEFINE e == get[n].entry
<1>1. /\ at[n] = "call" /\ Return(n)
      /\ UNCHANGED <<cache, mapLock, get, mainVars, server, changes, config>>
      /\ faults' = faults + 1 \/ UNCHANGED faults
  BY DEF Fetched, ParseFails, Fault, NoFault
<1>2. e \in Entries /\ entry[e] \in PPDEntry /\ server.version[n] \in {0} \cup Versions
  BY <1>1, InvParts, Parts DEF EntryInv, Own, CacheTypes
<1>3. CASE Fetched(n)
  <2> DEFINE v == [freed |-> entry[e].freed, lock |-> FALSE,
                   modtime |-> server.version[n], description |-> server.version[n]]
  <2>1. /\ v \in PPDEntry /\ v.freed = entry[e].freed
        /\ v.modtime = server.version[n] /\ v.description = server.version[n]
    BY <1>2 DEF PPDEntry
  <2>2. entry' = [entry EXCEPT ![e] = v]
    BY <1>3 DEF Fetched
  <2> HIDE DEF v
  <2>3. PICK to \in {"store", "fields"} : Goto(n, to) /\ (to = "store" <=> get[n].new)
    BY <1>3 DEF Fetched
  <2>4. AtTypes' /\ PlacesOK' /\ PoolTypes' /\ PoolInv'
    BY <1>1, <2>3, StepOfFetch DEF NamePlaces, Connects
  <2>5. CacheTypes' /\ EntryInv'
    BY <1>1, <2>1, <2>2, <2>3, InvParts, FetchWrites
  <2>6. GetTypes' /\ MainTypes' /\ EnvTypes'
    BY <1>1, InvParts, RestStays DEF GetTypes
  <2>7. QED
    BY <2>4, <2>5, <2>6, Collect
<1>4. CASE ParseFails(n)
  <2> DEFINE v == [entry[e] EXCEPT !.modtime = server.version[n], !.lock = FALSE]
  <2>1. v \in PPDEntry /\ v.freed = entry[e].freed
    BY <1>2 DEF PPDEntry
  <2>2. entry' = [entry EXCEPT ![e] = v]
    BY <1>2, <1>4, InvParts DEF ParseFails, CacheTypes
  <2> HIDE DEF v
  <2>3. PICK to \in {"free", "drop"} : Goto(n, to) /\ (to = "free" <=> get[n].new)
    BY <1>4 DEF ParseFails, Fails
  <2>4. AtTypes' /\ PlacesOK' /\ PoolTypes' /\ PoolInv'
    BY <1>1, <2>3, StepOfFetch DEF NamePlaces, Connects
  <2>5. CacheTypes' /\ EntryInv'
    BY <1>1, <2>1, <2>2, <2>3, InvParts, FetchWrites
  <2>6. GetTypes' /\ MainTypes' /\ EnvTypes'
    BY <1>1, InvParts, RestStays DEF GetTypes
  <2>7. QED
    BY <2>4, <2>5, <2>6, Collect
<1>5. QED
  BY <1>3, <1>4

\* The steps of a fetch outside its call.
LEMMA FetchInv ==
  ASSUME IInv, NEW n \in Names,
         Lookup(n) \/ Store(n) \/ GetFields(n) \/ DropBegins(n) \/ DropEnds(n) \/ Free(n)
  PROVE  IInv'
<1>1. PICK to \in {"refresh", "idle", "dropping", "free"} :
        /\ Goto(n, to) /\ at[n] \notin Connects \cup {"idle"}
        /\ UNCHANGED <<poolVars, mapLock, started, found, known, quitting, envVars>>
  BY DEF Lookup, Store, GetFields, DropBegins, DropEnds, Free, Connects
<1>2. crashed' \in BOOLEAN
  BY InvParts DEF Lookup, Store, GetFields, DropBegins, DropEnds, Free, Access, MainTypes
<1>3. AtTypes' /\ PlacesOK' /\ PoolTypes' /\ PoolInv'
  BY <1>1, StepOfFetch DEF NamePlaces, Connects
<1>4. MainTypes' /\ EnvTypes'
  BY <1>1, <1>2, InvParts DEF MainTypes, EnvTypes, VersionsBounded
<1>5. CacheTypes' /\ GetTypes' /\ EntryInv'
  <2>1. CASE Lookup(n)
    BY <2>1, InvParts, LookupInv
  <2>2. CASE Store(n)
    BY <2>2, InvParts, StoreInv
  <2>3. CASE GetFields(n)
    BY <2>3, InvParts, GetFieldsInv
  <2>4. CASE DropBegins(n)
    <3>1. /\ at[n] = "drop" /\ Goto(n, "dropping")
          /\ UNCHANGED <<cacheVars, get, server, quitting>>
      BY <2>4 DEF DropBegins
    <3>2. ~get[n].new
      BY <3>1, InvParts DEF EntryInv, Own
    <3>3. EntryInv'
      BY <3>1, <3>2, InvParts, FetchMoves DEF NamePlaces, Fetching, Same
    <3>4. QED
      BY <3>1, <3>3, InvParts DEF CacheTypes, GetTypes
  <2>5. CASE DropEnds(n)
    BY <2>5, InvParts, DropEndsInv DEF DropEnds, GetTypes
  <2>6. CASE Free(n)
    BY <2>6, InvParts, FreeInv
  <2>7. QED
    BY <2>1, <2>2, <2>3, <2>4, <2>5, <2>6
<1>6. QED
  BY <1>3, <1>4, <1>5, Collect

\* The syncing goroutine asks, fails, or waits no longer.
LEMMA SyncMovesInv ==
  ASSUME IInv, GetPrinters \/ ResponseFails \/ GetPrintersReturns
  PROVE  IInv'
<1>1. Syncer \in Users /\ Syncer \notin Names /\ Syncer \notin Jobs
  BY UsersApart
<1>2. PICK to \in {"acquire", "idle", "apply"} :
        /\ Goto(Syncer, to) /\ UNCHANGED <<cacheVars, get, mainVars, server, changes, config>>
        /\ faults' = faults + 1 \/ UNCHANGED faults
        /\ \/ at[Syncer] \notin Connects /\ UNCHANGED poolVars
           \/ at[Syncer] = "call" /\ Return(Syncer)
  BY DEF GetPrinters, ResponseFails, GetPrintersReturns, Fault, Connects
<1>3. \A n \in Names : at[n] = "idle"
  BY InvParts DEF GetPrinters, ResponseFails, GetPrintersReturns, PlacesOK
<1>4. AtTypes' /\ PlacesOK'
  BY <1>1, <1>2, <1>3, InvParts, PlacesMove DEF SyncPlaces
<1>5. PoolTypes' /\ PoolInv'
  <2>1. at'[Syncer] = to /\ \A v \in Users : v # Syncer => at'[v] = at[v]
    BY <1>1, <1>2, InvParts DEF Goto, AtTypes
  <2>2. to \notin Connects
    BY DEF Connects
  <2>3. CASE at[Syncer] \notin Connects /\ UNCHANGED poolVars
    BY <1>2, <2>1, <2>2, <2>3, InvParts, PoolStays
  <2>4. CASE at[Syncer] = "call" /\ Return(Syncer)
    BY <1>1, <1>2, <2>1, <2>2, <2>4, InvParts, PoolReturns
  <2>5. QED
    BY <1>2, <2>3, <2>4
<1>6. CacheTypes' /\ GetTypes' /\ MainTypes' /\ EnvTypes'
  BY <1>2, InvParts, RestStays DEF CacheTypes, GetTypes
<1>7. EntryInv'
  BY <1>1, <1>2, UserMoves
<1>8. QED
  BY <1>4, <1>5, <1>6, <1>7, Collect

\* The response starts a fetch for each printer.
LEMMA ResponseInv ==
  ASSUME IInv, Response
  PROVE  IInv'
<1>1. Syncer \in Users /\ Syncer \notin Names /\ Syncer \notin Jobs
  BY UsersApart
<1>2. /\ at[Syncer] = "call" /\ Return(Syncer) /\ started' = TRUE
      /\ UNCHANGED <<cacheVars, known, quitting, crashed, envVars>>
  BY DEF Response
<1>3. \A n \in Names : at[n] = "idle"
  BY <1>2, InvParts DEF PlacesOK
<1>4. CASE ~started
  <2>1. Goto(Syncer, "idle") /\ UNCHANGED <<get, found>>
    BY <1>4 DEF Response
  <2>2. AtTypes' /\ PlacesOK'
    BY <1>1, <1>3, <2>1, InvParts, PlacesMove DEF SyncPlaces
  <2>3. at'[Syncer] = "idle" /\ \A v \in Users : v # Syncer => at'[v] = at[v]
    BY <1>1, <2>1, InvParts DEF Goto, AtTypes
  <2>4. PoolTypes' /\ PoolInv'
    BY <1>1, <1>2, <2>3, InvParts, PoolReturns DEF Connects
  <2>5. CacheTypes' /\ GetTypes' /\ MainTypes' /\ EnvTypes'
    BY <1>2, <2>1, InvParts DEF CacheTypes, GetTypes, MainTypes, EnvTypes, VersionsBounded
  <2>6. EntryInv'
    BY <1>1, <1>2, <2>1, UserMoves
  <2>7. QED
    BY <2>2, <2>4, <2>5, <2>6, Collect
<1>5. CASE started
  <2>1. /\ found' = server.printers /\ server.printers \subseteq Names
        /\ at' = [u \in Users |-> IF u = Syncer THEN "wait"
                                  ELSE IF u \in server.printers THEN "lookup" ELSE at[u]]
        /\ get' = [n \in Names |-> IF n \in server.printers
                                   THEN [NoFetch EXCEPT !.since = server.version[n]] ELSE get[n]]
    BY <1>5, InvParts DEF Response, EnvTypes
  <2>2. \A n \in Names : n \in Users /\ n # Syncer /\ at'[n] \in {"idle", "lookup"}
    BY <1>1, <1>3, <2>1, UsersApart
  <2>3. AtTypes' /\ PlacesOK'
    <3>1. AtTypes'
      BY <2>1, InvParts DEF AtTypes, NamePlaces, SyncPlaces
    <3>2. \A j \in Jobs : at'[j] = at[j]
      BY <2>1, UsersApart
    <3>3. at'[Syncer] = "wait"
      BY <1>1, <2>1
    <3>4. QED
      BY <2>2, <3>1, <3>2, <3>3, InvParts DEF PlacesOK
  <2>4. PoolTypes' /\ PoolInv'
    <3>1. at'[Syncer] = "wait"
      BY <1>1, <2>1
    <3>2. \A v \in Users : v # Syncer => at'[v] = at[v] \/ (at[v] \notin Connects /\ at'[v] \notin Connects)
      BY <1>3, <2>1 DEF Connects
    <3>3. QED
      BY <1>1, <1>2, <3>1, <3>2, InvParts, PoolReturns DEF Connects
  <2>5. ASSUME NEW n \in Names
        PROVE  /\ get'[n] \in Fetch /\ get'[n].entry = None
               /\ get'[n].since <= server.version[n]
               /\ get'[n].answer # 0 => get'[n].answer >= get'[n].since
    <3>1. server.version[n] \in Versions /\ server.version[n] \in Nat
      BY InvParts DEF VersionTypes
    <3>2. CASE n \in server.printers
      <4>1. get'[n] = [entry |-> None, new |-> FALSE, since |-> server.version[n], answer |-> 0]
        BY <2>1, <3>2 DEF NoFetch
      <4>2. QED
        BY <3>1, <4>1 DEF Fetch
    <3>3. CASE n \notin server.printers
      <4>1. get'[n] = get[n]
        BY <2>1, <3>3
      <4>2. get[n] \in Fetch /\ Own(n) /\ Sound(n)
        BY InvParts DEF GetTypes, EntryInv
      <4>3. QED
        BY <1>3, <4>1, <4>2 DEF Own, Sound
    <3>4. QED
      BY <3>2, <3>3
  <2>6. GetTypes'
    BY <2>1, <2>5 DEF GetTypes
  <2>7. EntryInv'
    BY <1>2, <1>3, <2>2, <2>5, <2>6, InvParts, RoundInv
  <2>8. CacheTypes' /\ MainTypes' /\ EnvTypes'
    BY <1>2, <2>1, InvParts DEF CacheTypes, MainTypes, EnvTypes, VersionsBounded
  <2>9. QED
    BY <2>3, <2>4, <2>6, <2>7, <2>8, Collect
<1>6. QED
  BY <1>4, <1>5

LEMMA SyncEndsInv ==
  ASSUME IInv, SyncEnds
  PROVE  IInv'
<1>1. Syncer \in Users /\ Syncer \notin Names /\ Syncer \notin Jobs
  BY UsersApart
<1>2. /\ at[Syncer] = "apply" /\ Goto(Syncer, "idle") /\ get' = [n \in Names |-> NoFetch]
      /\ known' = Result /\ found' = {}
      /\ UNCHANGED <<poolVars, cacheVars, started, quitting, crashed, envVars>>
  BY DEF SyncEnds
<1>3. \A n \in Names : at[n] = "idle" /\ n \in Users /\ n # Syncer
  BY <1>2, InvParts, UsersApart DEF PlacesOK
<1>4. AtTypes' /\ PlacesOK'
  BY <1>1, <1>2, <1>3, InvParts, PlacesMove DEF SyncPlaces
<1>5. at'[Syncer] = "idle" /\ \A v \in Users : v # Syncer => at'[v] = at[v]
  BY <1>1, <1>2, InvParts DEF Goto, AtTypes
<1>6. PoolTypes' /\ PoolInv'
  BY <1>2, <1>5, InvParts, PoolStays DEF Connects
<1>7. GetTypes' /\ \A n \in Names : get'[n].entry = None /\ get'[n].since = 0 /\ get'[n].answer = 0
  BY <1>2 DEF GetTypes, NoFetch, Fetch
<1>8. \A n \in Names : 0 <= server.version[n]
  BY InvParts DEF VersionTypes
<1>9. EntryInv'
  BY <1>2, <1>3, <1>5, <1>7, <1>8, InvParts, RoundInv
<1>10. CacheTypes' /\ MainTypes' /\ EnvTypes'
  BY <1>2, InvParts DEF CacheTypes, MainTypes, EnvTypes, VersionsBounded, Result
<1>11. QED
  BY <1>4, <1>6, <1>7, <1>9, <1>10, Collect

\* The manager or Quit removes a cached entry, or Quit begins or ends.
LEMMA RemovalInv ==
  ASSUME IInv, QuitStarts \/ QuitEnds \/ \E n \in Names : RemovePPD(n) \/ QuitFrees(n)
  PROVE  IInv'
<1>1. /\ UNCHANGED <<poolVars, at, get, started, found, envVars>>
      /\ quitting' \in {quitting, "frees", "done"}
      /\ mapLock' \in BOOLEAN /\ crashed' \in BOOLEAN /\ known' \subseteq Names
  BY InvParts DEF QuitStarts, QuitEnds, RemovePPD, QuitFrees, Access, MainTypes
<1>2. AtTypes' /\ PlacesOK' /\ PoolTypes' /\ PoolInv' /\ GetTypes'
  BY <1>1, InvParts, PoolStays DEF AtTypes, PlacesOK, GetTypes
<1>3. MainTypes' /\ EnvTypes'
  BY <1>1, InvParts DEF MainTypes, EnvTypes, VersionsBounded
<1>4. CASE UNCHANGED <<cache, entry>>
  <2>1. VersionTypes' /\ \A n \in Names : server.version[n] <= server.version[n]'
    BY <1>1, InvParts DEF VersionTypes
  <2>2. EntryInv'
    BY <1>1, <1>4, <2>1, InvParts, EntriesStay DEF Same
  <2>3. QED
    BY <1>2, <1>3, <1>4, <2>2, InvParts, Collect DEF CacheTypes
<1>5. ASSUME NEW n \in Names, RemovePPD(n) \/ QuitFrees(n), ~UNCHANGED <<cache, entry>>
      PROVE  IInv'
  <2>1. /\ cache[n] # None /\ entry' = Freed(cache[n]) /\ cache' = [cache EXCEPT ![n] = None]
        /\ UNCHANGED quitting
    BY <1>5 DEF RemovePPD, QuitFrees
  <2>2. quitting # "no" \/ \A m \in Names : get[m].entry = None
    <3>1. CASE QuitFrees(n)
      BY <3>1 DEF QuitFrees
    <3>2. CASE RemovePPD(n)
      BY <3>2, InvParts DEF RemovePPD, PlacesOK, EntryInv, Own
    <3>3. QED
      BY <1>5, <3>1, <3>2
  <2>3. CacheTypes' /\ EntryInv'
    BY <1>1, <2>1, <2>2, InvParts, Uncached
  <2>4. QED
    BY <1>2, <1>3, <2>3, Collect
<1>6. QED
  BY <1>4, <1>5 DEF QuitStarts, QuitEnds

LEMMA ServerInv ==
  ASSUME IInv, NEW n \in Names, ServerChanges(n)
  PROVE  IInv'
<1>1. /\ changes < config.changes /\ changes' = changes + 1
      /\ UNCHANGED <<poolVars, at, cacheVars, get, mainVars, faults, config>>
  BY DEF ServerChanges
<1>2. /\ server \in [version : [Names -> Versions], broken : SUBSET Names, printers : SUBSET Names]
      /\ changes \in Nat /\ config.changes \in 0 .. MaxChanges /\ MaxChanges \in Nat
      /\ server.version[n] \in Nat /\ server.version[n] <= changes + 1
  BY InvParts, ConstantsAssumption DEF EnvTypes, VersionsBounded, VersionTypes
<1>3. server.version[n] + 1 \in Versions
  BY <1>1, <1>2 DEF Versions
<1> DEFINE up == [server.version EXCEPT ![n] = server.version[n] + 1]
<1>4. PICK v \in {server.version, up}, b \in SUBSET Names, p \in SUBSET Names :
        server' = [version |-> v, broken |-> b, printers |-> p]
  <2> DEFINE flip == IF n \in server.printers THEN server.printers \ {n} ELSE server.printers \cup {n}
  <2>1. /\ server = [version |-> server.version, broken |-> server.broken, printers |-> server.printers]
        /\ server.broken \subseteq Names /\ server.printers \subseteq Names
    BY <1>2
  <2>2. \/ server' = [server EXCEPT !.version = up, !.broken = server.broken \ {n}]
        \/ server' = [server EXCEPT !.version = up, !.broken = server.broken \cup {n}]
        \/ server' = [server EXCEPT !.printers = flip]
    BY <1>2 DEF ServerChanges
  <2>3. flip \subseteq Names
    BY <2>1
  <2> HIDE DEF up, flip
  <2>4. CASE server' = [server EXCEPT !.version = up, !.broken = server.broken \ {n}]
    <3>1. server' = [version |-> up, broken |-> server.broken \ {n}, printers |-> server.printers]
      BY <2>1, <2>4
    <3>2. server.broken \ {n} \in SUBSET Names
      BY <2>1
    <3>3. QED
      BY <2>1, <3>1, <3>2
  <2>5. CASE server' = [server EXCEPT !.version = up, !.broken = server.broken \cup {n}]
    <3>1. server' = [version |-> up, broken |-> server.broken \cup {n}, printers |-> server.printers]
      BY <2>1, <2>5
    <3>2. server.broken \cup {n} \in SUBSET Names
      BY <2>1
    <3>3. QED
      BY <2>1, <3>1, <3>2
  <2>6. CASE server' = [server EXCEPT !.printers = flip]
    <3>1. server' = [version |-> server.version, broken |-> server.broken, printers |-> flip]
      BY <2>1, <2>6
    <3>2. QED
      BY <2>1, <2>3, <3>1
  <2>7. QED
    BY <2>2, <2>4, <2>5, <2>6
<1>5. /\ v \in [Names -> Versions]
      /\ \A m \in Names : v[m] = server.version[m] \/ (m = n /\ v[m] = server.version[m] + 1)
  <2>1. server.version \in [Names -> Versions]
    BY <1>2
  <2>2. up \in [Names -> Versions] /\ \A m \in Names : m # n => up[m] = server.version[m]
    BY <1>3, <2>1
  <2>3. up[n] = server.version[n] + 1
    BY <2>1
  <2> HIDE DEF up
  <2>4. CASE v = up
    BY <1>2, <2>2, <2>3, <2>4
  <2>5. QED
    BY <1>4, <2>1, <2>4
<1> HIDE DEF up
<1>6. EnvTypes'
  <2>1. \A m \in Names : server.version[m] <= changes + 1 /\ server.version[m] \in Nat
    BY InvParts DEF EnvTypes, VersionsBounded, VersionTypes
  <2>2. \A m \in Names : v[m] <= changes' + 1
    BY <1>1, <1>2, <1>5, <2>1
  <2>3. server' \in [version : [Names -> Versions], broken : SUBSET Names, printers : SUBSET Names]
    BY <1>4, <1>5
  <2>4. QED
    BY <1>1, <1>2, <1>4, <2>2, <2>3, InvParts DEF EnvTypes, VersionsBounded
<1>7. VersionTypes' /\ \A m \in Names : server.version[m] <= server.version[m]'
  BY <1>2, <1>4, <1>5, InvParts DEF VersionTypes
<1>8. EntryInv'
  BY <1>1, <1>7, InvParts, EntriesStay DEF Same
<1>9. PoolTypes' /\ PoolInv' /\ AtTypes' /\ PlacesOK' /\ CacheTypes' /\ GetTypes' /\ MainTypes'
  BY <1>1, InvParts, PoolStays DEF AtTypes, PlacesOK, CacheTypes, GetTypes, MainTypes
<1>10. QED
  BY <1>6, <1>8, <1>9, Collect

LEMMA InitInv ==
  ASSUME Init
  PROVE  IInv
<1>1. 1 \in Versions /\ config.names \subseteq Names /\ config.changes \in Nat
  BY ConstantsAssumption DEF Init, Versions
<1>2. TypeOK
  <2>1. /\ config \in Configs /\ started \in BOOLEAN /\ sem \in 0 .. MaxConnections
        /\ handle \in [Handles -> {"none", "held", "offered", "pooled"}]
        /\ nil \in [Handles -> BOOLEAN] /\ held \in [Users -> Handles \cup {None}]
    <3>1. /\ config \in Configs /\ started = FALSE /\ sem = 0
          /\ handle = [h \in Handles |-> "none"] /\ nil = [h \in Handles |-> FALSE]
          /\ held = [u \in Users |-> None]
      BY DEF Init
    <3>2. 0 \in 0 .. MaxConnections
      BY ConstantsAssumption
    <3>3. QED
      BY <3>1, <3>2
  <2>2. at \in [Users -> {"idle", "lookup", "refresh", "acquire", "connect", "call",
                          "store", "fields", "drop", "dropping", "free", "wait", "apply", "end"}]
    BY DEF Init
  <2>3. cache \in [Names -> Entries \cup {None}] /\ entry \in [Entries -> PPDEntry]
    BY DEF Init, NoEntry, PPDEntry
  <2>4. get \in [Names -> Fetch]
    BY DEF Init, NoFetch, Fetch
  <2>5. /\ found \subseteq Names /\ known \subseteq Names /\ mapLock \in BOOLEAN /\ crashed \in BOOLEAN
        /\ quitting \in {"no", "frees", "done"} /\ changes \in Nat /\ faults \in Nat
    <3>1. /\ found = {} /\ known = {} /\ mapLock = FALSE /\ quitting = "no" /\ crashed = FALSE
          /\ changes = 0 /\ faults = 0
      BY DEF Init
    <3>2. QED
      BY <3>1
  <2>6. server \in [version : [Names -> Versions], broken : SUBSET Names, printers : SUBSET Names]
    BY <1>1 DEF Init
  <2>7. QED
    BY <2>1, <2>2, <2>3, <2>4, <2>5, <2>6 DEF TypeOK
<1>3. /\ \A n \in Names : at[n] = "idle" /\ held[n] = None
      /\ \A j \in Jobs : at[j] = "idle"
      /\ at[Syncer] = "acquire"
      /\ \A u \in Users : at[u] \in {"idle", "acquire"} /\ held[u] = None
  BY UsersApart DEF Init
<1>4. PlacesOK
  BY <1>3 DEF PlacesOK
<1>5. PoolInv
  <2>1. Counted = {}
    BY <1>3 DEF Counted, Connected
  <2>2. sem = Cardinality(Counted)
    BY <2>1, FS_EmptySet DEF Init
  <2>3. \A h \in Handles : handle[h] # "held" /\ h # None
    BY ConstantsAssumption DEF Init, None
  <2>4. QED
    BY <1>3, <2>2, <2>3 DEF PoolInv, PoolExact, Counted
<1>6. VersionsBounded
  BY <1>1 DEF Init, VersionsBounded
<1>7. EntryInv
  <2>1. \A n \in Names : /\ cache[n] = None /\ at[n] = "idle" /\ server.version[n] = 1
                         /\ get[n].entry = None /\ get[n].since = 0 /\ get[n].answer = 0
    BY <1>3 DEF Init, NoFetch
  <2>2. \A e \in Entries : entry[e].freed
    BY DEF Init, NoEntry
  <2>3. OneOwner /\ Alive /\ Kept
    BY <2>1, <2>2 DEF OneOwner, Alive, Kept
  <2>4. \A n \in Names : Own(n) /\ Sound(n)
    BY <2>1 DEF Own, Sound, Fetching
  <2>5. QED
    BY <2>3, <2>4 DEF EntryInv
<1>8. QED
  BY <1>2, <1>4, <1>5, <1>6, <1>7 DEF IInv

LEMMA StepInv ==
  ASSUME IInv, [Next]_vars
  PROVE  IInv'
<1>1. CASE UNCHANGED vars
  <2>1. UNCHANGED <<poolVars, at, cacheVars, get, mainVars, envVars>>
    BY <1>1 DEF vars
  <2>2. AtTypes' /\ PlacesOK' /\ CacheTypes' /\ GetTypes' /\ MainTypes' /\ EnvTypes'
    BY <2>1, InvParts, RestStays DEF AtTypes, PlacesOK, CacheTypes, GetTypes
  <2>3. PoolTypes' /\ PoolInv'
    BY <2>1, InvParts, PoolStays
  <2>4. VersionTypes' /\ \A n \in Names : server.version[n] <= server.version[n]'
    BY <2>1, InvParts DEF VersionTypes
  <2>5. EntryInv'
    BY <2>1, <2>4, InvParts, EntriesStay DEF Same
  <2>6. QED
    BY <2>2, <2>3, <2>5, Collect
<1>2. ASSUME NEW n \in Names, GetPPD(n)
      PROVE  IInv'
  BY <1>2, RefreshInv, CallEndsInv, CallWritesInv, FetchInv DEF GetPPD
<1>3. CASE Sync
  BY <1>3, SyncMovesInv, ResponseInv, SyncEndsInv, RemovalInv DEF Sync
<1>4. CASE QuitStarts \/ QuitEnds \/ \E n \in Names : QuitFrees(n)
  BY <1>4, RemovalInv
<1>5. QED
  BY <1>1, <1>2, <1>3, <1>4, ConnectionInv, OfferInv, JobInv, ServerInv DEF Next

-----------------------------------------------------------------------------
(* The theorems *)

\* The invariant holds of every behaviour.
THEOREM InvariantHolds == Spec => []IInv
<1>1. IInv /\ [Next]_vars => IInv'
  BY StepInv
<1>2. Init => IInv
  BY InitInv
<1>3. QED
  BY <1>1, <1>2, PTL DEF Spec

\* Each variable keeps its type; in particular the semaphore stays within its
\* bounds.  (All of cups/core.go and cups/ppdcache.go that is modelled.)
THEOREM TypeCorrect == Spec => []TypeOK
<1>1. IInv => TypeOK
  BY DEF IInv
<1>2. QED
  BY <1>1, InvariantHolds, PTL

\* The semaphore counts the calls that have a connection or are getting one,
\* and a connection is used by one call at a time and never offered or closed
\* while it is.  (cupsCore.connect, disconnect.)
THEOREM PoolIsExact == Spec => []PoolExact
<1>1. IInv => PoolExact
  BY DEF IInv, PoolInv
<1>2. QED
  BY <1>1, InvariantHolds, PTL

\* While the connector runs, nobody finds or works with a cache entry that has
\* been freed, whoever else drops entries meanwhile.  (ppdCache.)
THEOREM NoFreedEntryInUse == Spec => []EntriesAlive
<1>1. IInv => EntriesAlive
  <2> SUFFICES ASSUME IInv, quitting = "no", NEW e \in Entries, NEW n \in Names, cache[n] = e \/ Uses(n, e)
               PROVE  ~entry[e].freed
    BY DEF EntriesAlive
  <2>1. e # None /\ (cache[n] = e \/ get[n].entry = e)
    BY InvParts, Parts DEF Uses
  <2>2. QED
    BY <2>1, InvParts DEF EntryInv, Alive
<1>2. QED
  BY <1>1, InvariantHolds, PTL

\* No error path loses an entry that is not freed.  (ppdCache.)
THEOREM NoEntryLeaks == Spec => []NothingLeaked
<1>1. IInv => NothingLeaked
  <2> SUFFICES ASSUME IInv, NEW e \in Entries, ~entry[e].freed
               PROVE  \E n \in Names : cache[n] = e \/ Uses(n, e)
    BY DEF NothingLeaked
  <2>1. PICK n \in Names : cache[n] = e \/ get[n].entry = e
    BY DEF IInv, EntryInv, Kept
  <2>2. get[n].entry = e => at[n] \notin {"idle", "lookup"}
    BY InvParts, Parts DEF EntryInv, Own
  <2>3. QED
    BY <2>1, <2>2 DEF Uses
<1>2. QED
  BY <1>1, InvariantHolds, PTL

\* A printer is never described by a PPD older than the one the print server
\* had when it was asked, whatever failed before.  (ppdCacheEntry.refresh.)
THEOREM AnswersAreFresh == Spec => []Fresh
<1>1. IInv => Fresh
  BY DEF IInv, EntryInv, Sound, Fresh
<1>2. QED
  BY <1>1, InvariantHolds, PTL
=============================================================================
