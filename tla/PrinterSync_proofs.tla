------------------------- MODULE PrinterSync_proofs -------------------------
(***************************************************************************)
(* Theorems about PrinterSync, for any printers, syncers, configurations   *)
(* and bounds.                                                             *)
(***************************************************************************)
EXTENDS PrinterSync, FiniteSetTheorems, TLAPS

-----------------------------------------------------------------------------
(* The inductive invariant *)

\* GCPIDs in use have been handed out; without a cloud there are none.
IdsIssued ==
  /\ \A i \in Ids : Registered(i) => i <= issued
  /\ \A n \in Names : byName[n] # Absent => byName[n].id <= issued
  /\ \A s \in Syncers : \A t \in work[s] : t.printer.id <= issued
  /\ config.cloud \/ issued = 0

\* The diffs of a sync are about different printers.
TasksDistinct ==
  \A s \in Syncers : \A t, u \in work[s] :
    /\ t.printer.name = u.printer.name => t = u
    /\ t.printer.id \in Ids /\ t.printer.id = u.printer.id => t = u

\* How far a diff can have come, and that a printer without a GCPID is one
\* still to be registered.
TasksAlong ==
  \A s \in Syncers : \A t \in work[s] :
    /\ t.at = "share" => t.op = "register"
    /\ t.op = "nochange" => t.at = "answer"
    /\ t.at = "answer" => t.op # "delete"
    /\ t.at = "gone" => t.op \in {"register", "delete"}
    /\ t.op = "register" /\ t.at \in {"call", "gone"} => t.printer.id = NoId
    /\ config.cloud /\ t.printer.id = NoId => t.op = "register" /\ t.at \in {"call", "gone"}

\* NewPrinterManager syncs once, then publishes printers of the map, and only
\* then lets other syncs start.
Booting ==
  /\ \A s \in Syncers : work[s] # {} => s \in config.syncers
  /\ mode # "run" => \A r, s \in Syncers : work[r] # {} /\ work[s] # {} => r = s
  /\ mode = "publish" => Idle
  /\ mode # "publish" => unpublished = {}
  /\ \A n \in unpublished : byName[n] # Absent

\* A GCPID keeps the name it was registered under.
NamesKept ==
  /\ \A n \in Names : byName[n] # Absent /\ byName[n].id \in Ids /\ Registered(byName[n].id) =>
       cloud[byName[n].id].name = n
  /\ \A s \in Syncers : \A t \in work[s] : t.printer.id \in Ids /\ Registered(t.printer.id) =>
       cloud[t.printer.id].name = t.printer.name

\* A diff that drops its printer has removed it from the cloud or lost it.
DroppedGone ==
  \A s \in Syncers : \A t \in work[s] :
    (t.at = "gone" \/ (t.op = "delete" /\ t.at # "call")) /\ t.printer.id \in Ids =>
      ~Registered(t.printer.id) \/ t.printer.id \in lost

\* A printer that a diff does not delete is in the cloud.
KeptPresent ==
  OneSyncer => \A s \in Syncers : \A t \in work[s] :
    t.op # "delete" /\ t.printer.id \in Ids =>
      Registered(t.printer.id) \/ t.printer.id \in deleted

\* A running sync has every known printer in hand: this is what makes it safe
\* to replace the map when the sync ends.
InHand ==
  OneSyncer => \A i \in Ids \ lost : Registered(i) =>
    \/ Idle /\ \E n \in Names : byName[n] # Absent /\ byName[n].id = i
    \/ \E s \in Syncers : \E t \in work[s] : t.printer.id = i

IInv ==
  /\ TypeOK /\ MapsAgree /\ IdsIssued /\ TasksDistinct /\ TasksAlong /\ Booting
  /\ NamesKept /\ DroppedGone /\ KeptPresent /\ InHand
  /\ NoPhantom /\ OneLivePrinter
-----------------------------------------------------------------------------
(* Facts about the constants and the state *)

LEMMA Bounds ==
  /\ MaxIds \in Nat /\ NoId \notin Ids /\ Ids \subseteq Nat
  /\ Ids \cap Names = {} /\ NoId \notin Names
  /\ Absent \notin Desc /\ Absent \notin Printer /\ Absent \notin Listing /\ Absent \notin Record
  BY ConstantsAssumption, AbsentAssumption DEF Ids, NoId

\* Every configuration has its bounds within the constants.
LEMMA ConfigBounds ==
  ASSUME TypeOK
  PROVE  /\ config.syncers \subseteq Syncers /\ config.ids \in 0 .. MaxIds
         /\ config.cloud \in BOOLEAN /\ config.share \in BOOLEAN /\ config.privet \in BOOLEAN
         /\ config.faults \in Nat /\ config.changes \in Nat /\ config.restarts \in Nat
  BY ConstantsAssumption DEF TypeOK

\* Where there is one syncer, all diffs are those of one sync.
LEMMA SameSyncer ==
  ASSUME TypeOK, OneSyncer, NEW r \in config.syncers, NEW s \in config.syncers
  PROVE  r = s
<1>1. IsFiniteSet(config.syncers)
  BY ConfigBounds, FS_Subset, ConstantsAssumption
<1>2. PICK x : config.syncers = {x}
  BY <1>1, FS_Singleton DEF OneSyncer
<1>3. QED
  BY <1>2

\* The parts of a printer, a record and a diff.
LEMMA PrinterParts ==
  ASSUME NEW p \in Printer
  PROVE  /\ p.name \in Names /\ p.id \in Ids \cup {NoId} /\ p.desc \in Desc
         /\ p.id \in Nat /\ (p.id \notin Ids <=> p.id = NoId)
         /\ [display |-> p.desc.display, id |-> p.id] \in Record
  BY Bounds DEF Printer, Desc, Record, Ids, NoId

LEMMA TaskParts ==
  ASSUME TypeOK, NEW s \in Syncers, NEW t \in work[s]
  PROVE  t \in Task /\ t.printer \in Printer
  BY DEF TypeOK, Task

-----------------------------------------------------------------------------
(* DiffPrinters *)

\* The diff of the printer of one name.
DiffOf(n) ==
  IF byName[n] = Absent
  THEN Diff("register", [name |-> n, id |-> NoId, desc |-> native[n]], {})
  ELSE IF native[n] = Absent
       THEN Diff("delete", byName[n], {})
       ELSE DiffPrinter([name |-> n, id |-> byName[n].id, desc |-> native[n]], byName[n])

Named == {n \in Names : byName[n] # Absent \/ native[n] # Absent}

\* DiffPrinters makes one diff for each name that either side knows, or none
\* at all.
LEMMA OneDiffPerName ==
  ASSUME TypeOK, MapsAgree
  PROVE  CurrentDiffs \in {{}, {DiffOf(n) : n \in Named}}
<1> DEFINE First(ps, n) == CHOOSE p \in ps : p.name = n
           Fresh(n) == [name |-> n, id |-> NoId, desc |-> native[n]]
           Kept == {n \in Names : byName[n] # Absent /\ native[n] # Absent}
           Dead == {n \in Names : byName[n] # Absent /\ native[n] = Absent}
           Born == {n \in Names : byName[n] = Absent /\ native[n] # Absent}
           names == {p.name : p \in NativePrinters}
           both == {DiffPrinter([First(NativePrinters, p.name) EXCEPT !.id = p.id], p) :
                      p \in {q \in GetAll : q.name \in names}}
           old  == {Diff("delete", p, {}) : p \in {q \in GetAll : q.name \notin names}}
           new  == {Diff("register", p, {}) :
                      p \in {q \in NativePrinters : \A g \in GetAll : g.name # q.name}}
<1>1. ASSUME NEW n \in Names, byName[n] # Absent
      PROVE  byName[n] \in GetAll /\ First(GetAll, n) = byName[n] /\ byName[n].name = n
  BY <1>1 DEF MapsAgree, GetAll
<1>2. ASSUME NEW n \in Names, native[n] # Absent
      PROVE  Fresh(n) \in NativePrinters /\ First(NativePrinters, n) = Fresh(n)
  BY <1>2 DEF NativePrinters
<1>3. ASSUME NEW g \in GetAll
      PROVE  \E n \in Names : byName[n] # Absent /\ g = byName[n] /\ g.name = n
  BY <1>1 DEF GetAll
<1>4. ASSUME NEW p \in NativePrinters
      PROVE  \E n \in Names : native[n] # Absent /\ p = Fresh(n) /\ p.name = n
  BY DEF NativePrinters
<1> HIDE DEF First, Fresh
<1>5. {First(GetAll, p.name) : p \in GetAll} = GetAll
  <2>1. \A p \in GetAll : First(GetAll, p.name) = p
    BY <1>1, <1>3
  <2>2. QED
    BY <2>1, Zenon
<1>6. \A n \in Names : n \in names <=> native[n] # Absent
  <2>1. ASSUME NEW n \in Names, native[n] # Absent PROVE n \in names
    <3>1. Fresh(n) \in NativePrinters /\ Fresh(n).name = n
      BY <1>2, <2>1 DEF Fresh
    <3>2. QED
      BY <3>1
  <2>2. QED
    BY <2>1, <1>4
<1>7. both = {DiffOf(n) : n \in Kept}
  <2>1. {q \in GetAll : q.name \in names} = {byName[n] : n \in Kept}
    BY <1>1, <1>3, <1>6
  <2>2. ASSUME NEW n \in Kept
        PROVE  DiffPrinter([First(NativePrinters, byName[n].name) EXCEPT !.id = byName[n].id], byName[n]) = DiffOf(n)
    <3>1. First(NativePrinters, byName[n].name) = Fresh(n)
      BY <1>1, <1>2
    <3>2. [Fresh(n) EXCEPT !.id = byName[n].id] = [name |-> n, id |-> byName[n].id, desc |-> native[n]]
      BY DEF Fresh
    <3>3. [First(NativePrinters, byName[n].name) EXCEPT !.id = byName[n].id]
            = [name |-> n, id |-> byName[n].id, desc |-> native[n]]
      BY <3>1, <3>2, Zenon
    <3>4. DiffOf(n) = DiffPrinter([name |-> n, id |-> byName[n].id, desc |-> native[n]], byName[n])
      BY DEF DiffOf
    <3>5. QED
      BY <3>3, <3>4, Zenon
  <2> DEFINE D(p) == DiffPrinter([First(NativePrinters, p.name) EXCEPT !.id = p.id], p)
  <2>3. \A n \in Kept : D(byName[n]) = DiffOf(n)
    BY <2>2
  <2>4. both = {D(p) : p \in {byName[n] : n \in Kept}}
    BY <2>1, Zenon
  <2> HIDE DEF D, Kept
  <2>5. {D(p) : p \in {byName[n] : n \in Kept}} = {D(byName[n]) : n \in Kept}
    BY SMT
  <2>6. {D(byName[n]) : n \in Kept} = {DiffOf(n) : n \in Kept}
    BY <2>3
  <2>7. QED
    BY <2>4, <2>5, <2>6
<1>8. old = {DiffOf(n) : n \in Dead}
  <2>1. {q \in GetAll : q.name \notin names} = {byName[n] : n \in Dead}
    BY <1>1, <1>3, <1>6
  <2>2. \A n \in Dead : DiffOf(n) = Diff("delete", byName[n], {})
    BY DEF DiffOf
  <2> HIDE DEF Dead
  <2>3. {Diff("delete", p, {}) : p \in {byName[n] : n \in Dead}} = {DiffOf(n) : n \in Dead}
    BY <2>2
  <2>4. QED
    BY <2>1, <2>3, Zenon
<1>9. new = {DiffOf(n) : n \in Born}
  <2>1. {q \in NativePrinters : \A g \in GetAll : g.name # q.name} = {Fresh(n) : n \in Born}
    <3>1. \A n \in Names : Fresh(n).name = n
      BY DEF Fresh
    <3>2. \A n \in Names : byName[n] = Absent <=> \A g \in GetAll : g.name # n
      BY <1>1, <1>3
    <3>3. QED
      BY <1>2, <1>4, <3>1, <3>2
  <2>2. \A n \in Born : DiffOf(n) = Diff("register", Fresh(n), {})
    BY DEF DiffOf, Fresh
  <2> HIDE DEF Born
  <2>3. {Diff("register", p, {}) : p \in {Fresh(n) : n \in Born}} = {DiffOf(n) : n \in Born}
    BY <2>2
  <2>4. QED
    BY <2>1, <2>3, Zenon
<1>10. Named = Kept \cup Dead \cup Born
  BY DEF Named
<1>11. {Diff("delete", p, {}) : p \in GetAll \ GetAll} = {}
  OBVIOUS
<1> HIDE DEF Kept, Dead, Born, both, old, new
<1>12. {Diff("delete", p, {}) : p \in GetAll \ GetAll} \cup both \cup old \cup new = {DiffOf(n) : n \in Named}
  BY <1>7, <1>8, <1>9, <1>10, <1>11
<1>13. QED
  BY <1>5, <1>12, Zenon DEF CurrentDiffs, DiffPrinters, First, both, old, new

\* What the diff of a name is: it carries the GCPID the map has for the name,
\* or none, and starts before its cloud call unless there is nothing to do.
LEMMA DiffParts ==
  ASSUME TypeOK, MapsAgree, NEW n \in Named
  PROVE  /\ DiffOf(n) \in Task /\ DiffOf(n).printer.name = n
         /\ DiffOf(n).at \in {"call", "answer"}
         /\ DiffOf(n).op = "nochange" <=> DiffOf(n).at = "answer"
         /\ IF byName[n] = Absent
            THEN DiffOf(n).op = "register" /\ DiffOf(n).printer.id = NoId
            ELSE DiffOf(n).op # "register" /\ DiffOf(n).printer.id = byName[n].id
<1>1. n \in Names /\ (byName[n] = Absent => native[n] # Absent)
  BY DEF Named
<1>2. CASE byName[n] = Absent
  <2> DEFINE p == [name |-> n, id |-> NoId, desc |-> native[n]]
  <2>1. p \in Printer
    BY <1>1, <1>2 DEF TypeOK, Printer
  <2>2. DiffOf(n) = [op |-> "register", printer |-> p, changed |-> {}, at |-> "call"]
    BY <1>2 DEF DiffOf, Diff
  <2>3. QED
    BY <1>2, <2>1, <2>2 DEF Task
<1>3. CASE byName[n] # Absent /\ native[n] = Absent
  <2>1. byName[n] \in Printer /\ byName[n].name = n
    BY <1>1, <1>3 DEF TypeOK, MapsAgree
  <2>2. DiffOf(n) = [op |-> "delete", printer |-> byName[n], changed |-> {}, at |-> "call"]
    BY <1>3 DEF DiffOf, Diff
  <2>3. QED
    BY <1>3, <2>1, <2>2 DEF Task
<1>4. CASE byName[n] # Absent /\ native[n] # Absent
  <2> DEFINE p == [name |-> n, id |-> byName[n].id, desc |-> native[n]]
             fields == {f \in {"display", "caps"} : p.desc[f] # byName[n].desc[f]}
  <2>1. byName[n] \in Printer /\ byName[n].name = n
    BY <1>1, <1>4 DEF TypeOK, MapsAgree
  <2>2. p \in Printer /\ p.name = n /\ p.id = byName[n].id
    BY <1>1, <1>4, <2>1 DEF TypeOK, Printer
  <2>3. \/ DiffOf(n) = [op |-> "nochange", printer |-> byName[n], changed |-> {}, at |-> "answer"]
        \/ DiffOf(n) = [op |-> "update", printer |-> p, changed |-> fields, at |-> "call"]
    BY <1>4 DEF DiffOf, DiffPrinter, Diff
  <2>4. fields \in SUBSET {"display", "caps"}
    OBVIOUS
  <2> HIDE DEF p, fields
  <2>5. QED
    BY <1>4, <2>1, <2>2, <2>3, <2>4 DEF Task
<1>5. QED
  BY <1>2, <1>3, <1>4

-----------------------------------------------------------------------------
(* The invariant holds initially, and every action preserves it *)

USE DEF cloudVars, mapVars, bootVars, taskFrame, NoFault, Replace, GoTo

LEMMA InitIInv == Init => IInv
<1> SUFFICES ASSUME Init PROVE IInv
  OBVIOUS
<1>1. TypeOK
  BY Bounds DEF Init, TypeOK
<1>2. Idle /\ (\A n \in Names : byName[n] = Absent) /\ (\A i \in Ids : cloud[i] = Absent /\ byId[i] = Absent)
  BY DEF Init, Idle
<1>3. MapsAgree /\ NoPhantom /\ OneLivePrinter
  BY <1>2 DEF MapsAgree, NoPhantom, OneLivePrinter, Registered
<1>4. IdsIssued /\ TasksDistinct /\ TasksAlong /\ Booting
  BY <1>2 DEF Init, IdsIssued, TasksDistinct, TasksAlong, Booting, Idle, Registered
<1>5. NamesKept /\ DroppedGone /\ KeptPresent /\ InHand
  BY <1>2 DEF NamesKept, DroppedGone, KeptPresent, InHand, Idle, Registered
<1>6. QED
  BY <1>1, <1>3, <1>4, <1>5 DEF IInv

LEMMA NativeChangeIInv ==
  ASSUME IInv, NEW n \in Names, NativeChange(n)
  PROVE  IInv'
<1>1. TypeOK'
  BY DEF IInv, TypeOK, NativeChange
<1>2. UNCHANGED <<config, cloudVars, mapVars, bootVars, work>>
  BY DEF NativeChange
<1>3. QED
  BY <1>1, <1>2 DEF IInv, MapsAgree, NoPhantom, OneLivePrinter, IdsIssued, TasksDistinct,
       TasksAlong, Booting, NamesKept, DroppedGone, KeptPresent, InHand, Idle, OneSyncer, Registered

LEMMA ToolDeletesIInv ==
  ASSUME IInv, NEW i \in Ids, ToolDeletes(i)
  PROVE  IInv'
<1>1. TypeOK'
  BY Bounds DEF IInv, TypeOK, ToolDeletes, Without
<1>2. /\ UNCHANGED <<config, issued, lost, mapVars, bootVars, work>>
      /\ deleted' = deleted \cup {i}
  BY DEF ToolDeletes
<1>3. \A j \in Ids : IF j = i THEN ~Registered(j)' ELSE cloud'[j] = cloud[j]
  BY DEF ToolDeletes, Without, Registered, IInv, TypeOK
<1>4. MapsAgree' /\ TasksDistinct' /\ TasksAlong' /\ Booting'
  BY <1>2 DEF IInv, MapsAgree, TasksDistinct, TasksAlong, Booting, Idle
<1>5. IdsIssued' /\ NamesKept' /\ DroppedGone' /\ OneLivePrinter'
  BY <1>2, <1>3 DEF IInv, IdsIssued, NamesKept, DroppedGone, OneLivePrinter, OneSyncer, Registered
<1>6. KeptPresent' /\ InHand'
  BY <1>2, <1>3 DEF IInv, KeptPresent, InHand, Idle, OneSyncer, Registered
<1>7. NoPhantom'
  <2> SUFFICES ASSUME config.cloud, OneSyncer, NEW n \in Names, byName[n] # Absent
               PROVE  LET j == byName[n].id
                      IN  \/ Registered(j)' /\ cloud'[j].name = n
                          \/ j \in deleted'
                          \/ \E s \in Syncers : \E t \in work[s] :
                               t.op = "delete" /\ t.at # "call" /\ t.printer.id = j
    BY <1>2 DEF NoPhantom, OneSyncer
  <2>1. byName[n].id \in Ids
    BY PrinterParts DEF IInv, MapsAgree
  <2>2. QED
    BY <1>2, <1>3, <2>1 DEF IInv, NoPhantom, Registered
<1>8. QED
  BY <1>1, <1>4, <1>5, <1>6, <1>7 DEF IInv

LEMMA SyncStartIInv ==
  ASSUME IInv, NEW s \in Syncers, SyncStart(s)
  PROVE  IInv'
<1> USE DEF IInv
<1>1. /\ s \in config.syncers /\ work[s] = {} /\ work' = [work EXCEPT ![s] = CurrentDiffs]
      /\ mode = "run" \/ (mode = "init" /\ Idle)
      /\ UNCHANGED <<config, native, cloudVars, mapVars, local, bootVars, faults, changes, restarts>>
  BY DEF SyncStart, Idle
<1>2. CurrentDiffs = {DiffOf(n) : n \in Named}
  BY OneDiffPerName DEF SyncStart
<1>3. \A n \in Named : /\ DiffOf(n) \in Task /\ DiffOf(n).printer.name = n
                       /\ DiffOf(n).at \in {"call", "answer"}
                       /\ DiffOf(n).op = "nochange" <=> DiffOf(n).at = "answer"
                       /\ IF byName[n] = Absent
                          THEN DiffOf(n).op = "register" /\ DiffOf(n).printer.id = NoId
                          ELSE DiffOf(n).op # "register" /\ DiffOf(n).printer.id = byName[n].id
  BY DiffParts
<1> HIDE DEF IInv
<1>4. TypeOK'
  BY <1>1, <1>2, <1>3 DEF IInv, TypeOK
<1>5. /\ \A t \in work'[s] : \E n \in Named : t = DiffOf(n)
      /\ \A n \in Named : DiffOf(n) \in work'[s]
      /\ \A r \in Syncers : r # s => work'[r] = work[r]
  BY <1>1, <1>2 DEF IInv, TypeOK
<1>6. OneSyncer => Idle
  BY <1>1, SameSyncer DEF IInv, Booting, Idle
<1>7. \A n \in Names : byName[n] # Absent =>
        /\ byName[n].id \in Ids \cup {NoId} /\ byName[n].id <= issued
        /\ config.cloud => byName[n].id \in Ids
        /\ ~config.cloud => byName[n].id \notin Ids
  <2> SUFFICES ASSUME NEW n \in Names, byName[n] # Absent
               PROVE  /\ byName[n].id \in Ids \cup {NoId} /\ byName[n].id <= issued
                      /\ config.cloud => byName[n].id \in Ids
                      /\ ~config.cloud => byName[n].id \notin Ids
    OBVIOUS
  <2>1. byName[n] \in Printer
    BY DEF IInv, TypeOK
  <2>2. byName[n].id \in Ids \cup {NoId} /\ byName[n].id <= issued
    BY <2>1, PrinterParts DEF IInv, IdsIssued
  <2>3. config.cloud => byName[n].id \in Ids
    BY DEF IInv, MapsAgree
  <2>4. ~config.cloud => issued = 0
    BY DEF IInv, IdsIssued
  <2>5. ~config.cloud => byName[n].id \notin Ids
    BY <2>2, <2>4, Bounds DEF Ids
  <2>6. QED
    BY <2>2, <2>3, <2>5
<1>8. MapsAgree' /\ OneLivePrinter'
  BY <1>1 DEF IInv, MapsAgree, OneLivePrinter, OneSyncer, Registered
<1>9. IdsIssued'
  BY <1>1, <1>3, <1>5, <1>7 DEF IInv, TypeOK, IdsIssued, Registered, Named, NoId
<1>10. TasksDistinct'
  <2>1. ASSUME NEW n \in Named, NEW m \in Named, DiffOf(n).printer.id \in Ids,
               DiffOf(n).printer.id = DiffOf(m).printer.id
        PROVE  n = m
    BY <1>3, <2>1, Bounds DEF IInv, MapsAgree, Named
  <2>2. QED
    BY <1>3, <1>5, <2>1 DEF IInv, TasksDistinct
<1>11. TasksAlong'
  BY <1>1, <1>3, <1>5, <1>7, Bounds DEF IInv, TasksAlong, Named
<1>12. Booting'
  BY <1>1, <1>5 DEF IInv, Booting, Idle
<1>13. NamesKept'
  <2>1. \A n \in Named : LET i == DiffOf(n).printer.id
                         IN  i \in Ids /\ Registered(i) => cloud[i].name = DiffOf(n).printer.name
    BY <1>3, Bounds DEF IInv, NamesKept, Named
  <2>2. QED
    BY <1>1, <1>5, <2>1 DEF IInv, NamesKept, Registered
<1>14. DroppedGone'
  BY <1>1, <1>3, <1>5 DEF IInv, DroppedGone, Registered
<1>15. NoPhantom'
  BY <1>1, <1>6 DEF IInv, NoPhantom, Idle, OneSyncer, Registered
<1>16. KeptPresent'
  <2> SUFFICES ASSUME OneSyncer, NEW n \in Named, DiffOf(n).printer.id \in Ids
               PROVE  Registered(DiffOf(n).printer.id) \/ DiffOf(n).printer.id \in deleted
    BY <1>1, <1>5, <1>6 DEF KeptPresent, OneSyncer, Idle, Registered
  <2>1. n \in Names /\ byName[n] # Absent /\ DiffOf(n).printer.id = byName[n].id /\ config.cloud
    BY <1>3, <1>7, Bounds DEF Named
  <2>2. QED
    BY <1>6, <2>1 DEF IInv, NoPhantom, Idle
<1>17. InHand'
  <2> SUFFICES ASSUME OneSyncer, NEW i \in Ids \ lost, Registered(i)
               PROVE  \E t \in work'[s] : t.printer.id = i
    BY <1>1 DEF InHand, OneSyncer, Registered
  <2>1. PICK n \in Names : byName[n] # Absent /\ byName[n].id = i
    BY <1>6 DEF IInv, InHand, Idle
  <2>2. QED
    BY <1>3, <1>5, <2>1 DEF Named
<1>18. QED
  BY <1>4, <1>8, <1>9, <1>10, <1>11, <1>12, <1>13, <1>14, <1>15, <1>16, <1>17 DEF IInv

LEMMA InitialSyncCleanIInv ==
  ASSUME IInv, InitialSyncClean
  PROVE  IInv'
<1>1. /\ mode = "init" /\ Idle /\ mode' = "publish"
      /\ unpublished' = {} \/ unpublished' = {p.name : p \in GetAll}
      /\ UNCHANGED <<config, native, cloudVars, mapVars, local, work, faults, changes, restarts>>
  BY DEF InitialSyncClean, AfterSync, Idle
<1>2. \A n \in unpublished' : n \in Names /\ byName[n] # Absent
  BY <1>1 DEF IInv, MapsAgree, GetAll
<1>3. TypeOK'
  BY <1>1, <1>2 DEF IInv, TypeOK
<1>4. Booting'
  BY <1>1, <1>2 DEF IInv, Booting, Idle
<1>5. QED
  BY <1>1, <1>3, <1>4 DEF IInv, MapsAgree, NoPhantom, OneLivePrinter, IdsIssued, TasksDistinct,
       TasksAlong, NamesKept, DroppedGone, KeptPresent, InHand, Idle, OneSyncer, Registered

LEMMA SyncFinishIInv ==
  ASSUME IInv, NEW s \in Syncers, SyncFinish(s)
  PROVE  IInv'
<1> DEFINE T == {t \in work[s] : t.at = "answer"}
<1>1. /\ work[s] # {} /\ \A t \in work[s] : t.at \in {"answer", "gone"}
      /\ work' = [work EXCEPT ![s] = {}]
      /\ UNCHANGED <<config, native, cloudVars, local, faults, changes, restarts>>
      /\ Refresh(Answered(s)) /\ AfterSync({p.name : p \in Answered(s)})
  BY DEF SyncFinish
<1>2. Answered(s) = {t.printer : t \in T}
  BY DEF Answered
<1>3. \A t \in T : t.printer \in Printer /\ t.op # "delete" /\ t.printer # Absent
  BY TaskParts, Bounds DEF IInv, TasksAlong
<1>4. \A p, q \in Answered(s) : (p.name = q.name \/ (p.id \in Ids /\ p.id = q.id)) => p = q
  BY <1>2 DEF IInv, TasksDistinct
<1>5. \A p \in Answered(s) : p \in Printer /\ p # Absent /\ p.name \in Names
  BY <1>2, <1>3, PrinterParts
<1>6. /\ \A n \in Names : byName'[n] # Absent => byName'[n] \in Answered(s) /\ byName'[n].name = n
      /\ \A p \in Answered(s) : byName'[p.name] = p
      /\ byName' \in [Names -> Printer \cup {Absent}]
  <2>1. byName' = [n \in Names |-> IF \E p \in Answered(s) : p.name = n
                                   THEN CHOOSE p \in Answered(s) : p.name = n ELSE Absent]
    BY <1>1 DEF Refresh
  <2>2. QED
    BY <1>4, <1>5, <2>1
<1>7. /\ \A i \in Ids : byId'[i] # Absent => byId'[i] \in Answered(s) /\ byId'[i].id = i
      /\ \A p \in Answered(s) : p.id \in Ids => byId'[p.id] = p
      /\ byId' \in [Ids -> Printer \cup {Absent}]
  <2>1. byId' = [i \in Ids |-> IF \E p \in Answered(s) : p.id = i
                               THEN CHOOSE p \in Answered(s) : p.id = i ELSE Absent]
    BY <1>1 DEF Refresh
  <2>2. QED
    BY <1>4, <1>5, <2>1
<1>8. work'[s] = {} /\ \A r \in Syncers : r # s => work'[r] = work[r]
  BY <1>1 DEF IInv, TypeOK
<1>9. /\ mode = "init" => mode' = "publish" /\ unpublished' \subseteq {p.name : p \in Answered(s)}
      /\ mode # "init" => UNCHANGED bootVars /\ mode = "run"
  BY <1>1 DEF AfterSync, IInv, TypeOK, Booting, Idle
<1>10. TypeOK'
  <2>1. unpublished' \subseteq Names /\ mode' \in {"init", "publish", "run"}
    BY <1>5, <1>9 DEF IInv, TypeOK
  <2>2. work' \in [Syncers -> SUBSET Task]
    BY <1>1 DEF IInv, TypeOK
  <2>3. QED
    BY <1>1, <1>6, <1>7, <2>1, <2>2 DEF IInv, TypeOK
<1>11. \A p \in Answered(s) : \E t \in work[s] : t.printer = p /\ t.at = "answer" /\ t.op # "delete"
  BY <1>2, <1>3
<1>12. \A p \in Answered(s) : p.id \in Ids \/ ~config.cloud
  <2> SUFFICES ASSUME NEW p \in Answered(s), p.id \notin Ids PROVE ~config.cloud
    OBVIOUS
  <2>1. p.id = NoId
    BY <1>5, PrinterParts
  <2>2. PICK t \in work[s] : t.printer = p /\ t.at = "answer"
    BY <1>11
  <2>3. QED
    BY <2>1, <2>2 DEF IInv, TasksAlong
<1> HIDE DEF T
<1>13. MapsAgree'
  BY <1>1, <1>5, <1>6, <1>7, <1>12 DEF MapsAgree
<1>14. IdsIssued'
  BY <1>1, <1>6, <1>8, <1>11 DEF IInv, IdsIssued, Registered
<1>15. TasksDistinct' /\ TasksAlong'
  BY <1>1, <1>8 DEF IInv, TasksDistinct, TasksAlong
<1>16. Booting'
  <2>1. mode = "init" => Idle'
    BY <1>1, <1>8 DEF IInv, Booting, Idle
  <2>2. \A n \in unpublished' : byName'[n] # Absent
    BY <1>5, <1>6, <1>9 DEF IInv, Booting
  <2>3. QED
    BY <1>1, <1>8, <1>9, <2>1, <2>2 DEF IInv, Booting, Idle
<1>17. NamesKept'
  <2>1. ASSUME NEW n \in Names, byName'[n] # Absent
        PROVE  \E t \in work[s] : t.printer = byName'[n] /\ t.printer.name = n
    BY <1>6, <1>11, <2>1
  <2>2. QED
    BY <1>1, <1>8, <2>1 DEF IInv, NamesKept, Registered
<1>18. DroppedGone' /\ KeptPresent' /\ OneLivePrinter'
  BY <1>1, <1>8 DEF IInv, DroppedGone, KeptPresent, OneLivePrinter, OneSyncer, Registered
<1>19. NoPhantom'
  <2> SUFFICES ASSUME config.cloud, OneSyncer, NEW n \in Names, byName'[n] # Absent
               PROVE  \/ Registered(byName'[n].id) /\ cloud[byName'[n].id].name = n
                      \/ byName'[n].id \in deleted
    BY <1>1 DEF NoPhantom, OneSyncer, Registered
  <2>1. PICK t \in work[s] : t.printer = byName'[n] /\ t.op # "delete" /\ t.printer.name = n
    BY <1>6, <1>11
  <2>2. t.printer.id \in Ids
    BY <1>6, <1>12, <2>1
  <2>3. QED
    BY <2>1, <2>2 DEF IInv, KeptPresent, NamesKept
<1>20. InHand'
  <2> SUFFICES ASSUME OneSyncer, NEW i \in Ids \ lost, Registered(i)
               PROVE  Idle' /\ \E n \in Names : byName'[n] # Absent /\ byName'[n].id = i
    BY <1>1 DEF InHand, OneSyncer, Registered
  <2>1. \A r \in Syncers : work[r] # {} => r = s
    BY <1>1, SameSyncer DEF IInv, Booting
  <2>2. PICK t \in work[s] : t.printer.id = i
    BY <1>1, <2>1 DEF IInv, InHand, Idle
  <2>3. t.at = "answer"
    BY <1>1, <2>2 DEF IInv, DroppedGone
  <2>4. t.printer \in Answered(s)
    BY <2>3 DEF Answered
  <2>5. QED
    BY <1>5, <1>6, <1>8, <2>1, <2>2, <2>4 DEF Idle
<1>21. QED
  BY <1>10, <1>13, <1>14, <1>15, <1>16, <1>17, <1>18, <1>19, <1>20 DEF IInv

\* What a step of one diff must respect, whatever it does: it goes on from a
\* call, it only removes its own printer from the cloud and only to delete it,
\* and when it drops its printer, that is gone or lost.
LEMMA ProgressIInv ==
  ASSUME IInv, TypeOK', NEW s \in Syncers, NEW t \in work[s],
         NEW a \in {"privet", "answer", "gone"}, GoTo(s, t, a),
         UNCHANGED <<config, issued, deleted, mapVars, bootVars>>,
         lost \subseteq lost',
         t.at \notin {"answer", "gone"},
         a = "answer" => t.op # "delete",
         a = "gone" => t.op = "delete" \/ (t.op = "register" /\ t.at = "call"),
         config.cloud /\ t.op = "register" /\ t.at = "call" => a = "gone",
         \A i \in Ids : Registered(i)' => Registered(i) /\ cloud'[i].name = cloud[i].name,
         \A i \in Ids : Registered(i) /\ ~Registered(i)' => t.op = "delete" /\ i = t.printer.id,
         (a = "gone" \/ t.op = "delete") /\ t.printer.id \in Ids =>
           ~Registered(t.printer.id)' \/ t.printer.id \in lost'
  PROVE  IInv'
<1> DEFINE u == [t EXCEPT !.at = a]
<1>1. u \in Task /\ u.at = a /\ u.printer = t.printer /\ u.op = t.op
  BY TaskParts DEF IInv, Task
<1>2. /\ \A r \in Syncers : r # s => work'[r] = work[r]
      /\ work'[s] = (work[s] \ {t}) \cup {u}
  BY DEF IInv, TypeOK
<1> HIDE DEF u
<1>3. Idle' <=> Idle
  BY <1>2 DEF Idle
<1>4. MapsAgree'
  BY DEF IInv, MapsAgree
<1>5. IdsIssued'
  BY <1>1, <1>2 DEF IInv, IdsIssued
<1>6. TasksDistinct'
  BY <1>1, <1>2 DEF IInv, TasksDistinct
<1>7. TasksAlong'
  BY <1>1, <1>2 DEF IInv, TasksAlong
<1>8. Booting'
  BY <1>2, <1>3 DEF IInv, Booting
<1>9. NamesKept'
  <2>1. (\A n \in Names : byName[n] # Absent /\ byName[n].id \in Ids /\ Registered(byName[n].id) =>
           cloud[byName[n].id].name = n)'
    BY DEF IInv, NamesKept
  <2>2. (\A r \in Syncers : \A v \in work[r] : v.printer.id \in Ids /\ Registered(v.printer.id) =>
           cloud[v.printer.id].name = v.printer.name)'
    BY <1>1, <1>2 DEF IInv, NamesKept
  <2>3. QED
    BY <2>1, <2>2 DEF NamesKept
<1>10. DroppedGone'
  BY <1>1, <1>2 DEF IInv, DroppedGone
<1>11. \A r \in Syncers : \A v \in work[r] : OneSyncer => r = s
  BY SameSyncer DEF IInv, Booting
<1>12. KeptPresent'
  <2> SUFFICES ASSUME OneSyncer, NEW v \in work'[s], v.op # "delete", v.printer.id \in Ids
               PROVE  Registered(v.printer.id)' \/ v.printer.id \in deleted
    BY <1>2, <1>11 DEF KeptPresent, OneSyncer
  <2>1. CASE v = u
    BY <1>1, <2>1 DEF IInv, KeptPresent
  <2>2. CASE v \in work[s] /\ v # t
    BY <2>2 DEF IInv, KeptPresent, TasksDistinct
  <2>3. QED
    BY <1>2, <2>1, <2>2
<1>13. InHand'
  BY <1>1, <1>2, <1>3 DEF IInv, InHand, OneSyncer
<1>14. OneLivePrinter'
  BY DEF IInv, OneLivePrinter, OneSyncer
<1>15. NoPhantom'
  <2> SUFFICES ASSUME config.cloud, OneSyncer, NEW n \in Names, byName[n] # Absent
               PROVE  LET j == byName[n].id
                      IN  \/ Registered(j)' /\ cloud'[j].name = n
                          \/ j \in deleted
                          \/ \E r \in Syncers : \E v \in work'[r] :
                               v.op = "delete" /\ v.at # "call" /\ v.printer.id = j
    BY DEF NoPhantom, OneSyncer
  <2> DEFINE j == byName[n].id
  <2>1. j \in Ids
    BY DEF IInv, MapsAgree
  <2> HIDE DEF j
  <2>2. CASE Registered(j) /\ cloud[j].name = n
    <3>1. CASE Registered(j)'
      BY <2>1, <2>2, <3>1 DEF j
    <3>2. CASE ~Registered(j)'
      BY <1>1, <1>2, <2>1, <2>2, <3>2 DEF j
    <3>3. QED
      BY <3>1, <3>2
  <2>3. CASE \E r \in Syncers : \E v \in work[r] : v.op = "delete" /\ v.at # "call" /\ v.printer.id = j
    BY <1>1, <1>2, <2>3 DEF j
  <2>4. QED
    BY <2>2, <2>3 DEF IInv, NoPhantom, j
<1>16. QED
  BY <1>4, <1>5, <1>6, <1>7, <1>8, <1>9, <1>10, <1>12, <1>13, <1>14, <1>15 DEF IInv

\* Typing of a step that moves a diff along.
LEMMA GoToTyped ==
  ASSUME TypeOK, NEW s \in Syncers, NEW t \in work[s],
         NEW a \in {"share", "privet", "answer", "gone"}, GoTo(s, t, a)
  PROVE  work' \in [Syncers -> SUBSET Task]
<1>1. [t EXCEPT !.at = a] \in Task
  BY TaskParts DEF Task
<1>2. QED
  BY <1>1 DEF TypeOK

LEMMA AfterCloudStep ==
  ASSUME NEW t \in Task
  PROVE  /\ AfterCloud(t) \in {"privet", "answer", "gone"}
         /\ AfterCloud(t) = "answer" => t.op # "delete"
         /\ AfterCloud(t) = "gone" => t.op = "delete"
  BY DEF AfterCloud

LEMMA WithoutCloudIInv ==
  ASSUME IInv, NEW s \in Syncers, NEW t \in work[s], WithoutCloud(s, t)
  PROVE  IInv'
<1>1. t \in Task
  BY TaskParts DEF IInv
<1>2. TypeOK'
  BY <1>1, GoToTyped, AfterCloudStep DEF IInv, TypeOK, WithoutCloud
<1>3. \A i \in Ids : ~Registered(i)
  BY Bounds DEF IInv, IdsIssued, WithoutCloud, Ids
<1>4. QED
  BY <1>1, <1>2, <1>3, AfterCloudStep, ProgressIInv DEF WithoutCloud, Registered

LEMMA ShareIInv ==
  ASSUME IInv, NEW s \in Syncers, NEW t \in work[s], Share(s, t)
  PROVE  IInv'
<1>1. t \in Task /\ t.op = "register" /\ t.at = "share"
  BY TaskParts DEF IInv, TasksAlong, Share
<1> DEFINE i == t.printer.id
<1>2. /\ GoTo(s, t, AfterCloud(t))
      /\ UNCHANGED <<taskFrame, issued, lost, local>>
      /\ faults' = faults \/ faults' = faults + 1
      /\ UNCHANGED cloud \/ (Registered(i) /\ cloud' = [cloud EXCEPT ![i].shared = TRUE])
  BY DEF Share, Fault
<1>3. /\ cloud' \in [Ids -> Listing \cup {Absent}]
      /\ \A j \in Ids : /\ Registered(j)' <=> Registered(j)
                        /\ Registered(j)' => cloud'[j].name = cloud[j].name
  <2>1. CASE UNCHANGED cloud
    BY <2>1 DEF IInv, TypeOK, Registered
  <2>2. CASE i \in Ids /\ Registered(i) /\ cloud' = [cloud EXCEPT ![i].shared = TRUE]
    <3>1. cloud[i] \in Listing
      BY <2>2 DEF IInv, TypeOK, Registered
    <3> DEFINE l == [cloud[i] EXCEPT !.shared = TRUE]
    <3>2. l \in Listing /\ l.name = cloud[i].name
      BY <3>1 DEF Listing
    <3>3. cloud' = [cloud EXCEPT ![i] = l]
      BY <2>2
    <3> HIDE DEF l
    <3>4. /\ cloud' \in [Ids -> Listing \cup {Absent}] /\ cloud'[i] = l /\ l # Absent
          /\ \A j \in Ids : j # i => cloud'[j] = cloud[j]
      BY <2>2, <3>2, <3>3, Bounds DEF IInv, TypeOK
    <3>5. QED
      BY <2>2, <3>2, <3>4 DEF Registered
  <2>3. CASE i \notin Ids /\ cloud' = [cloud EXCEPT ![i].shared = TRUE]
    BY <2>3 DEF IInv, TypeOK, Registered
  <2>4. QED
    BY <1>2, <2>1, <2>2, <2>3
<1>4. TypeOK'
  <2>1. work' \in [Syncers -> SUBSET Task]
    BY <1>1, <1>2, GoToTyped, AfterCloudStep DEF IInv
  <2>2. faults' \in Nat
    BY <1>2 DEF IInv, TypeOK
  <2>3. QED
    BY <1>2, <1>3, <2>1, <2>2 DEF IInv, TypeOK
<1>5. QED
  BY <1>1, <1>2, <1>3, <1>4, AfterCloudStep, ProgressIInv

\* What Updated stores is a listing under the same name.
LEMMA UpdatedParts ==
  ASSUME NEW l \in Listing, NEW t \in Task
  PROVE  Updated(l, t) \in Listing /\ Updated(l, t).name = l.name
<1> DEFINE d == [display |-> IF "display" \in t.changed
                             THEN t.printer.desc.display ELSE l.desc.display,
                 caps |-> IF "caps" \in t.changed
                          THEN t.printer.desc.caps ELSE l.desc.caps]
<1>1. d \in Desc
  BY DEF Desc, Listing, Task, Printer
<1>2. Updated(l, t) = [l EXCEPT !.desc = d]
  BY DEF Updated
<1> HIDE DEF d
<1>3. QED
  BY <1>1, <1>2 DEF Listing

LEMMA UpdateIInv ==
  ASSUME IInv, NEW s \in Syncers, NEW t \in work[s], Update(s, t)
  PROVE  IInv'
<1>1. t \in Task /\ t.op = "update" /\ t.at = "call"
  BY TaskParts DEF IInv, Update
<1> DEFINE i == t.printer.id
<1>2. /\ GoTo(s, t, AfterCloud(t))
      /\ UNCHANGED <<taskFrame, issued, lost, local>>
      /\ faults' = faults \/ faults' = faults + 1
      /\ UNCHANGED cloud \/ (Registered(i) /\ cloud' = [cloud EXCEPT ![i] = Updated(@, t)])
  BY DEF Update, Fault
<1>3. /\ cloud' \in [Ids -> Listing \cup {Absent}]
      /\ \A j \in Ids : /\ Registered(j)' <=> Registered(j)
                        /\ Registered(j)' => cloud'[j].name = cloud[j].name
  <2>1. CASE UNCHANGED cloud
    BY <2>1 DEF IInv, TypeOK, Registered
  <2>2. CASE i \in Ids /\ Registered(i) /\ cloud' = [cloud EXCEPT ![i] = Updated(@, t)]
    <3>1. cloud[i] \in Listing
      BY <2>2 DEF IInv, TypeOK, Registered
    <3>2. QED
      BY <1>1, <2>2, <3>1, UpdatedParts, Bounds DEF IInv, TypeOK, Registered
  <2>3. CASE i \notin Ids /\ cloud' = [cloud EXCEPT ![i] = Updated(@, t)]
    BY <2>3 DEF IInv, TypeOK, Registered
  <2>4. QED
    BY <1>2, <2>1, <2>2, <2>3
<1>4. TypeOK'
  <2>1. work' \in [Syncers -> SUBSET Task]
    BY <1>1, <1>2, GoToTyped, AfterCloudStep DEF IInv
  <2>2. faults' \in Nat
    BY <1>2 DEF IInv, TypeOK
  <2>3. QED
    BY <1>2, <1>3, <2>1, <2>2 DEF IInv, TypeOK
<1>5. QED
  BY <1>1, <1>2, <1>3, <1>4, AfterCloudStep, ProgressIInv

LEMMA DeleteIInv ==
  ASSUME IInv, NEW s \in Syncers, NEW t \in work[s], Delete(s, t)
  PROVE  IInv'
<1>1. t \in Task /\ t.op = "delete" /\ t.at = "call"
  BY TaskParts DEF IInv, Delete
<1> DEFINE i == t.printer.id
<1>2. PICK a \in {"privet", "answer", "gone"} :
        /\ GoTo(s, t, a) /\ a # "answer"
        /\ UNCHANGED <<taskFrame, issued, local>>
        /\ faults' = faults \/ faults' = faults + 1
        /\ \/ UNCHANGED lost /\ cloud' = Without(i)
           \/ UNCHANGED cloud /\ lost' = lost \cup {i} /\ Registered(i)
           \/ UNCHANGED <<cloud, lost>> /\ ~Registered(i)
  BY <1>1, AfterCloudStep DEF Delete, Fault
<1>3. i \in Ids
  <2>1. i \in Ids \cup {NoId}
    BY TaskParts, PrinterParts DEF IInv
  <2>2. QED
    BY <1>1, <2>1 DEF IInv, TasksAlong, Delete
<1>4. /\ cloud' \in [Ids -> Listing \cup {Absent}]
      /\ \A j \in Ids : Registered(j)' => Registered(j) /\ cloud'[j].name = cloud[j].name
      /\ \A j \in Ids : Registered(j) /\ ~Registered(j)' => j = i
      /\ ~Registered(i)' \/ i \in lost'
      /\ lost \subseteq lost' /\ lost' \subseteq Ids
  BY <1>2, <1>3 DEF IInv, TypeOK, Registered, Without
<1>5. TypeOK'
  <2>1. work' \in [Syncers -> SUBSET Task]
    BY <1>1, <1>2, GoToTyped DEF IInv
  <2>2. faults' \in Nat
    BY <1>2 DEF IInv, TypeOK
  <2>3. QED
    BY <1>2, <1>4, <2>1, <2>2 DEF IInv, TypeOK
<1>6. QED
  BY <1>1, <1>2, <1>4, <1>5, ProgressIInv

-----------------------------------------------------------------------------
(* The calls of the privet service *)

LEMMA AddPrinterTyped ==
  ASSUME TypeOK, NEW p \in Printer, AddPrinter(p)
  PROVE  local' \in [Names -> Record \cup {Absent}] /\ faults' \in Nat
<1>1. faults' = faults \/ faults' = faults + 1
  BY DEF AddPrinter, Fault
<1>2. \/ UNCHANGED local
      \/ local' = [local EXCEPT ![p.name] = [display |-> p.desc.display, id |-> p.id]]
  BY DEF AddPrinter
<1>3. QED
  BY <1>1, <1>2, PrinterParts DEF TypeOK

\* The lookup under the GCPID never finds a record.
LEMMA UpdatePrinterIdle ==
  ASSUME NEW p \in Printer, UpdatePrinter(p)
  PROVE  UNCHANGED <<local, faults>>
  BY PrinterParts, Bounds DEF UpdatePrinter

LEMMA PrivetIInv ==
  ASSUME IInv, NEW s \in Syncers, NEW t \in work[s], Privet(s, t)
  PROVE  IInv'
<1>1. t \in Task /\ t.printer \in Printer /\ t.at = "privet"
  BY TaskParts DEF IInv, Privet
<1>2. /\ GoTo(s, t, AfterPrivet(t))
      /\ UNCHANGED <<taskFrame, cloudVars>>
  BY DEF Privet
<1>3. local' \in [Names -> Record \cup {Absent}] /\ faults' \in Nat
  <2>1. CASE AddPrinter(t.printer)
    BY <1>1, <2>1, AddPrinterTyped DEF IInv
  <2>2. CASE UpdatePrinter(t.printer)
    BY <1>1, <2>2, UpdatePrinterIdle DEF IInv, TypeOK
  <2>3. CASE DeletePrinter(t.printer)
    <3>1. faults' = faults \/ faults' = faults + 1
      BY <2>3 DEF DeletePrinter, Fault
    <3>2. UNCHANGED local \/ local' = [local EXCEPT ![t.printer.name] = Absent]
      BY <2>3 DEF DeletePrinter
    <3>3. QED
      BY <3>1, <3>2 DEF IInv, TypeOK
  <2>4. QED
    BY <2>1, <2>2, <2>3 DEF Privet
<1>4. AfterPrivet(t) \in {"answer", "gone"} /\ (AfterPrivet(t) = "gone" <=> t.op = "delete")
  BY DEF AfterPrivet
<1>5. TypeOK'
  <2>1. work' \in [Syncers -> SUBSET Task]
    BY <1>1, <1>2, <1>4, GoToTyped DEF IInv
  <2>2. QED
    BY <1>2, <1>3, <2>1 DEF IInv, TypeOK
<1>6. (t.op = "delete" /\ t.printer.id \in Ids) => ~Registered(t.printer.id) \/ t.printer.id \in lost
  BY <1>1 DEF IInv, DroppedGone
<1>7. \A i \in Ids : Registered(i)' <=> Registered(i)
  BY <1>2 DEF Registered
<1>8. QED
  BY <1>1, <1>2, <1>4, <1>5, <1>6, <1>7, ProgressIInv

LEMMA PublishIInv ==
  ASSUME IInv, NEW n \in Names, Publish(n)
  PROVE  IInv'
<1>1. /\ mode = "publish" /\ n \in unpublished /\ unpublished' = unpublished \ {n}
      /\ UNCHANGED <<config, native, cloudVars, mapVars, mode, work, changes, restarts>>
      /\ AddPrinter(byName[n])
  BY DEF Publish
<1>2. byName[n] \in Printer
  BY <1>1 DEF IInv, TypeOK, Booting
<1>3. TypeOK'
  BY <1>1, <1>2, AddPrinterTyped DEF IInv, TypeOK
<1>4. Booting'
  BY <1>1 DEF IInv, Booting, Idle
<1>5. QED
  BY <1>1, <1>3, <1>4 DEF IInv, MapsAgree, NoPhantom, OneLivePrinter, IdsIssued, TasksDistinct,
       TasksAlong, NamesKept, DroppedGone, KeptPresent, InHand, Idle, OneSyncer, Registered

LEMMA StartServingIInv ==
  ASSUME IInv, StartServing
  PROVE  IInv'
<1>1. /\ mode = "publish" /\ unpublished = {} /\ mode' = "run"
      /\ UNCHANGED <<config, native, cloudVars, mapVars, local, unpublished, work,
                     faults, changes, restarts>>
  BY DEF StartServing
<1>2. TypeOK' /\ Booting'
  BY <1>1 DEF IInv, TypeOK, Booting, Idle
<1>3. QED
  BY <1>1, <1>2 DEF IInv, MapsAgree, NoPhantom, OneLivePrinter, IdsIssued, TasksDistinct,
       TasksAlong, NamesKept, DroppedGone, KeptPresent, InHand, Idle, OneSyncer, Registered

-----------------------------------------------------------------------------
(* Registration and restart *)

\* A new GCPID is one that nothing knows yet, and the printer of the name it
\* is given to has no other live one.
LEMMA NewPrinterFresh ==
  ASSUME IInv, NEW s \in Syncers, NEW t \in work[s], t.op = "register", t.at = "call", NewPrinter(t)
  PROVE  /\ issued' = issued + 1 /\ issued' \in Ids /\ ~Registered(issued')
         /\ t.printer.id = NoId
         /\ cloud' \in [Ids -> Listing \cup {Absent}]
         /\ cloud'[issued'] # Absent /\ cloud'[issued'].name = t.printer.name
         /\ \A i \in Ids : i # issued' => cloud'[i] = cloud[i]
         /\ \A n \in Names : byName[n] # Absent => byName[n].id # issued'
         /\ \A r \in Syncers : \A v \in work[r] : v.printer.id # issued'
         /\ OneSyncer => \A i \in Ids \ lost :
              Registered(i) => cloud[i].name # t.printer.name
<1> DEFINE l == [name |-> t.printer.name, desc |-> t.printer.desc, shared |-> FALSE]
<1>1. issued \in Nat /\ issued' = issued + 1 /\ issued' \in Ids
  BY ConfigBounds, Bounds DEF IInv, TypeOK, NewPrinter, Ids
<1>2. ~Registered(issued')
  BY <1>1 DEF IInv, IdsIssued
<1>3. l \in Listing /\ l.name = t.printer.name
  BY TaskParts, PrinterParts DEF IInv, Listing
<1>4. cloud' = [cloud EXCEPT ![issued'] = l]
  BY DEF NewPrinter
<1> HIDE DEF l
<1>5. /\ cloud' \in [Ids -> Listing \cup {Absent}]
      /\ cloud'[issued'] = l /\ l # Absent
      /\ \A i \in Ids : i # issued' => cloud'[i] = cloud[i]
  BY <1>1, <1>3, <1>4, Bounds DEF IInv, TypeOK
<1>6. \A n \in Names : byName[n] # Absent => byName[n].id # issued'
  BY <1>1 DEF IInv, IdsIssued
<1>7. \A r \in Syncers : \A v \in work[r] : v.printer.id # issued'
  BY <1>1 DEF IInv, IdsIssued
<1>8. t.printer.id = NoId
  BY DEF IInv, TasksAlong
<1>9. ASSUME OneSyncer, NEW i \in Ids \ lost, Registered(i)
      PROVE  cloud[i].name # t.printer.name
  <2>1. \A r \in Syncers : work[r] # {} => r = s
    BY <1>9, SameSyncer DEF IInv, Booting
  <2>2. PICK u \in work[s] : u.printer.id = i
    BY <1>9, <2>1 DEF IInv, InHand, Idle
  <2>3. cloud[i].name = u.printer.name
    BY <1>9, <2>2 DEF IInv, NamesKept
  <2>4. u # t
    BY <1>8, <2>2, Bounds
  <2>5. QED
    BY <2>3, <2>4 DEF IInv, TasksDistinct
<1>10. QED
  BY <1>1, <1>2, <1>3, <1>5, <1>6, <1>7, <1>8, <1>9

LEMMA RegisterIInv ==
  ASSUME IInv, NEW s \in Syncers, NEW t \in work[s], Register(s, t)
  PROVE  IInv'
<1>1. t \in Task /\ t.op = "register" /\ t.at = "call" /\ config.cloud /\ t.printer \in Printer
  BY TaskParts DEF IInv, Register
<1>2. UNCHANGED <<taskFrame, local>>
  BY DEF Register
<1>3. ASSUME NewPrinter(t),
             NEW u \in Task, u.op = "register", u.printer.name = t.printer.name,
             \/ /\ u.printer.id = issued' /\ u.at \in {"share", "privet", "answer"}
                /\ work' = [work EXCEPT ![s] = (@ \ {t}) \cup {u}] /\ UNCHANGED lost
             \/ /\ u.printer.id = NoId /\ u.at \in {"call", "gone"}
                /\ work' = [work EXCEPT ![s] = (@ \ {t}) \cup {u}] /\ lost' = lost \cup {issued'},
             faults' \in Nat
      PROVE  IInv'
  <2>1. /\ issued' = issued + 1 /\ issued' \in Ids /\ ~Registered(issued')
        /\ t.printer.id = NoId
        /\ cloud' \in [Ids -> Listing \cup {Absent}]
        /\ cloud'[issued'] # Absent /\ cloud'[issued'].name = t.printer.name
        /\ \A i \in Ids : i # issued' => cloud'[i] = cloud[i]
        /\ \A n \in Names : byName[n] # Absent => byName[n].id # issued'
        /\ \A r \in Syncers : \A v \in work[r] : v.printer.id # issued'
        /\ OneSyncer => \A i \in Ids \ lost : Registered(i) => cloud[i].name # t.printer.name
    BY <1>1, <1>3, NewPrinterFresh
  <2>2. /\ \A r \in Syncers : r # s => work'[r] = work[r]
        /\ work'[s] = (work[s] \ {t}) \cup {u}
    BY <1>3 DEF IInv, TypeOK
  <2>3. \/ u.printer.id = issued' /\ u.at \in {"share", "privet", "answer"} /\ UNCHANGED lost
        \/ u.printer.id = NoId /\ u.at \in {"call", "gone"} /\ lost' = lost \cup {issued'}
    BY <1>3
  <2>4. issued \in Nat /\ issued' \in 0 .. MaxIds
    BY <2>1 DEF IInv, TypeOK, Ids
  <2>5. TypeOK'
    <3>1. work' = [work EXCEPT ![s] = (@ \ {t}) \cup {u}]
      BY <1>3
    <3>2. work' \in [Syncers -> SUBSET Task]
      BY <1>3, <3>1 DEF IInv, TypeOK
    <3>3. lost' \subseteq Ids
      BY <2>1, <2>3 DEF IInv, TypeOK
    <3>4. QED
      BY <1>2, <1>3, <2>1, <2>4, <3>2, <3>3 DEF IInv, TypeOK
  <2>6. Idle' <=> Idle
    BY <2>2 DEF Idle
  <2>7. MapsAgree'
    BY <1>2, <2>3 DEF IInv, MapsAgree
  <2>8. IdsIssued'
    <3>1. \A i \in Ids : Registered(i)' => i <= issued'
      BY <2>1, <2>4, Bounds DEF IInv, IdsIssued, Registered
    <3>2. \A n \in Names : byName[n] # Absent => byName[n].id <= issued'
      <4> SUFFICES ASSUME NEW n \in Names, byName[n] # Absent PROVE byName[n].id <= issued'
        BY <1>2
      <4>1. byName[n].id \in Nat /\ byName[n].id <= issued
        BY PrinterParts DEF IInv, IdsIssued, TypeOK
      <4>2. QED
        BY <2>1, <2>4, <4>1
    <3>3. \A r \in Syncers : \A v \in work'[r] : v.printer.id <= issued'
      <4>1. u.printer.id <= issued'
        BY <2>1, <2>3, <2>4 DEF NoId
      <4>2. \A r \in Syncers : \A v \in work[r] : v.printer.id <= issued'
        <5> SUFFICES ASSUME NEW r \in Syncers, NEW v \in work[r] PROVE v.printer.id <= issued'
          OBVIOUS
        <5>1. v.printer.id \in Nat /\ v.printer.id <= issued
          BY TaskParts, PrinterParts DEF IInv, IdsIssued
        <5>2. QED
          BY <2>1, <2>4, <5>1
      <4>3. QED
        BY <2>2, <4>1, <4>2
    <3>4. QED
      BY <1>1, <1>2, <3>1, <3>2, <3>3 DEF IdsIssued
  <2>9. TasksDistinct'
    BY <1>3, <2>1, <2>2, <2>3, Bounds DEF IInv, TasksDistinct
  <2>10. TasksAlong'
    BY <1>1, <1>2, <1>3, <2>1, <2>2, <2>3, Bounds DEF IInv, TasksAlong
  <2>11. Booting'
    BY <1>2, <2>2, <2>6 DEF IInv, Booting
  <2>12. NamesKept'
    <3>1. (\A n \in Names : byName[n] # Absent /\ byName[n].id \in Ids /\ Registered(byName[n].id) =>
             cloud[byName[n].id].name = n)'
      BY <1>2, <2>1 DEF IInv, NamesKept, Registered
    <3>2. (\A r \in Syncers : \A v \in work[r] : v.printer.id \in Ids /\ Registered(v.printer.id) =>
             cloud[v.printer.id].name = v.printer.name)'
      <4> SUFFICES ASSUME NEW r \in Syncers, NEW v \in work'[r], v.printer.id \in Ids,
                          Registered(v.printer.id)'
                   PROVE  cloud'[v.printer.id].name = v.printer.name
        OBVIOUS
      <4>1. CASE v \in work[r]
        BY <2>1, <4>1 DEF IInv, NamesKept, Registered
      <4>2. CASE v = u
        BY <1>3, <2>1, <2>3, <4>2, Bounds
      <4>3. QED
        BY <2>2, <4>1, <4>2
    <3>3. QED
      BY <3>1, <3>2 DEF NamesKept
  <2>13. DroppedGone'
    BY <1>3, <2>1, <2>2, <2>3, Bounds DEF IInv, DroppedGone, Registered
  <2>14. KeptPresent'
    BY <1>2, <1>3, <2>1, <2>2, <2>3, Bounds DEF IInv, KeptPresent, Registered, OneSyncer
  <2>15. InHand'
    <3> SUFFICES ASSUME OneSyncer, NEW i \in Ids \ lost', Registered(i)'
                 PROVE  \E r \in Syncers : \E v \in work'[r] : v.printer.id = i
      BY <1>2 DEF InHand, OneSyncer
    <3>1. CASE i = issued'
      BY <2>2, <2>3, <3>1
    <3>2. CASE i # issued'
      <4>1. Registered(i) /\ i \notin lost
        BY <2>1, <2>3, <3>2 DEF Registered
      <4>2. PICK r \in Syncers : \E v \in work[r] : v.printer.id = i
        BY <4>1 DEF IInv, InHand, Idle
      <4>3. PICK v \in work[r] : v.printer.id = i
        BY <4>2
      <4>4. v # t
        BY <2>1, <4>3, Bounds
      <4>5. QED
        BY <2>2, <4>3, <4>4
    <3>3. QED
      BY <3>1, <3>2
  <2>16. OneLivePrinter'
    BY <1>2, <2>1, <2>3 DEF IInv, OneLivePrinter, OneSyncer, Registered
  <2>17. NoPhantom'
    <3> SUFFICES ASSUME OneSyncer, NEW n \in Names, byName[n] # Absent
                 PROVE  LET j == byName[n].id
                        IN  \/ Registered(j)' /\ cloud'[j].name = n
                            \/ j \in deleted
                            \/ \E r \in Syncers : \E v \in work'[r] :
                                 v.op = "delete" /\ v.at # "call" /\ v.printer.id = j
      BY <1>2 DEF NoPhantom, OneSyncer
    <3>1. byName[n].id \in Ids /\ byName[n].id # issued'
      BY <1>1, <2>1 DEF IInv, MapsAgree
    <3>2. cloud'[byName[n].id] = cloud[byName[n].id]
      BY <2>1, <3>1
    <3>3. CASE \E r \in Syncers : \E v \in work[r] :
                 v.op = "delete" /\ v.at # "call" /\ v.printer.id = byName[n].id
      BY <1>1, <2>2, <3>3
    <3>4. \/ Registered(byName[n].id) /\ cloud[byName[n].id].name = n
          \/ byName[n].id \in deleted
          \/ \E r \in Syncers : \E v \in work[r] :
               v.op = "delete" /\ v.at # "call" /\ v.printer.id = byName[n].id
      BY <1>1 DEF IInv, NoPhantom
    <3>5. Registered(byName[n].id) => Registered(byName[n].id)'
      BY <1>2, <3>2 DEF Registered
    <3>6. QED
      BY <3>2, <3>3, <3>4, <3>5
  <2>18. QED
    BY <2>5, <2>7, <2>8, <2>9, <2>10, <2>11, <2>12, <2>13, <2>14, <2>15, <2>16, <2>17 DEF IInv
<1>4. CASE /\ NewPrinter(t) /\ NoFault /\ UNCHANGED lost
           /\ Replace(s, t, [t EXCEPT !.printer.id = issued',
                                      !.at = IF config.share THEN "share" ELSE AfterCloud(t)])
  <2> DEFINE a == IF config.share THEN "share" ELSE AfterCloud(t)
             u == [t EXCEPT !.printer.id = issued', !.at = a]
  <2>1. a \in {"share", "privet", "answer"}
    BY <1>1 DEF AfterCloud
  <2> HIDE DEF a
  <2>2. issued' \in Ids
    BY <1>1, <1>4, NewPrinterFresh
  <2>3. u \in Task /\ u.op = "register" /\ u.printer.name = t.printer.name
        /\ u.printer.id = issued' /\ u.at = a
    BY <1>1, <2>1, <2>2 DEF Task, Printer
  <2>4. work' = [work EXCEPT ![s] = (@ \ {t}) \cup {u}]
    BY <1>4 DEF a
  <2>5. faults' \in Nat
    BY <1>4 DEF IInv, TypeOK
  <2> HIDE DEF u
  <2>6. QED
    BY <1>3, <1>4, <2>1, <2>3, <2>4, <2>5
<1>5. CASE NewPrinter(t) /\ lost' = lost \cup {issued'} /\ (UNCHANGED work \/ GoTo(s, t, "gone")) /\ Fault
  <2>1. t.printer.id = NoId
    BY <1>1, <1>5, NewPrinterFresh
  <2>2. faults' \in Nat
    BY <1>5 DEF IInv, TypeOK, Fault
  <2>3. CASE UNCHANGED work
    <3>1. work' = [work EXCEPT ![s] = (@ \ {t}) \cup {t}]
      BY <2>3 DEF IInv, TypeOK
    <3>2. QED
      BY <1>1, <1>3, <1>5, <2>1, <2>2, <3>1
  <2>4. CASE GoTo(s, t, "gone")
    <3> DEFINE u == [t EXCEPT !.at = "gone"]
    <3>1. u \in Task /\ u.op = t.op /\ u.printer = t.printer /\ u.at = "gone"
      BY <1>1 DEF Task
    <3>2. work' = [work EXCEPT ![s] = (@ \ {t}) \cup {u}]
      BY <2>4
    <3> HIDE DEF u
    <3>3. QED
      BY <1>1, <1>3, <1>5, <2>1, <2>2, <3>1, <3>2
  <2>5. QED
    BY <1>5, <2>3, <2>4
<1>6. CASE GoTo(s, t, "gone") /\ Fault /\ UNCHANGED cloudVars
  <2>1. TypeOK'
    <3>1. work' \in [Syncers -> SUBSET Task]
      BY <1>6, GoToTyped DEF IInv
    <3>2. faults' \in Nat
      BY <1>6 DEF IInv, TypeOK, Fault
    <3>3. QED
      BY <1>2, <1>6, <3>1, <3>2 DEF IInv, TypeOK
  <2>2. t.printer.id = NoId
    BY <1>1 DEF IInv, TasksAlong
  <2>3. \A i \in Ids : Registered(i)' <=> Registered(i)
    BY <1>6 DEF Registered
  <2>4. QED
    BY <1>1, <1>2, <1>6, <2>1, <2>2, <2>3, ProgressIInv, Bounds
<1>7. QED
  BY <1>4, <1>5, <1>6 DEF Register

\* After a restart the map is made of the cloud's listings: one of each name
\* in byNativeName, all of them in byGCPID; the others of a name are lost.
LEMMA RestartIInv ==
  ASSUME IInv, Restart
  PROVE  IInv'
<1> DEFINE registered == {i \in Ids : Registered(i)}
           named(n) == {i \in registered : cloud[i].name = n}
<1>1. PICK pick \in [Names -> Ids \cup {NoId}] :
        /\ \A n \in Names : IF named(n) = {} THEN pick[n] = NoId ELSE pick[n] \in named(n)
        /\ byName' = [n \in Names |-> IF pick[n] = NoId THEN Absent ELSE Listed(pick[n])]
        /\ byId' = [i \in Ids |-> IF i \in registered THEN Listed(i) ELSE Absent]
        /\ lost' = {i \in registered : \A n \in Names : pick[n] # i}
  BY DEF Restart
<1>2. /\ deleted' = {} /\ local' = [n \in Names |-> Absent]
      /\ mode' = "init" /\ unpublished' = {} /\ work' = [s \in Syncers |-> {}]
      /\ UNCHANGED <<config, native, cloud, issued, faults, changes>>
      /\ restarts' = restarts + 1
  BY DEF Restart
<1>3. \A i \in Ids : Registered(i) =>
        /\ Listed(i) \in Printer /\ Listed(i).id = i /\ Listed(i).name = cloud[i].name
        /\ cloud[i].name \in Names /\ i <= issued
        /\ Listed(i) # Absent
  <2> SUFFICES ASSUME NEW i \in Ids, Registered(i)
               PROVE  /\ Listed(i) \in Printer /\ Listed(i).id = i /\ Listed(i).name = cloud[i].name
                      /\ cloud[i].name \in Names /\ i <= issued
    BY Bounds
  <2>1. cloud[i] \in Listing /\ i <= issued
    BY DEF IInv, TypeOK, IdsIssued, Registered
  <2>2. QED
    BY <2>1 DEF Listed, Listing, Printer
<1>4. \A n \in Names : byName'[n] # Absent =>
        /\ pick[n] \in Ids /\ Registered(pick[n]) /\ cloud[pick[n]].name = n
        /\ byName'[n] = Listed(pick[n])
  BY <1>1, Bounds
<1>5. \A i \in Ids \ lost' : Registered(i) =>
        pick[cloud[i].name] = i /\ byName'[cloud[i].name] = Listed(i)
  <2> SUFFICES ASSUME NEW i \in Ids \ lost', Registered(i)
               PROVE  pick[cloud[i].name] = i /\ byName'[cloud[i].name] = Listed(i)
    OBVIOUS
  <2>1. PICK n \in Names : pick[n] = i
    BY <1>1
  <2>2. byName'[n] = Listed(i)
    BY <1>1, <2>1, Bounds
  <2>3. cloud[i].name = n
    BY <1>1, <2>1, Bounds
  <2>4. QED
    BY <2>1, <2>2, <2>3
<1>6. \A i \in Ids : byId'[i] # Absent => Registered(i) /\ byId'[i] = Listed(i)
  BY <1>1
<1>7. \A i \in Ids : Registered(i) => byId'[i] = Listed(i)
  BY <1>1
<1>8. \A s \in Syncers : work'[s] = {}
  BY <1>2
<1>9. TypeOK'
  <2>1. byName' \in [Names -> Printer \cup {Absent}]
    BY <1>1, <1>3, <1>4
  <2>2. byId' \in [Ids -> Printer \cup {Absent}]
    BY <1>1, <1>3
  <2>3. lost' \subseteq Ids /\ work' \in [Syncers -> SUBSET Task]
    BY <1>1, <1>2
  <2>4. {faults', changes', restarts'} \subseteq Nat
    BY <1>2 DEF IInv, TypeOK
  <2>5. QED
    BY <1>2, <2>1, <2>2, <2>3, <2>4 DEF IInv, TypeOK
<1> HIDE DEF registered, named
<1>10. MapsAgree'
  <2>1. (\A n \in Names : byName[n] # Absent =>
           /\ byName[n].name = n
           /\ byName[n].id \in Ids => byId[byName[n].id] = byName[n]
           /\ byName[n].id \notin Ids => ~config.cloud)'
    BY <1>3, <1>4, <1>7
  <2>2. (\A i \in Ids \ lost : byId[i] # Absent =>
           byId[i].id = i /\ byName[byId[i].name] = byId[i])'
    BY <1>3, <1>5, <1>6
  <2>3. QED
    BY <2>1, <2>2 DEF MapsAgree
<1>11. IdsIssued'
  BY <1>2, <1>3, <1>4, <1>8 DEF IInv, IdsIssued, Registered
<1>12. TasksDistinct' /\ TasksAlong' /\ DroppedGone' /\ KeptPresent'
  BY <1>8 DEF TasksDistinct, TasksAlong, DroppedGone, KeptPresent
<1>13. Booting'
  BY <1>2, <1>8 DEF Booting, Idle
<1>14. NamesKept'
  BY <1>2, <1>3, <1>4, <1>8 DEF NamesKept, Registered
<1>15. InHand'
  <2>1. \A i \in Ids \ lost' : Registered(i) => \E n \in Names : byName'[n] # Absent /\ byName'[n].id = i
    BY <1>3, <1>5
  <2>2. Idle'
    BY <1>8 DEF Idle
  <2>3. QED
    BY <1>2, <2>1, <2>2 DEF InHand, Registered
<1>16. NoPhantom'
  BY <1>2, <1>3, <1>4 DEF NoPhantom, Registered
<1>17. OneLivePrinter'
  BY <1>2, <1>5 DEF OneLivePrinter, Registered
<1>18. QED
  BY <1>9, <1>10, <1>11, <1>12, <1>13, <1>14, <1>15, <1>16, <1>17 DEF IInv

-----------------------------------------------------------------------------
(* The theorems *)

LEMMA NextIInv == IInv /\ [Next]_vars => IInv'
<1> SUFFICES ASSUME IInv, [Next]_vars PROVE IInv'
  OBVIOUS
<1>1. ASSUME NEW s \in Syncers, Sync(s) PROVE IInv'
  <2>1. ASSUME NEW t \in work[s], TaskStep(s, t) PROVE IInv'
    BY <2>1, WithoutCloudIInv, RegisterIInv, ShareIInv, UpdateIInv, DeleteIInv, PrivetIInv DEF TaskStep
  <2>2. QED
    BY <1>1, <2>1, SyncStartIInv, SyncFinishIInv DEF Sync
<1>2. CASE Boot
  BY <1>2, InitialSyncCleanIInv, StartServingIInv, PublishIInv DEF Boot
<1>3. CASE Restart
  BY <1>3, RestartIInv
<1>4. CASE \E n \in Names : NativeChange(n)
  BY <1>4, NativeChangeIInv
<1>5. CASE \E i \in Ids : ToolDeletes(i)
  BY <1>5, ToolDeletesIInv
<1>6. CASE UNCHANGED vars
  BY <1>6 DEF IInv, TypeOK, MapsAgree, NoPhantom, OneLivePrinter, IdsIssued, TasksDistinct,
       TasksAlong, Booting, NamesKept, DroppedGone, KeptPresent, InHand, Idle, OneSyncer,
       Registered, vars
<1>7. QED
  BY <1>1, <1>2, <1>3, <1>4, <1>5, <1>6 DEF Next

\* The strengthened invariant holds of every reachable state.
THEOREM InvariantHolds == Spec => []IInv
  BY InitIInv, NextIInv, PTL DEF Spec

\* The types of the manager's state, of the diffs in flight and of the cloud's
\* registry.
THEOREM TypeCorrect == Spec => []TypeOK
<1>1. IInv => TypeOK
  BY DEF IInv
<1>2. QED
  BY <1>1, InvariantHolds, PTL

\* Both indexes of ConcurrentPrinterMap describe the same printers, however
\* many syncs run and whenever the process is restarted.
THEOREM IndexesAgree == Spec => []MapsAgree
<1>1. IInv => MapsAgree
  BY DEF IInv
<1>2. QED
  BY <1>1, InvariantHolds, PTL

\* With one syncer, the manager knows no printer that is not in the cloud, but
\* for one it is just deleting or one deleted behind its back.
THEOREM KnownAreRegistered == Spec => []NoPhantom
<1>1. IInv => NoPhantom
  BY DEF IInv
<1>2. QED
  BY <1>1, InvariantHolds, PTL

\* With one syncer, no printer of the cloud is forgotten: it is in the map, in
\* a running applyDiff, or one that a failure or a duplicate name has lost.
THEOREM RegisteredAreKnown == Spec => []CloudAccounted
<1>1. IInv => CloudAccounted
  BY DEF IInv, InHand, CloudAccounted
<1>2. QED
  BY <1>1, InvariantHolds, PTL

\* With one syncer, no name is registered twice while its printer is live.
THEOREM NoSecondPrinter == Spec => []OneLivePrinter
<1>1. IInv => OneLivePrinter
  BY DEF IInv
<1>2. QED
  BY <1>1, InvariantHolds, PTL
=============================================================================
