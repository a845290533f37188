---------------------------- MODULE PrinterSync ----------------------------
(***************************************************************************)
(* The printer synchronisation of manager/printermanager.go: SyncPrinters  *)
(* compares the native printers with the connector's map (lib.DiffPrinters)*)
(* and starts one applyDiff goroutine per difference; when all of them     *)
(* have answered, the map is replaced (ConcurrentPrinterMap.Refresh).      *)
(*                                                                         *)
(* A sync is run by a syncer: the poll timer, and on Windows also the      *)
(* callback of a device event; nothing excludes two syncs at a time.  The  *)
(* native print system, the cloud's registry, the administration tool      *)
(* (gcp-cups-connector-util) and the failures of the calls are the         *)
(* environment.                                                            *)
(***************************************************************************)
EXTENDS Naturals, FiniteSets

CONSTANTS
  Names,           \* native printer names
  Displays,        \* values of DefaultDisplayName
  Capses,          \* values of everything else that diffPrinter compares
  Syncers,         \* goroutines that call SyncPrinters after start-up
  Absent,          \* "no such printer", in every map below
  MaxIds,          \* bound on the GCPIDs the cloud hands out
  Configs          \* the configurations the connector may run with, each with
                   \* the bounds under which it is explored

ASSUME ConstantsAssumption ==
  /\ IsFiniteSet(Names) /\ Names \cap Nat = {} /\ IsFiniteSet(Syncers)
  /\ MaxIds \in Nat
  /\ \A c \in Configs :
       /\ {c.cloud, c.privet, c.share} \subseteq BOOLEAN
       /\ c.names \subseteq Names /\ c.syncers \subseteq Syncers
       /\ c.ids \in 0 .. MaxIds
       /\ {c.faults, c.changes, c.restarts} \subseteq Nat

\* GCPIDs in the order in which they are handed out; 0 is the empty GCPID of a
\* printer the cloud does not have.
Ids  == 1 .. MaxIds
NoId == 0

Desc    == [display : Displays, caps : Capses]
Printer == [name : Names, id : Ids \cup {NoId}, desc : Desc]
Listing == [name : Names, desc : Desc, shared : BOOLEAN]
Record  == [display : Displays, id : Ids \cup {NoId}]

ASSUME AbsentAssumption == Absent \notin Desc \cup Printer \cup Listing \cup Record

\* One lib.PrinterDiff and how far its applyDiff goroutine has come: before
\* the cloud call, before Share, before the privet call, or having sent its
\* printer ("answer") or the zero printer ("gone") to SyncPrinters.
Task == [op      : {"register", "update", "delete", "nochange"},
         printer : Printer,
         changed : SUBSET {"display", "caps"},
         at      : {"call", "share", "privet", "answer", "gone"}]

VARIABLES
  config,       \* .cloud: pm.gcp # nil, .privet: pm.privet # nil, .share: gcp.CanShare();
                \* bounds: .names, .syncers, .ids, .faults, .changes, .restarts
  native,       \* the native print system: name -> description
  cloud,        \* the cloud's registry: GCPID -> listing
  issued,       \* number of GCPIDs handed out
  byName,       \* pm.printers.byNativeName
  byId,         \* pm.printers.byGCPID
  local,        \* the privet service: zeroconf record per printer name
  mode,         \* NewPrinterManager: "init" sync, "publish" to privet, "run"
  unpublished,  \* printers NewPrinterManager has still to add to privet
  work,         \* work[s]: the diffs of the sync s is in, {} when it is idle
  lost,         \* (history) cloud printers the connector has lost track of
  deleted,      \* (history) cloud printers deleted behind the running process's back
  faults, changes, restarts

cloudVars == <<cloud, issued, lost, deleted>>
mapVars   == <<byName, byId>>
bootVars  == <<mode, unpublished>>
vars == <<config, native, cloudVars, mapVars, local, bootVars, work, faults, changes, restarts>>

TypeOK ==
  /\ config \in Configs
  /\ native \in [Names -> Desc \cup {Absent}]
  /\ cloud \in [Ids -> Listing \cup {Absent}]
  /\ issued \in 0 .. MaxIds /\ lost \subseteq Ids /\ deleted \subseteq Ids
  /\ byName \in [Names -> Printer \cup {Absent}]
  /\ byId \in [Ids -> Printer \cup {Absent}]
  /\ local \in [Names -> Record \cup {Absent}]
  /\ mode \in {"init", "publish", "run"}
  /\ unpublished \subseteq Names
  /\ work \in [Syncers -> SUBSET Task]
  /\ {faults, changes, restarts} \subseteq Nat

-----------------------------------------------------------------------------
(* ConcurrentPrinterMap and DiffPrinters *)

GetAll == {byName[n] : n \in {m \in Names : byName[m] # Absent}}

\* Seeded fault: an id of no printer of the slice keeps its old entry.
Refresh_KeepsIds(ps) ==
  /\ byName' = [n \in Names |-> IF \E p \in ps : p.name = n
                                THEN CHOOSE p \in ps : p.name = n ELSE Absent]
  /\ byId' = [i \in Ids |-> IF \E p \in ps : p.id = i
                            THEN CHOOSE p \in ps : p.id = i ELSE byId[i]]

\* Refresh rebuilds both indexes from the same slice.
Refresh(ps) ==
  /\ byName' = [n \in Names |-> IF \E p \in ps : p.name = n
                                THEN CHOOSE p \in ps : p.name = n ELSE Absent]
  /\ byId' = [i \in Ids |-> IF \E p \in ps : p.id = i
                            THEN CHOOSE p \in ps : p.id = i ELSE Absent]

NativePrinters ==
  {[name |-> n, id |-> NoId, desc |-> native[n]] : n \in {m \in Names : native[m] # Absent}}

Diff(op, p, fields) ==
  [op |-> op, printer |-> p, changed |-> fields,
   at |-> IF op = "nochange" THEN "answer" ELSE "call"]

\* Seeded fault: only the display name is compared.
DiffPrinter_IgnoresCaps(pn, pg) ==
  IF pn.desc.display = pg.desc.display
  THEN Diff("nochange", pg, {})
  ELSE Diff("update", pn, {"display"})

DiffPrinter(pn, pg) ==
  IF pn.desc = pg.desc
  THEN Diff("nochange", pg, {})
  ELSE Diff("update", pn, {f \in {"display", "caps"} : pn.desc[f] # pg.desc[f]})

\* Seeded fault: a deletion does not mark the diffs dirty.
DiffPrinters_CleanDelete(natives, gcps) ==
  LET First(ps, n) == CHOOSE p \in ps : p.name = n
      nativeNames  == {p.name : p \in natives}
      diffs ==
        {DiffPrinter([First(natives, p.name) EXCEPT !.id = p.id], p) :
           p \in {q \in gcps : q.name \in nativeNames}}
        \cup {Diff("delete", p, {}) : p \in {q \in gcps : q.name \notin nativeNames}}
        \cup {Diff("register", p, {}) : p \in {q \in natives : \A g \in gcps : g.name # q.name}}
  IN  IF \A d \in diffs : d.op \in {"nochange", "delete"} THEN {} ELSE diffs

\* The empty set stands for nil: no printer, or nothing but "nochange".
DiffPrinters(natives, gcps) ==
  LET First(ps, n) == CHOOSE p \in ps : p.name = n
      considered   == {First(gcps, p.name) : p \in gcps}
      nativeNames  == {p.name : p \in natives}
      diffs ==
        {Diff("delete", p, {}) : p \in gcps \ considered}
        \cup {DiffPrinter([First(natives, p.name) EXCEPT !.id = p.id], p) :
                p \in {q \in considered : q.name \in nativeNames}}
        \cup {Diff("delete", p, {}) : p \in {q \in considered : q.name \notin nativeNames}}
        \cup {Diff("register", p, {}) : p \in {q \in natives : \A g \in gcps : g.name # q.name}}
  IN  IF \A d \in diffs : d.op = "nochange" THEN {} ELSE diffs

CurrentDiffs == DiffPrinters(NativePrinters, GetAll)

-----------------------------------------------------------------------------
Init ==
  /\ config \in Configs
  /\ native \in {f \in [Names -> Desc \cup {Absent}] : \A n \in Names \ config.names : f[n] = Absent}
  /\ cloud = [i \in Ids |-> Absent] /\ issued = 0 /\ lost = {} /\ deleted = {}
  /\ byName = [n \in Names |-> Absent] /\ byId = [i \in Ids |-> Absent]
  /\ local = [n \in Names |-> Absent]
  /\ mode = "init" /\ unpublished = {}
  /\ work = [s \in Syncers |-> {}]
  /\ faults = 0 /\ changes = 0 /\ restarts = 0

\* A call fails, within the bound.
Fault   == faults < config.faults /\ faults' = faults + 1
NoFault == UNCHANGED faults

(* Environment: a printer is installed, removed or reconfigured. *)
NativeChange(n) ==
  /\ n \in config.names
  /\ changes < config.changes /\ changes' = changes + 1
  /\ \E d \in (Desc \cup {Absent}) \ {native[n]} : native' = [native EXCEPT ![n] = d]
  /\ UNCHANGED <<config, cloudVars, mapVars, local, bootVars, work, faults, restarts>>

\* gcp.List and gcp.Delete.
Registered(i) == cloud[i] # Absent
Without(i)    == [cloud EXCEPT ![i] = Absent]

\* The tool's delete-all-gcp-printers deletes what it has listed, one printer
\* at a time; nothing tells the connector.
ToolDeletes(i) ==
  /\ config.cloud /\ Registered(i)
  /\ changes < config.changes /\ changes' = changes + 1
  /\ cloud' = Without(i) /\ deleted' = deleted \cup {i}
  /\ UNCHANGED <<config, native, issued, lost, mapVars, local, bootVars, work, faults, restarts>>

-----------------------------------------------------------------------------
(* SyncPrinters *)

\* While NewPrinterManager runs, its own sync is the only one.
SyncStart(s) ==
  /\ s \in config.syncers /\ work[s] = {}
  /\ mode = "run" \/ (mode = "init" /\ \A r \in Syncers : work[r] = {})
  /\ CurrentDiffs # {}
  /\ work' = [work EXCEPT ![s] = CurrentDiffs]
  /\ UNCHANGED <<config, native, cloudVars, mapVars, local, bootVars, faults, changes, restarts>>

\* What NewPrinterManager goes on to after its sync.
AfterSync(names) ==
  IF mode = "init"
  THEN mode' = "publish" /\ unpublished' = IF config.privet THEN names ELSE {}
  ELSE UNCHANGED bootVars

\* The first sync finds nothing to do: it returns without a Refresh.
InitialSyncClean ==
  /\ mode = "init" /\ \A s \in Syncers : work[s] = {}
  /\ CurrentDiffs = {}
  /\ AfterSync({p.name : p \in GetAll})
  /\ UNCHANGED <<config, native, cloudVars, mapVars, local, work, faults, changes, restarts>>

\* Seeded fault: applyDiff does not answer for a printer without changes.
Answered_NoChange(s) ==
  {t.printer : t \in {u \in work[s] : u.at = "answer" /\ u.op # "nochange"}}

Answered(s) == {t.printer : t \in {u \in work[s] : u.at = "answer"}}

SyncFinish(s) ==
  /\ work[s] # {} /\ \A t \in work[s] : t.at \in {"answer", "gone"}
  /\ Refresh(Answered(s))
  /\ AfterSync({p.name : p \in Answered(s)})
  /\ work' = [work EXCEPT ![s] = {}]
  /\ UNCHANGED <<config, native, cloudVars, local, faults, changes, restarts>>

-----------------------------------------------------------------------------
(* applyDiff *)

\* The step that follows the cloud's part of a diff: the privet call, unless
\* privet is off or ignored, or the answer.
AfterCloud(t) ==
  IF config.privet /\ mode = "run" /\ (t.op = "update" => "display" \in t.changed)
  THEN "privet"
  ELSE IF t.op = "delete" THEN "gone" ELSE "answer"

\* Seeded fault: a deleted printer is answered for.
AfterPrivet_KeepsDeleted(t) == "answer"

AfterPrivet(t) == IF t.op = "delete" THEN "gone" ELSE "answer"

Replace(s, t, u) == work' = [work EXCEPT ![s] = (@ \ {t}) \cup {u}]
GoTo(s, t, at)   == Replace(s, t, [t EXCEPT !.at = at])

taskFrame == <<config, native, deleted, mapVars, bootVars, changes, restarts>>

WithoutCloud(s, t) ==
  /\ ~config.cloud /\ t.at = "call"
  /\ GoTo(s, t, AfterCloud(t))
  /\ UNCHANGED <<taskFrame, cloudVars, local, faults>>

NewPrinter(t) ==
  /\ issued < config.ids /\ issued' = issued + 1
  /\ cloud' = [cloud EXCEPT ![issued'] =
                 [name |-> t.printer.name, desc |-> t.printer.desc, shared |-> FALSE]]

\* Seeded fault: the printer is not shared.
Register_NotShared(s, t) ==
  /\ config.cloud /\ t.op = "register" /\ t.at = "call"
  /\ \/ /\ NewPrinter(t)
        /\ Replace(s, t, [t EXCEPT !.printer.id = issued', !.at = AfterCloud(t)])
        /\ NoFault /\ UNCHANGED lost
     \/ GoTo(s, t, "gone") /\ Fault /\ UNCHANGED cloudVars
  /\ UNCHANGED <<taskFrame, local>>

Register(s, t) ==
  /\ config.cloud /\ t.op = "register" /\ t.at = "call"
  /\ \/ /\ NewPrinter(t)
        /\ Replace(s, t, [t EXCEPT !.printer.id = issued',
                                   !.at = IF config.share THEN "share" ELSE AfterCloud(t)])
        /\ NoFault /\ UNCHANGED lost
     \* The cloud registers it but the answer is an error: postWithRetry
     \* tries again after a 5xx and gives up after anything else.
     \/ /\ NewPrinter(t) /\ lost' = lost \cup {issued'}
        /\ UNCHANGED work \/ GoTo(s, t, "gone")
        /\ Fault
     \/ GoTo(s, t, "gone") /\ Fault /\ UNCHANGED cloudVars
  /\ UNCHANGED <<taskFrame, local>>

Share(s, t) ==
  /\ t.at = "share"
  /\ LET i == t.printer.id
     IN  \/ Registered(i) /\ cloud' = [cloud EXCEPT ![i].shared = TRUE] /\ NoFault
         \/ Registered(i) /\ UNCHANGED cloud /\ Fault
         \/ ~Registered(i) /\ UNCHANGED cloud /\ NoFault
  /\ GoTo(s, t, AfterCloud(t))
  /\ UNCHANGED <<taskFrame, issued, lost, local>>

\* Seeded fault: the whole printer is stored as its description.
Updated_WholePrinter(listing, t) == [listing EXCEPT !.desc = t.printer]

\* Only the changed fields are sent.
Updated(listing, t) ==
  [listing EXCEPT !.desc = [display |-> IF "display" \in t.changed
                                        THEN t.printer.desc.display ELSE @.display,
                            caps |-> IF "caps" \in t.changed
                                     THEN t.printer.desc.caps ELSE @.caps]]

\* Seeded fault: a failed update drops the printer, as a failed deletion does.
Update_DropsPrinter(s, t) ==
  /\ config.cloud /\ t.op = "update" /\ t.at = "call"
  /\ \/ cloud[t.printer.id] # Absent /\ NoFault
        /\ cloud' = [cloud EXCEPT ![t.printer.id] = Updated(@, t)] /\ GoTo(s, t, AfterCloud(t))
     \/ UNCHANGED cloud /\ GoTo(s, t, "gone") /\ Fault
  /\ UNCHANGED <<taskFrame, issued, lost, local>>

\* A failure is logged; the goroutine goes on as if it had not happened.
Update(s, t) ==
  /\ config.cloud /\ t.op = "update" /\ t.at = "call"
  /\ LET i == t.printer.id
     IN  \/ Registered(i) /\ cloud' = [cloud EXCEPT ![i] = Updated(@, t)] /\ (NoFault \/ Fault)
         \/ Registered(i) /\ UNCHANGED cloud /\ Fault
         \/ ~Registered(i) /\ UNCHANGED cloud /\ NoFault
  /\ GoTo(s, t, AfterCloud(t))
  /\ UNCHANGED <<taskFrame, issued, lost, local>>

\* A failure drops the printer, before the privet printer is removed.
Delete(s, t) ==
  /\ config.cloud /\ t.op = "delete" /\ t.at = "call"
  /\ LET i == t.printer.id
     IN  \/ /\ Registered(i) /\ cloud' = Without(i)
            /\ GoTo(s, t, AfterCloud(t)) /\ NoFault /\ UNCHANGED lost
         \/ Registered(i) /\ cloud' = Without(i) /\ GoTo(s, t, "gone") /\ Fault /\ UNCHANGED lost
         \/ Registered(i) /\ UNCHANGED cloud /\ GoTo(s, t, "gone") /\ Fault /\ lost' = lost \cup {i}
         \/ ~Registered(i) /\ GoTo(s, t, "gone") /\ NoFault /\ UNCHANGED <<cloud, lost>>
  /\ UNCHANGED <<taskFrame, issued, local>>

-----------------------------------------------------------------------------
(* The privet service, as applyDiff and NewPrinterManager use it *)

\* Privet.AddPrinter: fails when the name is already published, or for want
\* of a port.
AddPrinter(p) ==
  \/ /\ local[p.name] = Absent /\ NoFault
     /\ local' = [local EXCEPT ![p.name] = [display |-> p.desc.display, id |-> p.id]]
  \/ local[p.name] = Absent /\ UNCHANGED local /\ Fault
  \/ local[p.name] # Absent /\ UNCHANGED local /\ NoFault

\* Privet.UpdatePrinter looks the record up under the printer's GCPID.
UpdatePrinter(p) ==
  LET key == p.id
  IN  IF key \in Names /\ local[key] # Absent
      THEN /\ local' = [local EXCEPT ![key] = [display |-> p.desc.display, id |-> p.id]]
           /\ NoFault
      ELSE UNCHANGED local /\ NoFault

\* Privet.DeletePrinter: removing the record can fail.
DeletePrinter(p) ==
  \/ local' = [local EXCEPT ![p.name] = Absent] /\ NoFault
  \/ local[p.name] # Absent /\ UNCHANGED local /\ Fault

Privet(s, t) ==
  /\ t.at = "privet"
  /\ \/ t.op = "register" /\ AddPrinter(t.printer)
     \/ t.op = "update" /\ UpdatePrinter(t.printer)
     \/ t.op = "delete" /\ DeletePrinter(t.printer)
  /\ GoTo(s, t, AfterPrivet(t))
  /\ UNCHANGED <<taskFrame, cloudVars>>

\* NewPrinterManager adds every printer of the map to privet.
Publish(n) ==
  /\ mode = "publish" /\ n \in unpublished
  /\ AddPrinter(byName[n])
  /\ unpublished' = unpublished \ {n}
  /\ UNCHANGED <<config, native, cloudVars, mapVars, mode, work, changes, restarts>>

\* The poll timer and the listeners start.
StartServing ==
  /\ mode = "publish" /\ unpublished = {}
  /\ mode' = "run"
  /\ UNCHANGED <<config, native, cloudVars, mapVars, local, unpublished, work, faults, changes, restarts>>

-----------------------------------------------------------------------------
(* The process ends at any point and starts again: ListPrinters fills the  *)
(* map with what the cloud has; of several printers of a name the last one *)
(* to be listed stays in byNativeName, all of them in byGCPID.             *)
Listed(i) == [name |-> cloud[i].name, id |-> i, desc |-> cloud[i].desc]

Restart ==
  /\ restarts < config.restarts /\ restarts' = restarts + 1
  /\ deleted' = {}
  /\ LET registered == {i \in Ids : Registered(i)}
         named(n) == {i \in registered : cloud[i].name = n}
     IN  \E pick \in [Names -> Ids \cup {NoId}] :
           /\ \A n \in Names : IF named(n) = {} THEN pick[n] = NoId ELSE pick[n] \in named(n)
           /\ byName' = [n \in Names |-> IF pick[n] = NoId THEN Absent ELSE Listed(pick[n])]
           /\ byId' = [i \in Ids |-> IF i \in registered THEN Listed(i) ELSE Absent]
           /\ lost' = {i \in registered : \A n \in Names : pick[n] # i}
  /\ local' = [n \in Names |-> Absent]
  /\ mode' = "init" /\ unpublished' = {}
  /\ work' = [s \in Syncers |-> {}]
  /\ UNCHANGED <<config, native, cloud, issued, faults, changes>>

-----------------------------------------------------------------------------
TaskStep(s, t) ==
  \/ WithoutCloud(s, t) \/ Register(s, t) \/ Share(s, t)
  \/ Update(s, t) \/ Delete(s, t) \/ Privet(s, t)

Sync(s) ==
  \/ SyncStart(s) \/ SyncFinish(s)
  \/ \E t \in work[s] : TaskStep(s, t)

Boot == InitialSyncClean \/ StartServing \/ \E n \in Names : Publish(n)

Next ==
  \/ \E s \in Syncers : Sync(s)
  \/ Boot
  \/ Restart
  \/ \E n \in Names : NativeChange(n)
  \/ \E i \in Ids : ToolDeletes(i)

Spec == Init /\ [][Next]_vars

\* The timers and the goroutines run; printers need not change, nor the
\* process stop.
Fairness == WF_vars(Boot) /\ \A s \in Syncers : WF_vars(Sync(s))
FairSpec == Spec /\ Fairness
-----------------------------------------------------------------------------
(* Properties *)

Idle == \A s \in Syncers : work[s] = {}

\* Both indexes of the map describe the same printers: the entry of a name
\* carries that name and is found under its GCPID, and the other way round
\* but for duplicates.  (Refresh, NewConcurrentPrinterMap: notifications are
\* routed by GCPID, jobs by name.)
MapsAgree ==
  /\ \A n \in Names : byName[n] # Absent =>
       /\ byName[n].name = n
       /\ byName[n].id \in Ids => byId[byName[n].id] = byName[n]
       /\ byName[n].id \notin Ids => ~config.cloud
  /\ \A i \in Ids \ lost : byId[i] # Absent =>
       byId[i].id = i /\ byName[byId[i].name] = byId[i]

\* A printer the manager knows is registered in the cloud under its name,
\* unless the running sync has just deleted it, or somebody else has.  Holds
\* for one syncer.
OneSyncer == Cardinality(config.syncers) = 1
NoPhantom ==
  config.cloud /\ OneSyncer =>
    \A n \in Names : byName[n] # Absent =>
      LET i == byName[n].id
      IN  \/ Registered(i) /\ cloud[i].name = n
          \/ i \in deleted
          \/ \E s \in Syncers : \E t \in work[s] :
               t.op = "delete" /\ t.at # "call" /\ t.printer.id = i

\* Every printer in the cloud is known to the manager, is in the hands of a
\* running applyDiff, or was lost to a failed call or to a duplicate name.
CloudAccounted ==
  OneSyncer => \A i \in Ids : Registered(i) =>
    \/ i \in lost
    \/ \E n \in Names : byName[n] # Absent /\ byName[n].id = i
    \/ \E s \in Syncers : \E t \in work[s] : t.printer.id = i

\* The manager never registers a second printer for a name whose cloud
\* printer it has not lost.  Holds for one syncer.
OneLivePrinter ==
  OneSyncer => \A i, j \in Ids \ lost :
    (Registered(i) /\ Registered(j) /\ cloud[i].name = cloud[j].name) => i = j

\* Once native printers stop changing and calls stop failing, the manager
\* knows exactly the native printers, as they are.  (The periodic sync: "Even
\* if we miss it eventually the timed updates will pick it up".)
Known(n)  == byName[n] # Absent /\ byName[n].desc = native[n]
Converges == <>[](\A n \in Names : IF native[n] = Absent THEN byName[n] = Absent ELSE Known(n))

\* Without failures the cloud, too, ends up with exactly one printer per
\* native printer, up to date and shared, and privet publishes the same ones,
\* also when the process is restarted in the middle of a sync.  The exceptions:
\* a restart between Register and Share leaves the printer unshared for ever,
\* and what the tool deletes is only noticed by the next process.
InSync ==
  /\ \A n \in Names :
       IF native[n] = Absent
       THEN local[n] = Absent /\ \A i \in Ids : Registered(i) => cloud[i].name # n
       ELSE /\ local[n] # Absent /\ byName[n] # Absent
            /\ \E i \in Ids :
                 /\ cloud[i] = [name |-> n, desc |-> native[n], shared |-> config.share]
                 /\ local[n].id = i /\ byName[n].id = i
                 /\ \A j \in Ids : Registered(j) /\ cloud[j].name = n => j = i
Undisturbed    == config.cloud /\ OneSyncer /\ faults = 0 /\ (config.share => restarts = 0)
CloudConverges == []Undisturbed /\ <>[](deleted = {}) => <>[]InSync

\* lib/printer.go says of two cloud printers of one name "Remove dupes": a
\* sync that starts while the manager knows both deletes one of them.
DupesRemoved ==
  [][\A s \in Syncers : (work[s] = {} /\ work'[s] # {}) =>
       \A i, j \in Ids :
         (i # j /\ byId[i] # Absent /\ byId[j] # Absent /\ byId[i].name = byId[j].name) =>
           \E t \in work'[s] : t.op = "delete" /\ t.printer.id \in {i, j}]_vars

\* privet.go says "UpdatePrinter updates a printer's TXT mDNS record": when no
\* call has failed and no sync runs, the records show the current names.
RecordsCurrent ==
  (Idle /\ mode = "run" /\ faults = 0) =>
    \A n \in Names : (byName[n] # Absent /\ local[n] # Absent) =>
      local[n].display = byName[n].desc.display
=============================================================================
