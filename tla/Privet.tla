------------------------------- MODULE Privet -------------------------------
(***************************************************************************)
(* Local printing (privet/): the listeners of the printers and the port    *)
(* manager they share, the map of APIs, and the publication of each        *)
(* printer by Avahi or by Bonjour (zeroconf).                              *)
(*                                                                         *)
(* The callers are goroutines of the printer manager: one adds or deletes  *)
(* one printer.  The others are each listener's http.Serve, Avahi's poll   *)
(* thread, which calls back when the state of its client changes, and      *)
(* restartAndQuit.  Avahi's poll thread holds the poll lock in a callback. *)
(***************************************************************************)
EXTENDS Naturals, FiniteSetsExt

CONSTANTS
  Printers,
  Ports,         \* low .. high of the port manager
  Listeners,     \* bound: listeners ever opened
  Foreign,       \* ports that other processes may hold at first
  MaxAdds,       \* bound: calls of AddPrinter
  MaxStates,     \* bound: changes of the Avahi client's state, and ports that were in use at first
  MaxErrors      \* bound: failures of Avahi, Bonjour and binding

ASSUME PrivetAssumption ==
  /\ IsFiniteSet(Ports) /\ Ports \subseteq Nat \ {0} /\ Foreign \subseteq Ports
  /\ IsFiniteSet(Printers) /\ IsFiniteSet(Listeners)
  /\ 0 \notin Listeners
  /\ Printers \cap {"none", "callback", "quit", "running", "down", "failure", "select", "stop",
                   "start", "remove", "ended"} = {}
  /\ {MaxAdds, MaxStates, MaxErrors} \subseteq Nat

VARIABLES
  \* portManager and the sockets
  marked,     \* portManager.p
  taken,      \* ports that other processes hold
  lost,       \* (history) ports marked whose bind failed
  listener,   \* every quittableListener: [port, owner, open, quit (q is closed)]
  serve,      \* http.Serve of each: "none", "accept", "close", "free", "ended"
  \* Privet
  apis,       \* Privet.apis: the listener of each printer, 0 when none
  apisMutex,  \* its holder
  call,       \* each printer's call: [at (the next step), port, mine (its listener)]
  adds,
  quitting,   \* Privet.Quit: "no", "zeroconf", "waits", "apis", "close", "free", "done"
  closing,    \* the listener Privet.Quit is closing, 0 when none
  \* zeroconf
  backend,    \* "avahi" or "bonjour"
  zstate,     \* zeroconf.state: "running", "failure", or "down" for the others
  record,     \* zeroconf.printers: [port (0: absent), group]
  unremoved,  \* (history) printers whose record could not be removed
  spMutex,    \* its holder
  poll,       \* the holder of the poll lock
  callback,   \* the callback: "none", "waits" for spMutex, "restart" to be received
  newState,   \* its argument: a state, or the printer whose group collides
  client,     \* the Avahi client and its poll thread exist
  rq,         \* restartAndQuit: "select", "stop", "start", "remove", "ended", or
              \* the printer whose group it removes
  ranged,     \* printers its loop over zeroconf.printers has still to come to
  misused,    \* a group that was freed has been used
  states, errors

portVars == <<marked, taken, lost, listener, serve>>
apiVars  == <<apis, apisMutex, call, adds, quitting, closing>>
zcVars   == <<backend, zstate, record, unremoved, spMutex, poll, callback, newState, client, rq,
              ranged, misused, states>>
privetVars == <<portVars, apiVars, zcVars, errors>>

Absent == [port |-> 0, group |-> "none"]
Unused == [port |-> 0, owner |-> "none", open |-> FALSE, quit |-> FALSE]

PrivetInit ==
  /\ marked = {} /\ taken \in SUBSET Foreign /\ lost = {}
  /\ listener = [l \in Listeners |-> Unused] /\ serve = [l \in Listeners |-> "none"]
  /\ apis = [p \in Printers |-> 0] /\ apisMutex = "none"
  /\ call = [p \in Printers |-> [at |-> "idle", port |-> 0, mine |-> 0]]
  /\ adds = 0 /\ quitting = "no" /\ closing = 0
  /\ backend \in {"avahi", "bonjour"}
  /\ zstate = "down" /\ record = [p \in Printers |-> Absent] /\ unremoved = {}
  /\ spMutex = "none" /\ poll = "none" /\ callback = "none" /\ newState = "down"
  /\ client = TRUE /\ rq = "select" /\ ranged = {} /\ misused = FALSE
  /\ states = Cardinality(taken) /\ errors = 0

At(p, step)   == call[p].at = step
Goto(p, step) == call' = [call EXCEPT ![p].at = step]
Error   == errors < MaxErrors /\ errors' = errors + 1
NoError == UNCHANGED errors
-----------------------------------------------------------------------------
(* portManager.listen *)

AddPrinter(p) ==
  /\ At(p, "idle") /\ apis[p] = 0 /\ adds < MaxAdds
  /\ adds' = adds + 1
  /\ call' = [call EXCEPT ![p] = [at |-> "listen", port |-> 0, mine |-> 0]]
  /\ UNCHANGED <<portVars, apis, apisMutex, quitting, closing, zcVars, errors>>

\* nextAvailablePort, from the port that was tried last.
NextAvailablePort(p) ==
  LET free == {q \in Ports : q >= call[p].port /\ q \notin marked}
  IN /\ At(p, "listen")
     /\ IF free = {} THEN Goto(p, "idle") /\ UNCHANGED marked
        ELSE /\ marked' = marked \cup {Min(free)}
             /\ call' = [call EXCEPT ![p].at = "bind", ![p].port = Min(free)]
     /\ UNCHANGED <<taken, lost, listener, serve, apis, apisMutex, adds, quitting, closing,
                    zcVars, errors>>

InUse(q) == q \in taken \/ \E l \in Listeners : listener[l].open /\ listener[l].port = q

\* newQuittableListener, and newPrivetAPI, which starts to serve.
Bind(p) ==
  LET q == call[p].port
      l == CHOOSE m \in Listeners : listener[m] = Unused
  IN /\ At(p, "bind") /\ ~InUse(q) /\ \E m \in Listeners : listener[m] = Unused
     /\ listener' = [listener EXCEPT ![l] = [port |-> q, owner |-> p, open |-> TRUE, quit |-> FALSE]]
     /\ serve' = [serve EXCEPT ![l] = "accept"]
     /\ call' = [call EXCEPT ![p].at = "publish", ![p].mine = l]
     /\ UNCHANGED <<marked, taken, lost, apis, apisMutex, adds, quitting, closing, zcVars, errors>>

\* A port in use is left marked and the next one is tried; another error of
\* net.ListenTCP ends the call.
BindFails(p) ==
  LET q == call[p].port
  IN /\ At(p, "bind")
     /\ (InUse(q) /\ Goto(p, "listen") /\ NoError) \/ (Goto(p, "idle") /\ Error)
     /\ lost' = lost \cup {q}
     /\ UNCHANGED <<marked, taken, listener, serve, apis, apisMutex, adds, quitting, closing, zcVars>>

OtherProcess(q) ==
  /\ q \in taken /\ taken' = taken \ {q}
  /\ UNCHANGED <<marked, lost, listener, serve, apiVars, zcVars, errors>>
-----------------------------------------------------------------------------
(* quittableListener: quit closes q, then calls Close, as does http.Serve when *)
(* it returns; Close closes the socket, then frees the port.                   *)

CloseQ(l)      == listener' = [listener EXCEPT ![l].quit = TRUE]
CloseSocket(l) == listener' = [listener EXCEPT ![l].open = FALSE]
FreePort(l)    == marked' = marked \ {listener[l].port}

\* Accept returns once q is closed: with an error when the socket is closed, or
\* with a connection when it is not yet.  http.Serve returns, and closes.
Accept(l) ==
  /\ serve[l] = "accept" /\ listener[l].quit
  /\ serve' = [serve EXCEPT ![l] = "close"]
  /\ UNCHANGED <<marked, taken, lost, listener, apiVars, zcVars, errors>>

\* Seeded fault: the port is freed whatever the socket's Close returns.
ServeCloses_AlwaysFrees(l) ==
  /\ serve[l] = "close"
  /\ CloseSocket(l) /\ serve' = [serve EXCEPT ![l] = "free"]
  /\ UNCHANGED <<marked, taken, lost, apiVars, zcVars, errors>>

\* The port is freed by the one whose Close finds the socket open.
ServeCloses(l) ==
  /\ serve[l] = "close"
  /\ IF listener[l].open
     THEN CloseSocket(l) /\ serve' = [serve EXCEPT ![l] = "free"]
     ELSE UNCHANGED listener /\ serve' = [serve EXCEPT ![l] = "ended"]
  /\ UNCHANGED <<marked, taken, lost, apiVars, zcVars, errors>>

ServeFrees(l) ==
  /\ serve[l] = "free" /\ FreePort(l) /\ serve' = [serve EXCEPT ![l] = "ended"]
  /\ UNCHANGED <<taken, lost, listener, apiVars, zcVars, errors>>

Serve(l) == Accept(l) \/ ServeCloses(l) \/ ServeFrees(l)
-----------------------------------------------------------------------------
(* zeroconf.addPrinter and the rest of Privet.AddPrinter *)

Running == backend = "avahi" /\ zstate = "running"

\* The record is added with a group when the client runs, which takes the poll lock.
Publish(p) ==
  /\ backend = "avahi" /\ At(p, "publish") /\ spMutex = "none"
  /\ \/ record[p] # Absent /\ Goto(p, "quit") /\ UNCHANGED <<record, spMutex>>
     \/ /\ record[p] = Absent /\ Running
        /\ spMutex' = p /\ Goto(p, "group") /\ UNCHANGED record
     \/ /\ record[p] = Absent /\ ~Running
        /\ record' = [record EXCEPT ![p] = [port |-> call[p].port, group |-> "none"]]
        /\ Goto(p, "store") /\ UNCHANGED spMutex
  /\ UNCHANGED <<portVars, apis, apisMutex, adds, quitting, closing, backend, zstate, unremoved,
                 poll, callback, newState, client, rq, ranged, misused, states, errors>>

\* Bonjour's addPrinter starts the service between two critical sections; the
\* other calls for this printer come later.
BonjourPublish(p) ==
  /\ backend = "bonjour" /\ At(p, "publish")
  /\ \/ /\ record[p] = Absent /\ Goto(p, "store") /\ NoError
        /\ record' = [record EXCEPT ![p] = [port |-> call[p].port, group |-> "live"]]
     \/ record[p] # Absent /\ Goto(p, "quit") /\ UNCHANGED record /\ NoError
     \/ Goto(p, "quit") /\ UNCHANGED record /\ Error
  /\ UNCHANGED <<portVars, apis, apisMutex, adds, quitting, closing, backend, zstate, unremoved,
                 spMutex, poll, callback, newState, client, rq, ranged, misused, states>>

AddGroup(p) ==
  /\ At(p, "group") /\ poll = "none" /\ spMutex' = "none" /\ misused' = ~client
  /\ \/ /\ record' = [record EXCEPT ![p] = [port |-> call[p].port, group |-> "live"]]
        /\ Goto(p, "store") /\ NoError
     \/ Goto(p, "quit") /\ UNCHANGED record /\ Error
  /\ UNCHANGED <<portVars, apis, apisMutex, adds, quitting, closing, backend, zstate, unremoved,
                 poll, callback, newState, client, rq, ranged, states>>

Store(p) ==
  /\ At(p, "store") /\ apisMutex = "none"
  /\ apis' = [apis EXCEPT ![p] = call[p].mine] /\ Goto(p, "idle")
  /\ UNCHANGED <<portVars, apisMutex, adds, quitting, closing, zcVars, errors>>
-----------------------------------------------------------------------------
(* Privet.DeletePrinter, which holds apisMutex, and zeroconf.removePrinter *)

DeletePrinter(p) ==
  /\ At(p, "idle") /\ apisMutex = "none"
  /\ apis[p] # 0 \/ record[p] # Absent
  /\ apisMutex' = p /\ Goto(p, "remove")
  /\ UNCHANGED <<portVars, apis, adds, quitting, closing, zcVars, errors>>

Removed(p) == record' = [record EXCEPT ![p] = Absent]

\* Seeded fault: the listener is closed first.
RemoveRecord_After(p) ==
  /\ At(p, "remove") /\ spMutex = "none"
  /\ IF listener[call[p].mine].open THEN CloseSocket(call[p].mine) /\ UNCHANGED <<call, record>>
     ELSE Removed(p) /\ Goto(p, "close") /\ UNCHANGED listener
  /\ UNCHANGED <<marked, taken, lost, serve, apis, apisMutex, adds, quitting, closing, backend,
                 zstate, unremoved, spMutex, poll, callback, newState, client, rq, ranged, misused,
                 states, errors>>

RemoveRecord(p) ==
  /\ backend = "avahi" /\ At(p, "remove") /\ spMutex = "none"
  /\ IF Running /\ record[p].group # "none"
     THEN spMutex' = p /\ Goto(p, "ungroup") /\ UNCHANGED record
     ELSE Removed(p) /\ Goto(p, "close") /\ UNCHANGED spMutex
  /\ UNCHANGED <<portVars, apis, apisMutex, adds, quitting, closing, backend, zstate, unremoved,
                 poll, callback, newState, client, rq, ranged, misused, states, errors>>

BonjourRemove(p) ==
  /\ backend = "bonjour" /\ At(p, "remove") /\ Removed(p) /\ Goto(p, "close")
  /\ UNCHANGED <<portVars, apis, apisMutex, adds, quitting, closing, backend, zstate, unremoved,
                 spMutex, poll, callback, newState, client, rq, ranged, misused, states, errors>>

\* A group that was freed when it could not be added again is freed once more.
\* When the group cannot be removed the record stays, and the rest goes on.
RemoveGroup(p) ==
  /\ At(p, "ungroup") /\ poll = "none" /\ spMutex' = "none"
  /\ misused' = (~client \/ record[p].group = "freed")
  /\ \/ Removed(p) /\ UNCHANGED unremoved /\ NoError
     \/ UNCHANGED record /\ unremoved' = unremoved \cup {p} /\ Error
  /\ Goto(p, "close")
  /\ UNCHANGED <<portVars, apis, apisMutex, adds, quitting, closing, backend, zstate,
                 poll, callback, newState, client, rq, ranged, states>>

\* api.quit, then the entry of the map.  (AddPrinter calls it too, when the
\* printer could not be published.)
QuitListener(p) ==
  /\ At(p, "quit") \/ (At(p, "close") /\ apis[p] # 0)
  /\ CloseQ(call[p].mine) /\ Goto(p, IF At(p, "quit") THEN "quitclose" ELSE "closing")
  /\ UNCHANGED <<marked, taken, lost, serve, apis, apisMutex, adds, quitting, closing, zcVars, errors>>

CloseListener(p) ==
  /\ At(p, "quitclose") \/ At(p, "closing")
  /\ IF listener[call[p].mine].open
     THEN CloseSocket(call[p].mine) /\ Goto(p, IF At(p, "closing") THEN "free" ELSE "quitfree")
     ELSE Goto(p, IF At(p, "closing") THEN "delete" ELSE "idle") /\ UNCHANGED listener
  /\ UNCHANGED <<marked, taken, lost, serve, apis, apisMutex, adds, quitting, closing, zcVars, errors>>

FreeListener(p) ==
  /\ At(p, "free") \/ At(p, "quitfree")
  /\ FreePort(call[p].mine) /\ Goto(p, IF At(p, "free") THEN "delete" ELSE "idle")
  /\ UNCHANGED <<taken, lost, listener, serve, apis, apisMutex, adds, quitting, closing, zcVars, errors>>

\* Seeded fault: apisMutex stays locked when there is no API to quit.
Deleted_KeepsLock(p) ==
  /\ At(p, "delete") \/ (At(p, "close") /\ apis[p] = 0)
  /\ apis' = [apis EXCEPT ![p] = 0] /\ Goto(p, "idle")
  /\ apisMutex' = IF At(p, "delete") THEN "none" ELSE apisMutex
  /\ UNCHANGED <<portVars, adds, quitting, closing, zcVars, errors>>

Deleted(p) ==
  /\ At(p, "delete") \/ (At(p, "close") /\ apis[p] = 0)
  /\ apis' = [apis EXCEPT ![p] = 0] /\ apisMutex' = "none" /\ Goto(p, "idle")
  /\ UNCHANGED <<portVars, adds, quitting, closing, zcVars, errors>>

Called(p) ==
  \/ NextAvailablePort(p) \/ Bind(p) \/ BindFails(p)
  \/ Publish(p) \/ AddGroup(p) \/ BonjourPublish(p) \/ Store(p)
  \/ RemoveRecord(p) \/ RemoveGroup(p) \/ BonjourRemove(p)
  \/ QuitListener(p) \/ CloseListener(p) \/ FreeListener(p) \/ Deleted(p)
-----------------------------------------------------------------------------
(* The callbacks of the Avahi client, in its poll thread *)

\* The thread begins a callback: the client's state changes, or a group collides.
CallbackBegins(s) ==
  /\ backend = "avahi" /\ client /\ zstate # "failure"
  /\ callback = "none" /\ poll = "none" /\ states < MaxStates
  /\ \/ s \in {"running", "down", "failure"} /\ s # zstate
     \/ s \in Printers /\ record[s].group = "live"
  /\ callback' = "waits" /\ newState' = s /\ poll' = "callback" /\ states' = states + 1
  /\ UNCHANGED <<portVars, apiVars, backend, zstate, record, unremoved, spMutex, client, rq, ranged,
                 misused, errors>>

Present == {p \in Printers : record[p] # Absent}

Groups(value) == [p \in Printers |->
  IF p \in DOMAIN value THEN [record[p] EXCEPT !.group = value[p]] ELSE record[p]]

\* The groups when the client runs: one that cannot be populated has been freed,
\* and is kept.
Recreated(p) == [q \in Present |-> IF q = p THEN "freed" ELSE "live"]

\* Seeded fault: groups are removed on a failure only.
StateChange_OnFailure ==
  /\ newState = "failure" => NoError /\ record' = Groups([p \in Present |-> "none"])
  /\ newState = "down" => NoError /\ UNCHANGED record
  /\ newState = "running" => NoError /\ record' = Groups([p \in Present |-> "live"])

StateChange ==
  /\ newState # "running" => NoError /\ record' = Groups([p \in Present |-> "none"])
  /\ newState = "running" =>
       \/ NoError /\ record' = Groups([p \in Present |-> "live"])
       \/ \E p \in Present : Error /\ record' = Groups(Recreated(p))

HandleClientStateChange ==
  /\ callback = "waits" /\ newState \notin Printers /\ spMutex = "none"
  /\ StateChange
  /\ misused' = (newState # "running" /\ \E p \in Printers : record[p].group = "freed")
  /\ IF newState = "failure"
     THEN spMutex' = "callback" /\ callback' = "restart" /\ UNCHANGED <<zstate, poll>>
     ELSE /\ zstate' = newState /\ callback' = "none" /\ poll' = "none" /\ UNCHANGED spMutex
  /\ UNCHANGED <<portVars, apiVars, backend, unremoved, newState, client, rq, ranged, states>>

\* The group gets another name; one that cannot be populated is forgotten.
HandleGroupStateChange ==
  /\ callback = "waits" /\ newState \in Printers /\ spMutex = "none"
  /\ \/ UNCHANGED record /\ NoError
     \/ record' = [record EXCEPT ![newState].group = "none"] /\ Error
  /\ callback' = "none" /\ poll' = "none"
  /\ UNCHANGED <<portVars, apiVars, backend, zstate, unremoved, spMutex, newState, client, rq, ranged,
                 misused, states>>

Callback == HandleClientStateChange \/ HandleGroupStateChange
-----------------------------------------------------------------------------
(* restartAndQuit *)

RestartReceived ==
  /\ callback = "restart" /\ rq = "select" /\ rq' = "stop"
  /\ zstate' = "failure" /\ spMutex' = "none" /\ callback' = "none" /\ poll' = "none"
  /\ UNCHANGED <<portVars, apiVars, backend, record, unremoved, newState, client, ranged, misused,
                 states, errors>>

\* stopAvahiClient waits for the poll thread.
StopClient ==
  /\ rq = "stop" /\ poll = "none" /\ rq' = "start" /\ client' = FALSE
  /\ UNCHANGED <<portVars, apiVars, backend, zstate, record, unremoved, spMutex, poll, callback,
                 newState, ranged, misused, states, errors>>

\* startAvahiClient calls back before it returns: with a daemon that runs, the
\* groups are added to the client that was stopped.
StartClient ==
  /\ rq = "start" /\ spMutex = "none" /\ rq' = "select"
  /\ \/ client' = TRUE /\ zstate' = "down" /\ UNCHANGED misused /\ NoError
     \/ /\ client' = TRUE /\ zstate' = "running" /\ misused' = (Present # {}) /\ NoError
     \/ UNCHANGED <<client, zstate, misused>> /\ Error
  /\ UNCHANGED <<portVars, apiVars, backend, record, unremoved, spMutex, poll, callback,
                 newState, ranged, states>>

QuitReceived ==
  /\ quitting = "zeroconf" /\ backend = "avahi" /\ rq = "select"
  /\ rq' = "remove" /\ ranged' = Present /\ quitting' = "waits"
  /\ UNCHANGED <<portVars, apis, apisMutex, call, adds, closing, backend, zstate, record,
                 unremoved, spMutex, poll, callback, newState, client, misused, states, errors>>

\* The loop comes once to each printer that was there; one that is added
\* meanwhile it comes to or not.
Comes(p) == p \in ranged \/ p \notin unremoved

\* When a group cannot be removed the record stays, and the loop goes on.
QuitRemoves(p) ==
  /\ \/ /\ rq = "remove" /\ record[p] # Absent /\ Comes(p) /\ spMutex = "none"
        /\ IF Running /\ record[p].group # "none"
           THEN spMutex' = "quit" /\ rq' = p /\ UNCHANGED <<record, ranged>>
           ELSE Removed(p) /\ ranged' = ranged \ {p} /\ UNCHANGED <<spMutex, rq>>
        /\ UNCHANGED <<unremoved, misused>> /\ NoError
     \/ /\ rq = p /\ poll = "none" /\ spMutex' = "none" /\ rq' = "remove"
        /\ ranged' = ranged \ {p} /\ misused' = (~client \/ record[p].group = "freed")
        /\ \/ Removed(p) /\ UNCHANGED unremoved /\ NoError
           \/ UNCHANGED record /\ unremoved' = unremoved \cup {p} /\ Error
  /\ UNCHANGED <<portVars, apiVars, backend, zstate, poll, callback, newState, client, states>>

\* Stopping the client withdraws what it still announces.
QuitStops ==
  /\ rq = "remove" /\ ranged \cap Present = {} /\ poll = "none"
  /\ rq' = "ended" /\ quitting' = "apis" /\ misused' = ~client /\ client' = FALSE
  /\ UNCHANGED <<portVars, apis, apisMutex, call, adds, closing, backend, zstate, record,
                 unremoved, spMutex, poll, callback, newState, ranged, states, errors>>

RestartAndQuit ==
  RestartReceived \/ StopClient \/ StartClient \/ QuitReceived
  \/ (\E p \in Printers : QuitRemoves(p)) \/ QuitStops
-----------------------------------------------------------------------------
(* Privet.Quit *)

QuitStarts ==
  /\ quitting = "no" /\ apisMutex = "none"
  /\ quitting' = "zeroconf" /\ apisMutex' = "quit"
  /\ UNCHANGED <<portVars, apis, call, adds, closing, zcVars, errors>>

BonjourQuit ==
  /\ quitting = "zeroconf" /\ backend = "bonjour" /\ quitting' = "apis"
  /\ record' = [p \in Printers |-> Absent]
  /\ UNCHANGED <<portVars, apis, apisMutex, call, adds, closing, backend, zstate, unremoved,
                 spMutex, poll, callback, newState, client, rq, ranged, misused, states, errors>>

\* api.quit of one API after the other, each of which leaves the map then.
QuitCallsQuit(p) ==
  /\ quitting = "apis" /\ apis[p] # 0
  /\ CloseQ(apis[p]) /\ closing' = apis[p] /\ quitting' = "close"
  /\ UNCHANGED <<marked, taken, lost, serve, apis, apisMutex, call, adds, zcVars, errors>>

QuitDeletes(p) == apis' = [apis EXCEPT ![p] = 0] /\ closing' = 0 /\ quitting' = "apis"

QuitCloses(p) ==
  /\ quitting = "close" /\ apis[p] = closing
  /\ IF listener[closing].open
     THEN CloseSocket(closing) /\ quitting' = "free" /\ UNCHANGED <<apis, closing>>
     ELSE QuitDeletes(p) /\ UNCHANGED listener
  /\ UNCHANGED <<marked, taken, lost, serve, apisMutex, call, adds, zcVars, errors>>

QuitFrees(p) ==
  /\ quitting = "free" /\ apis[p] = closing /\ FreePort(closing) /\ QuitDeletes(p)
  /\ UNCHANGED <<taken, lost, listener, serve, apisMutex, call, adds, zcVars, errors>>

QuitEnds ==
  /\ quitting = "apis" /\ \A p \in Printers : apis[p] = 0
  /\ quitting' = "done" /\ apisMutex' = "none"
  /\ UNCHANGED <<portVars, apis, call, adds, closing, zcVars, errors>>

Quitting ==
  BonjourQuit \/ (\E p \in Printers : QuitCallsQuit(p) \/ QuitCloses(p) \/ QuitFrees(p)) \/ QuitEnds
-----------------------------------------------------------------------------
\* The process ends soon after Quit, and has no meaning after a misuse.
Live == ~misused /\ quitting # "done"

PrivetNext ==
  /\ Live
  /\ \/ \E p \in Printers : AddPrinter(p) \/ DeletePrinter(p) \/ Called(p)
     \/ \E l \in Listeners : Serve(l)
     \/ \E q \in Ports : OtherProcess(q)
     \/ \E s \in {"running", "down", "failure"} \cup Printers : CallbackBegins(s)
     \/ Callback \/ RestartAndQuit \/ QuitStarts \/ Quitting

\* The goroutines and the poll thread run.
PrivetFairness ==
  /\ \A p \in Printers : WF_privetVars(Live /\ Called(p))
  /\ WF_privetVars(Live /\ Callback)
  /\ WF_privetVars(Live /\ RestartAndQuit)
  /\ WF_privetVars(Live /\ Quitting)

PrivetSpec == PrivetInit /\ [][PrivetNext]_privetVars /\ PrivetFairness
-----------------------------------------------------------------------------
(* Properties *)

Freeing(l) == serve[l] = "free" \/ (quitting = "free" /\ closing = l)
              \/ \E p \in Printers : call[p].mine = l /\ call[p].at \in {"free", "quitfree"}

\* The port manager's marks are exactly the ports of the listeners, each of which
\* has a port of its own, those about to be bound or freed, and those lost when
\* they could not be bound: the two Close calls of each listener, http.Serve's and
\* quit's, free its port once and never the port of a later listener.
PortsExact ==
  /\ \A l, m \in Listeners : l # m /\ listener[l].open /\ listener[m].open
       => listener[l].port # listener[m].port
  /\ marked = lost \cup {call[p].port : p \in {q \in Printers : At(q, "bind")}}
              \cup {listener[l].port : l \in {m \in Listeners : listener[m].open \/ Freeing(m)}}

Served(p) == \E l \in Listeners :
  listener[l].open /\ listener[l].owner = p /\ listener[l].port = record[p].port

\* The record of a printer names a port where that printer's own API listens,
\* from its publication until it is removed, unless its removal has failed.
RecordServed ==
  \A p \in Printers \ unremoved : record[p] # Absent => Served(p)

\* With spMutex free the groups are those the state asks for: every record is
\* announced while the client runs, and none has a group when it does not.
\* This is said of Avahi, before anything of it failed (an error leaves a group
\* behind, or forgets one), unless a group was used after it was freed, which
\* a restart with records present comes to, and but for the time between the
\* stop of the client and the next start.  (handleClientStateChange, addPrinter.)
GroupsFollow ==
  (Live /\ spMutex = "none" /\ backend = "avahi" /\ rq # "start" /\ errors = 0) =>
    \A p \in Present : (record[p].group = "live") = (zstate = "running")

\* A call holds spMutex and waits for the poll lock, which a callback holds that
\* waits for spMutex.
Crossed == callback = "waits" /\ (rq \in Printers \/ \E p \in Printers : call[p].at \in {"group", "ungroup"})

\* A callback waits for a restart that restartAndQuit will not receive any more.
RestartLost == callback = "restart" /\ (rq \in {"remove", "ended"} \/ rq \in Printers)

\* Every call of the manager and Quit return, unless the locks are crossed, a
\* restart is lost, or a group or a client is used after it was freed, after
\* which nothing can be said: there is no other way to wait for ever.
CallsReturn ==
  /\ \A p \in Printers : ~At(p, "idle") ~> At(p, "idle") \/ Crossed \/ RestartLost \/ ~Live
  /\ quitting # "no" ~> ~Live \/ Crossed \/ RestartLost
=============================================================================
