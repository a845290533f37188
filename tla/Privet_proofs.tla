--------------------------- MODULE Privet_proofs ---------------------------
(***************************************************************************)
(* Proofs about local printing, for any printers, ports, listeners, ports  *)
(* of other processes, changes of Avahi's state and failures.              *)
(***************************************************************************)
EXTENDS Privet, FiniteSetTheorems, NaturalsInduction, TLAPS

-----------------------------------------------------------------------------
(* The inductive invariant *)

CallSteps == {"idle", "listen", "bind", "publish", "group", "store", "quit", "quitclose",
              "quitfree", "remove", "ungroup", "close", "closing", "free", "delete"}
CallType     == [at : CallSteps, port : Ports \cup {0}, mine : Listeners \cup {0}]
ListenerType == [port : Ports \cup {0}, owner : Printers \cup {"none"}, open : BOOLEAN, quit : BOOLEAN]
RecordType   == [port : Ports \cup {0}, group : {"none", "live", "freed"}]
ClientStates == {"running", "down", "failure"}

\* The type of each variable.
PortTypes ==
  /\ marked \subseteq Ports /\ taken \subseteq Ports /\ lost \subseteq Ports
  /\ listener \in [Listeners -> ListenerType]
  /\ serve \in [Listeners -> {"none", "accept", "close", "free", "ended"}]
ApiTypes ==
  /\ apis \in [Printers -> Listeners \cup {0}] /\ apisMutex \in Printers \cup {"none", "quit"}
  /\ call \in [Printers -> CallType] /\ adds \in Nat
  /\ quitting \in {"no", "zeroconf", "waits", "apis", "close", "free", "done"} /\ closing \in Listeners \cup {0}
ZeroconfTypes ==
  /\ backend \in {"avahi", "bonjour"} /\ zstate \in ClientStates
  /\ record \in [Printers -> RecordType] /\ unremoved \subseteq Printers
  /\ spMutex \in Printers \cup {"none", "callback", "quit"} /\ poll \in {"none", "callback"}
  /\ callback \in {"none", "waits", "restart"} /\ newState \in ClientStates \cup Printers
  /\ client \in BOOLEAN /\ rq \in {"select", "stop", "start", "remove", "ended"} \cup Printers
  /\ misused \in BOOLEAN /\ states \in Nat /\ errors \in Nat
TypeOK == PortTypes /\ ApiTypes /\ ZeroconfTypes

\* Who holds the two locks; restartAndQuit removes the records while Quit waits.
Deleting(p) == call[p].at \in {"remove", "ungroup", "close", "closing", "free", "delete"}
Grouping(p) == call[p].at \in {"group", "ungroup"}
Locked ==
  /\ \A p \in Printers : Deleting(p) => apisMutex = p
  /\ quitting \in {"zeroconf", "waits", "apis", "close", "free"} => apisMutex = "quit"
  /\ \A p \in Printers : Grouping(p) => spMutex = p
  /\ rq \in Printers => spMutex = "quit"
  /\ rq \in {"remove"} \cup Printers => quitting = "waits"
  /\ callback = "restart" => spMutex = "callback"

\* Listeners belong to the printer they were opened for; a printer in the map is
\* there with the listener its last call opened, and is not being added again.
Adding(p) == call[p].at \in {"listen", "bind", "publish", "group", "store", "quit", "quitclose", "quitfree"}
Opened == {"publish", "group", "store", "quit", "quitclose", "quitfree", "closing", "free"}
Owned ==
  /\ \A p \in Printers :
       /\ call[p].mine # 0 => listener[call[p].mine].owner = p
       /\ apis[p] # 0 => apis[p] = call[p].mine
       /\ call[p].at \in Opened => call[p].mine # 0
       /\ Adding(p) => apis[p] = 0
  /\ \A l \in Listeners :
       /\ listener[l].port = 0 => listener[l] = Unused /\ serve[l] = "none"
       /\ listener[l].port # 0 => listener[l].owner \in Printers
       /\ serve[l] = "close" => listener[l].quit
  /\ closing # 0 => listener[closing].port # 0
  /\ quitting \in {"close", "free"} => closing # 0

\* Each marked port is lost or has exactly one holder: a call about to bind it,
\* an open listener, or a closed one on its way to freeing it; and each listener
\* is freed by one only.
Binding(p) == call[p].at = "bind"
Frees(p)   == call[p].at \in {"free", "quitfree"}
QuitFreeing(l) == quitting = "free" /\ closing = l
Holds(l)   == listener[l].open \/ Freeing(l)
OneFreer ==
  /\ \A l \in Listeners : serve[l] = "free" => ~QuitFreeing(l)
  /\ \A p \in Printers : Frees(p) => ~QuitFreeing(call[p].mine) /\ serve[call[p].mine] # "free"
PortsInv ==
  /\ \A l \in Listeners : Freeing(l) => ~listener[l].open
  /\ OneFreer
  /\ \A p, q \in Printers : p # q /\ Binding(p) /\ Binding(q) => call[p].port # call[q].port
  /\ \A p \in Printers, l \in Listeners : Binding(p) /\ Holds(l) => call[p].port # listener[l].port
  /\ \A l, m \in Listeners : l # m /\ Holds(l) /\ Holds(m) => listener[l].port # listener[m].port
  /\ \A p \in Printers : Binding(p) => call[p].port \in marked \ lost
  /\ \A l \in Listeners : Holds(l) => listener[l].port \in marked \ lost
  /\ lost \subseteq marked
  /\ \A q \in marked \ lost :
       \/ \E p \in Printers : Binding(p) /\ call[p].port = q
       \/ \E l \in Listeners : Holds(l) /\ listener[l].port = q

\* A record names the open listener of its printer, from the end of its
\* publication to the removal of the record; and a printer that Quit has yet to
\* close has no record any more.
Recorded(p) ==
  /\ record[p].port = 0 => record[p] = Absent
  /\ call[p].at \in {"publish", "group"} =>
       /\ listener[call[p].mine].open /\ ~listener[call[p].mine].quit
       /\ listener[call[p].mine].port = call[p].port
  /\ p \notin unremoved /\ record[p] # Absent =>
       /\ call[p].at \in {"store", "idle", "remove", "ungroup"} /\ call[p].mine # 0
       /\ listener[call[p].mine].open /\ ~listener[call[p].mine].quit
       /\ listener[call[p].mine].port = record[p].port
       /\ call[p].at # "store" => apis[p] = call[p].mine
  /\ quitting \in {"apis", "close", "free"} /\ apis[p] # 0 /\ p \notin unremoved => record[p] = Absent

\* Until something fails, the groups follow the state; between the callback of a
\* failure and its reception there is none.
Grouped ==
  /\ backend = "avahi" /\ errors = 0 /\ ~misused => \A p \in Present :
       record[p].group = "live" <=> (callback # "restart" /\ zstate = "running")
  /\ \A p \in Printers : call[p].at = "group" => zstate = "running" /\ backend = "avahi"
  /\ rq \in {"stop", "start"} => zstate = "failure" /\ callback = "none"

\* While restartAndQuit goes through the records of Quit, it has still to come to
\* each one whose printer is in the map of APIs, unless the removal failed.
Ranging == rq \in {"remove"} \cup Printers =>
  \A p \in Printers \ unremoved : apis[p] # 0 /\ record[p] # Absent => p \in ranged

IInv ==
  TypeOK /\ Locked /\ Owned /\ PortsInv /\ (\A p \in Printers : Recorded(p)) /\ Grouped

-----------------------------------------------------------------------------
(* What steps change, and what they leave *)

USE DEF portVars, apiVars, zcVars, At, Error, NoError, Opened

LEMMA Tags ==
  /\ \A p \in Printers : p \notin {"none", "callback", "quit", "running", "down", "failure", "select",
                                    "stop", "start", "remove", "ended"}
  /\ 0 \notin Listeners /\ 0 \notin Ports /\ Ports \subseteq Nat /\ Foreign \subseteq Ports
  BY PrivetAssumption DEF PrivetAssumption

LEMMA GotoEffect ==
  ASSUME TypeOK, NEW p \in Printers, NEW step \in CallSteps, Goto(p, step)
  PROVE  /\ call' \in [Printers -> CallType] /\ call'[p].at = step
         /\ call'[p].port = call[p].port /\ call'[p].mine = call[p].mine
         /\ \A q \in Printers \ {p} : call'[q] = call[q]
<1>1. call \in [Printers -> CallType] /\ call[p] \in CallType
  BY DEF TypeOK, ApiTypes
<1>2. call' = [call EXCEPT ![p] = [call[p] EXCEPT !.at = step]]
  BY <1>1 DEF Goto
<1>3. [call[p] EXCEPT !.at = step] \in CallType
  BY <1>1 DEF CallType
<1>4. QED
  BY <1>1, <1>2, <1>3 DEF CallType

\* What closing q or the socket of listener l does: nothing to its port, to its
\* owner and to the others.
Closes(l) ==
  /\ listener' \in [Listeners -> ListenerType]
  /\ listener'[l].port = listener[l].port /\ listener'[l].owner = listener[l].owner
  /\ listener[l].quit => listener'[l].quit
  /\ \A m \in Listeners \ {l} : listener'[m] = listener[m]

LEMMA CloseEffect ==
  ASSUME TypeOK, NEW l \in Listeners, CloseSocket(l)
  PROVE  Closes(l) /\ ~listener'[l].open
<1>1. listener \in [Listeners -> ListenerType] /\ listener[l] \in ListenerType
  BY DEF TypeOK, PortTypes
<1>2. listener' = [listener EXCEPT ![l] = [listener[l] EXCEPT !.open = FALSE]]
  BY <1>1 DEF CloseSocket
<1>3. [listener[l] EXCEPT !.open = FALSE] \in ListenerType
  BY <1>1 DEF ListenerType
<1>4. QED
  BY <1>1, <1>2, <1>3 DEF ListenerType, Closes

LEMMA QuitEffect ==
  ASSUME TypeOK, NEW l \in Listeners, CloseQ(l)
  PROVE  Closes(l) /\ listener'[l].open = listener[l].open
<1>1. listener \in [Listeners -> ListenerType] /\ listener[l] \in ListenerType
  BY DEF TypeOK, PortTypes
<1>2. listener' = [listener EXCEPT ![l] = [listener[l] EXCEPT !.quit = TRUE]]
  BY <1>1 DEF CloseQ
<1>3. [listener[l] EXCEPT !.quit = TRUE] \in ListenerType
  BY <1>1 DEF ListenerType
<1>4. QED
  BY <1>1, <1>2, <1>3 DEF ListenerType, Closes

LEMMA RecordEffect ==
  ASSUME TypeOK, NEW p \in Printers, NEW r \in RecordType, record' = [record EXCEPT ![p] = r]
  PROVE  /\ record' \in [Printers -> RecordType] /\ record'[p] = r
         /\ \A q \in Printers \ {p} : record'[q] = record[q]
  BY DEF TypeOK, ZeroconfTypes

LEMMA AbsentType == Absent \in RecordType /\ Absent.port = 0 /\ Absent.group = "none"
  BY DEF Absent, RecordType

LEMMA FreersOpened ==
  ASSUME IInv, NEW p \in Printers, call[p].at \in Opened
  PROVE  call[p].mine \in Listeners /\ call[p].mine # 0 /\ listener[call[p].mine].owner = p
         /\ listener[call[p].mine].port # 0
  BY Tags DEF IInv, TypeOK, ApiTypes, CallType, Owned, Unused, PortTypes, ListenerType

\* Who frees which port stays as it is, ...
LEMMA FreersQuiet ==
  ASSUME IInv, UNCHANGED closing, quitting' = "free" <=> quitting = "free",
         \A l \in Listeners : serve'[l] = "free" <=> serve[l] = "free",
         \A p \in Printers : (Frees(p)' <=> Frees(p)) /\ (Frees(p) => call'[p].mine = call[p].mine)
  PROVE  OneFreer'
<1>1. \A l : QuitFreeing(l)' <=> QuitFreeing(l)
  BY DEF QuitFreeing
<1>2. ASSUME NEW p \in Printers, Frees(p)'
      PROVE  ~(quitting' = "free" /\ closing' = call'[p].mine) /\ serve'[call'[p].mine] # "free"
  <2>1. Frees(p) /\ call'[p].mine = call[p].mine /\ call[p].mine \in Listeners
    BY <1>2, FreersOpened DEF Frees
  <2>2. ~QuitFreeing(call[p].mine) /\ serve[call[p].mine] # "free"
    BY <2>1 DEF IInv, PortsInv, OneFreer
  <2>3. QED
    BY <2>1, <2>2 DEF QuitFreeing
<1>3. QED
  BY <1>1, <1>2 DEF IInv, PortsInv, OneFreer, QuitFreeing

\* ... and the ports are left alone by a step after which the same calls bind and free, and
\* no listener has changed.
LEMMA PortsQuiet ==
  ASSUME IInv, UNCHANGED <<marked, lost, listener, closing>>, quitting' = "free" <=> quitting = "free",
         \A l \in Listeners : serve'[l] = "free" <=> serve[l] = "free",
         \A p \in Printers :
           /\ (Binding(p)' <=> Binding(p)) /\ (Binding(p) => call'[p].port = call[p].port)
           /\ (Frees(p)' <=> Frees(p)) /\ (Frees(p) => call'[p].mine = call[p].mine)
  PROVE  PortsInv'
<1>1. \A l \in Listeners : Freeing(l)' <=> Freeing(l)
  BY DEF Freeing, Frees
<1>2. \A l \in Listeners : Holds(l)' <=> Holds(l)
  BY <1>1 DEF Holds
<1>3. OneFreer'
  BY FreersQuiet
<1>4. QED
  BY <1>1, <1>2, <1>3 DEF IInv, PortsInv

\* Everything but the call of one printer is left alone.
LEMMA OwnedQuiet ==
  ASSUME Owned, UNCHANGED <<listener, serve, closing, apis>>,
         quitting' \in {"close", "free"} => quitting \in {"close", "free"},
         \A p \in Printers :
           /\ call'[p].mine = call[p].mine
           /\ call'[p].at \in Opened => call[p].at \in Opened
           /\ Adding(p)' => Adding(p)
  PROVE  Owned'
  BY DEF Owned

LEMMA RecordedQuiet ==
  ASSUME NEW q \in Printers, Recorded(q), UNCHANGED <<listener, record, unremoved>>,
         call'[q] = call[q], apis'[q] = apis[q],
         quitting' \in {"apis", "close", "free"} => quitting \in {"apis", "close", "free"}
  PROVE  Recorded(q)'
  BY DEF Recorded

LEMMA GroupedQuiet ==
  ASSUME Grouped, UNCHANGED <<backend, misused, callback, zstate, record, rq>>,
         errors' = 0 => errors = 0,
         \A p \in Printers : call'[p].at = "group" => call[p].at = "group"
  PROVE  Grouped'
  BY DEF Grouped, Present

\* Listeners stay with their printers when one that exists is closed.
LEMMA OwnedCloses ==
  ASSUME IInv, NEW l \in Listeners, listener[l].port # 0, Closes(l),
         closing' \in {closing, 0, l}, quitting' \in {"close", "free"} => closing' # 0,
         \A m \in Listeners : serve'[m] = serve[m] \/ (m = l /\ serve'[m] # "close"),
         \A p \in Printers :
           /\ call'[p].mine = call[p].mine /\ apis'[p] \in {apis[p], 0}
           /\ call'[p].at \in Opened => call[p].mine # 0
           /\ Adding(p)' => Adding(p)
  PROVE  Owned'
<1>1. ASSUME NEW p \in Printers
      PROVE  /\ call'[p].mine # 0 => listener'[call'[p].mine].owner = p
             /\ apis'[p] # 0 => apis'[p] = call'[p].mine
             /\ call'[p].at \in Opened => call'[p].mine # 0
             /\ Adding(p)' => apis'[p] = 0
  BY DEF IInv, TypeOK, ApiTypes, CallType, Owned, Closes
<1>2. ASSUME NEW m \in Listeners
      PROVE  /\ listener'[m].port = 0 => listener'[m] = Unused /\ serve'[m] = "none"
             /\ listener'[m].port # 0 => listener'[m].owner \in Printers
             /\ serve'[m] = "close" => listener'[m].quit
  <2>1. CASE m = l
    BY <2>1 DEF IInv, Owned, Closes
  <2>2. CASE m # l
    BY <2>2 DEF IInv, Owned, Closes
  <2>3. QED
    BY <2>1, <2>2
<1>3. closing' # 0 => listener'[closing'].port # 0
  BY DEF IInv, TypeOK, ApiTypes, Owned, Closes
<1>4. QED
  BY <1>1, <1>2, <1>3 DEF Owned

\* A record is still served when the listener that is closed is another's, or one
\* that was quitting before.
LEMMA RecordedCloses ==
  ASSUME IInv, NEW q \in Printers, NEW l \in Listeners, Closes(l),
         listener[l].quit \/ call[q].mine # l, UNCHANGED <<record, unremoved>>, call'[q] = call[q],
         apis'[q] = apis[q],
         quitting' \in {"apis", "close", "free"} => quitting \in {"apis", "close", "free"}
  PROVE  Recorded(q)'
<1>1. Recorded(q) /\ (call[q].at \in {"publish", "group"} => call[q].mine # 0)
  BY DEF IInv, Owned
<1>2. call[q].mine # l /\ call[q].mine # 0 => listener'[call[q].mine] = listener[call[q].mine]
  BY DEF IInv, TypeOK, ApiTypes, CallType, Closes
<1>3. QED
  BY <1>1, <1>2 DEF Recorded

\* Ports are left alone when q is closed, ...
LEMMA PortsQuit ==
  ASSUME IInv, NEW l \in Listeners, Closes(l), listener'[l].open = listener[l].open,
         UNCHANGED <<marked, lost, serve>>, quitting' = "free" <=> quitting = "free",
         quitting = "free" => closing' = closing,
         \A p \in Printers :
           /\ (Binding(p)' <=> Binding(p)) /\ (Frees(p)' <=> Frees(p))
           /\ call'[p].port = call[p].port /\ call'[p].mine = call[p].mine
  PROVE  PortsInv'
<1>1. \A m \in Listeners : listener'[m].port = listener[m].port /\ listener'[m].open = listener[m].open
  BY DEF Closes
<1>2. \A m \in Listeners : QuitFreeing(m)' <=> QuitFreeing(m)
  BY DEF QuitFreeing
<1>3. \A m \in Listeners : Freeing(m)' <=> Freeing(m)
  BY <1>2 DEF Freeing, Frees, QuitFreeing
<1>4. \A m \in Listeners : Holds(m)' <=> Holds(m)
  BY <1>1, <1>3 DEF Holds
<1>5. OneFreer'
  BY <1>2, FreersOpened DEF IInv, PortsInv, OneFreer, Frees
<1>6. QED
  BY <1>1, <1>3, <1>4, <1>5 DEF IInv, PortsInv

\* ... and when a socket is closed whose closer then is the one to free the port.
LEMMA PortsClosed ==
  ASSUME IInv, NEW l \in Listeners, listener[l].open, Closes(l), ~listener'[l].open,
         UNCHANGED <<marked, lost>>, Freeing(l)', OneFreer',
         \A m \in Listeners \ {l} : Freeing(m)' <=> Freeing(m),
         \A p \in Printers : (Binding(p)' <=> Binding(p)) /\ call'[p].port = call[p].port
  PROVE  PortsInv'
<1>1. \A m \in Listeners : listener'[m].port = listener[m].port
  BY DEF Closes
<1>2. \A m \in Listeners : Holds(m)' <=> Holds(m)
  BY DEF Holds, Closes
<1>3. \A m \in Listeners : Freeing(m)' => ~listener'[m].open
  BY DEF IInv, PortsInv, Closes
<1>4. QED
  BY <1>1, <1>2, <1>3 DEF IInv, PortsInv

\* The one who frees a port was alone in doing so, and nobody holds it then.
LEMMA PortsFreed ==
  ASSUME IInv, NEW l \in Listeners, Freeing(l), ~Freeing(l)', OneFreer',
         UNCHANGED <<lost, listener>>, marked' = marked \ {listener[l].port},
         \A m \in Listeners \ {l} : Freeing(m)' <=> Freeing(m),
         \A p \in Printers : (Binding(p)' <=> Binding(p)) /\ call'[p].port = call[p].port
  PROVE  PortsInv'
<1>0. ~listener[l].open
  BY DEF IInv, PortsInv
<1>1. Holds(l) /\ ~Holds(l)' /\ \A m \in Listeners \ {l} : Holds(m)' <=> Holds(m)
  BY <1>0 DEF Holds
<1>2. \A p \in Printers : Binding(p) => call[p].port # listener[l].port
  BY <1>1 DEF IInv, PortsInv
<1>3. \A m \in Listeners \ {l} : Holds(m) => listener[m].port # listener[l].port
  BY <1>1 DEF IInv, PortsInv
<1>4. \A q \in marked' \ lost' :
        \/ \E p \in Printers : Binding(p)' /\ call'[p].port = q
        \/ \E m \in Listeners : Holds(m)' /\ listener'[m].port = q
  BY <1>1 DEF IInv, PortsInv
<1>5. lost' \subseteq marked'
  BY <1>1 DEF IInv, PortsInv
<1>6. /\ \A p \in Printers : Binding(p)' => call'[p].port \in marked' \ lost'
      /\ \A m \in Listeners : Holds(m)' => listener'[m].port \in marked' \ lost'
  BY <1>1, <1>2, <1>3 DEF IInv, PortsInv
<1>7. /\ \A m \in Listeners : Freeing(m)' => ~listener'[m].open
      /\ \A p, q \in Printers : p # q /\ Binding(p)' /\ Binding(q)' => call'[p].port # call'[q].port
      /\ \A p \in Printers, m \in Listeners : Binding(p)' /\ Holds(m)' => call'[p].port # listener'[m].port
      /\ \A k, m \in Listeners : k # m /\ Holds(k)' /\ Holds(m)' => listener'[k].port # listener'[m].port
  BY <1>1 DEF IInv, PortsInv
<1>8. QED
  BY <1>4, <1>5, <1>6, <1>7 DEF PortsInv

-----------------------------------------------------------------------------
(* The steps of AddPrinter *)

LEMMA AddPrinterKeeps ==
  ASSUME IInv, ~misused, NEW p \in Printers, AddPrinter(p)
  PROVE  IInv'
<1>a. /\ call' \in [Printers -> CallType] /\ call'[p].at = "listen" /\ call'[p].port = 0 /\ call'[p].mine = 0
      /\ \A q \in Printers \ {p} : call'[q] = call[q]
  BY DEF AddPrinter, IInv, TypeOK, ApiTypes, CallType, CallSteps
<1>b. call[p].at = "idle" /\ apis[p] = 0 /\ adds' \in Nat
  BY DEF AddPrinter, IInv, TypeOK, ApiTypes
<1>1. TypeOK'
  BY <1>a, <1>b DEF AddPrinter, IInv, TypeOK, PortTypes, ApiTypes, ZeroconfTypes
<1>2. Locked'
  BY <1>a, <1>b DEF AddPrinter, IInv, Locked, Deleting, Grouping
<1>3. Owned'
  BY <1>a, <1>b DEF AddPrinter, IInv, Owned, Adding
<1>4. PortsInv'
  BY <1>a, <1>b, PortsQuiet DEF AddPrinter, IInv, Binding, Frees
<1>5. ASSUME NEW q \in Printers PROVE Recorded(q)'
  <2>1. CASE q = p
    BY <1>a, <1>b, <2>1 DEF AddPrinter, IInv, Recorded
  <2>2. CASE q # p
    BY <1>a, <2>2, RecordedQuiet DEF AddPrinter, IInv
  <2>3. QED
    BY <2>1, <2>2
<1>6. Grouped'
  BY <1>a, <1>b, GroupedQuiet DEF AddPrinter, IInv
<1>7. QED
  BY <1>1, <1>2, <1>3, <1>4, <1>5, <1>6 DEF IInv

\* The first free port is one of those that are free.
LEMMA FirstFree ==
  ASSUME NEW S \in SUBSET Ports, S # {}
  PROVE  Min(S) \in S
<1> DEFINE R == {ss \in Nat \X Nat : ss[1] < ss[2]}
<1>1. IsWellFoundedOn(R, Nat)
  BY NatLessThanWellFounded DEF OpToRel
<1>2. S \subseteq Nat
  BY Tags
<1>3. PICK x \in S : \A y \in S : ~(<<y, x>> \in R)
  BY <1>1, <1>2, WFMin
<1>4. ASSUME NEW y \in S PROVE x <= y
  <2>1. x \in Nat /\ y \in Nat
    BY <1>2
  <2>2. ~(y < x)
    BY <1>3, <2>1
  <2>3. QED
    BY <2>1, <2>2
<1>5. QED
  BY <1>4 DEF Min

LEMMA NextAvailablePortKeeps ==
  ASSUME IInv, ~misused, NEW p \in Printers, NextAvailablePort(p)
  PROVE  IInv'
<1>a. /\ call[p].at = "listen" /\ UNCHANGED <<taken, lost, listener, serve, apis, apisMutex, adds,
                                              quitting, closing, zcVars, errors>>
      /\ \/ Goto(p, "idle") /\ UNCHANGED marked
         \/ \E q \in Ports \ marked :
              /\ marked' = marked \cup {q}
              /\ call' = [call EXCEPT ![p].at = "bind", ![p].port = q]
  <2> DEFINE free == {q \in Ports : q >= call[p].port /\ q \notin marked}
  <2>1. free # {} => Min(free) \in Ports \ marked
    BY FirstFree
  <2>2. QED
    BY <2>1 DEF NextAvailablePort
<1>b. call \in [Printers -> CallType] /\ call[p] \in CallType
  BY DEF IInv, TypeOK, ApiTypes
<1>c. PICK step \in {"idle", "bind"}, x \in Ports \cup {0} :
        /\ call' \in [Printers -> CallType] /\ call'[p].at = step /\ call'[p].mine = call[p].mine
        /\ \A r \in Printers \ {p} : call'[r] = call[r]
        /\ IF step = "idle" THEN UNCHANGED marked
           ELSE x \in Ports \ marked /\ call'[p].port = x /\ marked' = marked \cup {x}
  <2>1. CASE Goto(p, "idle") /\ UNCHANGED marked
    BY <2>1, GotoEffect DEF IInv, CallSteps
  <2>2. ASSUME NEW q \in Ports \ marked, marked' = marked \cup {q},
               call' = [call EXCEPT ![p].at = "bind", ![p].port = q]
        PROVE  /\ call' \in [Printers -> CallType] /\ call'[p].at = "bind" /\ call'[p].mine = call[p].mine
               /\ \A r \in Printers \ {p} : call'[r] = call[r]
               /\ call'[p].port = q
    <3>1. call' = [call EXCEPT ![p] = [call[p] EXCEPT !.at = "bind", !.port = q]]
      BY <1>b, <2>2
    <3>2. [call[p] EXCEPT !.at = "bind", !.port = q] \in CallType
      BY <1>b DEF CallType, CallSteps
    <3>3. QED
      BY <1>b, <3>1, <3>2 DEF CallType
  <2>3. CASE \E q \in Ports \ marked :
               /\ marked' = marked \cup {q}
               /\ call' = [call EXCEPT ![p].at = "bind", ![p].port = q]
    BY <2>2, <2>3
  <2>4. QED
    BY <1>a, <2>1, <2>3
<1>1. TypeOK'
  BY <1>a, <1>c DEF NextAvailablePort, IInv, TypeOK, PortTypes, ApiTypes, ZeroconfTypes
<1>2. Locked'
  BY <1>a, <1>c DEF NextAvailablePort, IInv, Locked, Deleting, Grouping
<1>3. Owned'
  BY <1>a, <1>c, OwnedQuiet DEF NextAvailablePort, IInv, Adding
<1>4. PortsInv'
  <2>1. CASE step = "idle"
    BY <1>a, <1>c, <2>1, PortsQuiet DEF IInv, Binding, Frees
  <2>2. CASE step = "bind"
    <3>1. /\ x \in Ports \ marked /\ call'[p].port = x /\ marked' = marked \cup {x}
          /\ Binding(p)' /\ ~Binding(p) /\ \A r \in Printers \ {p} : Binding(r)' <=> Binding(r)
      BY <1>a, <1>c, <2>2 DEF Binding
    <3>2. \A r \in Printers : (Frees(r)' <=> Frees(r)) /\ call'[r].mine = call[r].mine
      BY <1>a, <1>c, <2>2 DEF Frees
    <3>3. \A l \in Listeners : Freeing(l)' <=> Freeing(l)
      BY <1>a, <3>2 DEF Freeing, Frees
    <3>4. \A l \in Listeners : Holds(l)' <=> Holds(l)
      BY <1>a, <3>3 DEF Holds
    <3>5. lost \subseteq marked
      BY DEF IInv, PortsInv
    <3>6. OneFreer'
      BY <1>a, <3>2, FreersQuiet
    <3>7. QED
      BY <1>a, <1>c, <3>1, <3>2, <3>3, <3>4, <3>5, <3>6 DEF IInv, PortsInv
  <2>3. QED
    BY <2>1, <2>2
<1>5. ASSUME NEW q \in Printers PROVE Recorded(q)'
  <2>1. CASE q = p
    BY <1>a, <1>c, <2>1 DEF IInv, Recorded, Owned, Adding
  <2>2. CASE q # p
    BY <1>a, <1>c, <2>2, RecordedQuiet DEF IInv
  <2>3. QED
    BY <2>1, <2>2
<1>6. Grouped'
  BY <1>a, <1>c, GroupedQuiet DEF NextAvailablePort, IInv
<1>7. QED
  BY <1>1, <1>2, <1>3, <1>4, <1>5, <1>6 DEF IInv

LEMMA BindKeeps ==
  ASSUME IInv, ~misused, NEW p \in Printers, Bind(p)
  PROVE  IInv'
<1>a. PICK l \in Listeners :
        /\ listener[l] = Unused /\ call[p].at = "bind"
        /\ listener' = [listener EXCEPT ![l] =
                          [port |-> call[p].port, owner |-> p, open |-> TRUE, quit |-> FALSE]]
        /\ serve' = [serve EXCEPT ![l] = "accept"]
        /\ call' = [call EXCEPT ![p].at = "publish", ![p].mine = l]
        /\ UNCHANGED <<marked, taken, lost, apis, apisMutex, adds, quitting, closing, zcVars, errors>>
  BY DEF Bind
<1>b. /\ call \in [Printers -> CallType] /\ call[p] \in CallType /\ call[p].port \in Ports
      /\ listener \in [Listeners -> ListenerType] /\ listener[l].port = 0 /\ ~listener[l].open
      /\ listener[l].owner = "none"
  BY <1>a DEF IInv, TypeOK, ApiTypes, PortTypes, PortsInv, Binding, Unused
<1>c. /\ call' \in [Printers -> CallType] /\ call'[p].at = "publish" /\ call'[p].port = call[p].port
      /\ call'[p].mine = l /\ \A q \in Printers \ {p} : call'[q] = call[q]
  <2>1. call' = [call EXCEPT ![p] = [call[p] EXCEPT !.at = "publish", !.mine = l]]
    BY <1>a, <1>b
  <2>2. [call[p] EXCEPT !.at = "publish", !.mine = l] \in CallType
    BY <1>b DEF CallType, CallSteps
  <2>3. QED
    BY <1>b, <2>1, <2>2 DEF CallType
<1>d. /\ listener' \in [Listeners -> ListenerType] /\ listener'[l].port = call[p].port
      /\ listener'[l].owner = p /\ listener'[l].open /\ ~listener'[l].quit
      /\ \A m \in Listeners \ {l} : listener'[m] = listener[m]
  BY <1>a, <1>b DEF ListenerType
<1>e. /\ serve' \in [Listeners -> {"none", "accept", "close", "free", "ended"}]
      /\ serve'[l] = "accept" /\ \A m \in Listeners \ {l} : serve'[m] = serve[m]
  BY <1>a DEF IInv, TypeOK, PortTypes
<1>f. l # 0 /\ closing # l /\ serve[l] = "none" /\ \A q \in Printers : call[q].mine # l
  BY <1>a, <1>b, Tags DEF IInv, Owned
<1>g. call[p].port # 0
  BY <1>b, Tags
<1>1. TypeOK'
  BY <1>a, <1>c, <1>d, <1>e DEF IInv, TypeOK, PortTypes, ApiTypes, ZeroconfTypes
<1>2. Locked'
  BY <1>a, <1>c DEF IInv, Locked, Deleting, Grouping
<1>3. Owned'
  <2>1. ASSUME NEW q \in Printers
        PROVE  /\ call'[q].mine # 0 => listener'[call'[q].mine].owner = q
               /\ apis'[q] # 0 => apis'[q] = call'[q].mine
               /\ call'[q].at \in Opened => call'[q].mine # 0
               /\ Adding(q)' => apis'[q] = 0
    <3>1. CASE q = p
      BY <1>a, <1>c, <1>d, <1>f, <3>1 DEF IInv, Owned, Adding
    <3>2. CASE q # p
      BY <1>a, <1>c, <1>d, <1>f, <3>2 DEF IInv, TypeOK, ApiTypes, CallType, Owned, Adding
    <3>3. QED
      BY <3>1, <3>2
  <2>2. ASSUME NEW m \in Listeners
        PROVE  /\ listener'[m].port = 0 => listener'[m] = Unused /\ serve'[m] = "none"
               /\ listener'[m].port # 0 => listener'[m].owner \in Printers
               /\ serve'[m] = "close" => listener'[m].quit
    <3>1. CASE m = l
      BY <1>d, <1>e, <1>g, <3>1
    <3>2. CASE m # l
      BY <1>d, <1>e, <3>2 DEF IInv, Owned
    <3>3. QED
      BY <3>1, <3>2
  <2>3. closing' # 0 => listener'[closing'].port # 0
    BY <1>a, <1>d, <1>f DEF IInv, TypeOK, ApiTypes, Owned
  <2>4. quitting' \in {"close", "free"} => closing' # 0
    BY <1>a DEF IInv, Owned
  <2>5. QED
    BY <2>1, <2>2, <2>3, <2>4 DEF Owned
<1>4. PortsInv'
  <2>1. \A q \in Printers : (Frees(q)' <=> Frees(q)) /\ (Frees(q) => call'[q].mine = call[q].mine)
    BY <1>a, <1>c DEF Frees
  <2>2. \A q \in Printers : Binding(q)' <=> (Binding(q) /\ q # p)
    BY <1>a, <1>c DEF Binding
  <2>3. ASSUME NEW m \in Listeners PROVE Freeing(m)' <=> Freeing(m)
    <3>1. UNCHANGED <<quitting, closing>> /\ (serve'[m] = "free" <=> serve[m] = "free")
      BY <1>a, <1>e, <1>f
    <3>2. \A q \in Printers : (Frees(q)' /\ call'[q].mine = m) <=> (Frees(q) /\ call[q].mine = m)
      BY <1>c, <2>1 DEF Frees
    <3>3. QED
      BY <3>1, <3>2 DEF Freeing, Frees
  <2>4. ~Freeing(l)
    BY <1>f DEF Freeing
  <2>5. Holds(l)' /\ \A m \in Listeners \ {l} : Holds(m)' <=> Holds(m)
    BY <1>d, <2>3 DEF Holds
  <2>6. Binding(p)
    BY <1>a DEF Binding
  <2>7. ~Holds(l)
    BY <1>b, <2>4 DEF Holds
  <2>8. \A m \in Listeners : Freeing(m)' => ~listener'[m].open
    BY <1>d, <2>3, <2>4 DEF IInv, PortsInv
  <2>9. OneFreer'
    BY <1>a, <1>e, <1>f, <2>1, FreersQuiet
  <2>10. /\ \A q, r \in Printers : q # r /\ Binding(q)' /\ Binding(r)' => call'[q].port # call'[r].port
         /\ \A q \in Printers : Binding(q)' => call'[q].port \in marked' \ lost'
    BY <1>a, <1>c, <2>2 DEF IInv, PortsInv
  <2>11. \A q \in Printers, m \in Listeners : Binding(q)' /\ Holds(m)' => call'[q].port # listener'[m].port
    BY <1>c, <1>d, <2>2, <2>5, <2>6 DEF IInv, PortsInv
  <2>12. /\ \A k, m \in Listeners : k # m /\ Holds(k)' /\ Holds(m)' => listener'[k].port # listener'[m].port
         /\ \A m \in Listeners : Holds(m)' => listener'[m].port \in marked' \ lost'
    BY <1>a, <1>d, <2>5, <2>6 DEF IInv, PortsInv
  <2>13. ASSUME NEW q \in marked' \ lost'
         PROVE  \/ \E r \in Printers : Binding(r)' /\ call'[r].port = q
                \/ \E m \in Listeners : Holds(m)' /\ listener'[m].port = q
    <3>1. CASE \E r \in Printers : Binding(r) /\ call[r].port = q
      BY <1>c, <1>d, <2>2, <2>5, <3>1
    <3>2. CASE \E m \in Listeners : Holds(m) /\ listener[m].port = q
      BY <1>d, <2>5, <2>7, <3>2
    <3>3. QED
      BY <1>a, <2>13, <3>1, <3>2 DEF IInv, PortsInv
  <2>14. lost' \subseteq marked'
    BY <1>a DEF IInv, PortsInv
  <2>15. QED
    BY <2>8, <2>9, <2>10, <2>11, <2>12, <2>13, <2>14 DEF PortsInv
<1>5. ASSUME NEW q \in Printers PROVE Recorded(q)'
  <2>1. CASE q = p
    BY <1>a, <1>c, <1>d, <2>1 DEF IInv, Recorded
  <2>2. CASE q # p
    <3>1. call[q].mine # l
      BY <1>f
    <3>2. call'[q] = call[q]
      BY <1>c, <2>2
    <3>3. call[q].mine # 0 => listener'[call[q].mine] = listener[call[q].mine]
      BY <1>d, <3>1 DEF IInv, TypeOK, ApiTypes, CallType
    <3>4. Recorded(q) /\ (call[q].at \in {"publish", "group"} => call[q].mine # 0)
      BY DEF IInv, Owned
    <3>5. UNCHANGED <<record, unremoved, quitting, apis>>
      BY <1>a
    <3>6. QED
      BY <3>2, <3>3, <3>4, <3>5 DEF Recorded
  <2>3. QED
    BY <2>1, <2>2
<1>6. Grouped'
  BY <1>a, <1>c, GroupedQuiet DEF IInv
<1>7. QED
  BY <1>1, <1>2, <1>3, <1>4, <1>5, <1>6 DEF IInv

LEMMA BindFailsKeeps ==
  ASSUME IInv, ~misused, NEW p \in Printers, BindFails(p)
  PROVE  IInv'
<1>a. PICK step \in {"listen", "idle"} :
        /\ call[p].at = "bind" /\ Goto(p, step) /\ lost' = lost \cup {call[p].port}
        /\ UNCHANGED <<marked, taken, listener, serve, apis, apisMutex, adds, quitting, closing, zcVars>>
        /\ errors' \in Nat /\ (errors' = 0 => errors = 0)
  BY DEF BindFails, IInv, TypeOK, ZeroconfTypes
<1>b. /\ call' \in [Printers -> CallType] /\ call'[p].at = step
      /\ call'[p].port = call[p].port /\ call'[p].mine = call[p].mine
      /\ \A q \in Printers \ {p} : call'[q] = call[q]
  BY <1>a, GotoEffect DEF IInv, CallSteps
<1>c. call[p].port \in marked \ lost /\ Binding(p)
  BY <1>a DEF IInv, PortsInv, Binding
<1>1. TypeOK'
  BY <1>a, <1>b, <1>c DEF BindFails, IInv, TypeOK, PortTypes, ApiTypes, ZeroconfTypes
<1>2. Locked'
  BY <1>a, <1>b, <1>c DEF BindFails, IInv, Locked, Deleting, Grouping
<1>3. Owned'
  BY <1>a, <1>b, <1>c, OwnedQuiet DEF BindFails, IInv, Adding
<1>4. PortsInv'
  <2>1. \A q \in Printers : (Frees(q)' <=> Frees(q)) /\ call'[q].mine = call[q].mine
    BY <1>a, <1>b DEF Frees
  <2>2. \A q \in Printers : Binding(q)' <=> (Binding(q) /\ q # p)
    BY <1>a, <1>b DEF Binding
  <2>3. \A m \in Listeners : Freeing(m)' <=> Freeing(m)
    BY <1>a, <2>1 DEF Freeing, Frees
  <2>4. \A m \in Listeners : Holds(m)' <=> Holds(m)
    BY <1>a, <2>3 DEF Holds
  <2>5. \A q \in Printers \ {p} : Binding(q) => call[q].port # call[p].port
    BY <1>c DEF IInv, PortsInv
  <2>6. \A m \in Listeners : Holds(m) => listener[m].port # call[p].port
    BY <1>c DEF IInv, PortsInv
  <2>7. OneFreer'
    BY <1>a, <2>1, FreersQuiet
  <2>8. QED
    BY <1>a, <1>b, <1>c, <2>1, <2>2, <2>3, <2>4, <2>5, <2>6, <2>7 DEF IInv, PortsInv
<1>5. ASSUME NEW q \in Printers PROVE Recorded(q)'
  <2>1. CASE q = p
    BY <1>a, <1>b, <2>1 DEF IInv, Recorded, Owned, Adding
  <2>2. CASE q # p
    BY <1>a, <1>b, <2>2, RecordedQuiet DEF IInv
  <2>3. QED
    BY <2>1, <2>2
<1>6. Grouped'
  BY <1>a, <1>b, <1>c, GroupedQuiet DEF BindFails, IInv
<1>7. QED
  BY <1>1, <1>2, <1>3, <1>4, <1>5, <1>6 DEF IInv

LEMMA OtherProcessKeeps ==
  ASSUME IInv, ~misused, NEW x \in Ports, OtherProcess(x)
  PROVE  IInv'
<1>1. TypeOK'
  BY DEF OtherProcess, IInv, TypeOK, PortTypes, ApiTypes, ZeroconfTypes
<1>2. Locked'
  BY DEF OtherProcess, IInv, Locked, Deleting, Grouping
<1>3. Owned'
  BY OwnedQuiet DEF OtherProcess, IInv, Adding
<1>4. PortsInv'
  BY PortsQuiet DEF OtherProcess, IInv, Binding, Frees
<1>5. ASSUME NEW q \in Printers PROVE Recorded(q)'
  BY DEF OtherProcess, IInv, Recorded
<1>6. Grouped'
  BY GroupedQuiet DEF OtherProcess, IInv
<1>7. QED
  BY <1>1, <1>2, <1>3, <1>4, <1>5, <1>6 DEF IInv

-----------------------------------------------------------------------------
(* The listeners' goroutines *)

LEMMA AcceptKeeps ==
  ASSUME IInv, ~misused, NEW l \in Listeners, Accept(l)
  PROVE  IInv'
<1>a. /\ serve' \in [Listeners -> {"none", "accept", "close", "free", "ended"}]
      /\ serve'[l] = "close" /\ \A m \in Listeners \ {l} : serve'[m] = serve[m]
  BY DEF Accept, IInv, TypeOK, PortTypes, Owned
<1>b. UNCHANGED <<marked, taken, lost, listener, apiVars, zcVars, errors>>
      /\ listener[l].quit /\ serve[l] = "accept"
  BY DEF Accept, IInv, Owned
<1>1. TypeOK'
  BY <1>a, <1>b DEF Accept, IInv, TypeOK, PortTypes, ApiTypes, ZeroconfTypes
<1>2. Locked'
  BY <1>a, <1>b DEF Accept, IInv, Locked, Deleting, Grouping
<1>3. Owned'
  BY <1>a, <1>b DEF IInv, Owned, Adding
<1>4. PortsInv'
  BY <1>a, <1>b, PortsQuiet DEF Accept, IInv, Binding, Frees
<1>5. ASSUME NEW q \in Printers PROVE Recorded(q)'
  BY <1>a, <1>b DEF Accept, IInv, Recorded
<1>6. Grouped'
  BY <1>a, <1>b, GroupedQuiet DEF Accept, IInv
<1>7. QED
  BY <1>1, <1>2, <1>3, <1>4, <1>5, <1>6 DEF IInv

LEMMA ServeClosesKeeps ==
  ASSUME IInv, ~misused, NEW l \in Listeners, ServeCloses(l)
  PROVE  IInv'
<1>a. /\ serve[l] = "close" /\ UNCHANGED <<marked, taken, lost, apiVars, zcVars, errors>>
      /\ \/ ~listener[l].open /\ UNCHANGED listener /\ serve' = [serve EXCEPT ![l] = "ended"]
         \/ listener[l].open /\ CloseSocket(l) /\ serve' = [serve EXCEPT ![l] = "free"]
  BY DEF ServeCloses
<1>b. serve' \in [Listeners -> {"none", "accept", "close", "free", "ended"}]
      /\ serve'[l] \in {"ended", "free"} /\ \A m \in Listeners \ {l} : serve'[m] = serve[m]
  BY <1>a DEF IInv, TypeOK, PortTypes
<1>c. Closes(l)
  BY <1>a, CloseEffect DEF IInv, TypeOK, PortTypes, Closes
<1>d. listener[l].quit /\ listener[l].port # 0
  BY <1>a DEF IInv, Owned
<1>1. TypeOK'
  BY <1>a, <1>b, <1>c DEF IInv, Closes, TypeOK, PortTypes, ApiTypes, ZeroconfTypes
<1>2. Locked'
  BY <1>a DEF IInv, Locked, Deleting, Grouping
<1>3. Owned'
  BY <1>a, <1>b, <1>c, <1>d, OwnedCloses DEF IInv, Owned, Adding
<1>4. PortsInv'
  <2>1. CASE ~listener[l].open
    BY <1>a, <1>b, <2>1, PortsQuiet DEF IInv, TypeOK, PortTypes, Binding, Frees
  <2>2. CASE listener[l].open
    <3>1. ~listener'[l].open /\ serve'[l] = "free"
      BY <1>a, <2>2, CloseEffect DEF IInv, TypeOK, PortTypes
    <3>2. ~Freeing(l)
      BY <2>2 DEF IInv, PortsInv
    <3>3. \A m \in Listeners \ {l} : Freeing(m)' <=> Freeing(m)
      BY <1>a, <1>b DEF Freeing
    <3>4. Freeing(l)'
      BY <3>1 DEF Freeing
    <3>5. OneFreer'
      BY <1>a, <1>b, <3>2, FreersOpened DEF IInv, PortsInv, OneFreer, Freeing, Frees, QuitFreeing
    <3>6. QED
      BY <1>a, <1>c, <2>2, <3>1, <3>3, <3>4, <3>5, PortsClosed DEF Binding
  <2>3. QED
    BY <2>1, <2>2
<1>5. ASSUME NEW q \in Printers PROVE Recorded(q)'
  BY <1>a, <1>c, <1>d, RecordedCloses DEF IInv
<1>6. Grouped'
  BY <1>a, GroupedQuiet DEF IInv
<1>7. QED
  BY <1>1, <1>2, <1>3, <1>4, <1>5, <1>6 DEF IInv

LEMMA ServeFreesKeeps ==
  ASSUME IInv, ~misused, NEW l \in Listeners, ServeFrees(l)
  PROVE  IInv'
<1>a. /\ serve[l] = "free" /\ marked' = marked \ {listener[l].port} /\ serve' = [serve EXCEPT ![l] = "ended"]
      /\ UNCHANGED <<taken, lost, listener, apiVars, zcVars, errors>>
  BY DEF ServeFrees, FreePort
<1>b. serve' \in [Listeners -> {"none", "accept", "close", "free", "ended"}]
      /\ serve'[l] = "ended" /\ \A m \in Listeners \ {l} : serve'[m] = serve[m]
  BY <1>a DEF IInv, TypeOK, PortTypes
<1>1. TypeOK'
  BY <1>a, <1>b DEF ServeFrees, IInv, TypeOK, PortTypes, ApiTypes, ZeroconfTypes
<1>2. Locked'
  BY <1>a, <1>b DEF ServeFrees, IInv, Locked, Deleting, Grouping
<1>3. Owned'
  BY <1>a, <1>b DEF IInv, Owned, Adding
<1>4. PortsInv'
  <2>1. Freeing(l) /\ ~Freeing(l)'
    BY <1>a, <1>b DEF IInv, PortsInv, OneFreer, Freeing, Frees, QuitFreeing
  <2>2. \A m \in Listeners \ {l} : Freeing(m)' <=> Freeing(m)
    BY <1>a, <1>b DEF Freeing
  <2>3. OneFreer'
    BY <1>a, <1>b, FreersOpened DEF IInv, PortsInv, OneFreer, Frees, QuitFreeing
  <2>4. QED
    BY <1>a, <2>1, <2>2, <2>3, PortsFreed DEF Binding
<1>5. ASSUME NEW q \in Printers PROVE Recorded(q)'
  BY <1>a DEF IInv, Recorded
<1>6. Grouped'
  BY <1>a, <1>b, GroupedQuiet DEF ServeFrees, IInv
<1>7. QED
  BY <1>1, <1>2, <1>3, <1>4, <1>5, <1>6 DEF IInv

-----------------------------------------------------------------------------
(* Publication *)

LEMMA PublishKeeps ==
  ASSUME IInv, ~misused, NEW p \in Printers, Publish(p)
  PROVE  IInv'
<1>0. record[p] \in RecordType /\ call[p].port \in Ports \cup {0} /\ call[p] \in CallType
      /\ record = [record EXCEPT ![p] = record[p]]
  BY DEF IInv, TypeOK, ZeroconfTypes, ApiTypes, CallType
<1>a. PICK step \in {"quit", "group", "store"}, r \in RecordType :
        /\ call[p].at \in {"publish"} /\ Goto(p, step) /\ record' = [record EXCEPT ![p] = r]
        /\ UNCHANGED <<portVars, apis, apisMutex, adds, quitting, closing, backend, zstate, unremoved,
                        poll, callback, newState, client, rq, misused, states, errors>>
        /\ backend = "avahi" /\ spMutex = "none"
        /\ \/ record[p] # Absent /\ step = "quit" /\ r = record[p] /\ UNCHANGED spMutex
           \/ /\ record[p] = Absent /\ Running
              /\ spMutex' = p /\ step = "group" /\ r = record[p]
           \/ /\ record[p] = Absent /\ ~Running
              /\ r = [port |-> call[p].port, group |-> "none"]
              /\ step = "store" /\ UNCHANGED spMutex
  BY <1>0 DEF Publish, RecordType
<1>b. /\ call' \in [Printers -> CallType] /\ call'[p].at = step
      /\ call'[p].port = call[p].port /\ call'[p].mine = call[p].mine
      /\ \A q \in Printers \ {p} : call'[q] = call[q]
  BY <1>a, GotoEffect DEF IInv, CallSteps
<1>c. /\ record' \in [Printers -> RecordType] /\ record'[p] = r
      /\ \A q \in Printers \ {p} : record'[q] = record[q]
  BY <1>a, RecordEffect DEF IInv
<1>m. call[p].mine # 0 /\ call[p].mine \in Listeners /\ apis[p] = 0
      /\ listener[call[p].mine].open /\ listener[call[p].mine].port = call[p].port
      /\ call[p].port # 0
  <2>1. call[p].mine # 0 /\ call[p].mine \in Listeners /\ apis[p] = 0
    BY <1>a DEF IInv, TypeOK, ApiTypes, CallType, Owned, Adding
  <2>2. listener[call[p].mine].open /\ listener[call[p].mine].port = call[p].port
    BY <1>a DEF IInv, Recorded
  <2>3. call[p].port # 0
    BY <2>1, <2>2, Tags DEF IInv, TypeOK, PortTypes, PortsInv, Holds
  <2>4. QED
    BY <2>1, <2>2, <2>3
<1>1. TypeOK'
  BY <1>a, <1>b, <1>c DEF IInv, TypeOK, PortTypes, ApiTypes, ZeroconfTypes
<1>2. Locked'
  BY <1>a, <1>b, Tags DEF IInv, TypeOK, PortTypes, ApiTypes, ZeroconfTypes, Locked, Deleting, Grouping
<1>3. Owned'
  BY <1>a, <1>b, OwnedQuiet DEF IInv, Adding
<1>4. PortsInv'
  BY <1>a, <1>b, PortsQuiet DEF IInv, Binding, Frees
<1>5. ASSUME NEW q \in Printers PROVE Recorded(q)'
  <2>1. CASE q = p
    BY <1>a, <1>b, <1>c, <1>m, <2>1, Tags, AbsentType DEF IInv, TypeOK, PortTypes, ApiTypes,
       ZeroconfTypes, Recorded, Owned, Adding, Locked, Deleting
  <2>2. CASE q # p
    BY <1>a, <1>b, <1>c, <1>m, <2>2 DEF IInv, Recorded
  <2>3. QED
    BY <2>1, <2>2
<1>6. Grouped'
  BY <1>a, <1>b, <1>c, Tags, AbsentType DEF IInv, TypeOK, PortTypes, ApiTypes, ZeroconfTypes, Grouped,
     Locked, Grouping, Present, Running
<1>7. QED
  BY <1>1, <1>2, <1>3, <1>4, <1>5, <1>6 DEF IInv

LEMMA BonjourPublishKeeps ==
  ASSUME IInv, ~misused, NEW p \in Printers, BonjourPublish(p)
  PROVE  IInv'
<1>0. record[p] \in RecordType /\ call[p].port \in Ports \cup {0} /\ call[p] \in CallType
      /\ record = [record EXCEPT ![p] = record[p]]
  BY DEF IInv, TypeOK, ZeroconfTypes, ApiTypes, CallType
<1>a. PICK step \in {"quit", "store"}, r \in RecordType :
        /\ call[p].at \in {"publish"} /\ Goto(p, step) /\ record' = [record EXCEPT ![p] = r]
        /\ UNCHANGED <<portVars, apis, apisMutex, adds, quitting, closing, backend, zstate, unremoved,
                        spMutex, poll, callback, newState, client, rq, misused, states>>
        /\ backend = "bonjour" /\ errors' \in Nat /\ (errors' = 0 => errors = 0)
        /\ \/ r = [port |-> call[p].port, group |-> "live"] /\ record[p] = Absent /\ step = "store"
           \/ record[p] # Absent /\ step = "quit" /\ r = record[p]
           \/ step = "quit" /\ r = record[p]
  BY <1>0 DEF BonjourPublish, RecordType, IInv, TypeOK, ZeroconfTypes
<1>b. /\ call' \in [Printers -> CallType] /\ call'[p].at = step
      /\ call'[p].port = call[p].port /\ call'[p].mine = call[p].mine
      /\ \A q \in Printers \ {p} : call'[q] = call[q]
  BY <1>a, GotoEffect DEF IInv, CallSteps
<1>c. /\ record' \in [Printers -> RecordType] /\ record'[p] = r
      /\ \A q \in Printers \ {p} : record'[q] = record[q]
  BY <1>a, RecordEffect DEF IInv
<1>m. call[p].mine # 0 /\ call[p].mine \in Listeners /\ apis[p] = 0
      /\ listener[call[p].mine].open /\ listener[call[p].mine].port = call[p].port
      /\ call[p].port # 0
  <2>1. call[p].mine # 0 /\ call[p].mine \in Listeners /\ apis[p] = 0
    BY <1>a DEF IInv, TypeOK, ApiTypes, CallType, Owned, Adding
  <2>2. listener[call[p].mine].open /\ listener[call[p].mine].port = call[p].port
    BY <1>a DEF IInv, Recorded
  <2>3. call[p].port # 0
    BY <2>1, <2>2, Tags DEF IInv, TypeOK, PortTypes, PortsInv, Holds
  <2>4. QED
    BY <2>1, <2>2, <2>3
<1>1. TypeOK'
  BY <1>a, <1>b, <1>c DEF IInv, TypeOK, PortTypes, ApiTypes, ZeroconfTypes
<1>2. Locked'
  BY <1>a, <1>b, Tags DEF IInv, TypeOK, PortTypes, ApiTypes, ZeroconfTypes, Locked, Deleting, Grouping
<1>3. Owned'
  BY <1>a, <1>b, OwnedQuiet DEF IInv, Adding
<1>4. PortsInv'
  BY <1>a, <1>b, PortsQuiet DEF IInv, Binding, Frees
<1>5. ASSUME NEW q \in Printers PROVE Recorded(q)'
  <2>1. CASE q = p
    BY <1>a, <1>b, <1>c, <1>m, <2>1, Tags, AbsentType DEF IInv, TypeOK, PortTypes, ApiTypes,
       ZeroconfTypes, Recorded, Owned, Adding, Locked, Deleting
  <2>2. CASE q # p
    BY <1>a, <1>b, <1>c, <1>m, <2>2 DEF IInv, Recorded
  <2>3. QED
    BY <2>1, <2>2
<1>6. Grouped'
  BY <1>a, <1>b, <1>c, Tags, AbsentType DEF IInv, TypeOK, PortTypes, ApiTypes, ZeroconfTypes, Grouped,
     Locked, Grouping, Present, Running
<1>7. QED
  BY <1>1, <1>2, <1>3, <1>4, <1>5, <1>6 DEF IInv

LEMMA AddGroupKeeps ==
  ASSUME IInv, ~misused, NEW p \in Printers, AddGroup(p)
  PROVE  IInv'
<1>0. record[p] \in RecordType /\ call[p].port \in Ports \cup {0} /\ call[p] \in CallType
      /\ record = [record EXCEPT ![p] = record[p]]
  BY DEF IInv, TypeOK, ZeroconfTypes, ApiTypes, CallType
<1>a. PICK step \in {"quit", "store"}, r \in RecordType :
        /\ call[p].at \in {"group"} /\ Goto(p, step) /\ record' = [record EXCEPT ![p] = r]
        /\ UNCHANGED <<portVars, apis, apisMutex, adds, quitting, closing, backend, zstate, unremoved,
                        poll, callback, newState, client, rq, states>>
        /\ spMutex' = "none" /\ misused' \in BOOLEAN
        /\ \/ /\ r = [port |-> call[p].port, group |-> "live"] /\ step = "store" /\ NoError
           \/ step = "quit" /\ r = record[p] /\ errors' = errors + 1
  BY <1>0 DEF AddGroup, RecordType, IInv, TypeOK, ZeroconfTypes
<1>b. /\ call' \in [Printers -> CallType] /\ call'[p].at = step
      /\ call'[p].port = call[p].port /\ call'[p].mine = call[p].mine
      /\ \A q \in Printers \ {p} : call'[q] = call[q]
  BY <1>a, GotoEffect DEF IInv, CallSteps
<1>c. /\ record' \in [Printers -> RecordType] /\ record'[p] = r
      /\ \A q \in Printers \ {p} : record'[q] = record[q]
  BY <1>a, RecordEffect DEF IInv
<1>m. call[p].mine # 0 /\ call[p].mine \in Listeners /\ apis[p] = 0
      /\ listener[call[p].mine].open /\ listener[call[p].mine].port = call[p].port
      /\ call[p].port # 0
  <2>1. call[p].mine # 0 /\ call[p].mine \in Listeners /\ apis[p] = 0
    BY <1>a DEF IInv, TypeOK, ApiTypes, CallType, Owned, Adding
  <2>2. listener[call[p].mine].open /\ listener[call[p].mine].port = call[p].port
    BY <1>a DEF IInv, Recorded
  <2>3. call[p].port # 0
    BY <2>1, <2>2, Tags DEF IInv, TypeOK, PortTypes, PortsInv, Holds
  <2>4. QED
    BY <2>1, <2>2, <2>3
<1>1. TypeOK'
  BY <1>a, <1>b, <1>c DEF IInv, TypeOK, PortTypes, ApiTypes, ZeroconfTypes
<1>2. Locked'
  BY <1>a, <1>b, Tags DEF IInv, TypeOK, PortTypes, ApiTypes, ZeroconfTypes, Locked, Deleting, Grouping
<1>3. Owned'
  BY <1>a, <1>b, OwnedQuiet DEF IInv, Adding
<1>4. PortsInv'
  BY <1>a, <1>b, PortsQuiet DEF IInv, Binding, Frees
<1>5. ASSUME NEW q \in Printers PROVE Recorded(q)'
  <2>1. CASE q = p
    BY <1>a, <1>b, <1>c, <1>m, <2>1, Tags, AbsentType DEF IInv, TypeOK, PortTypes, ApiTypes,
       ZeroconfTypes, Recorded, Owned, Adding, Locked, Deleting
  <2>2. CASE q # p
    BY <1>a, <1>b, <1>c, <1>m, <2>2 DEF IInv, Recorded
  <2>3. QED
    BY <2>1, <2>2
<1>6. Grouped'
  BY <1>a, <1>b, <1>c, Tags, AbsentType DEF IInv, TypeOK, PortTypes, ApiTypes, ZeroconfTypes, Grouped,
     Locked, Grouping, Present, Running
<1>7. QED
  BY <1>1, <1>2, <1>3, <1>4, <1>5, <1>6 DEF IInv

LEMMA StoreKeeps ==
  ASSUME IInv, ~misused, NEW p \in Printers, Store(p)
  PROVE  IInv'
<1>a. /\ call[p].at = "store" /\ Goto(p, "idle") /\ apisMutex = "none"
      /\ apis' = [apis EXCEPT ![p] = call[p].mine]
      /\ UNCHANGED <<portVars, apisMutex, adds, quitting, closing, zcVars, errors>>
  BY DEF Store
<1>b. /\ call' \in [Printers -> CallType] /\ call'[p].at = "idle"
      /\ call'[p].port = call[p].port /\ call'[p].mine = call[p].mine
      /\ \A q \in Printers \ {p} : call'[q] = call[q]
  BY <1>a, GotoEffect DEF IInv, CallSteps
<1>c. /\ apis' \in [Printers -> Listeners \cup {0}] /\ apis'[p] = call[p].mine
      /\ \A q \in Printers \ {p} : apis'[q] = apis[q]
  BY <1>a DEF IInv, TypeOK, ApiTypes, CallType
<1>d. quitting # "apis"
  BY <1>a DEF IInv, Locked
<1>1. TypeOK'
  BY <1>a, <1>b, <1>c, <1>d DEF Store, IInv, TypeOK, PortTypes, ApiTypes, ZeroconfTypes
<1>2. Locked'
  BY <1>a, <1>b, <1>c, <1>d DEF Store, IInv, Locked, Deleting, Grouping
<1>3. Owned'
  BY <1>a, <1>b, <1>c DEF IInv, Owned, Adding
<1>4. PortsInv'
  BY <1>a, <1>b, <1>c, <1>d, PortsQuiet DEF Store, IInv, Binding, Frees
<1>5. ASSUME NEW q \in Printers PROVE Recorded(q)'
  <2>1. CASE q = p
    BY <1>a, <1>b, <1>c, <1>d, <2>1, Tags, AbsentType DEF IInv, TypeOK, PortTypes, ApiTypes,
       ZeroconfTypes, Recorded, Owned, Adding, Locked, Deleting
  <2>2. CASE q # p
    BY <1>a, <1>b, <1>c, <1>d, <2>2 DEF IInv, Recorded
  <2>3. QED
    BY <2>1, <2>2
<1>6. Grouped'
  BY <1>a, <1>b, <1>c, <1>d, GroupedQuiet DEF Store, IInv
<1>7. QED
  BY <1>1, <1>2, <1>3, <1>4, <1>5, <1>6 DEF IInv

-----------------------------------------------------------------------------
(* DeletePrinter *)

LEMMA DeletePrinterKeeps ==
  ASSUME IInv, ~misused, NEW p \in Printers, DeletePrinter(p)
  PROVE  IInv'
<1>a. /\ call[p].at = "idle" /\ apisMutex = "none" /\ Goto(p, "remove") /\ apisMutex' = p
      /\ UNCHANGED <<portVars, apis, adds, quitting, closing, zcVars, errors>>
  BY DEF DeletePrinter
<1>b. /\ call' \in [Printers -> CallType] /\ call'[p].at = "remove"
      /\ call'[p].port = call[p].port /\ call'[p].mine = call[p].mine
      /\ \A q \in Printers \ {p} : call'[q] = call[q]
  BY <1>a, GotoEffect DEF IInv, CallSteps
<1>1. TypeOK'
  BY <1>a, <1>b DEF DeletePrinter, IInv, TypeOK, PortTypes, ApiTypes, ZeroconfTypes
<1>2. Locked'
  BY <1>a, <1>b, Tags DEF IInv, TypeOK, PortTypes, ApiTypes, ZeroconfTypes, Locked, Deleting, Grouping
<1>3. Owned'
  BY <1>a, <1>b, OwnedQuiet DEF DeletePrinter, IInv, Adding
<1>4. PortsInv'
  BY <1>a, <1>b, PortsQuiet DEF DeletePrinter, IInv, Binding, Frees
<1>5. ASSUME NEW q \in Printers PROVE Recorded(q)'
  <2>1. CASE q = p
    BY <1>a, <1>b, <2>1, Tags, AbsentType DEF IInv, TypeOK, PortTypes, ApiTypes, ZeroconfTypes,
       Recorded, Owned, Adding, Locked, Deleting
  <2>2. CASE q # p
    BY <1>a, <1>b, <2>2 DEF IInv, Recorded
  <2>3. QED
    BY <2>1, <2>2
<1>6. Grouped'
  BY <1>a, <1>b, GroupedQuiet DEF DeletePrinter, IInv
<1>7. QED
  BY <1>1, <1>2, <1>3, <1>4, <1>5, <1>6 DEF IInv

LEMMA RemoveRecordKeeps ==
  ASSUME IInv, ~misused, NEW p \in Printers, RemoveRecord(p)
  PROVE  IInv'
<1>0. record[p] \in RecordType /\ record = [record EXCEPT ![p] = record[p]] /\ Absent \in RecordType
  BY AbsentType DEF IInv, TypeOK, ZeroconfTypes
<1>a. PICK step \in {"ungroup", "close"}, r \in RecordType :
        /\ call[p].at = "remove" /\ Goto(p, step) /\ record' = [record EXCEPT ![p] = r]
        /\ UNCHANGED <<portVars, apis, apisMutex, adds, quitting, closing, backend, zstate, unremoved,
                        poll, callback, newState, client, rq, misused, states, errors>>
        /\ backend = "avahi" /\ spMutex = "none"
        /\ \/ spMutex' = p /\ step = "ungroup" /\ r = record[p]
           \/ r = Absent /\ step = "close" /\ UNCHANGED spMutex
  BY <1>0 DEF RemoveRecord, Removed
<1>b. /\ call' \in [Printers -> CallType] /\ call'[p].at = step
      /\ call'[p].port = call[p].port /\ call'[p].mine = call[p].mine
      /\ \A q \in Printers \ {p} : call'[q] = call[q]
  BY <1>a, GotoEffect DEF IInv, CallSteps
<1>c. /\ record' \in [Printers -> RecordType] /\ record'[p] = r
      /\ \A q \in Printers \ {p} : record'[q] = record[q]
  BY <1>a, RecordEffect DEF IInv
<1>1. TypeOK'
  BY <1>a, <1>b, <1>c DEF IInv, TypeOK, PortTypes, ApiTypes, ZeroconfTypes
<1>2. Locked'
  BY <1>a, <1>b, Tags DEF IInv, TypeOK, PortTypes, ApiTypes, ZeroconfTypes, Locked, Deleting, Grouping
<1>3. Owned'
  BY <1>a, <1>b, OwnedQuiet DEF IInv, Adding
<1>4. PortsInv'
  BY <1>a, <1>b, PortsQuiet DEF IInv, Binding, Frees
<1>5. ASSUME NEW q \in Printers PROVE Recorded(q)'
  <2>1. CASE q = p
    BY <1>a, <1>b, <1>c, <2>1, Tags, AbsentType DEF IInv, TypeOK, PortTypes, ApiTypes, ZeroconfTypes,
       Recorded, Owned, Adding, Locked, Deleting
  <2>2. CASE q # p
    BY <1>a, <1>b, <1>c, <2>2 DEF IInv, Recorded
  <2>3. QED
    BY <2>1, <2>2
<1>6. Grouped'
  BY <1>a, <1>b, <1>c, Tags, AbsentType DEF IInv, TypeOK, PortTypes, ApiTypes, ZeroconfTypes, Grouped,
     Locked, Grouping, Present, Running
<1>7. QED
  BY <1>1, <1>2, <1>3, <1>4, <1>5, <1>6 DEF IInv

LEMMA BonjourRemoveKeeps ==
  ASSUME IInv, ~misused, NEW p \in Printers, BonjourRemove(p)
  PROVE  IInv'
<1>0. record[p] \in RecordType /\ record = [record EXCEPT ![p] = record[p]] /\ Absent \in RecordType
  BY AbsentType DEF IInv, TypeOK, ZeroconfTypes
<1>a. PICK step \in {"close"}, r \in RecordType :
        /\ call[p].at = "remove" /\ Goto(p, step) /\ record' = [record EXCEPT ![p] = r]
        /\ UNCHANGED <<portVars, apis, apisMutex, adds, quitting, closing, backend, zstate, unremoved,
                        spMutex, poll, callback, newState, client, rq, misused, states, errors>>
        /\ step = "close" /\ r = Absent
  BY <1>0 DEF BonjourRemove, Removed
<1>b. /\ call' \in [Printers -> CallType] /\ call'[p].at = step
      /\ call'[p].port = call[p].port /\ call'[p].mine = call[p].mine
      /\ \A q \in Printers \ {p} : call'[q] = call[q]
  BY <1>a, GotoEffect DEF IInv, CallSteps
<1>c. /\ record' \in [Printers -> RecordType] /\ record'[p] = r
      /\ \A q \in Printers \ {p} : record'[q] = record[q]
  BY <1>a, RecordEffect DEF IInv
<1>1. TypeOK'
  BY <1>a, <1>b, <1>c DEF IInv, TypeOK, PortTypes, ApiTypes, ZeroconfTypes
<1>2. Locked'
  BY <1>a, <1>b, Tags DEF IInv, TypeOK, PortTypes, ApiTypes, ZeroconfTypes, Locked, Deleting, Grouping
<1>3. Owned'
  BY <1>a, <1>b, OwnedQuiet DEF IInv, Adding
<1>4. PortsInv'
  BY <1>a, <1>b, PortsQuiet DEF IInv, Binding, Frees
<1>5. ASSUME NEW q \in Printers PROVE Recorded(q)'
  <2>1. CASE q = p
    BY <1>a, <1>b, <1>c, <2>1, Tags, AbsentType DEF IInv, TypeOK, PortTypes, ApiTypes, ZeroconfTypes,
       Recorded, Owned, Adding, Locked, Deleting
  <2>2. CASE q # p
    BY <1>a, <1>b, <1>c, <2>2 DEF IInv, Recorded
  <2>3. QED
    BY <2>1, <2>2
<1>6. Grouped'
  BY <1>a, <1>b, <1>c, Tags, AbsentType DEF IInv, TypeOK, PortTypes, ApiTypes, ZeroconfTypes, Grouped,
     Locked, Grouping, Present, Running
<1>7. QED
  BY <1>1, <1>2, <1>3, <1>4, <1>5, <1>6 DEF IInv

LEMMA RemoveGroupKeeps ==
  ASSUME IInv, ~misused, NEW p \in Printers, RemoveGroup(p)
  PROVE  IInv'
<1>0. record[p] \in RecordType /\ record = [record EXCEPT ![p] = record[p]] /\ Absent \in RecordType
  BY AbsentType DEF IInv, TypeOK, ZeroconfTypes
<1>a. PICK step \in {"close"}, r \in RecordType :
        /\ call[p].at = "ungroup" /\ Goto(p, step) /\ record' = [record EXCEPT ![p] = r]
        /\ UNCHANGED <<portVars, apis, apisMutex, adds, quitting, closing, backend, zstate,
                        poll, callback, newState, client, rq, states>>
        /\ spMutex' = "none" /\ misused' \in BOOLEAN /\ step = "close"
        /\ \/ r = Absent /\ UNCHANGED unremoved /\ NoError
           \/ r = record[p] /\ unremoved' = unremoved \cup {p} /\ errors' = errors + 1
  BY <1>0 DEF RemoveGroup, Removed, IInv, TypeOK, ZeroconfTypes
<1>b. /\ call' \in [Printers -> CallType] /\ call'[p].at = step
      /\ call'[p].port = call[p].port /\ call'[p].mine = call[p].mine
      /\ \A q \in Printers \ {p} : call'[q] = call[q]
  BY <1>a, GotoEffect DEF IInv, CallSteps
<1>c. /\ record' \in [Printers -> RecordType] /\ record'[p] = r
      /\ \A q \in Printers \ {p} : record'[q] = record[q]
  BY <1>a, RecordEffect DEF IInv
<1>1. TypeOK'
  BY <1>a, <1>b, <1>c DEF IInv, TypeOK, PortTypes, ApiTypes, ZeroconfTypes
<1>2. Locked'
  BY <1>a, <1>b, Tags DEF IInv, TypeOK, PortTypes, ApiTypes, ZeroconfTypes, Locked, Deleting, Grouping
<1>3. Owned'
  BY <1>a, <1>b, OwnedQuiet DEF IInv, Adding
<1>4. PortsInv'
  BY <1>a, <1>b, PortsQuiet DEF IInv, Binding, Frees
<1>5. ASSUME NEW q \in Printers PROVE Recorded(q)'
  <2>1. CASE q = p
    BY <1>a, <1>b, <1>c, <2>1, Tags, AbsentType DEF IInv, TypeOK, PortTypes, ApiTypes, ZeroconfTypes,
       Recorded, Owned, Adding, Locked, Deleting
  <2>2. CASE q # p
    BY <1>a, <1>b, <1>c, <2>2 DEF IInv, Recorded
  <2>3. QED
    BY <2>1, <2>2
<1>6. Grouped'
  BY <1>a, <1>b, <1>c, Tags, AbsentType DEF IInv, TypeOK, PortTypes, ApiTypes, ZeroconfTypes, Grouped,
     Locked, Grouping, Present, Running
<1>7. QED
  BY <1>1, <1>2, <1>3, <1>4, <1>5, <1>6 DEF IInv

\* Closing a socket keeps its port held, by the one that is going to free it.
LEMMA OwnListener ==
  ASSUME Owned, NEW p \in Printers, NEW q \in Printers, call[p].mine = call[q].mine, call[p].mine # 0
  PROVE  p = q
  BY DEF Owned

LEMMA QuitListenerKeeps ==
  ASSUME IInv, ~misused, NEW p \in Printers, QuitListener(p)
  PROVE  IInv'
<1>0. call[p].at \in {"quit", "close"} /\ call[p].mine \in Listeners /\ call[p].mine # 0
  <2>1. call[p].mine \in Listeners \cup {0}
    BY DEF IInv, TypeOK, ApiTypes, CallType
  <2>2. call[p].at = "quit" \/ (call[p].at = "close" /\ apis[p] # 0)
    BY DEF QuitListener
  <2>3. QED
    BY <2>1, <2>2 DEF IInv, Owned
<1>a. PICK l \in Listeners, step \in {"quitclose", "closing"} :
        /\ l = call[p].mine /\ Goto(p, step) /\ CloseQ(l)
        /\ step = (IF call[p].at = "quit" THEN "quitclose" ELSE "closing")
        /\ UNCHANGED <<marked, taken, lost, serve, apis, apisMutex, adds, quitting, closing, zcVars, errors>>
  BY <1>0 DEF QuitListener
<1>b. /\ call' \in [Printers -> CallType] /\ call'[p].at = step
      /\ call'[p].port = call[p].port /\ call'[p].mine = call[p].mine
      /\ \A q \in Printers \ {p} : call'[q] = call[q]
  BY <1>a, GotoEffect DEF IInv, CallSteps
<1>c. Closes(l) /\ listener'[l].open = listener[l].open
  BY <1>a, QuitEffect DEF IInv
<1>d. \A q \in Printers \ {p} : call[q].mine # l
  BY <1>0, <1>a, OwnListener DEF IInv
<1>e. p \in unremoved \/ record[p] = Absent
  BY <1>0 DEF IInv, Recorded
<1>f. listener[l].port # 0
  BY <1>0, <1>a, Tags DEF IInv, Owned, Unused
<1>1. TypeOK'
  BY <1>a, <1>b, <1>c DEF IInv, Closes, TypeOK, PortTypes, ApiTypes, ZeroconfTypes
<1>2. Locked'
  BY <1>0, <1>a, <1>b, Tags DEF IInv, TypeOK, PortTypes, ApiTypes, ZeroconfTypes, Locked, Deleting,
     Grouping
<1>3. Owned'
  <2>1. \A q \in Printers : /\ call'[q].mine = call[q].mine /\ (call'[q].at \in Opened => call[q].mine # 0)
                            /\ Adding(q)' => Adding(q)
    BY <1>0, <1>a, <1>b DEF Adding, IInv, Owned
  <2>2. QED
    BY <1>a, <1>c, <1>f, <2>1, OwnedCloses DEF IInv, Owned
<1>4. PortsInv'
  BY <1>0, <1>a, <1>b, <1>c, PortsQuit DEF Binding, Frees
<1>5. ASSUME NEW q \in Printers PROVE Recorded(q)'
  <2>1. CASE q = p
    BY <1>0, <1>a, <1>b, <1>e, <2>1 DEF IInv, Recorded
  <2>2. CASE q # p
    BY <1>a, <1>b, <1>c, <1>d, <2>2, RecordedCloses
  <2>3. QED
    BY <2>1, <2>2
<1>6. Grouped'
  BY <1>a, <1>b, GroupedQuiet DEF IInv
<1>7. QED
  BY <1>1, <1>2, <1>3, <1>4, <1>5, <1>6 DEF IInv

LEMMA CloseListenerKeeps ==
  ASSUME IInv, ~misused, NEW p \in Printers, CloseListener(p)
  PROVE  IInv'
<1>0. call[p].at \in {"quitclose", "closing"} /\ call[p].mine \in Listeners /\ call[p].mine # 0
      /\ listener[call[p].mine].port # 0
  BY FreersOpened DEF CloseListener
<1>a. PICK l \in Listeners, step \in {"quitfree", "free", "idle", "delete"} :
        /\ l = call[p].mine /\ Goto(p, step)
        /\ \/ /\ listener[l].open /\ CloseSocket(l)
              /\ step = (IF call[p].at = "closing" THEN "free" ELSE "quitfree")
           \/ /\ ~listener[l].open /\ UNCHANGED listener
              /\ step = (IF call[p].at = "closing" THEN "delete" ELSE "idle")
        /\ UNCHANGED <<marked, taken, lost, serve, apis, apisMutex, adds, quitting, closing, zcVars, errors>>
  BY <1>0 DEF CloseListener
<1>b. /\ call' \in [Printers -> CallType] /\ call'[p].at = step
      /\ call'[p].port = call[p].port /\ call'[p].mine = call[p].mine
      /\ \A q \in Printers \ {p} : call'[q] = call[q]
  BY <1>a, GotoEffect DEF IInv, CallSteps
<1>c. Closes(l)
  BY <1>a, CloseEffect DEF IInv, TypeOK, PortTypes, Closes
<1>d. \A q \in Printers \ {p} : call[q].mine # l
  BY <1>0, <1>a, OwnListener DEF IInv
<1>e. p \in unremoved \/ record[p] = Absent
  BY <1>0 DEF IInv, Recorded
<1>1. TypeOK'
  BY <1>a, <1>b, <1>c DEF IInv, Closes, TypeOK, PortTypes, ApiTypes, ZeroconfTypes
<1>2. Locked'
  BY <1>0, <1>a, <1>b, Tags DEF IInv, TypeOK, PortTypes, ApiTypes, ZeroconfTypes, Locked, Deleting,
     Grouping
<1>3. Owned'
  <2>1. \A q \in Printers : /\ call'[q].mine = call[q].mine /\ (call'[q].at \in Opened => call[q].mine # 0)
                            /\ Adding(q)' => Adding(q)
    BY <1>0, <1>a, <1>b DEF Adding, IInv, Owned
  <2>2. QED
    BY <1>0, <1>a, <1>c, <2>1, OwnedCloses DEF IInv, Owned
<1>4. PortsInv'
  <2>1. CASE ~listener[l].open
    <3>1. UNCHANGED <<marked, lost, listener, closing, serve, quitting>>
      BY <1>a, <2>1
    <3>2. QED
      BY <1>0, <1>a, <1>b, <2>1, <3>1, PortsQuiet DEF Binding, Frees
  <2>2. CASE listener[l].open
    <3>1. Frees(p)' /\ ~Frees(p) /\ \A q \in Printers \ {p} : Frees(q)' <=> Frees(q)
      BY <1>0, <1>a, <1>b, <2>2 DEF Frees
    <3>2. ~Freeing(l)
      BY <2>2 DEF IInv, PortsInv
    <3>3. \A m \in Listeners \ {l} : Freeing(m)' <=> Freeing(m)
      BY <1>a, <1>b, <3>1 DEF Freeing, Frees
    <3>4. Freeing(l)'
      BY <1>a, <1>b, <3>1 DEF Freeing, Frees
    <3>5. OneFreer'
      BY <1>a, <1>b, <3>1, <3>2 DEF IInv, PortsInv, OneFreer, Freeing, QuitFreeing
    <3>6. \A q \in Printers : (Binding(q)' <=> Binding(q)) /\ call'[q].port = call[q].port
      BY <1>0, <1>a, <1>b DEF Binding
    <3>7. ~listener'[l].open
      BY <1>a, <2>2, CloseEffect DEF IInv
    <3>8. QED
      BY <1>a, <1>c, <2>2, <3>3, <3>4, <3>5, <3>6, <3>7, PortsClosed
  <2>3. QED
    BY <2>1, <2>2
<1>5. ASSUME NEW q \in Printers PROVE Recorded(q)'
  <2>1. CASE q = p
    BY <1>0, <1>a, <1>b, <1>e, <2>1 DEF IInv, Recorded
  <2>2. CASE q # p
    BY <1>a, <1>b, <1>c, <1>d, <2>2, RecordedCloses
  <2>3. QED
    BY <2>1, <2>2
<1>6. Grouped'
  BY <1>a, <1>b, GroupedQuiet DEF IInv
<1>7. QED
  BY <1>1, <1>2, <1>3, <1>4, <1>5, <1>6 DEF IInv

LEMMA FreeListenerKeeps ==
  ASSUME IInv, ~misused, NEW p \in Printers, FreeListener(p)
  PROVE  IInv'
<1>0. call[p].at \in {"free", "quitfree"} /\ call[p].mine \in Listeners /\ call[p].mine # 0
  BY DEF FreeListener, IInv, TypeOK, ApiTypes, CallType, Owned
<1>a. PICK l \in Listeners, step \in {"idle", "delete"} :
        /\ l = call[p].mine /\ Goto(p, step) /\ step = (IF call[p].at = "free" THEN "delete" ELSE "idle")
        /\ marked' = marked \ {listener[l].port}
        /\ UNCHANGED <<taken, lost, listener, serve, apis, apisMutex, adds, quitting, closing, zcVars, errors>>
  BY <1>0 DEF FreeListener, FreePort
<1>b. /\ call' \in [Printers -> CallType] /\ call'[p].at = step
      /\ call'[p].port = call[p].port /\ call'[p].mine = call[p].mine
      /\ \A q \in Printers \ {p} : call'[q] = call[q]
  BY <1>a, GotoEffect DEF IInv, CallSteps
<1>c. \A q \in Printers \ {p} : call[q].mine # l
  BY <1>0, <1>a, OwnListener DEF IInv
<1>d. p \in unremoved \/ record[p] = Absent
  BY <1>0 DEF IInv, Recorded
<1>1. TypeOK'
  BY <1>0, <1>a, <1>b DEF FreeListener, IInv, TypeOK, PortTypes, ApiTypes, ZeroconfTypes
<1>2. Locked'
  BY <1>0, <1>a, <1>b DEF FreeListener, IInv, Locked, Deleting, Grouping
<1>3. Owned'
  BY <1>0, <1>a, <1>b, OwnedQuiet DEF FreeListener, IInv, Adding
<1>4. PortsInv'
  <2>1. Frees(p) /\ ~Frees(p)' /\ \A q \in Printers \ {p} : Frees(q)' <=> Frees(q)
    BY <1>0, <1>a, <1>b DEF Frees
  <2>2. serve[l] # "free" /\ ~QuitFreeing(l)
    BY <1>a, <2>1 DEF IInv, PortsInv, OneFreer
  <2>3. Freeing(l) /\ ~Freeing(l)'
    BY <1>a, <1>b, <1>c, <2>1, <2>2 DEF Freeing, Frees, QuitFreeing
  <2>4. \A m \in Listeners \ {l} : Freeing(m)' <=> Freeing(m)
    BY <1>a, <1>b, <2>1 DEF Freeing, Frees
  <2>5. OneFreer'
    BY <1>a, <1>b, <2>1 DEF IInv, PortsInv, OneFreer, QuitFreeing
  <2>6. \A q \in Printers : (Binding(q)' <=> Binding(q)) /\ call'[q].port = call[q].port
    BY <1>0, <1>a, <1>b DEF Binding
  <2>7. QED
    BY <1>a, <2>3, <2>4, <2>5, <2>6, PortsFreed
<1>5. ASSUME NEW q \in Printers PROVE Recorded(q)'
  <2>1. CASE q = p
    BY <1>0, <1>a, <1>b, <1>d, <2>1 DEF IInv, Recorded
  <2>2. CASE q # p
    BY <1>a, <1>b, <2>2, RecordedQuiet DEF IInv
  <2>3. QED
    BY <2>1, <2>2
<1>6. Grouped'
  BY <1>0, <1>a, <1>b, GroupedQuiet DEF FreeListener, IInv
<1>7. QED
  BY <1>1, <1>2, <1>3, <1>4, <1>5, <1>6 DEF IInv

LEMMA DeletedKeeps ==
  ASSUME IInv, ~misused, NEW p \in Printers, Deleted(p)
  PROVE  IInv'
<1>a. /\ call[p].at \in {"delete", "close"} /\ Goto(p, "idle")
      /\ apis' = [apis EXCEPT ![p] = 0] /\ apisMutex' = "none"
      /\ UNCHANGED <<portVars, adds, quitting, closing, zcVars, errors>>
  BY DEF Deleted
<1>b. /\ call' \in [Printers -> CallType] /\ call'[p].at = "idle"
      /\ call'[p].port = call[p].port /\ call'[p].mine = call[p].mine
      /\ \A q \in Printers \ {p} : call'[q] = call[q]
  BY <1>a, GotoEffect DEF IInv, CallSteps
<1>c. /\ apis' \in [Printers -> Listeners \cup {0}] /\ apis'[p] = 0
      /\ \A q \in Printers \ {p} : apis'[q] = apis[q]
  BY <1>a DEF IInv, TypeOK, ApiTypes
<1>1. TypeOK'
  BY <1>a, <1>b, <1>c DEF Deleted, IInv, TypeOK, PortTypes, ApiTypes, ZeroconfTypes
<1>2. Locked'
  BY <1>a, <1>b, Tags DEF IInv, TypeOK, PortTypes, ApiTypes, ZeroconfTypes, Locked, Deleting, Grouping
<1>3. Owned'
  BY <1>a, <1>b, <1>c DEF IInv, Owned, Adding
<1>4. PortsInv'
  BY <1>a, <1>b, <1>c, PortsQuiet DEF Deleted, IInv, Binding, Frees
<1>5. ASSUME NEW q \in Printers PROVE Recorded(q)'
  <2>1. CASE q = p
    BY <1>a, <1>b, <1>c, <2>1 DEF IInv, Recorded
  <2>2. CASE q # p
    BY <1>a, <1>b, <1>c, <2>2, RecordedQuiet DEF IInv
  <2>3. QED
    BY <2>1, <2>2
<1>6. Grouped'
  BY <1>a, <1>b, <1>c, GroupedQuiet DEF Deleted, IInv
<1>7. QED
  BY <1>1, <1>2, <1>3, <1>4, <1>5, <1>6 DEF IInv

-----------------------------------------------------------------------------
(* The callbacks *)

LEMMA CallbackBeginsKeeps ==
  ASSUME IInv, ~misused, NEW s \in ClientStates \cup Printers, CallbackBegins(s)
  PROVE  IInv'
<1>1. TypeOK'
  BY DEF CallbackBegins, IInv, TypeOK, PortTypes, ApiTypes, ZeroconfTypes
<1>2. Locked'
  BY Tags DEF CallbackBegins, IInv, Locked, Deleting, Grouping
<1>3. Owned'
  BY OwnedQuiet DEF CallbackBegins, IInv, Adding
<1>4. PortsInv'
  BY PortsQuiet DEF CallbackBegins, IInv, Binding, Frees
<1>5. ASSUME NEW q \in Printers PROVE Recorded(q)'
  BY DEF CallbackBegins, IInv, Recorded
<1>6. Grouped'
  BY Tags DEF CallbackBegins, IInv, Grouped, Present
<1>7. QED
  BY <1>1, <1>2, <1>3, <1>4, <1>5, <1>6 DEF IInv

LEMMA HandleClientStateChangeKeeps ==
  ASSUME IInv, ~misused, HandleClientStateChange
  PROVE  IInv'
<1>0. record \in [Printers -> RecordType] /\ errors \in Nat /\ newState \in ClientStates
  BY DEF HandleClientStateChange, IInv, TypeOK, ZeroconfTypes
<1>a. PICK g \in [Printers -> {"none", "live", "freed"}] :
        /\ record' = [q \in Printers |-> IF q \in Present THEN [record[q] EXCEPT !.group = g[q]] ELSE record[q]]
        /\ errors' \in Nat
        /\ errors' = 0 => errors = 0 /\ g = [q \in Printers |-> IF newState = "running" THEN "live" ELSE "none"]
  <2>1. CASE NoError /\ record' = Groups([q \in Present |-> "none"]) /\ newState # "running"
    <3> DEFINE g == [q \in Printers |-> "none"]
    <3>1. record' = [q \in Printers |-> IF q \in Present THEN [record[q] EXCEPT !.group = g[q]] ELSE record[q]]
      BY <1>0, <2>1 DEF Groups, Present
    <3>2. g \in [Printers -> {"none", "live", "freed"}]
      OBVIOUS
    <3>3. QED
      BY <1>0, <2>1, <3>1, <3>2
  <2>2. CASE NoError /\ record' = Groups([q \in Present |-> "live"]) /\ newState = "running"
    <3> DEFINE g == [q \in Printers |-> "live"]
    <3>1. record' = [q \in Printers |-> IF q \in Present THEN [record[q] EXCEPT !.group = g[q]] ELSE record[q]]
      BY <1>0, <2>2 DEF Groups, Present
    <3>2. g \in [Printers -> {"none", "live", "freed"}]
      OBVIOUS
    <3>3. QED
      BY <1>0, <2>2, <3>1, <3>2
  <2>3. ASSUME NEW p \in Present, Error, record' = Groups(Recreated(p))
        PROVE  /\ record' = [q \in Printers |-> IF q \in Present
                    THEN [record[q] EXCEPT !.group = IF q = p THEN "freed" ELSE "live"] ELSE record[q]]
               /\ errors' \in Nat /\ errors' # 0
    BY <1>0, <2>3 DEF Groups, Recreated
  <2>4. CASE \E p \in Present : Error /\ record' = Groups(Recreated(p))
    <3>1. PICK p \in Present : Error /\ record' = Groups(Recreated(p))
      BY <2>4
    <3> DEFINE g == [q \in Printers |-> IF q = p THEN "freed" ELSE "live"]
    <3>2. g \in [Printers -> {"none", "live", "freed"}]
      OBVIOUS
    <3>3. record' = [q \in Printers |-> IF q \in Present THEN [record[q] EXCEPT !.group = g[q]] ELSE record[q]]
      BY <3>1, <2>3
    <3>4. QED
      BY <3>1, <3>2, <3>3, <2>3
  <2>5. QED
    BY <2>1, <2>2, <2>4 DEF HandleClientStateChange, StateChange
<1>b. /\ record' \in [Printers -> RecordType]
      /\ \A q \in Printers :
           /\ record'[q].port = record[q].port
           /\ record[q] = Absent => record'[q] = Absent
           /\ record[q] # Absent => record'[q].group = g[q]
  BY <1>0, <1>a DEF RecordType, Present
<1>c. \A q \in Printers : record[q] # Absent => record'[q] # Absent
  BY <1>b, AbsentType DEF IInv, Recorded
<1>d. /\ callback = "waits" /\ spMutex = "none" /\ misused' \in BOOLEAN
      /\ IF newState = "failure"
         THEN spMutex' = "callback" /\ callback' = "restart" /\ UNCHANGED <<zstate, poll>>
         ELSE /\ zstate' = newState /\ callback' = "none" /\ poll' = "none" /\ UNCHANGED spMutex
      /\ UNCHANGED <<portVars, apiVars, backend, unremoved, newState, client, rq, states>>
  BY DEF HandleClientStateChange
<1>1. TypeOK'
  BY <1>0, <1>a, <1>b, <1>d DEF IInv, TypeOK, PortTypes, ApiTypes, ZeroconfTypes
<1>2. Locked'
  BY <1>d, Tags DEF IInv, Locked, Deleting, Grouping
<1>3. Owned'
  BY <1>d, OwnedQuiet DEF IInv, Adding
<1>4. PortsInv'
  BY <1>d, PortsQuiet DEF IInv, Binding, Frees
<1>5. ASSUME NEW q \in Printers PROVE Recorded(q)'
  <2>1. record'[q].port = 0 => record'[q] = Absent
    BY <1>b DEF IInv, Recorded
  <2>2. record'[q] # Absent => record[q] # Absent
    BY <1>b
  <2>3. QED
    BY <1>b, <1>d, <2>1, <2>2 DEF IInv, Recorded
<1>6. Grouped'
  <2>1. \A q \in Printers : call[q].at # "group"
    BY <1>d, Tags DEF IInv, Locked, Grouping
  <2>2. rq \notin {"stop", "start"}
    BY <1>d DEF IInv, Grouped
  <2>3. ASSUME errors' = 0, NEW q \in Printers, record'[q] # Absent
        PROVE  record'[q].group = "live" <=> newState = "running"
    BY <1>a, <1>b, <2>3
  <2>4. QED
    BY <1>0, <1>d, <2>1, <2>2, <2>3 DEF Grouped, Present, ClientStates
<1>7. QED
  BY <1>1, <1>2, <1>3, <1>4, <1>5, <1>6 DEF IInv

LEMMA HandleGroupStateChangeKeeps ==
  ASSUME IInv, ~misused, HandleGroupStateChange
  PROVE  IInv'
<1>a. /\ callback = "waits" /\ callback' = "none" /\ newState \in Printers /\ poll' = "none"
      /\ \/ UNCHANGED record /\ NoError
         \/ record' = [record EXCEPT ![newState].group = "none"] /\ errors' = errors + 1
      /\ UNCHANGED <<portVars, apiVars, backend, zstate, unremoved, spMutex, newState, client, rq,
                     misused, states>>
  BY DEF HandleGroupStateChange
<1>b. /\ record' \in [Printers -> RecordType] /\ errors' \in Nat
      /\ errors' = 0 => errors = 0 /\ record' = record
      /\ \A q \in Printers : record'[q].port = record[q].port /\ (record[q] = Absent => record'[q] = Absent)
  <2>1. record \in [Printers -> RecordType] /\ errors \in Nat
    BY DEF IInv, TypeOK, ZeroconfTypes
  <2>2. CASE UNCHANGED record /\ NoError
    BY <2>1, <2>2
  <2>3. CASE record' = [record EXCEPT ![newState].group = "none"] /\ errors' = errors + 1
    <3>1. record' = [record EXCEPT ![newState] = [record[newState] EXCEPT !.group = "none"]]
      BY <1>a, <2>1, <2>3
    <3>2. /\ [record[newState] EXCEPT !.group = "none"] \in RecordType
          /\ [record[newState] EXCEPT !.group = "none"].port = record[newState].port
          /\ record[newState] = Absent => [record[newState] EXCEPT !.group = "none"] = Absent
      BY <1>a, <2>1 DEF RecordType, Absent
    <3>3. QED
      BY <1>a, <2>1, <2>3, <3>1, <3>2
  <2>4. QED
    BY <1>a, <2>2, <2>3
<1>1. TypeOK'
  BY <1>a, <1>b DEF IInv, TypeOK, PortTypes, ApiTypes, ZeroconfTypes
<1>2. Locked'
  BY <1>a DEF IInv, Locked, Deleting, Grouping
<1>3. Owned'
  BY <1>a, OwnedQuiet DEF IInv, Adding
<1>4. PortsInv'
  BY <1>a, PortsQuiet DEF IInv, Binding, Frees
<1>5. ASSUME NEW q \in Printers PROVE Recorded(q)'
  <2>1. record'[q].port = 0 => record'[q] = Absent
    BY <1>b DEF IInv, Recorded
  <2>2. record'[q] # Absent => record[q] # Absent
    BY <1>b
  <2>3. QED
    BY <1>a, <1>b, <2>1, <2>2 DEF IInv, Recorded
<1>6. Grouped'
  BY <1>a, <1>b DEF IInv, Grouped, Present
<1>7. QED
  BY <1>1, <1>2, <1>3, <1>4, <1>5, <1>6 DEF IInv

-----------------------------------------------------------------------------
(* restartAndQuit *)

LEMMA RestartReceivedKeeps ==
  ASSUME IInv, ~misused, RestartReceived
  PROVE  IInv'
<1>1. TypeOK'
  BY DEF RestartReceived, IInv, TypeOK, PortTypes, ApiTypes, ZeroconfTypes, ClientStates
<1>2. Locked'
  BY Tags DEF RestartReceived, IInv, Locked, Deleting, Grouping
<1>3. Owned'
  BY OwnedQuiet DEF RestartReceived, IInv, Adding
<1>4. PortsInv'
  BY PortsQuiet DEF RestartReceived, IInv, Binding, Frees
<1>5. ASSUME NEW q \in Printers PROVE Recorded(q)'
  BY DEF RestartReceived, IInv, Recorded
<1>6. Grouped'
  BY Tags DEF RestartReceived, IInv, Grouped, Present, Locked, Grouping, TypeOK, PortTypes, ApiTypes,
     ZeroconfTypes
<1>7. QED
  BY <1>1, <1>2, <1>3, <1>4, <1>5, <1>6 DEF IInv

LEMMA QuitReceivedKeeps ==
  ASSUME IInv, ~misused, QuitReceived
  PROVE  IInv'
<1>1. TypeOK'
  BY DEF QuitReceived, IInv, TypeOK, PortTypes, ApiTypes, ZeroconfTypes, ClientStates
<1>2. Locked'
  BY Tags DEF QuitReceived, IInv, Locked, Deleting, Grouping
<1>3. Owned'
  BY OwnedQuiet DEF QuitReceived, IInv, Adding
<1>4. PortsInv'
  BY PortsQuiet DEF QuitReceived, IInv, Binding, Frees
<1>5. ASSUME NEW q \in Printers PROVE Recorded(q)'
  BY DEF QuitReceived, IInv, Recorded
<1>6. Grouped'
  BY Tags DEF QuitReceived, IInv, Grouped, Present, Locked, Grouping, TypeOK, PortTypes, ApiTypes,
     ZeroconfTypes
<1>7. QED
  BY <1>1, <1>2, <1>3, <1>4, <1>5, <1>6 DEF IInv

LEMMA StopClientKeeps ==
  ASSUME IInv, ~misused, StopClient
  PROVE  IInv'
<1>1. TypeOK'
  <2>1. PortTypes'
    BY DEF StopClient, IInv, TypeOK, PortTypes
  <2>2. ApiTypes'
    BY DEF StopClient, IInv, TypeOK, ApiTypes
  <2>3. client' \in BOOLEAN /\ rq' = "start"
    BY DEF StopClient, IInv, TypeOK, ZeroconfTypes, ClientStates
  <2>4. QED
    BY <2>1, <2>2, <2>3 DEF StopClient, IInv, TypeOK, ZeroconfTypes
<1>2. Locked'
  BY Tags DEF StopClient, IInv, Locked, Deleting, Grouping
<1>3. Owned'
  BY OwnedQuiet DEF StopClient, IInv, Adding
<1>4. PortsInv'
  BY PortsQuiet DEF StopClient, IInv, Binding, Frees
<1>5. ASSUME NEW q \in Printers PROVE Recorded(q)'
  BY DEF StopClient, IInv, Recorded
<1>6. Grouped'
  BY Tags DEF StopClient, IInv, Grouped, Present, Locked, Grouping, TypeOK, PortTypes, ApiTypes,
     ZeroconfTypes
<1>7. QED
  BY <1>1, <1>2, <1>3, <1>4, <1>5, <1>6 DEF IInv

LEMMA StartClientKeeps ==
  ASSUME IInv, ~misused, StartClient
  PROVE  IInv'
<1>a. \A q \in Printers : call[q].at # "group"
  BY Tags DEF StartClient, IInv, Locked, Grouping
<1>b. /\ zstate = "failure" /\ callback = "none" /\ backend \in {"avahi", "bonjour"}
      /\ record \in [Printers -> RecordType] /\ errors \in Nat
  BY DEF StartClient, IInv, Grouped, TypeOK, ZeroconfTypes
<1>c. UNCHANGED <<portVars, apiVars, backend, record, unremoved, spMutex, poll, callback,
                  newState, states>> /\ rq' = "select"
  BY DEF StartClient
<1>1. TypeOK'
  <2>1. PortTypes'
    BY DEF StartClient, IInv, TypeOK, PortTypes
  <2>2. ApiTypes'
    BY DEF StartClient, IInv, TypeOK, ApiTypes
  <2>3. client' \in BOOLEAN /\ rq' = "select" /\ zstate' \in ClientStates
        /\ misused' \in BOOLEAN /\ errors' \in Nat
    <3>1. (Present # {}) \in BOOLEAN
      OBVIOUS
    <3>2. misused \in BOOLEAN /\ client \in BOOLEAN /\ zstate \in ClientStates /\ errors \in Nat
      BY DEF IInv, TypeOK, ZeroconfTypes
    <3>3. CASE UNCHANGED <<client, zstate, misused>> /\ errors' = errors + 1
      BY <3>2, <3>3 DEF StartClient
    <3>4. CASE client' = TRUE /\ zstate' = "down" /\ UNCHANGED <<misused, errors>>
      BY <3>2, <3>4 DEF StartClient, ClientStates
    <3>5. CASE client' = TRUE /\ zstate' = "running" /\ misused' = (Present # {}) /\ UNCHANGED errors
      BY <3>1, <3>2, <3>5 DEF StartClient, ClientStates
    <3>6. QED
      BY <3>3, <3>4, <3>5 DEF StartClient
  <2>4. QED
    BY <2>1, <2>2, <2>3 DEF StartClient, IInv, TypeOK, ZeroconfTypes
<1>2. Locked'
  BY Tags DEF StartClient, IInv, Locked, Deleting, Grouping
<1>3. Owned'
  BY OwnedQuiet DEF StartClient, IInv, Adding
<1>4. PortsInv'
  BY PortsQuiet DEF StartClient, IInv, Binding, Frees
<1>5. ASSUME NEW q \in Printers PROVE Recorded(q)'
  BY DEF StartClient, IInv, Recorded
<1>6. Grouped'
  <2>1. CASE zstate' = "down" /\ UNCHANGED <<misused, errors>>
    BY <1>a, <1>b, <1>c, <2>1 DEF IInv, Grouped, Present
  <2>2. CASE zstate' = "running" /\ misused' = (Present # {})
    BY <1>a, <1>b, <1>c, <2>2 DEF Grouped, Present
  <2>3. CASE UNCHANGED zstate /\ errors' = errors + 1
    BY <1>a, <1>b, <1>c, <2>3 DEF Grouped, Present
  <2>4. QED
    BY <2>1, <2>2, <2>3 DEF StartClient
<1>7. QED
  BY <1>1, <1>2, <1>3, <1>4, <1>5, <1>6 DEF IInv

LEMMA QuitRemovesKeeps ==
  ASSUME IInv, ~misused, NEW p \in Printers, QuitRemoves(p)
  PROVE  IInv'
<1>a. PICK r \in {record[p], Absent} :
        /\ record' = [record EXCEPT ![p] = r]
        /\ misused' \in BOOLEAN
        /\ unremoved' \in {unremoved, unremoved \cup {p}} /\ errors' \in {errors, errors + 1}
        /\ r = record[p] \/ UNCHANGED unremoved
        /\ UNCHANGED <<portVars, apiVars, backend, zstate, poll, callback, newState, client, states>>
        /\ \/ /\ rq = "remove" /\ spMutex = "none" /\ UNCHANGED misused
              /\ \/ spMutex' = "quit" /\ rq' = p
                 \/ UNCHANGED <<spMutex, rq>>
           \/ rq = p /\ rq' = "remove" /\ spMutex' = "none"
  <2>1. record = [record EXCEPT ![p] = record[p]]
    BY DEF IInv, TypeOK, ZeroconfTypes
  <2>2. QED
    BY <2>1 DEF QuitRemoves, Removed, IInv, TypeOK, ZeroconfTypes
<1>b. /\ record' \in [Printers -> RecordType] /\ record'[p] = r
      /\ \A q \in Printers \ {p} : record'[q] = record[q]
  BY <1>a, AbsentType, RecordEffect DEF IInv, TypeOK, ZeroconfTypes
<1>1. TypeOK'
  BY <1>a, <1>b DEF IInv, TypeOK, PortTypes, ApiTypes, ZeroconfTypes
<1>2. Locked'
  BY <1>a, Tags DEF IInv, Locked, Deleting, Grouping
<1>3. Owned'
  BY <1>a, OwnedQuiet DEF IInv, Adding
<1>4. PortsInv'
  BY <1>a, PortsQuiet DEF IInv, Binding, Frees
<1>5. ASSUME NEW q \in Printers PROVE Recorded(q)'
  BY <1>a, <1>b, AbsentType DEF IInv, Recorded
<1>6. Grouped'
  <2>1. errors' = 0 => errors = 0
    BY <1>a DEF IInv, TypeOK, ZeroconfTypes
  <2>2. QED
    BY <1>a, <1>b, <2>1, Tags DEF IInv, Grouped, Present
<1>7. QED
  BY <1>1, <1>2, <1>3, <1>4, <1>5, <1>6 DEF IInv

LEMMA QuitStopsKeeps ==
  ASSUME IInv, Ranging, ~misused, QuitStops
  PROVE  IInv'
<1>1. TypeOK'
  BY DEF QuitStops, IInv, TypeOK, PortTypes, ApiTypes, ZeroconfTypes
<1>2. Locked'
  BY Tags DEF QuitStops, IInv, Locked, Deleting, Grouping
<1>3. Owned'
  BY OwnedQuiet DEF QuitStops, IInv, Adding
<1>4. PortsInv'
  BY PortsQuiet, Tags DEF QuitStops, IInv, Locked, Binding, Frees
<1>5. ASSUME NEW q \in Printers PROVE Recorded(q)'
  <2>1. apis[q] # 0 /\ q \notin unremoved => record[q] = Absent
    BY DEF QuitStops, Ranging, Present
  <2>2. QED
    BY <2>1 DEF QuitStops, IInv, Recorded
<1>6. Grouped'
  BY Tags DEF QuitStops, IInv, Grouped, Present
<1>7. QED
  BY <1>1, <1>2, <1>3, <1>4, <1>5, <1>6 DEF IInv

-----------------------------------------------------------------------------
(* Privet.Quit *)

LEMMA QuitStartsKeeps ==
  ASSUME IInv, ~misused, QuitStarts
  PROVE  IInv'
<1>1. TypeOK'
  BY DEF QuitStarts, IInv, TypeOK, PortTypes, ApiTypes, ZeroconfTypes
<1>2. Locked'
  BY Tags DEF QuitStarts, IInv, Locked, Deleting, Grouping
<1>3. Owned'
  BY OwnedQuiet DEF QuitStarts, IInv, Adding
<1>4. PortsInv'
  BY PortsQuiet DEF QuitStarts, IInv, Binding, Frees
<1>5. ASSUME NEW q \in Printers PROVE Recorded(q)'
  BY DEF QuitStarts, IInv, Recorded
<1>6. Grouped'
  BY GroupedQuiet DEF QuitStarts, IInv
<1>7. QED
  BY <1>1, <1>2, <1>3, <1>4, <1>5, <1>6 DEF IInv

LEMMA BonjourQuitKeeps ==
  ASSUME IInv, ~misused, BonjourQuit
  PROVE  IInv'
<1>1. TypeOK'
  BY AbsentType DEF BonjourQuit, IInv, TypeOK, PortTypes, ApiTypes, ZeroconfTypes
<1>2. Locked'
  BY DEF BonjourQuit, IInv, Locked, Deleting, Grouping
<1>3. Owned'
  BY OwnedQuiet DEF BonjourQuit, IInv, Adding
<1>4. PortsInv'
  BY PortsQuiet DEF BonjourQuit, IInv, Binding, Frees
<1>5. ASSUME NEW q \in Printers PROVE Recorded(q)'
  BY AbsentType DEF BonjourQuit, IInv, Recorded
<1>6. Grouped'
  BY DEF BonjourQuit, IInv, Grouped, Present
<1>7. QED
  BY <1>1, <1>2, <1>3, <1>4, <1>5, <1>6 DEF IInv

LEMMA QuitCallsQuitKeeps ==
  ASSUME IInv, ~misused, NEW p \in Printers, QuitCallsQuit(p)
  PROVE  IInv'
<1>a. PICK l \in Listeners :
        /\ l = apis[p] /\ apis[p] # 0 /\ quitting = "apis" /\ CloseQ(l)
        /\ closing' = l /\ quitting' = "close"
        /\ UNCHANGED <<marked, taken, lost, serve, apis, apisMutex, call, adds, zcVars, errors>>
  BY DEF QuitCallsQuit, IInv, TypeOK, ApiTypes
<1>b. Closes(l) /\ listener'[l].open = listener[l].open
  BY <1>a, QuitEffect DEF IInv
<1>c. call[p].mine = l /\ l # 0 /\ \A q \in Printers \ {p} : call[q].mine # l
  BY <1>a, OwnListener DEF IInv, Owned
<1>d. (p \in unremoved \/ record[p] = Absent) /\ call[p].at \notin {"publish", "group"}
  BY <1>a DEF IInv, Recorded, Owned, Adding
<1>e. listener[l].port # 0
  BY <1>c, Tags DEF IInv, Owned, Unused
<1>1. TypeOK'
  BY <1>a, <1>b DEF IInv, Closes, TypeOK, PortTypes, ApiTypes, ZeroconfTypes
<1>2. Locked'
  BY <1>a, Tags DEF IInv, TypeOK, PortTypes, ApiTypes, ZeroconfTypes, Locked, Deleting, Grouping
<1>3. Owned'
  BY <1>a, <1>b, <1>c, <1>e, OwnedCloses DEF IInv, Owned, Adding
<1>4. PortsInv'
  BY <1>a, <1>b, PortsQuit DEF Binding, Frees
<1>5. ASSUME NEW q \in Printers PROVE Recorded(q)'
  <2>1. CASE q = p
    BY <1>a, <1>b, <1>d, <2>1 DEF IInv, Recorded
  <2>2. CASE q # p
    BY <1>a, <1>b, <1>c, <2>2, RecordedCloses
  <2>3. QED
    BY <2>1, <2>2
<1>6. Grouped'
  BY <1>a, GroupedQuiet DEF IInv
<1>7. QED
  BY <1>1, <1>2, <1>3, <1>4, <1>5, <1>6 DEF IInv

LEMMA QuitClosesKeeps ==
  ASSUME IInv, ~misused, NEW p \in Printers, QuitCloses(p)
  PROVE  IInv'
<1>a. PICK l \in Listeners :
        /\ l = apis[p] /\ closing = l /\ l # 0 /\ quitting = "close"
        /\ \/ /\ listener[l].open /\ CloseSocket(l) /\ quitting' = "free" /\ UNCHANGED <<apis, closing>>
           \/ ~listener[l].open /\ UNCHANGED listener /\ QuitDeletes(p)
        /\ UNCHANGED <<marked, taken, lost, serve, apisMutex, call, adds, zcVars, errors>>
  BY DEF QuitCloses, IInv, TypeOK, ApiTypes, Owned
<1>b. /\ apis' \in [Printers -> Listeners \cup {0}] /\ apis'[p] \in {apis[p], 0}
      /\ \A q \in Printers \ {p} : apis'[q] = apis[q]
  BY <1>a DEF IInv, TypeOK, ApiTypes, QuitDeletes
<1>c. Closes(l)
  BY <1>a, CloseEffect DEF IInv, TypeOK, PortTypes, Closes
<1>d. call[p].mine = l /\ \A q \in Printers \ {p} : call[q].mine # l
  BY <1>a, OwnListener DEF IInv, Owned
<1>e. (p \in unremoved \/ record[p] = Absent) /\ call[p].at \notin {"publish", "group"}
  BY <1>a DEF IInv, Recorded, Owned, Adding
<1>f. listener[l].port # 0
  BY <1>a DEF IInv, Owned
<1>g. quitting' \in {"apis", "free"} /\ closing' \in {l, 0} /\ (quitting' = "free" => closing' = l)
  BY <1>a DEF QuitDeletes
<1>1. TypeOK'
  BY <1>a, <1>b, <1>c, <1>g DEF IInv, Closes, TypeOK, PortTypes, ApiTypes, ZeroconfTypes
<1>2. Locked'
  BY <1>a, <1>g, Tags DEF IInv, TypeOK, PortTypes, ApiTypes, ZeroconfTypes, Locked, Deleting, Grouping
<1>3. Owned'
  <2>1. \A q \in Printers : apis'[q] \in {apis[q], 0}
    BY <1>b
  <2>2. \A q \in Printers : call[q].at \in Opened => call[q].mine # 0
    BY DEF IInv, Owned
  <2>3. UNCHANGED <<serve, call>> /\ closing' \in {closing, 0, l}
        /\ (quitting' \in {"close", "free"} => closing' # 0)
    BY <1>a, <1>g
  <2>4. QED
    BY <1>c, <1>f, <2>1, <2>2, <2>3, OwnedCloses DEF Adding
<1>4. PortsInv'
  <2>1. CASE ~listener[l].open
    <3>1. quitting' # "free" /\ UNCHANGED <<marked, lost, listener, serve, call>>
      BY <1>a, <2>1 DEF QuitDeletes
    <3>2. \A m \in Listeners : (Freeing(m)' <=> Freeing(m)) /\ (Holds(m)' <=> Holds(m))
      BY <1>a, <3>1 DEF Freeing, Holds
    <3>3. OneFreer'
      BY <3>1 DEF IInv, PortsInv, OneFreer, QuitFreeing, Frees
    <3>4. QED
      BY <3>1, <3>2, <3>3 DEF IInv, PortsInv, Binding
  <2>2. CASE listener[l].open
    <3>1. ~listener'[l].open /\ quitting' = "free" /\ closing' = l
      BY <1>a, <2>2, CloseEffect DEF IInv
    <3>2. ~Freeing(l)
      BY <2>2 DEF IInv, PortsInv
    <3>3. \A m \in Listeners \ {l} : Freeing(m)' <=> Freeing(m)
      BY <1>a, <3>1 DEF Freeing
    <3>4. Freeing(l)'
      BY <3>1 DEF Freeing
    <3>5. OneFreer'
      BY <1>a, <3>1, <3>2 DEF IInv, PortsInv, OneFreer, Freeing, Frees, QuitFreeing
    <3>6. QED
      BY <1>a, <1>c, <2>2, <3>1, <3>3, <3>4, <3>5, PortsClosed DEF Binding
  <2>3. QED
    BY <2>1, <2>2
<1>5. ASSUME NEW q \in Printers PROVE Recorded(q)'
  <2>1. CASE q = p
    BY <1>a, <1>b, <1>e, <2>1 DEF IInv, Recorded
  <2>2. CASE q # p
    BY <1>a, <1>b, <1>c, <1>d, <2>2, RecordedCloses
  <2>3. QED
    BY <2>1, <2>2
<1>6. Grouped'
  BY <1>a, GroupedQuiet DEF IInv
<1>7. QED
  BY <1>1, <1>2, <1>3, <1>4, <1>5, <1>6 DEF IInv

LEMMA QuitFreesKeeps ==
  ASSUME IInv, ~misused, NEW p \in Printers, QuitFrees(p)
  PROVE  IInv'
<1>a. PICK l \in Listeners :
        /\ l = apis[p] /\ closing = l /\ l # 0 /\ quitting = "free" /\ QuitDeletes(p)
        /\ marked' = marked \ {listener[l].port}
        /\ UNCHANGED <<taken, lost, listener, serve, apisMutex, call, adds, zcVars, errors>>
  BY DEF QuitFrees, FreePort, IInv, TypeOK, ApiTypes, Owned
<1>b. /\ apis' \in [Printers -> Listeners \cup {0}] /\ apis'[p] \in {apis[p], 0}
      /\ \A q \in Printers \ {p} : apis'[q] = apis[q]
  BY <1>a DEF IInv, TypeOK, ApiTypes, QuitDeletes
<1>c. quitting' = "apis" /\ closing' = 0
  BY <1>a DEF QuitDeletes
<1>d. (p \in unremoved \/ record[p] = Absent) /\ call[p].at \notin {"publish", "group"}
  BY <1>a DEF IInv, Recorded, Owned, Adding
<1>1. TypeOK'
  BY <1>a, <1>b, <1>c DEF IInv, TypeOK, PortTypes, ApiTypes, ZeroconfTypes
<1>2. Locked'
  BY <1>a, <1>c, Tags DEF IInv, TypeOK, PortTypes, ApiTypes, ZeroconfTypes, Locked, Deleting, Grouping
<1>3. Owned'
  <2>1. \A q \in Printers : apis'[q] \in {apis[q], 0}
    BY <1>b
  <2>2. QED
    BY <1>a, <1>c, <2>1 DEF IInv, Owned, Adding
<1>4. PortsInv'
  <2>1. QuitFreeing(l) /\ \A m \in Listeners : ~QuitFreeing(m)'
    BY <1>a, <1>c DEF QuitFreeing
  <2>2. Freeing(l) /\ ~Freeing(l)'
    BY <1>a, <1>c, <2>1 DEF IInv, PortsInv, OneFreer, Freeing, Frees, QuitFreeing
  <2>3. \A m \in Listeners \ {l} : Freeing(m)' <=> Freeing(m)
    BY <1>a, <1>c DEF Freeing
  <2>4. OneFreer'
    BY <1>a, <1>c DEF IInv, PortsInv, OneFreer, QuitFreeing, Frees
  <2>5. QED
    BY <1>a, <2>2, <2>3, <2>4, PortsFreed DEF Binding
<1>5. ASSUME NEW q \in Printers PROVE Recorded(q)'
  <2>1. CASE q = p
    BY <1>a, <1>b, <1>d, <2>1 DEF IInv, Recorded
  <2>2. CASE q # p
    BY <1>a, <1>b, <1>c, <2>2, RecordedQuiet DEF IInv
  <2>3. QED
    BY <2>1, <2>2
<1>6. Grouped'
  BY <1>a, GroupedQuiet DEF IInv
<1>7. QED
  BY <1>1, <1>2, <1>3, <1>4, <1>5, <1>6 DEF IInv

LEMMA QuitEndsKeeps ==
  ASSUME IInv, ~misused, QuitEnds
  PROVE  IInv'
<1>1. TypeOK'
  BY DEF QuitEnds, IInv, TypeOK, PortTypes, ApiTypes, ZeroconfTypes
<1>2. Locked'
  BY Tags DEF QuitEnds, IInv, Locked, Deleting, Grouping
<1>3. Owned'
  BY OwnedQuiet DEF QuitEnds, IInv, Adding
<1>4. PortsInv'
  BY PortsQuiet DEF QuitEnds, IInv, Binding, Frees
<1>5. ASSUME NEW q \in Printers PROVE Recorded(q)'
  BY DEF QuitEnds, IInv, Recorded
<1>6. Grouped'
  BY GroupedQuiet DEF QuitEnds, IInv
<1>7. QED
  BY <1>1, <1>2, <1>3, <1>4, <1>5, <1>6 DEF IInv

-----------------------------------------------------------------------------
(* The invariant holds, and the properties follow *)

LEMMA InitInv == PrivetInit => IInv
<1> SUFFICES ASSUME PrivetInit PROVE IInv
  OBVIOUS
<1>1. TypeOK
  <2>1. IsFiniteSet(Foreign)
    BY FS_Subset, PrivetAssumption DEF PrivetAssumption
  <2>2. Cardinality(taken) \in Nat
    BY <2>1, FS_Subset, FS_CardinalityType DEF PrivetInit
  <2>3. QED
    BY <2>2, Tags, AbsentType DEF PrivetInit, TypeOK, PortTypes, ApiTypes, ZeroconfTypes, CallType,
       CallSteps,
       ListenerType, ClientStates, Unused
<1>2. Locked
  BY Tags DEF PrivetInit, Locked, Deleting, Grouping
<1>3. Owned
  BY Tags DEF PrivetInit, Owned, Adding, Unused
<1>4. PortsInv
  BY Tags DEF PrivetInit, PortsInv, OneFreer, Binding, Holds, Freeing, Frees, Unused
<1>5. \A p \in Printers : Recorded(p)
  BY DEF PrivetInit, Recorded
<1>6. Grouped
  BY Tags DEF PrivetInit, Grouped, Present
<1>7. QED
  BY <1>1, <1>2, <1>3, <1>4, <1>5, <1>6 DEF IInv

LEMMA NextKeeps == IInv /\ Ranging /\ [PrivetNext]_privetVars => IInv'
<1> SUFFICES ASSUME IInv, Ranging, [PrivetNext]_privetVars PROVE IInv'
  OBVIOUS
<1>1. CASE UNCHANGED privetVars
  <2>1. UNCHANGED <<marked, taken, lost, listener, serve, apis, apisMutex, call, adds, quitting, closing,
                    backend, zstate, record, unremoved, spMutex, poll, callback, newState, client, rq,
                    ranged, misused, states, errors>>
    BY <1>1 DEF privetVars
  <2>2. TypeOK'
    BY <2>1 DEF IInv, TypeOK, PortTypes, ApiTypes, ZeroconfTypes
  <2>3. Locked' /\ Owned'
    BY <2>1 DEF IInv, Locked, Deleting, Grouping, Owned, Adding
  <2>4. PortsInv'
    BY <2>1, PortsQuiet DEF IInv, Binding, Frees
  <2>5. (\A p \in Printers : Recorded(p))' /\ Grouped'
    BY <2>1 DEF IInv, Recorded, Grouped, Present
  <2>6. QED
    BY <2>2, <2>3, <2>4, <2>5 DEF IInv
<1>2. CASE PrivetNext
  <2>1. ~misused
    BY <1>2 DEF PrivetNext, Live
  <2>2. ASSUME NEW p \in Printers, AddPrinter(p) \/ DeletePrinter(p) \/ Called(p)
        PROVE  IInv'
    BY <2>1, <2>2, AddPrinterKeeps, DeletePrinterKeeps, NextAvailablePortKeeps, BindKeeps, BindFailsKeeps,
       PublishKeeps, AddGroupKeeps, BonjourPublishKeeps, StoreKeeps, RemoveRecordKeeps, RemoveGroupKeeps,
       BonjourRemoveKeeps, QuitListenerKeeps, CloseListenerKeeps, FreeListenerKeeps, DeletedKeeps DEF Called
  <2>3. ASSUME NEW l \in Listeners, Serve(l)
        PROVE  IInv'
    BY <2>1, <2>3, AcceptKeeps, ServeClosesKeeps, ServeFreesKeeps DEF Serve
  <2>4. ASSUME NEW q \in Ports, OtherProcess(q)
        PROVE  IInv'
    BY <2>1, <2>4, OtherProcessKeeps
  <2>5. ASSUME NEW s \in {"running", "down", "failure"} \cup Printers, CallbackBegins(s)
        PROVE  IInv'
    BY <2>1, <2>5, CallbackBeginsKeeps DEF ClientStates
  <2>6. CASE Callback
    BY <2>1, <2>6, HandleClientStateChangeKeeps, HandleGroupStateChangeKeeps DEF Callback
  <2>7. CASE RestartAndQuit
    BY <2>1, <2>7, RestartReceivedKeeps, StopClientKeeps, StartClientKeeps, QuitReceivedKeeps,
       QuitRemovesKeeps, QuitStopsKeeps DEF RestartAndQuit
  <2>8. CASE QuitStarts
    BY <2>1, <2>8, QuitStartsKeeps
  <2>9. CASE Quitting
    BY <2>1, <2>9, BonjourQuitKeeps, QuitCallsQuitKeeps, QuitClosesKeeps, QuitFreesKeeps,
       QuitEndsKeeps DEF Quitting
  <2>10. QED
    BY <1>2, <2>2, <2>3, <2>4, <2>5, <2>6, <2>7, <2>8, <2>9 DEF PrivetNext
<1>3. QED
  BY <1>1, <1>2

\* A printer enters the map of APIs with its mutex, which Quit holds while the
\* records are gone through, and only a printer outside the map gets a record.
LEMMA RangingKeeps == IInv /\ Ranging /\ [PrivetNext]_privetVars => Ranging'
<1> SUFFICES ASSUME IInv, Ranging, [PrivetNext]_privetVars PROVE Ranging'
  OBVIOUS
<1>0. /\ rq \in {"remove"} \cup Printers => quitting = "waits" /\ apisMutex = "quit"
      /\ \A p \in Printers : Adding(p) => apis[p] = 0
      /\ apis \in [Printers -> Listeners \cup {0}] /\ record \in [Printers -> RecordType]
  BY DEF IInv, Locked, Owned, TypeOK, ApiTypes, ZeroconfTypes
<1>1. CASE UNCHANGED <<apis, record, unremoved, rq, ranged>>
  BY <1>1 DEF Ranging
<1>2. ASSUME UNCHANGED <<apis, unremoved, rq, ranged>>,
             \A p \in Printers : apis[p] # 0 /\ record[p] = Absent => record'[p] = Absent
      PROVE  Ranging'
  BY <1>2 DEF Ranging
<1>3. ASSUME UNCHANGED rq, rq \notin {"remove"} \cup Printers
      PROVE  Ranging'
  BY <1>3 DEF Ranging
<1>4. CASE UNCHANGED privetVars
  BY <1>1, <1>4 DEF privetVars
<1>5. ASSUME NEW p \in Printers, AddPrinter(p) \/ DeletePrinter(p) \/ Called(p)
      PROVE  Ranging'
  <2>1. CASE \/ AddPrinter(p) \/ DeletePrinter(p) \/ NextAvailablePort(p) \/ Bind(p) \/ BindFails(p)
             \/ QuitListener(p) \/ CloseListener(p) \/ FreeListener(p)
    BY <1>1, <2>1 DEF AddPrinter, DeletePrinter, NextAvailablePort, Bind, BindFails,
       QuitListener, CloseListener, FreeListener
  <2>2. CASE Publish(p) \/ AddGroup(p) \/ BonjourPublish(p)
    <3>1. apis[p] = 0
      BY <1>0, <2>2 DEF Publish, AddGroup, BonjourPublish, Adding
    <3>2. UNCHANGED <<apis, unremoved, rq, ranged>> /\ \A q \in Printers \ {p} : record'[q] = record[q]
      BY <1>0, <2>2 DEF Publish, AddGroup, BonjourPublish
    <3>3. QED
      BY <1>2, <3>1, <3>2
  <2>3. CASE Store(p)
    BY <1>0, <1>3, <2>3 DEF Store
  <2>4. CASE RemoveRecord(p) \/ BonjourRemove(p) \/ RemoveGroup(p) \/ Deleted(p)
    <3>1. apisMutex = p /\ p # "quit"
      <4>1. call[p].at \in {"remove", "ungroup", "close", "delete"}
        BY <2>4 DEF RemoveRecord, BonjourRemove, RemoveGroup, Deleted
      <4>2. QED
        BY <4>1, Tags DEF IInv, Locked, Deleting
    <3>2. UNCHANGED rq
      BY <2>4 DEF RemoveRecord, BonjourRemove, RemoveGroup, Deleted
    <3>3. QED
      BY <1>0, <1>3, <3>1, <3>2
  <2>5. QED
    BY <1>5, <2>1, <2>2, <2>3, <2>4 DEF Called
<1>6. ASSUME NEW l \in Listeners, Serve(l)
      PROVE  Ranging'
  BY <1>1, <1>6 DEF Serve, Accept, ServeCloses, ServeFrees
<1>7. ASSUME NEW q \in Ports, OtherProcess(q)
      PROVE  Ranging'
  BY <1>1, <1>7 DEF OtherProcess
<1>8. ASSUME NEW s \in ClientStates \cup Printers, CallbackBegins(s)
      PROVE  Ranging'
  BY <1>1, <1>8 DEF CallbackBegins
<1>9. CASE Callback
  <2>1. UNCHANGED <<apis, unremoved, rq, ranged>>
    BY <1>9 DEF Callback, HandleClientStateChange, HandleGroupStateChange
  <2>2. ASSUME NEW p \in Printers, record[p] = Absent
        PROVE  record'[p] = Absent
    <3>1. CASE HandleClientStateChange
      <4>1. record'[p] = record[p]
        BY <1>0, <2>2, <3>1 DEF HandleClientStateChange, StateChange, Groups, Recreated, Present
      <4>2. QED
        BY <2>2, <4>1
    <3>2. CASE HandleGroupStateChange
      BY <1>0, <2>2, <3>2 DEF HandleGroupStateChange, Absent, RecordType
    <3>3. QED
      BY <1>9, <3>1, <3>2 DEF Callback
  <2>3. QED
    BY <1>2, <2>1, <2>2
<1>10. CASE RestartReceived \/ StopClient \/ StartClient \/ QuitStops
  BY <1>10, Tags DEF RestartReceived, StopClient, StartClient, QuitStops, Ranging
<1>11. CASE QuitReceived
  BY <1>11 DEF QuitReceived, Ranging, Present
<1>12. ASSUME NEW p \in Printers, QuitRemoves(p)
       PROVE  Ranging'
  <2>1. /\ rq \in {"remove"} \cup Printers /\ UNCHANGED apis
        /\ \A q \in Printers \ {p} : record'[q] = record[q] /\ (q \in ranged' <=> q \in ranged)
        /\ \A q \in Printers : q \notin unremoved' => q \notin unremoved
        /\ p \in unremoved' \/ record'[p] = Absent \/ UNCHANGED <<record, ranged>>
    BY <1>0, <1>12 DEF QuitRemoves, Removed
  <2>2. QED
    BY <2>1 DEF Ranging
<1>13. CASE QuitStarts \/ Quitting
  <2>1. /\ UNCHANGED rq
        /\ quitting # "waits"
    BY <1>13 DEF QuitStarts, Quitting, BonjourQuit, QuitCallsQuit, QuitCloses, QuitFrees, QuitEnds
  <2>2. QED
    BY <1>0, <1>3, <2>1
<1>14. QED
  BY <1>4, <1>5, <1>6, <1>7, <1>8, <1>9, <1>10, <1>11, <1>12, <1>13
  DEF PrivetNext, RestartAndQuit, ClientStates

\* The invariant holds in every state that the callers, http.Serve, Avahi's poll
\* thread and restartAndQuit reach together.
THEOREM InvariantHolds == PrivetSpec => [](IInv /\ Ranging)
<1>1. PrivetInit => Ranging
  BY Tags DEF PrivetInit, Ranging
<1>2. QED
  BY <1>1, InitInv, NextKeeps, RangingKeeps, PTL DEF PrivetSpec

LEMMA Marks == IInv => PortsExact
<1> SUFFICES ASSUME IInv PROVE PortsExact
  OBVIOUS
<1> DEFINE M == lost \cup {call[p].port : p \in {q \in Printers : At(q, "bind")}}
                \cup {listener[l].port : l \in {m \in Listeners : listener[m].open \/ Freeing(m)}}
<1>1. \A q \in marked : q \in M
  BY DEF IInv, PortsInv, Binding, Holds
<1>2. \A q \in M : q \in marked
  BY DEF IInv, PortsInv, Binding, Holds
<1>3. \A l, m \in Listeners : l # m /\ listener[l].open /\ listener[m].open
        => listener[l].port # listener[m].port
  BY DEF IInv, PortsInv, Holds
<1>4. QED
  BY <1>1, <1>2, <1>3 DEF PortsExact

\* No two listeners share a port, and the port manager's marks are exact: neither
\* close of a listener, http.Serve's or quit's, frees a port twice, frees the port
\* of another listener, or leaves one marked.
THEOREM PortsAccounted == PrivetSpec => []PortsExact
  BY InvariantHolds, Marks, PTL

\* The port of a record is one where its printer's own API listens, from its
\* publication until it is removed, unless the removal of the record failed.
THEOREM RecordsServed == PrivetSpec => []RecordServed
<1>1. IInv => RecordServed
  <2> SUFFICES ASSUME IInv, NEW p \in Printers \ unremoved, record[p] # Absent
               PROVE  Served(p)
    BY DEF RecordServed
  <2>1. /\ call[p].mine \in Listeners /\ listener[call[p].mine].open
        /\ listener[call[p].mine].port = record[p].port /\ listener[call[p].mine].owner = p
    BY DEF IInv, Recorded, Owned, TypeOK, ApiTypes, CallType
  <2>2. QED
    BY <2>1 DEF Served
<1>2. QED
  BY <1>1, InvariantHolds, PTL

\* With spMutex free, before anything failed, no freed group used and no restart
\* under way, the records that are announced are all of them while Avahi's client
\* runs, and none when it does not.
THEOREM GroupsFollowState == PrivetSpec => []GroupsFollow
<1>1. IInv => GroupsFollow
  <2> SUFFICES ASSUME IInv, Live, spMutex = "none", backend = "avahi", errors = 0, NEW p \in Present
               PROVE  (record[p].group = "live") = (zstate = "running")
    BY DEF GroupsFollow
  <2>1. callback # "restart"
    BY DEF IInv, Locked
  <2>2. record[p].group = "live" <=> zstate = "running"
    BY <2>1 DEF IInv, Grouped, Live
  <2>3. QED
    BY <2>2
<1>2. QED
  BY <1>1, InvariantHolds, PTL
==============================================================================
