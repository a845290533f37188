-------------------------------- MODULE Xmpp --------------------------------
(***************************************************************************)
(* The XMPP client (xmpp/): XMPP keeps one conversation with the server    *)
(* alive.  Each conversation (internalXMPP) has a goroutine that reads the *)
(* incoming elements (dispatchIncoming), one that pings (pingPeriodically) *)
(* and channels between them: pongs, dying and, to XMPP, dead.             *)
(*                                                                         *)
(* The reader of the notifications channel is the manager, which starts    *)
(* only after NewXMPP has returned and quits before XMPP.Quit is called    *)
(* (gcp-cups-connector.go).  The server and the network are the            *)
(* environment.                                                            *)
(***************************************************************************)
EXTENDS Naturals, Sequences

CONSTANTS
  MaxConns,     \* bound: conversations ever started
  PongsCap,     \* capacity of internalXMPP.pongs
  InboxCap,     \* capacity of the notifications channel
  MaxMessages,  \* bound: notifications the server sends
  MaxFaults     \* bound: failures of the network and the server

ASSUME XmppAssumption ==
  /\ {MaxConns, MaxMessages, MaxFaults} \subseteq Nat
  /\ {PongsCap, InboxCap} \subseteq Nat \ {0}

Conversations == 1 .. MaxConns

VARIABLES
  keepAlive,   \* the goroutine of NewXMPP and keepXMPPAlive
  started,     \* NewXMPP has returned
  ix,          \* XMPP.ix, 0 for nil
  conns,       \* number of conversations made; the last one is being set up or used
  connOpen,    \* conn of each conversation, FALSE when closed by either side
  incoming,    \* elements on their way to the dispatcher
  asked,       \* a ping the server has not answered
  dispatcher,  \* dispatchIncoming of each conversation
  pinger,      \* pingPeriodically of each conversation
  pongs,       \* internalXMPP.pongs
  inbox,       \* length of the notifications channel
  listener,    \* the manager's listenNotifications
  quitting,    \* the shutdown: pm.Quit, then XMPP.Quit waits and returns
  messages, faults

connVars   == <<connOpen, incoming, asked, dispatcher, pinger, pongs>>
keeperVars == <<keepAlive, started, ix, conns>>
outerVars  == <<inbox, listener, quitting>>
xmppVars == <<keeperVars, connVars, outerVars, messages, faults>>

XmppTypeOK ==
  /\ keepAlive \in {"dial", "verify", "await", "select", "end"}
  /\ started \in BOOLEAN
  /\ ix \in 0 .. MaxConns /\ conns \in 0 .. MaxConns
  /\ connOpen \in [Conversations -> BOOLEAN] /\ asked \in [Conversations -> BOOLEAN]
  /\ incoming \in [Conversations -> Seq({"message", "pong", "iq"})]
  /\ dispatcher \in [Conversations -> {"none", "read", "notify", "pong", "iq", "dying", "end"}]
  /\ pinger \in [Conversations -> {"none", "idle", "ping", "closing", "dead", "end"}]
  /\ pongs \in [Conversations -> Seq({"pong", "iq"})]
  /\ \A c \in Conversations : Len(pongs[c]) <= PongsCap
  /\ inbox \in 0 .. InboxCap
  /\ listener \in {"off", "on", "end"}
  /\ quitting \in {"no", "manager", "wait", "dead", "timeout"}
  /\ messages \in Nat /\ faults \in Nat

\* keepXMPPAlive is at the given place, and nothing has happened yet.
XmppInitAt(place) ==
  /\ keepAlive = place /\ started = FALSE /\ ix = 0 /\ conns = 0
  /\ connOpen = [c \in Conversations |-> FALSE] /\ asked = [c \in Conversations |-> FALSE]
  /\ incoming = [c \in Conversations |-> <<>>] /\ pongs = [c \in Conversations |-> <<>>]
  /\ dispatcher = [c \in Conversations |-> "none"] /\ pinger = [c \in Conversations |-> "none"]
  /\ inbox = 0 /\ listener = "off" /\ quitting = "no"
  /\ messages = 0 /\ faults = 0

XmppInit == XmppInitAt("dial")

Fault   == faults < MaxFaults /\ faults' = faults + 1
NoFault == UNCHANGED faults

Close(c)        == connOpen' = [connOpen EXCEPT ![c] = FALSE]
Receive(s, c)   == s' = [s EXCEPT ![c] = Tail(@)]
Send(s, c, x)   == s' = [s EXCEPT ![c] = Append(@, x)]
Pinger(c, to)   == pinger' = [pinger EXCEPT ![c] = to]
Dispatch(c, to) == dispatcher' = [dispatcher EXCEPT ![c] = to]

\* XMPP.quit is closed.
QuitClosed == quitting \in {"wait", "dead", "timeout"}
-----------------------------------------------------------------------------
(* NewXMPP, startXMPP, newInternalXMPP, keepXMPPAlive *)

\* The old conversation is closed.  Token, dialing or a handshake can fail;
\* it is tried again after 10 s.
StartFails ==
  /\ keepAlive = "dial" /\ Fault
  /\ connOpen' = [c \in Conversations |-> c # ix /\ connOpen[c]] /\ ix' = 0
  /\ UNCHANGED <<keepAlive, started, conns, incoming, asked, dispatcher, pinger, pongs, outerVars, messages>>

\* The dispatcher runs and the initial ping is sent.
StartXMPP ==
  /\ keepAlive = "dial" /\ conns < MaxConns
  /\ ix' = 0 /\ conns' = conns + 1 /\ keepAlive' = "verify"
  /\ connOpen' = [c \in Conversations |-> c = conns + 1 \/ (c # ix /\ connOpen[c])]
  /\ asked' = [asked EXCEPT ![conns + 1] = TRUE]
  /\ Dispatch(conns + 1, "read")
  /\ UNCHANGED <<started, incoming, pinger, pongs, outerVars, messages, faults>>

\* A pong that answers this ping, or an iq with another ID, which is skipped.
PongFor(c, x) == pongs[c] # <<>> /\ Head(pongs[c]) = x

\* No answer to the ping is left to come, whatever the dispatcher does.
Silent(c) ==
  /\ pongs[c] = <<>> /\ dispatcher[c] # "pong"
  /\ \/ dispatcher[c] \in {"dying", "end"}
     \/ ~asked[c] /\ \A k \in 1 .. Len(incoming[c]) : incoming[c][k] # "pong"
     \/ ~connOpen[c] /\ incoming[c] = <<>>

\* The answer to a ping does not come in time, or it is late.
PongTimeout(c) == (Silent(c) /\ NoFault) \/ (pongs[c] = <<>> /\ Fault)

\* The initial ping is answered: the conversation is used.
Verified ==
  /\ keepAlive = "verify" /\ PongFor(conns, "pong")
  /\ Receive(pongs, conns)
  /\ keepAlive' = "select" /\ ix' = conns /\ started' = TRUE
  /\ Pinger(conns, "idle")
  /\ UNCHANGED <<conns, connOpen, incoming, asked, dispatcher, outerVars, messages, faults>>

VerifySkips ==
  /\ keepAlive = "verify" /\ PongFor(conns, "iq")
  /\ Receive(pongs, conns)
  /\ UNCHANGED <<keeperVars, connOpen, incoming, asked, dispatcher, pinger, outerVars, messages, faults>>

\* Seeded fault: newInternalXMPP does not wait for the dispatcher to die.
VerifyFails_NoWait ==
  /\ keepAlive = "verify" /\ PongTimeout(conns)
  /\ keepAlive' = "dial"
  /\ UNCHANGED <<started, ix, conns, connVars, outerVars, messages>>

\* It is not: the connection is closed and the dispatcher has to die.
VerifyFails ==
  /\ keepAlive = "verify" /\ PongTimeout(conns)
  /\ Close(conns) /\ keepAlive' = "await"
  /\ UNCHANGED <<started, ix, conns, incoming, asked, dispatcher, pinger, pongs, outerVars, messages>>

AwaitDying ==
  /\ keepAlive = "await" /\ dispatcher[conns] = "dying"
  /\ Dispatch(conns, "end") /\ keepAlive' = "dial"
  /\ UNCHANGED <<started, ix, conns, connOpen, incoming, asked, pinger, pongs, outerVars, messages, faults>>

\* keepXMPPAlive receives from dead, ...
Restart(c) ==
  /\ keepAlive = "select" /\ pinger[c] = "dead"
  /\ Pinger(c, "end") /\ keepAlive' = "dial"
  /\ UNCHANGED <<started, ix, conns, connOpen, incoming, asked, dispatcher, pongs, outerVars, messages, faults>>

\* ... or sees that quit is closed.
KeepAliveQuits ==
  /\ keepAlive = "select" /\ QuitClosed
  /\ Close(ix) /\ keepAlive' = "end"
  /\ UNCHANGED <<started, ix, conns, incoming, asked, dispatcher, pinger, pongs, outerVars, messages, faults>>

KeepAlive ==
  \/ StartXMPP \/ Verified \/ VerifySkips \/ VerifyFails \/ AwaitDying
  \/ (\E c \in Conversations : Restart(c)) \/ KeepAliveQuits
-----------------------------------------------------------------------------
(* pingPeriodically *)

pingFrame == <<keeperVars, incoming, outerVars, messages>>

\* A ping that cannot be sent closes the connection.
PingSent(c) ==
  /\ pinger[c] = "idle"
  /\ \/ connOpen[c] /\ asked' = [asked EXCEPT ![c] = TRUE] /\ Pinger(c, "ping") /\ NoFault /\ UNCHANGED connOpen
     \/ ~connOpen[c] /\ Pinger(c, "closing") /\ NoFault /\ UNCHANGED <<connOpen, asked>>
     \/ connOpen[c] /\ Fault /\ Close(c) /\ Pinger(c, "closing") /\ UNCHANGED asked
  /\ UNCHANGED <<pingFrame, dispatcher, pongs>>

PongReceived(c) ==
  /\ pinger[c] = "ping"
  /\ \/ PongFor(c, "pong") /\ Pinger(c, "idle")
     \/ PongFor(c, "iq") /\ UNCHANGED pinger
  /\ Receive(pongs, c)
  /\ UNCHANGED <<pingFrame, connOpen, asked, dispatcher, faults>>

\* Seeded faults: the connection is not closed; death is signalled at once.
PingTimeout_NoClose(c) ==
  /\ pinger[c] = "ping" /\ PongTimeout(c)
  /\ Pinger(c, "closing")
  /\ UNCHANGED <<pingFrame, connOpen, asked, dispatcher, pongs>>

PingTimeout_DeadAtOnce(c) ==
  /\ pinger[c] = "ping" /\ PongTimeout(c)
  /\ Close(c) /\ Pinger(c, "dead")
  /\ UNCHANGED <<pingFrame, asked, dispatcher, pongs>>

\* The timer is not set again: what is left is to wait for dying.
PingTimeout(c) ==
  /\ pinger[c] = "ping" /\ PongTimeout(c)
  /\ Close(c) /\ Pinger(c, "closing")
  /\ UNCHANGED <<pingFrame, asked, dispatcher, pongs>>

\* Seeded fault: a pinger that closed the connection itself does not signal
\* its death.
Dying_NoSignal(c) ==
  /\ pinger[c] \in {"idle", "closing"} /\ dispatcher[c] = "dying"
  /\ Dispatch(c, "end")
  /\ Pinger(c, IF pinger[c] = "closing" THEN "end" ELSE "dead")
  /\ UNCHANGED <<pingFrame, connOpen, asked, pongs, faults>>

Dying(c) ==
  /\ pinger[c] \in {"idle", "closing"} /\ dispatcher[c] = "dying"
  /\ Dispatch(c, "end") /\ Pinger(c, "dead")
  /\ UNCHANGED <<pingFrame, connOpen, asked, pongs, faults>>

PingPeriodically(c) == PingSent(c) \/ PongReceived(c) \/ PingTimeout(c) \/ Dying(c)
-----------------------------------------------------------------------------
(* dispatchIncoming *)

dispatchFrame == <<keeperVars, connOpen, asked, pinger, listener, quitting, messages>>

ReadElement(c) ==
  /\ dispatcher[c] = "read" /\ incoming[c] # <<>>
  /\ Receive(incoming, c)
  /\ Dispatch(c, IF Head(incoming[c]) = "message" THEN "notify" ELSE Head(incoming[c]))
  /\ UNCHANGED <<dispatchFrame, pongs, inbox, faults>>

\* The connection is closed, or what is read is not XML.
ReadFails(c) ==
  /\ dispatcher[c] = "read" /\ ((~connOpen[c] /\ NoFault) \/ Fault)
  /\ Dispatch(c, "dying")
  /\ UNCHANGED <<dispatchFrame, incoming, pongs, inbox>>

\* Seeded fault: the channel's capacity is not respected.
PassMessage_NoWait(c) ==
  /\ dispatcher[c] = "notify"
  /\ inbox' = inbox + 1 /\ Dispatch(c, "read")
  /\ UNCHANGED <<dispatchFrame, incoming, pongs, faults>>

\* Both channels make the dispatcher wait when they are full.
PassMessage(c) ==
  /\ dispatcher[c] = "notify" /\ inbox < InboxCap
  /\ inbox' = inbox + 1 /\ Dispatch(c, "read")
  /\ UNCHANGED <<dispatchFrame, incoming, pongs, faults>>

PassPong(c) ==
  /\ dispatcher[c] \in {"pong", "iq"} /\ Len(pongs[c]) < PongsCap
  /\ Send(pongs, c, dispatcher[c]) /\ Dispatch(c, "read")
  /\ UNCHANGED <<dispatchFrame, incoming, inbox, faults>>

DispatchIncoming(c) == ReadElement(c) \/ ReadFails(c) \/ PassMessage(c) \/ PassPong(c)
-----------------------------------------------------------------------------
(* The server and the network *)

networkFrame == <<keeperVars, dispatcher, pinger, pongs, outerVars>>

ServerSends(c) ==
  /\ connOpen[c] /\ messages < MaxMessages
  /\ messages' = messages + 1 /\ Send(incoming, c, "message")
  /\ UNCHANGED <<networkFrame, connOpen, asked, faults>>

\* A ping is answered, or the answer is lost.
ServerAnswers(c) ==
  /\ connOpen[c] /\ asked[c]
  /\ asked' = [asked EXCEPT ![c] = FALSE]
  /\ \/ Send(incoming, c, "pong") /\ NoFault
     \/ UNCHANGED incoming /\ Fault
  /\ UNCHANGED <<networkFrame, connOpen, messages>>

\* An iq element that answers no ping.
StrayIq(c) ==
  /\ connOpen[c] /\ Fault
  /\ Send(incoming, c, "iq")
  /\ UNCHANGED <<networkFrame, connOpen, asked, messages>>

ConnectionLost(c) ==
  /\ connOpen[c] /\ Fault
  /\ Close(c)
  /\ UNCHANGED <<networkFrame, incoming, asked, messages>>

Network(c) == ServerSends(c) \/ ServerAnswers(c) \/ StrayIq(c) \/ ConnectionLost(c)
-----------------------------------------------------------------------------
(* main and the manager *)

mainFrame == <<keeperVars, connOpen, incoming, asked, dispatcher, pongs, messages, faults>>

ManagerStarts ==
  /\ started /\ listener = "off" /\ listener' = "on"
  /\ UNCHANGED <<mainFrame, pinger, inbox, quitting>>

ManagerReceives ==
  /\ listener = "on" /\ inbox > 0 /\ inbox' = inbox - 1
  /\ UNCHANGED <<mainFrame, pinger, listener, quitting>>

\* The deferred calls run last to first: pm.Quit, ..., x.Quit.
ManagerQuit ==
  /\ listener = "on" /\ quitting = "no" /\ quitting' = "manager"
  /\ UNCHANGED <<mainFrame, pinger, inbox, listener>>

ManagerEnds ==
  /\ listener = "on" /\ quitting # "no" /\ listener' = "end"
  /\ UNCHANGED <<mainFrame, pinger, inbox, quitting>>

XmppQuit ==
  /\ quitting = "manager" /\ quitting' = "wait"
  /\ UNCHANGED <<mainFrame, pinger, inbox, listener>>

\* XMPP.Quit returns on a death or after 3 seconds.
QuitReturns ==
  \/ /\ quitting = "wait"
     /\ \E c \in Conversations : pinger[c] = "dead" /\ Pinger(c, "end")
     /\ quitting' = "dead"
     /\ UNCHANGED <<mainFrame, inbox, listener>>
  \/ /\ quitting = "wait" /\ quitting' = "timeout"
     /\ UNCHANGED <<mainFrame, pinger, inbox, listener>>

Main == ManagerStarts \/ ManagerReceives \/ ManagerQuit \/ ManagerEnds \/ XmppQuit \/ QuitReturns
-----------------------------------------------------------------------------
XmppNext ==
  \/ KeepAlive \/ StartFails \/ Main
  \/ \E c \in Conversations : PingPeriodically(c) \/ DispatchIncoming(c) \/ Network(c)

XmppSpec == XmppInit /\ [][XmppNext]_xmppVars

\* The goroutines run, the server answers what is not lost, and the manager
\* starts and receives.  Nothing need fail and nobody need quit.
XmppFairness ==
  /\ WF_xmppVars(KeepAlive) /\ WF_xmppVars(ManagerStarts) /\ WF_xmppVars(ManagerReceives)
  /\ WF_xmppVars(\E c \in Conversations : PingPeriodically(c))
  /\ WF_xmppVars(\E c \in Conversations : DispatchIncoming(c))
  /\ WF_xmppVars(\E c \in Conversations : ServerAnswers(c))

FairXmppSpec == XmppSpec /\ XmppFairness
-----------------------------------------------------------------------------
(* Properties *)

\* A goroutine of the conversation runs.
Runs(c) == dispatcher[c] \notin {"none", "end"} \/ pinger[c] \notin {"none", "end"}

\* There is never more than one conversation, and it is the last one started:
\* startXMPP is not called before both goroutines of the old one are over.
OneConversation == \A c \in Conversations : Runs(c) => c = conns

\* While keepXMPPAlive waits, the conversation it would have to replace still
\* has a pinger to tell of its death, unless XMPP.Quit has been told.
Watched ==
  keepAlive = "select" /\ quitting # "dead" => ix = conns /\ pinger[ix] \notin {"none", "end"}

\* When XMPP.Quit has been told of a death, no conversation is left that
\* could still deliver a notification ("so that new jobs stop arriving"), and
\* none will be started.
QuitIsFinal ==
  quitting = "dead" => keepAlive \in {"select", "end"} /\ \A c \in Conversations : ~Runs(c)

\* A dead, closed or silent conversation is replaced by a live one, unless
\* the connector is shutting down.
Alive ==
  /\ keepAlive = "select" /\ connOpen[ix] /\ dispatcher[ix] \notin {"dying", "end"}
  /\ pinger[ix] = "idle" \/ (pinger[ix] = "ping" /\ ~Silent(ix))
Recovers == started /\ ~Alive ~> Alive \/ quitting # "no"

\* internal-xmpp.go says of internalXMPP.Quit, which closes the connection,
\* "Trigger dispatchIncoming to return": the dispatcher of a closed connection
\* ends.
ClosedEnds ==
  \A c \in Conversations :
    dispatcher[c] # "none" /\ ~connOpen[c] ~> dispatcher[c] = "end" \/ quitting # "no"
=============================================================================
