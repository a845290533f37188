---------------------------- MODULE Xmpp_proofs ----------------------------
(***************************************************************************)
(* Proofs about Xmpp, for any number of conversations, messages and        *)
(* failures and any channel capacities: every variable keeps its type,     *)
(* there is one conversation at a time, its death is noticed, and an       *)
(* XMPP.Quit that was told of a death is final.                            *)
(***************************************************************************)
EXTENDS Xmpp, TLAPS

\* The goroutines of a conversation end together: a pinger that works has a
\* dispatcher, and one that has seen dying has none.
PairedGoroutines ==
  \A c \in Conversations :
    /\ pinger[c] \in {"idle", "ping", "closing"} => dispatcher[c] \notin {"none", "end"}
    /\ pinger[c] \in {"dead", "end"} => dispatcher[c] = "end"
    /\ c > conns => dispatcher[c] = "none" /\ pinger[c] = "none"

\* What the place of keepXMPPAlive says of the last conversation.
KeeperKnows ==
  /\ keepAlive = "dial" => \A c \in Conversations : ~Runs(c)
  /\ keepAlive \in {"verify", "await"} =>
       conns \in Conversations /\ pinger[conns] = "none" /\ dispatcher[conns] \notin {"none", "end"}
  /\ keepAlive \in {"select", "end"} => conns \in Conversations /\ ix = conns

Control ==
  /\ PairedGoroutines /\ KeeperKnows
  /\ OneConversation /\ Watched /\ QuitIsFinal

IInv == XmppTypeOK /\ Control

USE DEF Fault, NoFault, Close, Receive, Send, Pinger, Dispatch

-----------------------------------------------------------------------------
(* Facts about the constants, and what the actions do to one conversation *)

LEMMA Bounds ==
  /\ MaxConns \in Nat /\ MaxMessages \in Nat /\ MaxFaults \in Nat
  /\ PongsCap \in Nat /\ InboxCap \in Nat
  /\ \A c \in Conversations : c \in Nat /\ c > 0 /\ c \in 0 .. MaxConns
  BY XmppAssumption DEF Conversations

\* Taking an element off a channel, and adding one, keep its type.
LEMMA Queues ==
  ASSUME NEW S, NEW q \in Seq(S)
  PROVE  /\ q # <<>> => Tail(q) \in Seq(S) /\ Head(q) \in S /\ Len(Tail(q)) = Len(q) - 1
         /\ \A x \in S : Append(q, x) \in Seq(S) /\ Len(Append(q, x)) = Len(q) + 1
         /\ Len(q) \in Nat
  OBVIOUS

\* A step that moves no goroutine keeps the control invariant.
LEMMA ControlFrame ==
  ASSUME Control, UNCHANGED <<keeperVars, dispatcher, pinger, quitting>>
  PROVE  Control'
  BY DEF Control, PairedGoroutines, KeeperKnows, OneConversation, Watched, QuitIsFinal, Runs, keeperVars

\* A dispatcher that goes on working.
LEMMA DispatcherMoves ==
  ASSUME XmppTypeOK, Control, NEW c \in Conversations, NEW to,
         dispatcher[c] \notin {"none", "end"}, to \notin {"none", "end"},
         Dispatch(c, to), UNCHANGED <<keeperVars, pinger, quitting>>
  PROVE  Control'
<1>1. \A d \in Conversations : /\ dispatcher'[d] = IF d = c THEN to ELSE dispatcher[d]
                       /\ Runs(d)' => Runs(d)
  BY DEF XmppTypeOK, Runs
<1>2. Runs(c)
  BY DEF Runs
<1>3. PairedGoroutines'
  BY <1>1 DEF Control, PairedGoroutines, keeperVars
<1>4. KeeperKnows'
  BY <1>1, <1>2 DEF Control, KeeperKnows, keeperVars
<1>5. OneConversation' /\ Watched' /\ QuitIsFinal'
  BY <1>1, <1>2 DEF Control, OneConversation, Watched, QuitIsFinal, keeperVars
<1>6. QED
  BY <1>3, <1>4, <1>5 DEF Control

\* A pinger that goes on working.
LEMMA PingerMoves ==
  ASSUME XmppTypeOK, Control, NEW c \in Conversations, NEW to \in {"idle", "ping", "closing"},
         pinger[c] \in {"idle", "ping", "closing"},
         Pinger(c, to), UNCHANGED <<keeperVars, dispatcher, quitting>>
  PROVE  Control'
<1>1. \A d \in Conversations : /\ pinger'[d] = IF d = c THEN to ELSE pinger[d]
                       /\ Runs(d)' => Runs(d)
  BY DEF XmppTypeOK, Runs
<1>2. Runs(c)
  BY DEF Runs
<1>3. PairedGoroutines'
  BY <1>1 DEF Control, PairedGoroutines, keeperVars
<1>4. KeeperKnows'
  BY <1>1, <1>2 DEF Control, KeeperKnows, keeperVars
<1>5. OneConversation' /\ QuitIsFinal'
  BY <1>1, <1>2 DEF Control, OneConversation, QuitIsFinal, keeperVars
<1>6. Watched'
  BY <1>1 DEF Control, Watched, KeeperKnows, keeperVars
<1>7. QED
  BY <1>3, <1>4, <1>5, <1>6 DEF Control

-----------------------------------------------------------------------------
(* The initial states *)

LEMMA InitIInv == XmppInit => IInv
<1> SUFFICES ASSUME XmppInit PROVE IInv
  OBVIOUS
<1>1. XmppTypeOK
  <2>1. /\ incoming \in [Conversations -> Seq({"message", "pong", "iq"})]
        /\ pongs \in [Conversations -> Seq({"pong", "iq"})]
        /\ \A c \in Conversations : Len(pongs[c]) <= PongsCap
    <3>1. \A S : <<>> \in Seq(S)
      OBVIOUS
    <3>2. QED
      BY <3>1, Bounds DEF XmppInit, XmppInitAt
  <2>2. /\ connOpen \in [Conversations -> BOOLEAN] /\ asked \in [Conversations -> BOOLEAN]
        /\ dispatcher \in [Conversations -> {"none", "read", "notify", "pong", "iq", "dying", "end"}]
        /\ pinger \in [Conversations -> {"none", "idle", "ping", "closing", "dead", "end"}]
    BY DEF XmppInit, XmppInitAt
  <2>3. ix \in 0 .. MaxConns /\ conns \in 0 .. MaxConns /\ inbox \in 0 .. InboxCap
    BY Bounds DEF XmppInit, XmppInitAt
  <2>4. /\ keepAlive \in {"dial", "verify", "await", "select", "end"}
        /\ started \in BOOLEAN /\ listener \in {"off", "on", "end"}
        /\ quitting \in {"no", "manager", "wait", "dead", "timeout"}
        /\ messages \in Nat /\ faults \in Nat
    BY DEF XmppInit, XmppInitAt
  <2>5. QED
    BY <2>1, <2>2, <2>3, <2>4 DEF XmppTypeOK
<1>2. \A c \in Conversations : ~Runs(c)
  BY DEF Runs, XmppInit, XmppInitAt
<1>3. QED
  BY <1>1, <1>2 DEF XmppInit, XmppInitAt, IInv, Control, PairedGoroutines, KeeperKnows, OneConversation, Watched,
     QuitIsFinal

-----------------------------------------------------------------------------
(* keepXMPPAlive *)

LEMMA StartFailsStep == IInv /\ StartFails => IInv'
<1> SUFFICES ASSUME IInv, StartFails PROVE IInv'
  OBVIOUS
<1> USE DEF IInv, StartFails, outerVars
<1>1. XmppTypeOK'
  BY Bounds DEF XmppTypeOK
<1>2. \A c \in Conversations : ~Runs(c) /\ ~Runs(c)'
  BY DEF Control, KeeperKnows, Runs
<1>3. Control'
  BY <1>2 DEF Control, PairedGoroutines, KeeperKnows, OneConversation, Watched, QuitIsFinal
<1>4. QED
  BY <1>1, <1>3

LEMMA StartXMPPStep == IInv /\ StartXMPP => IInv'
<1> SUFFICES ASSUME IInv, StartXMPP PROVE IInv'
  OBVIOUS
<1> USE DEF IInv, StartXMPP, outerVars
<1>1. conns + 1 \in Conversations /\ conns \in Nat /\ conns' \in 0 .. MaxConns
  BY Bounds DEF XmppTypeOK, Conversations
<1>2. XmppTypeOK'
  BY <1>1, Bounds DEF XmppTypeOK
<1>3. \A c \in Conversations : ~Runs(c)
  BY DEF Control, KeeperKnows
<1>4. /\ \A c \in Conversations : dispatcher'[c] = IF c = conns' THEN "read" ELSE dispatcher[c]
      /\ pinger[conns'] = "none"
  BY <1>1 DEF XmppTypeOK, Control, PairedGoroutines
<1>5. PairedGoroutines'
  BY <1>1, <1>4, Bounds DEF Control, PairedGoroutines
<1>6. KeeperKnows' /\ Watched' /\ OneConversation'
  BY <1>1, <1>3, <1>4 DEF KeeperKnows, Watched, OneConversation, Runs
<1>7. QuitIsFinal'
  BY DEF Control, QuitIsFinal
<1>8. QED
  BY <1>2, <1>5, <1>6, <1>7 DEF Control

LEMMA VerifiedStep == IInv /\ Verified => IInv'
<1> SUFFICES ASSUME IInv, Verified PROVE IInv'
  OBVIOUS
<1> USE DEF IInv, Verified, PongFor, outerVars
<1>1. conns \in Conversations /\ pinger[conns] = "none" /\ dispatcher[conns] \notin {"none", "end"}
  BY DEF Control, KeeperKnows
<1>2. pongs[conns] \in Seq({"pong", "iq"}) /\ Len(pongs[conns]) <= PongsCap
  BY <1>1 DEF XmppTypeOK
<1>3. XmppTypeOK'
  <2>1. Tail(pongs[conns]) \in Seq({"pong", "iq"}) /\ Len(Tail(pongs[conns])) <= PongsCap
    BY <1>2, Queues, Bounds
  <2>2. pongs' \in [Conversations -> Seq({"pong", "iq"})] /\ \A c \in Conversations : Len(pongs'[c]) <= PongsCap
    BY <1>1, <2>1 DEF XmppTypeOK
  <2>3. QED
    BY <1>1, <2>2 DEF XmppTypeOK
<1>4. \A c \in Conversations : /\ pinger'[c] = IF c = conns THEN "idle" ELSE pinger[c]
                               /\ Runs(c)' => Runs(c)
  BY <1>1 DEF XmppTypeOK, Runs
<1>5. PairedGoroutines'
  BY <1>1, <1>4, Bounds DEF XmppTypeOK, Control, PairedGoroutines
<1>6. OneConversation' /\ KeeperKnows'
  BY <1>1, <1>4 DEF Control, OneConversation, KeeperKnows
<1>7. Watched' /\ QuitIsFinal'
  <2>1. Watched'
    BY <1>1, <1>4 DEF Watched
  <2>2. quitting # "dead"
    BY DEF Control, QuitIsFinal
  <2>3. QuitIsFinal'
    BY <2>2 DEF QuitIsFinal
  <2>4. QED
    BY <2>1, <2>3
<1>8. QED
  BY <1>3, <1>5, <1>6, <1>7 DEF Control

LEMMA VerifySkipsStep == IInv /\ VerifySkips => IInv'
<1> SUFFICES ASSUME IInv, VerifySkips PROVE IInv'
  OBVIOUS
<1> USE DEF IInv, VerifySkips, PongFor, outerVars, keeperVars
<1>1. conns \in Conversations
  BY DEF Control, KeeperKnows
<1>2. Tail(pongs[conns]) \in Seq({"pong", "iq"}) /\ Len(Tail(pongs[conns])) <= PongsCap
  BY <1>1, Queues, Bounds DEF XmppTypeOK
<1>3. pongs' \in [Conversations -> Seq({"pong", "iq"})] /\ \A c \in Conversations : Len(pongs'[c]) <= PongsCap
  BY <1>1, <1>2 DEF XmppTypeOK
<1>4. XmppTypeOK'
  BY <1>3 DEF XmppTypeOK
<1>5. QED
  BY <1>4, ControlFrame

LEMMA VerifyFailsStep == IInv /\ VerifyFails => IInv'
<1> SUFFICES ASSUME IInv, VerifyFails PROVE IInv'
  OBVIOUS
<1> USE DEF IInv, VerifyFails, outerVars
<1>1. faults' \in Nat
  BY DEF XmppTypeOK, PongTimeout
<1>2. XmppTypeOK'
  BY <1>1 DEF XmppTypeOK
<1>3. \A c \in Conversations : Runs(c)' = Runs(c)
  BY DEF Runs
<1>4. Control'
  BY <1>3 DEF Control, PairedGoroutines, KeeperKnows, OneConversation, Watched, QuitIsFinal
<1>5. QED
  BY <1>2, <1>4

LEMMA AwaitDyingStep == IInv /\ AwaitDying => IInv'
<1> SUFFICES ASSUME IInv, AwaitDying PROVE IInv'
  OBVIOUS
<1> USE DEF IInv, AwaitDying, outerVars
<1>1. XmppTypeOK'
  BY DEF XmppTypeOK
<1>2. conns \in Conversations /\ pinger[conns] = "none"
  BY DEF Control, KeeperKnows
<1>3. \A c \in Conversations : dispatcher'[c] = IF c = conns THEN "end" ELSE dispatcher[c]
  BY DEF XmppTypeOK
<1>4. \A c \in Conversations : ~Runs(c)'
  BY <1>2, <1>3 DEF Control, OneConversation, Runs
<1>5. PairedGoroutines'
  BY <1>2, <1>3, Bounds DEF XmppTypeOK, Control, PairedGoroutines
<1>6. KeeperKnows' /\ OneConversation' /\ Watched' /\ QuitIsFinal'
  BY <1>4 DEF Control, KeeperKnows, OneConversation, Watched, QuitIsFinal
<1>7. QED
  BY <1>1, <1>5, <1>6 DEF Control

LEMMA RestartStep == ASSUME NEW c \in Conversations PROVE IInv /\ Restart(c) => IInv'
<1> SUFFICES ASSUME IInv, Restart(c) PROVE IInv'
  OBVIOUS
<1> USE DEF IInv, Restart, outerVars
<1>1. XmppTypeOK'
  BY DEF XmppTypeOK
<1>2. Runs(c) /\ c = conns /\ dispatcher[c] = "end"
  BY DEF Control, OneConversation, PairedGoroutines, Runs
<1>3. \A d \in Conversations : pinger'[d] = IF d = c THEN "end" ELSE pinger[d]
  BY DEF XmppTypeOK
<1>4. \A d \in Conversations : ~Runs(d)'
  BY <1>2, <1>3 DEF Control, OneConversation, Runs
<1>5. PairedGoroutines'
  BY <1>2, <1>3, Bounds DEF XmppTypeOK, Control, PairedGoroutines
<1>6. quitting # "dead"
  BY <1>2 DEF Control, QuitIsFinal
<1>7. KeeperKnows' /\ OneConversation' /\ Watched' /\ QuitIsFinal'
  BY <1>4, <1>6 DEF KeeperKnows, OneConversation, Watched, QuitIsFinal
<1>8. QED
  BY <1>1, <1>5, <1>7 DEF Control

LEMMA KeepAliveQuitsStep == IInv /\ KeepAliveQuits => IInv'
<1> SUFFICES ASSUME IInv, KeepAliveQuits PROVE IInv'
  OBVIOUS
<1> USE DEF IInv, KeepAliveQuits, outerVars
<1>1. XmppTypeOK'
  BY DEF XmppTypeOK
<1>2. \A c \in Conversations : Runs(c)' = Runs(c)
  BY DEF Runs
<1>3. Control'
  BY <1>2 DEF Control, PairedGoroutines, KeeperKnows, OneConversation, Watched, QuitIsFinal
<1>4. QED
  BY <1>1, <1>3

-----------------------------------------------------------------------------
(* pingPeriodically *)

LEMMA PingSentStep == ASSUME NEW c \in Conversations PROVE IInv /\ PingSent(c) => IInv'
<1> SUFFICES ASSUME IInv, PingSent(c) PROVE IInv'
  OBVIOUS
<1>1. faults' \in Nat /\ asked' \in [Conversations -> BOOLEAN]
  <2>1. /\ faults' = faults \/ faults' = faults + 1
        /\ asked' = asked \/ asked' = [asked EXCEPT ![c] = TRUE]
    BY DEF PingSent
  <2>2. faults' \in Nat
    BY <2>1 DEF IInv, XmppTypeOK
  <2>3. asked' \in [Conversations -> BOOLEAN]
    BY <2>1 DEF IInv, XmppTypeOK
  <2>4. QED
    BY <2>2, <2>3
<1>2. connOpen' \in [Conversations -> BOOLEAN]
  BY DEF IInv, XmppTypeOK, PingSent
<1>3. PICK to \in {"idle", "ping", "closing"} : Pinger(c, to)
  <2>1. Pinger(c, "ping") \/ Pinger(c, "closing")
    BY DEF PingSent
  <2>2. QED
    BY <2>1
<1>4. pinger' \in [Conversations -> {"none", "idle", "ping", "closing", "dead", "end"}]
  BY <1>3 DEF IInv, XmppTypeOK
<1>5. XmppTypeOK'
  BY <1>1, <1>2, <1>4 DEF IInv, XmppTypeOK, PingSent, pingFrame, outerVars, keeperVars
<1>6. pinger[c] \in {"idle", "ping", "closing"} /\ UNCHANGED <<keeperVars, dispatcher, quitting>>
  BY DEF PingSent, pingFrame, outerVars
<1>7. XmppTypeOK /\ Control
  BY DEF IInv
<1>8. Control'
  BY <1>3, <1>6, <1>7, PingerMoves
<1>9. QED
  BY <1>5, <1>8 DEF IInv

LEMMA PongReceivedStep == ASSUME NEW c \in Conversations PROVE IInv /\ PongReceived(c) => IInv'
<1> SUFFICES ASSUME IInv, PongReceived(c) PROVE IInv'
  OBVIOUS
<1>1. Tail(pongs[c]) \in Seq({"pong", "iq"}) /\ Len(Tail(pongs[c])) <= PongsCap
  BY Queues, Bounds DEF IInv, XmppTypeOK, PongReceived, PongFor
<1>2. pongs' \in [Conversations -> Seq({"pong", "iq"})] /\ \A d \in Conversations : Len(pongs'[d]) <= PongsCap
  BY <1>1 DEF IInv, XmppTypeOK, PongReceived
<1>3. pinger' \in [Conversations -> {"none", "idle", "ping", "closing", "dead", "end"}]
  BY DEF IInv, XmppTypeOK, PongReceived
<1>4. XmppTypeOK'
  BY <1>2, <1>3 DEF IInv, XmppTypeOK, PongReceived, pingFrame, outerVars, keeperVars
<1>5. pinger[c] \in {"idle", "ping", "closing"} /\ UNCHANGED <<keeperVars, dispatcher, quitting>>
  BY DEF PongReceived, pingFrame, outerVars
<1>6. XmppTypeOK /\ Control
  BY DEF IInv
<1>7. CASE Pinger(c, "idle")
  <2>1. PICK to \in {"idle", "ping", "closing"} : Pinger(c, to)
    BY <1>7
  <2>2. QED
    BY <1>4, <1>5, <1>6, <2>1, PingerMoves DEF IInv
<1>8. CASE UNCHANGED pinger
  BY <1>4, <1>5, <1>6, <1>8, ControlFrame DEF IInv
<1>9. QED
  BY <1>7, <1>8 DEF PongReceived

LEMMA PingTimeoutStep == ASSUME NEW c \in Conversations PROVE IInv /\ PingTimeout(c) => IInv'
<1> SUFFICES ASSUME IInv, PingTimeout(c) PROVE IInv'
  OBVIOUS
<1> USE DEF IInv, PingTimeout, pingFrame, outerVars, keeperVars
<1>1. faults' \in Nat
  BY DEF XmppTypeOK, PongTimeout
<1>2. XmppTypeOK'
  BY <1>1 DEF XmppTypeOK
<1>3. Control'
  BY PingerMoves
<1>4. QED
  BY <1>2, <1>3

LEMMA DyingStep == ASSUME NEW c \in Conversations PROVE IInv /\ Dying(c) => IInv'
<1> SUFFICES ASSUME IInv, Dying(c) PROVE IInv'
  OBVIOUS
<1> USE DEF IInv, Dying, pingFrame, outerVars, keeperVars
<1>1. XmppTypeOK'
  BY DEF XmppTypeOK
<1>2. Runs(c) /\ Runs(c)'
  BY DEF Runs, XmppTypeOK
<1>3. \A d \in Conversations : /\ dispatcher'[d] = IF d = c THEN "end" ELSE dispatcher[d]
                       /\ pinger'[d] = IF d = c THEN "dead" ELSE pinger[d]
  BY DEF XmppTypeOK
<1>4. PairedGoroutines'
  BY <1>3 DEF Control, PairedGoroutines
<1>5. OneConversation'
  BY <1>2, <1>3 DEF Control, OneConversation, Runs
<1>6. KeeperKnows' /\ Watched' /\ QuitIsFinal'
  <2>1. keepAlive \in {"select", "end"} /\ quitting # "dead"
    BY <1>2 DEF XmppTypeOK, Control, KeeperKnows, OneConversation, QuitIsFinal
  <2>2. QED
    BY <1>3, <2>1 DEF Control, KeeperKnows, Watched, QuitIsFinal
<1>7. QED
  BY <1>1, <1>4, <1>5, <1>6 DEF Control

-----------------------------------------------------------------------------
(* dispatchIncoming *)

LEMMA ReadElementStep == ASSUME NEW c \in Conversations PROVE IInv /\ ReadElement(c) => IInv'
<1> SUFFICES ASSUME IInv, ReadElement(c) PROVE IInv'
  OBVIOUS
<1> USE DEF IInv, ReadElement, dispatchFrame, keeperVars
<1>1. /\ Tail(incoming[c]) \in Seq({"message", "pong", "iq"})
      /\ Head(incoming[c]) \in {"message", "pong", "iq"}
  BY Queues DEF XmppTypeOK
<1> DEFINE to == IF Head(incoming[c]) = "message" THEN "notify" ELSE Head(incoming[c])
<1>2. to \in {"notify", "pong", "iq"}
  BY <1>1
<1>3. Dispatch(c, to)
  OBVIOUS
<1> HIDE DEF to
<1>4. incoming' \in [Conversations -> Seq({"message", "pong", "iq"})]
  BY <1>1 DEF XmppTypeOK
<1>5. XmppTypeOK'
  BY <1>2, <1>3, <1>4 DEF XmppTypeOK
<1>6. Control'
  BY <1>2, <1>3, DispatcherMoves
<1>7. QED
  BY <1>5, <1>6

LEMMA ReadFailsStep == ASSUME NEW c \in Conversations PROVE IInv /\ ReadFails(c) => IInv'
<1> SUFFICES ASSUME IInv, ReadFails(c) PROVE IInv'
  OBVIOUS
<1> USE DEF IInv, ReadFails, dispatchFrame, keeperVars
<1>1. faults' \in Nat
  BY DEF XmppTypeOK
<1>2. XmppTypeOK'
  BY <1>1 DEF XmppTypeOK
<1>3. Control'
  BY DispatcherMoves
<1>4. QED
  BY <1>2, <1>3

LEMMA PassMessageStep == ASSUME NEW c \in Conversations PROVE IInv /\ PassMessage(c) => IInv'
<1> SUFFICES ASSUME IInv, PassMessage(c) PROVE IInv'
  OBVIOUS
<1> USE DEF IInv, PassMessage, dispatchFrame, keeperVars
<1>1. inbox' \in 0 .. InboxCap
  BY Bounds DEF XmppTypeOK
<1>2. XmppTypeOK'
  BY <1>1 DEF XmppTypeOK
<1>3. Control'
  BY DispatcherMoves
<1>4. QED
  BY <1>2, <1>3

LEMMA PassPongStep == ASSUME NEW c \in Conversations PROVE IInv /\ PassPong(c) => IInv'
<1> SUFFICES ASSUME IInv, PassPong(c) PROVE IInv'
  OBVIOUS
<1> USE DEF IInv, PassPong, dispatchFrame, keeperVars
<1>1. /\ Append(pongs[c], dispatcher[c]) \in Seq({"pong", "iq"})
      /\ Len(Append(pongs[c], dispatcher[c])) <= PongsCap
  BY Queues, Bounds DEF XmppTypeOK
<1>2. pongs' \in [Conversations -> Seq({"pong", "iq"})] /\ \A d \in Conversations : Len(pongs'[d]) <= PongsCap
  BY <1>1 DEF XmppTypeOK
<1>3. XmppTypeOK'
  BY <1>2 DEF XmppTypeOK
<1>4. Control'
  BY DispatcherMoves
<1>5. QED
  BY <1>3, <1>4

-----------------------------------------------------------------------------
(* The server and the network *)

LEMMA NetworkStep == ASSUME NEW c \in Conversations PROVE IInv /\ Network(c) => IInv'
<1> SUFFICES ASSUME IInv, Network(c) PROVE IInv'
  OBVIOUS
<1> USE DEF IInv, networkFrame, outerVars, keeperVars
<1>1. UNCHANGED networkFrame
  BY DEF Network, ServerSends, ServerAnswers, StrayIq, ConnectionLost
<1>2. Control'
  BY <1>1, ControlFrame
<1>3. \A x \in {"message", "pong", "iq"} :
        Send(incoming, c, x) => incoming' \in [Conversations -> Seq({"message", "pong", "iq"})]
  <2> SUFFICES ASSUME NEW x \in {"message", "pong", "iq"}, Send(incoming, c, x)
               PROVE  incoming' \in [Conversations -> Seq({"message", "pong", "iq"})]
    OBVIOUS
  <2>1. Append(incoming[c], x) \in Seq({"message", "pong", "iq"})
    BY Queues DEF XmppTypeOK
  <2>2. QED
    BY <2>1 DEF XmppTypeOK
<1>4. CASE ServerSends(c)
  <2>1. incoming' \in [Conversations -> Seq({"message", "pong", "iq"})] /\ messages' \in Nat
    BY <1>3, <1>4 DEF ServerSends, XmppTypeOK
  <2>2. QED
    BY <1>1, <1>2, <1>4, <2>1 DEF ServerSends, XmppTypeOK
<1>5. CASE ServerAnswers(c)
  <2>1. incoming' \in [Conversations -> Seq({"message", "pong", "iq"})] /\ faults' \in Nat
    BY <1>3, <1>5 DEF ServerAnswers, XmppTypeOK
  <2>2. QED
    BY <1>1, <2>1, <1>5, <1>2 DEF ServerAnswers, XmppTypeOK
<1>6. CASE StrayIq(c)
  <2>1. incoming' \in [Conversations -> Seq({"message", "pong", "iq"})] /\ faults' \in Nat
    BY <1>3, <1>6 DEF StrayIq, XmppTypeOK
  <2>2. QED
    BY <1>1, <1>2, <1>6, <2>1 DEF StrayIq, XmppTypeOK
<1>7. CASE ConnectionLost(c)
  BY <1>1, <1>7, <1>2 DEF ConnectionLost, XmppTypeOK
<1>8. XmppTypeOK'
  BY <1>4, <1>5, <1>6, <1>7 DEF Network
<1>9. QED
  BY <1>2, <1>8

-----------------------------------------------------------------------------
(* main and the manager *)

LEMMA QuitReturnsStep == IInv /\ QuitReturns => IInv'
<1> SUFFICES ASSUME IInv, QuitReturns PROVE IInv'
  OBVIOUS
<1> USE DEF IInv, QuitReturns, mainFrame, keeperVars
<1>1. XmppTypeOK'
  BY DEF XmppTypeOK
<1>2. CASE /\ quitting = "wait" /\ quitting' = "dead"
           /\ \E c \in Conversations : pinger[c] = "dead" /\ Pinger(c, "end")
           /\ UNCHANGED <<mainFrame, inbox, listener>>
  <2>1. PICK c \in Conversations : pinger[c] = "dead" /\ Pinger(c, "end")
    BY <1>2
  <2>2. Runs(c) /\ c = conns /\ dispatcher[c] = "end"
    BY <2>1 DEF Control, OneConversation, PairedGoroutines, Runs
  <2>3. \A d \in Conversations : pinger'[d] = IF d = c THEN "end" ELSE pinger[d]
    BY <2>1 DEF XmppTypeOK
  <2>4. \A d \in Conversations : ~Runs(d)'
    BY <1>2, <2>2, <2>3 DEF Control, OneConversation, Runs
  <2>5. PairedGoroutines'
    BY <1>2, <2>2, <2>3, Bounds DEF XmppTypeOK, Control, PairedGoroutines
  <2>6. keepAlive \in {"select", "end"}
    BY <2>1, <2>2 DEF XmppTypeOK, Control, KeeperKnows
  <2>7. KeeperKnows' /\ OneConversation' /\ Watched' /\ QuitIsFinal'
    BY <1>2, <2>4, <2>6 DEF Control, KeeperKnows, OneConversation, Watched, QuitIsFinal
  <2>8. QED
    BY <1>1, <2>5, <2>7 DEF Control
<1>3. CASE quitting = "wait" /\ quitting' = "timeout" /\ UNCHANGED <<mainFrame, pinger, inbox, listener>>
  <2>1. \A c \in Conversations : Runs(c)' = Runs(c)
    BY <1>3 DEF Runs
  <2>2. Control'
    BY <1>3, <2>1 DEF Control, PairedGoroutines, KeeperKnows, OneConversation, Watched, QuitIsFinal
  <2>3. QED
    BY <1>1, <2>2
<1>4. QED
  BY <1>2, <1>3

LEMMA MainStep == IInv /\ Main => IInv'
<1> SUFFICES ASSUME IInv, Main PROVE IInv'
  OBVIOUS
<1>1. CASE ManagerStarts \/ ManagerEnds
  <2>1. XmppTypeOK'
    BY <1>1 DEF IInv, XmppTypeOK, ManagerStarts, ManagerEnds, mainFrame, keeperVars
  <2>2. QED
    BY <1>1, <2>1, ControlFrame DEF IInv, ManagerStarts, ManagerEnds, mainFrame
<1>2. CASE ManagerReceives
  <2>1. inbox' \in 0 .. InboxCap
    BY <1>2, Bounds DEF IInv, XmppTypeOK, ManagerReceives
  <2>2. XmppTypeOK'
    BY <1>2, <2>1 DEF IInv, XmppTypeOK, ManagerReceives, mainFrame, keeperVars
  <2>3. QED
    BY <1>2, <2>2, ControlFrame DEF IInv, ManagerReceives, mainFrame
<1>3. CASE ManagerQuit \/ XmppQuit
  <2> USE DEF IInv, ManagerQuit, XmppQuit, mainFrame, keeperVars
  <2>1. XmppTypeOK'
    BY <1>3 DEF XmppTypeOK
  <2>2. quitting # "dead" /\ quitting' # "dead" /\ \A c \in Conversations : Runs(c)' = Runs(c)
    BY <1>3 DEF Runs
  <2>3. Control'
    BY <1>3, <2>2 DEF Control, PairedGoroutines, KeeperKnows, OneConversation, Watched, QuitIsFinal
  <2>4. QED
    BY <2>1, <2>3
<1>4. CASE QuitReturns
  BY <1>4, QuitReturnsStep
<1>5. QED
  BY <1>1, <1>2, <1>3, <1>4 DEF Main

-----------------------------------------------------------------------------
(* The theorems *)

LEMMA StutterStep == IInv /\ UNCHANGED xmppVars => IInv'
<1> SUFFICES ASSUME IInv, UNCHANGED xmppVars PROVE IInv'
  OBVIOUS
<1>1. XmppTypeOK'
  BY DEF IInv, XmppTypeOK, xmppVars, keeperVars, connVars, outerVars
<1>2. Control'
  BY ControlFrame DEF IInv, xmppVars, connVars, outerVars
<1>3. QED
  BY <1>1, <1>2 DEF IInv

LEMMA NextIInv == IInv /\ [XmppNext]_xmppVars => IInv'
<1> SUFFICES ASSUME IInv, [XmppNext]_xmppVars PROVE IInv'
  OBVIOUS
<1>1. CASE KeepAlive
  BY <1>1, StartXMPPStep, VerifiedStep, VerifySkipsStep, VerifyFailsStep, AwaitDyingStep,
     RestartStep, KeepAliveQuitsStep DEF KeepAlive
<1>2. CASE StartFails
  BY <1>2, StartFailsStep
<1>3. CASE Main
  BY <1>3, MainStep
<1>4. ASSUME NEW c \in Conversations, PingPeriodically(c) PROVE IInv'
  BY <1>4, PingSentStep, PongReceivedStep, PingTimeoutStep, DyingStep DEF PingPeriodically
<1>5. ASSUME NEW c \in Conversations, DispatchIncoming(c) PROVE IInv'
  BY <1>5, ReadElementStep, ReadFailsStep, PassMessageStep, PassPongStep DEF DispatchIncoming
<1>6. ASSUME NEW c \in Conversations, Network(c) PROVE IInv'
  BY <1>6, NetworkStep
<1>7. CASE UNCHANGED xmppVars
  BY <1>7, StutterStep
<1>8. QED
  BY <1>1, <1>2, <1>3, <1>4, <1>5, <1>6, <1>7 DEF XmppNext

\* The invariant holds in every reachable state.
THEOREM Invariance == XmppSpec => []IInv
  BY InitIInv, NextIInv, PTL DEF XmppSpec

\* Every variable of the XMPP client keeps its type: no channel ever holds
\* more than its capacity.
THEOREM TypeCorrectness == XmppSpec => []XmppTypeOK
<1>1. IInv => XmppTypeOK
  BY DEF IInv
<1>2. QED
  BY <1>1, Invariance, PTL

\* keepXMPPAlive never starts a conversation while a goroutine of an older
\* one still runs.
THEOREM OneConversationAlways == XmppSpec => []OneConversation
<1>1. IInv => OneConversation
  BY DEF IInv, Control
<1>2. QED
  BY <1>1, Invariance, PTL

\* The death of the conversation that keepXMPPAlive waits for is not missed:
\* its pinger is there to signal it, or XMPP.Quit has received the signal.
THEOREM WatchedAlways == XmppSpec => []Watched
<1>1. IInv => Watched
  BY DEF IInv, Control
<1>2. QED
  BY <1>1, Invariance, PTL

\* An XMPP.Quit that was told of a death leaves no conversation behind, and
\* none is started after it.
THEOREM QuitIsFinalAlways == XmppSpec => []QuitIsFinal
<1>1. IInv => QuitIsFinal
  BY DEF IInv, Control
<1>2. QED
  BY <1>1, Invariance, PTL
=============================================================================
