----------------------------- MODULE Connector -----------------------------
(***************************************************************************)
(* The program: the start of both main programs step by step, what they    *)
(* defer, and the shutdown (gcp-cups-connector, gcp-windows-connector); the *)
(* monitor and its socket (monitor/monitor.go); and, while the process     *)
(* runs, the FCM client, the local jobs and the log files.  The socket,    *)
(* the logs and the temporary files that are left outlive the process;     *)
(* everything else starts anew with the next one.                          *)
(***************************************************************************)
EXTENDS Fcm, LocalJobs, LogRoller

CONSTANT
  Configs    \* configurations: [os, cloud, local, fcm, requests, budget], where
             \* requests says whether local clients come, and the budget bounds
             \* what the surroundings may do (clients of the monitor, faults,
             \* signals, starts, rolls of the log)

ASSUME ConnectorAssumption ==
  \A c \in Configs : c.os \in {"unix", "windows"} /\ {c.cloud, c.local, c.fcm} \subseteq BOOLEAN

VARIABLES
  config,
  main,       \* "down", "start", "deaf" (to signals), "wait", "unwind" (a step
              \* has failed) or "quit" (on request)
  todo,       \* the steps of the start that remain
  deferred,   \* the calls main has deferred, last one first
  listening,  \* listenNotifications: "off", "on" or "quit"
  socket,     \* the file of the monitor's socket exists
  loop,       \* Monitor.listen: "off", "select", "stats", "close", "ack", "acked", "ended"
  acceptor,   \* its goroutine: "off", "accept", "hand", "failed" or "ended"
  waiting,    \* clients that wait to be accepted
  budget,     \* what is left of config.budget
  abrupt      \* (history) a process has ended without its deferred calls

mainVars    == <<main, todo, deferred, listening>>
monitorVars == <<socket, loop, acceptor, waiting>>
vars        == <<config, mainVars, monitorVars, budget, abrupt, fcmVars, jobVars, logVars>>

Spend(what) == budget[what] > 0 /\ budget' = [budget EXCEPT ![what] = @ - 1]

-----------------------------------------------------------------------------
(* The start *)

UsesFcm(c) == c.cloud /\ c.fcm

\* The steps that can fail, or that others see, in their order.
Steps(c) ==
  LET Happens(step) == CASE step = "notify"                       -> c.cloud
                         [] step \in {"socket", "cups", "monitor"} -> c.os = "unix"
                         [] step = "privet"                       -> c.os = "unix" /\ c.local
                         [] step = "fcm"                          -> UsesFcm(c)
                         [] OTHER                                 -> TRUE
  IN  SelectSeq(<<"config", "socket", "notify", "cups", "winspool", "privet",
                  "manager", "fcm", "monitor">>,
                LAMBDA step : Happens(step) /\ (step = "winspool" => c.os = "windows"))

\* Seeded fault: the monitor's Quit is not deferred.
Defers_NotMonitor(step) == step \in {"notify", "cups", "privet", "manager"}

Defers(step) == step \in {"notify", "cups", "privet", "manager", "monitor"}

Init ==
  /\ config \in Configs /\ budget = config.budget
  /\ main = "down" /\ todo = <<>> /\ deferred = <<>> /\ listening = "off"
  /\ loop = "off" /\ acceptor = "off" /\ waiting = 0
  /\ FcmOff /\ JobsOff /\ LogsOff
  /\ socket = FALSE /\ abrupt = FALSE

Start ==
  /\ main = "down" /\ Spend("starts")
  /\ main' = "start" /\ todo' = Steps(config)
  /\ UNCHANGED <<config, deferred, listening, monitorVars, abrupt, fcmVars, jobVars, logVars>>

\* The check of the configuration, and of a socket that is already there.
Refuses(step) ==
  \/ step = "config" /\ IF config.os = "windows" THEN config.local \/ ~config.cloud
                                                 ELSE ~config.local /\ ~config.cloud
  \/ step = "socket" /\ socket

Step ==
  /\ main = "start" /\ todo # <<>> /\ ~Refuses(Head(todo)) /\ Head(todo) # "fcm"
  /\ todo' = Tail(todo)
  /\ deferred' = IF Defers(Head(todo)) THEN <<Head(todo)>> \o deferred ELSE deferred
  /\ listening' = IF Head(todo) = "manager" THEN "on" ELSE listening
  /\ IF Head(todo) = "monitor"
     THEN socket' = TRUE /\ loop' = "select" /\ acceptor' = "accept" /\ waiting' = 0
     ELSE UNCHANGED monitorVars
  /\ UNCHANGED <<config, main, budget, abrupt, fcmVars, jobVars, logVars>>

\* f.Init() has no error to return: it goes on until it is connected.
FcmInit ==
  /\ main = "start" /\ todo # <<>> /\ Head(todo) = "fcm"
  /\ IF keeper = "off" THEN FcmStart /\ UNCHANGED todo
                       ELSE ~byMain /\ todo' = Tail(todo) /\ UNCHANGED fcmVars
  /\ UNCHANGED <<config, main, deferred, listening, monitorVars, budget, abrupt, jobVars, logVars>>

StepFails ==
  /\ main = "start" /\ todo # <<>> /\ Head(todo) # "fcm"
  /\ IF Refuses(Head(todo)) THEN UNCHANGED budget ELSE Spend("faults")
  /\ main' = "unwind"
  /\ UNCHANGED <<config, todo, deferred, listening, monitorVars, abrupt, fcmVars, jobVars, logVars>>

\* waitIndefinitely: Notify comes first, then the receive from an unbuffered channel.
Wait ==
  /\ \/ main = "start" /\ todo = <<>> /\ main' = IF config.os = "unix" THEN "deaf" ELSE "wait"
     \/ main = "deaf" /\ main' = "wait"
  /\ UNCHANGED <<config, todo, deferred, listening, monitorVars, budget, abrupt, fcmVars, jobVars, logVars>>

-----------------------------------------------------------------------------
(* The monitor *)
MonitorStep == UNCHANGED <<config, mainVars, abrupt, fcmVars, jobVars, logVars>>

Client ==
  /\ loop \in {"select", "stats"} /\ Spend("clients")
  /\ waiting' = waiting + 1
  /\ UNCHANGED <<socket, loop, acceptor>> /\ MonitorStep

Accept ==
  /\ acceptor = "accept" /\ waiting > 0 /\ loop \in {"select", "stats", "close"}
  /\ acceptor' = "hand" /\ waiting' = waiting - 1
  /\ UNCHANGED <<socket, loop, budget>> /\ MonitorStep

\* An error ends the accepting for good: the goroutine waits for quitReq.
AcceptFails ==
  /\ acceptor = "accept" /\ Spend("faults")
  /\ acceptor' = "failed"
  /\ UNCHANGED <<socket, loop, waiting>> /\ MonitorStep

Closed ==
  /\ acceptor = "accept" /\ loop = "ack"
  /\ acceptor' = "failed"
  /\ UNCHANGED <<socket, loop, waiting, budget>> /\ MonitorStep

Hand ==
  /\ acceptor = "hand" /\ loop = "select"
  /\ acceptor' = "accept" /\ loop' = "stats"
  /\ UNCHANGED <<socket, waiting, budget>> /\ MonitorStep

\* getStats, and its answer or "error".
Stats ==
  /\ loop = "stats" /\ loop' = "select"
  /\ UNCHANGED <<socket, acceptor, waiting, budget>> /\ MonitorStep

\* Seeded fault: quitReq is not buffered.
MonitorCloses_Unbuffered ==
  /\ loop = "close" /\ acceptor = "failed"
  /\ loop' = "ack" /\ socket' = FALSE
  /\ UNCHANGED <<acceptor, waiting, budget>> /\ MonitorStep

\* quitReq <- true, and listener.Close() removes the file.
MonitorCloses ==
  /\ loop = "close"
  /\ loop' = "ack" /\ socket' = FALSE
  /\ UNCHANGED <<acceptor, waiting, budget>> /\ MonitorStep

Acknowledge ==
  /\ acceptor = "failed" /\ loop = "ack"
  /\ acceptor' = "ended" /\ loop' = "acked"
  /\ UNCHANGED <<socket, waiting, budget>> /\ MonitorStep

-----------------------------------------------------------------------------
(* The shutdown *)
Unwinding == main \in {"unwind", "quit"}

\* Monitor.Quit: two rendezvous with the loop.
QuitMonitor ==
  /\ Unwinding /\ deferred # <<>> /\ Head(deferred) = "monitor"
  /\ \/ loop = "select" /\ loop' = "close" /\ UNCHANGED deferred
     \/ loop = "acked" /\ loop' = "ended" /\ deferred' = Tail(deferred)
  /\ UNCHANGED <<config, main, todo, listening, socket, acceptor, waiting, budget, abrupt,
                 fcmVars, jobVars, logVars>>

\* The Quit of another part.  Those of CUPS, Privet and XMPP return here; their
\* own modules say when they do not.
QuitPart ==
  /\ Unwinding /\ deferred # <<>> /\ Head(deferred) # "monitor"
  /\ deferred' = Tail(deferred)
  /\ listening' = IF Head(deferred) = "manager" THEN "quit" ELSE listening
  /\ IF Head(deferred) = "notify" /\ config.fcm THEN FcmQuit ELSE UNCHANGED fcmVars
  /\ UNCHANGED <<config, main, todo, monitorVars, budget, abrupt, jobVars, logVars>>

ProcessEnds ==
  /\ main' = "down" /\ todo' = <<>> /\ deferred' = <<>> /\ listening' = "off"
  /\ loop' = "off" /\ acceptor' = "off" /\ waiting' = 0
  /\ FcmEnds /\ JobsEnd /\ LogsEnd /\ UNCHANGED <<config, socket>>

Returns ==
  /\ Unwinding /\ deferred = <<>>
  /\ ProcessEnds /\ UNCHANGED <<budget, abrupt>>

\* The first signal, or the service manager's Stop.  Before Notify a signal
\* kills; between Notify and the receive it is lost; a second one, or after a
\* Stop 30 seconds, force the exit.
Signal ==
  /\ main \in {"start", "deaf", "wait", "unwind", "quit"} /\ Spend("signals")
  /\ CASE main = "deaf" ->
            UNCHANGED <<config, mainVars, monitorVars, abrupt, fcmVars, jobVars, logVars>>
       [] main = "wait" ->
            /\ main' = "quit"
            /\ UNCHANGED <<config, todo, deferred, listening, monitorVars, abrupt, fcmVars, jobVars, logVars>>
       [] OTHER ->
            (config.os = "unix" \/ main = "quit") /\ ProcessEnds /\ abrupt' = TRUE

\* A panic on the main goroutine runs what it has deferred, one on any other
\* goroutine runs nothing.
Panic ==
  \/ /\ keeper = "panic" /\ byMain /\ main = "start"
     /\ main' = "unwind"
     /\ UNCHANGED <<config, todo, deferred, listening, monitorVars, budget, abrupt, fcmVars, jobVars, logVars>>
  \/ /\ (keeper = "panic" /\ ~byMain) \/ \E c \in Conns : reader[c] = "panic"
     /\ ProcessEnds /\ abrupt' = TRUE /\ UNCHANGED budget

-----------------------------------------------------------------------------
(* What runs beside main *)
Beside == UNCHANGED <<config, mainVars, monitorVars, abrupt>>
Up     == main # "down"

FcmRuns ==
  /\ Up /\ Beside /\ UNCHANGED <<jobVars, logVars>>
  /\ \/ FcmSteps /\ UNCHANGED budget
     \/ FcmFaults /\ Spend("faults")
     \/ listening # "off" /\ NoteReceived /\ UNCHANGED budget

\* NewPrinterManager adds the printers to Privet, and Privet's Quit, which
\* comes after the manager's, ends their HTTP servers.
Serving ==
  /\ \E k \in DOMAIN deferred : deferred[k] = "privet"
  /\ \A k \in DOMAIN todo : todo[k] # "manager"

JobsRun ==
  /\ Up /\ Beside /\ UNCHANGED <<fcmVars, logVars>>
  /\ \/ JobSteps /\ UNCHANGED budget
     \/ listening # "off" /\ JobReceived /\ UNCHANGED budget
     \/ /\ Serving /\ config.requests
        /\ JobRequests \/ PrinterChanges
        /\ UNCHANGED budget

\* Any goroutine's log call; on Windows the event log takes them.
LogRuns ==
  /\ Up /\ config.os = "unix" /\ Beside /\ UNCHANGED <<fcmVars, jobVars>>
  /\ \/ LogSteps /\ UNCHANGED budget
     \/ Write /\ Spend("rolls")
     \/ WriteFails /\ Spend("faults")

\* After Quit listenNotifications' select may take what is ready before it
\* takes the end.
ListenerEnds ==
  /\ listening = "quit" /\ listening' = "off"
  /\ UNCHANGED <<config, main, todo, deferred, monitorVars, budget, abrupt, fcmVars, jobVars, logVars>>

Shutdown  == QuitMonitor \/ QuitPart \/ Returns
Loop      == Stats \/ MonitorCloses
Acceptor  == Accept \/ Closed \/ Hand \/ Acknowledge

Next ==
  \/ Start \/ Step \/ FcmInit \/ StepFails \/ Wait \/ Signal \/ Panic
  \/ Shutdown \/ Loop \/ Acceptor \/ Client \/ AcceptFails
  \/ FcmRuns \/ JobsRun \/ LogRuns \/ ListenerEnds

\* The goroutines of a process go on while they can.
Fairness == WF_vars(Shutdown) /\ WF_vars(Loop) /\ WF_vars(Acceptor)
Spec     == Init /\ [][Next]_vars /\ Fairness

-----------------------------------------------------------------------------
(* Properties *)

\* Outside a monitored process the socket is there only after a process that
\* ended without its deferred calls: every start that fails, every panic of
\* main and every orderly end lets the next process start.  (connector,
\* Monitor.Quit.)
SocketFreed == loop \in {"off", "ended"} /\ socket => abrupt

\* The acceptor waits to hand over a client while the loop waits for the
\* acceptor.
Crossed == loop = "ack" /\ acceptor = "hand"

\* Once the deferred calls have begun the process ends, unless the monitor's
\* two goroutines wait for one another.  (connector, Monitor.listen.)
ShutdownEnds == Unwinding ~> (main = "down" \/ Crossed)
=============================================================================
