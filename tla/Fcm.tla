-------------------------------- MODULE Fcm --------------------------------
(***************************************************************************)
(* The client of Firebase Cloud Messaging (fcm/fcm.go): Init gets a token  *)
(* and connects, each connection has a goroutine that reads it, and        *)
(* KeepFcmAlive connects again when a reader reports the end of its        *)
(* connection.  The steps are composed with the program in Connector.      *)
(***************************************************************************)
EXTENDS Naturals, FiniteSets

CONSTANTS
  Conns,         \* bound: connections ever made
  NotesCap       \* capacity of the notifications channel

ASSUME FcmAssumption == IsFiniteSet(Conns) /\ NotesCap \in Nat \ {0}

VARIABLES
  keeper,    \* Init, and then KeepFcmAlive: "off", "token", "connect", "sleep",
             \* "watch", "ended", or "panic"
  byMain,    \* it is still Init, on the goroutine of the program
  token,     \* the cached token: "none", "fresh" or "stale"
  failures,  \* backoff.numErrors
  reader,    \* each connection: "new", "read", "send" or "send last" (a
             \* notification), "report" (its end), "refused", "ended", "panic"
  notes,     \* notifications in the channel
  fcmQuit    \* f.quit is closed

fcmVars == <<keeper, byMain, token, failures, reader, notes, fcmQuit>>

FcmOff ==
  /\ keeper = "off" /\ byMain = FALSE /\ token = "none" /\ failures = 0
  /\ reader = [c \in Conns |-> "new"] /\ notes = 0 /\ fcmQuit = FALSE

\* The process ends.
FcmEnds ==
  /\ keeper' = "off" /\ byMain' = FALSE /\ token' = "none" /\ failures' = 0
  /\ reader' = [c \in Conns |-> "new"] /\ notes' = 0 /\ fcmQuit' = FALSE

FcmStart ==
  /\ keeper = "off"
  /\ keeper' = "token" /\ byMain' = TRUE
  /\ UNCHANGED <<token, failures, reader, notes, fcmQuit>>

-----------------------------------------------------------------------------
(* GetTokenWithRetry and GetToken *)

HaveToken ==
  /\ keeper = "token"
  /\ token' = "fresh" /\ keeper' = "connect"
  /\ UNCHANGED <<byMain, failures, reader, notes, fcmQuit>>

\* retryCount starts at 3 and the loop goes on while it is below 3: the first
\* failure is the last one.
NoToken ==
  /\ keeper = "token" /\ token # "fresh"
  /\ keeper' = "panic"
  /\ UNCHANGED <<byMain, token, failures, reader, notes, fcmQuit>>

TokenExpires ==
  /\ token = "fresh"
  /\ token' = "stale"
  /\ UNCHANGED <<keeper, byMain, failures, reader, notes, fcmQuit>>

-----------------------------------------------------------------------------
(* ConnectToFcm, as Init and KeepFcmAlive call it until there is no error *)

Connected ==
  /\ failures' = 0
  /\ keeper' = "watch" /\ byMain' = FALSE
  /\ UNCHANGED <<token, notes, fcmQuit>>

Connect ==
  /\ keeper = "connect"
  /\ \E c \in Conns :
       reader[c] = "new" /\ reader' = [reader EXCEPT ![c] = "read"]
  /\ Connected

\* Any status but 200 starts no reader, and is no error.
Refused ==
  /\ keeper = "connect"
  /\ \E c \in Conns :
       reader[c] = "new" /\ reader' = [reader EXCEPT ![c] = "refused"]
  /\ Connected

ConnectFails ==
  /\ keeper = "connect"
  /\ failures' = failures + 1
  /\ keeper' = "sleep"
  /\ UNCHANGED <<byMain, token, reader, notes, fcmQuit>>

\* backoff.delay is over; the old token is used again.
Wake ==
  /\ keeper = "sleep"
  /\ keeper' = "connect"
  /\ UNCHANGED <<byMain, token, failures, reader, notes, fcmQuit>>

-----------------------------------------------------------------------------
(* The reader of a connection: GetPrinterID and the channels *)
Reads(c, at) ==
  /\ reader[c] = "read"
  /\ reader' = [reader EXCEPT ![c] = at]
  /\ UNCHANGED <<keeper, byMain, token, failures, notes, fcmQuit>>

\* A printer ID, alone or with the error that ends the connection.
Message(c)  == Reads(c, "send")
LastOne(c)  == Reads(c, "send last")
LostConn(c) == Reads(c, "report")

\* A length that is no number or zero, or JSON of another form: the index of
\* d[0][1] or f[0] is out of range.
Malformed(c) == Reads(c, "panic")

Notify(c) ==
  /\ reader[c] \in {"send", "send last"} /\ notes < NotesCap
  /\ notes' = notes + 1
  /\ reader' = [reader EXCEPT ![c] = IF @ = "send" THEN "read" ELSE "report"]
  /\ UNCHANGED <<keeper, byMain, token, failures, fcmQuit>>

\* Seeded fault: the reader goes on after it has reported the end.
Report_ReadsOn(c) ==
  /\ reader[c] = "report" /\ keeper = "watch"
  /\ reader' = [reader EXCEPT ![c] = "read"]
  /\ keeper' = "token"
  /\ UNCHANGED <<byMain, token, failures, notes, fcmQuit>>

\* dead is unbuffered: KeepFcmAlive receives it and starts over.
Report(c) ==
  /\ reader[c] = "report" /\ keeper = "watch"
  /\ reader' = [reader EXCEPT ![c] = "ended"]
  /\ keeper' = "token"
  /\ UNCHANGED <<byMain, token, failures, notes, fcmQuit>>

-----------------------------------------------------------------------------
\* Quit only closes a channel, which only KeepFcmAlive's select looks at.
FcmQuit == fcmQuit' = TRUE /\ UNCHANGED <<keeper, byMain, token, failures, reader, notes>>

KeeperQuits ==
  /\ keeper = "watch" /\ fcmQuit
  /\ keeper' = "ended"
  /\ UNCHANGED <<byMain, token, failures, reader, notes, fcmQuit>>

\* listenNotifications receives.
NoteReceived ==
  /\ notes > 0 /\ notes' = notes - 1
  /\ UNCHANGED <<keeper, byMain, token, failures, reader, fcmQuit>>

FcmSteps ==
  \/ HaveToken \/ Connect \/ Wake \/ KeeperQuits
  \/ \E c \in Conns : Notify(c) \/ Report(c)

FcmFaults ==
  \/ NoToken \/ TokenExpires \/ ConnectFails \/ Refused
  \/ \E c \in Conns : Message(c) \/ LastOne(c) \/ LostConn(c) \/ Malformed(c)

\* One conversation at a time, and none lost: while KeepFcmAlive connects no
\* reader is left, and while it waits there is exactly one connection whose end
\* it will be told of, unless the server refused the last one, which leaves the
\* connector deaf for good.  (ConnectToFcm, KeepFcmAlive.)
Live == {c \in Conns : reader[c] \notin {"new", "refused", "ended"}}
FcmWatched ==
  /\ keeper \in {"token", "connect", "sleep"} => Live = {}
  /\ keeper = "watch" =>
       Cardinality(Live) + Cardinality({c \in Conns : reader[c] = "refused"}) = 1
=============================================================================
