---------------------------- MODULE MCConnector ----------------------------
(* The program on small instances: one part of it is busy at a time.  The   *)
(* XMPP client shares no variable with the others.                          *)
EXTENDS Connector, Xmpp

Quiet == [clients |-> 0, faults |-> 0, signals |-> 1, starts |-> 1, rolls |-> 0]

Unix(cloud, local, fcm, requests, b) ==
  [os |-> "unix", cloud |-> cloud, local |-> local, fcm |-> fcm,
   requests |-> requests, budget |-> b]

\* The program is never started.
Off == Unix(FALSE, FALSE, FALSE, FALSE, [Quiet EXCEPT !.signals = 0, !.starts = 0])

MCConfigs ==
  LET Busy == [clients |-> 2, faults |-> 2, signals |-> 2, starts |-> 2, rolls |-> 0]
  IN  { Off,
        Unix(TRUE, TRUE, FALSE, FALSE, Busy),
        Unix(FALSE, FALSE, FALSE, FALSE,
             [clients |-> 0, faults |-> 2, signals |-> 3, starts |-> 4, rolls |-> 9]),
        Unix(TRUE, FALSE, TRUE, FALSE, [Busy EXCEPT !.clients = 0, !.faults = 3]),
        Unix(FALSE, TRUE, FALSE, TRUE, Quiet) }
      \cup { [os |-> "windows", cloud |-> TRUE, local |-> local, fcm |-> ~local,
              requests |-> FALSE, budget |-> [Busy EXCEPT !.clients = 0]] : local \in BOOLEAN }

MCInit ==
  /\ Init
  /\ IF config = Off THEN XmppInit ELSE XmppInitAt("end")

MCNext ==
  \/ Next /\ UNCHANGED xmppVars
  \/ XmppNext /\ UNCHANGED vars

MCSpec == MCInit /\ [][MCNext]_<<vars, xmppVars>> /\ Fairness /\ XmppFairness
=============================================================================
