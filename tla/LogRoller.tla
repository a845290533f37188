----------------------------- MODULE LogRoller -----------------------------
(***************************************************************************)
(* The log files of the Unix connector (log/logroller.go): a log call that *)
(* finds no file open rolls what the last log left on the disk, one system *)
(* call after another, and creates the next file.  The files survive the   *)
(* process, which may end between any two of them.                         *)
(***************************************************************************)
EXTENDS Naturals, FiniteSets, FiniteSetsExt

CONSTANTS
  MaxFiles,     \* lr.maxFiles
  MaxPlace      \* bound: the last place a file is ever moved to

ASSUME LogAssumption == {MaxFiles, MaxPlace} \subseteq Nat /\ MaxFiles < MaxPlace

\* Place 0 is lr.fileName and place n + 1 is lr.fileName with the suffix .n, so
\* that a roll moves every file to the next place.
Places == 0 .. MaxPlace

VARIABLES
  disk,      \* the log (counted from 1) at each place, or 0
  newest,    \* the last log that was created
  open,      \* lr.file # nil
  roller,    \* under lr.m: "idle", "roll" or "create"
  pending    \* roll's numbers that have still to be moved

logVars == <<disk, newest, open, roller, pending>>

LogsOff ==
  /\ disk = [p \in Places |-> 0] /\ newest = 0
  /\ open = FALSE /\ roller = "idle" /\ pending = {}

LogsEnd == open' = FALSE /\ roller' = "idle" /\ pending' = {} /\ UNCHANGED <<disk, newest>>

There(p) == disk[p] # 0

\* A call of Write with no file open: there may be nothing to roll.
Write ==
  /\ roller = "idle" /\ ~open
  /\ roller' = IF There(0) THEN "roll" ELSE "create"
  /\ pending' = IF There(0) THEN {p \in Places \ {0} : There(p)} ELSE {}
  /\ UNCHANGED <<disk, newest, open>>

\* The file has more than fileMaxBytes and is closed.
Full ==
  /\ roller = "idle" /\ open
  /\ open' = FALSE
  /\ UNCHANGED <<disk, newest, roller, pending>>

Move(p) == disk' = [disk EXCEPT ![p] = 0, ![p + 1] = disk[p]]

\* Seeded fault: the files are moved in ascending order.
NextFile_Ascending == Min(pending)

NextFile == Max(pending)

\* Of the rolled files the first MaxFiles - 1 stay.
RollOne ==
  /\ roller = "roll" /\ pending # {}
  /\ LET p == NextFile
         i == Cardinality({q \in pending : q < p})
     IN  /\ IF i + 1 >= MaxFiles THEN disk' = [disk EXCEPT ![p] = 0]
                                 ELSE p < MaxPlace /\ Move(p)
         /\ pending' = pending \ {p}
  /\ UNCHANGED <<newest, open, roller>>

RollLast ==
  /\ roller = "roll" /\ pending = {}
  /\ IF MaxFiles > 0 THEN Move(0) ELSE UNCHANGED disk
  /\ roller' = "create"
  /\ UNCHANGED <<newest, open, pending>>

Create ==
  /\ roller = "create"
  /\ newest' = newest + 1
  /\ disk' = [disk EXCEPT ![0] = newest']
  /\ open' = TRUE /\ roller' = "idle"
  /\ UNCHANGED pending

\* A system call fails: Write returns the error, and the next one begins anew.
WriteFails ==
  /\ roller # "idle"
  /\ roller' = "idle" /\ pending' = {}
  /\ UNCHANGED <<disk, newest, open>>

LogSteps == Full \/ RollOne \/ RollLast \/ Create

\* However often a roll is cut short, by an error or by the end of the process:
\* a lower suffix is a later log, no log but the oldest is missing, the last
\* MaxFiles of them are there, and no more than MaxFiles rolled ones.
\* (LogRoller.roll, which "deletes old log files until there are lr.maxFiles or
\* fewer" and leaves the log at lr.fileName out of the count.)
LogsKept ==
  LET kept == {disk[p] : p \in {q \in Places : There(q)}}
  IN  /\ \A p, q \in Places : p < q /\ There(p) /\ There(q) => disk[p] > disk[q]
      /\ \A n \in 1 .. newest : n \in kept \/ \A m \in kept : n < m
      /\ Cardinality(kept) >= IF newest < MaxFiles THEN newest ELSE MaxFiles
      /\ Cardinality({p \in Places \ {0} : There(p)}) <= MaxFiles

\* Config says of LogMaxFiles "Maximum log file quantity": so many log files
\* there are at the most, with the one that is written.
LogFilesLimited == Cardinality({p \in Places : There(p)}) <= MaxFiles
=============================================================================
