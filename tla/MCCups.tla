------------------------------- MODULE MCCups -------------------------------
(* Instances of Cups for TLC. *)
EXTENDS Cups

CONSTANTS p1, p2, j, sync

\* One printer whose PPD changes, beside a job; and two printers whose PPDs
\* are fetched at the same time, with one connection between them.
MCConfigs ==
  LET Option(l, ns, js, ch) ==
        [local |-> l, names |-> ns, jobs |-> js, changes |-> ch, faults |-> 1]
  IN  { Option(FALSE, {p1}, {j}, 1), Option(TRUE, {p1}, {}, 1),
        Option(FALSE, {p1, p2}, {}, 0), Option(TRUE, {p1, p2}, {}, 0) }
=============================================================================
