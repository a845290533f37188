--------------------------- MODULE MCPrinterSync ---------------------------
(* Instances of PrinterSync for TLC. *)
EXTENDS PrinterSync

CONSTANTS n1, n2, d1, d2, c1, c2, poll, device

\* The configurations, each with its bounds.
Option(c, p, s, ns, ss, i, f, ch, r) ==
  [cloud |-> c, privet |-> p, share |-> s, names |-> ns, syncers |-> ss,
   ids |-> i, faults |-> f, changes |-> ch, restarts |-> r]

\* Two printers and a restart under one syncer; one printer, which changes
\* twice, under two.
Settles ==
  {Option(c[1], TRUE, c[2], {n1, n2}, {poll}, 5, 1, 2, 1) :
     c \in {<<TRUE, TRUE>>, <<TRUE, FALSE>>, <<FALSE, FALSE>>}}
  \cup {Option(TRUE, FALSE, FALSE, {n1}, {poll, device}, 8, 2, 2, 0)}

CloudOnly  == {Option(TRUE, FALSE, FALSE, {n1}, {poll}, 3, 1, 1, 1)}
CloudLocal == {Option(TRUE, TRUE, FALSE, {n1}, {poll}, 3, 1, 1, 1)}
=============================================================================
