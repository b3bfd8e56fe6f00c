---------------------------- MODULE MCDumpTable -----------------------------
(* Small instances of DumpTable for TLC. *)
EXTENDS DumpTable

CONSTANTS c1, c2, c3

\* Three entries in bucket 0, one of them with both directions there.
MCHash == [n \in Nodes |-> IF n.dir = "orig" THEN 0 ELSE IF n.ct = c2 THEN 0 ELSE 1]
\* With one bucket c1 may come first; with two buckets it moves behind the others.
ResizeHash == [n \in Nodes |-> IF n.ct = c1 THEN 1 ELSE 0]
TwoSizes == {1, 2}
=============================================================================
