----------------------------- MODULE MCCtTable ------------------------------
(* Small instances of CtTable for TLC. *)
EXTENDS CtTable, TLC

CONSTANTS f1, f2

Plain == [op |-> "new", flags |-> {}, orig |-> f1, reply |-> f1, master |-> None,
          attrs |-> {"timeout", "status"}, bad |-> {}, nat |-> FALSE, val |-> 1,
          l3 |-> 2, version |-> FALSE]

\* One flow of each family.
MCFamily == [f \in Flows |-> IF f = f1 THEN 2 ELSE 10]

\* Creating: plain, on top of a master, with tuples of two flows, with NAT, and
\* in all the ways that fail.
CreateRequests ==
  LET create == [Plain EXCEPT !.flags = {"CREATE"}, !.val = 0] IN
  {create,
   [create EXCEPT !.flags = Flags, !.master = f2],
   [create EXCEPT !.master = f2, !.bad = {"master"}],
   [create EXCEPT !.reply = f2, !.master = f2],
   [create EXCEPT !.reply = f2, !.attrs = {"timeout", "labels"}],
   [create EXCEPT !.nat = TRUE, !.bad = {"status", "labels"}],
   [create EXCEPT !.nat = TRUE, !.bad = {"nat"}],
   [create EXCEPT !.attrs = {"status"}],
   [create EXCEPT !.reply = None],
   [create EXCEPT !.bad = {"proto"}],
   [create EXCEPT !.bad = {"parse"}]}

OtherRequests ==
  {[Plain EXCEPT !.val = 0], [Plain EXCEPT !.op = "get"], [Plain EXCEPT !.op = "del"]}

\* Changing, with one attribute that may be refused after another was set.
ChangeRequests ==
  LET flush == [Plain EXCEPT !.op = "del", !.orig = None, !.reply = None, !.attrs = {}] IN
  {[Plain EXCEPT !.flags = {"CREATE"}, !.attrs = {"timeout", "status", "mark"}],
   [Plain EXCEPT !.op = "get", !.orig = None, !.reply = None],
   [Plain EXCEPT !.op = "del"],
   [Plain EXCEPT !.attrs = {"timeout", "seqadj"}, !.bad = {"seqadj"}],
   flush, [flush EXCEPT !.attrs = {"mark"}], [flush EXCEPT !.bad = {"filter"}],
   [flush EXCEPT !.version = TRUE]}

\* Verdicts that set and clear the status, and one with another attribute that is refused.
Verdicts ==
  LET verdict == [Plain EXCEPT !.op = "verdict", !.reply = None] IN
  {[verdict EXCEPT !.attrs = {"status", "mark"}], [verdict EXCEPT !.attrs = {"status"}, !.val = 0],
   [verdict EXCEPT !.attrs = {"labels", "mark"}, !.bad = {"labels"}], [verdict EXCEPT !.bad = {"parse"}]}

\* Entries are interchangeable.
Symmetry == Permutations(Conns)

TableRequests == CreateRequests \cup OtherRequests \cup ChangeRequests \cup Verdicts
=============================================================================
