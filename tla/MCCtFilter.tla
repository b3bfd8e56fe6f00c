----------------------------- MODULE MCCtFilter -----------------------------
(* Small instances of CtFilter for TLC. *)
EXTENDS CtFilter

MCBits == {0}

\* Entries that differ in one address, the protocol, a port, the family, the
\* zone (in both directions or in one) and, with the address, the mark.
TupleOf(a, q) == [f \in TupleFields |-> IF f \in IpFields THEN a ELSE q]

MCEntries ==
  {[l3num |-> l, proto |-> p, orig |-> TupleOf(a, 0), repl |-> TupleOf(a, 1),
    zone |-> z, mark |-> IF a = 0 THEN Bits ELSE {}, status |-> {0}] :
      l \in {4, 6}, p \in {"tcp", "icmp", "sctp"}, a \in Vals,
      z \in {[id |-> 0, dir |-> Dirs], [id |-> 1, dir |-> Dirs], [id |-> 1, dir |-> {"repl"}]}}
=============================================================================
