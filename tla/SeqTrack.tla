------------------------------ MODULE SeqTrack ------------------------------
(***************************************************************************)
(* What the module promises about the sequence numbers it exports: every   *)
(* entry carries one record (last_seq, last_end, last_ack), a tracked      *)
(* segment replaces the record in one indivisible step, and a dump copies  *)
(* the record in one indivisible step.  TcpTrack implements this with the  *)
(* several plain stores of vgw_tcptrack_main and the several plain loads   *)
(* of tcp_to_nlattr, both inside ct->lock.                                 *)
(***************************************************************************)
EXTENDS Integers

CONSTANTS Conns,      \* conntrack entries (struct nf_conn)
          Readers,    \* netlink dumps that export entries
          Segments,   \* TCP segments: records with seq, ack_seq and end
          NoRecord    \* what a dump that has exported nothing holds

VARIABLES rec,        \* the record of each entry
          out         \* what each dump exported last

absVars == <<rec, out>>

ZeroRec == [last_seq |-> 0, last_end |-> 0, last_ack |-> 0]

\* The record after vgw_tcptrack_main: an acknowledgement of 0 is not stored.
Apply(r, s) == [last_seq |-> s.seq,
                last_end |-> s.end,
                last_ack |-> IF s.ack_seq # 0 THEN s.ack_seq ELSE r.last_ack]

\* The record after the kernel's own tracker, which stores all three fields.
KernelApply(s) == [last_seq |-> s.seq, last_end |-> s.end, last_ack |-> s.ack_seq]

Init == /\ rec = [c \in Conns |-> ZeroRec]
        /\ out = [r \in Readers |-> NoRecord]

\* A new entry, allocated zeroed.
Alloc(c) == /\ rec' = [rec EXCEPT ![c] = ZeroRec]
            /\ UNCHANGED out

\* A new entry whose first segment the kernel's tracker recorded.
KernelRecord(c, s) == /\ rec' = [rec EXCEPT ![c] = KernelApply(s)]
                      /\ UNCHANGED out

Record(c, s) == /\ rec' = [rec EXCEPT ![c] = Apply(@, s)]
                /\ UNCHANGED out

Export(r, c) == /\ out' = [out EXCEPT ![r] = rec[c]]
                /\ UNCHANGED rec

Next == \/ \E c \in Conns : Alloc(c)
        \/ \E c \in Conns, s \in Segments : KernelRecord(c, s) \/ Record(c, s)
        \/ \E r \in Readers, c \in Conns : Export(r, c)

Spec == Init /\ [][Next]_absVars
=============================================================================
