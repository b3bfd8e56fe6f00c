----------------------------- MODULE MCTcpTrack -----------------------------
(* Small instances of TcpTrack for TLC. *)
EXTENDS TcpTrack, TLC

CONSTANTS cpu1, cpu2, dump1, ct1

Base == [conn |-> ct1, zone |-> 1, recirc |-> FALSE, l4 |-> "tcp", tcplen |-> 20, doff |-> 5,
         syn |-> FALSE, ack |-> TRUE, fin |-> FALSE, rst |-> FALSE, seq |-> 6, ack_seq |-> 2]

MCSeqMod == 8

\* The ack_seq of a SYN is 0, which the handler does not store.
Syn == [Base EXCEPT !.syn = TRUE, !.ack = FALSE, !.seq = 3, !.ack_seq = 0]
Ack == Base
\* Same numbers as Ack, with a payload of two bytes; its end wraps to 0.
Data == [Base EXCEPT !.tcplen = 22]
Fin == [Base EXCEPT !.fin = TRUE, !.tcplen = 21, !.ack_seq = 5]

LastEndPackets == {Ack, Data}
RacePackets == {Data}
FlowPackets == {Syn, Data, Fin}

RaceTrackerStates == {ESTABLISHED}
FlowTrackerStates == {SYN_SENT}

Infos == {"established"}

Symmetry == Permutations({cpu1, cpu2})

\* No guard and no property of the run reads timeout or the flow key.
FlowView == <<config, use, hashed, lock, tcp, pc, pkt, skb, nfct, retval, locals, dumps,
              committed>>

On == {TCP_TRACK, EXPORT}
Filtered == {TCP_TRACK, ZONE_FILTER, EXPORT}
RaceFlags == {On}
FlowFlags == {Filtered, {ZONE_FILTER}}
OneBound == {1}
Bounds == {1, 5}
=============================================================================
