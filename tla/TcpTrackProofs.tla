--------------------------- MODULE TcpTrackProofs ---------------------------
(* Theorems about TcpTrack, for every number of CPUs, dumps and entries.    *)
EXTENDS TcpTrack, FiniteSetTheorems, TLAPS

-----------------------------------------------------------------------------
(* The positions of the handlers determine what their locals hold.         *)

\* A CPU that is not idle has a packet; one that works on an entry has it
\* through its skb or through its lookup; an skb is consumed only when
\* ovs_ct_execute failed; a dump between lock and unlock has a message.
ControlInv ==
  /\ \A p \in CPUs :
       /\ pc[p] # "idle" => pkt[p] \in Packets
       /\ pc[p] \in CtLabels => ct[p] \in Conns /\ ct[p] \in {nfct[p], lookup_ct[p]}
       /\ pc[p] \notin CtLabels \cup {"out"} => lookup_ct[p] = None
       /\ pc[p] \in {"idle", "ovs"} => nfct[p] = None
       /\ pc[p] \in MainLabels \cup {"ovs"} => skb[p] = "live"
       /\ pc[p] = "ret" /\ retval[p] = 0 => skb[p] = "live"
  /\ \A r \in Readers :
       /\ rpc[r] # "idle" => rct[r] \in Conns
       /\ rpc[r] = "idle" => rct[r] = None
       /\ rpc[r] = "seq_trk" => msg[r] \in Messages
       /\ rpc[r] = "unlock" => msg[r] \in Messages /\ msg[r].seq_trk \in TcpInfos

LEMMA SegmentEndType ==
  ASSUME NEW k \in Packets
  PROVE  segment_seq_plus_len(k) \in SeqNumbers
<1>1. k \in Packet
  BY PacketsAssumption
<1>2. k.seq + k.tcplen - 4 * k.doff + (IF k.syn THEN 1 ELSE 0) + (IF k.fin THEN 1 ELSE 0) \in Int
  BY <1>1, SeqModAssumption DEF Packet
<1>3. \A i \in Int : i % SeqMod \in 0..(SeqMod-1)
  BY SeqModAssumption
<1> QED
  BY <1>2, <1>3 DEF segment_seq_plus_len, SeqNumbers

LEMMA PacketFields ==
  ASSUME NEW k \in Packets
  PROVE  /\ k.conn \in Conns /\ k.seq \in SeqNumbers /\ k.ack_seq \in SeqNumbers
         /\ k \in Packet
BY PacketsAssumption DEF Packet, SeqNumbers

LEMMA ZeroSeq == 0 \in SeqNumbers
BY SeqModAssumption DEF SeqNumbers

\* Storing a value in one field of ct->proto.tcp.
LEMMA TcpUpdate ==
  ASSUME NEW t \in TcpInfos, NEW s \in TcpStates, NEW n \in SeqNumbers
  PROVE  /\ [t EXCEPT !.state = s] \in TcpInfos
         /\ [t EXCEPT !.last_seq = n] \in TcpInfos
         /\ [t EXCEPT !.last_end = n] \in TcpInfos
         /\ [t EXCEPT !.last_ack = n] \in TcpInfos
         /\ [t EXCEPT !.last_ack = @] \in TcpInfos
BY DEF TcpInfos

LEMMA TypingInit == Init => TypeOK /\ ControlInv
<1> SUFFICES ASSUME Init PROVE TypeOK /\ ControlInv
  OBVIOUS
<1>1. NewTcp(NONE) \in TcpInfos
  BY ZeroSeq DEF NewTcp, TcpInfos, NONE, TcpStates
<1>2. Abs!ZeroRec \in SeqRecords
  BY ZeroSeq DEF Abs!ZeroRec, SeqRecords
<1>3. TypeOK
  <2>1. zone_range \in [1..2 -> Nat] /\ flags \in SUBSET AllFlags
    BY ConfigAssumption DEF Init
  <2>2. /\ use \in [Conns -> Int] /\ hashed \in [Conns -> BOOLEAN]
        /\ lock \in [Conns -> CPUs \cup Readers \cup {None}]
        /\ tcp \in [Conns -> TcpInfos] /\ timeout \in [Conns -> TcpStates]
        /\ committed \in [Conns -> SeqRecords]
    BY <1>1, <1>2 DEF Init, NONE, TcpStates
  <2>3. /\ pc \in [CPUs -> CpuLabels] /\ ctinfo \in [CPUs -> CtInfos]
        /\ skb \in [CPUs -> {"none", "live", "freed"}] /\ retval \in [CPUs -> {0, -1}]
        /\ ct_state \in [CPUs -> SUBSET CtStateBits] /\ new_state \in [CPUs -> TcpStates]
    BY DEF Init, CpuLabels, CtInfos, NONE, TcpStates
  <2> QED
    BY <2>1, <2>2, <2>3 DEF Init, TypeOK
<1>4. ControlInv
  BY DEF Init, ControlInv, MainLabels, CtLabels, LockedLabels
<1> QED BY <1>3, <1>4

LEMMA TypingNext == TypeOK /\ ControlInv /\ [Next]_vars => TypeOK' /\ ControlInv'
<1> SUFFICES ASSUME TypeOK, ControlInv, [Next]_vars PROVE TypeOK' /\ ControlInv'
  OBVIOUS
<1> USE DEF config, entries, args, locals, cpuVars, dumps, Goto
<1>1. ASSUME NEW p \in CPUs, NEW k \in Packets, kretprobe_entry_handler(p, k) PROVE TypeOK' /\ ControlInv'
  <2>1. TypeOK'
    BY <1>1 DEF TypeOK, kretprobe_entry_handler, CpuLabels, MainLabels
  <2>2. ControlInv'
    BY <1>1 DEF TypeOK, ControlInv, kretprobe_entry_handler, MainLabels, CtLabels, LockedLabels
  <2> QED BY <2>1, <2>2
<1>2. ASSUME NEW p \in CPUs, NEW s \in TrackerStates, NEW stores \in BOOLEAN, NEW info \in TrackerInfos, OvsTrack(p, s, stores, info) PROVE TypeOK' /\ ControlInv'
  <2>1. pkt[p] \in Packets /\ pkt[p].conn \in Conns
    BY <1>2, PacketFields DEF ControlInv, OvsTrack
  <2>2. s \in TcpStates /\ info \in CtInfos
    BY <1>2, TrackerAssumption DEF CtInfos
  <2>3. KernelTcp(tcp[pkt[p].conn], s, pkt[p], stores) \in TcpInfos
    BY <1>2, <2>1, <2>2, PacketFields, SegmentEndType, TcpUpdate DEF KernelTcp, TcpInfos, TypeOK
  <2>4. Abs!KernelApply(Segment(pkt[p])) \in SeqRecords
    BY <1>2, <2>1, PacketFields, SegmentEndType DEF Abs!KernelApply, Segment, SeqRecords
  <2>5. ct_state' \in [CPUs -> SUBSET CtStateBits]
    BY <1>2 DEF TypeOK, OvsTrack, OvsReturn, CtStateBits
  <2>6. TypeOK'
    BY <1>2, <2>1, <2>2, <2>3, <2>4, <2>5 DEF TypeOK, OvsTrack, OvsReturn, CpuLabels, MainLabels
  <2>7. ControlInv'
    BY <1>2, <2>1, <2>2, <2>3, <2>4, <2>5 DEF TypeOK, ControlInv, OvsTrack, OvsReturn, MainLabels,
                                              CtLabels, LockedLabels
  <2> QED BY <2>6, <2>7
<1>3. ASSUME NEW p \in CPUs, NEW s \in TrackerStates, NEW commit \in BOOLEAN, OvsNew(p, s, commit) PROVE TypeOK' /\ ControlInv'
  <2>1. pkt[p] \in Packets /\ pkt[p].conn \in Conns
    BY <1>3, PacketFields DEF ControlInv, OvsNew
  <2>2. s \in TcpStates
    BY <1>3, TrackerAssumption
  <2>3. NewTcp(s) \in TcpInfos
    BY <1>3, <2>2, ZeroSeq DEF NewTcp, TcpInfos
  <2>4. Abs!ZeroRec \in SeqRecords
    BY <1>3, ZeroSeq DEF Abs!ZeroRec, SeqRecords
  <2>5. ct_state' \in [CPUs -> SUBSET CtStateBits] /\ ctinfo' \in [CPUs -> CtInfos]
    BY <1>3 DEF TypeOK, OvsNew, OvsReturn, CtStateBits, CtInfos
  <2>6. TypeOK'
    BY <1>3, <2>1, <2>2, <2>3, <2>4, <2>5 DEF TypeOK, OvsNew, OvsReturn, CpuLabels, MainLabels
  <2>7. ControlInv'
    BY <1>3, <2>1, <2>2, <2>3, <2>4, <2>5 DEF TypeOK, ControlInv, OvsNew, OvsReturn, MainLabels,
                                              CtLabels, LockedLabels
  <2> QED BY <2>6, <2>7
<1>4. ASSUME NEW p \in CPUs, OvsInvalid(p) PROVE TypeOK' /\ ControlInv'
  <2>1. ct_state' \in [CPUs -> SUBSET CtStateBits] /\ ctinfo' \in [CPUs -> CtInfos]
    BY <1>4 DEF TypeOK, OvsInvalid, OvsReturn, CtStateBits, CtInfos
  <2>2. TypeOK'
    BY <1>4, <2>1 DEF TypeOK, OvsInvalid, OvsReturn, CpuLabels, MainLabels
  <2>3. ControlInv'
    BY <1>4, <2>1 DEF TypeOK, ControlInv, OvsInvalid, OvsReturn, MainLabels, CtLabels, LockedLabels
  <2> QED BY <2>2, <2>3
<1>5. ASSUME NEW p \in CPUs, OvsUntracked(p) PROVE TypeOK' /\ ControlInv'
  <2>1. ct_state' \in [CPUs -> SUBSET CtStateBits] /\ ctinfo' \in [CPUs -> CtInfos]
    BY <1>5 DEF TypeOK, OvsUntracked, OvsReturn, CtStateBits, CtInfos
  <2>2. TypeOK'
    BY <1>5, <2>1 DEF TypeOK, OvsUntracked, OvsReturn, CpuLabels, MainLabels
  <2>3. ControlInv'
    BY <1>5, <2>1 DEF TypeOK, ControlInv, OvsUntracked, OvsReturn, MainLabels, CtLabels,
                      LockedLabels
  <2> QED BY <2>2, <2>3
<1>6. ASSUME NEW p \in CPUs, OvsFail(p) PROVE TypeOK' /\ ControlInv'
  <2>1. TypeOK'
    BY <1>6 DEF TypeOK, OvsFail, CpuLabels, MainLabels
  <2>2. ControlInv'
    BY <1>6 DEF TypeOK, ControlInv, OvsFail, MainLabels, CtLabels, LockedLabels
  <2> QED BY <2>1, <2>2
<1>7. ASSUME NEW p \in CPUs, kretprobe_return_handler(p) PROVE TypeOK' /\ ControlInv'
  <2>1. TypeOK'
    BY <1>7 DEF TypeOK, kretprobe_return_handler, CpuLabels, MainLabels
  <2>2. ControlInv'
    BY <1>7 DEF TypeOK, ControlInv, kretprobe_return_handler, MainLabels, CtLabels, LockedLabels
  <2> QED BY <2>1, <2>2
<1>8. ASSUME NEW p \in CPUs, CheckPacket(p) PROVE TypeOK' /\ ControlInv'
  <2>1. TypeOK'
    BY <1>8 DEF TypeOK, CheckPacket, CpuLabels, MainLabels
  <2>2. ControlInv'
    BY <1>8 DEF TypeOK, ControlInv, CheckPacket, MainLabels, CtLabels, LockedLabels
  <2> QED BY <2>1, <2>2
<1>9. ASSUME NEW p \in CPUs, get_skb_ct(p) PROVE TypeOK' /\ ControlInv'
  <2>1. TypeOK'
    BY <1>9 DEF TypeOK, get_skb_ct, CpuLabels, MainLabels
  <2>2. ControlInv'
    BY <1>9 DEF TypeOK, ControlInv, get_skb_ct, MainLabels, CtLabels, LockedLabels
  <2> QED BY <2>1, <2>2
<1>10. ASSUME NEW p \in CPUs, lookup_conntrack_by_skb(p) PROVE TypeOK' /\ ControlInv'
  <2>1. pkt[p] \in Packets /\ pkt[p].conn \in Conns
    BY <1>10, PacketFields DEF ControlInv, lookup_conntrack_by_skb
  <2>2. TypeOK'
    BY <1>10, <2>1 DEF TypeOK, lookup_conntrack_by_skb, CpuLabels, MainLabels
  <2>3. ControlInv'
    BY <1>10, <2>1 DEF TypeOK, ControlInv, lookup_conntrack_by_skb, MainLabels, CtLabels,
                       LockedLabels
  <2> QED BY <2>2, <2>3
<1>11. ASSUME NEW p \in CPUs, ChooseState(p) PROVE TypeOK' /\ ControlInv'
  <2>1. WantedState(pkt[p], tcp[ct[p]].state) \in TcpStates \cup {None}
    BY <1>11 DEF WantedState, TcpStates, ESTABLISHED, CLOSE_WAIT, CLOSE
  <2>2. new_state' \in [CPUs -> TcpStates]
    BY <1>11, <2>1 DEF TypeOK, ChooseState, Choose
  <2>3. TypeOK'
    BY <1>11, <2>1, <2>2 DEF TypeOK, ChooseState, Choose, CpuLabels, MainLabels
  <2>4. ControlInv'
    BY <1>11, <2>1, <2>2 DEF TypeOK, ControlInv, ChooseState, Choose, MainLabels, CtLabels,
                             LockedLabels
  <2> QED BY <2>3, <2>4
<1>31. ASSUME NEW p \in CPUs, ChooseSyn(p) PROVE TypeOK' /\ ControlInv'
  <2>1. new_state' \in [CPUs -> TcpStates]
    BY <1>31 DEF TypeOK, ChooseSyn, Choose, TcpStates, SYN_RECV
  <2>2. TypeOK'
    BY <1>31, <2>1 DEF TypeOK, ChooseSyn, Choose, CpuLabels, MainLabels
  <2>3. ControlInv'
    BY <1>31, <2>1 DEF TypeOK, ControlInv, ChooseSyn, Choose, MainLabels, CtLabels, LockedLabels
  <2> QED BY <2>2, <2>3
<1>32. ASSUME NEW p \in CPUs, set_ct_state(p) PROVE TypeOK' /\ ControlInv'
  <2>1. TypeOK'
    BY <1>32 DEF TypeOK, set_ct_state, CpuLabels, MainLabels
  <2>2. ControlInv'
    BY <1>32 DEF TypeOK, ControlInv, set_ct_state, MainLabels, CtLabels, LockedLabels
  <2> QED BY <2>1, <2>2
<1>12. ASSUME NEW p \in CPUs, StoreState(p) PROVE TypeOK' /\ ControlInv'
  <2>1. ct[p] \in Conns /\ new_state[p] \in TcpStates
    BY <1>12 DEF TypeOK, ControlInv, StoreState, CtLabels, MainLabels
  <2>2. [tcp[ct[p]] EXCEPT !.state = new_state[p]] \in TcpInfos
    BY <2>1, TcpUpdate, ZeroSeq DEF TypeOK
  <2>3. tcp' \in [Conns -> TcpInfos]
    BY <1>12, <2>1, <2>2 DEF TypeOK, StoreState
  <2>4. TypeOK'
    BY <1>12, <2>1, <2>2, <2>3 DEF TypeOK, StoreState, CpuLabels, MainLabels
  <2>5. ControlInv'
    BY <1>12, <2>1, <2>2, <2>3 DEF TypeOK, ControlInv, StoreState, MainLabels, CtLabels,
                                   LockedLabels
  <2> QED BY <2>4, <2>5
<1>13. ASSUME NEW p \in CPUs, set_ct_timeout(p) PROVE TypeOK' /\ ControlInv'
  <2>1. TypeOK'
    BY <1>13 DEF TypeOK, set_ct_timeout, CpuLabels, MainLabels
  <2>2. ControlInv'
    BY <1>13 DEF TypeOK, ControlInv, set_ct_timeout, MainLabels, CtLabels, LockedLabels
  <2> QED BY <2>1, <2>2
<1>14. ASSUME NEW p \in CPUs, AdjustCtState(p) PROVE TypeOK' /\ ControlInv'
  <2>1. ct_state' \in [CPUs -> SUBSET CtStateBits]
    BY <1>14 DEF TypeOK, AdjustCtState, CtStateBits
  <2>2. TypeOK'
    BY <1>14, <2>1 DEF TypeOK, AdjustCtState, CpuLabels, MainLabels
  <2>3. ControlInv'
    BY <1>14, <2>1 DEF TypeOK, ControlInv, AdjustCtState, MainLabels, CtLabels, LockedLabels
  <2> QED BY <2>2, <2>3
<1>15. ASSUME NEW p \in CPUs, CheckDuplicate(p) PROVE TypeOK' /\ ControlInv'
  <2>1. TypeOK'
    BY <1>15 DEF TypeOK, CheckDuplicate, CpuLabels, MainLabels
  <2>2. ControlInv'
    BY <1>15 DEF TypeOK, ControlInv, CheckDuplicate, MainLabels, CtLabels, LockedLabels
  <2> QED BY <2>1, <2>2
<1>16. ASSUME NEW p \in CPUs, LockCt(p) PROVE TypeOK' /\ ControlInv'
  <2>1. TypeOK'
    BY <1>16 DEF TypeOK, LockCt, CpuLabels, MainLabels
  <2>2. ControlInv'
    BY <1>16 DEF TypeOK, ControlInv, LockCt, MainLabels, CtLabels, LockedLabels
  <2> QED BY <2>1, <2>2
<1>17. ASSUME NEW p \in CPUs, SetLastSeq(p) PROVE TypeOK' /\ ControlInv'
  <2>1. pkt[p] \in Packets /\ pkt[p].seq \in SeqNumbers
    BY <1>17, PacketFields DEF ControlInv, SetLastSeq, Store
  <2>2. ct[p] \in Conns
    BY <1>17 DEF ControlInv, SetLastSeq, Store, CtLabels, MainLabels
  <2>3. [tcp[ct[p]] EXCEPT !.last_seq = pkt[p].seq] \in TcpInfos
    BY <1>17, <2>1, <2>2, TcpUpdate DEF TypeOK
  <2>4. tcp' \in [Conns -> TcpInfos]
    BY <1>17, <2>2, <2>3 DEF TypeOK, SetLastSeq, Store
  <2>5. TypeOK'
    BY <1>17, <2>1, <2>2, <2>3, <2>4 DEF TypeOK, SetLastSeq, Store, CpuLabels, MainLabels
  <2>6. ControlInv'
    BY <1>17, <2>1, <2>2, <2>3, <2>4 DEF TypeOK, ControlInv, SetLastSeq, Store, MainLabels,
                                         CtLabels, LockedLabels
  <2> QED BY <2>5, <2>6
<1>18. ASSUME NEW p \in CPUs, SetLastEnd(p) PROVE TypeOK' /\ ControlInv'
  <2>1. pkt[p] \in Packets /\ segment_seq_plus_len(pkt[p]) \in SeqNumbers
    BY <1>18, SegmentEndType DEF ControlInv, SetLastEnd, Store
  <2>2. ct[p] \in Conns
    BY <1>18 DEF ControlInv, SetLastEnd, Store, CtLabels, MainLabels
  <2>3. [tcp[ct[p]] EXCEPT !.last_end = segment_seq_plus_len(pkt[p])] \in TcpInfos
    BY <1>18, <2>1, <2>2, TcpUpdate DEF TypeOK
  <2>4. tcp' \in [Conns -> TcpInfos]
    BY <1>18, <2>2, <2>3 DEF TypeOK, SetLastEnd, Store
  <2>5. TypeOK'
    BY <1>18, <2>1, <2>2, <2>3, <2>4 DEF TypeOK, SetLastEnd, Store, CpuLabels, MainLabels
  <2>6. ControlInv'
    BY <1>18, <2>1, <2>2, <2>3, <2>4 DEF TypeOK, ControlInv, SetLastEnd, Store, MainLabels,
                                         CtLabels, LockedLabels
  <2> QED BY <2>5, <2>6
<1>19. ASSUME NEW p \in CPUs, SetLastAck(p) PROVE TypeOK' /\ ControlInv'
  <2>1. pkt[p] \in Packets /\ pkt[p].ack_seq \in SeqNumbers
    BY <1>19, PacketFields DEF ControlInv, SetLastAck, Store
  <2>2. ct[p] \in Conns
    BY <1>19 DEF ControlInv, SetLastAck, Store, CtLabels, MainLabels
  <2>3. [tcp[ct[p]] EXCEPT !.last_ack = IF pkt[p].ack_seq # 0 THEN pkt[p].ack_seq ELSE @] \in TcpInfos
    BY <1>19, <2>1, <2>2, TcpUpdate DEF TypeOK
  <2>4. tcp' \in [Conns -> TcpInfos]
    BY <1>19, <2>2, <2>3 DEF TypeOK, SetLastAck, Store
  <2>5. TypeOK'
    BY <1>19, <2>1, <2>2, <2>3, <2>4 DEF TypeOK, SetLastAck, Store, CpuLabels, MainLabels
  <2>6. ControlInv'
    BY <1>19, <2>1, <2>2, <2>3, <2>4 DEF TypeOK, ControlInv, SetLastAck, Store, MainLabels,
                                         CtLabels, LockedLabels
  <2> QED BY <2>5, <2>6
<1>20. ASSUME NEW p \in CPUs, UnlockCt(p) PROVE TypeOK' /\ ControlInv'
  <2>1. committed' \in [Conns -> SeqRecords]
    BY <1>20 DEF TypeOK, UnlockCt, SeqRecord, SeqRecords, TcpInfos
  <2>2. TypeOK'
    BY <1>20, <2>1 DEF TypeOK, UnlockCt, CpuLabels, MainLabels
  <2>3. ControlInv'
    BY <1>20, <2>1 DEF TypeOK, ControlInv, UnlockCt, MainLabels, CtLabels, LockedLabels
  <2> QED BY <2>2, <2>3
<1>21. ASSUME NEW p \in CPUs, PutLookup(p) PROVE TypeOK' /\ ControlInv'
  <2>1. TypeOK'
    BY <1>21 DEF TypeOK, PutLookup, CpuLabels, MainLabels
  <2>2. ControlInv'
    BY <1>21 DEF TypeOK, ControlInv, PutLookup, MainLabels, CtLabels, LockedLabels
  <2> QED BY <2>1, <2>2
<1>22. ASSUME NEW p \in CPUs, OvsDone(p) PROVE TypeOK' /\ ControlInv'
  <2>1. ct_state' \in [CPUs -> SUBSET CtStateBits] /\ ctinfo' \in [CPUs -> CtInfos]
    BY <1>22 DEF TypeOK, OvsDone, CtStateBits, CtInfos
  <2>2. new_state' \in [CPUs -> TcpStates]
    BY <1>22 DEF TypeOK, OvsDone, NONE, TcpStates
  <2>3. use' \in [Conns -> Int]
    BY <1>22 DEF TypeOK, OvsDone
  <2>4. TypeOK'
    BY <1>22, <2>1, <2>2, <2>3 DEF TypeOK, OvsDone, CpuLabels, MainLabels
  <2>5. ControlInv'
    BY <1>22, <2>1, <2>2, <2>3 DEF TypeOK, ControlInv, OvsDone, MainLabels, CtLabels, LockedLabels
  <2> QED BY <2>4, <2>5
<1>23. ASSUME NEW r \in Readers, NEW c \in Conns, DumpEntry(r, c) PROVE TypeOK' /\ ControlInv'
  <2>1. TypeOK'
    BY <1>23 DEF TypeOK, DumpEntry, CpuLabels, MainLabels
  <2>2. ControlInv'
    BY <1>23 DEF TypeOK, ControlInv, DumpEntry, MainLabels, CtLabels, LockedLabels
  <2> QED BY <2>1, <2>2
<1>24. ASSUME NEW r \in Readers, DumpState(r) PROVE TypeOK' /\ ControlInv'
  <2>1. rct[r] \in Conns
    BY <1>24 DEF ControlInv, DumpState
  <2>2. [state |-> tcp[rct[r]].state, seq_trk |-> None] \in Messages
    BY <1>24, <2>1 DEF TypeOK, Messages, TcpInfos
  <2>3. TypeOK'
    BY <1>24, <2>1, <2>2 DEF TypeOK, DumpState, CpuLabels, MainLabels
  <2>4. ControlInv'
    BY <1>24, <2>1, <2>2 DEF TypeOK, ControlInv, DumpState, MainLabels, CtLabels, LockedLabels
  <2> QED BY <2>3, <2>4
<1>25. ASSUME NEW r \in Readers, DumpSeqTrack(r) PROVE TypeOK' /\ ControlInv'
  <2>1. rct[r] \in Conns /\ msg[r] \in Messages
    BY <1>25 DEF ControlInv, DumpSeqTrack
  <2>2. [msg[r] EXCEPT !.seq_trk = tcp[rct[r]]] \in Messages
    BY <1>25, <2>1 DEF TypeOK, Messages
  <2>3. [msg[r] EXCEPT !.seq_trk = tcp[rct[r]]].seq_trk \in TcpInfos
    BY <1>25, <2>1 DEF TypeOK, Messages
  <2>4. msg' = [msg EXCEPT ![r] = [msg[r] EXCEPT !.seq_trk = tcp[rct[r]]]]
    BY <1>25 DEF DumpSeqTrack
  <2>5. TypeOK'
    BY <1>25, <2>1, <2>2, <2>3, <2>4 DEF TypeOK, DumpSeqTrack, CpuLabels, MainLabels
  <2>6. ControlInv'
    BY <1>25, <2>1, <2>2, <2>3, <2>4 DEF TypeOK, ControlInv, DumpSeqTrack, MainLabels, CtLabels,
                                         LockedLabels
  <2> QED BY <2>5, <2>6
<1>26. ASSUME NEW r \in Readers, DumpDone(r) PROVE TypeOK' /\ ControlInv'
  <2>1. SeqRecord(msg[r].seq_trk) \in SeqRecords
    BY <1>26 DEF ControlInv, DumpDone, SeqRecord, SeqRecords, TcpInfos
  <2>2. TypeOK'
    BY <1>26, <2>1 DEF TypeOK, DumpDone, CpuLabels, MainLabels
  <2>3. ControlInv'
    BY <1>26, <2>1 DEF TypeOK, ControlInv, DumpDone, MainLabels, CtLabels, LockedLabels
  <2> QED BY <2>2, <2>3
<1>27. ASSUME NEW r \in Readers, DumpFail(r) PROVE TypeOK' /\ ControlInv'
  <2>1. TypeOK'
    BY <1>27 DEF TypeOK, DumpFail, CpuLabels, MainLabels
  <2>2. ControlInv'
    BY <1>27 DEF TypeOK, ControlInv, DumpFail, MainLabels, CtLabels, LockedLabels
  <2> QED BY <2>1, <2>2
<1>33. ASSUME NEW r \in Readers, DumpNoRoom(r) PROVE TypeOK' /\ ControlInv'
  <2>1. TypeOK'
    BY <1>33 DEF TypeOK, DumpNoRoom, CpuLabels, MainLabels
  <2>2. ControlInv'
    BY <1>33 DEF TypeOK, ControlInv, DumpNoRoom, MainLabels, CtLabels, LockedLabels
  <2> QED BY <2>1, <2>2
<1>28. ASSUME NEW c \in Conns, DeleteConn(c) PROVE TypeOK' /\ ControlInv'
  <2>1. TypeOK'
    BY <1>28 DEF TypeOK, DeleteConn, CpuLabels, MainLabels
  <2>2. ControlInv'
    BY <1>28 DEF TypeOK, ControlInv, DeleteConn, MainLabels, CtLabels, LockedLabels
  <2> QED BY <2>1, <2>2
<1>29. ASSUME NEW f \in FlagSets, WriteFlags(f) PROVE TypeOK' /\ ControlInv'
  <2>1. f \in SUBSET AllFlags
    BY <1>29, ConfigAssumption
  <2>2. TypeOK'
    BY <1>29, <2>1 DEF TypeOK, WriteFlags, CpuLabels, MainLabels
  <2>3. ControlInv'
    BY <1>29, <2>1 DEF TypeOK, ControlInv, WriteFlags, MainLabels, CtLabels, LockedLabels
  <2> QED BY <2>2, <2>3
<1>30. ASSUME NEW i \in 1..2, NEW v \in ZoneBounds, WriteZoneRange(i, v) PROVE TypeOK' /\ ControlInv'
  <2>1. v \in Nat
    BY <1>30, ConfigAssumption
  <2>2. TypeOK'
    BY <1>30, <2>1 DEF TypeOK, WriteZoneRange, CpuLabels, MainLabels
  <2>3. ControlInv'
    BY <1>30, <2>1 DEF TypeOK, ControlInv, WriteZoneRange, MainLabels, CtLabels, LockedLabels
  <2> QED BY <2>2, <2>3
<1>100. CASE UNCHANGED vars
  BY <1>100 DEF vars, TypeOK, ControlInv
<1> QED
  BY <1>1, <1>2, <1>3, <1>4, <1>5, <1>6, <1>7, <1>8, <1>9, <1>10, <1>11, <1>12, <1>13, <1>14, <1>15, <1>16, <1>17, <1>18, <1>19, <1>20, <1>21, <1>22, <1>23, <1>24, <1>25, <1>26, <1>27, <1>28, <1>29, <1>30, <1>31, <1>32, <1>33, <1>100 DEF Next, Ovs, Handler, Dump

\* Every variable keeps its type: in particular a handler works on an entry,
\* never on NULL, at every position that dereferences ct (vgw_tcptrack_main).
THEOREM Typing == Spec => [](TypeOK /\ ControlInv)
<1>1. Init => TypeOK /\ ControlInv
  BY TypingInit
<1>2. TypeOK /\ ControlInv /\ [Next]_vars => TypeOK' /\ ControlInv'
  BY TypingNext
<1> QED
  BY <1>1, <1>2, PTL DEF Spec
-----------------------------------------------------------------------------
(* References.                                                             *)

Holders(f, c) == {q \in CPUs : f[q] = c}

\* The entry that a dump is at stays in the table: the dump has the bucket lock.
DumpedIsHashed == \A r \in Readers : rpc[r] # "idle" => hashed[rct[r]]

RefInv == RefCount /\ DumpedIsHashed

LEMMA HoldersFinite ==
  ASSUME NEW f, NEW c
  PROVE  IsFiniteSet(Holders(f, c)) /\ Cardinality(Holders(f, c)) \in Nat
<1>1. IsFiniteSet(Holders(f, c))
  BY FS_Subset, ProcessAssumption DEF Holders
<1> QED
  BY <1>1, FS_CardinalityType

\* The holders of c when CPU p gets another pointer: f before, g after.
UnitMoved(f, g, p, c) ==
  /\ f[p] = c /\ g[p] # c => Cardinality(Holders(g, c)) = Cardinality(Holders(f, c)) - 1
  /\ f[p] # c /\ g[p] = c => Cardinality(Holders(g, c)) = Cardinality(Holders(f, c)) + 1
  /\ (f[p] = c <=> g[p] = c) => Cardinality(Holders(g, c)) = Cardinality(Holders(f, c))

LEMMA HoldersMove ==
  ASSUME NEW f, NEW g, NEW p \in CPUs, NEW c \in Conns, \A q \in CPUs : q # p => g[q] = f[q]
  PROVE  UnitMoved(f, g, p, c)
<1>1. IsFiniteSet(Holders(f, c))
  BY HoldersFinite
<1>2. CASE f[p] = c <=> g[p] = c
  <2>1. Holders(g, c) = Holders(f, c)
    BY <1>2 DEF Holders
  <2> QED BY <1>2, <2>1 DEF UnitMoved
<1>3. CASE f[p] = c /\ g[p] # c
  <2>1. Holders(g, c) = Holders(f, c) \ {p} /\ p \in Holders(f, c)
    BY <1>3 DEF Holders
  <2>2. Cardinality(Holders(f, c) \ {p}) = Cardinality(Holders(f, c)) - 1
    BY <1>1, <2>1, FS_RemoveElement
  <2> QED BY <1>3, <2>1, <2>2 DEF UnitMoved
<1>4. CASE f[p] # c /\ g[p] = c
  <2>1. Holders(g, c) = Holders(f, c) \cup {p} /\ p \notin Holders(f, c)
    BY <1>4 DEF Holders
  <2>2. Cardinality(Holders(f, c) \cup {p}) = Cardinality(Holders(f, c)) + 1
    BY <1>1, <2>1, FS_AddElement
  <2> QED BY <1>4, <2>1, <2>2 DEF UnitMoved
<1> QED BY <1>2, <1>3, <1>4

\* An entry that somebody points to, or that is in the table, is not free.
LEMMA HeldIsUsed ==
  ASSUME TypeOK, RefCount, NEW c \in Conns
  PROVE  /\ use[c] \in Nat
         /\ hashed[c] => use[c] > 0
         /\ \A p \in CPUs : nfct[p] = c \/ lookup_ct[p] = c => use[c] > 0
<1>1. use[c] = (IF hashed[c] THEN 1 ELSE 0) + Cardinality(Holders(nfct, c))
                 + Cardinality(Holders(lookup_ct, c))
  BY DEF RefCount, Holders
<1>2. Cardinality(Holders(nfct, c)) \in Nat /\ Cardinality(Holders(lookup_ct, c)) \in Nat
  BY HoldersFinite
<1>3. ASSUME NEW f, NEW p \in CPUs, f[p] = c PROVE Cardinality(Holders(f, c)) # 0
  <2>1. p \in Holders(f, c)
    BY <1>3 DEF Holders
  <2> QED BY <2>1, HoldersFinite, FS_EmptySet
<1>4. hashed[c] \in BOOLEAN
  BY DEF TypeOK
<1>5. use[c] \in Nat /\ (hashed[c] => use[c] > 0)
  BY <1>1, <1>2, <1>4
<1>6. ASSUME NEW p \in CPUs, nfct[p] = c \/ lookup_ct[p] = c PROVE use[c] > 0
  <2>1. Cardinality(Holders(nfct, c)) # 0 \/ Cardinality(Holders(lookup_ct, c)) # 0
    BY <1>3, <1>6
  <2> QED BY <1>1, <1>2, <1>4, <2>1
<1> QED BY <1>5, <1>6

LEMMA RefInit == Init => RefInv
<1> SUFFICES ASSUME Init PROVE RefInv
  OBVIOUS
<1>1. \A c \in Conns : {p \in CPUs : nfct[p] = c} = {} /\ {p \in CPUs : lookup_ct[p] = c} = {}
  BY ProcessAssumption DEF Init
<1>2. Cardinality({}) = 0
  BY FS_EmptySet
<1>3. RefCount
  <2> SUFFICES ASSUME NEW c \in Conns
               PROVE  use[c] = (IF hashed[c] THEN 1 ELSE 0) + Cardinality({p \in CPUs : nfct[p] = c})
                                 + Cardinality({p \in CPUs : lookup_ct[p] = c})
    BY DEF RefCount
  <2>1. Cardinality({p \in CPUs : nfct[p] = c}) = 0 /\ Cardinality({p \in CPUs : lookup_ct[p] = c}) = 0
    BY <1>1, <1>2
  <2>2. use[c] = 0 /\ ~hashed[c]
    BY DEF Init
  <2> QED BY <2>1, <2>2
<1> QED
  BY <1>3 DEF Init, RefInv, DumpedIsHashed

LEMMA RefNext == TypeOK /\ ControlInv /\ RefInv /\ [Next]_vars => RefInv'
<1> SUFFICES ASSUME TypeOK, ControlInv, RefInv, [Next]_vars PROVE RefInv'
  OBVIOUS
<1> USE DEF config, entries, args, locals, cpuVars, dumps, Goto
<1> DEFINE Count(h, f, g, c) == (IF h[c] THEN 1 ELSE 0) + Cardinality(Holders(f, c))
                                  + Cardinality(Holders(g, c))
<1>a. RefCount <=> \A c \in Conns : use[c] = Count(hashed, nfct, lookup_ct, c)
  BY DEF RefCount, Holders
<1>b. RefCount' <=> \A c \in Conns : use'[c] = Count(hashed', nfct', lookup_ct', c)
  BY DEF RefCount, Holders
<1>c. \A f, c : Cardinality(Holders(f, c)) \in Nat
  BY HoldersFinite
<1>d. \A c \in Conns : use[c] \in Int /\ hashed[c] \in BOOLEAN /\ c # None
  BY ProcessAssumption DEF TypeOK
<1>e. /\ nfct \in [CPUs -> Conns \cup {None}] /\ lookup_ct \in [CPUs -> Conns \cup {None}]
      /\ use \in [Conns -> Int] /\ hashed \in [Conns -> BOOLEAN]
  BY DEF TypeOK
<1>f. ASSUME UNCHANGED <<use, hashed, nfct, lookup_ct>> PROVE RefCount'
  BY <1>f, <1>a, <1>b DEF RefInv
<1>g. ASSUME UNCHANGED <<hashed, rpc, rct>> PROVE DumpedIsHashed'
  BY <1>g DEF RefInv, DumpedIsHashed
<1>1. ASSUME NEW p \in CPUs, NEW s \in TrackerStates, NEW stores \in BOOLEAN, NEW info \in TrackerInfos,
             OvsTrack(p, s, stores, info)
      PROVE  RefInv'
  <2> DEFINE c == pkt[p].conn
  <2>1. c \in Conns /\ nfct[p] = None
    BY <1>1, PacketFields DEF ControlInv, OvsTrack
  <2>2. nfct' = [nfct EXCEPT ![p] = c] /\ use' = [use EXCEPT ![c] = @ + 1]
        /\ UNCHANGED <<hashed, lookup_ct, rpc, rct>>
    BY <1>1 DEF OvsTrack, OvsReturn
  <2>3. \A d \in Conns : Cardinality(Holders(nfct', d)) = Cardinality(Holders(nfct, d))
                                                          + (IF c = d THEN 1 ELSE 0)
    <3> TAKE d \in Conns
    <3>1. (\A q \in CPUs : q # p => nfct'[q] = nfct[q]) /\ nfct'[p] = c
      BY <2>2, <1>e
    <3>2. UnitMoved(nfct, nfct', p, d)
      BY <3>1, HoldersMove
    <3> QED BY <2>1, <2>2, <3>1, <3>2, <1>c, <1>d DEF UnitMoved
  <2> HIDE DEF c
  <2>4. RefCount'
    <3> SUFFICES ASSUME NEW d \in Conns PROVE use'[d] = Count(hashed', nfct', lookup_ct', d)
      BY <1>b
    <3>1. use[d] = Count(hashed, nfct, lookup_ct, d) /\ use[d] \in Int
      BY <1>a, <1>d DEF RefInv
    <3>2. Cardinality(Holders(nfct, d)) \in Nat /\ Cardinality(Holders(lookup_ct, d)) \in Nat
      BY <1>c
    <3>3. use'[d] = use[d] + (IF c = d THEN 1 ELSE 0)
      BY <2>1, <2>2, <1>e
    <3>4. Cardinality(Holders(nfct', d)) = Cardinality(Holders(nfct, d)) + (IF c = d THEN 1 ELSE 0)
      BY <2>3
    <3>5. hashed' = hashed /\ lookup_ct' = lookup_ct
      BY <2>2
    <3> QED BY <3>1, <3>2, <3>3, <3>4, <3>5
  <2> QED BY <2>2, <2>4, <1>g DEF RefInv
<1>2. ASSUME NEW p \in CPUs, NEW s \in TrackerStates, NEW commit \in BOOLEAN, OvsNew(p, s, commit)
      PROVE  RefInv'
  <2> DEFINE c == pkt[p].conn
  <2>1. c \in Conns /\ nfct[p] = None
    BY <1>2, PacketFields DEF ControlInv, OvsNew
  <2>2. /\ use[c] = 0
        /\ nfct' = [nfct EXCEPT ![p] = c]
        /\ use' = [use EXCEPT ![c] = IF commit THEN 2 ELSE 1]
        /\ hashed' = [hashed EXCEPT ![c] = commit]
        /\ UNCHANGED <<lookup_ct, rpc, rct>>
    BY <1>2 DEF OvsNew, OvsReturn
  <2>3. \A d \in Conns : Cardinality(Holders(nfct', d)) = Cardinality(Holders(nfct, d))
                                                          + (IF c = d THEN 1 ELSE 0)
    <3> TAKE d \in Conns
    <3>1. (\A q \in CPUs : q # p => nfct'[q] = nfct[q]) /\ nfct'[p] = c
      BY <2>2, <1>e
    <3>2. UnitMoved(nfct, nfct', p, d)
      BY <3>1, HoldersMove
    <3> QED BY <2>1, <2>2, <3>1, <3>2, <1>c, <1>d DEF UnitMoved
  <2>4. ~hashed[c]
    BY <2>1, <2>2, HeldIsUsed DEF RefInv
  <2>5. DumpedIsHashed'
    BY <2>2, <2>4, <1>e DEF RefInv, DumpedIsHashed, ControlInv
  <2> HIDE DEF c
  <2>6. Cardinality(Holders(nfct, c)) = 0 /\ Cardinality(Holders(lookup_ct, c)) = 0
    BY <2>1, <2>2, <1>a, <1>c, <1>d DEF RefInv
  <2>7. RefCount'
    <3> SUFFICES ASSUME NEW d \in Conns PROVE use'[d] = Count(hashed', nfct', lookup_ct', d)
      BY <1>b
    <3>1. use[d] = Count(hashed, nfct, lookup_ct, d) /\ use[d] \in Int
      BY <1>a, <1>d DEF RefInv
    <3>2. Cardinality(Holders(nfct, d)) \in Nat /\ Cardinality(Holders(lookup_ct, d)) \in Nat
      BY <1>c
    <3>3. /\ use'[d] = IF c = d THEN IF commit THEN 2 ELSE 1 ELSE use[d]
         /\ hashed'[d] = IF c = d THEN commit ELSE hashed[d]
      BY <2>1, <2>2, <1>e
    <3>4. Cardinality(Holders(nfct', d)) = Cardinality(Holders(nfct, d)) + (IF c = d THEN 1 ELSE 0)
      BY <2>3
    <3>5. lookup_ct' = lookup_ct
      BY <2>2
    <3>6. CASE c = d
      BY <3>3, <3>4, <3>5, <3>6, <2>6
    <3>7. CASE c # d
      BY <3>1, <3>2, <3>3, <3>4, <3>5, <3>7
    <3> QED BY <3>6, <3>7
  <2> QED BY <2>5, <2>7 DEF RefInv
<1>3. ASSUME NEW p \in CPUs, lookup_conntrack_by_skb(p) PROVE RefInv'
  <2> DEFINE c == pkt[p].conn
  <2>1. c \in Conns /\ lookup_ct[p] = None
    BY <1>3, PacketFields DEF ControlInv, lookup_conntrack_by_skb, CtLabels
  <2>2. UNCHANGED <<hashed, nfct, rpc, rct>>
    BY <1>3 DEF lookup_conntrack_by_skb
  <2>3. CASE UNCHANGED <<lookup_ct, use>>
    BY <2>2, <2>3, <1>f, <1>g DEF RefInv
  <2>4. CASE lookup_ct' = [lookup_ct EXCEPT ![p] = c] /\ use' = [use EXCEPT ![c] = @ + 1]
    <3>1. \A d \in Conns : Cardinality(Holders(lookup_ct', d)) = Cardinality(Holders(lookup_ct, d))
                                                                 + (IF c = d THEN 1 ELSE 0)
      <4> TAKE d \in Conns
      <4>1. (\A q \in CPUs : q # p => lookup_ct'[q] = lookup_ct[q]) /\ lookup_ct'[p] = c
        BY <2>4, <1>e
      <4>2. UnitMoved(lookup_ct, lookup_ct', p, d)
        BY <4>1, HoldersMove
      <4> QED BY <2>1, <2>4, <4>1, <4>2, <1>c, <1>d DEF UnitMoved
    <3> HIDE DEF c
    <3>2. RefCount'
      <4> SUFFICES ASSUME NEW d \in Conns PROVE use'[d] = Count(hashed', nfct', lookup_ct', d)
        BY <1>b
      <4>1. use[d] = Count(hashed, nfct, lookup_ct, d) /\ use[d] \in Int
        BY <1>a, <1>d DEF RefInv
      <4>2. Cardinality(Holders(nfct, d)) \in Nat /\ Cardinality(Holders(lookup_ct, d)) \in Nat
        BY <1>c
      <4>3. use'[d] = use[d] + (IF c = d THEN 1 ELSE 0)
        BY <2>1, <2>4, <1>e
      <4> QED BY <4>1, <4>2, <4>3, <2>2, <3>1
    <3> QED BY <2>2, <3>2, <1>g DEF RefInv
  <2> QED BY <1>3, <2>3, <2>4 DEF lookup_conntrack_by_skb
<1>4. ASSUME NEW p \in CPUs, PutLookup(p) PROVE RefInv'
  <2> DEFINE c == lookup_ct[p]
  <2>1. UNCHANGED <<hashed, nfct, rpc, rct>>
    BY <1>4 DEF PutLookup
  <2>2. CASE c = None
    BY <1>4, <2>1, <2>2, <1>f, <1>g DEF RefInv, PutLookup
  <2>3. CASE c # None
    <3>1. c \in Conns /\ lookup_ct' = [lookup_ct EXCEPT ![p] = None]
          /\ use' = [use EXCEPT ![c] = @ - 1]
      BY <1>4, <2>3, <1>e DEF PutLookup
    <3>2. \A d \in Conns : Cardinality(Holders(lookup_ct', d)) = Cardinality(Holders(lookup_ct, d))
                                                                 - (IF c = d THEN 1 ELSE 0)
      <4> TAKE d \in Conns
      <4>1. (\A q \in CPUs : q # p => lookup_ct'[q] = lookup_ct[q]) /\ lookup_ct'[p] = None
        BY <3>1, <1>e
      <4>2. UnitMoved(lookup_ct, lookup_ct', p, d)
        BY <4>1, HoldersMove
      <4> QED BY <3>1, <4>1, <4>2, <1>c, <1>d DEF UnitMoved
    <3> HIDE DEF c
    <3>3. RefCount'
      <4> SUFFICES ASSUME NEW d \in Conns PROVE use'[d] = Count(hashed', nfct', lookup_ct', d)
        BY <1>b
      <4>1. use[d] = Count(hashed, nfct, lookup_ct, d) /\ use[d] \in Int
        BY <1>a, <1>d DEF RefInv
      <4>2. Cardinality(Holders(nfct, d)) \in Nat /\ Cardinality(Holders(lookup_ct, d)) \in Nat
        BY <1>c
      <4>3. use'[d] = use[d] - (IF c = d THEN 1 ELSE 0)
        BY <3>1, <1>e
      <4> QED BY <4>1, <4>2, <4>3, <2>1, <3>2
    <3> QED BY <2>1, <3>3, <1>g DEF RefInv
  <2> QED BY <2>2, <2>3
<1>5. ASSUME NEW p \in CPUs, OvsDone(p) PROVE RefInv'
  <2> DEFINE c == nfct[p]
  <2>1. nfct' = [nfct EXCEPT ![p] = None] /\ UNCHANGED <<hashed, lookup_ct, rpc, rct>>
    BY <1>5 DEF OvsDone
  <2>2. use' = IF c # None THEN [use EXCEPT ![c] = @ - 1] ELSE use
    BY <1>5 DEF OvsDone
  <2>3. \A d \in Conns : Cardinality(Holders(nfct', d)) = Cardinality(Holders(nfct, d))
                                                          - (IF c = d THEN 1 ELSE 0)
    <3> TAKE d \in Conns
    <3>1. (\A q \in CPUs : q # p => nfct'[q] = nfct[q]) /\ nfct'[p] = None
      BY <2>1, <1>e
    <3>2. UnitMoved(nfct, nfct', p, d)
      BY <3>1, HoldersMove
    <3> QED BY <2>1, <3>1, <3>2, <1>c, <1>d DEF UnitMoved
  <2>4. c \in Conns \cup {None}
    BY <1>e
  <2> HIDE DEF c
  <2>5. RefCount'
    <3> SUFFICES ASSUME NEW d \in Conns PROVE use'[d] = Count(hashed', nfct', lookup_ct', d)
      BY <1>b
    <3>1. use[d] = Count(hashed, nfct, lookup_ct, d) /\ use[d] \in Int
      BY <1>a, <1>d DEF RefInv
    <3>2. Cardinality(Holders(nfct, d)) \in Nat /\ Cardinality(Holders(lookup_ct, d)) \in Nat
      BY <1>c
    <3>3. use'[d] = use[d] - (IF c = d THEN 1 ELSE 0)
      BY <2>2, <2>4, <1>d, <1>e
    <3>4. Cardinality(Holders(nfct', d)) = Cardinality(Holders(nfct, d)) - (IF c = d THEN 1 ELSE 0)
      BY <2>3
    <3>5. hashed' = hashed /\ lookup_ct' = lookup_ct
      BY <2>1
    <3> QED BY <3>1, <3>2, <3>3, <3>4, <3>5
  <2> QED BY <2>1, <2>5, <1>g DEF RefInv
<1>6. ASSUME NEW c \in Conns, DeleteConn(c) PROVE RefInv'
  <2>1. hashed[c] /\ hashed' = [hashed EXCEPT ![c] = FALSE] /\ use' = [use EXCEPT ![c] = @ - 1]
        /\ UNCHANGED <<nfct, lookup_ct, rpc, rct>> /\ \A r \in Readers : rct[r] # c
    BY <1>6 DEF DeleteConn
  <2>2. RefCount'
    BY <2>1, <1>a, <1>b, <1>c, <1>d, <1>e DEF RefInv
  <2>3. DumpedIsHashed'
    BY <2>1, <1>e DEF RefInv, DumpedIsHashed, ControlInv
  <2> QED BY <2>2, <2>3 DEF RefInv
<1>7. ASSUME NEW r \in Readers, Dump(r) \/ DumpNoRoom(r) \/ \E c \in Conns : DumpEntry(r, c)
      PROVE  RefInv'
  <2>1. UNCHANGED <<use, hashed, nfct, lookup_ct>>
    BY <1>7 DEF Dump, DumpEntry, DumpNoRoom, DumpState, DumpSeqTrack, DumpDone, DumpFail
  <2>2. DumpedIsHashed'
    BY <1>7, <2>1 DEF RefInv, DumpedIsHashed, ControlInv, TypeOK,
                      Dump, DumpEntry, DumpNoRoom, DumpState, DumpSeqTrack, DumpDone, DumpFail
  <2> QED BY <2>1, <2>2, <1>f DEF RefInv
<1>8. ASSUME NEW p \in CPUs, get_skb_ct(p) PROVE RefInv'
  BY <1>8, <1>f, <1>g DEF RefInv, get_skb_ct
<1>9. ASSUME NEW p \in CPUs, (\E k \in Packets : kretprobe_entry_handler(p, k)) \/ OvsFail(p)
                               \/ kretprobe_return_handler(p) \/ CheckPacket(p)
      PROVE  RefInv'
  BY <1>9, <1>f, <1>g DEF RefInv, kretprobe_entry_handler, OvsFail, kretprobe_return_handler,
                          CheckPacket
<1>10. ASSUME NEW p \in CPUs, OvsInvalid(p) \/ OvsUntracked(p) PROVE RefInv'
  <2>1. nfct[p] = None
    BY <1>10 DEF OvsInvalid, OvsUntracked, OvsReturn, ControlInv
  <2>2. nfct' = nfct /\ UNCHANGED <<use, hashed, lookup_ct, rpc, rct>>
    BY <1>10, <2>1, <1>e DEF OvsInvalid, OvsUntracked, OvsReturn
  <2> QED BY <2>2, <1>f, <1>g DEF RefInv
<1>11. ASSUME NEW p \in CPUs, \/ ChooseSyn(p) \/ ChooseState(p) \/ set_ct_state(p)
                               \/ StoreState(p) \/ set_ct_timeout(p)
                               \/ AdjustCtState(p) \/ CheckDuplicate(p)
       PROVE  RefInv'
  BY <1>11, <1>f, <1>g DEF RefInv, ChooseSyn, ChooseState, Choose, set_ct_state, StoreState,
                           set_ct_timeout, AdjustCtState, CheckDuplicate
<1>12. ASSUME NEW p \in CPUs, LockCt(p) \/ SetLastSeq(p) \/ SetLastEnd(p) \/ SetLastAck(p)
                               \/ UnlockCt(p)
       PROVE  RefInv'
  BY <1>12, <1>f, <1>g DEF RefInv, LockCt, SetLastSeq, SetLastEnd, SetLastAck, Store, UnlockCt
<1>13. ASSUME \/ \E f \in FlagSets : WriteFlags(f)
              \/ \E i \in 1..2, v \in ZoneBounds : WriteZoneRange(i, v)
              \/ UNCHANGED vars
       PROVE  RefInv'
  BY <1>13, <1>f, <1>g DEF RefInv, WriteFlags, WriteZoneRange, vars
<1> QED
  BY <1>1, <1>2, <1>3, <1>4, <1>5, <1>6, <1>7, <1>8, <1>9, <1>10, <1>11, <1>12, <1>13
     DEF Next, Ovs, Handler

\* The reference count of every entry is the number of its holders.
THEOREM References == Spec => []RefCount
<1>1. Init => RefInv
  BY RefInit
<1>2. TypeOK /\ ControlInv /\ RefInv /\ [Next]_vars => RefInv'
  BY RefNext
<1>3. RefInv => RefCount
  BY DEF RefInv
<1> QED
  BY <1>1, <1>2, <1>3, Typing, PTL DEF Spec

\* No handler touches a consumed skb or a freed entry, and no dump a freed
\* entry, whatever the order of deletions, dumps and packets.
THEOREM MemorySafety == Spec => []NoUseAfterFree
<1>1. TypeOK /\ ControlInv /\ RefInv => NoUseAfterFree
  <2> SUFFICES ASSUME TypeOK, ControlInv, RefInv PROVE NoUseAfterFree
    OBVIOUS
  <2>1. ASSUME NEW p \in CPUs, pc[p] \in CtLabels PROVE use[ct[p]] > 0
    <3>1. ct[p] \in Conns /\ (ct[p] = nfct[p] \/ ct[p] = lookup_ct[p])
      BY <2>1 DEF ControlInv
    <3> QED BY <3>1, HeldIsUsed DEF RefInv
  <2>2. ASSUME NEW r \in Readers, rpc[r] # "idle" PROVE use[rct[r]] > 0
    <3>1. rct[r] \in Conns /\ hashed[rct[r]]
      BY <2>2 DEF ControlInv, RefInv, DumpedIsHashed
    <3> QED BY <3>1, HeldIsUsed DEF RefInv
  <2> QED BY <2>1, <2>2 DEF NoUseAfterFree, ControlInv
<1>2. TypeOK /\ ControlInv /\ RefInv /\ [Next]_vars => RefInv'
  BY RefNext
<1> QED
  BY <1>1, <1>2, RefInit, Typing, PTL DEF Spec

-----------------------------------------------------------------------------
(* TcpTrack implements SeqTrack: the exported numbers are those of one      *)
(* critical section.                                                        *)

\* t (struct ip_ct_tcp_vgw) holds the numbers of the record r.
Holds(t, r) == t.last_seq = r.last_seq /\ t.last_end = r.last_end /\ t.last_ack = r.last_ack

\* Who is between spin_lock_bh and spin_unlock_bh owns ct->lock.
LockInv ==
  /\ \A p \in CPUs : pc[p] \in LockedLabels => lock[ct[p]] = p
  /\ \A r \in Readers : rpc[r] \in {"seq_trk", "unlock"} => lock[rct[r]] = r

\* How far the stores of the critical section on CPU p have come.
StoreAt(p, c) ==
  /\ pc[p] = "set_seq" => tcp[c].last_seq = committed[c].last_seq
  /\ pc[p] \in {"set_seq", "set_end", "set_ack"} => tcp[c].last_ack = committed[c].last_ack
  /\ pc[p] \in {"set_end", "set_ack", "unlock"} => tcp[c].last_seq = pkt[p].seq
  /\ pc[p] \in {"set_ack", "unlock"} => tcp[c].last_end = segment_seq_plus_len(pkt[p])
  /\ pc[p] = "unlock" =>
       tcp[c].last_ack = IF pkt[p].ack_seq # 0 THEN pkt[p].ack_seq ELSE committed[c].last_ack

\* Outside of the critical sections of the CPUs the fields are the committed
\* record, and the message of a dump repeats it.
StoreInv ==
  /\ \A c \in Conns : lock[c] \notin CPUs => Holds(tcp[c], committed[c])
  /\ \A p \in CPUs : pc[p] \in LockedLabels => StoreAt(p, ct[p])
  /\ \A r \in Readers : rpc[r] = "unlock" => Holds(msg[r].seq_trk, committed[rct[r]])

CommitInv == LockInv /\ StoreInv

\* What the step lemmas take from the invariants proved in TcpTrackProofs.
Base == TypeOK /\ ControlInv /\ RefInv

LEMMA BaseInvariant == Spec => []Base
<1>1. TypeOK /\ ControlInv /\ RefInv /\ [Next]_vars => RefInv'
  BY RefNext
<1> QED
  BY <1>1, RefInit, Typing, PTL DEF Spec, Base

LEMMA CommitInit == Init => CommitInv
<1> SUFFICES ASSUME Init PROVE CommitInv
  OBVIOUS
<1>1. LockInv
  BY DEF Init, LockInv, LockedLabels
<1>2. \A c \in Conns : Holds(tcp[c], committed[c])
  BY DEF Init, Holds, NewTcp, Abs!ZeroRec
<1>3. StoreInv
  BY <1>2 DEF Init, StoreInv, LockedLabels
<1> QED BY <1>1, <1>3 DEF CommitInv

\* A step of CPU p outside of its critical section that leaves the entries'
\* numbers, the locks and the dumps alone.
LEMMA QuietStep ==
  ASSUME CommitInv, NEW p \in CPUs, UNCHANGED <<lock, tcp, committed, rct, rpc, msg>>,
         \A q \in CPUs : q # p => pc'[q] = pc[q] /\ ct'[q] = ct[q] /\ pkt'[q] = pkt[q],
         pc'[p] \notin LockedLabels
  PROVE  CommitInv'
<1>1. LockInv'
  BY DEF CommitInv, LockInv
<1>2. StoreInv'
  BY DEF CommitInv, StoreInv, StoreAt
<1> QED BY <1>1, <1>2 DEF CommitInv

\* Nobody else is inside a critical section of an entry that is locked.
LEMMA Exclusive ==
  ASSUME Base, CommitInv
  PROVE  /\ \A p, q \in CPUs : pc[p] \in LockedLabels /\ pc[q] \in LockedLabels /\ ct[p] = ct[q] => p = q
         /\ \A p \in CPUs, r \in Readers :
              pc[p] \in LockedLabels /\ rpc[r] \in {"seq_trk", "unlock"} => ct[p] # rct[r]
         /\ \A r, q \in Readers : rpc[r] \in {"seq_trk", "unlock"} /\ rpc[q] \in {"seq_trk", "unlock"}
                                    /\ rct[r] = rct[q] => r = q
         /\ \A p \in CPUs : pc[p] \in LockedLabels => ct[p] \in Conns /\ pkt[p] \in Packets
         /\ \A r \in Readers : rpc[r] # "idle" => rct[r] \in Conns
         /\ \A p \in CPUs : p \notin Readers /\ p # None
         /\ \A r \in Readers : r \notin CPUs /\ r # None
<1>1. \A p \in CPUs : p \notin Readers /\ p # None
  BY ProcessAssumption
<1>2. \A r \in Readers : r \notin CPUs /\ r # None
  BY ProcessAssumption
<1>3. \A p \in CPUs : pc[p] \in LockedLabels => ct[p] \in Conns /\ pkt[p] \in Packets
  BY DEF Base, ControlInv, LockedLabels, CtLabels, MainLabels
<1>4. \A r \in Readers : rpc[r] # "idle" => rct[r] \in Conns
  BY DEF Base, ControlInv
<1> QED
  BY <1>1, <1>2, <1>3, <1>4 DEF CommitInv, LockInv

LEMMA CommitCpu ==
  ASSUME Base, CommitInv, NEW p \in CPUs,
         \/ \E k \in Packets : kretprobe_entry_handler(p, k)
         \/ OvsInvalid(p) \/ OvsUntracked(p) \/ OvsFail(p)
         \/ kretprobe_return_handler(p) \/ CheckPacket(p)
         \/ get_skb_ct(p) \/ lookup_conntrack_by_skb(p)
         \/ ChooseSyn(p) \/ ChooseState(p) \/ set_ct_state(p) \/ set_ct_timeout(p)
         \/ AdjustCtState(p) \/ CheckDuplicate(p) \/ PutLookup(p) \/ OvsDone(p)
  PROVE  CommitInv' /\ UNCHANGED <<committed, out>>
<1> USE DEF config, entries, args, locals, cpuVars, dumps, Goto
<1>0. /\ pc \in [CPUs -> CpuLabels] /\ ct \in [CPUs -> Conns \cup {None}]
      /\ pkt \in [CPUs -> Packets \cup {None}]
  BY DEF Base, TypeOK
<1>1. UNCHANGED <<lock, tcp, committed, rct, rpc, msg, out>>
  BY DEF kretprobe_entry_handler, OvsInvalid, OvsUntracked, OvsReturn, OvsFail,
         kretprobe_return_handler, CheckPacket, get_skb_ct, lookup_conntrack_by_skb, ChooseSyn,
         ChooseState, Choose, set_ct_state, set_ct_timeout, AdjustCtState, CheckDuplicate,
         PutLookup, OvsDone
<1>2. pc'[p] \notin LockedLabels
  BY <1>0 DEF kretprobe_entry_handler, OvsInvalid, OvsUntracked, OvsReturn, OvsFail,
         kretprobe_return_handler, CheckPacket, get_skb_ct, lookup_conntrack_by_skb, ChooseSyn,
         ChooseState, Choose, set_ct_state, set_ct_timeout, AdjustCtState, CheckDuplicate,
         PutLookup, OvsDone, LockedLabels
<1>3. \A q \in CPUs : q # p => pc'[q] = pc[q]
  BY <1>0 DEF kretprobe_entry_handler, OvsInvalid, OvsUntracked, OvsReturn, OvsFail,
         kretprobe_return_handler, CheckPacket, get_skb_ct, lookup_conntrack_by_skb, ChooseSyn,
         ChooseState, Choose, set_ct_state, set_ct_timeout, AdjustCtState, CheckDuplicate,
         PutLookup, OvsDone
<1>4. \A q \in CPUs : q # p => ct'[q] = ct[q] /\ pkt'[q] = pkt[q]
  BY <1>0 DEF kretprobe_entry_handler, OvsInvalid, OvsUntracked, OvsReturn, OvsFail,
         kretprobe_return_handler, CheckPacket, get_skb_ct, lookup_conntrack_by_skb, ChooseSyn,
         ChooseState, Choose, set_ct_state, set_ct_timeout, AdjustCtState, CheckDuplicate,
         PutLookup, OvsDone
<1>5. CommitInv'
  BY <1>1, <1>2, <1>3, <1>4, QuietStep
<1> QED BY <1>1, <1>5

\* CPU p enters its critical section, or stores the next number.
LEMMA CommitLock ==
  ASSUME Base, CommitInv, NEW p \in CPUs, LockCt(p)
  PROVE  CommitInv' /\ UNCHANGED <<committed, out>>
<1> USE DEF config, entries, args, locals, cpuVars, dumps, Goto
<1>1. ct[p] \in Conns
  BY DEF Base, ControlInv, LockCt, CtLabels, MainLabels
<1>2. /\ lock[ct[p]] = None /\ lock' = [lock EXCEPT ![ct[p]] = p]
      /\ pc' = [pc EXCEPT ![p] = "set_seq"]
      /\ UNCHANGED <<tcp, committed, ct, pkt, rct, rpc, msg, out>>
  BY DEF LockCt
<1>3. pc \in [CPUs -> CpuLabels] /\ lock \in [Conns -> CPUs \cup Readers \cup {None}]
  BY DEF Base, TypeOK
<1>4. Holds(tcp[ct[p]], committed[ct[p]])
  BY <1>1, <1>2, ProcessAssumption DEF CommitInv, StoreInv
<1>5. LockInv'
  BY <1>1, <1>2, <1>3, Exclusive DEF CommitInv, LockInv, LockedLabels
<1>6. StoreInv'
  <2>1. \A c \in Conns : lock'[c] \notin CPUs => Holds(tcp'[c], committed'[c])
    BY <1>1, <1>2, <1>3 DEF CommitInv, StoreInv
  <2>2. ASSUME NEW q \in CPUs, pc'[q] \in LockedLabels PROVE StoreAt(q, ct[q])'
    BY <1>2, <1>3, <1>4, <2>2 DEF CommitInv, StoreInv, StoreAt, Holds, LockedLabels
  <2>3. \A r \in Readers : rpc'[r] = "unlock" => Holds(msg'[r].seq_trk, committed'[rct'[r]])
    BY <1>2 DEF CommitInv, StoreInv
  <2> QED BY <1>2, <2>1, <2>2, <2>3 DEF StoreInv
<1> QED BY <1>2, <1>5, <1>6 DEF CommitInv

LEMMA CommitStore ==
  ASSUME Base, CommitInv, NEW p \in CPUs, SetLastSeq(p) \/ SetLastEnd(p) \/ SetLastAck(p)
  PROVE  CommitInv' /\ UNCHANGED <<committed, out>>
<1> USE DEF config, entries, args, locals, cpuVars, dumps, Goto
<1> DEFINE c == ct[p]
<1>1. pc[p] \in LockedLabels /\ c \in Conns
  BY Exclusive DEF SetLastSeq, SetLastEnd, SetLastAck, Store, LockedLabels
<1>2. /\ UNCHANGED <<lock, committed, ct, pkt, rct, rpc, msg, out>>
      /\ pc'[p] \in LockedLabels
      /\ \A q \in CPUs : q # p => pc'[q] = pc[q]
      /\ \A d \in Conns : d # c => tcp'[d] = tcp[d]
  BY DEF Base, TypeOK, SetLastSeq, SetLastEnd, SetLastAck, Store, LockedLabels
<1>3. tcp[c] \in TcpInfos /\ tcp \in [Conns -> TcpInfos] /\ pc \in [CPUs -> CpuLabels]
  BY <1>1 DEF Base, TypeOK
<1>4. lock[c] = p
  BY <1>1 DEF CommitInv, LockInv
<1>5. StoreAt(p, c)
  BY <1>1 DEF CommitInv, StoreInv
<1>6. StoreAt(p, c)'
  <2>1. CASE SetLastSeq(p)
    BY <1>1, <1>2, <1>3, <1>5, <2>1 DEF StoreAt, SetLastSeq, Store, TcpInfos
  <2>2. CASE SetLastEnd(p)
    BY <1>1, <1>2, <1>3, <1>5, <2>2 DEF StoreAt, SetLastEnd, Store, TcpInfos
  <2>3. CASE SetLastAck(p)
    <3>1. /\ pc[p] = "set_ack" /\ pc'[p] = "unlock"
          /\ tcp' = [tcp EXCEPT ![c] = [tcp[c] EXCEPT
                         !.last_ack = IF pkt[p].ack_seq # 0 THEN pkt[p].ack_seq ELSE tcp[c].last_ack]]
      BY <1>3, <2>3 DEF SetLastAck, Store
    <3>2. /\ tcp'[c].last_seq = tcp[c].last_seq /\ tcp'[c].last_end = tcp[c].last_end
          /\ tcp'[c].last_ack = IF pkt[p].ack_seq # 0 THEN pkt[p].ack_seq ELSE tcp[c].last_ack
      BY <3>1, <1>1, <1>3 DEF TcpInfos
    <3> QED BY <3>1, <3>2, <1>2, <1>5 DEF StoreAt
  <2> QED BY <2>1, <2>2, <2>3
<1>7. LockInv'
  BY <1>1, <1>2, <1>4 DEF CommitInv, LockInv
<1>8. StoreInv'
  <2>1. ASSUME NEW d \in Conns, lock'[d] \notin CPUs PROVE Holds(tcp'[d], committed'[d])
    BY <1>2, <1>4, <2>1 DEF CommitInv, StoreInv
  <2>2. ASSUME NEW q \in CPUs, pc'[q] \in LockedLabels, q # p PROVE StoreAt(q, ct[q])'
    <3>1. ct[q] # c /\ ct[q] \in Conns /\ pc[q] \in LockedLabels
      BY <1>1, <1>2, <2>2, Exclusive
    <3>2. tcp'[ct[q]] = tcp[ct[q]] /\ StoreAt(q, ct[q])
      BY <1>2, <3>1 DEF CommitInv, StoreInv
    <3> QED BY <1>2, <2>2, <3>2 DEF StoreAt
  <2>3. \A r \in Readers : rpc'[r] = "unlock" => Holds(msg'[r].seq_trk, committed'[rct'[r]])
    BY <1>2 DEF CommitInv, StoreInv
  <2> QED BY <1>2, <1>6, <2>1, <2>2, <2>3 DEF StoreInv
<1> QED BY <1>2, <1>7, <1>8 DEF CommitInv

\* An entry changes outside of every critical section on it: the numbers it
\* holds afterwards are the committed record again.
LEMMA EntryReplaced ==
  ASSUME Base, CommitInv, NEW c \in Conns, UNCHANGED <<lock, rct, rpc, msg, ct, pkt>>,
         \A d \in Conns : d # c => tcp'[d] = tcp[d] /\ committed'[d] = committed[d],
         Holds(tcp'[c], committed'[c]),
         \A p \in CPUs : pc'[p] \in LockedLabels \/ pc[p] \in LockedLabels
                            => pc'[p] = pc[p] /\ ct[p] # c,
         \A r \in Readers : rpc[r] = "unlock" => rct[r] # c
  PROVE  CommitInv'
<1>1. LockInv'
  BY Exclusive DEF CommitInv, LockInv
<1>2. \A d \in Conns : lock'[d] \notin CPUs => Holds(tcp'[d], committed'[d])
  BY DEF CommitInv, StoreInv
<1>3. ASSUME NEW p \in CPUs, pc'[p] \in LockedLabels PROVE StoreAt(p, ct[p])'
  <2>1. pc'[p] = pc[p] /\ ct[p] # c /\ ct[p] \in Conns
    BY <1>3, Exclusive
  <2>2. StoreAt(p, ct[p]) /\ tcp'[ct[p]] = tcp[ct[p]] /\ committed'[ct[p]] = committed[ct[p]]
    BY <1>3, <2>1 DEF CommitInv, StoreInv
  <2> QED BY <2>1, <2>2 DEF StoreAt
<1>4. \A r \in Readers : rpc'[r] = "unlock" => Holds(msg'[r].seq_trk, committed'[rct'[r]])
  BY Exclusive DEF CommitInv, StoreInv
<1> QED BY <1>1, <1>2, <1>3, <1>4 DEF CommitInv, StoreInv

LEMMA CommitTrack ==
  ASSUME Base, CommitInv, NEW p \in CPUs, NEW s \in TrackerStates, NEW stores \in BOOLEAN,
         NEW info \in TrackerInfos, OvsTrack(p, s, stores, info)
  PROVE  CommitInv' /\ [Abs!Next]_(Abs!absVars)
<1> USE DEF config, entries, args, locals, cpuVars, dumps, Goto
<1> DEFINE c == pkt[p].conn
           k == pkt[p]
<1>1. k \in Packets /\ c \in Conns
  BY PacketFields DEF Base, ControlInv, OvsTrack
<1>2. /\ pc[p] = "ovs" /\ pc' = [pc EXCEPT ![p] = "ret"] /\ lock[c] = None
      /\ tcp' = [tcp EXCEPT ![c] = KernelTcp(tcp[c], s, k, stores)]
      /\ committed' = [committed EXCEPT ![c] = IF stores THEN Abs!KernelApply(Segment(k))
                                                          ELSE committed[c]]
      /\ UNCHANGED <<lock, rct, rpc, msg, ct, pkt, out>>
  BY DEF OvsTrack, OvsReturn
<1>3. /\ tcp \in [Conns -> TcpInfos] /\ committed \in [Conns -> SeqRecords]
      /\ pc \in [CPUs -> CpuLabels]
  BY DEF Base, TypeOK
<1>4. Holds(tcp[c], committed[c])
  BY <1>1, <1>2, ProcessAssumption DEF CommitInv, StoreInv
<1>5. Holds(tcp'[c], committed'[c])
  <2>1. CASE stores
    <3>1. tcp'[c] = KernelTcp(tcp[c], s, k, TRUE) /\ committed'[c] = Abs!KernelApply(Segment(k))
      BY <1>1, <1>2, <1>3, <2>1
    <3> QED BY <3>1 DEF Holds, KernelTcp, Abs!KernelApply, Segment
  <2>2. CASE ~stores
    <3>1. tcp'[c] = [tcp[c] EXCEPT !.state = s] /\ committed'[c] = committed[c]
      BY <1>1, <1>2, <1>3, <2>2 DEF KernelTcp
    <3>2. tcp[c] \in TcpInfos
      BY <1>1, <1>3
    <3> QED BY <1>4, <3>1, <3>2 DEF Holds, TcpInfos
  <2> QED BY <2>1, <2>2
<1>6. CommitInv'
  <2>1. \A d \in Conns : d # c => tcp'[d] = tcp[d] /\ committed'[d] = committed[d]
    BY <1>2, <1>3
  <2>2. \A q \in CPUs : pc'[q] \in LockedLabels \/ pc[q] \in LockedLabels
                            => pc'[q] = pc[q] /\ ct[q] # c
    BY <1>2, <1>3, Exclusive DEF CommitInv, LockInv, LockedLabels
  <2>3. \A r \in Readers : rpc[r] = "unlock" => rct[r] # c
    BY <1>2, Exclusive DEF CommitInv, LockInv
  <2>4. UNCHANGED <<lock, rct, rpc, msg, ct, pkt>>
    BY <1>2
  <2> HIDE DEF c
  <2> QED BY <1>1, <1>5, <2>1, <2>2, <2>3, <2>4, EntryReplaced
<1>7. CASE stores
  <2>1. Segment(k) \in {Segment(j) : j \in Packets}
    BY <1>1
  <2>2. Abs!KernelRecord(c, Segment(k))
    BY <1>2, <1>7 DEF Abs!KernelRecord
  <2> QED BY <1>1, <1>6, <2>1, <2>2 DEF Abs!Next
<1>8. CASE ~stores
  <2>1. committed' = committed /\ out' = out
    BY <1>2, <1>3, <1>8
  <2> QED BY <1>6, <2>1 DEF Abs!absVars
<1> QED BY <1>7, <1>8

LEMMA CommitNew ==
  ASSUME Base, CommitInv, NEW p \in CPUs, NEW s \in TrackerStates, NEW commit \in BOOLEAN,
         OvsNew(p, s, commit)
  PROVE  CommitInv' /\ [Abs!Next]_(Abs!absVars)
<1> USE DEF config, entries, args, locals, cpuVars, dumps, Goto
<1> DEFINE c == pkt[p].conn
<1>1. pkt[p] \in Packets /\ c \in Conns
  BY PacketFields DEF Base, ControlInv, OvsNew
<1>2. /\ pc[p] = "ovs" /\ pc' = [pc EXCEPT ![p] = "ret"] /\ use[c] = 0
      /\ tcp' = [tcp EXCEPT ![c] = NewTcp(s)]
      /\ committed' = [committed EXCEPT ![c] = Abs!ZeroRec]
      /\ UNCHANGED <<lock, rct, rpc, msg, ct, pkt, out>>
  BY DEF OvsNew, OvsReturn
<1>3. /\ tcp \in [Conns -> TcpInfos] /\ committed \in [Conns -> SeqRecords]
      /\ pc \in [CPUs -> CpuLabels]
  BY DEF Base, TypeOK
<1>4. Holds(tcp'[c], committed'[c])
  BY <1>1, <1>2, <1>3 DEF Holds, NewTcp, Abs!ZeroRec
<1>5. \A d \in Conns : d # c => tcp'[d] = tcp[d] /\ committed'[d] = committed[d]
  BY <1>2, <1>3
<1>6. ASSUME NEW q \in CPUs, pc'[q] \in LockedLabels \/ pc[q] \in LockedLabels
      PROVE  pc'[q] = pc[q] /\ ct[q] # c
  <2>1. pc'[q] = pc[q] /\ pc[q] \in LockedLabels
    BY <1>2, <1>3, <1>6 DEF LockedLabels
  <2>2. ct[q] \in Conns /\ (ct[q] = nfct[q] \/ ct[q] = lookup_ct[q])
    BY <2>1 DEF Base, ControlInv, LockedLabels, CtLabels, MainLabels
  <2>3. use[ct[q]] > 0
    BY <2>2, HeldIsUsed DEF Base, RefInv
  <2> QED BY <1>2, <2>1, <2>3
<1>7. ASSUME NEW r \in Readers, rpc[r] = "unlock" PROVE rct[r] # c
  <2>1. rct[r] \in Conns /\ hashed[rct[r]]
    BY <1>7 DEF Base, ControlInv, RefInv, DumpedIsHashed
  <2>2. use[rct[r]] > 0
    BY <2>1, HeldIsUsed DEF Base, RefInv
  <2> QED BY <1>2, <2>2
<1>8. Abs!Alloc(c)
  BY <1>2 DEF Abs!Alloc
<1>9. UNCHANGED <<lock, rct, rpc, msg, ct, pkt>>
  BY <1>2
<1> HIDE DEF c
<1>10. CommitInv'
  BY <1>1, <1>4, <1>5, <1>6, <1>7, <1>9, EntryReplaced
<1> QED BY <1>1, <1>8, <1>10 DEF Abs!Next

\* The state is written without ct->lock, perhaps inside the critical section
\* of another CPU, but it is not one of the numbers.
LEMMA CommitState ==
  ASSUME Base, CommitInv, NEW p \in CPUs, StoreState(p)
  PROVE  CommitInv' /\ UNCHANGED <<committed, out>>
<1> USE DEF config, entries, args, locals, cpuVars, dumps, Goto
<1>1. /\ UNCHANGED <<lock, committed, ct, pkt, rct, rpc, msg, out>>
      /\ pc'[p] \notin LockedLabels /\ \A q \in CPUs : q # p => pc'[q] = pc[q]
  BY DEF Base, TypeOK, StoreState, LockedLabels
<1>2. ASSUME NEW d \in Conns
      PROVE  /\ tcp'[d].last_seq = tcp[d].last_seq /\ tcp'[d].last_end = tcp[d].last_end
             /\ tcp'[d].last_ack = tcp[d].last_ack
  <2>1. tcp[d] \in TcpInfos /\ tcp \in [Conns -> TcpInfos]
    BY DEF Base, TypeOK
  <2>2. tcp'[d] = tcp[d] \/ tcp'[d] = [tcp[d] EXCEPT !.state = new_state[p]]
    BY <2>1 DEF StoreState
  <2> QED BY <2>1, <2>2 DEF TcpInfos
<1>3. LockInv'
  BY <1>1 DEF CommitInv, LockInv
<1>4. ASSUME NEW q \in CPUs, pc'[q] \in LockedLabels PROVE StoreAt(q, ct[q])'
  <2>1. pc'[q] = pc[q] /\ pc[q] \in LockedLabels /\ ct[q] \in Conns
    BY <1>1, <1>4, Exclusive
  <2>2. StoreAt(q, ct[q])
    BY <2>1 DEF CommitInv, StoreInv
  <2> QED BY <1>1, <1>2, <2>1, <2>2 DEF StoreAt
<1>5. StoreInv'
  BY <1>1, <1>2, <1>4 DEF CommitInv, StoreInv, Holds
<1> QED BY <1>1, <1>3, <1>5 DEF CommitInv

\* The end of the critical section is the abstract step.
LEMMA CommitUnlock ==
  ASSUME Base, CommitInv, NEW p \in CPUs, UnlockCt(p)
  PROVE  CommitInv' /\ [Abs!Next]_(Abs!absVars)
<1> USE DEF config, entries, args, locals, cpuVars, dumps, Goto
<1> DEFINE c == ct[p]
<1>1. pc[p] \in LockedLabels /\ c \in Conns /\ pkt[p] \in Packets
  BY Exclusive DEF UnlockCt, LockedLabels
<1>2. /\ pc[p] = "unlock" /\ pc' = [pc EXCEPT ![p] = "out"]
      /\ lock' = [lock EXCEPT ![c] = None]
      /\ committed' = [committed EXCEPT ![c] = SeqRecord(tcp[c])]
      /\ UNCHANGED <<tcp, ct, pkt, rct, rpc, msg, out>>
  BY DEF UnlockCt
<1>3. /\ tcp \in [Conns -> TcpInfos] /\ committed \in [Conns -> SeqRecords]
      /\ pc \in [CPUs -> CpuLabels] /\ lock \in [Conns -> CPUs \cup Readers \cup {None}]
  BY DEF Base, TypeOK
<1>4. StoreAt(p, c)
  BY <1>1 DEF CommitInv, StoreInv
<1>5. Holds(tcp'[c], committed'[c])
  <2>1. committed'[c] = SeqRecord(tcp[c]) /\ tcp'[c] = tcp[c]
    BY <1>1, <1>2, <1>3
  <2> QED BY <2>1 DEF Holds, SeqRecord
<1>6. SeqRecord(tcp[c]) = Abs!Apply(committed[c], Segment(pkt[p]))
  BY <1>2, <1>4 DEF StoreAt, SeqRecord, Abs!Apply, Segment
<1>7. Abs!Record(c, Segment(pkt[p]))
  BY <1>2, <1>6 DEF Abs!Record
<1>8. Segment(pkt[p]) \in {Segment(j) : j \in Packets}
  BY <1>1
<1>9. \A q \in CPUs : pc'[q] \in LockedLabels => q # p /\ pc'[q] = pc[q] /\ ct[q] # c
                                                  /\ ct[q] \in Conns
  BY <1>1, <1>2, <1>3, Exclusive DEF LockedLabels
<1>10. \A r \in Readers : rpc[r] \in {"seq_trk", "unlock"} => rct[r] # c /\ rct[r] \in Conns
  BY <1>1, Exclusive
<1>11. LockInv'
  BY <1>2, <1>3, <1>9, <1>10 DEF CommitInv, LockInv
<1>12. \A d \in Conns : lock'[d] \notin CPUs => Holds(tcp'[d], committed'[d])
  BY <1>2, <1>3, <1>5 DEF CommitInv, StoreInv
<1>13. ASSUME NEW q \in CPUs, pc'[q] \in LockedLabels PROVE StoreAt(q, ct[q])'
  <2>1. StoreAt(q, ct[q]) /\ committed'[ct[q]] = committed[ct[q]] /\ pc'[q] = pc[q]
    BY <1>2, <1>3, <1>9, <1>13 DEF CommitInv, StoreInv
  <2> QED BY <1>2, <2>1 DEF StoreAt
<1>14. ASSUME NEW r \in Readers, rpc[r] = "unlock" PROVE Holds(msg[r].seq_trk, committed'[rct[r]])
  <2>1. committed'[rct[r]] = committed[rct[r]]
    BY <1>2, <1>3, <1>10, <1>14
  <2> QED BY <1>14, <2>1 DEF CommitInv, StoreInv
<1>15. StoreInv'
  BY <1>2, <1>12, <1>13, <1>14 DEF StoreInv
<1> QED BY <1>1, <1>7, <1>8, <1>11, <1>15 DEF CommitInv, Abs!Next

\* A dump copies the record while it owns ct->lock.
LEMMA CommitDump ==
  ASSUME Base, CommitInv, NEW r \in Readers,
         Dump(r) \/ DumpNoRoom(r) \/ \E c \in Conns : DumpEntry(r, c)
  PROVE  CommitInv' /\ [Abs!Next]_(Abs!absVars)
<1> USE DEF config, entries, args, locals, cpuVars, dumps, Goto
<1>1. /\ UNCHANGED <<tcp, committed, pc, ct, pkt>>
      /\ \A q \in Readers : q # r => rpc'[q] = rpc[q] /\ rct'[q] = rct[q] /\ msg'[q] = msg[q]
  BY DEF Base, TypeOK, Dump, DumpEntry, DumpNoRoom, DumpState, DumpSeqTrack, DumpDone, DumpFail
<1>2. \A p \in CPUs : pc[p] \in LockedLabels => StoreAt(p, ct[p])'
  BY <1>1 DEF CommitInv, StoreInv, StoreAt
<1>3. /\ lock \in [Conns -> CPUs \cup Readers \cup {None}]
      /\ rpc[r] # "idle" => rct[r] \in Conns
  BY DEF Base, TypeOK, ControlInv
<1>4. /\ rpc \in [Readers -> {"idle", "lock", "seq_trk", "unlock"}]
      /\ rct \in [Readers -> Conns \cup {None}] /\ msg \in [Readers -> Messages \cup {None}]
  BY DEF Base, TypeOK
<1>5. CASE \E c \in Conns : DumpEntry(r, c)
  <2>1. UNCHANGED <<lock, msg, out>> /\ rpc'[r] = "lock"
    BY <1>4, <1>5 DEF DumpEntry
  <2>2. LockInv'
    BY <1>1, <2>1 DEF CommitInv, LockInv
  <2>3. StoreInv'
    BY <1>1, <1>2, <2>1 DEF CommitInv, StoreInv
  <2> QED BY <1>1, <2>1, <2>2, <2>3 DEF CommitInv, Abs!absVars
<1>11. CASE DumpNoRoom(r)
  <2>1. UNCHANGED <<lock, msg, out>> /\ rpc[r] = "lock" /\ rpc'[r] = "idle"
    BY <1>4, <1>11 DEF DumpNoRoom
  <2>2. LockInv'
    BY <1>1, <2>1 DEF CommitInv, LockInv
  <2>3. StoreInv'
    BY <1>1, <1>2, <2>1 DEF CommitInv, StoreInv
  <2> QED BY <1>1, <2>1, <2>2, <2>3 DEF CommitInv, Abs!absVars
<1>6. CASE DumpState(r)
  <2>1. /\ lock[rct[r]] = None /\ lock' = [lock EXCEPT ![rct[r]] = r] /\ rct' = rct /\ out' = out
        /\ rpc'[r] = "seq_trk" /\ rct[r] \in Conns
    BY <1>3, <1>4, <1>6 DEF DumpState
  <2>2. LockInv'
    <3>1. \A p \in CPUs : pc[p] \in LockedLabels => ct[p] \in Conns /\ ct[p] # rct[r]
      BY <2>1, Exclusive DEF CommitInv, LockInv
    <3>2. \A q \in Readers : q # r /\ rpc[q] \in {"seq_trk", "unlock"}
                                 => rct[q] \in Conns /\ rct[q] # rct[r]
      BY <2>1, Exclusive DEF CommitInv, LockInv
    <3> QED BY <1>1, <1>3, <2>1, <3>1, <3>2 DEF CommitInv, LockInv
  <2>3. \A d \in Conns : lock'[d] \notin CPUs => Holds(tcp'[d], committed'[d])
    BY <1>1, <1>3, <2>1, Exclusive DEF CommitInv, StoreInv
  <2>4. StoreInv'
    BY <1>1, <1>2, <2>1, <2>3 DEF CommitInv, StoreInv
  <2> QED BY <1>1, <2>1, <2>2, <2>4 DEF CommitInv, Abs!absVars
<1>7. CASE DumpSeqTrack(r)
  <2>1. UNCHANGED <<lock, rct, out>> /\ rpc[r] = "seq_trk" /\ rpc'[r] = "unlock" /\ rct[r] \in Conns
    BY <1>3, <1>4, <1>7 DEF DumpSeqTrack
  <2>2. msg'[r].seq_trk = tcp[rct[r]]
    <3>1. msg[r] \in Messages
      BY <1>7 DEF Base, ControlInv, DumpSeqTrack
    <3>2. msg'[r] = [msg[r] EXCEPT !.seq_trk = tcp[rct[r]]]
      BY <1>4, <1>7 DEF DumpSeqTrack
    <3> QED BY <3>1, <3>2 DEF Messages
  <2>3. Holds(tcp[rct[r]], committed[rct[r]])
    BY <2>1, Exclusive DEF CommitInv, LockInv, StoreInv
  <2>4. LockInv'
    BY <1>1, <2>1 DEF CommitInv, LockInv
  <2>5. StoreInv'
    BY <1>1, <1>2, <2>1, <2>2, <2>3 DEF CommitInv, StoreInv
  <2> QED BY <1>1, <2>1, <2>4, <2>5 DEF CommitInv, Abs!absVars
<1>8. ASSUME rpc[r] \in {"seq_trk", "unlock"}, lock' = [lock EXCEPT ![rct[r]] = None], rpc'[r] = "idle"
      PROVE  CommitInv'
  <2>1. rct[r] \in Conns /\ lock[rct[r]] = r
    BY <1>3, <1>8 DEF CommitInv, LockInv
  <2>2. \A q \in Readers : rpc'[q] \in {"seq_trk", "unlock"} => q # r /\ rct[q] # rct[r] /\ rct[q] \in Conns
    BY <1>1, <1>8, Exclusive
  <2>3. \A p \in CPUs : pc[p] \in LockedLabels => ct[p] # rct[r] /\ ct[p] \in Conns
    BY <1>8, Exclusive
  <2>4. LockInv'
    BY <1>1, <1>3, <1>8, <2>1, <2>2, <2>3 DEF CommitInv, LockInv
  <2>5. \A d \in Conns : lock'[d] \notin CPUs => Holds(tcp'[d], committed'[d])
    BY <1>1, <1>3, <1>8, <2>1, Exclusive DEF CommitInv, StoreInv
  <2>6. StoreInv'
    BY <1>1, <1>2, <1>8, <2>2, <2>5 DEF CommitInv, StoreInv
  <2> QED BY <2>4, <2>6 DEF CommitInv
<1>9. CASE DumpDone(r)
  <2>1. CommitInv'
    BY <1>4, <1>8, <1>9 DEF DumpDone
  <2>2. rct[r] \in Conns /\ msg[r].seq_trk \in TcpInfos
    BY <1>9 DEF Base, ControlInv, DumpDone
  <2>3. committed[rct[r]] \in SeqRecords
    BY <2>2 DEF Base, TypeOK
  <2>4. Holds(msg[r].seq_trk, committed[rct[r]])
    BY <1>9 DEF DumpDone, CommitInv, StoreInv
  <2>5. SeqRecord(msg[r].seq_trk) = committed[rct[r]]
    BY <2>2, <2>3, <2>4 DEF Holds, SeqRecord, SeqRecords
  <2>6. Abs!Export(r, rct[r])
    BY <1>1, <1>9, <2>5 DEF Abs!Export, DumpDone
  <2> QED BY <2>1, <2>2, <2>6 DEF Abs!Next
<1>10. CASE DumpFail(r)
  <2>1. CommitInv'
    BY <1>4, <1>8, <1>10 DEF DumpFail
  <2> QED BY <1>1, <1>10, <2>1 DEF DumpFail, Abs!absVars
<1> QED BY <1>5, <1>6, <1>7, <1>9, <1>10, <1>11 DEF Dump

LEMMA CommitOthers ==
  ASSUME CommitInv, \/ \E c \in Conns : DeleteConn(c)
                    \/ \E f \in FlagSets : WriteFlags(f)
                    \/ \E i \in 1..2, v \in ZoneBounds : WriteZoneRange(i, v)
                    \/ UNCHANGED vars
  PROVE  CommitInv' /\ UNCHANGED <<committed, out>>
<1> USE DEF config, entries, args, locals, cpuVars, dumps
<1>1. UNCHANGED <<lock, tcp, committed, pc, ct, pkt, rpc, rct, msg, out>>
  BY DEF DeleteConn, WriteFlags, WriteZoneRange, vars
<1>2. LockInv'
  BY <1>1 DEF CommitInv, LockInv
<1>3. StoreInv'
  BY <1>1 DEF CommitInv, StoreInv, StoreAt
<1> QED BY <1>1, <1>2, <1>3 DEF CommitInv

LEMMA CommitNext == Base /\ CommitInv /\ [Next]_vars => CommitInv' /\ [Abs!Next]_(Abs!absVars)
<1> SUFFICES ASSUME Base, CommitInv, [Next]_vars PROVE CommitInv' /\ [Abs!Next]_(Abs!absVars)
  OBVIOUS
<1>1. ASSUME CommitInv' /\ UNCHANGED <<committed, out>> PROVE CommitInv' /\ [Abs!Next]_(Abs!absVars)
  BY <1>1 DEF Abs!absVars
<1>2. ASSUME NEW p \in CPUs, Ovs(p) PROVE CommitInv' /\ [Abs!Next]_(Abs!absVars)
  BY <1>1, <1>2, CommitCpu, CommitTrack, CommitNew DEF Ovs
<1>3. ASSUME NEW p \in CPUs, Handler(p) PROVE CommitInv' /\ [Abs!Next]_(Abs!absVars)
  BY <1>1, <1>3, CommitCpu, CommitState, CommitLock, CommitStore, CommitUnlock DEF Handler
<1>4. ASSUME NEW p \in CPUs, NEW k \in Packets, kretprobe_entry_handler(p, k)
      PROVE  CommitInv' /\ [Abs!Next]_(Abs!absVars)
  BY <1>1, <1>4, CommitCpu
<1> QED BY <1>1, <1>2, <1>3, <1>4, CommitDump, CommitOthers DEF Next

\* The stores and loads of the numbers (vgw_tcptrack_main, tcp_to_nlattr) behave
\* as the indivisible steps of SeqTrack: an export never mixes two segments.
THEOREM Refinement == Spec => ImplementsSeqTrack
<1>1. Init => Abs!Init
  BY DEF Init, Abs!Init
<1>2. Base /\ CommitInv /\ [Next]_vars => CommitInv' /\ [Abs!Next]_(Abs!absVars)
  BY CommitNext
<1> QED
  BY <1>1, <1>2, CommitInit, BaseInvariant, PTL DEF Spec, ImplementsSeqTrack, Abs!Spec

-----------------------------------------------------------------------------
(* The duplicate check, which takes no lock, against the stores.            *)

\* A CPU that owns ct->lock is inside the critical section of that entry.
OwnerInv == \A c \in Conns : lock[c] \in CPUs => pc[lock[c]] \in LockedLabels /\ ct[lock[c]] = c

LEMMA OwnerNext == Base /\ CommitInv /\ OwnerInv /\ [Next]_vars => OwnerInv'
<1> SUFFICES ASSUME Base, CommitInv, OwnerInv, [Next]_vars PROVE OwnerInv'
  OBVIOUS
<1> USE DEF config, entries, args, locals, cpuVars, dumps, Goto
<1>0. /\ pc \in [CPUs -> CpuLabels] /\ ct \in [CPUs -> Conns \cup {None}]
      /\ lock \in [Conns -> CPUs \cup Readers \cup {None}]
  BY DEF Base, TypeOK
<1>1. ASSUME NEW p \in CPUs, UNCHANGED lock, pc[p] \notin LockedLabels,
             \A q \in CPUs : q # p => pc'[q] = pc[q] /\ ct'[q] = ct[q]
      PROVE  OwnerInv'
  BY <1>1 DEF OwnerInv
<1>2. ASSUME NEW p \in CPUs, (\E k \in Packets : kretprobe_entry_handler(p, k)) \/ Ovs(p)
      PROVE  OwnerInv'
  <2>1. /\ UNCHANGED lock /\ pc[p] \notin LockedLabels
        /\ \A q \in CPUs : q # p => pc'[q] = pc[q] /\ ct'[q] = ct[q]
    BY <1>0, <1>2 DEF kretprobe_entry_handler, Ovs, OvsTrack, OvsNew, OvsInvalid, OvsUntracked,
         OvsReturn, OvsFail, OvsDone, LockedLabels
  <2> QED BY <1>1, <2>1
<1>3. ASSUME NEW p \in CPUs, Handler(p) PROVE OwnerInv'
  <2>1. CASE LockCt(p)
    <3>1. /\ ct[p] \in Conns /\ UNCHANGED ct /\ lock' = [lock EXCEPT ![ct[p]] = p]
          /\ pc' = [pc EXCEPT ![p] = "set_seq"] /\ pc[p] \notin LockedLabels
      BY <2>1 DEF LockCt, Base, ControlInv, CtLabels, MainLabels, LockedLabels
    <3> QED BY <1>0, <3>1 DEF OwnerInv, LockedLabels
  <2>2. CASE SetLastSeq(p) \/ SetLastEnd(p) \/ SetLastAck(p)
    <3>1. /\ UNCHANGED <<ct, lock>> /\ pc'[p] \in LockedLabels
          /\ \A q \in CPUs : q # p => pc'[q] = pc[q]
      BY <1>0, <2>2 DEF SetLastSeq, SetLastEnd, SetLastAck, Store, LockedLabels
    <3> QED BY <3>1 DEF OwnerInv
  <2>3. CASE UnlockCt(p)
    <3>1. /\ UNCHANGED ct /\ lock' = [lock EXCEPT ![ct[p]] = None]
          /\ \A q \in CPUs : q # p => pc'[q] = pc[q]
      BY <1>0, <2>3 DEF UnlockCt
    <3> QED BY <1>0, <3>1, ProcessAssumption DEF OwnerInv
  <2>4. CASE \/ kretprobe_return_handler(p) \/ CheckPacket(p)
             \/ get_skb_ct(p) \/ lookup_conntrack_by_skb(p)
             \/ ChooseSyn(p) \/ ChooseState(p) \/ set_ct_state(p) \/ StoreState(p)
             \/ set_ct_timeout(p)
             \/ AdjustCtState(p) \/ CheckDuplicate(p) \/ PutLookup(p)
    <3>1. /\ UNCHANGED lock /\ pc[p] \notin LockedLabels
      BY <2>4 DEF kretprobe_return_handler, CheckPacket, get_skb_ct,
         lookup_conntrack_by_skb, ChooseSyn, ChooseState, Choose, set_ct_state, StoreState,
         set_ct_timeout, AdjustCtState, CheckDuplicate, PutLookup, LockedLabels
    <3>2. \A q \in CPUs : q # p => pc'[q] = pc[q] /\ ct'[q] = ct[q]
      BY <1>0, <2>4 DEF kretprobe_return_handler, CheckPacket, get_skb_ct,
         lookup_conntrack_by_skb, ChooseSyn, ChooseState, Choose, set_ct_state, StoreState,
         set_ct_timeout, AdjustCtState, CheckDuplicate, PutLookup
    <3> QED BY <1>1, <3>1, <3>2
  <2> QED BY <1>3, <2>1, <2>2, <2>3, <2>4 DEF Handler
<1>4. ASSUME NEW r \in Readers, Dump(r) \/ DumpNoRoom(r) \/ \E c \in Conns : DumpEntry(r, c)
      PROVE  OwnerInv'
  <2>1. UNCHANGED <<pc, ct>>
    BY <1>4 DEF Dump, DumpEntry, DumpNoRoom, DumpState, DumpSeqTrack, DumpDone, DumpFail
  <2>2. \/ UNCHANGED lock \/ lock' = [lock EXCEPT ![rct[r]] = r]
        \/ lock' = [lock EXCEPT ![rct[r]] = None]
    BY <1>4 DEF Dump, DumpEntry, DumpNoRoom, DumpState, DumpSeqTrack, DumpDone, DumpFail
  <2>3. \A c \in Conns : lock'[c] \in CPUs => lock'[c] = lock[c]
    BY <1>0, <2>2, ProcessAssumption
  <2> QED BY <2>1, <2>3 DEF OwnerInv
<1>5. CASE \/ \E c \in Conns : DeleteConn(c)
           \/ \E f \in FlagSets : WriteFlags(f)
           \/ \E i \in 1..2, v \in ZoneBounds : WriteZoneRange(i, v)
           \/ UNCHANGED vars
  <2>1. UNCHANGED <<lock, pc, ct>>
    BY <1>5 DEF DeleteConn, WriteFlags, WriteZoneRange, vars
  <2> QED BY <2>1 DEF OwnerInv
<1> QED BY <1>2, <1>3, <1>4, <1>5 DEF Next

LEMMA OwnerInit == Init => OwnerInv
BY ProcessAssumption DEF Init, OwnerInv

\* A tracked packet leaves the handler by the duplicate check or by the unlock.
LEMMA OutSteps ==
  ASSUME TypeOK, [Next]_vars, NEW p \in CPUs, pc[p] \in {"dup", "unlock"}, pc'[p] = "out"
  PROVE  CheckDuplicate(p) \/ UnlockCt(p)
<1> USE DEF config, entries, args, locals, cpuVars, dumps, Goto
<1>0. pc \in [CPUs -> CpuLabels]
  BY DEF TypeOK
<1>1. ASSUME NEW q \in CPUs,
             (\E k \in Packets : kretprobe_entry_handler(q, k)) \/ Ovs(q) \/ Handler(q)
      PROVE  CheckDuplicate(p) \/ UnlockCt(p)
  <2>1. \A i \in CPUs : i # q => pc'[i] = pc[i]
    BY <1>0, <1>1 DEF kretprobe_entry_handler, Ovs, OvsTrack, OvsNew, OvsInvalid, OvsUntracked,
         OvsReturn, OvsFail, OvsDone, Handler, kretprobe_return_handler, CheckPacket,
         get_skb_ct, lookup_conntrack_by_skb, ChooseSyn, ChooseState, Choose, set_ct_state,
         StoreState, set_ct_timeout, AdjustCtState, CheckDuplicate, LockCt, SetLastSeq,
         SetLastEnd, SetLastAck, Store, UnlockCt, PutLookup
  <2>2. p = q
    BY <2>1
  <2>3. pc[q] \in {"dup", "unlock"} => CheckDuplicate(q) \/ UnlockCt(q)
    BY <1>1 DEF kretprobe_entry_handler, Ovs, OvsTrack, OvsNew, OvsInvalid, OvsUntracked,
         OvsReturn, OvsFail, OvsDone, Handler, kretprobe_return_handler, CheckPacket,
         get_skb_ct, lookup_conntrack_by_skb, ChooseSyn, ChooseState, set_ct_state,
         StoreState, set_ct_timeout, AdjustCtState, LockCt, SetLastSeq,
         SetLastEnd, SetLastAck, Store, PutLookup
  <2> QED BY <2>2, <2>3
<1>2. ASSUME \/ \E r \in Readers : Dump(r) \/ DumpNoRoom(r) \/ \E c \in Conns : DumpEntry(r, c)
             \/ \E c \in Conns : DeleteConn(c)
             \/ \E f \in FlagSets : WriteFlags(f)
             \/ \E i \in 1..2, v \in ZoneBounds : WriteZoneRange(i, v)
             \/ UNCHANGED vars
      PROVE  FALSE
  BY <1>2 DEF Dump, DumpEntry, DumpNoRoom, DumpState, DumpSeqTrack, DumpDone, DumpFail,
         DeleteConn, WriteFlags, WriteZoneRange, vars
<1> QED BY <1>1, <1>2 DEF Next

\* What SegmentRecorded says of one step of one CPU.
Recording(p) ==
  pc[p] \in {"dup", "unlock"} /\ pc'[p] = "out" =>
    \/ /\ committed'[ct[p]].last_seq = pkt[p].seq
       /\ pkt[p].ack_seq # 0 => committed'[ct[p]].last_ack = pkt[p].ack_seq
    \/ \E q \in CPUs \ {p} :
         /\ pc[q] \in LockedLabels /\ ct[q] = ct[p]
         /\ pkt[q].seq = pkt[p].seq

\* A duplicate of the committed record, or of a segment that another CPU, the
\* owner of ct->lock, is storing and whose sequence number is already there.
LEMMA DuplicateRecorded ==
  ASSUME Base, CommitInv, OwnerInv, NEW p \in CPUs, CheckDuplicate(p)
  PROVE  Recording(p)
<1> USE DEF config, entries, args, locals, cpuVars, dumps, Goto
<1> DEFINE c == ct[p]
<1> SUFFICES ASSUME pc'[p] = "out" PROVE Recording(p)
  BY DEF Recording
<1>1. c \in Conns /\ pc[p] = "dup" /\ UNCHANGED committed
  BY DEF CheckDuplicate, Base, ControlInv, CtLabels, MainLabels
<1>2. pkt[p].seq = tcp[c].last_seq /\ pkt[p].ack_seq = tcp[c].last_ack
  <2>1. pc' = [pc EXCEPT ![p] = IF SameSegment(pkt[p], tcp[c]) THEN "out" ELSE "lock"]
        /\ pc \in [CPUs -> CpuLabels]
    BY DEF CheckDuplicate, Base, TypeOK
  <2> QED BY <2>1 DEF SameSegment
<1>3. CASE lock[c] \notin CPUs
  <2>1. tcp[c].last_seq = committed[c].last_seq /\ tcp[c].last_ack = committed[c].last_ack
    BY <1>1, <1>3 DEF CommitInv, StoreInv, Holds
  <2> QED BY <1>1, <1>2, <2>1 DEF Recording
<1>4. CASE lock[c] \in CPUs
  <2>1. PICK q \in CPUs : q = lock[c]
    BY <1>4
  <2>2. pc[q] \in LockedLabels /\ ct[q] = c
    BY <1>1, <2>1 DEF OwnerInv
  <2>3. q # p
    BY <1>1, <2>2 DEF LockedLabels
  <2>4. StoreAt(q, c)
    BY <2>2 DEF CommitInv, StoreInv
  <2>5. CASE pc[q] = "set_seq"
    <3>1. tcp[c].last_seq = committed[c].last_seq /\ tcp[c].last_ack = committed[c].last_ack
      BY <2>4, <2>5 DEF StoreAt
    <3> QED BY <1>1, <1>2, <3>1 DEF Recording
  <2>6. CASE pc[q] # "set_seq"
    <3>1. tcp[c].last_seq = pkt[q].seq
      BY <2>2, <2>4, <2>6 DEF StoreAt, LockedLabels
    <3> QED BY <1>2, <2>2, <2>3, <3>1 DEF Recording
  <2> QED BY <2>5, <2>6
<1> QED BY <1>3, <1>4

LEMMA StoreRecorded ==
  ASSUME Base, CommitInv, NEW p \in CPUs, UnlockCt(p)
  PROVE  Recording(p)
<1>1. pc[p] = "unlock" /\ pc[p] \in LockedLabels /\ ct[p] \in Conns
  BY Exclusive DEF UnlockCt, LockedLabels
<1>2. StoreAt(p, ct[p])
  BY <1>1 DEF CommitInv, StoreInv
<1>3. committed'[ct[p]] = SeqRecord(tcp[ct[p]])
  BY <1>1 DEF UnlockCt, Base, TypeOK
<1> QED BY <1>1, <1>2, <1>3 DEF Recording, StoreAt, SeqRecord

\* The handler never loses a segment: its numbers are stored when it is done, or
\* another CPU is storing one with the same sequence number, although the
\* duplicate check of vgw_tcptrack_main reads the stored numbers without ct->lock.
THEOREM Recorded == Spec => SegmentRecorded
<1>1. Base /\ CommitInv /\ OwnerInv /\ [Next]_vars => [\A p \in CPUs : Recording(p)]_vars
  <2> SUFFICES ASSUME Base, CommitInv, OwnerInv, [Next]_vars, NEW p \in CPUs,
                      pc[p] \in {"dup", "unlock"}, pc'[p] = "out"
               PROVE  Recording(p)
    BY DEF Recording
  <2>1. CheckDuplicate(p) \/ UnlockCt(p)
    BY OutSteps DEF Base
  <2> QED BY <2>1, DuplicateRecorded, StoreRecorded
<1>2. Base /\ CommitInv /\ [Next]_vars => CommitInv'
  BY CommitNext
<1>3. Base /\ CommitInv /\ OwnerInv /\ [Next]_vars => OwnerInv'
  BY OwnerNext
<1>4. [\A p \in CPUs : Recording(p)]_vars =>
        [\A p \in CPUs : pc[p] \in {"dup", "unlock"} /\ pc'[p] = "out" =>
           \/ /\ committed'[ct[p]].last_seq = pkt[p].seq
              /\ pkt[p].ack_seq # 0 => committed'[ct[p]].last_ack = pkt[p].ack_seq
           \/ \E q \in CPUs \ {p} :
                /\ pc[q] \in LockedLabels /\ ct[q] = ct[p]
                /\ pkt[q].seq = pkt[p].seq]_vars
  BY DEF Recording
<1> QED
  BY <1>1, <1>2, <1>3, <1>4, BaseInvariant, CommitInit, OwnerInit, PTL DEF Spec, SegmentRecorded
=============================================================================
