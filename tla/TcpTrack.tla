------------------------------ MODULE TcpTrack ------------------------------
(***************************************************************************)
(* The packet path of vgw_driver.  A kretprobe on ovs_ct_execute (kprobe.c)*)
(* calls vgw_tcptrack_main (tcp_track.c), which overrides the conntrack    *)
(* state of a TCP entry and stores the sequence numbers of the segment in  *)
(* it; a filtered netlink dump exports them (tcp_session.c).               *)
(*                                                                         *)
(* A packet runs on one CPU with bottom halves disabled, so each CPU is a  *)
(* process.  Every access to memory that another process may change is a   *)
(* step of its own: the reads and writes of ct->proto.tcp.state, which     *)
(* take no lock, the duplicate check, which takes no lock either, and the  *)
(* stores of the sequence numbers, which take ct->lock.                    *)
(***************************************************************************)
EXTENDS Integers, FiniteSets

CONSTANTS CPUs,           \* CPUs that run ovs_ct_execute
          Readers,        \* netlink dumps with the export flag
          Conns,          \* conntrack entries; the tuple and zone of a flow pick one
          Packets,        \* the packets that may arrive
          None,           \* NULL, and the owner of a free lock
          SeqMod,         \* 2^32 in the code: size of the sequence space
          TrackerStates,  \* states the kernel's own TCP tracker moves entries to
          TrackerInfos,   \* ctinfo values it gives the packets of known entries
          FlagSets,       \* values written to tcptrack_flags through sysfs
          ZoneBounds      \* values written to an element of zone_range

\* enum tcp_conntrack, in the order of the enumeration.
NONE == 0
SYN_SENT == 1
SYN_RECV == 2
ESTABLISHED == 3
CLOSE_WAIT == 5
CLOSE == 8
TcpStates == 0..9

\* The bits of tcptrack_flags.
TCP_TRACK == "tcp_track"
ZONE_FILTER == "zone_filter"
EXPORT == "export_tcp_track"
DUMP_PKT == "dump_pkt"
AllFlags == {TCP_TRACK, ZONE_FILTER, EXPORT, DUMP_PKT}

\* enum ip_conntrack_info.  The code initialises ctinfo to 0, which is
\* IP_CT_ESTABLISHED.
CtInfos == {"established", "new", "established_reply", "untracked"}

\* Bits of sw_flow_key.ct_state that the module looks at.
CtStateBits == {"INVALID", "ESTABLISHED"}

\* An skb as far as the handlers look at it: its flow and zone, the recirculation
\* id of its flow key, whether an IPv4 and a TCP header are found, the length
\* tcplen of the TCP part, the header length doff in words, flags and numbers.
Packet == [conn : Conns, zone : Nat, recirc : BOOLEAN, l4 : {"tcp", "other", "none"},
           tcplen : Int, doff : 0..15,
           syn : BOOLEAN, ack : BOOLEAN, fin : BOOLEAN, rst : BOOLEAN,
           seq : 0..(SeqMod-1), ack_seq : 0..(SeqMod-1)]

ASSUME SeqModAssumption == SeqMod \in Nat \ {0}
ASSUME PacketsAssumption == Packets \subseteq Packet
ASSUME TrackerAssumption == /\ TrackerStates \subseteq TcpStates
                            /\ TrackerInfos \subseteq {"established", "new", "established_reply"}
ASSUME ConfigAssumption == ZoneBounds \subseteq Nat /\ FlagSets \subseteq SUBSET AllFlags
ASSUME ProcessAssumption == /\ IsFiniteSet(CPUs) /\ CPUs \cap Readers = {}
                            /\ None \notin CPUs \cup Readers \cup Conns \cup TcpStates

VARIABLES
  \* globals
  flags, zone_range,
  \* struct nf_conn: reference count, presence in the hash table, ct->lock,
  \* ct->proto.tcp (state and the last_* fields) and the state whose timeout
  \* the entry was last refreshed with
  use, hashed, lock, tcp, timeout,
  \* the packet on each CPU: handler position, skb, its conntrack pointer and
  \* info, the return value of ovs_ct_execute, the flow key's ct_state, and
  \* the locals ct, lookup_ct and new_state of the handler
  pc, pkt, skb, nfct, ctinfo, retval, ct_state, ct, lookup_ct, new_state,
  \* dumps: position, entry under the bucket lock, message under construction,
  \* sequence record exported last
  rpc, rct, msg, out,
  \* history: the record of each entry as of the last release of ct->lock
  committed

config == <<flags, zone_range>>
entries == <<use, hashed, lock, tcp, timeout>>
args == <<pkt, skb, nfct, ctinfo, retval>>
locals == <<ct, lookup_ct, new_state>>
cpuVars == <<pc, args, ct_state, locals>>
dumps == <<rpc, rct, msg, out>>
vars == <<config, entries, cpuVars, dumps, committed>>

-----------------------------------------------------------------------------
\* Fault: the sum is kept in a wider type.
SegmentEndNoWrap(k) ==
  k.seq + k.tcplen - 4 * k.doff + (IF k.syn THEN 1 ELSE 0) + (IF k.fin THEN 1 ELSE 0)

\* segment_seq_plus_len: skb->len - dataoff is tcplen; the sum is an __u32.
segment_seq_plus_len(k) ==
  (k.seq + k.tcplen - 4 * k.doff + (IF k.syn THEN 1 ELSE 0) + (IF k.fin THEN 1 ELSE 0))
    % SeqMod

\* tcp_error: header shorter than struct tcphdr, or packet shorter than header.
tcp_error(k) == 4 * k.doff < 20 \/ k.tcplen < 4 * k.doff

check_zone_id(zone) ==
  ZONE_FILTER \in flags => zone_range[1] <= zone /\ zone <= zone_range[2]

\* The early returns -1 to -7 of vgw_tcptrack_main.
Trackable(k) == /\ TCP_TRACK \in flags
                /\ check_zone_id(k.zone)
                /\ k.l4 = "tcp"
                /\ ~tcp_error(k)

SeqRecord(t) == [last_seq |-> t.last_seq, last_end |-> t.last_end, last_ack |-> t.last_ack]
Segment(k) == [seq |-> k.seq, end |-> segment_seq_plus_len(k), ack_seq |-> k.ack_seq]

NewTcp(s) == [state |-> s, last_seq |-> 0, last_end |-> 0, last_ack |-> 0]

\* The kernel's tracker stores sequence numbers for some segments only.
KernelTcp(t, s, k, stores) ==
  IF stores THEN [state |-> s, last_seq |-> k.seq,
                  last_end |-> segment_seq_plus_len(k), last_ack |-> k.ack_seq]
            ELSE [t EXCEPT !.state = s]

Goto(p, label) == pc' = [pc EXCEPT ![p] = label]

Abs == INSTANCE SeqTrack WITH Segments <- {Segment(k) : k \in Packets},
                              NoRecord <- None, rec <- committed

-----------------------------------------------------------------------------
Init ==
  /\ flags \in FlagSets
  /\ zone_range \in [1..2 -> ZoneBounds]
  /\ use = [c \in Conns |-> 0]
  /\ hashed = [c \in Conns |-> FALSE]
  /\ lock = [c \in Conns |-> None]
  /\ tcp = [c \in Conns |-> NewTcp(NONE)]
  /\ timeout = [c \in Conns |-> NONE]
  /\ pc = [p \in CPUs |-> "idle"]
  /\ pkt = [p \in CPUs |-> None]
  /\ skb = [p \in CPUs |-> "none"]
  /\ nfct = [p \in CPUs |-> None]
  /\ ctinfo = [p \in CPUs |-> "established"]
  /\ retval = [p \in CPUs |-> 0]
  /\ ct_state = [p \in CPUs |-> {}]
  /\ ct = [p \in CPUs |-> None]
  /\ lookup_ct = [p \in CPUs |-> None]
  /\ new_state = [p \in CPUs |-> NONE]
  /\ rpc = [r \in Readers |-> "idle"]
  /\ rct = [r \in Readers |-> None]
  /\ msg = [r \in Readers |-> None]
  /\ out = [r \in Readers |-> None]
  /\ committed = [c \in Conns |-> Abs!ZeroRec]

-----------------------------------------------------------------------------
(* ovs_ct_execute, between the two probe handlers (external).              *)

\* kretprobe_entry_handler: OVS calls ovs_ct_execute and the handler saves
\* the arguments.
kretprobe_entry_handler(p, k) ==
  /\ pc[p] = "idle"
  /\ Goto(p, "ovs")
  /\ pkt' = [pkt EXCEPT ![p] = k]
  /\ skb' = [skb EXCEPT ![p] = "live"]
  /\ UNCHANGED <<config, entries, nfct, ctinfo, retval, ct_state, locals, dumps, committed>>

\* ovs_ct_execute succeeds; c is attached to the skb (None if it found none).
OvsReturn(p, c, info, cs) ==
  /\ pc[p] = "ovs"
  /\ Goto(p, "ret")
  /\ retval' = [retval EXCEPT ![p] = 0]
  /\ nfct' = [nfct EXCEPT ![p] = c]
  /\ ctinfo' = [ctinfo EXCEPT ![p] = info]
  /\ ct_state' = [ct_state EXCEPT ![p] = cs]
  /\ UNCHANGED <<config, pkt, skb, locals, dumps>>

\* The kernel tracks the packet of an entry in the table, under ct->lock.
OvsTrack(p, s, stores, info) ==
  LET c == pkt[p].conn IN
  /\ pc[p] = "ovs" /\ hashed[c] /\ lock[c] = None
  /\ OvsReturn(p, c, info, IF info = "new" THEN {} ELSE {"ESTABLISHED"})
  /\ use' = [use EXCEPT ![c] = @ + 1]
  /\ tcp' = [tcp EXCEPT ![c] = KernelTcp(@, s, pkt[p], stores)]
  /\ timeout' = [timeout EXCEPT ![c] = s]
  /\ committed' = [committed EXCEPT ![c] = IF stores THEN Abs!KernelApply(Segment(pkt[p])) ELSE @]
  /\ UNCHANGED <<hashed, lock>>

\* The packet creates an entry, which enters the table if the action commits it.
OvsNew(p, s, commit) ==
  LET c == pkt[p].conn IN
  /\ pc[p] = "ovs" /\ use[c] = 0
  /\ OvsReturn(p, c, "new", {})
  /\ use' = [use EXCEPT ![c] = IF commit THEN 2 ELSE 1]
  /\ hashed' = [hashed EXCEPT ![c] = commit]
  /\ tcp' = [tcp EXCEPT ![c] = NewTcp(s)]
  /\ timeout' = [timeout EXCEPT ![c] = s]
  /\ committed' = [committed EXCEPT ![c] = Abs!ZeroRec]
  /\ UNCHANGED lock

\* The tracker rejects the packet (out of window, unexpected in its state) or
\* does not track it, and the skb carries no entry.
OvsInvalid(p) ==
  /\ OvsReturn(p, None, "established", {"INVALID"})
  /\ UNCHANGED <<entries, committed>>

OvsUntracked(p) ==
  /\ OvsReturn(p, None, "untracked", {})
  /\ UNCHANGED <<entries, committed>>

\* ovs_ct_execute fails and has consumed the skb.
OvsFail(p) ==
  /\ pc[p] = "ovs"
  /\ Goto(p, "ret")
  /\ retval' = [retval EXCEPT ![p] = -1]
  /\ skb' = [skb EXCEPT ![p] = "freed"]
  /\ UNCHANGED <<config, entries, pkt, nfct, ctinfo, ct_state, locals, dumps, committed>>

-----------------------------------------------------------------------------
(* kretprobe_return_handler and vgw_tcptrack_main.                         *)

\* Fault: the result of ovs_ct_execute is not looked at.
ReturnHandlerAnyResult(p) ==
  /\ pc[p] = "ret"
  /\ Goto(p, IF pkt[p].recirc THEN "done" ELSE "main")
  /\ UNCHANGED <<config, entries, args, ct_state, locals, dumps, committed>>

\* Only a first pass (recirc_id 0) that succeeded is tracked.
kretprobe_return_handler(p) ==
  /\ pc[p] = "ret"
  /\ Goto(p, IF retval[p] # 0 \/ pkt[p].recirc THEN "done" ELSE "main")
  /\ UNCHANGED <<config, entries, args, ct_state, locals, dumps, committed>>

CheckPacket(p) ==
  /\ pc[p] = "main"
  /\ Goto(p, IF Trackable(pkt[p]) THEN "get_ct" ELSE "out")
  /\ UNCHANGED <<config, entries, args, ct_state, locals, dumps, committed>>

\* get_skb_ct: the entry the skb carries, whose reference the skb owns.
get_skb_ct(p) ==
  /\ pc[p] = "get_ct"
  /\ nfct[p] # None
  /\ ct' = [ct EXCEPT ![p] = nfct[p]]
  /\ Goto(p, "state")
  /\ UNCHANGED <<config, entries, args, ct_state, lookup_ct, new_state, dumps, committed>>

\* lookup_conntrack_by_skb: nf_conntrack_find_get takes a reference.
lookup_conntrack_by_skb(p) ==
  LET c == pkt[p].conn IN
  /\ pc[p] = "get_ct"
  /\ nfct[p] = None
  /\ IF hashed[c] THEN /\ ct' = [ct EXCEPT ![p] = c]
                       /\ lookup_ct' = [lookup_ct EXCEPT ![p] = c]
                       /\ use' = [use EXCEPT ![c] = @ + 1]
                       /\ Goto(p, "state")
                  ELSE /\ Goto(p, "out")
                       /\ UNCHANGED <<ct, lookup_ct, use>>
  /\ UNCHANGED <<config, hashed, lock, tcp, timeout, args, ct_state, new_state, dumps,
                 committed>>

Choose(p, s) ==
  /\ Goto(p, "set_state")
  /\ new_state' = [new_state EXCEPT ![p] = s]

\* The state is read without ct->lock, for a SYN first and then, if the test for
\* the SYN fails, once more.
ChooseSyn(p) ==
  /\ pc[p] = "state"
  /\ IF pkt[p].syn /\ tcp[ct[p]].state # ESTABLISHED
       THEN Choose(p, SYN_RECV)
       ELSE Goto(p, "choose") /\ UNCHANGED new_state
  /\ UNCHANGED <<config, entries, args, ct_state, ct, lookup_ct, dumps, committed>>

\* The state that any other segment asks for, None if it asks for no change.
WantedState(k, s) ==
  IF k.ack /\ s < ESTABLISHED THEN ESTABLISHED
  ELSE IF k.fin THEN CLOSE_WAIT
  ELSE IF k.rst THEN CLOSE
  ELSE None

ChooseState(p) ==
  LET s == WantedState(pkt[p], tcp[ct[p]].state) IN
  /\ pc[p] = "choose"
  /\ IF s = None THEN Goto(p, "adjust") /\ UNCHANGED new_state ELSE Choose(p, s)
  /\ UNCHANGED <<config, entries, args, ct_state, ct, lookup_ct, dumps, committed>>

\* No change and no refresh if the state is already there.
set_ct_state(p) ==
  /\ pc[p] = "set_state"
  /\ Goto(p, IF tcp[ct[p]].state = new_state[p] THEN "adjust" ELSE "store_state")
  /\ UNCHANGED <<config, entries, args, ct_state, locals, dumps, committed>>

StoreState(p) ==
  /\ pc[p] = "store_state"
  /\ tcp' = [tcp EXCEPT ![ct[p]].state = new_state[p]]
  /\ Goto(p, "set_timeout")
  /\ UNCHANGED <<config, use, hashed, lock, timeout, args, ct_state, locals, dumps,
                 committed>>

set_ct_timeout(p) ==
  /\ pc[p] = "set_timeout"
  /\ timeout' = [timeout EXCEPT ![ct[p]] = new_state[p]]
  /\ Goto(p, "adjust")
  /\ UNCHANGED <<config, use, hashed, lock, tcp, args, ct_state, locals, dumps, committed>>

\* The flow key that OVS matches on next.
AdjustCtState(p) ==
  /\ pc[p] = "adjust"
  /\ ct_state' = [ct_state EXCEPT ![p] = IF ctinfo[p] = "established"
                                           THEN (@ \ {"INVALID"}) \cup {"ESTABLISHED"}
                                           ELSE @]
  /\ Goto(p, "dup")
  /\ UNCHANGED <<config, entries, args, locals, dumps, committed>>

\* Fault: only the sequence number is compared.
SameSeq(k, t) == k.seq = t.last_seq

\* Return -10: compares with the stored numbers without ct->lock.
SameSegment(k, t) == k.seq = t.last_seq /\ k.ack_seq = t.last_ack

CheckDuplicate(p) ==
  /\ pc[p] = "dup"
  /\ Goto(p, IF SameSegment(pkt[p], tcp[ct[p]]) THEN "out" ELSE "lock")
  /\ UNCHANGED <<config, entries, args, ct_state, locals, dumps, committed>>

\* Fault: the stores are not protected by ct->lock.
LockNothing(p) ==
  /\ pc[p] = "lock"
  /\ Goto(p, "set_seq")
  /\ UNCHANGED <<config, entries, args, ct_state, locals, dumps, committed>>

LockCt(p) ==
  /\ pc[p] = "lock"
  /\ lock[ct[p]] = None
  /\ lock' = [lock EXCEPT ![ct[p]] = p]
  /\ Goto(p, "set_seq")
  /\ UNCHANGED <<config, use, hashed, tcp, timeout, args, ct_state, locals, dumps,
                 committed>>

Store(p, from, to, t) ==
  /\ pc[p] = from
  /\ tcp' = [tcp EXCEPT ![ct[p]] = t]
  /\ Goto(p, to)
  /\ UNCHANGED <<config, use, hashed, lock, timeout, args, ct_state, locals, dumps,
                 committed>>

SetLastSeq(p) == Store(p, "set_seq", "set_end", [tcp[ct[p]] EXCEPT !.last_seq = pkt[p].seq])

SetLastEnd(p) ==
  Store(p, "set_end", "set_ack", [tcp[ct[p]] EXCEPT !.last_end = segment_seq_plus_len(pkt[p])])

SetLastAck(p) ==
  Store(p, "set_ack", "unlock",
        [tcp[ct[p]] EXCEPT !.last_ack = IF pkt[p].ack_seq # 0 THEN pkt[p].ack_seq ELSE @])

UnlockCt(p) ==
  /\ pc[p] = "unlock"
  /\ lock' = [lock EXCEPT ![ct[p]] = None]
  /\ committed' = [committed EXCEPT ![ct[p]] = SeqRecord(tcp[ct[p]])]
  /\ Goto(p, "out")
  /\ UNCHANGED <<config, use, hashed, tcp, timeout, args, ct_state, locals, dumps>>

\* Fault: the reference of the lookup is dropped only for a stored segment.
PutLookupUnlessDuplicate(p) ==
  /\ pc[p] = "out"
  /\ IF lookup_ct[p] # None /\ ~SameSegment(pkt[p], tcp[lookup_ct[p]])
       THEN /\ use' = [use EXCEPT ![lookup_ct[p]] = @ - 1]
            /\ lookup_ct' = [lookup_ct EXCEPT ![p] = None]
       ELSE UNCHANGED use /\ lookup_ct' = [lookup_ct EXCEPT ![p] = None]
  /\ Goto(p, "done")
  /\ UNCHANGED <<config, hashed, lock, tcp, timeout, args, ct_state, ct, new_state,
                 dumps, committed>>

\* out: nf_ct_put(lookup_ct).
PutLookup(p) ==
  /\ pc[p] = "out"
  /\ IF lookup_ct[p] # None
       THEN /\ use' = [use EXCEPT ![lookup_ct[p]] = @ - 1]
            /\ lookup_ct' = [lookup_ct EXCEPT ![p] = None]
       ELSE UNCHANGED <<use, lookup_ct>>
  /\ Goto(p, "done")
  /\ UNCHANGED <<config, hashed, lock, tcp, timeout, args, ct_state, ct, new_state,
                 dumps, committed>>

\* OVS is done with the skb and drops it with its reference (external).
OvsDone(p) ==
  /\ pc[p] = "done"
  /\ use' = IF nfct[p] # None THEN [use EXCEPT ![nfct[p]] = @ - 1] ELSE use
  /\ nfct' = [nfct EXCEPT ![p] = None]
  /\ pkt' = [pkt EXCEPT ![p] = None]
  /\ skb' = [skb EXCEPT ![p] = "none"]
  /\ ct' = [ct EXCEPT ![p] = None]
  /\ ctinfo' = [ctinfo EXCEPT ![p] = "established"]
  /\ ct_state' = [ct_state EXCEPT ![p] = {}]
  /\ new_state' = [new_state EXCEPT ![p] = NONE]
  /\ retval' = [retval EXCEPT ![p] = 0]
  /\ Goto(p, "idle")
  /\ UNCHANGED <<config, hashed, lock, tcp, timeout, lookup_ct, dumps, committed>>

-----------------------------------------------------------------------------
(* A filtered dump: ctnetlink_dump_protoinfo, tcp_to_nlattr.  An event about *)
(* a destroyed entry asks for no filter and never comes here.              *)

\* The dump reaches c with the bucket lock held, so c stays in the table.
DumpEntry(r, c) ==
  /\ rpc[r] = "idle"
  /\ EXPORT \in flags
  /\ hashed[c] /\ \A q \in Readers : rct[q] # c
  /\ rct' = [rct EXCEPT ![r] = c]
  /\ rpc' = [rpc EXCEPT ![r] = "lock"]
  /\ UNCHANGED <<config, entries, cpuVars, msg, out, committed>>

\* No room for CTA_PROTOINFO, before ct->lock is taken.
DumpNoRoom(r) ==
  /\ rpc[r] = "lock"
  /\ rpc' = [rpc EXCEPT ![r] = "idle"]
  /\ rct' = [rct EXCEPT ![r] = None]
  /\ UNCHANGED <<config, entries, cpuVars, msg, out, committed>>

\* Takes ct->lock and puts CTA_PROTOINFO_TCP_STATE.
DumpState(r) ==
  /\ rpc[r] = "lock"
  /\ lock[rct[r]] = None
  /\ lock' = [lock EXCEPT ![rct[r]] = r]
  /\ msg' = [msg EXCEPT ![r] = [state |-> tcp[rct[r]].state, seq_trk |-> None]]
  /\ rpc' = [rpc EXCEPT ![r] = "seq_trk"]
  /\ UNCHANGED <<config, use, hashed, tcp, timeout, cpuVars, rct, out, committed>>

\* Fills seq_trk, which repeats the state, and puts CTA_PROTOINFO_TCP_SEQ_TRACK.
DumpSeqTrack(r) ==
  /\ rpc[r] = "seq_trk"
  /\ msg' = [msg EXCEPT ![r].seq_trk = tcp[rct[r]]]
  /\ rpc' = [rpc EXCEPT ![r] = "unlock"]
  /\ UNCHANGED <<config, entries, cpuVars, rct, out, committed>>

\* skip_state: the lock is released and the message is complete.
DumpDone(r) ==
  /\ rpc[r] = "unlock"
  /\ lock' = [lock EXCEPT ![rct[r]] = None]
  /\ out' = [out EXCEPT ![r] = SeqRecord(msg[r].seq_trk)]
  /\ rpc' = [rpc EXCEPT ![r] = "idle"]
  /\ rct' = [rct EXCEPT ![r] = None]
  /\ msg' = [msg EXCEPT ![r] = None]
  /\ UNCHANGED <<config, use, hashed, tcp, timeout, cpuVars, committed>>

\* Fault: the failure path forgets the lock.
DumpFailKeepsLock(r) ==
  /\ rpc[r] \in {"seq_trk", "unlock"}
  /\ rpc' = [rpc EXCEPT ![r] = "idle"]
  /\ rct' = [rct EXCEPT ![r] = None]
  /\ msg' = [msg EXCEPT ![r] = None]
  /\ UNCHANGED <<config, entries, cpuVars, out, committed>>

\* nla_put_failure: no room left in the message, which is cancelled.
DumpFail(r) ==
  /\ rpc[r] \in {"seq_trk", "unlock"}
  /\ lock' = [lock EXCEPT ![rct[r]] = None]
  /\ rpc' = [rpc EXCEPT ![r] = "idle"]
  /\ rct' = [rct EXCEPT ![r] = None]
  /\ msg' = [msg EXCEPT ![r] = None]
  /\ UNCHANGED <<config, use, hashed, tcp, timeout, cpuVars, out, committed>>

-----------------------------------------------------------------------------
(* Everybody else.                                                         *)

\* The entry leaves the table, by timeout or by request (external); the table
\* drops its reference.  The dump that visits the entry holds the bucket lock.
DeleteConn(c) ==
  /\ hashed[c]
  /\ \A r \in Readers : rct[r] # c
  /\ hashed' = [hashed EXCEPT ![c] = FALSE]
  /\ use' = [use EXCEPT ![c] = @ - 1]
  /\ UNCHANGED <<config, lock, tcp, timeout, cpuVars, dumps, committed>>

\* Writes to /sys/module/vgw_driver/parameters: an array is set one element
\* at a time.
WriteFlags(f) ==
  /\ f # flags
  /\ flags' = f
  /\ UNCHANGED <<zone_range, entries, cpuVars, dumps, committed>>

WriteZoneRange(i, v) ==
  /\ zone_range[i] # v
  /\ zone_range' = [zone_range EXCEPT ![i] = v]
  /\ UNCHANGED <<flags, entries, cpuVars, dumps, committed>>

Ovs(p) ==
  \/ \E s \in TrackerStates, stores \in BOOLEAN, info \in TrackerInfos :
       OvsTrack(p, s, stores, info)
  \/ \E s \in TrackerStates, commit \in BOOLEAN : OvsNew(p, s, commit)
  \/ OvsInvalid(p) \/ OvsUntracked(p) \/ OvsFail(p) \/ OvsDone(p)

\* One step of the handlers on CPU p.
Handler(p) ==
  \/ kretprobe_return_handler(p) \/ CheckPacket(p)
  \/ get_skb_ct(p) \/ lookup_conntrack_by_skb(p)
  \/ ChooseSyn(p) \/ ChooseState(p)
  \/ set_ct_state(p) \/ StoreState(p) \/ set_ct_timeout(p)
  \/ AdjustCtState(p) \/ CheckDuplicate(p)
  \/ LockCt(p) \/ SetLastSeq(p) \/ SetLastEnd(p) \/ SetLastAck(p) \/ UnlockCt(p)
  \/ PutLookup(p)

Dump(r) == DumpState(r) \/ DumpSeqTrack(r) \/ DumpDone(r) \/ DumpFail(r)

Next ==
  \/ \E p \in CPUs : \/ \E k \in Packets : kretprobe_entry_handler(p, k)
                     \/ Ovs(p)
                     \/ Handler(p)
  \/ \E r \in Readers : Dump(r) \/ DumpNoRoom(r) \/ \E c \in Conns : DumpEntry(r, c)
  \/ \E c \in Conns : DeleteConn(c)
  \/ \E f \in FlagSets : WriteFlags(f)
  \/ \E i \in 1..2, v \in ZoneBounds : WriteZoneRange(i, v)

Spec == Init /\ [][Next]_vars

\* Code that runs with bottom halves disabled runs to its end, and the spinlocks
\* of the kernel (queued spinlocks) serve their waiters in order.  Nothing is
\* assumed of arrivals, of OVS, of deletions or of the administrator, nor that a
\* dump which waits for ct->lock ever gives up for lack of room.
Fairness ==
  /\ \A p \in CPUs : WF_vars(Handler(p)) /\ SF_vars(LockCt(p))
  /\ \A r \in Readers : WF_vars(Dump(r)) /\ SF_vars(DumpState(r))

FairSpec == Spec /\ Fairness

-----------------------------------------------------------------------------
(* Properties.                                                             *)

MainLabels == {"main", "get_ct", "state", "choose", "set_state", "store_state", "set_timeout",
               "adjust", "dup", "lock", "set_seq", "set_end", "set_ack", "unlock"}
CtLabels == MainLabels \ {"main", "get_ct"}
LockedLabels == {"set_seq", "set_end", "set_ack", "unlock"}
CpuLabels == MainLabels \cup {"idle", "ovs", "ret", "out", "done"}

SeqNumbers == 0..(SeqMod-1)
SeqRecords == [last_seq : SeqNumbers, last_end : SeqNumbers, last_ack : SeqNumbers]
TcpInfos == [state : TcpStates, last_seq : SeqNumbers, last_end : SeqNumbers, last_ack : SeqNumbers]
Messages == [state : TcpStates, seq_trk : TcpInfos \cup {None}]

\* Every variable has its type.
TypeOK ==
  /\ flags \in SUBSET AllFlags
  /\ zone_range \in [1..2 -> Nat]
  /\ use \in [Conns -> Int]
  /\ hashed \in [Conns -> BOOLEAN]
  /\ lock \in [Conns -> CPUs \cup Readers \cup {None}]
  /\ tcp \in [Conns -> TcpInfos]
  /\ timeout \in [Conns -> TcpStates]
  /\ pc \in [CPUs -> CpuLabels]
  /\ pkt \in [CPUs -> Packets \cup {None}]
  /\ skb \in [CPUs -> {"none", "live", "freed"}]
  /\ nfct \in [CPUs -> Conns \cup {None}]
  /\ ctinfo \in [CPUs -> CtInfos]
  /\ retval \in [CPUs -> {0, -1}]
  /\ ct_state \in [CPUs -> SUBSET CtStateBits]
  /\ ct \in [CPUs -> Conns \cup {None}]
  /\ lookup_ct \in [CPUs -> Conns \cup {None}]
  /\ new_state \in [CPUs -> TcpStates]
  /\ rpc \in [Readers -> {"idle", "lock", "seq_trk", "unlock"}]
  /\ rct \in [Readers -> Conns \cup {None}]
  /\ msg \in [Readers -> Messages \cup {None}]
  /\ out \in [Readers -> SeqRecords \cup {None}]
  /\ committed \in [Conns -> SeqRecords]

\* The reference count of an entry is the number of its holders: the table,
\* the skbs that carry it and the handlers that looked it up.  A lost put
\* leaks the entry for ever, an extra one frees it under its users.
RefCount ==
  \A c \in Conns :
    use[c] = (IF hashed[c] THEN 1 ELSE 0) + Cardinality({p \in CPUs : nfct[p] = c})
               + Cardinality({p \in CPUs : lookup_ct[p] = c})

\* vgw_tcptrack_main never touches an skb that ovs_ct_execute consumed, nor an
\* entry whose last reference is gone, whoever deletes it meanwhile; nor does
\* a dump.
NoUseAfterFree ==
  /\ \A p \in CPUs : /\ pc[p] \in MainLabels => skb[p] = "live"
                     /\ pc[p] \in CtLabels => use[ct[p]] > 0
  /\ \A r \in Readers : rpc[r] # "idle" => use[rct[r]] > 0

\* What a dump exports is the record left by one whole critical section, never
\* a mixture of two segments: the module implements SeqTrack.
ImplementsSeqTrack == Abs!Spec

\* When the handler is done with a segment that it tracked, stored or skipped as
\* a duplicate, the entry holds its numbers, or another CPU is just storing a
\* segment with the same sequence number: the duplicate check takes no lock and
\* may see such a segment half stored, but it loses no other.
SegmentRecorded ==
  [][\A p \in CPUs : pc[p] \in {"dup", "unlock"} /\ pc'[p] = "out" =>
       \/ /\ committed'[ct[p]].last_seq = pkt[p].seq
          /\ pkt[p].ack_seq # 0 => committed'[ct[p]].last_ack = pkt[p].ack_seq
       \/ \E q \in CPUs \ {p} :
            /\ pc[q] \in LockedLabels /\ ct[q] = ct[p]
            /\ pkt[q].seq = pkt[p].seq]_vars

\* "Last seq + len" (comment on last_end in struct ip_ct_tcp_vgw): after the
\* handler, last_end is the end of the segment that last_seq belongs to.
LastEndOfSegment ==
  \A p \in CPUs : pc[p] = "out" /\ ct[p] # None
    => committed[ct[p]].last_end = segment_seq_plus_len(pkt[p])

HandlerEnds == \A p \in CPUs : (pc[p] = "ret") ~> (pc[p] = "done")
DumpEnds == \A r \in Readers : (rpc[r] = "lock") ~> (rpc[r] = "idle")

\* Every handler that starts lets its packet go again, and every dump of an entry
\* ends: no path keeps ct->lock, so nobody spins for ever.
NobodyStuck == HandlerEnds /\ DumpEnds
=============================================================================
