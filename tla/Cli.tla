-------------------------------- MODULE Cli ---------------------------------
(***************************************************************************)
(* The commands of vgw_cli against the module they work on: ct track,      *)
(* which reads, changes and writes back the parameter tcptrack_flags, ct   *)
(* reset, which makes two RST segments of the numbers that the module      *)
(* exports, and module load and remove.                                    *)
(*                                                                         *)
(* Several commands run at the same time; each is a process and takes one  *)
(* step of the kernel at a time.  One connection, between a client and a   *)
(* server, goes on meanwhile: its packets are recorded when the flags say  *)
(* so, and by the kernel's own tracker or not when they do not.  Segments  *)
(* arrive at once; an end closes by a RST with exactly the number that it  *)
(* expects next, and one that has closed answers with such a RST.          *)
(***************************************************************************)
EXTENDS Integers, FiniteSets

CONSTANTS Cmds,      \* commands that run
          None,
          Asks,      \* what ct track is asked for
          MaxSeq     \* bound: sequence numbers of either end

Flags == {"tcp_track", "zone_filter", "export_tcp_track", "dump_pkt"}
Ends == {"client", "server"}
Other(s) == IF s = "client" THEN "server" ELSE "client"

\* Of a flag, 1 enables it, 0 disables it, -1 leaves it.
Ask == [Flags -> {1, 0, -1}]

ASSUME CmdsAssumption == None \notin Cmds
ASSUME AsksAssumption == Asks \subseteq Ask
ASSUME MaxSeqAssumption == MaxSeq \in Nat \ {0, 1}

VARIABLES
  \* the module: whether it is loaded, tcptrack_flags
  loaded, flags,
  \* the connection: ends that are open, the next number of each, the numbers
  \* that were recorded last
  open, nxt, last,
  \* each command: where it is, what it is asked for, the value to write, the
  \* numbers it found, whether a step of it failed, which it logs except for what
  \* sendVxlan returns
  pc, ask, val1, info, failed,
  \* history: the side and length of the latest packet, if it was recorded, and
  \* for each command the latest packet at its dump, if there was none since
  latest, basis

module == <<loaded, flags>>
connection == <<open, nxt, last>>
command == <<pc, ask, val1, info, failed>>
vars == <<module, connection, command, latest, basis>>

Numbers == [seq : 0..MaxSeq, ack : 0..MaxSeq]
Packets == [from : Ends, len : {0, 1}]

\* The numbers of the two ends differ.
Init ==
  /\ loaded = FALSE /\ flags = {}
  /\ open = Ends /\ nxt = [s \in Ends |-> IF s = "client" THEN 1 ELSE 2] /\ last = [seq |-> 0, ack |-> 0]
  /\ pc = [c \in Cmds |-> "idle"] /\ ask = [c \in Cmds |-> None]
  /\ val1 = [c \in Cmds |-> {}]
  /\ info = [c \in Cmds |-> None] /\ failed = [c \in Cmds |-> FALSE]
  /\ latest = None /\ basis = [c \in Cmds |-> None]
-----------------------------------------------------------------------------
(* module load and module remove.                                          *)

\* The parameter starts as FLAGS_ZONE_FILTER.
runModLoad ==
  /\ ~loaded
  /\ loaded' = TRUE /\ flags' = {"zone_filter"}
  /\ UNCHANGED <<connection, command, latest, basis>>

runModRemove ==
  /\ loaded
  /\ loaded' = FALSE /\ flags' = {}
  /\ UNCHANGED <<connection, command, latest, basis>>

-----------------------------------------------------------------------------
(* ct track.                                                               *)

Track(c, a) ==
  /\ pc[c] = "idle"
  /\ pc' = [pc EXCEPT ![c] = "read"] /\ ask' = [ask EXCEPT ![c] = a]
  /\ failed' = [failed EXCEPT ![c] = FALSE]
  /\ UNCHANGED <<module, connection, val1, info, latest, basis>>

\* The file is there while the module is; what cannot be read counts as 0.
readVal == IF loaded THEN flags ELSE {}
ReadLogs == ~loaded

setFlag(dest, v, mask) ==
  IF v = 1 THEN dest \cup {mask} ELSE IF v = 0 THEN dest \ {mask} ELSE dest

\* The four calls of setFlag, each for a flag of its own.
Changed(v, a) == {f \in Flags : f \in setFlag(v, a[f], f)}

Shows(a) == \A f \in Flags : a[f] = -1

ReadFlags(c) ==
  /\ pc[c] = "read"
  /\ val1' = [val1 EXCEPT ![c] = IF Shows(ask[c]) THEN {} ELSE Changed(readVal, ask[c])]
  /\ failed' = [failed EXCEPT ![c] = ReadLogs]
  /\ pc' = [pc EXCEPT ![c] = IF Shows(ask[c]) THEN "idle" ELSE "write"]
  /\ ask' = [ask EXCEPT ![c] = IF Shows(@) THEN None ELSE @]
  /\ UNCHANGED <<module, connection, info, latest, basis>>

\* writeVal; permitted says whether the command may write.
WriteFlags(c, permitted) ==
  /\ pc[c] = "write"
  /\ IF loaded /\ permitted
       THEN flags' = val1[c] /\ UNCHANGED failed
       ELSE failed' = [failed EXCEPT ![c] = TRUE] /\ UNCHANGED flags
  /\ pc' = [pc EXCEPT ![c] = "compare"]
  /\ UNCHANGED <<loaded, connection, ask, val1, info, latest, basis>>

\* Fault: what was written is not read again.
CompareNothing(c) ==
  /\ pc[c] = "compare"
  /\ pc' = [pc EXCEPT ![c] = "idle"]
  /\ UNCHANGED <<module, connection, ask, val1, info, failed, latest, basis>>

CompareFlags(c) ==
  /\ pc[c] = "compare"
  /\ failed' = [failed EXCEPT ![c] = @ \/ ReadLogs \/ readVal # val1[c]]
  /\ pc' = [pc EXCEPT ![c] = "idle"] /\ val1' = [val1 EXCEPT ![c] = {}]
  /\ ask' = [ask EXCEPT ![c] = None]
  /\ UNCHANGED <<module, connection, info, latest, basis>>

-----------------------------------------------------------------------------
(* The connection (external).                                              *)

\* The parameters of vgw_tcptrack_main for a zone in the range.
Tracked == loaded /\ "tcp_track" \in flags

\* s sends a segment of length l.  The other end answers with a RST if it has
\* closed.
Packet(s, l, recorded) ==
  /\ s \in open /\ nxt[s] + l <= MaxSeq
  /\ Tracked => recorded
  /\ last' = IF recorded THEN [seq |-> nxt[s], ack |-> nxt[Other(s)]] ELSE last
  /\ latest' = IF recorded THEN [from |-> s, len |-> l] ELSE None
  /\ basis' = [c \in Cmds |-> None]
  /\ nxt' = [nxt EXCEPT ![s] = @ + l]
  /\ open' = IF Other(s) \in open THEN open ELSE open \ {s}
  /\ UNCHANGED <<module, command>>

\* The number that s expects next.
Expected(s) == nxt[Other(s)]

-----------------------------------------------------------------------------
(* ct reset.                                                               *)

Reset(c) ==
  /\ pc[c] = "idle"
  /\ pc' = [pc EXCEPT ![c] = "dump"] /\ failed' = [failed EXCEPT ![c] = FALSE]
  /\ UNCHANGED <<module, connection, ask, val1, info, latest, basis>>

\* Fault: the numbers are not exchanged for the segment to the client.
TcpInfoSame == [seq |-> last.seq, ack |-> last.ack]

\* Fault: the segment starts one number after the one that is expected.
TcpInfoNext == [seq |-> last.ack + 1, ack |-> last.seq]

\* The segment to the client, as from the server.
TcpInfo == [seq |-> last.ack, ack |-> last.seq]

\* The dump of the zone; the numbers are in it if the module exports them.
GetTcpInfoFromConntrack(c) ==
  /\ pc[c] = "dump" /\ loaded /\ "export_tcp_track" \in flags
  /\ info' = [info EXCEPT ![c] = TcpInfo] /\ basis' = [basis EXCEPT ![c] = latest]
  /\ pc' = [pc EXCEPT ![c] = "rst"]
  /\ UNCHANGED <<module, connection, ask, val1, failed, latest>>

\* There is nothing to talk to, or nothing in the dump.
NoTcpInfo(c) ==
  /\ pc[c] = "dump" /\ ~(loaded /\ "export_tcp_track" \in flags)
  /\ failed' = [failed EXCEPT ![c] = TRUE] /\ pc' = [pc EXCEPT ![c] = "idle"]
  /\ UNCHANGED <<module, connection, ask, val1, info, latest, basis>>

\* The number of the segment to s; tcpInfo1 is tcpInfo with ends and numbers exchanged.
RstSeq(c, s) == IF s = "client" THEN info[c].seq ELSE info[c].ack

\* Whether it was sent or not, the command goes on.
SendTcpReset(c, s, sent) ==
  /\ open' = IF sent /\ RstSeq(c, s) = Expected(s) THEN open \ {s} ELSE open
  /\ failed' = [failed EXCEPT ![c] = @ \/ ~sent]

ResetClient(c, sent) ==
  /\ pc[c] = "rst"
  /\ SendTcpReset(c, "client", sent)
  /\ pc' = [pc EXCEPT ![c] = "rst1"]
  /\ UNCHANGED <<module, nxt, last, ask, val1, info, latest, basis>>

ResetServer(c, sent) ==
  /\ pc[c] = "rst1"
  /\ SendTcpReset(c, "server", sent)
  /\ pc' = [pc EXCEPT ![c] = "idle"] /\ info' = [info EXCEPT ![c] = None]
  /\ basis' = [basis EXCEPT ![c] = None]
  /\ UNCHANGED <<module, nxt, last, ask, val1, latest>>

-----------------------------------------------------------------------------

runCmdCtTrackFlag(c) ==
  \/ \E a \in Asks : Track(c, a)
  \/ ReadFlags(c) \/ CompareFlags(c)
  \/ \E permitted \in BOOLEAN : WriteFlags(c, permitted)

runCmdCtReset(c) ==
  \/ Reset(c) \/ GetTcpInfoFromConntrack(c) \/ NoTcpInfo(c)
  \/ \E sent \in BOOLEAN : ResetClient(c, sent) \/ ResetServer(c, sent)

Next ==
  \/ runModLoad \/ runModRemove
  \/ \E c \in Cmds : runCmdCtTrackFlag(c) \/ runCmdCtReset(c)
  \/ \E s \in Ends, l \in {0, 1}, recorded \in BOOLEAN : Packet(s, l, recorded)

Spec == Init /\ [][Next]_vars

-----------------------------------------------------------------------------
(* Properties.                                                             *)

\* Every variable has its type; the flags are those of a module that is loaded.
TypeOK ==
  /\ loaded \in BOOLEAN /\ flags \subseteq Flags /\ (~loaded => flags = {})
  /\ open \subseteq Ends /\ nxt \in [Ends -> 0..MaxSeq] /\ last \in Numbers
  /\ pc \in [Cmds -> {"idle", "read", "write", "compare", "dump", "rst", "rst1"}]
  /\ ask \in [Cmds -> Asks \cup {None}]
  /\ val1 \in [Cmds -> SUBSET Flags]
  /\ info \in [Cmds -> Numbers \cup {None}] /\ failed \in [Cmds -> BOOLEAN]
  /\ latest \in Packets \cup {None}
  /\ basis \in [Cmds -> Packets \cup {None}]

Fits(v, a) == \A f \in Flags : (a[f] = 1 => f \in v) /\ (a[f] = 0 => f \notin v)

\* What holds when a ct track ends.
TrackEnds ==
  \A c \in Cmds : pc[c] = "compare" /\ pc'[c] = "idle" /\ ~failed'[c]
    => loaded /\ Fits(flags, ask[c])

\* A ct track of which no step failed leaves the flags as it was asked to,
\* although others write them and the module comes and goes.
QuietMeansGranted == [][TrackEnds]_vars

\* What holds when a segment of a reset has been sent.
ResetStep ==
  \A c \in Cmds :
    basis[c] # None /\ pc[c] \in {"rst", "rst1"} /\ pc'[c] # pc[c] /\ ~failed'[c]
      => /\ basis[c].from = "client" => "client" \notin open'
         /\ basis[c] = [from |-> "client", len |-> 0] /\ pc[c] = "rst1" => open' = {}

\* A reset whose numbers are those of the latest packet, sent by the client,
\* closes the client, and the server too if that packet had no data.
ResetCloses == [][ResetStep]_vars
=============================================================================
