----------------------------- MODULE CliProofs ------------------------------
(***************************************************************************)
(* For any number of commands: ct track tells when it did not do what it   *)
(* was asked to, and ct reset closes the connection if it has the latest   *)
(* numbers.                                                                *)
(***************************************************************************)
EXTENDS Cli, TLAPS

Labels == {"idle", "read", "write", "compare", "dump", "rst", "rst1"}

TypeInv ==
  /\ loaded \in BOOLEAN /\ flags \subseteq Flags /\ (~loaded => flags = {})
  /\ pc \in [Cmds -> Labels] /\ ask \in [Cmds -> Asks \cup {None}]
  /\ val1 \in [Cmds -> SUBSET Flags] /\ failed \in [Cmds -> BOOLEAN]

\* What a command is about to write, or has written, is what it is asked for.
WriteInv ==
  \A c \in Cmds :
    /\ pc[c] \in {"read", "write", "compare"} => ask[c] \in Asks
    /\ pc[c] \in {"write", "compare"} => Fits(val1[c], ask[c])

TrackInv == TypeInv /\ WriteInv

\* setFlag does what it is asked.
LEMMA ChangedFits ==
  ASSUME NEW v \in SUBSET Flags, NEW a \in Ask
  PROVE  /\ Changed(v, a) \in SUBSET Flags /\ Fits(Changed(v, a), a)
BY DEF Changed, setFlag, Fits, Ask

LEMMA TrackInit == Init => TrackInv
BY DEF Init, TrackInv, TypeInv, WriteInv, Labels

LEMMA TrackStep == TrackInv /\ [Next]_vars => TrackInv'
<1> SUFFICES ASSUME TrackInv, [Next]_vars PROVE TrackInv'
  OBVIOUS
<1> USE DEF TrackInv
<1> /\ Asks \subseteq Ask /\ readVal \in SUBSET Flags
  BY AsksAssumption DEF TypeInv, readVal
<1>1. CASE runModLoad
  BY <1>1 DEF runModLoad, command, TypeInv, WriteInv, Flags
<1>2. CASE runModRemove
  BY <1>2 DEF runModRemove, command, TypeInv, WriteInv
<1>3. ASSUME NEW c \in Cmds, NEW a \in Asks, Track(c, a) PROVE TrackInv'
  BY <1>3 DEF Track, module, TypeInv, WriteInv, readVal, Labels
<1>4. ASSUME NEW c \in Cmds, ReadFlags(c) PROVE TrackInv'
  <2>1. ask[c] \in Asks /\ ask[c] \in Ask
    BY <1>4 DEF ReadFlags, WriteInv
  <2>2. Changed(readVal, ask[c]) \in SUBSET Flags /\ Fits(Changed(readVal, ask[c]), ask[c])
    BY <2>1, ChangedFits
  <2>3. TypeInv'
    BY <1>4, <2>2 DEF ReadFlags, module, TypeInv, Labels, ReadLogs
  <2>4. readVal' = readVal
    BY <1>4 DEF ReadFlags, module, readVal
  <2>5. ASSUME NEW d \in Cmds, d # c
        PROVE  pc'[d] = pc[d] /\ ask'[d] = ask[d] /\ val1'[d] = val1[d]
    BY <1>4, <2>5 DEF ReadFlags, TypeInv
  <2>6. CASE Shows(ask[c])
    <3>1. pc'[c] = "idle" BY <1>4, <2>6 DEF ReadFlags, TypeInv
    <3>2. WriteInv' BY <1>4, <2>4, <2>5, <3>1 DEF ReadFlags, WriteInv
    <3>3. QED BY <2>3, <3>2
  <2>7. CASE ~Shows(ask[c])
    <3>1. val1'[c] = Changed(readVal, ask[c]) /\ ask'[c] = ask[c] /\ pc'[c] = "write"
      BY <1>4, <2>7 DEF ReadFlags, TypeInv
    <3>2. WriteInv' BY <1>4, <2>1, <2>2, <2>4, <2>5, <3>1 DEF ReadFlags, WriteInv
    <3>3. QED BY <2>3, <3>2
  <2>8. QED BY <2>6, <2>7
<1>5. ASSUME NEW c \in Cmds, NEW permitted \in BOOLEAN, WriteFlags(c, permitted) PROVE TrackInv'
  <2>failed. failed' \in [Cmds -> BOOLEAN]
    BY <1>5, Zenon DEF WriteFlags, TypeInv
  <2>flags. loaded' = loaded /\ flags' \subseteq Flags /\ (~loaded' => flags' = {})
    BY <1>5 DEF WriteFlags, TypeInv
  <2>pc. pc' \in [Cmds -> Labels] /\ ask' = ask /\ val1' = val1
    BY <1>5 DEF WriteFlags, TypeInv, Labels
  <2>1. TypeInv'
    BY <2>failed, <2>flags, <2>pc DEF TypeInv
  <2>2. QED BY <1>5, <2>1, <2>pc DEF WriteFlags, TypeInv, WriteInv
<1>6. ASSUME NEW c \in Cmds, CompareFlags(c) PROVE TrackInv'
  BY <1>6 DEF CompareFlags, module, TypeInv, WriteInv, readVal, ReadLogs, Labels
<1>7. ASSUME NEW c \in Cmds, Reset(c) PROVE TrackInv'
  BY <1>7 DEF Reset, module, TypeInv, WriteInv, readVal, Labels
<1>8. ASSUME NEW c \in Cmds, GetTcpInfoFromConntrack(c) PROVE TrackInv'
  BY <1>8 DEF GetTcpInfoFromConntrack, module, TypeInv, WriteInv, readVal, Labels
<1>9. ASSUME NEW c \in Cmds, NoTcpInfo(c) PROVE TrackInv'
  BY <1>9 DEF NoTcpInfo, module, TypeInv, WriteInv, readVal, Labels
<1>10. ASSUME NEW c \in Cmds, NEW sent \in BOOLEAN, ResetClient(c, sent) PROVE TrackInv'
  BY <1>10 DEF ResetClient, SendTcpReset, module, TypeInv, WriteInv, readVal, Labels
<1>11. ASSUME NEW c \in Cmds, NEW sent \in BOOLEAN, ResetServer(c, sent) PROVE TrackInv'
  BY <1>11 DEF ResetServer, SendTcpReset, module, TypeInv, WriteInv, readVal, Labels
<1>12. ASSUME NEW s \in Ends, NEW l \in {0, 1}, NEW recorded \in BOOLEAN, Packet(s, l, recorded)
       PROVE  TrackInv'
  BY <1>12 DEF Packet, module, command, TypeInv, WriteInv, readVal
<1>13. CASE UNCHANGED vars
  BY <1>13 DEF vars, module, command, TypeInv, WriteInv, readVal
<1>14. QED
  BY <1>1, <1>2, <1>3, <1>4, <1>5, <1>6, <1>7, <1>8, <1>9, <1>10, <1>11, <1>12, <1>13
     DEF Next, runCmdCtTrackFlag, runCmdCtReset

LEMMA TrackEndsHolds == TrackInv /\ [Next]_vars => [TrackEnds]_vars
<1> SUFFICES ASSUME TrackInv, [Next]_vars, NEW c \in Cmds,
                    pc[c] = "compare", pc'[c] = "idle", ~failed'[c]
             PROVE  loaded /\ Fits(flags, ask[c])
  BY DEF TrackEnds
<1>1. CompareFlags(c)
  BY DEF TrackInv, TypeInv, Next, vars, command, runModLoad, runModRemove, runCmdCtTrackFlag,
         runCmdCtReset, Track, ReadFlags, WriteFlags, CompareFlags, Reset,
         GetTcpInfoFromConntrack, NoTcpInfo, ResetClient, ResetServer, Packet
<1>2. loaded /\ val1[c] = flags
  BY <1>1 DEF CompareFlags, TrackInv, TypeInv, ReadLogs, readVal
<1>3. Fits(val1[c], ask[c])
  BY DEF TrackInv, WriteInv
<1>4. QED BY <1>2, <1>3

\* A ct track of which no step failed has done what it was asked to do.
THEOREM QuietTheorem == Spec => QuietMeansGranted
<1>1. Init => TrackInv BY TrackInit
<1>2. TrackInv /\ [Next]_vars => TrackInv' BY TrackStep
<1>3. TrackInv /\ [Next]_vars => [TrackEnds]_vars BY TrackEndsHolds
<1>4. QED BY <1>1, <1>2, <1>3, PTL DEF Spec, QuietMeansGranted

-----------------------------------------------------------------------------
(* ct reset.                                                               *)

ConnType ==
  /\ open \subseteq Ends /\ nxt \in [Ends -> Nat]
  /\ latest \in Packets \cup {None} /\ basis \in [Cmds -> Packets \cup {None}]
  /\ pc \in [Cmds -> Labels] /\ failed \in [Cmds -> BOOLEAN]
  /\ info \in [Cmds -> [seq : Nat, ack : Nat] \cup {None}] /\ last \in [seq : Nat, ack : Nat]

\* The numbers are those of the packet p, and nothing was sent after it.
Current(p, seq, ack) == seq = nxt[p.from] - p.len /\ ack = nxt[Other(p.from)]

LatestInv == latest # None => Current(latest, last.seq, last.ack)

BasisInv ==
  \A c \in Cmds : basis[c] # None =>
    /\ pc[c] \in {"rst", "rst1"}
    /\ Current(basis[c], info[c].ack, info[c].seq)

\* The first segment has closed the client.
ClientInv ==
  \A c \in Cmds : (basis[c] # None /\ pc[c] = "rst1" /\ ~failed[c] /\ basis[c].from = "client")
    => "client" \notin open

ResetInv == ConnType /\ LatestInv /\ BasisInv /\ ClientInv

LEMMA ResetInit == Init => ResetInv
BY DEF Init, ResetInv, ConnType, LatestInv, BasisInv, ClientInv, Ends, Labels

\* A step that leaves the connection and the resets alone.
LEMMA ResetFrame ==
  ASSUME ResetInv, UNCHANGED <<open, nxt, last, latest, basis, info>>, NEW c \in Cmds,
         pc' \in [Cmds -> Labels], failed' \in [Cmds -> BOOLEAN], pc[c] \notin {"rst", "rst1"},
         \A d \in Cmds \ {c} : pc'[d] = pc[d] /\ failed'[d] = failed[d]
  PROVE  ResetInv'
<1>1. \A d \in Cmds : basis[d] # None => d # c
  BY DEF ResetInv, BasisInv
<1>2. QED BY <1>1 DEF ResetInv, ConnType, LatestInv, BasisInv, ClientInv, Current

LEMMA ResetInductive == ResetInv /\ [Next]_vars => ResetInv'
<1> SUFFICES ASSUME ResetInv, [Next]_vars PROVE ResetInv'
  OBVIOUS
<1>0. pc \in [Cmds -> Labels] /\ failed \in [Cmds -> BOOLEAN]
  BY DEF ResetInv, ConnType
<1>1. CASE runModLoad \/ runModRemove \/ UNCHANGED vars
  BY <1>1 DEF runModLoad, runModRemove, vars, connection, command, ResetInv, ConnType, LatestInv,
              BasisInv, ClientInv, Current
<1>2. ASSUME NEW c \in Cmds, runCmdCtTrackFlag(c) \/ Reset(c) \/ NoTcpInfo(c) PROVE ResetInv'
  <2>1. /\ UNCHANGED <<open, nxt, last, latest, basis, info>>
        /\ pc[c] \notin {"rst", "rst1"}
    BY <1>2 DEF runCmdCtTrackFlag, Track, ReadFlags, WriteFlags, CompareFlags, Reset, NoTcpInfo,
                connection
  <2>2. pc' \in [Cmds -> Labels] /\ \A d \in Cmds \ {c} : pc'[d] = pc[d]
    BY <1>0, <1>2 DEF runCmdCtTrackFlag, Track, ReadFlags, WriteFlags, CompareFlags, Reset,
                      NoTcpInfo, Labels
  <2>3. failed' \in [Cmds -> BOOLEAN] /\ \A d \in Cmds \ {c} : failed'[d] = failed[d]
    BY <1>0, <1>2, Zenon DEF runCmdCtTrackFlag, Track, ReadFlags, WriteFlags, CompareFlags, Reset,
                      NoTcpInfo, ReadLogs
  <2>4. QED BY <2>1, <2>2, <2>3, ResetFrame
<1>3. ASSUME NEW c \in Cmds, GetTcpInfoFromConntrack(c) PROVE ResetInv'
  BY <1>3 DEF GetTcpInfoFromConntrack, TcpInfo, connection, ResetInv, ConnType, LatestInv,
              BasisInv, ClientInv, Current, Labels
<1>4. ASSUME NEW c \in Cmds, NEW sent \in BOOLEAN, ResetClient(c, sent) PROVE ResetInv'
  BY <1>4 DEF ResetClient, SendTcpReset, RstSeq, Expected, ResetInv, ConnType, LatestInv, BasisInv,
              ClientInv, Current, Labels, Other, Ends
<1>5. ASSUME NEW c \in Cmds, NEW sent \in BOOLEAN, ResetServer(c, sent) PROVE ResetInv'
  BY <1>5 DEF ResetServer, SendTcpReset, RstSeq, Expected, ResetInv, ConnType, LatestInv, BasisInv,
              ClientInv, Current, Labels, Other, Ends
<1>6. ASSUME NEW s \in Ends, NEW l \in {0, 1}, NEW recorded \in BOOLEAN, Packet(s, l, recorded)
      PROVE  ResetInv'
  <2>1. basis' = [c \in Cmds |-> None] /\ pc' = pc /\ failed' = failed /\ info' = info
    BY <1>6 DEF Packet, command
  <2>2. BasisInv' /\ ClientInv'
    BY <2>1 DEF BasisInv, ClientInv
  <2>3. /\ nxt[s] \in Nat /\ nxt[Other(s)] \in Nat /\ Other(s) \in Ends /\ Other(s) # s
    BY DEF ResetInv, ConnType, Other, Ends
  <2>4. ConnType'
    <3>1. latest' \in Packets \cup {None} /\ last' \in [seq : Nat, ack : Nat]
      BY <1>6, <2>3 DEF Packet, Packets, ResetInv, ConnType
    <3>2. nxt' \in [Ends -> Nat] /\ open' \subseteq Ends
      BY <1>6, <2>3 DEF Packet, ResetInv, ConnType
    <3> QED BY <2>1, <3>1, <3>2 DEF ResetInv, ConnType
  <2>5. LatestInv'
    BY <1>6, <2>3 DEF Packet, LatestInv, Current, ResetInv, ConnType
  <2> QED BY <2>2, <2>4, <2>5 DEF ResetInv
<1>7. QED
  BY <1>1, <1>2, <1>3, <1>4, <1>5, <1>6 DEF Next, runCmdCtReset

LEMMA ResetStepHolds == ResetInv /\ [Next]_vars => [ResetStep]_vars
<1> SUFFICES ASSUME ResetInv, [Next]_vars, NEW c \in Cmds, basis[c] # None,
                    pc[c] \in {"rst", "rst1"}, pc'[c] # pc[c], ~failed'[c],
                    basis[c].from = "client"
             PROVE  /\ "client" \notin open'
                    /\ (basis[c].len = 0 /\ pc[c] = "rst1") => open' = {}
  BY DEF ResetStep
<1>1. PICK sent \in BOOLEAN : ResetClient(c, sent) \/ ResetServer(c, sent)
  BY DEF ResetInv, ConnType, Next, vars, command, runModLoad, runModRemove, runCmdCtTrackFlag,
         runCmdCtReset, Track, ReadFlags, WriteFlags, CompareFlags, Reset,
         GetTcpInfoFromConntrack, NoTcpInfo, ResetClient, ResetServer, Packet
<1>2. sent /\ ~failed[c]
  BY <1>1 DEF ResetClient, ResetServer, SendTcpReset, ResetInv, ConnType
<1>3. CASE ResetClient(c, sent)
  BY <1>2, <1>3 DEF ResetClient, SendTcpReset, RstSeq, Expected, ResetInv, BasisInv, Current, Other
<1>4. CASE ResetServer(c, sent)
  BY <1>2, <1>4 DEF ResetServer, SendTcpReset, RstSeq, Expected, ResetInv, ConnType, BasisInv,
                    ClientInv, Current, Other, Ends
<1>5. QED BY <1>1, <1>3, <1>4

\* A ct reset whose numbers are those of the latest packet, sent by the client,
\* closes the client, and the server too if that packet had no data.
THEOREM ResetTheorem == Spec => ResetCloses
<1>1. Init => ResetInv BY ResetInit
<1>2. ResetInv /\ [Next]_vars => ResetInv' BY ResetInductive
<1>3. ResetInv /\ [Next]_vars => [ResetStep]_vars BY ResetStepHolds
<1>4. QED BY <1>1, <1>2, <1>3, PTL DEF Spec, ResetCloses

-----------------------------------------------------------------------------
(* Types.                                                                  *)

BoundInv == nxt \in [Ends -> 0..MaxSeq] /\ last \in Numbers /\ info \in [Cmds -> Numbers \cup {None}]

LEMMA BoundStep == BoundInv /\ [Next]_vars => BoundInv'
<1> SUFFICES ASSUME BoundInv, [Next]_vars PROVE BoundInv'
  OBVIOUS
<1>1. ASSUME NEW c \in Cmds, GetTcpInfoFromConntrack(c) PROVE BoundInv'
  BY <1>1 DEF GetTcpInfoFromConntrack, TcpInfo, connection, BoundInv, Numbers
<1>2. ASSUME NEW s \in Ends, NEW l \in {0, 1}, NEW recorded \in BOOLEAN, Packet(s, l, recorded)
      PROVE  BoundInv'
  <2>1. nxt[s] \in 0..MaxSeq /\ nxt[Other(s)] \in 0..MaxSeq
    BY DEF BoundInv, Other, Ends
  <2> QED
    BY <1>2, <2>1, MaxSeqAssumption DEF Packet, command, BoundInv, Numbers
<1>3. ASSUME NEW c \in Cmds, NEW sent \in BOOLEAN, ResetServer(c, sent) PROVE BoundInv'
  BY <1>3 DEF ResetServer, BoundInv
<1>4. CASE UNCHANGED <<nxt, last, info>>
  BY <1>4 DEF BoundInv
<1> QED
  BY <1>1, <1>2, <1>3, <1>4
     DEF Next, vars, connection, command, runModLoad, runModRemove, runCmdCtTrackFlag, runCmdCtReset,
         Track, ReadFlags, WriteFlags, CompareFlags, Reset, NoTcpInfo, ResetClient

\* Every variable keeps its type, and tcptrack_flags has flags only while the
\* module is loaded.
THEOREM Typing == Spec => []TypeOK
<1>1. Init => BoundInv
  BY MaxSeqAssumption DEF Init, BoundInv, Numbers, Ends
<1>2. TrackInv /\ ResetInv /\ BoundInv => TypeOK
  BY DEF TrackInv, TypeInv, ResetInv, ConnType, BoundInv, TypeOK, Labels
<1> QED
  BY <1>1, <1>2, BoundStep, TrackInit, TrackStep, ResetInit, ResetInductive, PTL DEF Spec
=============================================================================
