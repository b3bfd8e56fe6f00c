----------------------------- MODULE DumpTable ------------------------------
(***************************************************************************)
(* A netlink dump of the conntrack table: ctnetlink_start,                 *)
(* ctnetlink_dump_table and ctnetlink_done of vgw_ct_netlink.c.            *)
(*                                                                         *)
(* The dump is a coroutine.  netlink calls ctnetlink_dump_table once for   *)
(* every message buffer; in between, only the cursor survives: the bucket  *)
(* args[0] and the entry args[1] that did not fit, which the cursor keeps  *)
(* a reference to.  A bucket is walked with its lock held; entries come    *)
(* and go, expire, and the whole table is resized whenever it is not.      *)
(***************************************************************************)
EXTENDS Integers, Sequences, FiniteSets, SequencesExt

CONSTANTS Conns,       \* entries
          None,        \* NULL
          SameNet,     \* entries of the network namespace of the socket
          Match,       \* entries that ctnetlink_filter_match accepts at first
          Fickle,      \* entries whose mark or status changes
          Hash,        \* hash value of each node, before the modulus
          Sizes,       \* sizes the table may have
          EvictMax,    \* ARRAY_SIZE(nf_ct_evict), 8 in the code
          MaxRoom,     \* bound: entries that fit into one message buffer
          MaxChanges,  \* bound: changes of the table during one dump
          MaxResizes   \* bound: changes of the number of buckets

\* Each entry is in the table twice, once for each direction.
Dirs == {"orig", "reply"}
Nodes == [ct : Conns, dir : Dirs]

ASSUME ConnsAssumption == IsFiniteSet(Conns) /\ None \notin Conns
ASSUME FilterAssumption == SameNet \subseteq Conns /\ Match \subseteq Conns /\ Fickle \subseteq Conns
ASSUME HashAssumption == Hash \in [Nodes -> Nat]
ASSUME SizesAssumption == Sizes \subseteq Nat \ {0} /\ \E n \in Sizes : \A m \in Sizes : m <= n
ASSUME BoundsAssumption == EvictMax \in Nat /\ MaxRoom \in Nat \ {0} /\ MaxChanges \in Nat /\ MaxResizes \in Nat

VARIABLES
  \* the table: number of buckets and how often it changed, the chain of each
  \* bucket, entries past their timeout, entries that the filter
  \* matches, reference counts
  size, resizes, chain, expired, match, use,
  \* the cursor cb->args[0] and cb->args[1]
  bucket, arg1,
  \* the callback: position, its copy of args[1], the deferred evictions, the
  \* room left in the buffer, the next node of the chain, whether anything
  \* was put into the buffer
  phase, last, evict, room, node, filled,
  \* history: how often each entry was reported, the entries that have been in
  \* the table all along, whether a bucket was walked again, changes so far
  sent, stable, restarted, changes

table == <<size, resizes, chain, expired, match>>
cursor == <<bucket, arg1>>
callback == <<phase, last, evict, room, node, filled>>
history == <<sent, stable, restarted, changes>>
vars == <<table, use, cursor, callback, history>>

AllBuckets == 0..(CHOOSE n \in Sizes : \A m \in Sizes : m <= n) - 1

BucketOf(n, s) == Hash[n] % s
InTable(c) == \E b \in DOMAIN chain : \E i \in DOMAIN chain[b] : chain[b][i].ct = c

\* ctnetlink_filter_match and net_eq, for the entries that the dump reports.
Wanted == SameNet \cap match

Orig(c) == [ct |-> c, dir |-> "orig"]
Reply(c) == [ct |-> c, dir |-> "reply"]

\* The lock of the bucket of the cursor is held while it is walked.
Locked(b) == phase = "walk" /\ b = bucket
Unlocked(c) == ~Locked(BucketOf(Orig(c), size)) /\ ~Locked(BucketOf(Reply(c), size))

\* Both nodes of an entry are unlinked.
Without(ch, c) == [b \in DOMAIN ch |-> RemoveFirst(RemoveFirst(ch[b], Orig(c)), Reply(c))]

Init ==
  /\ size \in Sizes /\ resizes = 0
  /\ chain = [b \in AllBuckets |-> <<>>]
  /\ expired = {} /\ match = Match
  /\ use = [c \in Conns |-> 0]
  /\ bucket = 0 /\ arg1 = None
  /\ phase = "idle" /\ last = None /\ evict = <<>> /\ room = 0 /\ node = 1 /\ filled = FALSE
  /\ sent = [c \in Conns |-> 0] /\ stable = {} /\ restarted = FALSE /\ changes = 0

-----------------------------------------------------------------------------
(* The rest of the kernel (external).                                      *)

\* Changes are counted during a dump only.
Change == /\ changes < MaxChanges
          /\ changes' = IF phase = "idle" THEN changes ELSE changes + 1

\* A new entry enters both of its buckets at the head.
Insert(c) ==
  /\ Change
  /\ use[c] = 0 /\ Unlocked(c)
  /\ chain' = [b \in AllBuckets |->
                 (IF BucketOf(Reply(c), size) = b THEN <<Reply(c)>> ELSE <<>>)
                   \o (IF BucketOf(Orig(c), size) = b THEN <<Orig(c)>> ELSE <<>>) \o chain[b]]
  /\ use' = [use EXCEPT ![c] = 1]
  /\ sent' = [sent EXCEPT ![c] = 0]
  /\ UNCHANGED <<size, resizes, match, expired, cursor, callback, stable, restarted>>

\* An entry leaves the table, which drops its reference.
Delete(c) ==
  /\ Change
  /\ InTable(c) /\ Unlocked(c)
  /\ chain' = Without(chain, c)
  /\ use' = [use EXCEPT ![c] = @ - 1]
  /\ expired' = expired \ {c}
  /\ stable' = stable \ {c}
  /\ UNCHANGED <<size, resizes, match, cursor, callback, sent, restarted>>

\* The timeout of an entry passes.
Expire(c) ==
  /\ Change
  /\ InTable(c) /\ c \notin expired
  /\ expired' = expired \cup {c}
  /\ stable' = stable \ {c}
  /\ UNCHANGED <<size, resizes, match, chain, use, cursor, callback, sent, restarted>>

\* nf_conntrack_hash_resize takes every bucket lock and moves the nodes one by
\* one to the heads of their new buckets.
Resize(s) ==
  LET all == FlattenSeq([i \in 1..size |-> chain[i-1]]) IN
  /\ Change
  /\ s # size /\ phase # "walk" /\ resizes < MaxResizes
  /\ size' = s /\ resizes' = resizes + 1
  /\ chain' = [b \in AllBuckets |-> Reverse(SelectSeq(all, LAMBDA n : BucketOf(n, s) = b))]
  /\ UNCHANGED <<match, expired, use, cursor, callback, sent, stable, restarted>>

\* The mark or the status of an entry changes, and with it what the filter says.
Remark(c) ==
  /\ Change
  /\ c \in Fickle
  /\ match' = IF c \in match THEN match \ {c} ELSE match \cup {c}
  /\ stable' = stable \ {c}
  /\ UNCHANGED <<size, resizes, chain, expired, use, cursor, callback, sent, restarted>>

-----------------------------------------------------------------------------
(* The dump.                                                               *)

ctnetlink_start ==
  /\ phase = "idle"
  /\ phase' = "between"
  /\ bucket' = 0 /\ arg1' = None
  /\ sent' = [c \in Conns |-> 0]
  /\ stable' = {c \in Wanted : InTable(c) /\ c \notin expired}
  /\ restarted' = FALSE /\ changes' = 0
  /\ UNCHANGED <<table, use, last, evict, room, node, filled>>

\* netlink calls ctnetlink_dump_table with an empty buffer.
Callback(r) ==
  /\ phase = "between"
  /\ last' = arg1
  /\ room' = r /\ filled' = FALSE
  /\ phase' = "loop"
  /\ UNCHANGED <<table, use, cursor, evict, node, history>>

\* The loop ends behind the last bucket.
ForBucket ==
  /\ phase = "loop"
  /\ phase' = IF bucket < size THEN "restart" ELSE "out"
  /\ UNCHANGED <<table, use, cursor, last, evict, room, node, filled, history>>

\* restart: deferred nf_ct_kill of one entry, if nobody refreshed or killed it
\* meanwhile, and nf_ct_put.  Both ends of the function do the same.
KillEvicted ==
  LET c == evict[Len(evict)] IN
  /\ phase \in {"restart", "return"} /\ evict # <<>>
  /\ evict' = Front(evict)
  /\ IF c \in expired /\ InTable(c)
       THEN /\ chain' = Without(chain, c)
            /\ expired' = expired \ {c}
            /\ use' = [use EXCEPT ![c] = @ - 2]
       ELSE /\ use' = [use EXCEPT ![c] = @ - 1]
            /\ UNCHANGED <<chain, expired>>
  /\ UNCHANGED <<size, resizes, match, cursor, phase, last, room, node, filled, history>>

\* The size is read again under the lock.
LockBucket ==
  /\ phase = "restart" /\ evict = <<>>
  /\ IF bucket < size THEN phase' = "walk" /\ node' = 1
                      ELSE phase' = "out" /\ UNCHANGED node
  /\ UNCHANGED <<table, use, cursor, last, evict, room, filled, history>>

Here == chain[bucket][node]
Walking == phase = "walk" /\ node <= Len(chain[bucket])

\* Fault: the deferred eviction takes no reference.
VisitExpiredNoRef ==
  /\ Walking /\ Here.ct \in expired
  /\ evict' = IF Len(evict) < EvictMax THEN Append(evict, Here.ct) ELSE evict
  /\ node' = node + 1
  /\ UNCHANGED <<table, use, cursor, phase, last, room, filled, history>>

\* An expired entry is remembered for eviction while the array has room.
VisitExpired ==
  LET c == Here.ct IN
  /\ Walking /\ c \in expired
  /\ IF Len(evict) < EvictMax THEN /\ evict' = Append(evict, c)
                                   /\ use' = [use EXCEPT ![c] = @ + 1]
                              ELSE UNCHANGED <<evict, use>>
  /\ node' = node + 1
  /\ UNCHANGED <<table, cursor, phase, last, room, filled, history>>

\* Another namespace, the reply direction, or not yet at the entry to resume at.
Skipped(n) == \/ n.ct \notin SameNet
              \/ n.dir # "orig"
              \/ arg1 # None /\ n.ct # last

VisitSkipped ==
  /\ Walking /\ Here.ct \notin expired /\ Skipped(Here)
  /\ node' = node + 1
  /\ UNCHANGED <<table, use, cursor, phase, last, evict, room, filled, history>>

VisitUnmatched ==
  /\ Walking /\ Here.ct \notin expired /\ ~Skipped(Here) /\ Here.ct \notin match
  /\ arg1' = None
  /\ node' = node + 1
  /\ UNCHANGED <<table, use, bucket, phase, last, evict, room, filled, history>>

\* ctnetlink_fill_info succeeds.
VisitReported ==
  LET c == Here.ct IN
  /\ Walking /\ c \notin expired /\ ~Skipped(Here) /\ c \in match /\ room > 0
  /\ arg1' = None
  /\ room' = room - 1 /\ filled' = TRUE
  /\ sent' = [sent EXCEPT ![c] = @ + 1]
  /\ node' = node + 1
  /\ UNCHANGED <<table, use, bucket, phase, last, evict, stable, restarted, changes>>

\* ctnetlink_fill_info fails: the entry becomes the cursor.
VisitNoRoom ==
  LET c == Here.ct IN
  /\ Walking /\ c \notin expired /\ ~Skipped(Here) /\ c \in match /\ room = 0
  /\ arg1' = c
  /\ use' = [use EXCEPT ![c] = @ + 1]
  /\ phase' = "out"
  /\ UNCHANGED <<table, bucket, last, evict, room, node, filled, history>>

\* Fault: the dump moves on if the entry to resume at was not there.
UnlockBucketNoRestart ==
  /\ phase = "walk" /\ node > Len(chain[bucket])
  /\ phase' = "loop"
  /\ arg1' = None /\ bucket' = bucket + 1
  /\ UNCHANGED <<table, use, last, evict, room, node, filled, history>>

\* Fault: the entry to resume at is not forgotten before the bucket is walked again.
UnlockBucketKeepsCursor ==
  /\ phase = "walk" /\ node > Len(chain[bucket])
  /\ IF arg1 # None THEN phase' = "restart" /\ restarted' = TRUE /\ UNCHANGED bucket
                    ELSE phase' = "loop" /\ bucket' = bucket + 1 /\ UNCHANGED restarted
  /\ UNCHANGED <<table, use, arg1, last, evict, room, node, filled, sent, stable, changes>>

\* The end of the chain: the bucket is walked again if the entry to resume at
\* was not there.
UnlockBucket ==
  /\ phase = "walk" /\ node > Len(chain[bucket])
  /\ IF arg1 # None THEN phase' = "restart" /\ arg1' = None /\ restarted' = TRUE /\ UNCHANGED bucket
                    ELSE phase' = "loop" /\ bucket' = bucket + 1 /\ UNCHANGED <<arg1, restarted>>
  /\ UNCHANGED <<table, use, last, evict, room, node, filled, sent, stable, changes>>

\* Fault: the reference of the previous callback is kept while the dump goes on.
PutLastIfDone ==
  /\ phase = "out"
  /\ phase' = "return"
  /\ arg1' = IF last # None /\ arg1 = last THEN None ELSE arg1
  /\ use' = IF last # None /\ arg1 = None THEN [use EXCEPT ![last] = @ - 1] ELSE use
  /\ last' = None
  /\ UNCHANGED <<table, bucket, evict, room, node, filled, history>>

\* out: the reference of the previous callback is dropped.
PutLast ==
  /\ phase = "out"
  /\ phase' = "return"
  /\ arg1' = IF last # None /\ arg1 = last THEN None ELSE arg1
  /\ use' = IF last # None THEN [use EXCEPT ![last] = @ - 1] ELSE use
  /\ last' = None
  /\ UNCHANGED <<table, bucket, evict, room, node, filled, history>>

\* return skb->len: netlink calls again until a buffer stays empty.
Return ==
  /\ phase = "return" /\ evict = <<>>
  /\ phase' = IF filled THEN "between" ELSE "complete"
  /\ UNCHANGED <<table, use, cursor, last, evict, room, node, filled, history>>

\* ctnetlink_done, when the dump is complete or when its socket is closed.
ctnetlink_done ==
  /\ phase \in {"between", "complete"}
  /\ phase' = "idle"
  /\ use' = IF arg1 # None THEN [use EXCEPT ![arg1] = @ - 1] ELSE use
  /\ arg1' = None /\ bucket' = 0
  /\ sent' = [c \in Conns |-> 0] /\ stable' = {} /\ restarted' = FALSE /\ changes' = 0
  /\ room' = 0 /\ node' = 1 /\ filled' = FALSE
  /\ UNCHANGED <<table, last, evict>>

Dump == \/ \E r \in 1..MaxRoom : Callback(r)
        \/ ForBucket \/ KillEvicted \/ LockBucket
        \/ VisitExpired \/ VisitSkipped \/ VisitUnmatched \/ VisitReported \/ VisitNoRoom
        \/ UnlockBucket \/ PutLast \/ Return

Next == \/ \E c \in Conns : Insert(c) \/ Delete(c) \/ Expire(c) \/ Remark(c)
        \/ \E s \in Sizes : Resize(s)
        \/ ctnetlink_start \/ Dump \/ ctnetlink_done

Spec == Init /\ [][Next]_vars

\* The receiver of the dump keeps reading; the socket may still be closed.
FairSpec == Spec /\ WF_vars(Dump) /\ WF_vars(phase = "complete" /\ ctnetlink_done)

-----------------------------------------------------------------------------
(* Properties.                                                             *)

Count(s, c) == Cardinality({i \in DOMAIN s : s[i] = c})

\* Every variable has its type.
TypeOK ==
  /\ size \in Sizes /\ resizes \in 0..MaxResizes
  /\ DOMAIN chain = AllBuckets /\ \A b \in AllBuckets : Range(chain[b]) \subseteq Nodes
  /\ expired \subseteq Conns /\ match \subseteq Conns
  /\ use \in [Conns -> Nat]
  /\ bucket \in Nat /\ arg1 \in Conns \cup {None} /\ last \in Conns \cup {None}
  /\ phase \in {"idle", "between", "loop", "restart", "walk", "out", "return", "complete"}
  /\ Range(evict) \subseteq Conns
  /\ room \in 0..MaxRoom /\ node \in Nat \ {0} /\ filled \in BOOLEAN
  /\ sent \in [Conns -> Nat] /\ stable \subseteq Conns
  /\ restarted \in BOOLEAN /\ changes \in 0..MaxChanges

\* The references are the table's, the deferred evictions', the one of the
\* previous cursor and the one of the next.
Balanced ==
  \A c \in Conns :
    use[c] = (IF InTable(c) THEN 1 ELSE 0) + Count(evict, c)
               + (IF last = c THEN 1 ELSE 0)
               + (IF arg1 = c /\ phase \notin {"loop", "restart", "walk"} /\ ~(phase = "out" /\ arg1 = last)
                    THEN 1 ELSE 0)

PointersAlive == \A c \in {last, arg1} \cup Range(evict) : c # None => use[c] > 0

\* While the size of the table stays, every reference is accounted for, so that
\* nothing is left when the dump ends; and whether it stays or not, the entries
\* that the dump has pointers to are not freed.
RefsBalanced == (resizes = 0 => Balanced) /\ PointersAlive

\* "nf ct hash resize happened, now clear the leftover" (ctnetlink_dump_table):
\* no reference is left when the dump is over.
NothingLeftOver ==
  phase = "idle" => \A c \in Conns : use[c] = IF InTable(c) THEN 1 ELSE 0

\* An entry that was in the table, unexpired, from the start to the end of a
\* complete dump is reported, however many buffers it takes and whatever comes
\* and goes around it (the size of the table excepted); and an entry is reported
\* twice only if the entry to resume at disappeared.
ReportedOnce ==
  resizes = 0 => /\ phase = "complete" => \A c \in stable : sent[c] > 0
                 /\ ~restarted => \A c \in Conns : sent[c] <= 1

\* A dump whose receiver reads on comes to its end.
DumpEnds == (phase = "between") ~> (phase = "idle")
=============================================================================
