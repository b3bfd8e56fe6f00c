------------------------------- MODULE Events -------------------------------
(***************************************************************************)
(* Events to netlink listeners and the list of dying entries.              *)
(*                                                                         *)
(* The kernel's event cache calls ctnetlink_conntrack_event for an entry;  *)
(* a negative result makes it keep the events of a living entry (missed)   *)
(* and put an entry whose DESTROY failed on the dying list, where a worker *)
(* tries again.  ctnetlink_dump_dying reports that list in several         *)
(* callbacks with a cursor that holds a reference.                         *)
(*                                                                         *)
(* One call of an event handler is one step: it looks at nothing that      *)
(* another step changes but the queues, and each of them once.  One        *)
(* callback of the dump is one step, too: it holds dying_lock throughout.  *)
(***************************************************************************)
EXTENDS Integers, SequencesExt

CONSTANTS Cts,         \* conntrack entries; each is created and deleted once
          Listeners,   \* netlink sockets in multicast groups
          Dumps,       \* netlink sockets that ask for the dying entries
          None,        \* NULL
          Groups,      \* Listener -> the groups it has joined
          Options,     \* Listener -> the socket options it has set
          Requesters,  \* the listeners that also send requests and want reports
          Family,      \* Cts -> l3 protocol number
          Asked,       \* the l3 protocol numbers that dumps ask for, besides 0
          Related,     \* the entries that have a master
          QueueLen,    \* Listener -> bound: messages that its receive buffer takes
          RoomMax      \* bound: entries that fit into the buffer of a callback

CtGroups == {"new", "update", "destroy"}
ExpGroups == {"exp_new", "exp_destroy"}

\* NETLINK_BROADCAST_ERROR makes an overrun the sender's failure, and
\* NETLINK_NO_ENOBUFS turns off ENOBUFS on the receiver's socket.
SocketOptions == {"broadcast_error", "no_enobufs"}

\* The bits of events: UPDATE stands for every other bit of enum ip_conntrack_events.
CtEvents == {"NEW", "RELATED", "UPDATE", "DESTROY"}

ASSUME ListenerAssumption == /\ Groups \in [Listeners -> SUBSET (CtGroups \cup ExpGroups)]
                             /\ Options \in [Listeners -> SUBSET SocketOptions]
                             /\ Requesters \subseteq Listeners
ASSUME EntryAssumption == /\ Family \in [Cts -> Nat \ {0}] /\ Related \subseteq Cts
                          /\ None \notin Cts \cup Listeners /\ IsFiniteSet(Dumps)
ASSUME BoundAssumption == QueueLen \in [Listeners -> Nat \ {0}] /\ RoomMax \in Nat \ {0}

VARIABLES
  phase,       \* of an entry: "none", "live", "dying" or "gone" (no longer tracked)
  use,         \* references to an entry
  missed,      \* e->missed: events of a living entry that were not delivered
  dying,       \* ecache_net->dying_list, from its head
  queue,       \* messages in each receive buffer: how many
  err,         \* sk_err: the next recvmsg returns ENOBUFS
  congested,   \* NETLINK_S_CONGESTED: messages are dropped until the buffer is empty
  \* dumps: position, ctx->last, ctx->done and the family asked for
  dpc, last, done, fam,
  \* history: the entries of which a listener lost a message and has got none
  \* since, until it is over an error that it was told; what a dump has reported,
  \* which entries were on the list since it began, and whether its cursor has
  \* left the list
  lost, reported, stable, strayed

entryVars == <<phase, use, missed, dying>>
sockVars == <<queue, err, congested, lost>>
dumpVars == <<dpc, last, done, fam, reported, stable, strayed>>
vars == <<entryVars, sockVars, dumpVars>>

Init ==
  /\ phase = [c \in Cts |-> "none"]
  /\ use = [c \in Cts |-> 0]
  /\ missed = [c \in Cts |-> {}]
  /\ dying = <<>>
  /\ queue = [l \in Listeners |-> 0]
  /\ err = [l \in Listeners |-> FALSE]
  /\ congested = [l \in Listeners |-> FALSE]
  /\ lost = [l \in Listeners |-> {}]
  /\ dpc = [d \in Dumps |-> "idle"]
  /\ last = [d \in Dumps |-> None]
  /\ done = [d \in Dumps |-> FALSE]
  /\ fam = [d \in Dumps |-> 0]
  /\ reported = [d \in Dumps |-> {}]
  /\ stable = [d \in Dumps |-> {}]
  /\ strayed = [d \in Dumps |-> FALSE]

-----------------------------------------------------------------------------
(* Sending (nfnetlink_send and nfnetlink_set_err are external).            *)

Members(group) == {l \in Listeners : group \in Groups[l]}

\* The socket takes no message: its buffer is full, or was and is not yet empty.
Blocked(l) == queue[l] >= QueueLen[l] \/ congested[l]
Tells(l) == "no_enobufs" \notin Options[l]

\* nfnetlink_send: to the members of the group, and to the requester that
\* wants a report, which then gets one copy only.
Addressed(group, portid) == Members(group) \cup ({portid} \ {None})

\* A socket that is overrun is congested; the error is raised when that begins.
nfnetlink_send(to) ==
  LET overrun == {l \in to : Blocked(l) /\ Tells(l)} IN
  /\ queue' = [l \in Listeners |-> IF l \in to /\ ~Blocked(l) THEN queue[l] + 1 ELSE queue[l]]
  /\ err' = [l \in Listeners |-> err[l] \/ (l \in overrun /\ ~congested[l])]
  /\ congested' = [l \in Listeners |-> congested[l] \/ l \in overrun]

\* nfnetlink_set_err: ENOBUFS on the sockets of the members.
nfnetlink_set_err(members) ==
  /\ err' = [l \in Listeners |-> err[l] \/ (l \in members /\ Tells(l))]
  /\ UNCHANGED <<queue, congested>>

\* The members that lose sight of c, who do not get the message.
Losing(group, c, got) ==
  lost' = [l \in Listeners |-> IF l \notin Members(group) THEN lost[l]
                               ELSE IF l \in got THEN lost[l] \ {c}
                               ELSE lost[l] \cup {c}]

-----------------------------------------------------------------------------
(* ctnetlink_conntrack_event and ctnetlink_expect_event.                   *)

EventGroup(events) ==
  IF "DESTROY" \in events THEN "destroy"
  ELSE IF events \cap {"NEW", "RELATED"} # {} THEN "new"
  ELSE "update"

ExpEventGroup(event) == IF event = "DESTROY" THEN "exp_destroy" ELSE "exp_new"

\* Fault: every overrun is a failure, whether the listener asked for that or not.
UndeliveredToAnybody(to, portid) == \E l \in to : Blocked(l)

\* nfnetlink_send returns EAGAIN when the requester's socket is blocked,
\* and ENOBUFS when that of a listener is that has set NETLINK_BROADCAST_ERROR.
Undelivered(to, portid) ==
  \E l \in to : Blocked(l) /\ (l = portid \/ "broadcast_error" \in Options[l])

\* Fault: what could not be put into a message counts as delivered.
NobodyRelies(group) == FALSE

\* errout: nfnetlink_set_err returns how many listeners have turned ENOBUFS off.
SomebodyRelies(group) == \E l \in Members(group) : ~Tells(l)

\* Fault: the error goes to group 0, as in ctnetlink_expect_event.
ConntrackErroutNobody(c, group, ok) ==
  /\ nfnetlink_set_err({})
  /\ ok = ~SomebodyRelies(group)
  /\ Losing(group, c, {})

\* The message was not allocated, or an attribute did not fit.
ConntrackErrout(c, group, ok) ==
  /\ nfnetlink_set_err(Members(group))
  /\ ok = ~SomebodyRelies(group)
  /\ Losing(group, c, {})

\* ok: the handler returns 0.  portid is None unless item->report.
ctnetlink_conntrack_event(c, events, portid, ok) ==
  LET group == EventGroup(events)
      to == Addressed(group, portid) IN
  IF to = {}
    THEN ok /\ UNCHANGED sockVars
    ELSE \/ /\ nfnetlink_send(to)
            /\ ok = ~Undelivered(to, portid)
            /\ Losing(group, c, {l \in to : ~Blocked(l)})
         \/ ConntrackErrout(c, group, ok)

\* An event of an expectation is never tried again, and errout tells group 0,
\* which is nobody.
ctnetlink_expect_event(event, portid) ==
  LET to == Addressed(ExpEventGroup(event), portid) IN
  /\ IF to = {} THEN UNCHANGED <<queue, err, congested>>
                ELSE nfnetlink_send(to) \/ nfnetlink_set_err({})
  /\ UNCHANGED <<lost, entryVars, dumpVars>>

-----------------------------------------------------------------------------
(* The kernel's event cache (external).                                    *)

Missed(c, events, ok) ==
  missed' = [missed EXCEPT ![c] = IF ok THEN {} ELSE @ \cup events]

\* A packet or a request creates an entry.
NewEntry(c, portid, ok) ==
  LET events == {IF c \in Related THEN "RELATED" ELSE "NEW"} IN
  /\ phase[c] = "none"
  /\ phase' = [phase EXCEPT ![c] = "live"]
  /\ use' = [use EXCEPT ![c] = 1]
  /\ ctnetlink_conntrack_event(c, events, portid, ok)
  /\ Missed(c, events, ok)
  /\ UNCHANGED <<dying, dumpVars>>

\* A packet or a request changes the entry; what was missed goes along.
Update(c, portid, ok) ==
  /\ phase[c] = "live"
  /\ ctnetlink_conntrack_event(c, {"UPDATE"} \cup missed[c], portid, ok)
  /\ Missed(c, {"UPDATE"}, ok)
  /\ UNCHANGED <<phase, use, dying, dumpVars>>

\* nf_ct_delete: the table's reference goes to the dying list if the listeners
\* could not be told.
Delete(c, portid, ok) ==
  /\ phase[c] = "live"
  /\ ctnetlink_conntrack_event(c, {"DESTROY"} \cup missed[c], portid, ok)
  /\ Missed(c, {"DESTROY"}, ok)
  /\ IF ok THEN /\ phase' = [phase EXCEPT ![c] = "gone"]
                /\ use' = [use EXCEPT ![c] = @ - 1]
                /\ UNCHANGED dying
           ELSE /\ phase' = [phase EXCEPT ![c] = "dying"]
                /\ dying' = <<c>> \o dying
                /\ UNCHANGED use
  /\ UNCHANGED dumpVars

\* ecache_work: from the head of the list, until a listener has no room.
Worker(ok) ==
  LET c == Head(dying) IN
  /\ dying # <<>>
  /\ ctnetlink_conntrack_event(c, missed[c], None, ok)
  /\ Missed(c, {}, ok)
  /\ IF ok THEN /\ phase' = [phase EXCEPT ![c] = "gone"]
                /\ use' = [use EXCEPT ![c] = @ - 1]
                /\ dying' = Tail(dying)
                /\ stable' = [d \in Dumps |-> stable[d] \ {c}]
           ELSE UNCHANGED <<phase, use, dying, stable>>
  /\ UNCHANGED <<dpc, last, done, fam, reported, strayed>>

\* The error was read and the buffer is empty: a listener that now reads the
\* table again has missed nothing.
Recover(l) ==
  lost' = IF (err[l] \/ congested[l]) /\ ~err'[l] /\ ~congested'[l] THEN [lost EXCEPT ![l] = {}] ELSE lost

\* A listener reads the error, which comes first, or a message.
ReadError(l) ==
  /\ err[l]
  /\ err' = [err EXCEPT ![l] = FALSE]
  /\ congested' = [congested EXCEPT ![l] = @ /\ queue[l] > 0]
  /\ UNCHANGED <<queue, entryVars, dumpVars>>
  /\ Recover(l)

Read(l) ==
  /\ ~err[l]
  /\ queue[l] > 0
  /\ queue' = [queue EXCEPT ![l] = @ - 1]
  /\ congested' = [congested EXCEPT ![l] = @ /\ queue[l] > 1]
  /\ UNCHANGED <<err, entryVars, dumpVars>>
  /\ Recover(l)

Receive(l) == Read(l) \/ ReadError(l)

-----------------------------------------------------------------------------
(* The dump of the dying entries.                                          *)

\* The dump control block is fresh: ctx is zero.
DumpStart(d, to, f, entries) ==
  /\ dpc[d] = "idle"
  /\ dpc' = [dpc EXCEPT ![d] = to]
  /\ fam' = [fam EXCEPT ![d] = f]
  /\ stable' = [stable EXCEPT ![d] = entries]
  /\ UNCHANGED <<entryVars, sockVars, last, done, reported, strayed>>

ctnetlink_get_ct_dying(d, f) == DumpStart(d, "dying", f, ToSet(dying))
ctnetlink_get_ct_unconfirmed(d) == DumpStart(d, "unconfirmed", 0, {})

ctnetlink_dump_unconfirmed(d) ==
  /\ dpc[d] = "unconfirmed"
  /\ dpc' = [dpc EXCEPT ![d] = "finish"]
  /\ UNCHANGED <<entryVars, sockVars, last, done, fam, reported, stable, strayed>>

\* Fault: the walk goes on behind the entry that did not fit.
RestBehind(c) == {i \in DOMAIN dying : c = None \/ \E j \in 1..(i - 1) : dying[j] = c}

\* The positions that the loop does not skip: all of them, or those from the
\* cursor on.
Rest(c) == {i \in DOMAIN dying : c = None \/ \E j \in 1..i : dying[j] = c}

Wanted(c, f) == f = 0 \/ Family[c] = f

\* What one callback reports of these positions, given room for so many entries,
\* and the entry that it leaves for the next one: the first that does not fit and
\* whose reference could be taken (ctnetlink_dump_one_entry).
Fits(s, room) == {i \in s : Cardinality({j \in s : j <= i}) <= room}
NotFitting(s, room) ==
  LET left == {i \in s \ Fits(s, room) : use[dying[i]] > 0}
  IN  IF left = {} THEN None ELSE dying[Min(left)]

One(c, x) == IF c = x THEN 1 ELSE 0

\* Fault: the reference of the last callback is kept.
MoveCursorNoPut(old, new) == use' = [c \in Cts |-> use[c] + One(c, new)]

MoveCursor(old, new) == use' = [c \in Cts |-> use[c] + One(c, new) - One(c, old)]

\* Fault: ctx->last is not cleared.
NextCursorKept(c, next) == IF next = None THEN c ELSE next

\* ctx->last after a callback that found it c and goes on at next.
NextCursor(c, next) == next

ctnetlink_dump_dying(d, room) ==
  LET s == {i \in Rest(last[d]) : Wanted(dying[i], fam[d])}
      next == NotFitting(s, room) IN
  /\ dpc[d] = "dying"
  /\ ~done[d]
  /\ reported' = [reported EXCEPT ![d] = @ \cup {dying[i] : i \in Fits(s, room)}]
  /\ last' = [last EXCEPT ![d] = NextCursor(last[d], next)]
  /\ done' = [done EXCEPT ![d] = next = None]
  /\ MoveCursor(last[d], next)
  /\ dpc' = [dpc EXCEPT ![d] = IF s = {} THEN "finish" ELSE @]
  /\ strayed' = [strayed EXCEPT ![d] = @ \/ (last[d] # None /\ last[d] \notin ToSet(dying))]
  /\ UNCHANGED <<phase, missed, dying, sockVars, fam, stable>>

\* The callback after the last one returns 0.
DumpDyingEmpty(d) ==
  /\ dpc[d] = "dying"
  /\ done[d]
  /\ dpc' = [dpc EXCEPT ![d] = "finish"]
  /\ UNCHANGED <<entryVars, sockVars, last, done, fam, reported, stable, strayed>>

\* The dump is over, or its socket is closed before.
ctnetlink_done_list(d) ==
  /\ dpc[d] # "idle"
  /\ use' = [c \in Cts |-> use[c] - One(c, last[d])]
  /\ dpc' = [dpc EXCEPT ![d] = "idle"]
  /\ last' = [last EXCEPT ![d] = None]
  /\ done' = [done EXCEPT ![d] = FALSE]
  /\ fam' = [fam EXCEPT ![d] = 0]
  /\ reported' = [reported EXCEPT ![d] = {}]
  /\ stable' = [stable EXCEPT ![d] = {}]
  /\ strayed' = [strayed EXCEPT ![d] = FALSE]
  /\ UNCHANGED <<phase, missed, dying, sockVars>>

-----------------------------------------------------------------------------
Families == {0} \cup Asked

Kernel ==
  \E c \in Cts, portid \in Requesters \cup {None}, ok \in BOOLEAN :
    \/ NewEntry(c, portid, ok)
    \/ Update(c, portid, ok)
    \/ Delete(c, portid, ok)

Expectations ==
  \E event \in {"NEW", "DESTROY"}, portid \in Requesters \cup {None} : ctnetlink_expect_event(event, portid)

Callback(d) == \/ \E room \in 1..RoomMax : ctnetlink_dump_dying(d, room)
               \/ DumpDyingEmpty(d) \/ ctnetlink_dump_unconfirmed(d)
               \/ ctnetlink_done_list(d)

Next ==
  \/ Kernel \/ Expectations
  \/ \E ok \in BOOLEAN : Worker(ok)
  \/ \E l \in Listeners : Receive(l)
  \/ \E d \in Dumps : \/ Callback(d)
                      \/ \E f \in Families : ctnetlink_get_ct_dying(d, f)
                      \/ ctnetlink_get_ct_unconfirmed(d)

Spec == Init /\ [][Next]_vars

\* A listener that asks for NETLINK_BROADCAST_ERROR reads its messages; nothing
\* is assumed of the others, nor of those who dump.  The worker runs again while
\* the list is not empty, and its attempts do not all meet a full buffer or a
\* lack of memory.
Fairness ==
  /\ \A l \in Listeners : "broadcast_error" \in Options[l] => WF_vars(Receive(l))
  /\ SF_vars(Worker(TRUE))

FairSpec == Spec /\ Fairness

-----------------------------------------------------------------------------
(* Properties.                                                             *)

Buffers == queue \in [Listeners -> Nat] /\ \A l \in Listeners : queue[l] <= QueueLen[l]

\* Every variable has its type, no buffer takes more than it has room for, and a
\* dump that is done keeps no cursor.
TypeOK ==
  /\ phase \in [Cts -> {"none", "live", "dying", "gone"}]
  /\ use \in [Cts -> Nat]
  /\ missed \in [Cts -> SUBSET CtEvents]
  /\ dying \in Seq(Cts) /\ IsInjective(dying)
  /\ Buffers
  /\ err \in [Listeners -> BOOLEAN]
  /\ congested \in [Listeners -> BOOLEAN]
  /\ dpc \in [Dumps -> {"idle", "dying", "unconfirmed", "finish"}]
  /\ last \in [Dumps -> Cts \cup {None}]
  /\ done \in [Dumps -> BOOLEAN]
  /\ fam \in [Dumps -> Families]
  /\ lost \in [Listeners -> SUBSET Cts]
  /\ reported \in [Dumps -> SUBSET Cts]
  /\ stable \in [Dumps -> SUBSET Cts]
  /\ strayed \in [Dumps -> BOOLEAN]
  /\ \A d \in Dumps : done[d] => last[d] = None

\* An entry has one reference while the table or the dying list has it, and one
\* for each cursor of a dump: a cursor never keeps an entry after its dump, and
\* an entry that a dump resumes at is not freed.
RefsBalanced ==
  \A c \in Cts : use[c] = (IF phase[c] \in {"live", "dying"} THEN 1 ELSE 0)
                            + Cardinality({d \in Dumps : last[d] = c})

\* A listener that did not turn ENOBUFS off loses messages about the entries in
\* its groups only between an error on its socket and the moment at which it has
\* read the error and everything in its buffer: if it reads the table then, it
\* knows every entry, whether its buffer was full, was still congested, or the
\* message could not be made.
NoSilentLoss == \A l \in Listeners : Tells(l) /\ lost[l] # {} => err[l] \/ congested[l]

\* A listener that relies on redelivery, and hears of the end of entries.
Reliable(l) == SocketOptions \subseteq Options[l] /\ "destroy" \in Groups[l]

\* A reliable listener that has lost a message about an entry is going to hear
\* of the entry again: its events are kept as missed or it is on the dying list.
\* In particular an entry is gone only when the listener was told so.
ReliableNotForgotten ==
  \A l \in Listeners : Reliable(l) =>
    \A c \in lost[l] : phase[c] \in {"live", "dying"} /\ missed[c] # {}

\* An entry that is on the dying list during the whole dump, and of the family
\* asked for, is reported, however the callbacks fall, unless the entry to
\* resume at has left the list meanwhile.
StableReported ==
  \A d \in Dumps : dpc[d] = "finish" /\ ~strayed[d]
    => \A c \in stable[d] : Wanted(c, fam[d]) => c \in reported[d]

\* Every entry on the dying list is let go: only a listener that has asked for
\* it can hold entries there, and only as long as it does not read.
DyingLeave == \A c \in Cts : phase[c] = "dying" ~> phase[c] = "gone"
=============================================================================
