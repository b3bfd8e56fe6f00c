# vgw_driver: a TLA+ verification project

vgw_driver is a Linux kernel module (`kmod/`) and a command line tool (`cli/`) for a virtual gateway
that sees only one direction of the TCP connections it forwards. The module

- puts a kretprobe on Open vSwitch's `ovs_ct_execute` and, after OVS has sent a packet through
  conntrack, overrides the state of the TCP entry (the kernel's tracker never sees the SYN-ACK) and
  stores the last sequence numbers of the connection in the entry;
- replaces the kernel's `nf_conntrack_netlink`: it registers the same two nfnetlink subsystems with
  a modified copy of that file, which adds a filter by zone and exports those numbers.

The tool lists, creates and flushes entries, switches the tracking flags, and resets connections
with RST segments made of the exported numbers.

## Inventory

| part | source (`src/`) | state | operations | what is hard |
|---|---|---|---|---|
| TCP tracking | `kmod/tcp_track.c`, `kprobe.c`, `tcp_session.c` | `ct->proto.tcp`, timeout, `tcptrack_flags`, `zone_range` | probe entry and return, `vgw_tcptrack_main`, export | state tested and written without a lock, several stores under one, references, consumed skbs |
| table dump | `kmod/vgw_ct_netlink.c:1061-1300` | `cb->args[0..1]`, deferred evictions | start, callback, done | entries, and the table itself, change between two callbacks |
| filter | `vgw_ct_netlink.c:889-1206, 1431-1541` | none | parse, match | masks, zones, flags, combinations |
| requests on entries | `vgw_ct_netlink.c:1589-2529` | table, masters, attributes | new, change, get, delete, flush | failing half-way, unwinding, packets that create the same flow |
| expectations | `vgw_ct_netlink.c:2964-3792` | lists, timers, masters | new, get, delete, dump | timers that fired, masters that go, a walk without the lock |
| loading | `vgw_ct_netlink.c:3888-3970`, `tcp_track.c:502-518` | registrations | init, exit | a step fails in the middle, calls run while the module goes |
| events | `vgw_ct_netlink.c:743-878, 3139-3190` | buffers of the listeners, what was missed | make a message, send it, tell the sender to try again | full buffers, no memory, entries that wait to be told of |
| dying and unconfirmed lists | `vgw_ct_netlink.c:1747-1882` | a cursor | dump | the worker takes the cursor's entry off the list |
| queue glue | `vgw_ct_netlink.c:2686-2962` | the entry of a queued packet | parse a verdict, attach an expectation | a verdict comes late, packets go on meanwhile |
| statistics, formats | rest of `vgw_ct_netlink.c` | none | formatting | - |
| generic netlink | `kmod/gen_netlink.c` | none | look up one entry | never registered |
| CLI: show, add, flush | `cli/cmd/conntrack.go` | none | pass a request on | - |
| CLI: flags | `cli/cmd/conntrack.go:466-563` | a module parameter | read, change, write | two writers |
| CLI: reset | `cli/cmd/conntrack.go:105-317`, `tcp_rst.go` | none | build and send RST | numbers are old when used |
| CLI: modules | `cli/cmd/module.go` | the module | load, remove | parameters start anew while commands run |
| CLI: netlink client, bpf | `netlink*.go`, `cli/pkg/bpf` | none | experiments | - |

How they interact. A packet runs on one CPU with bottom halves disabled: `ovs_ct_execute`, the
kernel's tracker in it, then the return handler. The handler shares `struct nf_conn` with packets
of other CPUs, with the tracker, with timeouts and deletions (reference counts, `ct->lock`), and
with netlink dumps, which read the numbers under `ct->lock`. Netlink requests run one at a time
under the mutex of their subsystem; dumps run beside them, one callback per buffer, with only the
cursor in between. Expectations have their own lock, timers and RCU lists. Module parameters are
written through sysfs at any time.

Every component, modelled or not, is in `PROJECT.json` under `components`; the places where the
code is hard to test are under `hazards`, each with the properties that would catch it.

## Modules

| module | models | checked by |
|---|---|---|
| `SeqTrack` | abstract: an atomic record of a connection, and reads of it | refined by `TcpTrack` |
| `TcpTrack` | packet path, tracking, export | `MCTcpTrack`; `TcpTrackProofs` |
| `DumpTable` | dump of the conntrack table | `MCDumpTable`; `DumpTableProofs` |
| `CtFilter` | filter of dumps and flushes | `MCCtFilter`; `CtFilterProofs` |
| `CtTable` | new, change, get, delete, flush, verdicts | `MCCtTable`; `CtTableProofs` |
| `Expect` | requests on expectations, both dumps, verdicts that attach one | `MCExpect`; `ExpectProofs` |
| `Events` | events to listeners, dumps of dying and unconfirmed entries | `MCEvents`; `EventsProofs` |
| `VgwModule` | load and unload | `MCVgwModule`; `VgwModuleProofs` |
| `Cli` | `ct track`, `ct reset`, `module load`, `module remove` against the module and a connection | `MCCli`; `CliProofs` |

Names of definitions are those of the code where there is one; `PROJECT.json` maps each definition
to its lines. Operators whose comment begins with "Fault:" are not part of the specifications: each
is a wrong version of the definition after it, and shows that the property named in
`PROJECT.json` under `mutants` notices it.

### TcpTrack and SeqTrack

One process per CPU and one per dump. `kretprobe_entry_handler` is the arrival of a packet, `Ovs`
what OVS and the tracker do to it (external: it may consume the skb, attach an entry, create one, or
move the state of an entry), `kretprobe_return_handler` the test of the return value. From
`vgw_tcptrack_main` on, every access to memory that others may change is a step: the tests of the
state (it is read once for a SYN and again otherwise), the second test in `set_ct_state`, the store, the
refresh of the timeout, the duplicate test, and, inside `ct->lock`, the three stores. `DeleteConn` takes
an entry from the table at any time; the reference count decides when it is freed. Sequence numbers
are taken modulo `SeqMod` (2^32 in the code, 8 for TLC). The export may fail before it takes the
lock (`DumpNoRoom`) and after. Destroy events ask for no filtered dump and never export the numbers.

`SeqTrack` promises that a connection has one record, replaced as a whole, and that what is exported
is that record. `committed` is the refinement mapping: the record at the last unlock.

Nothing keeps the packets of one flow on one CPU, and the model does not either. The unlocked
tests and stores of the state then interleave: a SYN that was tested before another packet established
the connection pushes it back to SYN_RECV, and of two handlers one may leave its timeout with the
other's state. No text of the repository says that this cannot happen, so there is no property of it; the
hazards at `tcp_track.c:380` say so. `SegmentRecorded` is what remains true of the unlocked duplicate
test: a handler is done with a segment only when its numbers are in the record, or while another CPU
is storing a segment with the same sequence number, which the test may have seen half stored.

### DumpTable

`ctnetlink_dump_table` is a coroutine: `loop` and `walk` are its two loops, with the bucket lock
held in `walk`; `out`, the evictions and the return follow; between two callbacks (`between`) the
table changes. Every entry is in the table once per direction. What does not fit leaves the cursor
and a reference behind. `Expire`, `Remark` (the mark or status changes, so that the filter no longer
or newly accepts the entry), `Insert`, `Delete` and `Resize` are the environment.

### CtFilter

A client adds criteria to a request for a dump or a flush one by one, or leaves out a tuple or a field
that its flags ask for; the entry is any. `ctnetlink_alloc_filter` turns the request into a filter or an error,
`ctnetlink_filter_match` applies it. A flush has a family only with a version in its header, and no
CTA_FILTER. `Asked` and `FieldsAsked` state what was asked for without the detour: criterion by criterion.

`FilterExact` has two parts. Family, protocol, zone, mark and status: an accepted request selects
nothing that differs in one of these. Addresses and fields of the protocol: nothing is left out that
fits them, and what is selected fits them. The second part says nothing where addresses of IPv6 are
compared (the comparison is in the model as it is in the code: an entry is turned away when they are
the same), and allows for fields that the code does not compare: ports are compared for TCP
and UDP only, the fields of ICMP for ICMP only (`Compared`, `Uncompared`). A request for zone 0
whose tuple names another zone asks for the zone of the tuple (`ZoneAsked`): that is what the code
makes of it, and zone 0 is otherwise a zone like any other.

### CtTable

One request at a time, a step for each call that others can see in between: parse, lookup, allocation,
the attributes, the insertion, the changes, the event, the put. Packets create and remove entries,
time them out and offload them between any two steps. `told` is what listeners know, from events.
An attribute has one of two values; whether an attribute is malformed is part of the request. Of the
status word the model has the bit ASSURED, and of the timeout only that it was changed.

A packet may be queued to user space with its entry and come back with a verdict that changes the
entry (`ctnetlink_glue_parse`). The verdict takes the slot of a request: the two are not checked against
each other, but both are checked against packets. `UpdateStatus` is the test of the status in one
step and the change in another, as in `ctnetlink_update_status`.

Two races happen in the model and are no property of it. A packet may set ASSURED between the test and the change
of a verdict, which then clears the bit. An entry may be offloaded between the test of a delete request
and the deletion. A property that excepted them would repeat the test.

A flush may be refused (`FlushRefused`), and goes by the family if the message has a version. A refused
attribute may have been written in part (`SetPartly`: the sequence adjustment of one direction).

### Expect

The lists are linked (`nxt`) and an unlinked expectation keeps its successor, as `hlist_del_rcu`
leaves it; memory is freed after its grace period (`graceful` are those a callback of the dump may
still see). Timers are armed, fired or run: `del_timer` succeeds only on armed ones. `Id` and
`Address` are two names for an expectation, since the code reports one and compares the other on
deletion. The masters come from the conntrack table and go at any time.

The dump is of the whole table or of one connection (`data`, `cb->data`), over another list (`lnxt`)
with the same cursor. The request that starts the latter runs the first callback itself, with a
reference to the connection; later callbacks have none. `RefCount` therefore says that `data` is in memory
during the first callback (`FirstCallback`), and nothing of later ones: reachable states have a later callback
at a connection that was freed, where the code reads memory that is not its own. The model gives it one of the
milder outcomes, the list that the connection left or that of the connection whose memory it is now, and
promises the complete report only for connections that stay. No text of the repository can be quoted
against the code here; it is listed as a hazard at `vgw_ct_netlink.c:3331` that no property covers further.
A verdict may attach an expectation (`ctnetlink_glue_attach_expect`); it takes the slot of a request.

### Events

`ctnetlink_conntrack_event` is called for a new, changed or deleted entry; it chooses a group,
and either sends a message or, when that cannot be made, puts an error on the sockets of the group.
`nfnetlink_send`, the socket options, the event cache that keeps what was missed and the worker for
dying entries are external, from how the code uses them. Each listener has a buffer of `QueueLen`
messages, its groups and its options: with `NETLINK_BROADCAST_ERROR` and `NETLINK_NO_ENOBUFS` it
relies on redelivery, without them it is told by ENOBUFS. A socket that is overrun is `congested`
(NETLINK_S_CONGESTED): the error is raised when that begins, and everything is dropped, without another
error, until the buffer was read empty. `lost` are the entries of which a listener lost a message and from which it has not
recovered: it has when the error was read and the socket is congested no longer, and it may then read the
table. A requester that wants a report gets one although it is in no group. `ctnetlink_dump_dying`
goes over the dying list in callbacks, its cursor with a reference. Events of expectations are in the
model with their error path, which tells group 0, and so nobody; no property is about them.

Simplifications: one event is one step, since it looks at nothing twice; an entry is created and
deleted once.

### Cli

Each command is a process. `ct track` reads `tcptrack_flags`, changes the value, writes it and reads
it again to compare; a read that fails counts as 0 and is logged. `module load` sets the parameter
to its default. `ct reset` takes the recorded numbers from a dump and sends two segments,
whatever comes of the first. The connection has two ends and the next number of each; its packets
are recorded as `tcptrack_flags` says. An end closes by a RST with exactly the number that it expects.

Simplifications: one connection, in the range of zones; segments arrive at once; numbers do not
wrap. The numbers that were recorded are those of the last packet, whichever end sent it, so
`ResetCloses` is about the case that the code is made for: the last packet came from the client,
which is the side the command takes for the source.

### VgwModule

An entry is a way into the module: two subsystems, the event notifier, the hook, the kretprobe.
`calls` run through entries while the module loads and unloads; another module wants the same
entries. A dump holds a reference to the module, which a module that is still loading gives away as well:
it may start as soon as the first subsystem is registered. Unloading waits for references, a load that
fails does not: `left` has what it leaves behind, the kretprobe if `vgw_tcptrack_init` had registered it and the
dumps that were started meanwhile. A loaded module may be without its kretprobe. `ClearHook` runs
after the subsystems were given back and may clear the hook of the module that took them, so `OthersKept` is
about the subsystems and the notifier.

## Runs

| run | shows | states | bounds |
|---|---|---|---|
| `tcptrack_race` | `TypeOK`, `RefCount`, `NoUseAfterFree`, `ImplementsSeqTrack`, `NobodyStuck` | 55 thousand, with fairness | 2 CPUs, 1 dump, 1 entry, data of one flow |
| `tcptrack_flow` | `SegmentRecorded` | 2.7 million | 2 CPUs, 1 entry, SYN, data and FIN of one flow, changes of flags and zone range |
| `tcptrack_last_end` | violated: `LastEndOfSegment` | | ACK, then data with the same numbers |
| `dump_table` | `TypeOK`, `RefsBalanced`, `ReportedOnce`, `DumpEnds` | 0.4 million, with fairness | 3 entries, 2 sizes, buffers of 1 entry, 2 changes, 1 resize |
| `dump_leftover` | violated: `NothingLeftOver` | | buffers of 1 and 2 entries, a resize that moves the cursor's entry |
| `filter` | `FilterExact`, `NarrowingNeverWidens` | 2.6 million | dumps and flushes, up to 4 criteria, 3 protocols, 3 fields, 2 zones |
| `table_requests` | `TypeOK`, `RefCount`, `TuplesUnique`, `EventsTell`, `FlushComplete` | 1.9 million | 2 entries, 2 flows, requests and verdicts |
| `expect_requests` | `TypeOK`, `MastersAlive`, `DeletedLeaves` | 0.2 million, with fairness | 2 expectations, 2 masters, all requests, verdicts |
| `expect_dump` | `RefCount`, `ReportedOnce` | 1.6 million | 2 expectations, 1 master, buffers of 1, dumps of the table and of the connection |
| `events` | `TypeOK`, `RefsBalanced`, `NoSilentLoss`, `ReliableNotForgotten`, `StableReported`, `DyingLeave` | 83 thousand, with fairness | 2 entries, of two families, one of them related; 2 listeners, one that relies on redelivery with a buffer of 1, one that does not with a buffer of 2; 1 dump |
| `module_lifecycle` | `TypeOK`, `AllOrNothing`, `OthersKept` | 3800 | 2 calls per entry, 2 dumps |
| `cli` | `TypeOK`, `QuietMeansGranted`, `ResetCloses` | 1.2 million | 2 commands, 4 things to ask for, numbers up to 3 |

Why the bounds are enough. Races on an entry are between two processes: a third CPU repeats one of
them, and the theorems hold for any number of all of these. One entry suffices for `TcpTrack` since a packet touches
one. The races of `tcptrack_race` need no second kind of packet, since what is done under
the lock does not depend on the kind; segments of all kinds meet in `tcptrack_flow`, which has no dump and
a VIEW without the timeout and the flow key, read by nothing in that run. Both values of `ack_seq`, and all
combinations of packets, are in the theorems. Sequence numbers modulo 8 wrap within a payload. A dump needs three entries to have one before,
one at and one after the cursor, a buffer smaller than a bucket, and an eviction array (2) that fills.
A creation needs two entries (itself and its master) and two flows for tuples that do not belong
together. The filter has, for each criterion, an entry that meets it and one that does not, and protocols with and
without ports; four criteria hold any value with its mask, a zone and a tuple. A listener's buffer is full after one
or two messages, so that one listener reads an error before its last message, and two dying entries make a dump of two callbacks whose cursor may leave the list. A lost
update needs two commands. The theorems below take the safety properties from these bounds to any.
Symmetry is used for interchangeable CPUs (`TcpTrack`), entries (`CtTable`), expectations (`Expect`)
and commands (`Cli`), in runs without liveness only.

Deadlock is checked in all runs but `filter`, where a client may stop asking.

### Fairness

- `TcpTrack`: weak fairness for the steps of handlers and dumps, because code with bottom halves
  disabled runs on; strong fairness for taking `ct->lock`, because the kernel's queued spinlocks
  serve their waiters in order. Nothing is assumed of arrivals, OVS (when it returns, or what it does after the
  handler: `OvsDone`) or deletions, nor that a dump waiting for the lock gives up for lack of room.
- `DumpTable`: weak fairness for the callback, that is, the receiver keeps reading; the socket may
  be closed at any time. Changes of the table are bounded, as a table that changes for ever between
  the callbacks may keep a dump going for ever.
- `Expect`: handlers, fired timers and the destruction of a master run to their ends; strong
  fairness for those that wait for the lock, as above. No timer is assumed to fire, and no verdict
  to come.
- `Events`: a listener with `NETLINK_BROADCAST_ERROR` reads on, errors and messages (it has asked to hold entries back
  until it has), and the worker is scheduled again until it succeeds (strong, since lack of memory may
  make it fail now and then). Nothing is assumed of other listeners or of those who dump.

## What the violations show

- `LastEndOfSegment`: `tcp_track.c:408` takes a segment whose sequence and acknowledgement numbers
  are those of the last one for a duplicate. The first data segment after the handshake has the
  numbers of the ACK before it, so `last_end` ("Last seq + len", `tcp_session.c:104`) stays at the
  end of the ACK until the next segment.
- `NothingLeftOver`: after a resize, the entry the callback resumed at may be met again in a later
  bucket and not fit. `vgw_ct_netlink.c:1270` then takes a second reference to it, 1287 clears the
  cursor, 1289 drops one: the entry is never freed.

## Theorems

All are about every value of the constants that satisfies the named assumptions of the module.

`TcpTrackProofs` (`SeqModAssumption`, `PacketsAssumption`, `TrackerAssumption`,
`ConfigAssumption`, `ProcessAssumption`: any finite number of CPUs; any set of dumps, entries, packets):
- `Typing`: `TypeOK /\ ControlInv`. `ControlInv` says what the position of a handler implies about
  its locals (a handler that works on an entry has it through its skb or its lookup; an skb is gone
  only if OVS failed), which types alone do not carry through the steps.
- `References`: `RefCount`, with `DumpedIsHashed` (a dump has the bucket lock of the entry it is at).
  Each step changes the set of holders of one kind by at most one CPU (`HoldersMove`).
- `MemorySafety`: `NoUseAfterFree`, from the other two: who points to an entry is one of its holders,
  so its count is positive (`HeldIsUsed`).

- `Refinement`: `ImplementsSeqTrack`. The invariant is `CommitInv`: who is in a critical section owns the
  lock (`LockInv`); outside of those of the CPUs the fields are the committed record, inside them
  they are it up to the stores that were made (`StoreInv`). An unlock is then a step of `SeqTrack`,
  and every other step a stutter or an export of the committed record.
- `Recorded`: `SegmentRecorded`. A handler ends with a segment at two places. Where it unlocks, what it has stored is the
  record (`StoreRecorded`, from `StoreAt`). Where it finds a duplicate (`DuplicateRecorded`), nobody may be in a critical section of the
  entry, and then the fields that it read are the record (`CommitInv`); or somebody is, and `OwnerInv` (a CPU that
  owns `ct->lock` is in its critical section) with `StoreAt` says how far that CPU has got: it has stored nothing yet, and the
  fields are still the record, or it has stored a sequence number, the one that was read.

`DumpTableProofs` (`ConnsAssumption`, `FilterAssumption`, `HashAssumption`, `SizesAssumption`, `BoundsAssumption`: any
finite number of entries, any sizes, hash values, filter, buffers, eviction array and number of changes). All three
are about the table until its first resize:
- `Typing`, `References`: `TypeOK` and `RefsBalanced` as long as `resizes = 0`; `Reported`: `ReportedOnce`, which says
  so itself. The invariant `DumpInv` sees the chains as an order. `Placed`: every node is once in the
  table, in the bucket of its hash, with the node of the other direction. `Counted`: the counts by
  holder. `Cursor`: where the entry to resume at can be; when the buffer is full it has been met or has gone,
  so the next cursor is another entry, and the reference that `PutLast` drops is not the new one.
  `Coverage`: an entry that stays and was not reported is ahead of the walk, or, before the entry to
  resume at was met, at it or behind it in the chain. `NoRepeat`: what was reported is behind. `Unlinked` and
  `Linked` show that an entry that leaves or comes moves no other, which the walk depends on.

`CtTableProofs` (`ConnsAssumption`, `AttrsAssumption`, `RequestsAssumption`: any finite number of entries, any flows,
attributes and requests):
- `Typing`, `References`: `TypeOK` and `RefCount`. The invariant `RefInv` counts the entries whose master an entry is
  (`Wards`; not one whose creation has failed, since its reference was put before), says that masters
  are allocated whether or not their entries are in the table yet, and that nobody else knows the
  entry that a request creates.
- `Uniqueness`: `TuplesUnique`. Only a packet and `nf_conntrack_hash_check_insert` put an entry into the table, each after
  a lookup of both tuples under the same locks, and no step changes the tuples of an entry there (`TableStep`).
- `Telling`: `EventsTell`, from `EventsInv`: an entry in the table that differs from what listeners know is that of
  a request which is changing it, or one in `untold`.
- `Flushed`: `FlushComplete`, from `FlushInv`: what a flush is to delete and has not deleted it has still to visit.

`ExpectProofs` (`ExpsAssumption`, `MastersAssumption`, `TuplesAssumption`, `SizeAssumption`, `HelperAssumption`, `IdsAssumption`,
`RequestsAssumption`, `BoundsAssumption`: any finite number of expectations, any masters, tuples, hash and requests.
`ExpsAssumption` says that an expectation is in different memory from a list head or a connection):
- `Typing`, `References`, `MasterSafety`: `TypeOK`, `RefCount` (of `data`: in the first callback only, `DumpHolds`) and `MastersAlive`. `RefInv` says what the request, the lock
  and the callback are about at each of their places; that both kinds of lists are lists (`ListInv`);
  and, for a callback, which walks without the lock, that there is a set of expectations that has all the
  linked ones, that no pointer leads out of, and of which none is freed before the callback ends
  (`WalkInv`): an expectation that was unlinked under the callback is in it with its old successor.
- `Reported`: `ReportedOnce`. A walk that is at an unlinked expectation must still meet what stays. The
  invariant `ReportInv` gives every expectation that a callback may see an age: new ones enter at the head, so every
  list, also from an unlinked member on, is met from young to old and omits nothing linked
  (`Sorted`). The cursor then divides those that stay into reported and ahead. The connection's
  list needs `own`, since expectations whose master has ended are left in it to their timers.

`EventsProofs` (`ListenerAssumption`, `EntryAssumption`, `BoundAssumption`: any entries and listeners, any groups and
options, any finite number of dumps, buffers of any size):
- `Typing`, `References`: `TypeOK` and `RefsBalanced`. `ListInv`: the dying list has exactly the dying entries, and a
  cursor is one of them or has gone.
- `Loss`, `Redelivery`: `NoSilentLoss`, from `LossStep`: what a step adds to `lost` is lost with an error, or to a socket
  that is congested already; and `ReliableNotForgotten`. `MissedInv`: an entry on the dying list has something to tell; `AgainInv`: what a reliable listener lost is kept for a group that it is in.
- `Dumped`: `StableReported`, from `CursorInv`: what a dump has to report and has not reported is the cursor or comes after
  it in the list, as long as the cursor is in the list.

`CtFilterProofs` (any bits, fields, zones, entries, any number of criteria):
- `Exactness`: `FilterExact`. `ReportedIsWanted` shows that an accepted request
  reports an entry if and only if each criterion holds as the code compares it, parser by parser (`MarkParsed`,
  `StatusParsed`, `ZoneParsed`, `TupleZoneAlone`); `WantedIsAsked` compares that with what was asked. The invariant is
  that a request without CTA_FILTER has no flags.
- `Narrowing`: `NarrowingNeverWidens`, from `ReportedIsWanted` in both states of a step; a family
  that is added later changes no comparison of addresses, because flags without a family are
  rejected (`FlagsNeedFamily`).

`VgwModuleProofs` (`MaxCallsAssumption`: any number of concurrent calls):
- `Lifecycle`: `AllOrNothing`. The invariant is `OwnInv`, which says at which
  places of init and exit the module has which entry, and `CallInv`, that calls run in entries the
  module has or whose grace period is still to come, and `DumpInv`, that no dump runs while or after the
  module goes.
- `Courtesy`: `OthersKept`, and `Typing`: `TypeOK`, from the same invariant.

`CliProofs` (`CmdsAssumption`, `AsksAssumption`, `MaxSeqAssumption`: any number of commands, any requests,
numbers of any size):
- `QuietTheorem`: `QuietMeansGranted`. The invariant is `TrackInv`: what a command is to write, and what it has
  written when it compares, fits what it was asked. What it does to other flags is in no property: a concurrent
  change of these is lost, in the model as in the code, and the command does not notice.
- `ResetTheorem`: `ResetCloses`. The invariant is `ResetInv`: the recorded numbers are those of the latest
  packet if that was recorded, those of a command are too if nothing was sent since its dump, and
  the client is closed between the two segments.
- `Typing`: `TypeOK`, which has that no flag is set without the module.

Only model-checked:
- liveness under fairness (`NobodyStuck`, `DumpEnds`, `DeletedLeaves`, `DyingLeave`), which is out of the prover's reach;
- `TypeOK` and the second half of `RefsBalanced` of `DumpTable` after a resize. A resize joins all chains
  and divides them again by recursive functions on sequences; what those return needs an
  induction over sequences, which the prover does not do.

## Not modelled

- Message layouts (`ctnetlink_dump_*`, `ctnetlink_glue_build`), logging and statistics: they keep no
  state. The models keep whether an entry fits into a buffer.
- `gen_netlink.c` and its client: the family is never registered. `cli/pkg/bpf`: the kernel function
  that the BPF program calls is compiled out. `vmlinux-*.h` there is a generated header of 120000
  lines of declarations, by far the most of the repository's C.
- `flow.h`, `compatibility.h`: declarations and copies of kernel structures.
- The CLI's show, add and flush pass arguments on to a library; what the module does with such
  requests is in `CtTable`, `DumpTable` and `CtFilter`. Of `ct reset`, the choice of a connection by its
  addresses and ports and the encapsulation of the segments; of `module load`, the modules before it.
- Counters of the kretprobe pool and of conntrack's per-CPU statistics decide nothing.
- `ctnetlink_glue_seqadj` hands a number to the kernel's sequence adjustment.

## Plan

1. Proofs: every safety property of a run is a theorem now. Left are the references of `DumpTable` after a resize, for which
   the resize would have to be said by the order of the chains it leaves, without recursion.
2. An abstract specification of a dump, a set of reported entries between those that stayed and those
   that were ever there, which `DumpTable`, `Expect` and `Events` implement.
3. `DumpTable` with two dumps and a flush beside it.
4. `TcpTrack` and `Cli` composed: a reset whose numbers are exported by a dump step by step.
