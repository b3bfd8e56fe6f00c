------------------------------- MODULE Expect -------------------------------
(***************************************************************************)
(* Expectations: the requests that create, change, read and delete them,   *)
(* ctnetlink_new_expect, ctnetlink_get_expect and ctnetlink_del_expect, the*)
(* verdicts of nf_queue that add one, ctnetlink_glue_attach_expect, and the*)
(* dumps of their table and of the expectations of one connection,         *)
(* ctnetlink_exp_dump_table and ctnetlink_exp_ct_dump_table                *)
(* (vgw_ct_netlink.c).                                                     *)
(*                                                                         *)
(* nfnetlink runs one request at a time; the dump runs beside it.  Requests*)
(* hold nf_conntrack_expect_lock in some steps only, and the dump walks the*)
(* lists under RCU without it, so that an expectation may be unlinked while*)
(* the dump or a request points to it.  A timer that has fired cannot be   *)
(* deleted any more: from then on the timer unlinks the expectation.       *)
(***************************************************************************)
EXTENDS Integers, FiniteSets

CONSTANTS Exps,       \* memory for expectations
          None,       \* NULL
          Masters,    \* connections that expectations belong to
          Tuples,     \* tuples that are expected
          Wanted,     \* tuples of the family and the namespace of the dump
          Hash,       \* bucket of each tuple
          Size,       \* nf_ct_expect_hsize
          Names,      \* names of helpers
          Helper,     \* helper of each master
          Id, Address,\* nf_expect_get_id, and the low half of the address
          Requests,   \* the requests and verdicts that are made
          MaxRoom     \* bound: expectations that fit into one message buffer

Heads == 0..Size - 1
Ids == {Id[e] : e \in Exps} \cup {Address[e] : e \in Exps}

\* A request or a verdict; del without a tuple deletes all of a helper, or all.
\* For each of fail one thing goes wrong.
Request ==
  [op : {"new", "get", "del", "dump", "attach"}, tuple : Tuples \cup {None}, master : Masters \cup {None},
   flags : SUBSET {"CREATE", "EXCL"}, timeout : BOOLEAN, id : Ids \cup {None},
   name : Names \cup {None}, fail : SUBSET {"parse", "create", "helper", "alloc", "options"}]

\* Expectations, the heads of their lists and connections are different memory.
ASSUME ExpsAssumption == IsFiniteSet(Exps) /\ None \notin Exps /\ Exps \cap (Heads \cup Masters) = {}
ASSUME MastersAssumption == None \notin Masters /\ "request" \notin Masters \cup {None}
ASSUME TuplesAssumption == None \notin Tuples /\ Wanted \subseteq Tuples
ASSUME SizeAssumption == Size \in Nat \ {0} /\ Hash \in [Tuples -> Heads]
ASSUME HelperAssumption == Helper \in [Masters -> Names] /\ None \notin Names
ASSUME IdsAssumption == DOMAIN Id = Exps /\ DOMAIN Address = Exps
ASSUME RequestsAssumption == Requests \subseteq Request
ASSUME BoundsAssumption == MaxRoom \in Nat \ {0}

VARIABLES
  \* memory: allocated expectations, what each expects and for whom, its
  \* reference count, its timer
  allocated, tuple, master, use, timer,
  \* the lists: expectations that are linked, successors in the hash table and
  \* in the list of the master, holder of the lock
  linked, nxt, lnxt, lock,
  \* masters in memory, masters in the conntrack table, their reference counts
  alive, table, muse,
  \* the request: where it is, what it asks for, its expectation, its master,
  \* the expectations it has still to look at
  pc, req, exp, ct, work,
  \* the dump: cb->data, cb->args[0] and args[1], and of the callback its copy of
  \* args[1], the next expectation, the room left, whether anything was put
  phase, data, bucket, arg1, last, node, room, filled,
  \* expectations that died before the callback began, and are freed regardless
  graceful,
  \* history: how often each was reported, up to twice, those linked since the dump began,
  \* whether a bucket was walked again
  sent, stable, restarted

memory == <<allocated, tuple, master>>
lists == <<linked, nxt, lnxt>>
masters == <<alive, table, muse>>
request == <<pc, req, exp, ct, work>>
callback == <<phase, data, bucket, arg1, last, node, room, filled, graceful>>
history == <<sent, stable, restarted>>
vars == <<memory, use, timer, lists, lock, masters, request, callback, history>>

NoRequest == [op |-> "none"]

Init ==
  /\ allocated = {} /\ tuple = [e \in Exps |-> None] /\ master = [e \in Exps |-> None]
  /\ use = [e \in Exps |-> 0] /\ timer = [e \in Exps |-> "off"]
  /\ linked = {} /\ nxt = [p \in Exps \cup Heads |-> None]
  /\ lnxt = [p \in Exps \cup Masters |-> None] /\ lock = None
  /\ alive = {} /\ table = {} /\ muse = [m \in Masters |-> 0]
  /\ pc = "idle" /\ req = NoRequest /\ exp = None /\ ct = None /\ work = {}
  /\ phase = "none" /\ data = None /\ bucket = 0 /\ arg1 = None /\ last = None /\ node = None
  /\ room = 0 /\ filled = FALSE /\ graceful = {}
  /\ sent = [e \in Exps |-> 0] /\ stable = {} /\ restarted = FALSE

-----------------------------------------------------------------------------
(* The expectation core of the kernel (external).                          *)

\* hlist_del_rcu: whoever is at e still finds its successor.
Bypass(l, n, e) ==
  [p \in DOMAIN n |-> IF n[p] = e /\ (p \in Exps => p \in l) THEN n[e] ELSE n[p]]

\* nf_ct_unlink_expect_report, without the reference that it drops.
Unlink(e) ==
  /\ linked' = linked \ {e} /\ nxt' = Bypass(linked, nxt, e) /\ lnxt' = Bypass(linked, lnxt, e)
  /\ stable' = stable \ {e}

\* del_timer succeeds; then nf_ct_unlink_expect drops the reference of the lists
\* and nf_ct_expect_put the one of the timer.
Remove(e) ==
  /\ Unlink(e)
  /\ timer' = [timer EXCEPT ![e] = "off"]
  /\ use' = [use EXCEPT ![e] = @ - 2]

\* e waits for its packet, for m.
Waiting(e, m) == master[e] = m /\ timer[e] = "armed"

Matching(t) == {e \in linked : tuple[e] = t}
Replaced(t, m) == {e \in Matching(t) : Waiting(e, m)}

\* nf_ct_expect_related_report: one that is the same is removed, unless its
\* timer has fired; the same tuple of another master is a clash.
Clashes(t, m) == \E e \in Matching(t) : master[e] # m
Without(n, old) == IF old = {} THEN n ELSE Bypass(linked, n, CHOOSE x \in old : TRUE)
Added(n, e, head) == [n EXCEPT ![e] = n[head], ![head] = e]
Related(e, t, m, u) ==
  LET old == Replaced(t, m)
  IN /\ linked' = (linked \ old) \cup {e}
     /\ nxt' = Added(Without(nxt, old), e, Hash[t]) /\ lnxt' = Added(Without(lnxt, old), e, m)
     /\ timer' = [x \in Exps |-> IF x = e THEN "armed" ELSE IF x \in old THEN "off" ELSE timer[x]]
     /\ use' = [x \in Exps |-> IF x = e THEN u + 2 ELSE IF x \in old THEN use[x] - 2 ELSE use[x]]
     /\ stable' = stable \ old

Allocate(e, t, m) ==
  /\ allocated' = allocated \cup {e}
  /\ tuple' = [tuple EXCEPT ![e] = t] /\ master' = [master EXCEPT ![e] = m]
  /\ sent' = [sent EXCEPT ![e] = 0]

\* The helper of a connection expects another one.
HelperExpects(e, t, m) ==
  /\ lock = None /\ m \in table /\ e \notin allocated /\ ~Clashes(t, m)
  /\ Allocate(e, t, m) /\ Related(e, t, m, 0)
  /\ UNCHANGED <<lock, masters, request, callback, restarted>>

\* The expected packet comes.
PacketExpected(e) ==
  /\ lock = None /\ e \in linked /\ timer[e] = "armed"
  /\ Remove(e)
  /\ UNCHANGED <<memory, lock, masters, request, callback, sent, restarted>>

TimerFires(e) ==
  /\ timer[e] = "armed"
  /\ timer' = [timer EXCEPT ![e] = "fired"]
  /\ UNCHANGED <<memory, use, lists, lock, masters, request, callback, history>>

\* nf_ct_expectation_timed_out.
TimerUnlinks(e) ==
  /\ lock = None /\ timer[e] = "fired"
  /\ Unlink(e)
  /\ timer' = [timer EXCEPT ![e] = "ran"] /\ use' = [use EXCEPT ![e] = @ - 1]
  /\ UNCHANGED <<memory, lock, masters, request, callback, sent, restarted>>

TimerPuts(e) ==
  /\ timer[e] = "ran"
  /\ timer' = [timer EXCEPT ![e] = "off"] /\ use' = [use EXCEPT ![e] = @ - 1]
  /\ UNCHANGED <<memory, lists, lock, masters, request, callback, history>>

\* nf_ct_expect_free_rcu, after the readers that may have seen e.
FreeRcu(e) ==
  /\ e \in allocated /\ use[e] = 0
  /\ phase = "walk" => e \in graceful
  /\ allocated' = allocated \ {e} /\ graceful' = graceful \ {e}
  /\ tuple' = [tuple EXCEPT ![e] = None] /\ master' = [master EXCEPT ![e] = None]
  /\ nxt' = [nxt EXCEPT ![e] = None] /\ lnxt' = [lnxt EXCEPT ![e] = None]
  /\ UNCHANGED <<use, timer, linked, lock, masters, request, phase, data, bucket, arg1, last, node,
                 room, filled, history>>

\* Also in the memory of one that has ended.
MasterBegins(m) ==
  /\ m \notin alive
  /\ alive' = alive \cup {m} /\ table' = table \cup {m} /\ muse' = [muse EXCEPT ![m] = 1]
  /\ lnxt' = [lnxt EXCEPT ![m] = None]
  /\ UNCHANGED <<memory, use, timer, linked, nxt, lock, request, callback, history>>

MasterLeaves(m) ==
  /\ m \in table
  /\ table' = table \ {m} /\ muse' = [muse EXCEPT ![m] = @ - 1]
  /\ UNCHANGED <<memory, use, timer, lists, lock, alive, request, callback, history>>

\* nf_ct_destroy with nf_ct_remove_expectations, which leaves expectations whose
\* timer has fired to the timer.
MasterLocks(m) ==
  /\ m \in alive /\ muse[m] = 0 /\ lock = None
  /\ lock' = m
  /\ UNCHANGED <<memory, use, timer, lists, masters, request, callback, history>>

MasterRemoves(m, e) ==
  /\ lock = m /\ e \in linked /\ master[e] = m /\ timer[e] = "armed"
  /\ Remove(e)
  /\ UNCHANGED <<memory, lock, masters, request, callback, sent, restarted>>

MasterEnds(m) ==
  /\ lock = m /\ \A e \in linked : master[e] = m => timer[e] # "armed"
  /\ lock' = None /\ alive' = alive \ {m}
  /\ stable' = IF data = m THEN {} ELSE stable
  /\ UNCHANGED <<memory, use, timer, lists, table, muse, request, callback, sent, restarted>>

-----------------------------------------------------------------------------
(* Requests.                                                               *)

Done == pc' = "idle" /\ req' = NoRequest /\ exp' = None /\ ct' = None /\ work' = {}
Goto(l) == pc' = l /\ UNCHANGED <<req, exp, ct, work>>
Put(e) == use' = [use EXCEPT ![e] = @ - 1]

Begin(r) ==
  /\ pc = "idle" /\ r.op # "attach"
  /\ pc' = "begin" /\ req' = r
  /\ UNCHANGED <<memory, use, timer, lists, lock, masters, exp, ct, work, callback, history>>

\* A packet is queued for a verdict, with a reference to its connection.
Queue(r) ==
  /\ pc = "idle" /\ r.op = "attach" /\ r.master \in table
  /\ muse' = [muse EXCEPT ![r.master] = @ + 1]
  /\ pc' = "queued" /\ req' = r /\ ct' = r.master
  /\ UNCHANGED <<memory, use, timer, lists, lock, alive, table, exp, work, callback, history>>

At(op) == pc = "begin" /\ req.op = op /\ "parse" \notin req.fail

\* A mandatory attribute is missing or malformed.
ParseFails ==
  /\ pc = "begin"
  /\ \/ "parse" \in req.fail
     \/ req.op = "new" /\ (req.tuple = None \/ req.master = None)
     \/ req.op = "get" /\ req.tuple = None
  /\ Done
  /\ UNCHANGED <<memory, use, timer, lists, lock, masters, callback, history>>

\* ctnetlink_new_expect finds nothing, and drops the lock before it creates.
NewFindsNothing ==
  /\ At("new") /\ req.tuple # None /\ req.master # None /\ lock = None
  /\ Matching(req.tuple) = {}
  /\ IF "CREATE" \in req.flags THEN Goto("master") ELSE Done
  /\ UNCHANGED <<memory, use, timer, lists, lock, masters, callback, history>>

\* Fault: the timer is deleted but not added again.
ChangeNoAdd(e) == timer' = [timer EXCEPT ![e] = IF @ = "armed" THEN "off" ELSE @]

\* del_timer and add_timer with another time; -ETIME when the timer has fired.
ctnetlink_change_expect(e) == timer' = timer

NewFinds(e) ==
  /\ At("new") /\ req.master # None /\ lock = None
  /\ e \in Matching(req.tuple)
  /\ IF "EXCL" \notin req.flags /\ req.timeout THEN ctnetlink_change_expect(e) ELSE UNCHANGED timer
  /\ Done
  /\ UNCHANGED <<memory, use, lists, lock, masters, callback, history>>

\* Fault: the master is put as soon as it was found.
CreateMasterPut ==
  /\ pc = "master"
  /\ IF req.master \in table
       THEN pc' = "alloc" /\ ct' = req.master /\ UNCHANGED <<req, exp, work>>
       ELSE Done
  /\ UNCHANGED <<memory, use, timer, lists, lock, masters, callback, history>>

\* ctnetlink_create_expect parses the rest; nf_conntrack_find_get takes a reference.
CreateMaster ==
  /\ pc = "master"
  /\ IF req.master \in table /\ "create" \notin req.fail
       THEN /\ muse' = [muse EXCEPT ![req.master] = @ + 1]
            /\ pc' = "alloc" /\ ct' = req.master /\ UNCHANGED <<req, exp, work>>
       ELSE UNCHANGED muse /\ Done
  /\ UNCHANGED <<memory, use, timer, lists, lock, alive, table, callback, history>>

\* The helper that is named is not there: request_module fails, or it does not
\* help, or the request is run again.
CreateNoHelper ==
  /\ pc = "alloc" /\ "helper" \in req.fail
  /\ muse' = [muse EXCEPT ![ct] = @ - 1]
  /\ \/ Done
     \/ /\ pc' = "begin" /\ req' = [req EXCEPT !.fail = @ \ {"helper"}]
        /\ ct' = None /\ UNCHANGED <<exp, work>>
  /\ UNCHANGED <<memory, use, timer, lists, lock, alive, table, callback, history>>

\* The master has no helper, the class is too high, or there is no memory.
AllocFails ==
  /\ pc = "alloc" /\ "helper" \notin req.fail
  /\ "alloc" \in req.fail \/ allocated = Exps
  /\ Goto("putmaster")
  /\ UNCHANGED <<memory, use, timer, lists, lock, masters, callback, history>>

\* Of the options, a function that is not there or a malformed NAT is an error.
BadOptions == "options" \in req.fail

Alloc(e) ==
  /\ pc = "alloc" /\ req.fail \cap {"helper", "alloc"} = {}
  /\ e \notin allocated
  /\ Allocate(e, req.tuple, ct)
  /\ IF BadOptions
       THEN UNCHANGED <<use, exp>> /\ pc' = "putmaster"
       ELSE use' = [use EXCEPT ![e] = 1] /\ exp' = e /\ pc' = "related"
  /\ UNCHANGED <<req, ct, work, timer, lists, lock, masters, callback, stable, restarted>>

CreateRelated ==
  /\ pc = "related" /\ lock = None
  /\ IF Clashes(req.tuple, ct)
       THEN UNCHANGED <<lists, timer, use, stable>>
       ELSE Related(exp, req.tuple, ct, use[exp])
  /\ Goto("putexp")
  /\ UNCHANGED <<memory, lock, masters, callback, sent, restarted>>

CreatePut ==
  /\ pc = "putexp"
  /\ Put(exp)
  /\ pc' = "putmaster" /\ exp' = None /\ UNCHANGED <<req, ct, work>>
  /\ UNCHANGED <<memory, timer, lists, lock, masters, callback, history>>

CreatePutMaster ==
  /\ pc = "putmaster"
  /\ muse' = [muse EXCEPT ![ct] = @ - 1]
  /\ Done
  /\ UNCHANGED <<memory, use, timer, lists, lock, alive, table, callback, history>>

\* The verdict comes with an expectation; the connection may have left the table.
\* What follows is as for a request, and an error only leaves the packet to go on.
ctnetlink_glue_attach_expect ==
  /\ pc = "queued"
  /\ Goto(IF req.tuple = None \/ req.fail \cap {"parse", "helper"} # {} THEN "putmaster" ELSE "alloc")
  /\ UNCHANGED <<memory, use, timer, lists, lock, masters, callback, history>>

\* nf_ct_expect_find_get, for get and del.
FindGet(e) ==
  /\ At("get") \/ At("del")
  /\ e \in Matching(req.tuple)
  /\ use' = [use EXCEPT ![e] = @ + 1]
  /\ exp' = e /\ pc' = req.op /\ UNCHANGED <<req, ct, work>>
  /\ UNCHANGED <<memory, timer, lists, lock, masters, callback, history>>

FindsNothing ==
  /\ At("get") \/ At("del")
  /\ req.tuple # None /\ Matching(req.tuple) = {}
  /\ Done
  /\ UNCHANGED <<memory, use, timer, lists, lock, masters, callback, history>>

\* The answer is made if the identifier is the right one and there is memory.
Get ==
  /\ pc = "get"
  /\ Put(exp) /\ Done
  /\ UNCHANGED <<memory, timer, lists, lock, masters, callback, history>>

\* Fault: the comparison of identifiers is the wrong way round.
DelOwn ==
  /\ pc = "del" /\ req.id \in {None, Address[exp]}
  /\ Put(exp) /\ Done
  /\ UNCHANGED <<memory, timer, lists, lock, masters, callback, history>>

\* The identifier is compared with the address of the expectation.
DelOther ==
  /\ pc = "del" /\ req.id \notin {None, Address[exp]}
  /\ Put(exp) /\ Done
  /\ UNCHANGED <<memory, timer, lists, lock, masters, callback, history>>

\* Fault: the expectation is unlinked although its timer has fired.
DelAlways ==
  /\ pc = "del" /\ req.id \in {None, Address[exp]} /\ lock = None
  /\ IF exp \in linked
       THEN Unlink(exp) /\ use' = [use EXCEPT ![exp] = @ - 2] /\ ChangeNoAdd(exp)
       ELSE UNCHANGED <<use, timer, lists, stable>>
  /\ Goto("put")
  /\ UNCHANGED <<memory, lock, masters, callback, sent, restarted>>

Del ==
  /\ pc = "del" /\ req.id \in {None, Address[exp]} /\ lock = None
  /\ IF timer[exp] = "armed" THEN Remove(exp) ELSE UNCHANGED <<use, timer, lists, stable>>
  /\ Goto("put")
  /\ UNCHANGED <<memory, lock, masters, callback, sent, restarted>>

DelPut ==
  /\ pc = "put"
  /\ Put(exp) /\ Done
  /\ UNCHANGED <<memory, timer, lists, lock, masters, callback, history>>

expect_iter_name(e) == Helper[master[e]] = req.name
expect_iter_all(e) == req.name = None

\* nf_ct_expect_iterate_net holds the lock from the first to the last.
Flush ==
  /\ At("del") /\ req.tuple = None /\ lock = None
  /\ lock' = "request" /\ pc' = "flush" /\ work' = linked /\ UNCHANGED <<req, exp, ct>>
  /\ UNCHANGED <<memory, use, timer, lists, masters, callback, history>>

FlushEach(e) ==
  /\ pc = "flush" /\ e \in work
  /\ IF (expect_iter_all(e) \/ expect_iter_name(e)) /\ timer[e] = "armed"
       THEN Remove(e)
       ELSE UNCHANGED <<use, timer, lists, stable>>
  /\ work' = work \ {e} /\ UNCHANGED <<pc, req, exp, ct>>
  /\ UNCHANGED <<memory, lock, masters, callback, sent, restarted>>

FlushEnds ==
  /\ pc = "flush" /\ work = {}
  /\ lock' = None /\ Done
  /\ UNCHANGED <<memory, use, timer, lists, masters, callback, history>>

-----------------------------------------------------------------------------
(* The dump.                                                               *)

state == <<memory, timer, lists, lock, masters>>

\* ctnetlink_dump_exp_ct looks up the connection; without a helper it has none.
DumpFindCt ==
  /\ At("dump") /\ req.master # None
  /\ IF req.master \in table /\ "helper" \notin req.fail
       THEN /\ muse' = [muse EXCEPT ![req.master] = @ + 1]
            /\ pc' = "dumpct" /\ ct' = req.master /\ UNCHANGED <<req, exp, work>>
       ELSE UNCHANGED muse /\ Done
  /\ UNCHANGED <<memory, use, timer, lists, lock, alive, table, callback, history>>

StartsDump == (At("dump") /\ req.master = None) \/ pc = "dumpct"

\* The handler of a dump request returns; the connection is put, while cb->data
\* still leads to it.
DumpRequestEnds == IF ct = None THEN Done ELSE Goto("putmaster")

\* netlink_dump_start; the first callback runs before it returns.
DumpStart ==
  /\ StartsDump /\ phase = "none"
  /\ Goto("dumping")
  /\ phase' = "idle" /\ data' = ct /\ bucket' = 0 /\ arg1' = None
  /\ sent' = [e \in Exps |-> 0] /\ restarted' = FALSE
  /\ stable' = {e \in linked : tuple[e] \in Wanted /\ (ct # None => Waiting(e, ct))}
  /\ UNCHANGED <<state, use, last, node, room, filled, graceful>>

\* Another dump of this socket has not ended.
DumpBusy ==
  /\ StartsDump /\ phase # "none"
  /\ DumpRequestEnds
  /\ UNCHANGED <<state, use, callback, history>>

\* ctnetlink_exp_ct_dump_table walks one list, and sets args[0] at its end.  When
\* the connection has been freed meanwhile the code reads memory that is not its
\* own; here it finds what the connection left, or the list of the one that has the
\* memory now, which are the milder of the outcomes.  stable is empty then.
Lists == IF data = None THEN Size ELSE 1
Succ(e) == IF data = None THEN nxt[e] ELSE lnxt[e]
First(b) ==
  IF b = Lists THEN None ELSE IF data = None THEN nxt[b] ELSE lnxt[data]

Callback(r) ==
  /\ phase = "idle"
  /\ phase' = "walk" /\ last' = arg1 /\ node' = First(bucket) /\ room' = r /\ filled' = FALSE
  /\ graceful' = {e \in allocated : use[e] = 0}
  /\ UNCHANGED <<state, request, data, use, bucket, arg1, history>>

\* Neither of another family or namespace, nor before the one to go on with.
Due == tuple[node] \in Wanted /\ (arg1 # None => node = last)

\* Whether it fits into what is left of the buffer.
ctnetlink_exp_fill_info == room > 0

Skip ==
  /\ phase = "walk" /\ node # None /\ ~Due
  /\ node' = Succ(node)
  /\ UNCHANGED <<state, request, data, use, phase, bucket, arg1, last, room, filled, graceful, history>>

Fill ==
  /\ phase = "walk" /\ node # None /\ Due /\ ctnetlink_exp_fill_info
  /\ arg1' = None /\ room' = room - 1 /\ filled' = TRUE
  /\ sent' = [sent EXCEPT ![node] = IF @ = 2 THEN 2 ELSE @ + 1]
  /\ node' = Succ(node)
  /\ UNCHANGED <<state, request, data, use, phase, bucket, last, graceful, stable, restarted>>

\* Fault: the dump goes on with the next one, not with the one that did not fit.
FullSkips ==
  /\ phase = "walk" /\ node # None /\ Due /\ ~ctnetlink_exp_fill_info
  /\ IF use[node] = 0 \/ Succ(node) = None
       THEN arg1' = None /\ node' = Succ(node) /\ UNCHANGED <<use, phase>>
       ELSE /\ use' = [use EXCEPT ![Succ(node)] = @ + 1]
            /\ arg1' = Succ(node) /\ phase' = "out" /\ UNCHANGED node
  /\ UNCHANGED <<state, request, data, bucket, last, room, filled, graceful, history>>

\* It does not fit: refcount_inc_not_zero for the cursor.
Full ==
  /\ phase = "walk" /\ node # None /\ Due /\ ~ctnetlink_exp_fill_info
  /\ IF use[node] = 0
       THEN arg1' = None /\ node' = Succ(node) /\ UNCHANGED <<use, phase>>
       ELSE use' = [use EXCEPT ![node] = @ + 1] /\ arg1' = node /\ phase' = "out" /\ UNCHANGED node
  /\ UNCHANGED <<state, request, data, bucket, last, room, filled, graceful, history>>

\* The one to go on with is not in its list any more: start the list again.
Restart ==
  /\ phase = "walk" /\ node = None /\ bucket < Lists /\ arg1 # None
  /\ arg1' = None /\ node' = First(bucket) /\ restarted' = TRUE
  /\ UNCHANGED <<state, request, data, use, phase, bucket, last, room, filled, graceful, sent, stable>>

NextBucket ==
  /\ phase = "walk" /\ node = None /\ bucket < Lists /\ arg1 = None
  /\ bucket' = bucket + 1 /\ node' = First(bucket + 1)
  /\ UNCHANGED <<state, request, data, use, phase, arg1, last, room, filled, graceful, history>>

EndOfTable ==
  /\ phase = "walk" /\ bucket = Lists
  /\ phase' = "out"
  /\ UNCHANGED <<state, request, data, use, bucket, arg1, last, node, room, filled, graceful, history>>

\* Once nothing was put into a buffer, netlink ends the dump.
Out ==
  /\ phase = "out"
  /\ IF last # None THEN Put(last) ELSE UNCHANGED use
  /\ phase' = IF filled THEN "idle" ELSE "ending"
  /\ last' = None /\ node' = None /\ graceful' = {}
  /\ IF pc = "dumping" THEN DumpRequestEnds ELSE UNCHANGED request
  /\ UNCHANGED <<state, data, bucket, arg1, room, filled, history>>

\* Fault: the reference of the cursor is forgotten.
DoneNoPut ==
  /\ phase \in {"idle", "ending"} /\ pc # "dumping"
  /\ phase' = "none" /\ data' = None /\ arg1' = None /\ stable' = {}
  /\ UNCHANGED <<state, request, use, bucket, last, node, room, filled, graceful, sent, restarted>>

\* The dump has ended, or its socket was closed.
ctnetlink_exp_done ==
  /\ phase \in {"idle", "ending"} /\ pc # "dumping"
  /\ IF arg1 # None THEN Put(arg1) ELSE UNCHANGED use
  /\ phase' = "none" /\ data' = None /\ arg1' = None /\ stable' = {}
  /\ UNCHANGED <<state, request, bucket, last, node, room, filled, graceful, sent, restarted>>

-----------------------------------------------------------------------------
(* The specification.                                                      *)

Kernel ==
  \/ \E e \in Exps : \/ PacketExpected(e) \/ TimerFires(e) \/ TimerUnlinks(e) \/ TimerPuts(e)
                     \/ FreeRcu(e)
                     \/ \E t \in Tuples, m \in Masters : HelperExpects(e, t, m)
  \/ \E m \in Masters : \/ MasterBegins(m) \/ MasterLeaves(m) \/ MasterLocks(m) \/ MasterEnds(m)
                        \/ \E e \in Exps : MasterRemoves(m, e)

ctnetlink_new_expect ==
  \/ NewFindsNothing \/ CreateMaster \/ CreateNoHelper \/ AllocFails
  \/ CreateRelated \/ CreatePut \/ CreatePutMaster
  \/ \E e \in Exps : NewFinds(e) \/ Alloc(e)

ctnetlink_get_expect == Get \/ DumpFindCt \/ DumpStart \/ DumpBusy

ctnetlink_del_expect ==
  \/ DelOther \/ Del \/ DelPut \/ Flush \/ FlushEnds
  \/ \E e \in Exps : FlushEach(e)

Handler ==
  \/ ParseFails \/ FindsNothing \/ \E e \in Exps : FindGet(e)
  \/ ctnetlink_new_expect \/ ctnetlink_get_expect \/ ctnetlink_del_expect

\* ctnetlink_exp_dump_table and ctnetlink_exp_ct_dump_table.
ctnetlink_exp_dump_table ==
  \/ Skip \/ Fill \/ Full \/ Restart \/ NextBucket \/ EndOfTable \/ Out
  \/ \E r \in 1..MaxRoom : Callback(r)

Next ==
  \/ Kernel \/ Handler \/ ctnetlink_glue_attach_expect
  \/ \E r \in Requests : Begin(r) \/ Queue(r)
  \/ ctnetlink_exp_dump_table \/ ctnetlink_exp_done

Spec == Init /\ [][Next]_vars

\* A handler runs to its end, a timer that has fired does what is left to do,
\* and so does the end of a connection.  Those who wait for the lock get it in
\* their turn.
Fairness ==
  /\ SF_vars(Handler)
  /\ \A e \in Exps : SF_vars(TimerUnlinks(e)) /\ WF_vars(TimerPuts(e))
  /\ \A m \in Masters : WF_vars(MasterEnds(m)) /\ \A e \in Exps : WF_vars(MasterRemoves(m, e))

LiveSpec == Spec /\ Fairness

-----------------------------------------------------------------------------
(* Properties.                                                             *)

\* Every variable has its type; a fired timer is told from an armed one.
TypeOK ==
  /\ allocated \subseteq Exps /\ linked \subseteq Exps
  /\ tuple \in [Exps -> Tuples \cup {None}] /\ master \in [Exps -> Masters \cup {None}]
  /\ use \in [Exps -> Nat] /\ timer \in [Exps -> {"off", "armed", "fired", "ran"}]
  /\ nxt \in [Exps \cup Heads -> Exps \cup {None}]
  /\ lnxt \in [Exps \cup Masters -> Exps \cup {None}] /\ lock \in Masters \cup {None, "request"}
  /\ alive \subseteq Masters /\ table \subseteq alive /\ muse \in [Masters -> Nat]
  /\ pc \in {"idle", "begin", "master", "alloc", "related", "putexp", "putmaster", "get", "del",
             "put", "flush", "queued", "dumpct", "dumping"}
  /\ req = NoRequest \/ req \in Request
  /\ exp \in Exps \cup {None} /\ ct \in Masters \cup {None} /\ work \subseteq Exps
  /\ phase \in {"none", "idle", "walk", "out", "ending"} /\ data \in Masters \cup {None} /\ bucket \in 0..Size
  /\ arg1 \in Exps \cup {None} /\ last \in Exps \cup {None} /\ node \in Exps \cup {None}
  /\ room \in 0..MaxRoom /\ filled \in BOOLEAN /\ graceful \subseteq Exps
  /\ sent \in [Exps -> 0..2] /\ stable \subseteq Exps /\ restarted \in BOOLEAN

One(b) == IF b THEN 1 ELSE 0

\* While a callback walks, args[1] is the one that last holds.
CursorHolds(e) == arg1 = e /\ phase # "walk"

\* Every reference has one holder: the lists, the timer, the request, the
\* callback and the cursor of the dump; those to masters, the table and the
\* request.
Balanced ==
  /\ \A e \in Exps :
       use[e] = One(e \in linked) + One(timer[e] # "off") + One(exp = e) + One(last = e)
                  + One(CursorHolds(e))
  /\ \A m \in Masters : muse[m] = One(m \in table) + One(ct = m)

ExpectationsAlive ==
  /\ (linked \cup work \cup {exp, arg1, last, node}) \ {None} \subseteq allocated
  /\ ct # None => ct \in alive

FirstCallback == pc = "dumping" /\ data # None => data \in alive

\* No path of the handlers loses a reference or drops one too many; the
\* expectations that the lists, a flush, the request and the dump point to are in
\* memory, although the dump walks without the lock while expectations are unlinked
\* and freed, and so is the connection of a request.  The connection of a dump,
\* cb->data, is in memory while the first callback runs; in later ones it need not
\* be, since ctnetlink_dump_exp_ct has put it.
RefCount == Balanced /\ ExpectationsAlive /\ FirstCallback

\* An expectation that waits for its packet has a master, although the request
\* that creates it only looked the master up.
MastersAlive == \A e \in linked : timer[e] = "armed" => master[e] \in alive

\* A dump that ends by itself has reported every expectation that was in the
\* table all the time, of one connection all of it unless that has ended; it
\* reports one twice only when it had to start a list again since the one to go
\* on with was gone.
ReportedOnce ==
  /\ phase = "ending" => \A e \in stable : sent[e] > 0
  /\ ~restarted => \A e \in Exps : sent[e] <= 1

\* An expectation that a delete request found is unlinked in the end, also when
\* its timer fired first and the request does nothing.
DeletedLeaves ==
  \A e \in Exps : pc = "del" /\ exp = e /\ req.id \in {None, Address[e]} ~> e \notin linked
=============================================================================
