------------------------------ MODULE CtTable -------------------------------
(***************************************************************************)
(* Requests that create, change, read, delete and flush conntrack entries: *)
(* ctnetlink_new_conntrack, ctnetlink_get_conntrack, ctnetlink_del_conntrack*)
(* and what they call in vgw_ct_netlink.c; and the verdicts of nf_queue    *)
(* that change the entry of a queued packet, ctnetlink_glue_parse.         *)
(*                                                                         *)
(* nfnetlink runs one request at a time.  Packets, timeouts and offloading *)
(* change the table between any two steps of it, so that a tuple that was  *)
(* not found may be there when the new entry is inserted, and an entry     *)
(* that was found may leave the table while it is changed.                 *)
(***************************************************************************)
EXTENDS Integers, Sequences, FiniteSets

CONSTANTS Conns,      \* memory for entries
          None,
          Flows,      \* flows; each has a tuple of either direction
          Family,     \* Flow -> l3 protocol number
          Attrs,      \* the attributes that requests carry
          Requests    \* the requests that are made

Values == {0, 1}
\* Of the status, 1 is ASSURED.
ConnAttrs == {"help", "timeout", "status", "protoinfo", "mark", "seqadj", "synproxy", "labels"}
Flags == {"CREATE", "EXCL"}

\* A request or a verdict: the flows of its tuples, the attributes it carries,
\* those of them that are malformed or that the entry refuses ("filter" is a
\* CTA_FILTER in a flush, which none may have), and nfgen_family and version of
\* its header.
Request ==
  [op : {"new", "get", "del", "verdict"}, flags : SUBSET Flags,
   orig : Flows \cup {None}, reply : Flows \cup {None}, master : Flows \cup {None},
   attrs : SUBSET Attrs, bad : SUBSET (Attrs \cup {"nat", "parse", "proto", "master", "filter"}),
   nat : BOOLEAN, val : Values, l3 : Nat, version : BOOLEAN]

ASSUME ConnsAssumption == IsFiniteSet(Conns) /\ None \notin Conns /\ None \notin Flows
ASSUME FamilyAssumption == Family \in [Flows -> Nat \ {0}]
ASSUME AttrsAssumption == Attrs \subseteq ConnAttrs /\ "status" \in Attrs
ASSUME RequestsAssumption == Requests \subseteq Request

VARIABLES
  \* memory: allocated entries, the tuples, master and attributes of each, its
  \* reference count
  allocated, orig, reply, master, attr, use,
  \* the entries in the table, those that are offloaded
  table, offload,
  \* the request: where it is, what it asks for, its entry, the attributes it
  \* has still to apply, the entries a flush has still to look at, its result
  pc, req, ct, todo, corpses, err,
  \* history: attributes as the last event about an entry told them, entries
  \* that a failed request or a verdict changed, entries that the flush was to
  \* delete when it began
  told, untold, victims

entry == <<allocated, orig, reply, master, attr>>
request == <<pc, req, ct, todo, corpses, err>>
history == <<told, untold, victims>>
vars == <<entry, use, table, offload, request, history>>

NoTuple == [flow |-> None, dir |-> "none"]
Tuple(f, d) == IF f = None THEN NoTuple ELSE [flow |-> f, dir |-> d]
NoAttr == [a \in Attrs |-> 0]
NoRequest == [op |-> "none"]

Tuples(c) == {orig[c], reply[c]}
Lookup(t) == {c \in table : t \in Tuples(c)}

Init ==
  /\ allocated = {}
  /\ orig = [c \in Conns |-> NoTuple] /\ reply = [c \in Conns |-> NoTuple]
  /\ master = [c \in Conns |-> None]
  /\ attr = [c \in Conns |-> NoAttr]
  /\ use = [c \in Conns |-> 0]
  /\ table = {} /\ offload = {}
  /\ pc = "idle" /\ req = NoRequest /\ ct = None /\ todo = <<>> /\ corpses = {} /\ err = "ok"
  /\ told = [c \in Conns |-> NoAttr] /\ untold = {} /\ victims = {}

Free == Conns \ allocated
Released(c, u) == [u EXCEPT ![c] = @ - 1]

-----------------------------------------------------------------------------
(* The rest of the kernel (external).                                      *)

\* A packet opens a flow; its entry may have another reply tuple, after NAT.
PacketInsert(c, f, g) ==
  /\ c \in Free
  /\ Lookup(Tuple(f, "orig")) = {} /\ Lookup(Tuple(g, "reply")) = {}
  /\ allocated' = allocated \cup {c}
  /\ orig' = [orig EXCEPT ![c] = Tuple(f, "orig")]
  /\ reply' = [reply EXCEPT ![c] = Tuple(g, "reply")]
  /\ attr' = [attr EXCEPT ![c] = NoAttr] /\ told' = [told EXCEPT ![c] = NoAttr]
  /\ use' = [use EXCEPT ![c] = 1]
  /\ table' = table \cup {c}
  /\ UNCHANGED <<master, offload, request, untold, victims>>

\* An entry times out and leaves the table.
Timeout(c) ==
  /\ c \in table
  /\ table' = table \ {c}
  /\ use' = Released(c, use)
  /\ victims' = victims \ {c}
  /\ UNCHANGED <<entry, offload, request, told, untold>>

\* A packet makes an entry ASSURED, and an event tells it.
PacketAssures(c) ==
  /\ c \in table
  /\ attr[c]["status"] = 0
  /\ attr' = [attr EXCEPT ![c]["status"] = 1] /\ told' = [told EXCEPT ![c]["status"] = 1]
  /\ UNCHANGED <<allocated, orig, reply, master, use, table, offload, request, untold, victims>>

Offload(c) ==
  /\ c \in table /\ c \notin offload
  /\ offload' = offload \cup {c} /\ victims' = victims \ {c}
  /\ UNCHANGED <<entry, use, table, request, told, untold>>

Onload(c) ==
  /\ c \in offload
  /\ offload' = offload \ {c}
  /\ UNCHANGED <<entry, use, table, request, told, untold, victims>>

\* nf_ct_destroy, when the last reference to an entry has been dropped.
Destroy(c) ==
  /\ c \in allocated /\ use[c] = 0 /\ c # ct
  /\ allocated' = allocated \ {c}
  /\ use' = IF master[c] # None THEN Released(master[c], use) ELSE use
  /\ orig' = [orig EXCEPT ![c] = NoTuple] /\ reply' = [reply EXCEPT ![c] = NoTuple]
  /\ master' = [master EXCEPT ![c] = None]
  /\ attr' = [attr EXCEPT ![c] = NoAttr] /\ told' = [told EXCEPT ![c] = NoAttr]
  /\ offload' = offload \ {c} /\ untold' = untold \ {c}
  /\ UNCHANGED <<table, request, victims>>

-----------------------------------------------------------------------------
(* Every request.                                                          *)

Done(e) ==
  /\ pc' = "idle" /\ err' = e
  /\ req' = NoRequest /\ ct' = None /\ todo' = <<>> /\ corpses' = {}

\* nfnetlink takes nfnl_lock and calls the handler.
Begin(r) ==
  /\ pc = "idle" /\ r.op # "verdict"
  /\ pc' = "parse" /\ req' = r /\ err' = "ok"
  /\ UNCHANGED <<entry, use, table, offload, ct, todo, corpses, told, untold, victims>>

\* The tuple that a request looks for.
Key == IF req.orig # None THEN Tuple(req.orig, "orig") ELSE Tuple(req.reply, "reply")
NoKey == req.orig = None /\ req.reply = None

\* ctnetlink_parse_zone and ctnetlink_parse_tuple fail, or there is no tuple to
\* read an entry by.
ParseFails ==
  /\ pc = "parse"
  /\ "parse" \in req.bad \/ (req.op = "get" /\ NoKey)
  /\ Done("EINVAL")
  /\ UNCHANGED <<entry, use, table, offload, history>>

Parsed == pc = "parse" /\ "parse" \notin req.bad

\* nf_conntrack_find_get takes a reference.
Find ==
  /\ Parsed /\ ~NoKey /\ Lookup(Key) # {}
  /\ ct' \in Lookup(Key)
  /\ use' = [use EXCEPT ![ct'] = @ + 1]
  /\ pc' = "found"
  /\ UNCHANGED <<entry, table, offload, req, todo, corpses, err, history>>

FindNothing ==
  /\ Parsed /\ ~(NoKey /\ req.op # "new")
  /\ ~NoKey => Lookup(Key) = {}
  /\ ~(req.op = "new" /\ "CREATE" \in req.flags)
  /\ Done("ENOENT")
  /\ UNCHANGED <<entry, use, table, offload, history>>

\* A new entry needs both tuples, of one protocol.
FindNothingCreate ==
  /\ Parsed /\ req.op = "new" /\ "CREATE" \in req.flags
  /\ ~NoKey => Lookup(Key) = {}
  /\ IF req.orig = None \/ req.reply = None \/ "proto" \in req.bad
       THEN Done("EINVAL")
       ELSE pc' = "alloc" /\ UNCHANGED <<req, ct, todo, corpses, err>>
  /\ UNCHANGED <<entry, use, table, offload, history>>

\* nf_ct_put and return.
Put ==
  /\ pc = "put"
  /\ use' = Released(ct, use)
  /\ Done(err)
  /\ UNCHANGED <<entry, table, offload, history>>

\* What goes to "put" without any more changes to the entry.
PutWith(e) == pc' = "put" /\ err' = e /\ todo' = <<>> /\ UNCHANGED <<req, ct, corpses>>

-----------------------------------------------------------------------------
(* ctnetlink_create_conntrack and its caller.                              *)

CreateOrder == <<"help", "nat", "timeout", "status", "seqadj", "protoinfo", "synproxy", "mark">>

Carried(order) ==
  SelectSeq(order, LAMBDA a : a \in req.attrs \/ (a = "nat" /\ req.nat))

\* nf_conntrack_alloc; the entry is nobody else's yet.
Alloc(c) ==
  /\ pc = "alloc" /\ c \in Free
  /\ allocated' = allocated \cup {c}
  /\ orig' = [orig EXCEPT ![c] = Tuple(req.orig, "orig")]
  /\ reply' = [reply EXCEPT ![c] = Tuple(req.reply, "reply")]
  /\ ct' = c
  /\ IF "timeout" \in req.attrs
       THEN pc' = "create" /\ todo' = Carried(CreateOrder) /\ UNCHANGED err
       ELSE pc' = "err" /\ err' = "EINVAL" /\ UNCHANGED todo
  /\ UNCHANGED <<master, attr, use, table, offload, req, corpses, history>>

AllocFails ==
  /\ pc = "alloc"
  /\ Done("ENOMEM")
  /\ UNCHANGED <<entry, use, table, offload, history>>

\* __nf_ct_try_assign_helper fails for a request without CTA_HELP.
ImplicitHelperFails ==
  /\ pc = "create" /\ "help" \notin req.attrs
  /\ todo = Carried(CreateOrder)
  /\ pc' = "err" /\ err' = "ENOMEM"
  /\ UNCHANGED <<entry, use, table, offload, req, ct, todo, corpses, history>>

\* ASSURED can only be set.
Unassures == attr[ct]["status"] = 1 /\ req.val = 0

\* An attribute is malformed or the entry refuses it; a mark never fails, nor
\* does the timeout of a new entry.
Refused(a) ==
  \/ a \in req.bad /\ a # "mark" /\ ~(pc = "create" /\ a = "timeout")
  \/ a = "status" /\ Unassures

\* A timeout runs down by itself: its value is not kept.
Set(c, a) == IF a \in Attrs \ {"timeout"} THEN [attr EXCEPT ![c][a] = req.val] ELSE attr

\* What a refused attribute leaves: change_seq_adj writes what comes before the
\* part that is missing.
SetPartly(c, a) == IF a = "seqadj" THEN {attr, Set(c, a)} ELSE {attr}

CreateAttr ==
  LET a == Head(todo) IN
  /\ pc = "create" /\ todo # <<>>
  /\ IF Refused(a) THEN pc' = "err" /\ err' = "EINVAL" /\ attr' \in SetPartly(ct, a) /\ UNCHANGED todo
                   ELSE attr' = Set(ct, a) /\ todo' = Tail(todo) /\ UNCHANGED <<pc, err>>
  /\ UNCHANGED <<allocated, orig, reply, master, use, table, offload, req, ct, corpses, history>>

\* The master, if the request names one, is looked up and referenced.
CreateMaster ==
  /\ pc = "create" /\ todo = <<>>
  /\ \/ req.master = None /\ pc' = "insert" /\ UNCHANGED <<master, use, err>>
     \/ /\ req.master # None
        /\ \/ "master" \in req.bad /\ err' = "EINVAL"
           \/ Lookup(Tuple(req.master, "orig")) = {} /\ err' = "ENOENT"
        /\ pc' = "err" /\ UNCHANGED <<master, use>>
     \/ /\ "master" \notin req.bad
        /\ \E m \in Lookup(Tuple(req.master, "orig")) :
             /\ master' = [master EXCEPT ![ct] = m]
             /\ use' = [use EXCEPT ![m] = @ + 1]
        /\ pc' = "insert" /\ UNCHANGED err
  /\ UNCHANGED <<allocated, orig, reply, attr, table, offload, req, ct, todo, corpses, history>>

\* Fault: the entry is inserted without looking for its tuples again.
InsertUnchecked ==
  /\ pc = "insert"
  /\ table' = table \cup {ct}
  /\ use' = [use EXCEPT ![ct] = 2]
  /\ pc' = "labels"
  /\ UNCHANGED <<entry, offload, req, ct, todo, corpses, err, history>>

\* nf_conntrack_hash_check_insert: one reference is the table's, one the
\* request's.
Insert ==
  /\ pc = "insert"
  /\ Lookup(orig[ct]) = {} /\ Lookup(reply[ct]) = {}
  /\ table' = table \cup {ct}
  /\ use' = [use EXCEPT ![ct] = 2]
  /\ pc' = "labels"
  /\ UNCHANGED <<entry, offload, req, ct, todo, corpses, err, history>>

\* Fault: the master is not put.
InsertFailsNoPut ==
  /\ pc = "insert"
  /\ pc' = "err" /\ err' = "EEXIST"
  /\ UNCHANGED <<entry, use, table, offload, req, ct, todo, corpses, history>>

\* It fails if a tuple is taken by now, and for lack of room; err3.
InsertFails ==
  /\ pc = "insert"
  /\ use' = IF master[ct] # None THEN Released(master[ct], use) ELSE use
  /\ pc' = "err" /\ err' = "EEXIST"
  /\ UNCHANGED <<entry, table, offload, req, ct, todo, corpses, history>>

\* err2 and err1: nf_conntrack_free.
CreateFails ==
  /\ pc = "err"
  /\ allocated' = allocated \ {ct}
  /\ orig' = [orig EXCEPT ![ct] = NoTuple] /\ reply' = [reply EXCEPT ![ct] = NoTuple]
  /\ master' = [master EXCEPT ![ct] = None]
  /\ attr' = [attr EXCEPT ![ct] = NoAttr]
  /\ Done(err)
  /\ UNCHANGED <<use, table, offload, history>>

\* Back in ctnetlink_new_conntrack; labels that are refused are no error.
AttachLabels ==
  /\ pc = "labels"
  /\ attr' = IF "labels" \in req.attrs /\ ~Refused("labels") THEN Set(ct, "labels") ELSE attr
  /\ pc' = "report"
  /\ UNCHANGED <<allocated, orig, reply, master, use, table, offload, req, ct, todo, corpses, err, history>>

\* Fault: no event.
ReportNothing ==
  /\ pc = "report"
  /\ pc' = "put"
  /\ UNCHANGED <<entry, use, table, offload, req, ct, todo, corpses, err, history>>

\* nf_conntrack_eventmask_report; the event carries all attributes.
Report ==
  /\ pc = "report"
  /\ told' = [told EXCEPT ![ct] = attr[ct]] /\ untold' = untold \ {ct}
  /\ pc' = "put"
  /\ UNCHANGED <<entry, use, table, offload, req, ct, todo, corpses, err, victims>>

-----------------------------------------------------------------------------
(* ctnetlink_change_conntrack and its caller.                              *)

ChangeOrder == <<"help", "timeout", "status", "protoinfo", "mark", "seqadj", "synproxy", "labels">>

Change ==
  /\ pc = "found" /\ req.op = "new"
  /\ \/ "EXCL" \in req.flags /\ PutWith("EEXIST")
     \/ "EXCL" \notin req.flags /\ (req.nat \/ req.master # None) /\ PutWith("EOPNOTSUPP")
     \/ /\ "EXCL" \notin req.flags /\ ~req.nat /\ req.master = None
        /\ pc' = "change" /\ todo' = Carried(ChangeOrder)
        /\ UNCHANGED <<req, ct, corpses, err>>
  /\ UNCHANGED <<entry, use, table, offload, history>>

\* The attributes before the one that fails stay changed, and no event tells.
ChangeAttr ==
  LET a == Head(todo) IN
  /\ pc = "change" /\ todo # <<>>
  /\ IF Refused(a)
       THEN /\ PutWith("EINVAL")
            /\ attr' \in SetPartly(ct, a)
            /\ untold' = IF attr'[ct] # told[ct] THEN untold \cup {ct} ELSE untold
       ELSE /\ attr' = Set(ct, a)
            /\ todo' = Tail(todo)
            /\ UNCHANGED <<pc, req, ct, corpses, err, untold>>
  /\ UNCHANGED <<allocated, orig, reply, master, use, table, offload, told, victims>>

ChangeDone ==
  /\ pc = "change" /\ todo = <<>>
  /\ pc' = "report"
  /\ UNCHANGED <<entry, use, table, offload, req, ct, todo, corpses, err, history>>

-----------------------------------------------------------------------------
(* ctnetlink_glue_parse and what it calls.                                 *)

VerdictOrder == <<"timeout", "status", "help", "labels", "mark">>

\* A packet is queued for a verdict, with a reference to its entry, which may
\* leave the table before the verdict comes.
Queue(r) ==
  /\ pc = "idle" /\ r.op = "verdict"
  /\ ct' \in Lookup(Tuple(r.orig, "orig"))
  /\ use' = [use EXCEPT ![ct'] = @ + 1]
  /\ pc' = "queued" /\ req' = r /\ err' = "ok"
  /\ UNCHANGED <<entry, table, offload, todo, corpses, history>>

Verdict ==
  /\ pc = "queued"
  /\ IF "parse" \in req.bad
       THEN PutWith("EINVAL")
       ELSE pc' = "verdict" /\ todo' = Carried(VerdictOrder) /\ UNCHANGED <<req, ct, corpses, err>>
  /\ UNCHANGED <<entry, use, table, offload, history>>

\* No event tells of what a verdict changes.
VerdictEnds(e) ==
  /\ PutWith(e)
  /\ untold' = IF attr[ct] # told[ct] THEN untold \cup {ct} ELSE untold

\* ctnetlink_update_status compares first and writes afterwards.
VerdictAttr ==
  LET a == Head(todo) IN
  /\ pc = "verdict" /\ todo # <<>>
  /\ \/ Refused(a) /\ VerdictEnds("EBUSY") /\ UNCHANGED attr
     \/ /\ ~Refused(a) /\ a = "status"
        /\ pc' = "update" /\ UNCHANGED <<attr, req, ct, todo, corpses, err, untold>>
     \/ /\ ~Refused(a) /\ a # "status"
        /\ attr' = Set(ct, a) /\ todo' = Tail(todo)
        /\ UNCHANGED <<pc, req, ct, corpses, err, untold>>
  /\ UNCHANGED <<allocated, orig, reply, master, use, table, offload, told, victims>>

\* __nf_ct_change_status sets the bits that are 1 and clears those that are 0.
UpdateStatus ==
  /\ pc = "update"
  /\ attr' = Set(ct, "status")
  /\ pc' = "verdict" /\ todo' = Tail(todo) /\ UNCHANGED <<req, ct, corpses, err>>
  /\ UNCHANGED <<allocated, orig, reply, master, use, table, offload, told, untold, victims>>

VerdictDone ==
  /\ pc = "verdict" /\ todo = <<>>
  /\ VerdictEnds("ok")
  /\ UNCHANGED <<entry, use, table, offload, told, victims>>

ctnetlink_glue_parse == Verdict \/ VerdictAttr \/ UpdateStatus \/ VerdictDone

-----------------------------------------------------------------------------
(* ctnetlink_get_conntrack, ctnetlink_del_conntrack, ctnetlink_flush_conntrack. *)

\* The buffer for the answer may not be there, or be too small.
Get ==
  /\ pc = "found" /\ req.op = "get"
  /\ PutWith("ok") \/ PutWith("ENOMEM")
  /\ UNCHANGED <<entry, use, table, offload, history>>

\* An offloaded entry is busy; the request may be about an earlier entry with
\* the same tuple, which its CTA_ID tells.
Del ==
  /\ pc = "found" /\ req.op = "del"
  /\ \/ ct \in offload /\ PutWith("EBUSY")
     \/ ct \notin offload /\ PutWith("ENOENT")
     \/ ct \notin offload /\ pc' = "delete" /\ UNCHANGED <<req, ct, todo, corpses, err>>
  /\ UNCHANGED <<entry, use, table, offload, history>>

\* nf_ct_delete does nothing to an entry that has left the table meanwhile.
Deleted == /\ table' = table \ {ct}
           /\ victims' = victims \ {ct}

\* Fault: the reference of the table is dropped although somebody else has.
DeleteTwice ==
  /\ pc = "delete"
  /\ Deleted /\ use' = Released(ct, use)
  /\ PutWith("ok")
  /\ UNCHANGED <<entry, offload, told, untold>>

Delete ==
  /\ pc = "delete"
  /\ Deleted /\ use' = IF ct \in table THEN Released(ct, use) ELSE use
  /\ PutWith("ok")
  /\ UNCHANGED <<entry, offload, told, untold>>

\* The family that a flush asks for.
FlushFamily == IF req.version THEN req.l3 ELSE 0

\* ctnetlink_needs_filter, and ctnetlink_filter_match with a filter for a family
\* and a mark.
NeedsFilter == FlushFamily # 0 \/ "mark" \in req.attrs \/ "filter" \in req.bad
Matches(c) == /\ FlushFamily # 0 => Family[orig[c].flow] = FlushFamily
              /\ "mark" \in req.attrs => attr[c]["mark"] = req.val

\* nf_ct_iterate_cleanup_net visits every entry that stays in the table.
Flush ==
  /\ Parsed /\ req.op = "del" /\ NoKey /\ "filter" \notin req.bad
  /\ pc' = "flush" /\ corpses' = table
  /\ victims' = {c \in table : Matches(c)} \ offload
  /\ UNCHANGED <<entry, use, table, offload, req, ct, todo, err, told, untold>>

\* CTA_FILTER is not for a flush; ctnetlink_alloc_filter may fail.
FlushRefused ==
  /\ Parsed /\ req.op = "del" /\ NoKey /\ NeedsFilter
  /\ IF "filter" \in req.bad THEN Done("EOPNOTSUPP") ELSE Done("ENOMEM")
  /\ UNCHANGED <<entry, use, table, offload, history>>

\* Fault: a filter is mistaken for a reason to keep an entry.
FlushIterateInverted(c) == c \notin offload /\ ~Matches(c)

ctnetlink_flush_iterate(c) == c \notin offload /\ Matches(c)

FlushVisit(c) ==
  /\ pc = "flush" /\ c \in corpses
  /\ corpses' = corpses \ {c}
  /\ IF c \in table /\ ctnetlink_flush_iterate(c)
       THEN pc' = "kill" /\ ct' = c /\ use' = [use EXCEPT ![c] = @ + 1]
       ELSE UNCHANGED <<pc, ct, use>>
  /\ UNCHANGED <<entry, table, offload, req, todo, err, history>>

FlushKill ==
  /\ pc = "kill"
  /\ Deleted /\ use' = [use EXCEPT ![ct] = IF ct \in table THEN @ - 2 ELSE @ - 1]
  /\ pc' = "flush" /\ ct' = None
  /\ UNCHANGED <<entry, offload, req, todo, corpses, err, told, untold>>

FlushDone ==
  /\ pc = "flush" /\ corpses = {}
  /\ Done("ok")
  /\ UNCHANGED <<entry, use, table, offload, history>>

-----------------------------------------------------------------------------

Kernel ==
  \E c \in Conns :
    \/ \E f, g \in Flows : PacketInsert(c, f, g)
    \/ Timeout(c) \/ PacketAssures(c) \/ Offload(c) \/ Onload(c) \/ Destroy(c)

ctnetlink_new_conntrack ==
  \/ FindNothingCreate \/ AllocFails \/ ImplicitHelperFails \/ CreateAttr \/ CreateMaster
  \/ Insert \/ InsertFails \/ CreateFails \/ AttachLabels \/ Report
  \/ Change \/ ChangeAttr \/ ChangeDone
  \/ \E c \in Conns : Alloc(c)

ctnetlink_del_conntrack ==
  \/ Del \/ Delete \/ Flush \/ FlushRefused \/ FlushKill \/ FlushDone
  \/ \E c \in Conns : FlushVisit(c)

Handler ==
  \/ ParseFails \/ Find \/ FindNothing \/ Put
  \/ ctnetlink_new_conntrack \/ Get \/ ctnetlink_del_conntrack

Next ==
  \/ Kernel \/ Handler \/ ctnetlink_glue_parse
  \/ \E r \in Requests : Begin(r) \/ Queue(r)

Spec == Init /\ [][Next]_vars

-----------------------------------------------------------------------------
(* Properties.                                                             *)

PrivateLabels == {"create", "insert", "err"}
HeldLabels == {"found", "change", "labels", "report", "put", "delete", "kill",
               "queued", "verdict", "update"}

\* Every variable has its type; the request has an entry exactly where it needs one.
TypeOK ==
  /\ allocated \subseteq Conns /\ table \subseteq allocated
  /\ orig \in [Conns -> [flow : Flows, dir : {"orig"}] \cup {NoTuple}]
  /\ reply \in [Conns -> [flow : Flows, dir : {"reply"}] \cup {NoTuple}]
  /\ master \in [Conns -> Conns \cup {None}]
  /\ attr \in [Conns -> [Attrs -> Values]] /\ told \in [Conns -> [Attrs -> Values]]
  /\ use \in [Conns -> Nat]
  /\ offload \subseteq allocated /\ corpses \subseteq Conns
  /\ pc \in {"idle", "parse", "alloc", "flush"} \cup PrivateLabels \cup HeldLabels
  /\ req \in Requests \cup {NoRequest}
  /\ pc \in PrivateLabels \cup HeldLabels <=> ct # None
  /\ untold \cup victims \subseteq allocated

\* The references are the table's, the request's, and one for each entry whose
\* master it is.
Balanced ==
  \A c \in allocated :
    use[c] = (IF c \in table THEN 1 ELSE 0)
               + (IF ct = c /\ pc \in HeldLabels THEN 1 ELSE 0)
               + Cardinality({d \in allocated : master[d] = c
                                /\ ~(d = ct /\ pc = "err")})

EntriesAlive ==
  /\ ct # None => ct \in allocated
  /\ \A c \in table : master[c] # None => master[c] \in allocated

\* No path through a request leaks an entry or frees one that is still used: the
\* references balance, and the entry of a request and the masters of the entries
\* in the table are never freed memory.
RefCount == Balanced /\ EntriesAlive

\* A tuple leads to one entry, also when a packet and a request create entries
\* for the same flow at the same time.
TuplesUnique ==
  \A c, d \in table : c # d => orig[c] # orig[d] /\ reply[c] # reply[d]

\* Listeners know the attributes of every entry that no request is changing,
\* unless a request failed half-way or a verdict changed it.
EventsTell == \A c \in table : attr[c] # told[c] => c = ct \/ c \in untold

\* When a flush ends, the entries that it was to delete are gone.
FlushComplete == pc = "flush" /\ corpses = {} => victims \cap table = {}
=============================================================================
