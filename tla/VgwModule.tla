----------------------------- MODULE VgwModule ------------------------------
(***************************************************************************)
(* Loading and unloading the driver: ctnetlink_init and ctnetlink_exit of  *)
(* vgw_ct_netlink.c, with vgw_tcptrack_init and kprobe_init, against the   *)
(* kernel that calls what is registered and against the kernel's own       *)
(* nf_conntrack_netlink, which wants the same nfnetlink subsystems.        *)
(*                                                                         *)
(* An entry is a way from the kernel into the module: the kretprobe, the   *)
(* two nfnetlink subsystems, the event notifier and the glue hook.         *)
(***************************************************************************)
EXTENDS Naturals

CONSTANTS MaxCalls   \* bound: calls through one entry that run at a time

ASSUME MaxCallsAssumption == MaxCalls \in Nat \ {0}

Subsystems == {"ctnl", "exp"}
Entries == Subsystems \cup {"probe", "event", "hook"}
Owners == {"none", "vgw", "other"}

VARIABLES
  pc,        \* the place in ctnetlink_init or ctnetlink_exit
  owner,     \* whose code an entry leads to
  calls,     \* calls into vgw through each entry that have not returned
  dumps,     \* netlink dumps of vgw that have not ended
  refs,      \* references to the module
  left       \* what was left of a module that was freed when its load failed

vars == <<pc, owner, calls, dumps, refs, left>>

Init ==
  /\ pc = "out"
  /\ owner = [e \in Entries |-> "none"]
  /\ calls = [e \in Entries |-> 0]
  /\ dumps = 0 /\ refs = 0
  /\ left = {}

Goto(from, to) == pc = from /\ pc' = to
Registered(e) == owner' = [owner EXCEPT ![e] = "vgw"]
Unregistered(e) == owner' = [owner EXCEPT ![e] = "none"]

-----------------------------------------------------------------------------
(* The kernel (external).                                                  *)

\* nf_conntrack_netlink takes all its entries or none.
OtherLoad ==
  /\ \A e \in Subsystems \cup {"event"} : owner[e] = "none"
  /\ owner' = [e \in Entries |-> IF e = "probe" THEN owner[e] ELSE "other"]
  /\ UNCHANGED <<pc, calls, dumps, refs, left>>

OtherUnload ==
  /\ owner["ctnl"] = "other"
  /\ owner' = [e \in Entries |-> IF owner[e] = "other" THEN "none" ELSE owner[e]]
  /\ UNCHANGED <<pc, calls, dumps, refs, left>>

\* Some other module may have the expectation subsystem only.
OtherExpLoad ==
  /\ owner["exp"] = "none"
  /\ owner' = [owner EXCEPT !["exp"] = "other"]
  /\ UNCHANGED <<pc, calls, dumps, refs, left>>

OtherExpUnload ==
  /\ owner["exp"] = "other" /\ owner["ctnl"] # "other"
  /\ owner' = [owner EXCEPT !["exp"] = "none"]
  /\ UNCHANGED <<pc, calls, dumps, refs, left>>

\* The kernel calls the module; nfnl_lock admits one call into a subsystem.
Call(e) ==
  /\ owner[e] = "vgw"
  /\ calls[e] < IF e \in Subsystems THEN 1 ELSE MaxCalls
  /\ calls' = [calls EXCEPT ![e] = @ + 1]
  /\ UNCHANGED <<pc, owner, dumps, refs, left>>

CallReturns(e) ==
  /\ calls[e] > 0
  /\ calls' = [calls EXCEPT ![e] = @ - 1]
  /\ UNCHANGED <<pc, owner, dumps, refs, left>>

\* try_module_get fails for a module that is going, not for one that is loading.
Loading == pc \in {"init_exp", "init_pernet", "init_hook", "err_unreg_exp_subsys", "err_unreg_subsys"}
Gettable == Loading \/ pc = "live"

\* Fault: a dump is started without a reference to the module.
DumpStartUnheld ==
  /\ Gettable /\ \E e \in Subsystems : calls[e] > 0
  /\ dumps < MaxCalls
  /\ dumps' = dumps + 1
  /\ UNCHANGED <<pc, owner, calls, refs, left>>

\* A call that starts a dump: netlink_dump_start takes a reference for it.
DumpStart ==
  /\ Gettable /\ \E e \in Subsystems : calls[e] > 0
  /\ dumps < MaxCalls
  /\ dumps' = dumps + 1 /\ refs' = refs + 1
  /\ UNCHANGED <<pc, owner, calls, left>>

DumpEnd ==
  /\ dumps > 0
  /\ dumps' = dumps - 1 /\ refs' = refs - 1
  /\ UNCHANGED <<pc, owner, calls, left>>

-----------------------------------------------------------------------------
(* ctnetlink_init.                                                         *)

\* vgw_tcptrack_init calls kprobe_init, which may fail; it does not tell.
vgw_tcptrack_init ==
  /\ Goto("out", "init_ctnl")
  /\ Registered("probe") \/ UNCHANGED owner
  /\ UNCHANGED <<calls, dumps, refs, left>>

\* nfnetlink_subsys_register fails if the subsystem is taken, with -EBUSY.
RegisterCtnl ==
  /\ IF owner["ctnl"] = "none" THEN Goto("init_ctnl", "init_exp") /\ Registered("ctnl")
                               ELSE Goto("init_ctnl", "err_out") /\ UNCHANGED owner
  /\ UNCHANGED <<calls, dumps, refs, left>>

\* Fault: a failure goes to the label before the right one.
RegisterExpErrUnregExp ==
  /\ IF owner["exp"] = "none" THEN Goto("init_exp", "init_pernet") /\ Registered("exp")
                              ELSE Goto("init_exp", "err_unreg_exp_subsys") /\ UNCHANGED owner
  /\ UNCHANGED <<calls, dumps, refs, left>>

RegisterExp ==
  /\ IF owner["exp"] = "none" THEN Goto("init_exp", "init_pernet") /\ Registered("exp")
                              ELSE Goto("init_exp", "err_unreg_subsys") /\ UNCHANGED owner
  /\ UNCHANGED <<calls, dumps, refs, left>>

\* register_pernet_subsys, with ctnetlink_net_init; it may run out of memory.
RegisterPernet ==
  /\ \/ Goto("init_pernet", "init_hook") /\ Registered("event")
     \/ Goto("init_pernet", "err_unreg_exp_subsys") /\ UNCHANGED owner
  /\ UNCHANGED <<calls, dumps, refs, left>>

SetHook ==
  /\ Goto("init_hook", "live")
  /\ Registered("hook")
  /\ UNCHANGED <<calls, dumps, refs, left>>

\* nfnetlink_subsys_unregister takes nfnl_lock: no call is running.
ErrUnregExpSubsys ==
  /\ Goto("err_unreg_exp_subsys", "err_unreg_subsys")
  /\ calls["exp"] = 0
  /\ Unregistered("exp")
  /\ UNCHANGED <<calls, dumps, refs, left>>

ErrUnregSubsys ==
  /\ Goto("err_unreg_subsys", "err_out")
  /\ calls["ctnl"] = 0
  /\ Unregistered("ctnl")
  /\ UNCHANGED <<calls, dumps, refs, left>>

\* The init function fails and the kernel frees the module.  vgw_tcptrack_exit is
\* not called, so the kretprobe stays with the handlers that run, and so do the
\* dumps that were started meanwhile: the kernel waits for no reference here.
ErrOut ==
  /\ Goto("err_out", "out")
  /\ left' = left \cup {x \in {"probe", "dump"} : IF x = "probe" THEN owner["probe"] = "vgw" ELSE dumps > 0}
  /\ dumps' = 0 /\ refs' = 0
  /\ UNCHANGED <<owner, calls>>

-----------------------------------------------------------------------------
(* ctnetlink_exit.                                                         *)

\* delete_module does not begin while the module is held; kprobe_exit then
\* waits for the handlers that run.
vgw_tcptrack_exit ==
  /\ Goto("live", "exit_pernet")
  /\ refs = 0
  /\ calls["probe"] = 0
  /\ Unregistered("probe")
  /\ UNCHANGED <<calls, dumps, refs, left>>

\* ctnetlink_net_pre_exit; unregister_pernet_subsys waits for a grace period.
ctnetlink_net_pre_exit ==
  /\ Goto("exit_pernet", "exit_grace")
  /\ Unregistered("event")
  /\ UNCHANGED <<calls, dumps, refs, left>>

PernetGrace ==
  /\ Goto("exit_grace", "exit_exp")
  /\ calls["event"] = 0
  /\ UNCHANGED <<owner, calls, dumps, refs, left>>

UnregisterExp ==
  /\ Goto("exit_exp", "exit_ctnl")
  /\ calls["exp"] = 0
  /\ Unregistered("exp")
  /\ UNCHANGED <<calls, dumps, refs, left>>

UnregisterCtnl ==
  /\ Goto("exit_ctnl", "exit_hook")
  /\ calls["ctnl"] = 0
  /\ Unregistered("ctnl")
  /\ UNCHANGED <<calls, dumps, refs, left>>

ClearHook ==
  /\ Goto("exit_hook", "exit_sync")
  /\ Unregistered("hook")
  /\ UNCHANGED <<calls, dumps, refs, left>>

\* Fault: the module does not wait for the readers of the hook.
NoSynchronizeRcu ==
  /\ Goto("exit_sync", "out")
  /\ UNCHANGED <<owner, calls, dumps, refs, left>>

synchronize_rcu ==
  /\ Goto("exit_sync", "out")
  /\ calls["hook"] = 0
  /\ UNCHANGED <<owner, calls, dumps, refs, left>>

Other == OtherLoad \/ OtherUnload \/ OtherExpLoad \/ OtherExpUnload

Kernel == \/ \E e \in Entries : Call(e) \/ CallReturns(e)
          \/ DumpStart \/ DumpEnd

ctnetlink_init ==
  \/ vgw_tcptrack_init \/ RegisterCtnl \/ RegisterExp \/ RegisterPernet \/ SetHook
  \/ ErrUnregExpSubsys \/ ErrUnregSubsys \/ ErrOut

ctnetlink_exit ==
  \/ vgw_tcptrack_exit \/ ctnetlink_net_pre_exit \/ PernetGrace
  \/ UnregisterExp \/ UnregisterCtnl \/ ClearHook \/ synchronize_rcu

Next == Other \/ Kernel \/ ctnetlink_init \/ ctnetlink_exit

Spec == Init /\ [][Next]_vars

-----------------------------------------------------------------------------
(* Properties.                                                             *)

InitLabels == {"init_ctnl", "init_exp", "init_pernet", "init_hook"}
ErrLabels == {"err_unreg_exp_subsys", "err_unreg_subsys", "err_out"}
ExitLabels == {"exit_pernet", "exit_grace", "exit_exp", "exit_ctnl", "exit_hook", "exit_sync"}

\* Every variable has its type, and every dump holds the module.
TypeOK ==
  /\ pc \in {"out", "live"} \cup InitLabels \cup ErrLabels \cup ExitLabels
  /\ owner \in [Entries -> Owners]
  /\ calls \in [Entries -> 0..MaxCalls]
  /\ dumps \in 0..MaxCalls /\ refs = dumps
  /\ left \subseteq {"probe", "dump"}

\* The kretprobe may be missing: vgw_tcptrack_init does not tell that it failed.
LiveAnswers == pc = "live" => \A e \in Entries \ {"probe"} : owner[e] = "vgw"

\* The kretprobe of a module whose load failed is in left, with the handlers that
\* run, and so are its dumps.
NothingLeftBehind ==
  /\ pc = "out" => \A e \in Entries : ~(e = "probe" /\ "probe" \in left) => owner[e] # "vgw" /\ calls[e] = 0
  /\ pc \in {"out"} \cup ExitLabels => dumps = 0

\* A module that has been loaded is the only one that answers conntrack requests,
\* events and queue lookups; it may be without its kretprobe.  When ctnetlink_exit
\* has returned, no entry leads to the module and none of its code runs, not that
\* of a dump either, whatever the kernel was calling meanwhile.  The same holds of
\* a load that failed, whichever step did, but for two things: the kretprobe, if
\* it was registered, and dumps that were started before the failure.
AllOrNothing == LiveAnswers /\ NothingLeftBehind

\* Neither the error path nor ctnetlink_exit takes a subsystem or the notifier
\* away from another module that has it.  (It may take the glue hook: ClearHook
\* comes after the subsystems were given back.)
OthersKept ==
  [][\A e \in Subsystems \cup {"event"} :
        owner[e] = "other" /\ owner'[e] # "other" => OtherUnload \/ OtherExpUnload]_vars
=============================================================================
