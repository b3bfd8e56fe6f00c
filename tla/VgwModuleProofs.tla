-------------------------- MODULE VgwModuleProofs ---------------------------
(***************************************************************************)
(* Proofs about VgwModule: for any number of concurrent calls, the module  *)
(* leaves nothing behind, owns everything while it runs, and takes nothing *)
(* from another module.                                                    *)
(***************************************************************************)
EXTENDS VgwModule, TLAPS

\* The places at which the module has each entry.
CtnlLabels == {"init_exp", "init_pernet", "init_hook", "live", "err_unreg_exp_subsys",
               "err_unreg_subsys", "exit_pernet", "exit_grace", "exit_exp", "exit_ctnl"}
ExpLabels == {"init_pernet", "init_hook", "live", "err_unreg_exp_subsys",
              "exit_pernet", "exit_grace", "exit_exp"}
EventLabels == {"init_hook", "live", "exit_pernet"}
HookLabels == {"live", "exit_pernet", "exit_grace", "exit_exp", "exit_ctnl"}
ProbeLabels == {"live"} \cup InitLabels \cup ErrLabels

\* What the module has follows from where it is.  In "exit_hook" the hook may
\* already be another module's.  Who has the notifier has the subsystem.
OwnInv ==
  /\ owner["ctnl"] = "vgw" <=> pc \in CtnlLabels
  /\ owner["exp"] = "vgw" <=> pc \in ExpLabels
  /\ owner["event"] = "vgw" <=> pc \in EventLabels
  /\ pc \in HookLabels => owner["hook"] = "vgw"
  /\ owner["hook"] = "vgw" => pc \in HookLabels \cup {"exit_hook"}
  /\ owner["probe"] = "vgw" => pc \in ProbeLabels \/ (pc = "out" /\ "probe" \in left)
  /\ owner["event"] = "other" => owner["ctnl"] = "other"

\* A call runs in an entry the module has, or in one whose grace period is
\* still to come.
CallInv ==
  \A e \in Entries : calls[e] > 0 =>
    \/ owner[e] = "vgw"
    \/ e = "event" /\ pc = "exit_grace"
    \/ e = "hook" /\ pc \in {"exit_hook", "exit_sync"}

\* A dump starts in a call, and so only while the module has a subsystem; the exit
\* begins when there is none.
DumpInv == pc \in {"out"} \cup ExitLabels => dumps = 0

IInv == TypeOK /\ OwnInv /\ CallInv /\ DumpInv

LEMMA IInvInit == Init => IInv
<1> SUFFICES ASSUME Init PROVE IInv
  OBVIOUS
<1> USE DEF Init, Entries, Subsystems
<1>1. TypeOK
  <2>1. calls \in [Entries -> 0..MaxCalls] /\ dumps \in 0..MaxCalls /\ refs = dumps
    BY MaxCallsAssumption
  <2>2. owner \in [Entries -> Owners]
    BY DEF Owners
  <2>3. left \subseteq {"probe", "dump"}
    OBVIOUS
  <2> QED
    BY <2>1, <2>2, <2>3, Zenon DEF TypeOK
<1>2. OwnInv
  BY DEF OwnInv, CtnlLabels, ExpLabels, EventLabels, HookLabels, ProbeLabels
<1>3. CallInv
  BY DEF CallInv
<1>4. DumpInv
  BY DEF DumpInv
<1> QED
  BY <1>1, <1>2, <1>3, <1>4 DEF IInv

LEMMA IInvNext == IInv /\ [Next]_vars => IInv'
<1> SUFFICES ASSUME IInv, [Next]_vars PROVE IInv'
  OBVIOUS
<1> USE DEF Entries, Subsystems
<1>t. /\ owner \in [Entries -> Owners] /\ calls \in [Entries -> 0..MaxCalls]
      /\ dumps \in 0..MaxCalls /\ refs = dumps /\ OwnInv /\ CallInv /\ DumpInv /\ TypeOK
  BY DEF IInv, TypeOK
<1>1. CASE Other
  <2>1. UNCHANGED <<pc, calls, dumps, refs, left>>
    BY <1>1 DEF Other, OtherLoad, OtherUnload, OtherExpLoad, OtherExpUnload
  <2>2. owner' \in [Entries -> Owners]
    BY <1>1, <1>t DEF Other, OtherLoad, OtherUnload, OtherExpLoad, OtherExpUnload, Owners
  <2>3. /\ \A e \in Entries : owner[e] = "vgw" => owner'[e] = "vgw" \/ (e = "hook" /\ pc = "exit_hook")
        /\ \A e \in Entries : owner'[e] = "vgw" => owner[e] = "vgw"
        /\ owner'["event"] = "other" => owner'["ctnl"] = "other"
    <3>0. owner["event"] = "other" => owner["ctnl"] = "other"
      BY <1>t DEF OwnInv
    <3>1. CASE OtherLoad
      <4>1. owner["hook"] = "vgw" => pc = "exit_hook"
        BY <1>t, <3>1 DEF OtherLoad, OwnInv, HookLabels, CtnlLabels
      <4> QED BY <1>t, <3>1, <4>1 DEF OtherLoad
    <3>2. CASE OtherUnload
      BY <1>t, <3>0, <3>2 DEF OtherUnload
    <3>3. CASE OtherExpLoad \/ OtherExpUnload
      BY <1>t, <3>0, <3>3 DEF OtherExpLoad, OtherExpUnload
    <3> QED BY <1>1, <3>1, <3>2, <3>3 DEF Other
  <2>4. OwnInv'
    BY <1>t, <2>1, <2>3 DEF OwnInv, HookLabels
  <2> QED BY <1>t, <2>1, <2>2, <2>3, <2>4 DEF IInv, TypeOK, CallInv, DumpInv
<1>2. ASSUME NEW e \in Entries, Call(e) \/ CallReturns(e) PROVE IInv'
  <2>1. UNCHANGED <<pc, owner, dumps, refs, left>>
    BY <1>2 DEF Call, CallReturns
  <2>2. calls' \in [Entries -> 0..MaxCalls] /\ \A d \in Entries : calls'[d] > 0 => calls[d] > 0 \/ owner[d] = "vgw"
    <3>1. calls[e] \in 0..MaxCalls BY <1>t
    <3>2. CASE Call(e)
      <4>1. calls[e] < MaxCalls BY <3>1, <3>2, MaxCallsAssumption DEF Call
      <4> QED BY <1>t, <3>1, <3>2, <4>1, MaxCallsAssumption DEF Call
    <3>3. CASE CallReturns(e) BY <1>t, <3>1, <3>3, MaxCallsAssumption DEF CallReturns
    <3> QED BY <1>2, <3>2, <3>3
  <2>3. TypeOK' BY <1>t, <2>1, <2>2 DEF TypeOK
  <2>4. OwnInv' /\ DumpInv' BY <1>t, <2>1 DEF OwnInv, DumpInv
  <2>5. CallInv' BY <1>t, <2>1, <2>2 DEF CallInv
  <2> QED BY <2>3, <2>4, <2>5 DEF IInv
<1>3. CASE DumpStart \/ DumpEnd
  <2>1. UNCHANGED <<pc, owner, calls, left>>
    BY <1>3 DEF DumpStart, DumpEnd
  <2>2. dumps' \in 0..MaxCalls /\ refs' = dumps' /\ (dumps = 0 => Gettable)
    BY <1>3, <1>t, MaxCallsAssumption DEF DumpStart, DumpEnd
  <2>3. TypeOK' BY <1>t, <2>1, <2>2 DEF TypeOK
  <2>4. OwnInv' /\ CallInv' BY <1>t, <2>1 DEF OwnInv, CallInv
  <2>5. DumpInv' BY <1>t, <2>1, <2>2 DEF DumpInv, Gettable, Loading, ExitLabels
  <2> QED BY <2>3, <2>4, <2>5 DEF IInv
<1>4. CASE ctnetlink_init
  <2>1. CASE vgw_tcptrack_init
    <3>1. UNCHANGED <<calls, dumps, refs, left>> /\ TypeOK'
      BY <1>t, <2>1 DEF vgw_tcptrack_init, Goto, Registered, Unregistered, TypeOK, Owners, InitLabels,
                  ErrLabels, ExitLabels
    <3>2. OwnInv'
      BY <1>t, <2>1 DEF vgw_tcptrack_init, Goto, Registered, Unregistered, OwnInv, CtnlLabels, ExpLabels, EventLabels, HookLabels, ProbeLabels, InitLabels, ErrLabels,
                  ExitLabels
    <3>3. CallInv'
      BY <1>t, <2>1, <3>1 DEF vgw_tcptrack_init, Goto, Registered, Unregistered, CallInv, OwnInv, CtnlLabels, ExpLabels, EventLabels, HookLabels, ProbeLabels, InitLabels, ErrLabels,
                  ExitLabels
    <3>4. DumpInv'
      BY <1>t, <2>1, <3>1 DEF vgw_tcptrack_init, Goto, DumpInv, InitLabels, ErrLabels, ExitLabels
    <3> QED BY <3>1, <3>2, <3>3, <3>4 DEF IInv
  <2>2. CASE RegisterCtnl
    <3>1. UNCHANGED <<calls, dumps, refs, left>> /\ TypeOK'
      BY <1>t, <2>2 DEF RegisterCtnl, Goto, Registered, Unregistered, TypeOK, Owners, InitLabels,
                  ErrLabels, ExitLabels
    <3>2. OwnInv'
      BY <1>t, <2>2 DEF RegisterCtnl, Goto, Registered, Unregistered, OwnInv, CtnlLabels, ExpLabels, EventLabels, HookLabels, ProbeLabels, InitLabels, ErrLabels,
                  ExitLabels
    <3>3. CallInv'
      BY <1>t, <2>2, <3>1 DEF RegisterCtnl, Goto, Registered, Unregistered, CallInv, OwnInv, CtnlLabels, ExpLabels, EventLabels, HookLabels, ProbeLabels, InitLabels, ErrLabels,
                  ExitLabels
    <3>4. DumpInv'
      BY <1>t, <2>2, <3>1 DEF RegisterCtnl, Goto, DumpInv, InitLabels, ErrLabels, ExitLabels
    <3> QED BY <3>1, <3>2, <3>3, <3>4 DEF IInv
  <2>3. CASE RegisterExp
    <3>1. UNCHANGED <<calls, dumps, refs, left>> /\ TypeOK'
      BY <1>t, <2>3 DEF RegisterExp, Goto, Registered, Unregistered, TypeOK, Owners, InitLabels,
                  ErrLabels, ExitLabels
    <3>2. OwnInv'
      BY <1>t, <2>3 DEF RegisterExp, Goto, Registered, Unregistered, OwnInv, CtnlLabels, ExpLabels, EventLabels, HookLabels, ProbeLabels, InitLabels, ErrLabels,
                  ExitLabels
    <3>3. CallInv'
      BY <1>t, <2>3, <3>1 DEF RegisterExp, Goto, Registered, Unregistered, CallInv, OwnInv, CtnlLabels, ExpLabels, EventLabels, HookLabels, ProbeLabels, InitLabels, ErrLabels,
                  ExitLabels
    <3>4. DumpInv'
      BY <1>t, <2>3, <3>1 DEF RegisterExp, Goto, DumpInv, InitLabels, ErrLabels, ExitLabels
    <3> QED BY <3>1, <3>2, <3>3, <3>4 DEF IInv
  <2>4. CASE RegisterPernet
    <3>1. UNCHANGED <<calls, dumps, refs, left>> /\ TypeOK'
      BY <1>t, <2>4 DEF RegisterPernet, Goto, Registered, Unregistered, TypeOK, Owners, InitLabels,
                  ErrLabels, ExitLabels
    <3>2. OwnInv'
      BY <1>t, <2>4 DEF RegisterPernet, Goto, Registered, Unregistered, OwnInv, CtnlLabels, ExpLabels, EventLabels, HookLabels, ProbeLabels, InitLabels, ErrLabels,
                  ExitLabels
    <3>3. CallInv'
      BY <1>t, <2>4, <3>1 DEF RegisterPernet, Goto, Registered, Unregistered, CallInv, OwnInv, CtnlLabels, ExpLabels, EventLabels, HookLabels, ProbeLabels, InitLabels, ErrLabels,
                  ExitLabels
    <3>4. DumpInv'
      BY <1>t, <2>4, <3>1 DEF RegisterPernet, Goto, DumpInv, InitLabels, ErrLabels, ExitLabels
    <3> QED BY <3>1, <3>2, <3>3, <3>4 DEF IInv
  <2>5. CASE SetHook
    <3>1. UNCHANGED <<calls, dumps, refs, left>> /\ TypeOK'
      BY <1>t, <2>5 DEF SetHook, Goto, Registered, Unregistered, TypeOK, Owners, InitLabels,
                  ErrLabels, ExitLabels
    <3>2. OwnInv'
      BY <1>t, <2>5 DEF SetHook, Goto, Registered, Unregistered, OwnInv, CtnlLabels, ExpLabels, EventLabels, HookLabels, ProbeLabels, InitLabels, ErrLabels,
                  ExitLabels
    <3>3. CallInv'
      BY <1>t, <2>5, <3>1 DEF SetHook, Goto, Registered, Unregistered, CallInv, OwnInv, CtnlLabels, ExpLabels, EventLabels, HookLabels, ProbeLabels, InitLabels, ErrLabels,
                  ExitLabels
    <3>4. DumpInv'
      BY <1>t, <2>5, <3>1 DEF SetHook, Goto, DumpInv, InitLabels, ErrLabels, ExitLabels
    <3> QED BY <3>1, <3>2, <3>3, <3>4 DEF IInv
  <2>6. CASE ErrUnregExpSubsys
    <3>1. UNCHANGED <<calls, dumps, refs, left>> /\ TypeOK'
      BY <1>t, <2>6 DEF ErrUnregExpSubsys, Goto, Registered, Unregistered, TypeOK, Owners, InitLabels,
                  ErrLabels, ExitLabels
    <3>2. OwnInv'
      BY <1>t, <2>6 DEF ErrUnregExpSubsys, Goto, Registered, Unregistered, OwnInv, CtnlLabels, ExpLabels, EventLabels, HookLabels, ProbeLabels, InitLabels, ErrLabels,
                  ExitLabels
    <3>3. CallInv'
      BY <1>t, <2>6, <3>1 DEF ErrUnregExpSubsys, Goto, Registered, Unregistered, CallInv, OwnInv, CtnlLabels, ExpLabels, EventLabels, HookLabels, ProbeLabels, InitLabels, ErrLabels,
                  ExitLabels
    <3>4. DumpInv'
      BY <1>t, <2>6, <3>1 DEF ErrUnregExpSubsys, Goto, DumpInv, InitLabels, ErrLabels, ExitLabels
    <3> QED BY <3>1, <3>2, <3>3, <3>4 DEF IInv
  <2>7. CASE ErrUnregSubsys
    <3>1. UNCHANGED <<calls, dumps, refs, left>> /\ TypeOK'
      BY <1>t, <2>7 DEF ErrUnregSubsys, Goto, Registered, Unregistered, TypeOK, Owners, InitLabels,
                  ErrLabels, ExitLabels
    <3>2. OwnInv'
      BY <1>t, <2>7 DEF ErrUnregSubsys, Goto, Registered, Unregistered, OwnInv, CtnlLabels, ExpLabels, EventLabels, HookLabels, ProbeLabels, InitLabels, ErrLabels,
                  ExitLabels
    <3>3. CallInv'
      BY <1>t, <2>7, <3>1 DEF ErrUnregSubsys, Goto, Registered, Unregistered, CallInv, OwnInv, CtnlLabels, ExpLabels, EventLabels, HookLabels, ProbeLabels, InitLabels, ErrLabels,
                  ExitLabels
    <3>4. DumpInv'
      BY <1>t, <2>7, <3>1 DEF ErrUnregSubsys, Goto, DumpInv, InitLabels, ErrLabels, ExitLabels
    <3> QED BY <3>1, <3>2, <3>3, <3>4 DEF IInv
  <2>8. CASE ErrOut
    <3>1. UNCHANGED <<owner, calls>> /\ pc = "err_out" /\ pc' = "out" /\ dumps' = 0 /\ refs' = 0
      BY <2>8 DEF ErrOut, Goto
    <3>2. left' \subseteq {"probe", "dump"} /\ (owner["probe"] = "vgw" => "probe" \in left')
      BY <1>t, <2>8 DEF ErrOut, TypeOK
    <3>3. TypeOK'
      BY <1>t, <3>1, <3>2, MaxCallsAssumption DEF TypeOK
    <3>4. OwnInv' /\ CallInv' /\ DumpInv'
      BY <1>t, <3>1, <3>2 DEF OwnInv, CallInv, DumpInv, CtnlLabels, ExpLabels, EventLabels, HookLabels
    <3> QED BY <3>3, <3>4 DEF IInv
  <2> QED
    BY <1>4, <2>1, <2>2, <2>3, <2>4, <2>5, <2>6, <2>7, <2>8 DEF ctnetlink_init
<1>5. CASE ctnetlink_exit
  <2>1. CASE vgw_tcptrack_exit
    <3>1. UNCHANGED <<calls, dumps, refs, left>> /\ TypeOK'
      BY <1>t, <2>1 DEF vgw_tcptrack_exit, Goto, Registered, Unregistered, TypeOK, Owners, InitLabels,
                  ErrLabels, ExitLabels
    <3>2. OwnInv'
      BY <1>t, <2>1 DEF vgw_tcptrack_exit, Goto, Registered, Unregistered, OwnInv, CtnlLabels, ExpLabels, EventLabels, HookLabels, ProbeLabels, InitLabels, ErrLabels,
                  ExitLabels
    <3>3. CallInv'
      BY <1>t, <2>1, <3>1 DEF vgw_tcptrack_exit, Goto, Registered, Unregistered, CallInv, OwnInv, CtnlLabels, ExpLabels, EventLabels, HookLabels, ProbeLabels, InitLabels, ErrLabels,
                  ExitLabels
    <3>4. DumpInv'
      BY <1>t, <2>1, <3>1 DEF vgw_tcptrack_exit, Goto, DumpInv, InitLabels, ErrLabels, ExitLabels
    <3> QED BY <3>1, <3>2, <3>3, <3>4 DEF IInv
  <2>2. CASE ctnetlink_net_pre_exit
    <3>1. UNCHANGED <<calls, dumps, refs, left>> /\ TypeOK'
      BY <1>t, <2>2 DEF ctnetlink_net_pre_exit, Goto, Registered, Unregistered, TypeOK, Owners, InitLabels,
                  ErrLabels, ExitLabels
    <3>2. OwnInv'
      BY <1>t, <2>2 DEF ctnetlink_net_pre_exit, Goto, Registered, Unregistered, OwnInv, CtnlLabels, ExpLabels, EventLabels, HookLabels, ProbeLabels, InitLabels, ErrLabels,
                  ExitLabels
    <3>3. CallInv'
      BY <1>t, <2>2, <3>1 DEF ctnetlink_net_pre_exit, Goto, Registered, Unregistered, CallInv, OwnInv, CtnlLabels, ExpLabels, EventLabels, HookLabels, ProbeLabels, InitLabels, ErrLabels,
                  ExitLabels
    <3>4. DumpInv'
      BY <1>t, <2>2, <3>1 DEF ctnetlink_net_pre_exit, Goto, DumpInv, InitLabels, ErrLabels, ExitLabels
    <3> QED BY <3>1, <3>2, <3>3, <3>4 DEF IInv
  <2>3. CASE PernetGrace
    <3>1. UNCHANGED <<calls, dumps, refs, left>> /\ TypeOK'
      BY <1>t, <2>3 DEF PernetGrace, Goto, Registered, Unregistered, TypeOK, Owners, InitLabels,
                  ErrLabels, ExitLabels
    <3>2. OwnInv'
      BY <1>t, <2>3 DEF PernetGrace, Goto, Registered, Unregistered, OwnInv, CtnlLabels, ExpLabels, EventLabels, HookLabels, ProbeLabels, InitLabels, ErrLabels,
                  ExitLabels
    <3>3. CallInv'
      BY <1>t, <2>3, <3>1 DEF PernetGrace, Goto, Registered, Unregistered, CallInv, OwnInv, CtnlLabels, ExpLabels, EventLabels, HookLabels, ProbeLabels, InitLabels, ErrLabels,
                  ExitLabels
    <3>4. DumpInv'
      BY <1>t, <2>3, <3>1 DEF PernetGrace, Goto, DumpInv, InitLabels, ErrLabels, ExitLabels
    <3> QED BY <3>1, <3>2, <3>3, <3>4 DEF IInv
  <2>4. CASE UnregisterExp
    <3>1. UNCHANGED <<calls, dumps, refs, left>> /\ TypeOK'
      BY <1>t, <2>4 DEF UnregisterExp, Goto, Registered, Unregistered, TypeOK, Owners, InitLabels,
                  ErrLabels, ExitLabels
    <3>2. OwnInv'
      BY <1>t, <2>4 DEF UnregisterExp, Goto, Registered, Unregistered, OwnInv, CtnlLabels, ExpLabels, EventLabels, HookLabels, ProbeLabels, InitLabels, ErrLabels,
                  ExitLabels
    <3>3. CallInv'
      BY <1>t, <2>4, <3>1 DEF UnregisterExp, Goto, Registered, Unregistered, CallInv, OwnInv, CtnlLabels, ExpLabels, EventLabels, HookLabels, ProbeLabels, InitLabels, ErrLabels,
                  ExitLabels
    <3>4. DumpInv'
      BY <1>t, <2>4, <3>1 DEF UnregisterExp, Goto, DumpInv, InitLabels, ErrLabels, ExitLabels
    <3> QED BY <3>1, <3>2, <3>3, <3>4 DEF IInv
  <2>5. CASE UnregisterCtnl
    <3>1. UNCHANGED <<calls, dumps, refs, left>> /\ TypeOK'
      BY <1>t, <2>5 DEF UnregisterCtnl, Goto, Registered, Unregistered, TypeOK, Owners, InitLabels,
                  ErrLabels, ExitLabels
    <3>2. OwnInv'
      BY <1>t, <2>5 DEF UnregisterCtnl, Goto, Registered, Unregistered, OwnInv, CtnlLabels, ExpLabels, EventLabels, HookLabels, ProbeLabels, InitLabels, ErrLabels,
                  ExitLabels
    <3>3. CallInv'
      BY <1>t, <2>5, <3>1 DEF UnregisterCtnl, Goto, Registered, Unregistered, CallInv, OwnInv, CtnlLabels, ExpLabels, EventLabels, HookLabels, ProbeLabels, InitLabels, ErrLabels,
                  ExitLabels
    <3>4. DumpInv'
      BY <1>t, <2>5, <3>1 DEF UnregisterCtnl, Goto, DumpInv, InitLabels, ErrLabels, ExitLabels
    <3> QED BY <3>1, <3>2, <3>3, <3>4 DEF IInv
  <2>6. CASE ClearHook
    <3>1. UNCHANGED <<calls, dumps, refs, left>> /\ TypeOK'
      BY <1>t, <2>6 DEF ClearHook, Goto, Registered, Unregistered, TypeOK, Owners, InitLabels,
                  ErrLabels, ExitLabels
    <3>2. OwnInv'
      BY <1>t, <2>6 DEF ClearHook, Goto, Registered, Unregistered, OwnInv, CtnlLabels, ExpLabels, EventLabels, HookLabels, ProbeLabels, InitLabels, ErrLabels,
                  ExitLabels
    <3>3. CallInv'
      BY <1>t, <2>6, <3>1 DEF ClearHook, Goto, Registered, Unregistered, CallInv, OwnInv, CtnlLabels, ExpLabels, EventLabels, HookLabels, ProbeLabels, InitLabels, ErrLabels,
                  ExitLabels
    <3>4. DumpInv'
      BY <1>t, <2>6, <3>1 DEF ClearHook, Goto, DumpInv, InitLabels, ErrLabels, ExitLabels
    <3> QED BY <3>1, <3>2, <3>3, <3>4 DEF IInv
  <2>7. CASE synchronize_rcu
    <3>1. UNCHANGED <<calls, dumps, refs, left>> /\ TypeOK'
      BY <1>t, <2>7 DEF synchronize_rcu, Goto, Registered, Unregistered, TypeOK, Owners, InitLabels,
                  ErrLabels, ExitLabels
    <3>2. OwnInv'
      BY <1>t, <2>7 DEF synchronize_rcu, Goto, Registered, Unregistered, OwnInv, CtnlLabels, ExpLabels, EventLabels, HookLabels, ProbeLabels, InitLabels, ErrLabels,
                  ExitLabels
    <3>3. CallInv'
      BY <1>t, <2>7, <3>1 DEF synchronize_rcu, Goto, Registered, Unregistered, CallInv, OwnInv, CtnlLabels, ExpLabels, EventLabels, HookLabels, ProbeLabels, InitLabels, ErrLabels,
                  ExitLabels
    <3>4. DumpInv'
      BY <1>t, <2>7, <3>1 DEF synchronize_rcu, Goto, DumpInv, InitLabels, ErrLabels, ExitLabels
    <3> QED BY <3>1, <3>2, <3>3, <3>4 DEF IInv
  <2> QED
    BY <1>5, <2>1, <2>2, <2>3, <2>4, <2>5, <2>6, <2>7 DEF ctnetlink_exit
<1>6. CASE UNCHANGED vars
  BY <1>t, <1>6 DEF vars, IInv, TypeOK, OwnInv, CallInv, DumpInv
<1> QED
  BY <1>1, <1>2, <1>3, <1>4, <1>5, <1>6 DEF Next, Kernel

\* A module that ctnetlink_exit has unloaded has no entry and runs no code, not
\* that of a dump either; of one whose load failed only the kretprobe and dumps
\* can be left; and one that is live has every entry but, possibly, the kretprobe.
THEOREM Lifecycle == Spec => []AllOrNothing
<1>1. IInv => AllOrNothing
  BY DEF IInv, TypeOK, OwnInv, CallInv, DumpInv, AllOrNothing, NothingLeftBehind, LiveAnswers, Entries, Subsystems,
         CtnlLabels, ExpLabels, EventLabels, HookLabels, ProbeLabels, InitLabels, ErrLabels
<1> QED
  BY IInvInit, IInvNext, <1>1, PTL DEF Spec

\* No step of ctnetlink_init or ctnetlink_exit takes a subsystem or the event
\* notifier from another module.
THEOREM Courtesy == Spec => OthersKept
<1> DEFINE Kept == \A e \in Subsystems \cup {"event"} :
                     owner[e] = "other" /\ owner'[e] # "other" => OtherUnload \/ OtherExpUnload
<1>1. IInv /\ [Next]_vars => [Kept]_vars
  <2> SUFFICES ASSUME IInv, Next, NEW e \in Subsystems \cup {"event"},
                      owner[e] = "other", owner'[e] # "other"
               PROVE  OtherUnload \/ OtherExpUnload
    BY DEF vars
  <2> USE DEF IInv, TypeOK, OwnInv, Entries, Subsystems, Owners, CtnlLabels, ExpLabels,
              EventLabels, Goto, Registered, Unregistered
  <2>1. CASE Other
    BY <2>1 DEF Other, OtherLoad, OtherExpLoad
  <2>2. CASE Kernel
    BY <2>2 DEF Kernel, Call, CallReturns, DumpStart, DumpEnd
  <2>3. CASE ctnetlink_init
    <3>1. CASE vgw_tcptrack_init
      BY <3>1 DEF vgw_tcptrack_init
    <3>2. CASE RegisterCtnl
      BY <3>2 DEF RegisterCtnl
    <3>3. CASE RegisterExp
      BY <3>3 DEF RegisterExp
    <3>4. CASE RegisterPernet
      BY <3>4 DEF RegisterPernet
    <3>5. CASE SetHook
      BY <3>5 DEF SetHook
    <3>6. CASE ErrUnregExpSubsys
      BY <3>6 DEF ErrUnregExpSubsys
    <3>7. CASE ErrUnregSubsys
      BY <3>7 DEF ErrUnregSubsys
    <3>8. CASE ErrOut
      BY <3>8 DEF ErrOut
    <3> QED
      BY <2>3, <3>1, <3>2, <3>3, <3>4, <3>5, <3>6, <3>7, <3>8 DEF ctnetlink_init
  <2>4. CASE ctnetlink_exit
    BY <2>4 DEF ctnetlink_exit, vgw_tcptrack_exit, ctnetlink_net_pre_exit, PernetGrace,
                UnregisterExp, UnregisterCtnl, ClearHook, synchronize_rcu
  <2> QED
    BY <2>1, <2>2, <2>3, <2>4 DEF Next
<1> QED
  BY IInvInit, IInvNext, <1>1, PTL DEF Spec, OthersKept

\* Where the module is, who has each entry of the kernel and how many calls run
\* keep their types, and every dump holds a reference to the module, one that was
\* started during the load too.
THEOREM Typing == Spec => []TypeOK
<1>1. IInv => TypeOK
  BY DEF IInv
<1> QED
  BY IInvInit, IInvNext, <1>1, PTL DEF Spec
=============================================================================
