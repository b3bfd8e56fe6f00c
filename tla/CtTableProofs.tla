--------------------------- MODULE CtTableProofs ----------------------------
(***************************************************************************)
(* For any number of entries, flows and attributes and any set of requests:*)
(* references balance and no entry is freed while it is used, a tuple leads*)
(* to one entry, listeners know the attributes of entries, and a flush that*)
(* ends has deleted what it was to delete.                                 *)
(***************************************************************************)
EXTENDS CtTable, FiniteSetTheorems, TLAPS

-----------------------------------------------------------------------------
(* The invariants.                                                         *)

\* The entries whose reference to their master c counts: not that of an entry
\* whose creation has failed, which was put before (err3).
Wards(c) == {d \in allocated : master[d] = c /\ ~(d = ct /\ pc = "err")}

Held(c) == ct = c /\ pc \in HeldLabels

\* What is not allocated has no reference and no master.
FreeInv == \A c \in Conns \ allocated : use[c] = 0 /\ master[c] = None

\* Masters are alive, whether their entries are in the table or not.
MasterInv == \A d \in allocated : master[d] # None /\ ~(d = ct /\ pc = "err") => master[d] \in allocated

\* Nobody else knows the entry that a request creates.
PrivateInv ==
  /\ pc \in PrivateLabels => use[ct] = 0 /\ ct \notin table \cup offload \cup untold
  /\ pc = "create" => master[ct] = None

\* A handler works on a request, and an entry that it is to delete is in memory.
RequestInv ==
  /\ pc # "idle" => req \in Requests
  /\ victims \subseteq table
  /\ ct \in allocated \cup {None}

RefInv == TypeOK /\ Balanced /\ FreeInv /\ MasterInv /\ PrivateInv /\ RequestInv

\* Between the step that changes an entry and the event about it, the entry is
\* that of a request which is changing it.
Changing == {"create", "insert", "err", "labels", "report", "change", "verdict", "update"}
EventsInv == \A c \in table : attr[c] # told[c] => (c = ct /\ pc \in Changing) \/ c \in untold

\* What a flush is to delete and has not deleted yet it has still to visit, and
\* when it does the entry still matches.
FlushInv ==
  /\ pc = "flush" => victims \subseteq corpses
  /\ pc = "kill" => victims \subseteq corpses \cup {ct}
  /\ pc \in {"flush", "kill"} => \A c \in victims : c \notin offload /\ Matches(c)

-----------------------------------------------------------------------------
(* Counting, and the requests.                                             *)

LEMMA Counting ==
  ASSUME NEW S \in SUBSET Conns
  PROVE  /\ Cardinality(S) \in Nat
         /\ Cardinality(S) = 0 <=> S = {}
         /\ \A d \in Conns \ S : Cardinality(S \cup {d}) = Cardinality(S) + 1
         /\ \A d \in S : Cardinality(S \ {d}) = Cardinality(S) - 1
<1>1. IsFiniteSet(S)
  BY ConnsAssumption, FS_Subset
<1> QED
  BY <1>1, FS_CardinalityType, FS_EmptySet, FS_AddElement, FS_RemoveElement

LEMMA RequestFields ==
  ASSUME NEW r \in Requests
  PROVE  /\ r.val \in Values /\ r.orig \in Flows \cup {None} /\ r.reply \in Flows \cup {None}
         /\ r.master \in Flows \cup {None} /\ r.attrs \in SUBSET Attrs
BY RequestsAssumption DEF Request

LEMMA SetType ==
  ASSUME attr \in [Conns -> [Attrs -> Values]], req.val \in Values, NEW c \in Conns, NEW a
  PROVE  /\ Set(c, a) \in [Conns -> [Attrs -> Values]]
         /\ \A d \in Conns : d # c => Set(c, a)[d] = attr[d]
         /\ \A b \in Attrs : b # a => Set(c, a)[c][b] = attr[c][b]
         /\ a = "status" => Set(c, a)[c]["status"] = req.val
BY AttrsAssumption DEF Set

LEMMA TupleType ==
  ASSUME NEW f \in Flows \cup {None}, NEW d
  PROVE  Tuple(f, d) \in [flow : Flows, dir : {d}] \cup {NoTuple}
BY DEF Tuple

-----------------------------------------------------------------------------
(* Types.                                                                  *)

LEMMA RefInit == Init => RefInv
<1> SUFFICES ASSUME Init PROVE RefInv
  OBVIOUS
<1>1. TypeOK
  BY DEF Init, TypeOK, NoTuple, NoAttr, Values, PrivateLabels, HeldLabels
<1> QED
  BY <1>1 DEF Init, RefInv, Balanced, FreeInv, MasterInv, PrivateInv, RequestInv, PrivateLabels,
              HeldLabels

\* A reference that somebody has can be dropped.
LEMMA UseIsPositive ==
  ASSUME RefInv
  PROVE  /\ \A c \in table : use[c] > 0
         /\ \A c \in Conns : Held(c) => use[c] > 0
         /\ \A c \in table : Held(c) => use[c] > 1
         /\ \A d \in allocated : master[d] # None /\ ~(d = ct /\ pc = "err")
              => master[d] \in allocated /\ use[master[d]] > 0
<1>1. \A c \in allocated : /\ Wards(c) \in SUBSET Conns
                           /\ Cardinality(Wards(c)) \in Nat
                           /\ Cardinality(Wards(c)) = 0 <=> Wards(c) = {}
  BY Counting DEF RefInv, TypeOK, Wards
<1>2. \A c \in allocated : use[c] = (IF c \in table THEN 1 ELSE 0) + (IF Held(c) THEN 1 ELSE 0)
                                      + Cardinality(Wards(c))
  BY DEF RefInv, Balanced, Held, Wards
<1>3. table \subseteq allocated /\ \A c \in Conns : Held(c) => c \in allocated
  BY ConnsAssumption DEF RefInv, TypeOK, RequestInv, Held
<1>4. ASSUME NEW d \in allocated, master[d] # None, ~(d = ct /\ pc = "err")
      PROVE  master[d] \in allocated /\ use[master[d]] > 0
  <2>1. master[d] \in allocated /\ d \in Wards(master[d])
    BY <1>4 DEF RefInv, MasterInv, Wards
  <2>2. Cardinality(Wards(master[d])) > 0
    BY <1>1, <2>1
  <2> QED
    BY <1>1, <1>2, <2>1, <2>2
<1> QED
  BY <1>1, <1>2, <1>3, <1>4

\* The steps that leave memory and table alone and only move the request on,
\* without or with its entry.
Ending == ParseFails \/ FindNothing \/ AllocFails \/ FlushDone \/ FlushRefused
Moving == Change \/ ChangeDone \/ Verdict \/ VerdictDone \/ Get \/ Del
Setting == ImplicitHelperFails \/ CreateAttr \/ AttachLabels \/ ChangeAttr \/ VerdictAttr \/ UpdateStatus

LEMMA TypeStep == RefInv /\ [Next]_vars => TypeOK'
<1> SUFFICES ASSUME RefInv, [Next]_vars PROVE TypeOK'
  OBVIOUS
<1>a. TypeOK
  BY DEF RefInv
<1>b. /\ \A c \in table : use[c] > 0
      /\ \A c \in Conns : Held(c) => use[c] > 0
      /\ \A c \in table : Held(c) => use[c] > 1
      /\ \A d \in allocated : master[d] # None /\ ~(d = ct /\ pc = "err")
           => master[d] \in allocated /\ use[master[d]] > 0
  BY UseIsPositive
<1>c. (pc # "idle" => req \in Requests) /\ ct \in allocated \cup {None} /\ victims \subseteq table
  BY DEF RefInv, RequestInv
<1> USE DEF TypeOK, entry, request, history
<1>1. ASSUME NEW c \in Conns, NEW f \in Flows, NEW g \in Flows, PacketInsert(c, f, g) PROVE TypeOK'
  BY <1>1, <1>a, TupleType DEF PacketInsert, NoAttr, Values, Free
<1>2. ASSUME NEW c \in Conns, Timeout(c) PROVE TypeOK'
  BY <1>2, <1>a, <1>b DEF Timeout, Released
<1>3. ASSUME NEW c \in Conns, PacketAssures(c) \/ Offload(c) \/ Onload(c) PROVE TypeOK'
  <2>1. CASE PacketAssures(c)
    <3>1. attr' \in [Conns -> [Attrs -> Values]] /\ told' \in [Conns -> [Attrs -> Values]]
      BY <2>1, <1>a, AttrsAssumption DEF PacketAssures, Values
    <3> QED
      BY <2>1, <1>a, <3>1 DEF PacketAssures
  <2>2. CASE Offload(c)
    BY <2>2, <1>a DEF Offload
  <2>3. CASE Onload(c)
    BY <2>3, <1>a DEF Onload
  <2> QED
    BY <1>3, <2>1, <2>2, <2>3
<1>4. ASSUME NEW c \in Conns, Destroy(c) PROVE TypeOK'
  <2>1. use' \in [Conns -> Nat]
    BY <1>4, <1>a, <1>b DEF Destroy, Released
  <2>2. table \subseteq allocated' /\ victims \subseteq allocated'
    BY <1>4, <1>a, <1>b, <1>c DEF Destroy
  <2> QED
    BY <1>4, <1>a, <2>1, <2>2 DEF Destroy, NoAttr, Values
<1>5. ASSUME NEW r \in Requests, Begin(r) PROVE TypeOK'
  BY <1>5, <1>a DEF Begin, PrivateLabels, HeldLabels
<1>6. ASSUME NEW r \in Requests, Queue(r) PROVE TypeOK'
  BY <1>6, <1>a, ConnsAssumption DEF Queue, Lookup, PrivateLabels, HeldLabels
<1>7. CASE Ending
  BY <1>7, <1>a DEF Ending, ParseFails, FindNothing, AllocFails, FlushDone, FlushRefused, Done,
                    PrivateLabels, HeldLabels
<1>8. CASE Find
  BY <1>8, <1>a, <1>c, ConnsAssumption DEF Find, Parsed, Lookup, PrivateLabels, HeldLabels
<1>9. CASE FindNothingCreate
  BY <1>9, <1>a DEF FindNothingCreate, Parsed, Done, PrivateLabels, HeldLabels
<1>10. CASE Put
  BY <1>10, <1>a, <1>b, <1>c DEF Put, Done, Released, Held, PrivateLabels, HeldLabels
<1>11. ASSUME NEW c \in Conns, Alloc(c) PROVE TypeOK'
  <2>1. req.orig \in Flows \cup {None} /\ req.reply \in Flows \cup {None}
    BY <1>11, <1>c, RequestFields DEF Alloc
  <2> QED
    BY <1>11, <1>a, <2>1, TupleType, ConnsAssumption DEF Alloc, Free, PrivateLabels, HeldLabels
<1>12. CASE Setting
  <2>1. ct \in Conns /\ req.val \in Values
    BY <1>12, <1>a, <1>c, RequestFields
       DEF Setting, ImplicitHelperFails, SetPartly, CreateAttr, AttachLabels, ChangeAttr,
           VerdictAttr, UpdateStatus, PrivateLabels,
           HeldLabels
  <2>2. \A a : Set(ct, a) \in [Conns -> [Attrs -> Values]]
    BY <2>1, <1>a, SetType
  <2>b. \A a : \A x \in SetPartly(ct, a) : x \in [Conns -> [Attrs -> Values]]
    BY <2>2, <1>a DEF SetPartly
  <2>a. CASE ImplicitHelperFails
    BY <2>a, <1>a, <1>c DEF ImplicitHelperFails, PrivateLabels, HeldLabels
  <2>3. CASE CreateAttr
    BY <2>3, <1>a, <1>c, <2>1, <2>2, <2>b DEF CreateAttr, PrivateLabels, HeldLabels
  <2>4. CASE AttachLabels
    BY <2>4, <1>a, <1>c, <2>1, <2>2 DEF AttachLabels, PrivateLabels, HeldLabels
  <2>5. CASE ChangeAttr
    BY <2>5, <1>a, <1>c, <2>1, <2>2, <2>b DEF ChangeAttr, PutWith, PrivateLabels, HeldLabels
  <2>6. CASE VerdictAttr
    BY <2>6, <1>a, <1>c, <2>1, <2>2 DEF VerdictAttr, VerdictEnds, PutWith, PrivateLabels, HeldLabels
  <2>7. CASE UpdateStatus
    BY <2>7, <1>a, <1>c, <2>1, <2>2 DEF UpdateStatus, PrivateLabels, HeldLabels
  <2> QED
    BY <1>12, <2>a, <2>3, <2>4, <2>5, <2>6, <2>7 DEF Setting
<1>13. CASE CreateMaster
  <2>1. master' \in [Conns -> Conns \cup {None}] /\ use' \in [Conns -> Nat]
    <3>1. ASSUME NEW m \in Lookup(Tuple(req.master, "orig")), master' = [master EXCEPT ![ct] = m],
                 use' = [use EXCEPT ![m] = @ + 1]
          PROVE  master' \in [Conns -> Conns \cup {None}] /\ use' \in [Conns -> Nat]
      <4>1. m \in Conns /\ ct \in Conns
        BY <1>13, <1>a, <1>c DEF CreateMaster, Lookup, PrivateLabels
      <4> QED
        BY <3>1, <4>1, <1>a
    <3>2. CASE UNCHANGED <<master, use>>
      BY <3>2, <1>a
    <3> QED
      BY <1>13, <3>1, <3>2 DEF CreateMaster
  <2>2. pc = "create" /\ pc' \in {"insert", "err"}
    BY <1>13 DEF CreateMaster
  <2> QED
    BY <1>13, <1>a, <2>1, <2>2 DEF CreateMaster, PrivateLabels, HeldLabels
<1>14. CASE Insert
  BY <1>14, <1>a, <1>c DEF Insert, PrivateLabels, HeldLabels
<1>15. CASE InsertFails
  BY <1>15, <1>a, <1>b, <1>c DEF InsertFails, Released, PrivateLabels, HeldLabels
<1>16. CASE CreateFails
  <2>1. ct \in allocated /\ ct \notin table \cup offload \cup untold
    BY <1>16, <1>a, <1>c DEF CreateFails, RefInv, PrivateInv, PrivateLabels, HeldLabels
  <2> QED
    BY <1>16, <1>a, <1>c, <2>1 DEF CreateFails, Done, NoAttr, Values, PrivateLabels, HeldLabels
<1>17. CASE Report
  BY <1>17, <1>a, <1>c DEF Report, PrivateLabels, HeldLabels
<1>18. CASE Moving
  BY <1>18, <1>a, <1>c DEF Moving, Change, ChangeDone, Verdict, VerdictDone, VerdictEnds, Get, Del,
                           PutWith, PrivateLabels, HeldLabels
<1>19. CASE Delete
  BY <1>19, <1>a, <1>b, <1>c DEF Delete, Deleted, PutWith, Released, PrivateLabels, HeldLabels
<1>20. CASE Flush
  BY <1>20, <1>a, <1>c DEF Flush, Parsed, PrivateLabels, HeldLabels
<1>21. ASSUME NEW c \in Conns, FlushVisit(c) PROVE TypeOK'
  BY <1>21, <1>a, ConnsAssumption DEF FlushVisit, PrivateLabels, HeldLabels
<1>22. CASE FlushKill
  BY <1>22, <1>a, <1>b, <1>c DEF FlushKill, Deleted, Held, PrivateLabels, HeldLabels
<1>23. CASE UNCHANGED vars
  BY <1>23, <1>a DEF vars
<1> QED
  BY <1>1, <1>2, <1>3, <1>4, <1>5, <1>6, <1>7, <1>8, <1>9, <1>10, <1>11, <1>12, <1>13, <1>14, <1>15,
     <1>16, <1>17, <1>18, <1>19, <1>20, <1>21, <1>22, <1>23
     DEF Next, Kernel, Handler, ctnetlink_glue_parse, ctnetlink_new_conntrack,
         ctnetlink_del_conntrack, Ending, Moving, Setting

-----------------------------------------------------------------------------
(* References.                                                             *)

Bit(b) == IF b THEN 1 ELSE 0
Count(c) == Bit(c \in table) + Bit(Held(c)) + Cardinality(Wards(c))

LEMMA BalancedCount == Balanced <=> \A c \in allocated : use[c] = Count(c)
BY DEF Balanced, Count, Bit, Held, Wards

\* Who is not allocated is nobody's master.
LEMMA WardsType ==
  ASSUME RefInv, NEW c \in Conns
  PROVE  /\ Wards(c) \in SUBSET Conns
         /\ Cardinality(Wards(c)) \in Nat
         /\ Cardinality(Wards(c)) = 0 <=> Wards(c) = {}
         /\ c \notin allocated => Wards(c) = {}
         /\ c \in allocated => use[c] = Count(c)
<1>1. Wards(c) \in SUBSET Conns
  BY DEF RefInv, TypeOK, Wards
<1>2. c \notin allocated => Wards(c) = {}
  BY ConnsAssumption DEF RefInv, MasterInv, Wards
<1> QED
  BY <1>1, <1>2, Counting, BalancedCount DEF RefInv

\* The steps that move no reference.
Quiet ==
  /\ UNCHANGED <<allocated, master, use, table>>
  /\ \A c \in Conns : Held(c)' <=> Held(c)
  /\ \A c \in Conns : Wards(c)' = Wards(c)

LEMMA QuietStep == RefInv /\ Quiet => Balanced' /\ FreeInv'
<1> SUFFICES ASSUME RefInv, Quiet PROVE Balanced' /\ FreeInv'
  OBVIOUS
<1>1. \A c \in Conns : Count(c)' = Count(c)
  BY DEF Quiet, Count, Bit
<1>2. Balanced' <=> \A c \in allocated' : use'[c] = Count(c)'
  BY DEF Balanced, Count, Bit, Held, Wards
<1>3. Balanced'
  BY <1>1, <1>2, BalancedCount DEF Quiet, RefInv, TypeOK
<1>4. FreeInv'
  BY DEF RefInv, FreeInv, Quiet
<1> QED
  BY <1>3, <1>4

LEMMA MasterStep == RefInv /\ [Next]_vars => MasterInv'
<1> SUFFICES ASSUME RefInv, [Next]_vars PROVE MasterInv'
  OBVIOUS
<1>a. TypeOK /\ MasterInv /\ FreeInv
  BY DEF RefInv
<1>b. \A d \in allocated : master[d] # None /\ ~(d = ct /\ pc = "err")
           => master[d] \in allocated /\ use[master[d]] > 0
  BY UseIsPositive
<1>c. ct \in allocated \cup {None} /\ (pc = "create" => master[ct] = None)
  BY DEF RefInv, RequestInv, PrivateInv
<1>d. pc \in PrivateLabels => ct \in allocated /\ use[ct] = 0
  BY <1>a, <1>c DEF RefInv, PrivateInv, TypeOK
<1> USE DEF MasterInv, entry, request, history
<1>1. ASSUME NEW c \in Conns, NEW f \in Flows, NEW g \in Flows, PacketInsert(c, f, g) PROVE MasterInv'
  BY <1>1, <1>a DEF PacketInsert, Free, FreeInv
<1>2. ASSUME NEW c \in Conns, Timeout(c) \/ PacketAssures(c) \/ Offload(c) \/ Onload(c) PROVE MasterInv'
  BY <1>2, <1>a DEF Timeout, PacketAssures, Offload, Onload
<1>3. ASSUME NEW c \in Conns, Destroy(c) PROVE MasterInv'
  <2> SUFFICES ASSUME NEW d \in allocated', master'[d] # None, ~(d = ct' /\ pc' = "err")
               PROVE  master'[d] \in allocated'
    OBVIOUS
  <2>1. d \in allocated /\ d # c /\ master'[d] = master[d] /\ ct' = ct /\ pc' = pc /\ use[c] = 0
    BY <1>3, <1>a DEF Destroy, TypeOK
  <2>2. master[d] \in allocated /\ use[master[d]] > 0
    BY <1>b, <2>1
  <2> QED
    BY <1>3, <2>1, <2>2 DEF Destroy
<1>4. ASSUME NEW r \in Requests, Begin(r) \/ Queue(r) PROVE MasterInv'
  BY <1>4, <1>a DEF Begin, Queue
<1>5. CASE Ending \/ FindNothingCreate
  BY <1>5, <1>a DEF Ending, ParseFails, FindNothing, AllocFails, FlushDone, FlushRefused,
                    FindNothingCreate, Done,
                    Parsed
<1>6. CASE Find \/ Put
  BY <1>6, <1>a DEF Find, Put, Parsed, Done
<1>7. ASSUME NEW c \in Conns, Alloc(c) PROVE MasterInv'
  BY <1>7, <1>a DEF Alloc, Free, FreeInv
<1>8. CASE Setting
  BY <1>8, <1>a, <1>c DEF Setting, ImplicitHelperFails, SetPartly, CreateAttr, AttachLabels,
                          ChangeAttr, VerdictAttr, UpdateStatus,
                          VerdictEnds, PutWith
<1>9. CASE CreateMaster
  <2>1. ASSUME NEW m \in Lookup(Tuple(req.master, "orig")), master' = [master EXCEPT ![ct] = m]
        PROVE  MasterInv'
    <3>1. m \in allocated /\ ct \in Conns
      BY <1>9, <1>a, <1>d DEF CreateMaster, Lookup, TypeOK, PrivateLabels
    <3> QED
      BY <1>9, <2>1, <3>1, <1>a DEF CreateMaster, TypeOK
  <2>2. CASE UNCHANGED master
    BY <1>9, <2>2, <1>a, <1>c DEF CreateMaster
  <2> QED
    BY <1>9, <2>1, <2>2 DEF CreateMaster
<1>10. CASE Insert \/ InsertFails
  BY <1>10, <1>a DEF Insert, InsertFails
<1>11. CASE CreateFails
  <2> SUFFICES ASSUME NEW d \in allocated', master'[d] # None
               PROVE  master'[d] \in allocated'
    OBVIOUS
  <2>1. d \in allocated /\ d # ct /\ master'[d] = master[d] /\ use[ct] = 0
    BY <1>11, <1>a, <1>d DEF CreateFails, TypeOK, PrivateLabels
  <2>2. master[d] \in allocated /\ use[master[d]] > 0
    BY <1>b, <2>1
  <2> QED
    BY <1>11, <2>1, <2>2 DEF CreateFails
<1>12. CASE Report \/ Moving
  BY <1>12, <1>a DEF Report, Moving, Change, ChangeDone, Verdict, VerdictDone, VerdictEnds, Get,
                     Del,
                     PutWith
<1>13. CASE Delete \/ Flush \/ FlushKill
  BY <1>13, <1>a DEF Delete, Flush, FlushKill, PutWith, Parsed
<1>14. ASSUME NEW c \in Conns, FlushVisit(c) PROVE MasterInv'
  BY <1>14, <1>a DEF FlushVisit
<1>15. CASE UNCHANGED vars
  BY <1>15, <1>a DEF vars
<1> QED
  BY <1>1, <1>2, <1>3, <1>4, <1>5, <1>6, <1>7, <1>8, <1>9, <1>10, <1>11, <1>12, <1>13, <1>14, <1>15
     DEF Next, Kernel, Handler, ctnetlink_glue_parse, ctnetlink_new_conntrack,
         ctnetlink_del_conntrack, Ending, Moving, Setting

LEMMA PrivateStep == RefInv /\ [Next]_vars => PrivateInv' /\ RequestInv'
<1> SUFFICES ASSUME RefInv, [Next]_vars PROVE PrivateInv' /\ RequestInv'
  OBVIOUS
<1>a. TypeOK /\ PrivateInv /\ RequestInv /\ FreeInv
  BY DEF RefInv
<1>b. /\ \A c \in table : use[c] > 0
      /\ \A d \in allocated : master[d] # None /\ ~(d = ct /\ pc = "err")
           => master[d] \in allocated /\ use[master[d]] > 0
  BY UseIsPositive
<1> USE DEF PrivateInv, RequestInv, PrivateLabels, entry, request, history
<1>1. ASSUME NEW c \in Conns, NEW f \in Flows, NEW g \in Flows, PacketInsert(c, f, g)
      PROVE  PrivateInv' /\ RequestInv'
  BY <1>1, <1>a DEF PacketInsert, Free, TypeOK
<1>2. ASSUME NEW c \in Conns, Timeout(c) \/ PacketAssures(c) \/ Offload(c) \/ Onload(c)
      PROVE  PrivateInv' /\ RequestInv'
  BY <1>2, <1>a DEF Timeout, PacketAssures, Offload, Onload, TypeOK, Released
<1>3. ASSUME NEW c \in Conns, Destroy(c) PROVE PrivateInv' /\ RequestInv'
  <2>1. pc \in PrivateLabels => use'[ct] = use[ct]
    BY <1>3, <1>a, <1>b DEF Destroy, TypeOK, Released
  <2> QED
    BY <1>3, <2>1, <1>a, <1>b DEF Destroy, TypeOK
<1>4. ASSUME NEW r \in Requests, Begin(r) \/ Queue(r) PROVE PrivateInv' /\ RequestInv'
  BY <1>4, <1>a DEF Begin, Queue, Lookup, TypeOK
<1>5. CASE Ending \/ FindNothingCreate
  BY <1>5, <1>a DEF Ending, ParseFails, FindNothing, AllocFails, FlushDone, FlushRefused,
                    FindNothingCreate, Done,
                    Parsed
<1>6. CASE Find \/ Put
  BY <1>6, <1>a DEF Find, Put, Parsed, Done, Lookup, TypeOK
<1>7. ASSUME NEW c \in Conns, Alloc(c) PROVE PrivateInv' /\ RequestInv'
  BY <1>7, <1>a DEF Alloc, Free, FreeInv, TypeOK
<1>8. CASE Setting
  BY <1>8, <1>a DEF Setting, ImplicitHelperFails, SetPartly, CreateAttr, AttachLabels, ChangeAttr,
                    VerdictAttr, UpdateStatus,
                    VerdictEnds, PutWith
<1>9. CASE CreateMaster
  <2>1. use'[ct] = use[ct]
    BY <1>9, <1>a DEF CreateMaster, Lookup, TypeOK
  <2> QED
    BY <1>9, <2>1, <1>a DEF CreateMaster
<1>10. CASE Insert
  BY <1>10, <1>a DEF Insert
<1>11. CASE InsertFails
  <2>1. use'[ct] = use[ct]
    BY <1>11, <1>a, <1>b DEF InsertFails, Released, TypeOK
  <2> QED
    BY <1>11, <2>1, <1>a DEF InsertFails
<1>12. CASE CreateFails
  BY <1>12, <1>a DEF CreateFails, Done
<1>13. CASE Report \/ Moving
  BY <1>13, <1>a DEF Report, Moving, Change, ChangeDone, Verdict, VerdictDone, VerdictEnds, Get,
                     Del,
                     PutWith
<1>14. CASE Delete \/ Flush \/ FlushKill
  BY <1>14, <1>a DEF Delete, Deleted, Flush, FlushKill, PutWith, Parsed
<1>15. ASSUME NEW c \in Conns, FlushVisit(c) PROVE PrivateInv' /\ RequestInv'
  BY <1>15, <1>a DEF FlushVisit, TypeOK
<1>16. CASE UNCHANGED vars
  BY <1>16, <1>a DEF vars
<1> QED
  BY <1>1, <1>2, <1>3, <1>4, <1>5, <1>6, <1>7, <1>8, <1>9, <1>10, <1>11, <1>12, <1>13, <1>14, <1>15,
     <1>16
     DEF Next, Kernel, Handler, ctnetlink_glue_parse, ctnetlink_new_conntrack,
         ctnetlink_del_conntrack, Ending, Moving, Setting

\* The steps that leave masters alone, and move references of the table and of
\* the request.
Tally(c) == Bit(c \in table) + Bit(Held(c))

LEMMA TallyStep ==
  ASSUME RefInv, UNCHANGED <<allocated, master>>,
         \A c \in Conns : Wards(c)' = Wards(c),
         \A c \in allocated : use'[c] = use[c] + Tally(c)' - Tally(c),
         \A c \in Conns \ allocated : use'[c] = use[c]
  PROVE  Balanced' /\ FreeInv'
<1>1. Balanced' <=> \A c \in allocated' : use'[c] = Count(c)'
  BY DEF Balanced, Count, Bit, Held, Wards
<1>2. ASSUME NEW c \in allocated' PROVE use'[c] = Count(c)'
  <2>1. c \in allocated /\ c \in Conns
    BY DEF RefInv, TypeOK
  <2>2. use[c] = Tally(c) + Cardinality(Wards(c)) /\ Cardinality(Wards(c)) \in Nat
    BY <2>1, WardsType DEF Count, Tally
  <2>3. Count(c)' = Tally(c)' + Cardinality(Wards(c))
    BY <2>1 DEF Count, Tally
  <2>4. Tally(c) \in Int /\ Tally(c)' \in Int
    BY DEF Tally, Bit
  <2> QED
    BY <2>1, <2>2, <2>3, <2>4
<1>3. FreeInv'
  BY DEF FreeInv, RefInv
<1> QED
  BY <1>1, <1>2, <1>3

\* The same for the steps that allocate or free an entry, or give it a master.
LEMMA CountStep ==
  ASSUME RefInv, \A c \in allocated' : use'[c] = Count(c)', FreeInv'
  PROVE  Balanced' /\ FreeInv'
BY DEF Balanced, Count, Bit, Held, Wards

LEMMA BalanceKernel ==
  ASSUME RefInv, NEW c \in Conns,
         \/ \E f, g \in Flows : PacketInsert(c, f, g)
         \/ Timeout(c) \/ PacketAssures(c) \/ Offload(c) \/ Onload(c) \/ Destroy(c)
  PROVE  Balanced' /\ FreeInv'
<1>a. TypeOK /\ FreeInv /\ MasterInv /\ PrivateInv /\ RequestInv
  BY DEF RefInv
<1> USE DEF entry, request, history
<1>1. ASSUME NEW f \in Flows, NEW g \in Flows, PacketInsert(c, f, g) PROVE Balanced' /\ FreeInv'
  <2>1. /\ c \notin allocated /\ allocated' = allocated \cup {c} /\ master' = master
        /\ table' = table \cup {c} /\ ct' = ct /\ pc' = pc /\ use'[c] = 1
        /\ \A d \in Conns : d # c => use'[d] = use[d]
    BY <1>1, <1>a DEF PacketInsert, Free, TypeOK
  <2>2. Wards(c) = {} /\ \A d \in Conns : Wards(d)' = Wards(d)
    <3>1. master[c] = None
      BY <2>1, <1>a DEF FreeInv
    <3>2. \A d \in Conns : Wards(d)' = Wards(d)
      BY <3>1, <2>1, ConnsAssumption DEF Wards
    <3> QED
      BY <2>1, <3>2, WardsType
  <2>3. ASSUME NEW d \in allocated' PROVE use'[d] = Count(d)'
    <3>1. CASE d = c
      <4>1. ~Held(c)' /\ Cardinality(Wards(c)') = 0
        BY <2>1, <2>2, <1>a, WardsType, ConnsAssumption DEF Held, RequestInv
      <4> QED
        BY <3>1, <4>1, <2>1 DEF Count, Bit
    <3>2. CASE d # c
      <4>1. d \in allocated /\ d \in Conns
        BY <3>2, <2>1, <1>a DEF TypeOK
      <4>2. (d \in table' <=> d \in table) /\ (Held(d)' <=> Held(d))
        BY <3>2, <2>1 DEF Held
      <4> QED
        BY <3>2, <4>1, <4>2, <2>1, <2>2, WardsType DEF Count, Bit
    <3> QED
      BY <3>1, <3>2
  <2>4. FreeInv'
    BY <2>1, <1>a DEF FreeInv
  <2> QED
    BY <2>3, <2>4, CountStep
<1>2. CASE Timeout(c)
  <2>1. \A d \in Conns : Wards(d)' = Wards(d) /\ (Held(d)' <=> Held(d))
    BY <1>2 DEF Timeout, Wards, Held
  <2>2. /\ use'[c] = use[c] - 1 /\ c \in table /\ c \notin table' /\ c \in allocated
        /\ \A d \in Conns : d # c => use'[d] = use[d] /\ (d \in table' <=> d \in table)
    BY <1>2, <1>a DEF Timeout, Released, TypeOK
  <2>3. \A d \in allocated : use'[d] = use[d] + Tally(d)' - Tally(d)
    BY <2>1, <2>2, <1>a DEF Tally, Bit, TypeOK
  <2>4. UNCHANGED <<allocated, master>>
    BY <1>2 DEF Timeout
  <2> QED
    BY <2>1, <2>2, <2>3, <2>4, TallyStep
<1>3. CASE PacketAssures(c) \/ Offload(c) \/ Onload(c)
  <2>1. Quiet
    BY <1>3 DEF PacketAssures, Offload, Onload, Quiet, Held, Wards
  <2> QED
    BY <2>1, QuietStep
<1>4. CASE Destroy(c)
  <2>1. /\ c \in allocated /\ use[c] = 0 /\ c # ct /\ allocated' = allocated \ {c} /\ c \notin table
        /\ master' = [master EXCEPT ![c] = None] /\ table' = table /\ ct' = ct /\ pc' = pc
        /\ use' = IF master[c] # None THEN Released(master[c], use) ELSE use
    BY <1>4, UseIsPositive DEF Destroy
  <2>2. ~Held(c) /\ \A d \in Conns : Held(d)' <=> Held(d)
    BY <2>1 DEF Held
  <2>3. master[c] # None => master[c] \in allocated /\ use[master[c]] > 0
    BY <2>1, UseIsPositive
  <2>4. \A d \in Conns : IF d = master[c] THEN Wards(d)' = Wards(d) \ {c} /\ c \in Wards(d)
                                          ELSE Wards(d)' = Wards(d)
    BY <2>1, <1>a, ConnsAssumption DEF Wards, TypeOK
  <2>5. ASSUME NEW d \in allocated' PROVE use'[d] = Count(d)'
    <3>1. d \in allocated /\ d \in Conns /\ use[d] = Count(d) /\ Cardinality(Wards(d)) \in Nat
          /\ Wards(d) \in SUBSET Conns
      BY <2>1, <1>a, WardsType DEF TypeOK
    <3>2. CASE d = master[c]
      <4>1. use'[d] = use[d] - 1
        BY <3>1, <3>2, <2>1, <1>a, ConnsAssumption DEF Released, TypeOK
      <4>2. Cardinality(Wards(d)') = Cardinality(Wards(d)) - 1
        BY <3>1, <3>2, <2>4, Counting
      <4> QED
        BY <3>1, <4>1, <4>2, <2>1, <2>2 DEF Count, Bit
    <3>3. CASE d # master[c]
      <4>1. use'[d] = use[d]
        BY <3>1, <3>3, <2>1, <1>a DEF Released, TypeOK
      <4>2. Wards(d)' = Wards(d)
        BY <3>1, <3>3, <2>4
      <4> QED
        BY <3>1, <4>1, <4>2, <2>1, <2>2 DEF Count, Bit
    <3> QED
      BY <3>2, <3>3
  <2>6. FreeInv'
    <3>1. use'[c] = 0
      BY <2>1, <2>3, <1>a DEF Released, TypeOK
    <3> QED
      BY <3>1, <2>1, <2>3, <1>a DEF FreeInv, TypeOK, Released
  <2> QED
    BY <2>5, <2>6, CountStep
<1> QED
  BY <1>1, <1>2, <1>3, <1>4

\* The steps of a request that move no reference, or only its own and the
\* table's.
LEMMA BalanceQuiet ==
  ASSUME RefInv, Ending \/ FindNothingCreate \/ Setting \/ Report \/ Moving \/ Flush
                 \/ \E r \in Requests : Begin(r)
  PROVE  Balanced' /\ FreeInv'
<1>a. (pc = "create" => master[ct] = None) /\ (pc \in PrivateLabels \cup HeldLabels <=> ct # None)
  BY DEF RefInv, TypeOK, PrivateInv
<1>1. Quiet
  <2> USE DEF Quiet, Held, Wards, HeldLabels, PrivateLabels, entry, request, history
  <2>1. CASE Ending
    BY <2>1, <1>a, ConnsAssumption DEF Ending, ParseFails, FindNothing, AllocFails, FlushDone,
                                       FlushRefused, Parsed,
                                       Done
  <2>2. CASE FindNothingCreate
    BY <2>2, <1>a, ConnsAssumption DEF FindNothingCreate, Parsed, Done
  <2>3. CASE CreateAttr
    BY <2>3, <1>a, ConnsAssumption DEF CreateAttr
  <2>8. CASE ImplicitHelperFails
    BY <2>8, <1>a, ConnsAssumption DEF ImplicitHelperFails
  <2>4. CASE AttachLabels \/ ChangeAttr \/ VerdictAttr \/ UpdateStatus
    BY <2>4 DEF AttachLabels, ChangeAttr, VerdictAttr, UpdateStatus, VerdictEnds, PutWith
  <2>5. CASE Report \/ Moving
    BY <2>5 DEF Report, Moving, Change, ChangeDone, Verdict, VerdictDone, VerdictEnds, Get, Del,
                PutWith
  <2>6. CASE Flush
    BY <2>6 DEF Flush, Parsed
  <2>7. CASE \E r \in Requests : Begin(r)
    BY <2>7 DEF Begin
  <2> QED
    BY <2>1, <2>2, <2>3, <2>4, <2>5, <2>6, <2>7, <2>8 DEF Setting
<1> QED
  BY <1>1, QuietStep

LEMMA BalanceHeld ==
  ASSUME RefInv, \/ Find \/ Put \/ Delete \/ FlushKill
                 \/ \E r \in Requests : Queue(r)
                 \/ \E c \in Conns : FlushVisit(c)
  PROVE  Balanced' /\ FreeInv'
<1>a. TypeOK /\ RequestInv
  BY DEF RefInv
<1>b. \A c \in Conns : Held(c) <=> ct = c /\ pc \in HeldLabels
  BY DEF Held
<1> USE DEF HeldLabels, PrivateLabels, entry, request, history
<1>1. UNCHANGED <<allocated, master>> /\ \A c \in Conns : Wards(c)' = Wards(c)
  BY DEF Find, Put, Delete, FlushKill, Queue, FlushVisit, Parsed, Done, PutWith, Wards
<1>2. ASSUME NEW c \in table, ct = None, ct' = c, pc' \in HeldLabels, table' = table,
             use' = [use EXCEPT ![c] = @ + 1]
      PROVE  Balanced' /\ FreeInv'
  <2>1. c \in allocated /\ c \in Conns /\ use'[c] = use[c] + 1 /\ \A d \in Conns : d # c => use'[d] = use[d]
    BY <1>2, <1>a DEF TypeOK
  <2>2. \A d \in Conns : ~Held(d) /\ (Held(d)' <=> d = c)
    BY <1>2, ConnsAssumption DEF Held
  <2>3. \A d \in allocated : use'[d] = use[d] + Tally(d)' - Tally(d)
    BY <1>2, <2>1, <2>2, <1>a DEF Tally, Bit, TypeOK
  <2> QED
    BY <2>1, <2>3, <1>1, TallyStep
<1>3. CASE Find
  BY <1>3, <1>2, <1>a DEF Find, Parsed, Lookup, TypeOK
<1>4. CASE \E r \in Requests : Queue(r)
  BY <1>4, <1>2, <1>a DEF Queue, Lookup, TypeOK
<1>5. ASSUME NEW c \in Conns, FlushVisit(c) PROVE Balanced' /\ FreeInv'
  <2>1. CASE c \in table /\ ctnetlink_flush_iterate(c)
    BY <1>5, <2>1, <1>2, <1>a DEF FlushVisit, TypeOK
  <2>2. CASE ~(c \in table /\ ctnetlink_flush_iterate(c))
    BY <1>5, <2>2, QuietStep DEF FlushVisit, Quiet, Held, Wards
  <2> QED
    BY <2>1, <2>2
<1>6. CASE Put
  <2>1. ct \in allocated /\ ct \in Conns /\ use'[ct] = use[ct] - 1 /\ table' = table
        /\ \A d \in Conns : d # ct => use'[d] = use[d]
    BY <1>6, <1>a DEF Put, Released, TypeOK, RequestInv
  <2>2. \A d \in Conns : ~Held(d)' /\ (Held(d) <=> d = ct)
    BY <1>6, ConnsAssumption DEF Put, Done, Held
  <2>3. \A d \in allocated : use'[d] = use[d] + Tally(d)' - Tally(d)
    BY <2>1, <2>2, <1>a DEF Tally, Bit, TypeOK
  <2> QED
    BY <2>1, <2>3, <1>a, <1>1, TallyStep DEF TypeOK
<1>7. CASE Delete
  <2>1. ct \in allocated /\ ct \in Conns /\ table' = table \ {ct}
        /\ use'[ct] = (IF ct \in table THEN use[ct] - 1 ELSE use[ct])
        /\ \A d \in Conns : d # ct => use'[d] = use[d]
    BY <1>7, <1>a DEF Delete, Deleted, Released, TypeOK, RequestInv
  <2>2. \A d \in Conns : Held(d)' <=> Held(d)
    BY <1>7 DEF Delete, PutWith, Held
  <2>3. \A d \in allocated : use'[d] = use[d] + Tally(d)' - Tally(d)
    BY <2>1, <2>2, <1>a DEF Tally, Bit, TypeOK
  <2> QED
    BY <2>1, <2>3, <1>a, <1>1, TallyStep DEF TypeOK
<1>8. CASE FlushKill
  <2>1. ct \in allocated /\ ct \in Conns /\ table' = table \ {ct}
        /\ use'[ct] = (IF ct \in table THEN use[ct] - 2 ELSE use[ct] - 1)
        /\ \A d \in Conns : d # ct => use'[d] = use[d]
    BY <1>8, <1>a DEF FlushKill, Deleted, TypeOK, RequestInv
  <2>2. \A d \in Conns : ~Held(d)' /\ (Held(d) <=> d = ct)
    BY <1>8, ConnsAssumption DEF FlushKill, Held
  <2>3. \A d \in allocated : use'[d] = use[d] + Tally(d)' - Tally(d)
    BY <2>1, <2>2, <1>a DEF Tally, Bit, TypeOK
  <2> QED
    BY <2>1, <2>3, <1>a, <1>1, TallyStep DEF TypeOK
<1> QED
  BY <1>3, <1>4, <1>5, <1>6, <1>7, <1>8

\* The steps that create an entry, or give up doing so.
LEMMA BalanceCreate ==
  ASSUME RefInv, CreateMaster \/ Insert \/ InsertFails \/ CreateFails \/ \E c \in Conns : Alloc(c)
  PROVE  Balanced' /\ FreeInv'
<1>a. TypeOK /\ FreeInv /\ MasterInv /\ PrivateInv /\ RequestInv
  BY DEF RefInv
<1>b. pc \in PrivateLabels => ct \in allocated /\ ct \in Conns /\ use[ct] = 0 /\ ct \notin table
                              /\ Wards(ct) = {} /\ \A c \in Conns : ~Held(c)
  <2> SUFFICES ASSUME pc \in PrivateLabels
               PROVE  ct \in allocated /\ ct \in Conns /\ use[ct] = 0 /\ ct \notin table
                      /\ Wards(ct) = {} /\ \A c \in Conns : ~Held(c)
    OBVIOUS
  <2>1. ct \in allocated /\ ct \in Conns /\ use[ct] = 0 /\ ct \notin table
    BY <1>a DEF TypeOK, PrivateInv, RequestInv
  <2>2. \A c \in Conns : ~Held(c)
    BY DEF PrivateLabels, HeldLabels, Held
  <2>3. Wards(ct) = {}
    BY <2>1, <2>2, WardsType DEF Count, Bit
  <2> QED
    BY <2>1, <2>2, <2>3
<1>c. \A c \in allocated : c \in Conns /\ use[c] = Count(c) /\ Cardinality(Wards(c)) \in Nat
                           /\ Wards(c) \in SUBSET Conns /\ use[c] \in Nat
  BY <1>a, WardsType DEF TypeOK
<1> USE DEF HeldLabels, PrivateLabels, entry, request, history
<1>1. ASSUME NEW c \in Conns, Alloc(c) PROVE Balanced' /\ FreeInv'
  <2>1. /\ c \notin allocated /\ allocated' = allocated \cup {c} /\ pc = "alloc" /\ ct' = c
        /\ UNCHANGED <<master, use, table>> /\ pc' \in {"create", "err"}
    BY <1>1 DEF Alloc, Free
  <2>2. master[c] = None /\ use[c] = 0 /\ Wards(c) = {} /\ c \notin table
    BY <2>1, <1>a, WardsType DEF FreeInv, TypeOK
  <2>3. \A d \in Conns : Wards(d)' = Wards(d)
    BY <2>1, <2>2, ConnsAssumption DEF Wards
  <2>4. \A d \in Conns : ~Held(d) /\ ~Held(d)'
    BY <2>1 DEF Held
  <2>5. Cardinality(Wards(c)) = 0
    BY <2>2, WardsType
  <2>6. ASSUME NEW d \in allocated' PROVE use'[d] = Count(d)'
    <3>1. CASE d = c
      BY <3>1, <2>1, <2>2, <2>3, <2>4, <2>5 DEF Count, Bit
    <3>2. CASE d # c
      BY <3>2, <2>1, <2>3, <2>4, <1>c DEF Count, Bit
    <3> QED
      BY <3>1, <3>2
  <2>7. FreeInv'
    BY <2>1, <1>a DEF FreeInv
  <2> QED
    BY <2>6, <2>7, CountStep
<1>2. CASE CreateMaster
  <2>1. pc = "create" /\ pc' \in {"insert", "err"} /\ UNCHANGED <<allocated, table, ct>>
        /\ master[ct] = None
    BY <1>2, <1>a DEF CreateMaster, PrivateInv
  <2>2. CASE UNCHANGED <<master, use>>
    <3>1. Quiet
      BY <2>1, <2>2, ConnsAssumption DEF Quiet, Held, Wards
    <3> QED
      BY <3>1, QuietStep
  <2>3. ASSUME NEW m \in Lookup(Tuple(req.master, "orig")), master' = [master EXCEPT ![ct] = m],
               use' = [use EXCEPT ![m] = @ + 1], pc' = "insert"
        PROVE  Balanced' /\ FreeInv'
    <3>1. m \in allocated /\ m \in Conns /\ m # ct /\ use'[m] = use[m] + 1
          /\ \A d \in Conns : d # m => use'[d] = use[d]
      BY <2>1, <2>3, <1>a, <1>b DEF Lookup, TypeOK
    <3>2. \A d \in Conns : d # ct => master'[d] = master[d]
      BY <2>3, <2>1, <1>a, <1>b DEF TypeOK
    <3>3. master'[ct] = m
      BY <2>3, <2>1, <1>a, <1>b DEF TypeOK
    <3>4. Wards(m)' = Wards(m) \cup {ct} /\ ct \notin Wards(m)
      BY <3>1, <3>2, <3>3, <2>1, <2>3, <1>a, <1>b, ConnsAssumption DEF Wards, TypeOK
    <3>5. \A d \in Conns : d # m => Wards(d)' = Wards(d)
      BY <3>2, <3>3, <2>1, <2>3, <1>a, <1>b, ConnsAssumption DEF Wards, TypeOK
    <3>6. \A d \in Conns : ~Held(d) /\ ~Held(d)'
      BY <2>1 DEF Held
    <3>7. ASSUME NEW d \in allocated' PROVE use'[d] = Count(d)'
      <4>1. CASE d = m
        <5>1. Cardinality(Wards(m)') = Cardinality(Wards(m)) + 1
          BY <3>1, <3>4, <1>b, <1>c, <2>1, Counting
        <5> QED
          BY <4>1, <5>1, <3>1, <3>6, <2>1, <1>c DEF Count, Bit
      <4>2. CASE d # m
        BY <4>2, <3>1, <3>5, <3>6, <2>1, <1>c DEF Count, Bit
      <4> QED
        BY <4>1, <4>2
    <3>8. FreeInv'
      BY <3>1, <3>2, <2>1, <1>a, <1>b DEF FreeInv
    <3> QED
      BY <3>7, <3>8, CountStep
  <2> QED
    BY <1>2, <2>2, <2>3 DEF CreateMaster
<1>3. CASE Insert
  <2>1. /\ pc = "insert" /\ pc' = "labels" /\ table' = table \cup {ct} /\ use'[ct] = 2
        /\ UNCHANGED <<allocated, master, ct>> /\ \A d \in Conns : d # ct => use'[d] = use[d]
    BY <1>3, <1>a, <1>b DEF Insert, TypeOK
  <2>2. \A d \in Conns : Wards(d)' = Wards(d) /\ (Held(d)' <=> d = ct)
    BY <2>1 DEF Wards, Held
  <2>3. \A d \in allocated : use'[d] = use[d] + Tally(d)' - Tally(d)
    BY <2>1, <2>2, <1>b, <1>c DEF Tally, Bit
  <2> QED
    BY <2>1, <2>2, <2>3, <1>b, TallyStep
<1>4. CASE InsertFails
  <2>1. /\ pc = "insert" /\ pc' = "err" /\ UNCHANGED <<allocated, master, table, ct>>
        /\ use' = IF master[ct] # None THEN Released(master[ct], use) ELSE use
    BY <1>4 DEF InsertFails
  <2>2. master[ct] # None => master[ct] \in allocated
    BY <2>1, <1>a, <1>b DEF MasterInv
  <2>3. \A d \in Conns : IF d = master[ct] THEN Wards(d)' = Wards(d) \ {ct} /\ ct \in Wards(d)
                                           ELSE Wards(d)' = Wards(d)
    BY <2>1, <1>b DEF Wards
  <2>4. \A d \in Conns : ~Held(d) /\ ~Held(d)'
    BY <2>1 DEF Held
  <2>5. ASSUME NEW d \in allocated' PROVE use'[d] = Count(d)'
    <3>1. d \in allocated
      BY <2>1
    <3>2. CASE d = master[ct]
      <4>1. use'[d] = use[d] - 1
        BY <3>1, <3>2, <2>1, <1>a, <1>c, ConnsAssumption DEF Released, TypeOK
      <4>2. Cardinality(Wards(d)') = Cardinality(Wards(d)) - 1
        BY <3>1, <3>2, <2>3, <1>c, Counting
      <4> QED
        BY <3>1, <4>1, <4>2, <2>1, <2>4, <1>c DEF Count, Bit
    <3>3. CASE d # master[ct]
      <4>1. use'[d] = use[d]
        BY <3>1, <3>3, <2>1, <1>a, <1>c DEF Released, TypeOK
      <4> QED
        BY <3>1, <3>3, <4>1, <2>1, <2>3, <2>4, <1>c DEF Count, Bit
    <3> QED
      BY <3>2, <3>3
  <2>6. FreeInv'
    BY <2>1, <2>2, <1>a DEF FreeInv, Released, TypeOK
  <2> QED
    BY <2>5, <2>6, CountStep
<1>5. CASE CreateFails
  <2>1. /\ pc = "err" /\ pc' = "idle" /\ ct' = None /\ UNCHANGED <<use, table>>
        /\ allocated' = allocated \ {ct} /\ master'[ct] = None
        /\ \A d \in Conns : d # ct => master'[d] = master[d]
    BY <1>5, <1>a, <1>b DEF CreateFails, Done, TypeOK
  <2>2. \A d \in Conns : Wards(d)' = Wards(d)
    BY <2>1, <1>b, <1>c, ConnsAssumption DEF Wards
  <2>3. \A d \in Conns : ~Held(d) /\ ~Held(d)'
    BY <2>1 DEF Held
  <2>4. ASSUME NEW d \in allocated' PROVE use'[d] = Count(d)'
    BY <2>1, <2>2, <2>3, <1>c DEF Count, Bit
  <2>5. FreeInv'
    BY <2>1, <1>a, <1>b DEF FreeInv
  <2> QED
    BY <2>4, <2>5, CountStep
<1> QED
  BY <1>1, <1>2, <1>3, <1>4, <1>5

LEMMA RefStep == RefInv /\ [Next]_vars => RefInv'
<1> SUFFICES ASSUME RefInv, [Next]_vars PROVE RefInv'
  OBVIOUS
<1>1. TypeOK' /\ MasterInv' /\ PrivateInv' /\ RequestInv'
  BY TypeStep, MasterStep, PrivateStep
<1>2. CASE UNCHANGED vars
  <2>1. Quiet
    BY <1>2 DEF vars, entry, request, Quiet, Held, Wards
  <2> QED
    BY <1>1, <2>1, QuietStep DEF RefInv
<1>3. CASE Kernel
  BY <1>1, <1>3, BalanceKernel DEF Kernel, RefInv
<1>4. CASE Next /\ ~Kernel
  <2>1. Balanced' /\ FreeInv'
    BY <1>4, BalanceQuiet, BalanceHeld, BalanceCreate
       DEF Next, Handler, ctnetlink_glue_parse, ctnetlink_new_conntrack, ctnetlink_del_conntrack,
           Ending, Moving, Setting
  <2> QED
    BY <1>1, <2>1 DEF RefInv
<1> QED
  BY <1>2, <1>3, <1>4

LEMMA RefAlways == Spec => []RefInv
BY RefInit, RefStep, PTL DEF Spec

\* Every variable keeps its type, and a request has an entry exactly where it
\* needs one, whatever packets and timeouts do between its steps.
THEOREM Typing == Spec => []TypeOK
<1>1. RefInv => TypeOK
  BY DEF RefInv
<1> QED
  BY <1>1, RefAlways, PTL

\* The use counts of entries are those of the table, of the request and of the
\* entries whose master they are: no path through ctnetlink_new_conntrack,
\* ctnetlink_del_conntrack or ctnetlink_glue_parse leaks an entry, and neither the
\* entry of a request nor the master of an entry in the table is freed memory.
THEOREM References == Spec => []RefCount
<1>1. RefInv => RefCount
  BY DEF RefInv, RefCount, EntriesAlive, TypeOK, MasterInv, PrivateInv, RequestInv, PrivateLabels
<1> QED
  BY <1>1, RefAlways, PTL

-----------------------------------------------------------------------------
(* What a step does to the table, to tuples and to attributes.             *)

\* Only a packet and nf_conntrack_hash_check_insert put an entry into the table,
\* after looking for both its tuples; no step changes the tuples of an entry in
\* the table.
LEMMA TableStep ==
  ASSUME RefInv, Next
  PROVE  /\ \A c \in table : orig'[c] = orig[c] /\ reply'[c] = reply[c]
         /\ \A c \in table' \ table :
              /\ Lookup(orig'[c]) = {} /\ Lookup(reply'[c]) = {}
              /\ table' = table \cup {c}
<1>a. TypeOK /\ PrivateInv /\ RequestInv /\ \A c \in table : use[c] > 0
  BY UseIsPositive DEF RefInv
<1> USE DEF entry, request, history
<1>1. CASE UNCHANGED <<orig, reply>> /\ table' \subseteq table
  BY <1>1
<1>2. ASSUME NEW c \in Conns, NEW f \in Flows, NEW g \in Flows, PacketInsert(c, f, g)
      PROVE  /\ \A d \in table : orig'[d] = orig[d] /\ reply'[d] = reply[d]
             /\ \A d \in table' \ table :
                  /\ Lookup(orig'[d]) = {} /\ Lookup(reply'[d]) = {}
                  /\ table' = table \cup {d}
  BY <1>2, <1>a DEF PacketInsert, Free, TypeOK
<1>3. ASSUME NEW c \in Conns, Destroy(c) \/ Alloc(c)
      PROVE  (\A d \in table : orig'[d] = orig[d] /\ reply'[d] = reply[d]) /\ table' = table
  BY <1>3, <1>a DEF Destroy, Alloc, Free, TypeOK
<1>4. CASE CreateFails
  BY <1>4, <1>a DEF CreateFails, TypeOK, PrivateInv, PrivateLabels
<1>5. CASE Insert
  BY <1>5, <1>a DEF Insert, TypeOK
<1>6. CASE Kernel
  BY <1>1, <1>2, <1>3, <1>6 DEF Kernel, Timeout, PacketAssures, Offload, Onload
<1>7. CASE ~Kernel /\ ~Insert /\ ~CreateFails /\ ~\E c \in Conns : Alloc(c)
  <2>1. UNCHANGED <<orig, reply>> /\ table' \subseteq table
    BY <1>7
       DEF Next, Handler, ctnetlink_glue_parse, ctnetlink_new_conntrack, ctnetlink_del_conntrack,
           ParseFails, Find, FindNothing, Put, Get, Del, Delete, Deleted, Flush, FlushKill,
           FlushDone, FlushRefused, FlushVisit, FindNothingCreate, AllocFails, ImplicitHelperFails,
           CreateAttr, CreateMaster,
           InsertFails, AttachLabels, Report, Change, ChangeAttr, ChangeDone, Verdict, VerdictAttr,
           UpdateStatus, VerdictDone, Begin, Queue
  <2> QED
    BY <1>1, <2>1
<1> QED
  BY <1>3, <1>4, <1>5, <1>6, <1>7

LEMMA TuplesStep == RefInv /\ TuplesUnique /\ [Next]_vars => TuplesUnique'
<1> SUFFICES ASSUME RefInv, TuplesUnique, Next PROVE TuplesUnique'
  BY DEF TuplesUnique, vars, entry
<1> SUFFICES ASSUME NEW c \in table', NEW d \in table', c # d
             PROVE  orig'[c] # orig'[d] /\ reply'[c] # reply'[d]
  BY DEF TuplesUnique
<1>1. CASE c \in table /\ d \in table
  BY <1>1, TableStep DEF TuplesUnique
<1>2. CASE c \notin table
  <2>1. d \in table /\ Lookup(orig'[c]) = {} /\ Lookup(reply'[c]) = {}
    BY <1>2, TableStep
  <2> QED
    BY <2>1, TableStep DEF Lookup, Tuples
<1>3. CASE d \notin table
  <2>1. c \in table /\ Lookup(orig'[d]) = {} /\ Lookup(reply'[d]) = {}
    BY <1>3, TableStep
  <2> QED
    BY <2>1, TableStep DEF Lookup, Tuples
<1> QED
  BY <1>1, <1>2, <1>3

\* A tuple leads to one entry: whatever packets insert between the first lookup
\* of a request (nf_conntrack_find_get) and nf_conntrack_hash_check_insert.
THEOREM Uniqueness == Spec => []TuplesUnique
<1>1. Init => TuplesUnique
  BY DEF Init, TuplesUnique
<1> QED
  BY <1>1, TuplesStep, RefAlways, PTL DEF Spec

\* What a step that sets an attribute of its entry knows of it.
LEMMA SettingFacts ==
  ASSUME RefInv, Setting
  PROVE  /\ ct \in allocated /\ ct \in Conns /\ ct # None /\ req.val \in Values
         /\ \A a : \A d \in Conns : d # ct => Set(ct, a)[d] = attr[d]
         /\ \A a : \A b \in Attrs : b # a => Set(ct, a)[ct][b] = attr[ct][b]
         /\ Set(ct, "status")[ct]["status"] = req.val
<1>1. ct \in allocated /\ ct \in Conns /\ ct # None /\ req.val \in Values /\ attr \in [Conns -> [Attrs -> Values]]
  BY RequestFields
     DEF Setting, ImplicitHelperFails, SetPartly, CreateAttr, AttachLabels, ChangeAttr,
         VerdictAttr, UpdateStatus, PrivateLabels,
         HeldLabels, RefInv, TypeOK, RequestInv
<1> QED
  BY <1>1, SetType

LEMMA EventsStep == RefInv /\ EventsInv /\ [Next]_vars => EventsInv'
<1> SUFFICES ASSUME RefInv, EventsInv, [Next]_vars PROVE EventsInv'
  OBVIOUS
<1>a. TypeOK /\ PrivateInv /\ RequestInv /\ (\A c \in table : use[c] > 0) /\ table \subseteq Conns
  BY UseIsPositive DEF RefInv, TypeOK
<1> USE DEF EventsInv, Changing, entry, request, history
<1>1. ASSUME NEW c \in Conns, NEW f \in Flows, NEW g \in Flows, PacketInsert(c, f, g) PROVE EventsInv'
  BY <1>1, <1>a DEF PacketInsert, Free, TypeOK
<1>2. ASSUME NEW c \in Conns, Timeout(c) \/ Offload(c) \/ Onload(c) PROVE EventsInv'
  BY <1>2 DEF Timeout, Offload, Onload
<1>3. ASSUME NEW c \in Conns, PacketAssures(c) PROVE EventsInv'
  <2>1. \A d \in Conns : d # c => attr'[d] = attr[d] /\ told'[d] = told[d]
    BY <1>3, <1>a DEF PacketAssures, TypeOK
  <2>2. attr[c] = told[c] => attr'[c] = told'[c]
    BY <1>3, <1>a DEF PacketAssures, TypeOK
  <2> QED
    BY <1>3, <2>1, <2>2, <1>a DEF PacketAssures
<1>4. ASSUME NEW c \in Conns, Destroy(c) PROVE EventsInv'
  BY <1>4, <1>a DEF Destroy, TypeOK
<1>5. ASSUME NEW r \in Requests, Begin(r) \/ Queue(r) PROVE EventsInv'
  BY <1>5 DEF Begin, Queue
<1>6. CASE Ending \/ FindNothingCreate \/ Find \/ Put
  BY <1>6 DEF Ending, ParseFails, FindNothing, AllocFails, FlushDone, FlushRefused,
              FindNothingCreate, Find, Put,
              Done, Parsed
<1>7. ASSUME NEW c \in Conns, Alloc(c) PROVE EventsInv'
  BY <1>7, <1>a DEF Alloc
<1>8. CASE Setting
  <2>1. \A d \in Conns : d # ct => attr'[d] = attr[d]
    BY <1>8, SettingFacts DEF Setting, ImplicitHelperFails, SetPartly, CreateAttr, AttachLabels,
                              ChangeAttr, VerdictAttr, UpdateStatus
  <2>2. table' = table /\ told' = told /\ ct' = ct /\ untold \subseteq untold'
    BY <1>8 DEF Setting, ImplicitHelperFails, SetPartly, CreateAttr, AttachLabels, ChangeAttr,
                VerdictAttr, UpdateStatus, VerdictEnds,
                PutWith
  <2>3. pc \in Changing
    BY <1>8 DEF Setting, ImplicitHelperFails, SetPartly, CreateAttr, AttachLabels, ChangeAttr,
                VerdictAttr, UpdateStatus
  <2>4. attr'[ct] # told'[ct] => pc' \in Changing \/ ct \in untold'
    BY <1>8 DEF Setting, ImplicitHelperFails, SetPartly, CreateAttr, AttachLabels, ChangeAttr,
                VerdictAttr, UpdateStatus, VerdictEnds,
                PutWith
  <2> QED
    BY <2>1, <2>2, <2>3, <2>4, <1>a
<1>9. CASE CreateMaster \/ Insert \/ InsertFails
  BY <1>9 DEF CreateMaster, Insert, InsertFails
<1>10. CASE CreateFails
  BY <1>10, <1>a DEF CreateFails, PrivateInv, PrivateLabels, TypeOK
<1>11. CASE Report
  BY <1>11, <1>a DEF Report, TypeOK
<1>12. CASE Moving
  BY <1>12 DEF Moving, Change, ChangeDone, Verdict, VerdictDone, VerdictEnds, Get, Del, PutWith
<1>13. CASE Delete \/ Flush \/ FlushKill
  BY <1>13 DEF Delete, Deleted, Flush, FlushKill, PutWith, Parsed
<1>14. ASSUME NEW c \in Conns, FlushVisit(c) PROVE EventsInv'
  BY <1>14 DEF FlushVisit
<1>15. CASE UNCHANGED vars
  BY <1>15 DEF vars
<1> QED
  BY <1>1, <1>2, <1>3, <1>4, <1>5, <1>6, <1>7, <1>8, <1>9, <1>10, <1>11, <1>12, <1>13, <1>14, <1>15
     DEF Next, Kernel, Handler, ctnetlink_glue_parse, ctnetlink_new_conntrack,
         ctnetlink_del_conntrack, Ending, Moving, Setting

\* Listeners know the attributes of every entry in the table but the one that a
\* request is changing, and those that ctnetlink_change_conntrack left half
\* changed or ctnetlink_glue_parse changed.
THEOREM Telling == Spec => []EventsTell
<1>1. Init => EventsInv
  BY DEF Init, EventsInv
<1>2. EventsInv => EventsTell
  BY DEF EventsInv, EventsTell
<1> QED
  BY <1>1, <1>2, EventsStep, RefAlways, PTL DEF Spec

-----------------------------------------------------------------------------
(* Flushes.                                                                *)

LEMMA FlushStep == RefInv /\ FlushInv /\ [Next]_vars => FlushInv'
<1> SUFFICES ASSUME RefInv, FlushInv, [Next]_vars PROVE FlushInv'
  OBVIOUS
<1>a. TypeOK /\ RequestInv /\ \A c \in table : use[c] > 0
  BY UseIsPositive DEF RefInv
<1>b. /\ pc = "flush" => victims \subseteq corpses
      /\ pc = "kill" => victims \subseteq corpses \cup {ct}
      /\ pc \in {"flush", "kill"} => \A c \in victims : c \notin offload /\ Matches(c)
  BY DEF FlushInv
<1> USE DEF entry, request, history
<1>1. CASE Kernel
  <2>1. pc' = pc /\ ct' = ct /\ corpses' = corpses /\ req' = req /\ victims' \subseteq victims
        /\ \A c \in victims' : c \in offload' => c \in offload
    BY <1>1 DEF Kernel, PacketInsert, Timeout, PacketAssures, Offload, Onload, Destroy
  <2>2. \A c \in victims, a \in Attrs : a # "status" => attr'[c][a] = attr[c][a]
    <3> SUFFICES ASSUME NEW c \in victims, NEW a \in Attrs, a # "status"
                 PROVE  attr'[c][a] = attr[c][a]
      OBVIOUS
    <3>1. c \in table /\ c \in allocated /\ c \in Conns
      BY <1>a DEF TypeOK, RequestInv
    <3>2. ASSUME NEW d \in Conns, NEW f \in Flows, NEW g \in Flows, PacketInsert(d, f, g)
          PROVE  attr'[c] = attr[c]
      BY <3>1, <3>2, <1>a DEF PacketInsert, Free, TypeOK
    <3>3. ASSUME NEW d \in Conns, Destroy(d) PROVE attr'[c] = attr[c]
      BY <3>1, <3>3, <1>a DEF Destroy, TypeOK
    <3>4. ASSUME NEW d \in Conns, PacketAssures(d) PROVE attr'[c][a] = attr[c][a]
      BY <3>1, <3>4, <1>a DEF PacketAssures, TypeOK
    <3> QED
      BY <1>1, <3>2, <3>3, <3>4 DEF Kernel, Timeout, Offload, Onload
  <2>3. pc # "idle" => req.attrs \in SUBSET Attrs
    BY <1>a, RequestFields DEF RequestInv
  <2>a. \A c \in victims : orig'[c] = orig[c]
    BY <1>1, <1>a, TableStep DEF Next, RequestInv
  <2>4. pc \in {"flush", "kill"} => \A c \in victims' : Matches(c)'
    BY <2>1, <2>2, <2>3, <2>a, <1>b DEF Matches, FlushFamily
  <2> QED
    BY <2>1, <2>4, <1>b DEF FlushInv
<1>2. CASE Flush
  BY <1>2 DEF FlushInv, Flush, Parsed, Matches, FlushFamily
<1>3. ASSUME NEW c \in Conns, FlushVisit(c) PROVE FlushInv'
  <2>1. pc = "flush" /\ corpses' = corpses \ {c} /\ victims' = victims /\ req' = req
        /\ UNCHANGED <<attr, orig, offload>>
    BY <1>3 DEF FlushVisit
  <2>2. \A d \in victims : d \notin offload /\ Matches(d) /\ Matches(d)'
    BY <2>1, <1>b DEF Matches, FlushFamily
  <2>3. c \in victims => c \in table /\ ctnetlink_flush_iterate(c)
    BY <2>2, <1>a DEF RequestInv, ctnetlink_flush_iterate
  <2> QED
    BY <1>3, <2>1, <2>2, <2>3, <1>b DEF FlushInv, FlushVisit
<1>4. CASE FlushKill
  BY <1>4, <1>b DEF FlushInv, FlushKill, Deleted, Matches, FlushFamily
<1>5. CASE Next /\ ~Kernel /\ ~Flush /\ ~FlushKill /\ ~\E c \in Conns : FlushVisit(c)
  <2>1. pc' \notin {"flush", "kill"}
    BY <1>5
       DEF Next, Handler, ctnetlink_glue_parse, ctnetlink_new_conntrack, ctnetlink_del_conntrack,
           ParseFails, Find, FindNothing, Put, Get, Del, Delete,
           FlushDone, FlushRefused, FindNothingCreate, AllocFails, ImplicitHelperFails, CreateAttr,
           CreateMaster, Insert,
           InsertFails, CreateFails, AttachLabels, Report, Change, ChangeAttr, ChangeDone, Verdict,
           VerdictAttr, UpdateStatus, VerdictDone, VerdictEnds, Begin, Queue, Alloc, PutWith, Done,
           Parsed
  <2> QED
    BY <2>1 DEF FlushInv
<1>6. CASE UNCHANGED vars
  BY <1>6, <1>b DEF FlushInv, vars, Matches, FlushFamily
<1> QED
  BY <1>1, <1>2, <1>3, <1>4, <1>5, <1>6

\* When ctnetlink_flush_conntrack has visited every entry, those that it was to
\* delete when it began, and that were neither offloaded nor timed out meanwhile,
\* are gone.
THEOREM Flushed == Spec => []FlushComplete
<1>1. Init => FlushInv
  BY DEF Init, FlushInv
<1>2. FlushInv => FlushComplete
  BY DEF FlushInv, FlushComplete
<1> QED
  BY <1>1, <1>2, FlushStep, RefAlways, PTL DEF Spec
=============================================================================
