---------------------------- MODULE ExpectProofs ----------------------------
(***************************************************************************)
(* For any number of expectations, connections and tuples and any requests:*)
(* references balance, no expectation is freed that the lists, a request or*)
(* a dump point to, expectations that wait have masters, and a dump        *)
(* reports what was in the table all the time.                             *)
(***************************************************************************)
EXTENDS Expect, TLAPS

-----------------------------------------------------------------------------
(* The invariants.                                                         *)

\* del_timer succeeds on what is linked only; a timer that ran has unlinked.
TimerInv ==
  /\ \A e \in Exps : e \in linked <=> timer[e] \in {"armed", "fired"}
  /\ \A e \in Exps : timer[e] # "off" => e \in allocated

\* What a request holds at each of its places.
RequestInv ==
  /\ pc # "idle" => req \in Request
  /\ exp # None <=> pc \in {"related", "putexp", "get", "del", "put"}
  /\ ct # None => pc \in {"alloc", "related", "putexp", "putmaster", "queued", "dumpct", "dumping"}
  /\ pc \in {"alloc", "related", "putexp", "putmaster", "queued", "dumpct"} => ct # None
  /\ pc \in {"master", "alloc", "related"} => req.tuple # None
  /\ pc = "related" => /\ exp \notin linked /\ timer[exp] = "off"
                       /\ tuple[exp] = req.tuple /\ master[exp] = ct

Counted == Balanced /\ ExpectationsAlive

\* A flush and the end of a master hold the lock: what they have still to look
\* at stays linked, and nobody finds a master that ends.
LockInv ==
  /\ pc = "flush" <=> lock = "request"
  /\ work \subseteq linked /\ (work # {} => pc = "flush")
  /\ lock \in Masters => lock \in alive /\ muse[lock] = 0

\* What the cursor and the locals of the callback are at each of its places.
CursorInv ==
  /\ bucket <= Lists
  /\ bucket = Lists => arg1 = None /\ node = None
  /\ phase \in {"none", "idle", "ending"} => last = None /\ node = None
  /\ phase = "none" => arg1 = None /\ data = None
  /\ phase = "walk" => arg1 \in {None, last}
  /\ phase = "out" => node \in {None, arg1}

\* One expectation waits for a tuple and a master.
OnlyInv ==
  \A e, f \in linked :
    timer[e] = "armed" /\ timer[f] = "armed" /\ tuple[e] = tuple[f] /\ master[e] = master[f] => e = f

\* In a list whose linked members are l, a head or a linked member leads to a linked
\* member, and no two lead to the same.
Live(l, p) == p \in Exps => p \in l
ListOK(l, n) ==
  /\ \A p \in DOMAIN n : Live(l, p) => n[p] \in l \cup {None}
  /\ \A p, q \in DOMAIN n : Live(l, p) /\ Live(l, q) /\ n[p] = n[q] /\ n[p] # None => p = q

ListInv == ListOK(linked, nxt) /\ ListOK(linked, lnxt)

\* A callback sees what was linked at some time since it began, and none of it is
\* freed before it ends.
StaysIn(S, n) == \A e \in S : n[e] \in S \cup {None}
Seen(S) ==
  /\ linked \subseteq S /\ S \subseteq allocated \ graceful /\ node \in S \cup {None}
  /\ StaysIn(S, nxt) /\ StaysIn(S, lnxt)
WalkInv ==
  /\ phase = "walk" => \E S \in SUBSET Exps : Seen(S)
  /\ \A e \in graceful : use[e] = 0 /\ e \in allocated

RefInv ==
  /\ TypeOK /\ Counted /\ MastersAlive
  /\ TimerInv /\ RequestInv /\ LockInv /\ CursorInv /\ OnlyInv /\ ListInv /\ WalkInv
-----------------------------------------------------------------------------
(* Lists.                                                                  *)

Pointers(D) == [D -> Exps \cup {None}]

LEMMA BypassType ==
  ASSUME NEW D, Exps \subseteq D, NEW l \in SUBSET Exps, NEW n \in Pointers(D), NEW e \in Exps
  PROVE  /\ Bypass(l, n, e) \in Pointers(D)
         /\ \A p \in D : Live(l, p) /\ n[p] = e => Bypass(l, n, e)[p] = n[e]
         /\ \A p \in D : ~Live(l, p) \/ n[p] # e => Bypass(l, n, e)[p] = n[p]
BY DEF Bypass, Pointers, Live

\* A member leaves, and its predecessor leads to its successor.
LEMMA BypassList ==
  ASSUME NEW D, Exps \subseteq D, NEW l \in SUBSET Exps, NEW n \in Pointers(D), NEW e \in l,
         ListOK(l, n)
  PROVE  ListOK(l \ {e}, Bypass(l, n, e))
<1> DEFINE b == Bypass(l, n, e)
<1>1. /\ b \in Pointers(D)
      /\ \A p \in D : Live(l, p) /\ n[p] = e => b[p] = n[e]
      /\ \A p \in D : ~Live(l, p) \/ n[p] # e => b[p] = n[p]
  BY BypassType
<1>2. DOMAIN b = D /\ DOMAIN n = D
  BY <1>1 DEF Pointers
<1> HIDE DEF b
<1>3. Live(l, e) /\ e \in D /\ e \in Exps /\ e # None
  BY ExpsAssumption DEF Live
<1>4. \A p \in D : Live(l \ {e}, p) => Live(l, p) /\ p # e
  BY DEF Live
<1>5. ASSUME NEW p \in D, Live(l \ {e}, p)
      PROVE  b[p] \in (l \ {e}) \cup {None}
  <2>1. Live(l, p) /\ p # e
    BY <1>4, <1>5
  <2>2. CASE n[p] = e
    <3>1. n[e] # e
      BY <1>2, <1>3, <2>1, <2>2 DEF ListOK
    <3> QED
      BY <1>1, <1>2, <1>3, <2>1, <2>2, <3>1 DEF ListOK
  <2>3. CASE n[p] # e
    BY <1>1, <1>2, <2>1, <2>3 DEF ListOK
  <2> QED
    BY <2>2, <2>3
<1>6. ASSUME NEW p \in D, NEW q \in D, Live(l \ {e}, p), Live(l \ {e}, q), b[p] = b[q], b[p] # None
      PROVE  p = q
  <2>1. Live(l, p) /\ p # e /\ Live(l, q) /\ q # e
    BY <1>4, <1>6
  <2>2. \A x \in D : Live(l, x) /\ x # e /\ n[x] = e => b[x] = n[e]
    BY <1>1
  <2>3. CASE n[p] = e /\ n[q] = e
    BY <1>2, <1>3, <2>1, <2>3 DEF ListOK
  <2>4. CASE n[p] = e /\ n[q] # e
    <3>1. b[p] = n[e] /\ b[q] = n[q]
      BY <1>1, <2>1, <2>4
    <3> QED
      BY <1>2, <1>3, <1>6, <2>1, <3>1 DEF ListOK
  <2>5. CASE n[p] # e /\ n[q] = e
    <3>1. b[q] = n[e] /\ b[p] = n[p]
      BY <1>1, <2>1, <2>5
    <3> QED
      BY <1>2, <1>3, <1>6, <2>1, <3>1 DEF ListOK
  <2>6. CASE n[p] # e /\ n[q] # e
    <3>1. b[p] = n[p] /\ b[q] = n[q]
      BY <1>1, <2>6
    <3> QED
      BY <1>2, <1>6, <2>1, <3>1 DEF ListOK
  <2> QED
    BY <2>3, <2>4, <2>5, <2>6
<1> QED
  BY <1>2, <1>5, <1>6 DEF ListOK, b

\* Whoever walks is still led to what it may see.
LEMMA BypassStays ==
  ASSUME NEW D, Exps \subseteq D, NEW l \in SUBSET Exps, NEW n \in Pointers(D), NEW e \in l,
         NEW S \in SUBSET Exps, l \subseteq S, StaysIn(S, n)
  PROVE  StaysIn(S, Bypass(l, n, e))
<1>1. /\ \A p \in D : Live(l, p) /\ n[p] = e => Bypass(l, n, e)[p] = n[e]
      /\ \A p \in D : ~Live(l, p) \/ n[p] # e => Bypass(l, n, e)[p] = n[p]
  BY BypassType
<1> QED
  BY <1>1 DEF StaysIn

\* A new member enters at the head.
LEMMA AddedList ==
  ASSUME NEW D, Exps \subseteq D, NEW l \in SUBSET Exps, NEW n \in Pointers(D), NEW e \in Exps \ l,
         NEW h \in D \ Exps, ListOK(l, n)
  PROVE  /\ Added(n, e, h) \in Pointers(D)
         /\ ListOK(l \cup {e}, Added(n, e, h))
         /\ \A S \in SUBSET Exps : l \subseteq S /\ StaysIn(S, n) => StaysIn(S \cup {e}, Added(n, e, h))
<1> DEFINE a == Added(n, e, h)
<1>0. h # e /\ e \in D /\ h \in D /\ DOMAIN n = D
  BY DEF Pointers
<1>1. a \in [D -> Exps \cup {None}] /\ a[e] = n[h] /\ a[h] = e /\ \A p \in D : p # e /\ p # h => a[p] = n[p]
  BY <1>0 DEF Added, Pointers
<1> HIDE DEF a
<1>2. DOMAIN a = D
  BY <1>1
<1>3. n[h] \in l \cup {None}
  BY <1>0 DEF ListOK, Live
<1>4. \A p \in D : Live(l \cup {e}, p) => p = e \/ Live(l, p)
  BY DEF Live
<1>5. \A p \in D : Live(l, p) /\ p # h => n[p] # n[h] \/ n[p] = None
  BY <1>0 DEF ListOK, Live
<1>6. \A p \in D : Live(l, p) => n[p] # e
  BY <1>0, ExpsAssumption DEF ListOK
<1>7. ListOK(l \cup {e}, a)
  <2>1. \A p \in D : Live(l \cup {e}, p) => a[p] \in l \cup {e} \cup {None}
    BY <1>0, <1>1, <1>3, <1>4 DEF ListOK
  <2>2. ASSUME NEW p \in D, NEW q \in D, Live(l \cup {e}, p), Live(l \cup {e}, q), a[p] = a[q], a[p] # None
        PROVE  p = q
    <3>1. Live(l, h)
      BY DEF Live
    <3>2. CASE p = e
      BY <1>0, <1>1, <1>3, <1>4, <1>5, <2>2, <3>2
    <3>3. CASE q = e
      BY <1>0, <1>1, <1>3, <1>4, <1>5, <2>2, <3>3
    <3>4. CASE p # e /\ q # e
      <4>1. Live(l, p) /\ Live(l, q)
        BY <1>4, <2>2, <3>4
      <4>2. CASE p = h \/ q = h
        BY <1>1, <1>6, <2>2, <3>4, <4>1, <4>2
      <4>3. CASE p # h /\ q # h
        BY <1>0, <1>1, <2>2, <3>4, <4>1, <4>3 DEF ListOK
      <4> QED
        BY <4>2, <4>3
    <3> QED
      BY <3>2, <3>3, <3>4
  <2> QED
    BY <1>2, <2>1, <2>2 DEF ListOK
<1>8. ASSUME NEW S \in SUBSET Exps, l \subseteq S, StaysIn(S, n)
      PROVE  StaysIn(S \cup {e}, a)
  BY <1>1, <1>3, <1>8 DEF StaysIn
<1> QED
  BY <1>1, <1>7, <1>8 DEF Pointers, a

\* The same for the lists of expectations and for a callback that walks them.
LEMMA UnlinkLists ==
  ASSUME RefInv, NEW e \in linked, Unlink(e), UNCHANGED <<allocated, graceful, phase, node>>
  PROVE  /\ ListInv' /\ nxt' \in Pointers(Exps \cup Heads) /\ lnxt' \in Pointers(Exps \cup Masters)
         /\ (phase = "walk" => \E S \in SUBSET Exps : Seen(S))'
<1>1. /\ linked \in SUBSET Exps /\ e \in Exps
      /\ nxt \in Pointers(Exps \cup Heads) /\ lnxt \in Pointers(Exps \cup Masters)
  BY DEF RefInv, TypeOK, Pointers
<1>2. linked' = linked \ {e} /\ nxt' = Bypass(linked, nxt, e) /\ lnxt' = Bypass(linked, lnxt, e)
  BY DEF Unlink
<1>3. ListOK(linked, nxt) /\ ListOK(linked, lnxt)
  BY DEF RefInv, ListInv
<1>4. ListOK(linked', nxt') /\ ListOK(linked', lnxt')
  BY <1>1, <1>2, <1>3, BypassList
<1>5. nxt' \in Pointers(Exps \cup Heads) /\ lnxt' \in Pointers(Exps \cup Masters)
  BY <1>1, <1>2, BypassType
<1>6. ASSUME phase = "walk"
      PROVE  \E S \in SUBSET Exps : Seen(S)'
  <2>1. PICK S \in SUBSET Exps : Seen(S)
    BY <1>6 DEF RefInv, WalkInv
  <2>2. StaysIn(S, Bypass(linked, nxt, e)) /\ StaysIn(S, Bypass(linked, lnxt, e))
    BY <1>1, <2>1, BypassStays DEF Seen
  <2>3. Seen(S)'
    BY <1>2, <2>1, <2>2 DEF Seen, StaysIn
  <2> QED
    BY <2>3
<1> QED
  BY <1>4, <1>5, <1>6 DEF ListInv

\* There is at most one that is replaced.
LEMMA OneReplaced ==
  ASSUME RefInv, NEW t, NEW m, NEW x \in Replaced(t, m)
  PROVE  /\ x \in linked /\ timer[x] = "armed" /\ Replaced(t, m) = {x}
         /\ x = CHOOSE y \in Replaced(t, m) : TRUE
<1>1. \A y \in Replaced(t, m) : y \in linked /\ timer[y] = "armed" /\ tuple[y] = t /\ master[y] = m
  BY DEF Replaced, Matching, Waiting
<1>2. \A y \in Replaced(t, m) : y = x
  BY <1>1 DEF RefInv, OnlyInv
<1> QED
  BY <1>1, <1>2

LEMMA RelatedLists ==
  ASSUME RefInv, NEW e \in Exps \ linked, NEW t \in Tuples, NEW m \in Masters, NEW u, Related(e, t, m, u),
         e \in allocated', e \notin graceful, allocated \subseteq allocated',
         UNCHANGED <<graceful, phase, node>>
  PROVE  /\ ListInv' /\ nxt' \in Pointers(Exps \cup Heads) /\ lnxt' \in Pointers(Exps \cup Masters)
         /\ (phase = "walk" => \E S \in SUBSET Exps : Seen(S))'
<1> DEFINE old == Replaced(t, m)
           l == linked \ old
           n == Without(nxt, old)
           ln == Without(lnxt, old)
<1>1. /\ linked \in SUBSET Exps /\ Exps \subseteq Exps \cup Heads /\ Exps \subseteq Exps \cup Masters
      /\ nxt \in Pointers(Exps \cup Heads) /\ lnxt \in Pointers(Exps \cup Masters)
  BY DEF RefInv, TypeOK, Pointers
<1>2. ListOK(linked, nxt) /\ ListOK(linked, lnxt)
  BY DEF RefInv, ListInv
<1>3. Hash[t] \in (Exps \cup Heads) \ Exps /\ m \in (Exps \cup Masters) \ Exps
  BY SizeAssumption, ExpsAssumption
<1>4. /\ l \in SUBSET Exps /\ ListOK(l, n) /\ ListOK(l, ln)
      /\ n \in Pointers(Exps \cup Heads) /\ ln \in Pointers(Exps \cup Masters)
      /\ \A S \in SUBSET Exps : linked \subseteq S /\ StaysIn(S, nxt) => StaysIn(S, n)
      /\ \A S \in SUBSET Exps : linked \subseteq S /\ StaysIn(S, lnxt) => StaysIn(S, ln)
  <2>1. CASE old = {}
    <3>1. n = nxt /\ ln = lnxt /\ l = linked
      BY <2>1 DEF Without
    <3> QED
      BY <3>1, <1>1, <1>2
  <2>2. CASE old # {}
    <3>1. PICK x \in old : TRUE
      BY <2>2
    <3>2. x \in linked /\ old = {x} /\ x = CHOOSE y \in old : TRUE
      BY <3>1, OneReplaced
    <3>3. n = Bypass(linked, nxt, x) /\ ln = Bypass(linked, lnxt, x) /\ l = linked \ {x}
      BY <2>2, <3>2 DEF Without
    <3>4. x \in Exps
      BY <3>2, <1>1
    <3> HIDE DEF old, n, ln, l
    <3>5. ListOK(l, n) /\ ListOK(l, ln)
      BY <3>2, <3>3, <1>1, <1>2, BypassList
    <3>6. n \in Pointers(Exps \cup Heads) /\ ln \in Pointers(Exps \cup Masters)
      BY <3>3, <3>4, <1>1, BypassType
    <3>7. /\ \A S \in SUBSET Exps : linked \subseteq S /\ StaysIn(S, nxt) => StaysIn(S, n)
          /\ \A S \in SUBSET Exps : linked \subseteq S /\ StaysIn(S, lnxt) => StaysIn(S, ln)
      BY <3>2, <3>3, <1>1, BypassStays
    <3> QED
      BY <3>3, <3>5, <3>6, <3>7, <1>1
  <2> QED
    BY <2>1, <2>2
<1>5. linked' = l \cup {e} /\ nxt' = Added(n, e, Hash[t]) /\ lnxt' = Added(ln, e, m)
  BY DEF Related
<1>6. e \in Exps \ l /\ l \subseteq linked
  OBVIOUS
<1> HIDE DEF old, l, n, ln
<1>7. /\ nxt' \in Pointers(Exps \cup Heads) /\ ListOK(linked', nxt')
      /\ \A S \in SUBSET Exps : l \subseteq S /\ StaysIn(S, n) => StaysIn(S \cup {e}, nxt')
  BY <1>1, <1>3, <1>4, <1>5, <1>6, AddedList
<1>8. /\ lnxt' \in Pointers(Exps \cup Masters) /\ ListOK(linked', lnxt')
      /\ \A S \in SUBSET Exps : l \subseteq S /\ StaysIn(S, ln) => StaysIn(S \cup {e}, lnxt')
  BY <1>1, <1>3, <1>4, <1>5, <1>6, AddedList
<1>9. ASSUME phase = "walk"
      PROVE  \E S \in SUBSET Exps : Seen(S)'
  <2>1. PICK S \in SUBSET Exps : Seen(S)
    BY <1>9 DEF RefInv, WalkInv
  <2>2. StaysIn(S \cup {e}, nxt') /\ StaysIn(S \cup {e}, lnxt')
    BY <1>4, <1>6, <1>7, <1>8, <2>1 DEF Seen
  <2>3. /\ linked' \subseteq S \cup {e} /\ S \cup {e} \subseteq allocated' \ graceful'
        /\ node' \in S \cup {e} \cup {None} /\ S \cup {e} \in SUBSET Exps
    BY <1>5, <1>6, <2>1 DEF Seen
  <2>4. Seen(S \cup {e})'
    BY <2>2, <2>3 DEF Seen, StaysIn
  <2> QED
    BY <2>3, <2>4
<1> QED
  BY <1>7, <1>8, <1>9 DEF ListInv

-----------------------------------------------------------------------------
(* What a step leaves alone.                                               *)

USE DEF memory, lists, masters, request, callback, history, state

LEMMA Frames ==
  /\ Balanced /\ UNCHANGED <<use, linked, timer, exp, last, arg1, phase, muse, table, ct>> => Balanced'
  /\ ExpectationsAlive /\ UNCHANGED <<linked, work, exp, arg1, last, node, allocated, ct, alive>> => ExpectationsAlive'
  /\ MastersAlive /\ UNCHANGED <<linked, timer, master, alive>> => MastersAlive'
  /\ TimerInv /\ UNCHANGED <<linked, timer, allocated>> => TimerInv'
  /\ RequestInv /\ UNCHANGED <<pc, req, exp, ct, linked, timer, tuple, master>> => RequestInv'
  /\ LockInv /\ UNCHANGED <<pc, lock, work, linked, alive, muse>> => LockInv'
  /\ CursorInv /\ UNCHANGED <<bucket, data, arg1, node, phase, last>> => CursorInv'
  /\ OnlyInv /\ UNCHANGED <<linked, timer, tuple, master>> => OnlyInv'
  /\ ListInv /\ UNCHANGED <<linked, nxt, lnxt>> => ListInv'
  /\ WalkInv /\ UNCHANGED <<phase, linked, allocated, graceful, node, nxt, lnxt, use>> => WalkInv'
<1>1. Balanced /\ UNCHANGED <<use, linked, timer, exp, last, arg1, phase, muse, table, ct>> => Balanced'
  BY DEF Balanced, CursorHolds, One
<1>2. ExpectationsAlive /\ UNCHANGED <<linked, work, exp, arg1, last, node, allocated, ct, alive>> => ExpectationsAlive'
  BY DEF ExpectationsAlive
<1>3. MastersAlive /\ UNCHANGED <<linked, timer, master, alive>> => MastersAlive'
  BY DEF MastersAlive
<1>4. TimerInv /\ UNCHANGED <<linked, timer, allocated>> => TimerInv'
  BY DEF TimerInv
<1>5. RequestInv /\ UNCHANGED <<pc, req, exp, ct, linked, timer, tuple, master>> => RequestInv'
  BY DEF RequestInv
<1>6. LockInv /\ UNCHANGED <<pc, lock, work, linked, alive, muse>> => LockInv'
  BY DEF LockInv
<1>7. CursorInv /\ UNCHANGED <<bucket, data, arg1, node, phase, last>> => CursorInv'
  BY DEF CursorInv, Lists
<1>8. OnlyInv /\ UNCHANGED <<linked, timer, tuple, master>> => OnlyInv'
  BY DEF OnlyInv
<1>9. ListInv /\ UNCHANGED <<linked, nxt, lnxt>> => ListInv'
  BY DEF ListInv
<1>10. WalkInv /\ UNCHANGED <<phase, linked, allocated, graceful, node, nxt, lnxt, use>> => WalkInv'
  BY DEF WalkInv, Seen
<1> QED
  BY <1>1, <1>2, <1>3, <1>4, <1>5, <1>6, <1>7, <1>8, <1>9, <1>10

\* Counts and pointers are what the invariants say of them.
LEMMA Facts ==
  ASSUME RefInv
  PROVE  /\ \A e \in Exps : (e \in linked \/ timer[e] # "off" \/ exp = e \/ last = e \/ CursorHolds(e)) => use[e] >= 1
         /\ \A e \in linked : use[e] >= 2 /\ e \in allocated
         /\ \A e \in Exps \ allocated :
              /\ use[e] = 0 /\ timer[e] = "off" /\ e \notin linked \cup work
              /\ exp # e /\ last # e /\ arg1 # e /\ node # e
         /\ \A m \in Masters : (m \in table \/ ct = m) => muse[m] >= 1
         /\ None \notin Exps /\ None \notin Masters /\ "request" \notin Masters /\ None # "request"
<1>1. \A e \in Exps : (e \in linked \/ timer[e] # "off" \/ exp = e \/ last = e \/ CursorHolds(e)) => use[e] >= 1
  BY DEF RefInv, Counted, Balanced, One
<1>2. ASSUME NEW e \in linked PROVE use[e] >= 2 /\ e \in allocated
  <2>1. e \in Exps /\ timer[e] # "off"
    BY DEF RefInv, TypeOK, TimerInv
  <2>2. use[e] >= 2
    BY <2>1 DEF RefInv, Counted, Balanced, One
  <2> QED
    BY <2>1, <2>2 DEF RefInv, TimerInv
<1>3. ASSUME NEW e \in Exps \ allocated
      PROVE  /\ use[e] = 0 /\ timer[e] = "off" /\ e \notin linked \cup work
             /\ exp # e /\ last # e /\ arg1 # e /\ node # e
  <2>1. e # None
    BY ExpsAssumption
  <2>2. timer[e] = "off"
    BY DEF RefInv, TimerInv
  <2>3. e \notin linked \cup work /\ exp # e /\ last # e /\ arg1 # e /\ node # e
    BY <2>1 DEF RefInv, Counted, ExpectationsAlive
  <2>4. ~CursorHolds(e)
    BY <2>3 DEF CursorHolds
  <2>5. use[e] = 0
    BY <2>2, <2>3, <2>4 DEF RefInv, Counted, Balanced, One
  <2> QED
    BY <2>2, <2>3, <2>5
<1>4. \A m \in Masters : (m \in table \/ ct = m) => muse[m] >= 1
  BY DEF RefInv, Counted, Balanced, One
<1> QED
  BY <1>1, <1>2, <1>3, <1>4, ExpsAssumption, MastersAssumption

-----------------------------------------------------------------------------
(* The steps of requests.                                                  *)

LEMMA RefInit == Init => RefInv
<1> SUFFICES ASSUME Init PROVE RefInv
  OBVIOUS
<1>1. TypeOK
  <2>1. 0 \in 0..Size /\ 0 \in 0..MaxRoom
    BY SizeAssumption, BoundsAssumption
  <2>2. /\ nxt \in [Exps \cup Heads -> Exps \cup {None}] /\ lnxt \in [Exps \cup Masters -> Exps \cup {None}]
        /\ tuple \in [Exps -> Tuples \cup {None}] /\ master \in [Exps -> Masters \cup {None}]
        /\ sent \in [Exps -> 0..2] /\ use \in [Exps -> Nat] /\ muse \in [Masters -> Nat]
    BY DEF Init
  <2> QED
    BY <2>1, <2>2 DEF Init, TypeOK
<1>2. Counted /\ MastersAlive
  BY ExpsAssumption, MastersAssumption DEF Init, Counted, Balanced, ExpectationsAlive, CursorHolds, One, MastersAlive
<1>3. TimerInv /\ RequestInv /\ LockInv /\ OnlyInv
  BY ExpsAssumption, MastersAssumption, SizeAssumption
  DEF Init, TimerInv, RequestInv, LockInv, OnlyInv
<1>4. CursorInv
  BY SizeAssumption DEF Init, CursorInv, Lists
<1>5. ListInv
  BY ExpsAssumption DEF Init, ListInv, ListOK
<1>6. WalkInv
  BY DEF Init, WalkInv
<1> QED
  BY <1>1, <1>2, <1>3, <1>4, <1>5, <1>6 DEF RefInv

\* A request moves on without a reference taken or dropped.
LEMMA RequestMoves ==
  ASSUME RefInv, UNCHANGED <<memory, use, timer, lists, lock, masters, exp, ct, work, callback, history>>,
         pc' \in {"idle", "begin", "master", "alloc", "putmaster"}, pc # "flush",
         req' = NoRequest \/ req' \in Request, RequestInv'
  PROVE  RefInv'
<1>1. TypeOK'
  BY DEF RefInv, TypeOK
<1>2. LockInv'
  BY DEF RefInv, LockInv
<1> QED
  BY <1>1, <1>2, Frames DEF RefInv, Counted

\* Where a request begins it holds nothing.
LEMMA BeginHolds ==
  ASSUME RefInv, pc \in {"idle", "begin", "master"}
  PROVE  exp = None /\ ct = None /\ work = {}
BY DEF RefInv, RequestInv, LockInv

LEMMA RefMoves ==
  ASSUME RefInv,
         \/ \E r \in Requests : Begin(r)
         \/ ParseFails \/ NewFindsNothing \/ (\E e \in Exps : NewFinds(e)) \/ AllocFails
         \/ ctnetlink_glue_attach_expect \/ FindsNothing
  PROVE  RefInv'
<1>0. RequestInv /\ TypeOK
  BY DEF RefInv
<1>1. CASE \E r \in Requests : Begin(r)
  <2>1. PICK r \in Requests : Begin(r)
    BY <1>1
  <2>2. r \in Request
    BY RequestsAssumption
  <2>3. RequestInv'
    BY <1>0, <2>1, <2>2 DEF Begin, RequestInv
  <2> QED
    BY <2>1, <2>2, <2>3, RequestMoves DEF Begin
<1>2. CASE ParseFails
  BY <1>0, <1>2, BeginHolds, RequestMoves DEF ParseFails, Done, RequestInv
<1>3. CASE NewFindsNothing
  <2>1. pc = "begin" /\ req.tuple # None
    BY <1>3 DEF NewFindsNothing, At
  <2>2. CASE "CREATE" \in req.flags
    BY <1>0, <1>3, <2>1, <2>2, RequestMoves DEF NewFindsNothing, Goto, RequestInv, TypeOK
  <2>3. CASE "CREATE" \notin req.flags
    BY <1>0, <1>3, <2>1, <2>3, BeginHolds, RequestMoves DEF NewFindsNothing, Done, RequestInv
  <2> QED
    BY <2>2, <2>3
<1>4. CASE \E e \in Exps : NewFinds(e)
  <2>1. PICK e \in Exps : NewFinds(e)
    BY <1>4
  <2>2. pc = "begin" /\ UNCHANGED timer
    BY <2>1 DEF NewFinds, At, ctnetlink_change_expect
  <2> QED
    BY <1>0, <2>1, <2>2, BeginHolds, RequestMoves DEF NewFinds, Done, RequestInv
<1>5. CASE AllocFails
  BY <1>0, <1>5, RequestMoves DEF AllocFails, Goto, RequestInv, TypeOK
<1>6. CASE ctnetlink_glue_attach_expect
  BY <1>0, <1>6, RequestMoves DEF ctnetlink_glue_attach_expect, Goto, RequestInv, TypeOK
<1>7. CASE FindsNothing
  <2>1. pc = "begin"
    BY <1>7 DEF FindsNothing, At
  <2> QED
    BY <1>0, <1>7, <2>1, BeginHolds, RequestMoves DEF FindsNothing, Done, RequestInv
<1> QED
  BY <1>1, <1>2, <1>3, <1>4, <1>5, <1>6, <1>7

\* A reference to a master is taken, or given back.
LEMMA MasterMoves ==
  ASSUME RefInv, UNCHANGED <<memory, use, timer, lists, lock, alive, table, exp, work, callback, history>>,
         pc # "flush", pc' # "flush", NEW m \in Masters, NEW k \in {-1, 1}, muse' = [muse EXCEPT ![m] = @ + k],
         (ct = None /\ ct' = m /\ m \in table /\ k = 1) \/ (ct = m /\ ct' = None /\ k = -1),
         pc' \in {"idle", "begin", "alloc", "queued", "dumpct"}, req' = NoRequest \/ req' \in Request, RequestInv'
  PROVE  RefInv'
<1>0. muse \in [Masters -> Nat] /\ table \subseteq alive /\ m # None /\ None \notin Masters
  BY MastersAssumption DEF RefInv, TypeOK
<1>1. ASSUME NEW x \in Masters PROVE muse'[x] = One(x \in table) + One(ct' = x)
  <2>1. muse[x] = One(x \in table) + One(ct = x)
    BY DEF RefInv, Counted, Balanced
  <2>2. CASE x = m
    BY <1>0, <2>1, <2>2 DEF One
  <2>3. CASE x # m
    BY <1>0, <2>1, <2>3 DEF One
  <2> QED
    BY <2>2, <2>3
<1>2. muse' \in [Masters -> Nat]
  BY <1>0, <1>1 DEF One
<1>3. TypeOK'
  BY <1>0, <1>2 DEF RefInv, TypeOK
<1>4. Balanced'
  BY <1>1 DEF RefInv, Counted, Balanced, CursorHolds
<1>5. ExpectationsAlive'
  BY <1>0 DEF RefInv, Counted, ExpectationsAlive
<1>6. LockInv'
  <2>1. ASSUME lock \in Masters PROVE lock # m
    <3>1. muse[lock] = 0
      BY <2>1 DEF RefInv, LockInv
    <3>2. m \in table \/ ct = m => muse[m] >= 1
      BY Facts
    <3> QED
      BY <3>1, <3>2, <1>0
  <2> QED
    BY <2>1, <1>0 DEF RefInv, LockInv
<1> QED
  BY <1>3, <1>4, <1>5, <1>6, Frames DEF RefInv, Counted

LEMMA RefMasters ==
  ASSUME RefInv,
         (\E r \in Requests : Queue(r)) \/ CreateMaster \/ CreateNoHelper \/ CreatePutMaster \/ DumpFindCt
  PROVE  RefInv'
<1>0. RequestInv /\ TypeOK /\ muse \in [Masters -> Nat] /\ table \subseteq Masters
  BY DEF RefInv, TypeOK
<1>1. CASE \E r \in Requests : Queue(r)
  <2>1. PICK r \in Requests : Queue(r)
    BY <1>1
  <2>2. r \in Request /\ r.master \in Masters /\ ct = None /\ r.master # None
    BY <1>0, <2>1, RequestsAssumption, BeginHolds, MastersAssumption DEF Queue
  <2>3. RequestInv'
    BY <1>0, <2>1, <2>2 DEF Queue, RequestInv
  <2>4. muse' = [muse EXCEPT ![r.master] = @ + 1]
    BY <2>1 DEF Queue
  <2> QED
    BY <2>1, <2>2, <2>3, <2>4, MasterMoves DEF Queue
<1>2. CASE CreateMaster
  <2>1. CASE req.master \in table /\ "create" \notin req.fail
    <3>1. req.master \in Masters /\ req.master # None /\ ct = None
      BY <1>0, <1>2, <2>1, BeginHolds, MastersAssumption DEF CreateMaster
    <3>2. RequestInv'
      BY <1>0, <1>2, <2>1, <3>1 DEF CreateMaster, RequestInv
    <3>3. muse' = [muse EXCEPT ![req.master] = @ + 1] /\ pc = "master" /\ pc' = "alloc" /\ req' = req
      BY <1>2, <2>1 DEF CreateMaster
    <3> QED
      BY <1>0, <1>2, <2>1, <3>1, <3>2, <3>3, MasterMoves DEF CreateMaster, TypeOK
  <2>2. CASE ~(req.master \in table /\ "create" \notin req.fail)
    BY <1>0, <1>2, <2>2, BeginHolds, RequestMoves DEF CreateMaster, Done, RequestInv
  <2> QED
    BY <2>1, <2>2
<1>3. CASE CreateNoHelper
  <2>1. ct \in Masters /\ exp = None /\ work = {} /\ req \in Request
    BY <1>0, <1>3 DEF CreateNoHelper, RequestInv, TypeOK, RefInv, LockInv
  <2>2. muse' = [muse EXCEPT ![ct] = @ + (-1)]
    BY <1>0, <1>3, <2>1 DEF CreateNoHelper
  <2>3. CASE Done
    <3>1. RequestInv'
      BY <2>3 DEF Done, RequestInv
    <3> QED
      BY <1>3, <2>1, <2>2, <2>3, <3>1, MasterMoves DEF CreateNoHelper, Done
  <2>4. CASE /\ pc' = "begin" /\ req' = [req EXCEPT !.fail = @ \ {"helper"}]
             /\ ct' = None /\ UNCHANGED <<exp, work>>
    <3>1. req' \in Request
      BY <2>1, <2>4 DEF Request
    <3>2. RequestInv'
      BY <2>1, <2>4, <3>1 DEF RequestInv
    <3> QED
      BY <1>3, <2>1, <2>2, <2>4, <3>1, <3>2, MasterMoves DEF CreateNoHelper
  <2> QED
    BY <1>3, <2>3, <2>4 DEF CreateNoHelper
<1>4. CASE CreatePutMaster
  <2>1. ct \in Masters /\ exp = None /\ work = {}
    BY <1>0, <1>4 DEF CreatePutMaster, RequestInv, TypeOK, RefInv, LockInv
  <2>2. muse' = [muse EXCEPT ![ct] = @ + (-1)]
    BY <1>0, <1>4, <2>1 DEF CreatePutMaster
  <2>3. RequestInv'
    BY <1>4 DEF CreatePutMaster, Done, RequestInv
  <2> QED
    BY <1>4, <2>1, <2>2, <2>3, MasterMoves DEF CreatePutMaster, Done
<1>5. CASE DumpFindCt
  <2>0. pc = "begin" /\ exp = None /\ ct = None /\ work = {}
    BY <1>5, BeginHolds DEF DumpFindCt, At
  <2>1. CASE req.master \in table /\ "helper" \notin req.fail
    <3>1. req.master \in Masters /\ req.master # None
      BY <1>0, <2>1, MastersAssumption
    <3>2. RequestInv'
      BY <1>0, <1>5, <2>0, <2>1, <3>1 DEF DumpFindCt, RequestInv
    <3>3. muse' = [muse EXCEPT ![req.master] = @ + 1] /\ pc' = "dumpct" /\ req' = req
      BY <1>5, <2>1 DEF DumpFindCt
    <3> QED
      BY <1>0, <1>5, <2>0, <2>1, <3>1, <3>2, <3>3, MasterMoves DEF DumpFindCt, TypeOK
  <2>2. CASE ~(req.master \in table /\ "helper" \notin req.fail)
    BY <1>0, <1>5, <2>0, <2>2, RequestMoves DEF DumpFindCt, Done, RequestInv
  <2> QED
    BY <2>1, <2>2
<1> QED
  BY <1>1, <1>2, <1>3, <1>4, <1>5

\* A reference to an expectation is taken, or given back.
LEMMA ExpMoves ==
  ASSUME RefInv, UNCHANGED <<memory, timer, lists, lock, masters, req, ct, work, callback, history>>
                 \/ (UNCHANGED <<memory, timer, lists, lock, masters, ct, work, callback, history>> /\ req' = NoRequest),
         NEW e \in Exps, NEW k \in {-1, 1}, use' = [use EXCEPT ![e] = @ + k],
         (exp = None /\ exp' = e /\ e \in linked /\ k = 1) \/ (exp = e /\ exp' = None /\ k = -1),
         pc # "flush", pc' \in {"idle", "putmaster", "get", "del"}, RequestInv'
  PROVE  RefInv'
<1>0. use \in [Exps -> Nat] /\ None \notin Exps /\ e # None /\ use[e] >= 1 /\ e \in allocated
  BY Facts DEF RefInv, TypeOK
<1>1. ASSUME NEW x \in Exps
      PROVE  use'[x] = One(x \in linked) + One(timer[x] # "off") + One(exp' = x) + One(last = x) + One(CursorHolds(x))
  <2>1. use[x] = One(x \in linked) + One(timer[x] # "off") + One(exp = x) + One(last = x) + One(CursorHolds(x))
    BY DEF RefInv, Counted, Balanced
  <2>2. CASE x = e
    BY <1>0, <2>1, <2>2 DEF One
  <2>3. CASE x # e
    BY <1>0, <2>1, <2>3 DEF One
  <2> QED
    BY <2>2, <2>3
<1>2. use' \in [Exps -> Nat]
  BY <1>0
<1>3. TypeOK'
  BY <1>0, <1>2 DEF RefInv, TypeOK
<1>4. Balanced'
  BY <1>1 DEF RefInv, Counted, Balanced, CursorHolds
<1>5. ExpectationsAlive'
  BY <1>0 DEF RefInv, Counted, ExpectationsAlive
<1>6. LockInv'
  BY DEF RefInv, LockInv
<1>7. WalkInv'
  <2>1. \A x \in graceful : x # e
    BY <1>0 DEF RefInv, WalkInv
  <2>2. \A x \in graceful : use'[x] = 0 /\ x \in allocated
    BY <1>0, <2>1 DEF RefInv, WalkInv, TypeOK
  <2> QED
    BY <2>2 DEF RefInv, WalkInv, Seen
<1> QED
  BY <1>3, <1>4, <1>5, <1>6, <1>7, Frames DEF RefInv, Counted

LEMMA RefExps ==
  ASSUME RefInv, (\E e \in Exps : FindGet(e)) \/ CreatePut \/ Get \/ DelOther \/ DelPut
  PROVE  RefInv'
<1>0. RequestInv /\ TypeOK /\ use \in [Exps -> Nat] /\ LockInv /\ None \notin Exps
  BY Facts DEF RefInv, TypeOK
<1>1. CASE \E e \in Exps : FindGet(e)
  <2>1. PICK e \in Exps : FindGet(e)
    BY <1>1
  <2>2. pc = "begin" /\ exp = None /\ ct = None /\ work = {} /\ e \in linked /\ req.op \in {"get", "del"} /\ e # None
    BY <1>0, <2>1, BeginHolds DEF FindGet, At, Matching
  <2>3. RequestInv'
    BY <1>0, <2>1, <2>2 DEF FindGet, RequestInv
  <2>4. use' = [use EXCEPT ![e] = @ + 1] /\ exp' = e /\ pc' \in {"get", "del"}
    BY <2>1, <2>2 DEF FindGet
  <2>5. UNCHANGED <<memory, timer, lists, lock, masters, req, ct, work, callback, history>>
    BY <2>1 DEF FindGet
  <2> QED
    BY <2>2, <2>3, <2>4, <2>5, ExpMoves
<1>2. CASE CreatePut
  <2>1. exp \in Exps /\ pc = "putexp" /\ pc' = "putmaster" /\ exp' = None
    BY <1>0, <1>2 DEF CreatePut, RequestInv, TypeOK
  <2>2. use' = [use EXCEPT ![exp] = @ + (-1)]
    BY <1>0, <1>2, <2>1 DEF CreatePut, Put
  <2>3. RequestInv'
    BY <1>0, <1>2, <2>1 DEF CreatePut, RequestInv
  <2> QED
    BY <1>2, <2>1, <2>2, <2>3, ExpMoves DEF CreatePut
<1>3. CASE Get \/ DelOther \/ DelPut
  <2>1. pc \in {"get", "del", "put"} /\ Put(exp) /\ Done /\ UNCHANGED <<memory, timer, lists, lock, masters, callback, history>>
    BY <1>3 DEF Get, DelOther, DelPut
  <2>2. exp \in Exps /\ ct = None /\ work = {}
    BY <1>0, <2>1 DEF RequestInv, TypeOK, LockInv
  <2>3. use' = [use EXCEPT ![exp] = @ + (-1)]
    BY <1>0, <2>1, <2>2 DEF Put
  <2>4. RequestInv'
    BY <2>1 DEF Done, RequestInv
  <2> QED
    BY <2>1, <2>2, <2>3, <2>4, ExpMoves DEF Done
<1> QED
  BY <1>1, <1>2, <1>3

\* A new expectation, of which nobody else knows.
LEMMA RefAlloc == ASSUME RefInv, NEW e \in Exps, Alloc(e) PROVE RefInv'
<1>0. /\ RequestInv /\ TypeOK /\ use \in [Exps -> Nat] /\ LockInv /\ None \notin Exps /\ e # None
      /\ tuple \in [Exps -> Tuples \cup {None}] /\ master \in [Exps -> Masters \cup {None}]
      /\ sent \in [Exps -> 0..2] /\ linked \subseteq Exps
  BY Facts DEF RefInv, TypeOK
<1>1. /\ pc = "alloc" /\ e \notin allocated /\ allocated' = allocated \cup {e}
      /\ tuple' = [tuple EXCEPT ![e] = req.tuple] /\ master' = [master EXCEPT ![e] = ct]
      /\ sent' = [sent EXCEPT ![e] = 0]
      /\ UNCHANGED <<req, ct, work, timer, lists, lock, masters, callback, stable, restarted>>
  BY DEF Alloc, Allocate
<1>2. /\ use[e] = 0 /\ timer[e] = "off" /\ e \notin linked \cup work
      /\ exp # e /\ last # e /\ arg1 # e /\ node # e
  BY <1>1, Facts
<1>3. exp = None /\ req \in Request /\ req.tuple \in Tuples \cup {None}
  BY <1>0, <1>1 DEF RequestInv, Request
<1>4. \/ use' = use /\ exp' = None /\ pc' = "putmaster"
      \/ use' = [use EXCEPT ![e] = 1] /\ exp' = e /\ pc' = "related"
  BY <1>3 DEF Alloc
<1>5. /\ tuple' \in [Exps -> Tuples \cup {None}] /\ master' \in [Exps -> Masters \cup {None}]
      /\ use' \in [Exps -> Nat] /\ sent' \in [Exps -> 0..2]
      /\ \A x \in Exps : x # e => tuple'[x] = tuple[x] /\ master'[x] = master[x] /\ use'[x] = use[x]
      /\ tuple'[e] = req.tuple /\ master'[e] = ct
  <2>1. ct \in Masters \cup {None}
    BY <1>0 DEF TypeOK
  <2> QED
    BY <1>0, <1>1, <1>3, <1>4, <2>1
<1>6. TypeOK'
  BY <1>1, <1>4, <1>5 DEF RefInv, TypeOK
<1>7. Balanced'
  <2>1. ASSUME NEW x \in Exps
        PROVE  use'[x] = One(x \in linked) + One(timer[x] # "off") + One(exp' = x) + One(last = x) + One(CursorHolds(x))
    <3>1. use[x] = One(x \in linked) + One(timer[x] # "off") + One(exp = x) + One(last = x) + One(CursorHolds(x))
      BY DEF RefInv, Counted, Balanced
    <3>2. CASE x = e
      BY <1>0, <1>2, <1>3, <1>4, <3>1, <3>2 DEF One
    <3>3. CASE x # e
      BY <1>0, <1>3, <1>4, <1>5, <3>1, <3>3 DEF One
    <3> QED
      BY <3>2, <3>3
  <2> QED
    BY <1>1, <2>1 DEF RefInv, Counted, Balanced, CursorHolds
<1>8. ExpectationsAlive'
  BY <1>1, <1>4 DEF RefInv, Counted, ExpectationsAlive
<1>9. MastersAlive' /\ OnlyInv'
  BY <1>0, <1>1, <1>2, <1>5 DEF RefInv, MastersAlive, OnlyInv
<1>10. TimerInv'
  BY <1>1 DEF RefInv, TimerInv
<1>11. RequestInv'
  BY <1>0, <1>1, <1>2, <1>3, <1>4, <1>5 DEF RequestInv
<1>12. LockInv'
  BY <1>0, <1>1, <1>4 DEF LockInv
<1>13. WalkInv'
  <2>1. \A x \in graceful : use'[x] = 0 /\ x \in allocated'
    BY <1>0, <1>1, <1>5 DEF RefInv, WalkInv, TypeOK
  <2>2. \A S \in SUBSET Exps : Seen(S) => Seen(S)'
    BY <1>1 DEF Seen
  <2> QED
    BY <1>1, <2>1, <2>2 DEF RefInv, WalkInv
<1> QED
  BY <1>1, <1>6, <1>7, <1>8, <1>9, <1>10, <1>11, <1>12, <1>13, Frames DEF RefInv, Counted

\* A flush takes the lock and drops it.
LEMMA RefFlush == ASSUME RefInv, Flush \/ FlushEnds PROVE RefInv'
<1>0. /\ RequestInv /\ LockInv /\ TypeOK /\ UNCHANGED <<memory, use, timer, lists, masters, callback, history>>
      /\ None \notin Exps /\ None \notin Masters /\ "request" \notin Masters /\ None # "request"
  BY Facts DEF RefInv, Flush, FlushEnds
<1>1. CASE Flush
  <2>1. /\ pc = "begin" /\ lock' = "request" /\ pc' = "flush" /\ work' = linked /\ UNCHANGED <<req, exp, ct>>
    BY <1>1 DEF Flush, At
  <2>2. TypeOK' /\ RequestInv' /\ LockInv'
    BY <1>0, <2>1 DEF TypeOK, RequestInv, LockInv
  <2>3. ExpectationsAlive'
    BY <1>0, <2>1 DEF RefInv, Counted, ExpectationsAlive
  <2> QED
    BY <1>0, <2>1, <2>2, <2>3, Frames DEF RefInv, Counted
<1>2. CASE FlushEnds
  <2>1. /\ pc = "flush" /\ work = {} /\ lock' = None /\ Done
    BY <1>2 DEF FlushEnds
  <2>2. UNCHANGED <<exp, ct, work>>
    BY <1>0, <2>1 DEF Done, RequestInv
  <2>3. TypeOK' /\ RequestInv'
    BY <1>0, <2>1, <2>2 DEF Done, TypeOK, RequestInv
  <2>4. LockInv'
    BY <1>0, <2>1, <2>2 DEF Done, LockInv
  <2> QED
    BY <1>0, <2>2, <2>3, <2>4, Frames DEF RefInv, Counted
<1> QED
  BY <1>1, <1>2

-----------------------------------------------------------------------------
(* The steps that change the lists.                                        *)

\* An expectation is unlinked by whoever deleted its timer, or by the timer.
LEMMA UnlinkStep ==
  ASSUME RefInv, NEW e \in linked, Unlink(e), NEW k \in {1, 2}, NEW v \in {"off", "ran"},
         k = 2 <=> v = "off", timer' = [timer EXCEPT ![e] = v], use' = [use EXCEPT ![e] = @ - k],
         work' = work \ {e}, pc' = pc \/ (pc = "del" /\ pc' = "put"),
         UNCHANGED <<memory, lock, masters, req, exp, ct, callback, sent, restarted>>
  PROVE  RefInv'
<1>0. /\ RequestInv /\ TypeOK /\ LockInv /\ None \notin Exps
      /\ use \in [Exps -> Nat] /\ timer \in [Exps -> {"off", "armed", "fired", "ran"}]
      /\ linked \subseteq Exps /\ e \in Exps /\ use[e] >= 2 /\ timer[e] \in {"armed", "fired"}
  BY Facts DEF RefInv, TypeOK, TimerInv
<1>1. linked' = linked \ {e} /\ stable' = stable \ {e}
  BY DEF Unlink
<1>2. /\ ListInv' /\ nxt' \in Pointers(Exps \cup Heads) /\ lnxt' \in Pointers(Exps \cup Masters)
      /\ (phase = "walk" => \E S \in SUBSET Exps : Seen(S))'
  BY UnlinkLists
<1>3. /\ use' \in [Exps -> Nat] /\ timer' \in [Exps -> {"off", "armed", "fired", "ran"}]
      /\ use'[e] = use[e] - k /\ timer'[e] = v
      /\ \A x \in Exps : x # e => use'[x] = use[x] /\ timer'[x] = timer[x]
  BY <1>0
<1>4. TypeOK'
  BY <1>0, <1>1, <1>2, <1>3 DEF TypeOK, Pointers
<1>5. Balanced'
  <2>1. ASSUME NEW x \in Exps
        PROVE  use'[x] = One(x \in linked') + One(timer'[x] # "off") + One(exp = x) + One(last = x) + One(CursorHolds(x))
    <3>1. use[x] = One(x \in linked) + One(timer[x] # "off") + One(exp = x) + One(last = x) + One(CursorHolds(x))
      BY DEF RefInv, Counted, Balanced
    <3>2. CASE x = e
      BY <1>0, <1>1, <1>3, <3>1, <3>2 DEF One
    <3>3. CASE x # e
      BY <1>1, <1>3, <3>1, <3>3 DEF One
    <3> QED
      BY <3>2, <3>3
  <2> QED
    BY <2>1 DEF RefInv, Counted, Balanced, CursorHolds
<1>6. ExpectationsAlive'
  BY <1>1 DEF RefInv, Counted, ExpectationsAlive
<1>7. MastersAlive' /\ OnlyInv'
  BY <1>0, <1>1, <1>3 DEF RefInv, MastersAlive, OnlyInv
<1>8. TimerInv'
  BY <1>0, <1>1, <1>3 DEF RefInv, TimerInv
<1>9. RequestInv'
  <2>1. pc = "related" => exp # e /\ exp \in Exps
    BY <1>0 DEF RequestInv, TypeOK
  <2> QED
    BY <2>1, <1>0, <1>1, <1>3 DEF RequestInv
<1>10. LockInv'
  BY <1>0, <1>1 DEF LockInv
<1>11. WalkInv'
  <2>1. \A x \in graceful : x # e /\ x \in Exps
    BY <1>0 DEF RefInv, WalkInv, TypeOK
  <2>2. \A x \in graceful : use'[x] = 0 /\ x \in allocated
    BY <1>3, <2>1 DEF RefInv, WalkInv
  <2> QED
    BY <1>2, <2>2 DEF WalkInv
<1> QED
  BY <1>2, <1>4, <1>5, <1>6, <1>7, <1>8, <1>9, <1>10, <1>11, Frames DEF RefInv, Counted

\* The lock keeps others from the list that a flush goes through.
LEMMA NoWork ==
  ASSUME RefInv, lock # "request" \/ pc # "flush"
  PROVE  work = {} /\ \A e : work = work \ {e}
BY DEF RefInv, LockInv

LEMMA RefUnlinks ==
  ASSUME RefInv,
         \/ \E e \in Exps : PacketExpected(e) \/ TimerUnlinks(e) \/ FlushEach(e)
         \/ \E m \in Masters, e \in Exps : MasterRemoves(m, e)
         \/ Del
  PROVE  RefInv'
<1>0. /\ TimerInv /\ RequestInv /\ LockInv /\ TypeOK
      /\ None \notin Masters /\ "request" \notin Masters /\ None # "request"
  BY Facts DEF RefInv
<1>1. ASSUME NEW e \in Exps, PacketExpected(e) PROVE RefInv'
  <2>1. /\ e \in linked /\ lock = None /\ Unlink(e)
        /\ timer' = [timer EXCEPT ![e] = "off"] /\ use' = [use EXCEPT ![e] = @ - 2]
        /\ UNCHANGED <<memory, lock, masters, request, callback, sent, restarted>>
    BY <1>1 DEF PacketExpected, Remove
  <2>2. work' = work \ {e}
    BY <1>0, <2>1, NoWork
  <2> QED
    BY <2>1, <2>2, UnlinkStep
<1>2. ASSUME NEW e \in Exps, TimerUnlinks(e) PROVE RefInv'
  <2>1. /\ timer[e] = "fired" /\ lock = None /\ Unlink(e)
        /\ timer' = [timer EXCEPT ![e] = "ran"] /\ use' = [use EXCEPT ![e] = @ - 1]
        /\ UNCHANGED <<memory, lock, masters, request, callback, sent, restarted>>
    BY <1>2 DEF TimerUnlinks
  <2>2. e \in linked /\ work' = work \ {e}
    BY <1>0, <2>1, NoWork DEF TimerInv
  <2>3. 1 \in {1, 2} /\ "ran" \in {"off", "ran"} /\ (1 = 2 <=> "ran" = "off")
    OBVIOUS
  <2> QED
    BY <2>1, <2>2, <2>3, UnlinkStep
<1>3. ASSUME NEW m \in Masters, NEW e \in Exps, MasterRemoves(m, e) PROVE RefInv'
  <2>1. /\ e \in linked /\ lock = m /\ Unlink(e)
        /\ timer' = [timer EXCEPT ![e] = "off"] /\ use' = [use EXCEPT ![e] = @ - 2]
        /\ UNCHANGED <<memory, lock, masters, request, callback, sent, restarted>>
    BY <1>3 DEF MasterRemoves, Remove
  <2>2. work' = work \ {e}
    BY <1>0, <2>1, NoWork
  <2> QED
    BY <2>1, <2>2, UnlinkStep
<1>4. CASE Del
  <2>1. exp \in Exps /\ pc = "del" /\ pc' = "put" /\ UNCHANGED <<req, exp, ct, work>>
    BY <1>0, <1>4 DEF Del, Goto, RequestInv, TypeOK
  <2>2. CASE timer[exp] = "armed"
    <3>1. exp \in linked
      BY <1>0, <2>1, <2>2 DEF TimerInv
    <3>2. Unlink(exp) /\ timer' = [timer EXCEPT ![exp] = "off"] /\ use' = [use EXCEPT ![exp] = @ - 2]
      BY <1>4, <2>2 DEF Del, Remove
    <3>3. work' = work \ {exp}
      BY <2>1, NoWork
    <3> QED
      BY <1>4, <2>1, <3>1, <3>2, <3>3, UnlinkStep DEF Del
  <2>3. CASE timer[exp] # "armed"
    <3>1. UNCHANGED <<memory, use, timer, lists, lock, masters, callback, history>>
      BY <1>4, <2>3 DEF Del
    <3>2. TypeOK' /\ RequestInv' /\ LockInv'
      BY <1>0, <2>1, <3>1 DEF TypeOK, RequestInv, LockInv
    <3> QED
      BY <2>1, <3>1, <3>2, Frames DEF RefInv, Counted
  <2> QED
    BY <2>2, <2>3
<1>5. ASSUME NEW e \in Exps, FlushEach(e) PROVE RefInv'
  <2>1. e \in linked /\ work' = work \ {e} /\ UNCHANGED <<pc, req, exp, ct>>
    BY <1>0, <1>5 DEF FlushEach, LockInv
  <2>2. CASE Remove(e)
    BY <1>5, <2>1, <2>2, UnlinkStep DEF FlushEach, Remove
  <2>3. CASE UNCHANGED <<use, timer, lists, stable>>
    <3>1. UNCHANGED <<memory, use, timer, lists, lock, masters, callback, history>>
      BY <1>5, <2>3 DEF FlushEach
    <3>2. TypeOK' /\ LockInv'
      BY <1>0, <2>1, <3>1 DEF TypeOK, LockInv
    <3>3. ExpectationsAlive'
      BY <2>1, <3>1 DEF RefInv, Counted, ExpectationsAlive
    <3> QED
      BY <2>1, <3>1, <3>2, <3>3, Frames DEF RefInv, Counted
  <2> QED
    BY <1>5, <2>2, <2>3 DEF FlushEach
<1> QED
  BY <1>1, <1>2, <1>3, <1>4, <1>5

\* An expectation is linked, in the place of one that is the same.
LEMMA RelatedStep ==
  ASSUME RefInv, NEW e \in Exps \ linked, NEW t \in Tuples, NEW m \in Masters, NEW u \in Nat, Related(e, t, m, u),
         ~Clashes(t, m), m \in alive, timer[e] = "off", u = use[e],
         e \in allocated', allocated \subseteq allocated', allocated' \subseteq allocated \cup {e}, e \notin graceful,
         e # exp \/ (pc = "related" /\ pc' = "putexp"), pc' = pc \/ (pc = "related" /\ pc' = "putexp"),
         tuple' \in [Exps -> Tuples \cup {None}], master' \in [Exps -> Masters \cup {None}],
         sent' \in [Exps -> 0..2], tuple'[e] = t, master'[e] = m,
         \A x \in Exps : x # e => tuple'[x] = tuple[x] /\ master'[x] = master[x],
         lock = None, UNCHANGED <<lock, masters, req, exp, ct, work, callback, restarted>>
  PROVE  RefInv'
<1> DEFINE old == Replaced(t, m)
<1>0. /\ RequestInv /\ TypeOK /\ LockInv /\ None \notin Exps
      /\ use \in [Exps -> Nat] /\ timer \in [Exps -> {"off", "armed", "fired", "ran"}] /\ linked \subseteq Exps
      /\ None # "request" /\ None \notin Masters
  BY Facts DEF RefInv, TypeOK
<1>1. \A x \in old : x \in linked /\ timer[x] = "armed" /\ tuple[x] = t /\ master[x] = m /\ use[x] >= 2 /\ x # e
  BY Facts DEF Replaced, Matching, Waiting
<1>2. \A x \in linked \ old : tuple[x] = t => master[x] = m /\ timer[x] # "armed"
  BY DEF Replaced, Matching, Waiting, Clashes
<1>3. /\ linked' = (linked \ old) \cup {e} /\ stable' = stable \ old
      /\ timer' = [x \in Exps |-> IF x = e THEN "armed" ELSE IF x \in old THEN "off" ELSE timer[x]]
      /\ use' = [x \in Exps |-> IF x = e THEN u + 2 ELSE IF x \in old THEN use[x] - 2 ELSE use[x]]
  BY DEF Related
<1>4. /\ ListInv' /\ nxt' \in Pointers(Exps \cup Heads) /\ lnxt' \in Pointers(Exps \cup Masters)
      /\ (phase = "walk" => \E S \in SUBSET Exps : Seen(S))'
  BY RelatedLists
<1> HIDE DEF old
<1>5. /\ use' \in [Exps -> Nat] /\ timer' \in [Exps -> {"off", "armed", "fired", "ran"}]
      /\ use'[e] = use[e] + 2 /\ timer'[e] = "armed"
      /\ \A x \in Exps : x \in old => use'[x] = use[x] - 2 /\ timer'[x] = "off"
      /\ \A x \in Exps : x # e /\ x \notin old => use'[x] = use[x] /\ timer'[x] = timer[x]
  BY <1>0, <1>1, <1>3
<1>6. TypeOK'
  BY <1>0, <1>3, <1>4, <1>5 DEF TypeOK, Pointers
<1>7. Balanced'
  <2>1. ASSUME NEW x \in Exps
        PROVE  use'[x] = One(x \in linked') + One(timer'[x] # "off") + One(exp = x) + One(last = x) + One(CursorHolds(x))
    <3>1. use[x] = One(x \in linked) + One(timer[x] # "off") + One(exp = x) + One(last = x) + One(CursorHolds(x))
      BY DEF RefInv, Counted, Balanced
    <3>2. CASE x = e
      BY <1>0, <1>1, <1>3, <1>5, <3>1, <3>2 DEF One
    <3>3. CASE x \in old
      BY <1>1, <1>3, <1>5, <3>1, <3>3 DEF One
    <3>4. CASE x # e /\ x \notin old
      BY <1>3, <1>5, <3>1, <3>4 DEF One
    <3> QED
      BY <3>2, <3>3, <3>4
  <2> QED
    BY <2>1 DEF RefInv, Counted, Balanced, CursorHolds
<1>8. ExpectationsAlive'
  BY <1>3 DEF RefInv, Counted, ExpectationsAlive
<1>9. MastersAlive'
  BY <1>0, <1>3, <1>5 DEF RefInv, MastersAlive
<1>10. OnlyInv'
  <2>1. ASSUME NEW x \in linked', NEW y \in linked', timer'[x] = "armed", timer'[y] = "armed",
               tuple'[x] = tuple'[y], master'[x] = master'[y]
        PROVE  x = y
    <3>1. \A z \in linked' : z = e \/ (z \in linked \ old /\ z \in Exps /\ z # e)
      BY <1>0, <1>3
    <3>2. CASE x = e \/ y = e
      BY <1>2, <1>5, <2>1, <3>1, <3>2
    <3>3. CASE x # e /\ y # e
      BY <1>5, <2>1, <3>1, <3>3 DEF RefInv, OnlyInv
    <3> QED
      BY <3>2, <3>3
  <2> QED
    BY <2>1 DEF OnlyInv
<1>11. TimerInv'
  <2>1. ASSUME NEW x \in Exps PROVE (x \in linked' <=> timer'[x] \in {"armed", "fired"}) /\ (timer'[x] # "off" => x \in allocated')
    <3>1. CASE x = e
      BY <1>3, <1>5, <3>1
    <3>2. CASE x \in old
      BY <1>1, <1>3, <1>5, <3>2
    <3>3. CASE x # e /\ x \notin old
      BY <1>3, <1>5, <3>3 DEF RefInv, TimerInv
    <3> QED
      BY <3>1, <3>2, <3>3
  <2> QED
    BY <2>1 DEF TimerInv
<1>12. RequestInv'
  <2>1. pc' = "related" => exp # e /\ exp \in Exps /\ exp \notin linked /\ exp \notin old
    BY <1>0, <1>1 DEF RequestInv, TypeOK
  <2> QED
    BY <2>1, <1>0, <1>3, <1>5 DEF RequestInv
<1>13. LockInv'
  BY <1>0, <1>3 DEF LockInv
<1>14. WalkInv'
  <2>1. \A x \in graceful : x # e /\ x \in Exps /\ x \notin old
    BY <1>0, <1>1 DEF RefInv, WalkInv, TypeOK
  <2>2. \A x \in graceful : use'[x] = 0 /\ x \in allocated'
    BY <1>5, <2>1 DEF RefInv, WalkInv
  <2> QED
    BY <1>4, <2>2 DEF WalkInv
<1> QED
  BY <1>4, <1>6, <1>7, <1>8, <1>9, <1>10, <1>11, <1>12, <1>13, <1>14, Frames DEF RefInv, Counted

LEMMA RefRelated ==
  ASSUME RefInv, CreateRelated \/ \E e \in Exps, t \in Tuples, m \in Masters : HelperExpects(e, t, m)
  PROVE  RefInv'
<1>0. /\ RequestInv /\ TypeOK /\ LockInv /\ None \notin Exps /\ use \in [Exps -> Nat] /\ table \subseteq alive
      /\ tuple \in [Exps -> Tuples \cup {None}] /\ master \in [Exps -> Masters \cup {None}]
      /\ sent \in [Exps -> 0..2] /\ None \notin Masters /\ \A x \in graceful : use[x] = 0 /\ x \in allocated
  BY Facts DEF RefInv, TypeOK, WalkInv
<1>1. CASE CreateRelated
  <2>1. /\ pc = "related" /\ lock = None /\ pc' = "putexp"
        /\ UNCHANGED <<memory, lock, masters, req, exp, ct, work, callback, sent, restarted>>
    BY <1>1 DEF CreateRelated, Goto
  <2>2. /\ exp \in Exps \ linked /\ timer[exp] = "off" /\ ct \in Masters /\ req.tuple \in Tuples
        /\ tuple[exp] = req.tuple /\ master[exp] = ct
    BY <1>0, <2>1 DEF RequestInv, TypeOK, Request
  <2>3. use[exp] \in Nat /\ use[exp] >= 1 /\ exp \in allocated /\ exp \notin graceful /\ ct \in alive
    BY <1>0, <2>2, Facts DEF RefInv, Counted, ExpectationsAlive
  <2>4. CASE Clashes(req.tuple, ct)
    <3>1. UNCHANGED <<use, timer, lists, stable>>
      BY <1>1, <2>4 DEF CreateRelated
    <3>2. TypeOK' /\ RequestInv' /\ LockInv'
      BY <1>0, <2>1, <3>1 DEF TypeOK, RequestInv, LockInv
    <3> QED
      BY <2>1, <3>1, <3>2, Frames DEF RefInv, Counted
  <2>5. CASE ~Clashes(req.tuple, ct)
    <3>1. Related(exp, req.tuple, ct, use[exp])
      BY <1>1, <2>5 DEF CreateRelated
    <3>2. /\ tuple' \in [Exps -> Tuples \cup {None}] /\ master' \in [Exps -> Masters \cup {None}]
          /\ sent' \in [Exps -> 0..2] /\ tuple'[exp] = req.tuple /\ master'[exp] = ct
          /\ \A x \in Exps : x # exp => tuple'[x] = tuple[x] /\ master'[x] = master[x]
          /\ exp \in allocated' /\ allocated \subseteq allocated' /\ allocated' \subseteq allocated \cup {exp}
      BY <1>0, <2>1, <2>2, <2>3
    <3> QED
      BY <2>1, <2>2, <2>3, <2>5, <3>1, <3>2, RelatedStep
  <2> QED
    BY <2>4, <2>5
<1>2. ASSUME NEW e \in Exps, NEW t \in Tuples, NEW m \in Masters, HelperExpects(e, t, m)
      PROVE  RefInv'
  <2>1. /\ lock = None /\ m \in table /\ e \notin allocated /\ ~Clashes(t, m)
        /\ Related(e, t, m, 0) /\ UNCHANGED <<lock, masters, request, callback, restarted>>
        /\ allocated' = allocated \cup {e} /\ tuple' = [tuple EXCEPT ![e] = t]
        /\ master' = [master EXCEPT ![e] = m] /\ sent' = [sent EXCEPT ![e] = 0]
    BY <1>2 DEF HelperExpects, Allocate
  <2>2. use[e] = 0 /\ timer[e] = "off" /\ e \notin linked /\ exp # e
    BY <2>1, Facts
  <2>3. /\ tuple' \in [Exps -> Tuples \cup {None}] /\ master' \in [Exps -> Masters \cup {None}]
        /\ sent' \in [Exps -> 0..2] /\ tuple'[e] = t /\ master'[e] = m
        /\ \A x \in Exps : x # e => tuple'[x] = tuple[x] /\ master'[x] = master[x]
    BY <1>0, <2>1
  <2>4. 0 \in Nat /\ m \in alive /\ e \notin graceful
    BY <1>0, <2>1
  <2> QED
    BY <2>1, <2>2, <2>3, <2>4, RelatedStep
<1> QED
  BY <1>1, <1>2

-----------------------------------------------------------------------------
(* The other steps of the kernel.                                          *)

LEMMA RefTimer == ASSUME RefInv, NEW e \in Exps, TimerFires(e) \/ TimerPuts(e) PROVE RefInv'
<1>0. /\ RequestInv /\ TypeOK /\ TimerInv /\ use \in [Exps -> Nat]
      /\ timer \in [Exps -> {"off", "armed", "fired", "ran"}] /\ None \notin Exps
      /\ linked \subseteq Exps /\ UNCHANGED <<memory, lists, lock, masters, request, callback, history>>
  BY Facts DEF RefInv, TypeOK, TimerFires, TimerPuts
<1>1. CASE TimerFires(e)
  <2>1. timer[e] = "armed" /\ timer' = [timer EXCEPT ![e] = "fired"] /\ use' = use
    BY <1>1 DEF TimerFires
  <2>2. timer'[e] = "fired" /\ \A x \in Exps : x # e => timer'[x] = timer[x]
    BY <1>0, <2>1
  <2>3. TypeOK'
    BY <1>0, <2>1 DEF TypeOK
  <2>4. \A x \in Exps : timer'[x] # "off" <=> timer[x] # "off"
    BY <2>1, <2>2
  <2>5. Balanced'
    BY <1>0, <2>1, <2>4 DEF RefInv, Counted, Balanced, CursorHolds, One
  <2>6. MastersAlive' /\ OnlyInv' /\ TimerInv'
    BY <1>0, <2>1, <2>2, <2>4 DEF RefInv, MastersAlive, OnlyInv, TimerInv
  <2>7. RequestInv'
    <3>1. pc = "related" => exp # e /\ exp \in Exps
      BY <1>0, <2>1 DEF RequestInv, TypeOK
    <3> QED
      BY <1>0, <2>2, <3>1 DEF RequestInv
  <2> QED
    BY <1>0, <2>1, <2>3, <2>5, <2>6, <2>7, Frames DEF RefInv, Counted
<1>2. CASE TimerPuts(e)
  <2>1. timer[e] = "ran" /\ timer' = [timer EXCEPT ![e] = "off"] /\ use' = [use EXCEPT ![e] = @ - 1]
    BY <1>2 DEF TimerPuts
  <2>2. use[e] >= 1 /\ e \notin linked
    BY <1>0, <2>1, Facts DEF TimerInv
  <2>3. /\ timer'[e] = "off" /\ use'[e] = use[e] - 1 /\ use' \in [Exps -> Nat]
        /\ \A x \in Exps : x # e => timer'[x] = timer[x] /\ use'[x] = use[x]
    BY <1>0, <2>1, <2>2
  <2>4. TypeOK'
    BY <1>0, <2>1, <2>3 DEF TypeOK
  <2>5. Balanced'
    <3>1. ASSUME NEW x \in Exps
          PROVE  use'[x] = One(x \in linked) + One(timer'[x] # "off") + One(exp = x) + One(last = x) + One(CursorHolds(x))
      <4>1. use[x] = One(x \in linked) + One(timer[x] # "off") + One(exp = x) + One(last = x) + One(CursorHolds(x))
        BY DEF RefInv, Counted, Balanced
      <4>2. CASE x = e
        BY <1>0, <2>1, <2>2, <2>3, <4>1, <4>2 DEF One
      <4>3. CASE x # e
        BY <2>3, <4>1, <4>3
      <4> QED
        BY <4>2, <4>3
    <3> QED
      BY <1>0, <3>1 DEF RefInv, Counted, Balanced, CursorHolds
  <2>6. MastersAlive' /\ OnlyInv' /\ TimerInv'
    BY <1>0, <2>2, <2>3 DEF RefInv, MastersAlive, OnlyInv, TimerInv
  <2>7. RequestInv'
    <3>1. pc = "related" => exp # e /\ exp \in Exps
      BY <1>0, <2>1 DEF RequestInv, TypeOK
    <3> QED
      BY <1>0, <2>3, <3>1 DEF RequestInv
  <2>8. WalkInv'
    <3>1. \A x \in graceful : x # e /\ x \in Exps
      BY <1>0, <2>2 DEF RefInv, WalkInv, TypeOK
    <3>2. \A x \in graceful : use'[x] = 0 /\ x \in allocated
      BY <2>3, <3>1 DEF RefInv, WalkInv
    <3> QED
      BY <1>0, <3>2 DEF RefInv, WalkInv, Seen
  <2> QED
    BY <1>0, <2>4, <2>5, <2>6, <2>7, <2>8, Frames DEF RefInv, Counted
<1> QED
  BY <1>1, <1>2

\* What is freed has no holder, and a callback does not see it.
LEMMA RefFree == ASSUME RefInv, NEW e \in Exps, FreeRcu(e) PROVE RefInv'
<1>0. /\ RequestInv /\ TypeOK /\ TimerInv /\ LockInv /\ None \notin Exps
      /\ linked \subseteq Exps /\ tuple \in [Exps -> Tuples \cup {None}] /\ master \in [Exps -> Masters \cup {None}]
      /\ nxt \in [Exps \cup Heads -> Exps \cup {None}] /\ lnxt \in [Exps \cup Masters -> Exps \cup {None}]
  BY Facts DEF RefInv, TypeOK
<1>1. /\ e \in allocated /\ use[e] = 0 /\ (phase = "walk" => e \in graceful)
      /\ allocated' = allocated \ {e} /\ graceful' = graceful \ {e}
      /\ tuple' = [tuple EXCEPT ![e] = None] /\ master' = [master EXCEPT ![e] = None]
      /\ nxt' = [nxt EXCEPT ![e] = None] /\ lnxt' = [lnxt EXCEPT ![e] = None]
      /\ UNCHANGED <<use, timer, linked, lock, masters, request, phase, data, bucket, arg1, last, node,
                     room, filled, history>>
  BY DEF FreeRcu
<1>2. e \notin linked /\ timer[e] = "off" /\ exp # e /\ last # e /\ ~CursorHolds(e) /\ e # None
  <2>1. ~(e \in linked \/ timer[e] # "off" \/ exp = e \/ last = e \/ CursorHolds(e))
    BY <1>1, Facts
  <2> QED
    BY <2>1, <1>0
<1>3. arg1 # e
  BY <1>2 DEF CursorHolds, RefInv, CursorInv
<1>4. node # e
  <2>1. CASE phase = "walk"
    BY <1>1, <1>2, <2>1 DEF RefInv, WalkInv, Seen
  <2>2. CASE phase # "walk"
    BY <1>0, <1>2, <1>3, <2>2 DEF RefInv, CursorInv, TypeOK
  <2> QED
    BY <2>1, <2>2
<1>5. /\ tuple' \in [Exps -> Tuples \cup {None}] /\ master' \in [Exps -> Masters \cup {None}]
      /\ nxt' \in [Exps \cup Heads -> Exps \cup {None}] /\ lnxt' \in [Exps \cup Masters -> Exps \cup {None}]
      /\ \A x \in Exps : x # e => tuple'[x] = tuple[x] /\ master'[x] = master[x]
      /\ \A p \in Exps \cup Heads : p # e => nxt'[p] = nxt[p]
      /\ \A p \in Exps \cup Masters : p # e => lnxt'[p] = lnxt[p]
  BY <1>0, <1>1
<1>6. TypeOK'
  BY <1>0, <1>1, <1>5 DEF TypeOK
<1>7. ExpectationsAlive'
  BY <1>0, <1>1, <1>2, <1>3, <1>4 DEF RefInv, Counted, ExpectationsAlive, LockInv
<1>8. MastersAlive' /\ OnlyInv' /\ TimerInv'
  BY <1>0, <1>1, <1>2, <1>5 DEF RefInv, MastersAlive, OnlyInv, TimerInv
<1>9. RequestInv'
  <2>1. pc = "related" => exp \in Exps /\ exp # e
    BY <1>0, <1>2 DEF RequestInv, TypeOK
  <2> QED
    BY <1>0, <1>1, <1>5, <2>1 DEF RequestInv
<1>10. ListInv'
  <2>1. \A p : Live(linked, p) => p # e
    BY <1>2 DEF Live
  <2>2. DOMAIN nxt = Exps \cup Heads /\ DOMAIN nxt' = Exps \cup Heads
        /\ DOMAIN lnxt = Exps \cup Masters /\ DOMAIN lnxt' = Exps \cup Masters
    BY <1>0, <1>5
  <2>3. ListOK(linked, nxt) /\ ListOK(linked, lnxt)
    BY DEF RefInv, ListInv
  <2>4. ListOK(linked, nxt')
    BY <1>5, <2>1, <2>2, <2>3 DEF ListOK
  <2>5. ListOK(linked, lnxt')
    BY <1>5, <2>1, <2>2, <2>3 DEF ListOK
  <2> QED
    BY <1>1, <2>4, <2>5 DEF ListInv
<1>11. WalkInv'
  <2>1. ASSUME phase = "walk" PROVE \E S \in SUBSET Exps : Seen(S)'
    <3>1. PICK S \in SUBSET Exps : Seen(S)
      BY <2>1 DEF RefInv, WalkInv
    <3>2. e \notin S
      BY <1>1, <2>1, <3>1 DEF Seen
    <3>3. StaysIn(S, nxt') /\ StaysIn(S, lnxt')
      BY <1>5, <3>1, <3>2 DEF Seen, StaysIn
    <3>4. Seen(S)'
      BY <1>1, <3>1, <3>2, <3>3 DEF Seen, StaysIn
    <3> QED
      BY <3>4
  <2> QED
    BY <1>1, <2>1 DEF RefInv, WalkInv
<1> QED
  BY <1>1, <1>6, <1>7, <1>8, <1>9, <1>10, <1>11, Frames DEF RefInv, Counted

\* Masters come and go.
LEMMA RefMaster ==
  ASSUME RefInv, NEW m \in Masters, MasterBegins(m) \/ MasterLeaves(m) \/ MasterLocks(m) \/ MasterEnds(m)
  PROVE  RefInv'
<1>0. /\ RequestInv /\ TypeOK /\ LockInv /\ muse \in [Masters -> Nat] /\ None \notin Masters /\ m # None
      /\ table \subseteq alive /\ alive \subseteq Masters /\ "request" \notin Masters /\ None # "request"
      /\ lnxt \in [Exps \cup Masters -> Exps \cup {None}] /\ m \notin Exps
      /\ (\A x \in Masters : muse[x] = One(x \in table) + One(ct = x)) /\ (ct # None => ct \in alive)
  BY Facts, ExpsAssumption DEF RefInv, TypeOK, Counted, Balanced, ExpectationsAlive
<1>1. CASE MasterBegins(m)
  <2>1. /\ m \notin alive /\ alive' = alive \cup {m} /\ table' = table \cup {m} /\ muse' = [muse EXCEPT ![m] = 1]
        /\ lnxt' = [lnxt EXCEPT ![m] = None]
        /\ UNCHANGED <<memory, use, timer, linked, nxt, lock, request, callback, history>>
    BY <1>1 DEF MasterBegins
  <2>2. /\ lnxt' \in [Exps \cup Masters -> Exps \cup {None}] /\ lnxt'[m] = None
        /\ \A p \in Exps \cup Masters : p # m => lnxt'[p] = lnxt[p]
        /\ muse' \in [Masters -> Nat] /\ muse'[m] = 1 /\ \A x \in Masters : x # m => muse'[x] = muse[x]
    BY <1>0, <2>1
  <2>3. TypeOK'
    BY <1>0, <2>1, <2>2 DEF TypeOK
  <2>4. \A x \in Masters : muse'[x] = One(x \in table') + One(ct = x)
    BY <1>0, <2>1, <2>2 DEF One
  <2>5. Balanced' /\ ExpectationsAlive' /\ MastersAlive'
    BY <2>1, <2>4 DEF RefInv, Counted, Balanced, CursorHolds, ExpectationsAlive, MastersAlive
  <2>6. LockInv'
    BY <1>0, <2>1, <2>2 DEF LockInv
  <2>7. ListInv'
    <3>1. ListOK(linked, lnxt) /\ DOMAIN lnxt = Exps \cup Masters /\ DOMAIN lnxt' = Exps \cup Masters
      BY <1>0, <2>2 DEF RefInv, ListInv
    <3>2. ListOK(linked, lnxt')
      BY <2>2, <3>1 DEF ListOK
    <3> QED
      BY <2>1, <3>2 DEF RefInv, ListInv
  <2>8. WalkInv'
    <3>1. \A S \in SUBSET Exps : StaysIn(S, lnxt) => StaysIn(S, lnxt')
      BY <1>0, <2>2 DEF StaysIn
    <3> QED
      BY <2>1, <3>1 DEF RefInv, WalkInv, Seen, StaysIn
  <2> QED
    BY <2>1, <2>3, <2>5, <2>6, <2>7, <2>8, Frames DEF RefInv, Counted
<1>2. CASE MasterLeaves(m)
  <2>1. /\ m \in table /\ table' = table \ {m} /\ muse' = [muse EXCEPT ![m] = @ - 1]
        /\ UNCHANGED <<memory, use, timer, lists, lock, alive, request, callback, history>>
    BY <1>2 DEF MasterLeaves
  <2>2. \A x \in Masters : muse'[x] = One(x \in table') + One(ct = x)
    BY <1>0, <2>1 DEF One
  <2>3. muse' \in [Masters -> Nat] /\ \A x \in Masters : x # m => muse'[x] = muse[x]
    BY <1>0, <2>1 DEF One
  <2>4. TypeOK'
    BY <1>0, <2>1, <2>3 DEF TypeOK
  <2>5. Balanced'
    BY <2>1, <2>2 DEF RefInv, Counted, Balanced, CursorHolds
  <2>6. LockInv'
    BY <1>0, <2>1, <2>3 DEF LockInv, One
  <2> QED
    BY <2>1, <2>4, <2>5, <2>6, Frames DEF RefInv, Counted
<1>3. CASE MasterLocks(m)
  <2>1. /\ m \in alive /\ muse[m] = 0 /\ lock = None /\ lock' = m
        /\ UNCHANGED <<memory, use, timer, lists, masters, request, callback, history>>
    BY <1>3 DEF MasterLocks
  <2>2. TypeOK' /\ LockInv'
    BY <1>0, <2>1 DEF TypeOK, LockInv
  <2> QED
    BY <2>1, <2>2, Frames DEF RefInv, Counted
<1>4. CASE MasterEnds(m)
  <2>1. /\ lock = m /\ (\A e \in linked : master[e] = m => timer[e] # "armed")
        /\ lock' = None /\ alive' = alive \ {m} /\ stable' \in {{}, stable}
        /\ UNCHANGED <<memory, use, timer, lists, table, muse, request, callback, sent, restarted>>
    BY <1>4 DEF MasterEnds
  <2>2. m \notin table /\ ct # m
    BY <1>0, <2>1 DEF LockInv, One
  <2>3. TypeOK' /\ LockInv'
    BY <1>0, <2>1, <2>2 DEF TypeOK, LockInv
  <2>4. ExpectationsAlive' /\ MastersAlive'
    BY <2>1, <2>2 DEF RefInv, Counted, ExpectationsAlive, MastersAlive
  <2> QED
    BY <2>1, <2>3, <2>4, Frames DEF RefInv, Counted
<1> QED
  BY <1>1, <1>2, <1>3, <1>4

-----------------------------------------------------------------------------
(* The steps of the dump.                                                  *)

LEMMA FirstLinked ==
  ASSUME RefInv, NEW b \in 0..Size, b <= Lists
  PROVE  /\ Lists \in 1..Size /\ First(b) \in linked \cup {None} /\ (b = Lists => First(b) = None)
         /\ (b < Lists /\ data = None => b \in Heads)
<1>1. /\ nxt \in [Exps \cup Heads -> Exps \cup {None}] /\ lnxt \in [Exps \cup Masters -> Exps \cup {None}]
      /\ data \in Masters \cup {None} /\ ListOK(linked, nxt) /\ ListOK(linked, lnxt)
  BY DEF RefInv, TypeOK, ListInv
<1>2. Lists \in 1..Size
  BY SizeAssumption DEF Lists
<1>3. b < Lists /\ data = None => b \in Heads /\ b \notin Exps
  BY SizeAssumption, ExpsAssumption DEF Lists, Heads
<1>4. data # None => data \in Masters /\ data \notin Exps
  BY <1>1, ExpsAssumption
<1>5. (b < Lists /\ data = None => nxt[b] \in linked \cup {None}) /\ (data # None => lnxt[data] \in linked \cup {None})
  BY <1>1, <1>3, <1>4 DEF ListOK, Live
<1>6. b = Lists \/ b < Lists
  BY <1>2
<1> QED
  BY <1>2, <1>3, <1>5, <1>6 DEF First

\* The walk goes on in what the callback may see.
LEMMA WalkOn ==
  ASSUME RefInv, phase = "walk", UNCHANGED <<phase, linked, allocated, graceful, nxt, lnxt, use>>,
         node' = First(bucket) \/ (bucket < Lists /\ node' = First(bucket + 1)) \/ (node # None /\ node' = Succ(node))
  PROVE  WalkInv' /\ node' \in allocated \cup {None} /\ node' \in Exps \cup {None}
<1>0. bucket \in 0..Size /\ bucket <= Lists
  BY DEF RefInv, TypeOK, CursorInv
<1>1. PICK S \in SUBSET Exps : Seen(S)
  BY DEF RefInv, WalkInv
<1>2. node' \in S \cup {None}
  <2>1. CASE node' = First(bucket)
    BY <1>0, <1>1, <2>1, FirstLinked DEF Seen
  <2>2. CASE bucket < Lists /\ node' = First(bucket + 1)
    <3>1. bucket + 1 \in 0..Size /\ bucket + 1 <= Lists
      BY <1>0, <2>2, FirstLinked, SizeAssumption
    <3> QED
      BY <1>1, <2>2, <3>1, FirstLinked DEF Seen
  <2>3. CASE node # None /\ node' = Succ(node)
    BY <1>1, <2>3 DEF Seen, StaysIn, Succ
  <2> QED
    BY <2>1, <2>2, <2>3
<1>3. Seen(S)'
  BY <1>1, <1>2 DEF Seen, StaysIn
<1>4. WalkInv'
  BY <1>3 DEF RefInv, WalkInv
<1> QED
  BY <1>1, <1>2, <1>4 DEF Seen

LEMMA RefDumpRequest == ASSUME RefInv, DumpStart \/ DumpBusy PROVE RefInv'
<1>0. /\ RequestInv /\ TypeOK /\ LockInv /\ CursorInv /\ None \notin Exps
      /\ pc \in {"begin", "dumpct"} /\ exp = None
      /\ UNCHANGED <<allocated, tuple, master, timer, linked, nxt, lnxt, lock, alive, table, muse, use>>
  BY Facts DEF RefInv, DumpStart, DumpBusy, StartsDump, At, RequestInv
<1>1. CASE DumpStart
  <2>1. /\ phase = "none" /\ pc' = "dumping" /\ phase' = "idle" /\ data' = ct /\ bucket' = 0 /\ arg1' = None
        /\ UNCHANGED <<req, exp, ct, work, last, node, room, filled, graceful>>
        /\ sent' = [e \in Exps |-> 0] /\ restarted' = FALSE /\ stable' \subseteq linked
    BY <1>1 DEF DumpStart, Goto
  <2>2. TypeOK'
    <3>1. sent' \in [Exps -> 0..2] /\ 0 \in 0..Size
      BY <2>1, SizeAssumption
    <3> QED
      BY <1>0, <2>1, <3>1 DEF TypeOK
  <2>3. arg1 = None /\ last = None /\ node = None
    BY <1>0, <2>1 DEF CursorInv
  <2>4. Balanced'
    BY <1>0, <2>1, <2>3 DEF RefInv, Counted, Balanced, CursorHolds
  <2>5. ExpectationsAlive' /\ RequestInv' /\ LockInv'
    BY <1>0, <2>1 DEF RefInv, Counted, ExpectationsAlive, RequestInv, LockInv
  <2>6. CursorInv'
    BY <2>1, <2>3, SizeAssumption DEF CursorInv, Lists
  <2>7. WalkInv'
    BY <1>0, <2>1 DEF RefInv, WalkInv
  <2> QED
    BY <1>0, <2>1, <2>2, <2>4, <2>5, <2>6, <2>7, Frames DEF RefInv, Counted
<1>2. CASE DumpBusy
  <2>1. work = {} /\ UNCHANGED <<callback, history>>
    BY <1>0, <1>2 DEF LockInv, DumpBusy
  <2>2. CASE ct = None
    BY <1>0, <1>2, <2>1, <2>2, RequestMoves DEF DumpBusy, DumpRequestEnds, Done, RequestInv
  <2>3. CASE ct # None
    BY <1>0, <1>2, <2>1, <2>3, RequestMoves DEF DumpBusy, DumpRequestEnds, Goto, RequestInv, TypeOK
  <2> QED
    BY <2>2, <2>3
<1> QED
  BY <1>1, <1>2

LEMMA RefCallback == ASSUME RefInv, NEW r \in 1..MaxRoom, Callback(r) PROVE RefInv'
<1>0. /\ TypeOK /\ CursorInv /\ None \notin Exps /\ bucket \in 0..Size /\ bucket <= Lists /\ ListInv
      /\ phase = "idle" /\ last = None /\ node = None /\ linked \subseteq allocated /\ linked \subseteq Exps
      /\ allocated \subseteq Exps
  BY Facts DEF RefInv, TypeOK, CursorInv, Callback
<1>1. /\ phase' = "walk" /\ last' = arg1 /\ node' = First(bucket) /\ room' = r /\ filled' = FALSE
      /\ graceful' = {e \in allocated : use[e] = 0}
      /\ UNCHANGED <<state, request, data, use, bucket, arg1, history>>
  BY DEF Callback
<1>2. node' \in linked \cup {None} /\ (bucket = Lists => node' = None)
  BY <1>0, <1>1, FirstLinked
<1>3. TypeOK'
  <2>1. graceful' \subseteq Exps /\ room' \in 0..MaxRoom /\ node' \in Exps \cup {None}
    BY <1>0, <1>1, <1>2, BoundsAssumption
  <2>2. /\ phase' = "walk" /\ last' = arg1 /\ filled' = FALSE
        /\ UNCHANGED <<state, request, data, use, bucket, arg1, history>>
    BY <1>1
  <2>3. /\ phase' \in {"none", "idle", "walk", "out", "ending"} /\ last' \in Exps \cup {None} /\ filled' \in BOOLEAN
    BY <1>0, <2>2 DEF TypeOK
  <2>4. TypeOK
    BY <1>0
  <2> QED
    BY <2>1, <2>2, <2>3, <2>4 DEF TypeOK
<1>4. Balanced'
  <2>1. \A e \in Exps : (CursorHolds(e) <=> last' = e) /\ ~CursorHolds(e)' /\ last # e
    BY <1>0, <1>1 DEF CursorHolds
  <2> QED
    BY <1>1, <2>1 DEF RefInv, Counted, Balanced, One
<1>5. ExpectationsAlive'
  BY <1>0, <1>1, <1>2 DEF RefInv, Counted, ExpectationsAlive
<1>6. CursorInv'
  BY <1>0, <1>1, <1>2 DEF CursorInv, Lists
<1>7. WalkInv'
  <2>1. StaysIn(linked, nxt) /\ StaysIn(linked, lnxt)
    BY <1>0 DEF ListInv, ListOK, StaysIn, Live, TypeOK
  <2>2. linked \subseteq allocated \ graceful'
    BY <1>0, <1>1, Facts
  <2>3. Seen(linked)'
    BY <1>1, <1>2, <2>1, <2>2 DEF Seen, StaysIn
  <2>4. \E S \in SUBSET Exps : Seen(S)'
    <3>1. linked' = linked /\ linked \in SUBSET Exps
      BY <1>0, <1>1
    <3>2. \E S \in SUBSET Exps : S = linked'
      BY <3>1
    <3> QED
      BY <2>3, <3>2
  <2> QED
    BY <1>1, <2>4 DEF WalkInv
<1> QED
  BY <1>1, <1>3, <1>4, <1>5, <1>6, <1>7, Frames DEF RefInv, Counted

\* The steps within a walk that take no reference.
LEMMA RefWalk ==
  ASSUME RefInv, Skip \/ Fill \/ Restart \/ NextBucket \/ (Full /\ use' = use)
  PROVE  RefInv'
<1>0. /\ TypeOK /\ CursorInv /\ None \notin Exps /\ bucket \in 0..Size /\ bucket <= Lists
      /\ phase = "walk" /\ sent \in [Exps -> 0..2] /\ room \in 0..MaxRoom /\ MaxRoom \in Nat
  BY Facts, BoundsAssumption DEF RefInv, TypeOK, CursorInv, Skip, Fill, Restart, NextBucket, Full
<1>1. /\ UNCHANGED <<state, request, data, use, last, graceful, stable>>
      /\ arg1' \in {arg1, None} /\ phase' = "walk"
      /\ node' = First(bucket) \/ (bucket < Lists /\ node' = First(bucket + 1)) \/ (node # None /\ node' = Succ(node))
  <2>1. CASE Skip \/ Fill \/ Restart \/ NextBucket
    BY <1>0, <2>1 DEF Skip, Fill, Restart, NextBucket
  <2>2. CASE Full /\ use' = use
    <3>1. node # None /\ UNCHANGED <<state, request, data, last, graceful, history>>
      BY <2>2 DEF Full
    <3>2. use[node] = 0
      <4>1. node \in Exps /\ use \in [Exps -> Nat]
        BY <1>0, <3>1 DEF TypeOK
      <4>2. use[node] # 0 => use' = [use EXCEPT ![node] = @ + 1]
        BY <2>2 DEF Full
      <4> QED
        BY <2>2, <4>1, <4>2
    <3>3. arg1' = None /\ node' = Succ(node) /\ phase' = phase
      BY <2>2, <3>2 DEF Full
    <3> QED
      BY <1>0, <2>2, <3>1, <3>3
  <2> QED
    BY <2>1, <2>2
<1>2. WalkInv' /\ node' \in allocated \cup {None} /\ node' \in Exps \cup {None}
  BY <1>0, <1>1, WalkOn
<1>3. /\ bucket' \in 0..Size /\ bucket' <= Lists /\ (bucket' = Lists => arg1' = None /\ node' = None)
      /\ room' \in 0..MaxRoom /\ filled' \in BOOLEAN /\ sent' \in [Exps -> 0..2] /\ restarted' \in BOOLEAN
  <2>0. bucket = Lists => arg1 = None /\ node = None
    BY <1>0 DEF CursorInv
  <2>1. CASE Skip
    BY <1>0, <2>0, <2>1 DEF Skip, TypeOK
  <2>2. CASE Fill
    <3>1. node \in Exps
      BY <1>0, <2>2 DEF TypeOK, Fill
    <3>2. sent' \in [Exps -> 0..2]
      <4>1. sent' = [sent EXCEPT ![node] = IF @ = 2 THEN 2 ELSE @ + 1]
        BY <2>2 DEF Fill
      <4> QED
        BY <1>0, <3>1, <4>1
    <3>3. room' \in 0..MaxRoom
      BY <1>0, <2>2 DEF Fill, ctnetlink_exp_fill_info
    <3> QED
      BY <1>0, <2>0, <2>2, <3>2, <3>3 DEF Fill, TypeOK
  <2>3. CASE Restart
    BY <1>0, <2>0, <2>3 DEF Restart, TypeOK
  <2>4. CASE NextBucket
    <3>1. bucket < Lists /\ bucket' = bucket + 1 /\ node' = First(bucket + 1) /\ arg1' = None
          /\ UNCHANGED <<room, filled, history>>
      BY <2>4 DEF NextBucket
    <3>2. Lists \in 1..Size
      BY <1>0, FirstLinked
    <3>3. bucket' \in 0..Size /\ bucket' <= Lists
      BY <1>0, <3>1, <3>2, SizeAssumption
    <3>4. bucket' = Lists => node' = None
      BY <3>1, <3>3, FirstLinked
    <3> QED
      BY <1>0, <3>1, <3>3, <3>4 DEF TypeOK
  <2>5. CASE Full /\ use' = use
    BY <1>0, <2>0, <2>5 DEF Full, TypeOK
  <2> QED
    BY <2>1, <2>2, <2>3, <2>4, <2>5
<1>4. TypeOK'
  BY <1>0, <1>1, <1>2, <1>3 DEF TypeOK
<1>5. Balanced'
  <2>1. \A e : ~CursorHolds(e) /\ ~CursorHolds(e)'
    BY <1>0, <1>1 DEF CursorHolds
  <2> QED
    BY <1>1, <2>1 DEF RefInv, Counted, Balanced, One
<1>6. ExpectationsAlive'
  BY <1>1, <1>2 DEF RefInv, Counted, ExpectationsAlive
<1>7. CursorInv'
  <2>1. Lists' = Lists
    BY <1>1 DEF Lists
  <2> QED
    BY <1>0, <1>1, <1>3, <2>1 DEF CursorInv
<1> QED
  BY <1>1, <1>2, <1>4, <1>5, <1>6, <1>7, Frames DEF RefInv, Counted

\* What did not fit becomes the cursor; the end of the table leaves none.
LEMMA RefOut == ASSUME RefInv, (Full /\ use' # use) \/ EndOfTable PROVE RefInv'
<1>0. /\ TypeOK /\ CursorInv /\ None \notin Exps /\ phase = "walk" /\ use \in [Exps -> Nat]
  BY Facts DEF RefInv, TypeOK, Full, EndOfTable
<1>1. CASE Full /\ use' # use
  <2>1. node \in Exps /\ node # None /\ UNCHANGED <<state, request, data, bucket, last, room, filled, graceful, history>>
    BY <1>0, <1>1 DEF Full, TypeOK
  <2>2. use[node] # 0 /\ use' = [use EXCEPT ![node] = @ + 1] /\ arg1' = node /\ phase' = "out" /\ node' = node
    BY <1>1 DEF Full
  <2>3. /\ use' \in [Exps -> Nat] /\ use'[node] = use[node] + 1 /\ \A x \in Exps : x # node => use'[x] = use[x]
    BY <1>0, <2>1, <2>2
  <2>4. TypeOK'
    BY <1>0, <2>1, <2>2, <2>3 DEF TypeOK
  <2>5. Balanced'
    <3>1. \A e \in Exps : ~CursorHolds(e) /\ (CursorHolds(e)' <=> e = node)
      BY <1>0, <2>2 DEF CursorHolds
    <3>2. ASSUME NEW x \in Exps
          PROVE  use'[x] = One(x \in linked) + One(timer[x] # "off") + One(exp = x) + One(last = x) + One(CursorHolds(x)')
      <4>1. use[x] = One(x \in linked) + One(timer[x] # "off") + One(exp = x) + One(last = x) + One(CursorHolds(x))
        BY DEF RefInv, Counted, Balanced
      <4> QED
        BY <2>3, <3>1, <4>1 DEF One
    <3> QED
      BY <2>1, <3>2 DEF RefInv, Counted, Balanced
  <2>6. ExpectationsAlive'
    BY <2>1, <2>2 DEF RefInv, Counted, ExpectationsAlive
  <2>7. CursorInv'
    BY <1>0, <2>1, <2>2 DEF CursorInv, Lists
  <2>8. WalkInv'
    BY <2>1, <2>2, <2>3, <1>0 DEF RefInv, WalkInv, TypeOK
  <2> QED
    BY <2>1, <2>4, <2>5, <2>6, <2>7, <2>8, Frames DEF RefInv, Counted
<1>2. CASE EndOfTable
  <2>1. /\ bucket = Lists /\ phase' = "out"
        /\ UNCHANGED <<state, request, data, use, bucket, arg1, last, node, room, filled, graceful, history>>
    BY <1>2 DEF EndOfTable
  <2>2. arg1 = None /\ node = None
    BY <1>0, <2>1 DEF CursorInv
  <2>3. TypeOK'
    BY <1>0, <2>1 DEF TypeOK
  <2>4. Balanced'
    <3>1. \A e \in Exps : ~CursorHolds(e) /\ ~CursorHolds(e)'
      BY <1>0, <2>1, <2>2 DEF CursorHolds
    <3> QED
      BY <2>1, <3>1 DEF RefInv, Counted, Balanced, One
  <2>5. CursorInv' /\ WalkInv'
    BY <1>0, <2>1, <2>2 DEF CursorInv, Lists, RefInv, WalkInv
  <2> QED
    BY <2>1, <2>3, <2>4, <2>5, Frames DEF RefInv, Counted
<1> QED
  BY <1>1, <1>2

\* The reference of the callback, and that of the cursor, are put.
LEMMA RefPut == ASSUME RefInv, Out \/ ctnetlink_exp_done PROVE RefInv'
<1>0. /\ TypeOK /\ CursorInv /\ RequestInv /\ LockInv /\ None \notin Exps /\ use \in [Exps -> Nat]
      /\ bucket \in 0..Size /\ last \in Exps \cup {None} /\ arg1 \in Exps \cup {None}
      /\ \A x \in graceful : x \in Exps /\ use[x] = 0 /\ x \in allocated
  BY Facts DEF RefInv, TypeOK, WalkInv
<1>1. CASE Out
  <2>1. /\ phase = "out" /\ phase' \in {"idle", "ending"} /\ last' = None /\ node' = None /\ graceful' = {}
        /\ UNCHANGED <<state, data, bucket, arg1, room, filled, history>>
        /\ IF last # None THEN Put(last) ELSE UNCHANGED use
    BY <1>1 DEF Out
  <2>2. /\ UNCHANGED <<exp, ct, work>> /\ pc' \in {pc, "idle", "putmaster"} /\ (pc' # pc => pc = "dumping")
        /\ RequestInv' /\ (req' = NoRequest \/ req' \in Request)
    <3>1. CASE pc = "dumping" /\ ct = None
      BY <1>0, <1>1, <2>1, <3>1 DEF Out, DumpRequestEnds, Done, RequestInv, LockInv
    <3>2. CASE pc = "dumping" /\ ct # None
      BY <1>0, <1>1, <2>1, <3>2 DEF Out, DumpRequestEnds, Goto, RequestInv, TypeOK
    <3>3. CASE pc # "dumping"
      <4>1. UNCHANGED request
        BY <1>1, <3>3 DEF Out
      <4> QED
        BY <1>0, <2>1, <4>1 DEF RequestInv, TypeOK
    <3> QED
      BY <3>1, <3>2, <3>3
  <2>3. /\ use' \in [Exps -> Nat]
        /\ \A x \in Exps : use'[x] = use[x] - One(last = x)
    <3>1. CASE last = None
      BY <1>0, <2>1, <3>1 DEF One
    <3>2. CASE last # None
      <4>1. use[last] >= 1 /\ last \in Exps /\ use' = [use EXCEPT ![last] = @ - 1]
        BY <1>0, <2>1, <3>2, Facts DEF Put
      <4> QED
        BY <1>0, <4>1 DEF One
    <3> QED
      BY <3>1, <3>2
  <2>4. TypeOK'
    BY <1>0, <2>1, <2>2, <2>3 DEF TypeOK
  <2>5. Balanced'
    <3>1. \A x \in Exps : CursorHolds(x)' <=> CursorHolds(x)
      BY <2>1 DEF CursorHolds
    <3>2. ASSUME NEW x \in Exps
          PROVE  use'[x] = One(x \in linked) + One(timer[x] # "off") + One(exp = x) + One(last' = x) + One(CursorHolds(x)')
      <4>1. use[x] = One(x \in linked) + One(timer[x] # "off") + One(exp = x) + One(last = x) + One(CursorHolds(x))
        BY DEF RefInv, Counted, Balanced
      <4>2. last' # x
        BY <1>0, <2>1
      <4> QED
        BY <2>3, <3>1, <4>1, <4>2 DEF One
    <3> QED
      BY <2>1, <2>2, <3>2 DEF RefInv, Counted, Balanced
  <2>6. ExpectationsAlive'
    BY <2>1, <2>2 DEF RefInv, Counted, ExpectationsAlive
  <2>7. LockInv'
    BY <1>0, <2>1, <2>2 DEF LockInv
  <2>8. CursorInv' /\ WalkInv'
    BY <1>0, <2>1 DEF CursorInv, Lists, WalkInv
  <2> QED
    BY <2>1, <2>2, <2>4, <2>5, <2>6, <2>7, <2>8, Frames DEF RefInv, Counted
<1>2. CASE ctnetlink_exp_done
  <2>1. /\ phase \in {"idle", "ending"} /\ phase' = "none" /\ data' = None /\ arg1' = None /\ stable' = {}
        /\ UNCHANGED <<state, request, bucket, last, node, room, filled, graceful, sent, restarted>>
        /\ IF arg1 # None THEN Put(arg1) ELSE UNCHANGED use
    BY <1>2 DEF ctnetlink_exp_done
  <2>2. last = None /\ node = None
    BY <1>0, <2>1 DEF CursorInv
  <2>3. /\ use' \in [Exps -> Nat]
        /\ \A x \in Exps : use'[x] = use[x] - One(arg1 = x)
    <3>1. CASE arg1 = None
      BY <1>0, <2>1, <3>1 DEF One
    <3>2. CASE arg1 # None
      <4>1. use[arg1] >= 1 /\ arg1 \in Exps /\ use' = [use EXCEPT ![arg1] = @ - 1]
        BY <1>0, <2>1, <3>2, Facts DEF Put, CursorHolds
      <4> QED
        BY <1>0, <4>1 DEF One
    <3> QED
      BY <3>1, <3>2
  <2>4. TypeOK'
    BY <1>0, <2>1, <2>3 DEF TypeOK
  <2>5. Balanced'
    <3>1. \A x \in Exps : (CursorHolds(x) <=> arg1 = x) /\ ~CursorHolds(x)'
      BY <1>0, <2>1 DEF CursorHolds
    <3>2. ASSUME NEW x \in Exps
          PROVE  use'[x] = One(x \in linked) + One(timer[x] # "off") + One(exp = x) + One(last = x) + One(CursorHolds(x)')
      <4>1. use[x] = One(x \in linked) + One(timer[x] # "off") + One(exp = x) + One(last = x) + One(CursorHolds(x))
        BY DEF RefInv, Counted, Balanced
      <4> QED
        BY <2>3, <3>1, <4>1 DEF One
    <3> QED
      BY <2>1, <3>2 DEF RefInv, Counted, Balanced
  <2>6. ExpectationsAlive'
    BY <2>1 DEF RefInv, Counted, ExpectationsAlive
  <2>7. CursorInv'
    BY <1>0, <2>1, <2>2 DEF CursorInv, Lists
  <2>8. WalkInv'
    <3>1. \A x \in graceful : arg1 # x
      BY <1>0, <2>1, Facts DEF CursorHolds
    <3> QED
      BY <1>0, <2>1, <2>3, <3>1 DEF WalkInv, One
  <2> QED
    BY <2>1, <2>4, <2>5, <2>6, <2>7, <2>8, Frames DEF RefInv, Counted
<1> QED
  BY <1>1, <1>2

-----------------------------------------------------------------------------
(* References and masters.                                                 *)

LEMMA RefStep == ASSUME RefInv, [Next]_vars PROVE RefInv'
<1>1. CASE Kernel
  BY <1>1, RefUnlinks, RefTimer, RefFree, RefRelated, RefMaster DEF Kernel
<1>2. CASE Handler
  <2>1. CASE ParseFails \/ FindsNothing \/ (\E e \in Exps : FindGet(e))
    BY <2>1, RefMoves, RefExps
  <2>2. CASE ctnetlink_new_expect
    BY <2>2, RefMoves, RefMasters, RefRelated, RefExps, RefAlloc DEF ctnetlink_new_expect
  <2>3. CASE ctnetlink_get_expect
    BY <2>3, RefExps, RefMasters, RefDumpRequest DEF ctnetlink_get_expect
  <2>4. CASE ctnetlink_del_expect
    BY <2>4, RefExps, RefUnlinks, RefFlush DEF ctnetlink_del_expect
  <2> QED
    BY <1>2, <2>1, <2>2, <2>3, <2>4 DEF Handler
<1>3. CASE ctnetlink_glue_attach_expect \/ \E r \in Requests : Begin(r) \/ Queue(r)
  BY <1>3, RefMoves, RefMasters
<1>4. CASE ctnetlink_exp_dump_table
  BY <1>4, RefWalk, RefOut, RefPut, RefCallback DEF ctnetlink_exp_dump_table
<1>5. CASE ctnetlink_exp_done
  BY <1>5, RefPut
<1>6. CASE UNCHANGED vars
  <2>1. UNCHANGED <<memory, use, timer, lists, lock, masters, request, callback, history>>
    BY <1>6 DEF vars
  <2>2. TypeOK'
    BY <2>1 DEF RefInv, TypeOK
  <2> QED
    BY <2>1, <2>2, Frames DEF RefInv, Counted
<1> QED
  BY <1>1, <1>2, <1>3, <1>4, <1>5, <1>6 DEF Next

LEMMA RefTheorem == Spec => []RefInv
<1>1. RefInv /\ [Next]_vars => RefInv'
  BY RefStep
<1> QED
  BY <1>1, RefInit, PTL DEF Spec

\* Every variable has its type, for any number of expectations, connections and
\* tuples, any requests and buffers of any length: in particular no count is
\* taken below zero (ctnetlink_new_expect, ctnetlink_del_expect and the dumps).
THEOREM Typing == Spec => []TypeOK
<1>1. RefInv => TypeOK
  BY DEF RefInv
<1> QED
  BY <1>1, RefTheorem, PTL

\* A request for a dump holds the connection until the first callback is over.
LEMMA DumpHolds == Spec => [](pc = "dumping" => data = ct)
<1> DEFINE Holds == pc = "dumping" => data = ct
<1>1. Init => Holds
  BY DEF Init
<1>2. Holds /\ [Next]_vars => Holds'
  <2> SUFFICES ASSUME Holds, [Next]_vars, pc' = "dumping" PROVE data' = ct'
    OBVIOUS
  <2>1. CASE DumpStart
    BY <2>1 DEF DumpStart, Goto
  <2>3. CASE Kernel
    <3>1. UNCHANGED <<pc, ct, data>>
      BY <2>3 DEF Kernel, PacketExpected, TimerFires, TimerUnlinks, TimerPuts, FreeRcu, HelperExpects,
                  MasterBegins, MasterLeaves, MasterLocks, MasterEnds, MasterRemoves
    <3> QED BY <3>1
  <2>4. CASE ParseFails \/ FindsNothing \/ (\E e \in Exps : FindGet(e)) \/ ctnetlink_new_expect
    <3>1. CASE ParseFails BY <3>1 DEF ParseFails, Done, Goto
    <3>2. CASE FindsNothing BY <3>2 DEF FindsNothing, Done, Goto
    <3>3. CASE NewFindsNothing BY <3>3 DEF NewFindsNothing, Done, Goto
    <3>4. CASE CreateMaster BY <3>4 DEF CreateMaster, Done, Goto
    <3>5. CASE CreateNoHelper BY <3>5 DEF CreateNoHelper, Done, Goto
    <3>6. CASE AllocFails BY <3>6 DEF AllocFails, Done, Goto
    <3>7. CASE CreateRelated BY <3>7 DEF CreateRelated, Done, Goto
    <3>8. CASE CreatePut BY <3>8 DEF CreatePut, Done, Goto
    <3>9. CASE CreatePutMaster BY <3>9 DEF CreatePutMaster, Done, Goto
    <3>10. ASSUME NEW e \in Exps, FindGet(e) \/ NewFinds(e) \/ Alloc(e) PROVE pc' # "dumping"
      BY <3>10 DEF FindGet, At, NewFinds, Alloc, Done, Goto
    <3> QED
      BY <2>4, <3>1, <3>2, <3>3, <3>4, <3>5, <3>6, <3>7, <3>8, <3>9, <3>10 DEF ctnetlink_new_expect
  <2>5. CASE Get \/ DumpFindCt \/ DumpBusy \/ ctnetlink_del_expect
    <3>1. pc' # "dumping"
      BY <2>5 DEF Get, DumpFindCt, DumpBusy, DumpRequestEnds, ctnetlink_del_expect, DelOther, Del, DelPut,
                  Flush, FlushEnds, FlushEach, Done, Goto
    <3> QED BY <3>1
  <2>6. CASE ctnetlink_glue_attach_expect \/ \E r \in Requests : Begin(r) \/ Queue(r)
    <3>1. pc' # "dumping"
      BY <2>6 DEF ctnetlink_glue_attach_expect, Begin, Queue, Done, Goto
    <3> QED BY <3>1
  <2>7. CASE Out
    <3>1. pc' # "dumping" \/ UNCHANGED <<pc, ct, data>>
      BY <2>7 DEF Out, DumpRequestEnds, Done, Goto
    <3> QED BY <3>1
  <2>8. CASE Skip \/ Fill \/ Full \/ Restart \/ NextBucket \/ EndOfTable \/ \E r \in 1..MaxRoom : Callback(r)
    <3>1. UNCHANGED <<pc, ct, data>>
      BY <2>8 DEF Skip, Fill, Full, Restart, NextBucket, EndOfTable, Callback
    <3> QED BY <3>1
  <2>9. CASE ctnetlink_exp_done
    BY <2>9 DEF ctnetlink_exp_done
  <2>10. CASE UNCHANGED vars
    BY <2>10 DEF vars
  <2> QED
    BY <2>1, <2>3, <2>4, <2>5, <2>6, <2>7, <2>8, <2>9, <2>10
       DEF Next, Handler, ctnetlink_get_expect, ctnetlink_exp_dump_table
<1> QED
  BY <1>1, <1>2, PTL DEF Spec

\* The references to every expectation and to every master have one holder each,
\* the expectations that the lists, a request and the dump point to are in memory,
\* although ctnetlink_exp_dump_table walks without the lock, and so is the
\* connection of a dump while its first callback runs.
THEOREM References == Spec => []RefCount
<1>1. RefInv /\ (pc = "dumping" => data = ct) => RefCount
  BY DEF RefInv, Counted, RefCount, FirstCallback, ExpectationsAlive
<1> QED
  BY <1>1, RefTheorem, DumpHolds, PTL

\* The master of an expectation that waits for its packet is in memory, although
\* ctnetlink_create_expect drops its reference to the master.
THEOREM MasterSafety == Spec => []MastersAlive
<1>1. RefInv => MastersAlive
  BY DEF RefInv
<1> QED
  BY <1>1, RefTheorem, PTL

-----------------------------------------------------------------------------
(* What a dump reports.                                                    *)

\* The lists of the table and of the masters are sorted by age: members L of a
\* list, which key tells, are met in this order from its head in H, and also by
\* a walk that is at a member which was unlinked meanwhile.
Sorted(S, L, n, H, key, rank) ==
  /\ \A p \in S : n[p] \in S \cup {None} /\ (n[p] # None => key[n[p]] = key[p] /\ rank[n[p]] < rank[p])
  /\ \A p \in S, x \in L : key[x] = key[p] /\ rank[x] < rank[p] => n[p] # None /\ rank[x] <= rank[n[p]]
  /\ \A h \in H : n[h] \in S \cup {None} /\ (n[h] # None => key[n[h]] = h)
  /\ \A h \in H, x \in L : key[x] = h => n[h] # None /\ rank[x] <= rank[n[h]]

Buckets == [e \in Exps |-> Hash[tuple[e]]]

\* The lists that the dump walks, by their numbers.
Dumped(e) == data = None \/ master[e] = data
Number(e) == IF data = None THEN Hash[tuple[e]] ELSE 0

\* There is an order rank, by age, of what a callback may see, S.  Those whose master
\* has ended, and which it left to their timers, are not in own.
AgeInv(rank, own, S) ==
  /\ linked \subseteq S /\ S \subseteq allocated /\ own \subseteq linked
  /\ \A e \in linked : timer[e] = "armed" => e \in own
  /\ \E top \in Nat : \A e \in S : rank[e] < top
  /\ \A e, f \in S : rank[e] = rank[f] => e = f
  /\ Sorted(S, linked, nxt, Heads, Buckets, rank)
  /\ Sorted(S, own, lnxt, Masters, master, rank)

\* Between two callbacks nobody sees what is unlinked.  What a request has still to
\* link is new to the dump.
SeenInv(S) ==
  /\ phase = "walk" => S \cap graceful = {} /\ node \in S \cup {None}
  /\ phase = "walk" /\ node # None => Dumped(node) /\ Number(node) = bucket
  /\ phase # "walk" => S = linked
  /\ pc = "related" => exp \notin S \cup {arg1, last} /\ sent[exp] = 0

\* The dump has passed, or has still to reach, e.
Behind(e, rank, S) ==
  IF arg1 # None THEN arg1 \in S /\ rank[e] > rank[arg1]
                 ELSE phase = "walk" /\ (node = None \/ rank[e] > rank[node])
Before(e, rank, S) ==
  IF arg1 # None THEN arg1 \in S /\ rank[e] <= rank[arg1]
                 ELSE phase = "walk" => node # None /\ rank[e] <= rank[node]
Passed(e, rank, S) == Number(e) < bucket \/ (Number(e) = bucket /\ Behind(e, rank, S))
Ahead(e, rank, S) ==
  /\ bucket < Lists /\ Dumped(e) /\ Number(e) \in Nat
  /\ Number(e) > bucket \/ (Number(e) = bucket /\ Before(e, rank, S))

\* What stays was reported once the dump has passed it; what is still to come was
\* not, as long as no list was walked again.
StableInv(own) ==
  /\ stable \subseteq linked
  /\ \A e \in stable : tuple[e] \in Wanted /\ Dumped(e) /\ (data # None => e \in own)
DumpInv(rank, S) ==
  /\ \A e \in stable : Passed(e, rank, S) => sent[e] > 0
  /\ ~restarted /\ phase # "none" => \A e \in S : Ahead(e, rank, S) => sent[e] = 0

\* A dump ends by itself only behind its last list.
EndInv ==
  /\ data # None /\ data \notin alive => stable = {}
  /\ phase \in {"walk", "out"} /\ room = 0 => filled
  /\ phase = "out" => filled \/ bucket = Lists
  /\ phase = "ending" => bucket = Lists
  /\ ~restarted => \A e \in Exps : sent[e] <= 1

OrderInv(rank, own, S) == AgeInv(rank, own, S) /\ SeenInv(S) /\ StableInv(own) /\ DumpInv(rank, S)
ReportInv ==
  /\ EndInv
  /\ \E rank \in [Exps -> Nat], own \in SUBSET Exps, S \in SUBSET Exps : OrderInv(rank, own, S)

\* A member leaves.
LEMMA SortedBypass ==
  ASSUME NEW D, Exps \subseteq D, NEW H \in SUBSET (D \ Exps), NEW l \in SUBSET Exps, NEW n \in Pointers(D),
         NEW e \in l, NEW S \in SUBSET Exps, l \subseteq S, NEW L \in SUBSET l, NEW key, NEW rank \in [Exps -> Nat],
         \A p, q \in S : rank[p] = rank[q] => p = q, Sorted(S, L, n, H, key, rank)
  PROVE  Sorted(S, L \ {e}, Bypass(l, n, e), H, key, rank)
<1> DEFINE b == Bypass(l, n, e)
<1>1. /\ \A p \in D : Live(l, p) /\ n[p] = e => b[p] = n[e]
      /\ \A p \in D : ~Live(l, p) \/ n[p] # e => b[p] = n[p]
  BY BypassType
<1> HIDE DEF b
<1>2. e \in S /\ e \in Exps /\ e # None /\ \A p \in S : p \in D /\ p \in Exps
  BY ExpsAssumption
<1>3. \A p \in S : rank[p] \in Nat
  OBVIOUS
<1>4. ASSUME NEW p \in S
      PROVE  b[p] \in S \cup {None} /\ (b[p] # None => key[b[p]] = key[p] /\ rank[b[p]] < rank[p])
  <2>1. n[p] \in S \cup {None} /\ (n[p] # None => key[n[p]] = key[p] /\ rank[n[p]] < rank[p])
    BY DEF Sorted
  <2>2. n[e] \in S \cup {None} /\ (n[e] # None => key[n[e]] = key[e] /\ rank[n[e]] < rank[e])
    BY <1>2 DEF Sorted
  <2>3. CASE b[p] = n[p]
    BY <2>1, <2>3
  <2>4. CASE b[p] # n[p]
    <3>1. n[p] = e /\ b[p] = n[e]
      BY <1>1, <1>2, <2>4
    <3> QED
      BY <1>2, <1>3, <2>1, <2>2, <3>1
  <2> QED
    BY <2>3, <2>4
<1>5. ASSUME NEW p \in S, NEW x \in L \ {e}, key[x] = key[p], rank[x] < rank[p]
      PROVE  b[p] # None /\ rank[x] <= rank[b[p]]
  <2>1. n[p] # None /\ rank[x] <= rank[n[p]] /\ n[p] \in S \cup {None} /\ key[n[p]] = key[p]
    BY <1>5 DEF Sorted
  <2>2. CASE b[p] = n[p]
    BY <2>1, <2>2
  <2>3. CASE b[p] # n[p]
    <3>1. n[p] = e /\ b[p] = n[e]
      BY <1>1, <1>2, <2>3
    <3>2. x \in S /\ x # e
      BY <1>5
    <3>3. rank[x] # rank[e]
      BY <1>2, <3>2
    <3>4. rank[x] < rank[e] /\ key[x] = key[e]
      BY <1>2, <1>3, <1>5, <2>1, <3>1, <3>2, <3>3
    <3> QED
      BY <1>2, <3>1, <3>4 DEF Sorted
  <2> QED
    BY <2>2, <2>3
<1>6. ASSUME NEW h \in H PROVE Live(l, h) /\ h \in D
  BY DEF Live
<1>7. ASSUME NEW h \in H
      PROVE  b[h] \in S \cup {None} /\ (b[h] # None => key[b[h]] = h)
  <2>1. n[h] \in S \cup {None} /\ (n[h] # None => key[n[h]] = h)
    BY DEF Sorted
  <2>2. n[e] \in S \cup {None} /\ (n[e] # None => key[n[e]] = key[e])
    BY <1>2 DEF Sorted
  <2> QED
    BY <1>1, <1>2, <1>6, <2>1, <2>2
<1>8. ASSUME NEW h \in H, NEW x \in L \ {e}, key[x] = h
      PROVE  b[h] # None /\ rank[x] <= rank[b[h]]
  <2>1. n[h] # None /\ rank[x] <= rank[n[h]] /\ n[h] \in S \cup {None} /\ key[n[h]] = h
    BY <1>8 DEF Sorted
  <2>2. CASE n[h] # e
    BY <1>1, <1>6, <2>1, <2>2
  <2>3. CASE n[h] = e
    <3>1. b[h] = n[e]
      BY <1>1, <1>6, <2>3
    <3>2. x \in S /\ x # e
      BY <1>8
    <3>3. rank[x] # rank[e]
      BY <1>2, <3>2
    <3>4. rank[x] < rank[e] /\ key[x] = key[e]
      BY <1>2, <1>3, <1>8, <2>1, <2>3, <3>2, <3>3
    <3> QED
      BY <1>2, <3>1, <3>4 DEF Sorted
  <2> QED
    BY <2>2, <2>3
<1> QED
  BY <1>4, <1>5, <1>7, <1>8 DEF Sorted, b

\* A new member, the youngest.
LEMMA SortedAdded ==
  ASSUME NEW D, Exps \subseteq D, NEW H \in SUBSET (D \ Exps), NEW n \in Pointers(D), NEW S \in SUBSET Exps,
         NEW L \in SUBSET S, NEW e \in Exps \ S, NEW h \in H, NEW key, NEW key1,
         NEW rank \in [Exps -> Nat], NEW rank1 \in [Exps -> Nat],
         \A x \in S : rank1[x] = rank[x] /\ rank1[x] < rank1[e] /\ key1[x] = key[x],
         key1[e] = h, Sorted(S, L, n, H, key, rank)
  PROVE  Sorted(S \cup {e}, L \cup {e}, Added(n, e, h), H, key1, rank1)
<1> DEFINE a == Added(n, e, h)
<1>1. h # e /\ a[e] = n[h] /\ a[h] = e /\ \A p \in D : p # e /\ p # h => a[p] = n[p]
  BY DEF Added, Pointers
<1> HIDE DEF a
<1>2. e # None /\ (\A x \in S : rank1[x] \in Nat /\ x \in D /\ x # h /\ x # e) /\ rank1[e] \in Nat
  BY ExpsAssumption
<1>3. n[h] \in S \cup {None} /\ (n[h] # None => key[n[h]] = h)
  BY DEF Sorted
<1>4. ASSUME NEW p \in S \cup {e}
      PROVE  a[p] \in S \cup {e} \cup {None} /\ (a[p] # None => key1[a[p]] = key1[p] /\ rank1[a[p]] < rank1[p])
  <2>1. CASE p = e
    BY <1>1, <1>2, <1>3, <2>1
  <2>2. CASE p # e
    <3>1. p \in S /\ a[p] = n[p]
      BY <1>1, <1>2, <2>2
    <3>2. n[p] \in S \cup {None} /\ (n[p] # None => key[n[p]] = key[p] /\ rank[n[p]] < rank[p])
      BY <3>1 DEF Sorted
    <3> QED
      BY <3>1, <3>2
  <2> QED
    BY <2>1, <2>2
<1>5. ASSUME NEW p \in S \cup {e}, NEW x \in L \cup {e}, key1[x] = key1[p], rank1[x] < rank1[p]
      PROVE  a[p] # None /\ rank1[x] <= rank1[a[p]]
  <2>0. x \in S
    BY <1>2, <1>5
  <2>3. x \in L
    BY <2>0
  <2>1. CASE p = e
    <3>1. key[x] = h
      BY <1>5, <2>0, <2>1
    <3>2. n[h] # None /\ rank[x] <= rank[n[h]]
      BY <2>3, <3>1 DEF Sorted
    <3> QED
      BY <1>1, <1>3, <2>0, <2>1, <3>2
  <2>2. CASE p # e
    <3>1. p \in S /\ a[p] = n[p]
      BY <1>1, <1>2, <2>2
    <3>2. key[x] = key[p] /\ rank[x] < rank[p]
      BY <1>5, <2>0, <3>1
    <3>3. n[p] # None /\ rank[x] <= rank[n[p]] /\ n[p] \in S \cup {None}
      BY <2>3, <3>1, <3>2 DEF Sorted
    <3> QED
      BY <2>0, <3>1, <3>3
  <2> QED
    BY <2>1, <2>2
<1>6. ASSUME NEW g \in H
      PROVE  a[g] \in S \cup {e} \cup {None} /\ (a[g] # None => key1[a[g]] = g)
  <2>1. g \in D /\ g # e
    OBVIOUS
  <2>2. n[g] \in S \cup {None} /\ (n[g] # None => key[n[g]] = g)
    BY DEF Sorted
  <2> QED
    BY <1>1, <2>1, <2>2
<1>7. ASSUME NEW g \in H, NEW x \in L \cup {e}, key1[x] = g
      PROVE  a[g] # None /\ rank1[x] <= rank1[a[g]]
  <2>0. g \in D /\ g # e
    OBVIOUS
  <2>1. CASE g = h
    BY <1>1, <1>2, <2>1
  <2>2. CASE g # h
    <3>1. x \in L /\ x \in S /\ a[g] = n[g] /\ key[x] = g
      BY <1>1, <1>7, <2>0, <2>2
    <3>2. n[g] # None /\ rank[x] <= rank[n[g]] /\ n[g] \in S \cup {None}
      BY <3>1 DEF Sorted
    <3> QED
      BY <3>1, <3>2
  <2> QED
    BY <2>1, <2>2
<1> QED
  BY <1>4, <1>5, <1>6, <1>7 DEF Sorted, a

\* The order depends only on what may be seen, and holds for the linked members.
LEMMA SortedSame ==
  ASSUME NEW S, NEW L \in SUBSET S, NEW n, NEW H, NEW key, NEW rank, Sorted(S, L, n, H, key, rank),
         NEW S1 \in SUBSET S, NEW L1 \in SUBSET L, L1 \subseteq S1, NEW n1, NEW key1,
         \A p \in S1 : n1[p] = n[p] /\ key1[p] = key[p] /\ n[p] \in S1 \cup {None},
         \A h \in H : (n1[h] = n[h] /\ n[h] \in S1 \cup {None}) \/ (n1[h] = None /\ \A x \in L1 : key[x] # h)
  PROVE  Sorted(S1, L1, n1, H, key1, rank)
<1>1. ASSUME NEW p \in S1
      PROVE  n1[p] \in S1 \cup {None} /\ (n1[p] # None => key1[n1[p]] = key1[p] /\ rank[n1[p]] < rank[p])
  BY DEF Sorted
<1>2. ASSUME NEW p \in S1, NEW x \in L1, key1[x] = key1[p], rank[x] < rank[p]
      PROVE  n1[p] # None /\ rank[x] <= rank[n1[p]]
  BY <1>2 DEF Sorted
<1>3. ASSUME NEW h \in H
      PROVE  n1[h] \in S1 \cup {None} /\ (n1[h] # None => key1[n1[h]] = h)
  <2>1. n[h] # None => key[n[h]] = h
    BY DEF Sorted
  <2> QED
    BY <2>1
<1>4. ASSUME NEW h \in H, NEW x \in L1, key1[x] = h
      PROVE  n1[h] # None /\ rank[x] <= rank[n1[h]]
  <2>1. key[x] = h /\ x \in L
    BY <1>4
  <2>2. n[h] # None /\ rank[x] <= rank[n[h]]
    BY <2>1 DEF Sorted
  <2> QED
    BY <2>1, <2>2
<1> QED
  BY <1>1, <1>2, <1>3, <1>4 DEF Sorted

\* Of the order the linked members are a part.
LEMMA SortedLinked ==
  ASSUME NEW D, NEW H \in SUBSET (D \ Exps), NEW n \in Pointers(D), NEW S \in SUBSET Exps, Exps \subseteq D,
         NEW l \in SUBSET S, NEW L \in SUBSET l, NEW key, NEW rank, Sorted(S, L, n, H, key, rank), ListOK(l, n)
  PROVE  Sorted(l, L, n, H, key, rank)
<1>1. DOMAIN n = D
  BY DEF Pointers
<1>2. \A p \in l : n[p] \in l \cup {None}
  BY <1>1 DEF ListOK, Live
<1>3. \A h \in H : n[h] \in l \cup {None}
  BY <1>1 DEF ListOK, Live
<1>4. L \in SUBSET S
  OBVIOUS
<1> QED
  BY <1>2, <1>3, <1>4, SortedSame

LEMMA AgeLinked ==
  ASSUME RefInv', NEW rank \in [Exps -> Nat], NEW own \in SUBSET Exps, NEW S \in SUBSET Exps, AgeInv(rank, own, S)'
  PROVE  AgeInv(rank, own, linked)'
<1>1. /\ linked' \in SUBSET S /\ own \in SUBSET linked' /\ linked' \in SUBSET linked'
      /\ nxt' \in Pointers(Exps \cup Heads) /\ lnxt' \in Pointers(Exps \cup Masters)
      /\ Heads \in SUBSET ((Exps \cup Heads) \ Exps) /\ Masters \in SUBSET ((Exps \cup Masters) \ Exps)
      /\ Exps \subseteq Exps \cup Heads /\ Exps \subseteq Exps \cup Masters
  BY ExpsAssumption DEF AgeInv, RefInv, TypeOK, Pointers
<1>2. ListOK(linked', nxt') /\ ListOK(linked', lnxt')
  BY DEF RefInv, ListInv
<1>3. Sorted(S, linked', nxt', Heads, Buckets', rank) /\ Sorted(S, own, lnxt', Masters, master', rank)
  BY DEF AgeInv
<1>4. Sorted(linked', linked', nxt', Heads, Buckets', rank)
  BY <1>1, <1>2, <1>3, SortedLinked
<1>5. Sorted(linked', own, lnxt', Masters, master', rank)
  BY <1>1, <1>2, <1>3, SortedLinked
<1>6. linked' \subseteq allocated' /\ (\E top \in Nat : \A e \in linked' : rank[e] < top)
      /\ \A e, f \in linked' : rank[e] = rank[f] => e = f
  BY <1>1 DEF AgeInv
<1>7. \A e \in linked' : timer'[e] = "armed" => e \in own
  BY DEF AgeInv
<1> QED
  BY <1>1, <1>4, <1>5, <1>6, <1>7 DEF AgeInv

\* The dump stays where it is.
LEMMA DumpStays ==
  ASSUME NEW rank, NEW S \in SUBSET Exps, NEW rank1, NEW S1 \in SUBSET Exps, linked \subseteq S, SeenInv(S),
         NEW own, StableInv(own), DumpInv(rank, S), UNCHANGED <<phase, data, bucket, arg1, node, restarted>>,
         \A e \in S : rank1[e] = rank[e] /\ tuple'[e] = tuple[e] /\ master'[e] = master[e] /\ sent'[e] = sent[e],
         \A e \in S1 : e \in S \/ sent'[e] = 0, arg1 \in S1 => arg1 \in S, stable' \subseteq stable
  PROVE  DumpInv(rank1, S1)'
<1>1. \A e \in S : (Dumped(e)' <=> Dumped(e)) /\ Number(e)' = Number(e)
  BY DEF Dumped, Number
<1>2. ASSUME NEW e \in S
      PROVE  (Behind(e, rank1, S1)' => Behind(e, rank, S)) /\ (Before(e, rank1, S1)' => Before(e, rank, S))
  <2>1. CASE arg1 # None
    BY <2>1 DEF Behind, Before
  <2>2. CASE arg1 = None
    <3>1. phase = "walk" => node \in S \cup {None}
      BY DEF SeenInv
    <3> QED
      BY <2>2, <3>1 DEF Behind, Before
  <2> QED
    BY <2>1, <2>2
<1>3. \A e \in S : (Passed(e, rank1, S1)' => Passed(e, rank, S)) /\ (Ahead(e, rank1, S1)' => Ahead(e, rank, S))
  BY <1>1, <1>2 DEF Passed, Ahead, Lists
<1>4. stable' \subseteq stable /\ stable \subseteq S
  BY DEF StableInv
<1>5. \A e \in stable' : Passed(e, rank1, S1)' => sent'[e] > 0
  BY <1>3, <1>4 DEF DumpInv
<1>6. ~restarted /\ phase # "none" => \A e \in S1 : Ahead(e, rank1, S1)' => sent'[e] = 0
  BY <1>3 DEF DumpInv
<1> QED
  BY <1>5, <1>6 DEF DumpInv

\* A step beside the dump that leaves the lists alone, but for the memory that is
\* freed and the list of a master that begins.
LEMMA ReportBeside ==
  ASSUME RefInv, ReportInv, UNCHANGED <<linked, phase, data, bucket, arg1, last, node, room, filled, restarted>>,
         graceful' \subseteq graceful,
         \A e \in allocated \ allocated' : use[e] = 0 /\ (phase = "walk" => e \in graceful),
         \A e \in allocated \cap allocated' :
           /\ tuple'[e] = tuple[e] /\ master'[e] = master[e] /\ sent'[e] = sent[e]
           /\ nxt'[e] = nxt[e] /\ lnxt'[e] = lnxt[e],
         \A e \in Exps : sent'[e] \in {sent[e], 0},
         \A h \in Heads : nxt'[h] = nxt[h],
         \A m \in Masters : lnxt'[m] = lnxt[m] \/ (lnxt'[m] = None /\ m \notin alive),
         \A e \in linked : timer'[e] = "armed" => timer[e] = "armed",
         pc' = "related" => (pc = "related" /\ exp' = exp) \/ (exp' \in Exps \ allocated /\ sent'[exp'] = 0),
         stable' \subseteq stable, data \in Masters /\ data \in alive \ alive' => stable' = {}
  PROVE  ReportInv'
<1>1. PICK rank \in [Exps -> Nat], own0 \in SUBSET Exps, S \in SUBSET Exps : OrderInv(rank, own0, S)
  BY DEF ReportInv
<1>2. PICK own \in SUBSET Exps : own = {e \in own0 : lnxt'[master[e]] = lnxt[master[e]]}
  OBVIOUS
<1>3. /\ AgeInv(rank, own0, S) /\ SeenInv(S) /\ StableInv(own0) /\ DumpInv(rank, S)
      /\ linked \subseteq S /\ S \subseteq allocated /\ own0 \subseteq linked
  BY <1>1 DEF OrderInv, AgeInv
<1>4. S \subseteq allocated'
  <2>1. ASSUME NEW e \in S, e \notin allocated' PROVE FALSE
    <3>1. e \in allocated /\ use[e] = 0 /\ (phase = "walk" => e \in graceful)
      BY <1>3, <2>1
    <3>2. phase # "walk" => e \in linked
      BY <1>3 DEF SeenInv
    <3>3. e \in linked => use[e] >= 2
      BY Facts
    <3> QED
      BY <1>3, <3>1, <3>2, <3>3 DEF SeenInv
  <2> QED
    BY <2>1
<1>5. \A e \in S : /\ e \in allocated \cap allocated' /\ tuple'[e] = tuple[e] /\ master'[e] = master[e]
                   /\ sent'[e] = sent[e] /\ nxt'[e] = nxt[e] /\ lnxt'[e] = lnxt[e] /\ e \in Exps
  BY <1>3, <1>4
<1>6. own \subseteq own0 /\ own \subseteq linked /\ own \subseteq S /\ linked \subseteq S
  BY <1>2, <1>3
<1>7. \A e \in own0 \ own : master[e] \in Masters => master[e] \notin alive
  BY <1>2
<1>8. /\ master \in [Exps -> Masters \cup {None}] /\ alive \subseteq Masters /\ stable \subseteq linked
      /\ linked \subseteq Exps
  BY <1>3 DEF RefInv, TypeOK, StableInv
<1>9. Sorted(S, linked, nxt', Heads, Buckets', rank)
  <2>1. Sorted(S, linked, nxt, Heads, Buckets, rank) /\ linked \in SUBSET S /\ linked \subseteq S /\ S \in SUBSET S
    BY <1>3 DEF AgeInv
  <2>2. \A p \in S : nxt'[p] = nxt[p] /\ Buckets'[p] = Buckets[p] /\ nxt[p] \in S \cup {None}
    BY <1>5, <2>1 DEF Buckets, Sorted
  <2>3. \A h \in Heads : nxt'[h] = nxt[h] /\ nxt[h] \in S \cup {None}
    BY <2>1 DEF Sorted
  <2> QED
    BY <2>1, <2>2, <2>3, SortedSame
<1>10. Sorted(S, own, lnxt', Masters, master', rank)
  <2>1. Sorted(S, own0, lnxt, Masters, master, rank) /\ own0 \in SUBSET S /\ own \in SUBSET own0 /\ own \subseteq S /\ S \in SUBSET S
    BY <1>3, <1>6 DEF AgeInv
  <2>2. \A p \in S : lnxt'[p] = lnxt[p] /\ master'[p] = master[p] /\ lnxt[p] \in S \cup {None}
    BY <1>5, <2>1 DEF Sorted
  <2>3. \A m \in Masters : lnxt[m] \in S \cup {None}
    BY <2>1 DEF Sorted
  <2>4. ASSUME NEW m \in Masters, lnxt'[m] # lnxt[m]
        PROVE  lnxt'[m] = None /\ \A x \in own : master[x] # m
    BY <1>2, <2>4
  <2> QED
    BY <2>1, <2>2, <2>3, <2>4, SortedSame
<1>11. \A e \in linked : timer'[e] = "armed" => e \in own
  <2>1. ASSUME NEW e \in linked, timer'[e] = "armed" PROVE e \in own
    <3>1. e \in own0
      BY <1>3, <2>1 DEF AgeInv
    <3>2. master[e] \in alive
      BY <2>1 DEF RefInv, MastersAlive
    <3> QED
      BY <1>7, <1>8, <3>1, <3>2
  <2> QED
    BY <2>1
<1>12. AgeInv(rank, own, S)'
  <2>1. (\E top \in Nat : \A e \in S : rank[e] < top) /\ \A e, f \in S : rank[e] = rank[f] => e = f
    BY <1>3 DEF AgeInv
  <2> QED
    BY <1>4, <1>6, <1>9, <1>10, <1>11, <2>1 DEF AgeInv
<1>13. SeenInv(S)'
  <2>1. phase = "walk" => S \cap graceful' = {} /\ node \in S \cup {None}
    BY <1>3 DEF SeenInv
  <2>2. phase = "walk" /\ node # None => Dumped(node)' /\ Number(node)' = bucket
    <3>1. phase = "walk" /\ node # None => tuple'[node] = tuple[node] /\ master'[node] = master[node]
      BY <1>5, <2>1
    <3> QED
      BY <1>3, <3>1 DEF SeenInv, Dumped, Number
  <2>3. ASSUME pc' = "related" PROVE exp' \notin S \cup {arg1, last} /\ sent'[exp'] = 0
    <3>1. CASE pc = "related" /\ exp' = exp
      <4>1. exp \in Exps /\ exp \notin S \cup {arg1, last} /\ sent[exp] = 0
        BY <1>3, <3>1 DEF SeenInv, RefInv, RequestInv, TypeOK
      <4> QED
        BY <3>1, <4>1
    <3>2. CASE exp' \in Exps \ allocated /\ sent'[exp'] = 0
      BY <1>3, <3>2, Facts
    <3> QED
      BY <2>3, <3>1, <3>2
  <2> QED
    BY <1>3, <2>1, <2>2, <2>3 DEF SeenInv
<1>14. StableInv(own)'
  <2>1. ASSUME NEW e \in stable'
        PROVE  e \in linked /\ tuple'[e] \in Wanted /\ Dumped(e)' /\ (data # None => e \in own)
    <3>1. e \in linked /\ e \in stable /\ e \in S /\ tuple[e] \in Wanted /\ Dumped(e) /\ (data # None => e \in own0)
      BY <1>3, <2>1 DEF StableInv
    <3>2. tuple'[e] \in Wanted /\ Dumped(e)'
      BY <1>5, <3>1 DEF Dumped
    <3>3. ASSUME data # None PROVE e \in own
      <4>1. data \in alive
        BY <3>1, <3>3 DEF ReportInv, EndInv
      <4>2. master[e] = data
        BY <3>1, <3>3 DEF Dumped
      <4> QED
        BY <1>7, <1>8, <3>1, <3>3, <4>1, <4>2
    <3> QED
      BY <3>1, <3>2, <3>3
  <2> QED
    BY <2>1 DEF StableInv
<1>15. DumpInv(rank, S)'
  BY <1>3, <1>5, DumpStays
<1>16. EndInv'
  <2>1. data # None /\ data \notin alive' => stable' = {}
    <3>1. data \in Masters \cup {None}
      BY DEF RefInv, TypeOK
    <3> QED
      BY <3>1 DEF ReportInv, EndInv
  <2>2. ~restarted => \A e \in Exps : sent'[e] <= 1
    <3>1. ~restarted => \A e \in Exps : sent[e] <= 1
      BY DEF ReportInv, EndInv
    <3> QED
      BY <3>1
  <2> QED
    BY <2>1, <2>2 DEF ReportInv, EndInv, Lists
<1>17. OrderInv(rank, own, S)'
  BY <1>12, <1>13, <1>14, <1>15 DEF OrderInv
<1> QED
  BY <1>16, <1>17 DEF ReportInv

LEMMA ReportRequests ==
  ASSUME RefInv, ReportInv,
         UNCHANGED <<memory, timer, lists, alive, callback, history>> /\ (pc' = "related" => pc = "related" /\ exp' = exp)
  PROVE  ReportInv'
BY ReportBeside

LEMMA ReportAlloc == ASSUME RefInv, ReportInv, NEW e \in Exps, Alloc(e) PROVE ReportInv'
<1>1. /\ e \notin allocated /\ allocated' = allocated \cup {e} /\ sent' = [sent EXCEPT ![e] = 0]
      /\ tuple' = [tuple EXCEPT ![e] = req.tuple] /\ master' = [master EXCEPT ![e] = ct]
      /\ pc = "alloc" /\ (pc' = "related" => exp' = e)
      /\ UNCHANGED <<timer, lists, alive, callback, stable, restarted>>
  BY DEF Alloc, Allocate
<1>2. tuple \in [Exps -> Tuples \cup {None}] /\ master \in [Exps -> Masters \cup {None}] /\ sent \in [Exps -> 0..2]
  BY DEF RefInv, TypeOK
<1>3. /\ sent'[e] = 0
      /\ \A x \in Exps : x # e => tuple'[x] = tuple[x] /\ master'[x] = master[x] /\ sent'[x] = sent[x]
  BY <1>1, <1>2
<1>4. allocated \subseteq Exps /\ data \in Masters \cup {None}
  BY DEF RefInv, TypeOK
<1> QED
  BY <1>1, <1>3, <1>4, ReportBeside

LEMMA ReportFree == ASSUME RefInv, ReportInv, NEW e \in Exps, FreeRcu(e) PROVE ReportInv'
<1>1. /\ e \in allocated /\ use[e] = 0 /\ (phase = "walk" => e \in graceful)
      /\ allocated' = allocated \ {e} /\ graceful' = graceful \ {e}
      /\ tuple' = [tuple EXCEPT ![e] = None] /\ master' = [master EXCEPT ![e] = None]
      /\ nxt' = [nxt EXCEPT ![e] = None] /\ lnxt' = [lnxt EXCEPT ![e] = None]
      /\ UNCHANGED <<timer, linked, alive, request, phase, data, bucket, arg1, last, node, room, filled, history>>
  BY DEF FreeRcu
<1>2. /\ tuple \in [Exps -> Tuples \cup {None}] /\ master \in [Exps -> Masters \cup {None}]
      /\ nxt \in [Exps \cup Heads -> Exps \cup {None}] /\ lnxt \in [Exps \cup Masters -> Exps \cup {None}]
      /\ allocated \subseteq Exps /\ e \notin Heads /\ e \notin Masters
  BY ExpsAssumption DEF RefInv, TypeOK
<1>3. /\ \A x \in Exps : x # e => tuple'[x] = tuple[x] /\ master'[x] = master[x] /\ nxt'[x] = nxt[x] /\ lnxt'[x] = lnxt[x]
      /\ (\A h \in Heads : nxt'[h] = nxt[h]) /\ \A m \in Masters : lnxt'[m] = lnxt[m]
  BY <1>1, <1>2
<1> QED
  BY <1>1, <1>2, <1>3, ReportBeside

LEMMA ReportTimer == ASSUME RefInv, ReportInv, NEW e \in Exps, TimerFires(e) \/ TimerPuts(e) PROVE ReportInv'
<1>1. /\ UNCHANGED <<memory, lists, alive, request, callback, history>>
      /\ timer' = [timer EXCEPT ![e] = "fired"] \/ timer' = [timer EXCEPT ![e] = "off"]
  BY DEF TimerFires, TimerPuts
<1>2. timer \in [Exps -> {"off", "armed", "fired", "ran"}] /\ linked \subseteq Exps
  BY DEF RefInv, TypeOK
<1>3. \A x \in linked : timer'[x] = "armed" => timer[x] = "armed"
  BY <1>1, <1>2
<1> QED
  BY <1>1, <1>3, ReportBeside

LEMMA ReportMaster ==
  ASSUME RefInv, ReportInv, NEW m \in Masters, MasterBegins(m) \/ MasterLeaves(m) \/ MasterLocks(m) \/ MasterEnds(m)
  PROVE  ReportInv'
<1>0. lnxt \in [Exps \cup Masters -> Exps \cup {None}] /\ m \notin Exps /\ allocated \subseteq Exps
  BY ExpsAssumption DEF RefInv, TypeOK
<1>1. CASE MasterBegins(m)
  <2>1. /\ m \notin alive /\ alive' = alive \cup {m} /\ lnxt' = [lnxt EXCEPT ![m] = None]
        /\ UNCHANGED <<memory, timer, linked, nxt, request, callback, history>>
    BY <1>1 DEF MasterBegins
  <2>2. lnxt'[m] = None /\ \A p \in Exps \cup Masters : p # m => lnxt'[p] = lnxt[p]
    BY <1>0, <2>1
  <2>3. \A x \in Masters : lnxt'[x] = lnxt[x] \/ (lnxt'[x] = None /\ x \notin alive)
    BY <2>1, <2>2
  <2>4. \A x \in allocated : lnxt'[x] = lnxt[x]
    BY <1>0, <2>2
  <2> QED
    BY <2>1, <2>3, <2>4, ReportBeside
<1>2. CASE MasterLeaves(m) \/ MasterLocks(m)
  BY <1>2, ReportRequests DEF MasterLeaves, MasterLocks
<1>3. CASE MasterEnds(m)
  <2>1. /\ alive' = alive \ {m} /\ stable' \subseteq stable /\ (data = m => stable' = {})
        /\ UNCHANGED <<memory, timer, lists, request, callback, sent, restarted>>
    BY <1>3 DEF MasterEnds
  <2> QED
    BY <2>1, ReportBeside
<1> QED
  BY <1>1, <1>2, <1>3

LEMMA ReportMoves ==
  ASSUME RefInv, ReportInv,
         \/ \E r \in Requests : Begin(r) \/ Queue(r)
         \/ ParseFails \/ NewFindsNothing \/ (\E e \in Exps : NewFinds(e)) \/ AllocFails
         \/ ctnetlink_glue_attach_expect \/ FindsNothing
         \/ CreateMaster \/ CreateNoHelper \/ CreatePutMaster \/ DumpFindCt \/ DumpBusy
         \/ CreatePut \/ (\E e \in Exps : FindGet(e)) \/ Get \/ DelOther \/ DelPut \/ Flush \/ FlushEnds
  PROVE  ReportInv'
<1>1. CASE \E r \in Requests : Begin(r) \/ Queue(r)
  BY <1>1, ReportRequests DEF Begin, Queue
<1>2. CASE ParseFails \/ NewFindsNothing \/ AllocFails \/ ctnetlink_glue_attach_expect \/ FindsNothing
  BY <1>2, ReportRequests DEF ParseFails, NewFindsNothing, AllocFails, ctnetlink_glue_attach_expect, FindsNothing, Done, Goto
<1>3. CASE \E e \in Exps : NewFinds(e)
  BY <1>3, ReportRequests DEF NewFinds, ctnetlink_change_expect, Done
<1>4. CASE CreateMaster \/ CreateNoHelper \/ CreatePutMaster \/ DumpFindCt
  BY <1>4, ReportRequests DEF CreateMaster, CreateNoHelper, CreatePutMaster, DumpFindCt, Done
<1>5. CASE DumpBusy
  BY <1>5, ReportRequests DEF DumpBusy, DumpRequestEnds, Done, Goto
<1>6. CASE CreatePut \/ Get \/ DelOther \/ DelPut \/ Flush \/ FlushEnds
  BY <1>6, ReportRequests DEF CreatePut, Get, DelOther, DelPut, Flush, FlushEnds, Done
<1>7. CASE \E e \in Exps : FindGet(e)
  <2>1. PICK e \in Exps : FindGet(e)
    BY <1>7
  <2>2. req.op \in {"get", "del"}
    BY <2>1 DEF FindGet, At
  <2> QED
    BY <2>1, <2>2, ReportRequests DEF FindGet
<1> QED
  BY <1>1, <1>2, <1>3, <1>4, <1>5, <1>6, <1>7

\* An expectation is unlinked; a callback may still see it.
LEMMA ReportUnlink ==
  ASSUME RefInv, RefInv', ReportInv, NEW e \in linked, Unlink(e),
         UNCHANGED <<memory, alive, callback, sent, restarted>>,
         \A x \in linked \ {e} : timer'[x] = "armed" => timer[x] = "armed",
         pc' = "related" => pc = "related" /\ exp' = exp
  PROVE  ReportInv'
<1>1. PICK rank \in [Exps -> Nat], own0 \in SUBSET Exps, S0 \in SUBSET Exps : OrderInv(rank, own0, S0)
  BY DEF ReportInv
<1>2. PICK own \in SUBSET Exps : own = own0 \ {e}
  OBVIOUS
<1>3. /\ AgeInv(rank, own0, S0) /\ SeenInv(S0) /\ StableInv(own0) /\ DumpInv(rank, S0)
      /\ linked \in SUBSET S0 /\ S0 \subseteq allocated /\ own0 \in SUBSET linked
  BY <1>1 DEF OrderInv, AgeInv
<1>4. linked' = linked \ {e} /\ nxt' = Bypass(linked, nxt, e) /\ lnxt' = Bypass(linked, lnxt, e) /\ stable' = stable \ {e}
  BY DEF Unlink
<1>5. /\ nxt \in Pointers(Exps \cup Heads) /\ lnxt \in Pointers(Exps \cup Masters)
      /\ Heads \in SUBSET ((Exps \cup Heads) \ Exps) /\ Masters \in SUBSET ((Exps \cup Masters) \ Exps)
      /\ Exps \subseteq Exps \cup Heads /\ Exps \subseteq Exps \cup Masters /\ linked \in SUBSET Exps
  BY ExpsAssumption DEF RefInv, TypeOK, Pointers
<1>6. \A p, q \in S0 : rank[p] = rank[q] => p = q
  BY <1>3 DEF AgeInv
<1>7. Sorted(S0, linked', nxt', Heads, Buckets', rank)
  <2>1. Sorted(S0, linked, nxt, Heads, Buckets, rank) /\ linked \in SUBSET linked /\ linked \subseteq S0 /\ Buckets' = Buckets
    BY <1>3 DEF AgeInv, Buckets
  <2>2. Sorted(S0, linked \ {e}, Bypass(linked, nxt, e), Heads, Buckets, rank)
    BY <1>5, <1>6, <2>1, SortedBypass
  <2> QED
    BY <1>4, <2>1, <2>2
<1>8. Sorted(S0, own, lnxt', Masters, master', rank)
  <2>1. Sorted(S0, own0, lnxt, Masters, master, rank) /\ linked \subseteq S0
    BY <1>3 DEF AgeInv
  <2>2. Sorted(S0, own0 \ {e}, Bypass(linked, lnxt, e), Masters, master, rank)
    BY <1>3, <1>5, <1>6, <2>1, SortedBypass
  <2> QED
    BY <1>2, <1>4, <2>2
<1>9. AgeInv(rank, own, S0)'
  <2>1. \E top \in Nat : \A x \in S0 : rank[x] < top
    BY <1>3 DEF AgeInv
  <2>2. \A x \in linked' : timer'[x] = "armed" => x \in own
    BY <1>2, <1>3, <1>4 DEF AgeInv
  <2> QED
    BY <1>2, <1>3, <1>4, <1>6, <1>7, <1>8, <2>1, <2>2 DEF AgeInv
<1>10. PICK S \in SUBSET Exps : S = IF phase = "walk" THEN S0 ELSE linked'
  BY <1>4, <1>5
<1>11. AgeInv(rank, own, S)'
  <2>1. CASE phase = "walk"
    BY <1>9, <1>10, <2>1
  <2>2. CASE phase # "walk"
    <3>1. AgeInv(rank, own, linked)'
      BY <1>9, AgeLinked
    <3>2. S = linked'
      BY <1>10, <2>2
    <3> QED
      BY <3>1, <3>2 DEF AgeInv
  <2> QED
    BY <2>1, <2>2
<1>12. S \subseteq S0 /\ linked' \subseteq S
  BY <1>3, <1>4, <1>10
<1>13. SeenInv(S)'
  <2>1. phase = "walk" => S = S0
    BY <1>10
  <2>2. phase # "walk" => S = linked'
    BY <1>10
  <2>3. pc' = "related" => exp' \notin S \cup {arg1, last} /\ sent[exp'] = 0
    BY <1>3, <1>12 DEF SeenInv
  <2> QED
    BY <1>3, <2>1, <2>2, <2>3 DEF SeenInv, Dumped, Number
<1>14. StableInv(own)'
  BY <1>2, <1>3, <1>4 DEF StableInv, Dumped
<1>15. DumpInv(rank, S)'
  <2>1. linked \subseteq S0 /\ stable' \subseteq stable
    BY <1>3, <1>4
  <2> QED
    BY <1>3, <1>12, <2>1, DumpStays
<1>16. EndInv'
  BY <1>4 DEF ReportInv, EndInv, Lists
<1>17. OrderInv(rank, own, S)'
  BY <1>11, <1>13, <1>14, <1>15 DEF OrderInv
<1> QED
  BY <1>16, <1>17 DEF ReportInv

LEMMA ReportUnlinks ==
  ASSUME RefInv, RefInv', ReportInv,
         \/ \E e \in Exps : PacketExpected(e) \/ TimerUnlinks(e) \/ FlushEach(e)
         \/ \E m \in Masters, e \in Exps : MasterRemoves(m, e)
         \/ Del
  PROVE  ReportInv'
<1>0. TimerInv /\ RequestInv /\ LockInv /\ TypeOK /\ timer \in [Exps -> {"off", "armed", "fired", "ran"}] /\ linked \subseteq Exps
  BY DEF RefInv, TypeOK
<1>1. ASSUME NEW e \in linked, Remove(e), UNCHANGED <<memory, alive, callback, sent, restarted>>,
             pc' = "related" => pc = "related" /\ exp' = exp
      PROVE  ReportInv'
  <2>1. Unlink(e) /\ timer' = [timer EXCEPT ![e] = "off"]
    BY <1>1 DEF Remove
  <2>2. \A x \in linked \ {e} : timer'[x] = timer[x]
    BY <1>0, <2>1
  <2> QED
    BY <1>1, <2>1, <2>2, ReportUnlink
<1>2. ASSUME NEW e \in Exps, PacketExpected(e) PROVE ReportInv'
  BY <1>1, <1>2 DEF PacketExpected
<1>3. ASSUME NEW e \in Exps, TimerUnlinks(e) PROVE ReportInv'
  <2>1. /\ timer[e] = "fired" /\ Unlink(e) /\ timer' = [timer EXCEPT ![e] = "ran"]
        /\ UNCHANGED <<memory, alive, request, callback, sent, restarted>>
    BY <1>3 DEF TimerUnlinks
  <2>2. e \in linked /\ \A x \in linked \ {e} : timer'[x] = timer[x]
    BY <1>0, <2>1 DEF TimerInv
  <2> QED
    BY <2>1, <2>2, ReportUnlink
<1>4. ASSUME NEW m \in Masters, NEW e \in Exps, MasterRemoves(m, e) PROVE ReportInv'
  BY <1>1, <1>4 DEF MasterRemoves
<1>5. CASE Del
  <2>1. exp \in Exps /\ pc' = "put" /\ exp' = exp /\ UNCHANGED <<memory, alive, callback, sent, restarted>>
    BY <1>0, <1>5 DEF Del, Goto, RequestInv, TypeOK
  <2>2. CASE timer[exp] = "armed"
    <3>1. exp \in linked /\ Remove(exp)
      BY <1>0, <1>5, <2>1, <2>2 DEF TimerInv, Del
    <3> QED
      BY <1>1, <2>1, <3>1
  <2>3. CASE timer[exp] # "armed"
    <3>1. UNCHANGED <<timer, lists, stable>>
      BY <1>5, <2>3 DEF Del
    <3> QED
      BY <2>1, <3>1, ReportRequests
  <2> QED
    BY <2>2, <2>3
<1>6. ASSUME NEW e \in Exps, FlushEach(e) PROVE ReportInv'
  <2>1. e \in linked /\ UNCHANGED <<pc, exp, memory, alive, callback, sent, restarted>>
    BY <1>0, <1>6 DEF FlushEach, LockInv
  <2>2. CASE Remove(e)
    BY <1>1, <2>1, <2>2
  <2>3. CASE UNCHANGED <<use, timer, lists, stable>>
    BY <2>1, <2>3, ReportRequests
  <2> QED
    BY <1>6, <2>2, <2>3 DEF FlushEach
<1> QED
  BY <1>2, <1>3, <1>4, <1>5, <1>6

\* A new expectation, the youngest, is linked in the place of one that is the same.
LEMMA ReportRelated ==
  ASSUME RefInv, RefInv', ReportInv, NEW e \in Exps \ linked, NEW t \in Tuples, NEW m \in Masters, NEW u,
         Related(e, t, m, u), tuple'[e] = t, master'[e] = m, e \in allocated', allocated \subseteq allocated', e \notin graceful,
         \A x \in Exps : x # e => tuple'[x] = tuple[x] /\ master'[x] = master[x] /\ sent'[x] = sent[x],
         (e \notin allocated /\ sent'[e] = 0) \/ (pc = "related" /\ e = exp /\ sent' = sent),
         pc' = "related" => pc = "related" /\ exp' = exp /\ exp # e,
         UNCHANGED <<alive, callback, restarted>>
  PROVE  ReportInv'
<1> DEFINE old == Replaced(t, m)
<1>1. PICK rank0 \in [Exps -> Nat], own0 \in SUBSET Exps, S0 \in SUBSET Exps : OrderInv(rank0, own0, S0)
  BY DEF ReportInv
<1>2. /\ AgeInv(rank0, own0, S0) /\ SeenInv(S0) /\ StableInv(own0) /\ DumpInv(rank0, S0)
      /\ linked \in SUBSET S0 /\ linked \subseteq S0 /\ S0 \subseteq allocated /\ own0 \in SUBSET linked
      /\ (\A p, q \in S0 : rank0[p] = rank0[q] => p = q) /\ \A x \in linked : timer[x] = "armed" => x \in own0
      /\ Sorted(S0, linked, nxt, Heads, Buckets, rank0) /\ Sorted(S0, own0, lnxt, Masters, master, rank0)
  BY <1>1 DEF OrderInv, AgeInv
<1>3. e \notin S0 /\ e # arg1 /\ sent'[e] = 0
  <2>1. CASE e \notin allocated /\ sent'[e] = 0
    BY <1>2, <2>1, Facts
  <2>2. CASE pc = "related" /\ e = exp /\ sent' = sent
    BY <1>2, <2>2 DEF SeenInv
  <2> QED
    BY <2>1, <2>2
<1>4. PICK top \in Nat : \A x \in S0 : rank0[x] < top
  BY <1>2 DEF AgeInv
<1>5. PICK rank \in [Exps -> Nat] : rank = [rank0 EXCEPT ![e] = top]
  OBVIOUS
<1>6. PICK own \in SUBSET Exps : own = (own0 \ old) \cup {e}
  OBVIOUS
<1>7. rank[e] = top /\ \A x \in S0 : rank[x] = rank0[x] /\ rank[x] < rank[e] /\ x # e /\ x \in Exps
  BY <1>3, <1>4, <1>5
<1>8. /\ linked' = (linked \ old) \cup {e} /\ stable' = stable \ old
      /\ nxt' = Added(Without(nxt, old), e, Hash[t]) /\ lnxt' = Added(Without(lnxt, old), e, m)
      /\ timer' = [x \in Exps |-> IF x = e THEN "armed" ELSE IF x \in old THEN "off" ELSE timer[x]]
  BY DEF Related
<1>9. /\ nxt \in Pointers(Exps \cup Heads) /\ lnxt \in Pointers(Exps \cup Masters)
      /\ Heads \in SUBSET ((Exps \cup Heads) \ Exps) /\ Masters \in SUBSET ((Exps \cup Masters) \ Exps)
      /\ Exps \subseteq Exps \cup Heads /\ Exps \subseteq Exps \cup Masters /\ linked \in SUBSET Exps
      /\ Hash[t] \in Heads
  BY ExpsAssumption, SizeAssumption DEF RefInv, TypeOK, Pointers
<1>10. /\ Sorted(S0, linked \ old, Without(nxt, old), Heads, Buckets, rank0)
       /\ Sorted(S0, own0 \ old, Without(lnxt, old), Masters, master, rank0)
       /\ Without(nxt, old) \in Pointers(Exps \cup Heads) /\ Without(lnxt, old) \in Pointers(Exps \cup Masters)
  <2>1. CASE old = {}
    <3>1. Without(nxt, old) = nxt /\ Without(lnxt, old) = lnxt /\ linked \ old = linked /\ own0 \ old = own0
      BY <2>1 DEF Without
    <3> HIDE DEF old
    <3> QED
      BY <1>2, <1>9, <3>1
  <2>2. CASE old # {}
    <3>1. PICK x \in old : TRUE
      BY <2>2
    <3>2. x \in linked /\ old = {x} /\ x = CHOOSE y \in old : TRUE
      BY <3>1, OneReplaced
    <3>3. /\ Without(nxt, old) = Bypass(linked, nxt, x) /\ Without(lnxt, old) = Bypass(linked, lnxt, x)
          /\ linked \ old = linked \ {x} /\ own0 \ old = own0 \ {x} /\ x \in Exps
      BY <1>9, <2>2, <3>2 DEF Without
    <3> HIDE DEF old
    <3>4. Sorted(S0, linked \ {x}, Bypass(linked, nxt, x), Heads, Buckets, rank0)
      <4>1. linked \in SUBSET linked
        OBVIOUS
      <4> QED
        BY <1>2, <1>9, <3>2, <4>1, SortedBypass
    <3>5. Sorted(S0, own0 \ {x}, Bypass(linked, lnxt, x), Masters, master, rank0)
      BY <1>2, <1>9, <3>2, SortedBypass
    <3>6. Bypass(linked, nxt, x) \in Pointers(Exps \cup Heads) /\ Bypass(linked, lnxt, x) \in Pointers(Exps \cup Masters)
      BY <1>9, <3>3, BypassType
    <3> QED
      BY <3>3, <3>4, <3>5, <3>6
  <2> QED
    BY <2>1, <2>2
<1> HIDE DEF old
<1>11. /\ linked \ old \in SUBSET S0 /\ own0 \ old \in SUBSET S0 /\ e \in Exps \ S0
       /\ Buckets'[e] = Hash[t] /\ \A x \in S0 : Buckets'[x] = Buckets[x] /\ master'[x] = master[x]
  BY <1>2, <1>3, <1>7 DEF Buckets
<1>12. Sorted(S0 \cup {e}, linked', nxt', Heads, Buckets', rank)
  <2>1. Sorted(S0 \cup {e}, (linked \ old) \cup {e}, Added(Without(nxt, old), e, Hash[t]), Heads, Buckets', rank)
    BY <1>7, <1>9, <1>10, <1>11, SortedAdded
  <2> QED
    BY <1>8, <2>1
<1>13. Sorted(S0 \cup {e}, own, lnxt', Masters, master', rank)
  <2>1. Sorted(S0 \cup {e}, (own0 \ old) \cup {e}, Added(Without(lnxt, old), e, m), Masters, master', rank)
    BY <1>7, <1>9, <1>10, <1>11, SortedAdded
  <2> QED
    BY <1>6, <1>8, <2>1
<1>14. PICK S1 \in SUBSET Exps : S1 = S0 \cup {e}
  OBVIOUS
<1>15. AgeInv(rank, own, S1)'
  <2>1. top + 1 \in Nat /\ \A x \in S1 : rank[x] < top + 1
    BY <1>4, <1>7, <1>14
  <2>2. \A p, q \in S1 : rank[p] = rank[q] => p = q
    BY <1>2, <1>7, <1>14
  <2>3. linked' \subseteq S1 /\ S1 \subseteq allocated' /\ own \subseteq linked'
    BY <1>2, <1>6, <1>8, <1>14
  <2>4. \A x \in linked' : timer'[x] = "armed" => x \in own
    BY <1>2, <1>6, <1>8, <1>9
  <2>5. \E n \in Nat : \A x \in S1 : rank[x] < n
    BY <2>1
  <2> QED
    BY <1>12, <1>13, <1>14, <2>2, <2>3, <2>4, <2>5 DEF AgeInv
<1>16. PICK S \in SUBSET Exps : S = IF phase = "walk" THEN S1 ELSE linked'
  BY <1>8, <1>9
<1>17. AgeInv(rank, own, S)'
  <2>1. CASE phase = "walk"
    BY <1>15, <1>16, <2>1
  <2>2. CASE phase # "walk"
    <3>1. AgeInv(rank, own, linked)'
      BY <1>15, AgeLinked
    <3>2. S = linked'
      BY <1>16, <2>2
    <3> QED
      BY <3>1, <3>2 DEF AgeInv
  <2> QED
    BY <2>1, <2>2
<1>18. S \subseteq S0 \cup {e} /\ linked' \subseteq S
  BY <1>2, <1>8, <1>14, <1>16
<1>19. SeenInv(S)'
  <2>1. phase = "walk" => S = S0 \cup {e} /\ S0 \cap graceful = {} /\ node \in S0 \cup {None}
    BY <1>2, <1>14, <1>16 DEF SeenInv
  <2>2. phase # "walk" => S = linked'
    BY <1>16
  <2>3. pc' = "related" => exp' \notin S \cup {arg1, last} /\ sent'[exp'] = 0
    <3>1. pc = "related" => exp \in Exps /\ exp \notin S0 \cup {arg1, last} /\ sent[exp] = 0
      BY <1>2 DEF SeenInv, RefInv, RequestInv, TypeOK
    <3> QED
      BY <1>18, <3>1
  <2>4. phase = "walk" /\ node # None => Dumped(node)' /\ Number(node)' = bucket
    <3>1. phase = "walk" /\ node # None => tuple'[node] = tuple[node] /\ master'[node] = master[node]
      BY <1>7, <2>1
    <3> QED
      BY <1>2, <3>1 DEF SeenInv, Dumped, Number
  <2> QED
    BY <2>1, <2>2, <2>3, <2>4 DEF SeenInv
<1>20. StableInv(own)'
  <2>1. ASSUME NEW x \in stable \ old
        PROVE  x \in linked' /\ tuple'[x] \in Wanted /\ Dumped(x)' /\ (data # None => x \in own)
    <3>1. x \in linked /\ x \in S0 /\ tuple[x] \in Wanted /\ Dumped(x) /\ (data # None => x \in own0)
      BY <1>2 DEF StableInv
    <3>2. tuple'[x] = tuple[x] /\ master'[x] = master[x]
      BY <1>7, <3>1
    <3> QED
      BY <1>6, <1>8, <3>1, <3>2 DEF Dumped
  <2> QED
    BY <1>8, <2>1 DEF StableInv
<1>21. DumpInv(rank, S)'
  <2>1. \A x \in S0 : rank[x] = rank0[x] /\ tuple'[x] = tuple[x] /\ master'[x] = master[x] /\ sent'[x] = sent[x]
    BY <1>7
  <2>2. (\A x \in S : x \in S0 \/ sent'[x] = 0) /\ (arg1 \in S => arg1 \in S0) /\ stable' \subseteq stable
    BY <1>3, <1>8, <1>18
  <2> QED
    BY <1>2, <2>1, <2>2, DumpStays
<1>22. EndInv'
  <2>1. ~restarted => \A x \in Exps : sent'[x] <= 1
    BY <1>3 DEF ReportInv, EndInv
  <2> QED
    BY <1>8, <2>1 DEF ReportInv, EndInv, Lists
<1>23. OrderInv(rank, own, S)'
  BY <1>17, <1>19, <1>20, <1>21 DEF OrderInv
<1> QED
  BY <1>22, <1>23 DEF ReportInv

LEMMA ReportCreates ==
  ASSUME RefInv, RefInv', ReportInv, CreateRelated \/ \E e \in Exps, t \in Tuples, m \in Masters : HelperExpects(e, t, m)
  PROVE  ReportInv'
<1>0. /\ RequestInv /\ TypeOK /\ \A x \in graceful : use[x] = 0 /\ x \in allocated
      /\ tuple \in [Exps -> Tuples \cup {None}] /\ master \in [Exps -> Masters \cup {None}] /\ sent \in [Exps -> 0..2]
  BY DEF RefInv, TypeOK, WalkInv
<1>1. CASE CreateRelated
  <2>1. pc = "related" /\ pc' = "putexp" /\ UNCHANGED <<memory, masters, exp, callback, sent, restarted>>
    BY <1>1 DEF CreateRelated, Goto
  <2>2. /\ exp \in Exps \ linked /\ ct \in Masters /\ req.tuple \in Tuples
        /\ tuple[exp] = req.tuple /\ master[exp] = ct
    BY <1>0, <2>1 DEF RequestInv, TypeOK, Request
  <2>3. use[exp] >= 1 /\ exp \in allocated /\ exp \notin graceful
    BY <1>0, <2>2, Facts DEF RefInv, Counted, ExpectationsAlive
  <2>4. CASE Clashes(req.tuple, ct)
    <3>1. UNCHANGED <<timer, lists, stable>>
      BY <1>1, <2>4 DEF CreateRelated
    <3> QED
      BY <2>1, <3>1, ReportRequests
  <2>5. CASE ~Clashes(req.tuple, ct)
    <3>1. Related(exp, req.tuple, ct, use[exp])
      BY <1>1, <2>5 DEF CreateRelated
    <3> QED
      BY <2>1, <2>2, <2>3, <3>1, ReportRelated
  <2> QED
    BY <2>4, <2>5
<1>2. ASSUME NEW e \in Exps, NEW t \in Tuples, NEW m \in Masters, HelperExpects(e, t, m)
      PROVE  ReportInv'
  <2>1. /\ e \notin allocated /\ Related(e, t, m, 0) /\ UNCHANGED <<alive, request, callback, restarted>>
        /\ allocated' = allocated \cup {e} /\ tuple' = [tuple EXCEPT ![e] = t]
        /\ master' = [master EXCEPT ![e] = m] /\ sent' = [sent EXCEPT ![e] = 0]
    BY <1>2 DEF HelperExpects, Allocate
  <2>2. e \notin linked /\ exp # e
    BY <2>1, Facts
  <2>3. /\ sent'[e] = 0 /\ tuple'[e] = t /\ master'[e] = m
        /\ \A x \in Exps : x # e => tuple'[x] = tuple[x] /\ master'[x] = master[x] /\ sent'[x] = sent[x]
    BY <1>0, <2>1
  <2> QED
    BY <1>0, <2>1, <2>2, <2>3, ReportRelated
<1> QED
  BY <1>1, <1>2

-----------------------------------------------------------------------------
(* What the steps of the dump report.                                      *)

\* The number of a list that the dump has to report from.
LEMMA NumberOfList ==
  ASSUME RefInv, NEW own, StableInv(own), NEW e \in stable
  PROVE  Number(e) \in Nat /\ Number(e) < Lists /\ e \in linked /\ Dumped(e) /\ (data # None => e \in own)
<1>1. tuple[e] \in Tuples /\ Hash[tuple[e]] \in 0..Size - 1 /\ Size \in Nat
  BY TuplesAssumption, SizeAssumption DEF StableInv, Heads
<1>2. Number(e) \in Nat /\ Number(e) < Lists
  BY <1>1 DEF Number, Lists
<1> QED
  BY <1>2 DEF StableInv

\* The head of a list leads to its youngest member.
LEMMA FirstOf ==
  ASSUME RefInv, NEW rank \in [Exps -> Nat], NEW own \in SUBSET Exps, NEW S \in SUBSET Exps, AgeInv(rank, own, S),
         NEW b \in Nat, b < Lists
  PROVE  /\ First(b) \in S \cup {None} /\ (First(b) # None => Dumped(First(b)) /\ Number(First(b)) = b)
         /\ \A x \in linked : Dumped(x) /\ Number(x) = b /\ (data # None => x \in own)
              => First(b) # None /\ rank[x] <= rank[First(b)]
<1>0. linked \subseteq Exps /\ S \subseteq Exps /\ own \subseteq linked /\ linked \subseteq S
  BY DEF AgeInv, RefInv, TypeOK
<1>1. CASE data = None
  <2>1. b \in Heads /\ First(b) = nxt[b] /\ Sorted(S, linked, nxt, Heads, Buckets, rank)
    BY <1>1, SizeAssumption DEF Heads, Lists, First, AgeInv
  <2>2. nxt[b] \in S \cup {None} /\ (nxt[b] # None => Buckets[nxt[b]] = b)
    BY <2>1 DEF Sorted
  <2>3. \A x \in linked : Buckets[x] = b => nxt[b] # None /\ rank[x] <= rank[nxt[b]]
    BY <2>1 DEF Sorted
  <2>4. \A x \in Exps : Buckets[x] = Number(x) /\ Dumped(x)
    BY <1>1 DEF Buckets, Number, Dumped
  <2> QED
    BY <1>0, <2>1, <2>2, <2>3, <2>4
<1>2. CASE data # None
  <2>1. data \in Masters /\ b = 0 /\ First(b) = lnxt[data] /\ Sorted(S, own, lnxt, Masters, master, rank)
    BY <1>2 DEF Lists, First, AgeInv, RefInv, TypeOK
  <2>2. lnxt[data] \in S \cup {None} /\ (lnxt[data] # None => master[lnxt[data]] = data)
    BY <2>1 DEF Sorted
  <2>3. \A x \in own : master[x] = data => lnxt[data] # None /\ rank[x] <= rank[lnxt[data]]
    BY <2>1 DEF Sorted
  <2>4. \A x : Number(x) = 0 /\ (Dumped(x) <=> master[x] = data)
    BY <1>2 DEF Number, Dumped
  <2> QED
    BY <1>2, <2>1, <2>2, <2>3, <2>4
<1> QED
  BY <1>1, <1>2

\* A member leads to the next older one of its list.
LEMMA SuccOf ==
  ASSUME RefInv, NEW rank \in [Exps -> Nat], NEW own \in SUBSET Exps, NEW S \in SUBSET Exps, AgeInv(rank, own, S),
         NEW p \in S, Dumped(p)
  PROVE  /\ Succ(p) \in S \cup {None}
         /\ Succ(p) # None => Dumped(Succ(p)) /\ Number(Succ(p)) = Number(p) /\ rank[Succ(p)] < rank[p]
         /\ \A x \in linked : Dumped(x) /\ Number(x) = Number(p) /\ (data # None => x \in own) /\ rank[x] < rank[p]
              => Succ(p) # None /\ rank[x] <= rank[Succ(p)]
<1>0. linked \subseteq Exps /\ S \subseteq Exps /\ own \subseteq linked /\ linked \subseteq S
  BY DEF AgeInv, RefInv, TypeOK
<1>1. CASE data = None
  <2>1. Succ(p) = nxt[p] /\ Sorted(S, linked, nxt, Heads, Buckets, rank)
    BY <1>1 DEF Succ, AgeInv
  <2>2. nxt[p] \in S \cup {None} /\ (nxt[p] # None => Buckets[nxt[p]] = Buckets[p] /\ rank[nxt[p]] < rank[p])
    BY <2>1 DEF Sorted
  <2>3. \A x \in linked : Buckets[x] = Buckets[p] /\ rank[x] < rank[p] => nxt[p] # None /\ rank[x] <= rank[nxt[p]]
    BY <2>1 DEF Sorted
  <2>4. \A x \in Exps : Buckets[x] = Number(x) /\ Dumped(x)
    BY <1>1 DEF Buckets, Number, Dumped
  <2> QED
    BY <1>0, <2>1, <2>2, <2>3, <2>4
<1>2. CASE data # None
  <2>1. Succ(p) = lnxt[p] /\ Sorted(S, own, lnxt, Masters, master, rank)
    BY <1>2 DEF Succ, AgeInv
  <2>2. lnxt[p] \in S \cup {None} /\ (lnxt[p] # None => master[lnxt[p]] = master[p] /\ rank[lnxt[p]] < rank[p])
    BY <2>1 DEF Sorted
  <2>3. \A x \in own : master[x] = master[p] /\ rank[x] < rank[p] => lnxt[p] # None /\ rank[x] <= rank[lnxt[p]]
    BY <2>1 DEF Sorted
  <2>4. \A x : Number(x) = 0 /\ (Dumped(x) <=> master[x] = data)
    BY <1>2 DEF Number, Dumped
  <2> QED
    BY <1>2, <2>1, <2>2, <2>3, <2>4
<1> QED
  BY <1>1, <1>2

\* The lists stay as they are.
LEMMA AgeStays ==
  ASSUME NEW rank, NEW own, NEW S, AgeInv(rank, own, S), UNCHANGED state
  PROVE  AgeInv(rank, own, S)'
<1>1. Buckets' = Buckets
  BY DEF Buckets
<1> QED
  BY <1>1 DEF AgeInv

LEMMA StableStays ==
  ASSUME NEW own, StableInv(own), UNCHANGED <<state, data, stable>>
  PROVE  StableInv(own)' /\ \A e : (Dumped(e)' <=> Dumped(e)) /\ Number(e)' = Number(e)
BY DEF StableInv, Dumped, Number

\* The dump goes on behind the member that it is at.
LEMMA GoOn ==
  ASSUME RefInv, NEW rank \in [Exps -> Nat], NEW own \in SUBSET Exps, NEW S \in SUBSET Exps, AgeInv(rank, own, S),
         SeenInv(S), StableInv(own), DumpInv(rank, S), phase = "walk", node # None, arg1 \in {None, node},
         UNCHANGED <<state, data, stable, phase, bucket, restarted>>, node' = Succ(node), arg1' = None,
         \A x \in Exps : x # node => sent'[x] = sent[x], node \in stable => sent'[node] > 0
  PROVE  DumpInv(rank, S)'
<1>1. /\ node \in S /\ node \in Exps /\ Dumped(node) /\ Number(node) = bucket /\ linked \subseteq S
      /\ (\A p, q \in S : rank[p] = rank[q] => p = q) /\ (\A p \in S : rank[p] \in Nat) /\ bucket \in Int
  BY DEF SeenInv, AgeInv, RefInv, TypeOK
<1>2. /\ node' \in S \cup {None} /\ (node' # None => rank[node'] < rank[node])
      /\ \A x \in linked : Dumped(x) /\ Number(x) = bucket /\ (data # None => x \in own) /\ rank[x] < rank[node]
            => node' # None /\ rank[x] <= rank[node']
  BY <1>1, SuccOf
<1>3. \A e : (Dumped(e)' <=> Dumped(e)) /\ Number(e)' = Number(e)
  BY StableStays
<1>4. ASSUME NEW e \in stable, Passed(e, rank, S)' PROVE sent'[e] > 0
  <2>1. e \in linked /\ e \in S /\ e \in Exps /\ Dumped(e) /\ (data # None => e \in own)
    BY <1>1, NumberOfList
  <2>2. Number(e) < bucket \/ (Number(e) = bucket /\ (node' = None \/ rank[e] > rank[node']))
    BY <1>3, <1>4 DEF Passed, Behind
  <2>3. CASE e = node
    BY <2>3
  <2>4. CASE e # node
    <3>1. Number(e) = bucket => ~(rank[e] < rank[node])
      BY <1>1, <1>2, <2>1, <2>2
    <3>2. rank[e] # rank[node]
      BY <1>1, <2>1, <2>4
    <3>3. Number(e) < bucket \/ (Number(e) = bucket /\ rank[e] > rank[node])
      BY <1>1, <2>1, <2>2, <3>1, <3>2
    <3>4. Passed(e, rank, S)
      BY <1>1, <3>3 DEF Passed, Behind
    <3> QED
      BY <2>1, <2>4, <3>4 DEF DumpInv
  <2> QED
    BY <2>3, <2>4
<1>5. ASSUME NEW e \in S, Ahead(e, rank, S)', ~restarted PROVE sent'[e] = 0
  <2>1. /\ bucket < Lists /\ Dumped(e) /\ Number(e) \in Nat
        /\ Number(e) > bucket \/ (Number(e) = bucket /\ node' # None /\ rank[e] <= rank[node'])
    BY <1>3, <1>5 DEF Ahead, Before, Lists
  <2>2. e # node /\ (Number(e) = bucket => rank[e] <= rank[node])
    BY <1>1, <1>2, <2>1
  <2>3. Ahead(e, rank, S)
    BY <1>1, <2>1, <2>2 DEF Ahead, Before
  <2> QED
    BY <1>5, <2>2, <2>3 DEF DumpInv
<1> QED
  BY <1>4, <1>5 DEF DumpInv

\* The dump is at a list that it has not begun, or begins it.
LEMMA Begins ==
  ASSUME RefInv, NEW rank \in [Exps -> Nat], NEW own \in SUBSET Exps, NEW S \in SUBSET Exps, AgeInv(rank, own, S),
         StableInv(own), UNCHANGED <<state, data, stable, sent>>, arg1' = None, phase' = "walk",
         bucket' \in Nat, bucket' <= Lists, node' = First(bucket'),
         \A e \in stable : Number(e) < bucket' => sent[e] > 0,
         ~restarted' => \A e \in S : bucket' < Lists /\ Dumped(e) /\ Number(e) \in Nat /\ (Number(e) > bucket' \/ Number(e) = bucket')
                          => sent[e] = 0
  PROVE  /\ DumpInv(rank, S)' /\ node' \in S \cup {None}
         /\ node' # None => Dumped(node)' /\ Number(node)' = bucket'
<1>1. \A e : (Dumped(e)' <=> Dumped(e)) /\ Number(e)' = Number(e)
  BY StableStays
<1>2. Lists' = Lists
  BY DEF Lists
<1>3. CASE bucket' = Lists
  <2>1. node' = None
    BY <1>3 DEF First
  <2>2. \A e \in stable : Number(e) < bucket'
    BY <1>3, NumberOfList
  <2>3. \A e : ~Ahead(e, rank, S)'
    BY <1>2, <1>3, SizeAssumption DEF Ahead, Lists
  <2> QED
    BY <2>1, <2>2, <2>3 DEF DumpInv
<1>4. CASE bucket' < Lists
  <2>1. /\ node' \in S \cup {None} /\ (node' # None => Dumped(node') /\ Number(node') = bucket')
        /\ \A x \in linked : Dumped(x) /\ Number(x) = bucket' /\ (data # None => x \in own)
              => node' # None /\ rank[x] <= rank[node']
    BY <1>4, FirstOf
  <2>2. node' # None => Dumped(node)' /\ Number(node)' = bucket'
    BY <2>1 DEF Dumped, Number
  <2>3. \A p \in S : rank[p] \in Nat
    OBVIOUS
  <2>4. ASSUME NEW e \in stable, Passed(e, rank, S)' PROVE sent[e] > 0
    <3>1. /\ e \in linked /\ Dumped(e) /\ (data # None => e \in own) /\ e \in S
      BY NumberOfList DEF AgeInv
    <3>2. Number(e) < bucket' \/ (Number(e) = bucket' /\ (node' = None \/ rank[e] > rank[node']))
      BY <1>1, <2>4 DEF Passed, Behind
    <3>3. Number(e) # bucket'
      BY <2>1, <2>3, <3>1, <3>2
    <3> QED
      BY <3>2, <3>3
  <2>5. ASSUME NEW e \in S, Ahead(e, rank, S)', ~restarted' PROVE sent[e] = 0
    <3>1. Dumped(e) /\ Number(e) \in Nat /\ (Number(e) > bucket' \/ Number(e) = bucket')
      BY <1>1, <2>5 DEF Ahead
    <3> QED
      BY <1>4, <2>5, <3>1
  <2> QED
    BY <2>1, <2>2, <2>4, <2>5 DEF DumpInv
<1> QED
  BY <1>3, <1>4, SizeAssumption DEF Lists

LEMMA ReportWalk ==
  ASSUME RefInv, ReportInv, Skip \/ Fill \/ (Full /\ use' = use) \/ Restart \/ NextBucket
  PROVE  ReportInv'
<1>1. PICK rank \in [Exps -> Nat], own \in SUBSET Exps, S \in SUBSET Exps : OrderInv(rank, own, S)
  BY DEF ReportInv
<1>2. AgeInv(rank, own, S) /\ SeenInv(S) /\ StableInv(own) /\ DumpInv(rank, S)
  BY <1>1 DEF OrderInv
<1>3. /\ phase = "walk" /\ phase' = "walk" /\ UNCHANGED <<state, request, data, last, graceful, stable>>
      /\ arg1' \in {None, arg1} /\ (filled => filled') /\ (room' # room => filled')
  <2>1. CASE Skip \/ Fill \/ Restart \/ NextBucket
    BY <2>1 DEF Skip, Fill, Restart, NextBucket
  <2>2. CASE Full /\ use' = use
    <3>1. use[node] = 0
      <4>1. node \in Exps /\ use \in [Exps -> Nat]
        BY <2>2 DEF RefInv, TypeOK, Full
      <4>2. use[node] # 0 => use' = [use EXCEPT ![node] = @ + 1]
        BY <2>2 DEF Full
      <4> QED
        BY <2>2, <4>1, <4>2
    <3> QED
      BY <2>2, <3>1 DEF Full
  <2> QED
    BY <2>1, <2>2
<1>4. AgeInv(rank, own, S)' /\ StableInv(own)' /\ \A e : (Dumped(e)' <=> Dumped(e)) /\ Number(e)' = Number(e)
  BY <1>2, <1>3, AgeStays, StableStays
<1>5. /\ linked \subseteq S /\ S \cap graceful = {} /\ node \in S \cup {None}
      /\ (node # None => Dumped(node) /\ Number(node) = bucket /\ node \in S /\ node \in Exps)
      /\ (pc = "related" => exp \notin S \cup {arg1, last} /\ sent[exp] = 0)
      /\ bucket \in Nat /\ bucket <= Lists /\ (bucket = Lists => node = None) /\ arg1 \in {None, last} /\ Lists \in Nat
      /\ sent \in [Exps -> 0..2] /\ None \notin Exps /\ (pc = "related" => exp \in Exps)
  BY <1>2, <1>3, ExpsAssumption, SizeAssumption DEF AgeInv, SeenInv, RefInv, TypeOK, CursorInv, RequestInv, Lists
<1>6. ASSUME DumpInv(rank, S)', node' \in S \cup {None}, node' # None => Dumped(node)' /\ Number(node)' = bucket',
             pc = "related" => sent'[exp] = 0, ~restarted' => \A e \in Exps : sent'[e] <= 1
      PROVE  ReportInv'
  <2>1. SeenInv(S)'
    BY <1>3, <1>5, <1>6 DEF SeenInv
  <2>2. EndInv'
    BY <1>3, <1>6 DEF ReportInv, EndInv
  <2>3. OrderInv(rank, own, S)'
    BY <1>4, <1>6, <2>1 DEF OrderInv
  <2> QED
    BY <2>2, <2>3 DEF ReportInv
<1>7. ~restarted => \A e \in Exps : sent[e] <= 1
  BY DEF ReportInv, EndInv
<1>8. ASSUME node # None, node' = Succ(node), bucket' = bucket
      PROVE  node' \in S \cup {None} /\ (node' # None => Dumped(node)' /\ Number(node)' = bucket')
  <2>1. /\ node' \in S \cup {None} /\ (node' # None => Dumped(node') /\ Number(node') = bucket)
    BY <1>2, <1>5, <1>8, SuccOf
  <2> QED
    BY <1>3, <1>8, <2>1 DEF Dumped, Number
<1>9. CASE Skip
  <2>1. node # None /\ ~Due /\ node' = Succ(node) /\ UNCHANGED <<bucket, arg1, room, filled, sent, restarted>>
    BY <1>9 DEF Skip
  <2>2. CASE arg1 = None
    <3>1. node \notin stable
      BY <1>2, <2>1, <2>2 DEF Due, StableInv
    <3>2. DumpInv(rank, S)'
      BY <1>2, <1>3, <2>1, <2>2, <3>1, GoOn
    <3> QED
      BY <1>5, <1>6, <1>7, <1>8, <2>1, <3>2
  <2>3. CASE arg1 # None
    <3>1. \A e : (Passed(e, rank, S)' <=> Passed(e, rank, S)) /\ (Ahead(e, rank, S)' <=> Ahead(e, rank, S))
      BY <1>3, <1>4, <2>1, <2>3 DEF Passed, Ahead, Behind, Before, Lists
    <3>2. DumpInv(rank, S)'
      BY <1>2, <1>3, <2>1, <3>1 DEF DumpInv
    <3> QED
      BY <1>5, <1>6, <1>7, <1>8, <2>1, <3>2
  <2> QED
    BY <2>2, <2>3
<1>10. CASE Fill
  <2>1. /\ node # None /\ Due /\ node' = Succ(node) /\ arg1' = None /\ UNCHANGED <<bucket, restarted>>
        /\ sent' = [sent EXCEPT ![node] = IF @ = 2 THEN 2 ELSE @ + 1]
    BY <1>10 DEF Fill
  <2>2. arg1 \in {None, node}
    BY <1>5, <2>1 DEF Due
  <2>3. /\ \A x \in Exps : x # node => sent'[x] = sent[x]
        /\ sent'[node] > 0 /\ (sent[node] = 0 => sent'[node] = 1)
    BY <1>5, <2>1
  <2>4. DumpInv(rank, S)'
    BY <1>2, <1>3, <2>1, <2>2, <2>3, GoOn
  <2>5. ~restarted => sent[node] = 0
    <3>1. bucket < Lists /\ rank[node] <= rank[node]
      BY <1>5, <2>1
    <3>2. Ahead(node, rank, S)
      BY <1>5, <2>1, <2>2, <3>1 DEF Ahead, Before
    <3> QED
      BY <1>2, <1>3, <1>5, <2>1, <3>2 DEF DumpInv
  <2>6. ~restarted' => \A e \in Exps : sent'[e] <= 1
    BY <1>7, <2>1, <2>3, <2>5
  <2>7. pc = "related" => sent'[exp] = 0
    BY <1>5, <2>1, <2>3
  <2> QED
    BY <1>6, <1>8, <2>1, <2>4, <2>6, <2>7
<1>11. CASE Full /\ use' = use
  <2>1. node # None /\ Due /\ UNCHANGED <<bucket, room, filled, sent, restarted>>
    BY <1>11 DEF Full
  <2>2. use[node] = 0
    <3>1. use[node] # 0 => use' = [use EXCEPT ![node] = @ + 1]
      BY <1>11 DEF Full
    <3>2. use \in [Exps -> Nat]
      BY DEF RefInv, TypeOK
    <3> QED
      BY <1>5, <1>11, <2>1, <3>1, <3>2
  <2>3. node' = Succ(node) /\ arg1' = None /\ arg1 \in {None, node}
    BY <1>5, <1>11, <2>1, <2>2 DEF Full, Due
  <2>4. node \notin stable
    BY <1>2, <2>2, Facts DEF StableInv
  <2>5. DumpInv(rank, S)'
    BY <1>2, <1>3, <2>1, <2>3, <2>4, GoOn
  <2> QED
    BY <1>5, <1>6, <1>7, <1>8, <2>1, <2>3, <2>5
<1>12. CASE Restart
  <2>1. /\ bucket < Lists /\ arg1' = None /\ node' = First(bucket) /\ restarted'
        /\ UNCHANGED <<bucket, sent>>
    BY <1>12 DEF Restart
  <2>2. \A e \in stable : Number(e) < bucket => sent[e] > 0
    BY <1>2 DEF DumpInv, Passed
  <2>3. DumpInv(rank, S)' /\ node' \in S \cup {None} /\ (node' # None => Dumped(node)' /\ Number(node)' = bucket')
    BY <1>2, <1>3, <1>5, <2>1, <2>2, Begins
  <2> QED
    BY <1>5, <1>6, <2>1, <2>3
<1>13. CASE NextBucket
  <2>1. /\ node = None /\ bucket < Lists /\ arg1 = None /\ arg1' = None /\ bucket' = bucket + 1
        /\ node' = First(bucket + 1) /\ UNCHANGED <<sent, restarted>>
    BY <1>13 DEF NextBucket
  <2>2. \A e \in stable : Number(e) < bucket' => sent[e] > 0
    <3>1. \A e \in stable : Number(e) \in Nat
      BY <1>2, NumberOfList
    <3>2. \A e \in stable : Number(e) < bucket' => Number(e) < bucket \/ Number(e) = bucket
      BY <1>5, <2>1, <3>1
    <3> QED
      BY <1>2, <1>3, <2>1, <3>2 DEF DumpInv, Passed, Behind
  <2>3. ASSUME ~restarted, NEW e \in S, bucket' < Lists, Dumped(e), Number(e) \in Nat, Number(e) > bucket' \/ Number(e) = bucket'
        PROVE  sent[e] = 0
    <3>1. Number(e) > bucket
      BY <1>5, <2>1, <2>3
    <3> QED
      BY <1>2, <1>3, <2>1, <2>3, <3>1 DEF DumpInv, Ahead
  <2>4. bucket' \in Nat /\ bucket' <= Lists /\ node' = First(bucket')
    BY <1>5, <2>1
  <2>5. DumpInv(rank, S)' /\ node' \in S \cup {None} /\ (node' # None => Dumped(node)' /\ Number(node)' = bucket')
    BY <1>2, <1>3, <2>1, <2>2, <2>3, <2>4, Begins
  <2> QED
    BY <1>5, <1>6, <1>7, <2>1, <2>5
<1> QED
  BY <1>9, <1>10, <1>11, <1>12, <1>13

LEMMA ReportCallback == ASSUME RefInv, ReportInv, NEW r \in 1..MaxRoom, Callback(r) PROVE ReportInv'
<1>1. PICK rank \in [Exps -> Nat], own \in SUBSET Exps, S \in SUBSET Exps : OrderInv(rank, own, S)
  BY DEF ReportInv
<1>2. AgeInv(rank, own, S) /\ SeenInv(S) /\ StableInv(own) /\ DumpInv(rank, S)
  BY <1>1 DEF OrderInv
<1>3. /\ phase = "idle" /\ phase' = "walk" /\ last' = arg1 /\ node' = First(bucket) /\ room' = r
      /\ graceful' = {e \in allocated : use[e] = 0}
      /\ UNCHANGED <<state, request, data, bucket, arg1, history>>
  BY DEF Callback
<1>4. /\ AgeInv(rank, own, S)' /\ StableInv(own)'
      /\ \A e : (Dumped(e)' <=> Dumped(e)) /\ Number(e)' = Number(e)
  BY <1>2, <1>3, AgeStays, StableStays
<1>5. S = linked /\ (pc = "related" => exp \notin S \cup {arg1, last} /\ sent[exp] = 0)
      /\ bucket \in Nat /\ bucket \in 0..Size /\ bucket <= Lists /\ (bucket = Lists => arg1 = None)
  BY <1>2, <1>3 DEF SeenInv, RefInv, TypeOK, CursorInv
<1>6. S \cap graceful' = {}
  BY <1>3, <1>5, Facts
<1>7. DumpInv(rank, S)' /\ node' \in S \cup {None} /\ (node' # None => Dumped(node)' /\ Number(node)' = bucket)
  <2>1. CASE arg1 = None
    <3>1. \A e \in stable : Number(e) < bucket => sent[e] > 0
      BY <1>2 DEF DumpInv, Passed
    <3>2. ASSUME ~restarted, NEW e \in S, bucket < Lists, Dumped(e), Number(e) \in Nat, Number(e) > bucket \/ Number(e) = bucket
          PROVE  sent[e] = 0
      <4>1. Ahead(e, rank, S)
        BY <1>3, <2>1, <3>2 DEF Ahead, Before
      <4> QED
        BY <1>2, <1>3, <3>2, <4>1 DEF DumpInv
    <3>3. arg1' = None /\ bucket' \in Nat /\ bucket' <= Lists /\ node' = First(bucket') /\ sent' = sent /\ stable' = stable
      BY <1>3, <1>5, <2>1
    <3> QED
      BY <1>2, <1>3, <3>1, <3>2, <3>3, Begins
  <2>2. CASE arg1 # None
    <3>1. \A e : (Passed(e, rank, S)' <=> Passed(e, rank, S)) /\ (Ahead(e, rank, S)' <=> Ahead(e, rank, S))
      BY <1>3, <1>4, <2>2 DEF Passed, Ahead, Behind, Before, Lists
    <3>2. DumpInv(rank, S)'
      BY <1>2, <1>3, <3>1 DEF DumpInv
    <3>3. bucket < Lists
      BY <1>5, <2>2, SizeAssumption DEF Lists
    <3>4. node' \in S \cup {None} /\ (node' # None => Dumped(node') /\ Number(node') = bucket)
      BY <1>2, <1>3, <1>5, <3>3, FirstOf
    <3> QED
      BY <1>3, <3>2, <3>4 DEF Dumped, Number
  <2> QED
    BY <2>1, <2>2
<1>8. SeenInv(S)'
  BY <1>3, <1>5, <1>6, <1>7 DEF SeenInv
<1>9. EndInv'
  BY <1>3 DEF ReportInv, EndInv
<1>10. OrderInv(rank, own, S)'
  BY <1>4, <1>7, <1>8 DEF OrderInv
<1> QED
  BY <1>9, <1>10 DEF ReportInv

\* A callback ends, and the dump stays at what did not fit or behind its lists.
LEMMA ReportOut ==
  ASSUME RefInv, RefInv', ReportInv, (Full /\ use' # use) \/ EndOfTable \/ Out
  PROVE  ReportInv'
<1>1. PICK rank \in [Exps -> Nat], own \in SUBSET Exps, S \in SUBSET Exps : OrderInv(rank, own, S)
  BY DEF ReportInv
<1>2. AgeInv(rank, own, S) /\ SeenInv(S) /\ StableInv(own) /\ DumpInv(rank, S)
  BY <1>1 DEF OrderInv
<1>3. /\ UNCHANGED <<state, data, bucket, room, filled, history>> /\ phase' \in {"out", "idle", "ending"} /\ phase \in {"walk", "out"}
      /\ pc' = "related" => pc = "related" /\ exp' = exp
  <2>1. CASE Full /\ use' # use
    BY <2>1 DEF Full
  <2>2. CASE EndOfTable
    BY <2>2 DEF EndOfTable
  <2>3. CASE Out
    BY <2>3 DEF Out, DumpRequestEnds, Done, Goto
  <2> QED
    BY <2>1, <2>2, <2>3
<1>4. /\ AgeInv(rank, own, S)' /\ StableInv(own)'
      /\ \A e : (Dumped(e)' <=> Dumped(e)) /\ Number(e)' = Number(e)
  BY <1>2, <1>3, AgeStays, StableStays
<1>5. linked \in SUBSET Exps /\ linked \subseteq S /\ linked' = linked
  BY <1>2, <1>3 DEF AgeInv, RefInv, TypeOK
<1>6. PICK S1 \in SUBSET Exps : S1 = linked
  BY <1>5
<1>7. AgeInv(rank, own, S1)'
  <2>1. AgeInv(rank, own, linked)'
    BY <1>4, AgeLinked
  <2>2. S1 = linked'
    BY <1>5, <1>6
  <2> QED
    BY <2>1, <2>2 DEF AgeInv
<1>8. ASSUME arg1' \in {None, arg1, node}, last' \in {None, last},
             \A e \in S1 : Passed(e, rank, S1)' => Passed(e, rank, S),
             \A e \in S1 : Ahead(e, rank, S1)' => Ahead(e, rank, S),
             phase' = "out" => filled \/ bucket = Lists, phase' = "ending" => bucket = Lists
      PROVE  ReportInv'
  <2>1. stable \subseteq S1
    BY <1>2, <1>6 DEF StableInv
  <2>2. DumpInv(rank, S1)'
    BY <1>2, <1>3, <1>5, <1>6, <1>8, <2>1 DEF DumpInv
  <2>3. SeenInv(S1)'
    <3>1. pc = "related" => exp \notin S1 \cup {arg1, last} /\ sent[exp] = 0
      BY <1>2, <1>5, <1>6 DEF SeenInv
    <3>2. pc = "related" => exp \notin {None, node}
      <4>1. pc = "related" => exp # None /\ exp \in Exps
        BY DEF RefInv, RequestInv, TypeOK
      <4>2. CASE phase = "walk"
        BY <1>2, <4>1, <4>2 DEF SeenInv
      <4>3. CASE phase = "out"
        BY <1>2, <4>1, <4>3 DEF SeenInv, RefInv, CursorInv
      <4> QED
        BY <1>3, <4>2, <4>3
    <3> QED
      BY <1>3, <1>5, <1>6, <1>8, <3>1, <3>2 DEF SeenInv
  <2>4. EndInv'
    BY <1>3, <1>8 DEF ReportInv, EndInv, Lists
  <2>5. OrderInv(rank, own, S1)'
    BY <1>4, <1>7, <2>2, <2>3 DEF OrderInv
  <2> QED
    BY <2>4, <2>5 DEF ReportInv
<1>9. CASE Full /\ use' # use
  <2>1. phase = "walk" /\ node # None /\ Due /\ ~(room > 0) /\ last' = last /\ arg1' = node /\ phase' = "out"
    BY <1>9 DEF Full, ctnetlink_exp_fill_info
  <2>2. filled
    <3>1. room \in Nat
      BY BoundsAssumption DEF RefInv, TypeOK
    <3> QED
      BY <2>1, <3>1 DEF ReportInv, EndInv
  <2>3. arg1 \in {None, node} /\ node \in S
    BY <1>2, <2>1 DEF Due, RefInv, CursorInv, SeenInv
  <2>4. ASSUME NEW e \in S1
        PROVE  (Passed(e, rank, S1)' => Passed(e, rank, S)) /\ (Ahead(e, rank, S1)' => Ahead(e, rank, S))
    <3>1. (Behind(e, rank, S1)' => Behind(e, rank, S)) /\ (Before(e, rank, S1)' => Before(e, rank, S))
      BY <2>1, <2>3 DEF Behind, Before
    <3> QED
      BY <1>3, <1>4, <3>1 DEF Passed, Ahead, Lists
  <2> QED
    BY <1>8, <2>1, <2>2, <2>4
<1>10. CASE EndOfTable
  <2>1. phase = "walk" /\ bucket = Lists /\ last' = last /\ arg1' = arg1 /\ phase' = "out"
    BY <1>10 DEF EndOfTable
  <2>2. arg1 = None /\ Lists' = Lists /\ Lists \in Nat
    BY <1>3, <2>1, SizeAssumption DEF RefInv, CursorInv, Lists
  <2>3. \A e : ~Behind(e, rank, S1)' /\ ~Ahead(e, rank, S1)'
    BY <1>3, <2>1, <2>2 DEF Behind, Ahead
  <2>4. \A e \in S1 : Passed(e, rank, S1)' => Passed(e, rank, S)
    BY <1>3, <1>4, <2>3 DEF Passed
  <2> QED
    BY <1>8, <2>1, <2>3, <2>4
<1>11. CASE Out
  <2>1. phase = "out" /\ last' = None /\ arg1' = arg1 /\ phase' = IF filled THEN "idle" ELSE "ending"
    BY <1>11 DEF Out
  <2>2. S = linked /\ (phase' = "ending" => bucket = Lists)
    BY <1>2, <2>1 DEF SeenInv, ReportInv, EndInv
  <2>3. phase' \in {"idle", "ending"}
    BY <2>1
  <2>4. ASSUME NEW e \in S1
        PROVE  (Passed(e, rank, S1)' => Passed(e, rank, S)) /\ (Ahead(e, rank, S1)' => Ahead(e, rank, S))
    <3>1. (Behind(e, rank, S1)' => Behind(e, rank, S)) /\ (Before(e, rank, S1)' => Before(e, rank, S))
      BY <1>6, <2>1, <2>2, <2>3 DEF Behind, Before
    <3> QED
      BY <1>3, <1>4, <3>1 DEF Passed, Ahead, Lists
  <2> QED
    BY <1>8, <2>1, <2>2, <2>3, <2>4
<1> QED
  BY <1>9, <1>10, <1>11

LEMMA ReportEnds == ASSUME RefInv, ReportInv, DumpStart \/ ctnetlink_exp_done PROVE ReportInv'
<1>1. PICK rank \in [Exps -> Nat], own \in SUBSET Exps, S \in SUBSET Exps : OrderInv(rank, own, S)
  BY DEF ReportInv
<1>2. AgeInv(rank, own, S) /\ SeenInv(S) /\ StableInv(own) /\ DumpInv(rank, S)
  BY <1>1 DEF OrderInv
<1>3. UNCHANGED state /\ phase # "walk" /\ phase' # "walk" /\ S = linked /\ AgeInv(rank, own, S)'
  <2>1. UNCHANGED state /\ phase # "walk" /\ phase' # "walk"
    BY DEF DumpStart, ctnetlink_exp_done
  <2> QED
    BY <1>2, <2>1, AgeStays DEF SeenInv
<1>4. CASE DumpStart
  <2>1. /\ phase' = "idle" /\ data' = ct /\ bucket' = 0 /\ arg1' = None /\ pc' = "dumping" /\ restarted' = FALSE
        /\ sent' = [e \in Exps |-> 0]
        /\ stable' = {e \in linked : tuple[e] \in Wanted /\ (ct # None => Waiting(e, ct))}
    BY <1>4 DEF DumpStart, Goto
  <2>2. \A e \in Exps : sent'[e] = 0
    BY <2>1
  <2>3. StableInv(own)'
    <3>1. ASSUME NEW e \in stable'
          PROVE  e \in linked /\ tuple[e] \in Wanted /\ (ct # None => master[e] = ct /\ e \in own)
      BY <1>2, <2>1 DEF AgeInv, Waiting
    <3> QED
      BY <1>3, <2>1, <3>1 DEF StableInv, Dumped
  <2>4. \A e \in stable' : ~Passed(e, rank, S)'
    <3>1. \A e \in stable' : Number(e)' \in Nat
      <4>1. \A e \in stable' : tuple'[e] \in Tuples
        BY <2>3, TuplesAssumption DEF StableInv
      <4> QED
        BY <4>1, SizeAssumption DEF Number, Heads
    <3> QED
      BY <2>1, <3>1 DEF Passed, Behind
  <2>5. DumpInv(rank, S)'
    BY <2>2, <2>4 DEF DumpInv
  <2>6. SeenInv(S)'
    BY <1>3, <2>1 DEF SeenInv
  <2>7. EndInv'
    <3>1. ct # None => ct \in alive
      BY DEF RefInv, Counted, ExpectationsAlive
    <3> QED
      BY <1>3, <2>1, <2>2, <3>1 DEF EndInv
  <2>8. OrderInv(rank, own, S)'
    BY <1>3, <2>3, <2>5, <2>6 DEF OrderInv
  <2> QED
    BY <2>7, <2>8 DEF ReportInv
<1>5. CASE ctnetlink_exp_done
  <2>1. /\ phase' = "none" /\ data' = None /\ arg1' = None /\ stable' = {}
        /\ UNCHANGED <<request, last, sent, restarted>>
    BY <1>5 DEF ctnetlink_exp_done
  <2>2. StableInv(own)' /\ DumpInv(rank, S)'
    BY <2>1 DEF StableInv, DumpInv
  <2>3. SeenInv(S)'
    <3>1. pc = "related" => exp # None
      BY DEF RefInv, RequestInv
    <3> QED
      BY <1>2, <1>3, <2>1, <3>1 DEF SeenInv
  <2>4. EndInv'
    BY <2>1 DEF ReportInv, EndInv
  <2>5. OrderInv(rank, own, S)'
    BY <1>3, <2>2, <2>3 DEF OrderInv
  <2> QED
    BY <2>4, <2>5 DEF ReportInv
<1> QED
  BY <1>4, <1>5

LEMMA ReportInit == Init => ReportInv
<1> SUFFICES ASSUME Init PROVE ReportInv
  OBVIOUS
<1>1. PICK rank \in [Exps -> Nat] : rank = [e \in Exps |-> 0]
  OBVIOUS
<1>2. {} \in SUBSET Exps
  OBVIOUS
<1>3. Sorted({}, {}, nxt, Heads, Buckets, rank) /\ Sorted({}, {}, lnxt, Masters, master, rank)
  BY DEF Init, Sorted
<1>4. 0 \in Nat /\ \A e \in {} : rank[e] < 0
  OBVIOUS
<1>5. AgeInv(rank, {}, {})
  BY <1>3, <1>4 DEF Init, AgeInv
<1>6. SeenInv({}) /\ StableInv({}) /\ DumpInv(rank, {})
  BY DEF Init, SeenInv, StableInv, DumpInv
<1>7. EndInv
  BY DEF Init, EndInv
<1>8. OrderInv(rank, {}, {})
  BY <1>5, <1>6 DEF OrderInv
<1> QED
  BY <1>2, <1>7, <1>8 DEF ReportInv

LEMMA ReportStep == ASSUME RefInv, RefInv', ReportInv, [Next]_vars PROVE ReportInv'
<1>1. CASE Kernel
  BY <1>1, ReportUnlinks, ReportTimer, ReportFree, ReportCreates, ReportMaster DEF Kernel
<1>2. CASE Handler
  <2>1. CASE ParseFails \/ FindsNothing \/ (\E e \in Exps : FindGet(e))
    BY <2>1, ReportMoves
  <2>2. CASE ctnetlink_new_expect
    BY <2>2, ReportMoves, ReportCreates, ReportAlloc DEF ctnetlink_new_expect
  <2>3. CASE ctnetlink_get_expect
    BY <2>3, ReportMoves, ReportEnds DEF ctnetlink_get_expect
  <2>4. CASE ctnetlink_del_expect
    BY <2>4, ReportMoves, ReportUnlinks DEF ctnetlink_del_expect
  <2> QED
    BY <1>2, <2>1, <2>2, <2>3, <2>4 DEF Handler
<1>3. CASE ctnetlink_glue_attach_expect \/ \E r \in Requests : Begin(r) \/ Queue(r)
  BY <1>3, ReportMoves
<1>4. CASE ctnetlink_exp_dump_table
  BY <1>4, ReportWalk, ReportOut, ReportCallback DEF ctnetlink_exp_dump_table
<1>5. CASE ctnetlink_exp_done
  BY <1>5, ReportEnds
<1>6. CASE UNCHANGED vars
  BY <1>6, ReportRequests DEF vars
<1> QED
  BY <1>1, <1>2, <1>3, <1>4, <1>5, <1>6 DEF Next

\* A dump that ends by itself has reported every expectation that was linked all
\* the time, and without a list walked again (ctnetlink_exp_dump_table,
\* ctnetlink_exp_ct_dump_table, "goto restart") none twice, for tables and lists of
\* any length, buffers of any size and any requests, packets and timers in between.
THEOREM Reported == Spec => []ReportedOnce
<1>1. RefInv /\ RefInv' /\ ReportInv /\ [Next]_vars => ReportInv'
  BY ReportStep
<1>2. ASSUME RefInv, ReportInv PROVE ReportedOnce
  <2>1. PICK rank \in [Exps -> Nat], own \in SUBSET Exps, S \in SUBSET Exps : OrderInv(rank, own, S)
    BY <1>2 DEF ReportInv
  <2>2. ASSUME phase = "ending", NEW e \in stable PROVE sent[e] > 0
    <3>1. StableInv(own) /\ DumpInv(rank, S) /\ bucket = Lists
      BY <1>2, <2>1, <2>2 DEF OrderInv, ReportInv, EndInv
    <3>2. Number(e) < bucket
      BY <1>2, <3>1, NumberOfList
    <3> QED
      BY <3>1, <3>2 DEF DumpInv, Passed
  <2> QED
    BY <1>2, <2>2 DEF ReportInv, EndInv, ReportedOnce
<1> QED
  BY <1>1, <1>2, RefTheorem, ReportInit, PTL DEF Spec
=============================================================================
