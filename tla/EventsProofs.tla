---------------------------- MODULE EventsProofs ----------------------------
(***************************************************************************)
(* For any number of entries, listeners and dumps, any groups and socket   *)
(* options, and buffers of any size: listeners lose no message silently,   *)
(* one that relies on redelivery is not forgotten, references balance, and *)
(* a dump reports every entry that stays on the dying list.                *)
(***************************************************************************)
EXTENDS Events, FiniteSetTheorems, SequenceTheorems, WellFoundedInduction, TLAPS

-----------------------------------------------------------------------------
(* The invariants.                                                         *)

Cursors(c) == {d \in Dumps : last[d] = c}

\* The dying list has the dying entries; a cursor is one of them, or was; a dump
\* that has not begun has none.
ListInv ==
  /\ \A c \in Cts : phase[c] = "dying" <=> \E i \in DOMAIN dying : dying[i] = c
  /\ \A d \in Dumps : last[d] # None => phase[last[d]] \in {"dying", "gone"}
  /\ \A d \in Dumps : dpc[d] = "idle" => last[d] = None /\ ~done[d]
  /\ \A d \in Dumps : dpc[d] = "unconfirmed" => stable[d] = {}
  /\ \A d \in Dumps : \A c \in stable[d] : phase[c] = "dying"

RefInv == TypeOK /\ ListInv /\ RefsBalanced

\* An entry on the dying list has something to tell.
MissedInv == \A c \in Cts : /\ phase[c] = "none" => missed[c] = {}
                            /\ phase[c] = "dying" => missed[c] # {}

\* The message that a reliable listener has lost is going to be sent again, to a
\* group that it is in.
AgainInv ==
  \A l \in Listeners : Reliable(l) =>
    \A c \in lost[l] : /\ phase[c] \in {"live", "dying"} /\ missed[c] # {}
                       /\ EventGroup(missed[c]) \in Groups[l]

\* As long as it is on the list, entry x comes before y or is y.
Precedes(x, y) == phase[x] = "dying" => \E i \in DOMAIN dying : \E j \in 1..i : dying[j] = x /\ dying[i] = y

\* What a dump has to report and has not reported it has still to visit.
CursorInv ==
  /\ \A d \in Dumps : dpc[d] = "dying" /\ ~strayed[d] =>
       \A c \in stable[d] : Wanted(c, fam[d]) /\ c \notin reported[d] =>
         ~done[d] /\ (last[d] # None => Precedes(last[d], c))
  /\ StableReported

-----------------------------------------------------------------------------
(* The least position, counting cursors, and the list.                     *)

LEMMA LeastPosition ==
  ASSUME NEW S \in SUBSET Nat, S # {}
  PROVE  Min(S) \in S /\ \A i \in S : Min(S) <= i
<1> DEFINE R == {ss \in Nat \X Nat : ss[1] < ss[2]}
<1>1. IsWellFoundedOn(R, Nat)
  BY NatLessThanWellFounded, Zenon DEF OpToRel
<1>2. PICK m \in S : \A i \in S : ~(<<i, m>> \in R)
  <2> HIDE DEF R
  <2> QED
    BY <1>1, WFMin
<1>3. ASSUME NEW i \in S PROVE m <= i
  <2>1. <<i, m>> \in Nat \X Nat /\ <<i, m>>[1] = i /\ <<i, m>>[2] = m
    OBVIOUS
  <2>2. ~(i < m)
    BY <1>2, <2>1
  <2> QED
    BY <2>2
<1> QED
  BY <1>3 DEF Min

LEMMA Counting ==
  ASSUME NEW S \in SUBSET Dumps
  PROVE  /\ Cardinality(S) \in Nat
         /\ Cardinality(S) = 0 <=> S = {}
         /\ \A d \in Dumps \ S : Cardinality(S \cup {d}) = Cardinality(S) + 1
         /\ \A d \in S : Cardinality(S \ {d}) = Cardinality(S) - 1
<1>1. IsFiniteSet(S)
  BY EntryAssumption, FS_Subset
<1> QED
  BY <1>1, FS_CardinalityType, FS_EmptySet, FS_AddElement, FS_RemoveElement

\* An entry comes to the head of the list.
LEMMA Pushed ==
  ASSUME NEW s \in Seq(Cts), NEW c \in Cts
  PROVE  /\ <<c>> \o s \in Seq(Cts)
         /\ DOMAIN (<<c>> \o s) = 1..(Len(s) + 1)
         /\ (<<c>> \o s)[1] = c
         /\ \A i \in DOMAIN s : i + 1 \in DOMAIN (<<c>> \o s) /\ (<<c>> \o s)[i + 1] = s[i]
         /\ \A i \in DOMAIN (<<c>> \o s) : i = 1 \/ (i - 1 \in DOMAIN s /\ (<<c>> \o s)[i] = s[i - 1])
<1>1. <<c>> \in Seq(Cts) /\ Len(<<c>>) = 1 /\ <<c>>[1] = c
  OBVIOUS
<1>2. Len(s) \in Nat /\ DOMAIN s = 1..Len(s)
  BY LenProperties
<1>3. /\ <<c>> \o s \in Seq(Cts)
      /\ Len(<<c>> \o s) = 1 + Len(s)
      /\ \A i \in 1..(1 + Len(s)) : (<<c>> \o s)[i] = IF i <= 1 THEN <<c>>[i] ELSE s[i - 1]
  BY <1>1, ConcatProperties
<1>4. DOMAIN (<<c>> \o s) = 1..(Len(s) + 1)
  BY <1>2, <1>3, LenProperties
<1> QED
  BY <1>1, <1>2, <1>3, <1>4

\* The head of the list goes.
LEMMA Popped ==
  ASSUME NEW s \in Seq(Cts), s # <<>>
  PROVE  /\ Tail(s) \in Seq(Cts) /\ Head(s) \in Cts
         /\ 1 \in DOMAIN s /\ s[1] = Head(s)
         /\ \A i \in DOMAIN Tail(s) : i + 1 \in DOMAIN s /\ Tail(s)[i] = s[i + 1]
         /\ \A i \in DOMAIN s : i = 1 \/ (i - 1 \in DOMAIN Tail(s) /\ Tail(s)[i - 1] = s[i])
         /\ DOMAIN s \subseteq Nat \ {0} /\ DOMAIN Tail(s) \subseteq Nat \ {0}
<1>1. Len(s) \in Nat \ {0} /\ DOMAIN s = 1..Len(s)
  BY LenProperties, EmptySeq
<1>2. /\ Tail(s) \in Seq(Cts) /\ Head(s) \in Cts /\ Len(Tail(s)) = Len(s) - 1
      /\ \A i \in 1..Len(Tail(s)) : Tail(s)[i] = s[i + 1]
  BY HeadTailProperties
<1>3. DOMAIN Tail(s) = 1..(Len(s) - 1)
  BY <1>2, LenProperties
<1>4. Head(s) = s[1]
  BY <1>1
<1> QED
  BY <1>1, <1>2, <1>3, <1>4

-----------------------------------------------------------------------------
(* What an event does to listeners.                                        *)

\* A listener in the group has the message, or has lost it.
LEMMA LosingStep ==
  ASSUME TypeOK, NEW group, NEW c \in Cts, NEW got, Losing(group, c, got)
  PROVE  /\ lost' \in [Listeners -> SUBSET Cts]
         /\ \A l \in Listeners : lost'[l] \ {c} = lost[l] \ {c}
         /\ \A l \in Listeners : group \notin Groups[l] => lost'[l] = lost[l]
         /\ \A l \in Listeners : group \in Groups[l] /\ l \in got => c \notin lost'[l]
         /\ \A l \in Listeners : group \notin Groups[l] \/ l \in got => lost'[l] \subseteq lost[l]
BY DEF TypeOK, Losing, Members

LEMMA EventStep ==
  ASSUME TypeOK, NEW c \in Cts, NEW events, NEW portid \in Requesters \cup {None}, NEW ok \in BOOLEAN,
         ctnetlink_conntrack_event(c, events, portid, ok)
  PROVE  /\ Buffers'
         /\ err' \in [Listeners -> BOOLEAN] /\ congested' \in [Listeners -> BOOLEAN]
         /\ lost' \in [Listeners -> SUBSET Cts]
         /\ \A l \in Listeners : lost'[l] \ {c} = lost[l] \ {c}
         /\ \A l \in Listeners : err[l] \/ congested[l] => err'[l] \/ congested'[l]
         /\ \A l \in Listeners : Tells(l) => lost'[l] \subseteq lost[l] \/ err'[l] \/ congested'[l]
         /\ \A l \in Listeners : EventGroup(events) \notin Groups[l] => lost'[l] = lost[l]
         /\ \A l \in Listeners : EventGroup(events) \in Groups[l] /\ SocketOptions \subseteq Options[l] /\ ok
              => c \notin lost'[l]
<1> DEFINE group == EventGroup(events)
           to == Addressed(group, portid)
           got == {l \in to : ~Blocked(l)}
<1>a. \A l \in Listeners : group \in Groups[l] <=> l \in Members(group)
  BY DEF Members
<1>b. \A l \in Listeners : SocketOptions \subseteq Options[l] => ~Tells(l) /\ "broadcast_error" \in Options[l]
  BY DEF SocketOptions, Tells
<1>c. Members(group) \subseteq to
  BY DEF Addressed
<1> HIDE DEF group
<1>1. CASE to = {} /\ ok /\ UNCHANGED sockVars
  BY <1>1, <1>a, <1>c DEF group, sockVars, TypeOK, Buffers
<1>2. CASE nfnetlink_send(to) /\ ok = ~Undelivered(to, portid) /\ Losing(group, c, got)
  <2>1. Buffers'
    BY <1>2, BoundAssumption DEF nfnetlink_send, TypeOK, Blocked, Buffers
  <2>2. err' \in [Listeners -> BOOLEAN] /\ congested' \in [Listeners -> BOOLEAN]
    BY <1>2 DEF nfnetlink_send
  <2>3. /\ \A l \in Listeners : l \in to /\ Blocked(l) /\ Tells(l) => congested'[l]
        /\ \A l \in Listeners : err[l] \/ congested[l] => err'[l] \/ congested'[l]
    BY <1>2 DEF nfnetlink_send
  <2>4. /\ lost' \in [Listeners -> SUBSET Cts]
        /\ \A l \in Listeners : lost'[l] \ {c} = lost[l] \ {c}
        /\ \A l \in Listeners : group \notin Groups[l] => lost'[l] = lost[l]
        /\ \A l \in Listeners : group \in Groups[l] /\ l \in got => c \notin lost'[l]
        /\ \A l \in Listeners : group \notin Groups[l] \/ l \in got => lost'[l] \subseteq lost[l]
    BY <1>2, LosingStep
  <2>5. ASSUME NEW l \in Listeners, Tells(l) PROVE lost'[l] \subseteq lost[l] \/ congested'[l]
    BY <2>3, <2>4, <2>5, <1>a, <1>c
  <2>6. ASSUME NEW l \in Listeners, group \in Groups[l], SocketOptions \subseteq Options[l], ok
        PROVE  c \notin lost'[l]
    <3>1. ~Undelivered(to, portid)
      BY <1>2, <2>6, Zenon
    <3>2. l \in got
      BY <2>6, <3>1, <1>a, <1>b, <1>c DEF Undelivered
    <3> QED
      BY <2>4, <2>6, <3>2
  <2> QED
    BY <2>1, <2>2, <2>3, <2>4, <2>5, <2>6 DEF group
<1>3. CASE ConntrackErrout(c, group, ok)
  <2>1. /\ queue' = queue /\ err' \in [Listeners -> BOOLEAN] /\ congested' = congested
        /\ \A l \in Listeners : l \in Members(group) /\ Tells(l) => err'[l]
        /\ \A l \in Listeners : err[l] => err'[l]
    BY <1>3 DEF ConntrackErrout, nfnetlink_set_err
  <2>2. /\ lost' \in [Listeners -> SUBSET Cts]
        /\ \A l \in Listeners : lost'[l] \ {c} = lost[l] \ {c}
        /\ \A l \in Listeners : group \notin Groups[l] => lost'[l] = lost[l]
    BY <1>3, LosingStep DEF ConntrackErrout
  <2>3. ASSUME NEW l \in Listeners, Tells(l) PROVE lost'[l] \subseteq lost[l] \/ err'[l]
    BY <2>1, <2>2, <2>3, <1>a
  <2>4. ASSUME NEW l \in Listeners, group \in Groups[l], SocketOptions \subseteq Options[l], ok
        PROVE  FALSE
    <3>1. ~SomebodyRelies(group)
      BY <1>3, <2>4, Zenon DEF ConntrackErrout
    <3> QED
      BY <2>4, <3>1, <1>a, <1>b DEF SomebodyRelies
  <2> QED
    BY <2>1, <2>2, <2>3, <2>4 DEF group, TypeOK, Buffers
<1> QED
  BY <1>1, <1>2, <1>3, Zenon DEF ctnetlink_conntrack_event, group

-----------------------------------------------------------------------------
(* Types, the dying list and references.                                   *)

LEMMA RefInit == Init => RefInv
<1> SUFFICES ASSUME Init PROVE RefInv
  OBVIOUS
<1>1. <<>> \in Seq(Cts) /\ DOMAIN <<>> = {}
  OBVIOUS
<1>2. TypeOK
  BY <1>1, BoundAssumption DEF Init, TypeOK, IsInjective, Families, Buffers
<1>3. ListInv
  BY <1>1 DEF Init, ListInv
<1>4. \A c \in Cts : Cursors(c) = {} /\ Cardinality(Cursors(c)) = 0
  BY Counting, EntryAssumption DEF Init, Cursors
<1>5. RefsBalanced
  BY <1>4 DEF Init, RefsBalanced, Cursors
<1> QED
  BY <1>2, <1>3, <1>5 DEF RefInv

Tracked(c) == IF phase[c] \in {"live", "dying"} THEN 1 ELSE 0

LEMMA BalancedCount ==
  RefsBalanced <=> \A c \in Cts : use[c] = Tracked(c) + Cardinality(Cursors(c))
BY DEF RefsBalanced, Tracked, Cursors

LEMMA CursorsType ==
  ASSUME RefInv, NEW c \in Cts
  PROVE  /\ Cursors(c) \in SUBSET Dumps
         /\ Cardinality(Cursors(c)) \in Nat
         /\ Cardinality(Cursors(c)) = 0 <=> Cursors(c) = {}
         /\ use[c] = Tracked(c) + Cardinality(Cursors(c))
         /\ phase[c] \in {"none", "live"} => Cursors(c) = {}
<1>1. Cursors(c) \in SUBSET Dumps
  BY DEF Cursors
<1>2. phase[c] \in {"none", "live"} => Cursors(c) = {}
  BY EntryAssumption DEF Cursors, RefInv, ListInv
<1> QED
  BY <1>1, <1>2, Counting, BalancedCount DEF RefInv

\* A cursor moves, and with it a reference.
LEMMA CursorMoves ==
  ASSUME TypeOK, NEW d \in Dumps, NEW new \in Cts \cup {None}, last' = [last EXCEPT ![d] = new], NEW c \in Cts
  PROVE  Cardinality(Cursors(c)') = Cardinality(Cursors(c)) + One(c, new) - One(c, last[d])
<1>1. Cursors(c) \in SUBSET Dumps /\ (d \in Cursors(c) <=> last[d] = c) /\ Cardinality(Cursors(c)) \in Nat
  BY Counting DEF Cursors
<1>2. /\ last[d] = c /\ new = c => Cursors(c)' = Cursors(c)
      /\ last[d] = c /\ new # c => Cursors(c)' = Cursors(c) \ {d}
      /\ last[d] # c /\ new = c => Cursors(c)' = Cursors(c) \cup {d}
      /\ last[d] # c /\ new # c => Cursors(c)' = Cursors(c)
  BY DEF TypeOK, Cursors
<1> QED
  BY <1>1, <1>2, Counting DEF One

\* The entry that a callback leaves for the next one is the first of those that
\* do not fit, and nothing that could be referenced is left when there is none.
LEMMA Leaving ==
  ASSUME TypeOK, NEW s \in SUBSET DOMAIN dying, NEW room
  PROVE  /\ Fits(s, room) \subseteq s
         /\ \/ /\ NotFitting(s, room) = None
               /\ \A i \in s \ Fits(s, room) : ~(use[dying[i]] > 0)
            \/ \E m \in s : /\ NotFitting(s, room) = dying[m]
                            /\ \A i \in s \ Fits(s, room) : use[dying[i]] > 0 => m <= i
<1> DEFINE left == {i \in s \ Fits(s, room) : use[dying[i]] > 0}
<1>1. Fits(s, room) \subseteq s
  BY DEF Fits
<1>2. left \in SUBSET Nat /\ left \subseteq s
  BY LenProperties DEF TypeOK
<1>3. NotFitting(s, room) = IF left = {} THEN None ELSE dying[Min(left)]
  BY DEF NotFitting
<1>4. left # {} => Min(left) \in left /\ \A i \in left : Min(left) <= i
  BY <1>2, LeastPosition
<1> QED
  BY <1>1, <1>2, <1>3, <1>4

LEMMA PositionType ==
  ASSUME TypeOK
  PROVE  /\ DOMAIN dying \subseteq Nat \ {0}
         /\ \A i \in DOMAIN dying : dying[i] \in Cts
         /\ \A i \in DOMAIN dying : \A j \in 1..i : j \in DOMAIN dying
         /\ \A i, j \in DOMAIN dying : dying[i] = dying[j] => i = j
<1>1. Len(dying) \in Nat /\ DOMAIN dying = 1..Len(dying) /\ dying \in [1..Len(dying) -> Cts]
  BY LenProperties DEF TypeOK
<1> QED
  BY <1>1 DEF TypeOK, IsInjective

\* The steps that change neither entries nor dumps.
LEMMA RefSockets ==
  ASSUME RefInv, Expectations \/ \E l \in Listeners : Receive(l)
  PROVE  RefInv'
<1> DEFINE Sockets == /\ Buffers' /\ err' \in [Listeners -> BOOLEAN]
                      /\ congested' \in [Listeners -> BOOLEAN] /\ lost' \in [Listeners -> SUBSET Cts]
<1>a. TypeOK
  BY DEF RefInv
<1>1. UNCHANGED <<entryVars, dumpVars>>
  BY DEF Expectations, ctnetlink_expect_event, Receive, Read, ReadError
<1>2. Sockets
  <2>1. ASSUME NEW l \in Listeners, Receive(l) PROVE Sockets
    <3>1. lost' \in [Listeners -> SUBSET Cts]
      BY <2>1, <1>a DEF Receive, Read, ReadError, Recover, TypeOK
    <3>2. congested' = [congested EXCEPT ![l] = @ /\ queue[l] > 0] \/ congested' = [congested EXCEPT ![l] = @ /\ queue[l] > 1]
      BY <2>1 DEF Receive, Read, ReadError
    <3>3. congested' \in [Listeners -> BOOLEAN]
      BY <3>2, <1>a DEF TypeOK
    <3>4. CASE Read(l)
      <4>1. Buffers' /\ UNCHANGED err
        BY <3>4, <1>a, BoundAssumption DEF Read, TypeOK, Buffers
      <4> QED
        BY <3>1, <3>3, <4>1, <1>a DEF TypeOK
    <3>5. CASE ReadError(l)
      <4>1. err' \in [Listeners -> BOOLEAN] /\ UNCHANGED queue
        BY <3>5, <1>a DEF ReadError, TypeOK
      <4> QED
        BY <3>1, <3>3, <4>1, <1>a DEF TypeOK, Buffers
    <3> QED
      BY <2>1, <3>4, <3>5 DEF Receive
  <2>2. ASSUME NEW to, nfnetlink_send(to), UNCHANGED lost PROVE Sockets
    <3>1. Buffers'
      BY <2>2, <1>a, BoundAssumption DEF nfnetlink_send, TypeOK, Blocked, Buffers
    <3>2. err' \in [Listeners -> BOOLEAN] /\ congested' \in [Listeners -> BOOLEAN]
      BY <2>2 DEF nfnetlink_send
    <3> QED
      BY <2>2, <3>1, <3>2, <1>a DEF TypeOK
  <2>3. ASSUME NEW to, nfnetlink_set_err(to), UNCHANGED lost PROVE Sockets
    BY <2>3, <1>a DEF nfnetlink_set_err, TypeOK, Buffers
  <2>4. CASE UNCHANGED <<queue, err, congested, lost>>
    BY <2>4, <1>a DEF TypeOK, Buffers
  <2> HIDE DEF Sockets
  <2>5. CASE Expectations
    <3>1. PICK event, portid : ctnetlink_expect_event(event, portid)
      BY <2>5 DEF Expectations
    <3> QED
      BY <2>2, <2>3, <2>4, <3>1 DEF ctnetlink_expect_event
  <2> QED
    BY <2>1, <2>5
<1>3. TypeOK'
  BY <1>1, <1>2, <1>a DEF TypeOK, entryVars, dumpVars
<1>4. ListInv' /\ RefsBalanced'
  BY <1>1 DEF RefInv, ListInv, RefsBalanced, entryVars, dumpVars
<1> QED
  BY <1>3, <1>4 DEF RefInv

\* What the list and the cursors need when dumps do not move.
LEMMA ListStep ==
  ASSUME TypeOK, ListInv, UNCHANGED <<dpc, last, done>>,
         \A x \in Cts : phase'[x] = "dying" <=> \E i \in DOMAIN dying' : dying'[i] = x,
         \A x \in Cts : phase[x] \in {"dying", "gone"} => phase'[x] \in {"dying", "gone"},
         \A d \in Dumps : stable'[d] \subseteq stable[d] /\ \A x \in stable'[d] : phase'[x] = "dying"
  PROVE  ListInv'
<1>1. \A d \in Dumps : last[d] # None => last[d] \in Cts
  BY DEF TypeOK
<1> QED
  BY <1>1 DEF ListInv

LEMMA MissedType ==
  ASSUME TypeOK, NEW c \in Cts, NEW events \in SUBSET CtEvents, NEW ok \in BOOLEAN, Missed(c, events, ok)
  PROVE  /\ missed' \in [Cts -> SUBSET CtEvents]
         /\ \A x \in Cts : x # c => missed'[x] = missed[x]
         /\ ok => missed'[c] = {}
         /\ ~ok => missed'[c] = missed[c] \cup events
BY DEF TypeOK, Missed

\* An entry comes, or is changed.
LEMMA RefLive ==
  ASSUME RefInv, NEW c \in Cts, NEW portid \in Requesters \cup {None}, NEW ok \in BOOLEAN,
         NewEntry(c, portid, ok) \/ Update(c, portid, ok)
  PROVE  RefInv'
<1>a. TypeOK /\ ListInv /\ RefsBalanced
  BY DEF RefInv
<1>b. \E events : ctnetlink_conntrack_event(c, events, portid, ok)
  BY DEF NewEntry, Update
<1>c. \E events \in SUBSET CtEvents : Missed(c, events, ok)
  BY DEF NewEntry, Update, CtEvents
<1>1. /\ Buffers' /\ err' \in [Listeners -> BOOLEAN]
      /\ congested' \in [Listeners -> BOOLEAN] /\ lost' \in [Listeners -> SUBSET Cts]
  BY <1>a, <1>b, EventStep
<1>2. missed' \in [Cts -> SUBSET CtEvents]
  BY <1>a, <1>c, MissedType
<1>3. dying' = dying /\ UNCHANGED dumpVars
  BY DEF NewEntry, Update
<1>4. CASE NewEntry(c, portid, ok)
  <2>1. /\ phase[c] = "none" /\ phase'[c] = "live" /\ use'[c] = 1
        /\ phase' \in [Cts -> {"none", "live", "dying", "gone"}] /\ use' \in [Cts -> Nat]
        /\ \A x \in Cts : x # c => phase'[x] = phase[x] /\ use'[x] = use[x]
    BY <1>4, <1>a DEF NewEntry, TypeOK
  <2>2. TypeOK'
    BY <2>1, <1>1, <1>2, <1>3, <1>a DEF TypeOK, dumpVars
  <2>3. ListInv'
    <3>1. \A x \in Cts : phase'[x] = "dying" <=> \E i \in DOMAIN dying' : dying'[i] = x
      BY <2>1, <1>3, <1>a DEF ListInv
    <3>2. \A d \in Dumps : stable'[d] = stable[d] /\ \A x \in stable'[d] : phase'[x] = "dying"
      BY <2>1, <1>3, <1>a DEF ListInv, dumpVars, TypeOK
    <3> QED
      BY <3>1, <3>2, <2>1, <1>3, <1>a, ListStep DEF dumpVars
  <2>4. \A x \in Cts : Cursors(x)' = Cursors(x)
    BY <1>3 DEF Cursors, dumpVars
  <2>5. \A x \in Cts : use'[x] = Tracked(x)' + Cardinality(Cursors(x)')
    BY <2>1, <2>4, CursorsType DEF Tracked
  <2>6. RefsBalanced'
    BY <2>5 DEF RefsBalanced, Tracked, Cursors
  <2> QED
    BY <2>2, <2>3, <2>6 DEF RefInv
<1>5. CASE Update(c, portid, ok)
  <2>1. UNCHANGED <<phase, use>>
    BY <1>5 DEF Update
  <2> QED
    BY <2>1, <1>1, <1>2, <1>3, <1>a DEF RefInv, TypeOK, ListInv, RefsBalanced, dumpVars
<1> QED
  BY <1>4, <1>5

\* An entry goes, or goes to the dying list.
LEMMA RefDelete ==
  ASSUME RefInv, NEW c \in Cts, NEW portid \in Requesters \cup {None}, NEW ok \in BOOLEAN,
         Delete(c, portid, ok)
  PROVE  RefInv'
<1>a. TypeOK /\ ListInv /\ RefsBalanced /\ phase[c] = "live" /\ UNCHANGED dumpVars
  BY DEF RefInv, Delete
<1>1. /\ Buffers' /\ err' \in [Listeners -> BOOLEAN]
      /\ congested' \in [Listeners -> BOOLEAN] /\ lost' \in [Listeners -> SUBSET Cts]
  BY <1>a, EventStep DEF Delete
<1>2. missed' \in [Cts -> SUBSET CtEvents]
  BY <1>a, MissedType DEF Delete, CtEvents
<1>3. \A x \in Cts : Cursors(x)' = Cursors(x)
  BY <1>a DEF Cursors, dumpVars
<1>4. use[c] = 1 /\ \A x \in Cts : use[x] = Tracked(x) + Cardinality(Cursors(x)) /\ Cardinality(Cursors(x)) \in Nat
  BY <1>a, CursorsType DEF Tracked
<1>5. /\ phase' \in [Cts -> {"none", "live", "dying", "gone"}] /\ use' \in [Cts -> Nat]
      /\ \A x \in Cts : x # c => phase'[x] = phase[x] /\ use'[x] = use[x]
  <2>1. phase \in [Cts -> {"none", "live", "dying", "gone"}] /\ use \in [Cts -> Nat]
    BY <1>a DEF TypeOK
  <2>2. (\E p \in {"gone", "dying"} : phase' = [phase EXCEPT ![c] = p])
        /\ (use' = use \/ use' = [use EXCEPT ![c] = @ - 1])
    BY DEF Delete
  <2> QED
    BY <2>1, <2>2, <1>4
<1>6. ASSUME \A x \in Cts : use'[x] = Tracked(x)' + Cardinality(Cursors(x)') PROVE RefsBalanced'
  BY <1>6 DEF RefsBalanced, Tracked, Cursors
<1>7. CASE ok
  <2>1. phase'[c] = "gone" /\ use'[c] = 0 /\ dying' = dying
    BY <1>7, <1>a, <1>4 DEF Delete, TypeOK
  <2>2. TypeOK'
    BY <2>1, <1>1, <1>2, <1>5, <1>a DEF TypeOK, dumpVars
  <2>3. ListInv'
    <3>1. \A x \in Cts : phase'[x] = "dying" <=> \E i \in DOMAIN dying' : dying'[i] = x
      BY <2>1, <1>5, <1>a DEF ListInv
    <3>2. \A d \in Dumps : stable'[d] = stable[d] /\ \A x \in stable'[d] : phase'[x] = "dying"
      BY <2>1, <1>5, <1>a DEF ListInv, dumpVars, TypeOK
    <3> QED
      BY <3>1, <3>2, <2>1, <1>5, <1>a, ListStep DEF dumpVars
  <2>4. RefsBalanced'
    BY <2>1, <1>3, <1>4, <1>5, <1>6, <1>a, CursorsType DEF Tracked
  <2> QED
    BY <2>2, <2>3, <2>4 DEF RefInv
<1>8. CASE ~ok
  <2>1. phase'[c] = "dying" /\ use' = use /\ dying' = <<c>> \o dying
    BY <1>8, <1>a DEF Delete, TypeOK
  <2>2. /\ dying' \in Seq(Cts)
        /\ DOMAIN dying' = 1..(Len(dying) + 1)
        /\ dying'[1] = c
        /\ \A i \in DOMAIN dying : i + 1 \in DOMAIN dying' /\ dying'[i + 1] = dying[i]
        /\ \A i \in DOMAIN dying' : i = 1 \/ (i - 1 \in DOMAIN dying /\ dying'[i] = dying[i - 1])
    BY <2>1, <1>a, Pushed DEF TypeOK
  <2>3. \A x \in Cts : (\E i \in DOMAIN dying' : dying'[i] = x) <=> x = c \/ \E i \in DOMAIN dying : dying[i] = x
    <3>1. 1 \in DOMAIN dying'
      BY <2>2, <1>a, LenProperties DEF TypeOK
    <3> QED
      BY <2>2, <3>1
  <2>4. IsInjective(dying')
    <3>1. \A i \in DOMAIN dying : dying[i] # c
      BY <1>a DEF ListInv
    <3>2. \A i, j \in DOMAIN dying : dying[i] = dying[j] => i = j
      BY <1>a, PositionType
    <3>3. DOMAIN dying \subseteq Nat \ {0} /\ DOMAIN dying' \subseteq Nat
      BY <2>2, <1>a, PositionType
    <3>4. ASSUME NEW i \in DOMAIN dying', NEW j \in DOMAIN dying', dying'[i] = dying'[j]
          PROVE  i = j
      <4>1. i = 1 \/ (i - 1 \in DOMAIN dying /\ dying'[i] = dying[i - 1])
        BY <2>2
      <4>2. j = 1 \/ (j - 1 \in DOMAIN dying /\ dying'[j] = dying[j - 1])
        BY <2>2
      <4>3. (i = 1 <=> dying'[i] = c) /\ (j = 1 <=> dying'[j] = c)
        BY <2>2, <3>1, <4>1, <4>2
      <4>4. CASE i = 1 \/ j = 1
        BY <3>4, <4>3, <4>4
      <4>5. CASE i # 1 /\ j # 1
        <5>1. i - 1 = j - 1
          BY <3>2, <3>4, <4>1, <4>2, <4>5
        <5> QED
          BY <3>3, <5>1
      <4> QED
        BY <4>4, <4>5
    <3> QED
      BY <3>4, Zenon DEF IsInjective
  <2>5. TypeOK'
    BY <2>1, <2>2, <2>4, <1>1, <1>2, <1>5, <1>a DEF TypeOK, dumpVars
  <2>6. ListInv'
    <3>1. \A x \in Cts : phase'[x] = "dying" <=> \E i \in DOMAIN dying' : dying'[i] = x
      BY <2>1, <2>3, <1>5, <1>a DEF ListInv
    <3>2. \A d \in Dumps : stable'[d] = stable[d] /\ \A x \in stable'[d] : phase'[x] = "dying"
      BY <2>1, <1>5, <1>a DEF ListInv, dumpVars, TypeOK
    <3> QED
      BY <3>1, <3>2, <2>1, <1>5, <1>a, ListStep DEF dumpVars
  <2>7. RefsBalanced'
    BY <2>1, <1>3, <1>4, <1>5, <1>6, <1>a DEF Tracked
  <2> QED
    BY <2>5, <2>6, <2>7 DEF RefInv
<1> QED
  BY <1>7, <1>8

\* The worker takes the head of the list, or leaves it there.
LEMMA RefWorker == ASSUME RefInv, NEW ok \in BOOLEAN, Worker(ok) PROVE RefInv'
<1> DEFINE c == Head(dying)
<1>a. TypeOK /\ ListInv /\ RefsBalanced /\ dying # <<>> /\ UNCHANGED <<dpc, last, done, fam, reported, strayed>>
  BY DEF RefInv, Worker
<1>b. /\ Tail(dying) \in Seq(Cts) /\ c \in Cts
      /\ 1 \in DOMAIN dying /\ dying[1] = c
      /\ \A i \in DOMAIN Tail(dying) : i + 1 \in DOMAIN dying /\ Tail(dying)[i] = dying[i + 1]
      /\ \A i \in DOMAIN dying : i = 1 \/ (i - 1 \in DOMAIN Tail(dying) /\ Tail(dying)[i - 1] = dying[i])
      /\ DOMAIN dying \subseteq Nat \ {0} /\ DOMAIN Tail(dying) \subseteq Nat \ {0}
  BY <1>a, Popped DEF TypeOK
<1>c. phase[c] = "dying"
  BY <1>a, <1>b DEF ListInv
<1>e. ctnetlink_conntrack_event(c, missed[c], None, ok) /\ Missed(c, {}, ok)
  BY DEF Worker
<1>d. /\ (ok => /\ phase' = [phase EXCEPT ![c] = "gone"]
                /\ use' = [use EXCEPT ![c] = @ - 1]
                /\ dying' = Tail(dying)
                /\ stable' = [d \in Dumps |-> stable[d] \ {c}])
      /\ (~ok => UNCHANGED <<phase, use, dying, stable>>)
  <2>1. ASSUME ok
        PROVE  /\ phase' = [phase EXCEPT ![c] = "gone"] /\ use' = [use EXCEPT ![c] = @ - 1]
               /\ dying' = Tail(dying) /\ stable' = [d \in Dumps |-> stable[d] \ {c}]
    BY <2>1 DEF Worker
  <2>2. ASSUME ~ok PROVE UNCHANGED <<phase, use, dying, stable>>
    BY <2>2 DEF Worker
  <2> QED
    BY <2>1, <2>2
<1> HIDE DEF c
<1>1. /\ Buffers' /\ err' \in [Listeners -> BOOLEAN]
      /\ congested' \in [Listeners -> BOOLEAN] /\ lost' \in [Listeners -> SUBSET Cts]
  <2>1. TypeOK /\ c \in Cts /\ None \in Requesters \cup {None}
    BY <1>a, <1>b
  <2>2. ctnetlink_conntrack_event(c, missed[c], None, ok)
    BY <1>e
  <2> QED
    BY <2>1, <2>2, EventStep, Zenon
<1>2. missed' \in [Cts -> SUBSET CtEvents]
  BY <1>a, <1>b, <1>e, MissedType
<1>3. \A x \in Cts : Cursors(x)' = Cursors(x)
  BY <1>a DEF Cursors
<1>4. use[c] >= 1 /\ \A x \in Cts : use[x] = Tracked(x) + Cardinality(Cursors(x)) /\ Cardinality(Cursors(x)) \in Nat
  BY <1>b, <1>c, CursorsType DEF Tracked
<1>7. CASE ok
  <2>1. /\ phase' \in [Cts -> {"none", "live", "dying", "gone"}] /\ use' \in [Cts -> Nat]
        /\ \A x \in Cts : x # c => phase'[x] = phase[x] /\ use'[x] = use[x]
        /\ phase'[c] = "gone" /\ use'[c] = use[c] - 1 /\ dying' = Tail(dying)
        /\ stable' \in [Dumps -> SUBSET Cts] /\ \A d \in Dumps : stable'[d] = stable[d] \ {c}
    <3>1. phase \in [Cts -> {"none", "live", "dying", "gone"}] /\ use \in [Cts -> Nat]
          /\ stable \in [Dumps -> SUBSET Cts]
      BY <1>a DEF TypeOK
    <3>2. /\ phase' = [phase EXCEPT ![c] = "gone"] /\ use' = [use EXCEPT ![c] = @ - 1]
          /\ dying' = Tail(dying) /\ stable' = [d \in Dumps |-> stable[d] \ {c}]
      BY <1>7, <1>d
    <3>3. c \in Cts /\ use[c] >= 1
      BY <1>b, <1>4
    <3>4. phase' \in [Cts -> {"none", "live", "dying", "gone"}] /\ use' \in [Cts -> Nat]
      BY <3>1, <3>2, <3>3
    <3>5. stable' \in [Dumps -> SUBSET Cts] /\ \A d \in Dumps : stable'[d] = stable[d] \ {c}
      BY <3>1, <3>2
    <3> QED
      BY <3>1, <3>2, <3>3, <3>4, <3>5
  <2>2. \A i, j \in DOMAIN dying : dying[i] = dying[j] => i = j
    BY <1>a, PositionType
  <2>3. \A x \in Cts : (\E i \in DOMAIN dying' : dying'[i] = x) <=> x # c /\ \E i \in DOMAIN dying : dying[i] = x
    <3>1. \A i \in DOMAIN dying' : i \in Nat \ {0} /\ i + 1 \in DOMAIN dying /\ dying'[i] = dying[i + 1]
      BY <2>1, <1>b
    <3>2. \A i \in DOMAIN dying' : dying'[i] # c
      BY <3>1, <2>2, <1>b
    <3>3. \A i \in DOMAIN dying : dying[i] # c => i - 1 \in DOMAIN dying' /\ dying'[i - 1] = dying[i]
      BY <2>1, <1>b
    <3> QED
      BY <3>1, <3>2, <3>3
  <2>4. dying' \in Seq(Cts) /\ IsInjective(dying')
    BY <2>1, <2>2, <1>b DEF IsInjective
  <2>5. TypeOK'
    BY <2>1, <2>4, <1>1, <1>2, <1>a DEF TypeOK
  <2>6. ListInv'
    <3>1. \A x \in Cts : phase'[x] = "dying" <=> \E i \in DOMAIN dying' : dying'[i] = x
      BY <2>1, <2>3, <1>a, <1>b DEF ListInv
    <3>2. \A d \in Dumps : \A x \in stable'[d] : x \in Cts /\ phase'[x] = "dying"
      BY <2>1, <1>a DEF ListInv, TypeOK
    <3> QED
      BY <3>1, <3>2, <2>1, <1>a, ListStep
  <2>7. \A x \in Cts : use'[x] = Tracked(x)' + Cardinality(Cursors(x)')
    BY <2>1, <1>3, <1>4, <1>c DEF Tracked
  <2>8. RefsBalanced'
    BY <2>7 DEF RefsBalanced, Tracked, Cursors
  <2> QED
    BY <2>5, <2>6, <2>8 DEF RefInv
<1>8. CASE ~ok
  BY <1>8, <1>1, <1>2, <1>a, <1>d DEF RefInv, TypeOK, ListInv, RefsBalanced
<1> QED
  BY <1>7, <1>8

\* A dump begins, ends, or moves its cursor.
LEMMA RefMove ==
  ASSUME RefInv, NEW d \in Dumps, NEW new \in Cts \cup {None}, last' = [last EXCEPT ![d] = new],
         MoveCursor(last[d], new), UNCHANGED phase
  PROVE  use' \in [Cts -> Nat] /\ RefsBalanced'
<1>1. \A c \in Cts : Cardinality(Cursors(c)') = Cardinality(Cursors(c)) + One(c, new) - One(c, last[d])
  BY CursorMoves DEF RefInv
<1>2. \A c \in Cts : Cursors(c)' \in SUBSET Dumps
  BY DEF Cursors
<1>3. \A c \in Cts : Cardinality(Cursors(c)') \in Nat
  BY <1>2, Counting
<1>4. \A c \in Cts : use[c] = Tracked(c) + Cardinality(Cursors(c)) /\ Cardinality(Cursors(c)) \in Nat
  BY CursorsType
<1>5. \A c \in Cts : Tracked(c)' = Tracked(c) /\ Tracked(c) \in Nat
  BY DEF Tracked
<1>6. \A c \in Cts : One(c, new) \in Nat /\ One(c, last[d]) \in Nat
  BY DEF One
<1>7. use' = [c \in Cts |-> use[c] + One(c, new) - One(c, last[d])]
  BY DEF MoveCursor
<1>8. \A c \in Cts : use'[c] = Tracked(c)' + Cardinality(Cursors(c)')
  BY <1>1, <1>4, <1>5, <1>6, <1>7
<1>9. \A c \in Cts : use'[c] \in Nat
  BY <1>3, <1>5, <1>8
<1> QED
  BY <1>7, <1>8, <1>9 DEF RefsBalanced, Tracked, Cursors

LEMMA RefStart ==
  ASSUME RefInv, NEW d \in Dumps, NEW f \in Families,
         ctnetlink_get_ct_dying(d, f) \/ ctnetlink_get_ct_unconfirmed(d)
  PROVE  RefInv'
<1>a. TypeOK /\ ListInv /\ RefsBalanced
  BY DEF RefInv
<1>1. PICK to \in {"dying", "unconfirmed"}, g \in Families, entries \in {ToSet(dying), {}} :
        /\ DumpStart(d, to, g, entries)
        /\ (to = "dying" /\ entries = ToSet(dying)) \/ (to = "unconfirmed" /\ entries = {})
  BY DEF ctnetlink_get_ct_dying, ctnetlink_get_ct_unconfirmed, Families
<1>2. entries \in SUBSET Cts /\ \A c \in entries : phase[c] = "dying"
  BY <1>1, <1>a, PositionType DEF ListInv, ToSet
<1>3. /\ dpc[d] = "idle" /\ dpc' = [dpc EXCEPT ![d] = to] /\ fam' = [fam EXCEPT ![d] = g]
      /\ stable' = [stable EXCEPT ![d] = entries]
      /\ UNCHANGED <<entryVars, sockVars, last, done, reported, strayed>>
  BY <1>1 DEF DumpStart
<1>4. TypeOK'
  BY <1>1, <1>2, <1>3, <1>a DEF TypeOK, entryVars, sockVars, Buffers
<1>5. ListInv'
  <2>1. UNCHANGED <<phase, dying, last, done>>
    BY <1>3 DEF entryVars
  <2>2. \A e \in Dumps : dpc'[e] = "idle" => dpc[e] = "idle"
    BY <1>1, <1>3, <1>a DEF TypeOK
  <2>3. \A e \in Dumps : dpc'[e] = "unconfirmed" => stable'[e] = {}
    BY <1>1, <1>3, <1>a DEF TypeOK, ListInv
  <2>4. \A e \in Dumps : \A c \in stable'[e] : phase[c] = "dying"
    BY <1>2, <1>3, <1>a DEF TypeOK, ListInv
  <2> QED
    BY <2>1, <2>2, <2>3, <2>4, <1>a DEF ListInv
<1>6. RefsBalanced'
  BY <1>3, <1>a DEF RefsBalanced, entryVars
<1> QED
  BY <1>4, <1>5, <1>6 DEF RefInv

LEMMA RefCallback ==
  ASSUME RefInv, NEW d \in Dumps, NEW room, ctnetlink_dump_dying(d, room)
  PROVE  RefInv'
<1> DEFINE s == {i \in Rest(last[d]) : Wanted(dying[i], fam[d])}
           next == NotFitting(s, room)
<1>a. TypeOK /\ ListInv /\ RefsBalanced
  BY DEF RefInv
<1>b. s \in SUBSET DOMAIN dying
  BY DEF Rest
<1>c. /\ Fits(s, room) \subseteq s
      /\ next = None \/ \E m \in s : next = dying[m]
  <2> HIDE DEF s
  <2> QED
    BY <1>a, <1>b, Leaving
<1>d. next \in Cts \cup {None} /\ (next # None => phase[next] = "dying")
  BY <1>a, <1>b, <1>c, PositionType DEF ListInv
<1>1. /\ dpc[d] = "dying" /\ ~done[d]
      /\ reported' = [reported EXCEPT ![d] = @ \cup {dying[i] : i \in Fits(s, room)}]
      /\ last' = [last EXCEPT ![d] = next]
      /\ done' = [done EXCEPT ![d] = next = None]
      /\ MoveCursor(last[d], next)
      /\ dpc' = [dpc EXCEPT ![d] = IF s = {} THEN "finish" ELSE @]
      /\ strayed' = [strayed EXCEPT ![d] = @ \/ (last[d] # None /\ last[d] \notin ToSet(dying))]
      /\ UNCHANGED <<phase, missed, dying, sockVars, fam, stable>>
  BY DEF ctnetlink_dump_dying, NextCursor
<1>e. {dying[i] : i \in Fits(s, room)} \in SUBSET Cts
  BY <1>a, <1>b, <1>c, PositionType
<1> HIDE DEF s, next
<1>2. use' \in [Cts -> Nat] /\ RefsBalanced'
  BY <1>1, <1>d, RefMove
<1>3. /\ reported' \in [Dumps -> SUBSET Cts] /\ last' \in [Dumps -> Cts \cup {None}]
      /\ dpc' \in [Dumps -> {"idle", "dying", "unconfirmed", "finish"}]
      /\ \A e \in Dumps : e # d => dpc'[e] = dpc[e] /\ last'[e] = last[e]
      /\ last'[d] = next /\ dpc'[d] \in {"dying", "finish"}
  BY <1>1, <1>a, <1>d, <1>e DEF TypeOK
<1>4. done' \in [Dumps -> BOOLEAN] /\ strayed' \in [Dumps -> BOOLEAN]
  BY <1>1, <1>a DEF TypeOK
<1>5. \A e \in Dumps : (e # d => done'[e] = done[e]) /\ (e = d => done'[e] = (next = None))
  BY <1>1, <1>a DEF TypeOK
<1>6. TypeOK'
  <2>1. \A e \in Dumps : done'[e] => last'[e] = None
    BY <1>3, <1>5, <1>a DEF TypeOK
  <2> QED
    BY <2>1, <1>1, <1>2, <1>3, <1>4, <1>a DEF TypeOK, sockVars, Buffers
<1>7. ListInv'
  <2>1. \A e \in Dumps : last'[e] # None => phase[last'[e]] \in {"dying", "gone"}
    BY <1>3, <1>a, <1>d DEF ListInv
  <2>2. \A e \in Dumps : dpc'[e] \in {"idle", "unconfirmed"} => e # d
    BY <1>3
  <2> QED
    BY <2>1, <2>2, <1>1, <1>3, <1>5, <1>a DEF ListInv
<1> QED
  BY <1>2, <1>6, <1>7 DEF RefInv

LEMMA RefFinish ==
  ASSUME RefInv, NEW d \in Dumps,
         DumpDyingEmpty(d) \/ ctnetlink_dump_unconfirmed(d) \/ ctnetlink_done_list(d)
  PROVE  RefInv'
<1>a. TypeOK /\ ListInv /\ RefsBalanced
  BY DEF RefInv
<1>1. CASE DumpDyingEmpty(d) \/ ctnetlink_dump_unconfirmed(d)
  <2>1. dpc' = [dpc EXCEPT ![d] = "finish"] /\ UNCHANGED <<entryVars, sockVars, last, done, fam, reported, stable, strayed>>
    BY <1>1 DEF DumpDyingEmpty, ctnetlink_dump_unconfirmed
  <2>2. dpc' \in [Dumps -> {"idle", "dying", "unconfirmed", "finish"}]
        /\ \A e \in Dumps : dpc'[e] \in {"idle", "unconfirmed"} => dpc'[e] = dpc[e]
    BY <2>1, <1>a DEF TypeOK
  <2> QED
    BY <2>1, <2>2, <1>a DEF RefInv, TypeOK, ListInv, RefsBalanced, entryVars, sockVars, Buffers
<1>2. CASE ctnetlink_done_list(d)
  <2>1. /\ use' = [c \in Cts |-> use[c] - One(c, last[d])]
        /\ dpc' = [dpc EXCEPT ![d] = "idle"]
        /\ last' = [last EXCEPT ![d] = None]
        /\ done' = [done EXCEPT ![d] = FALSE]
        /\ fam' = [fam EXCEPT ![d] = 0]
        /\ reported' = [reported EXCEPT ![d] = {}]
        /\ stable' = [stable EXCEPT ![d] = {}]
        /\ strayed' = [strayed EXCEPT ![d] = FALSE]
        /\ UNCHANGED <<phase, missed, dying, sockVars>>
    BY <1>2 DEF ctnetlink_done_list
  <2>2. use' \in [Cts -> Nat] /\ RefsBalanced'
    <3>1. \A c \in Cts : One(c, None) = 0 /\ use[c] \in Nat /\ One(c, last[d]) \in Nat
      BY <1>a, EntryAssumption DEF One, TypeOK
    <3>2. MoveCursor(last[d], None)
      BY <2>1, <3>1 DEF MoveCursor
    <3> QED
      BY <2>1, <3>2, RefMove
  <2>3. /\ dpc' \in [Dumps -> {"idle", "dying", "unconfirmed", "finish"}]
        /\ last' \in [Dumps -> Cts \cup {None}] /\ fam' \in [Dumps -> Families]
        /\ reported' \in [Dumps -> SUBSET Cts] /\ stable' \in [Dumps -> SUBSET Cts]
        /\ \A e \in Dumps : e # d => dpc'[e] = dpc[e] /\ last'[e] = last[e] /\ stable'[e] = stable[e]
        /\ last'[d] = None /\ dpc'[d] = "idle" /\ stable'[d] = {}
    BY <2>1, <1>a DEF TypeOK, Families
  <2>4. /\ done' \in [Dumps -> BOOLEAN] /\ strayed' \in [Dumps -> BOOLEAN]
        /\ ~done'[d] /\ \A e \in Dumps : e # d => done'[e] = done[e]
    BY <2>1, <1>a DEF TypeOK
  <2>5. TypeOK'
    BY <2>1, <2>2, <2>3, <2>4, <1>a DEF TypeOK, sockVars, Buffers
  <2>6. ListInv'
    BY <2>1, <2>3, <2>4, <1>a DEF ListInv
  <2> QED
    BY <2>2, <2>5, <2>6 DEF RefInv
<1> QED
  BY <1>1, <1>2

LEMMA RefStep == RefInv /\ [Next]_vars => RefInv'
<1> SUFFICES ASSUME RefInv, [Next]_vars PROVE RefInv'
  OBVIOUS
<1>1. CASE UNCHANGED vars
  BY <1>1 DEF RefInv, TypeOK, ListInv, RefsBalanced, vars, entryVars, sockVars, dumpVars, Buffers
<1>2. CASE Kernel
  BY <1>2, RefLive, RefDelete DEF Kernel
<1>3. CASE Next /\ ~Kernel
  <2>1. 0 \in Families
    BY DEF Families
  <2> QED
    BY <1>3, <2>1, RefSockets, RefWorker, RefStart, RefCallback, RefFinish DEF Next, Callback
<1> QED
  BY <1>1, <1>2, <1>3

LEMMA RefAlways == Spec => []RefInv
BY RefInit, RefStep, PTL DEF Spec

\* Every variable keeps its type: the dying list has an entry once, a receive
\* buffer never has more messages than it takes, and a dump that is done has no
\* cursor.
THEOREM Typing == Spec => []TypeOK
<1>1. RefInv => TypeOK
  BY DEF RefInv
<1> QED
  BY <1>1, RefAlways, PTL

\* An entry has one reference while it is in the table or on the dying list, and
\* one for each dump that is to resume at it: ctnetlink_dump_dying and
\* ctnetlink_done_list put every cursor they replace, however the worker and
\* other dumps get between their callbacks.
THEOREM References == Spec => []RefsBalanced
<1>1. RefInv => RefsBalanced
  BY DEF RefInv
<1> QED
  BY <1>1, RefAlways, PTL

-----------------------------------------------------------------------------
(* Listeners.                                                              *)

\* The steps that tell of no entry: an error or congestion goes only when a
\* listener is over it.
LEMMA SilentStep ==
  ASSUME TypeOK, [Next]_vars, ~Kernel, ~\E ok \in BOOLEAN : Worker(ok)
  PROVE  /\ UNCHANGED <<phase, missed>>
         /\ \A l \in Listeners : lost'[l] \subseteq lost[l]
         /\ \A l \in Listeners : err[l] \/ congested[l] => err'[l] \/ congested'[l] \/ lost'[l] = {}
<1> DEFINE Kept == \A l \in Listeners : err[l] \/ congested[l] => err'[l] \/ congested'[l] \/ lost'[l] = {}
           Fewer == \A l \in Listeners : lost'[l] \subseteq lost[l]
<1>1. CASE UNCHANGED vars
  BY <1>1 DEF vars, entryVars, sockVars
<1>2. ASSUME NEW l \in Listeners, Receive(l) PROVE UNCHANGED <<phase, missed>> /\ Kept /\ Fewer
  <2>1. UNCHANGED <<phase, missed>>
    BY <1>2 DEF Receive, Read, ReadError, entryVars
  <2>2. Recover(l) /\ lost \in [Listeners -> SUBSET Cts]
    BY <1>2 DEF Receive, Read, ReadError, TypeOK
  <2>3. Fewer
    BY <2>2 DEF Recover
  <2>4. \A k \in Listeners : k # l => err'[k] = err[k] /\ congested'[k] = congested[k]
    BY <1>2 DEF Receive, Read, ReadError, TypeOK
  <2>5. err[l] \/ congested[l] => err'[l] \/ congested'[l] \/ lost'[l] = {}
    BY <2>2 DEF Recover
  <2> QED
    BY <2>1, <2>3, <2>4, <2>5
<1>3. CASE Expectations
  <2>1. PICK event, portid : ctnetlink_expect_event(event, portid)
    BY <1>3 DEF Expectations
  <2>2. UNCHANGED <<phase, missed, lost>>
    BY <2>1 DEF ctnetlink_expect_event, entryVars
  <2>3. ASSUME NEW to, nfnetlink_send(to) \/ nfnetlink_set_err(to) PROVE Kept
    BY <2>3 DEF nfnetlink_send, nfnetlink_set_err
  <2>4. ASSUME UNCHANGED <<queue, err, congested>> PROVE Kept
    BY <2>4
  <2> HIDE DEF Kept
  <2>5. Kept
    BY <2>1, <2>3, <2>4 DEF ctnetlink_expect_event
  <2> QED
    BY <2>2, <2>5 DEF Kept
<1>4. ASSUME NEW d \in Dumps,
             Callback(d) \/ (\E f \in Families : ctnetlink_get_ct_dying(d, f)) \/ ctnetlink_get_ct_unconfirmed(d)
      PROVE  UNCHANGED <<phase, missed, lost, err, congested>>
  BY <1>4 DEF Callback, ctnetlink_dump_dying, DumpDyingEmpty, ctnetlink_dump_unconfirmed,
              ctnetlink_done_list, ctnetlink_get_ct_dying, ctnetlink_get_ct_unconfirmed, DumpStart,
              entryVars, sockVars
<1>5. CASE UNCHANGED <<phase, missed, lost, err, congested>>
  BY <1>5
<1> HIDE DEF Kept, Fewer
<1>6. UNCHANGED <<phase, missed>> /\ Kept /\ Fewer
  BY <1>1, <1>2, <1>3, <1>4, <1>5 DEF Next, Kept, Fewer
<1> QED
  BY <1>6 DEF Kept, Fewer

\* What is told again goes to the same group, or to the listeners to the end of
\* entries.
LEMMA SameGroup ==
  ASSUME NEW m \in SUBSET CtEvents, m # {}, NEW kept \in SUBSET {"UPDATE", "DESTROY"}
  PROVE  EventGroup(m \cup kept) \in {EventGroup(m), "destroy"}
BY DEF EventGroup, CtEvents

\* A call of ctnetlink_conntrack_event: for events that the cache keeps if it
\* fails, together with those that it has kept before.
Call(c, kept, portid, ok) ==
  /\ ctnetlink_conntrack_event(c, kept \cup missed[c], portid, ok)
  /\ Missed(c, kept, ok)
  /\ kept \cup missed[c] # {}
  /\ missed[c] # {} => kept \subseteq {"UPDATE", "DESTROY"}
  /\ \A x \in Cts : x # c => phase'[x] = phase[x]
  /\ ~ok => phase'[c] \in {"live", "dying"}
  /\ phase'[c] # "none" /\ (phase'[c] = "dying" => ~ok)

LEMMA Calls ==
  ASSUME RefInv, MissedInv, Kernel \/ \E ok \in BOOLEAN : Worker(ok)
  PROVE  \E c \in Cts, kept \in SUBSET CtEvents, portid \in Requesters \cup {None}, ok \in BOOLEAN :
           Call(c, kept, portid, ok)
<1>a. TypeOK /\ phase \in [Cts -> {"none", "live", "dying", "gone"}]
  BY DEF RefInv, TypeOK
<1>1. ASSUME NEW c \in Cts, NEW portid \in Requesters \cup {None}, NEW ok \in BOOLEAN, NewEntry(c, portid, ok)
      PROVE  \E kept \in SUBSET CtEvents : Call(c, kept, portid, ok)
  <2> DEFINE kept == {IF c \in Related THEN "RELATED" ELSE "NEW"}
  <2>1. kept \in SUBSET CtEvents /\ kept # {} /\ missed[c] = {} /\ kept \cup missed[c] = kept
    BY <1>1 DEF NewEntry, MissedInv, CtEvents
  <2>2. ctnetlink_conntrack_event(c, kept, portid, ok) /\ Missed(c, kept, ok) /\ phase' = [phase EXCEPT ![c] = "live"]
    BY <1>1 DEF NewEntry
  <2> HIDE DEF kept
  <2>3. Call(c, kept, portid, ok)
    BY <2>1, <2>2, <1>a DEF Call
  <2> QED
    BY <2>1, <2>3
<1>2. ASSUME NEW c \in Cts, NEW portid \in Requesters \cup {None}, NEW ok \in BOOLEAN, Update(c, portid, ok)
      PROVE  \E kept \in SUBSET CtEvents : Call(c, kept, portid, ok)
  <2>1. Call(c, {"UPDATE"}, portid, ok)
    BY <1>2, <1>a DEF Update, Call
  <2> QED
    BY <2>1 DEF CtEvents
<1>3. ASSUME NEW c \in Cts, NEW portid \in Requesters \cup {None}, NEW ok \in BOOLEAN, Delete(c, portid, ok)
      PROVE  \E kept \in SUBSET CtEvents : Call(c, kept, portid, ok)
  <2>1. phase' = [phase EXCEPT ![c] = IF ok THEN "gone" ELSE "dying"]
    BY <1>3 DEF Delete
  <2>2. ctnetlink_conntrack_event(c, {"DESTROY"} \cup missed[c], portid, ok) /\ Missed(c, {"DESTROY"}, ok)
    BY <1>3 DEF Delete
  <2>3. Call(c, {"DESTROY"}, portid, ok)
    BY <2>1, <2>2, <1>a DEF Call
  <2> QED
    BY <2>3 DEF CtEvents
<1>4. ASSUME NEW ok \in BOOLEAN, Worker(ok)
      PROVE  \E c \in Cts : Call(c, {}, None, ok)
  <2> DEFINE c == Head(dying)
  <2>1. c \in Cts /\ phase[c] = "dying"
    BY <1>4, <1>a, Popped DEF Worker, RefInv, ListInv, TypeOK
  <2>2. ctnetlink_conntrack_event(c, missed[c], None, ok) /\ Missed(c, {}, ok)
        /\ phase' = IF ok THEN [phase EXCEPT ![c] = "gone"] ELSE phase
    BY <1>4 DEF Worker
  <2> HIDE DEF c
  <2>3. missed[c] # {} /\ {} \cup missed[c] = missed[c]
    BY <2>1 DEF MissedInv
  <2>4. Call(c, {}, None, ok)
    BY <2>1, <2>2, <2>3, <1>a DEF Call
  <2> QED
    BY <2>1, <2>4
<1> QED
  BY <1>1, <1>2, <1>3, <1>4 DEF Kernel

LEMMA MissedStep == RefInv /\ MissedInv /\ [Next]_vars => MissedInv'
<1> SUFFICES ASSUME RefInv, MissedInv, [Next]_vars PROVE MissedInv'
  OBVIOUS
<1>1. ASSUME NEW c \in Cts, NEW kept \in SUBSET CtEvents, NEW portid, NEW ok \in BOOLEAN,
             Call(c, kept, portid, ok)
      PROVE  MissedInv'
  <2>1. /\ \A x \in Cts : x # c => missed'[x] = missed[x]
        /\ ok => missed'[c] = {}
        /\ ~ok => missed'[c] = missed[c] \cup kept
    BY <1>1, MissedType DEF Call, RefInv
  <2> QED
    BY <1>1, <2>1 DEF Call, MissedInv
<1>2. CASE Kernel \/ \E ok \in BOOLEAN : Worker(ok)
  BY <1>1, <1>2, Calls
<1>3. CASE ~Kernel /\ ~\E ok \in BOOLEAN : Worker(ok)
  BY <1>3, SilentStep DEF MissedInv, RefInv
<1> QED
  BY <1>2, <1>3

LEMMA LossStep == RefInv /\ MissedInv /\ NoSilentLoss /\ [Next]_vars => NoSilentLoss'
<1> SUFFICES ASSUME RefInv, MissedInv, NoSilentLoss, [Next]_vars PROVE NoSilentLoss'
  OBVIOUS
<1>1. CASE Kernel \/ \E ok \in BOOLEAN : Worker(ok)
  <2>1. PICK c \in Cts, kept \in SUBSET CtEvents, portid \in Requesters \cup {None}, ok \in BOOLEAN :
          Call(c, kept, portid, ok)
    BY <1>1, Calls
  <2>2. /\ \A l \in Listeners : Tells(l) => lost'[l] \subseteq lost[l] \/ err'[l] \/ congested'[l]
        /\ \A l \in Listeners : err[l] \/ congested[l] => err'[l] \/ congested'[l]
    <3>1. TypeOK /\ \E events : ctnetlink_conntrack_event(c, events, portid, ok)
      BY <2>1 DEF Call, RefInv
    <3> QED
      BY <3>1, EventStep
  <2> QED
    BY <2>2 DEF NoSilentLoss, Tells
<1>2. CASE ~Kernel /\ ~\E ok \in BOOLEAN : Worker(ok)
  <2>1. /\ \A l \in Listeners : lost'[l] \subseteq lost[l]
        /\ \A l \in Listeners : err[l] \/ congested[l] => err'[l] \/ congested'[l] \/ lost'[l] = {}
    BY <1>2, SilentStep DEF RefInv
  <2> QED
    BY <2>1 DEF NoSilentLoss, Tells
<1> QED
  BY <1>1, <1>2

LEMMA AgainStep == RefInv /\ MissedInv /\ AgainInv /\ [Next]_vars => AgainInv'
<1> SUFFICES ASSUME RefInv, MissedInv, AgainInv, [Next]_vars PROVE AgainInv'
  OBVIOUS
<1>1. CASE Kernel \/ \E ok \in BOOLEAN : Worker(ok)
  <2>1. PICK c \in Cts, kept \in SUBSET CtEvents, portid \in Requesters \cup {None}, ok \in BOOLEAN :
          Call(c, kept, portid, ok)
    BY <1>1, Calls
  <2> DEFINE events == kept \cup missed[c]
             group == EventGroup(events)
  <2>2. /\ lost' \in [Listeners -> SUBSET Cts]
        /\ \A l \in Listeners : lost'[l] \ {c} = lost[l] \ {c}
        /\ \A l \in Listeners : group \notin Groups[l] => lost'[l] = lost[l]
        /\ \A l \in Listeners : group \in Groups[l] /\ SocketOptions \subseteq Options[l] /\ ok
             => c \notin lost'[l]
    <3>1. TypeOK /\ ctnetlink_conntrack_event(c, events, portid, ok)
      BY <2>1 DEF Call, RefInv
    <3> HIDE DEF events
    <3> QED
      BY <3>1, EventStep
  <2>3. /\ \A x \in Cts : x # c => missed'[x] = missed[x] /\ phase'[x] = phase[x]
        /\ ~ok => missed'[c] = kept \cup missed[c] /\ phase'[c] \in {"live", "dying"}
        /\ kept \cup missed[c] # {} /\ missed[c] \in SUBSET CtEvents
        /\ missed[c] # {} => kept \in SUBSET {"UPDATE", "DESTROY"}
    <3>1. TypeOK /\ missed[c] \in SUBSET CtEvents
      BY DEF RefInv, TypeOK
    <3>2. /\ \A x \in Cts : x # c => missed'[x] = missed[x]
          /\ ~ok => missed'[c] = missed[c] \cup kept
      BY <2>1, <3>1, MissedType DEF Call
    <3> QED
      BY <2>1, <3>1, <3>2 DEF Call
  <2>4. SUFFICES ASSUME NEW l \in Listeners, Reliable(l), NEW x \in lost'[l]
                 PROVE  /\ phase'[x] \in {"live", "dying"} /\ missed'[x] # {}
                        /\ EventGroup(missed'[x]) \in Groups[l]
    BY DEF AgainInv, Reliable, EventGroup
  <2>5. SocketOptions \subseteq Options[l] /\ "destroy" \in Groups[l]
    BY <2>4 DEF Reliable
  <2>6. CASE x # c
    BY <2>2, <2>3, <2>4, <2>6 DEF AgainInv
  <2>7. CASE x = c
    <3>1. group \in Groups[l]
      <4> SUFFICES ASSUME group \notin Groups[l] PROVE FALSE
        OBVIOUS
      <4>1. missed[c] # {} /\ EventGroup(missed[c]) \in Groups[l]
        BY <2>2, <2>4, <2>7 DEF AgainInv
      <4>2. group \in {EventGroup(missed[c]), "destroy"}
        <5>1. kept \cup missed[c] = missed[c] \cup kept
          OBVIOUS
        <5> QED
          BY <2>3, <4>1, <5>1, SameGroup
      <4> QED
        BY <4>1, <4>2, <2>5
    <3>2. ~ok
      BY <2>2, <2>4, <2>5, <2>7, <3>1
    <3> QED
      BY <2>3, <2>7, <3>1, <3>2
  <2> QED
    BY <2>6, <2>7
<1>2. CASE ~Kernel /\ ~\E ok \in BOOLEAN : Worker(ok)
  <2>1. UNCHANGED <<phase, missed>> /\ \A l \in Listeners : lost'[l] \subseteq lost[l]
    BY <1>2, SilentStep DEF RefInv
  <2> QED
    BY <2>1 DEF AgainInv, Reliable, EventGroup
<1> QED
  BY <1>1, <1>2

LEMMA MissedAlways == Spec => []MissedInv
<1>1. Init => MissedInv
  BY DEF Init, MissedInv
<1> QED
  BY <1>1, MissedStep, RefAlways, PTL DEF Spec

\* Whatever options the others have set, a listener that did not turn ENOBUFS off
\* gets every message of ctnetlink_conntrack_event in its groups but those that
\* fall between an error and the moment at which it is over it.
THEOREM Loss == Spec => []NoSilentLoss
<1>1. Init => NoSilentLoss
  BY DEF Init, NoSilentLoss
<1> QED
  BY <1>1, LossStep, MissedAlways, RefAlways, PTL DEF Spec

\* A listener with NETLINK_BROADCAST_ERROR and NETLINK_NO_ENOBUFS that has lost a
\* message about an entry is told of it again before the entry is let go: the
\* result of ctnetlink_conntrack_event makes the event cache keep the entry's
\* events, and they go to a group that the listener is in.
THEOREM Redelivery == Spec => []ReliableNotForgotten
<1>1. Init => AgainInv
  BY DEF Init, AgainInv
<1>2. AgainInv => ReliableNotForgotten
  BY DEF AgainInv, ReliableNotForgotten
<1> QED
  BY <1>1, <1>2, AgainStep, MissedAlways, RefAlways, PTL DEF Spec

-----------------------------------------------------------------------------
(* The dump of the dying entries.                                          *)

\* Neither an entry that comes to the head of the list nor one that goes from
\* there changes the order of the others.
LEMMA OrderStep ==
  ASSUME RefInv, Kernel \/ \E ok \in BOOLEAN : Worker(ok),
         NEW x \in Cts, NEW y \in Cts, phase[x] \in {"dying", "gone"}, phase'[y] = "dying", Precedes(x, y)
  PROVE  Precedes(x, y)'
<1>a. TypeOK /\ ListInv
  BY DEF RefInv
<1>1. CASE UNCHANGED dying /\ (phase'[x] = "dying" => phase[x] = "dying")
  BY <1>1 DEF Precedes
<1>2. ASSUME NEW c \in Cts, NEW portid, NEW ok \in BOOLEAN, NewEntry(c, portid, ok) \/ Update(c, portid, ok)
      PROVE  Precedes(x, y)'
  BY <1>1, <1>2, <1>a DEF NewEntry, Update, TypeOK
<1>3. ASSUME NEW c \in Cts, NEW portid, NEW ok \in BOOLEAN, Delete(c, portid, ok)
      PROVE  Precedes(x, y)'
  <2>1. x # c /\ phase'[x] = phase[x]
    BY <1>3, <1>a DEF Delete, TypeOK
  <2>2. CASE ok
    BY <1>1, <1>3, <2>1, <2>2 DEF Delete
  <2>3. CASE ~ok
    <3>1. \A i \in DOMAIN dying : i + 1 \in DOMAIN dying' /\ dying'[i + 1] = dying[i]
      BY <1>3, <2>3, <1>a, Pushed DEF Delete, TypeOK
    <3> SUFFICES ASSUME phase[x] = "dying"
                 PROVE  \E i \in DOMAIN dying' : \E j \in 1..i : dying'[j] = x /\ dying'[i] = y
      BY <2>1 DEF Precedes
    <3>2. PICK i \in DOMAIN dying, j \in Nat : j \in 1..i /\ dying[j] = x /\ dying[i] = y
      BY <1>a, PositionType DEF Precedes
    <3>3. i \in Nat /\ j \in DOMAIN dying /\ j + 1 \in 1..(i + 1)
      BY <3>2, <1>a, PositionType
    <3> QED
      BY <3>1, <3>2, <3>3
  <2> QED
    BY <2>2, <2>3
<1>4. ASSUME NEW ok \in BOOLEAN, Worker(ok) PROVE Precedes(x, y)'
  <2>1. CASE ~ok
    BY <1>1, <1>4, <2>1 DEF Worker
  <2>2. CASE ok
    <3>1. /\ dying' = Tail(dying) /\ phase' = [phase EXCEPT ![Head(dying)] = "gone"] /\ dying # <<>>
      BY <1>4, <2>2 DEF Worker
    <3>2. /\ Head(dying) \in Cts /\ dying[1] = Head(dying)
          /\ \A i \in DOMAIN dying : i = 1 \/ (i - 1 \in DOMAIN dying' /\ dying'[i - 1] = dying[i])
      BY <3>1, <1>a, Popped DEF TypeOK
    <3>3. y # Head(dying)
      BY <3>1, <3>2, <1>a DEF TypeOK
    <3> SUFFICES ASSUME phase'[x] = "dying"
                 PROVE  \E i \in DOMAIN dying' : \E j \in 1..i : dying'[j] = x /\ dying'[i] = y
      BY DEF Precedes
    <3>4. x # Head(dying) /\ phase[x] = "dying"
      BY <3>1, <3>2, <1>a DEF TypeOK
    <3>5. PICK i \in DOMAIN dying, j \in Nat : j \in 1..i /\ dying[j] = x /\ dying[i] = y
      BY <3>4, <1>a, PositionType DEF Precedes
    <3>6. i \in Nat /\ j \in DOMAIN dying /\ i # 1 /\ j # 1
      BY <3>2, <3>3, <3>4, <3>5, <1>a, PositionType
    <3>7. j - 1 \in 1..(i - 1)
      BY <3>5, <3>6
    <3>8. i - 1 \in DOMAIN dying' /\ dying'[i - 1] = y /\ dying'[j - 1] = x
      BY <3>2, <3>5, <3>6
    <3> QED
      BY <3>7, <3>8
  <2> QED
    BY <2>1, <2>2
<1> QED
  BY <1>2, <1>3, <1>4 DEF Kernel

\* What a dump has to report, has not reported, and has still to visit.
Ahead(d) ==
  \A c \in stable[d] : Wanted(c, fam[d]) /\ c \notin reported[d] =>
    ~done[d] /\ (last[d] # None => Precedes(last[d], c))

Reported(d) == \A c \in stable[d] : Wanted(c, fam[d]) => c \in reported[d]

LEMMA CursorParts ==
  CursorInv <=> \A d \in Dumps : /\ dpc[d] = "dying" /\ ~strayed[d] => Ahead(d)
                                 /\ dpc[d] = "finish" /\ ~strayed[d] => Reported(d)
BY DEF CursorInv, StableReported, Ahead, Reported

\* A callback: what it visits and does not report is not before the entry that it
\* leaves for the next one.
LEMMA CallbackStep ==
  ASSUME RefInv, NEW d \in Dumps, NEW room, ctnetlink_dump_dying(d, room), ~strayed[d] => Ahead(d)
  PROVE  /\ dpc'[d] = "dying" /\ ~strayed'[d] => Ahead(d)'
         /\ dpc'[d] = "finish" /\ ~strayed'[d] => Reported(d)'
<1> DEFINE s == {i \in Rest(last[d]) : Wanted(dying[i], fam[d])}
           next == NotFitting(s, room)
<1>a. TypeOK /\ ListInv
  BY DEF RefInv
<1>b. s \in SUBSET DOMAIN dying
  BY DEF Rest
<1>c. /\ Fits(s, room) \subseteq s
      /\ \/ /\ next = None
            /\ \A i \in s \ Fits(s, room) : ~(use[dying[i]] > 0)
         \/ \E m \in s : /\ next = dying[m]
                         /\ \A i \in s \ Fits(s, room) : use[dying[i]] > 0 => m <= i
  <2> HIDE DEF s
  <2> QED
    BY <1>a, <1>b, Leaving
<1>1. /\ reported' = [reported EXCEPT ![d] = @ \cup {dying[i] : i \in Fits(s, room)}]
      /\ last' = [last EXCEPT ![d] = next]
      /\ done' = [done EXCEPT ![d] = next = None]
      /\ strayed' = [strayed EXCEPT ![d] = @ \/ (last[d] # None /\ last[d] \notin ToSet(dying))]
      /\ dpc' = [dpc EXCEPT ![d] = IF s = {} THEN "finish" ELSE @]
      /\ UNCHANGED <<phase, dying, fam, stable>>
  BY DEF ctnetlink_dump_dying, NextCursor
<1>2. /\ reported'[d] = reported[d] \cup {dying[i] : i \in Fits(s, room)}
      /\ last'[d] = next /\ dpc'[d] \in {"finish", dpc[d]}
      /\ dpc'[d] = "finish" => s = {} \/ dpc[d] = "finish"
  <2> HIDE DEF s, next
  <2> QED
    BY <1>1, <1>a DEF TypeOK
<1>3. done'[d] <=> next = None
  <2> HIDE DEF s, next
  <2> QED
    BY <1>1, <1>a DEF TypeOK
<1>4. ~strayed'[d] => ~strayed[d] /\ (last[d] = None \/ last[d] \in ToSet(dying))
  <2> HIDE DEF s, next
  <2> QED
    BY <1>1, <1>a DEF TypeOK
<1>5. \A i \in DOMAIN dying : use[dying[i]] > 0
  <2> SUFFICES ASSUME NEW i \in DOMAIN dying PROVE use[dying[i]] > 0
    OBVIOUS
  <2>1. dying[i] \in Cts /\ phase[dying[i]] = "dying"
    BY <1>a, PositionType DEF ListInv
  <2>2. use[dying[i]] = Tracked(dying[i]) + Cardinality(Cursors(dying[i])) /\ Cardinality(Cursors(dying[i])) \in Nat
    BY <2>1, CursorsType
  <2> QED
    BY <2>1, <2>2 DEF Tracked
<1>6. ASSUME ~strayed'[d], NEW c \in stable[d], Wanted(c, fam[d]), c \notin reported'[d]
      PROVE  /\ next # None /\ Precedes(next, c) /\ s # {}
  <2>1. ~strayed[d] /\ c \notin reported[d] /\ c \in Cts /\ phase[c] = "dying"
    BY <1>2, <1>4, <1>6, <1>a DEF TypeOK, ListInv
  <2>2. \E i \in Rest(last[d]) : dying[i] = c
    <3>1. CASE last[d] = None
      BY <3>1, <2>1, <1>a DEF ListInv, Rest
    <3>2. CASE last[d] # None
      <4>1. Precedes(last[d], c)
        BY <3>2, <2>1, <1>6 DEF Ahead
      <4>2. last[d] \in ToSet(dying) /\ last[d] \in Cts
        BY <3>2, <1>4, <1>6, <1>a DEF TypeOK
      <4>3. phase[last[d]] = "dying"
        BY <4>2, <1>a DEF ListInv, ToSet
      <4> QED
        BY <4>1, <4>3 DEF Precedes, Rest
    <3> QED
      BY <3>1, <3>2
  <2>3. PICK i \in s : dying[i] = c
    BY <2>2, <1>6
  <2>4. i \notin Fits(s, room) /\ i \in DOMAIN dying /\ use[dying[i]] > 0
    <3> HIDE DEF s, next
    <3> QED
      BY <2>3, <1>2, <1>5, <1>6, <1>b
  <2>5. PICK m \in s : next = dying[m] /\ m <= i
    <3> HIDE DEF s, next
    <3> QED
      BY <2>3, <2>4, <1>c
  <2>6. m \in 1..i /\ next \in Cts
    BY <2>4, <2>5, <1>a, <1>b, PositionType
  <2>7. Precedes(next, c)
    BY <2>3, <2>4, <2>5, <2>6 DEF Precedes
  <2> QED
    BY <2>3, <2>6, <2>7, EntryAssumption
<1>7. \A x, y : Precedes(x, y)' <=> Precedes(x, y)
  BY <1>1 DEF Precedes
<1> HIDE DEF s, next
<1>8. dpc'[d] = "dying" /\ ~strayed'[d] => Ahead(d)'
  BY <1>1, <1>2, <1>3, <1>6, <1>7 DEF Ahead, Wanted
<1>9. dpc[d] = "dying"
  BY DEF ctnetlink_dump_dying
<1>10. dpc'[d] = "finish" /\ ~strayed'[d] => Reported(d)'
  BY <1>1, <1>2, <1>6, <1>9 DEF Reported, Wanted
<1> QED
  BY <1>8, <1>10

\* The other dumps, and those whose step is another one.
LEMMA CursorSame ==
  ASSUME NEW d \in Dumps, Ahead(d), UNCHANGED <<phase, dying>>,
         last'[d] = last[d], done'[d] = done[d], fam'[d] = fam[d], reported'[d] = reported[d], stable'[d] = stable[d]
  PROVE  Ahead(d)'
BY DEF Ahead, Precedes, Wanted

LEMMA CursorStep == RefInv /\ CursorInv /\ [Next]_vars => CursorInv'
<1> SUFFICES ASSUME RefInv, CursorInv, [Next]_vars PROVE CursorInv'
  OBVIOUS
<1>a. TypeOK /\ ListInv /\ TypeOK' /\ ListInv'
  BY RefStep DEF RefInv
<1>b. \A d \in Dumps : /\ dpc[d] = "dying" /\ ~strayed[d] => Ahead(d)
                       /\ dpc[d] = "finish" /\ ~strayed[d] => Reported(d)
  BY CursorParts
<1>c. SUFFICES ASSUME NEW d \in Dumps
               PROVE  /\ dpc'[d] = "dying" /\ ~strayed'[d] => Ahead(d)'
                      /\ dpc'[d] = "finish" /\ ~strayed'[d] => Reported(d)'
  BY DEF CursorInv, StableReported, Ahead, Reported
<1>1. CASE UNCHANGED <<phase, dying>> /\ dpc'[d] = dpc[d] /\ strayed'[d] = strayed[d] /\ last'[d] = last[d]
           /\ done'[d] = done[d] /\ fam'[d] = fam[d] /\ reported'[d] = reported[d] /\ stable'[d] = stable[d]
  BY <1>1, <1>b, CursorSame DEF Reported, Wanted
<1>2. CASE UNCHANGED vars \/ Expectations \/ \E l \in Listeners : Receive(l)
  BY <1>1, <1>2 DEF vars, Expectations, ctnetlink_expect_event, Receive, Read, ReadError, entryVars, dumpVars
<1>3. CASE Kernel \/ \E ok \in BOOLEAN : Worker(ok)
  <2>1. /\ UNCHANGED <<dpc, last, done, fam, reported, strayed>>
        /\ stable'[d] \subseteq stable[d]
    BY <1>3 DEF Kernel, NewEntry, Update, Delete, Worker, dumpVars
  <2>2. \A c \in stable'[d] : c \in Cts /\ phase'[c] = "dying"
    BY <1>a DEF TypeOK, ListInv
  <2>3. last[d] # None => last[d] \in Cts /\ phase[last[d]] \in {"dying", "gone"}
    BY <1>a DEF TypeOK, ListInv
  <2>4. \A c \in stable'[d] : last[d] # None /\ Precedes(last[d], c) => Precedes(last[d], c)'
    <3> SUFFICES ASSUME NEW c \in stable'[d], last[d] # None, Precedes(last[d], c)
                 PROVE  Precedes(last[d], c)'
      OBVIOUS
    <3>1. PICK x \in Cts : x = last[d] /\ phase[x] \in {"dying", "gone"}
      BY <2>3
    <3>2. Precedes(x, c)'
      BY <1>3, <2>2, <3>1, OrderStep
    <3> QED
      BY <2>1, <3>1, <3>2
  <2>5. Ahead(d) => Ahead(d)'
    <3> SUFFICES ASSUME Ahead(d), NEW c \in stable'[d], Wanted(c, fam'[d]), c \notin reported'[d]
                 PROVE  ~done'[d] /\ (last'[d] # None => Precedes(last[d], c)')
      BY <2>1 DEF Ahead, Precedes, Wanted
    <3>1. ~done[d] /\ (last[d] # None => Precedes(last[d], c))
      BY <2>1 DEF Ahead, Wanted
    <3> QED
      BY <2>1, <2>4, <3>1
  <2> QED
    BY <2>1, <2>5, <1>b DEF Reported, Wanted
<1>4. ASSUME NEW e \in Dumps, Callback(e) \/ (\E f \in Families : ctnetlink_get_ct_dying(e, f))
                              \/ ctnetlink_get_ct_unconfirmed(e)
      PROVE  /\ dpc'[d] = "dying" /\ ~strayed'[d] => Ahead(d)'
             /\ dpc'[d] = "finish" /\ ~strayed'[d] => Reported(d)'
  <2>1. UNCHANGED <<phase, dying>>
    BY <1>4 DEF Callback, ctnetlink_dump_dying, DumpDyingEmpty, ctnetlink_dump_unconfirmed,
                ctnetlink_done_list, ctnetlink_get_ct_dying, ctnetlink_get_ct_unconfirmed, DumpStart,
                entryVars
  <2>2. CASE e # d
    <3>1. dpc'[d] = dpc[d] /\ strayed'[d] = strayed[d] /\ last'[d] = last[d] /\ done'[d] = done[d]
          /\ fam'[d] = fam[d] /\ reported'[d] = reported[d] /\ stable'[d] = stable[d]
      <4>1. ASSUME NEW room, ctnetlink_dump_dying(e, room)
            PROVE  dpc'[d] = dpc[d] /\ strayed'[d] = strayed[d] /\ last'[d] = last[d] /\ done'[d] = done[d]
                   /\ fam'[d] = fam[d] /\ reported'[d] = reported[d] /\ stable'[d] = stable[d]
        BY <2>2, <4>1, <1>a DEF ctnetlink_dump_dying, TypeOK
      <4>2. CASE DumpDyingEmpty(e) \/ ctnetlink_dump_unconfirmed(e) \/ ctnetlink_done_list(e)
        BY <2>2, <4>2, <1>a DEF DumpDyingEmpty, ctnetlink_dump_unconfirmed, ctnetlink_done_list, TypeOK
      <4>3. CASE (\E f \in Families : ctnetlink_get_ct_dying(e, f)) \/ ctnetlink_get_ct_unconfirmed(e)
        BY <2>2, <4>3, <1>a DEF ctnetlink_get_ct_dying, ctnetlink_get_ct_unconfirmed, DumpStart, TypeOK
      <4> QED
        BY <1>4, <4>1, <4>2, <4>3 DEF Callback
    <3> QED
      BY <2>1, <3>1, <1>1
  <2>3. ASSUME e = d, NEW room, ctnetlink_dump_dying(d, room)
        PROVE  /\ dpc'[d] = "dying" /\ ~strayed'[d] => Ahead(d)'
               /\ dpc'[d] = "finish" /\ ~strayed'[d] => Reported(d)'
    <3>1. ~strayed[d] => Ahead(d)
      BY <2>3, <1>b DEF ctnetlink_dump_dying
    <3> QED
      BY <2>3, <3>1, CallbackStep
  <2>4. CASE e = d /\ DumpDyingEmpty(d)
    <3>1. dpc[d] = "dying" /\ done[d] /\ dpc'[d] = "finish" /\ UNCHANGED <<fam, reported, stable, strayed>>
      BY <2>4, <1>a DEF DumpDyingEmpty, TypeOK
    <3> QED
      BY <3>1, <1>b DEF Ahead, Reported, Wanted
  <2>5. CASE e = d /\ ctnetlink_dump_unconfirmed(d)
    <3>1. dpc[d] = "unconfirmed" /\ dpc'[d] = "finish" /\ stable' = stable
      BY <2>5, <1>a DEF ctnetlink_dump_unconfirmed, TypeOK
    <3> QED
      BY <3>1, <1>a DEF ListInv, Reported
  <2>6. CASE e = d /\ ctnetlink_done_list(d)
    <3>1. dpc'[d] = "idle"
      BY <2>6, <1>a DEF ctnetlink_done_list, TypeOK
    <3> QED
      BY <3>1
  <2>7. CASE e = d /\ ((\E f \in Families : ctnetlink_get_ct_dying(e, f)) \/ ctnetlink_get_ct_unconfirmed(e))
    <3>1. dpc[d] = "idle" /\ dpc'[d] \in {"dying", "unconfirmed"} /\ UNCHANGED <<last, done>>
      BY <2>7, <1>a DEF ctnetlink_get_ct_dying, ctnetlink_get_ct_unconfirmed, DumpStart, TypeOK
    <3>2. last'[d] = None /\ ~done'[d]
      BY <3>1, <1>a DEF ListInv
    <3> QED
      BY <3>1, <3>2 DEF Ahead
  <2> QED
    BY <1>4, <2>2, <2>3, <2>4, <2>5, <2>6, <2>7 DEF Callback
<1> QED
  BY <1>2, <1>3, <1>4 DEF Next

\* An entry of the family asked for that is on the dying list from
\* ctnetlink_get_ct_dying to the end of the dump is reported, for any number of
\* callbacks of any size, unless the entry to resume at has left the list.
THEOREM Dumped == Spec => []StableReported
<1>1. Init => CursorInv
  BY DEF Init, CursorInv, StableReported
<1>2. CursorInv => StableReported
  BY DEF CursorInv
<1> QED
  BY <1>1, <1>2, CursorStep, RefAlways, PTL DEF Spec
=============================================================================
