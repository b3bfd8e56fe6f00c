--------------------------- MODULE DumpTableProofs ---------------------------
(* Theorems about DumpTable, for any number of entries, buckets and hash    *)
(* values, any filter, any buffer and eviction array, while the number of   *)
(* buckets stays.                                                           *)
EXTENDS DumpTable, FiniteSetTheorems, SequenceTheorems, TLAPS

-----------------------------------------------------------------------------
(* The chains as an order on the nodes.                                    *)

\* x is in the sequence s; x is before y in s; nothing is twice in s.
In(s, x) == \E i \in 1..Len(s) : s[i] = x
Pre(s, x, y) == \E i, j \in 1..Len(s) : i < j /\ s[i] = x /\ s[j] = y
Distinct(s) == \A i, j \in 1..Len(s) : s[i] = s[j] => i = j

\* t has the elements of s other than those in X, in the order of s.
SameBut(s, t, X) ==
  /\ \A x : x \notin X => (In(t, x) <=> In(s, x))
  /\ \A x, y : x \notin X /\ y \notin X => (Pre(t, x, y) <=> Pre(s, x, y))

\* n is in the table ch; m comes before n in their bucket.
OnIn(ch, n) == \E b \in AllBuckets : In(ch[b], n)
BefIn(ch, m, n) == \E b \in AllBuckets : Pre(ch[b], m, n)
On(n) == OnIn(chain, n)
Bef(m, n) == BefIn(chain, m, n)

\* The walk of the locked bucket has passed n.
Passed(n) == \E i \in 1..Len(chain[bucket]) : i < node /\ chain[bucket][i] = n

\* Every node is once in the table, in the bucket of its hash value, and both
\* nodes of an entry are there or neither.
PlacedIn(ch, s) == /\ ch \in [AllBuckets -> Seq(Nodes)]
                   /\ \A b \in AllBuckets : Distinct(ch[b])
                   /\ \A b \in AllBuckets : \A n \in Nodes : In(ch[b], n) => BucketOf(n, s) = b
                   /\ \A c \in Conns : OnIn(ch, Orig(c)) <=> OnIn(ch, Reply(c))
Placed == PlacedIn(chain, size)

\* The nodes of the entries other than c are the same in the tables ch and t,
\* in the same order.
OthersStay(ch, t, c) ==
  \A n \in Nodes : n.ct # c => /\ OnIn(t, n) <=> OnIn(ch, n)
                               /\ \A m \in Nodes : m.ct # c => (BefIn(t, m, n) <=> BefIn(ch, m, n))

\* The types that the steps rely on; those of the counters are in TypeOK only.
Typed ==
  /\ size \in Sizes /\ resizes = 0
  /\ expired \subseteq Conns /\ match \subseteq Conns
  /\ use \in [Conns -> Int]
  /\ bucket \in Nat /\ arg1 \in Conns \cup {None} /\ last \in Conns \cup {None}
  /\ phase \in {"idle", "between", "loop", "restart", "walk", "out", "return", "complete"}
  /\ evict \in Seq(Conns)
  /\ room \in 0..MaxRoom /\ node \in Nat \ {0} /\ filled \in BOOLEAN
  /\ sent \in [Conns -> Nat] /\ stable \subseteq Conns
  /\ restarted \in BOOLEAN /\ changes \in 0..MaxChanges

\* The bucket that the Orig node of c belongs to.
Home(c) == BucketOf(Orig(c), size)

\* What the position of the callback says about its locals.
Control ==
  /\ phase \in {"idle", "between", "complete", "return"} => last = None
  /\ phase \in {"idle", "between", "complete"} => evict = <<>>
  /\ phase = "idle" => arg1 = None
  /\ phase = "walk" => bucket < size
  /\ phase \in {"loop", "restart", "walk"} => arg1 \in {None, last}
  /\ phase \in {"loop", "restart", "walk"} /\ arg1 # None => ~filled
  /\ phase \in {"loop", "restart", "walk"} /\ ~filled => room > 0
  /\ phase \in {"out", "return", "complete"} /\ ~filled => bucket >= size
  /\ phase = "complete" => ~filled
  /\ phase = "out" /\ arg1 # None => arg1 # last

\* Where the cursor points: into its bucket, and the walk that looks for the
\* entry to resume at has not passed it unless it had expired.
Cursor ==
  /\ arg1 # None => arg1 \in SameNet /\ Home(arg1) = bucket /\ bucket < size
  /\ phase = "walk" /\ arg1 # None /\ Passed(Orig(arg1)) => arg1 \in expired
  /\ phase \in {"loop", "restart", "walk"} /\ last # None /\ arg1 = None =>
        \/ last \in expired \/ ~On(Orig(last)) \/ Home(last) < bucket
        \/ phase = "walk" /\ Passed(Orig(last))

\* The entry to resume at will be found.
Findable == arg1 # None /\ arg1 \notin expired /\ On(Orig(arg1))

\* The entries that stay are wanted, and those not reported yet are ahead.
Stays(c) == On(Orig(c)) /\ c \notin expired /\ c \in Wanted
Ahead(c) == \/ Home(c) > bucket
            \/ /\ Home(c) = bucket
               /\ phase = "walk" /\ arg1 = None => ~Passed(Orig(c))
               /\ Findable => ~Bef(Orig(c), Orig(arg1))
Coverage == \A c \in stable : Stays(c) /\ (sent[c] = 0 => Ahead(c))

\* An entry that was reported is behind.
Gone(c) == \/ ~On(Orig(c)) \/ Home(c) < bucket
           \/ /\ Home(c) = bucket
              /\ arg1 = None => phase = "walk" /\ Passed(Orig(c))
              /\ Findable => Bef(Orig(c), Orig(arg1))
NoRepeat == ~restarted => \A c \in Conns : sent[c] > 0 => sent[c] = 1 /\ Gone(c)

\* No dump, nothing to report.
Idle == phase = "idle" => stable = {} /\ \A c \in Conns : sent[c] = 0

\* The holders of an entry: the table, the deferred evictions, the callback and,
\* between the callbacks, the cursor.
Tab(c) == IF On(Orig(c)) THEN 1 ELSE 0
Held(c) == (IF last = c THEN 1 ELSE 0) + (IF arg1 = c /\ phase \notin {"loop", "restart", "walk"} THEN 1 ELSE 0)
Counted == \A c \in Conns : use[c] = Tab(c) + Count(evict, c) + Held(c)

Good == /\ Typed /\ Placed /\ Control /\ Counted
        /\ Cursor /\ Coverage /\ NoRepeat /\ Idle
DumpInv == resizes \in Nat /\ (resizes = 0 => Good)

-----------------------------------------------------------------------------
(* Sequences.                                                              *)

LEMMA RemoveAtElements ==
  ASSUME NEW S, NEW s \in Seq(S), NEW k \in 1..Len(s)
  PROVE  /\ RemoveAt(s, k) \in Seq(S)
         /\ Len(RemoveAt(s, k)) = Len(s) - 1
         /\ \A i \in 1..Len(s) - 1 : RemoveAt(s, k)[i] = IF i < k THEN s[i] ELSE s[i+1]
<1> DEFINE a == SubSeq(s, 1, k-1)
           z == SubSeq(s, k+1, Len(s))
<1>0. Len(s) \in Nat /\ k \in Int /\ \A i \in 1..Len(s) : s[i] \in S
  BY ElementOfSeq
<1>1. a \in Seq(S) /\ Len(a) = k - 1 /\ \A i \in 1..k-1 : a[i] = s[i]
  BY <1>0, SubSeqProperties
<1>2. z \in Seq(S) /\ Len(z) = Len(s) - k /\ \A i \in 1..Len(s) - k : z[i] = s[k+i]
  <2>1. k + 1 \in Int /\ Len(s) \in Int /\ \A i \in (k+1)..Len(s) : s[i] \in S
    BY <1>0
  <2>2. /\ z \in Seq(S) /\ Len(z) = IF k+1 <= Len(s) THEN Len(s) - (k+1) + 1 ELSE 0
        /\ \A i \in 1..Len(s) - (k+1) + 1 : z[i] = s[(k+1)+i-1]
    BY <2>1, SubSeqProperties
  <2> QED BY <1>0, <2>2
<1>3. RemoveAt(s, k) = a \o z
  BY DEF RemoveAt
<1> HIDE DEF a, z
<1>4. /\ a \o z \in Seq(S) /\ Len(a \o z) = Len(a) + Len(z)
      /\ \A i \in 1..Len(a) + Len(z) : (a \o z)[i] = IF i <= Len(a) THEN a[i] ELSE z[i - Len(a)]
  BY <1>1, <1>2, ConcatProperties
<1> QED BY <1>0, <1>1, <1>2, <1>3, <1>4

\* hlist_nulls_del: the rest of the chain keeps its order.
LEMMA Removed ==
  ASSUME NEW S, NEW s \in Seq(S), Distinct(s), NEW e
  PROVE  LET t == RemoveFirst(s, e)
         IN  t \in Seq(S) /\ Distinct(t) /\ ~In(t, e) /\ SameBut(s, t, {e})
<1> DEFINE t == RemoveFirst(s, e)
<1>1. CASE ~In(s, e)
  BY <1>1 DEF RemoveFirst, In, SameBut
<1>2. CASE In(s, e)
  <2>1. PICK k \in 1..Len(s) : s[k] = e
    BY <1>2 DEF In
  <2>2. {i \in 1..Len(s) : s[i] = e} = {k}
    BY <2>1 DEF Distinct
  <2>3. SelectInSeq(s, LAMBDA v : v = e) = k
    BY <2>2 DEF SelectInSeq, Min
  <2>4. t = RemoveAt(s, k)
    BY <2>1, <2>3 DEF RemoveFirst
  <2> HIDE DEF t
  <2>5. /\ t \in Seq(S) /\ Len(t) = Len(s) - 1 /\ Len(s) \in Nat /\ Len(t) \in Nat
        /\ \A i \in 1..Len(t) : t[i] = IF i < k THEN s[i] ELSE s[i+1]
    <3>1. /\ RemoveAt(s, k) \in Seq(S)
          /\ Len(RemoveAt(s, k)) = Len(s) - 1
          /\ \A i \in 1..Len(s) - 1 : RemoveAt(s, k)[i] = IF i < k THEN s[i] ELSE s[i+1]
      BY RemoveAtElements
    <3>2. Len(s) \in Nat /\ Len(s) - 1 \in Nat
      OBVIOUS
    <3> QED BY <2>4, <3>1, <3>2
  <2>6. /\ \A i \in 1..Len(t) : \E j \in 1..Len(s) : j # k /\ t[i] = s[j] /\ j = IF i < k THEN i ELSE i+1
        /\ \A j \in 1..Len(s) : j # k => \E i \in 1..Len(t) : t[i] = s[j] /\ j = IF i < k THEN i ELSE i+1
    <3>1. \A i \in 1..Len(t) : \E j \in 1..Len(s) : j # k /\ t[i] = s[j] /\ j = IF i < k THEN i ELSE i+1
      BY <2>5
    <3>2. ASSUME NEW j \in 1..Len(s), j # k
          PROVE  \E i \in 1..Len(t) : t[i] = s[j] /\ j = IF i < k THEN i ELSE i+1
      <4>1. CASE j < k
        BY <2>5, <4>1
      <4>2. CASE j > k
        <5>1. j - 1 \in 1..Len(t) /\ ~(j - 1 < k) /\ (j - 1) + 1 = j
          BY <2>5, <4>2
        <5>2. t[j-1] = s[j]
          BY <2>5, <5>1
        <5> QED BY <5>1, <5>2
      <4> QED BY <3>2, <4>1, <4>2
    <3> QED BY <3>1, <3>2
  <2>7. Distinct(t)
    <3> SUFFICES ASSUME NEW i \in 1..Len(t), NEW j \in 1..Len(t), t[i] = t[j] PROVE i = j
      BY DEF Distinct
    <3>1. PICK a \in 1..Len(s) : t[i] = s[a] /\ a = IF i < k THEN i ELSE i+1
      BY <2>6
    <3>2. PICK b \in 1..Len(s) : t[j] = s[b] /\ b = IF j < k THEN j ELSE j+1
      BY <2>6
    <3>3. a = b
      BY <3>1, <3>2 DEF Distinct
    <3> QED BY <2>5, <3>1, <3>2, <3>3
  <2>8. ~In(t, e)
    BY <2>1, <2>6 DEF In, Distinct
  <2>9. \A x : x # e => (In(t, x) <=> In(s, x))
    BY <2>1, <2>6 DEF In
  <2>10. ASSUME NEW x, NEW y, x # e, y # e PROVE Pre(t, x, y) <=> Pre(s, x, y)
    <3>1. ASSUME Pre(t, x, y) PROVE Pre(s, x, y)
      <4>1. PICK i \in 1..Len(t), j \in 1..Len(t) : i < j /\ t[i] = x /\ t[j] = y
        BY <3>1 DEF Pre
      <4>2. PICK a \in 1..Len(s) : t[i] = s[a] /\ a = IF i < k THEN i ELSE i+1
        BY <2>6
      <4>3. PICK b \in 1..Len(s) : t[j] = s[b] /\ b = IF j < k THEN j ELSE j+1
        BY <2>6
      <4>4. a < b
        BY <4>1, <4>2, <4>3
      <4> QED BY <4>1, <4>2, <4>3, <4>4 DEF Pre
    <3>2. ASSUME Pre(s, x, y) PROVE Pre(t, x, y)
      <4>1. PICK a \in 1..Len(s), b \in 1..Len(s) : a < b /\ s[a] = x /\ s[b] = y
        BY <3>2 DEF Pre
      <4>2. a # k /\ b # k
        BY <2>1, <2>10, <4>1
      <4>3. PICK i \in 1..Len(t) : t[i] = s[a] /\ a = IF i < k THEN i ELSE i+1
        BY <2>6, <4>2
      <4>4. PICK j \in 1..Len(t) : t[j] = s[b] /\ b = IF j < k THEN j ELSE j+1
        BY <2>6, <4>2
      <4>5. i < j
        BY <4>1, <4>3, <4>4
      <4> QED BY <4>1, <4>3, <4>4, <4>5 DEF Pre
    <3> QED BY <3>1, <3>2
  <2> QED BY <2>5, <2>7, <2>8, <2>9, <2>10 DEF t, SameBut
<1> QED BY <1>1, <1>2

\* hlist_nulls_add_head: the rest of the chain keeps its order.
LEMMA Headed ==
  ASSUME NEW S, NEW s \in Seq(S), Distinct(s), NEW e \in S, ~In(s, e)
  PROVE  LET t == <<e>> \o s
         IN  t \in Seq(S) /\ Distinct(t) /\ In(t, e) /\ SameBut(s, t, {e})
<1> DEFINE t == <<e>> \o s
<1>1. <<e>> \in Seq(S) /\ Len(<<e>>) = 1 /\ <<e>>[1] = e
  OBVIOUS
<1>2. /\ t \in Seq(S) /\ Len(t) = 1 + Len(s) /\ Len(s) \in Nat /\ Len(t) \in Nat
      /\ \A i \in 1..1 + Len(s) : t[i] = IF i <= 1 THEN <<e>>[i] ELSE s[i - 1]
  BY <1>1, ConcatProperties
<1> HIDE DEF t
<1>3. t[1] = e /\ 1 \in 1..Len(t)
  BY <1>1, <1>2
<1>4. \A i \in 1..Len(t) : i # 1 => i - 1 \in 1..Len(s) /\ t[i] = s[i-1]
  BY <1>2
<1>5. \A i \in 1..Len(s) : i + 1 \in 1..Len(t) /\ t[i+1] = s[i]
  <2> TAKE i \in 1..Len(s)
  <2>1. i + 1 \in 1..Len(t) /\ i + 1 # 1 /\ (i + 1) - 1 = i
    BY <1>2
  <2> QED BY <1>4, <2>1
<1>6. Distinct(t)
  <2> SUFFICES ASSUME NEW i \in 1..Len(t), NEW j \in 1..Len(t), t[i] = t[j] PROVE i = j
    BY DEF Distinct
  <2>1. CASE i = 1 /\ j # 1
    BY <1>3, <1>4, <2>1 DEF In
  <2>2. CASE i # 1 /\ j = 1
    BY <1>3, <1>4, <2>2 DEF In
  <2>3. CASE i # 1 /\ j # 1
    <3>1. i - 1 = j - 1
      BY <1>4, <2>3 DEF Distinct
    <3> QED BY <3>1
  <2> QED BY <2>1, <2>2, <2>3
<1>7. ASSUME NEW x, x # e PROVE In(t, x) <=> In(s, x)
  <2>1. ASSUME In(t, x) PROVE In(s, x)
    <3>1. PICK i \in 1..Len(t) : t[i] = x
      BY <2>1 DEF In
    <3>2. i # 1
      BY <1>3, <1>7, <3>1
    <3> QED BY <1>4, <3>1, <3>2 DEF In
  <2>2. ASSUME In(s, x) PROVE In(t, x)
    BY <1>5, <2>2 DEF In
  <2> QED BY <2>1, <2>2
<1>8. ASSUME NEW x, NEW y, x # e, y # e PROVE Pre(t, x, y) <=> Pre(s, x, y)
  <2>1. ASSUME Pre(t, x, y) PROVE Pre(s, x, y)
    <3>1. PICK i \in 1..Len(t), j \in 1..Len(t) : i < j /\ t[i] = x /\ t[j] = y
      BY <2>1 DEF Pre
    <3>2. i # 1 /\ j # 1
      BY <1>3, <1>8, <3>1
    <3>3. i - 1 \in 1..Len(s) /\ j - 1 \in 1..Len(s) /\ s[i-1] = x /\ s[j-1] = y
      BY <1>4, <3>1, <3>2
    <3>4. i - 1 < j - 1
      BY <3>1
    <3> QED BY <3>3, <3>4 DEF Pre
  <2>2. ASSUME Pre(s, x, y) PROVE Pre(t, x, y)
    <3>1. PICK i \in 1..Len(s), j \in 1..Len(s) : i < j /\ s[i] = x /\ s[j] = y
      BY <2>2 DEF Pre
    <3>2. i + 1 < j + 1
      BY <3>1
    <3> QED BY <1>5, <3>1, <3>2 DEF Pre
  <2> QED BY <2>1, <2>2
<1> QED BY <1>2, <1>3, <1>6, <1>7, <1>8 DEF t, In, SameBut

-----------------------------------------------------------------------------
(* Chains.                                                                 *)

LEMMA NodeFacts ==
  /\ \A c \in Conns : /\ Orig(c) \in Nodes /\ Reply(c) \in Nodes /\ Orig(c) # Reply(c)
                      /\ Orig(c).ct = c /\ Reply(c).ct = c
                      /\ Orig(c).dir = "orig" /\ Reply(c).dir = "reply"
  /\ \A n \in Nodes : n.ct \in Conns /\ (n = Orig(n.ct) \/ n = Reply(n.ct))
  /\ \A n \in Nodes : n.dir = "orig" => n = Orig(n.ct)
BY DEF Nodes, Dirs, Orig, Reply

LEMMA Buckets ==
  /\ AllBuckets \subseteq Nat
  /\ \A s \in Sizes : s \in Nat /\ \A b \in Nat : b < s => b \in AllBuckets
  /\ \A s \in Sizes, n \in Nodes : BucketOf(n, s) \in AllBuckets /\ BucketOf(n, s) < s
                                      /\ BucketOf(n, s) \in Nat
<1> DEFINE M == CHOOSE n \in Sizes : \A m \in Sizes : m <= n
<1>1. M \in Sizes /\ \A m \in Sizes : m <= M
  BY SizesAssumption
<1>2. M \in Nat /\ Sizes \subseteq Nat /\ \A s \in Sizes : s > 0
  <2>1. \A s \in Sizes : s \in Nat /\ s # 0
    BY SizesAssumption
  <2>2. \A s \in Nat : s # 0 => s > 0
    OBVIOUS
  <2> QED BY <1>1, <2>1, <2>2
<1>3. AllBuckets = 0..M-1
  BY DEF AllBuckets
<1> HIDE DEF M
<1>4. \A s \in Sizes : \A b \in Nat : b < s => b \in AllBuckets
  BY <1>1, <1>2, <1>3
<1>5. ASSUME NEW s \in Sizes, NEW n \in Nodes PROVE BucketOf(n, s) \in Nat /\ BucketOf(n, s) < s
  <2>1. Hash[n] \in Nat /\ s \in Nat \ {0}
    BY <1>2, HashAssumption
  <2> QED BY <2>1 DEF BucketOf
<1>6. AllBuckets \subseteq Nat
  BY <1>2, <1>3
<1>7. \A s \in Sizes : s \in Nat
  BY <1>2
<1> QED BY <1>4, <1>5, <1>6, <1>7

LEMMA InTableIsOn ==
  ASSUME NEW ch, NEW s, PlacedIn(ch, s), NEW c \in Conns
  PROVE  (\E b \in DOMAIN ch : \E i \in DOMAIN ch[b] : ch[b][i].ct = c) <=> OnIn(ch, Orig(c))
<1>1. DOMAIN ch = AllBuckets /\ \A b \in AllBuckets : ch[b] \in Seq(Nodes) /\ DOMAIN ch[b] = 1..Len(ch[b])
  BY DEF PlacedIn
<1>2. ASSUME NEW b \in DOMAIN ch, NEW i \in DOMAIN ch[b], ch[b][i].ct = c PROVE OnIn(ch, Orig(c))
  <2>1. ch[b][i] \in Nodes /\ i \in 1..Len(ch[b]) /\ b \in AllBuckets
    BY <1>1, <1>2, ElementOfSeq
  <2>2. ch[b][i] = Orig(c) \/ ch[b][i] = Reply(c)
    BY <1>2, <2>1, NodeFacts
  <2>3. OnIn(ch, Orig(c)) \/ OnIn(ch, Reply(c))
    BY <2>1, <2>2 DEF OnIn, In
  <2> QED BY <2>3 DEF PlacedIn
<1>3. ASSUME OnIn(ch, Orig(c)) PROVE \E b \in DOMAIN ch : \E i \in DOMAIN ch[b] : ch[b][i].ct = c
  <2>1. PICK b \in AllBuckets : \E i \in 1..Len(ch[b]) : ch[b][i] = Orig(c)
    BY <1>3 DEF OnIn, In
  <2> QED BY <1>1, <2>1, NodeFacts
<1> QED BY <1>2, <1>3

\* A node is in its bucket if it is in the table at all.
LEMMA OnAtHome ==
  ASSUME NEW ch, NEW s \in Sizes, PlacedIn(ch, s), NEW n \in Nodes
  PROVE  OnIn(ch, n) <=> In(ch[BucketOf(n, s)], n)
BY Buckets DEF PlacedIn, OnIn

\* Each chain keeps its other nodes, so the table does.
LEMMA ChainsThenTable ==
  ASSUME NEW ch, NEW t, NEW c \in Conns,
         \A b \in AllBuckets : SameBut(ch[b], t[b], {Orig(c), Reply(c)})
  PROVE  OthersStay(ch, t, c)
<1> SUFFICES ASSUME NEW n \in Nodes, n.ct # c
             PROVE  /\ OnIn(t, n) <=> OnIn(ch, n)
                    /\ \A m \in Nodes : m.ct # c => (BefIn(t, m, n) <=> BefIn(ch, m, n))
  BY DEF OthersStay
<1>1. \A m \in Nodes : m.ct # c => m \notin {Orig(c), Reply(c)}
  BY NodeFacts
<1>2. OnIn(t, n) <=> OnIn(ch, n)
  BY <1>1 DEF SameBut, OnIn
<1>3. ASSUME NEW m \in Nodes, m.ct # c PROVE BefIn(t, m, n) <=> BefIn(ch, m, n)
  BY <1>1, <1>3 DEF SameBut, BefIn
<1> QED BY <1>2, <1>3

\* Both nodes of c leave the table.
LEMMA Unlinked ==
  ASSUME NEW ch, NEW s \in Sizes, PlacedIn(ch, s), NEW c \in Conns
  PROVE  /\ PlacedIn(Without(ch, c), s) /\ ~OnIn(Without(ch, c), Orig(c))
         /\ OthersStay(ch, Without(ch, c), c)
         /\ \A b \in AllBuckets : b # BucketOf(Orig(c), s) /\ b # BucketOf(Reply(c), s)
                                    => Without(ch, c)[b] = ch[b]
<1> DEFINE t == Without(ch, c)
           u(b) == RemoveFirst(ch[b], Orig(c))
           v(b) == RemoveFirst(u(b), Reply(c))
<1>1. ch \in [AllBuckets -> Seq(Nodes)] /\ \A b \in AllBuckets : Distinct(ch[b])
  BY DEF PlacedIn
<1>2. t = [b \in AllBuckets |-> v(b)]
  BY <1>1 DEF Without
<1>3. ASSUME NEW b \in AllBuckets
      PROVE  /\ t[b] = v(b) /\ v(b) \in Seq(Nodes) /\ Distinct(v(b)) /\ ~In(v(b), Orig(c)) /\ ~In(v(b), Reply(c))
             /\ SameBut(ch[b], v(b), {Orig(c), Reply(c)})
  <2>1. u(b) \in Seq(Nodes) /\ Distinct(u(b)) /\ ~In(u(b), Orig(c)) /\ SameBut(ch[b], u(b), {Orig(c)})
    BY <1>1, Removed
  <2> HIDE DEF u
  <2>2. v(b) \in Seq(Nodes) /\ Distinct(v(b)) /\ ~In(v(b), Reply(c)) /\ SameBut(u(b), v(b), {Reply(c)})
    BY <2>1, Removed
  <2>3. t[b] = v(b)
    BY <1>2
  <2> HIDE DEF v, t
  <2>4. ~In(v(b), Orig(c))
    BY <2>1, <2>2, NodeFacts DEF SameBut
  <2>5. SameBut(ch[b], v(b), {Orig(c), Reply(c)})
    BY <2>1, <2>2 DEF SameBut
  <2> QED BY <2>2, <2>3, <2>4, <2>5
<1>4. t \in [AllBuckets -> Seq(Nodes)]
  BY <1>2, <1>3
<1>5. ASSUME NEW b \in AllBuckets, b # BucketOf(Orig(c), s), b # BucketOf(Reply(c), s)
      PROVE  t[b] = ch[b]
  <2>1. ~In(ch[b], Orig(c)) /\ ~In(ch[b], Reply(c))
    BY <1>5, NodeFacts DEF PlacedIn
  <2> QED BY <1>3, <2>1 DEF RemoveFirst, In
<1> HIDE DEF t, v
<1>6. ~OnIn(t, Orig(c)) /\ ~OnIn(t, Reply(c))
  BY <1>3 DEF OnIn
<1>7. OthersStay(ch, t, c)
  <2>1. \A b \in AllBuckets : SameBut(ch[b], t[b], {Orig(c), Reply(c)})
    BY <1>3
  <2> QED BY <2>1, ChainsThenTable
<1>8. PlacedIn(t, s)
  <2>1. ASSUME NEW b \in AllBuckets, NEW n \in Nodes, In(t[b], n) PROVE BucketOf(n, s) = b
    <3>1. In(ch[b], n)
      BY <1>3, <2>1 DEF SameBut
    <3> QED BY <3>1 DEF PlacedIn
  <2>2. ASSUME NEW d \in Conns PROVE OnIn(t, Orig(d)) <=> OnIn(t, Reply(d))
    <3>1. CASE d = c
      BY <1>6, <3>1
    <3>2. CASE d # c
      BY <1>7, <3>2, NodeFacts DEF OthersStay, PlacedIn
    <3> QED BY <3>1, <3>2
  <2> QED BY <1>3, <1>4, <2>1, <2>2 DEF PlacedIn
<1> QED BY <1>5, <1>6, <1>7, <1>8 DEF t

\* The table with both nodes of c at the heads of their buckets.
With(ch, s, c) == [b \in AllBuckets |->
                     (IF BucketOf(Reply(c), s) = b THEN <<Reply(c)>> ELSE <<>>)
                       \o (IF BucketOf(Orig(c), s) = b THEN <<Orig(c)>> ELSE <<>>) \o ch[b]]

\* Both nodes of c enter the table.
LEMMA Linked ==
  ASSUME NEW ch, NEW s \in Sizes, PlacedIn(ch, s), NEW c \in Conns, ~OnIn(ch, Orig(c))
  PROVE  /\ PlacedIn(With(ch, s, c), s) /\ OnIn(With(ch, s, c), Orig(c))
         /\ OthersStay(ch, With(ch, s, c), c)
         /\ \A b \in AllBuckets : b # BucketOf(Orig(c), s) /\ b # BucketOf(Reply(c), s)
                                    => With(ch, s, c)[b] = ch[b]
<1> DEFINE t == With(ch, s, c)
           o == Orig(c)
           r == Reply(c)
<1>0. /\ o \in Nodes /\ r \in Nodes /\ o # r /\ o.ct = c /\ r.ct = c
      /\ BucketOf(o, s) \in AllBuckets /\ BucketOf(r, s) \in AllBuckets
      /\ ~OnIn(ch, r)
  BY NodeFacts, Buckets DEF PlacedIn
<1>1. /\ ch \in [AllBuckets -> Seq(Nodes)] /\ \A b \in AllBuckets : Distinct(ch[b])
      /\ \A b \in AllBuckets : ~In(ch[b], o) /\ ~In(ch[b], r)
  BY <1>0 DEF PlacedIn, OnIn
<1>2. ASSUME NEW b \in AllBuckets
      PROVE  /\ t[b] \in Seq(Nodes) /\ Distinct(t[b]) /\ SameBut(ch[b], t[b], {o, r})
             /\ In(t[b], o) <=> BucketOf(o, s) = b
             /\ In(t[b], r) <=> BucketOf(r, s) = b
             /\ BucketOf(o, s) # b /\ BucketOf(r, s) # b => t[b] = ch[b]
  <2> DEFINE x == IF BucketOf(r, s) = b THEN <<r>> ELSE <<>>
             y == IF BucketOf(o, s) = b THEN <<o>> ELSE <<>>
             u == y \o ch[b]
  <2>1. x \in Seq(Nodes) /\ y \in Seq(Nodes) /\ ch[b] \in Seq(Nodes)
    BY <1>0, <1>1
  <2>2. t[b] = x \o u
    <3>1. t[b] = (x \o y) \o ch[b]
      BY DEF With
    <3>2. \A f, g, h \in Seq(Nodes) : (f \o g) \o h = f \o (g \o h)
      BY ConcatAssociative
    <3> HIDE DEF x, y
    <3>3. (x \o y) \o ch[b] = x \o (y \o ch[b])
      BY <2>1, <3>2
    <3> QED BY <3>1, <3>3
  <2>3. /\ u \in Seq(Nodes) /\ Distinct(u) /\ SameBut(ch[b], u, {o}) /\ ~In(u, r)
        /\ In(u, o) <=> BucketOf(o, s) = b
        /\ BucketOf(o, s) # b => u = ch[b]
    <3>1. CASE BucketOf(o, s) = b
      <4>1. u = <<o>> \o ch[b]
        BY <3>1
      <4> HIDE DEF u
      <4>2. u \in Seq(Nodes) /\ Distinct(u) /\ In(u, o) /\ SameBut(ch[b], u, {o})
        BY <1>0, <1>1, <4>1, Headed
      <4> QED BY <1>0, <1>1, <3>1, <4>2 DEF SameBut
    <3>2. CASE BucketOf(o, s) # b
      <4>1. u = ch[b]
        BY <2>1, <3>2, ConcatEmptySeq
      <4> HIDE DEF u
      <4> QED BY <1>1, <3>2, <4>1 DEF SameBut
    <3> QED BY <3>1, <3>2
  <2> HIDE DEF u
  <2>4. CASE BucketOf(r, s) = b
    <3>1. t[b] = <<r>> \o u
      BY <2>2, <2>4
    <3>2. t[b] \in Seq(Nodes) /\ Distinct(t[b]) /\ In(t[b], r) /\ SameBut(u, t[b], {r})
      BY <1>0, <2>3, <3>1, Headed
    <3>3. SameBut(ch[b], t[b], {o, r})
      BY <2>3, <3>2 DEF SameBut
    <3>4. In(t[b], o) <=> BucketOf(o, s) = b
      BY <1>0, <2>3, <3>2 DEF SameBut
    <3> QED BY <2>4, <3>2, <3>3, <3>4
  <2>5. CASE BucketOf(r, s) # b
    <3>1. t[b] = u
      BY <2>2, <2>3, <2>5, ConcatEmptySeq
    <3>2. SameBut(ch[b], t[b], {o, r})
      BY <2>3, <3>1 DEF SameBut
    <3> QED BY <2>3, <2>5, <3>1, <3>2
  <2> QED BY <2>4, <2>5
<1>3. t \in [AllBuckets -> Seq(Nodes)]
  <2>1. t = [b \in AllBuckets |-> t[b]]
    BY DEF With
  <2> HIDE DEF t
  <2> QED BY <1>2, <2>1
<1> HIDE DEF t
<1>4. OthersStay(ch, t, c)
  BY <1>2, ChainsThenTable
<1>5. OnIn(t, o) /\ OnIn(t, r)
  BY <1>0, <1>2 DEF OnIn
<1>6. PlacedIn(t, s)
  <2>1. ASSUME NEW b \in AllBuckets, NEW n \in Nodes, In(t[b], n) PROVE BucketOf(n, s) = b
    <3>1. CASE n \in {o, r}
      BY <1>2, <2>1, <3>1
    <3>2. CASE n \notin {o, r}
      BY <1>2, <2>1, <3>2 DEF SameBut, PlacedIn
    <3> QED BY <3>1, <3>2
  <2>2. ASSUME NEW d \in Conns PROVE OnIn(t, Orig(d)) <=> OnIn(t, Reply(d))
    <3>1. CASE d = c
      BY <1>5, <3>1
    <3>2. CASE d # c
      BY <1>4, <3>2, NodeFacts DEF OthersStay, PlacedIn
    <3> QED BY <3>1, <3>2
  <2> QED BY <1>2, <1>3, <2>1, <2>2 DEF PlacedIn
<1> QED BY <1>2, <1>4, <1>5, <1>6 DEF t

-----------------------------------------------------------------------------
(* The array of deferred evictions.                                        *)

LEMMA CountFacts ==
  ASSUME NEW s \in Seq(Conns), NEW c
  PROVE  /\ Count(s, c) \in Nat
         /\ In(s, c) => Count(s, c) > 0
         /\ Count(<<>>, c) = 0
         /\ IsFiniteSet({i \in DOMAIN s : s[i] = c})
<1>1. DOMAIN s = 1..Len(s) /\ Len(s) \in Nat
  OBVIOUS
<1>2. IsFiniteSet(1..Len(s))
  BY <1>1, FS_Interval
<1>3. IsFiniteSet({i \in DOMAIN s : s[i] = c})
  BY <1>1, <1>2, FS_Subset
<1>4. Count(s, c) \in Nat
  BY <1>3, FS_CardinalityType DEF Count
<1>5. ASSUME In(s, c) PROVE Count(s, c) > 0
  <2>1. {i \in DOMAIN s : s[i] = c} # {}
    BY <1>1, <1>5 DEF In
  <2>2. Count(s, c) # 0
    BY <1>3, <2>1, FS_EmptySet DEF Count
  <2> QED BY <1>4, <2>2
<1>6. Count(<<>>, c) = 0
  <2>1. {i \in DOMAIN <<>> : <<>>[i] = c} = {}
    OBVIOUS
  <2> QED BY <2>1, FS_EmptySet DEF Count
<1> QED BY <1>3, <1>4, <1>5, <1>6

LEMMA CountAppend ==
  ASSUME NEW s \in Seq(Conns), NEW d \in Conns, NEW c
  PROVE  Count(Append(s, d), c) = Count(s, c) + (IF c = d THEN 1 ELSE 0)
<1> DEFINE t == Append(s, d)
           A == {i \in DOMAIN s : s[i] = c}
           B == {i \in DOMAIN t : t[i] = c}
<1>1. /\ DOMAIN s = 1..Len(s) /\ Len(s) \in Nat /\ DOMAIN t = 1..Len(s)+1
      /\ t[Len(s)+1] = d /\ \A i \in 1..Len(s) : t[i] = s[i]
  BY AppendProperties
<1>2. IsFiniteSet(A)
  BY CountFacts
<1> HIDE DEF t
<1>3. CASE c = d
  <2>1. B = A \cup {Len(s)+1} /\ Len(s)+1 \notin A
    BY <1>1, <1>3
  <2>2. Cardinality(B) = Cardinality(A) + 1
    BY <1>2, <2>1, FS_AddElement
  <2> QED BY <1>3, <2>2 DEF Count, t
<1>4. CASE c # d
  <2>1. B = A
    BY <1>1, <1>4
  <2>2. Count(t, c) = Count(s, c)
    BY <2>1 DEF Count
  <2>3. Count(s, c) \in Nat
    BY CountFacts
  <2> QED BY <1>4, <2>2, <2>3 DEF t
<1> QED BY <1>3, <1>4

LEMMA CountFront ==
  ASSUME NEW s \in Seq(Conns), s # <<>>
  PROVE  /\ Front(s) \in Seq(Conns) /\ s[Len(s)] \in Conns
         /\ \A c : Count(s, c) = Count(Front(s), c) + (IF c = s[Len(s)] THEN 1 ELSE 0)
<1> DEFINE f == Front(s)
           d == s[Len(s)]
<1>1. Len(s) \in Nat /\ Len(s) >= 1 /\ d \in Conns
  BY ElementOfSeq, EmptySeq
<1>2. /\ f \in Seq(Conns) /\ Len(f) = Len(s) - 1 /\ \A i \in 1..Len(s)-1 : f[i] = s[i]
  <2>1. 1 \in Int /\ Len(s) - 1 \in Int /\ \A i \in 1..Len(s)-1 : s[i] \in Conns
    BY <1>1, ElementOfSeq
  <2>2. /\ f \in Seq(Conns) /\ Len(f) = IF 1 <= Len(s) - 1 THEN (Len(s)-1) - 1 + 1 ELSE 0
        /\ \A i \in 1..(Len(s)-1) - 1 + 1 : f[i] = s[1+i-1]
    BY <2>1, SubSeqProperties DEF Front
  <2> HIDE DEF f
  <2>3. (Len(s)-1) - 1 + 1 = Len(s) - 1 /\ (IF 1 <= Len(s) - 1 THEN (Len(s)-1) - 1 + 1 ELSE 0) = Len(s) - 1
    <3>1. \A n \in Nat : n >= 1 => (n-1) - 1 + 1 = n - 1 /\ (IF 1 <= n - 1 THEN (n-1) - 1 + 1 ELSE 0) = n - 1
      OBVIOUS
    <3>2. Len(s) \in Nat /\ Len(s) >= 1
      BY <1>1
    <3> QED BY <3>1, <3>2
  <2>4. \A i \in 1..Len(s)-1 : 1+i-1 = i
    OBVIOUS
  <2>5. \A i \in 1..Len(s)-1 : f[i] = s[i]
    BY <2>2, <2>3, <2>4
  <2> QED BY <2>2, <2>3, <2>5
<1> HIDE DEF f
<1>3. Append(f, d) = s
  <2> DEFINE t == Append(f, d)
  <2>1. t \in Seq(Conns) /\ Len(t) = Len(s) /\ \A i \in 1..Len(s) : t[i] = s[i]
    BY <1>1, <1>2, AppendProperties
  <2> HIDE DEF t
  <2>2. t = s
    BY <2>1, SeqEqual
  <2> QED BY <2>2 DEF t
<1>4. ASSUME NEW c PROVE Count(s, c) = Count(f, c) + (IF c = d THEN 1 ELSE 0)
  <2>1. Count(Append(f, d), c) = Count(f, c) + (IF c = d THEN 1 ELSE 0)
    BY <1>1, <1>2, CountAppend
  <2> QED BY <1>3, <2>1
<1> QED BY <1>1, <1>2, <1>4 DEF f

-----------------------------------------------------------------------------
(* The table changes.                                                      *)

\* A step that leaves the table alone leaves its order alone.
LEMMA SameTable ==
  ASSUME UNCHANGED <<chain, size>>
  PROVE  /\ \A n : On(n)' <=> On(n)
         /\ \A m, n : Bef(m, n)' <=> Bef(m, n)
         /\ \A c : Home(c)' = Home(c)
         /\ \A c : Tab(c)' = Tab(c)
         /\ Placed' <=> Placed
<1>1. \A n : On(n)' <=> On(n)
  BY DEF On, OnIn
<1>2. \A m, n : Bef(m, n)' <=> Bef(m, n)
  BY DEF Bef, BefIn
<1>3. \A c : Home(c)' = Home(c)
  BY DEF Home
<1>4. \A c : Tab(c)' = Tab(c)
  BY <1>1 DEF Tab
<1>5. Placed' <=> Placed
  BY DEF Placed, PlacedIn, OnIn
<1> QED BY <1>1, <1>2, <1>3, <1>4, <1>5

\* Nobody but the entry c notices that c enters or leaves.
LEMMA OtherEntries ==
  ASSUME NEW c \in Conns, OthersStay(chain, chain', c), UNCHANGED size
  PROVE  /\ \A d \in Conns : d # c => (On(Orig(d))' <=> On(Orig(d))) /\ Tab(d)' = Tab(d)
         /\ \A d, e \in Conns : d # c /\ e # c => (Bef(Orig(d), Orig(e))' <=> Bef(Orig(d), Orig(e)))
         /\ \A d : Home(d)' = Home(d)
<1>1. \A d \in Conns : Orig(d) \in Nodes /\ Orig(d).ct = d
  BY NodeFacts
<1>2. ASSUME NEW d \in Conns, d # c PROVE (On(Orig(d))' <=> On(Orig(d))) /\ Tab(d)' = Tab(d)
  <2>1. On(Orig(d))' <=> On(Orig(d))
    BY <1>1, <1>2 DEF OthersStay, On
  <2> QED BY <2>1 DEF Tab
<1>3. ASSUME NEW d \in Conns, NEW e \in Conns, d # c, e # c
      PROVE  Bef(Orig(d), Orig(e))' <=> Bef(Orig(d), Orig(e))
  BY <1>1, <1>3 DEF OthersStay, Bef
<1> QED BY <1>2, <1>3 DEF Home

LEMMA HoldersCount ==
  ASSUME Good, NEW c \in Conns
  PROVE  Tab(c) \in {0, 1} /\ Count(evict, c) \in Nat /\ Held(c) \in {0, 1, 2}
<1>1. Count(evict, c) \in Nat
  BY CountFacts DEF Good, Typed
<1>2. Tab(c) \in {0, 1} /\ Held(c) \in {0, 1, 2}
  BY DEF Tab, Held
<1> QED BY <1>1, <1>2

\* The last reference is gone: nobody points to the entry.
LEMMA Unheld ==
  ASSUME Good, NEW c \in Conns, use[c] = 0
  PROVE  ~On(Orig(c)) /\ Count(evict, c) = 0 /\ Held(c) = 0 /\ last # c /\ arg1 # c
<1>1. 0 = Tab(c) + Count(evict, c) + Held(c)
  BY DEF Good, Counted
<1>2. Tab(c) = 0 /\ Count(evict, c) = 0 /\ Held(c) = 0
  BY <1>1, HoldersCount
<1>3. ~On(Orig(c))
  BY <1>2 DEF Tab
<1>4. last # c /\ (phase \notin {"loop", "restart", "walk"} => arg1 # c)
  BY <1>2 DEF Held
<1>5. arg1 # c
  BY <1>4, ConnsAssumption DEF Good, Control
<1> QED BY <1>2, <1>3, <1>4, <1>5

\* The bucket that is being walked belongs to the table.
LEMMA Walked ==
  ASSUME Good, phase = "walk"
  PROVE  /\ bucket \in AllBuckets /\ bucket \in Nat /\ size \in Sizes /\ bucket < size
         /\ chain[bucket] \in Seq(Nodes) /\ Distinct(chain[bucket])
<1>1. bucket \in Nat /\ size \in Sizes /\ bucket < size
  BY DEF Good, Typed, Control
<1>2. bucket \in AllBuckets
  BY <1>1, Buckets
<1> QED BY <1>1, <1>2 DEF Good, Placed, PlacedIn

LEMMA GoodInsert ==
  ASSUME Good, NEW c \in Conns, Insert(c)
  PROVE  Good'
<1> USE DEF cursor, callback, Change
<1>1. /\ use[c] = 0 /\ Unlocked(c) /\ use' = [use EXCEPT ![c] = 1] /\ sent' = [sent EXCEPT ![c] = 0]
      /\ UNCHANGED <<size, resizes, match, expired, bucket, arg1, phase, last, evict, room, node,
                     filled, stable, restarted>>
      /\ changes < MaxChanges /\ changes' \in {changes, changes + 1}
  BY DEF Insert
<1>2. Typed
  BY DEF Good
<1>3. ~On(Orig(c)) /\ Count(evict, c) = 0 /\ Held(c) = 0 /\ last # c /\ arg1 # c
  BY <1>1, Unheld
<1>4. /\ Placed' /\ On(Orig(c))' /\ OthersStay(chain, chain', c)
      /\ \A b \in AllBuckets : b # BucketOf(Orig(c), size) /\ b # BucketOf(Reply(c), size)
                                 => chain'[b] = chain[b]
  <2>1. PlacedIn(chain, size) /\ size \in Sizes /\ ~OnIn(chain, Orig(c))
    BY <1>2, <1>3 DEF Good, Placed, On, Typed
  <2>2. chain' = With(chain, size, c)
    BY DEF Insert, With
  <2>3. /\ PlacedIn(chain', size) /\ OnIn(chain', Orig(c)) /\ OthersStay(chain, chain', c)
        /\ \A b \in AllBuckets : b # BucketOf(Orig(c), size) /\ b # BucketOf(Reply(c), size)
                                 => chain'[b] = chain[b]
    BY <2>1, <2>2, Linked
  <2> QED BY <1>1, <2>3 DEF Placed, On
<1>5. phase = "walk" => chain'[bucket] = chain[bucket]
  BY <1>1, <1>4, Walked DEF Unlocked, Locked
<1>6. phase = "walk" => \A n : Passed(n)' <=> Passed(n)
  BY <1>1, <1>5 DEF Passed
<1>7. Typed'
  <2>1. sent' \in [Conns -> Nat] /\ use' \in [Conns -> Int]
    BY <1>1, <1>2 DEF Typed
  <2>2. changes' \in 0..MaxChanges
    BY <1>1, <1>2, BoundsAssumption DEF Typed
  <2> QED BY <1>1, <1>2, <2>1, <2>2 DEF Typed
<1>8. Control'
  BY <1>1 DEF Good, Control
<1>9. Counted'
  <2> SUFFICES ASSUME NEW d \in Conns PROVE use'[d] = Tab(d)' + Count(evict', d) + Held(d)'
    BY DEF Counted
  <2>1. Held(d)' = Held(d) /\ evict' = evict
    BY <1>1 DEF Held
  <2>2. CASE d = c
    BY <1>1, <1>2, <1>3, <1>4, <2>1, <2>2 DEF Tab, Typed
  <2>3. CASE d # c
    BY <1>1, <1>2, <1>4, <2>1, <2>3, OtherEntries DEF Good, Counted, Typed
  <2> QED BY <2>2, <2>3
<1>10. arg1 # None => arg1 \in Conns /\ (On(Orig(arg1))' <=> On(Orig(arg1)))
  BY <1>1, <1>2, <1>3, <1>4, OtherEntries DEF Typed
<1>11. last # None => last \in Conns /\ (On(Orig(last))' <=> On(Orig(last)))
  BY <1>1, <1>2, <1>3, <1>4, OtherEntries DEF Typed
<1>12. \A d : Home(d)' = Home(d)
  BY <1>1 DEF Home
<1>13. Cursor'
  BY <1>1, <1>6, <1>10, <1>11, <1>12 DEF Good, Cursor
<1>14. Findable' <=> Findable
  BY <1>1, <1>10 DEF Findable
<1>15. \A d \in Conns : d # c /\ Findable => (Bef(Orig(d), Orig(arg1))' <=> Bef(Orig(d), Orig(arg1)))
  BY <1>1, <1>3, <1>4, <1>10, OtherEntries DEF Findable
<1>16. Coverage'
  <2> SUFFICES ASSUME NEW d \in stable PROVE Stays(d)' /\ (sent'[d] = 0 => Ahead(d)')
    BY <1>1 DEF Coverage
  <2>1. d \in Conns /\ Stays(d) /\ (sent[d] = 0 => Ahead(d))
    BY <1>2 DEF Good, Typed, Coverage
  <2>2. d # c
    BY <1>3, <2>1 DEF Stays
  <2>3. Stays(d)'
    BY <1>1, <1>4, <2>1, <2>2, OtherEntries DEF Stays, Wanted
  <2>4. sent'[d] = sent[d]
    BY <1>1, <1>2, <2>1, <2>2 DEF Typed
  <2>5. Ahead(d) => Ahead(d)'
    BY <1>1, <1>6, <1>12, <1>14, <1>15, <2>1, <2>2 DEF Ahead
  <2> QED BY <2>1, <2>3, <2>4, <2>5
<1>17. NoRepeat'
  <2> SUFFICES ASSUME ~restarted, NEW d \in Conns, sent'[d] > 0 PROVE sent'[d] = 1 /\ Gone(d)'
    BY <1>1 DEF NoRepeat
  <2>1. d # c /\ sent'[d] = sent[d]
    BY <1>1, <1>2 DEF Typed
  <2>2. sent[d] = 1 /\ Gone(d)
    BY <2>1 DEF Good, NoRepeat
  <2>3. Gone(d)'
    BY <1>1, <1>4, <1>6, <1>12, <1>14, <1>15, <2>1, <2>2, OtherEntries DEF Gone
  <2> QED BY <2>1, <2>2, <2>3
<1>18. Idle'
  BY <1>1, <1>2 DEF Good, Idle, Typed
<1> QED BY <1>4, <1>7, <1>8, <1>9, <1>13, <1>16, <1>17, <1>18 DEF Good

\* An entry other than the one that a walk looks for leaves the table.
LEMMA EntryLeaves ==
  ASSUME Good, NEW c \in Conns, chain' = Without(chain, c),
         UNCHANGED <<size, match, bucket, arg1, last, phase, node, sent, restarted>>,
         expired' = expired \ {c}, stable' = stable \ {c},
         phase = "walk" => bucket # BucketOf(Orig(c), size) /\ bucket # BucketOf(Reply(c), size)
  PROVE  /\ Placed' /\ Cursor' /\ Coverage' /\ NoRepeat'
         /\ \A d \in Conns : Tab(d)' = IF d = c THEN 0 ELSE Tab(d)
<1>1. Typed
  BY DEF Good
<1>2. /\ Placed' /\ ~On(Orig(c))' /\ OthersStay(chain, chain', c)
      /\ \A b \in AllBuckets : b # BucketOf(Orig(c), size) /\ b # BucketOf(Reply(c), size)
                                 => chain'[b] = chain[b]
  <2>1. PlacedIn(chain, size) /\ size \in Sizes
    BY <1>1 DEF Good, Placed, Typed
  <2>2. /\ PlacedIn(chain', size) /\ ~OnIn(chain', Orig(c)) /\ OthersStay(chain, chain', c)
        /\ \A b \in AllBuckets : b # BucketOf(Orig(c), size) /\ b # BucketOf(Reply(c), size)
                                 => chain'[b] = chain[b]
    BY <2>1, Unlinked
  <2> QED BY <2>2 DEF Placed, On
<1>3. phase = "walk" => chain'[bucket] = chain[bucket]
  BY <1>2, Walked
<1>4. phase = "walk" => \A n : Passed(n)' <=> Passed(n)
  BY <1>3 DEF Passed
<1>5. \A d : Home(d)' = Home(d)
  BY DEF Home
<1>6. \A d \in Conns : d # c => (d \in expired' <=> d \in expired)
  OBVIOUS
<1>7. arg1 # None => arg1 \in Conns /\ (arg1 # c => (On(Orig(arg1))' <=> On(Orig(arg1))))
  BY <1>1, <1>2, OtherEntries DEF Typed
<1>8. last # None => last \in Conns /\ (last # c => (On(Orig(last))' <=> On(Orig(last))))
  BY <1>1, <1>2, OtherEntries DEF Typed
<1>9. phase = "walk" => arg1 # c
  BY ConnsAssumption DEF Good, Cursor, Home
<1>10. Cursor'
  <2>1. arg1' # None => arg1' \in SameNet /\ Home(arg1)' = bucket' /\ bucket' < size'
    BY <1>5 DEF Good, Cursor
  <2>2. phase' = "walk" /\ arg1' # None /\ Passed(Orig(arg1))' => arg1' \in expired'
    BY <1>4, <1>6, <1>7, <1>9 DEF Good, Cursor
  <2>3. ASSUME phase \in {"loop", "restart", "walk"}, last # None, arg1 = None
        PROVE  \/ last \in expired' \/ ~On(Orig(last))' \/ Home(last)' < bucket
               \/ phase = "walk" /\ Passed(Orig(last))'
    <3>1. CASE last = c
      BY <1>2, <3>1
    <3>2. CASE last # c
      BY <1>4, <1>5, <1>6, <1>8, <2>3, <3>2 DEF Good, Cursor
    <3> QED BY <3>1, <3>2
  <2> QED BY <2>1, <2>2, <2>3 DEF Cursor
<1>11. Findable' <=> Findable /\ arg1 # c
  <2>1. CASE arg1 = c
    BY <1>2, <2>1 DEF Findable
  <2>2. CASE arg1 # c
    BY <1>6, <1>7, <2>2 DEF Findable
  <2> QED BY <2>1, <2>2
<1>12. \A d \in Conns : d # c /\ Findable' => (Bef(Orig(d), Orig(arg1))' <=> Bef(Orig(d), Orig(arg1)))
  BY <1>2, <1>7, <1>11, OtherEntries DEF Findable
<1>13. Coverage'
  <2> SUFFICES ASSUME NEW d \in stable, d # c PROVE Stays(d)' /\ (sent'[d] = 0 => Ahead(d)')
    BY DEF Coverage
  <2>1. d \in Conns /\ Stays(d) /\ (sent[d] = 0 => Ahead(d))
    BY <1>1 DEF Good, Typed, Coverage
  <2>2. Stays(d)'
    BY <1>2, <2>1, OtherEntries DEF Stays, Wanted
  <2>3. Ahead(d) => Ahead(d)'
    BY <1>4, <1>5, <1>11, <1>12, <2>1 DEF Ahead
  <2> QED BY <2>1, <2>2, <2>3
<1>14. NoRepeat'
  <2> SUFFICES ASSUME ~restarted, NEW d \in Conns, sent[d] > 0 PROVE sent[d] = 1 /\ Gone(d)'
    BY DEF NoRepeat
  <2>1. sent[d] = 1 /\ Gone(d)
    BY DEF Good, NoRepeat
  <2>2. CASE d = c
    BY <1>2, <2>1, <2>2 DEF Gone
  <2>3. CASE d # c
    BY <1>2, <1>4, <1>5, <1>11, <1>12, <2>1, <2>3, OtherEntries DEF Gone
  <2> QED BY <2>1, <2>2, <2>3
<1>15. ASSUME NEW d \in Conns PROVE Tab(d)' = IF d = c THEN 0 ELSE Tab(d)
  <2>1. CASE d = c
    BY <1>2, <2>1 DEF Tab
  <2>2. CASE d # c
    BY <1>2, <2>2, OtherEntries
  <2> QED BY <2>1, <2>2
<1> QED BY <1>2, <1>10, <1>13, <1>14, <1>15

\* The table's own reference is one of those that are counted.
LEMMA InTableCounted ==
  ASSUME Good, NEW c \in Conns
  PROVE  InTable(c) <=> On(Orig(c))
BY InTableIsOn DEF Good, Placed, InTable, On

LEMMA GoodDelete ==
  ASSUME Good, NEW c \in Conns, Delete(c)
  PROVE  Good'
<1> USE DEF cursor, callback, Change
<1>1. /\ InTable(c) /\ Unlocked(c) /\ chain' = Without(chain, c) /\ use' = [use EXCEPT ![c] = @ - 1]
      /\ expired' = expired \ {c} /\ stable' = stable \ {c}
      /\ UNCHANGED <<size, resizes, match, bucket, arg1, phase, last, evict, room, node,
                     filled, sent, restarted>>
      /\ changes < MaxChanges /\ changes' \in {changes, changes + 1}
  BY DEF Delete
<1>2. Typed
  BY DEF Good
<1>3. phase = "walk" => bucket # BucketOf(Orig(c), size) /\ bucket # BucketOf(Reply(c), size)
  BY <1>1 DEF Unlocked, Locked
<1>4. /\ Placed' /\ Cursor' /\ Coverage' /\ NoRepeat'
      /\ \A d \in Conns : Tab(d)' = IF d = c THEN 0 ELSE Tab(d)
  BY <1>1, <1>3, EntryLeaves
<1>5. Typed'
  <2>1. use' \in [Conns -> Int] /\ expired' \subseteq Conns /\ stable' \subseteq Conns
    BY <1>1, <1>2 DEF Typed
  <2>2. changes' \in 0..MaxChanges
    BY <1>1, <1>2, BoundsAssumption DEF Typed
  <2> QED BY <1>1, <1>2, <2>1, <2>2 DEF Typed
<1>6. Control'
  BY <1>1 DEF Good, Control
<1>7. Counted'
  <2> SUFFICES ASSUME NEW d \in Conns PROVE use'[d] = Tab(d)' + Count(evict', d) + Held(d)'
    BY DEF Counted
  <2>1. Held(d)' = Held(d) /\ evict' = evict /\ use[d] = Tab(d) + Count(evict, d) + Held(d)
    BY <1>1 DEF Held, Good, Counted
  <2>2. CASE d = c
    <3>1. Tab(c) = 1 /\ Tab(c)' = 0
      BY <1>1, <1>4, InTableCounted DEF Tab
    <3>2. use'[c] = use[c] - 1
      BY <1>1, <1>2 DEF Typed
    <3>3. Count(evict, c) \in Nat /\ Held(c) \in {0, 1, 2}
      BY HoldersCount
    <3> QED BY <2>1, <2>2, <3>1, <3>2, <3>3
  <2>3. CASE d # c
    BY <1>1, <1>2, <1>4, <2>1, <2>3 DEF Typed
  <2> QED BY <2>2, <2>3
<1>8. Idle'
  BY <1>1 DEF Good, Idle
<1> QED BY <1>4, <1>5, <1>6, <1>7, <1>8 DEF Good

\* The timeout of an entry passes, or the filter changes its mind.
LEMMA GoodExpire ==
  ASSUME Good, NEW c \in Conns, Expire(c) \/ Remark(c)
  PROVE  Good'
<1> USE DEF cursor, callback, Change
<1>1. /\ stable' = stable \ {c}
      /\ expired' \in {expired, expired \cup {c}}
      /\ match' \subseteq match \cup {c} /\ match \subseteq match' \cup {c}
      /\ UNCHANGED <<size, resizes, chain, use, bucket, arg1, phase, last, evict, room, node,
                     filled, sent, restarted>>
      /\ changes < MaxChanges /\ changes' \in {changes, changes + 1}
  BY DEF Expire, Remark
<1>2. Typed
  BY DEF Good
<1>3. \A n : Passed(n)' <=> Passed(n)
  BY <1>1 DEF Passed
<1>4. Typed'
  <2>1. expired' \subseteq Conns /\ stable' \subseteq Conns /\ match' \subseteq Conns
    BY <1>1, <1>2 DEF Typed
  <2>2. changes' \in 0..MaxChanges
    BY <1>1, <1>2, BoundsAssumption DEF Typed
  <2> QED BY <1>1, <1>2, <2>1, <2>2 DEF Typed
<1>5. Placed' /\ Control'
  BY <1>1, SameTable DEF Good, Control
<1>6. Counted'
  BY <1>1, SameTable DEF Good, Counted, Held
<1>7. Cursor'
  <2>1. \A d : d \in expired => d \in expired'
    BY <1>1
  <2> QED BY <1>1, <1>3, <2>1, SameTable DEF Good, Cursor
<1>8. Findable' => Findable
  BY <1>1, SameTable DEF Findable
<1>9. Coverage'
  <2> SUFFICES ASSUME NEW d \in stable, d # c PROVE Stays(d)' /\ (sent'[d] = 0 => Ahead(d)')
    BY <1>1 DEF Coverage
  <2>1. d \in Conns /\ Stays(d) /\ (sent[d] = 0 => Ahead(d))
    BY <1>2 DEF Good, Typed, Coverage
  <2>2. Stays(d)'
    BY <1>1, <2>1, SameTable DEF Stays, Wanted
  <2>3. Ahead(d) => Ahead(d)'
    BY <1>1, <1>3, <1>8, SameTable DEF Ahead
  <2> QED BY <1>1, <2>1, <2>2, <2>3
<1>10. NoRepeat'
  <2>1. \A d \in Conns : Gone(d) => Gone(d)'
    BY <1>1, <1>3, <1>8, SameTable DEF Gone
  <2> QED BY <1>1, <2>1 DEF Good, NoRepeat
<1>11. Idle'
  BY <1>1 DEF Good, Idle
<1> QED BY <1>4, <1>5, <1>6, <1>7, <1>9, <1>10, <1>11 DEF Good

-----------------------------------------------------------------------------
(* The dump.                                                               *)

LEMMA GoodStart ==
  ASSUME Good, ctnetlink_start
  PROVE  Good'
<1> USE DEF table
<1>1. /\ phase = "idle" /\ phase' = "between" /\ bucket' = 0 /\ arg1' = None
      /\ sent' = [c \in Conns |-> 0] /\ stable' = {c \in Wanted : InTable(c) /\ c \notin expired}
      /\ restarted' = FALSE /\ changes' = 0
      /\ UNCHANGED <<size, resizes, chain, expired, match, use, last, evict, room, node, filled>>
  BY DEF ctnetlink_start
<1>2. Typed /\ Control
  BY DEF Good
<1>3. last = None /\ evict = <<>> /\ arg1 = None
  BY <1>1, <1>2 DEF Control
<1>4. Typed'
  <2>1. stable' \subseteq Conns /\ sent' \in [Conns -> Nat] /\ changes' \in 0..MaxChanges
    BY <1>1, FilterAssumption, BoundsAssumption DEF Wanted
  <2> QED BY <1>1, <1>2, <2>1 DEF Typed
<1>5. Placed' /\ Control'
  BY <1>1, <1>3, SameTable DEF Good, Control
<1>6. Counted'
  <2>1. \A c \in Conns : Held(c)' = Held(c)
    BY <1>1, <1>3, ConnsAssumption DEF Held
  <2> QED BY <1>1, <2>1, SameTable DEF Good, Counted
<1>7. Cursor'
  BY <1>1 DEF Cursor
<1>8. Coverage'
  <2> SUFFICES ASSUME NEW c \in stable' PROVE Stays(c)' /\ Ahead(c)'
    BY DEF Coverage
  <2>1. c \in Conns /\ c \in Wanted /\ InTable(c) /\ c \notin expired
    BY <1>1, FilterAssumption DEF Wanted
  <2>2. Stays(c)'
    BY <1>1, <2>1, InTableCounted, SameTable DEF Stays, Wanted
  <2>3. Home(c) \in Nat
    BY <1>2, <2>1, Buckets, NodeFacts DEF Home, Typed
  <2> QED BY <1>1, <2>2, <2>3, SameTable DEF Ahead, Findable
<1>9. NoRepeat' /\ Idle'
  BY <1>1 DEF NoRepeat, Idle
<1> QED BY <1>4, <1>5, <1>6, <1>7, <1>8, <1>9 DEF Good

LEMMA GoodCallback ==
  ASSUME Good, NEW r \in 1..MaxRoom, Callback(r)
  PROVE  Good'
<1> USE DEF table, cursor, history
<1>1. /\ phase = "between" /\ phase' = "loop" /\ last' = arg1 /\ room' = r /\ filled' = FALSE
      /\ UNCHANGED <<size, resizes, chain, expired, match, use, bucket, arg1, evict, node, sent,
                     stable, restarted, changes>>
  BY DEF Callback
<1>2. Typed /\ Control
  BY DEF Good
<1>3. last = None /\ evict = <<>>
  BY <1>1, <1>2 DEF Control
<1>4. Typed'
  <2>1. room' \in 0..MaxRoom
    BY <1>1, BoundsAssumption
  <2> QED BY <1>1, <1>2, <2>1 DEF Typed
<1>5. Placed' /\ Control'
  <2>1. room' > 0
    BY <1>1, BoundsAssumption
  <2> QED BY <1>1, <1>3, <2>1, SameTable DEF Good, Control
<1>6. Counted'
  <2>1. \A c \in Conns : Held(c)' = Held(c)
    BY <1>1, <1>3, ConnsAssumption DEF Held
  <2> QED BY <1>1, <2>1, SameTable DEF Good, Counted
<1>7. Cursor'
  BY <1>1, SameTable DEF Good, Cursor
<1>8. Findable' <=> Findable
  BY <1>1, SameTable DEF Findable
<1>9. Coverage'
  <2>1. \A c \in Conns : Stays(c) => Stays(c)'
    BY <1>1, SameTable DEF Stays, Wanted
  <2>2. \A c \in Conns : Ahead(c) => Ahead(c)'
    BY <1>1, <1>8, SameTable DEF Ahead
  <2> QED BY <1>1, <1>2, <2>1, <2>2 DEF Good, Coverage, Typed
<1>10. NoRepeat' /\ Idle'
  <2>1. \A c \in Conns : Gone(c) => Gone(c)'
    BY <1>1, <1>8, SameTable DEF Gone
  <2> QED BY <1>1, <2>1 DEF Good, NoRepeat, Idle
<1> QED BY <1>4, <1>5, <1>6, <1>7, <1>9, <1>10 DEF Good

\* A deferred eviction: the entry is killed if it is still there and expired,
\* and the reference of the array is dropped in any case.
LEMMA GoodKill ==
  ASSUME Good, KillEvicted
  PROVE  Good'
<1> USE DEF cursor, history
<1> DEFINE c == evict[Len(evict)]
<1>1. /\ phase \in {"restart", "return"} /\ evict # <<>> /\ evict' = Front(evict)
      /\ UNCHANGED <<size, resizes, match, bucket, arg1, phase, last, room, node, filled, sent,
                     stable, restarted, changes>>
  BY DEF KillEvicted
<1>2. Typed /\ evict \in Seq(Conns) /\ use \in [Conns -> Int]
  BY DEF Good, Typed
<1>3. /\ Front(evict) \in Seq(Conns) /\ c \in Conns
      /\ \A d : Count(evict, d) = Count(Front(evict), d) + (IF d = c THEN 1 ELSE 0)
  BY <1>1, <1>2, CountFront
<1>4. \/ /\ c \in expired /\ InTable(c) /\ chain' = Without(chain, c) /\ expired' = expired \ {c}
         /\ use' = [use EXCEPT ![c] = @ - 2]
      \/ use' = [use EXCEPT ![c] = @ - 1] /\ UNCHANGED <<chain, expired>>
  BY DEF KillEvicted
<1> HIDE DEF c
<1>5. Control'
  BY <1>1 DEF Good, Control
<1>6. Typed'
  <2>1. use' \in [Conns -> Int] /\ expired' \subseteq Conns /\ evict' \in Seq(Conns)
    BY <1>1, <1>2, <1>3, <1>4 DEF Typed
  <2> QED BY <1>1, <1>2, <2>1 DEF Typed
<1>7. Idle'
  BY <1>1 DEF Idle
<1>8. \A d \in Conns : /\ Held(d)' = Held(d) /\ Count(evict', d) \in Nat /\ Held(d) \in {0, 1, 2}
                       /\ Count(evict, d) = Count(evict', d) + (IF d = c THEN 1 ELSE 0)
                       /\ use[d] = Tab(d) + Count(evict, d) + Held(d) /\ Tab(d) \in {0, 1}
  <2>1. \A d \in Conns : Count(evict', d) \in Nat
    BY <1>1, <1>3, CountFacts
  <2> QED BY <1>1, <1>3, <2>1, HoldersCount DEF Held, Good, Counted
<1>9. CASE /\ c \in expired /\ InTable(c) /\ chain' = Without(chain, c) /\ expired' = expired \ {c}
           /\ use' = [use EXCEPT ![c] = @ - 2]
  <2>1. c \notin stable
    BY <1>9 DEF Good, Coverage, Stays
  <2>2. stable' = stable \ {c}
    BY <1>1, <2>1
  <2>3. /\ Placed' /\ Cursor' /\ Coverage' /\ NoRepeat'
        /\ \A d \in Conns : Tab(d)' = IF d = c THEN 0 ELSE Tab(d)
    BY <1>1, <1>3, <1>9, <2>2, EntryLeaves
  <2>4. Tab(c) = 1
    BY <1>3, <1>9, InTableCounted DEF Tab
  <2>5. Counted'
    <3> SUFFICES ASSUME NEW d \in Conns PROVE use'[d] = Tab(d)' + Count(evict', d) + Held(d)'
      BY DEF Counted
    <3>1. CASE d = c
      <4>1. use'[d] = use[d] - 2 /\ Tab(d)' = 0 /\ Tab(d) = 1
        BY <1>2, <1>3, <1>9, <2>3, <2>4, <3>1
      <4> QED BY <1>8, <3>1, <4>1
    <3>2. CASE d # c
      <4>1. use'[d] = use[d] /\ Tab(d)' = Tab(d)
        BY <1>2, <1>9, <2>3, <3>2
      <4> QED BY <1>8, <3>2, <4>1
    <3> QED BY <3>1, <3>2
  <2> QED BY <1>5, <1>6, <1>7, <2>3, <2>5 DEF Good
<1>10. CASE use' = [use EXCEPT ![c] = @ - 1] /\ UNCHANGED <<chain, expired>>
  <2>1. Placed'
    BY <1>1, <1>10, SameTable DEF Good
  <2>2. Counted'
    <3> SUFFICES ASSUME NEW d \in Conns PROVE use'[d] = Tab(d)' + Count(evict', d) + Held(d)'
      BY DEF Counted
    <3>1. Tab(d)' = Tab(d)
      BY <1>1, <1>10, SameTable
    <3>2. use'[d] = IF d = c THEN use[d] - 1 ELSE use[d]
      BY <1>2, <1>10
    <3> QED BY <1>8, <3>1, <3>2
  <2>3. Cursor'
    BY <1>1, <1>10, SameTable DEF Good, Cursor
  <2>4. Findable' <=> Findable
    BY <1>1, <1>10, SameTable DEF Findable
  <2>5. Coverage'
    <3>1. \A d \in Conns : Stays(d) => Stays(d)'
      BY <1>1, <1>10, SameTable DEF Stays, Wanted
    <3>2. \A d \in Conns : Ahead(d) => Ahead(d)'
      BY <1>1, <1>10, <2>4, SameTable DEF Ahead
    <3> QED BY <1>1, <1>2, <3>1, <3>2 DEF Good, Coverage, Typed
  <2>6. NoRepeat'
    <3>1. \A d \in Conns : Gone(d) => Gone(d)'
      BY <1>1, <1>10, <2>4, SameTable DEF Gone
    <3> QED BY <1>1, <3>1 DEF Good, NoRepeat
  <2> QED BY <1>5, <1>6, <1>7, <2>1, <2>2, <2>3, <2>5, <2>6 DEF Good
<1> QED BY <1>4, <1>9, <1>10

\* The two tests for the last bucket.
LEMMA GoodLockBucket ==
  ASSUME Good, ForBucket \/ LockBucket
  PROVE  Good'
<1> USE DEF table, cursor, history
<1>1. /\ phase \in {"loop", "restart"}
      /\ UNCHANGED <<size, resizes, chain, expired, match, use, bucket, arg1, last, evict, room,
                     filled, sent, stable, restarted, changes>>
      /\ \/ bucket < size /\ phase' = "walk" /\ node' = 1
         \/ bucket < size /\ phase' = "restart" /\ node' = node
         \/ ~(bucket < size) /\ phase' = "out" /\ node' = node
  BY DEF ForBucket, LockBucket
<1>2. Typed /\ Control
  BY DEF Good
<1>3. bucket \in Nat /\ size \in Nat
  BY <1>2, Buckets DEF Typed
<1>4. ~(bucket < size) => arg1 = None
  BY DEF Good, Cursor
<1>5. Typed'
  BY <1>1, <1>2 DEF Typed
<1>6. Placed' /\ Control'
  <2>1. Placed'
    BY <1>1, SameTable DEF Good
  <2>2. Control'
    BY <1>1, <1>2, <1>3, <1>4 DEF Control
  <2> QED BY <2>1, <2>2
<1>7. Counted'
  <2>1. \A c \in Conns : Held(c)' = Held(c)
    BY <1>1, <1>4, ConnsAssumption DEF Held
  <2> QED BY <1>1, <2>1, SameTable DEF Good, Counted
<1>8. phase' = "walk" => \A n : ~Passed(n)'
  BY <1>1 DEF Passed
<1>9. Cursor'
  BY <1>1, <1>8, SameTable DEF Good, Cursor
<1>10. Findable' <=> Findable
  BY <1>1, SameTable DEF Findable
<1>11. Coverage'
  <2>1. \A d \in Conns : Stays(d) => Stays(d)'
    BY <1>1, SameTable DEF Stays, Wanted
  <2>2. \A d \in Conns : Ahead(d) => Ahead(d)'
    BY <1>1, <1>8, <1>10, SameTable DEF Ahead
  <2> QED BY <1>1, <1>2, <2>1, <2>2 DEF Good, Coverage, Typed
<1>12. NoRepeat' /\ Idle'
  <2>1. \A d \in Conns : Gone(d) => Gone(d)'
    BY <1>1, <1>10, SameTable DEF Gone
  <2> QED BY <1>1, <2>1 DEF Good, NoRepeat, Idle
<1> QED BY <1>5, <1>6, <1>7, <1>9, <1>11, <1>12 DEF Good

\* The node that the walk is at: it is in the table, in the bucket that is
\* walked, and exactly the nodes before it have been passed.
LEMMA AtHere ==
  ASSUME Good, Walking
  PROVE  /\ phase = "walk" /\ Here \in Nodes /\ On(Here) /\ BucketOf(Here, size) = bucket
         /\ ~Passed(Here)
         /\ \A n : Passed(n) <=> Bef(n, Here)
<1>1. phase = "walk" /\ node <= Len(chain[bucket])
  BY DEF Walking
<1>2. /\ bucket \in AllBuckets /\ bucket \in Nat /\ size \in Sizes /\ bucket < size
      /\ chain[bucket] \in Seq(Nodes) /\ Distinct(chain[bucket])
  BY <1>1, Walked
<1>3. node \in 1..Len(chain[bucket])
  <2>1. node \in Nat \ {0} /\ Len(chain[bucket]) \in Nat
    BY <1>2 DEF Good, Typed
  <2> QED BY <1>1, <2>1
<1>4. Here \in Nodes /\ In(chain[bucket], Here)
  BY <1>2, <1>3, ElementOfSeq DEF Here, In
<1>5. On(Here) /\ \A b \in AllBuckets : In(chain[b], Here) => b = bucket
  BY <1>2, <1>4 DEF On, OnIn, Good, Placed, PlacedIn
<1>6. BucketOf(Here, size) = bucket
  BY <1>2, <1>4 DEF Good, Placed, PlacedIn
<1>7. ~Passed(Here)
  BY <1>2, <1>3 DEF Passed, Distinct, Here
<1>8. ASSUME NEW n, Passed(n) PROVE Bef(n, Here)
  BY <1>2, <1>3, <1>8 DEF Passed, Here, Bef, BefIn, Pre
<1>9. ASSUME NEW n, Bef(n, Here) PROVE Passed(n)
  <2>1. PICK b \in AllBuckets : Pre(chain[b], n, Here)
    BY <1>9 DEF Bef, BefIn
  <2>2. b = bucket
    BY <1>5, <2>1 DEF Pre, In
  <2>3. PICK i, j \in 1..Len(chain[bucket]) : i < j /\ chain[bucket][i] = n /\ chain[bucket][j] = Here
    BY <2>1, <2>2 DEF Pre
  <2>4. j = node
    BY <1>2, <1>3, <2>3 DEF Distinct, Here
  <2> QED BY <2>3, <2>4 DEF Passed
<1> QED BY <1>1, <1>4, <1>5, <1>6, <1>7, <1>8, <1>9

\* The walk passes the node it is at and no other.
LEMMA Advance ==
  ASSUME Good, Walking, UNCHANGED <<chain, bucket>>, node' = node + 1
  PROVE  \A n : Passed(n)' <=> Passed(n) \/ n = Here
<1>1. phase = "walk" /\ node <= Len(chain[bucket])
  BY DEF Walking
<1>2. node \in Nat \ {0} /\ Len(chain[bucket]) \in Nat
  BY <1>1, Walked DEF Good, Typed
<1>3. \A i \in 1..Len(chain[bucket]) : i < node + 1 <=> i < node \/ i = node
  BY <1>2
<1>4. node \in 1..Len(chain[bucket])
  BY <1>1, <1>2
<1> QED BY <1>3, <1>4 DEF Passed, Here

\* At the end of the chain every node of the bucket has been passed.
LEMMA AtEnd ==
  ASSUME Good, phase = "walk", node > Len(chain[bucket])
  PROVE  \A c \in Conns : Passed(Orig(c)) <=> On(Orig(c)) /\ Home(c) = bucket
<1>1. /\ bucket \in AllBuckets /\ size \in Sizes /\ PlacedIn(chain, size)
      /\ chain[bucket] \in Seq(Nodes) /\ node \in Nat \ {0} /\ Len(chain[bucket]) \in Nat
  BY Walked DEF Good, Typed, Placed
<1> TAKE c \in Conns
<1>2. Orig(c) \in Nodes
  BY NodeFacts
<1>3. Passed(Orig(c)) <=> In(chain[bucket], Orig(c))
  <2>1. \A i \in 1..Len(chain[bucket]) : i < node
    BY <1>1
  <2> QED BY <2>1 DEF Passed, In
<1>4. In(chain[bucket], Orig(c)) => On(Orig(c)) /\ Home(c) = bucket
  BY <1>1, <1>2 DEF On, OnIn, PlacedIn, Home
<1>5. On(Orig(c)) /\ Home(c) = bucket => In(chain[bucket], Orig(c))
  BY <1>1, <1>2, OnAtHome DEF On, Home
<1> QED BY <1>3, <1>4, <1>5

\* A node is passed over that is neither the one to resume at nor one to report.
LEMMA PassedOver ==
  ASSUME Good, Walking, node' = node + 1,
         UNCHANGED <<size, chain, expired, match, bucket, arg1, phase, last, sent, stable, restarted>>,
         arg1 # None /\ Here = Orig(arg1) => arg1 \in expired,
         \A d \in stable : arg1 = None => Here # Orig(d)
  PROVE  Placed' /\ Cursor' /\ Coverage' /\ NoRepeat' /\ Idle'
<1>1. phase = "walk" /\ \A n : Passed(n)' <=> Passed(n) \/ n = Here
  BY Advance DEF Walking
<1>2. Placed'
  BY SameTable DEF Good
<1>3. Cursor'
  BY <1>1, SameTable DEF Good, Cursor
<1>4. Findable' <=> Findable
  BY SameTable DEF Findable
<1>5. Coverage'
  <2> SUFFICES ASSUME NEW d \in stable PROVE Stays(d)' /\ (sent[d] = 0 => Ahead(d)')
    BY DEF Coverage
  <2>1. Stays(d) /\ (sent[d] = 0 => Ahead(d))
    BY DEF Good, Coverage
  <2>2. Stays(d)'
    BY <2>1, SameTable DEF Stays, Wanted
  <2>3. Ahead(d) => Ahead(d)'
    BY <1>1, <1>4, SameTable DEF Ahead
  <2> QED BY <2>1, <2>2, <2>3
<1>6. NoRepeat'
  <2>1. \A d \in Conns : Gone(d) => Gone(d)'
    BY <1>1, <1>4, SameTable DEF Gone
  <2> QED BY <2>1 DEF Good, NoRepeat
<1>7. Idle'
  BY <1>1 DEF Idle
<1> QED BY <1>2, <1>3, <1>5, <1>6, <1>7

LEMMA GoodVisitExpired ==
  ASSUME Good, VisitExpired
  PROVE  Good'
<1> USE DEF table, cursor, history
<1> DEFINE c == Here.ct
<1>1. /\ Walking /\ c \in expired /\ node' = node + 1
      /\ UNCHANGED <<size, resizes, chain, expired, match, bucket, arg1, phase, last, room, filled,
                     sent, stable, restarted, changes>>
      /\ \/ evict' = Append(evict, c) /\ use' = [use EXCEPT ![c] = @ + 1]
         \/ UNCHANGED <<evict, use>>
  BY DEF VisitExpired
<1>2. Typed /\ Here \in Nodes /\ c \in Conns
  BY <1>1, AtHere, NodeFacts DEF Good
<1>3. \A d \in Conns : Here = Orig(d) => d \in expired
  BY <1>1, NodeFacts
<1> HIDE DEF c
<1>4. Placed' /\ Cursor' /\ Coverage' /\ NoRepeat' /\ Idle'
  <2>1. arg1 # None /\ Here = Orig(arg1) => arg1 \in expired
    BY <1>2, <1>3 DEF Typed
  <2>2. \A d \in stable : arg1 = None => Here # Orig(d)
    BY <1>2, <1>3 DEF Typed, Good, Coverage, Stays
  <2> QED BY <1>1, <2>1, <2>2, PassedOver
<1>5. Typed'
  <2>1. evict' \in Seq(Conns) /\ use' \in [Conns -> Int]
    <3>1. evict \in Seq(Conns) /\ use \in [Conns -> Int]
      BY <1>2 DEF Typed
    <3>2. Append(evict, c) \in Seq(Conns)
      BY <1>2, <3>1, AppendProperties
    <3>3. [use EXCEPT ![c] = @ + 1] \in [Conns -> Int]
      BY <1>2, <3>1
    <3> QED BY <1>1, <3>1, <3>2, <3>3
  <2>2. node' \in Nat \ {0}
    BY <1>1, <1>2 DEF Typed
  <2> QED BY <1>1, <1>2, <2>1, <2>2 DEF Typed
<1>6. Control'
  <2>1. phase = "walk"
    BY <1>1 DEF Walking
  <2> QED BY <1>1, <2>1 DEF Good, Control
<1>7. Counted'
  <2> SUFFICES ASSUME NEW d \in Conns PROVE use'[d] = Tab(d)' + Count(evict', d) + Held(d)'
    BY DEF Counted
  <2>1. Held(d)' = Held(d) /\ Tab(d)' = Tab(d) /\ use[d] = Tab(d) + Count(evict, d) + Held(d)
    BY <1>1, SameTable DEF Held, Good, Counted
  <2>2. Tab(d) \in {0, 1} /\ Count(evict, d) \in Nat /\ Held(d) \in {0, 1, 2}
    BY HoldersCount
  <2>3. CASE evict' = Append(evict, c) /\ use' = [use EXCEPT ![c] = @ + 1]
    <3>1. Count(evict', d) = Count(evict, d) + (IF d = c THEN 1 ELSE 0)
      BY <1>2, <2>3, CountAppend DEF Typed
    <3>2. use'[d] = use[d] + (IF d = c THEN 1 ELSE 0)
      BY <1>2, <2>3 DEF Typed
    <3> QED BY <2>1, <2>2, <3>1, <3>2
  <2>4. CASE UNCHANGED <<evict, use>>
    BY <2>1, <2>4
  <2> QED BY <1>1, <2>3, <2>4
<1> QED BY <1>4, <1>5, <1>6, <1>7 DEF Good

LEMMA GoodVisitSkipped ==
  ASSUME Good, VisitSkipped
  PROVE  Good'
<1> USE DEF table, cursor, history
<1>1. /\ Walking /\ Skipped(Here) /\ node' = node + 1
      /\ UNCHANGED <<size, resizes, chain, expired, match, use, bucket, arg1, phase, last, evict,
                     room, filled, sent, stable, restarted, changes>>
  BY DEF VisitSkipped
<1>2. Typed /\ phase = "walk"
  BY <1>1 DEF Good, Walking
<1>3. Placed' /\ Cursor' /\ Coverage' /\ NoRepeat' /\ Idle'
  <2>1. ASSUME arg1 # None, Here = Orig(arg1) PROVE FALSE
    <3>1. arg1 \in Conns /\ arg1 \in SameNet /\ arg1 = last
      BY <1>2, <2>1 DEF Typed, Good, Cursor, Control
    <3> QED BY <1>1, <2>1, <3>1, NodeFacts DEF Skipped
  <2>2. ASSUME NEW d \in stable, arg1 = None, Here = Orig(d) PROVE FALSE
    <3>1. d \in Conns /\ d \in SameNet
      BY <1>2 DEF Typed, Good, Coverage, Stays, Wanted
    <3> QED BY <1>1, <2>2, <3>1, NodeFacts DEF Skipped
  <2> QED BY <1>1, <2>1, <2>2, PassedOver
<1>4. Typed'
  <2>1. node' \in Nat \ {0}
    BY <1>1, <1>2 DEF Typed
  <2> QED BY <1>1, <1>2, <2>1 DEF Typed
<1>5. Control'
  BY <1>1, <1>2 DEF Good, Control
<1>6. Counted'
  BY <1>1, SameTable DEF Good, Counted, Held
<1> QED BY <1>3, <1>4, <1>5, <1>6 DEF Good

\* The walk passes the entry it resumes at, or one that comes after it: from
\* here on the entries that were passed are the ones that are behind.
LEMMA Resumed ==
  ASSUME Good, Walking, node' = node + 1, arg1' = None,
         NEW d \in Conns, Here = Orig(d), d \notin expired, arg1 \in {None, d},
         UNCHANGED <<size, chain, expired, match, bucket, phase, last, stable, restarted>>
  PROVE  /\ Placed' /\ Cursor' /\ ~Gone(d) /\ Gone(d)'
         /\ \A e \in Conns : Gone(e) => Gone(e)'
         /\ \A e \in Conns : e # d /\ Ahead(e) => Ahead(e)'
         /\ \A e \in Conns : Stays(e) => Stays(e)'
<1>1. phase = "walk" /\ \A n : Passed(n)' <=> Passed(n) \/ n = Here
  BY Advance DEF Walking
<1>2. /\ On(Orig(d)) /\ Home(d) = bucket /\ ~Passed(Orig(d))
      /\ \A n : Passed(n) <=> Bef(n, Orig(d))
  BY AtHere DEF Home
<1>3. None \notin Conns /\ bucket \in Nat
  BY ConnsAssumption DEF Good, Typed
<1>4. arg1 # None => arg1 = d /\ Findable /\ last = d
  BY <1>1, <1>2 DEF Findable, Good, Control
<1>5. ~Findable'
  BY DEF Findable
<1>6. Placed'
  BY SameTable DEF Good
<1>7. Cursor'
  <2>1. CASE arg1 = None
    BY <1>1, <2>1, SameTable DEF Good, Cursor
  <2>2. CASE arg1 # None
    BY <1>1, <1>4, <2>2 DEF Cursor
  <2> QED BY <2>1, <2>2
<1>8. ~Gone(d)
  BY <1>2, <1>3, <1>4 DEF Gone
<1>9. Gone(d)'
  BY <1>1, <1>2, <1>5, SameTable DEF Gone
<1>10. ASSUME NEW e \in Conns, Gone(e) PROVE Gone(e)'
  <2>1. Home(e) = bucket => Passed(Orig(e)) \/ ~On(Orig(e))
    <3>1. CASE arg1 = None
      BY <1>3, <1>10, <3>1 DEF Gone
    <3>2. CASE arg1 # None
      BY <1>2, <1>3, <1>4, <1>10, <3>2 DEF Gone
    <3> QED BY <3>1, <3>2
  <2>2. ~On(Orig(e)) \/ Home(e) < bucket \/ (Home(e) = bucket /\ Passed(Orig(e)))
    BY <1>10, <2>1 DEF Gone
  <2> QED BY <1>1, <1>5, <2>2, SameTable DEF Gone
<1>11. ASSUME NEW e \in Conns, e # d, Ahead(e) PROVE Ahead(e)'
  <2>1. Orig(e) # Here
    BY <1>11, NodeFacts
  <2>2. Home(e) > bucket \/ (Home(e) = bucket /\ ~Passed(Orig(e)))
    BY <1>1, <1>2, <1>4, <1>11 DEF Ahead
  <2> QED BY <1>1, <1>5, <2>1, <2>2, SameTable DEF Ahead
<1>12. \A e \in Conns : Stays(e) => Stays(e)'
  BY SameTable DEF Stays, Wanted
<1> QED BY <1>6, <1>7, <1>8, <1>9, <1>10, <1>11, <1>12

\* The entry of a node that is not skipped.
LEMMA NotSkipped ==
  ASSUME Good, Walking, ~Skipped(Here)
  PROVE  /\ Here.ct \in Conns /\ Here.ct \in SameNet /\ Here = Orig(Here.ct)
         /\ arg1 \in {None, Here.ct}
<1>1. Here \in Nodes /\ phase = "walk"
  BY AtHere
<1>2. Here.ct \in Conns /\ Here.ct \in SameNet /\ Here = Orig(Here.ct)
  BY <1>1, NodeFacts DEF Skipped
<1>3. arg1 # None => arg1 = last /\ Here.ct = last
  BY <1>1 DEF Skipped, Good, Control
<1> QED BY <1>2, <1>3

LEMMA GoodVisitUnmatched ==
  ASSUME Good, VisitUnmatched
  PROVE  Good'
<1> USE DEF table, history
<1>0. Walking /\ ~Skipped(Here)
  BY DEF VisitUnmatched
<1>1. PICK c \in Conns : c = Here.ct /\ c \in SameNet /\ Here = Orig(c) /\ arg1 \in {None, c}
  BY <1>0, NotSkipped
<1>2. /\ Walking /\ c \notin expired /\ ~Skipped(Here) /\ c \notin match
      /\ arg1' = None /\ node' = node + 1
      /\ UNCHANGED <<size, resizes, chain, expired, match, use, bucket, phase, last, evict, room,
                     filled, sent, stable, restarted, changes>>
  BY <1>1 DEF VisitUnmatched
<1>3. Typed /\ phase = "walk"
  BY <1>2 DEF Good, Walking
<1>4. /\ Placed' /\ Cursor'
      /\ \A e \in Conns : Gone(e) => Gone(e)'
      /\ \A e \in Conns : e # c /\ Ahead(e) => Ahead(e)'
      /\ \A e \in Conns : Stays(e) => Stays(e)'
  BY <1>2, <1>1, Resumed
<1>5. Typed'
  <2>1. node' \in Nat \ {0}
    BY <1>2, <1>3 DEF Typed
  <2> QED BY <1>2, <1>3, <2>1 DEF Typed
<1>6. Control'
  BY <1>2, <1>3 DEF Good, Control
<1>7. Counted'
  BY <1>2, <1>3, SameTable DEF Good, Counted, Held
<1>8. Coverage'
  <2> SUFFICES ASSUME NEW e \in stable PROVE Stays(e)' /\ (sent'[e] = 0 => Ahead(e)')
    BY <1>2 DEF Coverage
  <2>1. e \in Conns /\ Stays(e) /\ (sent[e] = 0 => Ahead(e))
    BY <1>3 DEF Good, Typed, Coverage
  <2>2. e # c
    BY <1>2, <2>1 DEF Stays, Wanted
  <2> QED BY <1>2, <1>4, <2>1, <2>2
<1>9. NoRepeat' /\ Idle'
  BY <1>2, <1>3, <1>4 DEF Good, NoRepeat, Idle
<1> QED BY <1>4, <1>5, <1>6, <1>7, <1>8, <1>9 DEF Good

LEMMA GoodVisitReported ==
  ASSUME Good, VisitReported
  PROVE  Good'
<1> USE DEF table, history
<1>0. Walking /\ ~Skipped(Here)
  BY DEF VisitReported
<1>1. PICK c \in Conns : c = Here.ct /\ c \in SameNet /\ Here = Orig(c) /\ arg1 \in {None, c}
  BY <1>0, NotSkipped
<1>2. /\ Walking /\ c \notin expired /\ ~Skipped(Here) /\ c \in match /\ room > 0
      /\ arg1' = None /\ node' = node + 1 /\ room' = room - 1 /\ filled' = TRUE
      /\ sent' = [sent EXCEPT ![c] = @ + 1]
      /\ UNCHANGED <<size, resizes, chain, expired, match, use, bucket, phase, last, evict,
                     stable, restarted, changes>>
  BY <1>1 DEF VisitReported
<1>3. Typed /\ phase = "walk"
  BY <1>2 DEF Good, Walking
<1>4. /\ Placed' /\ Cursor' /\ ~Gone(c) /\ Gone(c)'
      /\ \A e \in Conns : Gone(e) => Gone(e)'
      /\ \A e \in Conns : e # c /\ Ahead(e) => Ahead(e)'
      /\ \A e \in Conns : Stays(e) => Stays(e)'
  BY <1>2, <1>1, Resumed
<1>5. /\ sent \in [Conns -> Nat] /\ sent' \in [Conns -> Nat] /\ sent'[c] = sent[c] + 1
      /\ \A e \in Conns : e # c => sent'[e] = sent[e]
  BY <1>2, <1>1, <1>3 DEF Typed
<1>6. Typed'
  <2>1. node' \in Nat \ {0}
    BY <1>2, <1>3 DEF Typed
  <2>2. room' \in 0..MaxRoom
    BY <1>2, <1>3, BoundsAssumption DEF Typed
  <2> QED BY <1>2, <1>3, <1>5, <2>1, <2>2 DEF Typed
<1>7. Control'
  BY <1>2, <1>3 DEF Good, Control
<1>8. Counted'
  BY <1>2, <1>3, SameTable DEF Good, Counted, Held
<1>9. Coverage'
  <2> SUFFICES ASSUME NEW e \in stable PROVE Stays(e)' /\ (sent'[e] = 0 => Ahead(e)')
    BY <1>2 DEF Coverage
  <2>1. e \in Conns /\ Stays(e) /\ (sent[e] = 0 => Ahead(e))
    BY <1>3 DEF Good, Typed, Coverage
  <2>2. sent'[e] = 0 => e # c /\ sent[e] = 0
    BY <1>1, <1>5, <2>1
  <2> QED BY <1>4, <2>1, <2>2
<1>10. NoRepeat'
  <2> SUFFICES ASSUME ~restarted, NEW e \in Conns, sent'[e] > 0 PROVE sent'[e] = 1 /\ Gone(e)'
    BY <1>2 DEF NoRepeat
  <2>1. sent[e] > 0 => sent[e] = 1 /\ Gone(e)
    BY DEF Good, NoRepeat
  <2>2. CASE e = c
    <3>1. sent[c] = 0
      <4>1. sent[c] \in Nat /\ ~(sent[c] > 0)
        BY <1>1, <1>4, <1>5, <2>1, <2>2
      <4> QED BY <4>1
    <3> QED BY <1>4, <1>5, <2>2, <3>1
  <2>3. CASE e # c
    BY <1>4, <1>5, <2>1, <2>3
  <2> QED BY <2>2, <2>3
<1>11. Idle'
  BY <1>2, <1>3 DEF Idle
<1> QED BY <1>4, <1>6, <1>7, <1>8, <1>9, <1>10, <1>11 DEF Good

\* An entry does not fit.  The buffer is not empty, so the entry to resume at
\* has been passed, and the next cursor is another entry.
LEMMA GoodVisitNoRoom ==
  ASSUME Good, VisitNoRoom
  PROVE  Good'
<1> USE DEF table, history
<1>0. Walking /\ ~Skipped(Here)
  BY DEF VisitNoRoom
<1>1. PICK c \in Conns : c = Here.ct /\ c \in SameNet /\ Here = Orig(c) /\ arg1 \in {None, c}
  BY <1>0, NotSkipped
<1>2. /\ Walking /\ c \notin expired /\ ~Skipped(Here) /\ room = 0
      /\ arg1' = c /\ phase' = "out" /\ use' = [use EXCEPT ![c] = @ + 1]
      /\ UNCHANGED <<size, resizes, chain, expired, match, bucket, last, evict, room, node, filled,
                     sent, stable, restarted, changes>>
  BY <1>1 DEF VisitNoRoom
<1>3. /\ phase = "walk" /\ On(Orig(c)) /\ Home(c) = bucket /\ ~Passed(Orig(c))
      /\ \A n : Passed(n) <=> Bef(n, Orig(c))
  BY <1>2, <1>1, AtHere DEF Home
<1>4. Typed /\ None \notin Conns /\ bucket < size /\ bucket \in Nat
  BY <1>3, ConnsAssumption, Walked DEF Good
<1>5. filled = TRUE /\ arg1 = None
  <2>1. filled \in BOOLEAN /\ ~(room > 0)
    BY <1>2, <1>4 DEF Typed
  <2> QED BY <1>3, <2>1 DEF Good, Control
<1>6. c # last
  <2>1. c # None
    BY <1>1, <1>4
  <2> QED BY <1>2, <1>3, <1>4, <1>5, <2>1 DEF Good, Cursor
<1>7. Typed'
  <2>1. use' \in [Conns -> Int]
    BY <1>2, <1>1, <1>4 DEF Typed
  <2> QED BY <1>2, <1>1, <1>4, <2>1 DEF Typed
<1>8. Placed' /\ Control'
  BY <1>2, <1>5, <1>6, SameTable DEF Good, Control
<1>9. Counted'
  <2> SUFFICES ASSUME NEW d \in Conns PROVE use'[d] = Tab(d)' + Count(evict', d) + Held(d)'
    BY DEF Counted
  <2>1. Tab(d)' = Tab(d) /\ evict' = evict /\ use[d] = Tab(d) + Count(evict, d) + Held(d)
    BY <1>2, SameTable DEF Good, Counted
  <2>2. Tab(d) \in {0, 1} /\ Count(evict, d) \in Nat /\ Held(d) \in {0, 1, 2}
    BY HoldersCount
  <2>3. CASE d = c
    <3>1. Held(d) = 0 /\ Held(d)' = 1
      BY <1>2, <1>3, <1>6, <2>3 DEF Held
    <3>2. use'[d] = use[d] + 1
      BY <1>2, <1>1, <1>4, <2>3 DEF Typed
    <3> QED BY <2>1, <2>2, <3>1, <3>2
  <2>4. CASE d # c
    <3>1. Held(d)' = Held(d)
      BY <1>2, <1>3, <2>4 DEF Held
    <3>2. use'[d] = use[d]
      BY <1>2, <1>1, <1>4, <2>4 DEF Typed
    <3> QED BY <2>1, <3>1, <3>2
  <2> QED BY <2>3, <2>4
<1>10. Cursor'
  <2>1. Home(arg1)' = Home(c)
    BY <1>2 DEF Home
  <2> QED BY <1>2, <1>1, <1>3, <1>4, <2>1 DEF Cursor
<1>11. Coverage'
  <2> SUFFICES ASSUME NEW e \in stable PROVE Stays(e)' /\ (sent[e] = 0 => Ahead(e)')
    BY <1>2 DEF Coverage
  <2>1. e \in Conns /\ Stays(e) /\ (sent[e] = 0 => Ahead(e))
    BY <1>4 DEF Good, Typed, Coverage
  <2>2. Stays(e)'
    BY <1>2, <2>1, SameTable DEF Stays, Wanted
  <2>3. ASSUME Ahead(e) PROVE Ahead(e)'
    <3>1. Home(e) > bucket \/ (Home(e) = bucket /\ ~Bef(Orig(e), Orig(c)))
      BY <1>3, <1>5, <2>3 DEF Ahead
    <3>2. ~Bef(Orig(e), Orig(c)) => ~Bef(Orig(e), Orig(arg1))'
      BY <1>2 DEF Bef, BefIn
    <3> QED BY <1>2, <3>1, <3>2, SameTable DEF Ahead
  <2> QED BY <2>1, <2>2, <2>3
<1>12. NoRepeat'
  <2> SUFFICES ASSUME ~restarted, NEW e \in Conns, sent[e] > 0 PROVE sent[e] = 1 /\ Gone(e)'
    BY <1>2 DEF NoRepeat
  <2>1. sent[e] = 1 /\ Gone(e)
    BY DEF Good, NoRepeat
  <2>2. ~On(Orig(e)) \/ Home(e) < bucket \/ (Home(e) = bucket /\ Bef(Orig(e), Orig(c)))
    BY <1>3, <1>5, <2>1 DEF Gone
  <2>3. Bef(Orig(e), Orig(c)) => Bef(Orig(e), Orig(arg1))'
    BY <1>2 DEF Bef, BefIn
  <2>4. arg1' # None
    BY <1>2, <1>1, <1>4
  <2> QED BY <1>2, <2>1, <2>2, <2>3, <2>4, SameTable DEF Gone
<1>13. Idle'
  BY <1>2 DEF Idle
<1> QED BY <1>7, <1>8, <1>9, <1>10, <1>11, <1>12, <1>13 DEF Good

\* The end of the chain.  If the entry to resume at was not passed, it is not in
\* the table; if there is none to look for, the bucket is done.
LEMMA GoodUnlockBucket ==
  ASSUME Good, UnlockBucket
  PROVE  Good'
<1> USE DEF table
<1>1. /\ phase = "walk" /\ node > Len(chain[bucket]) /\ phase' \in {"loop", "restart"} /\ arg1' = None
      /\ \/ arg1 # None /\ restarted' = TRUE /\ bucket' = bucket
         \/ arg1 = None /\ restarted' = restarted /\ bucket' = bucket + 1
      /\ UNCHANGED <<size, resizes, chain, expired, match, use, last, evict, room, node, filled,
                     sent, stable, changes>>
  BY DEF UnlockBucket
<1>2. Typed /\ bucket \in Nat /\ None \notin Conns
  BY ConnsAssumption DEF Good, Typed
<1>3. \A c \in Conns : Passed(Orig(c)) <=> On(Orig(c)) /\ Home(c) = bucket
  BY <1>1, AtEnd
<1>4. \A c \in Conns : Home(c) \in Nat
  BY <1>2, Buckets, NodeFacts DEF Home, Typed
<1>5. Typed'
  <2>1. bucket' \in Nat
    BY <1>1, <1>2
  <2>2. restarted' \in BOOLEAN
    BY <1>1, <1>2, Zenon DEF Typed
  <2> QED BY <1>1, <1>2, <2>1, <2>2 DEF Typed
<1>6. Placed' /\ Control'
  BY <1>1, SameTable DEF Good, Control
<1>7. Counted'
  BY <1>1, SameTable DEF Good, Counted, Held
<1>8. Cursor'
  <2> SUFFICES ASSUME last # None, last \notin expired, On(Orig(last)) PROVE Home(last) < bucket'
    BY <1>1, SameTable DEF Cursor
  <2>1. last \in Conns /\ Home(last) \in Nat
    BY <1>2, <1>4 DEF Typed
  <2>2. CASE arg1 # None
    <3>1. arg1 = last /\ Home(last) = bucket
      BY <1>1, <2>2 DEF Good, Control, Cursor
    <3>2. Passed(Orig(last))
      BY <1>3, <2>1, <3>1
    <3> QED BY <1>1, <2>2, <3>1, <3>2 DEF Good, Cursor
  <2>3. CASE arg1 = None
    <3>1. Home(last) < bucket \/ Passed(Orig(last))
      BY <1>1, <2>3 DEF Good, Cursor
    <3>2. Home(last) <= bucket
      BY <1>2, <1>3, <2>1, <3>1
    <3> QED BY <1>1, <1>2, <2>1, <2>3, <3>2
  <2> QED BY <2>2, <2>3
<1>9. ~Findable'
  BY <1>1 DEF Findable
<1>10. Coverage'
  <2> SUFFICES ASSUME NEW c \in stable PROVE Stays(c)' /\ (sent[c] = 0 => Ahead(c)')
    BY <1>1 DEF Coverage
  <2>1. c \in Conns /\ Stays(c) /\ (sent[c] = 0 => Ahead(c))
    BY <1>2 DEF Good, Typed, Coverage
  <2>2. Stays(c)'
    BY <1>1, <2>1, SameTable DEF Stays, Wanted
  <2>3. ASSUME Ahead(c) PROVE Home(c) >= bucket'
    <3>1. CASE arg1 # None
      BY <1>1, <1>2, <1>4, <2>1, <2>3, <3>1 DEF Ahead
    <3>2. CASE arg1 = None
      <4>1. Home(c) > bucket
        BY <1>1, <1>3, <2>1, <2>3, <3>2 DEF Ahead, Stays
      <4> QED BY <1>1, <1>2, <1>4, <2>1, <3>2, <4>1
    <3> QED BY <3>1, <3>2
  <2>4. ASSUME Home(c) >= bucket' PROVE Ahead(c)'
    <3>1. Home(c) > bucket' \/ Home(c) = bucket'
      BY <1>1, <1>2, <1>4, <2>1, <2>4
    <3> QED BY <1>1, <1>9, <3>1, SameTable DEF Ahead
  <2> QED BY <2>1, <2>2, <2>3, <2>4
<1>11. NoRepeat'
  <2> SUFFICES ASSUME ~restarted', NEW c \in Conns, sent[c] > 0 PROVE sent[c] = 1 /\ Gone(c)'
    BY <1>1 DEF NoRepeat
  <2>1. arg1 = None /\ ~restarted /\ bucket' = bucket + 1
    BY <1>1
  <2>2. sent[c] = 1 /\ Gone(c)
    BY <2>1 DEF Good, NoRepeat
  <2>3. ~On(Orig(c)) \/ Home(c) < bucket \/ Home(c) = bucket
    BY <2>2 DEF Gone
  <2>4. ~On(Orig(c)) \/ Home(c) < bucket'
    BY <1>2, <1>4, <2>1, <2>3
  <2> QED BY <1>1, <2>2, <2>4, SameTable DEF Gone
<1>12. Idle'
  BY <1>1 DEF Idle
<1> QED BY <1>5, <1>6, <1>7, <1>8, <1>10, <1>11, <1>12 DEF Good

\* A step outside the walk that keeps the cursor and the table.
LEMMA CursorKept ==
  ASSUME Good, phase \notin {"loop", "restart", "walk"}, phase' \notin {"loop", "restart", "walk"},
         UNCHANGED <<size, chain, expired, match, bucket, arg1, sent, stable, restarted>>
  PROVE  Placed' /\ Cursor' /\ Coverage' /\ NoRepeat'
<1>1. Findable' <=> Findable
  BY SameTable DEF Findable
<1>2. Placed' /\ Cursor'
  BY SameTable DEF Good, Cursor
<1>3. \A c : Stays(c) => Stays(c)'
  BY SameTable DEF Stays, Wanted
<1>4. \A c : Ahead(c) => Ahead(c)'
  BY <1>1, SameTable DEF Ahead
<1>5. \A c : Gone(c) => Gone(c)'
  BY <1>1, SameTable DEF Gone
<1> QED BY <1>2, <1>3, <1>4, <1>5 DEF Good, Coverage, NoRepeat

\* The reference of the previous callback is dropped; the next cursor is another
\* entry, so it is kept.
LEMMA GoodPutLast ==
  ASSUME Good, PutLast
  PROVE  Good'
<1> USE DEF table, history
<1>1. Typed /\ Control /\ phase = "out" /\ None \notin Conns
  BY ConnsAssumption DEF Good, PutLast
<1>2. last # None => arg1 # last
  BY <1>1 DEF Control
<1>3. /\ phase' = "return" /\ last' = None /\ arg1' = arg1
      /\ use' = IF last # None THEN [use EXCEPT ![last] = @ - 1] ELSE use
      /\ UNCHANGED <<size, resizes, chain, expired, match, bucket, evict, room, node, filled, sent,
                     stable, restarted, changes>>
  BY <1>2 DEF PutLast
<1>4. Typed'
  <2>1. use' \in [Conns -> Int]
    BY <1>1, <1>3 DEF Typed
  <2> QED BY <1>1, <1>3, <2>1 DEF Typed
<1>5. Control'
  BY <1>1, <1>3 DEF Control
<1>6. Counted'
  <2> SUFFICES ASSUME NEW c \in Conns PROVE use'[c] = Tab(c)' + Count(evict', c) + Held(c)'
    BY DEF Counted
  <2>1. Tab(c)' = Tab(c) /\ evict' = evict /\ use[c] = Tab(c) + Count(evict, c) + Held(c)
    BY <1>3, SameTable DEF Good, Counted
  <2>2. Tab(c) \in {0, 1} /\ Count(evict, c) \in Nat /\ Held(c) \in {0, 1, 2}
    BY HoldersCount
  <2>3. Held(c)' = Held(c) - (IF last = c THEN 1 ELSE 0)
    BY <1>1, <1>3 DEF Held
  <2>4. use'[c] = use[c] - (IF last = c THEN 1 ELSE 0)
    <3>1. CASE last = None
      BY <1>1, <1>3, <3>1 DEF Typed
    <3>2. CASE last # None
      BY <1>1, <1>3, <3>2 DEF Typed
    <3> QED BY <3>1, <3>2
  <2> QED BY <2>1, <2>2, <2>3, <2>4
<1>7. Placed' /\ Cursor' /\ Coverage' /\ NoRepeat'
  BY <1>1, <1>3, CursorKept
<1>8. Idle'
  BY <1>3 DEF Idle
<1> QED BY <1>4, <1>5, <1>6, <1>7, <1>8 DEF Good

LEMMA GoodReturn ==
  ASSUME Good, Return
  PROVE  Good'
<1> USE DEF table, cursor, history
<1>1. /\ phase = "return" /\ evict = <<>> /\ phase' = IF filled THEN "between" ELSE "complete"
      /\ UNCHANGED <<size, resizes, chain, expired, match, use, bucket, arg1, last, evict, room,
                     node, filled, sent, stable, restarted, changes>>
  BY DEF Return
<1>2. Typed /\ Control
  BY DEF Good
<1>3. phase' \in {"between", "complete"} /\ (phase' = "complete" => ~filled)
  BY <1>1
<1>4. Typed'
  BY <1>1, <1>2, <1>3 DEF Typed
<1>5. Control'
  BY <1>1, <1>2, <1>3 DEF Control
<1>6. Counted'
  <2>1. \A c \in Conns : Held(c)' = Held(c)
    BY <1>1, <1>3 DEF Held
  <2> QED BY <1>1, <2>1, SameTable DEF Good, Counted
<1>7. Placed' /\ Cursor' /\ Coverage' /\ NoRepeat'
  BY <1>1, <1>3, CursorKept
<1>8. Idle'
  BY <1>3 DEF Idle
<1> QED BY <1>4, <1>5, <1>6, <1>7, <1>8 DEF Good

LEMMA GoodDone ==
  ASSUME Good, ctnetlink_done
  PROVE  Good'
<1> USE DEF table
<1>1. /\ phase \in {"between", "complete"} /\ phase' = "idle"
      /\ use' = IF arg1 # None THEN [use EXCEPT ![arg1] = @ - 1] ELSE use
      /\ arg1' = None /\ bucket' = 0 /\ sent' = [c \in Conns |-> 0] /\ stable' = {}
      /\ restarted' = FALSE /\ changes' = 0 /\ room' = 0 /\ node' = 1 /\ filled' = FALSE
      /\ UNCHANGED <<size, resizes, chain, expired, match, last, evict>>
  BY DEF ctnetlink_done
<1>2. Typed /\ Control /\ None \notin Conns
  BY ConnsAssumption DEF Good
<1>3. last = None /\ evict = <<>>
  BY <1>1, <1>2 DEF Control
<1>4. Typed'
  <2>1. use' \in [Conns -> Int] /\ sent' \in [Conns -> Nat]
    BY <1>1, <1>2 DEF Typed
  <2>2. room' \in 0..MaxRoom /\ changes' \in 0..MaxChanges
    BY <1>1, BoundsAssumption
  <2>3. node' \in Nat \ {0} /\ bucket' \in Nat
    BY <1>1
  <2>4. filled' \in BOOLEAN /\ restarted' \in BOOLEAN /\ stable' \subseteq Conns
    BY <1>1, Zenon
  <2> QED BY <1>1, <1>2, <2>1, <2>2, <2>3, <2>4 DEF Typed
<1>5. Placed' /\ Control'
  BY <1>1, <1>3, SameTable DEF Good, Control
<1>6. Counted'
  <2> SUFFICES ASSUME NEW c \in Conns PROVE use'[c] = Tab(c)' + Count(evict', c) + Held(c)'
    BY DEF Counted
  <2>1. Tab(c)' = Tab(c) /\ evict' = evict /\ use[c] = Tab(c) + Count(evict, c) + Held(c)
    BY <1>1, SameTable DEF Good, Counted
  <2>2. Tab(c) \in {0, 1} /\ Count(evict, c) \in Nat
    BY HoldersCount
  <2>3. Held(c)' = 0 /\ Held(c) = IF arg1 = c THEN 1 ELSE 0
    BY <1>1, <1>2, <1>3 DEF Held
  <2>4. use'[c] = use[c] - (IF arg1 = c THEN 1 ELSE 0)
    <3>1. CASE arg1 = None
      BY <1>1, <1>2, <3>1 DEF Typed
    <3>2. CASE arg1 # None
      BY <1>1, <1>2, <3>2 DEF Typed
    <3> QED BY <3>1, <3>2
  <2> QED BY <2>1, <2>2, <2>3, <2>4
<1>7. Cursor' /\ Coverage' /\ Idle'
  BY <1>1 DEF Cursor, Coverage, Idle
<1>8. NoRepeat'
  BY <1>1 DEF NoRepeat
<1> QED BY <1>4, <1>5, <1>6, <1>7, <1>8 DEF Good

-----------------------------------------------------------------------------
(* The theorems.                                                           *)

LEMMA GoodInit == Init => Good
<1> SUFFICES ASSUME Init PROVE Good
  OBVIOUS
<1> USE DEF Init
<1>1. \A b \in AllBuckets : chain[b] = <<>> /\ \A x : ~In(chain[b], x)
  BY DEF In
<1>2. \A n : ~On(n)
  BY <1>1 DEF On, OnIn
<1>3. Typed
  <2>1. room \in 0..MaxRoom /\ changes \in 0..MaxChanges
    BY BoundsAssumption
  <2>2. evict \in Seq(Conns) /\ match \subseteq Conns
    BY FilterAssumption
  <2>3. filled \in BOOLEAN /\ restarted \in BOOLEAN
    BY Zenon
  <2>4. use \in [Conns -> Int] /\ sent \in [Conns -> Nat] /\ node \in Nat \ {0}
    OBVIOUS
  <2> QED BY <2>1, <2>2, <2>3, <2>4 DEF Typed
<1>4. Placed
  <2>1. chain \in [AllBuckets -> Seq(Nodes)]
    OBVIOUS
  <2>2. \A b \in AllBuckets : Distinct(chain[b])
    BY <1>1 DEF Distinct
  <2> QED BY <1>1, <1>2, <2>1, <2>2 DEF Placed, PlacedIn, On
<1>5. Control /\ Cursor /\ Coverage /\ NoRepeat /\ Idle
  BY DEF Control, Cursor, Coverage, NoRepeat, Idle
<1>6. Counted
  <2> SUFFICES ASSUME NEW c \in Conns PROVE use[c] = Tab(c) + Count(evict, c) + Held(c)
    BY DEF Counted
  <2>1. Count(evict, c) = 0
    BY <1>3, CountFacts DEF Typed
  <2>2. Tab(c) = 0 /\ Held(c) = 0
    BY <1>2, ConnsAssumption DEF Tab, Held
  <2> QED BY <2>1, <2>2
<1> QED BY <1>3, <1>4, <1>5, <1>6 DEF Good

LEMMA GoodNext ==
  ASSUME Good, [Next]_vars, resizes' = 0
  PROVE  Good'
<1>1. ASSUME NEW c \in Conns, Insert(c) \/ Delete(c) \/ Expire(c) \/ Remark(c) PROVE Good'
  BY <1>1, GoodInsert, GoodDelete, GoodExpire
<1>2. ASSUME NEW s \in Sizes, Resize(s) PROVE FALSE
  BY <1>2 DEF Resize, Good, Typed
<1>3. CASE ctnetlink_start
  BY <1>3, GoodStart
<1>4. ASSUME NEW r \in 1..MaxRoom, Callback(r) PROVE Good'
  BY <1>4, GoodCallback
<1>5. CASE KillEvicted
  BY <1>5, GoodKill
<1>6. CASE ForBucket \/ LockBucket
  BY <1>6, GoodLockBucket
<1>7. CASE VisitExpired \/ VisitSkipped \/ VisitUnmatched \/ VisitReported \/ VisitNoRoom
  BY <1>7, GoodVisitExpired, GoodVisitSkipped, GoodVisitUnmatched, GoodVisitReported, GoodVisitNoRoom
<1>8. CASE UnlockBucket
  BY <1>8, GoodUnlockBucket
<1>9. CASE PutLast \/ Return
  BY <1>9, GoodPutLast, GoodReturn
<1>10. CASE ctnetlink_done
  BY <1>10, GoodDone
<1>11. CASE UNCHANGED vars
  <2> USE <1>11 DEF vars, table, cursor, callback, history
  <2>1. \A n : Passed(n)' <=> Passed(n)
    BY DEF Passed
  <2>2. Typed' /\ Placed' /\ Control'
    BY SameTable DEF Good, Typed, Control
  <2>3. Counted'
    BY SameTable DEF Good, Counted, Held
  <2>4. Cursor'
    BY <2>1, SameTable DEF Good, Cursor
  <2>5. Findable' <=> Findable
    BY SameTable DEF Findable
  <2>6. \A c : /\ Stays(c) => Stays(c)'
               /\ Ahead(c) => Ahead(c)'
               /\ Gone(c) => Gone(c)'
    BY <2>1, <2>5, SameTable DEF Stays, Wanted, Ahead, Gone
  <2>7. Coverage' /\ NoRepeat' /\ Idle'
    BY <2>6 DEF Good, Coverage, NoRepeat, Idle
  <2> QED BY <2>2, <2>3, <2>4, <2>7 DEF Good
<1> QED BY <1>1, <1>2, <1>3, <1>4, <1>5, <1>6, <1>7, <1>8, <1>9, <1>10, <1>11 DEF Next, Dump

LEMMA ResizesGrow ==
  ASSUME resizes \in Nat, [Next]_vars
  PROVE  resizes' \in Nat /\ (resizes' = 0 => resizes = 0)
<1>1. resizes' = resizes \/ resizes' = resizes + 1
  BY DEF Next, Dump, Insert, Delete, Expire, Remark, Resize, ctnetlink_start, Callback, ForBucket, KillEvicted,
         LockBucket, VisitExpired, VisitSkipped, VisitUnmatched, VisitReported, VisitNoRoom,
         UnlockBucket, PutLast, Return, ctnetlink_done, vars, table
<1> QED BY <1>1

LEMMA Invariance == Spec => []DumpInv
<1>1. Init => DumpInv
  BY GoodInit DEF DumpInv, Init
<1>2. DumpInv /\ [Next]_vars => DumpInv'
  BY GoodNext, ResizesGrow DEF DumpInv
<1> QED BY <1>1, <1>2, PTL DEF Spec

\* Until the table is resized every variable has its type; in particular no
\* reference count of an entry goes below zero.
THEOREM Typing == Spec => [](resizes = 0 => TypeOK)
<1>1. ASSUME DumpInv, resizes = 0 PROVE TypeOK
  <2>1. Good /\ Typed
    BY <1>1 DEF DumpInv, Good
  <2>2. use \in [Conns -> Nat]
    <3>1. \A c \in Conns : use[c] \in Nat
      BY <2>1, HoldersCount DEF Good, Counted
    <3> QED BY <2>1, <3>1 DEF Typed
  <2>3. DOMAIN chain = AllBuckets /\ \A b \in AllBuckets : Range(chain[b]) \subseteq Nodes
    BY <2>1 DEF Good, Placed, PlacedIn, Range
  <2>4. Range(evict) \subseteq Conns
    BY <2>1 DEF Typed, Range
  <2>5. resizes \in 0..MaxResizes
    BY <1>1, BoundsAssumption
  <2> QED BY <2>1, <2>2, <2>3, <2>4, <2>5 DEF TypeOK, Typed
<1> QED BY <1>1, Invariance, PTL

\* Until the table is resized every reference to an entry is accounted for by
\* the table, a deferred eviction, the callback or the cursor, and the entries
\* that a dump points to are not freed: the references that ctnetlink_dump_table
\* takes for its cursor and its evictions, and those that it drops.
THEOREM References == Spec => [](resizes = 0 => RefsBalanced)
<1>1. ASSUME DumpInv, resizes = 0 PROVE RefsBalanced
  <2>1. Good /\ Typed /\ None \notin Conns
    BY <1>1, ConnsAssumption DEF DumpInv, Good
  <2>2. Balanced
    <3> SUFFICES ASSUME NEW c \in Conns
                 PROVE  use[c] = (IF InTable(c) THEN 1 ELSE 0) + Count(evict, c)
                          + (IF last = c THEN 1 ELSE 0)
                          + (IF arg1 = c /\ phase \notin {"loop", "restart", "walk"} /\ ~(phase = "out" /\ arg1 = last)
                               THEN 1 ELSE 0)
      BY DEF Balanced
    <3>1. phase = "out" /\ arg1 = c => arg1 # last
      BY <2>1 DEF Good, Control
    <3>2. Tab(c) = IF InTable(c) THEN 1 ELSE 0
      BY <2>1, InTableCounted DEF Tab
    <3>3. use[c] = Tab(c) + Count(evict, c) + Held(c)
      BY <2>1 DEF Good, Counted
    <3>4. Count(evict, c) \in Nat
      BY <2>1, HoldersCount
    <3> QED BY <3>1, <3>2, <3>3, <3>4 DEF Held
  <2>3. PointersAlive
    <3> SUFFICES ASSUME NEW c \in {last, arg1} \cup Range(evict), c # None PROVE use[c] > 0
      BY DEF PointersAlive
    <3>1. c \in Conns
      BY <2>1 DEF Typed, Range
    <3>2. use[c] = Tab(c) + Count(evict, c) + Held(c)
      BY <2>1, <3>1 DEF Good, Counted
    <3>3. Tab(c) \in {0, 1} /\ Count(evict, c) \in Nat /\ Held(c) \in {0, 1, 2}
      BY <2>1, <3>1, HoldersCount
    <3>4. CASE c = last \/ c = arg1
      <4>1. c = last \/ phase \notin {"loop", "restart", "walk"}
        BY <2>1, <3>4 DEF Good, Control
      <4>2. Held(c) > 0
        BY <3>4, <4>1 DEF Held
      <4> QED BY <3>2, <3>3, <4>2
    <3>5. CASE c \in Range(evict)
      <4>1. In(evict, c)
        BY <2>1, <3>5 DEF In, Range, Typed
      <4>2. Count(evict, c) > 0
        BY <2>1, <4>1, CountFacts DEF Typed
      <4> QED BY <3>2, <3>3, <4>2
    <3> QED BY <3>4, <3>5
  <2> QED BY <2>2, <2>3 DEF RefsBalanced
<1> QED BY <1>1, Invariance, PTL

\* As long as the table keeps its size, a complete dump reports every entry that
\* was there all along, and only a bucket that is walked again makes it report
\* an entry twice: ctnetlink_dump_table resumes exactly where it stopped.
THEOREM Reported == Spec => []ReportedOnce
<1>1. ASSUME DumpInv PROVE ReportedOnce
  <2> SUFFICES ASSUME resizes = 0
               PROVE  /\ phase = "complete" => \A c \in stable : sent[c] > 0
                      /\ ~restarted => \A c \in Conns : sent[c] <= 1
    BY DEF ReportedOnce
  <2>1. Good /\ Typed
    BY <1>1 DEF DumpInv, Good
  <2>2. ASSUME phase = "complete", NEW c \in stable PROVE sent[c] > 0
    <3>1. c \in Conns /\ sent[c] \in Nat /\ (sent[c] = 0 => Ahead(c))
      BY <2>1 DEF Good, Coverage, Typed
    <3>2. bucket >= size
      BY <2>1, <2>2 DEF Good, Control
    <3>3. Home(c) \in Nat /\ Home(c) < size /\ size \in Nat /\ bucket \in Nat
      BY <2>1, <3>1, Buckets, NodeFacts DEF Home, Typed
    <3>4. ~Ahead(c)
      BY <3>2, <3>3 DEF Ahead
    <3> QED BY <3>1, <3>4
  <2>3. ASSUME ~restarted, NEW c \in Conns PROVE sent[c] <= 1
    <3>1. sent[c] \in Nat /\ (sent[c] > 0 => sent[c] = 1)
      BY <2>1, <2>3 DEF Good, NoRepeat, Typed
    <3> QED BY <3>1
  <2> QED BY <2>2, <2>3
<1> QED BY <1>1, Invariance, PTL
=============================================================================
