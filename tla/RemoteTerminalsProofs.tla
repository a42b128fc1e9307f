------------------------ MODULE RemoteTerminalsProofs ------------------------
(* Theorems about RemoteTerminals, for any hosts, numbers of terminals,      *)
(* attachments and incarnations, and any cap of the store of ends.           *)
EXTENDS RemoteTerminals, SequenceTheorems, FiniteSetTheorems,
        WellFoundedInduction, TLAPS

-----------------------------------------------------------------------------
(* What retain leaves.  The prover has no induction over a list: a least     *)
(* prefix for which a fact fails takes its place.                            *)

LEMMA LeastNat ==
  ASSUME NEW S \in SUBSET Nat, S # {}
  PROVE  \E m \in S : \A n \in S : m <= n
<1> DEFINE R == OpToRel(<, Nat)
<1>1. PICK m \in S : \A n \in S : ~(<<n, m>> \in R)
  <2> HIDE DEF R
  <2>1. IsWellFoundedOn(R, Nat)
    BY NatLessThanWellFounded DEF R
  <2> QED BY <2>1, WFMin
<1>2. \A n \in S : ~(n < m)
  BY <1>1 DEF OpToRel
<1> QED BY <1>2

IsUpTo(f, q, gone, m) ==
  f = [n \in 0..m |->
         IF n = 0 THEN <<>>
         ELSE IF q[n] \in gone THEN f[n - 1] ELSE Append(f[n - 1], q[n])]

LEMMA UpToExists ==
  ASSUME NEW q, NEW gone, NEW m \in Nat
  PROVE  \E f : IsUpTo(f, q, gone, m)
<1> DEFINE T == {n \in Nat : ~\E f : IsUpTo(f, q, gone, n)}
<1>1. SUFFICES ASSUME T # {} PROVE FALSE
  OBVIOUS
<1>2. PICK n \in T : \A k \in T : n <= k
  <2> HIDE DEF T
  <2>1. T \in SUBSET Nat
    BY DEF T
  <2> QED BY <1>1, <2>1, LeastNat
<1>3. n \in Nat /\ ~\E f : IsUpTo(f, q, gone, n)
  OBVIOUS
<1>4. n # 0
  <2>1. IsUpTo([k \in 0..0 |-> <<>>], q, gone, 0)
    BY DEF IsUpTo
  <2> QED BY <1>3, <2>1
<1>5. n - 1 \in Nat /\ n - 1 \notin T
  <2>1. n - 1 \in Nat /\ ~(n <= n - 1)
    BY <1>3, <1>4
  <2> QED BY <1>2, <2>1
<1>6. PICK f : IsUpTo(f, q, gone, n - 1)
  BY <1>5
<1> DEFINE new == IF q[n] \in gone THEN f[n - 1] ELSE Append(f[n - 1], q[n])
           g == [k \in 0..n |-> IF k = n THEN new ELSE f[k]]
<1>7. \A k \in 0..n : g[k] =
        IF k = 0 THEN <<>>
        ELSE IF q[k] \in gone THEN g[k - 1] ELSE Append(g[k - 1], q[k])
  <2> SUFFICES ASSUME NEW k \in 0..n
               PROVE  g[k] =
                 IF k = 0 THEN <<>>
                 ELSE IF q[k] \in gone THEN g[k - 1] ELSE Append(g[k - 1], q[k])
    OBVIOUS
  <2>1. k # 0 => k - 1 \in 0..n /\ k - 1 # n /\ g[k - 1] = f[k - 1]
    BY <1>3
  <2>2. CASE k = n
    BY <1>4, <2>1, <2>2
  <2>3. CASE k # n
    <3>1. k \in 0..(n - 1) /\ g[k] = f[k]
      BY <1>3, <2>3
    <3>2. f[k] = IF k = 0 THEN <<>>
                 ELSE IF q[k] \in gone THEN f[k - 1] ELSE Append(f[k - 1], q[k])
      BY <1>6, <3>1 DEF IsUpTo
    <3> QED BY <2>1, <3>1, <3>2
  <2> QED BY <2>2, <2>3
<1>8. IsUpTo(g, q, gone, n)
  <2>1. g = [k \in 0..n |-> g[k]]
    OBVIOUS
  <2> HIDE DEF g
  <2> QED BY <1>7, <2>1 DEF IsUpTo
<1> QED BY <1>3, <1>8

(* r is what is left of the first n of q.                                    *)
LeftOf(r, q, gone, n, S) ==
  /\ r \in Seq(S) /\ Len(r) <= n
  /\ \A k \in DOMAIN r : r[k] \notin gone /\ \E l \in 1..n : q[l] = r[k]
  /\ \A l \in 1..n : q[l] \notin gone => \E k \in DOMAIN r : r[k] = q[l]
  /\ \A a, b \in DOMAIN r :
       a < b => \E k, l \in 1..n : k < l /\ q[k] = r[a] /\ q[l] = r[b]

LEMMA LeftOfNext ==
  ASSUME NEW S, NEW q \in Seq(S), NEW gone, NEW n \in 1..Len(q), NEW r,
         LeftOf(r, q, gone, n - 1, S)
  PROVE  LeftOf(IF q[n] \in gone THEN r ELSE Append(r, q[n]), q, gone, n, S)
<1>1. CASE q[n] \in gone
  <2>1. \A l \in 1..n : l = n \/ l \in 1..(n - 1)
    OBVIOUS
  <2>2. LeftOf(r, q, gone, n, S)
    BY <1>1, <2>1 DEF LeftOf
  <2> QED BY <1>1, <2>2
<1>2. CASE q[n] \notin gone
  <2>1. PICK s : s = Append(r, q[n])
    OBVIOUS
  <2>2. r \in Seq(S) /\ q[n] \in S /\ Len(r) \in Nat /\ Len(r) <= n - 1
    BY DEF LeftOf
  <2>3. /\ s \in Seq(S) /\ Len(s) = Len(r) + 1 /\ DOMAIN s = 1..(Len(r) + 1)
        /\ DOMAIN r = 1..Len(r)
        /\ s[Len(r) + 1] = q[n] /\ \A k \in 1..Len(r) : s[k] = r[k]
    BY <2>1, <2>2, AppendProperties
  <2>4. \A k \in DOMAIN s : s[k] \notin gone /\ \E l \in 1..n : q[l] = s[k]
    <3> SUFFICES ASSUME NEW k \in DOMAIN s
                 PROVE  s[k] \notin gone /\ \E l \in 1..n : q[l] = s[k]
      OBVIOUS
    <3>1. CASE k = Len(r) + 1
      BY <1>2, <2>3, <3>1
    <3>2. CASE k # Len(r) + 1
      <4>1. k \in DOMAIN r /\ s[k] = r[k]
        BY <2>2, <2>3, <3>2
      <4> QED BY <4>1 DEF LeftOf
    <3> QED BY <3>1, <3>2
  <2>5. \A l \in 1..n : q[l] \notin gone => \E k \in DOMAIN s : s[k] = q[l]
    <3> SUFFICES ASSUME NEW l \in 1..n, q[l] \notin gone
                 PROVE  \E k \in DOMAIN s : s[k] = q[l]
      OBVIOUS
    <3>1. CASE l = n
      BY <2>2, <2>3, <3>1
    <3>2. CASE l # n
      <4>1. PICK k \in DOMAIN r : r[k] = q[l]
        BY <3>2 DEF LeftOf
      <4> QED BY <2>2, <2>3, <4>1
    <3> QED BY <3>1, <3>2
  <2>6. \A a, b \in DOMAIN s :
          a < b => \E k, l \in 1..n : k < l /\ q[k] = s[a] /\ q[l] = s[b]
    <3> SUFFICES ASSUME NEW a \in DOMAIN s, NEW b \in DOMAIN s, a < b
                 PROVE  \E k, l \in 1..n : k < l /\ q[k] = s[a] /\ q[l] = s[b]
      OBVIOUS
    <3>1. a \in DOMAIN r /\ s[a] = r[a]
      BY <2>2, <2>3
    <3>2. CASE b = Len(r) + 1
      <4>1. PICK k \in 1..(n - 1) : q[k] = r[a]
        BY <3>1 DEF LeftOf
      <4>2. k \in 1..n /\ n \in 1..n /\ k < n
        OBVIOUS
      <4> QED BY <2>3, <3>1, <3>2, <4>1, <4>2
    <3>3. CASE b # Len(r) + 1
      <4>1. b \in DOMAIN r /\ s[b] = r[b]
        BY <2>2, <2>3, <3>3
      <4>2. PICK k, l \in 1..(n - 1) : k < l /\ q[k] = r[a] /\ q[l] = r[b]
        BY <3>1, <4>1 DEF LeftOf
      <4>3. k \in 1..n /\ l \in 1..n
        OBVIOUS
      <4> QED BY <3>1, <4>1, <4>2, <4>3
    <3> QED BY <3>2, <3>3
  <2>7. Len(s) <= n
    BY <2>2, <2>3
  <2>8. LeftOf(s, q, gone, n, S)
    BY <2>3, <2>4, <2>5, <2>6, <2>7 DEF LeftOf
  <2> QED BY <1>2, <2>1, <2>8
<1> QED BY <1>1, <1>2

LEMMA RetainedFact ==
  ASSUME NEW S, NEW q \in Seq(S), NEW gone
  PROVE  LeftOf(Retained(q, gone), q, gone, Len(q), S)
<1>1. PICK f : IsUpTo(f, q, gone, Len(q)) /\ Retained(q, gone) = f[Len(q)]
  <2>1. \E f : IsUpTo(f, q, gone, Len(q))
    <3>1. Len(q) \in Nat
      OBVIOUS
    <3> QED BY <3>1, UpToExists
  <2> DEFINE f == CHOOSE f0 : IsUpTo(f0, q, gone, Len(q))
  <2>2. IsUpTo(f, q, gone, Len(q))
    BY <2>1
  <2>3. Retained(q, gone) = f[Len(q)]
    BY DEF Retained, IsUpTo
  <2> QED BY <2>2, <2>3
<1> DEFINE T == {n \in 0..Len(q) : ~LeftOf(f[n], q, gone, n, S)}
<1>2. SUFFICES ASSUME T # {} PROVE FALSE
  BY <1>1
<1>3. PICK n \in T : \A k \in T : n <= k
  <2> HIDE DEF T
  <2>1. T \in SUBSET Nat
    BY DEF T
  <2> QED BY <1>2, <2>1, LeastNat
<1>4. n \in 0..Len(q) /\ ~LeftOf(f[n], q, gone, n, S)
  OBVIOUS
<1>5. n # 0
  <2>1. f[0] = <<>>
    BY <1>1 DEF IsUpTo
  <2>2. LeftOf(<<>>, q, gone, 0, S)
    BY EmptySeq DEF LeftOf
  <2> QED BY <1>4, <2>1, <2>2
<1>6. n \in 1..Len(q) /\ n - 1 \in 0..Len(q) /\ n - 1 \notin T
  BY <1>3, <1>4, <1>5
<1>7. LeftOf(f[n - 1], q, gone, n - 1, S)
  BY <1>6
<1>8. f[n] = IF q[n] \in gone THEN f[n - 1] ELSE Append(f[n - 1], q[n])
  <2>1. \A k \in 0..Len(q) : f[k] =
          IF k = 0 THEN <<>>
          ELSE IF q[k] \in gone THEN f[k - 1] ELSE Append(f[k - 1], q[k])
    BY <1>1 DEF IsUpTo
  <2> HIDE DEF T
  <2> QED BY <1>4, <1>5, <2>1
<1> QED BY <1>4, <1>6, <1>7, <1>8, LeftOfNext

-----------------------------------------------------------------------------
(* The store of ends.                                                        *)

Reason ==
  [id : TermId, why : Relays \cup {"detached"}, read : BOOLEAN]
OneReason(q) == \A m, n \in DOMAIN q : q[m].id = q[n].id => m = n
Ids(q) == {q[n].id : n \in DOMAIN q}

Stored(e) ==
  /\ e \in [reasons : Seq(Reason), lost : Seq(TermId)]
  /\ Len(e.reasons) <= EndedCap /\ Len(e.lost) <= EndedCap
  /\ OneReason(e.reasons)

LEMMA FiledFact ==
  ASSUME NEW q, NEW i
  PROVE  Filed(q, i) <=> i \in Ids(q)
BY DEF Filed, Ids

LEMMA CapIsPositive == EndedCap \in Nat /\ EndedCap >= 1
BY RemoteTerminalsAssumption

LEMMA RemoveAtFact ==
  ASSUME NEW S, NEW q \in Seq(S), NEW v \in 1..Len(q)
  PROVE  /\ RemoveAt(q, v) \in Seq(S) /\ Len(RemoveAt(q, v)) = Len(q) - 1
         /\ \A k \in 1..(Len(q) - 1) :
              RemoveAt(q, v)[k] = IF k < v THEN q[k] ELSE q[k + 1]
<1> DEFINE n == Len(q)
           front == SubSeq(q, 1, v - 1)
           back == SubSeq(q, v + 1, n)
           rest == front \o back
<1>1. n \in Nat /\ DOMAIN q = 1..n /\ v \in 1..n /\ v \in Nat
  OBVIOUS
<1>2. /\ front \in Seq(S) /\ Len(front) = v - 1
      /\ \A k \in 1..(v - 1) : front[k] = q[k]
  <2>1. \A k \in 1..(v - 1) : q[k] \in S
    OBVIOUS
  <2> QED BY <2>1, SubSeqProperties
<1>3. /\ back \in Seq(S) /\ Len(back) = n - v
      /\ \A k \in 1..(n - v) : back[k] = q[k + v]
  <2>1. \A k \in (v + 1)..n : q[k] \in S
    BY <1>1
  <2>2. PICK m \in Nat : m = v + 1
    BY <1>1
  <2>3. /\ SubSeq(q, m, n) \in Seq(S)
        /\ Len(SubSeq(q, m, n)) = IF m <= n THEN n - m + 1 ELSE 0
        /\ \A k \in 1..(n - m + 1) : SubSeq(q, m, n)[k] = q[m + k - 1]
    BY <1>1, <2>1, <2>2, SubSeqProperties
  <2>4. n - m + 1 = n - v /\ \A k \in 1..(n - v) : m + k - 1 = k + v
    BY <1>1, <2>2
  <2>5. back = SubSeq(q, m, n)
    BY <2>2
  <2>6. (IF m <= n THEN n - m + 1 ELSE 0) = n - v
    <3> HIDE DEF n
    <3> QED BY <1>1, <2>2
  <2> HIDE DEF back
  <2> QED BY <2>3, <2>4, <2>5, <2>6
<1>4. /\ rest \in Seq(S) /\ Len(rest) = Len(front) + Len(back)
      /\ \A k \in 1..(Len(front) + Len(back)) :
           rest[k] = IF k <= Len(front) THEN front[k] ELSE back[k - Len(front)]
  <2> HIDE DEF front, back
  <2> QED BY <1>2, <1>3, ConcatProperties
<1>5. RemoveAt(q, v) = rest
  BY DEF RemoveAt
<1> HIDE DEF n, front, back, rest
<1>6. \A k \in 1..(n - 1) : rest[k] = IF k < v THEN q[k] ELSE q[k + 1]
  <2> SUFFICES ASSUME NEW k \in 1..(n - 1)
               PROVE  rest[k] = IF k < v THEN q[k] ELSE q[k + 1]
    OBVIOUS
  <2>1. CASE k < v
    <3>1. rest[k] = front[k] /\ k \in 1..(v - 1)
      BY <1>1, <1>2, <1>3, <1>4, <2>1
    <3> QED BY <1>2, <2>1, <3>1
  <2>2. CASE ~(k < v)
    <3>1. rest[k] = back[k - (v - 1)] /\ k - (v - 1) \in 1..(n - v)
      BY <1>1, <1>2, <1>3, <1>4, <2>2
    <3>2. back[k - (v - 1)] = q[(k - (v - 1)) + v]
      BY <1>3, <3>1
    <3>3. (k - (v - 1)) + v = k + 1
      BY <1>1
    <3> QED BY <2>2, <3>1, <3>2, <3>3
  <2> QED BY <2>1, <2>2
<1>7. Len(rest) = n - 1
  BY <1>1, <1>2, <1>3, <1>4
<1> QED BY <1>4, <1>5, <1>6, <1>7 DEF n

(* As many terminals have a reason as there are reasons.                     *)
LEMMA IdsCounted ==
  ASSUME NEW q \in Seq(Reason), OneReason(q)
  PROVE  IsFiniteSet(Ids(q)) /\ Cardinality(Ids(q)) = Len(q)
<1> DEFINE f == [n \in 1..Len(q) |-> q[n].id]
<1>1. Len(q) \in Nat /\ DOMAIN q = 1..Len(q)
  OBVIOUS
<1>2. IsFiniteSet(1..Len(q)) /\ Cardinality(1..Len(q)) = Len(q)
  BY <1>1, FS_Interval
<1>3. f \in [1..Len(q) -> Ids(q)]
  BY <1>1 DEF Ids
<1>4. f \in Surjection(1..Len(q), Ids(q))
  BY <1>1, <1>3 DEF Surjection, Ids
<1>5. f \in Injection(1..Len(q), Ids(q))
  BY <1>1, <1>3 DEF Injection, IsInjective, OneReason
<1> HIDE DEF f
<1> QED BY <1>2, <1>4, <1>5, FS_Surjection

(* Terminals that are over are finitely many, and no fewer than those of a   *)
(* set of them and one or two besides.                                       *)
LEMMA OverCounted ==
  ASSUME NEW O \in SUBSET TermId, NEW S \in SUBSET O
  PROVE  /\ IsFiniteSet(O) /\ Cardinality(O) \in Nat
         /\ Cardinality(S) \in Nat /\ Cardinality(S) <= Cardinality(O)
         /\ \A y \in O \ S : Cardinality(O) >= Cardinality(S) + 1
         /\ \A y, z \in O \ S : y # z => Cardinality(O) >= Cardinality(S) + 2
<1>1. IsFiniteSet(TermId)
  BY RemoteTerminalsAssumption, FS_Interval DEF TermId
<1>2. IsFiniteSet(O)
  BY <1>1, FS_Subset
<1>3. IsFiniteSet(S) /\ Cardinality(S) <= Cardinality(O)
  BY <1>2, FS_Subset
<1>4. Cardinality(O) \in Nat /\ Cardinality(S) \in Nat
  BY <1>2, <1>3, FS_CardinalityType
<1>5. ASSUME NEW y \in O \ S PROVE Cardinality(O) >= Cardinality(S) + 1
  <2>1. IsFiniteSet(S \cup {y}) /\ Cardinality(S \cup {y}) = Cardinality(S) + 1
    BY <1>3, FS_AddElement
  <2>2. S \cup {y} \in SUBSET O
    OBVIOUS
  <2>3. Cardinality(S \cup {y}) <= Cardinality(O)
    BY <1>2, <2>2, FS_Subset
  <2> QED BY <1>4, <2>1, <2>3
<1>6. ASSUME NEW y \in O \ S, NEW z \in O \ S, y # z
      PROVE  Cardinality(O) >= Cardinality(S) + 2
  <2>1. IsFiniteSet(S \cup {y}) /\ Cardinality(S \cup {y}) = Cardinality(S) + 1
    BY <1>3, FS_AddElement
  <2>2. z \notin S \cup {y}
    BY <1>6
  <2>3. Cardinality((S \cup {y}) \cup {z}) = Cardinality(S \cup {y}) + 1
    BY <2>1, <2>2, FS_AddElement
  <2>4. (S \cup {y}) \cup {z} \in SUBSET O
    OBVIOUS
  <2>5. Cardinality((S \cup {y}) \cup {z}) <= Cardinality(O)
    BY <1>2, <2>4, FS_Subset
  <2> QED BY <1>4, <2>1, <2>3, <2>5
<1> QED BY <1>2, <1>3, <1>4, <1>5, <1>6

(* What an eviction leaves, and what it takes.                               *)
LEMMA VictimFact ==
  ASSUME NEW q \in Seq(Reason), Len(q) = EndedCap + 1, ~q[EndedCap + 1].read
  PROVE  Victim(q) \in 1..EndedCap
<1>1. DOMAIN q = 1..(EndedCap + 1) /\ EndedCap \in Nat /\ EndedCap >= 1
  BY CapIsPositive
<1>2. CASE \E n \in DOMAIN q : q[n].read
  <2> DEFINE T == {n \in 1..(EndedCap + 1) : q[n].read}
  <2>1. T \in SUBSET Nat /\ T # {}
    BY <1>1, <1>2
  <2>2. PICK m \in T : \A n \in T : m <= n
    <3> HIDE DEF T
    <3> QED BY <2>1, LeastNat
  <2>3. m \in DOMAIN q /\ q[m].read /\ \A k \in 1..m - 1 : ~q[k].read
    <3>1. \A k \in 1..m - 1 : k \in 1..(EndedCap + 1) /\ ~(m <= k)
      BY <1>1
    <3>2. \A k \in 1..m - 1 : k \notin T
      BY <2>2, <3>1
    <3> QED BY <1>1, <3>1, <3>2
  <2>4. Victim(q) \in DOMAIN q /\ q[Victim(q)].read
    BY <1>2, <2>3 DEF Victim
  <2> QED BY <1>1, <2>4
<1>3. CASE ~\E n \in DOMAIN q : q[n].read
  BY <1>1, <1>3 DEF Victim
<1> QED BY <1>2, <1>3

LEMMA LastNFact ==
  ASSUME NEW s \in Seq(TermId), Len(s) <= EndedCap, NEW y \in TermId
  PROVE  /\ LastN(Append(s, y)) \in Seq(TermId)
         /\ Len(LastN(Append(s, y))) <= EndedCap
         /\ y \in ToSet(LastN(Append(s, y)))
         /\ ToSet(LastN(Append(s, y))) \subseteq ToSet(s) \cup {y}
<1>1. PICK t : t = Append(s, y)
  OBVIOUS
<1>2. /\ t \in Seq(TermId) /\ t # <<>> /\ Len(t) = Len(s) + 1 /\ Len(s) \in Nat
      /\ t[Len(s) + 1] = y /\ \A k \in 1..Len(s) : t[k] = s[k]
  BY <1>1, AppendProperties
<1>3. \A k \in DOMAIN t : t[k] = y \/ t[k] \in ToSet(s)
  BY <1>2 DEF ToSet
<1>4. CASE Len(t) > EndedCap
  <2>1. PICK r : r = Tail(t)
    OBVIOUS
  <2>2. r \in Seq(TermId) /\ Len(r) = Len(s)
        /\ \A k \in 1..Len(s) : r[k] = t[k + 1]
    BY <1>2, <2>1, HeadTailProperties
  <2>3. Len(s) = EndedCap /\ Len(s) >= 1
    BY <1>2, <1>4, CapIsPositive
  <2>4. Len(s) \in DOMAIN r /\ r[Len(s)] = y
    BY <1>2, <2>2, <2>3
  <2>5. \A k \in DOMAIN r : r[k] \in ToSet(s) \cup {y}
    <3> SUFFICES ASSUME NEW k \in 1..Len(s) PROVE r[k] \in ToSet(s) \cup {y}
      BY <2>2
    <3>1. k + 1 \in DOMAIN t
      BY <1>2
    <3>2. r[k] = t[k + 1]
      BY ONLY <2>2
    <3> QED BY ONLY <1>3, <3>1, <3>2
  <2>6. y \in ToSet(r) /\ ToSet(r) \subseteq ToSet(s) \cup {y}
    BY <2>4, <2>5 DEF ToSet
  <2>7. LastN(t) = r
    BY <1>4, <2>1 DEF LastN
  <2> QED BY <1>1, <2>2, <2>3, <2>6, <2>7
<1>5. CASE ~(Len(t) > EndedCap)
  <2>1. LastN(t) = t
    BY <1>5 DEF LastN
  <2>2. y \in ToSet(t) /\ ToSet(t) \subseteq ToSet(s) \cup {y}
    BY <1>2, <1>3 DEF ToSet
  <2>3. Len(t) <= EndedCap
    BY <1>2, <1>5, CapIsPositive
  <2> QED BY <1>1, <1>2, <2>1, <2>2, <2>3
<1> QED BY <1>4, <1>5

Evicts(f, e, gone) ==
  /\ gone \in ToSet(e.reasons) /\ gone.id \notin Ids(f.reasons)
  /\ Len(f.reasons) = EndedCap
  /\ ToSet(e.reasons) \ {gone} \subseteq ToSet(f.reasons)
  /\ gone.read => f.lost = e.lost
  /\ ~gone.read => gone.id \in ToSet(f.lost)

LEMMA EvictedFact ==
  ASSUME NEW e \in [reasons : Seq(Reason), lost : Seq(TermId)],
         Len(e.reasons) = EndedCap + 1, Len(e.lost) <= EndedCap,
         OneReason(e.reasons), ~e.reasons[EndedCap + 1].read
  PROVE  LET f == Evicted(e) IN
         /\ Stored(f)
         /\ ToSet(f.reasons) \subseteq ToSet(e.reasons)
         /\ ToSet(f.lost) \subseteq ToSet(e.lost) \cup Ids(e.reasons)
         /\ e.reasons[EndedCap + 1] \in ToSet(f.reasons)
         /\ \E v \in 1..EndedCap : Evicts(f, e, e.reasons[v])
<1>1. PICK q, v : q = e.reasons /\ v = Victim(q)
  OBVIOUS
<1>2. q \in Seq(Reason) /\ Len(q) = EndedCap + 1 /\ DOMAIN q = 1..(EndedCap + 1)
      /\ EndedCap \in Nat /\ EndedCap >= 1 /\ e.lost \in Seq(TermId)
  BY <1>1, CapIsPositive
<1>3. v \in 1..EndedCap
  BY <1>1, <1>2, VictimFact
<1>4. PICK r : r = RemoveAt(q, v)
  OBVIOUS
<1>5. r \in Seq(Reason) /\ Len(r) = EndedCap /\ DOMAIN r = 1..EndedCap
      /\ \A k \in 1..EndedCap : r[k] = IF k < v THEN q[k] ELSE q[k + 1]
  <2>1. v \in 1..Len(q) /\ Len(q) - 1 = EndedCap /\ q \in Seq(Reason)
    BY <1>2, <1>3
  <2>2. /\ r \in Seq(Reason) /\ Len(r) = Len(q) - 1
        /\ \A k \in 1..(Len(q) - 1) : r[k] = IF k < v THEN q[k] ELSE q[k + 1]
    BY <1>4, <2>1, RemoveAtFact
  <2>3. DOMAIN r = 1..Len(r)
    BY <2>2
  <2> QED BY <2>1, <2>2, <2>3
<1>6. PICK gone : gone = q[v]
  OBVIOUS
<1>7. gone \in Reason /\ gone.id \in TermId /\ gone.read \in BOOLEAN
  <2>1. v \in DOMAIN q
    BY <1>2, <1>3
  <2>2. gone \in Reason
    BY <1>2, <1>6, <2>1
  <2> QED BY <2>2 DEF Reason
<1>8. PICK f : f = Evicted(e)
  OBVIOUS
<1>20. PICK cut : cut = IF gone.read THEN e.lost ELSE LastN(Append(e.lost, gone.id))
  OBVIOUS
<1>9. f = [reasons |-> r, lost |-> cut]
  <2>1. f = [reasons |-> RemoveAt(q, v),
             lost |-> IF q[v].read THEN e.lost ELSE LastN(Append(e.lost, q[v].id))]
    BY <1>1, <1>8, Zenon DEF Evicted
  <2> QED BY <1>4, <1>6, <1>20, <2>1, Zenon
<1>21. f.reasons = r /\ f.lost = cut
  BY <1>9
<1>10. \A k \in 1..EndedCap : \E l \in 1..(EndedCap + 1) : l # v /\ r[k] = q[l]
  <2> TAKE k \in 1..EndedCap
  <2>1. CASE k < v
    <3>1. k \in 1..(EndedCap + 1) /\ k # v /\ r[k] = q[k]
      BY <1>2, <1>3, <1>5, <2>1
    <3> QED BY <3>1
  <2>2. CASE ~(k < v)
    <3>1. k + 1 \in 1..(EndedCap + 1) /\ k + 1 # v /\ r[k] = q[k + 1]
      BY <1>2, <1>3, <1>5, <2>2
    <3> QED BY <3>1
  <2> QED BY <2>1, <2>2
<1>11. \A l \in 1..(EndedCap + 1) : l # v => \E k \in 1..EndedCap : r[k] = q[l]
  <2> SUFFICES ASSUME NEW l \in 1..(EndedCap + 1), l # v
               PROVE  \E k \in 1..EndedCap : r[k] = q[l]
    OBVIOUS
  <2>1. CASE l < v
    <3>1. l \in 1..EndedCap /\ r[l] = q[l]
      BY <1>2, <1>3, <1>5, <2>1
    <3> QED BY <3>1
  <2>2. CASE ~(l < v)
    <3>1. l - 1 \in 1..EndedCap /\ ~(l - 1 < v) /\ (l - 1) + 1 = l
      BY <1>2, <1>3, <2>2
    <3>2. r[l - 1] = q[l]
      BY <1>5, <3>1
    <3> QED BY <3>1, <3>2
  <2> QED BY <2>1, <2>2
<1>12. OneReason(r)
  <2> SUFFICES ASSUME NEW a \in 1..EndedCap, NEW b \in 1..EndedCap,
                      r[a].id = r[b].id
               PROVE  a = b
    BY <1>5 DEF OneReason
  <2>1. \A m, n \in 1..(EndedCap + 1) : q[m].id = q[n].id => m = n
    BY <1>1, <1>2 DEF OneReason
  <2> DEFINE at(k) == IF k < v THEN k ELSE k + 1
  <2>2. at(a) \in 1..(EndedCap + 1) /\ at(b) \in 1..(EndedCap + 1)
    BY <1>2, <1>3
  <2>3. r[a] = q[at(a)] /\ r[b] = q[at(b)]
    BY <1>5
  <2>4. at(a) = at(b)
    BY <2>1, <2>2, <2>3
  <2> QED BY <1>2, <1>3, <2>4
<1>13. gone.id \notin Ids(r)
  <2> SUFFICES ASSUME NEW k \in 1..EndedCap, r[k].id = gone.id PROVE FALSE
    BY <1>5 DEF Ids
  <2>1. PICK l \in 1..(EndedCap + 1) : l # v /\ r[k] = q[l]
    BY <1>10
  <2> QED BY <1>1, <1>2, <1>3, <1>6, <2>1 DEF OneReason
<1>14. ToSet(r) \subseteq ToSet(q) /\ ToSet(q) \ {gone} \subseteq ToSet(r)
  <2>1. ToSet(r) \subseteq ToSet(q)
    <3> SUFFICES ASSUME NEW x \in ToSet(r) PROVE x \in ToSet(q)
      OBVIOUS
    <3>1. PICK k \in 1..EndedCap : x = r[k]
      BY <1>5 DEF ToSet
    <3>2. PICK l \in 1..(EndedCap + 1) : r[k] = q[l]
      BY ONLY <1>10, <3>1
    <3>3. l \in DOMAIN q
      BY <1>2
    <3> QED BY ONLY <3>1, <3>2, <3>3 DEF ToSet
  <2>2. ASSUME NEW x \in ToSet(q), x # gone PROVE x \in ToSet(r)
    <3>1. PICK l \in 1..(EndedCap + 1) : x = q[l]
      BY <1>2 DEF ToSet
    <3>2. l # v
      BY <1>6, <2>2, <3>1
    <3> QED BY <1>5, <1>11, <3>1, <3>2 DEF ToSet
  <2> QED BY <2>1, <2>2
<1>15. q[EndedCap + 1] \in ToSet(r)
  <2>1. EndedCap + 1 \in 1..(EndedCap + 1) /\ EndedCap + 1 # v
    BY <1>2, <1>3
  <2> QED BY <1>5, <1>11, <2>1 DEF ToSet
<1>16. /\ f.lost \in Seq(TermId) /\ Len(f.lost) <= EndedCap
       /\ ToSet(f.lost) \subseteq ToSet(e.lost) \cup {gone.id}
       /\ ~gone.read => gone.id \in ToSet(f.lost)
  <2>1. CASE gone.read
    <3>1. f.lost = e.lost
      BY <1>20, <1>21, <2>1
    <3> QED BY <1>2, <2>1, <3>1
  <2>2. CASE ~gone.read
    <3>1. PICK y : y = gone.id
      OBVIOUS
    <3>2. y \in TermId /\ e.lost \in Seq(TermId) /\ Len(e.lost) <= EndedCap
      BY <1>2, <1>7, <3>1
    <3>3. cut = LastN(Append(e.lost, y))
      BY <1>20, <2>2, <3>1
    <3>4. /\ cut \in Seq(TermId) /\ Len(cut) <= EndedCap /\ y \in ToSet(cut)
          /\ ToSet(cut) \subseteq ToSet(e.lost) \cup {y}
      BY <3>2, <3>3, LastNFact
    <3>5. f.lost = cut
      BY <1>21
    <3> QED BY <2>2, <3>1, <3>4, <3>5
  <2> QED BY <2>1, <2>2
<1>17. gone.id \in Ids(q) /\ gone \in ToSet(q)
  BY <1>2, <1>3, <1>6 DEF Ids, ToSet
<1>18. Stored(f)
  <2>1. f \in [reasons : Seq(Reason), lost : Seq(TermId)]
    <3>1. f.reasons \in Seq(Reason) /\ f.lost \in Seq(TermId)
      BY <1>5, <1>16, <1>21
    <3> QED BY <1>9, <1>21, <3>1
  <2>2. Len(f.reasons) <= EndedCap /\ OneReason(f.reasons)
    BY <1>2, <1>5, <1>21, <1>12
  <2> QED BY <1>16, <2>1, <2>2 DEF Stored
<1>19. Evicts(f, e, gone)
  BY <1>1, <1>5, <1>20, <1>21, <1>13, <1>14, <1>16, <1>17 DEF Evicts
<1> QED BY <1>1, <1>3, <1>6, <1>8, <1>21, <1>14, <1>15, <1>16, <1>17, <1>18, <1>19

LEMMA AppendSet ==
  ASSUME NEW S, NEW s \in Seq(S), NEW x \in S
  PROVE  /\ Append(s, x) \in Seq(S) /\ Len(Append(s, x)) = Len(s) + 1
         /\ Append(s, x)[Len(s) + 1] = x
         /\ \A k \in 1..Len(s) : Append(s, x)[k] = s[k]
         /\ ToSet(Append(s, x)) = ToSet(s) \cup {x}
<1>1. PICK t : t = Append(s, x)
  OBVIOUS
<1>2. /\ t \in Seq(S) /\ Len(t) = Len(s) + 1 /\ Len(s) \in Nat
      /\ DOMAIN t = 1..(Len(s) + 1) /\ DOMAIN s = 1..Len(s)
      /\ t[Len(s) + 1] = x /\ \A k \in 1..Len(s) : t[k] = s[k]
  BY <1>1, AppendProperties
<1>3. ASSUME NEW y \in ToSet(t) PROVE y \in ToSet(s) \cup {x}
  <2>1. PICK k \in DOMAIN t : y = t[k]
    BY DEF ToSet
  <2>2. k = Len(s) + 1 \/ k \in DOMAIN s
    BY <1>2
  <2> QED BY <1>2, <2>1, <2>2 DEF ToSet
<1>4. ASSUME NEW y \in ToSet(s) \cup {x} PROVE y \in ToSet(t)
  <2>1. CASE y = x
    <3>1. Len(s) + 1 \in DOMAIN t
      BY <1>2
    <3> QED BY <1>2, <2>1, <3>1 DEF ToSet
  <2>2. CASE y \in ToSet(s)
    <3>1. PICK k \in DOMAIN s : y = s[k]
      BY <2>2 DEF ToSet
    <3>2. k \in DOMAIN t /\ t[k] = y
      BY <1>2, <3>1
    <3> QED BY <3>2 DEF ToSet
  <2> QED BY <2>1, <2>2
<1> QED BY <1>1, <1>2, <1>3, <1>4

LEMMA IdsOfSet ==
  ASSUME NEW q, NEW i
  PROVE  i \in Ids(q) <=> \E r \in ToSet(q) : r.id = i
BY DEF Ids, ToSet

NewReason(i, why) == [id |-> i, why |-> why, read |-> FALSE]

LEMMA RecordedFact ==
  ASSUME NEW e, Stored(e), NEW i \in TermId, NEW why \in Relays \cup {"detached"},
         ~Filed(e.reasons, i)
  PROVE  LET f == Recorded(e, i, why) IN
         /\ Stored(f) /\ NewReason(i, why) \in ToSet(f.reasons)
         /\ ToSet(f.reasons) \subseteq ToSet(e.reasons) \cup {NewReason(i, why)}
         /\ ToSet(f.lost) \subseteq ToSet(e.lost) \cup Ids(e.reasons) \cup {i}
         /\ \/ ToSet(e.reasons) \subseteq ToSet(f.reasons) /\ f.lost = e.lost
            \/ \E gone : Evicts(f, e, gone)
<1>1. PICK q, new : q = e.reasons /\ new = NewReason(i, why)
  OBVIOUS
<1>2. /\ q \in Seq(Reason) /\ e.lost \in Seq(TermId) /\ Len(q) \in Nat
      /\ DOMAIN q = 1..Len(q) /\ Len(q) <= EndedCap /\ Len(e.lost) <= EndedCap
      /\ OneReason(q) /\ e = [reasons |-> e.reasons, lost |-> e.lost]
  BY <1>1 DEF Stored
<1>3. new \in Reason /\ new.id = i /\ new.read = FALSE
  BY <1>1 DEF NewReason, Reason
<1>4. PICK p : p = Append(q, new)
  OBVIOUS
<1>5. /\ p \in Seq(Reason) /\ Len(p) = Len(q) + 1 /\ p[Len(q) + 1] = new
      /\ \A k \in 1..Len(q) : p[k] = q[k]
      /\ ToSet(p) = ToSet(q) \cup {new} /\ DOMAIN p = 1..(Len(q) + 1)
  <2>1. /\ p \in Seq(Reason) /\ Len(p) = Len(q) + 1 /\ p[Len(q) + 1] = new
        /\ \A k \in 1..Len(q) : p[k] = q[k]
        /\ ToSet(p) = ToSet(q) \cup {new}
    BY <1>2, <1>3, <1>4, AppendSet
  <2> QED BY <2>1
<1>6. PICK full : full = [reasons |-> p, lost |-> e.lost]
  OBVIOUS
<1>7. full = [e EXCEPT !.reasons = Append(@, new)]
  <2>1. [e EXCEPT !.reasons = p] = [reasons |-> p, lost |-> e.lost]
    BY DEF Stored
  <2>2. Append(e.reasons, new) = p
    BY <1>1, <1>4
  <2>3. e \in [reasons : Seq(Reason), lost : Seq(TermId)]
    BY DEF Stored
  <2>4. [e EXCEPT !.reasons = Append(@, new)]
          = [e EXCEPT !.reasons = Append(e.reasons, new)]
    BY <2>3
  <2> QED BY <1>6, <2>1, <2>2, <2>4
<1>8. PICK f : f = Recorded(e, i, why)
  OBVIOUS
<1>9. f = IF Len(p) > EndedCap THEN Evicted(full) ELSE full
  <2>1. full.reasons = p
    BY <1>6
  <2>2. f = IF Len(full.reasons) > EndedCap THEN Evicted(full) ELSE full
    BY <1>1, <1>7, <1>8, Zenon DEF Recorded, NewReason
  <2> QED BY <2>1, <2>2
<1>10. OneReason(p)
  <2> SUFFICES ASSUME NEW a \in DOMAIN p, NEW b \in DOMAIN p, p[a].id = p[b].id
               PROVE  a = b
    BY DEF OneReason
  <2>1. \A k \in 1..Len(q) : q[k].id # i
    BY <1>1, <1>2 DEF Filed
  <2>2. a \in 1..Len(q) \/ a = Len(q) + 1
    BY <1>5, <1>2
  <2>3. b \in 1..Len(q) \/ b = Len(q) + 1
    BY <1>5, <1>2
  <2> QED BY <1>2, <1>3, <1>5, <2>1, <2>2, <2>3 DEF OneReason
<1>11. full.reasons = p /\ full.lost = e.lost
       /\ full \in [reasons : Seq(Reason), lost : Seq(TermId)]
  BY <1>2, <1>5, <1>6
<1>12. CASE ~(Len(p) > EndedCap)
  <2>1. f = full
    BY <1>9, <1>12
  <2>2. Len(p) <= EndedCap
    BY <1>2, <1>5, <1>12, CapIsPositive
  <2>3. Stored(f)
    BY <1>2, <1>10, <1>11, <2>1, <2>2 DEF Stored
  <2>4. f.reasons = p /\ f.lost = e.lost
    BY <1>11, <2>1
  <2> QED BY <1>1, <1>5, <1>8, <2>3, <2>4
<1>13. CASE Len(p) > EndedCap
  <2>1. Len(p) = EndedCap + 1 /\ Len(q) = EndedCap
    BY <1>2, <1>5, <1>13, CapIsPositive
  <2>2. f = Evicted(full)
    BY <1>9, <1>13
  <2>3. p[EndedCap + 1] = new /\ ~p[EndedCap + 1].read
    BY <1>3, <1>5, <2>1
  <2>4. /\ Stored(f)
        /\ ToSet(f.reasons) \subseteq ToSet(p)
        /\ ToSet(f.lost) \subseteq ToSet(e.lost) \cup Ids(p)
        /\ p[EndedCap + 1] \in ToSet(f.reasons)
        /\ \E v \in 1..EndedCap : Evicts(f, full, p[v])
    BY <1>2, <1>10, <1>11, <2>1, <2>2, <2>3, EvictedFact
  <2>5. PICK v \in 1..EndedCap : Evicts(f, full, p[v])
    BY <2>4
  <2>6. PICK gone : gone = p[v]
    OBVIOUS
  <2>7. gone \in ToSet(q)
    BY <1>2, <1>5, <2>1, <2>6 DEF ToSet
  <2>8. Evicts(f, e, gone)
    BY <1>1, <1>5, <1>11, <2>5, <2>6, <2>7 DEF Evicts
  <2>9. Ids(p) \subseteq Ids(q) \cup {i}
    <3> SUFFICES ASSUME NEW x \in Ids(p) PROVE x \in Ids(q) \cup {i}
      OBVIOUS
    <3>1. PICK y \in ToSet(p) : y.id = x
      BY IdsOfSet
    <3>2. y = new \/ y \in ToSet(q)
      BY <1>5
    <3> QED BY <1>3, <3>1, <3>2, IdsOfSet
  <2> QED BY <1>1, <1>5, <1>8, <2>3, <2>4, <2>8, <2>9
<1> QED BY <1>12, <1>13

LEMMA OpenedFact ==
  ASSUME NEW e, Stored(e), NEW i \in TermId
  PROVE  LET f == Opened(e, i) IN
         /\ Stored(f)
         /\ ToSet(f.reasons) = {r \in ToSet(e.reasons) : r.id # i}
         /\ ToSet(f.lost) = ToSet(e.lost) \ {i}
<1>1. PICK q, s : q = e.reasons /\ s = e.lost
  OBVIOUS
<1>2. /\ q \in Seq(Reason) /\ Len(q) \in Nat /\ Len(q) <= EndedCap /\ OneReason(q)
      /\ s \in Seq(TermId) /\ Len(s) \in Nat /\ Len(s) <= EndedCap
      /\ DOMAIN q = 1..Len(q) /\ DOMAIN s = 1..Len(s)
  BY <1>1 DEF Stored
<1>3. PICK r, t : r = Retained(q, About(q, i)) /\ t = Retained(s, {i})
  OBVIOUS
<1>4. LeftOf(r, q, About(q, i), Len(q), Reason)
  BY <1>2, <1>3, RetainedFact
<1>5. LeftOf(t, s, {i}, Len(s), TermId)
  BY <1>2, <1>3, RetainedFact
<1>6. r \in Seq(Reason) /\ Len(r) \in Nat /\ Len(r) <= EndedCap
  BY <1>2, <1>4, CapIsPositive DEF LeftOf
<1>7. t \in Seq(TermId) /\ Len(t) \in Nat /\ Len(t) <= EndedCap
  BY <1>2, <1>5, CapIsPositive DEF LeftOf
<1>8. OneReason(r)
  <2>1. ASSUME NEW a \in DOMAIN r, NEW b \in DOMAIN r, a < b, r[a].id = r[b].id
        PROVE  FALSE
    <3>1. PICK k, l \in 1..Len(q) : k < l /\ q[k] = r[a] /\ q[l] = r[b]
      BY <1>4, <2>1 DEF LeftOf
    <3>2. k = l
      BY <1>2, <2>1, <3>1 DEF OneReason
    <3> QED BY <3>1, <3>2
  <2> SUFFICES ASSUME NEW a \in DOMAIN r, NEW b \in DOMAIN r, r[a].id = r[b].id
               PROVE  a = b
    BY DEF OneReason
  <2>2. a < b \/ b < a \/ a = b
    BY <1>6
  <2> QED BY <2>1, <2>2
<1>9. ToSet(r) = {x \in ToSet(q) : x.id # i}
  <2>1. ASSUME NEW x \in ToSet(r) PROVE x \in ToSet(q) /\ x.id # i
    <3>1. PICK k \in DOMAIN r : x = r[k]
      BY DEF ToSet
    <3>2. x \notin About(q, i) /\ \E l \in 1..Len(q) : q[l] = x
      BY <1>4, <3>1 DEF LeftOf
    <3>3. x \in ToSet(q)
      BY <1>2, <3>2 DEF ToSet
    <3> QED BY <3>2, <3>3 DEF About
  <2>2. ASSUME NEW x \in ToSet(q), x.id # i PROVE x \in ToSet(r)
    <3>1. PICK l \in 1..Len(q) : x = q[l]
      BY <1>2 DEF ToSet
    <3>2. q[l] \notin About(q, i)
      BY <2>2, <3>1 DEF About
    <3>3. \E k \in DOMAIN r : r[k] = q[l]
      BY <1>4, <3>2 DEF LeftOf
    <3> QED BY <3>1, <3>3 DEF ToSet
  <2> QED BY <2>1, <2>2
<1>10. ToSet(t) = ToSet(s) \ {i}
  <2>1. ASSUME NEW x \in ToSet(t) PROVE x \in ToSet(s) /\ x # i
    <3>1. PICK k \in DOMAIN t : x = t[k]
      BY DEF ToSet
    <3>2. x \notin {i} /\ \E l \in 1..Len(s) : s[l] = x
      BY <1>5, <3>1 DEF LeftOf
    <3> QED BY <1>2, <3>2 DEF ToSet
  <2>2. ASSUME NEW x \in ToSet(s), x # i PROVE x \in ToSet(t)
    <3>1. PICK l \in 1..Len(s) : x = s[l]
      BY <1>2 DEF ToSet
    <3>2. s[l] \notin {i}
      BY <2>2, <3>1
    <3>3. \E k \in DOMAIN t : t[k] = s[l]
      BY <1>5, <3>2 DEF LeftOf
    <3> QED BY <3>1, <3>3 DEF ToSet
  <2> QED BY <2>1, <2>2
<1>11. PICK f : f = Opened(e, i)
  OBVIOUS
<1>12. f = [reasons |-> r, lost |-> t]
  BY <1>1, <1>3, <1>11, Zenon DEF Opened
<1>13. f.reasons = r /\ f.lost = t
       /\ f \in [reasons : Seq(Reason), lost : Seq(TermId)]
  BY <1>6, <1>7, <1>12
<1>14. Stored(f)
  BY <1>6, <1>7, <1>8, <1>13 DEF Stored
<1> QED BY <1>1, <1>9, <1>10, <1>11, <1>13, <1>14

LEMMA ReadFact ==
  ASSUME NEW e, Stored(e), NEW i \in TermId
  PROVE  LET f == Read(e, i) IN
         /\ Stored(f) /\ f.lost = e.lost
         /\ \A r \in ToSet(f.reasons) : \E x \in ToSet(e.reasons) :
              r.id = x.id /\ r.why = x.why /\ (r.read => x.read \/ r.id = i)
         /\ \A x \in ToSet(e.reasons) : \E r \in ToSet(f.reasons) :
              r.id = x.id /\ r.why = x.why
<1>1. PICK q : q = e.reasons
  OBVIOUS
<1>2. /\ q \in Seq(Reason) /\ Len(q) \in Nat /\ Len(q) <= EndedCap /\ OneReason(q)
      /\ e.lost \in Seq(TermId) /\ Len(e.lost) <= EndedCap /\ DOMAIN q = 1..Len(q)
      /\ e = [reasons |-> e.reasons, lost |-> e.lost]
  BY <1>1 DEF Stored
<1>3. PICK r : r = [n \in 1..Len(q) |-> IF q[n].id = i
                                         THEN [q[n] EXCEPT !.read = TRUE] ELSE q[n]]
  OBVIOUS
<1>4. \A n \in 1..Len(q) :
        /\ r[n] \in Reason /\ r[n].id = q[n].id /\ r[n].why = q[n].why
        /\ r[n].read => q[n].read \/ r[n].id = i
  <2> SUFFICES ASSUME NEW n \in 1..Len(q)
               PROVE  /\ r[n] \in Reason /\ r[n].id = q[n].id /\ r[n].why = q[n].why
                      /\ r[n].read => q[n].read \/ r[n].id = i
    OBVIOUS
  <2>1. q[n] \in Reason
    BY <1>2
  <2>2. r[n] = IF q[n].id = i THEN [q[n] EXCEPT !.read = TRUE] ELSE q[n]
    BY <1>3
  <2> QED BY <2>1, <2>2 DEF Reason
<1>5. r \in Seq(Reason) /\ Len(r) = Len(q) /\ DOMAIN r = 1..Len(q)
  BY <1>2, <1>3, <1>4
<1>6. PICK f : f = Read(e, i)
  OBVIOUS
<1>7. f = [reasons |-> r, lost |-> e.lost]
  BY <1>1, <1>2, <1>3, <1>6 DEF Read
<1>8. f.reasons = r /\ f.lost = e.lost
      /\ f \in [reasons : Seq(Reason), lost : Seq(TermId)]
  BY <1>2, <1>5, <1>7
<1>9. OneReason(r)
  BY <1>2, <1>4, <1>5 DEF OneReason
<1>10. Stored(f)
  BY <1>2, <1>5, <1>8, <1>9 DEF Stored
<1>11. ASSUME NEW y \in ToSet(r)
       PROVE  \E x \in ToSet(q) :
                y.id = x.id /\ y.why = x.why /\ (y.read => x.read \/ y.id = i)
  <2>1. PICK n \in 1..Len(q) : y = r[n]
    BY <1>5 DEF ToSet
  <2>2. q[n] \in ToSet(q)
    BY <1>2 DEF ToSet
  <2> QED BY <1>4, <2>1, <2>2
<1>12. ASSUME NEW x \in ToSet(q)
       PROVE  \E y \in ToSet(r) : y.id = x.id /\ y.why = x.why
  <2>1. PICK n \in 1..Len(q) : x = q[n]
    BY <1>2 DEF ToSet
  <2>2. r[n] \in ToSet(r)
    BY <1>5 DEF ToSet
  <2> QED BY <1>4, <2>1, <2>2
<1> QED BY <1>1, <1>6, <1>8, <1>10, <1>11, <1>12

-----------------------------------------------------------------------------
(* What the store says of terminals t, and what a step does to that.         *)

TermRec ==
  [ssh : {"none", "connecting", "up", "over"}, host : Hosts, gen : 0..MaxGens,
   epoch : 0..MaxEpochs, pend : SUBSET Relays,
   cause : {"none", "exec", "status", "tab", "detached"}, told : BOOLEAN]
OverOf(t) == {i \in TermId : t[i].ssh = "over"}

Tells(e, i, why) == \E r \in ToSet(e.reasons) : r.id = i /\ r.why = why

OnlyOverEnds(t, e) ==
  /\ \A r \in ToSet(e.reasons) : r.id \in OverOf(t) /\ (r.read => t[r.id].told)
  /\ ToSet(e.lost) \subseteq OverOf(t)

DetachIsSaid(t, e) ==
  Cardinality(OverOf(t)) <= EndedCap =>
    \A i \in TermId : t[i].cause = "detached" => Tells(e, i, "detached")

Silent(t, i) == t[i].ssh = "over" /\ t[i].pend = {} /\ ~t[i].told
IsAnswered(t, e) ==
  \A i \in TermId : Silent(t, i) =>
    Answered(e, i) \/ Cardinality(OverOf(t)) > EndedCap + 1

EndsOK(t, e) == OnlyOverEnds(t, e) /\ DetachIsSaid(t, e) /\ IsAnswered(t, e)

LEMMA AnsweredFact ==
  ASSUME NEW e, NEW i
  PROVE  Answered(e, i) <=> (\E r \in ToSet(e.reasons) : r.id = i) \/ i \in ToSet(e.lost)
BY FiledFact, IdsOfSet DEF Answered

LEMMA MoreOver ==
  ASSUME NEW t, NEW u, \A j \in TermId : t[j].ssh = "over" => u[j].ssh = "over"
  PROVE  /\ OverOf(t) \subseteq OverOf(u)
         /\ Cardinality(OverOf(t)) \in Nat /\ Cardinality(OverOf(u)) \in Nat
         /\ Cardinality(OverOf(t)) <= Cardinality(OverOf(u))
<1>1. OverOf(t) \in SUBSET OverOf(u) /\ OverOf(u) \in SUBSET TermId
  BY DEF OverOf
<1> QED BY <1>1, OverCounted

LEMMA RecordStep ==
  ASSUME NEW t \in [TermId -> TermRec], NEW u \in [TermId -> TermRec],
         NEW e, Stored(e), NEW i \in TermId, NEW why \in Relays \cup {"detached"},
         EndsOK(t, e), \A j \in TermId : j # i => u[j] = t[j],
         u[i].ssh = "over", u[i].told = t[i].told,
         \/ t[i].ssh = "over" /\ u[i].cause = t[i].cause
         \/ t[i].ssh # "over" /\ why = "detached"
  PROVE  Stored(Recorded(e, i, why)) /\ EndsOK(u, Recorded(e, i, why))
<1>1. PICK f, new : f = Recorded(e, i, why) /\ new = NewReason(i, why)
  OBVIOUS
<1>2. /\ OverOf(t) \subseteq OverOf(u) /\ i \in OverOf(u)
      /\ Cardinality(OverOf(t)) \in Nat /\ Cardinality(OverOf(u)) \in Nat
      /\ Cardinality(OverOf(t)) <= Cardinality(OverOf(u))
  <2>1. \A j \in TermId : t[j].ssh = "over" => u[j].ssh = "over"
    OBVIOUS
  <2>2. i \in OverOf(u)
    BY DEF OverOf
  <2> QED BY <2>1, <2>2, MoreOver
<1>3. \A j \in TermId : u[j].told = t[j].told
  OBVIOUS
<1>4. CASE Filed(e.reasons, i)
  <2>1. f = e
    BY <1>1, <1>4, Zenon DEF Recorded
  <2>2. \E r \in ToSet(e.reasons) : r.id = i
    BY <1>4, FiledFact, IdsOfSet
  <2>3. t[i].ssh = "over"
    BY <2>2 DEF EndsOK, OnlyOverEnds, OverOf
  <2>4. OnlyOverEnds(u, e)
    <3>1. \A r \in ToSet(e.reasons) :
            r.id \in OverOf(t) /\ r.id \in TermId /\ (r.read => t[r.id].told)
      BY DEF EndsOK, OnlyOverEnds, OverOf
    <3>2. ToSet(e.lost) \subseteq OverOf(t)
      BY DEF EndsOK, OnlyOverEnds
    <3> QED BY <1>2, <1>3, <3>1, <3>2 DEF OnlyOverEnds
  <2>5. DetachIsSaid(u, e)
    <3> SUFFICES ASSUME Cardinality(OverOf(u)) <= EndedCap,
                        NEW j \in TermId, u[j].cause = "detached"
                 PROVE  Tells(e, j, "detached")
      BY DEF DetachIsSaid
    <3>1. t[j].cause = "detached"
      BY <2>3
    <3>2. Cardinality(OverOf(t)) <= EndedCap
      BY <1>2, CapIsPositive
    <3> QED BY <3>1, <3>2 DEF EndsOK, DetachIsSaid
  <2>6. IsAnswered(u, e)
    <3> SUFFICES ASSUME NEW j \in TermId, Silent(u, j)
                 PROVE  Answered(e, j) \/ Cardinality(OverOf(u)) > EndedCap + 1
      BY DEF IsAnswered
    <3>1. CASE j = i
      BY <1>4, <3>1 DEF Answered
    <3>2. CASE j # i
      <4>1. Silent(t, j)
        BY <3>2 DEF Silent
      <4>2. Answered(e, j) \/ Cardinality(OverOf(t)) > EndedCap + 1
        BY <4>1 DEF EndsOK, IsAnswered
      <4> QED BY <1>2, <4>2, CapIsPositive
    <3> QED BY <3>1, <3>2
  <2> QED BY <1>1, <2>1, <2>4, <2>5, <2>6 DEF EndsOK
<1>5. CASE ~Filed(e.reasons, i)
  <2>1. /\ Stored(f) /\ new \in ToSet(f.reasons)
        /\ ToSet(f.reasons) \subseteq ToSet(e.reasons) \cup {new}
        /\ ToSet(f.lost) \subseteq ToSet(e.lost) \cup Ids(e.reasons) \cup {i}
        /\ \/ ToSet(e.reasons) \subseteq ToSet(f.reasons) /\ f.lost = e.lost
           \/ \E gone : Evicts(f, e, gone)
    BY <1>1, <1>5, RecordedFact
  <2>2. new.id = i /\ new.why = why /\ new.read = FALSE
    BY <1>1 DEF NewReason
  <2>3. \A r \in ToSet(e.reasons) :
          r.id \in OverOf(t) /\ r.id \in TermId /\ (r.read => t[r.id].told)
    BY DEF EndsOK, OnlyOverEnds, OverOf
  <2>4. Ids(e.reasons) \subseteq OverOf(u)
    BY <1>2, <2>3, IdsOfSet
  <2>5. ToSet(e.lost) \subseteq OverOf(u)
    BY <1>2 DEF EndsOK, OnlyOverEnds
  <2>6. OnlyOverEnds(u, f)
    <3>1. \A r \in ToSet(f.reasons) : r = new \/ r \in ToSet(e.reasons)
      BY <2>1
    <3>2. ToSet(f.lost) \subseteq OverOf(u)
      BY <1>2, <2>1, <2>4, <2>5
    <3> QED BY <1>2, <1>3, <2>2, <2>3, <3>1, <3>2 DEF OnlyOverEnds
  <2>7. Ids(f.reasons) \in SUBSET OverOf(u) /\ OverOf(u) \in SUBSET TermId
    BY <2>6, IdsOfSet DEF OnlyOverEnds, OverOf
  <2>8. Cardinality(Ids(f.reasons)) = Len(f.reasons)
    BY <2>1, IdsCounted DEF Stored
  <2>9. ASSUME NEW gone, Evicts(f, e, gone)
        PROVE  /\ gone \in ToSet(e.reasons) /\ gone.id \in OverOf(u) \ Ids(f.reasons)
               /\ Cardinality(Ids(f.reasons)) = EndedCap
               /\ Cardinality(OverOf(u)) >= EndedCap + 1
    <3>1. /\ gone \in ToSet(e.reasons) /\ gone.id \notin Ids(f.reasons)
          /\ Len(f.reasons) = EndedCap
      BY <2>9 DEF Evicts
    <3>2. gone.id \in OverOf(u) \ Ids(f.reasons)
      BY <1>2, <2>3, <3>1
    <3> QED BY <2>7, <2>8, <3>1, <3>2, OverCounted
  <2>10. DetachIsSaid(u, f)
    <3> SUFFICES ASSUME Cardinality(OverOf(u)) <= EndedCap,
                        NEW j \in TermId, u[j].cause = "detached"
                 PROVE  Tells(f, j, "detached")
      BY DEF DetachIsSaid
    <3>1. ToSet(e.reasons) \subseteq ToSet(f.reasons)
      BY <1>2, <2>1, <2>9, CapIsPositive
    <3>2. CASE t[j].cause = "detached"
      <4>1. Cardinality(OverOf(t)) <= EndedCap
        BY <1>2, CapIsPositive
      <4>2. Tells(e, j, "detached")
        BY <3>2, <4>1 DEF EndsOK, DetachIsSaid
      <4> QED BY <3>1, <4>2 DEF Tells
    <3>3. CASE t[j].cause # "detached"
      <4>1. j = i /\ why = "detached"
        BY <3>3
      <4> QED BY <2>1, <2>2, <4>1 DEF Tells
    <3> QED BY <3>2, <3>3
  <2>11. IsAnswered(u, f)
    <3> SUFFICES ASSUME NEW j \in TermId, Silent(u, j), ~Answered(f, j)
                 PROVE  Cardinality(OverOf(u)) > EndedCap + 1
      BY DEF IsAnswered
    <3>1. j # i
      BY <2>1, <2>2, AnsweredFact
    <3>2. Silent(t, j)
      BY <3>1 DEF Silent
    <3>3. CASE Cardinality(OverOf(t)) > EndedCap + 1
      BY <1>2, <3>3, CapIsPositive
    <3>4. CASE ~(Cardinality(OverOf(t)) > EndedCap + 1)
      <4>1. Answered(e, j)
        BY <3>2, <3>4 DEF EndsOK, IsAnswered
      <4>2. (\E r \in ToSet(e.reasons) : r.id = j) \/ j \in ToSet(e.lost)
        BY <4>1, AnsweredFact
      <4>3. (\A r \in ToSet(f.reasons) : r.id # j) /\ j \notin ToSet(f.lost)
        BY AnsweredFact
      <4>4. PICK gone : Evicts(f, e, gone)
        BY <2>1, <4>2, <4>3
      <4>5. /\ ToSet(e.reasons) \ {gone} \subseteq ToSet(f.reasons)
            /\ gone.read => f.lost = e.lost
            /\ ~gone.read => gone.id \in ToSet(f.lost)
        BY <4>4 DEF Evicts
      <4>6. ~gone.read /\ gone.id # j
        <5>1. CASE \E r \in ToSet(e.reasons) : r.id = j
          <6>1. gone.id = j /\ gone \in ToSet(e.reasons)
            BY <4>3, <4>4, <4>5, <5>1, <2>9
          <6>2. ~gone.read
            BY <2>3, <3>2, <6>1 DEF Silent
          <6> QED BY <4>3, <4>5, <6>1, <6>2
        <5>2. CASE ~\E r \in ToSet(e.reasons) : r.id = j
          <6>1. j \in ToSet(e.lost)
            BY <4>2, <5>2
          <6> QED BY <2>9, <4>3, <4>4, <4>5, <5>2, <6>1
        <5> QED BY <5>1, <5>2
      <4>7. j \in OverOf(u) \ Ids(f.reasons)
        BY <4>3, IdsOfSet DEF Silent, OverOf
      <4>8. gone.id \in OverOf(u) \ Ids(f.reasons)
            /\ Cardinality(Ids(f.reasons)) = EndedCap
        BY <2>9, <4>4
      <4>9. Cardinality(OverOf(u)) >= Cardinality(Ids(f.reasons)) + 2
        BY <2>7, <4>6, <4>7, <4>8, OverCounted
      <4> QED BY <1>2, <4>8, <4>9, CapIsPositive
    <3> QED BY <3>3, <3>4
  <2> QED BY <1>1, <2>1, <2>6, <2>10, <2>11 DEF EndsOK
<1> QED BY <1>4, <1>5

LEMMA EndStep ==
  ASSUME NEW t \in [TermId -> TermRec], NEW u \in [TermId -> TermRec],
         NEW e, EndsOK(t, e),
         \A j \in TermId : u[j].told = t[j].told /\ (t[j].ssh = "over" => u[j] = t[j]),
         \A j \in TermId : t[j].ssh # "over" =>
           u[j].cause # "detached" /\ (u[j].ssh = "over" => u[j].pend # {})
  PROVE  EndsOK(u, e)
<1>1. /\ OverOf(t) \subseteq OverOf(u)
      /\ Cardinality(OverOf(t)) \in Nat /\ Cardinality(OverOf(u)) \in Nat
      /\ Cardinality(OverOf(t)) <= Cardinality(OverOf(u))
  BY MoreOver
<1>2. OnlyOverEnds(u, e)
  <2>1. \A r \in ToSet(e.reasons) :
          r.id \in OverOf(t) /\ r.id \in TermId /\ (r.read => t[r.id].told)
    BY DEF EndsOK, OnlyOverEnds, OverOf
  <2>2. ToSet(e.lost) \subseteq OverOf(t)
    BY DEF EndsOK, OnlyOverEnds
  <2> QED BY <1>1, <2>1, <2>2 DEF OnlyOverEnds
<1>3. DetachIsSaid(u, e)
  <2> SUFFICES ASSUME Cardinality(OverOf(u)) <= EndedCap,
                      NEW j \in TermId, u[j].cause = "detached"
               PROVE  Tells(e, j, "detached")
    BY DEF DetachIsSaid
  <2>1. t[j].cause = "detached"
    OBVIOUS
  <2>2. Cardinality(OverOf(t)) <= EndedCap
    BY <1>1, CapIsPositive
  <2> QED BY <2>1, <2>2 DEF EndsOK, DetachIsSaid
<1>4. IsAnswered(u, e)
  <2> SUFFICES ASSUME NEW j \in TermId, Silent(u, j)
               PROVE  Answered(e, j) \/ Cardinality(OverOf(u)) > EndedCap + 1
    BY DEF IsAnswered
  <2>1. Silent(t, j)
    BY DEF Silent
  <2>2. Answered(e, j) \/ Cardinality(OverOf(t)) > EndedCap + 1
    BY <2>1 DEF EndsOK, IsAnswered
  <2> QED BY <1>1, <2>2, CapIsPositive
<1> QED BY <1>2, <1>3, <1>4 DEF EndsOK

LEMMA AttachStep ==
  ASSUME NEW t \in [TermId -> TermRec], NEW u \in [TermId -> TermRec],
         NEW e, Stored(e), EndsOK(t, e), NEW i \in TermId, t[i].ssh # "over",
         u[i].ssh # "over", u[i].cause # "detached",
         \A j \in TermId : j # i => u[j] = t[j]
  PROVE  Stored(Opened(e, i)) /\ EndsOK(u, Opened(e, i))
<1>1. PICK f : f = Opened(e, i)
  OBVIOUS
<1>2. /\ Stored(f)
      /\ ToSet(f.reasons) = {r \in ToSet(e.reasons) : r.id # i}
      /\ ToSet(f.lost) = ToSet(e.lost) \ {i}
  BY <1>1, OpenedFact
<1>3. OverOf(u) = OverOf(t) /\ i \notin OverOf(t)
  BY DEF OverOf
<1>4. OnlyOverEnds(u, f)
  <2>1. \A r \in ToSet(e.reasons) :
          r.id \in OverOf(t) /\ r.id \in TermId /\ (r.read => t[r.id].told)
    BY DEF EndsOK, OnlyOverEnds, OverOf
  <2>2. ToSet(e.lost) \subseteq OverOf(t)
    BY DEF EndsOK, OnlyOverEnds
  <2> QED BY <1>2, <1>3, <2>1, <2>2 DEF OnlyOverEnds
<1>5. DetachIsSaid(u, f)
  <2> SUFFICES ASSUME Cardinality(OverOf(u)) <= EndedCap,
                      NEW j \in TermId, u[j].cause = "detached"
               PROVE  Tells(f, j, "detached")
    BY DEF DetachIsSaid
  <2>1. j # i /\ t[j].cause = "detached"
    OBVIOUS
  <2>2. Tells(e, j, "detached")
    BY <1>3, <2>1 DEF EndsOK, DetachIsSaid
  <2> QED BY <1>2, <2>1, <2>2 DEF Tells
<1>6. IsAnswered(u, f)
  <2> SUFFICES ASSUME NEW j \in TermId, Silent(u, j)
               PROVE  Answered(f, j) \/ Cardinality(OverOf(u)) > EndedCap + 1
    BY DEF IsAnswered
  <2>1. j # i /\ Silent(t, j)
    BY DEF Silent
  <2>2. Answered(e, j) \/ Cardinality(OverOf(t)) > EndedCap + 1
    BY <2>1 DEF EndsOK, IsAnswered
  <2>3. CASE Answered(e, j)
    BY <1>2, <2>1, <2>3, AnsweredFact
  <2> QED BY <1>3, <2>2, <2>3
<1> QED BY <1>1, <1>2, <1>4, <1>5, <1>6 DEF EndsOK

LEMMA ReadStep ==
  ASSUME NEW t \in [TermId -> TermRec], NEW u \in [TermId -> TermRec],
         NEW e, Stored(e), EndsOK(t, e), NEW i \in TermId, u[i].told,
         \A j \in TermId : /\ u[j].ssh = t[j].ssh /\ u[j].pend = t[j].pend
                           /\ u[j].cause = t[j].cause /\ (t[j].told => u[j].told)
  PROVE  Stored(Read(e, i)) /\ EndsOK(u, Read(e, i))
<1>1. PICK f : f = Read(e, i)
  OBVIOUS
<1>2. /\ Stored(f) /\ f.lost = e.lost
      /\ \A r \in ToSet(f.reasons) : \E x \in ToSet(e.reasons) :
           r.id = x.id /\ r.why = x.why /\ (r.read => x.read \/ r.id = i)
      /\ \A x \in ToSet(e.reasons) : \E r \in ToSet(f.reasons) :
           r.id = x.id /\ r.why = x.why
  BY <1>1, ReadFact, ZenonT(40)
<1>3. OverOf(u) = OverOf(t)
  BY DEF OverOf
<1>4. OnlyOverEnds(u, f)
  <2>1. \A r \in ToSet(e.reasons) :
          r.id \in OverOf(t) /\ r.id \in TermId /\ (r.read => t[r.id].told)
    BY DEF EndsOK, OnlyOverEnds, OverOf
  <2>2. ToSet(e.lost) \subseteq OverOf(t)
    BY DEF EndsOK, OnlyOverEnds
  <2>3. \A r \in ToSet(f.reasons) : r.id \in OverOf(t) /\ (r.read => u[r.id].told)
    BY <1>2, <2>1
  <2> QED BY <1>2, <1>3, <2>2, <2>3 DEF OnlyOverEnds
<1>5. DetachIsSaid(u, f)
  <2> SUFFICES ASSUME Cardinality(OverOf(u)) <= EndedCap,
                      NEW j \in TermId, u[j].cause = "detached"
               PROVE  Tells(f, j, "detached")
    BY DEF DetachIsSaid
  <2>1. Tells(e, j, "detached")
    BY <1>3 DEF EndsOK, DetachIsSaid
  <2> QED BY <1>2, <2>1 DEF Tells
<1>6. IsAnswered(u, f)
  <2> SUFFICES ASSUME NEW j \in TermId, Silent(u, j)
               PROVE  Answered(f, j) \/ Cardinality(OverOf(u)) > EndedCap + 1
    BY DEF IsAnswered
  <2>1. Silent(t, j)
    BY DEF Silent
  <2>2. Answered(e, j) \/ Cardinality(OverOf(t)) > EndedCap + 1
    BY <2>1 DEF EndsOK, IsAnswered
  <2>3. CASE Answered(e, j)
    BY <1>2, <2>3, AnsweredFact
  <2> QED BY <1>3, <2>2, <2>3
<1> QED BY <1>1, <1>2, <1>4, <1>5, <1>6 DEF EndsOK

-----------------------------------------------------------------------------
(* The inductive invariant.                                                  *)

Closing == [at : {"closing"}, host : Hosts, ids : Seq(TermId)]
Calling == [at : {"calling"}, host : Hosts, epoch : 0..MaxEpochs]

NotedOK(nt) ==
  nt \in [Hosts -> Seq(TermId)] /\ \A h \in Hosts : IsInjective(nt[h])
MainOK(m) ==
  m = Idle \/ (m \in Closing /\ m.ids # <<>>) \/ m \in Calling

Typed ==
  /\ link \in [Hosts -> [gen : 0..MaxGens, epoch : 0..MaxEpochs]]
  /\ gens \in 0..MaxGens /\ nextTerm \in 1..MaxTerms + 1
  /\ daemon \in [Hosts -> 1..MaxEpochs]
  /\ term \in [TermId -> TermRec]
  /\ NotedOK(noted) /\ MainOK(mainThread) /\ Stored(ended)

(* Numbers are given out in order, and only those given out are listed.      *)
Begun ==
  /\ \A i \in TermId : term[i].ssh = "none" <=> i >= nextTerm
  /\ \A h \in Hosts : \A i \in ToSet(noted[h]) : i < nextTerm
  /\ mainThread.at = "closing" => \A i \in ToSet(mainThread.ids) : i < nextTerm

TermsOK ==
  \A i \in TermId : term[i].pend # {} \/ term[i].cause # "none" => term[i].ssh = "over"

LinksOK == \A h \in Hosts : link[h].epoch # 0 => link[h].gen # 0
LiveHasLink == \A i \in TermId : Alive(i) => term[i].gen # 0

RTInv ==
  /\ Typed /\ Begun /\ TermsOK /\ LinksOK /\ LiveHasLink /\ LiveBelongs
  /\ EndsOK(term, ended) /\ ReachesWhatIsShown

-----------------------------------------------------------------------------
(* Steps that leave the terminals and what is said of them alone.            *)
LEMMA WorldStep ==
  ASSUME RTInv, UNCHANGED <<term, ended, noted, nextTerm>>,
         link' \in [Hosts -> [gen : 0..MaxGens, epoch : 0..MaxEpochs]],
         gens' \in 0..MaxGens, daemon' \in [Hosts -> 1..MaxEpochs],
         MainOK(mainThread'), LinksOK', ReachesWhatIsShown',
         \A h \in Hosts : link'[h].gen = link[h].gen,
         \/ mainThread' = mainThread
         \/ mainThread.at # "closing" /\ mainThread'.at # "closing"
  PROVE  RTInv'
<1>1. Typed'
  <2>1. /\ nextTerm' \in 1..MaxTerms + 1 /\ term' \in [TermId -> TermRec]
        /\ NotedOK(noted') /\ Stored(ended')
    BY DEF RTInv, Typed
  <2> QED BY <2>1 DEF Typed
<1>2. Begun'
  BY DEF RTInv, Begun
<1>3. TermsOK' /\ LiveHasLink'
  BY DEF RTInv, TermsOK, LiveHasLink, Alive
<1>4. LiveBelongs'
  <2> SUFFICES ASSUME NEW i \in TermId, Alive(i)
               PROVE  \/ i \in ToSet(noted[term[i].host])
                         /\ link'[term[i].host].gen = term[i].gen
                      \/ mainThread'.at = "closing" /\ i \in ToSet(mainThread'.ids)
    BY DEF LiveBelongs, Alive
  <2>1. term[i] \in TermRec
    BY DEF RTInv, Typed
  <2>2. term[i].host \in Hosts
    BY <2>1 DEF TermRec
  <2>3. \/ i \in ToSet(noted[term[i].host]) /\ link[term[i].host].gen = term[i].gen
        \/ mainThread.at = "closing" /\ i \in ToSet(mainThread.ids)
    BY DEF RTInv, LiveBelongs
  <2> QED BY <2>2, <2>3
<1>5. EndsOK(term', ended')
  BY DEF RTInv
<1> QED BY <1>1, <1>2, <1>3, <1>4, <1>5 DEF RTInv

LEMMA EpochFact ==
  ASSUME Typed, NEW h \in Hosts
  PROVE  /\ link[h] \in [gen : 0..MaxGens, epoch : 0..MaxEpochs]
         /\ link[h].gen \in 0..MaxGens /\ link[h].epoch \in 0..MaxEpochs
         /\ daemon[h] \in 1..MaxEpochs
<1>1. link[h] \in [gen : 0..MaxGens, epoch : 0..MaxEpochs] /\ daemon[h] \in 1..MaxEpochs
  BY DEF Typed
<1> QED BY <1>1

LEMMA AtFact ==
  ASSUME NEW m, MainOK(m)
  PROVE  /\ m.at \in {"idle", "closing", "calling"}
         /\ m.at = "idle" <=> m = Idle
         /\ m.at = "closing" => m \in Closing /\ m.ids # <<>>
         /\ m.at = "calling" => m \in Calling
BY DEF MainOK, Idle, Closing, Calling

LEMMA HelloStep == ASSUME RTInv, NEW h \in Hosts, Hello(h) PROVE RTInv'
<1>1. Typed /\ LinksOK
  BY DEF RTInv
<1>2. PICK l : l = [link[h] EXCEPT !.epoch = daemon[h]]
  OBVIOUS
<1>3. link' = [link EXCEPT ![h] = l]
  BY <1>2 DEF Hello
<1>4. /\ l \in [gen : 0..MaxGens, epoch : 0..MaxEpochs] /\ l.gen = link[h].gen
      /\ link[h].gen # 0
  <2>1. daemon[h] \in 0..MaxEpochs
    BY <1>1, EpochFact
  <2> QED BY <1>1, <1>2, <2>1, EpochFact DEF Hello
<1>5. link \in [Hosts -> [gen : 0..MaxGens, epoch : 0..MaxEpochs]]
  BY <1>1 DEF Typed
<1>6. link' \in [Hosts -> [gen : 0..MaxGens, epoch : 0..MaxEpochs]]
  BY <1>3, <1>4, <1>5
<1>7. \A k \in Hosts : link'[k] = IF k = h THEN l ELSE link[k]
  BY <1>3, <1>5
<1>8. \A k \in Hosts : link'[k].gen = link[k].gen
  BY <1>4, <1>7
<1>9. LinksOK'
  BY <1>1, <1>4, <1>7 DEF LinksOK
<1>10. UNCHANGED <<gens, nextTerm, daemon, term, noted, ended, mainThread, hits>>
  BY DEF Hello
<1>11. /\ gens' \in 0..MaxGens /\ daemon' \in [Hosts -> 1..MaxEpochs]
       /\ MainOK(mainThread') /\ ReachesWhatIsShown'
  BY <1>1, <1>10 DEF Typed, RTInv, ReachesWhatIsShown
<1> QED BY <1>6, <1>8, <1>9, <1>10, <1>11, WorldStep

LEMMA DaemonRestartsStep ==
  ASSUME RTInv, NEW h \in Hosts, DaemonRestarts(h) PROVE RTInv'
<1>1. Typed /\ LinksOK
  BY DEF RTInv
<1>2. UNCHANGED <<link, gens, nextTerm, term, noted, ended, mainThread, hits>>
  BY DEF DaemonRestarts
<1>3. daemon' \in [Hosts -> 1..MaxEpochs]
  <2>1. daemon' = [daemon EXCEPT ![h] = daemon[h] + 1] /\ daemon[h] < MaxEpochs
    BY DEF DaemonRestarts
  <2>2. daemon[h] \in 1..MaxEpochs /\ MaxEpochs \in Nat
    BY <1>1, EpochFact, RemoteTerminalsAssumption
  <2>3. daemon[h] + 1 \in 1..MaxEpochs
    BY <2>1, <2>2
  <2> QED BY <1>1, <2>1, <2>3 DEF Typed
<1>4. /\ link' \in [Hosts -> [gen : 0..MaxGens, epoch : 0..MaxEpochs]]
      /\ gens' \in 0..MaxGens /\ MainOK(mainThread') /\ ReachesWhatIsShown' /\ LinksOK'
  BY <1>1, <1>2 DEF Typed, RTInv, ReachesWhatIsShown, LinksOK
<1> QED BY <1>2, <1>3, <1>4, WorldStep

(* Commands that only hold the main thread, and their end.                   *)
LEMMA CallStep ==
  ASSUME RTInv, NEW h \in Hosts, NEW epoch \in 0..MaxEpochs,
         mainThread = Idle, mainThread' = Call(h, epoch),
         UNCHANGED <<link, gens, nextTerm, daemon, term, noted, ended, hits>>
  PROVE  RTInv'
<1>1. Typed /\ LinksOK
  BY DEF RTInv
<1>2. MainOK(mainThread') /\ mainThread.at # "closing" /\ mainThread'.at # "closing"
  BY DEF MainOK, Call, Calling, Idle
<1>3. /\ link' \in [Hosts -> [gen : 0..MaxGens, epoch : 0..MaxEpochs]]
      /\ gens' \in 0..MaxGens /\ daemon' \in [Hosts -> 1..MaxEpochs]
      /\ ReachesWhatIsShown' /\ LinksOK'
  BY <1>1 DEF Typed, RTInv, ReachesWhatIsShown, LinksOK
<1> QED BY <1>2, <1>3, WorldStep

LEMMA CommandEndsStep ==
  ASSUME RTInv, NEW reached \in SUBSET Reached, CommandEnds(reached)
  PROVE  RTInv'
<1>1. Typed /\ LinksOK
  BY DEF RTInv
<1>2. UNCHANGED <<link, gens, nextTerm, daemon, term, noted, ended>>
  BY DEF CommandEnds
<1>3. MainOK(mainThread') /\ mainThread.at # "closing" /\ mainThread'.at # "closing"
  BY DEF CommandEnds, MainOK, Idle
<1>4. ReachesWhatIsShown'
  <2>1. \A p \in Reached : p[1] = p[2]
    BY DEF Reached, Named
  <2>2. \A p \in hits : p[1] = p[2]
    BY DEF RTInv, ReachesWhatIsShown
  <2>3. hits' = hits \cup reached
    BY DEF CommandEnds
  <2> QED BY <2>1, <2>2, <2>3 DEF ReachesWhatIsShown
<1>5. /\ link' \in [Hosts -> [gen : 0..MaxGens, epoch : 0..MaxEpochs]]
      /\ gens' \in 0..MaxGens /\ daemon' \in [Hosts -> 1..MaxEpochs] /\ LinksOK'
  BY <1>1, <1>2 DEF Typed, LinksOK
<1> QED BY <1>2, <1>3, <1>4, <1>5, WorldStep

-----------------------------------------------------------------------------
(* Steps of one terminal outside the commands' lists.                        *)
LEMMA TermStep ==
  ASSUME RTInv, NEW i \in TermId, NEW x \in TermRec, Alive(i),
         term' = [term EXCEPT ![i] = x],
         UNCHANGED <<link, gens, nextTerm, daemon, noted, ended, mainThread>>,
         ReachesWhatIsShown',
         x.host = term[i].host, x.gen = term[i].gen, x.told = term[i].told,
         x.cause # "detached",
         \/ x.ssh = "over" /\ x.pend # {}
         \/ x.ssh = "up" /\ x.pend = {} /\ x.cause = "none"
  PROVE  RTInv'
<1>1. Typed /\ term \in [TermId -> TermRec]
  BY DEF RTInv, Typed
<1>2. term' \in [TermId -> TermRec]
  BY <1>1
<1>3. term'[i] = x /\ \A j \in TermId : j # i => term'[j] = term[j]
  BY <1>1
<1>4. Typed'
  BY <1>1, <1>2 DEF Typed
<1>5. Begun'
  <2>1. \A j \in TermId : term'[j].ssh = "none" <=> term[j].ssh = "none"
    BY <1>3 DEF Alive
  <2> QED BY <2>1 DEF RTInv, Begun
<1>6. TermsOK'
  BY <1>3 DEF RTInv, TermsOK
<1>7. LinksOK'
  BY DEF RTInv, LinksOK
<1>8. LiveHasLink' /\ LiveBelongs'
  <2>1. \A j \in TermId : /\ Alive(j)' => Alive(j)
                          /\ term'[j].gen = term[j].gen /\ term'[j].host = term[j].host
    BY <1>3 DEF Alive
  <2>2. LiveHasLink'
    BY <2>1 DEF RTInv, LiveHasLink
  <2>3. ASSUME NEW j \in TermId, Alive(j)'
        PROVE  \/ j \in ToSet(noted'[term'[j].host])
                  /\ link'[term'[j].host].gen = term'[j].gen
               \/ mainThread'.at = "closing" /\ j \in ToSet(mainThread'.ids)
    BY <2>1, <2>3 DEF RTInv, LiveBelongs
  <2> QED BY <2>2, <2>3 DEF LiveBelongs
<1>9. EndsOK(term', ended')
  <2>1. PICK t, u, e : t = term /\ u = term' /\ e = ended
    OBVIOUS
  <2>2. t \in [TermId -> TermRec] /\ u \in [TermId -> TermRec] /\ EndsOK(t, e)
    BY <1>1, <1>2, <2>1 DEF RTInv
  <2>3. \A j \in TermId : u[j].told = t[j].told /\ (t[j].ssh = "over" => u[j] = t[j])
    BY <1>3, <2>1 DEF Alive
  <2>4. \A j \in TermId : t[j].ssh # "over" =>
          u[j].cause # "detached" /\ (u[j].ssh = "over" => u[j].pend # {})
    BY <1>3, <2>1 DEF RTInv, TermsOK
  <2>5. EndsOK(u, e)
    BY <2>2, <2>3, <2>4, EndStep
  <2> QED BY <2>1, <2>5
<1> QED BY <1>4, <1>5, <1>6, <1>7, <1>8, <1>9 DEF RTInv

LEMMA OverFact ==
  ASSUME Typed, NEW i \in TermId, NEW cause \in {"exec", "status", "tab", "detached"}
  PROVE  /\ Over(i, cause) \in TermRec
         /\ Over(i, cause).ssh = "over" /\ Over(i, cause).cause = cause
         /\ Over(i, cause).pend # {} /\ Over(i, cause).host = term[i].host
         /\ Over(i, cause).gen = term[i].gen /\ Over(i, cause).told = term[i].told
         /\ Over(i, cause).epoch = term[i].epoch
<1>1. PICK x : x = term[i]
  OBVIOUS
<1>2. x \in TermRec
  BY <1>1 DEF Typed
<1>3. PICK p : p = Reports(term[i].ssh, cause)
  OBVIOUS
<1>4. p \in SUBSET Relays /\ p # {}
  BY <1>3 DEF Reports, Relays
<1>5. Over(i, cause) = [x EXCEPT !.ssh = "over", !.cause = cause, !.pend = p]
  BY <1>1, <1>3 DEF Over
<1> QED BY <1>1, <1>2, <1>4, <1>5 DEF TermRec

LEMMA EndsAloneStep == ASSUME RTInv, NEW i \in TermId, EndsAlone(i) PROVE RTInv'
<1>1. Typed
  BY DEF RTInv
<1>2. PICK cause \in {"exec", "status"} : term' = [term EXCEPT ![i] = Over(i, cause)]
  <2>1. term' = [term EXCEPT ![i] = Over(i, IF term[i].ssh = "up" THEN "exec" ELSE "status")]
    BY DEF EndsAlone
  <2> QED BY <2>1
<1>3. PICK x : x = Over(i, cause)
  OBVIOUS
<1>4. /\ x \in TermRec /\ x.ssh = "over" /\ x.cause = cause /\ x.pend # {}
      /\ x.host = term[i].host /\ x.gen = term[i].gen /\ x.told = term[i].told
  BY <1>1, <1>3, OverFact
<1>5. UNCHANGED <<link, gens, nextTerm, daemon, noted, ended, mainThread, hits>>
      /\ Alive(i)
  BY DEF EndsAlone, Alive
<1>6. ReachesWhatIsShown'
  BY <1>5 DEF RTInv, ReachesWhatIsShown
<1> QED BY <1>2, <1>3, <1>4, <1>5, <1>6, TermStep

LEMMA TerminalCloseStep == ASSUME RTInv, NEW i \in TermId, TerminalClose(i) PROVE RTInv'
<1>1. Typed
  BY DEF RTInv
<1>2. term' = [term EXCEPT ![i] = Over(i, "tab")] /\ Alive(i)
  BY DEF TerminalClose, Removed, Alive
<1>3. PICK x : x = Over(i, "tab")
  OBVIOUS
<1>4. /\ x \in TermRec /\ x.ssh = "over" /\ x.cause = "tab" /\ x.pend # {}
      /\ x.host = term[i].host /\ x.gen = term[i].gen /\ x.told = term[i].told
  BY <1>1, <1>3, OverFact
<1>5. UNCHANGED <<link, gens, nextTerm, daemon, noted, ended, mainThread, hits>>
  BY DEF TerminalClose
<1>6. ReachesWhatIsShown'
  BY <1>5 DEF RTInv, ReachesWhatIsShown
<1> QED BY <1>2, <1>3, <1>4, <1>5, <1>6, TermStep

LEMMA ConnectsStep == ASSUME RTInv, NEW i \in TermId, Connects(i) PROVE RTInv'
<1>1. Typed /\ term \in [TermId -> TermRec]
  BY DEF RTInv, Typed
<1>2. UNCHANGED <<link, gens, nextTerm, daemon, noted, ended, mainThread>>
      /\ Alive(i) /\ term[i].ssh = "connecting"
  BY DEF Connects, Alive
<1>3. CASE term[i].epoch = daemon[term[i].host]
  <2>1. PICK x : x = [term[i] EXCEPT !.ssh = "up"]
    OBVIOUS
  <2>2. term' = [term EXCEPT ![i] = x]
        /\ hits' = hits \cup {<<term[i].epoch, daemon[term[i].host]>>}
    BY <1>3, <2>1 DEF Connects
  <2>3. /\ x \in TermRec /\ x.ssh = "up" /\ x.pend = term[i].pend
        /\ x.cause = term[i].cause /\ x.host = term[i].host /\ x.gen = term[i].gen
        /\ x.told = term[i].told
    <3>1. term[i] \in TermRec
      BY <1>1
    <3> QED BY <2>1, <3>1 DEF TermRec
  <2>4. term[i].pend = {} /\ term[i].cause = "none"
    BY <1>2 DEF RTInv, TermsOK
  <2>5. ReachesWhatIsShown'
    BY <1>3, <2>2 DEF RTInv, ReachesWhatIsShown
  <2> QED BY <1>2, <2>2, <2>3, <2>4, <2>5, TermStep
<1>4. CASE term[i].epoch # daemon[term[i].host]
  <2>1. PICK y : y = Over(i, "exec")
    OBVIOUS
  <2>2. PICK x : x = [y EXCEPT !.pend = Relays]
    OBVIOUS
  <2>3. term' = [term EXCEPT ![i] = x] /\ hits' = hits
    BY <1>4, <2>1, <2>2 DEF Connects
  <2>4. /\ y \in TermRec /\ y.ssh = "over" /\ y.cause = "exec"
        /\ y.host = term[i].host /\ y.gen = term[i].gen /\ y.told = term[i].told
    BY <1>1, <2>1, OverFact
  <2>5. /\ x \in TermRec /\ x.ssh = "over" /\ x.cause = "exec" /\ x.pend # {}
        /\ x.host = term[i].host /\ x.gen = term[i].gen /\ x.told = term[i].told
    BY <2>2, <2>4 DEF TermRec, Relays
  <2>6. ReachesWhatIsShown'
    BY <2>3 DEF RTInv, ReachesWhatIsShown
  <2> QED BY <1>2, <2>3, <2>5, <2>6, TermStep
<1> QED BY <1>3, <1>4

-----------------------------------------------------------------------------
(* Steps on the registry's lists.                                            *)
LEMMA RetainedIds ==
  ASSUME NEW q \in Seq(TermId), IsInjective(q), NEW i \in TermId
  PROVE  /\ Retained(q, {i}) \in Seq(TermId) /\ IsInjective(Retained(q, {i}))
         /\ ToSet(Retained(q, {i})) = ToSet(q) \ {i}
<1>1. PICK r : r = Retained(q, {i})
  OBVIOUS
<1>2. LeftOf(r, q, {i}, Len(q), TermId)
  BY <1>1, RetainedFact
<1>3. r \in Seq(TermId) /\ Len(r) \in Nat /\ DOMAIN r = 1..Len(r)
      /\ DOMAIN q = 1..Len(q) /\ Len(q) \in Nat
  BY <1>2 DEF LeftOf
<1>4. IsInjective(r)
  <2>1. ASSUME NEW a \in DOMAIN r, NEW b \in DOMAIN r, a < b, r[a] = r[b]
        PROVE  FALSE
    <3>1. PICK k, l \in 1..Len(q) : k < l /\ q[k] = r[a] /\ q[l] = r[b]
      BY <1>2, <2>1 DEF LeftOf
    <3>2. k = l
      BY <1>3, <2>1, <3>1 DEF IsInjective
    <3> QED BY <3>1, <3>2
  <2> SUFFICES ASSUME NEW a \in DOMAIN r, NEW b \in DOMAIN r, r[a] = r[b]
               PROVE  a = b
    BY DEF IsInjective
  <2>2. a < b \/ b < a \/ a = b
    BY <1>3
  <2> QED BY <2>1, <2>2
<1>5. ASSUME NEW x \in ToSet(r) PROVE x \in ToSet(q) \ {i}
  <2>1. PICK k \in DOMAIN r : x = r[k]
    BY DEF ToSet
  <2>2. x \notin {i} /\ \E l \in 1..Len(q) : q[l] = x
    BY <1>2, <2>1 DEF LeftOf
  <2> QED BY <1>3, <2>2 DEF ToSet
<1>6. ASSUME NEW x \in ToSet(q) \ {i} PROVE x \in ToSet(r)
  <2>1. PICK l \in 1..Len(q) : x = q[l]
    BY <1>3 DEF ToSet
  <2>2. q[l] \notin {i}
    BY <2>1
  <2>3. \E k \in DOMAIN r : r[k] = q[l]
    BY <1>2, <2>2 DEF LeftOf
  <2> QED BY <2>1, <2>3 DEF ToSet
<1> QED BY <1>1, <1>3, <1>4, <1>5, <1>6

LEMMA NotedRetained ==
  ASSUME NotedOK(noted), NEW i \in TermId,
         noted' = [h \in Hosts |-> Retained(noted[h], {i})]
  PROVE  NotedOK(noted') /\ \A h \in Hosts : ToSet(noted'[h]) = ToSet(noted[h]) \ {i}
<1>1. ASSUME NEW h \in Hosts
      PROVE  /\ noted'[h] \in Seq(TermId) /\ IsInjective(noted'[h])
             /\ ToSet(noted'[h]) = ToSet(noted[h]) \ {i}
  <2>1. noted[h] \in Seq(TermId) /\ IsInjective(noted[h])
    BY DEF NotedOK
  <2>2. noted'[h] = Retained(noted[h], {i})
    OBVIOUS
  <2> QED BY <2>1, <2>2, RetainedIds
<1> QED BY <1>1 DEF NotedOK

LEMMA RelayReportsStep ==
  ASSUME RTInv, NEW i \in TermId, NEW r \in Relays, RelayReports(i, r)
  PROVE  RTInv'
<1>1. Typed /\ term \in [TermId -> TermRec]
  BY DEF RTInv, Typed
<1>2. UNCHANGED <<link, gens, nextTerm, daemon, mainThread, hits>>
      /\ r \in term[i].pend /\ ended' = Recorded(ended, i, r)
      /\ noted' = [h \in Hosts |-> Retained(noted[h], {i})]
  BY DEF RelayReports
<1>3. PICK x : x = [term[i] EXCEPT !.pend = @ \ {r}]
  OBVIOUS
<1>4. term' = [term EXCEPT ![i] = x]
  BY <1>3 DEF RelayReports
<1>5. /\ x \in TermRec /\ x.ssh = term[i].ssh /\ x.cause = term[i].cause
      /\ x.told = term[i].told /\ x.host = term[i].host /\ x.gen = term[i].gen
  <2>1. term[i] \in TermRec
    BY <1>1
  <2> QED BY <1>3, <2>1 DEF TermRec
<1>6. term' \in [TermId -> TermRec]
      /\ term'[i] = x /\ \A j \in TermId : j # i => term'[j] = term[j]
  BY <1>1, <1>4, <1>5
<1>7. term[i].ssh = "over"
  BY <1>2 DEF RTInv, TermsOK
<1>8. NotedOK(noted') /\ \A h \in Hosts : ToSet(noted'[h]) = ToSet(noted[h]) \ {i}
  BY <1>1, <1>2, NotedRetained DEF Typed
<1>9. Stored(ended') /\ EndsOK(term', ended')
  <2>1. PICK t, u, e : t = term /\ u = term' /\ e = ended
    OBVIOUS
  <2>2. /\ t \in [TermId -> TermRec] /\ u \in [TermId -> TermRec]
        /\ Stored(e) /\ EndsOK(t, e) /\ r \in Relays \cup {"detached"}
    BY <1>1, <1>6, <2>1 DEF RTInv, Typed
  <2>3. \A j \in TermId : j # i => u[j] = t[j]
    BY <1>6, <2>1
  <2>4. u[i].ssh = "over" /\ u[i].told = t[i].told
        /\ t[i].ssh = "over" /\ u[i].cause = t[i].cause
    BY <1>5, <1>6, <1>7, <2>1
  <2>5. Stored(Recorded(e, i, r)) /\ EndsOK(u, Recorded(e, i, r))
    BY <2>2, <2>3, <2>4, RecordStep
  <2> QED BY <1>2, <2>1, <2>5
<1>10. Typed'
  BY <1>1, <1>2, <1>6, <1>8, <1>9 DEF Typed
<1>11. Begun'
  <2>1. \A j \in TermId : term'[j].ssh = "none" <=> term[j].ssh = "none"
    BY <1>5, <1>6
  <2> QED BY <1>2, <1>8, <2>1 DEF RTInv, Begun
<1>12. TermsOK'
  BY <1>5, <1>6, <1>7 DEF RTInv, TermsOK
<1>13. LinksOK' /\ ReachesWhatIsShown'
  BY <1>2 DEF RTInv, LinksOK, ReachesWhatIsShown
<1>14. LiveHasLink' /\ LiveBelongs'
  <2>1. \A j \in TermId : Alive(j)' => Alive(j) /\ j # i /\ term'[j] = term[j]
    BY <1>5, <1>6, <1>7 DEF Alive
  <2>2. LiveHasLink'
    BY <2>1 DEF RTInv, LiveHasLink
  <2>3. ASSUME NEW j \in TermId, Alive(j)'
        PROVE  \/ j \in ToSet(noted'[term'[j].host])
                  /\ link'[term'[j].host].gen = term'[j].gen
               \/ mainThread'.at = "closing" /\ j \in ToSet(mainThread'.ids)
    <3>1. Alive(j) /\ j # i /\ term'[j] = term[j]
      BY <2>1, <2>3
    <3>2. \/ j \in ToSet(noted[term[j].host]) /\ link[term[j].host].gen = term[j].gen
          \/ mainThread.at = "closing" /\ j \in ToSet(mainThread.ids)
      BY <3>1 DEF RTInv, LiveBelongs
    <3>3. term[j] \in TermRec
      BY <1>1
    <3>4. term[j].host \in Hosts
      BY <3>3 DEF TermRec
    <3> QED BY <1>2, <1>8, <3>1, <3>2, <3>4
  <2> QED BY <2>2, <2>3 DEF LiveBelongs
<1> QED BY <1>9, <1>10, <1>11, <1>12, <1>13, <1>14 DEF RTInv

LEMMA EmptyList ==
  /\ <<>> \in Seq(TermId) /\ IsInjective(<<>>) /\ ToSet(<<>>) = {}
BY EmptySeq DEF IsInjective, ToSet

(* A detach, and a re-attach of a host: the list moves to the main thread.   *)
LEMMA DetachStep ==
  ASSUME RTInv, NEW h \in Hosts, NEW l \in [gen : 0..MaxGens, epoch : 0..MaxEpochs],
         mainThread = Idle, l.epoch = 0, link' = [link EXCEPT ![h] = l],
         gens' \in 0..MaxGens, mainThread' = CloseAll(h),
         noted' = [noted EXCEPT ![h] = <<>>],
         UNCHANGED <<nextTerm, daemon, term, ended, hits>>
  PROVE  RTInv'
<1>1. Typed /\ term \in [TermId -> TermRec] /\ NotedOK(noted)
  BY DEF RTInv, Typed
<1>2. /\ link' \in [Hosts -> [gen : 0..MaxGens, epoch : 0..MaxEpochs]]
      /\ link'[h] = l /\ \A k \in Hosts : k # h => link'[k] = link[k]
  BY <1>1 DEF Typed
<1>3. /\ noted' \in [Hosts -> Seq(TermId)] /\ noted'[h] = <<>>
      /\ \A k \in Hosts : k # h => noted'[k] = noted[k]
  BY <1>1, EmptyList DEF NotedOK
<1>4. NotedOK(noted')
  BY <1>1, <1>3, EmptyList DEF NotedOK
<1>5. noted[h] \in Seq(TermId)
  BY <1>1 DEF NotedOK
<1>6. \/ noted[h] = <<>> /\ mainThread' = Idle
      \/ /\ noted[h] # <<>> /\ mainThread'.at = "closing"
         /\ mainThread'.ids = noted[h] /\ mainThread' \in Closing
  BY <1>5 DEF CloseAll, Closing
<1>7. MainOK(mainThread')
  BY <1>6 DEF MainOK
<1>8. Typed'
  BY <1>1, <1>2, <1>4, <1>7 DEF Typed
<1>9. Begun'
  <2>1. \A i \in TermId : term[i].ssh = "none" <=> i >= nextTerm
    BY DEF RTInv, Begun
  <2>2. \A k \in Hosts : \A i \in ToSet(noted[k]) : i < nextTerm
    BY DEF RTInv, Begun
  <2>3. \A k \in Hosts : \A i \in ToSet(noted'[k]) : i < nextTerm
    BY <1>3, <2>2, EmptyList
  <2>4. mainThread'.at = "closing" => \A i \in ToSet(mainThread'.ids) : i < nextTerm
    BY <1>6, <2>2 DEF Idle
  <2> QED BY <2>1, <2>3, <2>4 DEF Begun
<1>10. TermsOK' /\ LiveHasLink' /\ ReachesWhatIsShown'
  BY DEF RTInv, TermsOK, LiveHasLink, Alive, ReachesWhatIsShown
<1>11. LinksOK'
  BY <1>2 DEF RTInv, LinksOK
<1>12. LiveBelongs'
  <2> SUFFICES ASSUME NEW j \in TermId, Alive(j)
               PROVE  \/ j \in ToSet(noted'[term[j].host])
                         /\ link'[term[j].host].gen = term[j].gen
                      \/ mainThread'.at = "closing" /\ j \in ToSet(mainThread'.ids)
    BY DEF LiveBelongs, Alive
  <2>1. j \in ToSet(noted[term[j].host]) /\ link[term[j].host].gen = term[j].gen
    BY DEF RTInv, LiveBelongs, Idle
  <2>2. term[j] \in TermRec
    BY <1>1
  <2>3. term[j].host \in Hosts
    BY <2>2 DEF TermRec
  <2>4. CASE term[j].host = h
    BY <1>6, <2>1, <2>4, EmptyList
  <2>5. CASE term[j].host # h
    BY <1>2, <1>3, <2>1, <2>3, <2>5
  <2> QED BY <2>4, <2>5
<1>13. EndsOK(term', ended')
  BY DEF RTInv
<1> QED BY <1>8, <1>9, <1>10, <1>11, <1>12, <1>13 DEF RTInv

LEMMA RemoteDisconnectStep ==
  ASSUME RTInv, NEW h \in Hosts, RemoteDisconnect(h) PROVE RTInv'
<1>1. PICK l : l = Unlinked
  OBVIOUS
<1>2. l \in [gen : 0..MaxGens, epoch : 0..MaxEpochs] /\ l.epoch = 0
  BY <1>1, RemoteTerminalsAssumption DEF Unlinked
<1>3. gens' \in 0..MaxGens
  BY DEF RemoteDisconnect, RTInv, Typed
<1>4. /\ mainThread = Idle /\ link' = [link EXCEPT ![h] = l]
      /\ mainThread' = CloseAll(h) /\ noted' = [noted EXCEPT ![h] = <<>>]
      /\ UNCHANGED <<nextTerm, daemon, term, ended, hits>>
  BY <1>1 DEF RemoteDisconnect
<1> QED BY <1>2, <1>3, <1>4, DetachStep

LEMMA RemoteConnectStep ==
  ASSUME RTInv, NEW h \in Hosts, RemoteConnect(h) PROVE RTInv'
<1>1. Typed /\ LinksOK /\ term \in [TermId -> TermRec]
  BY DEF RTInv, Typed
<1>2. PICK l : l = [Unlinked EXCEPT !.gen = gens + 1]
  OBVIOUS
<1>3. gens + 1 \in 0..MaxGens
  BY <1>1, RemoteTerminalsAssumption DEF RemoteConnect, Typed
<1>4. l \in [gen : 0..MaxGens, epoch : 0..MaxEpochs] /\ l.epoch = 0
  BY <1>2, <1>3, RemoteTerminalsAssumption DEF Unlinked
<1>5. /\ mainThread = Idle /\ link' = [link EXCEPT ![h] = l] /\ gens' \in 0..MaxGens
      /\ UNCHANGED <<nextTerm, daemon, term, ended, hits>>
  BY <1>2, <1>3 DEF RemoteConnect
<1>6. CASE link[h].gen # 0
  <2>1. mainThread' = CloseAll(h) /\ noted' = [noted EXCEPT ![h] = <<>>]
    BY <1>6 DEF RemoteConnect
  <2> QED BY <1>4, <1>5, <2>1, DetachStep
<1>7. CASE link[h].gen = 0
  <2>1. UNCHANGED <<mainThread, noted>>
    BY <1>7 DEF RemoteConnect
  <2>2. /\ link' \in [Hosts -> [gen : 0..MaxGens, epoch : 0..MaxEpochs]]
        /\ link'[h] = l /\ \A k \in Hosts : k # h => link'[k] = link[k]
    BY <1>1, <1>4, <1>5 DEF Typed
  <2>3. Typed' /\ Begun'
    BY <1>1, <1>5, <2>1, <2>2 DEF RTInv, Typed, Begun
  <2>4. TermsOK' /\ LiveHasLink' /\ ReachesWhatIsShown'
    BY <1>5 DEF RTInv, TermsOK, LiveHasLink, Alive, ReachesWhatIsShown
  <2>5. LinksOK'
    BY <1>1, <1>4, <2>2 DEF LinksOK
  <2>6. LiveBelongs'
    <3> SUFFICES ASSUME NEW j \in TermId, Alive(j)
                 PROVE  j \in ToSet(noted'[term[j].host])
                        /\ link'[term[j].host].gen = term[j].gen
      BY <1>5 DEF LiveBelongs, Alive
    <3>1. j \in ToSet(noted[term[j].host]) /\ link[term[j].host].gen = term[j].gen
      BY <1>5 DEF RTInv, LiveBelongs, Idle
    <3>2. term[j].gen # 0
      BY DEF RTInv, LiveHasLink
    <3>3. term[j] \in TermRec
      BY <1>1
    <3>4. term[j].host \in Hosts
      BY <3>3 DEF TermRec
    <3>5. term[j].host # h
      BY <1>7, <3>1, <3>2
    <3> QED BY <2>1, <2>2, <3>1, <3>4, <3>5
  <2>7. EndsOK(term', ended')
    BY <1>5 DEF RTInv
  <2> QED BY <2>3, <2>4, <2>5, <2>6, <2>7 DEF RTInv
<1> QED BY <1>6, <1>7

LEMMA CloseNextStep == ASSUME RTInv, CloseNext PROVE RTInv'
<1>1. Typed /\ term \in [TermId -> TermRec]
  BY DEF RTInv, Typed
<1>2. PICK m, i : m = mainThread /\ i = Head(mainThread.ids)
  OBVIOUS
<1>3. /\ m.at = "closing" /\ m \in Closing /\ m.ids # <<>>
      /\ \A j \in ToSet(m.ids) : j < nextTerm
  BY <1>1, <1>2, AtFact DEF CloseNext, Typed, RTInv, Begun
<1>4. PICK q : q = m.ids
  OBVIOUS
<1>5. q \in Seq(TermId) /\ q # <<>> /\ i = Head(q) /\ m.host \in Hosts
  BY <1>2, <1>3, <1>4 DEF Closing
<1>6. PICK s : s = Tail(q)
  OBVIOUS
<1>7. /\ i \in TermId /\ s \in Seq(TermId) /\ Len(s) = Len(q) - 1 /\ Len(q) \in Nat
      /\ i = q[1] /\ \A k \in 1..Len(s) : s[k] = q[k + 1]
  BY <1>5, <1>6, HeadTailProperties
<1>8. i \in ToSet(q) /\ ToSet(s) \subseteq ToSet(q) /\ ToSet(q) \ {i} \subseteq ToSet(s)
  <2>1. DOMAIN q = 1..Len(q) /\ DOMAIN s = 1..Len(s) /\ Len(q) # 0
    BY <1>5, <1>7
  <2>2. i \in ToSet(q)
    <3>1. 1 \in DOMAIN q
      BY <1>7, <2>1
    <3> QED BY <1>7, <3>1 DEF ToSet
  <2>3. ASSUME NEW x \in ToSet(s) PROVE x \in ToSet(q)
    <3>1. PICK k \in DOMAIN s : x = s[k]
      BY DEF ToSet
    <3>2. k + 1 \in DOMAIN q /\ x = q[k + 1]
      BY <1>7, <2>1, <3>1
    <3> QED BY <3>2 DEF ToSet
  <2>4. ASSUME NEW x \in ToSet(q) \ {i} PROVE x \in ToSet(s)
    <3>1. PICK k \in DOMAIN q : x = q[k]
      BY DEF ToSet
    <3>2. k - 1 \in DOMAIN s /\ (k - 1) + 1 = k
      BY <1>7, <2>1, <2>4, <3>1
    <3>3. x = s[k - 1]
      BY <1>7, <2>1, <3>1, <3>2
    <3> QED BY <3>2, <3>3 DEF ToSet
  <2> QED BY <2>2, <2>3, <2>4
<1>9. /\ ended' = Recorded(ended, i, "detached") /\ term' = Removed(i, "detached")
      /\ mainThread' = IF Len(q) = 1 THEN Idle ELSE [m EXCEPT !.ids = s]
      /\ UNCHANGED <<link, gens, nextTerm, daemon, noted, hits>>
  BY <1>2, <1>4, <1>6 DEF CloseNext
<1>10. \/ Len(q) = 1 /\ mainThread' = Idle /\ ToSet(q) \ {i} = {}
       \/ /\ mainThread'.at = "closing" /\ mainThread'.ids = s /\ s # <<>>
          /\ mainThread' \in Closing
  <2>1. CASE Len(q) = 1
    <3>1. s = <<>>
      BY <1>7, <2>1
    <3>2. ToSet(q) \ {i} = {}
      BY <1>8, <3>1, EmptyList
    <3> QED BY <1>9, <2>1, <3>2
  <2>2. CASE Len(q) # 1
    <3>1. s # <<>>
      <4>1. Len(q) # 0
        BY <1>5
      <4> QED BY <1>7, <2>2, <4>1
    <3>2. mainThread' = [m EXCEPT !.ids = s]
      BY <1>9, <2>2
    <3> QED BY <1>3, <1>7, <3>1, <3>2 DEF Closing
  <2> QED BY <2>1, <2>2
<1>11. MainOK(mainThread')
  BY <1>10 DEF MainOK
<1>12. term[i] \in TermRec /\ (term[i].ssh = "over" \/ Alive(i))
  <2>1. term[i] \in TermRec
    BY <1>1, <1>7
  <2>2. i < nextTerm
    BY <1>3, <1>4, <1>8
  <2>3. ~(i >= nextTerm)
    BY <1>1, <1>7, <2>2, RemoteTerminalsAssumption DEF Typed, TermId
  <2>4. term[i].ssh # "none"
    BY <1>7, <2>3 DEF RTInv, Begun
  <2> QED BY <2>1, <2>4 DEF TermRec, Alive
<1>13. PICK x : x = IF Alive(i) THEN Over(i, "detached") ELSE term[i]
  OBVIOUS
<1>14. /\ x \in TermRec /\ x.ssh = "over" /\ x.told = term[i].told
       /\ Alive(i) \/ (term[i].ssh = "over" /\ x = term[i])
  BY <1>1, <1>7, <1>12, <1>13, OverFact DEF Alive
<1>15. term' = [term EXCEPT ![i] = x]
  BY <1>1, <1>9, <1>13 DEF Removed, Alive
<1>16. /\ term' \in [TermId -> TermRec] /\ term'[i] = x
       /\ \A j \in TermId : j # i => term'[j] = term[j]
  BY <1>1, <1>7, <1>14, <1>15
<1>17. Stored(ended') /\ EndsOK(term', ended')
  <2>1. PICK t, u, e : t = term /\ u = term' /\ e = ended
    OBVIOUS
  <2>2. /\ t \in [TermId -> TermRec] /\ u \in [TermId -> TermRec]
        /\ Stored(e) /\ EndsOK(t, e) /\ "detached" \in Relays \cup {"detached"}
    BY <1>1, <1>16, <2>1 DEF RTInv, Typed
  <2>3. \A j \in TermId : j # i => u[j] = t[j]
    BY <1>16, <2>1
  <2>4. u[i].ssh = "over" /\ u[i].told = t[i].told
    BY <1>14, <1>16, <2>1
  <2>5. \/ t[i].ssh = "over" /\ u[i].cause = t[i].cause
        \/ t[i].ssh # "over" /\ "detached" = "detached"
    BY <1>14, <1>16, <2>1 DEF Alive
  <2>6. Stored(Recorded(e, i, "detached")) /\ EndsOK(u, Recorded(e, i, "detached"))
    BY <1>7, <2>2, <2>3, <2>4, <2>5, RecordStep
  <2> QED BY <1>9, <2>1, <2>6
<1>18. Typed'
  BY <1>1, <1>9, <1>11, <1>16, <1>17 DEF Typed
<1>19. Begun'
  <2>1. \A j \in TermId : term'[j].ssh = "none" <=> term[j].ssh = "none"
    BY <1>12, <1>14, <1>16 DEF Alive
  <2>2. mainThread'.at = "closing" => \A j \in ToSet(mainThread'.ids) : j < nextTerm
    BY <1>3, <1>4, <1>8, <1>10 DEF Idle
  <2> QED BY <1>9, <2>1, <2>2 DEF RTInv, Begun
<1>20. TermsOK'
  BY <1>14, <1>16 DEF RTInv, TermsOK
<1>21. LinksOK' /\ ReachesWhatIsShown'
  BY <1>9 DEF RTInv, LinksOK, ReachesWhatIsShown
<1>22. LiveHasLink' /\ LiveBelongs'
  <2>1. \A j \in TermId : Alive(j)' => Alive(j) /\ j # i /\ term'[j] = term[j]
    BY <1>14, <1>16 DEF Alive
  <2>2. LiveHasLink'
    BY <2>1 DEF RTInv, LiveHasLink
  <2>3. ASSUME NEW j \in TermId, Alive(j)'
        PROVE  \/ j \in ToSet(noted'[term'[j].host])
                  /\ link'[term'[j].host].gen = term'[j].gen
               \/ mainThread'.at = "closing" /\ j \in ToSet(mainThread'.ids)
    <3>1. Alive(j) /\ j # i /\ term'[j] = term[j]
      BY <2>1, <2>3
    <3>2. \/ j \in ToSet(noted[term[j].host]) /\ link[term[j].host].gen = term[j].gen
          \/ j \in ToSet(q)
      BY <1>2, <1>4, <3>1 DEF RTInv, LiveBelongs
    <3> QED BY <1>8, <1>9, <1>10, <3>1, <3>2
  <2> QED BY <2>2, <2>3 DEF LiveBelongs
<1> QED BY <1>17, <1>18, <1>19, <1>20, <1>21, <1>22 DEF RTInv

LEMMA RemoteAttachStep ==
  ASSUME RTInv, NEW h \in Hosts, RemoteAttach(h) PROVE RTInv'
<1>1. Typed /\ term \in [TermId -> TermRec] /\ NotedOK(noted)
  BY DEF RTInv, Typed
<1>2. PICK n : n = nextTerm
  OBVIOUS
<1>3. n \in TermId /\ n + 1 \in 1..MaxTerms + 1 /\ n \in Nat
  BY <1>1, <1>2, RemoteTerminalsAssumption DEF Typed, RemoteAttach, TermId
<1>4. PICK x : x = AttachConfig(h)
  OBVIOUS
<1>5. /\ mainThread = Idle /\ link[h].epoch # 0 /\ nextTerm' = n + 1
      /\ term' = [term EXCEPT ![n] = x] /\ ended' = Opened(ended, n)
      /\ noted' = [noted EXCEPT ![h] = Append(noted[h], n)]
      /\ UNCHANGED <<link, gens, daemon, mainThread, hits>>
  BY <1>2, <1>4 DEF RemoteAttach, Addressable
<1>6. /\ x \in TermRec /\ x.ssh = "connecting" /\ x.host = h /\ x.gen = link[h].gen
      /\ x.pend = {} /\ x.cause = "none"
  <2>1. PICK k : k = CHOOSE i \in Hosts : TRUE
    OBVIOUS
  <2>2. NoTerm = [ssh |-> "none", host |-> k, gen |-> 0, epoch |-> 0,
                  pend |-> {}, cause |-> "none", told |-> FALSE]
    BY <2>1 DEF NoTerm
  <2>3. link[h].gen \in 0..MaxGens /\ link[h].epoch \in 0..MaxEpochs
    BY <1>1, EpochFact
  <2>4. x = [ssh |-> "connecting", host |-> h, gen |-> link[h].gen,
             epoch |-> link[h].epoch, pend |-> {}, cause |-> "none", told |-> FALSE]
    BY <1>4, <2>2 DEF AttachConfig
  <2> QED BY <2>3, <2>4 DEF TermRec
<1>7. /\ term' \in [TermId -> TermRec] /\ term'[n] = x
      /\ \A j \in TermId : j # n => term'[j] = term[j]
  BY <1>1, <1>3, <1>5, <1>6
<1>8. term[n].ssh = "none"
  BY <1>2, <1>3 DEF RTInv, Begun
<1>9. PICK q, s : q = noted[h] /\ s = Append(noted[h], n)
  OBVIOUS
<1>10. q \in Seq(TermId) /\ IsInjective(q) /\ n \notin ToSet(q)
  <2>1. q \in Seq(TermId) /\ IsInjective(q)
    BY <1>1, <1>9 DEF NotedOK
  <2>2. \A j \in ToSet(q) : j < n
    BY <1>2, <1>9 DEF RTInv, Begun
  <2>3. ~(n < n)
    BY <1>3
  <2> QED BY <2>1, <2>2, <2>3
<1>11. s \in Seq(TermId) /\ IsInjective(s) /\ ToSet(s) = ToSet(q) \cup {n}
  <2>1. /\ s \in Seq(TermId) /\ Len(s) = Len(q) + 1 /\ s[Len(q) + 1] = n
        /\ \A k \in 1..Len(q) : s[k] = q[k]
        /\ ToSet(s) = ToSet(q) \cup {n}
    BY <1>3, <1>9, <1>10, AppendSet
  <2>2. DOMAIN s = 1..(Len(q) + 1) /\ DOMAIN q = 1..Len(q) /\ Len(q) \in Nat
    BY <1>10, <2>1
  <2>3. \A k \in 1..Len(q) : q[k] # n
    BY <1>10, <2>2 DEF ToSet
  <2>4. ASSUME NEW a \in DOMAIN s, NEW b \in DOMAIN s, s[a] = s[b] PROVE a = b
    <3>1. a = Len(q) + 1 \/ a \in 1..Len(q)
      BY <2>2
    <3>2. b = Len(q) + 1 \/ b \in 1..Len(q)
      BY <2>2
    <3> QED BY <1>10, <2>1, <2>2, <2>3, <2>4, <3>1, <3>2 DEF IsInjective
  <2> QED BY <2>1, <2>4 DEF IsInjective
<1>12. noted'[h] = s /\ \A k \in Hosts : k # h => noted'[k] = noted[k]
  BY <1>1, <1>5, <1>9 DEF NotedOK
<1>13. NotedOK(noted')
  BY <1>1, <1>5, <1>9, <1>11, <1>12 DEF NotedOK
<1>14. Stored(ended') /\ EndsOK(term', ended')
  <2>1. PICK t, u, e : t = term /\ u = term' /\ e = ended
    OBVIOUS
  <2>2. /\ t \in [TermId -> TermRec] /\ u \in [TermId -> TermRec]
        /\ Stored(e) /\ EndsOK(t, e)
    BY <1>1, <1>7, <2>1 DEF RTInv, Typed
  <2>3. t[n].ssh # "over" /\ u[n].ssh # "over" /\ u[n].cause # "detached"
    BY <1>6, <1>7, <1>8, <2>1
  <2>4. \A j \in TermId : j # n => u[j] = t[j]
    BY <1>7, <2>1
  <2>5. Stored(Opened(e, n)) /\ EndsOK(u, Opened(e, n))
    BY <1>3, <2>2, <2>3, <2>4, AttachStep
  <2> QED BY <1>5, <2>1, <2>5
<1>15. Typed'
  BY <1>1, <1>3, <1>5, <1>7, <1>13, <1>14 DEF Typed
<1>16. Begun'
  <2>1. \A j \in TermId : j \in Nat /\ (j >= n + 1 <=> j >= n /\ j # n)
    BY <1>3 DEF TermId
  <2>2. \A j \in TermId : term[j].ssh = "none" <=> j >= n
    BY <1>2 DEF RTInv, Begun
  <2>3. \A j \in TermId : term'[j].ssh = "none" <=> j >= n + 1
    BY <1>6, <1>7, <2>1, <2>2
  <2>4. \A k \in Hosts : \A j \in ToSet(noted[k]) : j < n
    BY <1>2 DEF RTInv, Begun
  <2>5. \A k \in Hosts : ToSet(noted[k]) \subseteq TermId
    <3> SUFFICES ASSUME NEW k \in Hosts, NEW j \in ToSet(noted[k]) PROVE j \in TermId
      OBVIOUS
    <3>1. noted[k] \in Seq(TermId)
      BY <1>1 DEF NotedOK
    <3> QED BY <3>1 DEF ToSet
  <2>6. \A k \in Hosts : \A j \in ToSet(noted'[k]) : j \in ToSet(noted[k]) \/ j = n
    BY <1>9, <1>11, <1>12
  <2>7. \A k \in Hosts : \A j \in ToSet(noted'[k]) : j < n + 1
    <3> SUFFICES ASSUME NEW k \in Hosts, NEW j \in ToSet(noted'[k]) PROVE j < n + 1
      OBVIOUS
    <3>1. CASE j = n
      BY <1>3, <3>1
    <3>2. CASE j # n
      <4>1. j \in TermId /\ j < n
        BY <2>4, <2>5, <2>6, <3>2
      <4> QED BY <1>3, <4>1 DEF TermId
    <3> QED BY <3>1, <3>2
  <2>8. mainThread'.at # "closing"
    BY <1>5 DEF Idle
  <2> QED BY <1>5, <2>3, <2>7, <2>8 DEF Begun
<1>17. TermsOK'
  BY <1>6, <1>7 DEF RTInv, TermsOK
<1>18. LinksOK' /\ ReachesWhatIsShown'
  BY <1>5 DEF RTInv, LinksOK, ReachesWhatIsShown
<1>19. LiveHasLink'
  <2>1. link[h].gen # 0
    BY <1>5 DEF RTInv, LinksOK
  <2> QED BY <1>6, <1>7, <2>1 DEF RTInv, LiveHasLink, Alive
<1>20. LiveBelongs'
  <2> SUFFICES ASSUME NEW j \in TermId, Alive(j)'
               PROVE  /\ j \in ToSet(noted'[term'[j].host])
                      /\ link'[term'[j].host].gen = term'[j].gen
    BY DEF LiveBelongs
  <2>1. CASE j = n
    BY <1>5, <1>6, <1>7, <1>11, <1>12, <2>1
  <2>2. CASE j # n
    <3>1. Alive(j) /\ term'[j] = term[j]
      BY <1>7, <2>2 DEF Alive
    <3>2. j \in ToSet(noted[term[j].host]) /\ link[term[j].host].gen = term[j].gen
      BY <1>5, <3>1 DEF RTInv, LiveBelongs, Idle
    <3>3. term[j] \in TermRec
      BY <1>1
    <3>4. term[j].host \in Hosts
      BY <3>3 DEF TermRec
    <3>5. j \in ToSet(noted'[term[j].host])
      BY <1>9, <1>11, <1>12, <3>2, <3>4
    <3> QED BY <1>5, <3>1, <3>2, <3>5
  <2> QED BY <2>1, <2>2
<1> QED BY <1>14, <1>15, <1>16, <1>17, <1>18, <1>19, <1>20 DEF RTInv

LEMMA RemoteTerminalEndStep ==
  ASSUME RTInv, NEW i \in TermId, RemoteTerminalEnd(i) PROVE RTInv'
<1>1. Typed /\ term \in [TermId -> TermRec]
  BY DEF RTInv, Typed
<1>2. /\ ended' = Read(ended, i)
      /\ UNCHANGED <<link, gens, nextTerm, daemon, noted, mainThread, hits>>
  BY DEF RemoteTerminalEnd
<1>3. PICK x : x = [term[i] EXCEPT !.told = TRUE]
  OBVIOUS
<1>4. term' = [term EXCEPT ![i] = x]
  BY <1>3 DEF RemoteTerminalEnd
<1>5. /\ x \in TermRec /\ x.ssh = term[i].ssh /\ x.cause = term[i].cause
      /\ x.told = TRUE /\ x.host = term[i].host /\ x.gen = term[i].gen
      /\ x.pend = term[i].pend
  <2>1. term[i] \in TermRec
    BY <1>1
  <2> QED BY <1>3, <2>1 DEF TermRec
<1>6. term' \in [TermId -> TermRec]
      /\ term'[i] = x /\ \A j \in TermId : j # i => term'[j] = term[j]
  BY <1>1, <1>4, <1>5
<1>7. \A j \in TermId : /\ term'[j].ssh = term[j].ssh /\ term'[j].pend = term[j].pend
                        /\ term'[j].cause = term[j].cause
                        /\ term'[j].host = term[j].host /\ term'[j].gen = term[j].gen
                        /\ (term[j].told => term'[j].told)
  BY <1>5, <1>6
<1>8. Stored(ended') /\ EndsOK(term', ended')
  <2>1. PICK t, u, e : t = term /\ u = term' /\ e = ended
    OBVIOUS
  <2>2. /\ t \in [TermId -> TermRec] /\ u \in [TermId -> TermRec]
        /\ Stored(e) /\ EndsOK(t, e) /\ u[i].told
    BY <1>1, <1>5, <1>6, <2>1 DEF RTInv, Typed
  <2>3. \A j \in TermId : /\ u[j].ssh = t[j].ssh /\ u[j].pend = t[j].pend
                          /\ u[j].cause = t[j].cause /\ (t[j].told => u[j].told)
    BY <1>7, <2>1
  <2>4. Stored(Read(e, i)) /\ EndsOK(u, Read(e, i))
    BY <2>2, <2>3, ReadStep
  <2> QED BY <1>2, <2>1, <2>4
<1>9. Typed'
  BY <1>1, <1>2, <1>6, <1>8 DEF Typed
<1>10. Begun' /\ TermsOK'
  BY <1>2, <1>7 DEF RTInv, Begun, TermsOK
<1>11. LinksOK' /\ ReachesWhatIsShown'
  BY <1>2 DEF RTInv, LinksOK, ReachesWhatIsShown
<1>12. LiveHasLink' /\ LiveBelongs'
  <2>1. \A j \in TermId : Alive(j)' <=> Alive(j)
    BY <1>7 DEF Alive
  <2>2. LiveHasLink'
    BY <1>7, <2>1 DEF RTInv, LiveHasLink
  <2>3. LiveBelongs'
    BY <1>2, <1>7, <2>1 DEF RTInv, LiveBelongs
  <2> QED BY <2>2, <2>3
<1> QED BY <1>8, <1>9, <1>10, <1>11, <1>12 DEF RTInv

-----------------------------------------------------------------------------
LEMMA RTInitInv == RTInit => RTInv
<1> SUFFICES ASSUME RTInit PROVE RTInv
  OBVIOUS
<1>1. /\ link = [h \in Hosts |-> Unlinked] /\ gens = 0 /\ nextTerm = 1
      /\ daemon = [h \in Hosts |-> 1] /\ term = [i \in TermId |-> NoTerm]
      /\ noted = [h \in Hosts |-> <<>>] /\ ended = NoEnds
      /\ mainThread = Idle /\ hits = {}
  BY DEF RTInit
<1>2. /\ NoTerm \in TermRec /\ NoTerm.ssh = "none" /\ NoTerm.pend = {}
      /\ NoTerm.cause = "none"
  <2>1. PICK k : k = CHOOSE i \in Hosts : TRUE
    OBVIOUS
  <2>2. k \in Hosts
    BY <2>1, RemoteTerminalsAssumption
  <2>3. NoTerm = [ssh |-> "none", host |-> k, gen |-> 0, epoch |-> 0,
                  pend |-> {}, cause |-> "none", told |-> FALSE]
    BY <2>1 DEF NoTerm
  <2>4. 0 \in 0..MaxGens /\ 0 \in 0..MaxEpochs
    BY RemoteTerminalsAssumption
  <2> QED BY <2>2, <2>3, <2>4 DEF TermRec
<1>3. \A i \in TermId : term[i] = NoTerm
  BY <1>1
<1>4. \A h \in Hosts : noted[h] = <<>> /\ link[h] = Unlinked
  BY <1>1
<1>5. NotedOK(noted)
  BY <1>1, EmptyList DEF NotedOK
<1>6. /\ Stored(ended) /\ ToSet(ended.reasons) = {} /\ ToSet(ended.lost) = {}
  <2>1. <<>> \in Seq(Reason) /\ <<>> \in Seq(TermId) /\ Len(<<>>) = 0
        /\ DOMAIN <<>> = {}
    BY EmptySeq
  <2>2. ended.reasons = <<>> /\ ended.lost = <<>>
        /\ ended \in [reasons : Seq(Reason), lost : Seq(TermId)]
    BY <1>1, <2>1 DEF NoEnds
  <2>3. 0 <= EndedCap
    BY CapIsPositive
  <2>4. OneReason(<<>>) /\ ToSet(<<>>) = {}
    BY <2>1 DEF OneReason, ToSet
  <2> QED BY <2>1, <2>2, <2>3, <2>4 DEF Stored
<1>7. Typed
  <2>1. 0 \in 0..MaxGens /\ 0 \in 0..MaxEpochs /\ 1 \in 1..MaxEpochs /\ 1 \in 1..MaxTerms + 1
    BY RemoteTerminalsAssumption
  <2>2. Unlinked \in [gen : 0..MaxGens, epoch : 0..MaxEpochs]
    BY <2>1 DEF Unlinked
  <2>3. term \in [TermId -> TermRec]
    BY <1>1, <1>2
  <2> QED BY <1>1, <1>5, <1>6, <2>1, <2>2, <2>3 DEF Typed, MainOK
<1>8. Begun
  <2>1. \A i \in TermId : i >= 1
    BY DEF TermId
  <2> QED BY <1>1, <1>2, <1>3, <1>4, <2>1, EmptyList DEF Begun, Idle
<1>9. TermsOK /\ LiveHasLink /\ LiveBelongs
  BY <1>2, <1>3 DEF TermsOK, LiveHasLink, LiveBelongs, Alive
<1>10. LinksOK /\ ReachesWhatIsShown
  BY <1>1, <1>4 DEF LinksOK, ReachesWhatIsShown, Unlinked
<1>11. EndsOK(term, ended)
  BY <1>2, <1>3, <1>6 DEF EndsOK, OnlyOverEnds, DetachIsSaid, IsAnswered, Silent
<1> QED BY <1>7, <1>8, <1>9, <1>10, <1>11 DEF RTInv

LEMMA RTStutter == RTInv /\ UNCHANGED rtVars => RTInv'
<1> SUFFICES ASSUME RTInv, UNCHANGED rtVars PROVE RTInv'
  OBVIOUS
<1>1. UNCHANGED <<link, gens, nextTerm, daemon, term, noted, ended, mainThread, hits>>
  BY DEF rtVars
<1>2. /\ link' \in [Hosts -> [gen : 0..MaxGens, epoch : 0..MaxEpochs]]
      /\ gens' \in 0..MaxGens /\ daemon' \in [Hosts -> 1..MaxEpochs]
      /\ MainOK(mainThread') /\ LinksOK' /\ ReachesWhatIsShown'
  BY <1>1 DEF RTInv, Typed, LinksOK, ReachesWhatIsShown
<1> QED BY <1>1, <1>2, WorldStep

LEMMA RTNextInv == RTInv /\ RTNext => RTInv'
<1> SUFFICES ASSUME RTInv, RTNext PROVE RTInv'
  OBVIOUS
<1>1. ASSUME NEW h \in Hosts, RemoteKill(h) \/ RemoteResize(h) \/ RemoteTimeline(h)
      PROVE  RTInv'
  <2>1. link[h].epoch \in 0..MaxEpochs
    BY EpochFact DEF RTInv
  <2>2. /\ mainThread = Idle /\ mainThread' = Call(h, link[h].epoch)
        /\ UNCHANGED <<link, gens, nextTerm, daemon, term, noted, ended, hits>>
    BY <1>1 DEF RemoteKill, RemoteResize, RemoteTimeline, Addressed
  <2> QED BY <2>1, <2>2, CallStep
<1>2. ASSUME NEW h \in Hosts, RemoteSpawn(h) PROVE RTInv'
  <2>1. 0 \in 0..MaxEpochs
    BY RemoteTerminalsAssumption
  <2>2. /\ mainThread = Idle /\ mainThread' = Call(h, 0)
        /\ UNCHANGED <<link, gens, nextTerm, daemon, term, noted, ended, hits>>
    BY <1>2 DEF RemoteSpawn
  <2> QED BY <2>1, <2>2, CallStep
<1>3. ASSUME CommandAnswers \/ CommandTimesOut PROVE RTInv'
  <2>1. CASE CommandAnswers
    <3>1. CommandEnds(Reached) /\ Reached \in SUBSET Reached
      BY <2>1 DEF CommandAnswers
    <3> QED BY <3>1, CommandEndsStep
  <2>2. CASE CommandTimesOut
    <3>1. PICK reached \in SUBSET Reached : CommandEnds(reached)
      BY <2>2 DEF CommandTimesOut
    <3> QED BY <3>1, CommandEndsStep
  <2> QED BY <1>3, <2>1, <2>2
<1>4. ASSUME NEW h \in Hosts,
             \/ Hello(h) \/ DaemonRestarts(h) \/ RemoteConnect(h)
             \/ RemoteDisconnect(h) \/ RemoteAttach(h) \/ RemoteKill(h)
             \/ RemoteResize(h) \/ RemoteTimeline(h) \/ RemoteSpawn(h)
      PROVE  RTInv'
  BY <1>1, <1>2, <1>4, HelloStep, DaemonRestartsStep, RemoteConnectStep,
     RemoteDisconnectStep, RemoteAttachStep
<1>5. ASSUME NEW i \in TermId,
             Connects(i) \/ EndsAlone(i) \/ TerminalClose(i) \/ RemoteTerminalEnd(i)
      PROVE  RTInv'
  BY <1>5, ConnectsStep, EndsAloneStep, TerminalCloseStep, RemoteTerminalEndStep
<1> QED BY <1>3, <1>4, <1>5, RelayReportsStep, CloseNextStep DEF RTNext

(* The invariant is inductive.                                               *)
THEOREM RTInvTheorem == RTSpec => []RTInv
<1>1. RTInv /\ [RTNext]_rtVars => RTInv'
  BY RTNextInv, RTStutter
<1> QED BY RTInitInv, <1>1, PTL DEF RTSpec

(* Types: the hosts' attachments, the terminals, the registry's lists without*)
(* a repetition, and the two stores within their cap.                        *)
THEOREM RTTypeTheorem == RTSpec => []RTTypeOK
<1>1. RTInv => RTTypeOK
  <2> SUFFICES ASSUME RTInv PROVE RTTypeOK
    OBVIOUS
  <2>1. Typed
    BY DEF RTInv
  <2>2. mainThread.at \in {"idle", "closing", "calling"}
    BY <2>1, AtFact DEF Typed
  <2>3. Len(ended.reasons) <= EndedCap /\ Len(ended.lost) <= EndedCap
    BY <2>1 DEF Typed, Stored
  <2>4. \A h \in Hosts : noted[h] \in Seq(TermId) /\ IsInjective(noted[h])
    BY <2>1 DEF Typed, NotedOK
  <2> QED BY <2>1, <2>2, <2>3, <2>4 DEF Typed, RTTypeOK, TermRec
<1> QED BY <1>1, RTInvTheorem, PTL

(* A live terminal belongs to its host's attachment; a terminal closed with  *)
(* its host says so while no reason has been evicted; an end is told until   *)
(* more than one over the cap have ended; a command reaches the session that *)
(* was shown (core/src/remote.rs attach, detach; EndedTerminals; addr_of).   *)
THEOREM TerminalsTheorem == RTSpec => []TerminalsAreTrue
<1>1. RTInv => SaysDetached
  <2> SUFFICES ASSUME RTInv, Cardinality(OverIds) <= EndedCap,
                      NEW n \in DOMAIN ended.reasons,
                      term[ended.reasons[n].id].cause = "detached"
               PROVE  ended.reasons[n].why = "detached"
    BY DEF SaysDetached, FirstReasonIsKept
  <2>1. PICK q : q = ended.reasons
    OBVIOUS
  <2>2. q \in Seq(Reason) /\ OneReason(q)
    BY <2>1 DEF RTInv, Typed, Stored
  <2>3. q[n] \in Reason
    BY <2>1, <2>2
  <2>4. q[n].id \in TermId
    BY <2>3 DEF Reason
  <2>5. OverOf(term) = OverIds
    BY DEF OverOf, OverIds
  <2>6. Tells(ended, q[n].id, "detached")
    BY <2>1, <2>4, <2>5 DEF RTInv, EndsOK, DetachIsSaid
  <2>7. PICK m \in DOMAIN q : q[m].id = q[n].id /\ q[m].why = "detached"
    BY <2>1, <2>6 DEF Tells, ToSet
  <2>8. m = n
    BY <2>1, <2>2, <2>7 DEF OneReason
  <2> QED BY <2>1, <2>7, <2>8
<1>2. RTInv => EndIsAnswered
  <2>1. OverOf(term) = OverIds
    BY DEF OverOf, OverIds
  <2> QED BY <2>1 DEF RTInv, EndsOK, IsAnswered, Silent, EndIsAnswered
<1>3. RTInv => TerminalsAreTrue
  BY <1>1, <1>2 DEF RTInv, TerminalsAreTrue
<1> QED BY <1>3, RTInvTheorem, PTL
=============================================================================
