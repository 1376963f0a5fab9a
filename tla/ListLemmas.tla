----------------------------- MODULE ListLemmas -----------------------------
(***************************************************************************)
(* Facts about finite sets of integers and about sequences that the proofs *)
(* of several modules use.                                                 *)
(***************************************************************************)
EXTENDS Integers, Sequences, SequencesExt, FiniteSetTheorems, SequenceTheorems,
        WellFoundedInduction, TLAPS

-----------------------------------------------------------------------------
(* Sets.                                                                   *)

(* A finite set of integers has a largest element.                         *)
LEMMA MaxOfFinite ==
  ASSUME NEW S \in SUBSET Int, IsFiniteSet(S), S # {}
  PROVE  Max(S) \in S /\ \A y \in S : Max(S) >= y
<1> DEFINE Above(x) == {z \in S : z >= x}
           T == {Above(x) : x \in S}
<1>1. IsWellFoundedOn(StrictSubsetOrdering(S), SUBSET S)
  BY FS_StrictSubsetOrderingWellFounded, FS_FiniteSubsetsOfFinite
<1>2. T \subseteq SUBSET S /\ T # {}
  OBVIOUS
<1> HIDE DEF T
<1>3. PICK U \in T : \A V \in T : <<V, U>> \notin StrictSubsetOrdering(S)
  BY <1>1, <1>2, WFMin
<1> USE DEF T
<1>4. PICK x \in S : U = Above(x)
  BY <1>3
<1>5. \A y \in S : x >= y
  <2> SUFFICES ASSUME NEW y \in S, ~ (x >= y) PROVE FALSE
    OBVIOUS
  <2> HIDE DEF T
  <2>0. x \in Int /\ y \in Int
    OBVIOUS
  <2>1. Above(y) \subseteq U /\ U \subseteq S
    <3>1. \A z \in S : z >= y => z >= x
      BY <2>0
    <3> QED
      BY <1>4, <3>1
  <2>3. x \in U /\ x \notin Above(y)
    BY <1>4, <2>0
  <2>2. Above(y) \in T
    BY DEF T
  <2> HIDE DEF Above, T
  <2> QED
    BY <1>3, <2>1, <2>2, <2>3 DEF StrictSubsetOrdering
<1>6. QED
  BY <1>5 DEF Max

(* And a smallest one.                                                     *)
LEMMA MinOfFinite ==
  ASSUME NEW S \in SUBSET Int, IsFiniteSet(S), S # {}
  PROVE  Min(S) \in S /\ \A y \in S : Min(S) <= y
<1> DEFINE Below(x) == {z \in S : z <= x}
           T == {Below(x) : x \in S}
<1>1. IsWellFoundedOn(StrictSubsetOrdering(S), SUBSET S)
  BY FS_StrictSubsetOrderingWellFounded, FS_FiniteSubsetsOfFinite
<1>2. T \subseteq SUBSET S /\ T # {}
  OBVIOUS
<1> HIDE DEF T
<1>3. PICK U \in T : \A V \in T : <<V, U>> \notin StrictSubsetOrdering(S)
  BY <1>1, <1>2, WFMin
<1> USE DEF T
<1>4. PICK x \in S : U = Below(x)
  BY <1>3
<1>5. \A y \in S : x <= y
  <2> SUFFICES ASSUME NEW y \in S, ~ (x <= y) PROVE FALSE
    OBVIOUS
  <2> HIDE DEF T
  <2>0. x \in Int /\ y \in Int
    OBVIOUS
  <2>1. Below(y) \subseteq U /\ U \subseteq S
    <3>1. \A z \in S : z <= y => z <= x
      BY <2>0
    <3> QED
      BY <1>4, <3>1
  <2>3. x \in U /\ x \notin Below(y)
    BY <1>4, <2>0
  <2>2. Below(y) \in T
    BY DEF T
  <2> HIDE DEF Below, T
  <2> QED
    BY <1>3, <2>1, <2>2, <2>3 DEF StrictSubsetOrdering
<1>6. QED
  BY <1>5 DEF Min

-----------------------------------------------------------------------------
(* Sequences.                                                              *)

LEMMA SubSeqType ==
  ASSUME NEW S, NEW s \in Seq(S), NEW i \in Nat, NEW j \in Nat, 1 <= i, j <= Len(s)
  PROVE  SubSeq(s, i, j) \in Seq(S)
BY SubSeqProperties

LEMMA FirstIndex ==
  ASSUME NEW n \in Nat, NEW I, I \subseteq 1 .. n, I # {}
  PROVE  Min(I) \in I
<1>1. IsFiniteSet(1 .. n)
  BY FS_Interval
<1>2. IsFiniteSet(I)
  BY <1>1, FS_Subset
<1>3. I \in SUBSET Int
  OBVIOUS
<1>4. QED
  BY <1>2, <1>3, MinOfFinite

LEMMA RemoveAtType ==
  ASSUME NEW S, NEW s \in Seq(S), NEW k \in 1 .. Len(s)
  PROVE  RemoveAt(s, k) \in Seq(S)
<1>1. Len(s) \in Nat
  BY LenProperties
<1>2. SubSeq(s, 1, k - 1) \in Seq(S)
  <2> DEFINE top == k - 1
  <2>1. top \in Nat /\ top <= Len(s)
    BY <1>1
  <2> HIDE DEF top
  <2>2. SubSeq(s, 1, top) \in Seq(S)
    BY <1>1, <2>1, SubSeqType
  <2> QED
    BY <2>2 DEF top
<1>3. SubSeq(s, k + 1, Len(s)) \in Seq(S)
  <2> DEFINE low == k + 1
  <2>1. low \in Nat /\ 1 <= low
    BY <1>1
  <2> HIDE DEF low
  <2>2. SubSeq(s, low, Len(s)) \in Seq(S)
    BY <1>1, <2>1, SubSeqType
  <2> QED
    BY <2>2 DEF low
<1>4. QED
  BY <1>2, <1>3, ConcatProperties DEF RemoveAt

LEMMA RemoveFirstType ==
  ASSUME NEW S, NEW s \in Seq(S), NEW e
  PROVE  RemoveFirst(s, e) \in Seq(S)
<1> DEFINE I == {i \in 1 .. Len(s) : s[i] = e}
<1>1. CASE I = {}
  BY <1>1 DEF RemoveFirst
<1>2. CASE I # {}
  <2>0. Len(s) \in Nat /\ I \subseteq 1 .. Len(s)
    BY LenProperties
  <2> HIDE DEF I
  <2>1. Min(I) \in 1 .. Len(s)
    BY <1>2, <2>0, FirstIndex
  <2> USE DEF I
  <2>2. RemoveFirst(s, e) = RemoveAt(s, Min(I))
    BY <1>2 DEF RemoveFirst, SelectInSeq
  <2> QED
    BY <2>1, <2>2, RemoveAtType
<1>3. QED
  BY <1>1, <1>2

(* RemoveFirst takes one of the items it is to remove.                     *)
LEMMA RemoveFirstIndex ==
  ASSUME NEW S, NEW s \in Seq(S), NEW e, \E j \in 1 .. Len(s) : s[j] = e
  PROVE  \E i \in 1 .. Len(s) : s[i] = e /\ RemoveFirst(s, e) = RemoveAt(s, i)
<1> DEFINE I == {i \in 1 .. Len(s) : s[i] = e}
<1>1. Len(s) \in Nat /\ I \subseteq 1 .. Len(s) /\ I # {}
  BY LenProperties
<1>2. RemoveFirst(s, e) = RemoveAt(s, Min(I))
  BY <1>1 DEF RemoveFirst, SelectInSeq
<1>3. \A i \in I : i \in 1 .. Len(s) /\ s[i] = e
  OBVIOUS
<1> HIDE DEF I
<1>4. Min(I) \in I
  BY <1>1, FirstIndex
<1>5. QED
  BY <1>2, <1>3, <1>4

LEMMA HeadAndTail ==
  ASSUME NEW S, NEW q \in Seq(S), q # <<>>
  PROVE  /\ Head(q) = q[1] /\ Head(q) \in S
         /\ Tail(q) \in Seq(S) /\ Len(Tail(q)) = Len(q) - 1
         /\ \A k \in 1 .. Len(Tail(q)) :
              k + 1 \in 1 .. Len(q) /\ k + 1 # 1 /\ Tail(q)[k] = q[k + 1]
         /\ 1 \in 1 .. Len(q) /\ Len(q) \in Nat
<1>1. Len(q) \in Nat \ {0}
  BY LenProperties, EmptySeq
<1>2. /\ Head(q) = q[1] /\ Head(q) \in S
      /\ Tail(q) \in Seq(S) /\ Len(Tail(q)) = Len(q) - 1
      /\ \A k \in 1 .. Len(Tail(q)) : Tail(q)[k] = q[k + 1]
  BY HeadTailProperties
<1>3. QED
  BY <1>1, <1>2

LEMMA Appended ==
  ASSUME NEW S, NEW q \in Seq(S), NEW e \in S
  PROVE  /\ Append(q, e) \in Seq(S)
         /\ Len(Append(q, e)) = Len(q) + 1 /\ Len(q) \in Nat
         /\ \A k \in 1 .. Len(q) : Append(q, e)[k] = q[k]
         /\ Append(q, e)[Len(q) + 1] = e
BY AppendProperties, LenProperties

LEMMA Concatenated ==
  ASSUME NEW S, NEW s \in Seq(S), NEW t \in Seq(S)
  PROVE  /\ s \o t \in Seq(S) /\ Len(s \o t) = Len(s) + Len(t)
         /\ Len(s) \in Nat /\ Len(t) \in Nat
         /\ \A k \in 1 .. Len(s \o t) :
              \/ k \in 1 .. Len(s) /\ (s \o t)[k] = s[k]
              \/ /\ k - Len(s) \in 1 .. Len(t) /\ k > Len(s)
                 /\ (s \o t)[k] = t[k - Len(s)]
<1>1. Len(s) \in Nat /\ Len(t) \in Nat
  BY LenProperties
<1>2. /\ s \o t \in Seq(S) /\ Len(s \o t) = Len(s) + Len(t)
      /\ \A k \in 1 .. Len(s) + Len(t) :
           (s \o t)[k] = IF k <= Len(s) THEN s[k] ELSE t[k - Len(s)]
  BY ConcatProperties
<1>3. QED
  BY <1>1, <1>2

(* Without its k-th item a sequence has its other items, in their order.   *)
LEMMA RemoveAtItems ==
  ASSUME NEW S, NEW s \in Seq(S), NEW k \in 1 .. Len(s)
  PROVE  /\ Len(RemoveAt(s, k)) = Len(s) - 1 /\ Len(s) \in Nat
         /\ \A j \in 1 .. Len(s) - 1 :
              RemoveAt(s, k)[j] = IF j < k THEN s[j] ELSE s[j + 1]
<1> DEFINE before == SubSeq(s, 1, k - 1)
           after  == SubSeq(s, k + 1, Len(s))
<1>1. Len(s) \in Nat
  BY LenProperties
<1>2. /\ before \in Seq(S) /\ Len(before) = k - 1
      /\ \A j \in 1 .. k - 1 : before[j] = s[j]
  BY <1>1, SubSeqProperties
<1>3. /\ after \in Seq(S) /\ Len(after) = Len(s) - k
      /\ \A j \in 1 .. Len(s) - k : after[j] = s[k + j]
  BY <1>1, SubSeqProperties
<1>4. RemoveAt(s, k) = before \o after
  BY DEF RemoveAt
<1> HIDE DEF before, after
<1>5. /\ Len(before \o after) = Len(before) + Len(after)
      /\ \A j \in 1 .. Len(before) + Len(after) :
           (before \o after)[j] = IF j <= Len(before) THEN before[j] ELSE after[j - Len(before)]
  BY <1>2, <1>3, ConcatProperties
<1>6. SUFFICES ASSUME NEW j \in 1 .. Len(s) - 1
               PROVE  (before \o after)[j] = IF j < k THEN s[j] ELSE s[j + 1]
  BY <1>1, <1>2, <1>3, <1>4, <1>5
<1>7. CASE j < k
  BY <1>1, <1>2, <1>3, <1>5, <1>7
<1>8. CASE ~(j < k)
  <2>1. j - (k - 1) \in 1 .. Len(s) - k /\ k + (j - (k - 1)) = j + 1
    BY <1>1, <1>8
  <2>2. (before \o after)[j] = after[j - (k - 1)]
    BY <1>1, <1>2, <1>3, <1>5, <1>8
  <2> QED
    BY <1>3, <1>8, <2>1, <2>2
<1>9. QED
  BY <1>7, <1>8
=============================================================================
