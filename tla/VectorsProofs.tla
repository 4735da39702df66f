---------------------------- MODULE VectorsProofs ----------------------------
(***************************************************************************)
(* Lemmas on bounded sets of numbers and on sequences that the other       *)
(* proofs keep needing.                                                    *)
(***************************************************************************)
EXTENDS Vectors, Integers, FiniteSetsExt, Functions, SequenceTheorems, WellFoundedInduction, TLAPS

-----------------------------------------------------------------------------
(* The largest element of a bounded set of natural numbers, from the       *)
(* well-foundedness of < .                                                 *)

LEMMA SmallestOf ==
  ASSUME NEW T, T \subseteq Nat, T # {}
  PROVE  \E x \in T : \A y \in T : x <= y
<1>1. PICK x \in T : \A y \in T : ~(<<y, x>> \in OpToRel(<, Nat))
  BY NatLessThanWellFounded, WFMin
<1>2. \A y \in T : ~(y < x)
  BY <1>1, Zenon DEF OpToRel
<1> QED
  BY <1>2

LEMMA LargestOf ==
  ASSUME NEW n \in Nat, NEW S, S \subseteq 1..n, S # {}
  PROVE  Max(S) \in S /\ \A y \in S : Max(S) >= y
<1> DEFINE T == {n - x : x \in S}
<1>1. \A x \in S : n - x \in T /\ n - x \in Nat
  OBVIOUS
<1>2. T \subseteq Nat /\ T # {}
  BY <1>1, Zenon
<1>3. PICK z \in T : \A y \in T : z <= y
  <2> HIDE DEF T
  <2> QED BY <1>2, SmallestOf, Zenon
<1>4. PICK x \in S : z = n - x
  BY <1>3
<1>5. \A y \in S : n - x <= n - y
  BY <1>1, <1>3, <1>4
<1> HIDE DEF T
<1>6. ASSUME NEW y \in S PROVE x >= y
  <2>1. x \in Nat /\ y \in Nat
    OBVIOUS
  <2>2. n - x <= n - y
    BY <1>5
  <2> QED BY <2>1, <2>2
<1> QED
  BY <1>6, Zenon DEF Max

LEMMA MinIsSmallest ==
  ASSUME NEW S, S \subseteq Nat, S # {}
  PROVE  Min(S) \in S /\ \A y \in S : Min(S) <= y
BY SmallestOf, Zenon DEF Min

LEMMA MinIsUnique ==
  ASSUME NEW S, S \subseteq Nat, NEW m \in S, \A y \in S : m <= y
  PROVE  Min(S) = m
<1>1. Min(S) \in S /\ \A y \in S : Min(S) <= y
  BY MinIsSmallest, Zenon
<1>2. Min(S) \in Nat /\ m \in Nat /\ m <= Min(S) /\ Min(S) <= m
  BY <1>1, Zenon
<1> QED
  BY <1>2

-----------------------------------------------------------------------------
(* Sequences.                                                              *)

LEMMA FunctionIsSeq ==
  ASSUME NEW S, NEW n \in Nat, NEW f \in [1..n -> S]
  PROVE  f \in Seq(S) /\ Len(f) = n
<1>1. f \in Seq(S)
  BY SeqDef
<1> QED
  BY <1>1, LenProperties

LEMMA SeqOverRange ==
  ASSUME NEW S, NEW s \in Seq(S)
  PROVE  s \in Seq(Range(s))
<1>1. Len(s) \in Nat /\ s \in [1..Len(s) -> S]
  BY LenProperties
<1>2. s \in [1..Len(s) -> Range(s)]
  BY <1>1 DEF Range
<1> QED
  BY <1>1, <1>2, FunctionIsSeq

LEMMA PopBackFacts ==
  ASSUME NEW S, NEW s \in Seq(S), s # <<>>, IsInjective(s)
  PROVE  /\ PopBack(s) \in Seq(S) /\ IsInjective(PopBack(s)) /\ Len(PopBack(s)) = Len(s) - 1
         /\ Back(s) \in Range(s)
         /\ Range(PopBack(s)) = Range(s) \ {Back(s)}
<1>1. Len(s) \in Nat /\ Len(s) > 0 /\ DOMAIN s = 1..Len(s)
  BY LenProperties, EmptySeq
<1>2. /\ PopBack(s) \in Seq(S) /\ Len(PopBack(s)) = Len(s) - 1
      /\ DOMAIN PopBack(s) = 1..(Len(s) - 1)
      /\ \A i \in 1..(Len(s) - 1) : PopBack(s)[i] = s[i]
  BY <1>1, SubSeqProperties, LenProperties DEF PopBack
<1>3. IsInjective(PopBack(s))
  BY <1>1, <1>2 DEF IsInjective
<1>4. Back(s) \in Range(s)
  BY <1>1 DEF Back, Range
<1>5. ASSUME NEW i \in DOMAIN s, s[i] # Back(s)
      PROVE  s[i] \in Range(PopBack(s))
  BY <1>1, <1>2, <1>5 DEF Back, Range
<1>6. ASSUME NEW i \in DOMAIN PopBack(s)
      PROVE  PopBack(s)[i] \in Range(s) /\ PopBack(s)[i] # Back(s)
  BY <1>1, <1>2 DEF Back, Range, IsInjective
<1>7. Range(PopBack(s)) = Range(s) \ {Back(s)}
  BY <1>5, <1>6 DEF Range
<1> QED
  BY <1>2, <1>3, <1>4, <1>7

LEMMA BackAppended ==
  ASSUME NEW S, NEW s \in Seq(S), s # <<>>
  PROVE  PopBack(s) \in Seq(S) /\ Back(s) \in S /\ s = Append(PopBack(s), Back(s))
<1> DEFINE t == PopBack(s)
           x == Back(s)
           n == Len(s)
<1>1. n \in Nat /\ n > 0 /\ DOMAIN s = 1..n
  BY LenProperties, EmptySeq
<1>2. /\ t \in Seq(S) /\ Len(t) = n - 1
      /\ \A i \in 1..(n - 1) : t[i] = s[i]
  BY <1>1, SubSeqProperties, LenProperties DEF PopBack
<1>3. x \in S /\ x = s[n]
  BY <1>1, ElementOfSeq DEF Back
<1> HIDE DEF t, x, n
<1>4. /\ Append(t, x) \in Seq(S) /\ Len(Append(t, x)) = n
      /\ \A i \in 1..(n - 1) : Append(t, x)[i] = s[i]
      /\ Append(t, x)[n] = s[n]
  BY <1>1, <1>2, <1>3, AppendProperties
<1>5. \A i \in 1..n : s[i] = Append(t, x)[i]
  BY <1>1, <1>4
<1>6. s = Append(t, x)
  BY <1>4, <1>5, SeqEqual DEF n
<1> QED
  BY <1>2, <1>3, <1>6 DEF t, x

LEMMA AppendFacts ==
  ASSUME NEW S, NEW s \in Seq(S), NEW x \in S, x \notin Range(s), IsInjective(s)
  PROVE  /\ Append(s, x) \in Seq(S) /\ IsInjective(Append(s, x)) /\ Len(Append(s, x)) = Len(s) + 1
         /\ Range(Append(s, x)) = Range(s) \cup {x}
<1>1. Len(s) \in Nat /\ DOMAIN s = 1..Len(s)
  BY LenProperties
<1>2. /\ Append(s, x) \in Seq(S) /\ Len(Append(s, x)) = Len(s) + 1
      /\ DOMAIN Append(s, x) = 1..(Len(s) + 1)
      /\ \A i \in 1..Len(s) : Append(s, x)[i] = s[i]
      /\ Append(s, x)[Len(s) + 1] = x
  BY <1>1, AppendProperties, LenProperties
<1>3. \A i \in 1..Len(s) : s[i] # x
  BY <1>1 DEF Range
<1>4. IsInjective(Append(s, x))
  BY <1>1, <1>2, <1>3 DEF IsInjective
<1>5. Range(Append(s, x)) = Range(s) \cup {x}
  BY <1>1, <1>2 DEF Range
<1> QED
  BY <1>2, <1>4, <1>5

LEMMA EraseAtFacts ==
  ASSUME NEW S, NEW s \in Seq(S), NEW k \in DOMAIN s
  PROVE  /\ EraseAt(s, k) \in Seq(S) /\ Len(EraseAt(s, k)) = Len(s) - 1
         /\ DOMAIN EraseAt(s, k) = 1..(Len(s) - 1)
         /\ \A j \in 1..(Len(s) - 1) : EraseAt(s, k)[j] = IF j < k THEN s[j] ELSE s[j + 1]
<1>1. /\ Len(s) \in Nat /\ s \in [1..Len(s) -> S] /\ k \in 1..Len(s) /\ Len(s) - 1 \in Nat
  BY LenProperties
<1>2. EraseAt(s, k) \in [1..(Len(s) - 1) -> S]
  BY <1>1 DEF EraseAt
<1>3. EraseAt(s, k) \in Seq(S) /\ Len(EraseAt(s, k)) = Len(s) - 1
  BY <1>1, <1>2, FunctionIsSeq, ZenonT(30)
<1> QED
  BY <1>2, <1>3 DEF EraseAt

LEMMA FindErased ==
  ASSUME NEW S, NEW s \in Seq(S), IsInjective(s), NEW x \in Range(s)
  PROVE  LET e == EraseAt(s, Find(s, x))
         IN /\ e \in Seq(S) /\ IsInjective(e) /\ Len(e) = Len(s) - 1
            /\ Range(e) = Range(s) \ {x}
<1> DEFINE k == Find(s, x)
           e == EraseAt(s, k)
           n == Len(s)
<1>1. n \in Nat /\ DOMAIN s = 1..n
  BY LenProperties
<1>2. k \in DOMAIN s /\ s[k] = x
  <2> DEFINE T == {i \in DOMAIN s : s[i] = x}
  <2>1. T \subseteq Nat /\ T # {}
    BY <1>1 DEF Range
  <2>2. Min(T) \in T
    <3> HIDE DEF T
    <3> QED BY <2>1, MinIsSmallest, Zenon
  <2> QED BY <2>2 DEF Find
<1> HIDE DEF k
<1>3. /\ e \in Seq(S) /\ Len(e) = n - 1 /\ DOMAIN e = 1..(n - 1)
      /\ \A j \in 1..(n - 1) : e[j] = IF j < k THEN s[j] ELSE s[j + 1]
  BY <1>2, EraseAtFacts
<1> HIDE DEF e, n
<1>4. k \in 1..n /\ n \in Nat /\ k \in Nat
  BY <1>1, <1>2
<1>5. IsInjective(e)
  <2> SUFFICES ASSUME NEW i \in 1..(n - 1), NEW j \in 1..(n - 1), e[i] = e[j]
               PROVE  i = j
    BY <1>3 DEF IsInjective
  <2> DEFINE a == IF i < k THEN i ELSE i + 1
             b == IF j < k THEN j ELSE j + 1
  <2>1. a \in 1..n /\ b \in 1..n
    BY <1>4
  <2>2. s[a] = s[b]
    BY <1>3
  <2>3. a = b
    BY <1>1, <2>1, <2>2 DEF IsInjective
  <2> QED BY <1>4, <2>3
<1>6. ASSUME NEW y \in Range(e) PROVE y \in Range(s) /\ y # x
  <2>1. PICK j \in 1..(n - 1) : e[j] = y
    BY <1>3 DEF Range
  <2> DEFINE a == IF j < k THEN j ELSE j + 1
  <2>2. a \in 1..n /\ a # k /\ y = s[a]
    BY <1>3, <1>4, <2>1
  <2> HIDE DEF a
  <2> QED BY <1>1, <1>2, <2>2 DEF Range, IsInjective
<1>7. ASSUME NEW y \in Range(s), y # x PROVE y \in Range(e)
  <2>1. PICK a \in 1..n : s[a] = y
    BY <1>1 DEF Range
  <2>2. a # k
    BY <1>2, <1>7, <2>1
  <2> DEFINE j == IF a < k THEN a ELSE a - 1
  <2>3. j \in 1..(n - 1) /\ e[j] = y
    BY <1>3, <1>4, <2>1, <2>2
  <2> QED BY <1>3, <2>3 DEF Range
<1>8. Range(e) = Range(s) \ {x}
  BY <1>6, <1>7
<1> QED
  BY <1>3, <1>5, <1>8 DEF e, k, n

=============================================================================
