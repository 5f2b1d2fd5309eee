------------------------------ MODULE DataFacts ------------------------------
(***************************************************************************)
(* Facts about the data the components keep, which the proofs about them   *)
(* cite: duplicate-free sequences (MRU lists, run queues) and sums over    *)
(* finite sets (cost and memory accounts).  SumFunctionOnSet is recursive: *)
(* its laws rest on MinimalSubset, the well-foundedness of the strict      *)
(* inclusion of finite sets, applied to a smallest set on which a law      *)
(* fails.                                                                  *)
(***************************************************************************)
EXTENDS Integers, SequencesExt, SequenceTheorems, FiniteSetTheorems, TLAPS

(* A sequence that repeats nothing. *)
Distinct(s) == \A i, j \in 1..Len(s) : s[i] = s[j] => i = j

LEMMA RemoveAtFacts ==
  ASSUME NEW S, NEW s \in Seq(S), NEW i \in 1..Len(s)
  PROVE  /\ RemoveAt(s, i) \in Seq(S)
         /\ Len(RemoveAt(s, i)) = Len(s) - 1
         /\ \A j \in 1..(Len(s) - 1) :
              RemoveAt(s, i)[j] = IF j < i THEN s[j] ELSE s[j + 1]
<1> DEFINE a == SubSeq(s, 1, i - 1)
           b == SubSeq(s, i + 1, Len(s))
<1>1. Len(s) \in Nat /\ i \in Int /\ i >= 1 /\ i =< Len(s)
  OBVIOUS
<1>2. \A k \in 1..Len(s) : s[k] \in S
  OBVIOUS
<1>3. /\ a \in Seq(S) /\ Len(a) = i - 1
      /\ \A k \in 1..(i - 1) : a[k] = s[k]
  <2>1. \A k \in 1..(i - 1) : s[k] \in S
    BY <1>1, <1>2
  <2>2. /\ SubSeq(s, 1, i - 1) \in Seq(S)
        /\ Len(SubSeq(s, 1, i - 1)) = IF 1 =< i - 1 THEN i - 1 - 1 + 1 ELSE 0
        /\ \A k \in 1..(i - 1 - 1 + 1) : SubSeq(s, 1, i - 1)[k] = s[1 + k - 1]
    BY <1>1, <2>1, SubSeqProperties
  <2> QED BY <1>1, <2>2
<1>4. /\ b \in Seq(S) /\ Len(b) = Len(s) - i
      /\ \A k \in 1..(Len(s) - i) : b[k] = s[i + k]
  <2>1. \A k \in (i + 1)..Len(s) : s[k] \in S
    BY <1>1, <1>2
  <2>2. /\ SubSeq(s, i + 1, Len(s)) \in Seq(S)
        /\ Len(SubSeq(s, i + 1, Len(s)))
             = IF i + 1 =< Len(s) THEN Len(s) - (i + 1) + 1 ELSE 0
        /\ \A k \in 1..(Len(s) - (i + 1) + 1) :
             SubSeq(s, i + 1, Len(s))[k] = s[i + 1 + k - 1]
    BY <1>1, <2>1, SubSeqProperties
  <2> QED BY <1>1, <2>2
<1> HIDE DEF a, b
<1>5. /\ a \o b \in Seq(S) /\ Len(a \o b) = Len(a) + Len(b)
      /\ \A k \in 1..(Len(a) + Len(b)) :
           (a \o b)[k] = IF k =< Len(a) THEN a[k] ELSE b[k - Len(a)]
  BY <1>3, <1>4, ConcatProperties
<1>6. \A j \in 1..(Len(s) - 1) : (a \o b)[j] = IF j < i THEN s[j] ELSE s[j + 1]
  <2> TAKE j \in 1..(Len(s) - 1)
  <2>1. CASE j < i
    BY <2>1, <1>1, <1>3, <1>4, <1>5
  <2>2. CASE j >= i
    <3>1. (a \o b)[j] = b[j - (i - 1)]
      BY <2>2, <1>1, <1>3, <1>4, <1>5
    <3>2. j - (i - 1) \in 1..(Len(s) - i) /\ i + (j - (i - 1)) = j + 1
      BY <2>2, <1>1
    <3> QED BY <3>1, <3>2, <2>2, <1>1, <1>4
  <2>3. j < i \/ j >= i
    BY <1>1
  <2> QED BY <2>1, <2>2, <2>3, Zenon
<1>7. RemoveAt(s, i) = a \o b
  BY Zenon DEF RemoveAt, a, b
<1>8. Len(a \o b) = Len(s) - 1
  BY <1>1, <1>3, <1>4, <1>5
<1> QED BY <1>5, <1>6, <1>7, <1>8, Zenon

(* Removing position i of a duplicate-free sequence removes s[i] and only    *)
(* that, and leaves the others in it once each.                              *)
LEMMA RemoveAtDistinct ==
  ASSUME NEW S, NEW s \in Seq(S), NEW i \in 1..Len(s), Distinct(s)
  PROVE  /\ RemoveAt(s, i) \in Seq(S)
         /\ Distinct(RemoveAt(s, i))
         /\ \A j \in 1..Len(RemoveAt(s, i)) :
              /\ RemoveAt(s, i)[j] # s[i]
              /\ \E k \in 1..Len(s) : RemoveAt(s, i)[j] = s[k]
<1> DEFINE r == RemoveAt(s, i)
           at(j) == IF j < i THEN j ELSE j + 1
<1>1. Len(s) \in Nat /\ i \in Nat
  OBVIOUS
<1>2. /\ r \in Seq(S) /\ Len(r) = Len(s) - 1
      /\ \A j \in 1..(Len(s) - 1) : r[j] = IF j < i THEN s[j] ELSE s[j + 1]
  BY RemoveAtFacts
<1> HIDE DEF r
<1>3. \A j \in 1..Len(r) : at(j) \in 1..Len(s) /\ at(j) # i /\ r[j] = s[at(j)]
  BY <1>1, <1>2
<1>4. \A j, k \in 1..Len(r) : at(j) = at(k) => j = k
  BY <1>1, <1>2
<1> HIDE DEF at
<1>5. Distinct(r)
  BY <1>3, <1>4 DEF Distinct
<1>6. \A j \in 1..Len(r) : r[j] # s[i] /\ \E k \in 1..Len(s) : r[j] = s[k]
  BY <1>3 DEF Distinct
<1> QED BY <1>2, <1>5, <1>6 DEF r

(* Every other element stays. *)
LEMMA RemoveAtKeeps ==
  ASSUME NEW S, NEW s \in Seq(S), NEW i \in 1..Len(s), NEW j \in 1..Len(s), j # i
  PROVE  \E m \in 1..Len(RemoveAt(s, i)) : RemoveAt(s, i)[m] = s[j]
<1> DEFINE r == RemoveAt(s, i)
<1>1. Len(s) \in Nat /\ i \in Nat /\ j \in Nat
  OBVIOUS
<1>2. /\ Len(r) = Len(s) - 1
      /\ \A m \in 1..(Len(s) - 1) : r[m] = IF m < i THEN s[m] ELSE s[m + 1]
  BY RemoveAtFacts
<1> HIDE DEF r
<1>3. CASE j < i
  <2>1. j \in 1..Len(r) /\ r[j] = s[j]
    BY <1>1, <1>2, <1>3
  <2> QED BY <2>1 DEF r
<1>4. CASE j > i
  <2>1. j - 1 \in 1..Len(r) /\ r[j - 1] = s[j]
    BY <1>1, <1>2, <1>4
  <2> QED BY <2>1 DEF r
<1> QED BY <1>1, <1>3, <1>4

(* A duplicate-free sequence is as long as the set of its elements. *)
LEMMA DistinctCardinality ==
  ASSUME NEW S, NEW s \in Seq(S), Distinct(s)
  PROVE  /\ IsFiniteSet(Range(s)) /\ Cardinality(Range(s)) = Len(s)
         /\ \A x : x \in Range(s) <=> \E i \in 1..Len(s) : s[i] = x
<1>1. Len(s) \in Nat /\ DOMAIN s = 1..Len(s)
  OBVIOUS
<1>2. s \in Bijection(1..Len(s), Range(s))
  BY <1>1 DEF Distinct, Range, Bijection, Injection, Surjection, IsInjective
<1>3. ExistsBijection(1..Len(s), Range(s))
  BY <1>2 DEF ExistsBijection
<1> QED BY <1>1, <1>3, FS_NatBijection, FS_CountingElements DEF Range

(* The same, element-wise: what the operations on lists do to the set of     *)
(* their elements.                                                           *)
LEMMA RangeFacts ==
  ASSUME NEW S, NEW s \in Seq(S)
  PROVE  /\ Range(s) \subseteq S
         /\ \A x : x \in Range(s) <=> \E i \in 1..Len(s) : s[i] = x
BY DEF Range

LEMMA AppendFacts ==
  ASSUME NEW S, NEW s \in Seq(S), NEW e \in S
  PROVE  /\ Range(Append(s, e)) = Range(s) \cup {e}
         /\ Distinct(s) /\ e \notin Range(s) => Distinct(Append(s, e))
<1> DEFINE r == Append(s, e)
<1>1. /\ r \in Seq(S) /\ Len(r) = Len(s) + 1 /\ r[Len(s) + 1] = e /\ Len(s) \in Nat
      /\ \A i \in 1..Len(s) : r[i] = s[i]
  OBVIOUS
<1> HIDE DEF r
<1>2. /\ \A x : x \in Range(r) <=> \E i \in 1..Len(r) : r[i] = x
      /\ \A x : x \in Range(s) <=> \E i \in 1..Len(s) : s[i] = x
  BY <1>1, RangeFacts
<1>3. \A x : x \in Range(r) <=> x \in Range(s) \/ x = e
  <2>1. Len(s) + 1 \in 1..Len(r) /\ \A i \in 1..Len(s) : i \in 1..Len(r)
    BY <1>1
  <2>2. \A i \in 1..Len(r) : i \in 1..Len(s) \/ i = Len(s) + 1
    BY <1>1
  <2> QED BY <1>1, <1>2, <2>1, <2>2
<1>4. ASSUME Distinct(s), e \notin Range(s) PROVE Distinct(r)
  <2>1. \A i \in 1..Len(s) : s[i] # e
    BY <1>2, <1>4
  <2> QED BY <1>1, <1>4, <2>1 DEF Distinct
<1> QED BY <1>3, <1>4 DEF r

LEMMA TailFacts ==
  ASSUME NEW S, NEW s \in Seq(S), s # <<>>
  PROVE  /\ Tail(s) \in Seq(S) /\ Head(s) \in Range(s)
         /\ Range(s) = Range(Tail(s)) \cup {Head(s)}
         /\ Distinct(s) => Distinct(Tail(s)) /\ Head(s) \notin Range(Tail(s))
<1> DEFINE r == Tail(s)
<1>1. /\ r \in Seq(S) /\ Len(r) = Len(s) - 1 /\ Head(s) = s[1] /\ Len(s) \in Nat \ {0}
      /\ \A i \in 1..Len(r) : r[i] = s[i + 1]
  OBVIOUS
<1> HIDE DEF r
<1>2. /\ \A x : x \in Range(r) <=> \E i \in 1..Len(r) : r[i] = x
      /\ \A x : x \in Range(s) <=> \E i \in 1..Len(s) : s[i] = x
  BY <1>1, RangeFacts
<1>3. \A i \in 1..Len(r) : i + 1 \in 1..Len(s) /\ i + 1 # 1
  BY <1>1
<1>4. \A i \in 1..Len(s) : i = 1 \/ (i - 1 \in 1..Len(r) /\ r[i - 1] = s[i])
  BY <1>1
<1>5. 1 \in 1..Len(s)
  BY <1>1
<1>6. \A x : x \in Range(s) <=> x \in Range(r) \/ x = Head(s)
  BY <1>1, <1>2, <1>3, <1>4, <1>5
<1>7. ASSUME Distinct(s) PROVE Distinct(r) /\ Head(s) \notin Range(r)
  BY <1>1, <1>2, <1>3, <1>5, <1>7 DEF Distinct
<1> QED BY <1>1, <1>2, <1>5, <1>6, <1>7 DEF r

LEMMA ConsFacts ==
  ASSUME NEW S, NEW s \in Seq(S), NEW e \in S
  PROVE  /\ <<e>> \o s \in Seq(S) /\ Len(<<e>> \o s) = Len(s) + 1 /\ (<<e>> \o s)[1] = e
         /\ Range(<<e>> \o s) = Range(s) \cup {e}
         /\ Distinct(s) /\ e \notin Range(s) => Distinct(<<e>> \o s)
<1> DEFINE r == <<e>> \o s
<1>1. /\ r \in Seq(S) /\ Len(r) = Len(s) + 1 /\ r[1] = e /\ Len(s) \in Nat
      /\ \A i \in 2..Len(r) : r[i] = s[i - 1]
  OBVIOUS
<1> HIDE DEF r
<1>2. /\ \A x : x \in Range(r) <=> \E i \in 1..Len(r) : r[i] = x
      /\ \A x : x \in Range(s) <=> \E i \in 1..Len(s) : s[i] = x
  BY <1>1, RangeFacts
<1>3. /\ \A i \in 1..Len(r) : i = 1 \/ (i \in 2..Len(r) /\ i - 1 \in 1..Len(s))
      /\ \A i \in 1..Len(s) : i + 1 \in 2..Len(r) /\ i + 1 \in 1..Len(r) /\ r[i + 1] = s[i]
      /\ 1 \in 1..Len(r)
  <2>1. \A n \in Nat : /\ \A i \in 1..n + 1 : i = 1 \/ (i \in 2..n + 1 /\ i - 1 \in 1..n)
                       /\ \A i \in 1..n : /\ i + 1 \in 2..n + 1 /\ i + 1 \in 1..n + 1
                                           /\ (i + 1) - 1 = i
                       /\ 1 \in 1..n + 1
    OBVIOUS
  <2>2. \A i \in 1..Len(s) : i + 1 \in 2..Len(r) /\ i + 1 \in 1..Len(r) /\ (i + 1) - 1 = i
    BY <1>1, <2>1
  <2>3. \A i \in 1..Len(s) : r[i + 1] = s[(i + 1) - 1]
    BY <1>1, <2>2
  <2> QED BY <1>1, <2>1, <2>2, <2>3
<1>4. \A x : x \in Range(r) <=> x \in Range(s) \/ x = e
  BY <1>1, <1>2, <1>3
<1>5. ASSUME Distinct(s), e \notin Range(s) PROVE Distinct(r)
  <2> SUFFICES ASSUME NEW i \in 1..Len(r), NEW j \in 1..Len(r), r[i] = r[j] PROVE i = j
    BY DEF Distinct
  <2>1. CASE i = 1 \/ j = 1
    BY <1>1, <1>2, <1>3, <1>5, <2>1
  <2>2. CASE i # 1 /\ j # 1
    <3>1. i - 1 \in 1..Len(s) /\ j - 1 \in 1..Len(s) /\ s[i - 1] = s[j - 1]
      BY <1>1, <1>3, <2>2
    <3>2. i - 1 = j - 1
      BY <1>5, <3>1 DEF Distinct
    <3> QED BY <1>1, <3>2
  <2> QED BY <2>1, <2>2
<1> QED BY <1>1, <1>4, <1>5 DEF r

LEMMA FrontFacts ==
  ASSUME NEW S, NEW s \in Seq(S), s # <<>>
  PROVE  /\ Front(s) \in Seq(S) /\ Len(Front(s)) = Len(s) - 1 /\ Last(s) \in Range(s)
         /\ Range(s) = Range(Front(s)) \cup {Last(s)}
         /\ Distinct(s) => Distinct(Front(s)) /\ Last(s) \notin Range(Front(s))
<1> DEFINE r == Front(s)
<1>1. /\ r \in Seq(S) /\ Len(r) = Len(s) - 1 /\ Last(s) = s[Len(s)] /\ Len(s) \in Nat \ {0}
      /\ \A i \in 1..Len(r) : r[i] = s[i]
  <2>1. Len(s) \in Nat \ {0} /\ Last(s) = s[Len(s)] /\ r = SubSeq(s, 1, Len(s) - 1)
    BY DEF Front, Last
  <2> DEFINE n == Len(s) - 1
  <2>3. n \in Int /\ \A i \in 1..n : s[i] \in S
    BY <2>1
  <2> HIDE DEF n
  <2>4. /\ SubSeq(s, 1, n) \in Seq(S)
        /\ Len(SubSeq(s, 1, n)) = IF 1 <= n THEN n - 1 + 1 ELSE 0
        /\ \A i \in 1..(n - 1 + 1) : SubSeq(s, 1, n)[i] = s[1 + i - 1]
    BY <2>3, SubSeqProperties
  <2>5. \A i \in Nat : 1 + i - 1 = i
    OBVIOUS
  <2>6. n \in Nat /\ n = Len(s) - 1
    BY <2>1 DEF n
  <2> HIDE DEF r
  <2> QED BY <2>1, <2>4, <2>5, <2>6
<1> HIDE DEF r
<1>2. /\ \A x : x \in Range(r) <=> \E i \in 1..Len(r) : r[i] = x
      /\ \A x : x \in Range(s) <=> \E i \in 1..Len(s) : s[i] = x
  BY <1>1, RangeFacts
<1>3. /\ \A i \in 1..Len(r) : i \in 1..Len(s) /\ i # Len(s)
      /\ \A i \in 1..Len(s) : i = Len(s) \/ (i \in 1..Len(r) /\ r[i] = s[i])
      /\ Len(s) \in 1..Len(s)
  BY <1>1
<1>4. \A x : x \in Range(s) <=> x \in Range(r) \/ x = Last(s)
  BY <1>1, <1>2, <1>3
<1>5. ASSUME Distinct(s) PROVE Distinct(r) /\ Last(s) \notin Range(r)
  BY <1>1, <1>2, <1>3, <1>5 DEF Distinct
<1> QED BY <1>1, <1>2, <1>3, <1>4, <1>5 DEF r

(* A non-empty set of naturals has a least element, which is its Min. *)
LEMMA MinIsLeast ==
  ASSUME NEW S, S \subseteq Nat, S # {}
  PROVE  Min(S) \in S /\ \A x \in S : Min(S) =< x
<1>1. PICK x \in S : \A y \in S : ~ (<<y, x>> \in OpToRel(<, Nat))
  BY NatLessThanWellFounded, WFMin
<1>2. \A y \in S : y < x => <<y, x>> \in OpToRel(<, Nat)
  BY DEF OpToRel
<1>3. \A y \in S : x =< y
  <2> TAKE y \in S
  <2>1. ~ (y < x)
    BY <1>1, <1>2
  <2>2. x \in Nat /\ y \in Nat
    OBVIOUS
  <2> QED BY <2>1, <2>2
<1> QED BY <1>1, <1>3 DEF Min

LEMMA RemoveFirstFacts ==
  ASSUME NEW S, NEW s \in Seq(S), Distinct(s), NEW e
  PROVE  /\ RemoveFirst(s, e) \in Seq(S)
         /\ Distinct(RemoveFirst(s, e))
         /\ Range(RemoveFirst(s, e)) = Range(s) \ {e}
<1>1. CASE \E i \in 1..Len(s) : s[i] = e
  <2> DEFINE I == {i \in 1..Len(s) : s[i] = e}
             k == Min(I)
  <2>1. I \subseteq Nat /\ I # {}
    BY <1>1
  <2>2. k \in 1..Len(s) /\ s[k] = e
    <3>1. k \in I
      <4> HIDE DEF I
      <4> QED BY <2>1, MinIsLeast
    <3> QED BY <3>1
  <2>3. RemoveFirst(s, e) = RemoveAt(s, k)
    BY <1>1, <2>1 DEF RemoveFirst, SelectInSeq
  <2> DEFINE r == RemoveAt(s, k)
  <2> HIDE DEF k
  <2>4. /\ r \in Seq(S) /\ Distinct(r)
        /\ \A j \in 1..Len(r) : r[j] # s[k] /\ \E i \in 1..Len(s) : r[j] = s[i]
    BY <2>2, RemoveAtDistinct
  <2>5. \A j \in 1..Len(s) : j # k => \E m \in 1..Len(r) : r[m] = s[j]
    BY <2>2, RemoveAtKeeps
  <2> HIDE DEF r
  <2>6. /\ \A x : x \in Range(r) <=> \E i \in 1..Len(r) : r[i] = x
        /\ \A x : x \in Range(s) <=> \E i \in 1..Len(s) : s[i] = x
    BY <2>4, RangeFacts
  <2>7. \A x : x \in Range(r) <=> x \in Range(s) /\ x # e
    BY <2>2, <2>4, <2>5, <2>6
  <2> QED BY <2>3, <2>4, <2>7 DEF r
<1>2. CASE ~ \E i \in 1..Len(s) : s[i] = e
  <2>1. RemoveFirst(s, e) = s
    BY <1>2 DEF RemoveFirst
  <2>2. e \notin Range(s)
    BY <1>2, RangeFacts
  <2> QED BY <2>1, <2>2
<1> QED BY <1>1, <1>2

-----------------------------------------------------------------------------
(* A non-empty collection of subsets of a finite set has a member that       *)
(* includes no other.                                                        *)
LEMMA MinimalSubset ==
  ASSUME NEW S, IsFiniteSet(S), NEW B, B \subseteq SUBSET S, B # {}
  PROVE  \E T \in B : \A U \in B : U \subseteq T => U = T
<1>1. B \subseteq FiniteSubsetsOf(S)
  BY FS_Subset DEF FiniteSubsetsOf
<1>2. IsWellFoundedOn(StrictSubsetOrdering(S), FiniteSubsetsOf(S))
  BY FS_StrictSubsetOrderingWellFounded
<1>3. PICK T \in B : \A U \in B : ~ (<<U, T>> \in StrictSubsetOrdering(S))
  BY <1>1, <1>2, WFMin
<1>4. \A U \in B : U \subseteq T /\ U # T => <<U, T>> \in StrictSubsetOrdering(S)
  BY DEF StrictSubsetOrdering
<1>5. \A U \in B : U \subseteq T => U = T
  BY <1>3, <1>4
<1> QED BY <1>5

FirstOf(s) == CHOOSE x \in s : TRUE

IsSum(g, f, S) ==
  g = [s \in SUBSET S |-> IF s = {} THEN 0 ELSE f[FirstOf(s)] + g[s \ {FirstOf(s)}]]

LEMMA SumOverDef ==
  ASSUME NEW f, NEW S
  PROVE  SumFunctionOnSet(f, S) = (CHOOSE g : IsSum(g, f, S))[S]
BY DEF SumFunctionOnSet, FoldFunctionOnSet, MapThenFoldSet, IsSum, FirstOf

LEMMA FirstIn == \A s : s # {} => FirstOf(s) \in s
BY DEF FirstOf

LEMMA SumUnique ==
  ASSUME NEW f, NEW S, IsFiniteSet(S), NEW T, NEW g, NEW h,
         IsSum(g, f, S), IsSum(h, f, T)
  PROVE  \A s \in SUBSET (S \cap T) : g[s] = h[s]
<1> DEFINE B == {s \in SUBSET (S \cap T) : g[s] # h[s]}
<1>1. SUFFICES ASSUME B # {} PROVE FALSE
  OBVIOUS
<1>2. IsFiniteSet(S \cap T) /\ B \subseteq SUBSET (S \cap T)
  BY FS_Subset
<1> HIDE DEF B
<1>3. PICK s \in B : \A u \in B : u \subseteq s => u = s
  BY <1>1, <1>2, MinimalSubset
<1> USE DEF B
<1>4. s # {}
  BY DEF IsSum
<1>5. FirstOf(s) \in s
  BY <1>4, FirstIn
<1>6. s \ {FirstOf(s)} \notin B
  BY <1>3, <1>5
<1>7. g[s \ {FirstOf(s)}] = h[s \ {FirstOf(s)}]
  BY <1>6
<1>8. g[s] = f[FirstOf(s)] + g[s \ {FirstOf(s)}]
  BY <1>4 DEF IsSum
<1>9. h[s] = f[FirstOf(s)] + h[s \ {FirstOf(s)}]
  BY <1>4 DEF IsSum
<1> QED BY <1>7, <1>8, <1>9

LEMMA SumExists ==
  ASSUME NEW f, NEW S, IsFiniteSet(S)
  PROVE  \E g : IsSum(g, f, S)
<1> DEFINE B == {T \in SUBSET S : ~ \E g : IsSum(g, f, T)}
<1>1. SUFFICES ASSUME B # {} PROVE FALSE
  OBVIOUS
<1>0. B \subseteq SUBSET S
  OBVIOUS
<1> HIDE DEF B
<1>2. PICK T \in B : \A u \in B : u \subseteq T => u = T
  BY <1>0, <1>1, MinimalSubset
<1> USE DEF B
<1> DEFINE G(s) == CHOOSE g : IsSum(g, f, s)
           h == [s \in SUBSET T |-> IF s = {} THEN 0
                                   ELSE f[FirstOf(s)] + G(s \ {FirstOf(s)})[s \ {FirstOf(s)}]]
<1>3. \A s \in SUBSET T : s # T => IsSum(G(s), f, s)
  <2> TAKE s \in SUBSET T
  <2> HAVE s # T
  <2>1. s \notin B
    BY <1>2
  <2>2. \E g : IsSum(g, f, s)
    BY <2>1
  <2> QED BY <2>2
<1>4. ASSUME NEW s \in SUBSET T, s # {}
      PROVE  h[s \ {FirstOf(s)}] = G(s \ {FirstOf(s)})[s \ {FirstOf(s)}]
  <2> DEFINE u == s \ {FirstOf(s)}
  <2>1. u \in SUBSET T /\ u # T /\ IsFiniteSet(u)
    BY <1>4, FirstIn, FS_Subset
  <2>2. IsSum(G(u), f, u)
    BY <2>1, <1>3
  <2>3. CASE u = {}
    <3>1. G(u)[u] = 0
      BY <2>2, <2>3 DEF IsSum
    <3>2. h[u] = 0
      BY <2>1, <2>3
    <3> QED BY <3>1, <3>2
  <2>4. CASE u # {}
    <3> DEFINE w == u \ {FirstOf(u)}
    <3> HIDE DEF u
    <3>1. w \in SUBSET T /\ w # T /\ IsFiniteSet(w) /\ w \subseteq u
      BY <2>1, <2>4, FirstIn, FS_Subset
    <3>2. IsSum(G(w), f, w)
      BY <3>1, <1>3
    <3>3. G(u)[u] = f[FirstOf(u)] + G(u)[w]
      BY <2>2, <2>4 DEF IsSum
    <3>4. h[u] = f[FirstOf(u)] + G(w)[w]
      BY <2>1, <2>4
    <3>5. G(u)[w] = G(w)[w]
      <4> HIDE DEF w, G
      <4>1. \A x \in SUBSET (u \cap w) : G(u)[x] = G(w)[x]
        BY <2>1, <2>2, <3>2, SumUnique
      <4> QED BY <4>1, <3>1
    <3> QED BY <3>3, <3>4, <3>5 DEF u
  <2> QED BY <2>3, <2>4
<1>5. \A s \in SUBSET T : h[s] = IF s = {} THEN 0 ELSE f[FirstOf(s)] + h[s \ {FirstOf(s)}]
  <2> TAKE s \in SUBSET T
  <2>1. h[s] = IF s = {} THEN 0
               ELSE f[FirstOf(s)] + G(s \ {FirstOf(s)})[s \ {FirstOf(s)}]
    OBVIOUS
  <2> HIDE DEF h, G
  <2> QED BY <2>1, <1>4
<1>6. h = [s \in SUBSET T |-> h[s]]
  OBVIOUS
<1>7. IsSum(h, f, T)
  <2> HIDE DEF h
  <2> QED BY <1>5, <1>6 DEF IsSum
<1> QED BY <1>2, <1>7

LEMMA SumOverIs ==
  ASSUME NEW f, NEW S, IsFiniteSet(S), NEW g, IsSum(g, f, S)
  PROVE  SumFunctionOnSet(f, S) = g[S]
<1> DEFINE h == CHOOSE k : IsSum(k, f, S)
<1>1. IsSum(h, f, S)
  BY SumExists
<1>2. h[S] = g[S]
  <2> HIDE DEF h
  <2>1. \A s \in SUBSET (S \cap S) : h[s] = g[s]
    BY <1>1, SumUnique
  <2> QED BY <2>1
<1> QED BY <1>2, SumOverDef

(* The sum over no element, and over the first element and the rest. *)
LEMMA SumOverFirst ==
  ASSUME NEW f, NEW S, IsFiniteSet(S)
  PROVE  /\ S = {} => SumFunctionOnSet(f, S) = 0
         /\ S # {} => SumFunctionOnSet(f, S) = f[FirstOf(S)] + SumFunctionOnSet(f, S \ {FirstOf(S)})
<1>1. PICK g : IsSum(g, f, S)
  BY SumExists
<1>2. SumFunctionOnSet(f, S) = g[S]
  BY <1>1, SumOverIs
<1>3. ASSUME S = {} PROVE SumFunctionOnSet(f, S) = 0
  BY <1>1, <1>2, <1>3 DEF IsSum
<1>4. ASSUME S # {} PROVE SumFunctionOnSet(f, S) = f[FirstOf(S)] + SumFunctionOnSet(f, S \ {FirstOf(S)})
  <2> DEFINE R == S \ {FirstOf(S)}
  <2>1. IsFiniteSet(R) /\ R \subseteq S
    BY FS_Subset
  <2>2. PICK h : IsSum(h, f, R)
    BY <2>1, SumExists
  <2>3. SumFunctionOnSet(f, R) = h[R]
    BY <2>1, <2>2, SumOverIs
  <2>4. g[R] = h[R]
    <3> HIDE DEF R
    <3>1. \A s \in SUBSET (S \cap R) : g[s] = h[s]
      BY <1>1, <2>2, SumUnique
    <3> QED BY <2>1, <3>1
  <2>5. g[S] = f[FirstOf(S)] + g[R]
    BY <1>1, <1>4 DEF IsSum
  <2> QED BY <1>2, <2>3, <2>4, <2>5
<1> QED BY <1>3, <1>4

(* Sums of integers, and of naturals. *)
LEMMA SumOverType ==
  ASSUME NEW f, NEW S, IsFiniteSet(S), \A x \in S : f[x] \in Int
  PROVE  /\ SumFunctionOnSet(f, S) \in Int
         /\ (\A x \in S : f[x] \in Nat) => SumFunctionOnSet(f, S) \in Nat
<1> DEFINE B == {T \in SUBSET S : ~ (SumFunctionOnSet(f, T) \in Int)}
           N == {T \in SUBSET S : ~ (SumFunctionOnSet(f, T) \in Nat)}
<1>1. ASSUME B # {} PROVE FALSE
  <2>0. B \subseteq SUBSET S
    OBVIOUS
  <2> HIDE DEF B
  <2>1. PICK T \in B : \A u \in B : u \subseteq T => u = T
    BY <2>0, <1>1, MinimalSubset
  <2> USE DEF B
  <2>2. IsFiniteSet(T)
    BY FS_Subset
  <2>3. T # {}
    <3>1. SumFunctionOnSet(f, T) # 0
      OBVIOUS
    <3> QED BY <2>2, <3>1, SumOverFirst
  <2>4. FirstOf(T) \in T
    BY <2>3, FirstIn
  <2>5. SumFunctionOnSet(f, T \ {FirstOf(T)}) \in Int
    BY <2>1, <2>4
  <2>6. SumFunctionOnSet(f, T) = f[FirstOf(T)] + SumFunctionOnSet(f, T \ {FirstOf(T)})
    BY <2>2, <2>3, SumOverFirst
  <2> QED BY <2>1, <2>4, <2>5, <2>6
<1>2. ASSUME N # {}, \A x \in S : f[x] \in Nat PROVE FALSE
  <2>0. N \subseteq SUBSET S
    OBVIOUS
  <2> HIDE DEF N
  <2>1. PICK T \in N : \A u \in N : u \subseteq T => u = T
    BY <2>0, <1>2, MinimalSubset
  <2> USE DEF N
  <2>2. IsFiniteSet(T)
    BY FS_Subset
  <2>3. T # {}
    <3>1. SumFunctionOnSet(f, T) # 0
      OBVIOUS
    <3> QED BY <2>2, <3>1, SumOverFirst
  <2>4. FirstOf(T) \in T
    BY <2>3, FirstIn
  <2>5. SumFunctionOnSet(f, T \ {FirstOf(T)}) \in Nat
    BY <2>1, <2>4
  <2>6. SumFunctionOnSet(f, T) = f[FirstOf(T)] + SumFunctionOnSet(f, T \ {FirstOf(T)})
    BY <2>2, <2>3, SumOverFirst
  <2> QED BY <2>1, <2>4, <2>5, <2>6, <1>2
<1> QED BY <1>1, <1>2

(* Any element may be taken out first. *)
LEMMA SumOverRemove ==
  ASSUME NEW f, NEW S, IsFiniteSet(S), \A x \in S : f[x] \in Int, NEW x \in S
  PROVE  SumFunctionOnSet(f, S) = f[x] + SumFunctionOnSet(f, S \ {x})
<1> DEFINE B == {T \in SUBSET S : \E y \in T : SumFunctionOnSet(f, T) # f[y] + SumFunctionOnSet(f, T \ {y})}
<1>1. SUFFICES ASSUME B # {} PROVE FALSE
  OBVIOUS
<1>0. B \subseteq SUBSET S
  OBVIOUS
<1> HIDE DEF B
<1>2. PICK T \in B : \A u \in B : u \subseteq T => u = T
  BY <1>0, <1>1, MinimalSubset
<1> USE DEF B
<1>3. PICK y \in T : SumFunctionOnSet(f, T) # f[y] + SumFunctionOnSet(f, T \ {y})
  BY <1>2
<1> DEFINE a == FirstOf(T)
<1>4. IsFiniteSet(T) /\ a \in T
  BY <1>3, FS_Subset, FirstIn
<1>5. SumFunctionOnSet(f, T) = f[a] + SumFunctionOnSet(f, T \ {a})
  BY <1>3, <1>4, SumOverFirst
<1>6. a # y
  BY <1>3, <1>5
<1> HIDE DEF a
<1>11. T \ {a} \notin B /\ T \ {y} \notin B
  BY <1>2, <1>3, <1>4
<1>7. SumFunctionOnSet(f, T \ {a}) = f[y] + SumFunctionOnSet(f, (T \ {a}) \ {y})
  BY <1>11, <1>3, <1>4, <1>6
<1>8. SumFunctionOnSet(f, T \ {y}) = f[a] + SumFunctionOnSet(f, (T \ {y}) \ {a})
  BY <1>11, <1>3, <1>4, <1>6
<1>9. (T \ {y}) \ {a} = (T \ {a}) \ {y}
  OBVIOUS
<1>10. SumFunctionOnSet(f, (T \ {a}) \ {y}) \in Int /\ f[a] \in Int /\ f[y] \in Int
  <2>1. IsFiniteSet((T \ {a}) \ {y}) /\ \A z \in (T \ {a}) \ {y} : f[z] \in Int
    BY <1>4, FS_Subset
  <2> QED BY <2>1, <1>3, <1>4, SumOverType
<1> QED BY <1>3, <1>5, <1>7, <1>8, <1>9, <1>10

(* A sum depends on the summands only. *)
LEMMA SumOverEqual ==
  ASSUME NEW S, IsFiniteSet(S), NEW f, NEW g, \A x \in S : f[x] = g[x]
  PROVE  SumFunctionOnSet(f, S) = SumFunctionOnSet(g, S)
<1> DEFINE B == {T \in SUBSET S : SumFunctionOnSet(f, T) # SumFunctionOnSet(g, T)}
<1>1. SUFFICES ASSUME B # {} PROVE FALSE
  OBVIOUS
<1>0. B \subseteq SUBSET S
  OBVIOUS
<1> HIDE DEF B
<1>2. PICK T \in B : \A u \in B : u \subseteq T => u = T
  BY <1>0, <1>1, MinimalSubset
<1> USE DEF B
<1>3. IsFiniteSet(T)
  BY FS_Subset
<1>4. T # {}
  BY <1>2, <1>3, SumOverFirst
<1>5. FirstOf(T) \in T
  BY <1>4, FirstIn
<1>6. SumFunctionOnSet(f, T \ {FirstOf(T)}) = SumFunctionOnSet(g, T \ {FirstOf(T)})
  BY <1>2, <1>5
<1>7. SumFunctionOnSet(f, T) = f[FirstOf(T)] + SumFunctionOnSet(f, T \ {FirstOf(T)})
  BY <1>3, <1>4, SumOverFirst
<1>8. SumFunctionOnSet(g, T) = g[FirstOf(T)] + SumFunctionOnSet(g, T \ {FirstOf(T)})
  BY <1>3, <1>4, SumOverFirst
<1> QED BY <1>2, <1>5, <1>6, <1>7, <1>8

(* What the proofs cite: the sum over no element, its type, and its value   *)
(* when an element is added to the set or its summand changed.              *)
LEMMA SumOverEmpty == \A f : SumFunctionOnSet(f, {}) = 0
BY SumOverFirst, FS_EmptySet

LEMMA SumOverAdd ==
  ASSUME NEW f, NEW S, IsFiniteSet(S), \A y \in S : f[y] \in Int,
         NEW x, x \notin S, f[x] \in Int
  PROVE  SumFunctionOnSet(f, S \cup {x}) = f[x] + SumFunctionOnSet(f, S)
<1>1. IsFiniteSet(S \cup {x}) /\ \A y \in S \cup {x} : f[y] \in Int
  BY FS_AddElement
<1>2. (S \cup {x}) \ {x} = S
  OBVIOUS
<1> QED BY <1>1, <1>2, SumOverRemove

LEMMA SumOverChange ==
  ASSUME NEW S, IsFiniteSet(S), NEW f, NEW g, NEW x \in S,
         \A y \in S : f[y] \in Int /\ g[y] \in Int,
         \A y \in S : y # x => f[y] = g[y]
  PROVE  SumFunctionOnSet(g, S) = SumFunctionOnSet(f, S) - f[x] + g[x]
<1>1. IsFiniteSet(S \ {x})
  BY FS_Subset
<1>2. SumFunctionOnSet(f, S \ {x}) = SumFunctionOnSet(g, S \ {x})
  BY <1>1, SumOverEqual
<1>3. SumFunctionOnSet(f, S \ {x}) \in Int
  BY <1>1, SumOverType
<1> QED BY <1>2, <1>3, SumOverRemove

LEMMA SumOverBound ==
  ASSUME NEW f, NEW S, IsFiniteSet(S), \A y \in S : f[y] \in Nat, NEW x \in S
  PROVE  SumFunctionOnSet(f, S) \in Nat /\ f[x] =< SumFunctionOnSet(f, S)
<1>1. IsFiniteSet(S \ {x})
  BY FS_Subset
<1>2. SumFunctionOnSet(f, S) \in Nat /\ SumFunctionOnSet(f, S \ {x}) \in Nat
  BY <1>1, SumOverType
<1> QED BY <1>2, SumOverRemove

(* Two disjoint parts. *)
LEMMA SumOverUnion ==
  ASSUME NEW f, NEW S, IsFiniteSet(S), NEW R, IsFiniteSet(R), S \cap R = {},
         \A y \in S \cup R : f[y] \in Int
  PROVE  SumFunctionOnSet(f, S \cup R) = SumFunctionOnSet(f, S) + SumFunctionOnSet(f, R)
<1> DEFINE B == {T \in SUBSET R : SumFunctionOnSet(f, S \cup T) # SumFunctionOnSet(f, S) + SumFunctionOnSet(f, T)}
<1>1. SUFFICES ASSUME B # {} PROVE FALSE
  OBVIOUS
<1>0. B \subseteq SUBSET R
  OBVIOUS
<1> HIDE DEF B
<1>2. PICK T \in B : \A u \in B : u \subseteq T => u = T
  BY <1>0, <1>1, MinimalSubset
<1> USE DEF B
<1>3. IsFiniteSet(T) /\ IsFiniteSet(S \cup T)
  BY FS_Subset, FS_Union
<1>4. SumFunctionOnSet(f, S) \in Int
  BY SumOverType
<1>5. T # {}
  <2>1. SumFunctionOnSet(f, S \cup {}) = SumFunctionOnSet(f, S) + SumFunctionOnSet(f, {})
    <3>1. S \cup {} = S
      OBVIOUS
    <3> QED BY <1>4, <3>1, SumOverEmpty
  <2> QED BY <2>1
<1>6. PICK x \in T : TRUE
  BY <1>5
<1>7. T \ {x} \notin B
  BY <1>2
<1>8. SumFunctionOnSet(f, S \cup (T \ {x})) = SumFunctionOnSet(f, S) + SumFunctionOnSet(f, T \ {x})
  BY <1>7
<1>9. SumFunctionOnSet(f, T) = f[x] + SumFunctionOnSet(f, T \ {x})
  BY <1>3, SumOverRemove
<1>10. SumFunctionOnSet(f, S \cup T) = f[x] + SumFunctionOnSet(f, (S \cup T) \ {x})
  BY <1>3, SumOverRemove
<1>11. (S \cup T) \ {x} = S \cup (T \ {x})
  OBVIOUS
<1>12. SumFunctionOnSet(f, T \ {x}) \in Int /\ f[x] \in Int
  <2>1. IsFiniteSet(T \ {x}) /\ \A y \in T \ {x} : f[y] \in Int
    BY <1>3, FS_Subset
  <2>2. SumFunctionOnSet(f, T \ {x}) \in Int
    BY <2>1, SumOverType
  <2> QED BY <2>2
<1>13. SumFunctionOnSet(f, S \cup T) # SumFunctionOnSet(f, S) + SumFunctionOnSet(f, T)
  BY <1>2
<1>14. SumFunctionOnSet(f, S \cup T) = f[x] + (SumFunctionOnSet(f, S) + SumFunctionOnSet(f, T \ {x}))
  BY <1>8, <1>10, <1>11
<1> HIDE DEF B
<1> QED BY <1>4, <1>9, <1>12, <1>13, <1>14

(* What leaves the set leaves the sum, which does not grow if nothing is     *)
(* negative.                                                                 *)
LEMMA SumOverLeave ==
  ASSUME NEW f, NEW S, IsFiniteSet(S), NEW X, X \subseteq S, \A y \in S : f[y] \in Nat
  PROVE  /\ SumFunctionOnSet(f, S) \in Nat /\ SumFunctionOnSet(f, X) \in Nat
         /\ SumFunctionOnSet(f, S \ X) \in Nat
         /\ SumFunctionOnSet(f, S \ X) = SumFunctionOnSet(f, S) - SumFunctionOnSet(f, X)
         /\ SumFunctionOnSet(f, X) =< SumFunctionOnSet(f, S)
<1>1. /\ IsFiniteSet(X) /\ IsFiniteSet(S \ X) /\ (S \ X) \cap X = {} /\ S = (S \ X) \cup X
      /\ \A y \in (S \ X) \cup X : f[y] \in Int
  BY FS_Subset
<1>2. SumFunctionOnSet(f, (S \ X) \cup X) = SumFunctionOnSet(f, S \ X) + SumFunctionOnSet(f, X)
  BY <1>1, SumOverUnion
<1>3. SumFunctionOnSet(f, S \ X) \in Nat /\ SumFunctionOnSet(f, X) \in Nat
  BY <1>1, SumOverType
<1>4. SumFunctionOnSet(f, S) = SumFunctionOnSet(f, S \ X) + SumFunctionOnSet(f, X)
  BY <1>1, <1>2
<1> QED BY <1>3, <1>4

(* Smaller summands, smaller sum. *)
LEMMA SumOverMonotone ==
  ASSUME NEW S, IsFiniteSet(S), NEW f, NEW g,
         \A y \in S : f[y] \in Int /\ g[y] \in Int /\ f[y] =< g[y]
  PROVE  SumFunctionOnSet(f, S) =< SumFunctionOnSet(g, S)
<1> DEFINE B == {T \in SUBSET S : ~ (SumFunctionOnSet(f, T) =< SumFunctionOnSet(g, T))}
<1>1. SUFFICES ASSUME B # {} PROVE FALSE
  OBVIOUS
<1>2. B \subseteq SUBSET S
  OBVIOUS
<1> HIDE DEF B
<1>3. PICK T \in B : \A u \in B : u \subseteq T => u = T
  BY <1>1, <1>2, MinimalSubset
<1>4. T \subseteq S /\ IsFiniteSet(T)
      /\ ~ (SumFunctionOnSet(f, T) =< SumFunctionOnSet(g, T))
  BY <1>3, FS_Subset DEF B
<1>5. T # {}
  <2>1. SumFunctionOnSet(f, {}) = 0 /\ SumFunctionOnSet(g, {}) = 0
    BY SumOverEmpty
  <2> QED BY <1>4, <2>1
<1>6. PICK x \in T : TRUE
  BY <1>5
<1>7. SumFunctionOnSet(f, T \ {x}) =< SumFunctionOnSet(g, T \ {x})
  BY <1>3, <1>4, <1>6 DEF B
<1>8. /\ SumFunctionOnSet(f, T) = f[x] + SumFunctionOnSet(f, T \ {x})
      /\ SumFunctionOnSet(g, T) = g[x] + SumFunctionOnSet(g, T \ {x})
  BY <1>4, <1>6, SumOverRemove
<1>9. SumFunctionOnSet(f, T \ {x}) \in Int /\ SumFunctionOnSet(g, T \ {x}) \in Int
  <2>1. IsFiniteSet(T \ {x}) /\ \A y \in T \ {x} : f[y] \in Int /\ g[y] \in Int
    BY <1>4, FS_Subset
  <2> QED BY <2>1, SumOverType
<1>10. f[x] \in Int /\ g[x] \in Int /\ f[x] =< g[x]
  BY <1>4, <1>6
<1> QED BY <1>4, <1>7, <1>8, <1>9, <1>10

-----------------------------------------------------------------------------
LEMMA ConcatFacts ==
  ASSUME NEW S, NEW s \in Seq(S), NEW t \in Seq(S)
  PROVE  /\ s \o t \in Seq(S) /\ Range(s \o t) = Range(s) \cup Range(t)
         /\ Distinct(s) /\ Distinct(t) /\ Range(s) \cap Range(t) = {} => Distinct(s \o t)
<1> DEFINE r == s \o t
<1>1. /\ r \in Seq(S) /\ Len(r) = Len(s) + Len(t) /\ Len(s) \in Nat /\ Len(t) \in Nat
      /\ \A i \in 1 .. Len(r) : r[i] = IF i =< Len(s) THEN s[i] ELSE t[i - Len(s)]
  BY ConcatProperties
<1> HIDE DEF r
<1>2. /\ \A x : x \in Range(r) <=> \E i \in 1 .. Len(r) : r[i] = x
      /\ \A x : x \in Range(s) <=> \E i \in 1 .. Len(s) : s[i] = x
      /\ \A x : x \in Range(t) <=> \E i \in 1 .. Len(t) : t[i] = x
  BY <1>1, RangeFacts
<1>3. /\ \A i \in 1 .. Len(s) : i \in 1 .. Len(r) /\ r[i] = s[i]
      /\ \A i \in 1 .. Len(t) : Len(s) + i \in 1 .. Len(r) /\ r[Len(s) + i] = t[i]
      /\ \A i \in 1 .. Len(r) : \/ i \in 1 .. Len(s)
                                 \/ /\ i > Len(s) /\ i - Len(s) \in 1 .. Len(t)
                                    /\ r[i] = t[i - Len(s)]
  <2>1. ASSUME NEW i \in 1 .. Len(s) PROVE i \in 1 .. Len(r) /\ r[i] = s[i]
    <3>1. i \in 1 .. Len(r) /\ i =< Len(s)
      BY <1>1
    <3> QED BY <1>1, <3>1
  <2>2. ASSUME NEW i \in 1 .. Len(t)
        PROVE  Len(s) + i \in 1 .. Len(r) /\ r[Len(s) + i] = t[i]
    <3>1. /\ Len(s) + i \in 1 .. Len(r) /\ ~ (Len(s) + i =< Len(s))
          /\ (Len(s) + i) - Len(s) = i
      BY <1>1
    <3> QED BY <1>1, <3>1
  <2>3. ASSUME NEW i \in 1 .. Len(r), i \notin 1 .. Len(s)
        PROVE  i > Len(s) /\ i - Len(s) \in 1 .. Len(t) /\ r[i] = t[i - Len(s)]
    <3>1. i > Len(s) /\ i - Len(s) \in 1 .. Len(t) /\ ~ (i =< Len(s))
      BY <1>1, <2>3
    <3> QED BY <1>1, <3>1
  <2> QED BY <2>1, <2>2, <2>3
<1>4. \A x : x \in Range(r) <=> x \in Range(s) \/ x \in Range(t)
  <2> TAKE x
  <2>1. ASSUME x \in Range(r) PROVE x \in Range(s) \/ x \in Range(t)
    <3>1. PICK i \in 1 .. Len(r) : r[i] = x
      BY <1>2, <2>1
    <3>2. CASE i \in 1 .. Len(s)
      BY <1>2, <1>3, <3>1, <3>2
    <3>3. CASE i - Len(s) \in 1 .. Len(t) /\ r[i] = t[i - Len(s)]
      BY <1>2, <3>1, <3>3
    <3> QED BY <1>3, <3>2, <3>3
  <2>2. ASSUME x \in Range(s) PROVE x \in Range(r)
    BY <1>2, <1>3, <2>2
  <2>3. ASSUME x \in Range(t) PROVE x \in Range(r)
    <3>1. PICK i \in 1 .. Len(t) : t[i] = x
      BY <1>2, <2>3
    <3>2. Len(s) + i \in 1 .. Len(r) /\ r[Len(s) + i] = x
      BY <1>3, <3>1
    <3> QED BY <1>2, <3>2
  <2> QED BY <2>1, <2>2, <2>3
<1>5. ASSUME Distinct(s), Distinct(t), Range(s) \cap Range(t) = {} PROVE Distinct(r)
  <2>1. SUFFICES ASSUME NEW i \in 1 .. Len(r), NEW j \in 1 .. Len(r), r[i] = r[j]
                 PROVE  i = j
    BY DEF Distinct
  <2>2. CASE i \in 1 .. Len(s) /\ j \in 1 .. Len(s)
    BY <1>3, <1>5, <2>1, <2>2 DEF Distinct
  <2>3. CASE i > Len(s) /\ j > Len(s)
    <3>1. /\ i - Len(s) \in 1 .. Len(t) /\ j - Len(s) \in 1 .. Len(t)
          /\ r[i] = t[i - Len(s)] /\ r[j] = t[j - Len(s)]
      BY <1>1, <1>3, <2>3
    <3>2. i - Len(s) = j - Len(s)
      BY <1>5, <2>1, <3>1 DEF Distinct
    <3> QED BY <1>1, <3>2
  <2>4. CASE i \in 1 .. Len(s) /\ j > Len(s)
    <3>1. r[i] \in Range(s)
      BY <1>2, <1>3, <2>4
    <3>2. j - Len(s) \in 1 .. Len(t) /\ r[j] = t[j - Len(s)]
      BY <1>1, <1>3, <2>4
    <3>3. r[j] \in Range(t)
      BY <1>2, <3>2
    <3> QED BY <1>5, <2>1, <3>1, <3>3
  <2>5. CASE j \in 1 .. Len(s) /\ i > Len(s)
    <3>1. r[j] \in Range(s)
      BY <1>2, <1>3, <2>5
    <3>2. i - Len(s) \in 1 .. Len(t) /\ r[i] = t[i - Len(s)]
      BY <1>1, <1>3, <2>5
    <3>3. r[i] \in Range(t)
      BY <1>2, <3>2
    <3> QED BY <1>5, <2>1, <3>1, <3>3
  <2> QED BY <1>3, <2>2, <2>3, <2>4, <2>5
<1>6. Range(r) = Range(s) \cup Range(t)
  BY <1>4
<1> QED BY <1>1, <1>5, <1>6 DEF r

(* A finite set on which a relation is total and transitive has an element   *)
(* that is related to all others.                                            *)
LEMMA FirstInOrder ==
  ASSUME NEW S, IsFiniteSet(S), S # {}, NEW R,
         \A x, y \in S : x # y => <<x, y>> \in R \/ <<y, x>> \in R,
         \A x, y, z \in S : <<x, y>> \in R /\ <<y, z>> \in R => <<x, z>> \in R
  PROVE  \E x \in S : \A y \in S \ {x} : <<x, y>> \in R
<1> DEFINE IsFirst(x, T) == \A y \in T \ {x} : <<x, y>> \in R
           B == {T \in SUBSET S : T # {} /\ \A x \in T : ~ IsFirst(x, T)}
<1>1. SUFFICES ASSUME S \in B PROVE FALSE
  OBVIOUS
<1>2. B \subseteq SUBSET S /\ B # {}
  BY <1>1
<1> HIDE DEF B
<1>3. PICK T \in B : \A U \in B : U \subseteq T => U = T
  BY <1>2, MinimalSubset
<1>4. T \subseteq S /\ T # {} /\ \A x \in T : ~ IsFirst(x, T)
  BY <1>3 DEF B
<1>5. PICK x \in T : TRUE
  BY <1>4
<1>6. T \ {x} # {}
  BY <1>4, <1>5
<1>7. PICK y \in T \ {x} : IsFirst(y, T \ {x})
  <2>1. T \ {x} \notin B
    BY <1>3, <1>5
  <2>2. T \ {x} \in SUBSET S
    BY <1>4
  <2> QED BY <1>6, <2>1, <2>2 DEF B
<1>8. x \in S /\ y \in S /\ x # y
  BY <1>4, <1>5, <1>7
<1>9. CASE <<x, y>> \in R
  <2>1. \A z \in T \ {x} : z = y \/ <<y, z>> \in R
    BY <1>7
  <2>2. \A z \in T \ {x} : <<x, z>> \in R
    BY <1>4, <1>8, <1>9, <2>1
  <2> QED BY <1>4, <1>5, <2>2
<1>10. CASE <<y, x>> \in R
  <2>1. \A z \in T \ {y} : <<y, z>> \in R
    BY <1>7, <1>10
  <2> QED BY <1>4, <1>7, <2>1
<1> QED BY <1>8, <1>9, <1>10

(* Nothing adds up to nothing. *)
LEMMA ZeroSum ==
  ASSUME NEW S, IsFiniteSet(S)
  PROVE  SumFunctionOnSet([x \in S |-> 0], S) = 0
<1> DEFINE z == [x \in S |-> 0]
           B == {T \in SUBSET S : SumFunctionOnSet(z, T) # 0}
<1>1. SUFFICES ASSUME B # {} PROVE FALSE
  OBVIOUS
<1>2. B \subseteq SUBSET S
  OBVIOUS
<1> HIDE DEF B
<1>3. PICK T \in B : \A u \in B : u \subseteq T => u = T
  BY <1>1, <1>2, MinimalSubset
<1>4. T \subseteq S /\ IsFiniteSet(T) /\ SumFunctionOnSet(z, T) # 0
  BY <1>3, FS_Subset DEF B
<1>5. PICK x \in T : TRUE
  BY <1>4, SumOverEmpty
<1>6. SumFunctionOnSet(z, T \ {x}) = 0
  BY <1>3, <1>4, <1>5 DEF B
<1>7. z[x] = 0 /\ \A y \in T : z[y] \in Int
  BY <1>4, <1>5
<1> HIDE DEF z
<1>8. SumFunctionOnSet(z, T) = z[x] + SumFunctionOnSet(z, T \ {x})
  BY <1>4, <1>5, <1>7, SumOverRemove
<1> QED BY <1>4, <1>6, <1>7, <1>8
=============================================================================
