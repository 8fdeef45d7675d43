-------------------------- MODULE CollectionLemmas --------------------------
(***************************************************************************)
(* What the proofs of the components use about sums over a finite set      *)
(* (SumFunctionOnSet of the community modules) and about Kept.  Both are   *)
(* recursive functions: that they exist, and what they return, is shown by *)
(* induction over numbers and over the subsets of a finite set, stated     *)
(* with the set of the cases that hold.                                    *)
(***************************************************************************)
EXTENDS Collections, Integers, Sequences, FiniteSets, Functions,
        WellFoundedInduction, FiniteSetTheorems, TLAPS

(* A nonempty set of numbers has a least one. *)
LEMMA Least ==
    ASSUME NEW T \in SUBSET Nat, T # {}
    PROVE  \E m \in T : \A k \in T : m <= k
<1>1. PICK m \in T : \A k \in T : ~ (<<k, m>> \in OpToRel(<, Nat))
  BY NatLessThanWellFounded, WFMin, Zenon
<1>2. \A k \in T : ~(k < m)
  BY <1>1, ZenonT(30) DEF OpToRel
<1> QED
  BY <1>2

(* Induction up to a number, over the set of numbers a claim holds of. *)
LEMMA CountUp ==
    ASSUME NEW n \in Nat, NEW G, 0 \in G, \A k \in 0 .. (n - 1) : k \in G => k + 1 \in G
    PROVE  \A k \in 0 .. n : k \in G
<1> DEFINE T == (0 .. n) \ G
<1>1. SUFFICES ASSUME T # {}
               PROVE  FALSE
  OBVIOUS
<1>2. T \in SUBSET Nat
  OBVIOUS
<1>3. PICK m \in T : \A k \in T : m <= k
  BY <1>1, <1>2, Least, Zenon
<1>4. m # 0 /\ m - 1 \in 0 .. (n - 1) /\ m - 1 \notin T
  BY <1>3
<1> QED
  BY <1>4

(* Two sequences with the same elements in the same places. *)
LEMMA SameSeq ==
    ASSUME NEW S, NEW s \in Seq(S), NEW t \in Seq(S), Len(s) = Len(t),
           \A i \in 1 .. Len(s) : s[i] = t[i]
    PROVE  s = t
<1>1. s = [i \in 1 .. Len(s) |-> s[i]]
  OBVIOUS
<1>2. t = [i \in 1 .. Len(t) |-> t[i]]
  OBVIOUS
<1> QED
  BY <1>1, <1>2, Zenon

(* The elements of a concatenation. *)
LEMMA ConcatElements ==
    ASSUME NEW S, NEW s \in Seq(S), NEW t \in Seq(S)
    PROVE  /\ s \o t \in Seq(S) /\ Len(s \o t) = Len(s) + Len(t)
           /\ \A i \in 1 .. (Len(s) + Len(t)) :
                 (s \o t)[i] = IF i <= Len(s) THEN s[i] ELSE t[i - Len(s)]
  OBVIOUS

(* Induction over the subsets of a finite set. *)
LEMMA SubsetsUp ==
    ASSUME NEW S, IsFiniteSet(S), NEW G, {} \in G,
           \A s \in SUBSET S : s # {} /\ (\A y \in s : s \ {y} \in G) => s \in G
    PROVE  \A s \in SUBSET S : s \in G
<1> DEFINE H == {n \in Nat : \A s \in SUBSET S : Cardinality(s) = n => s \in G}
<1>1. \A s \in SUBSET S : IsFiniteSet(s) /\ Cardinality(s) \in Nat /\ Cardinality(s) <= Cardinality(S)
  BY FS_Subset, FS_CardinalityType
<1>2. Cardinality(S) \in Nat
  BY FS_CardinalityType
<1>3. 0 \in H
  <2>1. \A s \in SUBSET S : Cardinality(s) = 0 => s = {}
    BY <1>1, FS_EmptySet, Zenon
  <2> QED
    BY <2>1
<1>4. ASSUME NEW k \in Nat, k \in H, NEW s \in SUBSET S, Cardinality(s) = k + 1
      PROVE  s \in G
  <2>1. s # {}
    BY <1>4, FS_EmptySet
  <2>2. ASSUME NEW y \in s
        PROVE  s \ {y} \in G
    <3>1. Cardinality(s \ {y}) = Cardinality(s) - 1 /\ s \ {y} \in SUBSET S
      BY <1>1, FS_RemoveElement, Zenon
    <3>2. Cardinality(s \ {y}) = k
      BY <3>1, <1>4
    <3> QED
      BY <1>4, <3>1, <3>2, Zenon
  <2> QED
    BY <2>1, <2>2, Zenon
<1>5. \A k \in 0 .. (Cardinality(S) - 1) : k \in H => k + 1 \in H
  BY <1>2, <1>4
<1>6. \A k \in 0 .. Cardinality(S) : k \in H
  <2> HIDE DEF H
  <2> QED
    BY <1>2, <1>3, <1>5, CountUp, Zenon
<1> QED
  <2> TAKE s \in SUBSET S
  <2>1. Cardinality(s) \in 0 .. Cardinality(S)
    BY <1>1, <1>2
  <2> QED
    BY <1>6, <2>1, Zenon
-----------------------------------------------------------------------------
(* What the sum of the library recurs on. *)
SumStep(f, g, s) == IF s = {} THEN 0 ELSE LET x == CHOOSE x \in s : TRUE IN f[x] + g[s \ {x}]
PartialSum(f, S) == CHOOSE g : g = [s \in SUBSET S |-> SumStep(f, g, s)]

(* A sum over a set is the last of the sums over its subsets. *)
LEMMA SumIsPartial ==
    ASSUME NEW f, NEW S PROVE SumFunctionOnSet(f, S) = PartialSum(f, S)[S]
BY Zenon DEF SumFunctionOnSet, FoldFunctionOnSet, MapThenFoldSet, PartialSum, SumStep

(* The sums over the subsets of a finite set exist. *)
LEMMA PartialExists ==
    ASSUME NEW f, NEW S, IsFiniteSet(S)
    PROVE  \E g : g = [s \in SUBSET S |-> SumStep(f, g, s)]
<1> DEFINE Small(n) == {s \in SUBSET S : Cardinality(s) <= n}
           Good(n, g) == g = [s \in Small(n) |-> SumStep(f, g, s)]
           T == {n \in Nat : \A g : ~Good(n, g)}
<1>1. \A s \in SUBSET S : IsFiniteSet(s) /\ Cardinality(s) \in Nat /\ Cardinality(s) <= Cardinality(S)
  BY FS_Subset, FS_CardinalityType
<1>2. Cardinality(S) \in Nat
  BY FS_CardinalityType
<1>3. Small(Cardinality(S)) = SUBSET S
  BY <1>1, Zenon
<1>4. SUFFICES T = {}
  <2>1. Cardinality(S) \notin T
    BY <1>4
  <2>2. PICK g : Good(Cardinality(S), g)
    BY <1>2, <2>1
  <2> QED
    BY <2>2, <1>3
<1>5. SUFFICES ASSUME NEW m \in T, \A k \in T : m <= k
               PROVE  FALSE
  BY Least, Zenon
<1>6. CASE m = 0
  <2>1. \A s \in Small(0) : s = {}
    BY <1>1, FS_EmptySet
  <2>2. Good(0, [s \in Small(0) |-> 0])
    BY <2>1 DEF SumStep
  <2> QED
    BY <1>6, <2>2
<1>7. CASE m # 0
  <2>1. m - 1 \in Nat /\ m - 1 \notin T
    <3>1. T \subseteq Nat
      OBVIOUS
    <3> HIDE DEF T
    <3> QED
      BY <1>5, <1>7, <3>1
  <2>2. PICK g : Good(m - 1, g)
    BY <2>1
  <2> DEFINE h == [s \in Small(m) |-> SumStep(f, g, s)]
  <2>3. ASSUME NEW s \in Small(m)
        PROVE  h[s] = SumStep(f, h, s)
    <3>1. CASE s = {}
      BY <3>1 DEF SumStep
    <3>2. CASE s # {}
      <4> DEFINE x == CHOOSE x \in s : TRUE
      <4>1. x \in s
        BY <3>2
      <4>2. s \ {x} \in Small(m - 1) /\ s \ {x} \in Small(m)
        <5>1. Cardinality(s \ {x}) = Cardinality(s) - 1
          BY <4>1, <1>1, FS_RemoveElement, Zenon
        <5>2. Cardinality(s) \in Nat /\ Cardinality(s) <= m /\ m \in Nat
          BY <1>1
        <5>3. s \ {x} \in SUBSET S
          OBVIOUS
        <5> HIDE DEF x
        <5>4. Cardinality(s \ {x}) <= m - 1 /\ Cardinality(s \ {x}) <= m
          BY <5>1, <5>2
        <5> QED
          BY <5>3, <5>4
      <4>3. g[s \ {x}] = h[s \ {x}]
        BY <4>2, <2>2
      <4>4. h[s] = f[x] + g[s \ {x}]
        BY <3>2, Zenon DEF SumStep
      <4>5. SumStep(f, h, s) = f[x] + h[s \ {x}]
        BY <3>2, Zenon DEF SumStep
      <4> QED
        BY <4>3, <4>4, <4>5, Zenon
    <3> QED
      BY <3>1, <3>2
  <2>4. Good(m, h)
    BY <2>3, Zenon
  <2> QED
    BY <2>4
<1> QED
  BY <1>6, <1>7

(* The sums over the subsets satisfy their recursion. *)
LEMMA PartialStep ==
    ASSUME NEW f, NEW S, IsFiniteSet(S), NEW s \in SUBSET S
    PROVE  PartialSum(f, S)[s] = SumStep(f, PartialSum(f, S), s)
<1>1. PartialSum(f, S) = [t \in SUBSET S |-> SumStep(f, PartialSum(f, S), t)]
  BY PartialExists, Zenon DEF PartialSum
<1> QED
  BY <1>1, Zenon

(* The partial sum g of s is that of s without x, and x. *)
SumTakes(f, g, s, x) == g[s] = f[x] + g[s \ {x}]
ChosenOf(s) == CHOOSE x \in s : TRUE

(* The recursion takes out the element CHOOSE gives. *)
LEMMA PartialChosen ==
    ASSUME NEW S, IsFiniteSet(S), NEW f, NEW s \in SUBSET S, s # {}
    PROVE  SumTakes(f, PartialSum(f, S), s, ChosenOf(s))
<1>1. PartialSum(f, S)[s] = SumStep(f, PartialSum(f, S), s)
  BY PartialStep, Zenon
<1> QED
  BY <1>1, Zenon DEF SumStep, ChosenOf, SumTakes

(* CHOOSE gives an element. *)
LEMMA ChosenIn ==
    ASSUME NEW s, s # {} PROVE ChosenOf(s) \in s
BY DEF ChosenOf

(* The partial sum over no elements. *)
LEMMA PartialEmpty ==
    ASSUME NEW S, IsFiniteSet(S), NEW f
    PROVE  PartialSum(f, S)[{}] = 0
BY PartialStep, Zenon DEF SumStep

(* The partial sums are integers. *)
LEMMA PartialInt ==
    ASSUME NEW S, IsFiniteSet(S), NEW f, \A x \in S : f[x] \in Int, NEW r \in SUBSET S
    PROVE  PartialSum(f, S)[r] \in Int
<1> DEFINE P == PartialSum(f, S)
           G == {s \in SUBSET S : P[s] \in Int}
<1>1. {} \in G
  BY PartialEmpty
<1>2. ASSUME NEW s \in SUBSET S, s # {}, \A y \in s : s \ {y} \in G
      PROVE  s \in G
  <2> DEFINE x == ChosenOf(s)
  <2>1. x \in s /\ SumTakes(f, P, s, x)
    BY <1>2, ChosenIn, PartialChosen, Zenon
  <2> HIDE DEF x, P
  <2>2. f[x] \in Int /\ P[s \ {x}] \in Int
    BY <1>2, <2>1, Zenon
  <2>3. P[s] \in Int
    BY <2>1, <2>2 DEF SumTakes
  <2> QED
    BY <2>3, Zenon
<1> HIDE DEF G
<1>3. \A s \in SUBSET S : s \in G
  BY <1>1, <1>2, SubsetsUp, Zenon
<1> QED
  BY <1>3, Zenon DEF G

(* The order in which elements are taken makes no difference. *)
LEMMA PartialTake ==
    ASSUME NEW S, IsFiniteSet(S), NEW f, \A x \in S : f[x] \in Int, NEW r \in SUBSET S, NEW z \in r
    PROVE  SumTakes(f, PartialSum(f, S), r, z)
<1> DEFINE P == PartialSum(f, S)
           G == {s \in SUBSET S : \A y \in s : SumTakes(f, P, s, y)}
<1>1. {} \in G
  OBVIOUS
<1>2. ASSUME NEW s \in SUBSET S, s # {}, \A y \in s : s \ {y} \in G
      PROVE  s \in G
  <2> DEFINE x == ChosenOf(s)
  <2>1. x \in s /\ SumTakes(f, P, s, x)
    BY <1>2, ChosenIn, PartialChosen, Zenon
  <2> HIDE DEF x
  <2>2. ASSUME NEW y \in s, y # x
        PROVE  SumTakes(f, P, s, y)
    <3>1. x \in s \ {y} /\ y \in s \ {x} /\ s \ {x} \in G /\ s \ {y} \in G
      BY <1>2, <2>1, <2>2, Zenon
    <3>2. SumTakes(f, P, s \ {x}, y) /\ SumTakes(f, P, s \ {y}, x)
      BY <3>1, Zenon
    <3>3. (s \ {x}) \ {y} = (s \ {y}) \ {x} /\ (s \ {x}) \ {y} \in SUBSET S
      BY Zenon
    <3>4. f[x] \in Int /\ f[y] \in Int
      BY <2>1, Zenon
    <3>5. P[(s \ {x}) \ {y}] \in Int
      BY <3>3, PartialInt
    <3> HIDE DEF P
    <3>6. P[s] = f[x] + (f[y] + P[(s \ {x}) \ {y}]) /\ P[s \ {y}] = f[x] + P[(s \ {x}) \ {y}]
      BY <2>1, <3>2, <3>3, Zenon DEF SumTakes
    <3> QED
      BY <3>4, <3>5, <3>6 DEF SumTakes
  <2> QED
    BY <2>1, <2>2, Zenon
<1> HIDE DEF G
<1>3. \A s \in SUBSET S : s \in G
  BY <1>1, <1>2, SubsetsUp, Zenon
<1> QED
  BY <1>3, Zenon DEF G

(* A partial sum is that of a smaller set. *)
LEMMA PartialLocal ==
    ASSUME NEW S, IsFiniteSet(S), NEW f, NEW U \in SUBSET S, NEW r \in SUBSET U
    PROVE  PartialSum(f, S)[r] = PartialSum(f, U)[r]
<1> DEFINE P == PartialSum(f, S)
           Q == PartialSum(f, U)
           G == {s \in SUBSET U : P[s] = Q[s]}
<1>1. IsFiniteSet(U)
  BY FS_Subset
<1>2. {} \in G
  BY <1>1, PartialEmpty
<1>3. ASSUME NEW s \in SUBSET U, s # {}, \A y \in s : s \ {y} \in G
      PROVE  s \in G
  <2> DEFINE x == ChosenOf(s)
  <2>1. s \in SUBSET S
    OBVIOUS
  <2>2. x \in s /\ SumTakes(f, Q, s, x) /\ SumTakes(f, P, s, x)
    BY <1>1, <1>3, <2>1, ChosenIn, PartialChosen, Zenon
  <2> HIDE DEF x, P, Q
  <2>3. P[s \ {x}] = Q[s \ {x}]
    BY <1>3, <2>2, Zenon
  <2>4. P[s] = Q[s]
    BY <2>2, <2>3, Zenon DEF SumTakes
  <2> QED
    BY <2>4, Zenon
<1> HIDE DEF G
<1>4. \A s \in SUBSET U : s \in G
  BY <1>1, <1>2, <1>3, SubsetsUp, Zenon
<1> QED
  BY <1>4, Zenon DEF G
-----------------------------------------------------------------------------
(* The sum over no elements. *)
LEMMA SumEmpty ==
    ASSUME NEW f
    PROVE  SumFunctionOnSet(f, {}) = 0
BY SumIsPartial, PartialEmpty, FS_EmptySet

(* Any element can be taken out. *)
LEMMA SumTake ==
    ASSUME NEW S, IsFiniteSet(S), NEW f, \A x \in S : f[x] \in Int, NEW y \in S
    PROVE  SumFunctionOnSet(f, S) = f[y] + SumFunctionOnSet(f, S \ {y})
<1>1. S \in SUBSET S /\ S \ {y} \in SUBSET S /\ S \ {y} \in SUBSET (S \ {y})
  OBVIOUS
<1>2. PartialSum(f, S)[S] = f[y] + PartialSum(f, S)[S \ {y}]
  <2>1. SumTakes(f, PartialSum(f, S), S, y)
    BY <1>1, PartialTake, Zenon
  <2> QED
    BY <2>1, Zenon DEF SumTakes
<1>3. PartialSum(f, S)[S \ {y}] = PartialSum(f, S \ {y})[S \ {y}]
  <2> DEFINE U == S \ {y}
  <2>1. U \in SUBSET S /\ U \in SUBSET U
    BY <1>1
  <2> HIDE DEF U
  <2>2. PartialSum(f, S)[U] = PartialSum(f, U)[U]
    BY <2>1, PartialLocal, Zenon
  <2> QED
    BY <2>2 DEF U
<1> QED
  BY <1>2, <1>3, SumIsPartial, Zenon

(* A sum of integers is an integer. *)
LEMMA SumType ==
    ASSUME NEW S, IsFiniteSet(S), NEW f, \A x \in S : f[x] \in Int
    PROVE  SumFunctionOnSet(f, S) \in Int
BY PartialInt, SumIsPartial

(* An element can be put in. *)
LEMMA SumPut ==
    ASSUME NEW S, IsFiniteSet(S), NEW f, NEW y, y \notin S, \A x \in S \cup {y} : f[x] \in Int
    PROVE  SumFunctionOnSet(f, S \cup {y}) = SumFunctionOnSet(f, S) + f[y]
<1>1. IsFiniteSet(S \cup {y}) /\ y \in S \cup {y} /\ (S \cup {y}) \ {y} = S
  BY FS_AddElement
<1>2. SumFunctionOnSet(f, S \cup {y}) = f[y] + SumFunctionOnSet(f, S)
  <2>1. SumFunctionOnSet(f, S \cup {y}) = f[y] + SumFunctionOnSet(f, (S \cup {y}) \ {y})
    BY <1>1, SumTake, Zenon
  <2> QED
    BY <1>1, <2>1, Zenon
<1>3. f[y] \in Int /\ SumFunctionOnSet(f, S) \in Int
  BY SumType
<1> QED
  BY <1>2, <1>3

(* Functions that agree on a set have the same sum over it. *)
LEMMA SumAgree ==
    ASSUME NEW S, IsFiniteSet(S), NEW f, NEW g, \A x \in S : f[x] \in Int /\ g[x] = f[x]
    PROVE  SumFunctionOnSet(f, S) = SumFunctionOnSet(g, S)
<1> DEFINE G == {s \in SUBSET S : SumFunctionOnSet(f, s) = SumFunctionOnSet(g, s)}
<1>1. {} \in G
  BY SumEmpty
<1>2. ASSUME NEW s \in SUBSET S, NEW y \in s, s \ {y} \in G
      PROVE  s \in G
  <2>1. IsFiniteSet(s) /\ (\A x \in s : f[x] \in Int) /\ (\A x \in s : g[x] \in Int) /\ g[y] = f[y]
    BY FS_Subset
  <2>2. SumFunctionOnSet(f, s) = f[y] + SumFunctionOnSet(f, s \ {y})
    BY <2>1, SumTake, Zenon
  <2>3. SumFunctionOnSet(g, s) = g[y] + SumFunctionOnSet(g, s \ {y})
    BY <2>1, SumTake, Zenon
  <2> QED
    BY <1>2, <2>1, <2>2, <2>3, Zenon
<1>3. S \in G
  <2> HIDE DEF G
  <2>1. \A s \in SUBSET S : s \in G
    BY <1>1, <1>2, SubsetsUp, Zenon
  <2> QED
    BY <2>1, Zenon
<1> QED
  BY <1>3, Zenon

(* A sum splits over a part and the rest. *)
LEMMA SumSplit ==
    ASSUME NEW S, IsFiniteSet(S), NEW f, \A x \in S : f[x] \in Int, NEW U \in SUBSET S
    PROVE  SumFunctionOnSet(f, S) = SumFunctionOnSet(f, U) + SumFunctionOnSet(f, S \ U)
<1> DEFINE G == {s \in SUBSET S : SumFunctionOnSet(f, S) =
                                     SumFunctionOnSet(f, s) + SumFunctionOnSet(f, S \ s)}
<1>1. \A s \in SUBSET S : IsFiniteSet(s) /\ SumFunctionOnSet(f, s) \in Int
  BY FS_Subset, SumType
<1>2. {} \in G
  <2>1. S \ {} = S
    OBVIOUS
  <2>2. SumFunctionOnSet(f, S) = 0 + SumFunctionOnSet(f, S)
    BY <1>1
  <2> QED
    BY SumEmpty, <2>1, <2>2, Zenon
<1>3. ASSUME NEW s \in SUBSET S, NEW y \in s, s \ {y} \in G
      PROVE  s \in G
  <2> DEFINE r == s \ {y}
             R == S \ r
  <2>1. r \in SUBSET S /\ R \in SUBSET S /\ R \ {y} = S \ s /\ y \in R /\ S \ s \in SUBSET S
    OBVIOUS
  <2>2. SumFunctionOnSet(f, s) = f[y] + SumFunctionOnSet(f, r)
    BY <1>1, SumTake, Zenon
  <2>3. IsFiniteSet(R) /\ \A x \in R : f[x] \in Int
    BY <2>1, <1>1, Zenon
  <2>4. SumFunctionOnSet(f, S) = SumFunctionOnSet(f, r) + SumFunctionOnSet(f, R)
    BY <1>3, Zenon
  <2>5. f[y] \in Int /\ SumFunctionOnSet(f, r) \in Int /\ SumFunctionOnSet(f, S \ s) \in Int
    BY <2>1, <1>1
  <2> HIDE DEF R, r
  <2>6. SumFunctionOnSet(f, R) = f[y] + SumFunctionOnSet(f, R \ {y})
    BY <2>1, <2>3, SumTake, Zenon
  <2>7. SumFunctionOnSet(f, R) = f[y] + SumFunctionOnSet(f, S \ s)
    BY <2>1, <2>6, Zenon
  <2>8. SumFunctionOnSet(f, S) = SumFunctionOnSet(f, s) + SumFunctionOnSet(f, S \ s)
    BY <2>2, <2>4, <2>5, <2>7
  <2> QED
    BY <2>8, Zenon
<1>4. U \in G
  <2> HIDE DEF G
  <2>1. \A s \in SUBSET S : s \in G
    BY <1>2, <1>3, SubsetsUp, Zenon
  <2> QED
    BY <2>1, Zenon
<1> QED
  BY <1>4, Zenon

(* A sum of sizes is a size. *)
LEMMA SumNat ==
    ASSUME NEW S, IsFiniteSet(S), NEW f, \A x \in S : f[x] \in Nat
    PROVE  SumFunctionOnSet(f, S) \in Nat
<1> DEFINE G == {s \in SUBSET S : SumFunctionOnSet(f, s) \in Nat}
<1>1. {} \in G
  BY SumEmpty
<1>2. ASSUME NEW s \in SUBSET S, NEW y \in s, s \ {y} \in G
      PROVE  s \in G
  <2>1. IsFiniteSet(s) /\ (\A x \in s : f[x] \in Int) /\ f[y] \in Nat
    BY FS_Subset
  <2>2. SumFunctionOnSet(f, s) = f[y] + SumFunctionOnSet(f, s \ {y})
    BY <2>1, SumTake, Zenon
  <2>3. SumFunctionOnSet(f, s \ {y}) \in Nat
    BY <1>2
  <2>4. SumFunctionOnSet(f, s) \in Nat
    BY <2>1, <2>2, <2>3
  <2> QED
    BY <2>4, Zenon
<1>3. S \in G
  <2> HIDE DEF G
  <2>1. \A s \in SUBSET S : s \in G
    BY <1>1, <1>2, SubsetsUp, Zenon
  <2> QED
    BY <2>1, Zenon
<1> QED
  BY <1>3, Zenon
(* The sum over one element. *)
LEMMA SumOne ==
    ASSUME NEW f, NEW y, f[y] \in Int
    PROVE  SumFunctionOnSet(f, {y}) = f[y]
<1>1. IsFiniteSet({}) /\ y \notin {} /\ {} \cup {y} = {y} /\ \A x \in {} \cup {y} : f[x] \in Int
  BY FS_EmptySet
<1>2. SumFunctionOnSet(f, {} \cup {y}) = SumFunctionOnSet(f, {}) + f[y]
  BY <1>1, SumPut, Zenon
<1> QED
  BY <1>1, <1>2, SumEmpty

(* Zeros add up to zero. *)
LEMMA SumZero ==
    ASSUME NEW S, IsFiniteSet(S), NEW f, \A x \in S : f[x] = 0
    PROVE  SumFunctionOnSet(f, S) = 0
<1> DEFINE G == {s \in SUBSET S : SumFunctionOnSet(f, s) = 0}
<1>1. {} \in G
  BY SumEmpty
<1>2. ASSUME NEW s \in SUBSET S, NEW y \in s, s \ {y} \in G
      PROVE  s \in G
  <2>1. IsFiniteSet(s) /\ (\A x \in s : f[x] \in Int) /\ f[y] = 0
    BY FS_Subset
  <2>2. SumFunctionOnSet(f, s) = f[y] + SumFunctionOnSet(f, s \ {y})
    BY <2>1, SumTake, Zenon
  <2> QED
    BY <1>2, <2>1, <2>2
<1>3. \A s \in SUBSET S : s # {} /\ (\A y \in s : s \ {y} \in G) => s \in G
  <2> HIDE DEF G
  <2> QED
    BY <1>2, Zenon
<1>4. \A s \in SUBSET S : s \in G
  <2> HIDE DEF G
  <2> QED
    BY <1>1, <1>3, SubsetsUp, Zenon
<1> QED
  BY <1>4

(* A set of elements leaves, of which those that are not in S weigh nothing. *)
LEMMA SumWithout ==
    ASSUME NEW S, IsFiniteSet(S), NEW D, IsFiniteSet(D), NEW f, NEW g,
           \A x \in S \cup D : f[x] \in Int,
           \A x \in D \ S : f[x] = 0, \A x \in S \ D : g[x] = f[x]
    PROVE  SumFunctionOnSet(g, S \ D) = SumFunctionOnSet(f, S) - SumFunctionOnSet(f, D)
<1> DEFINE C == S \cap D
<1>1. /\ IsFiniteSet(C) /\ IsFiniteSet(S \ D) /\ IsFiniteSet(D \ S)
      /\ S \ C = S \ D /\ D \ C = D \ S /\ C \in SUBSET S /\ C \in SUBSET D
  BY FS_Subset
<1>2. (\A x \in S : f[x] \in Int) /\ (\A x \in D : f[x] \in Int) /\ \A x \in C : f[x] \in Int
  OBVIOUS
<1>3. \A x \in S \ D : f[x] \in Int /\ g[x] = f[x]
  OBVIOUS
<1> HIDE DEF C
<1>4. SumFunctionOnSet(f, S) = SumFunctionOnSet(f, C) + SumFunctionOnSet(f, S \ C)
  BY <1>1, <1>2, SumSplit, Zenon
<1>5. SumFunctionOnSet(f, D) = SumFunctionOnSet(f, C) + SumFunctionOnSet(f, D \ C)
  BY <1>1, <1>2, SumSplit, Zenon
<1>6. SumFunctionOnSet(f, D \ S) = 0
  BY <1>1, SumZero, Zenon
<1>7. SumFunctionOnSet(f, S \ D) = SumFunctionOnSet(g, S \ D)
  BY <1>1, <1>3, SumAgree, Zenon
<1>8. SumFunctionOnSet(f, C) \in Int /\ SumFunctionOnSet(f, S \ D) \in Int
  BY <1>1, <1>2, <1>3, SumType, Zenon
<1> DEFINE a == SumFunctionOnSet(f, C)
           b == SumFunctionOnSet(f, S \ D)
<1>9. /\ SumFunctionOnSet(f, S) = a + b /\ SumFunctionOnSet(f, D) = a + 0
      /\ SumFunctionOnSet(g, S \ D) = b /\ a \in Int /\ b \in Int
  BY <1>1, <1>4, <1>5, <1>6, <1>7, <1>8, Zenon
<1> HIDE DEF a, b
<1> QED
  BY <1>9

(* A sequence has finitely many elements. *)
LEMMA RangeFinite ==
    ASSUME NEW A, NEW s \in Seq(A)
    PROVE  IsFiniteSet(Range(s)) /\ Range(s) \subseteq A
<1>1. Len(s) \in Nat /\ DOMAIN s = 1 .. Len(s) /\ \A n \in 1 .. Len(s) : s[n] \in A
  OBVIOUS
<1>2. s \in [1 .. Len(s) -> Range(s)] /\ \A x \in Range(s) : \E n \in 1 .. Len(s) : s[n] = x
  BY <1>1 DEF Range
<1>3. s \in Surjection(1 .. Len(s), Range(s))
  BY <1>2, Zenon DEF Surjection
<1>4. IsFiniteSet(1 .. Len(s))
  BY <1>1, FS_Interval
<1>5. IsFiniteSet(Range(s))
  BY <1>3, <1>4, FS_Surjection, Zenon
<1> QED
  BY <1>1, <1>5 DEF Range
-----------------------------------------------------------------------------
(* What Kept recurs on: the elements kept of the first n. *)
KeepStep(s, S, g, n) == IF n = 0 THEN <<>> ELSE IF s[n] \in S THEN Append(g[n - 1], s[n]) ELSE g[n - 1]
KeptPrefixes(s, S) == CHOOSE g : g = [n \in 0 .. Len(s) |-> KeepStep(s, S, g, n)]

(* What is kept of a sequence is the last of what is kept of its prefixes. *)
LEMMA KeptIsPrefix ==
    ASSUME NEW s, NEW S PROVE Kept(s, S) = KeptPrefixes(s, S)[Len(s)]
BY Zenon DEF Kept, KeptPrefixes, KeepStep

(* What is kept of every prefix exists. *)
LEMMA PrefixesExist ==
    ASSUME NEW s, NEW S, Len(s) \in Nat
    PROVE  \E g : g = [n \in 0 .. Len(s) |-> KeepStep(s, S, g, n)]
<1> DEFINE Good(n, g) == g = [k \in 0 .. n |-> KeepStep(s, S, g, k)]
           T == {n \in Nat : \A g : ~Good(n, g)}
<1>1. SUFFICES T = {}
  OBVIOUS
<1>2. SUFFICES ASSUME NEW m \in T, \A k \in T : m <= k
               PROVE  FALSE
  BY Least, Zenon
<1>3. CASE m = 0
  <2>1. Good(0, [k \in 0 .. 0 |-> <<>>])
    BY DEF KeepStep
  <2> QED
    BY <1>3, <2>1
<1>4. CASE m # 0
  <2>1. m - 1 \in Nat /\ m - 1 \notin T
    BY <1>2, <1>4
  <2>2. PICK g : Good(m - 1, g)
    BY <2>1
  <2> DEFINE h == [k \in 0 .. m |-> KeepStep(s, S, g, k)]
  <2>3. ASSUME NEW k \in 0 .. m
        PROVE  h[k] = KeepStep(s, S, h, k)
    <3>1. CASE k = 0
      BY <3>1 DEF KeepStep
    <3>2. CASE k # 0
      <4>1. k - 1 \in 0 .. (m - 1) /\ k - 1 \in 0 .. m
        BY <3>2
      <4>2. g[k - 1] = h[k - 1]
        BY <4>1, <2>2
      <4>3. h[k] = KeepStep(s, S, g, k)
        OBVIOUS
      <4> QED
        BY <4>2, <4>3, Zenon DEF KeepStep
    <3> QED
      BY <3>1, <3>2
  <2>4. Good(m, h)
    BY <2>3, Zenon
  <2> QED
    BY <2>4
<1> QED
  BY <1>3, <1>4

(* What is kept of the prefixes satisfies its recursion. *)
LEMMA PrefixStep ==
    ASSUME NEW s, NEW S, Len(s) \in Nat, NEW n \in 0 .. Len(s)
    PROVE  KeptPrefixes(s, S)[n] = KeepStep(s, S, KeptPrefixes(s, S), n)
<1>1. KeptPrefixes(s, S) = [k \in 0 .. Len(s) |-> KeepStep(s, S, KeptPrefixes(s, S), k)]
  BY PrefixesExist, Zenon DEF KeptPrefixes
<1> QED
  BY <1>1, Zenon

(* What Kept returns: a sequence of the elements of s that are in S, without
   repetition where s has none. *)
LEMMA KeptElements ==
    ASSUME NEW A, NEW s \in Seq(A), NEW S
    PROVE  /\ Kept(s, S) \in Seq(A)
           /\ Range(Kept(s, S)) = Range(s) \cap S
           /\ IsInjective(s) => IsInjective(Kept(s, S))
<1> DEFINE g == KeptPrefixes(s, S)
           Fine(q, n) == /\ q \in Seq(A)
                         /\ \A k \in 1 .. Len(q) : \E i \in 1 .. n : q[k] = s[i] /\ s[i] \in S
                         /\ \A i \in 1 .. n : s[i] \in S => \E k \in 1 .. Len(q) : q[k] = s[i]
                         /\ IsInjective(s) => \A k, l \in 1 .. Len(q) : q[k] = q[l] => k = l
           G == {n \in 0 .. Len(s) : Fine(g[n], n)}
<1>1. Len(s) \in Nat /\ DOMAIN s = 1 .. Len(s)
  OBVIOUS
<1>2. \A n \in 0 .. Len(s) : g[n] = KeepStep(s, S, g, n)
  BY <1>1, PrefixStep, Zenon
<1>3. Fine(<<>>, 0)
  OBVIOUS
<1>4. ASSUME NEW m \in 1 .. Len(s), NEW p, Fine(p, m - 1), s[m] \notin S
      PROVE  Fine(p, m)
  <2>1. 1 .. m = (1 .. (m - 1)) \cup {m}
    BY <1>1
  <2> QED
    BY <1>4, <2>1, Zenon
<1>5. ASSUME NEW m \in 1 .. Len(s), NEW p, Fine(p, m - 1), s[m] \in S
      PROVE  Fine(Append(p, s[m]), m)
  <2> DEFINE q == Append(p, s[m])
  <2>1. /\ q \in Seq(A) /\ Len(q) = Len(p) + 1 /\ Len(p) \in Nat /\ q[Len(q)] = s[m]
        /\ \A k \in 1 .. Len(p) : q[k] = p[k]
    BY <1>5
  <2> HIDE DEF q
  <2>6. 1 .. m = (1 .. (m - 1)) \cup {m} /\ 1 .. Len(q) = (1 .. Len(p)) \cup {Len(q)}
    BY <1>1, <2>1
  <2>2. ASSUME NEW k \in 1 .. Len(q)
        PROVE  \E i \in 1 .. m : q[k] = s[i] /\ s[i] \in S
    <3>1. CASE k \in 1 .. Len(p)
      <4>1. PICK i \in 1 .. (m - 1) : p[k] = s[i] /\ s[i] \in S
        BY <1>5, <3>1, Zenon
      <4> QED
        BY <2>1, <2>6, <3>1, <4>1, Zenon
    <3>2. CASE k = Len(q)
      BY <2>1, <2>6, <3>2, <1>5, Zenon
    <3> QED
      BY <3>1, <3>2, <2>6, Zenon
  <2>3. \A i \in 1 .. m : s[i] \in S => \E k \in 1 .. Len(q) : q[k] = s[i]
    BY <2>1, <2>6, <1>5, Zenon
  <2>4. ASSUME IsInjective(s), NEW k \in 1 .. Len(q), NEW l \in 1 .. Len(q), q[k] = q[l]
        PROVE  k = l
    <3>1. \A i \in 1 .. (m - 1) : s[i] # s[m]
      BY <2>4, <1>1 DEF IsInjective
    <3>2. \A j \in 1 .. Len(p) : p[j] # s[m]
      <4> TAKE j \in 1 .. Len(p)
      <4>1. PICK i \in 1 .. (m - 1) : p[j] = s[i]
        BY <1>5, Zenon
      <4> QED
        BY <3>1, <4>1, Zenon
    <3>3. CASE k \in 1 .. Len(p) /\ l \in 1 .. Len(p)
      <4>1. p[k] = p[l]
        BY <2>1, <2>4, <3>3, Zenon
      <4> QED
        BY <4>1, <1>5, <2>4, <3>3, Zenon
    <3>4. CASE ~(k \in 1 .. Len(p) /\ l \in 1 .. Len(p))
      BY <2>1, <2>4, <2>6, <3>2, <3>4, Zenon
    <3> QED
      BY <3>3, <3>4
  <2> QED
    BY <2>1, <2>2, <2>3, <2>4 DEF q
<1> HIDE DEF g
<1>6. \A n \in 0 .. Len(s) : n \in G
  <2>1. g[0] = <<>>
    BY <1>1, <1>2 DEF KeepStep
  <2>2. ASSUME NEW k \in 0 .. (Len(s) - 1), k \in G
        PROVE  k + 1 \in G
    <3>1. k + 1 \in 1 .. Len(s) /\ k + 1 \in 0 .. Len(s) /\ (k + 1) - 1 = k /\ k + 1 # 0
      BY <1>1
    <3>2. g[k + 1] = IF s[k + 1] \in S THEN Append(g[k], s[k + 1]) ELSE g[k]
      BY <1>2, <3>1, Zenon DEF KeepStep
    <3>3. Fine(g[k], (k + 1) - 1)
      BY <2>2, <3>1
    <3> HIDE DEF Fine
    <3>4. Fine(g[k + 1], k + 1)
      BY <1>4, <1>5, <3>1, <3>2, <3>3, Zenon
    <3> QED
      BY <3>1, <3>4, Zenon
  <2>3. 0 \in G
    <3>1. 0 \in 0 .. Len(s)
      BY <1>1
    <3> HIDE DEF Fine
    <3> QED
      BY <1>3, <2>1, <3>1, Zenon
  <2> HIDE DEF G
  <2> QED
    BY <1>1, <2>2, <2>3, CountUp, Zenon
<1>7. Kept(s, S) = g[Len(s)]
  BY KeptIsPrefix, Zenon DEF g
<1>8. Fine(Kept(s, S), Len(s))
  <2>1. Len(s) \in 0 .. Len(s)
    BY <1>1
  <2> HIDE DEF Fine
  <2> QED
    BY <1>6, <1>7, <2>1, Zenon
<1>9. DOMAIN Kept(s, S) = 1 .. Len(Kept(s, S))
  BY <1>8
<1>10. Range(Kept(s, S)) = Range(s) \cap S
  <2>1. ASSUME NEW x \in Range(Kept(s, S))
        PROVE  x \in Range(s) \cap S
    <3>1. PICK k \in 1 .. Len(Kept(s, S)) : x = Kept(s, S)[k]
      BY <1>9, Zenon DEF Range
    <3>2. PICK i \in 1 .. Len(s) : Kept(s, S)[k] = s[i] /\ s[i] \in S
      BY <1>8, Zenon
    <3> QED
      BY <3>1, <3>2, <1>1, Zenon DEF Range
  <2>2. ASSUME NEW x \in Range(s) \cap S
        PROVE  x \in Range(Kept(s, S))
    <3>1. PICK i \in 1 .. Len(s) : x = s[i]
      BY <1>1, Zenon DEF Range
    <3>2. PICK k \in 1 .. Len(Kept(s, S)) : Kept(s, S)[k] = s[i]
      BY <1>8, <3>1, Zenon
    <3> QED
      BY <3>1, <3>2, <1>9, Zenon DEF Range
  <2> QED
    BY <2>1, <2>2, Zenon
<1> QED
  BY <1>8, <1>9, <1>10, Zenon DEF IsInjective

(* Keeping everything changes nothing. *)
LEMMA KeptAll ==
    ASSUME NEW A, NEW s \in Seq(A), NEW S, A \subseteq S
    PROVE  Kept(s, S) = s
<1> DEFINE g == KeptPrefixes(s, S)
           G == {n \in 0 .. Len(s) : g[n] = SubSeq(s, 1, n)}
<1>1. Len(s) \in Nat /\ \A n \in 1 .. Len(s) : s[n] \in S
  OBVIOUS
<1>2. \A n \in 0 .. Len(s) : g[n] = KeepStep(s, S, g, n)
  BY <1>1, PrefixStep, Zenon
<1> HIDE DEF g
<1>3. \A n \in 0 .. Len(s) : n \in G
  <2>1. 0 \in G
    <3>1. g[0] = <<>> /\ SubSeq(s, 1, 0) = <<>>
      BY <1>1, <1>2 DEF KeepStep
    <3>2. 0 \in 0 .. Len(s)
      BY <1>1
    <3> QED
      BY <3>1, <3>2, Zenon
  <2>2. ASSUME NEW k \in 0 .. (Len(s) - 1), k \in G
        PROVE  k + 1 \in G
    <3>1. k + 1 \in 1 .. Len(s) /\ k + 1 \in 0 .. Len(s) /\ (k + 1) - 1 = k /\ k + 1 # 0
      BY <1>1
    <3>2. g[k + 1] = Append(g[k], s[k + 1])
      BY <1>1, <1>2, <3>1, Zenon DEF KeepStep
    <3>3. Append(SubSeq(s, 1, k), s[k + 1]) = SubSeq(s, 1, k + 1)
      BY <3>1
    <3> QED
      BY <2>2, <3>1, <3>2, <3>3, Zenon
  <2> HIDE DEF G
  <2> QED
    BY <1>1, <2>1, <2>2, CountUp, Zenon
<1>4. Kept(s, S) = g[Len(s)]
  BY KeptIsPrefix, Zenon DEF g
<1>5. g[Len(s)] = SubSeq(s, 1, Len(s))
  BY <1>1, <1>3
<1> QED
  BY <1>4, <1>5

(* Two loops that share the elements out among them lose none. *)
LEMMA KeptLengths ==
    ASSUME NEW A, NEW s \in Seq(A), NEW S, NEW R, \A x \in A : x \in S <=> x \notin R
    PROVE  Len(Kept(s, S)) + Len(Kept(s, R)) = Len(s)
<1> DEFINE g == KeptPrefixes(s, S)
           h == KeptPrefixes(s, R)
           Fine(p, q, n) == p \in Seq(A) /\ q \in Seq(A) /\ Len(p) + Len(q) = n
           G == {n \in 0 .. Len(s) : Fine(g[n], h[n], n)}
<1>1. Len(s) \in Nat
  OBVIOUS
<1>2. \A n \in 0 .. Len(s) : g[n] = KeepStep(s, S, g, n) /\ h[n] = KeepStep(s, R, h, n)
  BY <1>1, PrefixStep, Zenon
<1> HIDE DEF g, h
<1>3. \A n \in 0 .. Len(s) : n \in G
  <2>1. 0 \in G
    <3>1. g[0] = <<>> /\ h[0] = <<>>
      BY <1>1, <1>2 DEF KeepStep
    <3>2. 0 \in 0 .. Len(s) /\ Fine(<<>>, <<>>, 0)
      BY <1>1
    <3> HIDE DEF Fine
    <3> QED
      BY <3>1, <3>2, Zenon
  <2>2. ASSUME NEW k \in 0 .. (Len(s) - 1), k \in G
        PROVE  k + 1 \in G
    <3>1. k + 1 \in 1 .. Len(s) /\ k + 1 \in 0 .. Len(s) /\ (k + 1) - 1 = k /\ k + 1 # 0 /\ s[k + 1] \in A
      BY <1>1
    <3>2. /\ g[k + 1] = IF s[k + 1] \in S THEN Append(g[k], s[k + 1]) ELSE g[k]
          /\ h[k + 1] = IF s[k + 1] \in R THEN Append(h[k], s[k + 1]) ELSE h[k]
      BY <1>2, <3>1, Zenon DEF KeepStep
    <3>3. Fine(g[k], h[k], k)
      BY <2>2
    <3>4. ASSUME NEW p, NEW q, Fine(p, q, k)
          PROVE  Fine(Append(p, s[k + 1]), q, k + 1) /\ Fine(p, Append(q, s[k + 1]), k + 1)
      BY <3>1, <3>4
    <3> HIDE DEF Fine
    <3>5. Fine(g[k + 1], h[k + 1], k + 1)
      BY <3>1, <3>2, <3>3, <3>4, Zenon
    <3> QED
      BY <3>1, <3>5, Zenon
  <2> HIDE DEF G
  <2> QED
    BY <1>1, <2>1, <2>2, CountUp, Zenon
<1>4. Kept(s, S) = g[Len(s)] /\ Kept(s, R) = h[Len(s)]
  BY KeptIsPrefix, Zenon DEF g, h
<1>5. Len(g[Len(s)]) + Len(h[Len(s)]) = Len(s)
  <2>1. Len(s) \in 0 .. Len(s)
    BY <1>1
  <2> QED
    BY <1>3, <2>1, Zenon
<1> QED
  BY <1>4, <1>5
=============================================================================
