------------------------------ MODULE Sums_proofs -----------------------------
(***************************************************************************)
(* Sums over finite sets and folds over 1..n, for the proofs about the     *)
(* components: how one more element changes them, and when two agree.      *)
(***************************************************************************)
EXTENDS Integers, Sequences, FiniteSetTheorems, WellFoundedInduction, TLAPS

-----------------------------------------------------------------------------
(* Sums.  Induction is over a set: what holds of the empty set and is      *)
(* handed on by one element more holds of every finite set.                *)

\* Of any set of numbers one is the least.
LEMMA LeastNumber ==
  ASSUME NEW S \in SUBSET Nat, S # {}
  PROVE  \E m \in S : \A k \in S : m <= k
<1> DEFINE R == OpToRel(<, Nat)
<1>1. IsWellFoundedOn(R, Nat) BY NatLessThanWellFounded
<1>2. \A x, y \in Nat : <<y, x>> \in R <=> y < x BY DEF OpToRel
<1> HIDE DEF R
<1>3. \E x \in S : \A y \in S : ~ (<<y, x>> \in R) BY <1>1, WFMin
<1>4. PICK m \in S : \A y \in S : ~ (<<y, m>> \in R) BY <1>3
<1>5. \A k \in S : m <= k
  <2> SUFFICES ASSUME NEW k \in S PROVE m <= k OBVIOUS
  <2>1. m \in Nat /\ k \in Nat OBVIOUS
  <2>2. ~(k < m) BY <1>2, <1>4, <2>1
  <2> QED BY <2>1, <2>2
<1> QED BY <1>5

LEMMA Counting ==
  ASSUME NEW S, 0 \in S, \A n \in Nat : n \in S => n + 1 \in S
  PROVE  Nat \subseteq S
<1> DEFINE T == {n \in Nat : n \notin S}
<1> SUFFICES ASSUME T # {} PROVE FALSE OBVIOUS
<1>1. PICK m \in T : \A k \in T : m <= k BY LeastNumber
<1>2. m \in Nat /\ m # 0 OBVIOUS
<1>3. m - 1 \in Nat /\ m - 1 \notin T BY <1>1, <1>2
<1> QED BY <1>2, <1>3

\* What holds of the empty set, and of a set if it holds of those that have one element
\* less, holds of a finite set.
LEMMA OneByOne ==
  ASSUME NEW S, IsFiniteSet(S), NEW Q, {} \in Q,
         \A T \in SUBSET S : T # {} /\ (\A x \in T : T \ {x} \in Q) => T \in Q
  PROVE  \A T \in SUBSET S : T \in Q
<1> DEFINE N == {n \in Nat : \A T \in SUBSET S : Cardinality(T) = n => T \in Q}
<1>1. \A T \in SUBSET S : IsFiniteSet(T) /\ Cardinality(T) \in Nat BY FS_Subset, FS_CardinalityType
<1>2. 0 \in N BY <1>1, FS_EmptySet
<1>3. ASSUME NEW n \in Nat, n \in N PROVE n + 1 \in N
  <2> SUFFICES ASSUME NEW T \in SUBSET S, Cardinality(T) = n + 1 PROVE T \in Q OBVIOUS
  <2>1. T # {}
    <3>1. Cardinality({}) = 0 BY FS_EmptySet
    <3>2. n + 1 # 0 OBVIOUS
    <3> QED BY <3>1, <3>2
  <2>2. ASSUME NEW x \in T PROVE T \ {x} \in Q
    <3>1. Cardinality(T \ {x}) = Cardinality(T) - 1 BY <1>1, FS_RemoveElement
    <3>2. Cardinality(T \ {x}) = n BY <3>1
    <3> QED BY <1>3, <3>2
  <2> QED BY <2>1, <2>2
<1> HIDE DEF N
<1>4. Nat \subseteq N BY <1>2, <1>3, Counting
<1> QED BY <1>1, <1>4 DEF N

\* sum adds f up over the subsets of S, one element at a time.
Chosen(s) == CHOOSE x \in s : TRUE
IsSum(sum, f, S) ==
    sum = [s \in SUBSET S |-> IF s = {} THEN 0 ELSE f[Chosen(s)] + sum[s \ {Chosen(s)}]]

LEMMA SumUnfolds ==
  ASSUME NEW sum, NEW f, NEW S, IsSum(sum, f, S)
  PROVE  /\ DOMAIN sum = SUBSET S /\ sum[{}] = 0
         /\ \A s \in SUBSET S : s # {} => Chosen(s) \in s /\ sum[s] = f[Chosen(s)] + sum[s \ {Chosen(s)}]
<1>1. \A s \in SUBSET S : s # {} => Chosen(s) \in s BY DEF Chosen
<1>2. \A s \in SUBSET S : sum[s] = IF s = {} THEN 0 ELSE f[Chosen(s)] + sum[s \ {Chosen(s)}] BY DEF IsSum
<1>3. DOMAIN sum = SUBSET S BY DEF IsSum
<1> QED BY <1>1, <1>2, <1>3

LEMMA SumStep ==
  ASSUME NEW sum, NEW f, NEW S, IsSum(sum, f, S), NEW s \in SUBSET S, s # {}
  PROVE  Chosen(s) \in s /\ sum[s] = f[Chosen(s)] + sum[s \ {Chosen(s)}]
<1>1. Chosen(s) \in s BY DEF Chosen
<1>2. sum[s] = IF s = {} THEN 0 ELSE f[Chosen(s)] + sum[s \ {Chosen(s)}] BY DEF IsSum
<1> QED BY <1>1, <1>2

Alike(f, h, S) == \A x \in S : f[x] = h[x]

\* Two ways to add up what is the same come to the same.
LEMMA SumsAgree ==
  ASSUME NEW S, NEW T \in SUBSET S, IsFiniteSet(T), NEW f, NEW h, Alike(f, h, T),
         NEW sum, NEW other, IsSum(sum, f, S), IsSum(other, h, T)
  PROVE  \A s \in SUBSET T : sum[s] = other[s]
<1> DEFINE Q == {s \in SUBSET T : sum[s] = other[s]}
<1>1. {} \in Q BY SumUnfolds
<1>2. ASSUME NEW s \in SUBSET T, s # {}, \A x \in s : s \ {x} \in Q PROVE s \in Q
  <2>0. s \in SUBSET S /\ s # {} BY <1>2
  <2> HIDE DEF Q
  <2>1. Chosen(s) \in s /\ sum[s] = f[Chosen(s)] + sum[s \ {Chosen(s)}] BY <2>0, SumStep
  <2>2. other[s] = h[Chosen(s)] + other[s \ {Chosen(s)}] BY <2>0, SumStep
  <2>3. sum[s \ {Chosen(s)}] = other[s \ {Chosen(s)}] /\ f[Chosen(s)] = h[Chosen(s)] BY <1>2, <2>1 DEF Q, Alike
  <2> QED BY <2>1, <2>2, <2>3 DEF Q
<1> HIDE DEF Q
<1>3. \A s \in SUBSET T : s \in Q BY <1>1, <1>2, OneByOne
<1> QED BY <1>3 DEF Q

\* Total(f, S) is the sum of f[x] for the members x of S.
Total(f, S) == (CHOOSE sum : IsSum(sum, f, S))[S]

LEMMA SumExists ==
  ASSUME NEW S, IsFiniteSet(S), NEW f
  PROVE  IsSum(CHOOSE sum : IsSum(sum, f, S), f, S)
<1> DEFINE Has(s) == \E sum : IsSum(sum, f, s)
           Q == {T \in SUBSET S : \A s \in SUBSET T : Has(s)}
<1>1. {} \in Q
  <2> DEFINE sum == [s \in SUBSET {} |-> 0]
  <2>1. IsSum(sum, f, {})
    <3>1. \A s \in SUBSET {} : s = {} OBVIOUS
    <3>2. sum = [s \in SUBSET {} |-> IF s = {} THEN 0 ELSE f[Chosen(s)] + sum[s \ {Chosen(s)}]] BY <3>1
    <3> QED BY <3>2 DEF IsSum
  <2> HIDE DEF sum
  <2> QED BY <2>1
<1>2. ASSUME NEW T \in SUBSET S, T # {}, \A x \in T : T \ {x} \in Q PROVE T \in Q
  <2>1. ASSUME NEW s \in SUBSET T, s # T PROVE IsSum(CHOOSE sum : IsSum(sum, f, s), f, s)
    <3>1. PICK x \in T : x \notin s BY <2>1
    <3>2. s \in SUBSET (T \ {x}) BY <3>1
    <3>3. Has(s) BY <1>2, <3>1, <3>2
    <3> QED BY <3>3
  <2> DEFINE sum == [s \in SUBSET T |-> IF s = {} THEN 0 ELSE f[Chosen(s)] + Total(f, s \ {Chosen(s)})]
  <2>2. ASSUME NEW s \in SUBSET T, s # T PROVE sum[s] = Total(f, s)
    <3> DEFINE own == CHOOSE k : IsSum(k, f, s)
               rest == s \ {Chosen(s)}
               less == CHOOSE k : IsSum(k, f, rest)
    <3>1. IsSum(own, f, s) BY <2>1, <2>2
    <3>2. Total(f, s) = own[s] /\ Total(f, rest) = less[rest] BY DEF Total
    <3>3. CASE s = {}
      <4>1. own[s] = 0 BY <3>1, <3>3, SumUnfolds
      <4> QED BY <3>2, <3>3, <4>1
    <3>4. CASE s # {}
      <4>1. Chosen(s) \in s /\ own[s] = f[Chosen(s)] + own[rest]
        <5>1. s \in SUBSET s OBVIOUS
        <5> HIDE DEF own
        <5> QED BY <3>1, <3>4, <5>1, SumStep
      <4>2. rest \in SUBSET T /\ rest # T /\ rest \in SUBSET s BY <2>2, <4>1
      <4>3. IsSum(less, f, rest) BY <2>1, <4>2
      <4>4. IsFiniteSet(rest) BY FS_Subset, <4>2
      <4> HIDE DEF own, rest, less
      <4>0. Alike(f, f, rest) BY DEF Alike
      <4>5. own[rest] = less[rest] BY <4>0, <3>1, <4>2, <4>3, <4>4, SumsAgree
      <4>6. sum[s] = f[Chosen(s)] + Total(f, rest) BY <3>4 DEF rest
      <4> HIDE DEF sum
      <4> QED BY <3>2, <4>1, <4>5, <4>6
    <3> QED BY <3>3, <3>4
  <2>3. IsSum(sum, f, T)
    <3>1. \A s \in SUBSET T : s # {} => s \ {Chosen(s)} \in SUBSET T /\ s \ {Chosen(s)} # T BY DEF Chosen
    <3>2. \A s \in SUBSET T : s # {} => Total(f, s \ {Chosen(s)}) = sum[s \ {Chosen(s)}] BY <2>2, <3>1
    <3>3. \A s \in SUBSET T : sum[s] = IF s = {} THEN 0 ELSE f[Chosen(s)] + sum[s \ {Chosen(s)}] BY <3>2
    <3>4. sum = [s \in SUBSET T |-> sum[s]] OBVIOUS
    <3> HIDE DEF sum
    <3>5. sum = [s \in SUBSET T |-> IF s = {} THEN 0 ELSE f[Chosen(s)] + sum[s \ {Chosen(s)}]] BY <3>3, <3>4
    <3> QED BY <3>5 DEF IsSum
  <2> HIDE DEF sum
  <2>4. \A s \in SUBSET T : Has(s) BY <2>1, <2>3
  <2> QED BY <2>4
<1> HIDE DEF Q
<1>3. \A T \in SUBSET S : T \in Q BY <1>1, <1>2, OneByOne
<1>4. S \in Q BY <1>3
<1> QED BY <1>4 DEF Q

\* A sum is the sum of the rest and any one of its members.
LEMMA TotalTakes ==
  ASSUME NEW S, IsFiniteSet(S), NEW f, \A x \in S : f[x] \in Int
  PROVE  /\ Total(f, {}) = 0 /\ Total(f, S) \in Int
         /\ \A x \in S : Total(f, S) = f[x] + Total(f, S \ {x}) /\ Total(f, S \ {x}) \in Int
<1> DEFINE sum == CHOOSE g : IsSum(g, f, S)
<1>1. IsSum(sum, f, S) BY SumExists
<1>2. ASSUME NEW s \in SUBSET S PROVE Total(f, s) = sum[s]
  <2> DEFINE own == CHOOSE g : IsSum(g, f, s)
  <2>1. IsFiniteSet(s) BY FS_Subset
  <2>2. IsSum(own, f, s) BY <2>1, SumExists
  <2>3. Total(f, s) = own[s] BY DEF Total
  <2>4. Alike(f, f, s) BY DEF Alike
  <2> HIDE DEF own, sum
  <2> QED BY <1>1, <2>1, <2>2, <2>3, <2>4, SumsAgree
<1> HIDE DEF sum
<1>3. sum[{}] = 0 BY <1>1, SumUnfolds
<1>4. \A s \in SUBSET S : sum[s] \in Int
  <2> DEFINE Q == {s \in SUBSET S : sum[s] \in Int}
  <2>1. {} \in Q BY <1>3
  <2>2. ASSUME NEW s \in SUBSET S, s # {}, \A x \in s : s \ {x} \in Q PROVE s \in Q
    <3>1. Chosen(s) \in s /\ sum[s] = f[Chosen(s)] + sum[s \ {Chosen(s)}]
      BY <1>1, <2>2, SumStep
    <3>2. sum[s \ {Chosen(s)}] \in Int /\ f[Chosen(s)] \in Int BY <2>2, <3>1
    <3> QED BY <3>1, <3>2
  <2> HIDE DEF Q
  <2>3. \A s \in SUBSET S : s \in Q BY <2>1, <2>2, OneByOne
  <2> QED BY <2>3 DEF Q
<1>5. \A s \in SUBSET S : \A x \in s : sum[s] = f[x] + sum[s \ {x}]
  <2> DEFINE Q == {s \in SUBSET S : \A x \in s : sum[s] = f[x] + sum[s \ {x}]}
  <2>1. {} \in Q OBVIOUS
  <2>2. ASSUME NEW s \in SUBSET S, s # {}, \A x \in s : s \ {x} \in Q PROVE s \in Q
    <3> DEFINE y == Chosen(s)
    <3>1. y \in s /\ sum[s] = f[y] + sum[s \ {y}] BY <1>1, <2>2, SumStep
    <3> HIDE DEF y
    <3>2. ASSUME NEW x \in s, x # y PROVE sum[s] = f[x] + sum[s \ {x}]
      <4> DEFINE rest == s \ {x, y}
      <4>1. (s \ {x}) \ {y} = rest /\ (s \ {y}) \ {x} = rest /\ rest \in SUBSET S OBVIOUS
      <4>2. s \ {y} \in Q /\ s \ {x} \in Q /\ x \in s \ {y} /\ y \in s \ {x} BY <2>2, <3>1, <3>2
      <4>3. sum[s \ {y}] = f[x] + sum[rest] /\ sum[s \ {x}] = f[y] + sum[rest] BY <4>1, <4>2
      <4>4. sum[rest] \in Int /\ f[x] \in Int /\ f[y] \in Int BY <1>4, <3>1, <4>1
      <4> HIDE DEF rest, Q
      <4> QED BY <3>1, <4>3, <4>4
    <3> QED BY <3>1, <3>2
  <2> HIDE DEF Q
  <2>3. \A s \in SUBSET S : s \in Q BY <2>1, <2>2, OneByOne
  <2> QED BY <2>3 DEF Q
<1>6. {} \in SUBSET S /\ S \in SUBSET S OBVIOUS
<1>7. ASSUME NEW x \in S PROVE Total(f, S) = f[x] + Total(f, S \ {x}) /\ Total(f, S \ {x}) \in Int
  <2>1. S \ {x} \in SUBSET S OBVIOUS
  <2> QED BY <1>2, <1>4, <1>5, <1>6, <2>1
<1> QED BY <1>2, <1>3, <1>4, <1>6, <1>7

\* The sum depends on nothing but the members.
LEMMA TotalsAgree ==
  ASSUME NEW S, IsFiniteSet(S), NEW f, NEW h, Alike(f, h, S)
  PROVE  Total(f, S) = Total(h, S)
<1> DEFINE sum == CHOOSE g : IsSum(g, f, S)
           other == CHOOSE g : IsSum(g, h, S)
<1>1. IsSum(sum, f, S) /\ IsSum(other, h, S) BY SumExists
<1>2. Total(f, S) = sum[S] /\ Total(h, S) = other[S] BY DEF Total
<1> HIDE DEF sum, other
<1>3. S \in SUBSET S OBVIOUS
<1>4. sum[S] = other[S]
  <2>1. IsSum(sum, f, S) /\ IsSum(other, h, S) BY <1>1
  <2> QED BY <1>3, <2>1, SumsAgree
<1> QED BY <1>2, <1>3, <1>4

\* Sums of naturals.
LEMMA SumOfMore ==
  ASSUME NEW T, IsFiniteSet(T), NEW f, NEW h, \A x \in T : f[x] \in Nat /\ h[x] \in Nat /\ f[x] <= h[x]
  PROVE  Total(f, T) <= Total(h, T)
<1> DEFINE Q == {s \in SUBSET T : Total(f, s) <= Total(h, s)}
<1>1. \A x \in T : f[x] \in Int /\ h[x] \in Int OBVIOUS
<1>2. {} \in Q
  <2>1. Total(f, {}) = 0 /\ Total(h, {}) = 0 BY <1>1, TotalTakes
  <2> QED BY <2>1
<1>3. ASSUME NEW s \in SUBSET T, s # {}, \A x \in s : s \ {x} \in Q PROVE s \in Q
  <2> PICK x \in s : TRUE BY <1>3
  <2>1. IsFiniteSet(s) BY FS_Subset
  <2>2. \A y \in s : f[y] \in Int /\ h[y] \in Int BY <1>1
  <2>3. Total(f, s) = f[x] + Total(f, s \ {x}) /\ Total(f, s \ {x}) \in Int BY <2>1, <2>2, TotalTakes
  <2>4. Total(h, s) = h[x] + Total(h, s \ {x}) /\ Total(h, s \ {x}) \in Int BY <2>1, <2>2, TotalTakes
  <2>5. Total(f, s \ {x}) <= Total(h, s \ {x}) BY <1>3
  <2>6. f[x] \in Int /\ h[x] \in Int /\ f[x] <= h[x] OBVIOUS
  <2> QED BY <2>3, <2>4, <2>5, <2>6
<1> HIDE DEF Q
<1>4. \A s \in SUBSET T : s \in Q BY <1>2, <1>3, OneByOne
<1> QED BY <1>4 DEF Q

LEMMA SumOverMore ==
  ASSUME NEW T, IsFiniteSet(T), NEW S \in SUBSET T, NEW h, \A x \in T : h[x] \in Nat
  PROVE  Total(h, S) <= Total(h, T)
<1> DEFINE Q == {s \in SUBSET T : Total(h, s \cap S) <= Total(h, s)}
<1>1. \A x \in T : h[x] \in Int OBVIOUS
<1>2. {} \in Q
  <2>1. Total(h, {}) = 0 BY <1>1, TotalTakes
  <2>2. {} \cap S = {} OBVIOUS
  <2> QED BY <2>1, <2>2
<1>3. ASSUME NEW s \in SUBSET T, s # {}, \A x \in s : s \ {x} \in Q PROVE s \in Q
  <2> PICK x \in s : TRUE BY <1>3
  <2>1. IsFiniteSet(s) /\ IsFiniteSet(s \cap S) BY FS_Subset
  <2>2. \A y \in s : h[y] \in Int BY <1>1
  <2>3. Total(h, s) = h[x] + Total(h, s \ {x}) /\ Total(h, s \ {x}) \in Int BY <2>1, <2>2, TotalTakes
  <2>4. Total(h, (s \ {x}) \cap S) <= Total(h, s \ {x}) BY <1>3
  <2>5. h[x] \in Int /\ h[x] >= 0 OBVIOUS
  <2>6. \A y \in s \cap S : h[y] \in Int BY <1>1
  <2>7. CASE x \in S
    <3>1. (s \cap S) \ {x} = (s \ {x}) \cap S /\ x \in s \cap S BY <2>7
    <3>2. Total(h, s \cap S) = h[x] + Total(h, (s \cap S) \ {x}) /\ Total(h, (s \cap S) \ {x}) \in Int
      BY <2>1, <2>6, <3>1, TotalTakes
    <3>3. Total(h, s \cap S) = h[x] + Total(h, (s \ {x}) \cap S) /\ Total(h, (s \ {x}) \cap S) \in Int BY <3>1, <3>2
    <3> QED BY <2>3, <2>4, <2>5, <3>3
  <2>8. CASE x \notin S
    <3>1. s \cap S = (s \ {x}) \cap S BY <2>8
    <3>2. Total(h, s \cap S) \in Int BY <2>1, <2>6, TotalTakes
    <3>3. Total(h, s \cap S) <= Total(h, s \ {x}) BY <2>4, <3>1
    <3>4. Total(h, s \cap S) <= Total(h, s) BY <2>3, <2>5, <3>2, <3>3
    <3> QED BY <3>4
  <2> QED BY <2>7, <2>8
<1> HIDE DEF Q
<1>4. \A s \in SUBSET T : s \in Q BY <1>2, <1>3, OneByOne
<1>5. T \cap S = S /\ T \in Q BY <1>4
<1> QED BY <1>5 DEF Q

LEMMA Times ==
  ASSUME NEW a \in Nat, NEW b \in Nat
  PROVE  /\ a * b \in Nat /\ (a > 0 => b <= a * b)
         /\ \A c \in Nat : a <= c => c * b \in Nat /\ a * b <= c * b
OBVIOUS

-----------------------------------------------------------------------------
(* Folds.  One over 1..n takes one step for each number, in their order.   *)

\* A fold over 1..n takes the highest number off.
Highest(s) == CHOOSE x \in s : \A y \in s : x >= y
IsFold(it, G, base, S) ==
    it = [s \in SUBSET S |-> IF s = {} THEN base ELSE G[<<Highest(s), it[s \ {Highest(s)}]>>]]

LEMMA HighestOf ==
  /\ \A s : s \in SUBSET Nat /\ IsFiniteSet(s) /\ s # {} => Highest(s) \in s
  /\ \A k \in Nat \ {0} : Highest(1..k) = k /\ (1..k) \ {k} = 1..(k - 1) /\ 1..k # {}
<1>1. ASSUME NEW k \in Nat \ {0} PROVE Highest(1..k) = k /\ (1..k) \ {k} = 1..(k - 1) /\ 1..k # {}
  <2>1. k \in 1..k /\ \A y \in 1..k : k >= y OBVIOUS
  <2>2. \A x \in 1..k : x >= k => x = k OBVIOUS
  <2>3. Highest(1..k) = k BY <2>1, <2>2 DEF Highest
  <2>4. (1..k) \ {k} = 1..(k - 1) OBVIOUS
  <2> QED BY <2>1, <2>3, <2>4
<1>2. ASSUME NEW S \in SUBSET Nat, IsFiniteSet(S), S # {} PROVE Highest(S) \in S
  <2> DEFINE Q == {s \in SUBSET S : s # {} => \E x \in s : \A y \in s : x >= y}
  <2>1. {} \in Q OBVIOUS
  <2>2. ASSUME NEW T \in SUBSET S, T # {}, \A x \in T : T \ {x} \in Q PROVE T \in Q
    <3> PICK x \in T : TRUE BY <2>2
    <3>1. CASE T \ {x} = {}
      <4>1. \A y \in T : x >= y BY <3>1
      <4> QED BY <4>1
    <3>2. CASE T \ {x} # {}
      <4>1. PICK z \in T \ {x} : \A y \in T \ {x} : z >= y BY <2>2, <3>2
      <4>2. x \in Nat /\ z \in Nat OBVIOUS
      <4>3. CASE x >= z
        <5>1. \A y \in T : x >= y BY <4>1, <4>2, <4>3
        <5> QED BY <5>1
      <4>4. CASE z >= x
        <5>1. \A y \in T : z >= y BY <4>1, <4>2, <4>4
        <5> QED BY <5>1
      <4> QED BY <4>2, <4>3, <4>4
    <3> QED BY <3>1, <3>2
  <2> HIDE DEF Q
  <2>3. \A T \in SUBSET S : T \in Q BY <1>2, <2>1, <2>2, OneByOne
  <2>4. \E x \in S : \A y \in S : x >= y BY <2>3, <1>2 DEF Q
  <2> QED BY <2>4 DEF Highest
<1> QED BY <1>1, <1>2

LEMMA FoldStep ==
  ASSUME NEW it, NEW G, NEW base, NEW S \in SUBSET Nat, IsFiniteSet(S), IsFold(it, G, base, S)
  PROVE  /\ it[{}] = base
         /\ \A s \in SUBSET S : s # {} =>
               Highest(s) \in s /\ it[s] = G[<<Highest(s), it[s \ {Highest(s)}]>>]
<1>1. \A s \in SUBSET S : s # {} => Highest(s) \in s BY HighestOf, FS_Subset
<1>2. \A s \in SUBSET S : it[s] = IF s = {} THEN base ELSE G[<<Highest(s), it[s \ {Highest(s)}]>>] BY DEF IsFold
<1> QED BY <1>1, <1>2

LEMMA FoldsAgree ==
  ASSUME NEW G, NEW base, NEW S \in SUBSET Nat, IsFiniteSet(S), NEW T \in SUBSET S,
         NEW it, NEW other, IsFold(it, G, base, S), IsFold(other, G, base, T)
  PROVE  \A s \in SUBSET T : it[s] = other[s]
<1> DEFINE Q == {s \in SUBSET T : it[s] = other[s]}
<1>0. IsFiniteSet(T) /\ T \in SUBSET Nat BY FS_Subset
<1>1. {} \in Q BY <1>0, FoldStep
<1>2. ASSUME NEW s \in SUBSET T, s # {}, \A x \in s : s \ {x} \in Q PROVE s \in Q
  <2>0. s \in SUBSET S /\ s # {} BY <1>2
  <2> HIDE DEF Q
  <2>1. Highest(s) \in s /\ it[s] = G[<<Highest(s), it[s \ {Highest(s)}]>>] BY <2>0, FoldStep
  <2>2. other[s] = G[<<Highest(s), other[s \ {Highest(s)}]>>] BY <1>0, <2>0, FoldStep
  <2>3. it[s \ {Highest(s)}] = other[s \ {Highest(s)}] BY <1>2, <2>1 DEF Q
  <2> QED BY <2>1, <2>2, <2>3 DEF Q
<1> HIDE DEF Q
<1>3. \A s \in SUBSET T : s \in Q BY <1>0, <1>1, <1>2, OneByOne
<1> QED BY <1>3 DEF Q

TheFold(G, base, S) == CHOOSE it : IsFold(it, G, base, S)

LEMMA FoldExists ==
  ASSUME NEW S \in SUBSET Nat, IsFiniteSet(S), NEW G, NEW base
  PROVE  IsFold(TheFold(G, base, S), G, base, S)
<1> DEFINE Has(s) == \E it : IsFold(it, G, base, s)
           Q == {T \in SUBSET S : \A s \in SUBSET T : Has(s)}
<1>1. {} \in Q
  <2> DEFINE it == [s \in SUBSET {} |-> base]
  <2>1. IsFold(it, G, base, {})
    <3>1. \A s \in SUBSET {} : s = {} OBVIOUS
    <3>2. it = [s \in SUBSET {} |-> IF s = {} THEN base ELSE G[<<Highest(s), it[s \ {Highest(s)}]>>]] BY <3>1
    <3> QED BY <3>2 DEF IsFold
  <2> HIDE DEF it
  <2> QED BY <2>1
<1>2. ASSUME NEW T \in SUBSET S, T # {}, \A x \in T : T \ {x} \in Q PROVE T \in Q
  <2> DEFINE Of(s) == TheFold(G, base, s)[s]
  <2>1. ASSUME NEW s \in SUBSET T, s # T PROVE IsFold(TheFold(G, base, s), G, base, s)
    <3>1. PICK x \in T : x \notin s BY <2>1
    <3>2. s \in SUBSET (T \ {x}) BY <3>1
    <3>3. Has(s) BY <1>2, <3>1, <3>2
    <3> QED BY <3>3 DEF TheFold
  <2> DEFINE it == [s \in SUBSET T |-> IF s = {} THEN base ELSE G[<<Highest(s), Of(s \ {Highest(s)})>>]]
  <2>2. ASSUME NEW s \in SUBSET T, s # T PROVE it[s] = Of(s)
    <3> DEFINE own == TheFold(G, base, s)
               rest == s \ {Highest(s)}
               less == TheFold(G, base, rest)
    <3>0. s \in SUBSET Nat /\ IsFiniteSet(s) /\ s \in SUBSET s BY FS_Subset
    <3>1. IsFold(own, G, base, s) BY <2>1, <2>2
    <3>2. Of(s) = own[s] /\ Of(rest) = less[rest] OBVIOUS
    <3>3. CASE s = {}
      <4>1. own[s] = base
        <5> HIDE DEF own
        <5> QED BY <3>0, <3>1, <3>3, FoldStep
      <4> QED BY <3>2, <3>3, <4>1
    <3>4. CASE s # {}
      <4>1. Highest(s) \in s /\ own[s] = G[<<Highest(s), own[rest]>>]
        <5> HIDE DEF own
        <5> QED BY <3>0, <3>1, <3>4, FoldStep
      <4>2. rest \in SUBSET T /\ rest # T /\ rest \in SUBSET s BY <2>2, <4>1
      <4>3. IsFold(less, G, base, rest) BY <2>1, <4>2
      <4>4. rest \in SUBSET rest OBVIOUS
      <4>6. it[s] = G[<<Highest(s), Of(rest)>>] BY <3>4 DEF rest
      <4> HIDE DEF own, rest, less
      <4>5. own[rest] = less[rest] BY <3>0, <3>1, <4>2, <4>3, <4>4, FoldsAgree
      <4> HIDE DEF it, Of
      <4> QED BY <3>2, <4>1, <4>5, <4>6
    <3> QED BY <3>3, <3>4
  <2>3. IsFold(it, G, base, T)
    <3>0. T \in SUBSET Nat /\ IsFiniteSet(T) BY FS_Subset
    <3>1. \A s \in SUBSET T : s # {} => s \ {Highest(s)} \in SUBSET T /\ s \ {Highest(s)} # T
      BY <3>0, HighestOf, FS_Subset
    <3>2. \A s \in SUBSET T : s # {} => Of(s \ {Highest(s)}) = it[s \ {Highest(s)}] BY <2>2, <3>1
    <3>3. \A s \in SUBSET T : it[s] = IF s = {} THEN base ELSE G[<<Highest(s), it[s \ {Highest(s)}]>>]
      <4> HIDE DEF Of
      <4> QED BY <3>2
    <3>4. it = [s \in SUBSET T |-> it[s]] OBVIOUS
    <3> HIDE DEF it
    <3>5. it = [s \in SUBSET T |-> IF s = {} THEN base ELSE G[<<Highest(s), it[s \ {Highest(s)}]>>]] BY <3>3, <3>4
    <3> QED BY <3>5 DEF IsFold
  <2> HIDE DEF it
  <2>4. \A s \in SUBSET T : Has(s) BY <2>1, <2>3
  <2> QED BY <2>4
<1> HIDE DEF Q
<1>3. \A T \in SUBSET S : T \in Q BY <1>1, <1>2, OneByOne
<1>4. S \in Q BY <1>3
<1> QED BY <1>4 DEF Q, TheFold

\* The fold of 1..n, step by step.
Folded(G, base, n) == TheFold(G, base, 1..n)[1..n]

\* A step leads from A to A; two steps are alike on 1..n.
StaysIn(G, A) == \A k \in Nat \ {0}, a \in A : G[<<k, a>>] \in A
StepsAlike(G, H, A, n) == \A k \in 1..n, a \in A : G[<<k, a>>] = H[<<k, a>>]
TakesSteps(it, G, A, n) == \A k \in 1..n : it[1..(k - 1)] \in A => it[1..k] = G[<<k, it[1..(k - 1)]>>]

LEMMA FoldedNext ==
  ASSUME NEW G, NEW base
  PROVE  /\ Folded(G, base, 0) = base
         /\ \A k \in Nat \ {0} : Folded(G, base, k) = G[<<k, Folded(G, base, k - 1)>>]
<1>0. \A k \in Nat : IsFold(TheFold(G, base, 1..k), G, base, 1..k) /\ 1..k \in SUBSET Nat /\ IsFiniteSet(1..k)
  <2> SUFFICES ASSUME NEW k \in Nat
               PROVE IsFold(TheFold(G, base, 1..k), G, base, 1..k) /\ 1..k \in SUBSET Nat /\ IsFiniteSet(1..k)
    OBVIOUS
  <2>1. 1..k \in SUBSET Nat /\ IsFiniteSet(1..k) BY FS_Interval
  <2> QED BY <2>1, FoldExists
<1>1. Folded(G, base, 0) = base
  <2>1. 1..0 = {} OBVIOUS
  <2>2. IsFold(TheFold(G, base, {}), G, base, {}) BY <1>0, <2>1
  <2>3. TheFold(G, base, {})[{}] = base BY <2>2, FoldStep, FS_EmptySet
  <2> QED BY <2>1, <2>3 DEF Folded
<1>2. ASSUME NEW k \in Nat \ {0} PROVE Folded(G, base, k) = G[<<k, Folded(G, base, k - 1)>>]
  <2> DEFINE it == TheFold(G, base, 1..k)
             less == TheFold(G, base, 1..(k - 1))
  <2>1. IsFold(it, G, base, 1..k) /\ IsFold(less, G, base, 1..(k - 1)) BY <1>0
  <2> DEFINE S == 1..k
             T == 1..(k - 1)
  <2>2. T \in SUBSET S /\ S \in SUBSET S /\ T \in SUBSET T /\ S \in SUBSET Nat /\ IsFiniteSet(S) /\ S # {}
    BY <1>0, HighestOf
  <2>2a. Highest(S) = k /\ S \ {k} = T BY HighestOf
  <2>2b. IsFold(it, G, base, S) /\ IsFold(less, G, base, T) BY <2>1
  <2>3. Folded(G, base, k) = it[1..k] /\ Folded(G, base, k - 1) = less[1..(k - 1)] BY DEF Folded
  <2> HIDE DEF it, less, S, T
  <2>4. it[S] = G[<<k, it[T]>>]
    <3>1. it[S] = G[<<Highest(S), it[S \ {Highest(S)}]>>] BY <2>2, <2>2b, FoldStep
    <3> QED BY <3>1, <2>2a
  <2>5. it[T] = less[T]
    <3>0. S \in SUBSET Nat /\ IsFiniteSet(S) /\ T \in SUBSET S BY <2>2
    <3>1. IsFold(it, G, base, S) /\ IsFold(less, G, base, T) BY <2>2b
    <3>2. \A s \in SUBSET T : it[s] = less[s] BY <3>0, <3>1, FoldsAgree
    <3> QED BY <2>2, <3>2
  <2> QED BY <2>3, <2>4, <2>5 DEF S, T
<1> QED BY <1>1, <1>2

LEMMA FoldedSteps ==
  ASSUME NEW A, NEW base \in A, NEW G, StaysIn(G, A)
  PROVE  /\ Folded(G, base, 0) = base
         /\ \A k \in Nat \ {0} : Folded(G, base, k) = G[<<k, Folded(G, base, k - 1)>>]
         /\ \A k \in Nat : Folded(G, base, k) \in A
<1>1. Folded(G, base, 0) = base BY FoldedNext
<1>2. \A k \in Nat \ {0} : Folded(G, base, k) = G[<<k, Folded(G, base, k - 1)>>] BY FoldedNext
<1>3. Nat \subseteq {k \in Nat : Folded(G, base, k) \in A}
  <2> DEFINE N == {k \in Nat : Folded(G, base, k) \in A}
  <2>1. 0 \in N BY <1>1
  <2>2. ASSUME NEW k \in Nat, k \in N PROVE k + 1 \in N
    <3>1. k + 1 \in Nat \ {0} /\ (k + 1) - 1 = k OBVIOUS
    <3>2. Folded(G, base, k + 1) = G[<<k + 1, Folded(G, base, k)>>] BY <1>2, <3>1
    <3> QED BY <2>2, <3>1, <3>2 DEF StaysIn
  <2> HIDE DEF N
  <2>3. Nat \subseteq N BY <2>1, <2>2, Counting
  <2> QED BY <2>3 DEF N
<1> QED BY <1>1, <1>2, <1>3

\* Whatever takes the same steps comes to the same.
LEMMA SameFold ==
  ASSUME NEW A, NEW base \in A, NEW G, StaysIn(G, A),
         NEW n \in Nat, NEW it, it[{}] = base,
         TakesSteps(it, G, A, n)
  PROVE  \A k \in 0..n : it[1..k] = Folded(G, base, k)
<1> DEFINE N == {k \in Nat : k <= n => it[1..k] = Folded(G, base, k)}
<1>1. 0 \in N
  <2>1. 1..0 = {} OBVIOUS
  <2> QED BY <2>1, FoldedSteps
<1>2. ASSUME NEW k \in Nat, k \in N PROVE k + 1 \in N
  <2> SUFFICES ASSUME k + 1 <= n PROVE it[1..(k + 1)] = Folded(G, base, k + 1) OBVIOUS
  <2>1. k + 1 \in 1..n /\ k + 1 \in Nat \ {0} /\ (k + 1) - 1 = k /\ k <= n OBVIOUS
  <2>2. it[1..k] = Folded(G, base, k) BY <1>2, <2>1
  <2>3. Folded(G, base, k) \in A /\ Folded(G, base, k + 1) = G[<<k + 1, Folded(G, base, k)>>]
    <3>1. Folded(G, base, k + 1) = G[<<k + 1, Folded(G, base, (k + 1) - 1)>>] BY <2>1, FoldedSteps
    <3>2. Folded(G, base, k) \in A BY FoldedSteps
    <3> QED BY <2>1, <3>1, <3>2
  <2>4. it[1..(k + 1)] = G[<<k + 1, it[1..k]>>] BY <2>1, <2>2, <2>3 DEF TakesSteps
  <2> QED BY <2>2, <2>3, <2>4
<1> HIDE DEF N
<1>3. Nat \subseteq N BY <1>1, <1>2, Counting
<1> QED BY <1>3 DEF N

LEMMA AlikeFolds ==
  ASSUME NEW A, NEW base \in A, NEW G, StaysIn(G, A),
         NEW H, StaysIn(H, A),
         NEW n \in Nat, StepsAlike(G, H, A, n)
  PROVE  \A k \in 0..n : Folded(G, base, k) = Folded(H, base, k)
<1>a. /\ Folded(G, base, 0) = base /\ \A k \in Nat : Folded(G, base, k) \in A
      /\ \A k \in Nat \ {0} : Folded(G, base, k) = G[<<k, Folded(G, base, k - 1)>>]
  <2> QED BY FoldedSteps
<1>b. /\ Folded(H, base, 0) = base
      /\ \A k \in Nat \ {0} : Folded(H, base, k) = H[<<k, Folded(H, base, k - 1)>>]
  <2> QED BY FoldedNext
<1> DEFINE N == {k \in Nat : k <= n => Folded(G, base, k) = Folded(H, base, k)}
<1>1. 0 \in N BY <1>a, <1>b
<1>2. ASSUME NEW k \in Nat, k \in N PROVE k + 1 \in N
  <2> SUFFICES ASSUME k + 1 <= n PROVE Folded(G, base, k + 1) = Folded(H, base, k + 1) OBVIOUS
  <2>1. k + 1 \in 1..n /\ k + 1 \in Nat \ {0} /\ (k + 1) - 1 = k /\ k <= n OBVIOUS
  <2>2. Folded(G, base, k) = Folded(H, base, k) BY <1>2, <2>1
  <2>3. Folded(G, base, k + 1) = G[<<k + 1, Folded(G, base, k)>>]
    <3>1. Folded(G, base, k + 1) = G[<<k + 1, Folded(G, base, (k + 1) - 1)>>] BY <1>a, <2>1
    <3> QED BY <2>1, <3>1
  <2>4. Folded(H, base, k + 1) = H[<<k + 1, Folded(H, base, k)>>]
    <3>1. Folded(H, base, k + 1) = H[<<k + 1, Folded(H, base, (k + 1) - 1)>>] BY <1>b, <2>1
    <3> QED BY <2>1, <3>1
  <2>5. Folded(G, base, k) \in A BY <1>a
  <2> QED BY <2>1, <2>2, <2>3, <2>4, <2>5 DEF StepsAlike
<1> HIDE DEF N
<1>3. Nat \subseteq N BY <1>1, <1>2, Counting
<1> QED BY <1>3 DEF N

-----------------------------------------------------------------------------
(* Two sums in one, and a sum of negated amounts.                          *)

LEMMA TotalOfBoth ==
  ASSUME NEW S, NEW T, IsFiniteSet(S), IsFiniteSet(T), S \cap T = {}, NEW f, \A x \in S \cup T : f[x] \in Int
  PROVE  /\ Total(f, S \cup T) = Total(f, S) + Total(f, T)
         /\ Total(f, S) \in Int /\ Total(f, T) \in Int
<1>0. /\ \A x \in S : f[x] \in Int
      /\ \A x \in T : f[x] \in Int
  OBVIOUS
<1>1. Total(f, S) \in Int /\ Total(f, T) \in Int BY <1>0, TotalTakes
<1> DEFINE Q == {s \in SUBSET T : Total(f, S \cup s) = Total(f, S) + Total(f, s)}
<1>2. {} \in Q
  <2>1. S \cup {} = S OBVIOUS
  <2>2. Total(f, {}) = 0 BY <1>0, TotalTakes
  <2> QED BY <1>1, <2>1, <2>2
<1>3. ASSUME NEW s \in SUBSET T, s # {}, \A x \in s : s \ {x} \in Q PROVE s \in Q
  <2> PICK x \in s : TRUE BY <1>3
  <2>1. IsFiniteSet(s) /\ IsFiniteSet(S \cup s) BY FS_Subset, FS_Union
  <2>2. (S \cup s) \ {x} = S \cup (s \ {x}) /\ x \in S \cup s OBVIOUS
  <2>3. (\A y \in s : f[y] \in Int) /\ (\A y \in S \cup s : f[y] \in Int) BY <1>0
  <2>4. Total(f, s) = f[x] + Total(f, s \ {x}) /\ Total(f, s \ {x}) \in Int BY <2>1, <2>3, TotalTakes
  <2> DEFINE U == S \cup s
  <2>4a. IsFiniteSet(U) /\ x \in U /\ (\A y \in U : f[y] \in Int) BY <2>1, <2>2, <2>3
  <2>5. Total(f, S \cup s) = f[x] + Total(f, S \cup (s \ {x}))
    <3>1. U \ {x} = S \cup (s \ {x}) BY <2>2
    <3> HIDE DEF U
    <3>2. Total(f, U) = f[x] + Total(f, U \ {x}) BY <2>4a, TotalTakes
    <3> QED BY <3>1, <3>2 DEF U
  <2>6. Total(f, S \cup (s \ {x})) = Total(f, S) + Total(f, s \ {x}) BY <1>3
  <2>7. f[x] \in Int BY <2>3
  <2> QED BY <1>1, <2>4, <2>5, <2>6, <2>7
<1> HIDE DEF Q
<1>4. \A s \in SUBSET T : s \in Q BY <1>2, <1>3, OneByOne
<1>5. T \in Q BY <1>4
<1> QED BY <1>1, <1>5 DEF Q

LEMMA TotalNegated ==
  ASSUME NEW S, IsFiniteSet(S), NEW f, NEW h, \A x \in S : f[x] \in Int /\ h[x] = -f[x]
  PROVE  Total(h, S) = -Total(f, S)
<1> DEFINE Q == {s \in SUBSET S : Total(h, s) = -Total(f, s)}
<1>0. \A x \in S : f[x] \in Int /\ h[x] \in Int OBVIOUS
<1>1. {} \in Q
  <2>1. Total(f, {}) = 0 /\ Total(h, {}) = 0 BY <1>0, TotalTakes
  <2> QED BY <2>1
<1>2. ASSUME NEW s \in SUBSET S, s # {}, \A x \in s : s \ {x} \in Q PROVE s \in Q
  <2> PICK x \in s : TRUE BY <1>2
  <2>1. IsFiniteSet(s) /\ (\A y \in s : f[y] \in Int) /\ (\A y \in s : h[y] \in Int) BY <1>0, FS_Subset
  <2>2. Total(f, s) = f[x] + Total(f, s \ {x}) /\ Total(f, s \ {x}) \in Int BY <2>1, TotalTakes
  <2>3. Total(h, s) = h[x] + Total(h, s \ {x}) BY <2>1, TotalTakes
  <2>4. Total(h, s \ {x}) = -Total(f, s \ {x}) /\ h[x] = -f[x] /\ f[x] \in Int BY <1>2
  <2> QED BY <2>2, <2>3, <2>4
<1> HIDE DEF Q
<1>3. \A s \in SUBSET S : s \in Q BY <1>1, <1>2, OneByOne
<1> QED BY <1>3 DEF Q

-----------------------------------------------------------------------------
(* Functions whose values follow one from another.                         *)

\* A function on 0..N whose values follow one from another.
IsRun(f, G, base, N) == f = [n \in 0..N |-> IF n = 0 THEN base ELSE G[<<n, f[n - 1]>>]]

LEMMA RecurrenceExists ==
  ASSUME NEW N \in Nat, NEW A, NEW base \in A, NEW G, \A n \in 1..N, a \in A : G[<<n, a>>] \in A
  PROVE  \E f : IsRun(f, G, base, N) /\ \A n \in 0..N : f[n] \in A
<1> DEFINE H == [ka \in (Nat \ {0}) \X A |-> IF ka[1] <= N THEN G[<<ka[1], ka[2]>>] ELSE ka[2]]
           f == [n \in 0..N |-> Folded(H, base, n)]
<1>1. \A k \in Nat \ {0}, a \in A : H[<<k, a>>] = IF k <= N THEN G[<<k, a>>] ELSE a OBVIOUS
<1> HIDE DEF H
<1>2. StaysIn(H, A)
  <2> SUFFICES ASSUME NEW k \in Nat \ {0}, NEW a \in A PROVE H[<<k, a>>] \in A BY DEF StaysIn
  <2>1. CASE k <= N
    <3>1. k \in 1..N BY <2>1
    <3> QED BY <1>1, <2>1, <3>1
  <2>2. CASE ~(k <= N) BY <1>1, <2>2
  <2> QED BY <2>1, <2>2
<1>3. /\ Folded(H, base, 0) = base
      /\ \A k \in Nat \ {0} : Folded(H, base, k) = H[<<k, Folded(H, base, k - 1)>>]
      /\ \A k \in Nat : Folded(H, base, k) \in A
  BY <1>2, FoldedSteps
<1>4. ASSUME NEW n \in 0..N, n # 0 PROVE Folded(H, base, n) = G[<<n, f[n - 1]>>]
  <2>1. n \in Nat \ {0} /\ n - 1 \in Nat /\ n - 1 \in 0..N /\ n <= N BY <1>4
  <2>2. Folded(H, base, n) = H[<<n, Folded(H, base, n - 1)>>] BY <1>3, <2>1
  <2>3. Folded(H, base, n - 1) \in A BY <1>3, <2>1
  <2>4. Folded(H, base, n - 1) = f[n - 1] BY <2>1
  <2> HIDE DEF f
  <2> QED BY <1>1, <2>1, <2>2, <2>3, <2>4
<1>5. \A n \in 0..N : f[n] = IF n = 0 THEN base ELSE G[<<n, f[n - 1]>>] BY <1>3, <1>4
<1>6. f = [n \in 0..N |-> f[n]] OBVIOUS
<1>7. \A n \in 0..N : f[n] \in A BY <1>3
<1> HIDE DEF f
<1>8. f = [n \in 0..N |-> IF n = 0 THEN base ELSE G[<<n, f[n - 1]>>]] BY <1>5, <1>6
<1> QED BY <1>7, <1>8 DEF IsRun

-----------------------------------------------------------------------------
(* Amounts that are given out place by place.                              *)

\* What the members of S have their place in 1..N, no two the same.
Places(place, S, N) ==
    /\ \A x \in S : place[x] \in 1..N
    /\ \A x, y \in S : place[x] = place[y] => x = y
PlacedBy(place, S, n) == {x \in S : place[x] <= n}

LEMMA OneMorePlace ==
  ASSUME NEW S, IsFiniteSet(S), NEW N \in Nat, NEW place, Places(place, S, N), NEW n \in 1..N,
         NEW f, \A x \in S : f[x] \in Int
  PROVE  \/ PlacedBy(place, S, n) = PlacedBy(place, S, n - 1) /\ \A x \in S : place[x] # n
         \/ \E x \in S : /\ place[x] = n
                         /\ Total(f, PlacedBy(place, S, n)) = f[x] + Total(f, PlacedBy(place, S, n - 1))
                         /\ Cardinality(PlacedBy(place, S, n)) = Cardinality(PlacedBy(place, S, n - 1)) + 1
                         /\ Total(f, PlacedBy(place, S, n - 1)) \in Int
<1> DEFINE A == PlacedBy(place, S, n)
           B == PlacedBy(place, S, n - 1)
<1>0. \A x \in S : place[x] \in Int BY DEF Places
<1>1. CASE \A x \in S : place[x] # n
  <2>1. \A x \in S : place[x] <= n <=> place[x] <= n - 1 BY <1>0, <1>1
  <2> QED BY <1>1, <2>1 DEF PlacedBy
<1>2. CASE \E x \in S : place[x] = n
  <2>1. PICK x \in S : place[x] = n BY <1>2
  <2>2. \A y \in S : place[y] = n => y = x BY <2>1 DEF Places
  <2>3. \A y \in S : y # x => (place[y] <= n <=> place[y] <= n - 1)
    <3> SUFFICES ASSUME NEW y \in S, y # x PROVE place[y] <= n <=> place[y] <= n - 1 OBVIOUS
    <3>1. place[y] \in Int /\ place[y] # n BY <1>0, <2>2
    <3> QED BY <3>1
  <2>4. A \in SUBSET S /\ x \in A /\ B = A \ {x}
    <3>1. x \in A /\ x \notin B BY <2>1 DEF PlacedBy
    <3> QED BY <2>3, <3>1 DEF PlacedBy
  <2> HIDE DEF A, B
  <2>5. IsFiniteSet(A) /\ \A y \in A : f[y] \in Int BY <2>4, FS_Subset
  <2>6. Total(f, A) = f[x] + Total(f, B) /\ Total(f, B) \in Int BY <2>4, <2>5, TotalTakes
  <2>7. Cardinality(B) = Cardinality(A) - 1 /\ Cardinality(A) \in Nat BY <2>4, <2>5, FS_RemoveElement, FS_CardinalityType
  <2> QED BY <2>1, <2>6, <2>7 DEF A, B
<1> QED BY <1>1, <1>2

Falls(left, N) == \A n \in 1..N : left[n] \in Int /\ left[n - 1] \in Int /\ left[n] <= left[n - 1]

\* Each member takes what is left at its place, and half a quantum more at most.
LEMMA Spending ==
  ASSUME NEW N \in Nat, NEW left, left[0] \in Int, Falls(left, N),
         NEW S, IsFiniteSet(S), NEW place, Places(place, S, N), NEW q \in Nat,
         NEW f, \A x \in S : f[x] \in Int /\ 2 * f[x] <= 2 * (left[place[x] - 1] - left[place[x]]) + q
  PROVE  2 * Total(f, S) <= 2 * (left[0] - left[N]) + q * Cardinality(S)
<1> DEFINE A(n) == PlacedBy(place, S, n)
           P == {n \in Nat : n <= N => /\ left[n] \in Int
                                       /\ 2 * Total(f, A(n)) <= 2 * (left[0] - left[n]) + q * Cardinality(A(n))}
<1>0. \A n \in Nat : IsFiniteSet(A(n)) /\ A(n) \in SUBSET S /\ Cardinality(A(n)) \in Nat /\ Total(f, A(n)) \in Int
  <2> SUFFICES ASSUME NEW n \in Nat
               PROVE IsFiniteSet(A(n)) /\ A(n) \in SUBSET S /\ Cardinality(A(n)) \in Nat /\ Total(f, A(n)) \in Int
    OBVIOUS
  <2>1. A(n) \in SUBSET S BY DEF PlacedBy
  <2>2. IsFiniteSet(A(n)) BY <2>1, FS_Subset
  <2>3. \A x \in A(n) : f[x] \in Int BY <2>1
  <2> HIDE DEF A
  <2> QED BY <2>1, <2>2, <2>3, FS_CardinalityType, TotalTakes
<1>1. 0 \in P
  <2>1. A(0) = {} BY DEF PlacedBy, Places
  <2>2. Total(f, {}) = 0 /\ Cardinality({}) = 0
    <3>1. \A x \in S : f[x] \in Int OBVIOUS
    <3> QED BY <3>1, TotalTakes, FS_EmptySet
  <2>3. q * 0 = 0 OBVIOUS
  <2>4. Total(f, A(0)) = 0 /\ q * Cardinality(A(0)) = 0 BY <2>1, <2>2, <2>3
  <2> HIDE DEF A
  <2> QED BY <2>4
<1>2. ASSUME NEW m \in Nat, m \in P PROVE m + 1 \in P
  <2> SUFFICES ASSUME m + 1 <= N
               PROVE  /\ left[m + 1] \in Int
                      /\ 2 * Total(f, A(m + 1)) <= 2 * (left[0] - left[m + 1]) + q * Cardinality(A(m + 1))
    OBVIOUS
  <2> DEFINE n == m + 1
  <2>1. n \in 1..N /\ n - 1 = m /\ m <= N OBVIOUS
  <2>2. left[n] \in Int /\ left[m] \in Int /\ left[n] <= left[m] BY <2>1 DEF Falls
  <2>3. 2 * Total(f, A(m)) <= 2 * (left[0] - left[m]) + q * Cardinality(A(m)) BY <1>2, <2>1
  <2>4. Total(f, A(m)) \in Int /\ Cardinality(A(m)) \in Nat /\ q * Cardinality(A(m)) \in Int BY <1>0
  <2>5. \A x \in S : f[x] \in Int OBVIOUS
  <2>6. \/ A(n) = A(m)
        \/ \E x \in S : /\ place[x] = n
                        /\ Total(f, A(n)) = f[x] + Total(f, A(m))
                        /\ Cardinality(A(n)) = Cardinality(A(m)) + 1
    <3> HIDE DEF n
    <3> QED BY <2>1, <2>5, OneMorePlace
  <2>7. CASE A(n) = A(m)
    <3> HIDE DEF A, n
    <3> QED BY <2>2, <2>3, <2>4, <2>7 DEF n
  <2>8. CASE \E x \in S : /\ place[x] = n
                          /\ Total(f, A(n)) = f[x] + Total(f, A(m))
                          /\ Cardinality(A(n)) = Cardinality(A(m)) + 1
    <3> PICK x \in S : /\ place[x] = n
                       /\ Total(f, A(n)) = f[x] + Total(f, A(m))
                       /\ Cardinality(A(n)) = Cardinality(A(m)) + 1 BY <2>8
    <3>1. f[x] \in Int /\ 2 * f[x] <= 2 * (left[m] - left[n]) + q BY <2>1
    <3>2. q * (Cardinality(A(m)) + 1) = q * Cardinality(A(m)) + q BY <2>4
    <3> HIDE DEF A, n
    <3> QED BY <2>2, <2>3, <2>4, <3>1, <3>2 DEF n
  <2> QED BY <2>6, <2>7, <2>8
<1> HIDE DEF P
<1>3. Nat \subseteq P BY <1>1, <1>2, Counting
<1>4. A(N) = S BY DEF PlacedBy, Places
<1> QED BY <1>3, <1>4 DEF P

\* Only the last to take anything may take more than what is left.
LEMMA SpendingOnce ==
  ASSUME NEW N \in Nat, NEW left, left[0] \in Nat, Falls(left, N), \A n \in 1..N : left[n] >= 0,
         NEW S, IsFiniteSet(S), NEW place, Places(place, S, N), NEW q \in Nat,
         NEW f,
         \A x \in S : /\ f[x] \in Int /\ left[place[x] - 1] > 0
                      /\ 2 * f[x] <= 2 * (left[place[x] - 1] - left[place[x]]) + q
                      /\ left[place[x]] > 0 => f[x] = left[place[x] - 1] - left[place[x]]
  PROVE  2 * Total(f, S) <= 2 * left[0] + q
<1> DEFINE A(n) == PlacedBy(place, S, n)
           P == {n \in Nat : n <= N => /\ left[n] \in Nat
                                       /\ left[n] > 0 => Total(f, A(n)) <= left[0] - left[n]
                                       /\ 2 * Total(f, A(n)) <= 2 * (left[0] - left[n]) + q}
<1>0. \A n \in Nat : Total(f, A(n)) \in Int
  <2> SUFFICES ASSUME NEW n \in Nat PROVE Total(f, A(n)) \in Int OBVIOUS
  <2>1. A(n) \in SUBSET S BY DEF PlacedBy
  <2>2. IsFiniteSet(A(n)) BY <2>1, FS_Subset
  <2>3. \A x \in A(n) : f[x] \in Int BY <2>1
  <2> HIDE DEF A
  <2> QED BY <2>2, <2>3, TotalTakes
<1>1. 0 \in P
  <2>1. A(0) = {} BY DEF PlacedBy, Places
  <2>2. Total(f, {}) = 0
    <3>1. \A x \in S : f[x] \in Int OBVIOUS
    <3> QED BY <3>1, TotalTakes
  <2> HIDE DEF A
  <2> QED BY <2>1, <2>2
<1>2. ASSUME NEW m \in Nat, m \in P PROVE m + 1 \in P
  <2> SUFFICES ASSUME m + 1 <= N
               PROVE  /\ left[m + 1] \in Nat
                      /\ left[m + 1] > 0 => Total(f, A(m + 1)) <= left[0] - left[m + 1]
                      /\ 2 * Total(f, A(m + 1)) <= 2 * (left[0] - left[m + 1]) + q
    OBVIOUS
  <2> DEFINE n == m + 1
  <2>1. n \in 1..N /\ n - 1 = m /\ m <= N OBVIOUS
  <2>2. left[n] \in Int /\ left[m] \in Int /\ left[n] <= left[m] /\ left[n] >= 0 BY <2>1 DEF Falls
  <2>3. /\ left[m] > 0 => Total(f, A(m)) <= left[0] - left[m]
        /\ 2 * Total(f, A(m)) <= 2 * (left[0] - left[m]) + q BY <1>2, <2>1
  <2>4. Total(f, A(m)) \in Int BY <1>0
  <2>5. \A x \in S : f[x] \in Int OBVIOUS
  <2>6. \/ A(n) = A(m)
        \/ \E x \in S : /\ place[x] = n
                        /\ Total(f, A(n)) = f[x] + Total(f, A(m))
    <3> HIDE DEF n
    <3> QED BY <2>1, <2>5, OneMorePlace
  <2>7. CASE A(n) = A(m)
    <3> HIDE DEF A, n
    <3> QED BY <2>2, <2>3, <2>4, <2>7 DEF n
  <2>8. CASE \E x \in S : /\ place[x] = n
                          /\ Total(f, A(n)) = f[x] + Total(f, A(m))
    <3> PICK x \in S : /\ place[x] = n
                       /\ Total(f, A(n)) = f[x] + Total(f, A(m)) BY <2>8
    <3>1. /\ f[x] \in Int /\ 2 * f[x] <= 2 * (left[m] - left[n]) + q /\ left[m] > 0
          /\ left[n] > 0 => f[x] = left[m] - left[n] BY <2>1
    <3> HIDE DEF A, n
    <3> QED BY <2>2, <2>3, <2>4, <3>1 DEF n
  <2> QED BY <2>6, <2>7, <2>8
<1> HIDE DEF P
<1>3. Nat \subseteq P BY <1>1, <1>2, Counting
<1>4. A(N) = S BY DEF PlacedBy, Places
<1>5. N \in P /\ left[N] \in Int /\ left[N] >= 0
  <2>1. N \in P BY <1>3
  <2> QED BY <2>1 DEF P
<1>6. 2 * Total(f, S) <= 2 * (left[0] - left[N]) + q BY <1>4, <1>5 DEF P
<1>7. Total(f, S) \in Int BY <1>0, <1>4
<1> QED BY <1>5, <1>6, <1>7
===============================================================================
