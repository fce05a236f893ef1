---------------------------- MODULE Sums_proofs ----------------------------
(***************************************************************************)
(* Lemmas on induction over the numbers and over the parts of a finite     *)
(* set, on the sums and the folds of the community modules                 *)
(* (SumFunctionOnSet, FoldLeft), on which the theorems about counters and  *)
(* totals rest, and on sorting by rank.                                    *)
(***************************************************************************)
EXTENDS Integers, FiniteSets, Functions, SequencesExt,
        FiniteSetTheorems, WellFoundedInduction, TLAPS

-----------------------------------------------------------------------------
(* Induction, for sets of numbers and sets of parts instead of predicates.   *)

(* Numbers have a least one. *)
LEMMA Least ==
  ASSUME NEW T \in SUBSET Nat, T # {}
  PROVE  \E n \in T : \A m \in T : n <= m
<1>. DEFINE R == OpToRel(<, Nat)
<1>1. IsWellFoundedOn(R, Nat) BY NatLessThanWellFounded
<1>2. \A i, j \in Nat : i < j => <<i, j>> \in R BY DEF OpToRel
<1>. HIDE DEF R
<1>3. PICK n \in T : \A m \in T : ~(<<m, n>> \in R) BY <1>1, WFMin
<1>4. ASSUME NEW m \in T PROVE n <= m
  <2>1. ~(m < n) BY <1>2, <1>3
  <2>2. m \in Nat /\ n \in Nat OBVIOUS
  <2>. QED BY <2>1, <2>2
<1>. QED BY <1>4

(* A set of numbers that has 0 and successors has them all. *)
LEMMA Inductive ==
  ASSUME NEW T \in SUBSET Nat, 0 \in T, \A n \in T : n + 1 \in T
  PROVE  T = Nat
<1>1. SUFFICES ASSUME Nat \ T # {} PROVE FALSE OBVIOUS
<1>2. PICK n \in Nat \ T : \A m \in Nat \ T : n <= m BY <1>1, Least
<1>3. n # 0 /\ n - 1 \in Nat BY <1>2
<1>4. n - 1 \in T BY <1>2, <1>3
<1>5. (n - 1) + 1 \in T BY <1>4
<1>. QED BY <1>2, <1>3, <1>5

(* Parts of a finite set are finite, and lose one element at a time. *)
LEMMA Smaller ==
  ASSUME NEW U, IsFiniteSet(U), NEW S \in SUBSET U
  PROVE  /\ IsFiniteSet(S) /\ Cardinality(S) \in Nat
         /\ \A x \in S : Cardinality(S \ {x}) = Cardinality(S) - 1
         /\ Cardinality(S) = 0 <=> S = {}
<1>1. IsFiniteSet(S) BY FS_Subset
<1>2. \A x \in S : Cardinality(S \ {x}) = Cardinality(S) - 1 BY <1>1, FS_RemoveElement
<1>. QED BY <1>1, <1>2, FS_CardinalityType, FS_EmptySet

(* A set of parts that has the empty one and grows by any element has the    *)
(* whole.                                                                    *)
LEMMA SetInduction ==
  ASSUME NEW U, IsFiniteSet(U), NEW F, {} \in F,
         \A S \in SUBSET U : \A x \in U \ S : S \in F => S \cup {x} \in F
  PROVE  U \in F
<1>. DEFINE N == {n \in Nat : \A S \in SUBSET U : Cardinality(S) = n => S \in F}
<1>1. 0 \in N
  <2>1. ASSUME NEW S \in SUBSET U, Cardinality(S) = 0 PROVE S \in F BY <2>1, Smaller
  <2>. QED BY <2>1
<1>2. ASSUME NEW n \in N PROVE n + 1 \in N
  <2>1. ASSUME NEW S \in SUBSET U, Cardinality(S) = n + 1 PROVE S \in F
    <3>1. PICK x \in S : TRUE BY <2>1, Smaller
    <3>2. Cardinality(S \ {x}) = n BY <2>1, Smaller
    <3>3. S \ {x} \in F BY <3>2
    <3>4. (S \ {x}) \cup {x} = S BY <3>1
    <3>. QED BY <3>3, <3>4
  <2>. QED BY <2>1
<1>3. N = Nat BY <1>1, <1>2, Inductive
<1>. QED BY <1>3, Smaller

-----------------------------------------------------------------------------
(* The definition of a sum, written out: sums of all the parts of a set,     *)
(* each from one of its elements and the rest.                               *)
AnyOf(s) == CHOOSE x \in s : TRUE
Sums(h, S, iter) ==
  iter = [s \in SUBSET S |-> IF s = {} THEN 0 ELSE h[AnyOf(s)] + iter[s \ {AnyOf(s)}]]
Iter(h, S) == CHOOSE iter : Sums(h, S, iter)

LEMMA Unfold ==
  ASSUME NEW h, NEW S
  PROVE  SumFunctionOnSet(h, S) = Iter(h, S)[S]
  BY DEF SumFunctionOnSet, FoldFunctionOnSet, MapThenFoldSet, Iter, Sums, AnyOf

(* There are such sums. *)
LEMMA SumsExist ==
  ASSUME NEW h, NEW S, IsFiniteSet(S)
  PROVE  Sums(h, S, Iter(h, S))
<1>. DEFINE upTo(n) == {s \in SUBSET S : Cardinality(s) <= n}
            first(f, n) ==
              f = [s \in upTo(n) |-> IF s = {} THEN 0 ELSE h[AnyOf(s)] + f[s \ {AnyOf(s)}]]
            N == {n \in Nat : \E f : first(f, n)}
<1>1. 0 \in N
  <2>. DEFINE f == [s \in upTo(0) |-> 0]
  <2>1. \A s \in upTo(0) : s = {} BY Smaller
  <2>2. first(f, 0) BY <2>1
  <2>. QED BY <2>2
<1>2. ASSUME NEW n \in N PROVE n + 1 \in N
  <2>1. PICK f : first(f, n) OBVIOUS
  <2>. DEFINE g == [s \in upTo(n + 1) |-> IF s = {} THEN 0 ELSE h[AnyOf(s)] + f[s \ {AnyOf(s)}]]
  <2>2. ASSUME NEW s \in upTo(n + 1), s # {}
        PROVE  s \ {AnyOf(s)} \in upTo(n)
    <3>1. AnyOf(s) \in s BY <2>2 DEF AnyOf
    <3>2. Cardinality(s \ {AnyOf(s)}) = Cardinality(s) - 1 /\ Cardinality(s) \in Nat
      BY <3>1, Smaller
    <3>. QED BY <3>2
  <2>3. ASSUME NEW s \in upTo(n) PROVE g[s] = f[s]
    <3>1. s \in upTo(n + 1) BY Smaller
    <3>2. g[s] = IF s = {} THEN 0 ELSE h[AnyOf(s)] + f[s \ {AnyOf(s)}] BY <3>1
    <3>. HIDE DEF g
    <3>3. f[s] = IF s = {} THEN 0 ELSE h[AnyOf(s)] + f[s \ {AnyOf(s)}] BY <2>1
    <3>. QED BY <3>2, <3>3
  <2>4. first(g, n + 1)
    <3>1. ASSUME NEW s \in upTo(n + 1), s # {} PROVE f[s \ {AnyOf(s)}] = g[s \ {AnyOf(s)}]
      BY <2>2, <2>3, <3>1
    <3>. QED BY <3>1
  <2>. HIDE DEF first, g
  <2>. QED BY <2>4
<1>3. N = Nat
  <2>. HIDE DEF N
  <2>. QED BY <1>1, <1>2, Inductive DEF N
<1>4. Cardinality(S) \in N BY <1>3, FS_CardinalityType
<1>5. PICK f : first(f, Cardinality(S)) BY <1>4
<1>6. upTo(Cardinality(S)) = SUBSET S BY FS_Subset
<1>7. Sums(h, S, f) BY <1>5, <1>6 DEF Sums
<1>. QED BY <1>7 DEF Iter

(* What is summed is a number each. *)
Numeric(h, S) == \A x \in S : h[x] \in Int

(* The sums of numbers are numbers. *)
LEMMA SumsNumeric ==
  ASSUME NEW h, NEW S, IsFiniteSet(S), Numeric(h, S), NEW iter, Sums(h, S, iter)
  PROVE  \A s \in SUBSET S : iter[s] \in Int
<1>. DEFINE N == {n \in Nat : \A s \in SUBSET S : Cardinality(s) = n => iter[s] \in Int}
<1>1. \A s \in SUBSET S : iter[s] = IF s = {} THEN 0 ELSE h[AnyOf(s)] + iter[s \ {AnyOf(s)}]
  BY DEF Sums
<1>2. 0 \in N
  <2>1. ASSUME NEW s \in SUBSET S, Cardinality(s) = 0 PROVE iter[s] \in Int
    <3>1. s = {} BY <2>1, Smaller
    <3>2. iter[s] = 0 BY <1>1, <3>1
    <3>. QED BY <3>2
  <2>. QED BY <2>1
<1>3. ASSUME NEW n \in N PROVE n + 1 \in N
  <2>1. ASSUME NEW s \in SUBSET S, Cardinality(s) = n + 1 PROVE iter[s] \in Int
    <3>1. s # {} BY <2>1, Smaller
    <3>2. AnyOf(s) \in s BY <3>1 DEF AnyOf
    <3>3. Cardinality(s \ {AnyOf(s)}) = n BY <2>1, <3>2, Smaller
    <3>4. iter[s \ {AnyOf(s)}] \in Int BY <3>3
    <3>. QED BY <1>1, <3>1, <3>2, <3>4 DEF Numeric
  <2>. QED BY <2>1
<1>4. N = Nat
  <2>. HIDE DEF N
  <2>. QED BY <1>2, <1>3, Inductive DEF N
<1>. QED BY <1>4, Smaller

(* The order in which the elements are taken does not matter. *)
LEMMA AnyFirst ==
  ASSUME NEW h, NEW S, IsFiniteSet(S), Numeric(h, S), NEW iter, Sums(h, S, iter)
  PROVE  iter[{}] = 0 /\ \A s \in SUBSET S : \A y \in s : iter[s] = h[y] + iter[s \ {y}]
<1>. DEFINE good(s) == \A y \in s : iter[s] = h[y] + iter[s \ {y}]
            N == {n \in Nat : \A s \in SUBSET S : Cardinality(s) = n => good(s)}
<1>1. \A s \in SUBSET S : iter[s] = IF s = {} THEN 0 ELSE h[AnyOf(s)] + iter[s \ {AnyOf(s)}]
  BY DEF Sums
<1>2. 0 \in N
  <2>1. ASSUME NEW s \in SUBSET S, Cardinality(s) = 0 PROVE good(s) BY <2>1, Smaller
  <2>. QED BY <2>1
<1>3. ASSUME NEW n \in N PROVE n + 1 \in N
  <2>1. ASSUME NEW s \in SUBSET S, Cardinality(s) = n + 1, NEW y \in s
        PROVE  iter[s] = h[y] + iter[s \ {y}]
    <3>. DEFINE x == AnyOf(s)
    <3>1. s # {} /\ \A z \in s : Cardinality(s \ {z}) = n BY <2>1, Smaller
    <3>2. x \in s BY <3>1 DEF AnyOf
    <3>3. iter[s] = h[x] + iter[s \ {x}] BY <1>1, <3>1
    <3>. HIDE DEF x
    <3>4. \A z \in s : good(s \ {z}) BY <3>1
    <3>5. CASE y = x BY <3>5, <3>3
    <3>6. CASE y # x
      <4>1. iter[s \ {x}] = h[y] + iter[(s \ {x}) \ {y}] BY <3>2, <3>4, <3>6
      <4>2. iter[s \ {y}] = h[x] + iter[(s \ {y}) \ {x}] BY <3>2, <3>4, <3>6
      <4>3. (s \ {x}) \ {y} = (s \ {y}) \ {x} OBVIOUS
      <4>4. iter[(s \ {y}) \ {x}] \in Int BY SumsNumeric
      <4>5. h[x] \in Int /\ h[y] \in Int BY <3>2 DEF Numeric
      <4>. DEFINE hx == h[x]
                  hy == h[y]
                  rest == iter[(s \ {y}) \ {x}]
      <4>6. iter[s] = hx + (hy + rest) BY <3>3, <4>1, <4>3
      <4>7. iter[s \ {y}] = hx + rest BY <4>2
      <4>8. hx \in Int /\ hy \in Int /\ rest \in Int BY <4>4, <4>5
      <4>. HIDE DEF hx, hy, rest
      <4>9. hx + (hy + rest) = hy + (hx + rest) BY <4>8
      <4>10. iter[s] = hy + iter[s \ {y}] BY <4>6, <4>7, <4>9
      <4>. QED BY <4>10 DEF hy
    <3>. QED BY <3>5, <3>6
  <2>2. \A s \in SUBSET S : Cardinality(s) = n + 1 => good(s) BY <2>1
  <2>. HIDE DEF good
  <2>. QED BY <2>2
<1>4. N = Nat
  <2>. HIDE DEF N
  <2>. QED BY <1>2, <1>3, Inductive DEF N
<1>. QED BY <1>1, <1>4, Smaller

(* Nor does the set the sums are made for. *)
LEMMA SameSums ==
  ASSUME NEW h, NEW S, IsFiniteSet(S), Numeric(h, S), NEW s \in SUBSET S
  PROVE  Iter(h, S)[s] = SumFunctionOnSet(h, s)
<1>. DEFINE F == {t \in SUBSET s : Iter(h, S)[t] = Iter(h, s)[t]}
<1>1. IsFiniteSet(s) /\ Numeric(h, s) BY FS_Subset DEF Numeric
<1>2. Sums(h, S, Iter(h, S)) /\ Sums(h, s, Iter(h, s)) BY <1>1, SumsExist
<1>3. {} \in F BY <1>1, <1>2, AnyFirst
<1>4. ASSUME NEW t \in SUBSET s, NEW x \in s \ t, t \in F PROVE t \cup {x} \in F
  <2>1. (t \cup {x}) \ {x} = t OBVIOUS
  <2>2. Iter(h, S)[t \cup {x}] = h[x] + Iter(h, S)[t] BY <1>1, <1>2, <2>1, AnyFirst
  <2>3. Iter(h, s)[t \cup {x}] = h[x] + Iter(h, s)[t] BY <1>1, <1>2, <2>1, AnyFirst
  <2>. QED BY <2>2, <2>3, <1>4
<1>. HIDE DEF F
<1>5. s \in F BY <1>1, <1>3, <1>4, SetInduction
<1>. QED BY <1>5, Unfold DEF F

-----------------------------------------------------------------------------
(* Sums. *)

(* Nothing sums to 0. *)
LEMMA SumOfNone ==
  ASSUME NEW h
  PROVE  SumFunctionOnSet(h, {}) = 0
<1>1. IsFiniteSet({}) BY FS_EmptySet
<1>2. Sums(h, {}, Iter(h, {})) BY <1>1, SumsExist
<1>3. Numeric(h, {}) BY DEF Numeric
<1>4. Iter(h, {})[{}] = 0 BY <1>1, <1>2, <1>3, AnyFirst
<1>. QED BY <1>4, Unfold

(* A sum of numbers is a number, and that of any element and the rest.       *)
LEMMA SumSplits ==
  ASSUME NEW h, NEW S, IsFiniteSet(S), Numeric(h, S)
  PROVE  /\ SumFunctionOnSet(h, S) \in Int
         /\ \A y \in S : SumFunctionOnSet(h, S) = h[y] + SumFunctionOnSet(h, S \ {y})
<1>1. Sums(h, S, Iter(h, S)) BY SumsExist
<1>2. SumFunctionOnSet(h, S) \in Int BY <1>1, SumsNumeric, Unfold
<1>3. ASSUME NEW y \in S PROVE SumFunctionOnSet(h, S) = h[y] + SumFunctionOnSet(h, S \ {y})
  <2>1. Iter(h, S)[S] = h[y] + Iter(h, S)[S \ {y}] BY <1>1, AnyFirst
  <2>2. Iter(h, S)[S \ {y}] = SumFunctionOnSet(h, S \ {y}) BY SameSums
  <2>. QED BY <2>1, <2>2, Unfold
<1>. QED BY <1>2, <1>3

(* One more adds its number. *)
LEMMA SumGrows ==
  ASSUME NEW h, NEW S, IsFiniteSet(S), NEW x, x \notin S, Numeric(h, S \cup {x})
  PROVE  SumFunctionOnSet(h, S \cup {x}) = h[x] + SumFunctionOnSet(h, S)
<1>1. IsFiniteSet(S \cup {x}) BY FS_AddElement
<1>2. (S \cup {x}) \ {x} = S OBVIOUS
<1>. QED BY <1>1, <1>2, SumSplits

(* The same numbers have the same sum. *)
LEMMA SumsEqual ==
  ASSUME NEW g, NEW h, NEW S, IsFiniteSet(S), Numeric(h, S), \A x \in S : g[x] = h[x]
  PROVE  SumFunctionOnSet(g, S) = SumFunctionOnSet(h, S)
<1>. DEFINE F == {s \in SUBSET S : SumFunctionOnSet(g, s) = SumFunctionOnSet(h, s)}
<1>1. {} \in F BY SumOfNone
<1>2. ASSUME NEW s \in SUBSET S, NEW x \in S \ s, s \in F PROVE s \cup {x} \in F
  <2>1. IsFiniteSet(s) /\ Numeric(h, s \cup {x}) /\ Numeric(g, s \cup {x})
    BY FS_Subset DEF Numeric
  <2>. QED BY <1>2, <2>1, SumGrows
<1>. HIDE DEF F
<1>3. S \in F BY <1>1, <1>2, SetInduction
<1>. QED BY <1>3 DEF F

(* Numbers that are not negative have such a sum, and none is larger.        *)
LEMMA SumsNatural ==
  ASSUME NEW h, NEW S, IsFiniteSet(S), \A x \in S : h[x] \in Nat
  PROVE  SumFunctionOnSet(h, S) \in Nat /\ \A x \in S : h[x] <= SumFunctionOnSet(h, S)
<1>. DEFINE F == {s \in SUBSET S : SumFunctionOnSet(h, s) \in Nat}
<1>1. {} \in F BY SumOfNone
<1>2. ASSUME NEW s \in SUBSET S, NEW x \in S \ s, s \in F PROVE s \cup {x} \in F
  <2>1. IsFiniteSet(s) /\ Numeric(h, s \cup {x}) BY FS_Subset DEF Numeric
  <2>. QED BY <1>2, <2>1, SumGrows
<1>3. \A s \in SUBSET S : s \in F
  <2>1. ASSUME NEW s \in SUBSET S PROVE s \in F
    <3>1. IsFiniteSet(s) BY FS_Subset
    <3>. HIDE DEF F
    <3>. QED BY <1>1, <1>2, <3>1, SetInduction
  <2>. QED BY <2>1
<1>4. ASSUME NEW x \in S PROVE h[x] <= SumFunctionOnSet(h, S)
  <2>1. SumFunctionOnSet(h, S) = h[x] + SumFunctionOnSet(h, S \ {x}) BY SumSplits DEF Numeric
  <2>2. SumFunctionOnSet(h, S \ {x}) \in Nat BY <1>3
  <2>. QED BY <2>1, <2>2
<1>. QED BY <1>3, <1>4

(* Of one number changed the sum changes as much. *)
LEMMA SumChanges ==
  ASSUME NEW g, NEW h, NEW S, IsFiniteSet(S), Numeric(h, S), NEW y \in S, g[y] \in Int,
         \A x \in S \ {y} : g[x] = h[x]
  PROVE  SumFunctionOnSet(g, S) = SumFunctionOnSet(h, S) + g[y] - h[y]
<1>1. IsFiniteSet(S \ {y}) BY FS_Subset
<1>2. Numeric(g, S) /\ Numeric(h, S \ {y}) BY DEF Numeric
<1>3. SumFunctionOnSet(g, S \ {y}) = SumFunctionOnSet(h, S \ {y}) BY <1>1, <1>2, SumsEqual
<1>4. SumFunctionOnSet(g, S) = g[y] + SumFunctionOnSet(g, S \ {y}) BY <1>2, SumSplits
<1>5. SumFunctionOnSet(h, S) = h[y] + SumFunctionOnSet(h, S \ {y}) BY SumSplits
<1>6. h[y] \in Int /\ SumFunctionOnSet(h, S \ {y}) \in Int BY <1>1, <1>2, SumSplits DEF Numeric
<1>. QED BY <1>3, <1>4, <1>5, <1>6

(* Zeros may be left out. *)
LEMMA SumDrops ==
  ASSUME NEW h, NEW S, IsFiniteSet(S), Numeric(h, S), NEW T \in SUBSET S,
         \A x \in S \ T : h[x] = 0
  PROVE  SumFunctionOnSet(h, S) = SumFunctionOnSet(h, T)
<1>. DEFINE F == {s \in SUBSET (S \ T) : SumFunctionOnSet(h, T \cup s) = SumFunctionOnSet(h, T)}
<1>0. IsFiniteSet(S \ T) BY FS_Subset
<1>1. {} \in F
  <2>1. T \cup {} = T OBVIOUS
  <2>. QED BY <2>1
<1>2. ASSUME NEW s \in SUBSET (S \ T), NEW x \in (S \ T) \ s, s \in F PROVE s \cup {x} \in F
  <2>1. IsFiniteSet(T \cup s) /\ Numeric(h, (T \cup s) \cup {x}) BY FS_Subset DEF Numeric
  <2>2. SumFunctionOnSet(h, (T \cup s) \cup {x}) = h[x] + SumFunctionOnSet(h, T \cup s)
    BY <2>1, SumGrows
  <2>3. SumFunctionOnSet(h, T \cup s) \in Int BY <2>1, SumSplits DEF Numeric
  <2>4. (T \cup s) \cup {x} = T \cup (s \cup {x}) /\ h[x] = 0 OBVIOUS
  <2>5. SumFunctionOnSet(h, T \cup s) = SumFunctionOnSet(h, T) BY <1>2
  <2>6. SumFunctionOnSet(h, T \cup (s \cup {x})) = SumFunctionOnSet(h, T)
    <3>. DEFINE sum == SumFunctionOnSet(h, T \cup s)
    <3>1. SumFunctionOnSet(h, T \cup (s \cup {x})) = 0 + sum BY <2>2, <2>4
    <3>2. sum \in Int /\ sum = SumFunctionOnSet(h, T) BY <2>3, <2>5
    <3>. HIDE DEF sum
    <3>3. 0 + sum = sum BY <3>2
    <3>. QED BY <3>1, <3>2, <3>3
  <2>7. s \cup {x} \in SUBSET (S \ T) OBVIOUS
  <2>. QED BY <2>6, <2>7
<1>. HIDE DEF F
<1>3. S \ T \in F BY <1>0, <1>1, <1>2, SetInduction
<1>4. T \cup (S \ T) = S OBVIOUS
<1>. QED BY <1>3, <1>4 DEF F

(* Zeros sum to 0. *)
LEMMA SumOfZeros ==
  ASSUME NEW h, NEW S, IsFiniteSet(S), \A x \in S : h[x] = 0
  PROVE  SumFunctionOnSet(h, S) = 0
<1>1. Numeric(h, S) BY DEF Numeric
<1>. QED BY <1>1, SumDrops, SumOfNone

(* The sum of differences is that of the sums. *)
LEMMA SumOfDifferences ==
  ASSUME NEW f, NEW g, NEW h, NEW S, IsFiniteSet(S), Numeric(f, S), Numeric(g, S),
         \A x \in S : h[x] = f[x] - g[x]
  PROVE  SumFunctionOnSet(h, S) = SumFunctionOnSet(f, S) - SumFunctionOnSet(g, S)
<1>. DEFINE F == {s \in SUBSET S :
                    SumFunctionOnSet(h, s) = SumFunctionOnSet(f, s) - SumFunctionOnSet(g, s)}
<1>1. {} \in F BY SumOfNone
<1>2. ASSUME NEW s \in SUBSET S, NEW x \in S \ s, s \in F PROVE s \cup {x} \in F
  <2>1. /\ IsFiniteSet(s) /\ Numeric(f, s \cup {x}) /\ Numeric(g, s \cup {x})
        /\ Numeric(h, s \cup {x}) /\ Numeric(f, s) /\ Numeric(g, s)
    BY FS_Subset DEF Numeric
  <2>2. SumFunctionOnSet(f, s) \in Int /\ SumFunctionOnSet(g, s) \in Int BY <2>1, SumSplits
  <2>3. f[x] \in Int /\ g[x] \in Int BY DEF Numeric
  <2>4. /\ SumFunctionOnSet(f, s \cup {x}) = f[x] + SumFunctionOnSet(f, s)
        /\ SumFunctionOnSet(g, s \cup {x}) = g[x] + SumFunctionOnSet(g, s)
        /\ SumFunctionOnSet(h, s \cup {x}) = h[x] + SumFunctionOnSet(h, s)
    BY <2>1, SumGrows
  <2>. QED BY <1>2, <2>2, <2>3, <2>4
<1>. HIDE DEF F
<1>3. S \in F BY <1>1, <1>2, SetInduction
<1>. QED BY <1>3 DEF F

(* What is left of one number. *)
LEMMA SumOfOne ==
  ASSUME NEW h, NEW x, h[x] \in Int
  PROVE  SumFunctionOnSet(h, {x}) = h[x]
<1>1. IsFiniteSet({x}) /\ {x} \ {x} = {} BY FS_Singleton
<1>2. Numeric(h, {x}) BY DEF Numeric
<1>. QED BY <1>1, <1>2, SumSplits, SumOfNone

(* A sum may be taken in any order. *)
LEMMA SumMoves ==
  ASSUME NEW S, NEW T, IsFiniteSet(S), IsFiniteSet(T), NEW f \in Bijection(S, T),
         NEW h, Numeric(h, T), NEW g, \A x \in S : g[x] = h[f[x]]
  PROVE  SumFunctionOnSet(g, S) = SumFunctionOnSet(h, T)
<1> DEFINE image(s) == {f[x] : x \in s}
           F == {s \in SUBSET S : SumFunctionOnSet(g, s) = SumFunctionOnSet(h, image(s))}
<1>1. /\ \A x \in S : f[x] \in T
      /\ \A x, y \in S : f[x] = f[y] => x = y
      /\ \A y \in T : \E x \in S : f[x] = y
  BY DEF Bijection, Injection, Surjection, IsInjective
<1>2. {} \in F
  <2>1. image({}) = {} OBVIOUS
  <2>. QED BY <2>1, SumOfNone
<1>3. ASSUME NEW s \in SUBSET S, NEW x \in S \ s, s \in F PROVE s \cup {x} \in F
  <2>1. image(s \cup {x}) = image(s) \cup {f[x]} OBVIOUS
  <2>2. f[x] \notin image(s) /\ image(s) \subseteq T /\ f[x] \in T BY <1>1
  <2>3. IsFiniteSet(s) /\ IsFiniteSet(image(s)) BY <2>2, FS_Subset
  <2>4. Numeric(g, s \cup {x}) BY <1>1 DEF Numeric
  <2>. HIDE DEF image
  <2>5. Numeric(h, image(s) \cup {f[x]}) BY <2>2 DEF Numeric
  <2>6. SumFunctionOnSet(g, s \cup {x}) = g[x] + SumFunctionOnSet(g, s)
    BY <2>3, <2>4, SumGrows
  <2>7. SumFunctionOnSet(h, image(s) \cup {f[x]}) = h[f[x]] + SumFunctionOnSet(h, image(s))
    BY <2>2, <2>3, <2>5, SumGrows
  <2>. QED BY <1>3, <2>1, <2>6, <2>7
<1>4. image(S) = T BY <1>1
<1>. HIDE DEF F
<1>5. S \in F BY <1>2, <1>3, SetInduction
<1>. HIDE DEF image
<1>. QED BY <1>4, <1>5 DEF F

(* A sum of multiples is a multiple of the sum. *)
LEMMA SumScales ==
  ASSUME NEW S, IsFiniteSet(S), NEW h, Numeric(h, S), NEW c \in Int,
         NEW g, \A x \in S : g[x] = c * h[x]
  PROVE  SumFunctionOnSet(g, S) = c * SumFunctionOnSet(h, S)
<1> DEFINE F == {s \in SUBSET S : SumFunctionOnSet(g, s) = c * SumFunctionOnSet(h, s)}
<1>1. {} \in F
  <2>1. c * 0 = 0 OBVIOUS
  <2>. QED BY <2>1, SumOfNone
<1>2. ASSUME NEW s \in SUBSET S, NEW x \in S \ s, s \in F PROVE s \cup {x} \in F
  <2>1. IsFiniteSet(s) BY FS_Subset
  <2>2. h[x] \in Int /\ Numeric(h, s \cup {x}) /\ Numeric(h, s) /\ Numeric(g, s \cup {x})
    BY DEF Numeric
  <2>3. SumFunctionOnSet(h, s) \in Int BY <2>1, <2>2, SumSplits
  <2>4. SumFunctionOnSet(g, s \cup {x}) = c * h[x] + SumFunctionOnSet(g, s)
    BY <2>1, <2>2, SumGrows
  <2>5. SumFunctionOnSet(h, s \cup {x}) = h[x] + SumFunctionOnSet(h, s)
    BY <2>1, <2>2, SumGrows
  <2> DEFINE a == h[x]
             b == SumFunctionOnSet(h, s)
  <2>6. SumFunctionOnSet(g, s \cup {x}) = c * a + c * b BY <1>2, <2>4
  <2>7. a \in Int /\ b \in Int BY <2>2, <2>3
  <2>. HIDE DEF a, b
  <2>8. c * a + c * b = c * (a + b) BY <2>7
  <2>9. SumFunctionOnSet(g, s \cup {x}) = c * SumFunctionOnSet(h, s \cup {x})
    BY <2>5, <2>6, <2>8 DEF a, b
  <2>. QED BY <2>9
<1>. HIDE DEF F
<1>3. S \in F BY <1>1, <1>2, SetInduction
<1>. QED BY <1>3 DEF F

(* Sums of numbers that are close are as close as all of them together.      *)
LEMMA SumsClose ==
  ASSUME NEW S, IsFiniteSet(S), NEW f, NEW g, NEW w,
         Numeric(f, S), Numeric(g, S), Numeric(w, S),
         \A x \in S : -w[x] <= f[x] - g[x] /\ f[x] - g[x] <= w[x]
  PROVE  /\ -SumFunctionOnSet(w, S) <= SumFunctionOnSet(f, S) - SumFunctionOnSet(g, S)
         /\ SumFunctionOnSet(f, S) - SumFunctionOnSet(g, S) <= SumFunctionOnSet(w, S)
<1> DEFINE F == {s \in SUBSET S :
         /\ -SumFunctionOnSet(w, s) <= SumFunctionOnSet(f, s) - SumFunctionOnSet(g, s)
         /\ SumFunctionOnSet(f, s) - SumFunctionOnSet(g, s) <= SumFunctionOnSet(w, s)}
<1>1. {} \in F BY SumOfNone
<1>2. ASSUME NEW s \in SUBSET S, NEW x \in S \ s, s \in F PROVE s \cup {x} \in F
  <2>1. IsFiniteSet(s) BY FS_Subset
  <2>2. /\ f[x] \in Int /\ g[x] \in Int /\ w[x] \in Int
        /\ Numeric(f, s \cup {x}) /\ Numeric(g, s \cup {x}) /\ Numeric(w, s \cup {x})
        /\ Numeric(f, s) /\ Numeric(g, s) /\ Numeric(w, s)
    BY DEF Numeric
  <2>3. /\ SumFunctionOnSet(f, s) \in Int /\ SumFunctionOnSet(g, s) \in Int
        /\ SumFunctionOnSet(w, s) \in Int
    BY <2>1, <2>2, SumSplits
  <2>4. /\ SumFunctionOnSet(f, s \cup {x}) = f[x] + SumFunctionOnSet(f, s)
        /\ SumFunctionOnSet(g, s \cup {x}) = g[x] + SumFunctionOnSet(g, s)
        /\ SumFunctionOnSet(w, s \cup {x}) = w[x] + SumFunctionOnSet(w, s)
    BY <2>1, <2>2, SumGrows
  <2>. QED BY <1>2, <2>2, <2>3, <2>4
<1>. HIDE DEF F
<1>3. S \in F BY <1>1, <1>2, SetInduction
<1>. QED BY <1>3 DEF F

-----------------------------------------------------------------------------
(* Folds from the left and sorting by rank                                   *)

(* A set of numbers up to a bound has a largest.                             *)
LEMMA LargestIn ==
  ASSUME NEW N \in Nat, NEW s \in SUBSET (1 .. N), s # {}
  PROVE  Max(s) \in s /\ \A y \in s : Max(s) >= y
<1> DEFINE T == {N - x : x \in s}
<1>1. \A x \in s : x \in 1 .. N /\ N - x \in Nat OBVIOUS
<1>5. T \in SUBSET Nat /\ T # {} BY <1>1
<1>. HIDE DEF T
<1>2. PICK m \in T : \A y \in T : m <= y BY <1>5, Least
<1>3. PICK x \in s : m = N - x BY DEF T
<1>4. \A y \in s : x >= y
  <2>1. \A y \in s : m <= N - y BY <1>2 DEF T
  <2>. QED BY <1>3, <2>1
<1>. QED BY <1>4 DEF Max

(* The functions FoldLeft is defined with: a result for each part of the     *)
(* places, from its last place and the rest.                                 *)
Folds(N, base, step, iter) ==
  iter = [s \in SUBSET (1 .. N) |->
            IF s = {} THEN base ELSE step[<<Max(s), iter[s \ {Max(s)}]>>]]

(* There is one. *)
LEMMA FoldsExist ==
  ASSUME NEW N \in Nat, NEW A, NEW base \in A, NEW step, \A x \in 1 .. N, a \in A : step[<<x, a>>] \in A
  PROVE  \E iter \in [SUBSET (1 .. N) -> A] : Folds(N, base, step, iter)
<1>. DEFINE S == 1 .. N
            upTo(n) == {s \in SUBSET S : Cardinality(s) <= n}
            good(f, n) ==
              /\ f \in [upTo(n) -> A]
              /\ f = [s \in upTo(n) |-> IF s = {} THEN base ELSE step[<<Max(s), f[s \ {Max(s)}]>>]]
            T == {n \in Nat : \E f : good(f, n)}
<1>0. IsFiniteSet(S)
  <2>1. 1 \in Int /\ N \in Int OBVIOUS
  <2>. QED BY <2>1, FS_Interval
<1>. HIDE DEF S
<1>1. ASSUME NEW s \in SUBSET S, s # {}
      PROVE  /\ Max(s) \in s /\ Cardinality(s \ {Max(s)}) = Cardinality(s) - 1
             /\ Cardinality(s) \in Nat
  <2>1. Max(s) \in s BY <1>1, LargestIn DEF S
  <2>. QED BY <1>0, <2>1, Smaller
<1>2. 0 \in T
  <2>. DEFINE f == [s \in upTo(0) |-> base]
  <2>1. \A s \in upTo(0) : s = {}
    <3>. SUFFICES ASSUME NEW s \in upTo(0) PROVE s = {} OBVIOUS
    <3>1. s \in SUBSET S /\ Cardinality(s) <= 0 OBVIOUS
    <3>2. Cardinality(s) \in Nat BY <1>0, <3>1, Smaller
    <3>3. Cardinality(s) = 0 BY <3>1, <3>2
    <3>. QED BY <1>0, <3>1, <3>3, Smaller
  <2>2. good(f, 0) BY <2>1
  <2>. QED BY <2>2
<1>3. ASSUME NEW n \in T PROVE n + 1 \in T
  <2>1. PICK f : good(f, n) OBVIOUS
  <2>. DEFINE g == [s \in upTo(n + 1) |-> IF s = {} THEN base ELSE step[<<Max(s), f[s \ {Max(s)}]>>]]
  <2>2. ASSUME NEW s \in upTo(n + 1), s # {} PROVE s \ {Max(s)} \in upTo(n)
    <3>1. s \in SUBSET S /\ Cardinality(s) <= n + 1 OBVIOUS
    <3>2. Cardinality(s \ {Max(s)}) = Cardinality(s) - 1 /\ Cardinality(s) \in Nat
      BY <1>1, <2>2, <3>1
    <3>. QED BY <3>1, <3>2
  <2>3. ASSUME NEW s \in upTo(n) PROVE g[s] = f[s]
    <3>0. s \in SUBSET S /\ Cardinality(s) <= n OBVIOUS
    <3>4. Cardinality(s) \in Nat BY <1>0, <3>0, Smaller
    <3>1. s \in upTo(n + 1) BY <3>0, <3>4
    <3>2. g[s] = IF s = {} THEN base ELSE step[<<Max(s), f[s \ {Max(s)}]>>] BY <3>1
    <3>. HIDE DEF g
    <3>. DEFINE h == [r \in upTo(n) |-> IF r = {} THEN base ELSE step[<<Max(r), f[r \ {Max(r)}]>>]]
    <3>5. f = h BY <2>1
    <3>6. h[s] = IF s = {} THEN base ELSE step[<<Max(s), f[s \ {Max(s)}]>>] OBVIOUS
    <3>. HIDE DEF h
    <3>. QED BY <3>2, <3>5, <3>6
  <2>4. ASSUME NEW s \in upTo(n + 1) PROVE g[s] \in A
    <3>1. CASE s = {} BY <3>1
    <3>2. CASE s # {}
      <4>1. f[s \ {Max(s)}] \in A BY <2>1, <2>2, <3>2
      <4>2. Max(s) \in 1 .. N BY <1>1, <3>2 DEF S
      <4>. QED BY <3>2, <4>1, <4>2
    <3>. QED BY <3>1, <3>2
  <2>5. good(g, n + 1)
    <3>1. ASSUME NEW s \in upTo(n + 1), s # {} PROVE f[s \ {Max(s)}] = g[s \ {Max(s)}]
      BY <2>2, <2>3, <3>1
    <3>2. g \in [upTo(n + 1) -> A] BY <2>4
    <3>. QED BY <3>1, <3>2
  <2>. HIDE DEF good, g
  <2>. QED BY <2>5
<1>4. T = Nat
  <2>. HIDE DEF T
  <2>. QED BY <1>2, <1>3, Inductive DEF T
<1>5. Cardinality(S) \in T BY <1>0, <1>4, FS_CardinalityType
<1>6. PICK f : good(f, Cardinality(S)) BY <1>5
<1>7. upTo(Cardinality(S)) = SUBSET S BY <1>0, FS_Subset
<1>8. /\ f \in [SUBSET S -> A]
      /\ f = [s \in SUBSET S |-> IF s = {} THEN base ELSE step[<<Max(s), f[s \ {Max(s)}]>>]]
  BY <1>6, <1>7
<1>. QED BY <1>8 DEF S, Folds

(* The results for the first so many places. *)
LEMMA FoldsGoOn ==
  ASSUME NEW k \in Nat \ {0}
  PROVE  1 .. k # {} /\ Max(1 .. k) = k /\ (1 .. k) \ {Max(1 .. k)} = 1 .. (k - 1)
<1>1. k \in 1 .. k /\ \A y \in 1 .. k : k >= y OBVIOUS
<1>2. \A x \in 1 .. k : (\A y \in 1 .. k : x >= y) => x = k BY <1>1
<1>3. Max(1 .. k) = k BY <1>1, <1>2 DEF Max
<1>. QED BY <1>1, <1>3

(* Sorting the elements of a finite set by how many are before each.         *)
LEMMA RankSorts ==
  ASSUME NEW S, IsFiniteSet(S), NEW R,
         \A x \in S : <<x, x>> \notin R,
         \A x, y \in S : x # y => <<x, y>> \in R \/ <<y, x>> \in R,
         \A x, y, z \in S : <<x, y>> \in R /\ <<y, z>> \in R => <<x, z>> \in R,
         NEW seq, seq = [n \in 1 .. Cardinality(S) |-> seq[n]],
         \A n \in 1 .. Cardinality(S) :
           (\E x \in S : Cardinality({y \in S : <<y, x>> \in R}) = n - 1)
             => seq[n] \in S /\ Cardinality({y \in S : <<y, seq[n]>> \in R}) = n - 1
  PROVE  /\ seq \in [1 .. Cardinality(S) -> S] /\ Cardinality(S) \in Nat
         /\ \A x \in S : \E n \in 1 .. Cardinality(S) : seq[n] = x
         /\ \A m, n \in 1 .. Cardinality(S) : m < n => <<seq[m], seq[n]>> \in R
<1> DEFINE N == 1 .. Cardinality(S)
           below(x) == {y \in S : <<y, x>> \in R}
           place == [x \in S |-> Cardinality(below(x)) + 1]
<1>0. Cardinality(S) \in Nat BY FS_CardinalityType
<1>1. ASSUME NEW x \in S
      PROVE  IsFiniteSet(below(x)) /\ Cardinality(below(x)) \in 0 .. Cardinality(S) - 1
  <2>1. below(x) \subseteq S /\ below(x) # S OBVIOUS
  <2>2. /\ IsFiniteSet(below(x)) /\ Cardinality(below(x)) <= Cardinality(S)
        /\ Cardinality(below(x)) # Cardinality(S)
    BY <2>1, FS_Subset
  <2>3. Cardinality(below(x)) \in Nat BY <2>2, FS_CardinalityType
  <2>. HIDE DEF below
  <2>. QED BY <1>0, <2>2, <2>3
<1>2. ASSUME NEW x \in S, NEW y \in S, <<x, y>> \in R PROVE place[x] < place[y]
  <2>1. below(x) \subseteq below(y) BY <1>2
  <2>2. x \in below(y) /\ x \notin below(x) BY <1>2
  <2>. HIDE DEF below
  <2>3. /\ Cardinality(below(x)) <= Cardinality(below(y))
        /\ Cardinality(below(x)) # Cardinality(below(y))
    BY <1>1, <2>1, <2>2, FS_Subset
  <2>4. Cardinality(below(x)) \in Int /\ Cardinality(below(y)) \in Int BY <1>0, <1>1
  <2>. QED BY <2>3, <2>4
<1>3. \A x \in S : place[x] \in N
  <2>. HIDE DEF below
  <2>. QED BY <1>0, <1>1
<1>4. \A x, y \in S : x # y => place[x] # place[y]
  <2>. SUFFICES ASSUME NEW x \in S, NEW y \in S, x # y PROVE place[x] # place[y] OBVIOUS
  <2>1. place[x] < place[y] \/ place[y] < place[x] BY <1>2
  <2>2. place[x] \in Int /\ place[y] \in Int BY <1>0, <1>3
  <2>. HIDE DEF place
  <2>. QED BY <2>1, <2>2
<1>5. place \in Injection(S, N)
  <2>1. place \in [S -> N] BY <1>3
  <2>. HIDE DEF place, N
  <2>. QED BY <1>4, <2>1 DEF Injection, IsInjective
<1>6. place \in Surjection(S, N)
  <2>1. IsFiniteSet(N) /\ Cardinality(N) = Cardinality(S) BY <1>0, FS_Interval
  <2>. HIDE DEF place, N
  <2>. QED BY <1>5, <2>1, FS_Injection
<1>7. \A n \in N : seq[n] \in S /\ place[seq[n]] = n
  <2>1. \A n \in N : \E x \in S : place[x] = n BY <1>6 DEF Surjection
  <2>. SUFFICES ASSUME NEW n \in N PROVE seq[n] \in S /\ place[seq[n]] = n OBVIOUS
  <2>2. PICK x \in S : place[x] = n BY <2>1
  <2>3. Cardinality(below(x)) = n - 1
    <3>. HIDE DEF below
    <3>. QED BY <1>0, <1>1, <2>2
  <2>5. seq[n] \in S /\ Cardinality(below(seq[n])) = n - 1 BY <2>3
  <2>. QED BY <1>0, <2>5
<1>8. seq \in [N -> S] BY <1>7
<1>9. \A x \in S : \E n \in N : seq[n] = x
  <2>. SUFFICES ASSUME NEW x \in S PROVE \E n \in N : seq[n] = x OBVIOUS
  <2>. DEFINE n == place[x]
  <2>1. n \in N BY <1>3
  <2>2. seq[n] \in S /\ place[seq[n]] = place[x] BY <1>7, <2>1
  <2>. HIDE DEF place, N
  <2>3. seq[n] = x BY <1>4, <2>2
  <2>. QED BY <2>1, <2>3
<1>10. ASSUME NEW m \in N, NEW n \in N, m < n PROVE <<seq[m], seq[n]>> \in R
  <2>1. seq[m] # seq[n] /\ ~(place[seq[n]] < place[seq[m]])
    <3>1. place[seq[m]] = m /\ place[seq[n]] = n BY <1>7
    <3>2. m \in Int /\ n \in Int BY <1>0
    <3>3. m # n /\ ~(n < m) BY <1>10, <3>2
    <3>. HIDE DEF place, N
    <3>. QED BY <3>1, <3>3
  <2>. HIDE DEF place
  <2>. QED BY <1>2, <1>7, <2>1
<1>. QED BY <1>0, <1>8, <1>9, <1>10

-----------------------------------------------------------------------------
(* The sequences of a sequence, one after the other (FlattenSeq).            *)

Flats(seqs, f) == f = [i \in 1 .. Len(seqs) |-> IF i = 1 THEN seqs[i] ELSE f[i - 1] \o seqs[i]]

LEMMA FlatsExist ==
  ASSUME NEW S, NEW seqs \in Seq(S)
  PROVE  Flats(seqs, CHOOSE f : Flats(seqs, f))
<1>. DEFINE good(f, n) == f = [i \in 1 .. n |-> IF i = 1 THEN seqs[i] ELSE f[i - 1] \o seqs[i]]
            T == {n \in Nat : \E f : good(f, n)}
<1>1. 0 \in T
  <2>. DEFINE f == [i \in 1 .. 0 |-> 0]
  <2>1. good(f, 0) OBVIOUS
  <2>. QED BY <2>1
<1>2. ASSUME NEW n \in T PROVE n + 1 \in T
  <2>1. PICK f : good(f, n) OBVIOUS
  <2>. DEFINE g == [i \in 1 .. (n + 1) |-> IF i = 1 THEN seqs[i] ELSE f[i - 1] \o seqs[i]]
              h == [i \in 1 .. n |-> IF i = 1 THEN seqs[i] ELSE f[i - 1] \o seqs[i]]
  <2>2. ASSUME NEW i \in 1 .. n PROVE g[i] = f[i]
    <3>1. i \in 1 .. (n + 1) OBVIOUS
    <3>2. g[i] = IF i = 1 THEN seqs[i] ELSE f[i - 1] \o seqs[i] BY <3>1
    <3>3. h[i] = IF i = 1 THEN seqs[i] ELSE f[i - 1] \o seqs[i] OBVIOUS
    <3>4. f = h BY <2>1
    <3>. HIDE DEF g, h
    <3>. QED BY <3>2, <3>3, <3>4
  <2>3. \A i \in 1 .. (n + 1) : i # 1 => f[i - 1] = g[i - 1]
    <3>1. \A i \in 1 .. (n + 1) : i # 1 => i - 1 \in 1 .. n OBVIOUS
    <3>. HIDE DEF g
    <3>. QED BY <2>2, <3>1
  <2>4. good(g, n + 1) BY <2>3
  <2>. HIDE DEF good, g
  <2>. QED BY <2>4
<1>3. T = Nat
  <2>. HIDE DEF T
  <2>. QED BY <1>1, <1>2, Inductive DEF T
<1>4. Len(seqs) \in T
  <2>1. Len(seqs) \in Nat OBVIOUS
  <2>. HIDE DEF T
  <2>. QED BY <1>3, <2>1
<1>5. PICK f : good(f, Len(seqs)) BY <1>4
<1>6. Flats(seqs, f) BY <1>5 DEF Flats
<1>. QED BY <1>6

(* It holds what they hold. *)
LEMMA Flattens ==
  ASSUME NEW S, NEW seqs \in Seq(Seq(S))
  PROVE  /\ FlattenSeq(seqs) \in Seq(S)
         /\ \A j \in DOMAIN seqs : \A m \in DOMAIN seqs[j] :
              \E i \in DOMAIN FlattenSeq(seqs) : FlattenSeq(seqs)[i] = seqs[j][m]
<1>. DEFINE f == CHOOSE h : Flats(seqs, h)
            good(n) == /\ f[n] \in Seq(S)
                       /\ \A j \in 1 .. n : \A m \in DOMAIN seqs[j] :
                            \E i \in DOMAIN f[n] : f[n][i] = seqs[j][m]
            T == {n \in Nat : n \in 1 .. Len(seqs) => good(n)}
<1>1. Flats(seqs, f) BY FlatsExist
<1>2. FlattenSeq(seqs) = IF Len(seqs) = 0 THEN seqs ELSE f[Len(seqs)]
  BY DEF FlattenSeq, Flats
<1>3. /\ Len(seqs) \in Nat /\ DOMAIN seqs = 1 .. Len(seqs)
      /\ \A j \in 1 .. Len(seqs) : seqs[j] \in Seq(S)
  OBVIOUS
<1>. HIDE DEF f
<1>4. \A i \in 1 .. Len(seqs) : f[i] = IF i = 1 THEN seqs[i] ELSE f[i - 1] \o seqs[i]
  BY <1>1 DEF Flats
<1>5. 0 \in T OBVIOUS
<1>6. ASSUME NEW n \in T PROVE n + 1 \in T
  <2>. SUFFICES ASSUME n + 1 \in 1 .. Len(seqs) PROVE good(n + 1) OBVIOUS
  <2>1. CASE n = 0
    <3>1. f[1] = seqs[1] /\ seqs[1] \in Seq(S) BY <1>3, <1>4, <2>1
    <3>2. \A j \in 1 .. 1 : j = 1 OBVIOUS
    <3>. QED BY <2>1, <3>1, <3>2
  <2>2. CASE n # 0
    <3>. DEFINE a == f[n]
                b == seqs[n + 1]
    <3>1. n \in 1 .. Len(seqs) /\ n + 1 # 1 /\ (n + 1) - 1 = n BY <2>2
    <3>2. good(n) BY <3>1
    <3>3. f[n + 1] = a \o b BY <1>4, <3>1
    <3>4. a \in Seq(S) /\ b \in Seq(S) BY <1>3, <3>2
    <3>5. ASSUME NEW j \in 1 .. (n + 1), NEW m \in DOMAIN seqs[j]
          PROVE  \E i \in DOMAIN f[n + 1] : f[n + 1][i] = seqs[j][m]
      <4>1. CASE j = n + 1
        <5>1. b = seqs[j] /\ m \in 1 .. Len(b) BY <3>4, <4>1
        <5>. HIDE DEF a, b
        <5>2. /\ Len(a) + m \in 1 .. (Len(a) + Len(b)) /\ Len(a \o b) = Len(a) + Len(b)
              /\ DOMAIN (a \o b) = 1 .. (Len(a) + Len(b)) /\ (a \o b)[Len(a) + m] = b[m]
          BY <3>4, <5>1
        <5>. QED BY <3>3, <5>1, <5>2
      <4>2. CASE j # n + 1
        <5>1. j \in 1 .. n BY <4>2
        <5>2. PICK i \in DOMAIN a : a[i] = seqs[j][m] BY <3>2, <5>1
        <5>. HIDE DEF a, b
        <5>3. i \in DOMAIN (a \o b) /\ (a \o b)[i] = a[i] BY <3>4
        <5>. QED BY <3>3, <5>2, <5>3
      <4>. QED BY <4>1, <4>2
    <3>6. f[n + 1] \in Seq(S)
      <4>. HIDE DEF a, b
      <4>. QED BY <3>3, <3>4
    <3>. QED BY <3>5, <3>6
  <2>. QED BY <2>1, <2>2
<1>7. T = Nat
  <2>. HIDE DEF T
  <2>. QED BY <1>5, <1>6, Inductive DEF T
<1>8. CASE Len(seqs) = 0
  <2>1. seqs = <<>> BY <1>8
  <2>. QED BY <1>2, <1>8, <2>1
<1>9. CASE Len(seqs) # 0
  <2>1. Len(seqs) \in 1 .. Len(seqs) BY <1>3, <1>9
  <2>2. good(Len(seqs)) BY <1>3, <1>7, <2>1
  <2>. QED BY <1>2, <1>3, <1>9, <2>2
<1>. QED BY <1>8, <1>9
=============================================================================
