---------------------------- MODULE ProofLibrary ----------------------------
(***************************************************************************)
(* What the proofs of several components need: the least element of a set  *)
(* of naturals, induction stated of a set, sums over finite sets, and what *)
(* the steps of a timed channel do to its messages.                        *)
(***************************************************************************)
EXTENDS TimedChannel, McsTbs, Amounts, FiniteSetTheorems, WellFoundedInduction, TLAPS
-----------------------------------------------------------------------------
(* Naturals                                                                *)

\* A set of naturals that is not empty has a least element.
LEMMA LeastNatural ==
  ASSUME NEW S \in SUBSET Nat, S # {}
  PROVE  \E x \in S : \A y \in S : x <= y
<1> DEFINE R == OpToRel(<, Nat)
<1>1. IsWellFoundedOn(R, Nat)
  BY NatLessThanWellFounded
<1>2. \A x, y \in Nat : x < y => <<x, y>> \in R
  BY DEF OpToRel
<1> HIDE DEF R
<1>3. PICK x \in S : \A y \in S : ~(<<y, x>> \in R)
  BY <1>1, WFMin
<1>4. ASSUME NEW y \in S PROVE x <= y
  <2>1. x \in Nat /\ y \in Nat /\ ~(y < x)
    BY <1>2, <1>3
  <2>2. QED
    BY <2>1
<1>5. QED
  BY <1>4

\* A set of naturals that is not empty and has a bound has a greatest element.
LEMMA GreatestNatural ==
  ASSUME NEW n \in Nat, NEW S \in SUBSET (0 .. n), S # {}
  PROVE  \E x \in S : \A y \in S : y <= x
<1> DEFINE Rest == {n - x : x \in S}
<1>1. Rest \in SUBSET Nat /\ Rest # {}
  <2>1. \A x \in S : n - x \in Nat
    OBVIOUS
  <2>2. QED
    BY <2>1
<1>2. \A x \in S : n - x \in Rest
  OBVIOUS
<1>3. \A r \in Rest : \E x \in S : r = n - x
  OBVIOUS
<1> HIDE DEF Rest
<1>4. PICK r \in Rest : \A q \in Rest : r <= q
  BY <1>1, LeastNatural
<1>5. PICK x \in S : r = n - x
  BY <1>3
<1>6. \A y \in S : y \in Int /\ n - x <= n - y
  BY <1>2, <1>4, <1>5
<1>7. QED
  BY <1>6

\* A set that holds 0 and the successor of each of its numbers below n holds
\* all numbers up to n.
LEMMA InductionUpTo ==
  ASSUME NEW n \in Nat, NEW S, 0 \in S,
         \A k \in Nat : k < n /\ k \in S => k + 1 \in S
  PROVE  \A k \in 0 .. n : k \in S
<1> DEFINE Missing == {k \in 0 .. n : k \notin S}
<1>1. SUFFICES ASSUME Missing # {} PROVE FALSE
  OBVIOUS
<1>2. Missing \in SUBSET Nat /\ \A k \in Missing : k \in 0 .. n /\ k \notin S
  OBVIOUS
<1>3. PICK k \in Missing : \A j \in Missing : k <= j
  <2> HIDE DEF Missing
  <2>1. QED
    BY <1>1, <1>2, LeastNatural
<1>3b. k \in Nat /\ k # 0 /\ k <= n /\ k \notin S
  BY <1>2, <1>3
<1>4. k - 1 \in Nat /\ k - 1 < n /\ k - 1 \notin Missing
  <2> HIDE DEF Missing
  <2>1. QED
    BY <1>2, <1>3, <1>3b
<1>5. k - 1 \in S
  BY <1>3b, <1>4
<1>6. (k - 1) + 1 \in S
  BY <1>4, <1>5
<1>7. QED
  BY <1>3b, <1>6
-----------------------------------------------------------------------------
(* Sums                                                                    *)

\* iter sums f over every subset of T, one element at a time.
IsSum(iter, f, T) ==
  iter = [s \in SUBSET T |-> IF s = {} THEN 0
                             ELSE LET x == CHOOSE x \in s : TRUE
                                  IN  f[x] + iter[s \ {x}]]

\* The sum of f over S, which the community modules fold.
SumOver(f, S) == (CHOOSE iter : IsSum(iter, f, S))[S]

\* What holds of the empty set, and of a finite set if it holds of the sets
\* with one element less, holds of every finite set.  (S: the sets it holds of.)
LEMMA FiniteSetsUpTo ==
  ASSUME NEW U, IsFiniteSet(U), NEW S,
         \A T \in SUBSET U : (\A x \in T : T \ {x} \in S) => T \in S
  PROVE  U \in S
<1> DEFINE K == {n \in Nat : \A T \in SUBSET U : Cardinality(T) = n => T \in S}
<1>1. \A T \in SUBSET U : IsFiniteSet(T) /\ Cardinality(T) \in Nat
  BY FS_Subset, FS_CardinalityType
<1>2. 0 \in K
  BY <1>1, FS_EmptySet
<1>3. ASSUME NEW n \in Nat, n \in K PROVE n + 1 \in K
  <2> SUFFICES ASSUME NEW T \in SUBSET U, Cardinality(T) = n + 1
               PROVE  T \in S
    OBVIOUS
  <2>1. ASSUME NEW x \in T PROVE T \ {x} \in S
    <3>1. Cardinality(T \ {x}) = n
      BY <1>1, FS_RemoveElement
    <3>2. T \ {x} \in SUBSET U
      OBVIOUS
    <3>3. QED
      BY <1>3, <3>1, <3>2
  <2>2. QED
    BY <2>1
<1>4. Cardinality(U) \in K
  <2> HIDE DEF K
  <2>1. \A k \in 0 .. Cardinality(U) : k \in K
    BY <1>1, <1>2, <1>3, InductionUpTo
  <2>2. QED
    BY <1>1, <2>1
<1>5. QED
  BY <1>4

\* A sum of a finite set has a value on all its subsets.
LEMMA SumExists ==
  ASSUME NEW U, IsFiniteSet(U), NEW f
  PROVE  \E iter : IsSum(iter, f, U)
<1> DEFINE Next(g, s) == IF s = {} THEN 0
                         ELSE LET x == CHOOSE x \in s : TRUE IN f[x] + g[s \ {x}]
           UpTo(g, n) == \A s \in SUBSET U : Cardinality(s) <= n => g[s] = Next(g, s)
           K == {n \in Nat : \E g : UpTo(g, n)}
<1>1. \A T \in SUBSET U : IsFiniteSet(T) /\ Cardinality(T) \in Nat
  BY FS_Subset, FS_CardinalityType
<1>2. ASSUME NEW s \in SUBSET U, s # {}
      PROVE  LET x == CHOOSE x \in s : TRUE
             IN  x \in s /\ s \ {x} \in SUBSET U
                 /\ Cardinality(s \ {x}) = Cardinality(s) - 1
  <2> DEFINE x == CHOOSE x \in s : TRUE
  <2>1. x \in s
    BY <1>2
  <2> HIDE DEF x
  <2>2. s \ {x} \in SUBSET U
    OBVIOUS
  <2>3. Cardinality(s \ {x}) = Cardinality(s) - 1
    BY <1>1, <2>1, FS_RemoveElement
  <2>4. QED
    BY <2>1, <2>2, <2>3 DEF x
<1>3. ASSUME NEW g, NEW h, NEW n \in Nat, NEW s \in SUBSET U, Cardinality(s) <= n + 1,
             \A t \in SUBSET U : Cardinality(t) <= n => h[t] = g[t]
      PROVE  Next(h, s) = Next(g, s)
  <2>1. CASE s = {}
    BY <2>1
  <2>2. CASE s # {}
    <3> DEFINE x == CHOOSE x \in s : TRUE
    <3>1. s \ {x} \in SUBSET U /\ Cardinality(s \ {x}) = Cardinality(s) - 1
      BY <1>2, <2>2
    <3> HIDE DEF x
    <3>2. Cardinality(s \ {x}) <= n
      BY <1>1, <1>3, <3>1
    <3>3. h[s \ {x}] = g[s \ {x}]
      BY <1>3, <3>1, <3>2
    <3>4. QED
      BY <2>2, <3>3 DEF x
  <2>3. QED
    BY <2>1, <2>2
<1>4. 0 \in K
  <2> DEFINE g == [s \in SUBSET U |-> 0]
  <2>1. \A s \in SUBSET U : Cardinality(s) <= 0 => s = {} /\ g[s] = 0
    BY <1>1, FS_EmptySet
  <2>2. UpTo(g, 0)
    BY <2>1
  <2>3. QED
    BY <2>2
<1>5. ASSUME NEW n \in Nat, n \in K PROVE n + 1 \in K
  <2>1. PICK g : UpTo(g, n)
    BY <1>5
  <2> DEFINE h == [s \in SUBSET U |-> IF Cardinality(s) <= n THEN g[s] ELSE Next(g, s)]
  <2>2. \A s \in SUBSET U : h[s] = IF Cardinality(s) <= n THEN g[s] ELSE Next(g, s)
    OBVIOUS
  <2> HIDE DEF h
  <2>3. ASSUME NEW s \in SUBSET U, Cardinality(s) <= n + 1
        PROVE  h[s] = Next(h, s)
    <3>1. h[s] = Next(g, s)
      <4> HIDE DEF Next
      <4>1. QED
        BY <2>1, <2>2
    <3>2. \A t \in SUBSET U : Cardinality(t) <= n => h[t] = g[t]
      <4> HIDE DEF Next
      <4>1. QED
        BY <2>2
    <3> HIDE DEF Next
    <3>3. Next(h, s) = Next(g, s)
      BY <1>3, <2>3, <3>2
    <3>4. QED
      BY <3>1, <3>3
  <2>4. UpTo(h, n + 1)
    <3> HIDE DEF Next
    <3>1. QED
      BY <2>3
  <2>5. QED
    <3> HIDE DEF UpTo
    <3>1. QED
      BY <2>4
<1>6. Cardinality(U) \in K
  <2> HIDE DEF K
  <2>1. \A k \in 0 .. Cardinality(U) : k \in K
    BY <1>1, <1>4, <1>5, InductionUpTo
  <2>2. QED
    BY <1>1, <2>1
<1>7. PICK g : UpTo(g, Cardinality(U))
  <2> HIDE DEF UpTo
  <2>1. QED
    BY <1>6
<1> DEFINE iter == [s \in SUBSET U |-> g[s]]
<1>8. \A s \in SUBSET U : Cardinality(s) <= Cardinality(U) /\ iter[s] = g[s]
  BY FS_Subset
<1>9. ASSUME NEW s \in SUBSET U PROVE iter[s] = Next(iter, s)
  <2>1. g[s] = Next(g, s)
    <3> HIDE DEF Next
    <3>1. QED
      BY <1>7, <1>8
  <2>2. Next(iter, s) = Next(g, s)
    <3>1. \A t \in SUBSET U : Cardinality(t) <= Cardinality(U) => iter[t] = g[t]
      BY <1>8
    <3> HIDE DEF Next, iter
    <3>0. Cardinality(s) \in Nat /\ Cardinality(U) \in Nat
      BY <1>1
    <3>2. Cardinality(s) <= Cardinality(U) + 1 /\ Cardinality(U) \in Nat
      BY <1>8, <3>0
    <3>3. QED
      BY <1>3, <3>1, <3>2
  <2> HIDE DEF Next
  <2>3. QED
    BY <1>8, <2>1, <2>2
<1>10. iter = [s \in SUBSET U |-> Next(iter, s)]
  <2>1. \A s \in SUBSET U : g[s] = Next(iter, s)
    <3> HIDE DEF Next, iter
    <3>1. QED
      BY <1>8, <1>9
  <2> HIDE DEF Next
  <2>2. QED
    BY <2>1
<1>11. QED
  BY <1>10 DEF IsSum

\* All sums agree where they have a value.
LEMMA SumUnique ==
  ASSUME NEW f, NEW T, NEW V, NEW a, NEW b, IsSum(a, f, T), IsSum(b, f, V),
         NEW s, IsFiniteSet(s), s \subseteq T, s \subseteq V
  PROVE  a[s] = b[s]
<1> DEFINE S == {t \in SUBSET s : a[t] = b[t]}
<1>1. ASSUME NEW t \in SUBSET s, \A x \in t : t \ {x} \in S
      PROVE  t \in S
  <2>1. t \in SUBSET T /\ t \in SUBSET V
    OBVIOUS
  <2>2. CASE t = {}
    BY <2>1, <2>2 DEF IsSum
  <2>3. CASE t # {}
    <3> DEFINE x == CHOOSE x \in t : TRUE
    <3>1. x \in t
      BY <2>3
    <3>2. a[t] = f[x] + a[t \ {x}] /\ b[t] = f[x] + b[t \ {x}]
      BY <2>1, <2>3 DEF IsSum
    <3> HIDE DEF x
    <3>3. a[t \ {x}] = b[t \ {x}]
      BY <1>1, <3>1
    <3>4. QED
      BY <3>2, <3>3
  <2>4. QED
    BY <2>2, <2>3
<1>2. s \in S
  <2> HIDE DEF S
  <2>1. QED
    BY <1>1, FiniteSetsUpTo
<1>3. QED
  BY <1>2

\* The sum over a set is that of one of its elements and the rest.
LEMMA SumSteps ==
  ASSUME NEW S, IsFiniteSet(S), NEW f
  PROVE  /\ S = {} => SumOver(f, S) = 0
         /\ S # {} => \E x \in S : SumOver(f, S) = f[x] + SumOver(f, S \ {x})
<1> DEFINE iter == CHOOSE iter : IsSum(iter, f, S)
<1>1. IsSum(iter, f, S)
  BY SumExists
<1>2. SumOver(f, S) = iter[S]
  BY DEF SumOver
<1> HIDE DEF iter
<1>3. CASE S = {}
  BY <1>1, <1>2, <1>3 DEF IsSum
<1>4. CASE S # {}
  <2> DEFINE x == CHOOSE x \in S : TRUE
  <2>1. x \in S
    BY <1>4
  <2>2. iter[S] = f[x] + iter[S \ {x}]
    BY <1>1, <1>4 DEF IsSum
  <2> HIDE DEF x
  <2> DEFINE R == S \ {x}
             less == CHOOSE less : IsSum(less, f, R)
  <2>3. IsFiniteSet(R)
    BY FS_RemoveElement
  <2>4. IsSum(less, f, R) /\ SumOver(f, R) = less[R]
    BY <2>3, SumExists DEF SumOver
  <2> HIDE DEF less
  <2>5. iter[R] = less[R]
    BY <1>1, <2>3, <2>4, SumUnique
  <2>6. QED
    BY <1>2, <2>1, <2>2, <2>4, <2>5
<1>5. QED
  BY <1>3, <1>4

\* A sum of numbers is a number, and not negative if they are not.
LEMMA SumTyped ==
  ASSUME NEW S, IsFiniteSet(S), NEW f, \A x \in S : f[x] \in Int
  PROVE  /\ SumOver(f, S) \in Int
         /\ (\A x \in S : f[x] \in Nat) => SumOver(f, S) \in Nat
<1> DEFINE Typed == {T \in SUBSET S :
                       /\ SumOver(f, T) \in Int
                       /\ (\A x \in T : f[x] \in Nat) => SumOver(f, T) \in Nat}
<1>1. ASSUME NEW T \in SUBSET S, \A x \in T : T \ {x} \in Typed
      PROVE  T \in Typed
  <2>1. IsFiniteSet(T)
    BY FS_Subset
  <2>2. CASE T = {}
    <3>1. SumOver(f, T) = 0
      BY <2>1, <2>2, SumSteps
    <3>2. QED
      BY <3>1
  <2>3. CASE T # {}
    <3>1. PICK x \in T : SumOver(f, T) = f[x] + SumOver(f, T \ {x})
      BY <2>1, <2>3, SumSteps
    <3>2. /\ SumOver(f, T \ {x}) \in Int
          /\ (\A y \in T : f[y] \in Nat) => SumOver(f, T \ {x}) \in Nat
      BY <1>1
    <3>3. QED
      BY <3>1, <3>2
  <2>4. QED
    BY <2>2, <2>3
<1>2. S \in Typed
  <2> HIDE DEF Typed
  <2>1. QED
    BY <1>1, FiniteSetsUpTo
<1>3. QED
  BY <1>2

\* Any element can be taken out of a sum.
LEMMA SumSplit ==
  ASSUME NEW S, IsFiniteSet(S), NEW f, \A x \in S : f[x] \in Int, NEW y \in S
  PROVE  SumOver(f, S) = f[y] + SumOver(f, S \ {y})
<1> DEFINE Split == {T \in SUBSET S :
                       \A x \in T : SumOver(f, T) = f[x] + SumOver(f, T \ {x})}
<1>1. \A T \in SUBSET S : IsFiniteSet(T) /\ SumOver(f, T) \in Int
  <2>1. \A T \in SUBSET S : IsFiniteSet(T)
    BY FS_Subset
  <2>2. QED
    BY <2>1, SumTyped
<1>2. ASSUME NEW T \in SUBSET S, \A x \in T : T \ {x} \in Split
      PROVE  T \in Split
  <2> SUFFICES ASSUME NEW x \in T
               PROVE  SumOver(f, T) = f[x] + SumOver(f, T \ {x})
    OBVIOUS
  <2>1. PICK z \in T : SumOver(f, T) = f[z] + SumOver(f, T \ {z})
    BY <1>1, SumSteps
  <2>2. CASE z = x
    BY <2>1, <2>2
  <2>3. CASE z # x
    <3> DEFINE R == (T \ {z}) \ {x}
    <3>1. x \in T \ {z} /\ z \in T \ {x} /\ R = (T \ {x}) \ {z} /\ R \in SUBSET S
      BY <2>3
    <3>2. SumOver(f, T \ {z}) = f[x] + SumOver(f, R)
      BY <1>2, <3>1
    <3>3. SumOver(f, T \ {x}) = f[z] + SumOver(f, R)
      BY <1>2, <3>1
    <3>4. f[x] \in Int /\ f[z] \in Int /\ SumOver(f, R) \in Int
      BY <1>1, <3>1
    <3> HIDE DEF R
    <3>5. QED
      BY <2>1, <3>2, <3>3, <3>4
  <2>4. QED
    BY <2>2, <2>3
<1>3. S \in Split
  <2> HIDE DEF Split
  <2>1. QED
    BY <1>2, FiniteSetsUpTo
<1>4. QED
  BY <1>3

\* The sum depends on the values of the elements only.
LEMMA SumAgree ==
  ASSUME NEW S, IsFiniteSet(S), NEW f, NEW g,
         \A x \in S : f[x] \in Int /\ g[x] = f[x]
  PROVE  SumOver(g, S) = SumOver(f, S)
<1> DEFINE Same == {T \in SUBSET S : SumOver(g, T) = SumOver(f, T)}
<1>1. ASSUME NEW T \in SUBSET S, \A x \in T : T \ {x} \in Same
      PROVE  T \in Same
  <2>1. IsFiniteSet(T)
    BY FS_Subset
  <2>2. CASE T = {}
    BY <2>1, <2>2, SumSteps
  <2>3. CASE T # {}
    <3>1. PICK x \in T : SumOver(f, T) = f[x] + SumOver(f, T \ {x})
      BY <2>1, <2>3, SumSteps
    <3>2. \A y \in T : g[y] \in Int
      OBVIOUS
    <3>3. SumOver(g, T) = g[x] + SumOver(g, T \ {x})
      BY <2>1, <3>2, SumSplit
    <3>4. QED
      BY <1>1, <3>1, <3>3
  <2>4. QED
    BY <2>2, <2>3
<1>2. S \in Same
  <2> HIDE DEF Same
  <2>1. QED
    BY <1>1, FiniteSetsUpTo
<1>3. QED
  BY <1>2

\* When one value changes, the sum changes by as much.
LEMMA SumChange ==
  ASSUME NEW S, IsFiniteSet(S), NEW f, NEW g, NEW y \in S, g[y] \in Int,
         \A x \in S : f[x] \in Int, \A x \in S : x # y => g[x] = f[x]
  PROVE  SumOver(g, S) = SumOver(f, S) - f[y] + g[y]
<1> DEFINE R == S \ {y}
<1>1. IsFiniteSet(R)
  BY FS_RemoveElement
<1>2. SumOver(f, S) = f[y] + SumOver(f, R)
  BY SumSplit
<1>3. \A x \in S : g[x] \in Int
  OBVIOUS
<1>4. SumOver(g, S) = g[y] + SumOver(g, R)
  BY <1>3, SumSplit
<1>5. SumOver(g, R) = SumOver(f, R)
  BY <1>1, SumAgree
<1>6. SumOver(f, R) \in Int
  BY <1>1, SumTyped
<1> HIDE DEF R
<1>7. QED
  BY <1>2, <1>4, <1>5, <1>6

\* A sum of naturals is positive if one of them is, and zero if none is.
LEMMA SumPositive ==
  ASSUME NEW S, IsFiniteSet(S), NEW f, \A x \in S : f[x] \in Nat
  PROVE  SumOver(f, S) > 0 <=> \E x \in S : f[x] > 0
<1>1. \A T \in SUBSET S : IsFiniteSet(T) /\ SumOver(f, T) \in Nat
  <2>1. \A T \in SUBSET S : IsFiniteSet(T)
    BY FS_Subset
  <2>2. QED
    BY <2>1, SumTyped
<1>2. ASSUME NEW x \in S, f[x] > 0 PROVE SumOver(f, S) > 0
  <2>1. SumOver(f, S) = f[x] + SumOver(f, S \ {x})
    BY SumSplit
  <2>2. SumOver(f, S \ {x}) \in Nat
    BY <1>1
  <2>3. QED
    BY <1>2, <2>1, <2>2
<1>3. ASSUME \A x \in S : ~(f[x] > 0) PROVE ~(SumOver(f, S) > 0)
  <2> DEFINE Zero == {T \in SUBSET S : SumOver(f, T) = 0}
  <2>1. ASSUME NEW T \in SUBSET S, \A x \in T : T \ {x} \in Zero
        PROVE  T \in Zero
    <3>1. CASE T = {}
      BY <1>1, <3>1, SumSteps
    <3>2. CASE T # {}
      <4>1. PICK x \in T : SumOver(f, T) = f[x] + SumOver(f, T \ {x})
        BY <1>1, <3>2, SumSteps
      <4>2. SumOver(f, T \ {x}) = 0 /\ f[x] = 0
        BY <1>3, <2>1
      <4>3. QED
        BY <4>1, <4>2
    <3>3. QED
      BY <3>1, <3>2
  <2>2. S \in Zero
    <3> HIDE DEF Zero
    <3>1. QED
      BY <2>1, FiniteSetsUpTo
  <2>3. QED
    BY <2>2
<1>4. QED
  BY <1>2, <1>3

\* Sums are taken element by element.
LEMMA SumMinus ==
  ASSUME NEW S, IsFiniteSet(S), NEW f, NEW g, NEW h,
         \A x \in S : f[x] \in Int /\ g[x] \in Int /\ h[x] = f[x] - g[x]
  PROVE  SumOver(h, S) = SumOver(f, S) - SumOver(g, S)
<1> DEFINE Less == {T \in SUBSET S : SumOver(h, T) = SumOver(f, T) - SumOver(g, T)}
<1>1. ASSUME NEW T \in SUBSET S, \A x \in T : T \ {x} \in Less
      PROVE  T \in Less
  <2>1. IsFiniteSet(T)
    BY FS_Subset
  <2>2. CASE T = {}
    <3>1. SumOver(h, T) = 0 /\ SumOver(f, T) = 0 /\ SumOver(g, T) = 0
      BY <2>1, <2>2, SumSteps
    <3>2. QED
      BY <3>1
  <2>3. CASE T # {}
    <3>1. PICK x \in T : SumOver(h, T) = h[x] + SumOver(h, T \ {x})
      BY <2>1, <2>3, SumSteps
    <3>2. \A y \in T : f[y] \in Int /\ g[y] \in Int
      OBVIOUS
    <3>3. SumOver(f, T) = f[x] + SumOver(f, T \ {x})
      BY <2>1, <3>2, SumSplit
    <3>4. SumOver(g, T) = g[x] + SumOver(g, T \ {x})
      BY <2>1, <3>2, SumSplit
    <3>5. IsFiniteSet(T \ {x})
      BY <2>1, FS_RemoveElement
    <3>6. SumOver(f, T \ {x}) \in Int /\ SumOver(g, T \ {x}) \in Int
      BY <3>2, <3>5, SumTyped
    <3>7. QED
      BY <1>1, <3>1, <3>3, <3>4, <3>6
  <2>4. QED
    BY <2>2, <2>3
<1>2. S \in Less
  <2> HIDE DEF Less
  <2>1. QED
    BY <1>1, FiniteSetsUpTo
<1>3. QED
  BY <1>2

\* What holds for each amount holds for their sum.
LEMMA SumMonotone ==
  ASSUME NEW S, IsFiniteSet(S), NEW f, NEW g,
         \A x \in S : f[x] \in Int /\ g[x] \in Int /\ f[x] <= g[x]
  PROVE  SumOver(f, S) <= SumOver(g, S)
<1> DEFINE h == [x \in S |-> g[x] - f[x]]
<1>1. SumOver(h, S) = SumOver(g, S) - SumOver(f, S)
  BY SumMinus
<1>2. \A x \in S : h[x] \in Nat
  OBVIOUS
<1> HIDE DEF h
<1>3. SumOver(h, S) \in Nat
  BY <1>2, SumTyped
<1>4. SumOver(f, S) \in Int /\ SumOver(g, S) \in Int
  BY SumTyped
<1>5. QED
  BY <1>1, <1>3, <1>4
-----------------------------------------------------------------------------
(* Amounts                                                                 *)

\* The sums of amounts.
LEMMA SumOfAmounts ==
  /\ \A f, S : SumFunctionOnSet(f, S) = SumOver(f, S)
  /\ \A f : Sum(f) = SumOver(f, DOMAIN f)
<1>1. \A f, S : SumFunctionOnSet(f, S) = SumOver(f, S)
  BY DEF SumFunctionOnSet, FoldFunctionOnSet, MapThenFoldSet, SumOver, IsSum
<1>2. QED
  BY <1>1 DEF Sum, SumFunction

\* The sum of the first k + 1 amounts.
LEMMA NextPrefix ==
  ASSUME NEW n \in Nat, NEW f \in [0 .. n - 1 -> Int], NEW k \in 0 .. n - 1
  PROVE  /\ SumOver(f, 0 .. k - 1) \in Int
         /\ SumOver(f, 0 .. k) = f[k] + SumOver(f, 0 .. k - 1)
<1>1. /\ 0 .. k - 1 = (0 .. k) \ {k} /\ k \in 0 .. k
      /\ \A x \in 0 .. k : f[x] \in Int
  OBVIOUS
<1>2. IsFiniteSet(0 .. k) /\ IsFiniteSet(0 .. k - 1)
  BY FS_Interval
<1>3. SumOver(f, 0 .. k - 1) \in Int
  BY <1>1, <1>2, SumTyped
<1>4. SumOver(f, 0 .. k) = f[k] + SumOver(f, (0 .. k) \ {k})
  BY <1>1, <1>2, SumSplit
<1>5. QED
  BY <1>1, <1>3, <1>4

\* The bytes that are left for an amount, when those before it are served.
LEMMA LeftAfter ==
  ASSUME NEW n \in Nat, NEW f \in [0 .. n - 1 -> Int], NEW k \in 0 .. n - 1,
         NEW bytes \in Int
  PROVE  /\ LeftFor(f, k, bytes) = Higher(0, bytes - SumOver(f, 0 .. k - 1))
         /\ LeftFor(f, k, bytes) \in Nat
<1>1. {j \in DOMAIN f : j < k} = 0 .. k - 1
  OBVIOUS
<1>2. SumOver(f, 0 .. k - 1) \in Int
  BY NextPrefix
<1>3. LeftFor(f, k, bytes) = Higher(0, bytes - SumOver(f, 0 .. k - 1))
  BY <1>1, SumOfAmounts DEF LeftFor
<1>4. QED
  BY <1>2, <1>3 DEF Higher

\* No amount gives more than it has, or than was left for it.
LEMMA TakenTyped ==
  ASSUME NEW n \in Nat, NEW f \in [0 .. n - 1 -> Nat], NEW bytes \in Int
  PROVE  /\ Taken(f, bytes) \in [0 .. n - 1 -> Nat]
         /\ \A k \in 0 .. n - 1 : /\ Taken(f, bytes)[k] <= f[k]
                                  /\ Taken(f, bytes)[k] =
                                       Lower(f[k], LeftFor(f, k, bytes))
<1>1. Taken(f, bytes) = [k \in 0 .. n - 1 |-> Lower(f[k], LeftFor(f, k, bytes))]
  BY DEF Taken
<1>2. f \in [0 .. n - 1 -> Int]
  OBVIOUS
<1>3. \A k \in 0 .. n - 1 : LeftFor(f, k, bytes) \in Nat /\ f[k] \in Nat
  BY <1>2, LeftAfter
<1>4. QED
  BY <1>1, <1>3 DEF Lower

\* What remains was there.
LEMMA DrainedTyped ==
  ASSUME NEW n \in Nat, NEW f \in [0 .. n - 1 -> Nat], NEW bytes \in Int
  PROVE  /\ Drained(f, bytes) \in [0 .. n - 1 -> Nat]
         /\ \A k \in 0 .. n - 1 : Drained(f, bytes)[k] = f[k] - Taken(f, bytes)[k]
<1>1. /\ Taken(f, bytes) \in [0 .. n - 1 -> Nat]
      /\ \A k \in 0 .. n - 1 : Taken(f, bytes)[k] <= f[k]
  BY TakenTyped
<1>2. Drained(f, bytes) = [k \in 0 .. n - 1 |-> f[k] - Taken(f, bytes)[k]]
  BY DEF Drained, Minus
<1>3. QED
  BY <1>1, <1>2

\* All the bytes are taken, as far as the amounts go.
LEMMA TakenSum ==
  ASSUME NEW n \in Nat, NEW f \in [0 .. n - 1 -> Nat], NEW bytes \in Nat
  PROVE  \A k \in 0 .. n : /\ SumOver(f, 0 .. k - 1) \in Nat
                           /\ SumOver(Taken(f, bytes), 0 .. k - 1) =
                                Lower(bytes, SumOver(f, 0 .. k - 1))
<1> DEFINE g == Taken(f, bytes)
           Had(k) == SumOver(f, 0 .. k - 1)
           Got(k) == SumOver(g, 0 .. k - 1)
           K == {k \in 0 .. n : Had(k) \in Nat /\ Got(k) = Lower(bytes, Had(k))}
<1>1. /\ g \in [0 .. n - 1 -> Nat]
      /\ \A k \in 0 .. n - 1 : g[k] = Lower(f[k], LeftFor(f, k, bytes))
  BY TakenTyped
<1> HIDE DEF g
<1>2. 0 \in K
  <2>1. 0 .. 0 - 1 = {} /\ IsFiniteSet({})
    BY FS_EmptySet
  <2>2. Had(0) = 0 /\ Got(0) = 0
    BY <2>1, SumSteps
  <2> HIDE DEF Had, Got
  <2>3. QED
    BY <2>2 DEF Lower
<1>3. ASSUME NEW k \in Nat, k < n, k \in K PROVE k + 1 \in K
  <2>1. f \in [0 .. n - 1 -> Int] /\ g \in [0 .. n - 1 -> Int] /\ k \in 0 .. n - 1
    BY <1>1, <1>3
  <2>2. (k + 1) - 1 = k
    BY <1>3
  <2>3. Had(k + 1) = f[k] + Had(k) /\ Got(k + 1) = g[k] + Got(k)
    BY <2>1, <2>2, NextPrefix
  <2>4. LeftFor(f, k, bytes) = Higher(0, bytes - Had(k))
    BY <2>1, LeftAfter
  <2> HIDE DEF Had, Got
  <2>5. Had(k) \in Nat /\ Got(k) = Lower(bytes, Had(k)) /\ f[k] \in Nat
    BY <1>3, <2>1
  <2>6. g[k] = Lower(f[k], Higher(0, bytes - Had(k)))
    BY <1>1, <2>1, <2>4
  <2>7. Got(k + 1) = Lower(bytes, f[k] + Had(k))
    BY <2>3, <2>5, <2>6 DEF Lower, Higher
  <2>8. QED
    BY <2>1, <2>3, <2>5, <2>7
<1>4. \A k \in 0 .. n : k \in K
  <2> HIDE DEF K
  <2>1. QED
    BY <1>2, <1>3, InductionUpTo
<1>5. QED
  BY <1>4 DEF g

\* More amounts are no less in sum.
LEMMA PrefixMonotone ==
  ASSUME NEW n \in Nat, NEW f \in [0 .. n - 1 -> Nat]
  PROVE  \A c \in 0 .. n : \A d \in 0 .. c :
           SumOver(f, 0 .. d - 1) <= SumOver(f, 0 .. c - 1)
<1> DEFINE Had(k) == SumOver(f, 0 .. k - 1)
           K == {c \in 0 .. n : \A d \in 0 .. c : Had(d) \in Int /\ Had(d) <= Had(c)}
<1>1. f \in [0 .. n - 1 -> Int]
  OBVIOUS
<1>2. 0 \in K
  <2>1. 0 .. 0 - 1 = {} /\ IsFiniteSet({})
    BY FS_EmptySet
  <2>2. Had(0) = 0
    BY <2>1, SumSteps
  <2> HIDE DEF Had
  <2>3. QED
    BY <2>2
<1>3. ASSUME NEW k \in Nat, k < n, k \in K PROVE k + 1 \in K
  <2>1. k \in 0 .. n - 1 /\ (k + 1) - 1 = k /\ f[k] \in Nat
    BY <1>3
  <2>2. Had(k + 1) = f[k] + Had(k) /\ Had(k) \in Int
    BY <1>1, <2>1, NextPrefix
  <2> HIDE DEF Had
  <2>3. QED
    BY <1>3, <2>1, <2>2
<1>4. \A k \in 0 .. n : k \in K
  <2> HIDE DEF K
  <2>1. QED
    BY <1>2, <1>3, InductionUpTo
<1>5. QED
  BY <1>4

\* An amount that gives something has the ones before it give all.
LEMMA TakenInOrder ==
  ASSUME NEW n \in Nat, NEW f \in [0 .. n - 1 -> Nat], NEW bytes \in Nat,
         NEW c \in 0 .. n - 1, NEW d \in 0 .. n - 1, d < c,
         Taken(f, bytes)[c] > 0
  PROVE  Taken(f, bytes)[d] = f[d]
<1> DEFINE Had(k) == SumOver(f, 0 .. k - 1)
<1>1. f \in [0 .. n - 1 -> Int]
  OBVIOUS
<1>2. ASSUME NEW k \in 0 .. n - 1
      PROVE  /\ Had(k) \in Int /\ Had(k + 1) = f[k] + Had(k) /\ f[k] \in Nat
             /\ Taken(f, bytes)[k] = Lower(f[k], Higher(0, bytes - Had(k)))
  <2>1. (k + 1) - 1 = k /\ f[k] \in Nat
    OBVIOUS
  <2>2. Had(k) \in Int /\ Had(k + 1) = f[k] + Had(k)
    BY <1>1, <2>1, NextPrefix
  <2>3. LeftFor(f, k, bytes) = Higher(0, bytes - Had(k))
    BY <1>1, LeftAfter
  <2>4. \A x \in 0 .. n - 1 : Taken(f, bytes)[x] = Lower(f[x], LeftFor(f, x, bytes))
    BY TakenTyped
  <2>5. QED
    BY <2>1, <2>2, <2>3, <2>4
<1>3. Had(d + 1) <= Had(c)
  <2>1. c \in 0 .. n /\ d + 1 \in 0 .. c
    OBVIOUS
  <2>2. QED
    BY <2>1, PrefixMonotone
<1> HIDE DEF Had
<1>4. /\ Had(c) \in Int /\ f[c] \in Nat
      /\ Taken(f, bytes)[c] = Lower(f[c], Higher(0, bytes - Had(c)))
  BY <1>2
<1>5. /\ Had(d) \in Int /\ f[d] \in Nat /\ Had(d + 1) = f[d] + Had(d)
      /\ Taken(f, bytes)[d] = Lower(f[d], Higher(0, bytes - Had(d)))
  BY <1>2
<1>6. bytes - Had(c) > 0
  BY <1>4 DEF Lower, Higher
<1>7. QED
  BY <1>3, <1>4, <1>5, <1>6 DEF Lower, Higher

\* Bytes are left only if all amounts are taken.
LEMMA TakenAll ==
  ASSUME NEW n \in Nat, NEW f \in [0 .. n - 1 -> Nat], NEW bytes \in Nat,
         SumOver(Taken(f, bytes), 0 .. n - 1) < bytes
  PROVE  \A c \in 0 .. n - 1 : Taken(f, bytes)[c] = f[c]
<1> DEFINE Had(k) == SumOver(f, 0 .. k - 1)
<1>1. f \in [0 .. n - 1 -> Int]
  OBVIOUS
<1>2. Had(n) < bytes /\ Had(n) \in Nat
  <2>1. n \in 0 .. n
    OBVIOUS
  <2>2. Had(n) \in Nat /\ SumOver(Taken(f, bytes), 0 .. n - 1) = Lower(bytes, Had(n))
    BY <2>1, TakenSum
  <2> HIDE DEF Had
  <2>3. QED
    BY <2>2 DEF Lower
<1>3. ASSUME NEW c \in 0 .. n - 1 PROVE Taken(f, bytes)[c] = f[c]
  <2>1. /\ (c + 1) - 1 = c /\ c + 1 \in 0 .. n /\ n \in 0 .. n
        /\ f[c] \in Nat
    OBVIOUS
  <2>2. Had(c + 1) = f[c] + Had(c) /\ Had(c) \in Int
    BY <1>1, <2>1, NextPrefix
  <2>3. Had(c + 1) <= Had(n)
    BY <2>1, PrefixMonotone
  <2>4. /\ LeftFor(f, c, bytes) = Higher(0, bytes - Had(c))
        /\ Taken(f, bytes)[c] = Lower(f[c], LeftFor(f, c, bytes))
    BY <1>1, LeftAfter, TakenTyped
  <2> HIDE DEF Had
  <2>5. QED
    BY <1>2, <2>1, <2>2, <2>3, <2>4 DEF Lower, Higher
<1>4. QED
  BY <1>3
-----------------------------------------------------------------------------
(* The sizes of TBs                                                        *)

\* No MCS has less than two bytes in a PRB.
LEMMA BitsOfMcs ==
  ASSUME NEW mcs \in 0 .. 28
  PROVE  BitsPerPrb(mcs) \in Nat /\ BitsPerPrb(mcs) >= 16
<1> DEFINE i == AnchorOf(mcs)
<1>1. /\ Anchors[1] = [mcs |-> 0, bits |-> 16]
      /\ Anchors[2] = [mcs |-> 5, bits |-> 64]
      /\ Anchors[3] = [mcs |-> 10, bits |-> 120]
      /\ Anchors[4] = [mcs |-> 15, bits |-> 176]
      /\ Anchors[5] = [mcs |-> 20, bits |-> 272]
      /\ Anchors[6] = [mcs |-> 28, bits |-> 456]
      /\ DOMAIN Anchors = 1 .. 6 /\ Len(Anchors) = 6
  BY DEF Anchors
<1>2. \E j \in DOMAIN Anchors :
        /\ Anchors[j].mcs <= mcs
        /\ j < Len(Anchors) => mcs < Anchors[j + 1].mcs
  BY <1>1
<1>3. /\ i \in 1 .. 6 /\ Anchors[i].mcs <= mcs
      /\ i < 6 => mcs < Anchors[i + 1].mcs
  BY <1>1, <1>2 DEF AnchorOf
<1> HIDE DEF i
<1>4. CASE mcs = 28
  BY <1>1, <1>3, <1>4 DEF BitsPerPrb, MaxMcs, i
<1>5. CASE mcs # 28
  <2>1. i \in 1 .. 5
    BY <1>1, <1>3, <1>5
  <2>2. /\ Anchors[i].bits \in Nat /\ Anchors[i].bits >= 16
        /\ Anchors[i].mcs \in 0 .. mcs
        /\ Anchors[i + 1].bits - Anchors[i].bits \in Nat
        /\ \/ Anchors[i + 1].mcs - Anchors[i].mcs = 5
           \/ Anchors[i + 1].mcs - Anchors[i].mcs = 8
    BY <1>1, <1>3, <2>1
  <2>3. BitsPerPrb(mcs) =
          Anchors[i].bits
          + (((Anchors[i + 1].bits - Anchors[i].bits)
              * (mcs - Anchors[i].mcs))
             \div (Anchors[i + 1].mcs - Anchors[i].mcs))
    BY <1>5 DEF BitsPerPrb, MaxMcs, i
  <2>4. \A a, b \in Nat : a * b \in Nat
    OBVIOUS
  <2>5. \A a \in Nat : a \div 5 \in Nat /\ a \div 8 \in Nat
    OBVIOUS
  <2>6. \A a, b \in Nat : b >= 16 => b + a \in Nat /\ b + a >= 16
    OBVIOUS
  <2>7. (Anchors[i + 1].bits - Anchors[i].bits)
          * (mcs - Anchors[i].mcs) \in Nat
    BY <2>2, <2>4
  <2>8. QED
    BY <2>2, <2>3, <2>5, <2>6, <2>7
<1>6. QED
  BY <1>4, <1>5
-----------------------------------------------------------------------------
(* Timed channels                                                          *)

\* A message sent is the newest of its channel.
LEMMA SendStep ==
  ASSUME Delay \in Nat \ {0},
         NEW S, NEW ch \in Seq(Messages(S)), Sorted(ch), NEW x \in S
  PROVE  LET new == [left |-> Delay, item |-> x]
             c   == Send(ch, x)
         IN  /\ new \in Messages(S)
             /\ c \in Seq(Messages(S)) /\ Sorted(c)
             /\ OnWay(c) = OnWay(ch) \union {new}
             /\ \A I : /\ x \in I => Of(c, I) = Of(ch, I) \union {new}
                       /\ x \notin I => Of(c, I) = Of(ch, I)
                       /\ AtMostOne(ch, I) /\ (x \in I => Of(ch, I) = {}) => AtMostOne(c, I)
<1> DEFINE new == [left |-> Delay, item |-> x]
           c   == Append(ch, new)
<1>1. new \in Messages(S)
  BY DEF Messages
<1>2. c \in Seq(Messages(S))
  BY <1>1
<1>3. /\ DOMAIN ch = 1 .. Len(ch) /\ Len(ch) \in Nat
      /\ DOMAIN c = 1 .. Len(ch) + 1
      /\ \A i \in 1 .. Len(ch) : c[i] = ch[i]
      /\ c[Len(ch) + 1] = new
  BY <1>1
<1>4. \A i \in DOMAIN ch : ch[i] \in Messages(S)
  BY <1>3
<1>5. \A i \in DOMAIN ch : ch[i].left <= Delay /\ ch[i].left \in Int
  BY <1>4 DEF Messages
<1>6. new.left = Delay /\ new.item = x
  OBVIOUS
<1> HIDE DEF new, c
<1>7. Sorted(c)
  BY <1>3, <1>5, <1>6 DEF Sorted
<1>8. OnWay(c) = OnWay(ch) \union {new}
  <2>1. \A i \in DOMAIN c : i \in DOMAIN ch \/ i = Len(ch) + 1
    BY <1>3
  <2>2. Len(ch) + 1 \in DOMAIN c /\ \A i \in DOMAIN ch : i \in DOMAIN c
    BY <1>3
  <2>3. QED
    BY <1>3, <2>1, <2>2 DEF OnWay
<1>9. ASSUME NEW I
      PROVE  /\ x \in I => Of(c, I) = Of(ch, I) \union {new}
             /\ x \notin I => Of(c, I) = Of(ch, I)
  BY <1>6, <1>8 DEF Of
<1>10. ASSUME NEW I, AtMostOne(ch, I), x \in I => Of(ch, I) = {}
       PROVE  AtMostOne(c, I)
  <2>1. x \in I => \A i \in DOMAIN ch : ch[i].item \notin I
    BY <1>10 DEF Of, OnWay
  <2>2. QED
    BY <1>3, <1>6, <1>10, <2>1 DEF AtMostOne
<1>11. Send(ch, x) = c
  BY DEF Send, c, new
<1>12. QED
  BY <1>1, <1>2, <1>7, <1>8, <1>9, <1>10, <1>11 DEF new

\* Taking the message at the front leaves the others.
LEMMA TakeStep ==
  ASSUME Delay \in Nat \ {0},
         NEW S, NEW ch \in Seq(Messages(S)), Sorted(ch), ch # <<>>
  PROVE  LET h == Head(ch)
             c == Tail(ch)
         IN  /\ h \in Messages(S) /\ h \in OnWay(ch)
             /\ c \in Seq(Messages(S)) /\ Sorted(c)
             /\ OnWay(c) \subseteq OnWay(ch)
             /\ \A I : AtMostOne(ch, I) =>
                  /\ AtMostOne(c, I)
                  /\ h.item \in I => Of(ch, I) = {h} /\ Of(c, I) = {}
                  /\ h.item \notin I => Of(c, I) = Of(ch, I)
<1> DEFINE h == Head(ch)
           c == Tail(ch)
<1>1. /\ DOMAIN ch = 1 .. Len(ch) /\ Len(ch) \in Nat /\ Len(ch) > 0
      /\ c \in Seq(Messages(S)) /\ Len(c) = Len(ch) - 1
      /\ h = ch[1] /\ DOMAIN c = 1 .. Len(ch) - 1
      /\ \A i \in 1 .. Len(ch) - 1 : c[i] = ch[i + 1]
  OBVIOUS
<1>2. h \in Messages(S) /\ h \in OnWay(ch)
  BY <1>1 DEF OnWay
<1> HIDE DEF h, c
<1>3. Sorted(c)
  <2>1. ASSUME NEW i \in DOMAIN c, NEW j \in DOMAIN c, i <= j
        PROVE  c[i].left <= c[j].left
    <3>1. /\ i + 1 \in DOMAIN ch /\ j + 1 \in DOMAIN ch /\ i + 1 <= j + 1
          /\ c[i] = ch[i + 1] /\ c[j] = ch[j + 1]
      BY <1>1, <2>1
    <3>2. QED
      BY <3>1 DEF Sorted
  <2>2. QED
    BY <2>1 DEF Sorted
<1>4. \A i \in DOMAIN c : i + 1 \in DOMAIN ch /\ i + 1 # 1 /\ c[i] = ch[i + 1]
  BY <1>1
<1>5. \A i \in DOMAIN ch : i = 1 \/ (i - 1 \in DOMAIN c /\ c[i - 1] = ch[i])
  BY <1>1
<1>6. 1 \in DOMAIN ch
  BY <1>1
<1>7. OnWay(c) \subseteq OnWay(ch)
  BY <1>4 DEF OnWay
<1>8. ASSUME NEW I, AtMostOne(ch, I)
      PROVE  /\ AtMostOne(c, I)
             /\ h.item \in I => Of(ch, I) = {h} /\ Of(c, I) = {}
             /\ h.item \notin I => Of(c, I) = Of(ch, I)
  <2>1. AtMostOne(c, I)
    <3>1. ASSUME NEW i \in DOMAIN c, NEW j \in DOMAIN c,
                 c[i].item \in I, c[j].item \in I
          PROVE  i = j
      <4>1. i + 1 = j + 1
        BY <1>4, <1>8, <3>1 DEF AtMostOne
      <4>2. i \in Nat /\ j \in Nat
        BY <1>1
      <4>3. QED
        BY <4>1, <4>2
    <3>2. QED
      BY <3>1 DEF AtMostOne
  <2>2. ASSUME h.item \in I PROVE Of(ch, I) = {h} /\ Of(c, I) = {}
    <3>1. \A i \in DOMAIN ch : ch[i].item \in I => i = 1
      BY <1>1, <1>6, <1>8, <2>2 DEF AtMostOne
    <3>2. QED
      BY <1>1, <1>2, <1>4, <2>2, <3>1 DEF Of, OnWay
  <2>3. ASSUME h.item \notin I PROVE Of(c, I) = Of(ch, I)
    <3>1. OnWay(ch) \subseteq OnWay(c) \union {h}
      BY <1>1, <1>5 DEF OnWay
    <3>2. QED
      BY <1>7, <2>3, <3>1 DEF Of
  <2>4. QED
    BY <2>1, <2>2, <2>3
<1>9. QED
  BY <1>1, <1>2, <1>3, <1>7, <1>8 DEF h, c

\* Nothing visible at the front of a channel: nothing in it is due.
LEMMA NotVisible ==
  ASSUME Delay \in Nat \ {0},
         NEW S, NEW ch \in Seq(Messages(S)), Sorted(ch), ~Visible(ch)
  PROVE  \A m \in OnWay(ch) : m.left > 0
<1>1. CASE ch = <<>>
  BY <1>1 DEF OnWay
<1>2. CASE ch # <<>>
  <2>1. /\ 1 \in DOMAIN ch /\ Head(ch) = ch[1]
        /\ \A i \in DOMAIN ch : 1 <= i /\ ch[i] \in Messages(S)
    BY <1>2
  <2>2. \A i \in DOMAIN ch : ch[i].left \in Nat
    BY <2>1 DEF Messages
  <2>3. ch[1].left # 0
    BY <1>2, <2>1 DEF Visible
  <2>4. \A i \in DOMAIN ch : ch[1].left <= ch[i].left
    BY <2>1 DEF Sorted
  <2>5. \A i \in DOMAIN ch : ch[i].left > 0
    BY <2>1, <2>2, <2>3, <2>4
  <2>6. QED
    BY <2>5 DEF OnWay
<1>3. QED
  BY <1>1, <1>2

\* A message a TTI later.
Older(m) == [m EXCEPT !.left = @ - 1]

\* The clock moves on when nothing is due: every message ages by a TTI.
LEMMA AdvanceStep ==
  ASSUME Delay \in Nat \ {0},
         NEW S, NEW ch \in Seq(Messages(S)), Sorted(ch),
         \A m \in OnWay(ch) : m.left > 0
  PROVE  LET c == Advance(ch)
         IN  /\ c \in Seq(Messages(S)) /\ Sorted(c)
             /\ \A m \in OnWay(c) : m.left < Delay
             /\ \A m \in OnWay(ch) : /\ Older(m).left = m.left - 1
                                     /\ Older(m).item = m.item
             /\ \A I : /\ Of(c, I) = {Older(m) : m \in Of(ch, I)}
                       /\ AtMostOne(ch, I) => AtMostOne(c, I)
<1> DEFINE c == Advance(ch)
<1>1. /\ DOMAIN ch = 1 .. Len(ch) /\ Len(ch) \in Nat
      /\ \A i \in DOMAIN ch : ch[i] \in Messages(S) /\ ch[i] \in OnWay(ch)
  BY DEF OnWay
<1>2. ASSUME NEW m \in Messages(S), m.left > 0
      PROVE  /\ Older(m) \in Messages(S)
             /\ Older(m).left = m.left - 1 /\ Older(m).item = m.item
             /\ m.left \in 1 .. Delay
             /\ Older(m) = [m EXCEPT !.left = IF @ > 0 THEN @ - 1 ELSE 0]
  <2>1. m.left \in 1 .. Delay
    BY <1>2 DEF Messages
  <2>2. m.left - 1 \in 0 .. Delay
    BY <2>1
  <2>3. QED
    BY <1>2, <2>1, <2>2 DEF Messages, Older
<1>3. \A i \in DOMAIN ch : ch[i].left > 0
  BY <1>1
<1>4. c = [i \in DOMAIN ch |-> Older(ch[i])]
  BY <1>1, <1>2, <1>3 DEF Advance
<1>5. c = [i \in 1 .. Len(ch) |-> Older(ch[i])]
  BY <1>1, <1>4
<1>6. \A i \in 1 .. Len(ch) : Older(ch[i]) \in Messages(S)
  BY <1>1, <1>2, <1>3
<1>7. c \in Seq(Messages(S))
  <2> HIDE DEF c
  <2>1. c \in [1 .. Len(ch) -> Messages(S)]
    BY <1>5, <1>6
  <2>2. QED
    BY <1>1, <2>1
<1> HIDE DEF c
<1>8. /\ DOMAIN c = DOMAIN ch
      /\ \A i \in DOMAIN ch : /\ c[i] = Older(ch[i])
                              /\ c[i].left = ch[i].left - 1 /\ c[i].item = ch[i].item
                              /\ ch[i].left \in 1 .. Delay
  BY <1>1, <1>2, <1>3, <1>4
<1>9. Sorted(c)
  BY <1>8 DEF Sorted
<1>10. \A m \in OnWay(c) : m.left < Delay
  BY <1>8 DEF OnWay
<1>11. ASSUME NEW I PROVE AtMostOne(ch, I) => AtMostOne(c, I)
  BY <1>8 DEF AtMostOne
<1>12. ASSUME NEW I PROVE Of(c, I) = {Older(m) : m \in Of(ch, I)}
  BY <1>8 DEF Of, OnWay
<1>13. \A m \in OnWay(ch) : /\ Older(m).left = m.left - 1
                            /\ Older(m).item = m.item
  BY <1>1, <1>2, <1>3 DEF OnWay
<1>14. QED
  BY <1>7, <1>9, <1>10, <1>11, <1>12, <1>13 DEF c
=============================================================================
