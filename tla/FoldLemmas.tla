----------------------------- MODULE FoldLemmas -----------------------------
(* Sums over finite sets (Functions!SumFunctionOnSet), as the models use   *)
(* them for counters of sessions and of messages.                          *)
(*                                                                         *)
(* A sum is a recursive function over the subsets of its index set, so all *)
(* of this is induction.  The induction theorems of the library take a     *)
(* predicate as a parameter; here the predicate is a set, and a set that   *)
(* is closed under the step is shown to be everything.                     *)
EXTENDS Integers, FiniteSets, Functions, FiniteSetTheorems, TLAPS

-----------------------------------------------------------------------------
(* Induction over sets of numbers and of sets.                             *)

Below == {pair \in Nat \X Nat : pair[1] < pair[2]}

\* A nonempty set of numbers has a least one.
LEMMA LeastNumber ==
    ASSUME NEW T, T \subseteq Nat, T # {}
    PROVE  \E x \in T : \A y \in T : x <= y
  <1>1. IsWellFoundedOn(Below, Nat)
    BY NatLessThanWellFounded DEF OpToRel, Below
  <1>2. PICK x \in T : \A y \in T : <<y, x>> \notin Below
    BY <1>1, WFMin
  <1>3. ASSUME NEW y \in T PROVE x <= y
    <2>1. x \in Nat /\ y \in Nat
      OBVIOUS
    <2>2. <<y, x>> \notin Below
      BY <1>2
    <2>3. ~(y < x)
      BY <2>1, <2>2 DEF Below
    <2>4. QED
      BY <2>1, <2>3
  <1>4. QED
    BY <1>3

\* Induction over the numbers.
LEMMA AllNumbers ==
    ASSUME NEW Good, 0 \in Good, \A n \in Nat : n \in Good => n + 1 \in Good
    PROVE  Nat \subseteq Good
  <1> SUFFICES ASSUME Nat \ Good # {} PROVE FALSE
    OBVIOUS
  <1>1. PICK n \in Nat \ Good : \A k \in Nat \ Good : n <= k
    BY LeastNumber
  <1>2. n # 0 /\ n - 1 \in Nat /\ n = (n - 1) + 1
    BY <1>1
  <1>3. n - 1 \in Good
    BY <1>1, <1>2
  <1>4. QED
    BY <1>2, <1>3

LEMMA OneLess ==
    ASSUME NEW S, IsFiniteSet(S), NEW T \in SUBSET S, NEW x \in T
    PROVE  /\ T \ {x} \in SUBSET S
           /\ Cardinality(T) \in Nat \ {0}
           /\ Cardinality(T \ {x}) = Cardinality(T) - 1
  <1>1. IsFiniteSet(T)
    BY FS_Subset
  <1>2. Cardinality(T) \in Nat
    BY <1>1, FS_CardinalityType
  <1>3. Cardinality(T) # 0
    BY <1>1, FS_EmptySet
  <1>4. Cardinality(T \ {x}) = Cardinality(T) - 1
    BY <1>1, FS_RemoveElement
  <1>5. QED
    BY <1>2, <1>3, <1>4

\* Induction over the subsets of a finite set, one element at a time.
LEMMA AllSubsets ==
    ASSUME NEW S, IsFiniteSet(S), NEW Good, {} \in Good,
           \A T \in SUBSET S : \A x \in S \ T : T \in Good => T \cup {x} \in Good
    PROVE  SUBSET S \subseteq Good
  <1> DEFINE Size(n) == {T \in SUBSET S : Cardinality(T) = n}
             Sizes == {n \in Nat : Size(n) \subseteq Good}
  <1>1. \A T \in SUBSET S : IsFiniteSet(T) /\ Cardinality(T) \in Nat
    BY FS_Subset, FS_CardinalityType
  <1>2. 0 \in Sizes
    BY <1>1, FS_EmptySet
  <1>3. ASSUME NEW n \in Nat, n \in Sizes PROVE n + 1 \in Sizes
    <2> SUFFICES ASSUME NEW T \in SUBSET S, Cardinality(T) = n + 1 PROVE T \in Good
      OBVIOUS
    <2>1. PICK x : x \in T
      BY FS_EmptySet
    <2>2. Cardinality(T \ {x}) = n
      BY <2>1, OneLess
    <2>3. T \ {x} \in Good
      BY <1>3, <2>2
    <2>4. (T \ {x}) \cup {x} \in Good
      <3>1. T \ {x} \in SUBSET S /\ x \in S \ (T \ {x})
        BY <2>1
      <3>2. QED
        BY <2>3, <3>1
    <2>5. (T \ {x}) \cup {x} = T
      BY <2>1
    <2>6. QED
      BY <2>4, <2>5
  <1> HIDE DEF Sizes
  <1>4. Nat \subseteq Sizes
    BY <1>2, <1>3, AllNumbers
  <1>5. QED
    BY <1>1, <1>4 DEF Sizes

-----------------------------------------------------------------------------
(* The recursion behind a sum.                                             *)

Pick(T) == CHOOSE x \in T : TRUE

\* g is the function whose value at S is the sum of f over S.
SumsUp(g, f, S) ==
    g = [T \in SUBSET S |-> IF T = {} THEN 0 ELSE f[Pick(T)] + g[T \ {Pick(T)}]]

LEMMA SumIs ==
    ASSUME NEW f, NEW S
    PROVE  SumFunctionOnSet(f, S) = (CHOOSE g : SumsUp(g, f, S))[S]
  BY DEF SumFunctionOnSet, FoldFunctionOnSet, MapThenFoldSet, SumsUp, Pick

\* There is such a function: it is right for the sets of at most n elements,
\* for every n.
Value(g, f, n, T) == IF T = {} THEN 0
                     ELSE IF Cardinality(T) <= n THEN f[Pick(T)] + g[T \ {Pick(T)}]
                     ELSE 0
SumsUpto(g, f, n, S) == g = [T \in SUBSET S |-> Value(g, f, n, T)]

LEMMA Picked ==
    ASSUME NEW S, IsFiniteSet(S), NEW T \in SUBSET S, T # {}
    PROVE  /\ Pick(T) \in T /\ T \ {Pick(T)} \in SUBSET S
           /\ Cardinality(T) \in Nat \ {0}
           /\ Cardinality(T \ {Pick(T)}) = Cardinality(T) - 1
  <1>1. Pick(T) \in T
    BY DEF Pick
  <1>2. QED
    BY <1>1, OneLess

LEMMA SumsUptoNext ==
    ASSUME NEW f, NEW S, IsFiniteSet(S), NEW n \in Nat, NEW g, SumsUpto(g, f, n, S)
    PROVE  \E h : SumsUpto(h, f, n + 1, S)
  <1> DEFINE h == [T \in SUBSET S |-> Value(g, f, n + 1, T)]
  <1>1. ASSUME NEW T \in SUBSET S, Cardinality(T) <= n PROVE h[T] = g[T]
    <2>1. h[T] = Value(g, f, n + 1, T)
      OBVIOUS
    <2>2. g[T] = Value(g, f, n, T)
      BY DEF SumsUpto
    <2>3. CASE T = {}
      BY <2>1, <2>2, <2>3 DEF Value
    <2>4. CASE T # {}
      <3>1. Cardinality(T) \in Nat /\ Cardinality(T) <= n + 1
        <4>1. Cardinality(T) \in Nat
          BY <2>4, Picked
        <4>2. Cardinality(T) <= n
          BY <1>1
        <4>3. QED
          BY <4>1, <4>2
      <3>2. QED
        BY <1>1, <2>1, <2>2, <2>4, <3>1 DEF Value
    <2>5. QED
      BY <2>3, <2>4
  <1>2. ASSUME NEW T \in SUBSET S PROVE Value(g, f, n + 1, T) = Value(h, f, n + 1, T)
    <2>1. CASE T = {} \/ ~(Cardinality(T) <= n + 1)
      BY <2>1 DEF Value
    <2>2. CASE T # {} /\ Cardinality(T) <= n + 1
      <3>1. T \ {Pick(T)} \in SUBSET S /\ Cardinality(T \ {Pick(T)}) <= n
        BY <2>2, Picked
      <3>2. h[T \ {Pick(T)}] = g[T \ {Pick(T)}]
        BY <1>1, <3>1
      <3> HIDE DEF h
      <3>3. QED
        BY <2>2, <3>2 DEF Value
    <2>3. QED
      BY <2>1, <2>2
  <1>3. h = [T \in SUBSET S |-> Value(h, f, n + 1, T)]
    BY <1>2
  <1>4. SumsUpto(h, f, n + 1, S)
    BY <1>3 DEF SumsUpto
  <1>5. QED
    BY <1>4

LEMMA SumsUpExists ==
    ASSUME NEW f, NEW S, IsFiniteSet(S)
    PROVE  \E g : SumsUp(g, f, S)
  <1> DEFINE Good == {n \in Nat : \E g : SumsUpto(g, f, n, S)}
  <1>1. 0 \in Good
    <2> DEFINE g == [T \in SUBSET S |-> 0]
    <2>1. ASSUME NEW T \in SUBSET S PROVE Value(g, f, 0, T) = 0
      <3>1. T # {} => Cardinality(T) \in Nat \ {0}
        BY Picked
      <3>2. T # {} => ~(Cardinality(T) <= 0)
        BY <3>1
      <3>3. QED
        BY <3>2 DEF Value
    <2>2. g = [T \in SUBSET S |-> Value(g, f, 0, T)]
      BY <2>1
    <2>3. SumsUpto(g, f, 0, S)
      BY <2>2 DEF SumsUpto
    <2>4. QED
      BY <2>3
  <1>2. \A n \in Nat : n \in Good => n + 1 \in Good
    BY SumsUptoNext
  <1> HIDE DEF Good
  <1>3. Nat \subseteq Good
    BY <1>1, <1>2, AllNumbers
  <1>4. Cardinality(S) \in Nat
    BY FS_CardinalityType
  <1>5. PICK g : SumsUpto(g, f, Cardinality(S), S)
    BY <1>3, <1>4 DEF Good
  <1>6. \A T \in SUBSET S : Value(g, f, Cardinality(S), T) =
                               IF T = {} THEN 0 ELSE f[Pick(T)] + g[T \ {Pick(T)}]
    BY FS_Subset DEF Value
  <1>7. SumsUp(g, f, S)
    BY <1>5, <1>6 DEF SumsUp, SumsUpto
  <1>8. QED
    BY <1>7

\* What such a function says of a subset does not depend on the superset.
LEMMA SumsUpAgree ==
    ASSUME NEW f, NEW S, IsFiniteSet(S), NEW R \in SUBSET S,
           NEW g, SumsUp(g, f, S), NEW h, SumsUp(h, f, R)
    PROVE  g[R] = h[R]
  <1> DEFINE Good == {n \in Nat : \A T \in SUBSET R : Cardinality(T) = n => g[T] = h[T]}
  <1>1. IsFiniteSet(R)
    BY FS_Subset
  <1>2. ASSUME NEW T \in SUBSET R
        PROVE  /\ g[T] = IF T = {} THEN 0 ELSE f[Pick(T)] + g[T \ {Pick(T)}]
               /\ h[T] = IF T = {} THEN 0 ELSE f[Pick(T)] + h[T \ {Pick(T)}]
    BY DEF SumsUp
  <1>3. 0 \in Good
    <2> SUFFICES ASSUME NEW T \in SUBSET R, Cardinality(T) = 0 PROVE g[T] = h[T]
      OBVIOUS
    <2>1. T = {}
      BY <1>1, Picked
    <2>2. QED
      BY <1>2, <2>1
  <1>4. ASSUME NEW n \in Nat, n \in Good PROVE n + 1 \in Good
    <2> SUFFICES ASSUME NEW T \in SUBSET R, Cardinality(T) = n + 1 PROVE g[T] = h[T]
      OBVIOUS
    <2>1. CASE T = {}
      BY <1>2, <2>1
    <2>2. CASE T # {}
      <3>1. T \ {Pick(T)} \in SUBSET R /\ Cardinality(T \ {Pick(T)}) = n
        BY <1>1, <2>2, Picked
      <3>2. g[T \ {Pick(T)}] = h[T \ {Pick(T)}]
        BY <1>4, <3>1
      <3>3. QED
        BY <1>2, <2>2, <3>2
    <2>3. QED
      BY <2>1, <2>2
  <1> HIDE DEF Good
  <1>5. Nat \subseteq Good
    BY <1>3, <1>4, AllNumbers
  <1>6. Cardinality(R) \in Nat
    BY <1>1, FS_CardinalityType
  <1>7. QED
    BY <1>5, <1>6 DEF Good

-----------------------------------------------------------------------------
(* Sums.                                                                   *)

Sum(f, S) == SumFunctionOnSet(f, S)

LEMMA SumEmpty == \A f : Sum(f, {}) = 0
  <1> SUFFICES ASSUME NEW f PROVE Sum(f, {}) = 0
    OBVIOUS
  <1>1. SumsUp(CHOOSE g : SumsUp(g, f, {}), f, {})
    BY SumsUpExists, FS_EmptySet
  <1>2. (CHOOSE g : SumsUp(g, f, {}))[{}] = 0
    BY <1>1 DEF SumsUp
  <1>3. QED
    BY <1>2, SumIs DEF Sum

LEMMA SumUnfolds ==
    ASSUME NEW f, NEW S, IsFiniteSet(S), S # {}
    PROVE  Sum(f, S) = f[Pick(S)] + Sum(f, S \ {Pick(S)})
  <1> DEFINE R == S \ {Pick(S)}
             g == CHOOSE g : SumsUp(g, f, S)
             h == CHOOSE h : SumsUp(h, f, R)
  <1>1. R \in SUBSET S /\ IsFiniteSet(R)
    BY FS_RemoveElement
  <1>2. SumsUp(g, f, S) /\ SumsUp(h, f, R)
    BY <1>1, SumsUpExists
  <1>3. Sum(f, S) = g[S] /\ Sum(f, R) = h[R]
    BY SumIs DEF Sum
  <1> HIDE DEF g, h
  <1>4. g[R] = h[R]
    <2> HIDE DEF R
    <2>1. QED
      BY <1>1, <1>2, SumsUpAgree
  <1>5. g[S] = f[Pick(S)] + g[R]
    BY <1>2 DEF SumsUp
  <1>6. QED
    BY <1>3, <1>4, <1>5

\* A sum of integers is one.
LEMMA SumInt ==
    ASSUME NEW f, NEW S, IsFiniteSet(S), \A x \in S : f[x] \in Int
    PROVE  Sum(f, S) \in Int
  <1> DEFINE Good == {n \in Nat : \A T \in SUBSET S : Cardinality(T) = n => Sum(f, T) \in Int}
  <1>1. 0 \in Good
    <2> SUFFICES ASSUME NEW T \in SUBSET S, Cardinality(T) = 0 PROVE Sum(f, T) \in Int
      OBVIOUS
    <2>1. T = {}
      BY Picked
    <2>2. QED
      BY <2>1, SumEmpty
  <1>2. ASSUME NEW n \in Nat, n \in Good PROVE n + 1 \in Good
    <2> SUFFICES ASSUME NEW T \in SUBSET S, Cardinality(T) = n + 1 PROVE Sum(f, T) \in Int
      OBVIOUS
    <2>1. T # {} /\ IsFiniteSet(T)
      BY FS_EmptySet, FS_Subset
    <2>2. Sum(f, T \ {Pick(T)}) \in Int /\ f[Pick(T)] \in Int
      BY <1>2, <2>1, Picked
    <2>3. QED
      BY <2>1, <2>2, SumUnfolds
  <1> HIDE DEF Good
  <1>3. Nat \subseteq Good
    BY <1>1, <1>2, AllNumbers
  <1>4. Cardinality(S) \in Nat
    BY FS_CardinalityType
  <1>5. QED
    BY <1>3, <1>4 DEF Good

\* Any element can be taken out first.
LEMMA SumTakes ==
    ASSUME NEW f, NEW S, IsFiniteSet(S), \A x \in S : f[x] \in Int
    PROVE  \A x \in S : Sum(f, S) = f[x] + Sum(f, S \ {x})
  <1> DEFINE Takes(T) == \A x \in T : Sum(f, T) = f[x] + Sum(f, T \ {x})
             Good == {n \in Nat : \A T \in SUBSET S : Cardinality(T) = n => Takes(T)}
  <1>1. \A T \in SUBSET S : Sum(f, T) \in Int
    BY SumInt, FS_Subset
  <1>2. 0 \in Good
    BY Picked
  <1>3. ASSUME NEW n \in Nat, n \in Good PROVE n + 1 \in Good
    <2> SUFFICES ASSUME NEW T \in SUBSET S, Cardinality(T) = n + 1 PROVE Takes(T)
      OBVIOUS
    <2> DEFINE c == Pick(T)
               R == T \ {c}
    <2>1. T # {} /\ IsFiniteSet(T)
      BY FS_EmptySet, FS_Subset
    <2>2. c \in T /\ R \in SUBSET S /\ Cardinality(R) = n
      BY <2>1, Picked
    <2>3. Sum(f, T) = f[c] + Sum(f, R)
      BY <2>1, SumUnfolds
    <2>4. ASSUME NEW x \in T, x # c PROVE Sum(f, T) = f[x] + Sum(f, T \ {x})
      <3> DEFINE Q == T \ {x}
      <3>1. Q \in SUBSET S /\ Cardinality(Q) = n /\ c \in Q
        BY <2>2, <2>4, OneLess
      <3>2. Sum(f, Q) = f[c] + Sum(f, Q \ {c})
        BY <1>3, <3>1
      <3>3. Sum(f, R) = f[x] + Sum(f, R \ {x})
        BY <1>3, <2>2, <2>4
      <3>4. Q \ {c} = R \ {x}
        OBVIOUS
      <3>5. Sum(f, R \ {x}) \in Int /\ f[x] \in Int /\ f[c] \in Int
        BY <1>1, <2>2
      <3> HIDE DEF Q, R
      <3>6. Sum(f, T) = f[x] + (f[c] + Sum(f, R \ {x}))
        BY <2>3, <3>3, <3>5
      <3>7. QED
        BY <3>2, <3>4, <3>6 DEF Q
    <2>5. QED
      BY <2>3, <2>4
  <1> HIDE DEF Good
  <1>4. Nat \subseteq Good
    BY <1>2, <1>3, AllNumbers
  <1>5. Cardinality(S) \in Nat
    BY FS_CardinalityType
  <1>6. QED
    BY <1>4, <1>5 DEF Good

LEMMA SumAdds ==
    ASSUME NEW f, NEW S, IsFiniteSet(S), NEW x, x \notin S,
           \A y \in S \cup {x} : f[y] \in Int
    PROVE  Sum(f, S \cup {x}) = f[x] + Sum(f, S)
  <1>1. IsFiniteSet(S \cup {x}) /\ (S \cup {x}) \ {x} = S
    BY FS_AddElement
  <1>2. QED
    BY <1>1, SumTakes

\* A sum depends on the values alone.
LEMMA SumSame ==
    ASSUME NEW f, NEW g, NEW S, IsFiniteSet(S), \A x \in S : f[x] \in Int /\ g[x] = f[x]
    PROVE  Sum(g, S) = Sum(f, S)
  <1> DEFINE Good == {T \in SUBSET S : Sum(g, T) = Sum(f, T)}
  <1>1. {} \in Good
    BY SumEmpty
  <1>2. ASSUME NEW T \in SUBSET S, NEW x \in S \ T, T \in Good PROVE T \cup {x} \in Good
    <2>1. IsFiniteSet(T) /\ T \cup {x} \in SUBSET S
      BY FS_Subset
    <2>2. Sum(f, T \cup {x}) = f[x] + Sum(f, T) /\ Sum(g, T \cup {x}) = g[x] + Sum(g, T)
      BY <2>1, SumAdds
    <2>3. QED
      BY <1>2, <2>1, <2>2
  <1> HIDE DEF Good
  <1>3. S \in Good
    BY <1>1, <1>2, AllSubsets
  <1>4. QED
    BY <1>3 DEF Good

LEMMA SumZero ==
    ASSUME NEW f, NEW S, IsFiniteSet(S), \A x \in S : f[x] = 0
    PROVE  Sum(f, S) = 0
  <1> DEFINE Good == {T \in SUBSET S : Sum(f, T) = 0}
  <1>1. {} \in Good
    BY SumEmpty
  <1>2. ASSUME NEW T \in SUBSET S, NEW x \in S \ T, T \in Good PROVE T \cup {x} \in Good
    <2>1. IsFiniteSet(T) /\ T \cup {x} \in SUBSET S
      BY FS_Subset
    <2>2. Sum(f, T \cup {x}) = f[x] + Sum(f, T)
      BY <2>1, SumAdds
    <2>3. QED
      BY <1>2, <2>1, <2>2
  <1> HIDE DEF Good
  <1>3. S \in Good
    BY <1>1, <1>2, AllSubsets
  <1>4. QED
    BY <1>3 DEF Good

\* One value changes.
LEMMA SumChanges ==
    ASSUME NEW f, NEW g, NEW S, IsFiniteSet(S), \A y \in S : f[y] \in Int /\ g[y] \in Int,
           NEW x \in S, \A y \in S \ {x} : g[y] = f[y]
    PROVE  Sum(g, S) = Sum(f, S) - f[x] + g[x]
  <1> DEFINE R == S \ {x}
  <1>1. IsFiniteSet(R) /\ R \subseteq S
    BY FS_RemoveElement
  <1>2. Sum(g, R) = Sum(f, R) /\ Sum(f, R) \in Int
    BY <1>1, SumSame, SumInt
  <1>3. Sum(f, S) = f[x] + Sum(f, R) /\ Sum(g, S) = g[x] + Sum(g, R)
    BY SumTakes
  <1>4. f[x] \in Int /\ g[x] \in Int
    OBVIOUS
  <1> HIDE DEF R
  <1>5. QED
    BY <1>2, <1>3, <1>4

\* Things at places, each place with room for those that are there: the sum is
\* room for all of them.
LEMMA SumHolds ==
    ASSUME NEW A, IsFiniteSet(A), NEW place, NEW f, NEW S, IsFiniteSet(S),
           \A s \in S : f[s] \in Int /\ Cardinality({a \in A : place[a] = s}) <= f[s]
    PROVE  Cardinality({a \in A : place[a] \in S}) <= Sum(f, S)
  <1> DEFINE In(T) == {a \in A : place[a] \in T}
             Good == {T \in SUBSET S : Cardinality(In(T)) <= Sum(f, T)}
  <1>1. {} \in Good
    <2>1. In({}) = {}
      OBVIOUS
    <2>2. QED
      BY <2>1, SumEmpty, FS_EmptySet
  <1>2. ASSUME NEW T \in SUBSET S, NEW x \in S \ T, T \in Good PROVE T \cup {x} \in Good
    <2> DEFINE Here == {a \in A : place[a] = x}
    <2>1. IsFiniteSet(T) /\ T \cup {x} \in SUBSET S
      BY FS_Subset
    <2>2. Sum(f, T \cup {x}) = f[x] + Sum(f, T) /\ Sum(f, T) \in Int
      BY <2>1, SumAdds, SumInt
    <2>3. IsFiniteSet(In(T)) /\ IsFiniteSet(Here) /\ IsFiniteSet(In(T) \cap Here)
      <3>1. In(T) \in SUBSET A /\ Here \in SUBSET A /\ In(T) \cap Here \in SUBSET A
        OBVIOUS
      <3> HIDE DEF Here, In
      <3>2. QED
        BY <3>1, FS_Subset
    <2>4. In(T \cup {x}) = In(T) \cup Here
      OBVIOUS
    <2>5. Cardinality(In(T)) <= Sum(f, T) /\ Cardinality(Here) <= f[x] /\ f[x] \in Int
      BY <1>2
    <2> HIDE DEF Here, In, Good
    <2>6. Cardinality(In(T) \cup Here) <= Cardinality(In(T)) + Cardinality(Here)
      <3>1. /\ Cardinality(In(T)) \in Nat /\ Cardinality(Here) \in Nat
            /\ Cardinality(In(T) \cap Here) \in Nat
        BY <2>3, FS_CardinalityType
      <3>2. Cardinality(In(T) \cup Here) =
               Cardinality(In(T)) + Cardinality(Here) - Cardinality(In(T) \cap Here)
        BY <2>3, FS_Union
      <3>3. QED
        BY <3>1, <3>2
    <2>7. Cardinality(In(T \cup {x})) <= Sum(f, T \cup {x})
      <3>1. /\ Cardinality(In(T)) \in Nat /\ Cardinality(Here) \in Nat
            /\ Cardinality(In(T) \cup Here) \in Nat
        BY <2>3, FS_CardinalityType, FS_Union
      <3>2. Cardinality(In(T)) + Cardinality(Here) <= Sum(f, T) + f[x]
        BY <2>2, <2>5, <3>1
      <3>3. Cardinality(In(T) \cup Here) <= Sum(f, T) + f[x]
        BY <2>2, <2>5, <2>6, <3>1, <3>2
      <3>4. Cardinality(In(T \cup {x})) = Cardinality(In(T) \cup Here)
        BY <2>4
      <3>5. QED
        BY <2>2, <2>5, <3>3, <3>4
    <2>8. QED
      BY <2>1, <2>7 DEF Good
  <1> HIDE DEF Good
  <1>3. S \in Good
    BY <1>1, <1>2, AllSubsets
  <1>4. QED
    BY <1>3 DEF Good
=============================================================================
