------------------------ MODULE ArithmeticTheorems ------------------------
(***************************************************************************)
(* What the proofs share: division and periods, the least element of a set *)
(* of numbers and induction from it, sums of functions over finite sets,   *)
(* the rounding of sdk.Dec: it is monotone, exact on whole numbers and off *)
(* by a half at most; and, from these, that shares of an amount add up to  *)
(* no more than it and that majorities overlap.  Induction is over a set,  *)
(* not a predicate: P is the set of those for which the claim holds.       *)
(***************************************************************************)
EXTENDS Dec, Periods, FiniteSetsExt, FiniteSetTheorems, WellFoundedInduction, TLAPS

-----------------------------------------------------------------------------
(* Division and periods *)

\* Euclidean division is unique.
LEMMA DivUnique ==
    ASSUME NEW p \in Nat \ {0}, NEW a \in Int, NEW q \in Int, NEW r \in Int,
           a = q * p + r, 0 <= r, r < p
    PROVE  a \div p = q /\ a % p = r
  BY Z3

\* A number is its quotient times the divisor, plus its remainder.
LEMMA DivDef ==
    ASSUME NEW p \in Nat \ {0}, NEW a \in Nat
    PROVE  /\ a \div p \in Nat /\ (a % p) \in 0..(p - 1)
           /\ a = (a \div p) * p + (a % p)
  BY Z3

\* Multiples: dividing one is exact, and a number without remainder is one.
LEMMA DivMultiple ==
    ASSUME NEW p \in Nat \ {0}, NEW q \in Int
    PROVE  (q * p) \div p = q /\ (q * p) % p = 0
  <1>1. q * p \in Int /\ q * p = q * p + 0
    BY Z3
  <1> QED BY <1>1, DivUnique, Z3

LEMMA DivWhole ==
    ASSUME NEW p \in Nat \ {0}, NEW a \in Nat, a % p = 0
    PROVE  a \div p \in Nat /\ a = (a \div p) * p
  <1> DEFINE q == a \div p
             r == a % p
  <1>1. q \in Nat /\ a = q * p + r
    BY DivDef
  <1>2. r = 0
    OBVIOUS
  <1> HIDE DEF q, r
  <1>3. q * p \in Int
    BY <1>1, Z3
  <1> QED BY <1>1, <1>2, <1>3 DEF q

\* Division is monotone.
LEMMA DivMonotone ==
    ASSUME NEW p \in Nat \ {0}, NEW a \in Nat, NEW b \in Nat, a <= b
    PROVE  a \div p <= b \div p
  BY Z3

\* So is multiplication by a natural number.
LEMMA TimesMonotone ==
    ASSUME NEW p \in Nat, NEW a \in Int, NEW b \in Int, a <= b
    PROVE  a * p \in Int /\ b * p \in Int /\ a * p <= b * p
  BY Z3

\* A quotient is below a bound exactly when the number is below the bound's multiple.
LEMMA DivBelow ==
    ASSUME NEW p \in Nat \ {0}, NEW a \in Nat, NEW m \in Int
    PROVE  a \div p < m <=> a < m * p
  <1> DEFINE q == a \div p
             r == a % p
  <1>1. q \in Nat /\ r \in 0..(p - 1) /\ a = q * p + r
    BY DivDef, Zenon
  <1> HIDE DEF q, r
  <1>2. CASE q < m
    <2>1. q + 1 <= m
      BY <1>1, <1>2
    <2>2. (q + 1) * p <= m * p /\ m * p \in Int
      BY <1>1, <2>1, TimesMonotone
    <2>3. (q + 1) * p = q * p + p /\ q * p \in Int
      BY <1>1, Z3
    <2> QED BY <1>1, <1>2, <2>2, <2>3 DEF q
  <1>3. CASE m <= q
    <2>1. m * p <= q * p /\ m * p \in Int /\ q * p \in Int
      BY <1>1, <1>3, TimesMonotone
    <2> QED BY <1>1, <1>3, <2>1 DEF q
  <1> QED BY <1>1, <1>2, <1>3

\* The last block of a period is the only one after which the period changes.
LEMMA NextPeriod ==
    ASSUME NEW p \in Nat \ {0}, NEW h \in Nat
    PROVE  /\ IsPeriodLastBlock(h, p) => (h + 1) \div p = h \div p + 1
           /\ ~IsPeriodLastBlock(h, p) => (h + 1) \div p = h \div p
  <1> DEFINE q == h \div p
             r == h % p
  <1>1. q \in Nat /\ r \in 0..(p - 1) /\ h = q * p + r
    BY DivDef, Zenon
  <1> HIDE DEF q, r
  <1>2. CASE r = p - 1
    <2>1. h + 1 = (q + 1) * p + 0
      BY <1>1, <1>2, Z3
    <2>2. (h + 1) \div p = q + 1 /\ (h + 1) % p = 0
      BY <1>1, <2>1, DivUnique
    <2> QED BY <2>2 DEF IsPeriodLastBlock, q
  <1>3. CASE r # p - 1
    <2>1. h + 1 = q * p + (r + 1) /\ 0 <= r + 1 /\ r + 1 < p
      BY <1>1, <1>3, Z3
    <2>2. (h + 1) \div p = q /\ (h + 1) % p = r + 1
      BY <1>1, <2>1, DivUnique
    <2> QED BY <1>1, <2>2 DEF IsPeriodLastBlock, q
  <1> QED BY <1>2, <1>3


-----------------------------------------------------------------------------
(* Induction *)

\* Every set of natural numbers has a least element.
LEMMA Least ==
    ASSUME NEW T \in SUBSET Nat, T # {}
    PROVE  \E n \in T : \A m \in T : n <= m
  <1>1. \E x \in T : \A y \in T : ~(<<y, x>> \in OpToRel(<, Nat))
    BY NatLessThanWellFounded, WFMin, Zenon
  <1>2. \A x, y \in Nat : <<y, x>> \in OpToRel(<, Nat) <=> y < x
    BY DEF OpToRel
  <1>3. \E x \in T : \A y \in T : ~(y < x)
    BY <1>1, <1>2, Zenon
  <1> QED BY <1>3

\* Induction on the natural numbers.
LEMMA SetInduction ==
    ASSUME NEW P, 0 \in P, \A n \in Nat : n \in P => n + 1 \in P
    PROVE  Nat \subseteq P
  <1> SUFFICES ASSUME Nat \ P # {} PROVE FALSE
    OBVIOUS
  <1>1. PICK n \in Nat \ P : \A m \in Nat \ P : n <= m
    BY Least, Zenon
  <1>2. n # 0 /\ n - 1 \in Nat
    BY <1>1
  <1>3. n - 1 \in P
    BY <1>1, <1>2
  <1> QED BY <1>1, <1>2, <1>3

\* Induction on the subsets of a finite set, from the smaller ones to the larger.
LEMMA SubsetInduction ==
    ASSUME NEW S, IsFiniteSet(S), NEW P,
           \A T \in SUBSET S : (\A U \in SUBSET T : U # T => U \in P) => T \in P
    PROVE  SUBSET S \subseteq P
  <1> SUFFICES ASSUME NEW B \in SUBSET S, B \notin P PROVE FALSE
    OBVIOUS
  <1> DEFINE Bad == {T \in SUBSET S : T \notin P}
             N == {Cardinality(T) : T \in Bad}
  <1>1. \A T \in SUBSET S : IsFiniteSet(T) /\ Cardinality(T) \in Nat
    BY FS_Subset, FS_CardinalityType
  <1>2. N \in SUBSET Nat /\ N # {}
    BY <1>1
  <1>3. PICK n \in N : \A m \in N : n <= m
    <2> HIDE DEF N
    <2> QED BY <1>2, Least
  <1>4. PICK T \in Bad : n = Cardinality(T)
    BY <1>3
  <1>5. ASSUME NEW U \in SUBSET T, U # T
        PROVE  U \in P
    <2>1. IsFiniteSet(T) /\ Cardinality(T) \in Nat /\ U \in SUBSET S
      BY <1>1, <1>4
    <2>2. Cardinality(U) < Cardinality(T)
      <3>1. Cardinality(U) <= Cardinality(T) /\ Cardinality(U) # Cardinality(T)
        BY <1>5, <2>1, FS_Subset
      <3> QED BY <1>1, <2>1, <3>1
    <2>3. Cardinality(U) \notin N
      BY <1>1, <1>3, <1>4, <2>1, <2>2
    <2> QED BY <2>1, <2>3
  <1> QED BY <1>4, <1>5

-----------------------------------------------------------------------------
(* Sums *)

\* A function of the subsets of S that starts from base and applies h[x] for each element x,
\* taking the elements in the order in which the library's folds do.
IsFold(g, h, base, R, S) ==
    /\ g \in [SUBSET S -> R]
    /\ \A T \in SUBSET S :
          g[T] = IF T = {} THEN base
                 ELSE h[CHOOSE x \in T : TRUE][g[T \ {CHOOSE x \in T : TRUE}]]

\* There is one.
LEMMA FoldExists ==
    ASSUME NEW S, IsFiniteSet(S), NEW R, NEW base \in R, NEW h, \A x \in S : h[x] \in [R -> R]
    PROVE  \E g : IsFold(g, h, base, R, S)
  <1> DEFINE c(T) == CHOOSE x \in T : TRUE
             D(n) == {T \in SUBSET S : Cardinality(T) <= n}
             Folds(g, n) == /\ g \in [D(n) -> R]
                            /\ \A T \in D(n) : g[T] = IF T = {} THEN base ELSE h[c(T)][g[T \ {c(T)}]]
             P == {n \in Nat : \E g : Folds(g, n)}
  <1>1. \A T \in SUBSET S : /\ IsFiniteSet(T) /\ Cardinality(T) \in Nat
                            /\ Cardinality(T) = 0 <=> T = {}
    BY FS_Subset, FS_CardinalityType, FS_EmptySet
  <1>2. \A T \in SUBSET S : T # {} => /\ c(T) \in T /\ T \ {c(T)} \in SUBSET S
                                      /\ Cardinality(T \ {c(T)}) = Cardinality(T) - 1
    <2> TAKE T \in SUBSET S
    <2> HAVE T # {}
    <2>1. c(T) \in T
      OBVIOUS
    <2> HIDE DEF c
    <2> QED BY <1>1, <2>1, FS_RemoveElement
  <1> HIDE DEF c
  <1>3. 0 \in P
    <2> DEFINE g == [T \in D(0) |-> base]
    <2>1. \A T \in D(0) : T = {}
      BY <1>1
    <2>2. Folds(g, 0)
      BY <2>1
    <2> QED BY <2>2, Zenon
  <1>4. ASSUME NEW n \in Nat, n \in P
        PROVE  n + 1 \in P
    <2>1. PICK g : Folds(g, n)
      BY <1>4, Zenon
    <2> DEFINE k == [T \in D(n + 1) |-> IF T \in D(n) THEN g[T] ELSE h[c(T)][g[T \ {c(T)}]]]
    <2>2. \A T \in D(n + 1) : T \notin D(n) => T # {} /\ T \ {c(T)} \in D(n)
      BY <1>1, <1>2
    <2>3. \A T \in D(n) : T \in D(n + 1) /\ (T # {} => T \ {c(T)} \in D(n))
      BY <1>1, <1>2
    <2>4. \A T \in D(n + 1) : k[T] \in R
      <3> TAKE T \in D(n + 1)
      <3>1. CASE T \in D(n)
        BY <2>1, <3>1
      <3>2. CASE T \notin D(n)
        <4>1. g[T \ {c(T)}] \in R
          BY <2>1, <2>2, <3>2
        <4>2. h[c(T)] \in [R -> R]
          BY <1>2, <2>2, <3>2
        <4> QED BY <3>2, <4>1, <4>2
      <3> QED BY <3>1, <3>2
    <2>5. \A T \in D(n + 1) : k[T] = IF T = {} THEN base ELSE h[c(T)][k[T \ {c(T)}]]
      <3> TAKE T \in D(n + 1)
      <3>1. CASE T \in D(n)
        <4>1. k[T] = g[T] /\ (T # {} => k[T \ {c(T)}] = g[T \ {c(T)}])
          BY <2>3, <3>1, Zenon
        <4> QED BY <2>1, <3>1, <4>1, Zenon
      <3>2. CASE T \notin D(n)
        <4>1. k[T \ {c(T)}] = g[T \ {c(T)}]
          BY <2>2, <2>3, <3>2, Zenon
        <4>2. k[T] = h[c(T)][g[T \ {c(T)}]]
          BY <3>2
        <4> QED BY <2>2, <3>2, <4>1, <4>2
      <3> QED BY <3>1, <3>2
    <2>6. k \in [D(n + 1) -> R]
      BY <2>4, Zenon
    <2> HIDE DEF k
    <2>7. Folds(k, n + 1)
      BY <2>5, <2>6
    <2> HIDE DEF Folds
    <2> QED BY <2>7
  <1>5. Cardinality(S) \in P
    <2>1. Nat \subseteq P
      <3> HIDE DEF P
      <3> QED BY <1>3, <1>4, SetInduction
    <2> QED BY <1>1, <2>1, Zenon
  <1>6. D(Cardinality(S)) = SUBSET S
    BY FS_Subset
  <1>7. PICK g : Folds(g, Cardinality(S))
    BY <1>5, Zenon
  <1> QED BY <1>6, <1>7, ZenonT(30) DEF IsFold, c

\* A function of the subsets of S that adds f up.
IsSum(g, f, S) ==
    /\ g \in [SUBSET S -> Int]
    /\ \A T \in SUBSET S :
          g[T] = IF T = {} THEN 0
                 ELSE f[CHOOSE x \in T : TRUE] + g[T \ {CHOOSE x \in T : TRUE}]

LEMMA SumExists ==
    ASSUME NEW S, IsFiniteSet(S), NEW f, \A x \in S : f[x] \in Int
    PROVE  \E g : IsSum(g, f, S)
  <1> DEFINE h == [x \in S |-> [n \in Int |-> f[x] + n]]
  <1>1. \A x \in S : h[x] \in [Int -> Int] /\ \A n \in Int : h[x][n] = f[x] + n
    OBVIOUS
  <1> HIDE DEF h
  <1>2. PICK g : IsFold(g, h, 0, Int, S)
    BY <1>1, FoldExists
  <1>3. ASSUME NEW T \in SUBSET S
        PROVE  g[T] = IF T = {} THEN 0
                      ELSE f[CHOOSE x \in T : TRUE] + g[T \ {CHOOSE x \in T : TRUE}]
    <2>1. CASE T = {}
      BY <1>2, <2>1, Zenon DEF IsFold
    <2>2. CASE T # {}
      <3> DEFINE c == CHOOSE x \in T : TRUE
      <3>1. c \in S /\ g[T] = h[c][g[T \ {c}]] /\ g[T \ {c}] \in Int
        BY <1>2, <2>2 DEF IsFold
      <3> HIDE DEF c
      <3>2. g[T] = f[c] + g[T \ {c}]
        BY <1>1, <3>1
      <3> QED BY <2>2, <3>2 DEF c
    <2> QED BY <2>1, <2>2
  <1> QED BY <1>2, <1>3, ZenonT(30) DEF IsFold, IsSum

\* SumFunctionOnSet is its value for the whole set.
LEMMA SumIs ==
    ASSUME NEW S, IsFiniteSet(S), NEW f, \A x \in S : f[x] \in Int
    PROVE  \E g : IsSum(g, f, S) /\ SumFunctionOnSet(f, S) = g[S]
  <1> DEFINE Iter(g) == g = [s \in SUBSET S |->
                               IF s = {} THEN 0
                               ELSE f[CHOOSE x \in s : TRUE] + g[s \ {CHOOSE x \in s : TRUE}]]
             iter == CHOOSE g : Iter(g)
  <1>1. PICK g : IsSum(g, f, S)
    BY SumExists
  <1>2. Iter(g)
    BY <1>1 DEF IsSum
  <1>3. Iter(iter)
    <2> HIDE DEF Iter
    <2> QED BY <1>2
  <1>4. SumFunctionOnSet(f, S) = iter[S]
    BY DEF SumFunctionOnSet, FoldFunctionOnSet, MapThenFoldSet
  <1> HIDE DEF iter
  <1>5. \A T \in SUBSET S : iter[T] = g[T]
    <2> DEFINE P == {T \in SUBSET S : iter[T] = g[T]}
    <2>1. ASSUME NEW T \in SUBSET S, \A U \in SUBSET T : U # T => U \in P
          PROVE  T \in P
      <3>1. CASE T = {}
        BY <1>2, <1>3, <3>1
      <3>2. CASE T # {}
        <4> DEFINE c == CHOOSE x \in T : TRUE
        <4>1. c \in T
          BY <3>2
        <4>2. iter[T] = f[c] + iter[T \ {c}] /\ g[T] = f[c] + g[T \ {c}]
          BY <1>2, <1>3, <3>2
        <4> HIDE DEF c
        <4>3. T \ {c} \in P
          BY <2>1, <4>1
        <4> QED BY <4>2, <4>3
      <3> QED BY <3>1, <3>2
    <2> HIDE DEF P
    <2>2. SUBSET S \subseteq P
      BY <2>1, SubsetInduction
    <2> QED BY <2>2 DEF P
  <1> QED BY <1>1, <1>4, <1>5

\* The order does not matter.
LEMMA SumAnyOrder ==
    ASSUME NEW S, IsFiniteSet(S), NEW f, \A x \in S : f[x] \in Int, NEW g, IsSum(g, f, S)
    PROVE  \A T \in SUBSET S : \A x \in T : g[T] = f[x] + g[T \ {x}]
  <1> DEFINE P == {T \in SUBSET S : \A x \in T : g[T] = f[x] + g[T \ {x}]}
  <1>1. ASSUME NEW T \in SUBSET S, \A U \in SUBSET T : U # T => U \in P, NEW x \in T
        PROVE  g[T] = f[x] + g[T \ {x}]
    <2> DEFINE c == CHOOSE y \in T : TRUE
    <2>1. c \in T /\ g[T] = f[c] + g[T \ {c}]
      BY DEF IsSum
    <2> HIDE DEF c
    <2>2. CASE x = c
      BY <2>1, <2>2
    <2>3. CASE x # c
      <3>1. T \ {c} \in P /\ T \ {x} \in P
        BY <1>1, <2>1
      <3> DEFINE rest == (T \ {x}) \ {c}
      <3>2. (T \ {c}) \ {x} = rest /\ rest \in SUBSET S
        OBVIOUS
      <3>3. g[T \ {c}] = f[x] + g[rest]
        <4>1. g[T \ {c}] = f[x] + g[(T \ {c}) \ {x}]
          BY <2>1, <2>3, <3>1, Zenon
        <4> QED BY <3>2, <4>1, Zenon
      <3>4. g[T \ {x}] = f[c] + g[rest]
        BY <2>1, <2>3, <3>1, Zenon
      <3>5. f[x] \in Int /\ f[c] \in Int /\ g[rest] \in Int
        BY <2>1, <3>2 DEF IsSum
      <3> HIDE DEF rest
      <3> QED BY <2>1, <3>3, <3>4, <3>5
    <2> QED BY <2>2, <2>3
  <1>2. \A T \in SUBSET S : (\A U \in SUBSET T : U # T => U \in P) => T \in P
    BY <1>1, Zenon
  <1> HIDE DEF P
  <1>3. SUBSET S \subseteq P
    BY <1>2, SubsetInduction
  <1> QED BY <1>3, Zenon DEF P

\* Sums over a part of both sets, of functions that agree there, agree.
LEMMA SumsAgree ==
    ASSUME NEW S, IsFiniteSet(S), NEW A, NEW B, S \subseteq A, S \subseteq B,
           NEW f, NEW h, \A x \in S : f[x] = h[x],
           NEW g, NEW k, IsSum(g, f, A), IsSum(k, h, B)
    PROVE  g[S] = k[S]
  <1> DEFINE P == {T \in SUBSET S : g[T] = k[T]}
  <1>1. ASSUME NEW T \in SUBSET S, \A U \in SUBSET T : U # T => U \in P
        PROVE  T \in P
    <2>1. CASE T = {}
      BY <2>1 DEF IsSum
    <2>2. CASE T # {}
      <3> DEFINE c == CHOOSE x \in T : TRUE
      <3>1. c \in T
        BY <2>2
      <3>2. g[T] = f[c] + g[T \ {c}] /\ k[T] = h[c] + k[T \ {c}]
        BY <2>2 DEF IsSum
      <3> HIDE DEF c
      <3>3. T \ {c} \in P /\ f[c] = h[c]
        BY <1>1, <3>1
      <3> QED BY <3>2, <3>3
    <2> QED BY <2>1, <2>2
  <1> HIDE DEF P
  <1>2. SUBSET S \subseteq P
    BY <1>1, SubsetInduction
  <1> QED BY <1>2 DEF P

\* A sum of integers is an integer, one of natural numbers a natural number.
LEMMA SumType ==
    ASSUME NEW S, IsFiniteSet(S), NEW f, \A x \in S : f[x] \in Int
    PROVE  SumFunctionOnSet(f, S) \in Int
  <1>1. PICK g : IsSum(g, f, S) /\ SumFunctionOnSet(f, S) = g[S]
    BY SumIs
  <1> QED BY <1>1 DEF IsSum

\* The sum over nothing.
LEMMA SumEmpty ==
    ASSUME NEW f
    PROVE  SumFunctionOnSet(f, {}) = 0
  <1>1. PICK g : IsSum(g, f, {}) /\ SumFunctionOnSet(f, {}) = g[{}]
    BY SumIs, FS_EmptySet
  <1> QED BY <1>1 DEF IsSum

\* One element more or less.
LEMMA SumRemove ==
    ASSUME NEW S, IsFiniteSet(S), NEW f, \A x \in S : f[x] \in Int, NEW x \in S
    PROVE  SumFunctionOnSet(f, S) = f[x] + SumFunctionOnSet(f, S \ {x})
  <1> DEFINE R == S \ {x}
  <1>1. IsFiniteSet(R) /\ R \subseteq S /\ \A y \in R : f[y] \in Int
    BY FS_RemoveElement
  <1>2. PICK g : IsSum(g, f, S) /\ SumFunctionOnSet(f, S) = g[S]
    BY SumIs
  <1>3. g[S] = f[x] + g[R]
    BY <1>2, SumAnyOrder
  <1> HIDE DEF R
  <1>4. PICK k : IsSum(k, f, R) /\ SumFunctionOnSet(f, R) = k[R]
    BY <1>1, SumIs
  <1>5. g[R] = k[R]
    BY <1>1, <1>2, <1>4, SumsAgree
  <1> QED BY <1>2, <1>3, <1>4, <1>5 DEF R

\* Functions that agree on a set have the same sum.
LEMMA SumSame ==
    ASSUME NEW S, IsFiniteSet(S), NEW f, \A x \in S : f[x] \in Int,
           NEW h, \A x \in S : h[x] = f[x]
    PROVE  SumFunctionOnSet(h, S) = SumFunctionOnSet(f, S)
  <1>1. PICK g : IsSum(g, f, S) /\ SumFunctionOnSet(f, S) = g[S]
    BY SumIs
  <1>2. PICK k : IsSum(k, h, S) /\ SumFunctionOnSet(h, S) = k[S]
    BY SumIs
  <1>3. g[S] = k[S]
    BY <1>1, <1>2, SumsAgree
  <1> QED BY <1>1, <1>2, <1>3

\* A change of one value changes the sum by as much.
LEMMA SumUpdate ==
    ASSUME NEW S, IsFiniteSet(S), NEW f, \A x \in S : f[x] \in Int,
           NEW x \in S, NEW h, h[x] \in Int, \A y \in S \ {x} : h[y] = f[y]
    PROVE  SumFunctionOnSet(h, S) = SumFunctionOnSet(f, S) + (h[x] - f[x])
  <1> DEFINE R == S \ {x}
  <1>1. IsFiniteSet(R) /\ \A y \in R : f[y] \in Int /\ h[y] = f[y]
    BY FS_RemoveElement
  <1>2. SumFunctionOnSet(f, S) = f[x] + SumFunctionOnSet(f, R)
    BY SumRemove
  <1>3. SumFunctionOnSet(h, S) = h[x] + SumFunctionOnSet(h, R)
    <2>1. \A y \in S : h[y] \in Int
      BY <1>1
    <2> QED BY <2>1, SumRemove
  <1> HIDE DEF R
  <1>4. SumFunctionOnSet(h, R) = SumFunctionOnSet(f, R) /\ SumFunctionOnSet(f, R) \in Int
    BY <1>1, SumSame, SumType
  <1> QED BY <1>2, <1>3, <1>4

\* Sums are monotone.
LEMMA SumMonotone ==
    ASSUME NEW S, IsFiniteSet(S), NEW f, \A x \in S : f[x] \in Int,
           NEW h, \A x \in S : h[x] \in Int /\ f[x] <= h[x]
    PROVE  SumFunctionOnSet(f, S) <= SumFunctionOnSet(h, S)
  <1> DEFINE P == {T \in SUBSET S : SumFunctionOnSet(f, T) <= SumFunctionOnSet(h, T)}
  <1>1. ASSUME NEW T \in SUBSET S, \A U \in SUBSET T : U # T => U \in P
        PROVE  T \in P
    <2>1. CASE T = {}
      BY <2>1, SumEmpty
    <2>2. CASE T # {}
      <3>1. PICK x \in T : TRUE
        BY <2>2
      <3> DEFINE R == T \ {x}
      <3>2. IsFiniteSet(T) /\ IsFiniteSet(R) /\ R \in P
        BY <1>1, <3>1, FS_Subset
      <3>3. /\ SumFunctionOnSet(f, T) = f[x] + SumFunctionOnSet(f, R)
            /\ SumFunctionOnSet(h, T) = h[x] + SumFunctionOnSet(h, R)
        BY <3>1, <3>2, SumRemove
      <3>4. \A y \in R : f[y] \in Int /\ h[y] \in Int
        OBVIOUS
      <3> HIDE DEF R
      <3>5. SumFunctionOnSet(f, R) \in Int /\ SumFunctionOnSet(h, R) \in Int
        BY <3>2, <3>4, SumType
      <3>6. SumFunctionOnSet(f, R) <= SumFunctionOnSet(h, R)
        BY <3>2
      <3>7. SumFunctionOnSet(f, T) <= SumFunctionOnSet(h, T)
        BY <3>1, <3>3, <3>5, <3>6
      <3> QED BY <3>7
    <2> QED BY <2>1, <2>2
  <1> HIDE DEF P
  <1>2. SUBSET S \subseteq P
    BY <1>1, SubsetInduction
  <1> QED BY <1>2 DEF P

\* The sum of nothing but zeros.
LEMMA SumZero ==
    ASSUME NEW S, IsFiniteSet(S), NEW f, \A x \in S : f[x] = 0
    PROVE  SumFunctionOnSet(f, S) = 0
  <1> DEFINE P == {T \in SUBSET S : SumFunctionOnSet(f, T) = 0}
  <1>1. ASSUME NEW T \in SUBSET S, \A U \in SUBSET T : U # T => U \in P
        PROVE  T \in P
    <2>1. CASE T = {}
      BY <2>1, SumEmpty
    <2>2. CASE T # {}
      <3>1. PICK x \in T : TRUE
        BY <2>2
      <3>2. IsFiniteSet(T) /\ T \ {x} \in P
        BY <1>1, <3>1, FS_Subset
      <3>3. SumFunctionOnSet(f, T) = f[x] + SumFunctionOnSet(f, T \ {x})
        BY <3>1, <3>2, SumRemove
      <3> QED BY <3>1, <3>2, <3>3
    <2> QED BY <2>1, <2>2
  <1> HIDE DEF P
  <1>2. SUBSET S \subseteq P
    BY <1>1, SubsetInduction
  <1> QED BY <1>2 DEF P

\* And of nothing below zero.
LEMMA SumNat ==
    ASSUME NEW S, IsFiniteSet(S), NEW f, \A x \in S : f[x] \in Nat
    PROVE  SumFunctionOnSet(f, S) \in Nat
  <1> DEFINE z == [x \in S |-> 0]
  <1>1. SumFunctionOnSet(z, S) = 0
    BY SumZero
  <1>2. \A x \in S : z[x] \in Int /\ f[x] \in Int /\ z[x] <= f[x]
    OBVIOUS
  <1> HIDE DEF z
  <1>3. SumFunctionOnSet(z, S) <= SumFunctionOnSet(f, S) /\ SumFunctionOnSet(f, S) \in Int
    BY <1>2, SumMonotone, SumType
  <1> QED BY <1>1, <1>3

\* A part of a sum, and the rest.
LEMMA SumSplit ==
    ASSUME NEW S, IsFiniteSet(S), NEW f, \A x \in S : f[x] \in Int, NEW T \in SUBSET S
    PROVE  /\ SumFunctionOnSet(f, T) \in Int /\ SumFunctionOnSet(f, S \ T) \in Int
           /\ SumFunctionOnSet(f, S) = SumFunctionOnSet(f, T) + SumFunctionOnSet(f, S \ T)
  <1> DEFINE In(U) == SumFunctionOnSet(f, U \cap T)
             Out(U) == SumFunctionOnSet(f, U \ T)
             P == {U \in SUBSET S : SumFunctionOnSet(f, U) = In(U) + Out(U)}
  <1>1. ASSUME NEW U \in SUBSET S
        PROVE  /\ IsFiniteSet(U) /\ \A x \in U : f[x] \in Int
               /\ SumFunctionOnSet(f, U) \in Int
    BY FS_Subset, SumType
  <1>2. ASSUME NEW U \in SUBSET S, \A V \in SUBSET U : V # U => V \in P
        PROVE  U \in P
    <2>1. CASE U = {}
      <3>1. U \cap T = {} /\ U \ T = {}
        BY <2>1
      <3>2. SumFunctionOnSet(f, U) = 0 /\ In(U) = 0 /\ Out(U) = 0
        BY <2>1, <3>1, SumEmpty
      <3> QED BY <3>2
    <2>2. CASE U # {}
      <3>1. PICK x \in U : TRUE
        BY <2>2
      <3> DEFINE R == U \ {x}
      <3>2. R \in P /\ R \in SUBSET S
        BY <1>2
      <3>3. SumFunctionOnSet(f, U) = f[x] + SumFunctionOnSet(f, R)
        BY <1>1, SumRemove
      <3>4. SumFunctionOnSet(f, R) = In(R) + Out(R)
        BY <3>2
      <3>5. In(R) \in Int /\ Out(R) \in Int /\ f[x] \in Int
        <4>1. R \cap T \in SUBSET S /\ R \ T \in SUBSET S
          BY <3>2
        <4> QED BY <1>1, <4>1
      <3>6. CASE x \in T
        <4>1. (U \cap T) \ {x} = R \cap T /\ U \ T = R \ T /\ x \in U \cap T
              /\ U \cap T \in SUBSET S
          BY <3>6
        <4>2. In(U) = f[x] + In(R)
          BY <1>1, <4>1, SumRemove
        <4>3. Out(U) = Out(R)
          BY <4>1
        <4> HIDE DEF In, Out, R
        <4>4. SumFunctionOnSet(f, U) = In(U) + Out(U)
          BY <3>3, <3>4, <3>5, <4>2, <4>3
        <4> QED BY <4>4 DEF In, Out
      <3>7. CASE x \notin T
        <4>1. (U \ T) \ {x} = R \ T /\ U \cap T = R \cap T /\ x \in U \ T
              /\ U \ T \in SUBSET S
          BY <3>7
        <4>2. Out(U) = f[x] + Out(R)
          BY <1>1, <4>1, SumRemove
        <4>3. In(U) = In(R)
          BY <4>1
        <4> HIDE DEF In, Out, R
        <4>4. SumFunctionOnSet(f, U) = In(U) + Out(U)
          BY <3>3, <3>4, <3>5, <4>2, <4>3
        <4> QED BY <4>4 DEF In, Out
      <3> QED BY <3>6, <3>7
    <2> QED BY <2>1, <2>2
  <1> HIDE DEF P
  <1>3. SUBSET S \subseteq P
    BY <1>2, SubsetInduction
  <1>4. S \in P /\ S \cap T = T /\ S \ T \in SUBSET S
    BY <1>3
  <1> QED BY <1>1, <1>4, Zenon DEF P

\* A part of a sum of natural numbers is no greater.
LEMMA SumPart ==
    ASSUME NEW S, IsFiniteSet(S), NEW f, \A x \in S : f[x] \in Nat, NEW T \in SUBSET S
    PROVE  /\ SumFunctionOnSet(f, T) \in Nat /\ SumFunctionOnSet(f, S) \in Nat
           /\ SumFunctionOnSet(f, T) <= SumFunctionOnSet(f, S)
  <1>1. \A x \in S : f[x] \in Int
    OBVIOUS
  <1>2. IsFiniteSet(T) /\ IsFiniteSet(S \ T) /\ \A x \in S \ T : f[x] \in Nat
    BY FS_Subset, FS_Difference
  <1>3. /\ SumFunctionOnSet(f, S) \in Nat /\ SumFunctionOnSet(f, T) \in Nat
        /\ SumFunctionOnSet(f, S \ T) \in Nat
    BY <1>2, SumNat
  <1>4. SumFunctionOnSet(f, S) = SumFunctionOnSet(f, T) + SumFunctionOnSet(f, S \ T)
    BY <1>1, SumSplit
  <1> QED BY <1>3, <1>4

\* The sum of a linear function of the terms.
LEMMA SumLinear ==
    ASSUME NEW S, IsFiniteSet(S), NEW f, \A x \in S : f[x] \in Int,
           NEW k \in Int, NEW c \in Int, NEW h, \A x \in S : h[x] = k * f[x] + c
    PROVE  SumFunctionOnSet(h, S) = k * SumFunctionOnSet(f, S) + c * Cardinality(S)
  <1> DEFINE P == {U \in SUBSET S : SumFunctionOnSet(h, U)
                                     = k * SumFunctionOnSet(f, U) + c * Cardinality(U)}
  <1>1. ASSUME NEW U \in SUBSET S
        PROVE  /\ IsFiniteSet(U) /\ \A x \in U : f[x] \in Int /\ h[x] = k * f[x] + c
               /\ SumFunctionOnSet(f, U) \in Int /\ Cardinality(U) \in Nat
    BY FS_Subset, FS_CardinalityType, SumType
  <1>2. \A x \in S : h[x] \in Int
    <2> TAKE x \in S
    <2>1. k * f[x] \in Int
      BY Z3
    <2> QED BY <2>1
  <1>3. ASSUME NEW U \in SUBSET S, \A V \in SUBSET U : V # U => V \in P
        PROVE  U \in P
    <2>1. CASE U = {}
      <3>1. SumFunctionOnSet(f, U) = 0 /\ SumFunctionOnSet(h, U) = 0 /\ Cardinality(U) = 0
        BY <2>1, SumEmpty, FS_EmptySet
      <3> QED BY <3>1
    <2>2. CASE U # {}
      <3>1. PICK x \in U : TRUE
        BY <2>2
      <3> DEFINE R == U \ {x}
                 a == SumFunctionOnSet(f, R)
                 n == Cardinality(R)
      <3>2. R \in P /\ R \in SUBSET S
        BY <1>3
      <3>3. /\ SumFunctionOnSet(f, U) = f[x] + a
            /\ SumFunctionOnSet(h, U) = h[x] + SumFunctionOnSet(h, R)
        BY <1>1, <1>2, SumRemove, ZenonT(30)
      <3>4. Cardinality(U) = n + 1 /\ n \in Nat
        BY <1>1, <3>2, FS_RemoveElement
      <3>5. SumFunctionOnSet(h, R) = k * a + c * n /\ a \in Int /\ f[x] \in Int
            /\ h[x] = k * f[x] + c
        BY <1>1, <3>2
      <3> HIDE DEF a, n, R
      <3>6. (k * f[x] + c) + (k * a + c * n) = k * (f[x] + a) + c * (n + 1)
        BY <3>4, <3>5, Z3
      <3>7. SumFunctionOnSet(h, U) = k * SumFunctionOnSet(f, U) + c * Cardinality(U)
        BY <3>3, <3>4, <3>5, <3>6
      <3> QED BY <3>7
    <2> QED BY <2>1, <2>2
  <1> HIDE DEF P
  <1>4. SUBSET S \subseteq P
    BY <1>3, SubsetInduction
  <1> QED BY <1>4 DEF P

\* The same terms under other names, no name twice.
LEMMA SumRenamed ==
    ASSUME NEW S, IsFiniteSet(S), NEW f, \A x \in S : f[x] \in Int,
           NEW g, \A x, y \in S : g[x] = g[y] => x = y,
           NEW h, \A x \in S : h[g[x]] = f[x],
           NEW T, \A x \in S : g[x] \in T, \A y \in T : \E x \in S : y = g[x]
    PROVE  SumFunctionOnSet(h, T) = SumFunctionOnSet(f, S)
  <1> DEFINE Im(U) == {g[x] : x \in U}
             P == {U \in SUBSET S : SumFunctionOnSet(h, Im(U)) = SumFunctionOnSet(f, U)}
  <1>1. ASSUME NEW U \in SUBSET S
        PROVE  /\ IsFiniteSet(U) /\ IsFiniteSet(Im(U))
               /\ \A y \in Im(U) : h[y] \in Int
    <2>1. IsFiniteSet(U)
      BY FS_Subset
    <2> DEFINE gU == [x \in U |-> g[x]]
    <2>2. gU \in Surjection(U, Im(U))
      BY DEF Surjection
    <2>3. IsFiniteSet(Im(U))
      BY <2>1, <2>2, FS_Surjection
    <2> QED BY <2>1, <2>3
  <1>2. ASSUME NEW U \in SUBSET S, \A V \in SUBSET U : V # U => V \in P
        PROVE  U \in P
    <2>1. CASE U = {}
      <3>1. Im(U) = {}
        BY <2>1
      <3> QED BY <2>1, <3>1, SumEmpty
    <2>2. CASE U # {}
      <3>1. PICK x \in U : TRUE
        BY <2>2
      <3> DEFINE R == U \ {x}
      <3>2. R \in P /\ R \in SUBSET S /\ x \in S
        BY <1>2
      <3>3. g[x] \in Im(U) /\ Im(R) = Im(U) \ {g[x]}
        BY <3>2
      <3>4. SumFunctionOnSet(f, U) = f[x] + SumFunctionOnSet(f, R)
        BY <1>1, SumRemove, ZenonT(30)
      <3>5. SumFunctionOnSet(h, Im(U)) = h[g[x]] + SumFunctionOnSet(h, Im(U) \ {g[x]})
        <4> HIDE DEF Im
        <4> QED BY <1>1, <3>3, SumRemove
      <3>6. SumFunctionOnSet(h, Im(R)) = SumFunctionOnSet(f, R)
        BY <3>2
      <3>7. h[g[x]] = f[x]
        BY <3>2
      <3> HIDE DEF Im, R
      <3>8. SumFunctionOnSet(h, Im(U)) = SumFunctionOnSet(f, U)
        BY <3>3, <3>4, <3>5, <3>6, <3>7
      <3> QED BY <3>8
    <2> QED BY <2>1, <2>2
  <1> HIDE DEF P
  <1>3. SUBSET S \subseteq P
    BY <1>2, SubsetInduction
  <1>4. SumFunctionOnSet(h, Im(S)) = SumFunctionOnSet(f, S)
    BY <1>3 DEF P
  <1>5. Im(S) = T
    OBVIOUS
  <1> QED BY <1>4, <1>5

\* Two sums overlap in what their union falls short of.
LEMMA SumOverlap ==
    ASSUME NEW S, IsFiniteSet(S), NEW f, \A x \in S : f[x] \in Int,
           NEW A \in SUBSET S, NEW B \in SUBSET S
    PROVE  SumFunctionOnSet(f, A) + SumFunctionOnSet(f, B)
             = SumFunctionOnSet(f, A \cup B) + SumFunctionOnSet(f, A \cap B)
  <1> DEFINE Sum(T) == SumFunctionOnSet(f, T)
  <1>1. \A T \in SUBSET S : IsFiniteSet(T) /\ Sum(T) \in Int /\ \A x \in T : f[x] \in Int
    BY FS_Subset, SumType
  <1>2. A \cup B \in SUBSET S /\ A \cap B \in SUBSET S /\ B \ A \in SUBSET S
    OBVIOUS
  <1>3. Sum(A \cup B) = Sum(A) + Sum((A \cup B) \ A)
    <2>1. A \in SUBSET (A \cup B)
      OBVIOUS
    <2> QED BY <1>1, <1>2, <2>1, SumSplit, Zenon
  <1>4. Sum(B) = Sum(A \cap B) + Sum(B \ (A \cap B))
    <2>1. A \cap B \in SUBSET B
      OBVIOUS
    <2> QED BY <1>1, <2>1, SumSplit, Zenon
  <1>5. (A \cup B) \ A = B \ A /\ B \ (A \cap B) = B \ A
    OBVIOUS
  <1>6. Sum(A) \in Int /\ Sum(B) \in Int /\ Sum(A \cup B) \in Int /\ Sum(A \cap B) \in Int
        /\ Sum(B \ A) \in Int
    BY <1>1, <1>2
  <1>7. Sum(A \cup B) = Sum(A) + Sum(B \ A) /\ Sum(B) = Sum(A \cap B) + Sum(B \ A)
    BY <1>3, <1>4, <1>5, Zenon
  <1> HIDE DEF Sum
  <1>8. Sum(A) + Sum(B) = Sum(A \cup B) + Sum(A \cap B)
    BY <1>6, <1>7
  <1> QED BY <1>8 DEF Sum

\* A sum of which all but a part is zero.
LEMMA SumMasked ==
    ASSUME NEW S, IsFiniteSet(S), NEW T \in SUBSET S, NEW f, \A x \in T : f[x] \in Int,
           NEW h, \A x \in T : h[x] = f[x], \A x \in S \ T : h[x] = 0
    PROVE  SumFunctionOnSet(h, S) = SumFunctionOnSet(f, T)
  <1>1. \A x \in S : h[x] \in Int
    OBVIOUS
  <1>2. IsFiniteSet(T) /\ IsFiniteSet(S \ T)
    BY FS_Subset, FS_Difference
  <1>3. SumFunctionOnSet(h, S) = SumFunctionOnSet(h, T) + SumFunctionOnSet(h, S \ T)
    BY <1>1, SumSplit
  <1>4. SumFunctionOnSet(h, S \ T) = 0
    BY <1>2, SumZero
  <1>5. SumFunctionOnSet(h, T) = SumFunctionOnSet(f, T) /\ SumFunctionOnSet(f, T) \in Int
    BY <1>2, SumSame, SumType
  <1> QED BY <1>3, <1>4, <1>5

-----------------------------------------------------------------------------
(* Products *)

\* The product of positive numbers, taken as FoldFunction takes it, is positive and a
\* multiple of each of them.
LEMMA ProductIs ==
    ASSUME NEW S, IsFiniteSet(S), NEW f, DOMAIN f = S, \A x \in S : f[x] \in Nat \ {0}
    PROVE  LET p == FoldFunction(LAMBDA x, y : x * y, 1, f)
           IN  p \in Nat \ {0} /\ \A x \in S : \E k \in Nat : p = k * f[x]
  <1> DEFINE N == Nat \ {0}
             h == [x \in S |-> [n \in N |-> f[x] * n]]
             Iter(g) == g = [s \in SUBSET S |->
                               IF s = {} THEN 1
                               ELSE f[CHOOSE x \in s : TRUE] * g[s \ {CHOOSE x \in s : TRUE}]]
             iter == CHOOSE g : Iter(g)
  <1>1. \A x \in S : h[x] \in [N -> N] /\ \A n \in N : h[x][n] = f[x] * n
    <2>1. \A x \in S : \A n \in N : f[x] * n \in N
      BY Z3
    <2> QED BY <2>1
  <1> HIDE DEF h
  <1>2. PICK g : IsFold(g, h, 1, N, S)
    <2>1. 1 \in N
      OBVIOUS
    <2> HIDE DEF N
    <2> QED BY <1>1, <2>1, FoldExists
  <1>3. ASSUME NEW T \in SUBSET S, T # {}
        PROVE  LET c == CHOOSE x \in T : TRUE
               IN  c \in T /\ g[T \ {c}] \in N /\ g[T] = f[c] * g[T \ {c}]
    <2> DEFINE c == CHOOSE x \in T : TRUE
    <2>1. c \in T /\ g[T] = h[c][g[T \ {c}]] /\ g[T \ {c}] \in N
      BY <1>2, <1>3 DEF IsFold
    <2> HIDE DEF c, N
    <2>2. g[T] = f[c] * g[T \ {c}]
      BY <1>1, <2>1
    <2> QED BY <2>1, <2>2 DEF c
  <1>4. g[{}] = 1
    BY <1>2 DEF IsFold
  <1>5. Iter(g)
    <2>1. g = [s \in SUBSET S |-> g[s]]
      BY <1>2 DEF IsFold
    <2> QED BY <1>3, <1>4, <2>1, Zenon
  <1>6. Iter(iter)
    <2> HIDE DEF Iter
    <2> QED BY <1>5
  <1>7. FoldFunction(LAMBDA x, y : x * y, 1, f) = iter[S]
    BY DEF FoldFunction, FoldFunctionOnSet, MapThenFoldSet
  <1> HIDE DEF iter
  <1>8. \A T \in SUBSET S : iter[T] = g[T] /\ \A x \in T : \E k \in Nat : g[T] = k * f[x]
    <2> DEFINE P == {T \in SUBSET S : iter[T] = g[T] /\ \A x \in T : \E k \in Nat : g[T] = k * f[x]}
    <2>1. ASSUME NEW T \in SUBSET S, \A U \in SUBSET T : U # T => U \in P
          PROVE  T \in P
      <3>1. CASE T = {}
        BY <1>5, <1>6, <3>1
      <3>2. CASE T # {}
        <4> DEFINE c == CHOOSE x \in T : TRUE
                   r == g[T \ {c}]
        <4>1. c \in T /\ r \in N /\ g[T] = f[c] * r
          BY <1>3, <3>2, Zenon
        <4>2. iter[T] = f[c] * iter[T \ {c}]
          BY <1>6, <3>2
        <4> HIDE DEF c
        <4>3. T \ {c} \in P
          BY <2>1, <4>1
        <4>4. iter[T] = g[T]
          BY <4>1, <4>2, <4>3
        <4>5. ASSUME NEW x \in T
              PROVE  \E k \in Nat : g[T] = k * f[x]
          <5>1. CASE x = c
            <6>1. g[T] = r * f[x] /\ r \in Nat
              <7> HIDE DEF r
              <7> QED BY <4>1, <5>1, Z3
            <6> QED BY <6>1
          <5>2. CASE x # c
            <6>1. PICK k \in Nat : r = k * f[x]
              BY <4>3, <5>2, Zenon
            <6> HIDE DEF r
            <6>2. f[c] \in Nat /\ f[x] \in Nat
              BY <4>1
            <6>3. f[c] * k \in Nat /\ f[c] * (k * f[x]) = (f[c] * k) * f[x]
              BY <6>2, Z3
            <6> QED BY <4>1, <6>1, <6>3
          <5> QED BY <5>1, <5>2
        <4> QED BY <4>4, <4>5
      <3> QED BY <3>1, <3>2
    <2> HIDE DEF P
    <2>2. SUBSET S \subseteq P
      BY <2>1, SubsetInduction
    <2> QED BY <2>2 DEF P
  <1>9. g[S] \in N
    BY <1>2 DEF IsFold
  <1>10. iter[S] \in N /\ \A x \in S : \E k \in Nat : iter[S] = k * f[x]
    BY <1>8, <1>9
  <1> QED BY <1>7, <1>10, Zenon

-----------------------------------------------------------------------------
(* The greater and the lesser of two numbers *)

LEMMA MaxOfTwo ==
    ASSUME NEW x \in Int, NEW y \in Int
    PROVE  Max({x, y}) = IF x <= y THEN y ELSE x
  BY DEF Max

LEMMA MinOfTwo ==
    ASSUME NEW x \in Int, NEW y \in Int
    PROVE  Min({x, y}) = IF x <= y THEN x ELSE y
  BY DEF Min

-----------------------------------------------------------------------------
(* Rounding *)

\* What ChopRound makes of a quotient and a remainder.
Rounded(q, r) == IF 2 * r > Unit \/ (2 * r = Unit /\ q % 2 = 1) THEN q + 1 ELSE q

\* chopPrecisionAndRound of a natural number.
LEMMA ChopIs ==
    ASSUME NEW q \in Nat, NEW r \in 0..(Unit - 1)
    PROVE  q * Unit + r \in Nat /\ ChopRound(q * Unit + r) = Rounded(q, r)
  <1> DEFINE x == q * Unit + r
  <1>1. Unit \in Nat \ {0}
    BY UnitAssumption
  <1>2. q * Unit \in Nat
    BY <1>1, Z3
  <1>3. x \in Nat /\ x = q * Unit + r
    BY <1>1, <1>2
  <1> HIDE DEF x
  <1>4. x \div Unit = q /\ x % Unit = r
    BY <1>1, <1>3, DivUnique
  <1>5. ~(x < 0)
    BY <1>3
  <1>6. ChopRound(x) = Rounded(q, r)
    BY <1>4, <1>5 DEF ChopRound, Rounded
  <1> QED BY <1>3, <1>6 DEF x

\* Every natural number has a quotient and a remainder.
LEMMA QuotientParts ==
    ASSUME NEW x \in Nat
    PROVE  \E q \in Nat, r \in 0..(Unit - 1) :
               x = q * Unit + r /\ ChopRound(x) = Rounded(q, r) /\ q = x \div Unit
  <1> DEFINE q == x \div Unit
             r == x % Unit
  <1>1. q \in Nat /\ r \in 0..(Unit - 1) /\ x = q * Unit + r
    BY UnitAssumption, DivDef, Zenon
  <1> HIDE DEF q, r
  <1>2. ChopRound(x) = Rounded(q, r)
    BY <1>1, ChopIs
  <1> QED BY <1>1, <1>2 DEF q

LEMMA RoundedType ==
    ASSUME NEW q \in Nat, NEW r \in 0..(Unit - 1)
    PROVE  Rounded(q, r) \in Nat /\ q <= Rounded(q, r) /\ Rounded(q, r) <= q + 1
  BY UnitAssumption DEF Rounded

\* It is a natural number, and within a half of what was rounded.
LEMMA ChopNear ==
    ASSUME NEW x \in Nat
    PROVE  LET n == ChopRound(x)
           IN  /\ n \in Nat /\ n * Unit \in Nat
               /\ 2 * x <= 2 * (n * Unit) + Unit
               /\ 2 * (n * Unit) <= 2 * x + Unit
  <1>1. PICK q \in Nat, r \in 0..(Unit - 1) : x = q * Unit + r /\ ChopRound(x) = Rounded(q, r)
    BY QuotientParts, Zenon
  <1>2. Unit \in Nat \ {0}
    BY UnitAssumption
  <1>3. Rounded(q, r) \in Nat
    BY RoundedType
  <1> DEFINE a == q * Unit
             n == Rounded(q, r)
  <1>4. a \in Nat
    BY <1>2, Z3
  <1>5. (q + 1) * Unit = a + Unit
    BY <1>2, Z3
  <1>6. \/ n = q /\ 2 * r <= Unit
        \/ n = q + 1 /\ 2 * r >= Unit
    BY <1>2 DEF Rounded
  <1>7. \/ n * Unit = a /\ 2 * r <= Unit
        \/ n * Unit = a + Unit /\ 2 * r >= Unit
    BY <1>5, <1>6
  <1>8. x = a + r
    BY <1>1
  <1> HIDE DEF a, n
  <1>9. /\ n * Unit \in Nat
        /\ 2 * x <= 2 * (n * Unit) + Unit
        /\ 2 * (n * Unit) <= 2 * x + Unit
    BY <1>2, <1>4, <1>7, <1>8
  <1> QED BY <1>1, <1>3, <1>9 DEF n

\* It is exact on whole numbers.
LEMMA ChopExact ==
    ASSUME NEW n \in Nat
    PROVE  ChopRound(n * Unit) = n
  <1>1. Unit \in Nat \ {0} /\ 0 \in 0..(Unit - 1)
    BY UnitAssumption
  <1>2. n * Unit = n * Unit + 0
    BY <1>1, Z3
  <1>3. Rounded(n, 0) = n
    BY <1>1 DEF Rounded
  <1> QED BY <1>1, <1>2, <1>3, ChopIs

\* It is monotone.
LEMMA ChopMonotone ==
    ASSUME NEW x \in Nat, NEW y \in Nat, x <= y
    PROVE  ChopRound(x) <= ChopRound(y)
  <1>1. PICK q \in Nat, r \in 0..(Unit - 1) :
            x = q * Unit + r /\ ChopRound(x) = Rounded(q, r) /\ q = x \div Unit
    BY QuotientParts, Zenon
  <1>2. PICK p \in Nat, s \in 0..(Unit - 1) :
            y = p * Unit + s /\ ChopRound(y) = Rounded(p, s) /\ p = y \div Unit
    BY QuotientParts, Zenon
  <1>3. Unit \in Nat \ {0}
    BY UnitAssumption
  <1>4. /\ Rounded(q, r) \in Nat /\ Rounded(q, r) <= q + 1
        /\ Rounded(p, s) \in Nat /\ p <= Rounded(p, s)
    BY RoundedType
  <1>5. q <= p
    BY <1>1, <1>2, <1>3, DivMonotone
  <1>6. CASE q < p
    BY <1>1, <1>2, <1>4, <1>6
  <1>7. CASE q = p
    <2> DEFINE a == q * Unit
    <2>1. a \in Int /\ x = a + r /\ y = a + s
      BY <1>1, <1>2, <1>3, <1>7, Z3
    <2> HIDE DEF a
    <2>2. r <= s
      BY <1>3, <2>1
    <2>3. Rounded(q, r) <= Rounded(q, s)
      <3>1. CASE Rounded(q, r) = q
        BY <3>1, RoundedType
      <3>2. CASE Rounded(q, r) # q
        <4>1. 2 * r > Unit \/ (2 * r = Unit /\ q % 2 = 1)
          BY <3>2 DEF Rounded
        <4>2. 2 * s > Unit \/ (2 * s = Unit /\ q % 2 = 1)
          BY <1>3, <2>2, <4>1
        <4>3. Rounded(q, r) = q + 1 /\ Rounded(q, s) = q + 1
          BY <4>1, <4>2 DEF Rounded
        <4> QED BY <4>3
      <3> QED BY <3>1, <3>2
    <2> QED BY <1>1, <1>2, <1>7, <2>3, Zenon
  <1> QED BY <1>5, <1>6, <1>7

\* A number less than a half away from a whole one becomes that.
LEMMA ChopUnique ==
    ASSUME NEW x \in Nat, NEW n \in Nat,
           2 * x < 2 * (n * Unit) + Unit, 2 * (n * Unit) < 2 * x + Unit
    PROVE  ChopRound(x) = n
  <1> DEFINE m == ChopRound(x)
             a == m * Unit
             b == n * Unit
  <1>1. /\ m \in Nat /\ a \in Nat
        /\ 2 * x <= 2 * a + Unit /\ 2 * a <= 2 * x + Unit
    BY ChopNear
  <1>2. Unit \in Nat \ {0} /\ b \in Nat
    BY UnitAssumption, Z3
  <1>3. a < b + Unit /\ b < a + Unit
    <2> HIDE DEF a, b
    <2>1. 2 * x < 2 * b + Unit /\ 2 * b < 2 * x + Unit
      BY DEF b
    <2> QED BY <1>1, <1>2, <2>1
  <1>4. a < (n + 1) * Unit /\ b < (m + 1) * Unit
    BY <1>1, <1>2, <1>3, Z3
  <1>5. (n + 1) * Unit \in Int /\ (m + 1) * Unit \in Int
    BY <1>1, <1>2, Z3
  <1>6. ~(m >= n + 1)
    <2> SUFFICES ASSUME n + 1 <= m PROVE FALSE
      BY <1>1
    <2>1. (n + 1) * Unit <= m * Unit
      BY <1>1, <1>2, TimesMonotone
    <2> QED BY <1>1, <1>4, <1>5, <2>1
  <1>7. ~(n >= m + 1)
    <2> SUFFICES ASSUME m + 1 <= n PROVE FALSE
      BY <1>1
    <2>1. (m + 1) * Unit <= n * Unit
      BY <1>1, <1>2, TimesMonotone
    <2> QED BY <1>2, <1>4, <1>5, <2>1
  <1> HIDE DEF m
  <1>8. m = n
    BY <1>1, <1>6, <1>7
  <1> QED BY <1>8 DEF m

\* Decimals that are not negative stay so.
LEMMA TruncQuoType ==
    ASSUME NEW x \in Nat, NEW n \in Nat \ {0}
    PROVE  TruncQuo(x, n) = x \div n /\ TruncQuo(x, n) \in Nat
  <1>1. TruncQuo(x, n) = x \div n
    BY DEF TruncQuo
  <1>2. x \div n \in Nat
    BY DivDef
  <1> QED BY <1>1, <1>2

\* Intervals of positions.
LEMMA Intervals ==
    ASSUME NEW n \in Nat
    PROVE  /\ \A i \in 1..(n + 1) : i = n + 1 \/ i \in 1..n
           /\ \A i \in 1..n : i \in 1..i /\ \A j \in 1..i : j \in 1..n
           /\ \A i, j \in 1..n : i # j => i \in 1..(j - 1) \/ j \in 1..(i - 1)
  OBVIOUS

LEMMA DecTypes ==
    ASSUME NEW x \in Nat, NEW y \in Nat
    PROVE  /\ NewDec(x) \in Nat /\ Mul(x, y) \in Nat /\ TruncateInt(x) \in Nat
           /\ y # 0 => Quo(x, y) \in Nat
  <1>1. Unit \in Nat \ {0}
    BY UnitAssumption
  <1>2. x * Unit \in Nat /\ x * y \in Nat
    BY <1>1, Z3
  <1> DEFINE p == x * Unit
             q == p * Unit
             r == x * y
  <1>3. p \in Nat /\ r \in Nat
    BY <1>2
  <1>4. NewDec(x) = p /\ Mul(x, y) = ChopRound(r) /\ Quo(x, y) = ChopRound(TruncQuo(q, y))
    BY DEF NewDec, Mul, Quo
  <1> HIDE DEF p, r
  <1>5. q \in Nat
    BY <1>1, <1>3, Z3
  <1> HIDE DEF q
  <1>6. ChopRound(r) \in Nat
    BY <1>3, ChopNear
  <1>7. y # 0 => TruncQuo(q, y) \in Nat
    BY <1>5, TruncQuoType
  <1>8. y # 0 => ChopRound(TruncQuo(q, y)) \in Nat
    BY <1>7, ChopNear
  <1>9. TruncateInt(x) \in Nat
    BY <1>1, TruncQuoType DEF TruncateInt
  <1> QED BY <1>3, <1>4, <1>6, <1>8, <1>9
-----------------------------------------------------------------------------
(* Shares of an amount *)

\* A reward is at most its share of the period's reward, but for a half unit in the last
\* place of the decimals.
LEMMA ShareBound ==
    ASSUME NEW reward \in Nat, NEW w \in Nat, NEW sum \in Nat \ {0}
    PROVE  LET r == TruncateInt(Mul(reward, QuoInt(NewDec(w), sum)))
           IN  r \in Nat /\ (2 * Unit * sum) * r <= (2 * reward) * w + sum
  <1> DEFINE p == w * Unit
             share == p \div sum
             m == reward * share
             n == ChopRound(m)
             r == n \div Unit
             x == (2 * Unit * sum) * r
             y == (2 * reward) * w + sum
  <1>1. Unit \in Nat \ {0}
    BY UnitAssumption
  <1>2. p \in Nat
    BY <1>1, Z3
  <1>3. QuoInt(NewDec(w), sum) = TruncQuo(p, sum)
    BY DEF QuoInt, NewDec
  <1> HIDE DEF p
  <1>20. TruncQuo(p, sum) = share
    BY <1>2, TruncQuoType, Zenon
  <1>4. share \in Nat /\ share * sum <= p
    <2>1. /\ share \in Nat /\ (p % sum) \in 0..(sum - 1)
          /\ p = share * sum + (p % sum)
      BY <1>2, DivDef, Zenon
    <2> QED BY <1>2, <2>1, Z3
  <1> HIDE DEF share
  <1>5. m \in Nat
    BY <1>4, Z3
  <1>6. n \in Nat /\ n * Unit \in Nat /\ 2 * (n * Unit) <= 2 * m + Unit
    <2> HIDE DEF m
    <2> QED BY <1>5, ChopNear
  <1>7. Mul(reward, share) = n
    BY DEF Mul
  <1> HIDE DEF m, n
  <1>8. r \in Nat /\ r * Unit <= n
    <2>1. /\ r \in Nat /\ (n % Unit) \in 0..(Unit - 1)
          /\ n = r * Unit + (n % Unit)
      BY <1>1, <1>6, DivDef, Zenon
    <2> QED BY <1>1, <1>6, <2>1, Z3
  <1>9. TruncateInt(n) = r
    BY <1>1, <1>6, TruncQuoType, Zenon DEF TruncateInt
  <1> HIDE DEF r
  <1>10. (r * Unit) * Unit <= n * Unit
    BY <1>1, <1>6, <1>8, Z3
  <1>11. 2 * ((r * Unit) * Unit) <= 2 * m + Unit
    <2>1. (r * Unit) * Unit \in Nat
      BY <1>1, <1>8, Z3
    <2> DEFINE a == (r * Unit) * Unit
               b == n * Unit
    <2>2. a \in Nat /\ b \in Nat /\ a <= b /\ 2 * b <= 2 * m + Unit
      BY <1>6, <1>10, <2>1
    <2> HIDE DEF a, b
    <2>3. 2 * a <= 2 * m + Unit
      BY <1>1, <1>5, <2>2
    <2> QED BY <2>3 DEF a
  <1>12. (2 * ((r * Unit) * Unit)) * sum <= (2 * m + Unit) * sum
    <2> DEFINE a == 2 * ((r * Unit) * Unit)
               b == 2 * m + Unit
    <2>1. a \in Int /\ b \in Int
      BY <1>1, <1>5, <1>8, Z3
    <2> HIDE DEF a, b
    <2>2. a <= b
      BY <1>11 DEF a, b
    <2>3. a * sum <= b * sum
      BY <2>1, <2>2, TimesMonotone
    <2> QED BY <2>3 DEF a, b
  <1>13. (2 * ((r * Unit) * Unit)) * sum = x * Unit
    BY <1>1, <1>8, Z3
  <1>14. (2 * m + Unit) * sum = (2 * reward) * (share * sum) + sum * Unit
    BY <1>1, <1>4, Z3 DEF m
  <1>15. (2 * reward) * (share * sum) <= (2 * reward) * p
    <2> DEFINE s == share * sum
    <2>1. s \in Nat
      BY <1>4, Z3
    <2>2. s <= p
      BY <1>4
    <2> HIDE DEF s
    <2>3. s * (2 * reward) <= p * (2 * reward)
      BY <1>2, <2>1, <2>2, TimesMonotone
    <2>4. s * (2 * reward) = (2 * reward) * s /\ p * (2 * reward) = (2 * reward) * p
      BY <1>2, <2>1, Z3
    <2>5. (2 * reward) * s <= (2 * reward) * p
      BY <2>3, <2>4
    <2> QED BY <2>5 DEF s
  <1>16. (2 * reward) * p + sum * Unit = y * Unit
    BY <1>1, Z3 DEF p
  <1>17. x \in Int /\ y \in Int
    BY <1>1, <1>8, Z3
  <1>18. x * Unit <= y * Unit
    <2> DEFINE a == (2 * ((r * Unit) * Unit)) * sum
               b == (2 * reward) * (share * sum)
               c == (2 * reward) * p
               e == sum * Unit
    <2>1. a \in Int /\ b \in Int /\ c \in Int /\ e \in Int
      BY <1>1, <1>2, <1>4, <1>8, Z3
    <2>2. a <= b + e
      BY <1>12, <1>14
    <2>3. b <= c
      BY <1>15
    <2> HIDE DEF a, b, c, e
    <2>4. a <= c + e
      BY <2>1, <2>2, <2>3
    <2> QED BY <1>13, <1>16, <2>4 DEF a, c, e
  <1> HIDE DEF x, y
  <1>19. x <= y
    BY <1>1, <1>17, <1>18, Z3
  <1> QED BY <1>3, <1>7, <1>8, <1>9, <1>19, <1>20 DEF x, y

\* Shares in proportion to weights are natural numbers, nothing for no weight, and exceed
\* the amount by no more than a half unit in the last place for each.
LEMMA SharesFit ==
    ASSUME NEW S, IsFiniteSet(S), NEW g, \A v \in S : g[v] \in Nat,
           NEW sum \in Nat \ {0}, sum = SumFunctionOnSet(g, S), NEW reward \in Nat,
           NEW f, \A v \in S : f[v] = TruncateInt(Mul(reward, QuoInt(NewDec(g[v]), sum)))
    PROVE  /\ \A v \in S : f[v] \in Nat /\ (g[v] = 0 => f[v] = 0)
           /\ SumFunctionOnSet(f, S) \in Nat
           /\ 2 * Unit * SumFunctionOnSet(f, S) <= 2 * reward + Cardinality(S)
  <1>1. Unit \in Nat \ {0}
    BY UnitAssumption
  <1>2. \A v \in S : /\ f[v] \in Nat
                     /\ (2 * Unit * sum) * f[v] <= (2 * reward) * g[v] + sum
    <2> TAKE v \in S
    <2>1. f[v] = TruncateInt(Mul(reward, QuoInt(NewDec(g[v]), sum))) /\ g[v] \in Nat
      OBVIOUS
    <2> QED BY <2>1, ShareBound, Zenon
  <1>3. ASSUME NEW v \in S, g[v] = 0 PROVE f[v] = 0
    <2> DEFINE x == f[v]
    <2>1. x \in Nat /\ (2 * Unit * sum) * x <= (2 * reward) * 0 + sum
      BY <1>2, <1>3
    <2>2. (2 * reward) * 0 = 0
      BY Z3
    <2> HIDE DEF x
    <2>3. (2 * Unit * sum) * x <= sum
      BY <2>1, <2>2
    <2>4. x = 0
      BY <1>1, <2>1, <2>3, Z3
    <2> QED BY <2>4 DEF x
  <1> DEFINE N == Cardinality(S)
             R == SumFunctionOnSet(f, S)
             a == 2 * Unit * sum
             b == 2 * reward
             scaled == [v \in S |-> a * f[v] + 0]
             bounds == [v \in S |-> b * g[v] + sum]
  <1>4. R \in Nat /\ N \in Nat
    BY <1>2, SumNat, FS_CardinalityType
  <1>5. a \in Int /\ b \in Int /\ sum \in Int /\ 0 \in Int
    BY <1>1, Z3
  <1>6. /\ \A v \in S : f[v] \in Int /\ g[v] \in Int
        /\ \A v \in S : scaled[v] = a * f[v] + 0 /\ bounds[v] = b * g[v] + sum
    BY <1>2
  <1>7. \A v \in S : scaled[v] \in Int /\ bounds[v] \in Int /\ scaled[v] <= bounds[v]
    <2> TAKE v \in S
    <2>1. a * f[v] <= b * g[v] + sum
      BY <1>2
    <2> HIDE DEF a, b
    <2>2. a * f[v] \in Int /\ b * g[v] \in Int
      BY <1>5, <1>6, Z3
    <2> HIDE DEF scaled, bounds
    <2> QED BY <1>5, <1>6, <2>1, <2>2
  <1> HIDE DEF a, b, scaled, bounds, N, R
  <1>8. SumFunctionOnSet(scaled, S) <= SumFunctionOnSet(bounds, S)
    BY <1>7, SumMonotone
  <1>9. SumFunctionOnSet(scaled, S) = a * R + 0 * N
    <2>1. a \in Int /\ 0 \in Int
      BY <1>5
    <2>2. \A v \in S : f[v] \in Int
      BY <1>6
    <2>3. \A v \in S : scaled[v] = a * f[v] + 0
      BY <1>6
    <2> QED BY <2>1, <2>2, <2>3, SumLinear, Zenon DEF N, R
  <1>10. SumFunctionOnSet(bounds, S) = b * sum + sum * N
    <2>1. b \in Int /\ sum \in Int
      BY <1>5
    <2>2. \A v \in S : g[v] \in Int
      BY <1>6
    <2>3. \A v \in S : bounds[v] = b * g[v] + sum
      BY <1>6
    <2>4. SumFunctionOnSet(bounds, S) = b * SumFunctionOnSet(g, S) + sum * Cardinality(S)
      BY <2>1, <2>2, <2>3, SumLinear
    <2> QED BY <2>4 DEF N
  <1>11. a * R + 0 * N = (2 * Unit * R) * sum
    BY <1>1, <1>4, Z3 DEF a
  <1>12. b * sum + sum * N = (2 * reward + N) * sum
    BY <1>4, Z3 DEF b
  <1> DEFINE x == 2 * Unit * R
             y == 2 * reward + N
  <1>13. x \in Int /\ y \in Int
    BY <1>1, <1>4, Z3
  <1>14. x * sum <= y * sum
    BY <1>8, <1>9, <1>10, <1>11, <1>12
  <1> HIDE DEF x, y
  <1>15. x <= y
    BY <1>13, <1>14, Z3
  <1> QED BY <1>2, <1>3, <1>4, <1>15 DEF x, y, R, N

\* The part of an amount that falls on vp of w blocks, as a decimal.
LEMMA PartIs ==
    ASSUME NEW amount \in Nat, NEW vp \in Nat, NEW w \in Nat \ {0}
    PROVE  LET part == Mul(NewDec(amount), QuoInt(NewDec(vp), w))
           IN  part \in Nat /\ part * w <= Unit * (amount * vp)
  <1> DEFINE p == vp * Unit
             ratio == QuoInt(NewDec(vp), w)
             part == Mul(NewDec(amount), ratio)
  <1>1. Unit \in Nat \ {0}
    BY UnitAssumption
  <1>2. p \in Nat
    BY <1>1, Z3
  <1>3. ratio = TruncQuo(p, w)
    BY DEF QuoInt, NewDec
  <1> HIDE DEF p
  <1>4. ratio = p \div w
    BY <1>2, <1>3, TruncQuoType, Zenon
  <1>5. ratio \in Nat /\ (p % w) \in 0..(w - 1) /\ p = ratio * w + (p % w)
    <2>1. (p \div w) \in Nat /\ (p % w) \in 0..(w - 1) /\ p = (p \div w) * w + (p % w)
      BY <1>2, DivDef, Zenon
    <2> HIDE DEF ratio
    <2> QED BY <1>4, <2>1, Zenon
  <1> HIDE DEF ratio
  <1>6. ratio * w \in Int /\ ratio * w <= p
    BY <1>2, <1>5, Z3
  <1>7. amount * ratio \in Nat
    BY <1>5, Z3
  <1>8. NewDec(amount) * ratio = (amount * ratio) * Unit
    BY <1>1, <1>5, Z3 DEF NewDec
  <1>9. part = amount * ratio
    BY <1>7, <1>8, ChopExact DEF Mul
  <1>10. (ratio * w) * amount <= p * amount
    BY <1>2, <1>6, TimesMonotone
  <1>11. (amount * ratio) * w = (ratio * w) * amount
    BY <1>5, Z3
  <1>12. p * amount = Unit * (amount * vp)
    BY <1>1, Z3 DEF p
  <1>13. (amount * ratio) * w <= Unit * (amount * vp)
    BY <1>10, <1>11, <1>12
  <1> HIDE DEF part
  <1> QED BY <1>7, <1>9, <1>13 DEF part, ratio

\* What is paid of it in n shares is within the part, if the roundings are less than one.
LEMMA PartSuffices ==
    ASSUME NEW amount \in Nat, NEW vp \in Nat, NEW w \in Nat \ {0}, vp <= w,
           NEW n \in Nat, w * n < 2 * Unit, NEW paid \in Nat,
           2 * Unit * paid <= 2 * Mul(NewDec(amount), QuoInt(NewDec(vp), w)) + n
    PROVE  paid * w <= amount * vp /\ paid <= amount
  <1> DEFINE part == Mul(NewDec(amount), QuoInt(NewDec(vp), w))
             x == 2 * Unit * paid
             y == 2 * part + n
             q == paid * w
             s == amount * vp
             c == part * w
             e == w * n
  <1>1. Unit \in Nat \ {0}
    BY UnitAssumption
  <1>2. part \in Nat /\ c <= Unit * s
    BY PartIs
  <1>3. x <= y
    OBVIOUS
  <1> HIDE DEF part
  <1>4. x \in Int /\ y \in Int
    BY <1>1, <1>2, Z3
  <1>5. q \in Nat /\ s \in Nat /\ c \in Int /\ e \in Int
    BY <1>2, Z3
  <1>6. x * w = (2 * Unit) * q /\ y * w = 2 * c + e
    BY <1>1, <1>2, Z3
  <1> HIDE DEF x, y
  <1>7. x * w <= y * w
    BY <1>3, <1>4, TimesMonotone
  <1>8. e < 2 * Unit
    OBVIOUS
  <1> HIDE DEF q, s, c, e
  <1>9. (2 * Unit) * q < (2 * Unit) * (s + 1)
    <2>1. /\ Unit * s \in Int /\ (2 * Unit) * q \in Int
          /\ (2 * Unit) * (s + 1) = 2 * (Unit * s) + 2 * Unit
      BY <1>1, <1>5, Z3
    <2> QED BY <1>1, <1>2, <1>5, <1>6, <1>7, <1>8, <2>1
  <1>10. q < s + 1
    BY <1>1, <1>5, <1>9, Z3
  <1>11. q <= s
    BY <1>5, <1>10
  <1>12. paid * w <= amount * vp
    BY <1>11 DEF q, s
  <1>13. paid <= amount
    BY <1>12, Z3
  <1> QED BY <1>12, <1>13

-----------------------------------------------------------------------------
(* Halves of a sum *)

\* The first place at which the sum reaches its half, rounded down, leaves less than half
\* before it and no more than half, rounded up, behind it.
LEMMA Halves ==
    ASSUME NEW n \in Nat, NEW f, \A k \in 1..n : f[k] \in Nat,
           SumFunctionOnSet(f, 1..n) > 1
    PROVE  LET total == SumFunctionOnSet(f, 1..n)
               m == Min({k \in 1..n : SumFunctionOnSet(f, 1..k) >= total \div 2})
           IN  /\ m \in 1..n
               /\ \A T \in SUBSET (1..(m - 1)) : 2 * SumFunctionOnSet(f, T) < total
               /\ \A T \in SUBSET ((m + 1)..n) : 2 * SumFunctionOnSet(f, T) <= total + 1
  <1> DEFINE D == 1..n
             Sum(T) == SumFunctionOnSet(f, T)
             total == Sum(D)
             half == total \div 2
             reached == {k \in D : Sum(1..k) >= half}
  <1>1. IsFiniteSet(D) /\ D \in SUBSET Nat
    BY FS_Interval
  <1>2. \A T \in SUBSET D : IsFiniteSet(T) /\ Sum(T) \in Nat /\ \A U \in SUBSET T : Sum(U) <= Sum(T)
    <2> TAKE T \in SUBSET D
    <2>1. IsFiniteSet(T) /\ \A k \in T : f[k] \in Nat
      BY <1>1, FS_Subset, Zenon
    <2> QED BY <2>1, SumNat, SumPart, Zenon
  <1>3. total \in Nat /\ total > 1 /\ half \in Nat /\ half <= total /\ half > 0
    <2>1. total \in Nat /\ total > 1
      BY <1>2
    <2> HIDE DEF total
    <2> QED BY <2>1
  <1>4. n # 0
    <2> SUFFICES ASSUME n = 0 PROVE FALSE
      OBVIOUS
    <2>1. D = {}
      OBVIOUS
    <2> QED BY <1>3, <2>1, SumEmpty
  <1> HIDE DEF Sum, total, half
  <1>5. n \in reached
    BY <1>3, <1>4 DEF total
  <1>6. PICK m \in reached : \A k \in reached : m <= k
    <2>1. reached \in SUBSET Nat /\ reached # {}
      BY <1>1, <1>5
    <2> HIDE DEF reached
    <2> QED BY <2>1, Least
  <1>7. Min(reached) = m
    <2> DEFINE IsMin(x) == x \in reached /\ \A y \in reached : x <= y
    <2>1. IsMin(m) /\ \A x \in reached : IsMin(x) => x = m
      BY <1>1, <1>6
    <2> HIDE DEF reached
    <2> QED BY <2>1 DEF Min
  <1>8. m \in D /\ Sum(1..m) >= half
    BY <1>6
  <1>9. Sum(1..(m - 1)) < half
    <2>1. CASE m = 1
      <3>1. 1..(m - 1) = {}
        BY <2>1
      <3>2. Sum(1..(m - 1)) = 0
        BY <3>1, SumEmpty DEF Sum
      <3> QED BY <1>3, <3>2
    <2>2. CASE m # 1
      <3>1. m - 1 \in D /\ m - 1 \notin reached /\ 1..(m - 1) \in SUBSET D
        BY <1>6, <1>8, <2>2
      <3> QED BY <1>2, <1>3, <3>1
    <2> QED BY <2>1, <2>2
  <1>10. ASSUME NEW T \in SUBSET (1..(m - 1)) PROVE 2 * Sum(T) < total
    <2>1. 1..(m - 1) \in SUBSET D /\ T \in SUBSET D
      BY <1>8
    <2>2. Sum(T) \in Nat /\ Sum(1..(m - 1)) \in Nat /\ Sum(T) <= Sum(1..(m - 1))
      BY <1>2, <2>1
    <2> QED BY <1>3, <1>9, <2>2 DEF half
  <1>11. ASSUME NEW T \in SUBSET ((m + 1)..n) PROVE 2 * Sum(T) <= total + 1
    <2>1. 1..m \in SUBSET D /\ D \ (1..m) \in SUBSET D /\ T \in SUBSET (D \ (1..m)) /\ T \in SUBSET D
      BY <1>8
    <2>2. total = Sum(1..m) + Sum(D \ (1..m))
      <3>1. \A k \in D : f[k] \in Int
        OBVIOUS
      <3> QED BY <1>1, <2>1, <3>1, SumSplit, Zenon DEF Sum, total
    <2>3. /\ Sum(T) \in Nat /\ Sum(1..m) \in Nat /\ Sum(D \ (1..m)) \in Nat
          /\ Sum(T) <= Sum(D \ (1..m))
      BY <1>2, <2>1
    <2> QED BY <1>3, <1>8, <2>2, <2>3 DEF half
  <1> QED BY <1>7, <1>8, <1>10, <1>11 DEF reached, half, total, Sum

\* Two parts of more than half of a sum overlap, in more than one if none of it is one.
LEMMA Majorities ==
    ASSUME NEW S, IsFiniteSet(S), NEW f, \A x \in S : f[x] \in Nat,
           NEW A \in SUBSET S, NEW B \in SUBSET S, NEW t \in Nat
    PROVE  /\ SumFunctionOnSet(f, A) >= t /\ SumFunctionOnSet(f, B) >= t
           /\ 2 * t > SumFunctionOnSet(f, S)
           /\ \A x \in A \cap B : f[x] # 1
           => SumFunctionOnSet(f, A \cap B) > 1
  <1> DEFINE T == A \cap B
             Sum(U) == SumFunctionOnSet(f, U)
  <1>1. \A U \in SUBSET S : IsFiniteSet(U) /\ Sum(U) \in Nat /\ Sum(U) <= Sum(S)
    BY FS_Subset, SumNat, SumPart
  <1>2. (\A x \in S : f[x] \in Int) /\ T \in SUBSET S /\ A \cup B \in SUBSET S
    OBVIOUS
  <1>3. Sum(A) + Sum(B) = Sum(A \cup B) + Sum(T)
    BY <1>2, SumOverlap
  <1>4. /\ Sum(A) \in Nat /\ Sum(B) \in Nat /\ Sum(T) \in Nat /\ Sum(S) \in Nat
        /\ Sum(A \cup B) \in Nat /\ Sum(A \cup B) <= Sum(S) /\ IsFiniteSet(T)
    BY <1>1, <1>2
  <1>5. SUFFICES ASSUME Sum(A) >= t, Sum(B) >= t, 2 * t > Sum(S), \A x \in T : f[x] # 1
                 PROVE  Sum(T) > 1
    OBVIOUS
  <1>6. Sum(T) > 0
    <2> HIDE DEF Sum, T
    <2> QED BY <1>3, <1>4, <1>5
  <1>7. PICK x \in T : f[x] # 0
    <2> HIDE DEF T
    <2> QED BY <1>4, <1>6, SumZero
  <1>8. f[x] \in Nat /\ f[x] > 1 /\ \A y \in T : f[y] \in Int
    BY <1>2, <1>5, <1>7
  <1>9. Sum(T \ {x}) \in Nat
    BY <1>1, <1>2
  <1> HIDE DEF T
  <1>10. Sum(T) = f[x] + Sum(T \ {x})
    BY <1>4, <1>8, SumRemove
  <1> HIDE DEF Sum
  <1> QED BY <1>4, <1>8, <1>9, <1>10

===========================================================================
