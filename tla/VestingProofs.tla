---------------------------- MODULE VestingProofs ----------------------------
(***************************************************************************)
(* Theorems about Vesting, for any accounts, schedules, precision and        *)
(* amounts.                                                                  *)
(***************************************************************************)
EXTENDS Vesting, ArithmeticTheorems, TLAPS

-------------------------------------------------------------------------------
(* Schedules *)

\* A share is a part of the ratio, it grows with time, and it is all of it in the end.
LEMMA ShareGrows ==
    ASSUME NEW s \in Schedule, ValidSchedule(s), NEW t \in Nat, NEW u \in Nat, t <= u
    PROVE  /\ Share(s, t) \in Nat /\ Share(s, u) \in Nat /\ s.ratio \in Nat
           /\ Share(s, t) <= Share(s, u) /\ Share(s, t) <= s.ratio
           /\ s.end <= t => Share(s, t) = s.ratio
  <1> DEFINE a == s.start
             e == s.end
             k == s.ratio
             Part(v) == QuoInt(k * (v - a), e - a)
  <1>1. a \in Nat /\ e \in Nat /\ k \in Nat \ {0} /\ a <= e
    BY DEF Schedule, ValidSchedule
  <1>2. \A v : Share(s, v) = IF v < a THEN 0 ELSE IF v < e THEN Part(v) ELSE k
    BY DEF Share
  <1> HIDE DEF a, e, k
  <1>3. ASSUME NEW v \in Nat, ~(v < a), v < e
        PROVE  /\ e - a \in Nat \ {0} /\ k * (v - a) \in Nat
               /\ Part(v) = (k * (v - a)) \div (e - a)
               /\ Part(v) \in Nat /\ Part(v) <= k
    <2>1. e - a \in Nat \ {0} /\ v - a \in Nat /\ v - a <= e - a
      BY <1>1, <1>3
    <2> DEFINE d == e - a
               w == v - a
               x == k * w
    <2>2. x \in Nat /\ x <= k * d /\ k * d \in Nat
      <3> HIDE DEF d, w
      <3>1. x \in Nat /\ k * d \in Nat
        BY <1>1, <2>1, Z3 DEF d, w
      <3>2. w * k <= d * k
        BY <1>1, <2>1, TimesMonotone DEF d, w
      <3>3. w * k = x /\ d * k = k * d
        BY <1>1, <2>1, Z3 DEF d, w
      <3> QED BY <3>1, <3>2, <3>3
    <2>3. Part(v) = TruncQuo(x, d)
      BY DEF QuoInt
    <2> HIDE DEF x, d, w
    <2>4. d \in Nat \ {0}
      BY <2>1 DEF d
    <2>5. TruncQuo(x, d) = x \div d
      BY <2>2, <2>4 DEF TruncQuo
    <2>6. x \div d \in Nat /\ x \div d <= (k * d) \div d
      BY <2>2, <2>4, DivDef, DivMonotone, Zenon
    <2>7. (k * d) \div d = k
      BY <1>1, <2>4, DivMultiple
    <2>8. Part(v) \in Nat /\ Part(v) <= k /\ Part(v) = x \div d
      BY <2>3, <2>5, <2>6, <2>7
    <2> QED BY <2>1, <2>2, <2>8 DEF x, d, w
  <1>4. ASSUME ~(t < a), u < e
        PROVE  Part(t) <= Part(u)
    <2>1. t < e /\ ~(u < a)
      BY <1>1, <1>4
    <2> DEFINE x == k * (t - a)
               y == k * (u - a)
               d == e - a
    <2>2. x \in Nat /\ y \in Nat /\ d \in Nat \ {0} /\ Part(t) = x \div d /\ Part(u) = y \div d
      BY <1>3, <1>4, <2>1
    <2>3. (t - a) * k <= (u - a) * k
      <3>1. t - a \in Int /\ u - a \in Int /\ t - a <= u - a
        BY <1>1
      <3> QED BY <1>1, <3>1, TimesMonotone
    <2>4. (t - a) * k = x /\ (u - a) * k = y
      BY <1>1, Z3
    <2> HIDE DEF x, y, d
    <2>5. x \div d <= y \div d
      BY <2>2, <2>3, <2>4, DivMonotone
    <2> QED BY <2>2, <2>5
  <1>5. \A v \in Nat : ~(v < a) /\ v < e => Part(v) \in Nat /\ Part(v) <= k
    BY <1>3
  <1>6. /\ Share(s, t) = IF t < a THEN 0 ELSE IF t < e THEN Part(t) ELSE k
        /\ Share(s, u) = IF u < a THEN 0 ELSE IF u < e THEN Part(u) ELSE k
    BY <1>2
  <1> HIDE DEF Part
  <1> QED BY <1>1, <1>4, <1>5, <1>6 DEF k, e

\* The schedules of an account: the sums over them are finite.
LEMMA SchedulesFinite ==
    ASSUME NEW q \in Schedules
    PROVE  IsFiniteSet(DOMAIN q) /\ \A i \in DOMAIN q : q[i] \in Schedule
  <1>1. Len(q) \in Nat /\ DOMAIN q = 1..Len(q) /\ \A i \in 1..Len(q) : q[i] \in Schedule
    BY DEF Schedules
  <1>2. IsFiniteSet(1..Len(q))
    BY <1>1, FS_Interval
  <1> QED BY <1>1, <1>2

ValidSchedules(q) == q \in Schedules /\ \A i \in DOMAIN q : ValidSchedule(q[i])

\* The vested ratio grows, up to the total of the ratios, which it is in the end.
LEMMA RatioGrows ==
    ASSUME NEW q, ValidSchedules(q), NEW t \in Nat, NEW u \in Nat, t <= u
    PROVE  /\ GetVestedRatio(q, t) \in Nat /\ GetVestedRatio(q, u) \in Nat /\ SumRatio(q) \in Nat
           /\ GetVestedRatio(q, t) <= GetVestedRatio(q, u)
           /\ GetVestedRatio(q, t) <= SumRatio(q)
           /\ (\A i \in DOMAIN q : q[i].end <= t) => GetVestedRatio(q, t) = SumRatio(q)
  <1> DEFINE D == DOMAIN q
             f == [i \in D |-> Share(q[i], t)]
             g == [i \in D |-> Share(q[i], u)]
             h == [i \in D |-> q[i].ratio]
  <1>1. IsFiniteSet(D) /\ \A i \in D : q[i] \in Schedule /\ ValidSchedule(q[i])
    BY SchedulesFinite DEF ValidSchedules
  <1>2. \A i \in D : /\ Share(q[i], t) \in Nat /\ Share(q[i], u) \in Nat /\ q[i].ratio \in Nat
                     /\ Share(q[i], t) <= Share(q[i], u) /\ Share(q[i], t) <= q[i].ratio
                     /\ q[i].end <= t => Share(q[i], t) = q[i].ratio
    BY <1>1, ShareGrows
  <1>3. /\ GetVestedRatio(q, t) = SumFunctionOnSet(f, D)
        /\ GetVestedRatio(q, u) = SumFunctionOnSet(g, D)
        /\ SumRatio(q) = SumFunctionOnSet(h, D)
    BY DEF GetVestedRatio, SumRatio, SumFunction
  <1>4. \A i \in D : /\ f[i] \in Nat /\ g[i] \in Nat /\ h[i] \in Nat
                     /\ f[i] \in Int /\ g[i] \in Int /\ h[i] \in Int
                     /\ f[i] <= g[i] /\ f[i] <= h[i] /\ (q[i].end <= t => h[i] = f[i])
    BY <1>2
  <1> HIDE DEF f, g, h, D
  <1>5. /\ SumFunctionOnSet(f, D) \in Nat /\ SumFunctionOnSet(g, D) \in Nat
        /\ SumFunctionOnSet(h, D) \in Nat
    BY <1>1, <1>4, SumNat
  <1>6. /\ SumFunctionOnSet(f, D) <= SumFunctionOnSet(g, D)
        /\ SumFunctionOnSet(f, D) <= SumFunctionOnSet(h, D)
    BY <1>1, <1>4, SumMonotone
  <1>7. (\A i \in D : q[i].end <= t) => SumFunctionOnSet(h, D) = SumFunctionOnSet(f, D)
    BY <1>1, <1>4, SumSame
  <1> QED BY <1>3, <1>5, <1>6, <1>7 DEF D

-------------------------------------------------------------------------------
(* Vested coins *)

GoodAccount(a) ==
    a.original \in Nat /\ (a.schedules = None \/ ValidSchedules(a.schedules))

\* The accounts a genesis may have are of this kind.
LEMMA ValidAccounts ==
    ASSUME NEW a \in GenesisAccounts, Validate(a)
    PROVE  GoodAccount(a)
  BY VestingAssumption DEF GoodAccount, ValidSchedules, Validate

\* The product of the amount and the ratio is exact, and is rounded once.
LEMMA VestedIs ==
    ASSUME NEW n \in Nat, NEW ratio \in Nat
    PROVE  n * ratio \in Nat /\ RoundInt(Mul(NewDec(n), ratio)) = ChopRound(n * ratio)
  <1>1. Unit \in Nat \ {0}
    BY UnitAssumption
  <1> DEFINE m == n * ratio
  <1>2. m \in Nat /\ (n * Unit) * ratio = m * Unit
    BY <1>1, Z3
  <1> HIDE DEF m
  <1>3. Mul(NewDec(n), ratio) = ChopRound(m * Unit)
    BY <1>2 DEF Mul, NewDec
  <1>4. ChopRound(m * Unit) = m
    BY <1>2, ChopExact
  <1> QED BY <1>2, <1>3, <1>4 DEF RoundInt, m

\* What has vested is a natural number and grows.
LEMMA VestedGrows ==
    ASSUME NEW a, GoodAccount(a), NEW t \in Nat, NEW u \in Nat, t <= u
    PROVE  /\ GetVestedCoins(a, t) \in Nat /\ GetVestedCoins(a, u) \in Nat
           /\ GetVestedCoins(a, t) <= GetVestedCoins(a, u)
  <1> DEFINE n == a.original
             q == a.schedules
             x == GetVestedRatio(q, t)
             y == GetVestedRatio(q, u)
  <1>1. n \in Nat
    BY DEF GoodAccount
  <1>2. CASE q = None
    BY <1>1, <1>2 DEF GetVestedCoins
  <1>3. CASE q # None
    <2>1. x \in Nat /\ y \in Nat /\ x <= y
      BY <1>3, RatioGrows DEF GoodAccount
    <2>2. /\ GetVestedCoins(a, t) = RoundInt(Mul(NewDec(n), x))
          /\ GetVestedCoins(a, u) = RoundInt(Mul(NewDec(n), y))
      BY <1>3 DEF GetVestedCoins
    <2> HIDE DEF n, x, y
    <2>3. /\ n * x \in Nat /\ n * y \in Nat
          /\ GetVestedCoins(a, t) = ChopRound(n * x) /\ GetVestedCoins(a, u) = ChopRound(n * y)
      BY <1>1, <2>1, <2>2, VestedIs
    <2>4. n * x <= n * y
      <3>1. x * n <= y * n
        BY <1>1, <2>1, TimesMonotone
      <3>2. x * n = n * x /\ y * n = n * y
        BY <1>1, <2>1, Z3
      <3> QED BY <3>1, <3>2
    <2> DEFINE b == n * x
               c == n * y
    <2>5. b \in Nat /\ c \in Nat /\ b <= c
      BY <2>3, <2>4
    <2> HIDE DEF b, c
    <2>6. ChopRound(b) \in Nat /\ ChopRound(c) \in Nat /\ ChopRound(b) <= ChopRound(c)
      BY <2>5, ChopNear, ChopMonotone
    <2> QED BY <2>3, <2>6 DEF b, c
  <1> QED BY <1>2, <1>3

\* Validate leaves the total of the ratios within half of one in FixedPoint.
LEMMA TotalNearOne ==
    ASSUME NEW total \in Nat,
           QuoInt(NewDec(RoundInt(total * FixedPoint)), FixedPoint) = OneDec
    PROVE  /\ total * FixedPoint \in Nat /\ FixedPoint * Unit \in Nat
           /\ 2 * (total * FixedPoint) <= 2 * (FixedPoint * Unit) + Unit
           /\ 2 * (FixedPoint * Unit) <= 2 * (total * FixedPoint) + Unit
  <1>1. Unit \in Nat \ {0} /\ FixedPoint \in Nat \ {0} /\ FixedPoint <= Unit
    BY UnitAssumption, VestingAssumption
  <1> DEFINE x == total * FixedPoint
             n == ChopRound(x)
             y == n * Unit
  <1>2. x \in Nat
    BY <1>1, Z3
  <1> HIDE DEF x
  <1>3. /\ n \in Nat /\ y \in Nat
        /\ 2 * x <= 2 * y + Unit /\ 2 * y <= 2 * x + Unit
    BY <1>2, ChopNear
  <1>4. TruncQuo(y, FixedPoint) = Unit
    BY DEF QuoInt, NewDec, RoundInt, OneDec, x
  <1> HIDE DEF n
  <1>5. y \div FixedPoint = Unit
    <2> HIDE DEF y
    <2> QED BY <1>1, <1>3, <1>4 DEF TruncQuo
  <1> DEFINE r == y % FixedPoint
             z == Unit * FixedPoint
  <1>6. r \in 0..(FixedPoint - 1) /\ y = Unit * FixedPoint + r
    <2> HIDE DEF y
    <2> QED BY <1>1, <1>3, <1>5, DivDef, Zenon
  <1> HIDE DEF r
  <1>7. n = FixedPoint
    <2>1. y = FixedPoint * Unit + r
      <3>1. Unit * FixedPoint = FixedPoint * Unit
        BY <1>1, Z3
      <3> HIDE DEF y
      <3> QED BY <1>6, <3>1
    <2>2. 0 <= r /\ r < Unit /\ r \in Int
      BY <1>1, <1>6
    <2>3. y \div Unit = FixedPoint
      <3> HIDE DEF y
      <3>1. y \in Int /\ FixedPoint \in Int
        BY <1>1, <1>3
      <3> QED BY <1>1, <2>1, <2>2, <3>1, DivUnique, Zenon
    <2>4. y \div Unit = n
      BY <1>1, <1>3, DivMultiple
    <2> QED BY <2>3, <2>4
  <1> QED BY <1>2, <1>3, <1>7 DEF x

\* The same of the product with an amount.
LEMMA ProductNear ==
    ASSUME NEW n \in Nat, NEW total \in Nat,
           QuoInt(NewDec(RoundInt(total * FixedPoint)), FixedPoint) = OneDec
    PROVE  /\ n * total \in Nat /\ n * Unit \in Nat
           /\ 2 * ((n * total) * FixedPoint) <= 2 * ((n * Unit) * FixedPoint) + n * Unit
           /\ 2 * ((n * Unit) * FixedPoint) <= 2 * ((n * total) * FixedPoint) + n * Unit
  <1>1. Unit \in Nat \ {0} /\ FixedPoint \in Nat \ {0}
    BY UnitAssumption, VestingAssumption
  <1> DEFINE F == FixedPoint
             x == n * total
             y == n * Unit
             p == total * F
             o == F * Unit
  <1>2. x \in Nat /\ y \in Nat
    BY <1>1, Z3
  <1>3. p \in Nat /\ o \in Nat /\ 2 * p <= 2 * o + Unit /\ 2 * o <= 2 * p + Unit
    BY TotalNearOne
  <1>4. x * F = n * p /\ y * F = n * o
    BY <1>1, Z3
  <1> HIDE DEF x, y, p, o
  <1>5. /\ n * (2 * p) <= n * (2 * o + Unit)
        /\ n * (2 * o) <= n * (2 * p + Unit)
    <2>1. /\ (2 * p) * n <= (2 * o + Unit) * n
          /\ (2 * o) * n <= (2 * p + Unit) * n
      <3>1. 2 * p \in Int /\ 2 * o + Unit \in Int /\ 2 * o \in Int /\ 2 * p + Unit \in Int
        BY <1>1, <1>3
      <3> QED BY <1>3, <3>1, TimesMonotone
    <2> QED BY <1>1, <1>3, <2>1, Z3
  <1>6. /\ n * (2 * p) = 2 * (x * F)
        /\ n * (2 * o) = 2 * (y * F)
        /\ n * (2 * o + Unit) = 2 * (y * F) + y
        /\ n * (2 * p + Unit) = 2 * (x * F) + y
    <2>1. /\ n * (2 * p) = 2 * (n * p) /\ n * (2 * o) = 2 * (n * o)
          /\ n * (2 * o + Unit) = 2 * (n * o) + n * Unit
          /\ n * (2 * p + Unit) = 2 * (n * p) + n * Unit
      BY <1>1, <1>3, Z3
    <2> QED BY <1>4, <2>1 DEF y
  <1> QED BY <1>2, <1>5, <1>6 DEF x, y

\* In the end an account has vested what was granted, but for one in 2 * FixedPoint of it
\* and a half.
LEMMA NearlyAllVests ==
    ASSUME NEW n \in Nat, NEW total \in Nat,
           QuoInt(NewDec(RoundInt(total * FixedPoint)), FixedPoint) = OneDec
    PROVE  LET w == ChopRound(n * total)
           IN  /\ w \in Nat
               /\ 2 * FixedPoint * w <= 2 * FixedPoint * n + (n + FixedPoint)
               /\ 2 * FixedPoint * n - (n + FixedPoint) <= 2 * FixedPoint * w
  <1> DEFINE F == FixedPoint
             x == n * total
             y == n * Unit
             w == ChopRound(x)
             z == w * Unit
             o == F * Unit
             hi == 2 * F * n + (n + F)
             lo == 2 * F * n - (n + F)
             m == 2 * F * w
  <1>1. Unit \in Nat \ {0} /\ F \in Nat \ {0}
    BY UnitAssumption, VestingAssumption
  <1>2. /\ x \in Nat /\ y \in Nat
        /\ 2 * (x * F) <= 2 * (y * F) + y /\ 2 * (y * F) <= 2 * (x * F) + y
    BY ProductNear
  <1> HIDE DEF x, F
  <1>3. w \in Nat /\ z \in Nat /\ 2 * x <= 2 * z + Unit /\ 2 * z <= 2 * x + Unit
    BY <1>2, ChopNear
  <1> HIDE DEF w
  <1>4. /\ 2 * (x * F) <= 2 * (z * F) + o /\ 2 * (z * F) <= 2 * (x * F) + o
        /\ x * F \in Int /\ y * F \in Int /\ z * F \in Int /\ o \in Int
    <2> HIDE DEF y, z
    <2>1. (2 * x) * F <= (2 * z + Unit) * F /\ (2 * z) * F <= (2 * x + Unit) * F
      <3>1. 2 * x \in Int /\ 2 * z + Unit \in Int /\ 2 * z \in Int /\ 2 * x + Unit \in Int
        BY <1>1, <1>2, <1>3
      <3> QED BY <1>1, <1>3, <3>1, TimesMonotone
    <2>2. /\ (2 * x) * F = 2 * (x * F) /\ (2 * z + Unit) * F = 2 * (z * F) + o
          /\ (2 * z) * F = 2 * (z * F) /\ (2 * x + Unit) * F = 2 * (x * F) + o
          /\ x * F \in Int /\ y * F \in Int /\ z * F \in Int /\ o \in Int
      BY <1>1, <1>2, <1>3, Z3
    <2> QED BY <2>1, <2>2
  <1>5. /\ 2 * (z * F) <= 2 * (y * F) + y + o
        /\ 2 * (y * F) - (y + o) <= 2 * (z * F)
    <2> DEFINE a == x * F
               b == y * F
               c == z * F
    <2>1. /\ a \in Int /\ b \in Int /\ c \in Int /\ o \in Int /\ y \in Int
          /\ 2 * a <= 2 * b + y /\ 2 * b <= 2 * a + y /\ 2 * a <= 2 * c + o /\ 2 * c <= 2 * a + o
      BY <1>2, <1>4
    <2> HIDE DEF a, b, c, o, y
    <2>2. 2 * c <= 2 * b + y + o /\ 2 * b - (y + o) <= 2 * c
      BY <2>1
    <2> QED BY <2>2 DEF a, b, c
  <1>6. /\ m * Unit = 2 * (z * F)
        /\ hi * Unit = 2 * (y * F) + y + o
        /\ lo * Unit = 2 * (y * F) - (y + o)
        /\ m \in Int /\ hi \in Int /\ lo \in Int
    BY <1>1, <1>3, Z3
  <1> HIDE DEF m, hi, lo, y, z, o
  <1>7. m <= hi /\ lo <= m
    <2>1. m * Unit <= hi * Unit /\ lo * Unit <= m * Unit
      BY <1>5, <1>6
    <2>2. ASSUME NEW i \in Int, NEW j \in Int, i * Unit <= j * Unit
          PROVE  i <= j
      <3> SUFFICES ASSUME j + 1 <= i PROVE FALSE
        BY <2>2
      <3>1. (j + 1) * Unit <= i * Unit
        BY <1>1, TimesMonotone
      <3>2. (j + 1) * Unit = j * Unit + Unit /\ j * Unit \in Int /\ i * Unit \in Int
        BY <1>1, Z3
      <3> QED BY <1>1, <2>2, <3>1, <3>2
    <2> QED BY <1>6, <2>1, <2>2
  <1> QED BY <1>3, <1>7 DEF m, hi, lo, w, x, F

\* And so at the end all of a precise account has vested.
LEMMA AllVests ==
    ASSUME NEW n \in Nat, NEW total \in Nat,
           QuoInt(NewDec(RoundInt(total * FixedPoint)), FixedPoint) = OneDec,
           total = Unit \/ n < FixedPoint
    PROVE  ChopRound(n * total) = n
  <1>1. Unit \in Nat \ {0} /\ FixedPoint \in Nat \ {0}
    BY UnitAssumption, VestingAssumption
  <1>2. CASE total = Unit
    BY <1>2, ChopExact
  <1>3. CASE n < FixedPoint
    <2> DEFINE F == FixedPoint
               x == n * total
               y == n * Unit
               o == F * Unit
    <2>1. /\ x \in Nat /\ y \in Nat
          /\ 2 * (x * F) <= 2 * (y * F) + y /\ 2 * (y * F) <= 2 * (x * F) + y
      BY ProductNear
    <2>2. o \in Nat
      BY <1>1, Z3
    <2> HIDE DEF x, y, o
    <2>6. y < o
      <3>1. (n + 1) * Unit <= F * Unit
        BY <1>1, <1>3, TimesMonotone
      <3>2. (n + 1) * Unit = y + Unit
        BY <1>1, Z3 DEF y
      <3> QED BY <1>1, <2>1, <2>2, <3>1, <3>2 DEF o
    <2>7. (2 * x) * F < (2 * y + Unit) * F /\ (2 * y) * F < (2 * x + Unit) * F
      <3>1. x * F \in Int /\ y * F \in Int
        BY <1>1, <2>1, Z3
      <3>2. /\ (2 * x) * F = 2 * (x * F) /\ (2 * y + Unit) * F = 2 * (y * F) + o
            /\ (2 * y) * F = 2 * (y * F) /\ (2 * x + Unit) * F = 2 * (x * F) + o
        BY <1>1, <2>1, Z3 DEF o
      <3>3. 2 * (x * F) <= 2 * (y * F) + y /\ 2 * (y * F) <= 2 * (x * F) + y
        BY <2>1
      <3> DEFINE c == x * F
                 d == y * F
      <3>4. 2 * c < 2 * d + o /\ 2 * d < 2 * c + o
        <4> HIDE DEF c, d
        <4>1. c \in Int /\ d \in Int /\ 2 * c <= 2 * d + y /\ 2 * d <= 2 * c + y
          BY <3>1, <3>3 DEF c, d
        <4> QED BY <2>1, <2>2, <2>6, <4>1
      <3> QED BY <3>2, <3>4
    <2>8. 2 * x < 2 * y + Unit /\ 2 * y < 2 * x + Unit
      <3>1. ~(2 * y + Unit <= 2 * x)
        <4> SUFFICES ASSUME 2 * y + Unit <= 2 * x PROVE FALSE
          OBVIOUS
        <4>1. (2 * y + Unit) * F <= (2 * x) * F /\ (2 * y + Unit) * F \in Int /\ (2 * x) * F \in Int
          BY <1>1, <2>1, TimesMonotone
        <4> QED BY <2>7, <4>1
      <3>2. ~(2 * x + Unit <= 2 * y)
        <4> SUFFICES ASSUME 2 * x + Unit <= 2 * y PROVE FALSE
          OBVIOUS
        <4>1. (2 * x + Unit) * F <= (2 * y) * F /\ (2 * x + Unit) * F \in Int /\ (2 * y) * F \in Int
          BY <1>1, <2>1, TimesMonotone
        <4> QED BY <2>7, <4>1
      <3> QED BY <1>1, <2>1, <3>1, <3>2
    <2>9. 2 * x < 2 * (n * Unit) + Unit /\ 2 * (n * Unit) < 2 * x + Unit
      BY <2>8 DEF y
    <2>10. ChopRound(x) = n
      BY <2>1, <2>9, ChopUnique
    <2> QED BY <2>10 DEF x
  <1> QED BY <1>2, <1>3

-------------------------------------------------------------------------------
(* The account *)

LEMMA LockedIs ==
    ASSUME NEW v \in Int, delegatedVesting \in Nat
    PROVE  /\ LockedCoinsFromVesting(v) \in Nat
           /\ LockedCoinsFromVesting(v) >= v - delegatedVesting
  BY MaxOfTwo DEF LockedCoinsFromVesting

AccountTypeOK ==
    /\ account \in {a \in GenesisAccounts : Validate(a)}
    /\ time \in Nat /\ balance \in Nat
    /\ delegatedFree \in Nat /\ delegatedVesting \in Nat
    /\ staked \in Nat /\ slashed \in Nat

Held == AccountTypeOK /\ LockedHeld

\* The terms of LockedHeld, as numbers.
LEMMA AccountNumbers ==
    ASSUME AccountTypeOK
    PROVE  /\ GoodAccount(account) /\ account.original \in Nat
           /\ GetVestedCoins(account, time) \in Nat
           /\ GetVestingCoins(account, time) \in Int
           /\ GetVestingCoins(account, time) <= account.original
  <1>1. GoodAccount(account) /\ account.original \in Nat
    BY ValidAccounts DEF AccountTypeOK, GoodAccount
  <1>2. time \in Nat /\ time <= time
    BY DEF AccountTypeOK
  <1>3. GetVestedCoins(account, time) \in Nat
    BY <1>1, <1>2, VestedGrows
  <1> QED BY <1>1, <1>3 DEF GetVestingCoins

LEMMA HeldInit == Init => Held
  <1> SUFFICES ASSUME Init PROVE Held
    OBVIOUS
  <1>1. account.original \in Nat
    BY VestingAssumption DEF Init
  <1>2. AccountTypeOK
    BY <1>1 DEF Init, AccountTypeOK
  <1> QED BY <1>2, AccountNumbers DEF Init, Held, LockedHeld

LEMMA TickHolds ==
    ASSUME Held, Tick PROVE Held'
  <1> USE DEF Held
  <1>1. AccountTypeOK'
    BY DEF Tick, AccountTypeOK
  <1>2. GetVestedCoins(account, time) <= GetVestedCoins(account, time + 1)
    BY AccountNumbers, VestedGrows DEF AccountTypeOK
  <1>3. GetVestedCoins(account, time + 1) \in Nat
    BY AccountNumbers, VestedGrows DEF AccountTypeOK
  <1>4. GetVestingCoins(account, time)' = account.original - GetVestedCoins(account, time + 1)
    BY DEF Tick, GetVestingCoins
  <1>5. GetVestingCoins(account, time)' <= GetVestingCoins(account, time)
    BY <1>2, <1>3, <1>4, AccountNumbers DEF GetVestingCoins
  <1>6. GetVestingCoins(account, time)' \in Int
    BY <1>3, <1>4, AccountNumbers
  <1>7. (balance + staked + slashed >= GetVestingCoins(account, time))'
    BY <1>5, <1>6, AccountNumbers DEF Tick, LockedHeld, AccountTypeOK
  <1> QED BY <1>1, <1>7 DEF Tick, LockedHeld

\* The steps that leave the account and the time alone leave what is vesting alone.
LEMMA SameVesting ==
    ASSUME UNCHANGED <<account, time>>
    PROVE  GetVestingCoins(account, time)' = GetVestingCoins(account, time)
  BY DEF GetVestingCoins, GetVestedCoins, GetVestedRatio, Share

LEMMA SendHolds ==
    ASSUME Held, NEW n \in Nat, Send(n) PROVE Held'
  <1> USE DEF Held
  <1> DEFINE v == GetVestingCoins(account, time)
  <1>1. v \in Int
    BY AccountNumbers
  <1>2. LockedCoins \in Nat /\ LockedCoins >= v - delegatedVesting
    BY <1>1, LockedIs DEF LockedCoins, AccountTypeOK
  <1>3. AccountTypeOK'
    BY <1>2 DEF Send, AccountTypeOK
  <1>4. v' = v
    BY SameVesting DEF Send
  <1> HIDE DEF v
  <1>5. balance' + staked' + slashed' >= v'
    BY <1>1, <1>2, <1>4 DEF Send, LockedHeld, AccountTypeOK
  <1> QED BY <1>3, <1>5 DEF Send, LockedHeld, v

LEMMA ReceiveHolds ==
    ASSUME Held, NEW n \in Nat, Receive(n) PROVE Held'
  <1> USE DEF Held
  <1> DEFINE v == GetVestingCoins(account, time)
  <1>1. AccountTypeOK'
    BY DEF Receive, AccountTypeOK
  <1>2. v \in Int
    BY AccountNumbers
  <1>3. v' = v
    BY SameVesting DEF Receive
  <1>4. balance + staked + slashed >= v
    BY DEF LockedHeld
  <1> HIDE DEF v
  <1>5. balance' + staked' + slashed' >= v'
    BY <1>2, <1>3, <1>4 DEF Receive, AccountTypeOK
  <1> QED BY <1>1, <1>5 DEF Receive, LockedHeld, v

LEMMA DelegateHolds ==
    ASSUME Held, NEW n \in Nat, Delegate(n) PROVE Held'
  <1> USE DEF Held
  <1> DEFINE v == GetVestingCoins(account, time)
             o == account.original
             x == Min({Max({0, v - delegatedVesting}), n})
  <1>1. v \in Int /\ o \in Nat /\ v <= o
    BY AccountNumbers
  <1>2. /\ delegatedVesting' = delegatedVesting + x
        /\ delegatedFree' = delegatedFree + n - x
    BY DEF Delegate, TrackDelegation, BaseTrackDelegation
  <1>3. v' = v /\ o' = o
    BY SameVesting DEF Delegate
  <1>4. balance + staked + slashed >= v /\ delegatedVesting <= o
    BY DEF LockedHeld
  <1> HIDE DEF v, o
  <1>5. x \in 0..n /\ delegatedVesting + x <= o
    <2>1. delegatedVesting \in Nat
      BY DEF AccountTypeOK
    <2>2. Max({0, v - delegatedVesting}) = IF 0 <= v - delegatedVesting THEN v - delegatedVesting ELSE 0
      BY <1>1, <2>1, MaxOfTwo
    <2> DEFINE m == Max({0, v - delegatedVesting})
    <2>3. m \in Nat /\ delegatedVesting + m <= o
      BY <1>1, <1>4, <2>1, <2>2
    <2> HIDE DEF m
    <2>4. x = IF m <= n THEN m ELSE n
      <3>1. x = Min({m, n})
        BY DEF m
      <3> QED BY <2>3, <3>1, MinOfTwo
    <2> QED BY <1>1, <2>1, <2>3, <2>4
  <1> HIDE DEF x
  <1>6. AccountTypeOK'
    BY <1>2, <1>5 DEF Delegate, AccountTypeOK
  <1>7. balance' + staked' + slashed' >= v'
    BY <1>1, <1>3, <1>4 DEF Delegate, AccountTypeOK
  <1>8. delegatedFree' + delegatedVesting' = staked' + slashed'
    BY <1>2, <1>5 DEF Delegate, AccountTypeOK, LockedHeld
  <1>9. delegatedVesting' \in 0..o'
    BY <1>1, <1>2, <1>3, <1>5 DEF AccountTypeOK
  <1> QED BY <1>6, <1>7, <1>8, <1>9 DEF LockedHeld, v, o

\* Free coins come back first, and together the two kinds cover what comes back.
LEMMA UndelegateHolds ==
    ASSUME Held, NEW n \in Nat, Undelegate(n) PROVE Held'
  <1> USE DEF Held
  <1> DEFINE v == GetVestingCoins(account, time)
             o == account.original
             x == Min({delegatedFree, n})
             y == Min({delegatedVesting, n - x})
  <1>1. v \in Int /\ o \in Nat
    BY AccountNumbers
  <1>2. /\ delegatedFree' = delegatedFree - x
        /\ delegatedVesting' = delegatedVesting - y
    BY DEF Undelegate, TrackUndelegation
  <1>3. v' = v /\ o' = o
    BY SameVesting DEF Undelegate
  <1>4. /\ balance + staked + slashed >= v /\ delegatedVesting <= o
        /\ delegatedFree + delegatedVesting = staked + slashed
    BY DEF LockedHeld
  <1> HIDE DEF v, o
  <1>5. x = IF delegatedFree <= n THEN delegatedFree ELSE n
    BY MinOfTwo DEF AccountTypeOK
  <1> HIDE DEF x
  <1>6. x \in 0..n /\ x <= delegatedFree
    BY <1>5 DEF AccountTypeOK
  <1>7. y = IF delegatedVesting <= n - x THEN delegatedVesting ELSE n - x
    BY <1>6, MinOfTwo DEF AccountTypeOK
  <1> HIDE DEF y
  <1>8. y \in Nat /\ y <= delegatedVesting /\ x + y = n
    BY <1>4, <1>5, <1>6, <1>7 DEF Undelegate, AccountTypeOK
  <1>9. AccountTypeOK'
    BY <1>2, <1>6, <1>8 DEF Undelegate, AccountTypeOK
  <1>10. balance' + staked' + slashed' >= v'
    BY <1>1, <1>3, <1>4 DEF Undelegate, AccountTypeOK
  <1>11. delegatedFree' + delegatedVesting' = staked' + slashed'
    BY <1>2, <1>4, <1>6, <1>8 DEF Undelegate, AccountTypeOK
  <1>12. delegatedVesting' \in 0..o'
    BY <1>1, <1>2, <1>3, <1>4, <1>8 DEF AccountTypeOK
  <1> QED BY <1>9, <1>10, <1>11, <1>12 DEF LockedHeld, v, o

LEMMA SlashHolds ==
    ASSUME Held, NEW n \in Nat, Slash(n) PROVE Held'
  <1> USE DEF Held
  <1> DEFINE v == GetVestingCoins(account, time)
  <1>1. AccountTypeOK'
    BY DEF Slash, AccountTypeOK
  <1>2. v \in Int
    BY AccountNumbers
  <1>3. v' = v
    BY SameVesting DEF Slash
  <1>4. balance + staked + slashed >= v
    BY DEF LockedHeld
  <1> HIDE DEF v
  <1>5. balance' + staked' + slashed' >= v'
    BY <1>2, <1>3, <1>4 DEF Slash, AccountTypeOK
  <1>6. delegatedFree' + delegatedVesting' = staked' + slashed'
    BY DEF Slash, AccountTypeOK, LockedHeld
  <1> QED BY <1>1, <1>5, <1>6 DEF Slash, LockedHeld, v

LEMMA HeldStep == Held /\ [Next]_vars => Held'
  <1> SUFFICES ASSUME Held, [Next]_vars PROVE Held'
    OBVIOUS
  <1>1. CASE Tick
    BY <1>1, TickHolds
  <1>2. ASSUME NEW n \in Amounts,
               Send(n) \/ Receive(n) \/ Delegate(n) \/ Undelegate(n) \/ Slash(n)
        PROVE  Held'
    <2>1. n \in Nat
      BY VestingAssumption
    <2> QED BY <1>2, <2>1, SendHolds, ReceiveHolds, DelegateHolds, UndelegateHolds, SlashHolds
  <1>3. CASE UNCHANGED vars
    <2>1. GetVestingCoins(account, time)' = GetVestingCoins(account, time)
      BY <1>3, SameVesting DEF vars
    <2> QED BY <1>3, <2>1 DEF vars, Held, AccountTypeOK, LockedHeld
  <1> QED BY <1>1, <1>2, <1>3 DEF Next

\* The coins that are still vesting are in the account or staked, but for what was slashed,
\* and the delegations it tracks are those there are, whatever is sent, received, delegated,
\* undelegated and slashed and when: for every set of accounts, all schedules that Validate
\* accepts and all amounts (vesting_account.go:98-115).
THEOREM VestingCoinsHeld == Spec => []LockedHeld
  <1>1. Spec => []Held
    BY HeldInit, HeldStep, PTL DEF Spec
  <1>2. Held => LockedHeld
    BY DEF Held
  <1> QED BY <1>1, <1>2, PTL

\* What has vested stays vested, for all schedules that Validate accepts, however they overlap
\* and whatever each share is rounded to (schedule.go:73-92).
THEOREM VestedStaysVested == Spec => VestedMonotone
  <1>1. Held /\ Held' /\ [Next]_vars =>
            [GetVestedCoins(account, time') >= GetVestedCoins(account, time)]_vars
    <2> SUFFICES ASSUME Held, Held', [Next]_vars
                 PROVE  GetVestedCoins(account, time') >= GetVestedCoins(account, time)
      OBVIOUS
    <2>1. GoodAccount(account)
      BY AccountNumbers DEF Held
    <2>2. time \in Nat /\ time' \in Nat
      BY DEF Held, AccountTypeOK
    <2>3. time <= time'
      BY <2>2 DEF Next, vars, Tick, Send, Receive, Delegate, Undelegate, Slash
    <2>4. /\ GetVestedCoins(account, time) \in Nat /\ GetVestedCoins(account, time') \in Nat
          /\ GetVestedCoins(account, time) <= GetVestedCoins(account, time')
      BY <2>1, <2>2, <2>3, VestedGrows
    <2> QED BY <2>4
  <1>2. Spec => []Held
    BY HeldInit, HeldStep, PTL DEF Spec
  <1> QED BY <1>1, <1>2, PTL DEF Spec, VestedMonotone

\* A precise account never vests more than it has, and in the end all of it.
LEMMA VestsAll ==
    ASSUME NEW a, GoodAccount(a), Validate(a), Precise(a), NEW t \in Nat
    PROVE  /\ GetVestedCoins(a, t) \in 0..a.original
           /\ Over(a, t) => GetVestedCoins(a, t) = a.original
  <1> DEFINE n == a.original
             q == a.schedules
             x == GetVestedRatio(q, t)
             total == SumRatio(q)
  <1>1. n \in Nat
    BY DEF GoodAccount
  <1>2. CASE q = None
    BY <1>1, <1>2 DEF GetVestedCoins
  <1>3. CASE q # None
    <2>1. /\ x \in Nat /\ total \in Nat /\ x <= total
          /\ (\A i \in DOMAIN q : q[i].end <= t) => x = total
      BY <1>3, RatioGrows DEF GoodAccount
    <2>2. GetVestedCoins(a, t) = RoundInt(Mul(NewDec(n), x))
      BY <1>3 DEF GetVestedCoins
    <2>3. QuoInt(NewDec(RoundInt(total * FixedPoint)), FixedPoint) = OneDec
      BY <1>3 DEF Validate
    <2>4. total = Unit \/ n < FixedPoint
      BY <1>3 DEF Precise
    <2>5. Over(a, t) => x = total
      BY <1>3, <2>1 DEF Over
    <2> HIDE DEF n, x, total
    <2>6. ChopRound(n * total) = n
      BY <1>1, <2>1, <2>3, <2>4, AllVests
    <2>7. n * x \in Nat /\ n * total \in Nat /\ GetVestedCoins(a, t) = ChopRound(n * x)
      BY <1>1, <2>1, <2>2, VestedIs
    <2>8. n * x <= n * total
      <3>1. x * n <= total * n
        BY <1>1, <2>1, TimesMonotone
      <3>2. x * n = n * x /\ total * n = n * total
        BY <1>1, <2>1, Z3
      <3> QED BY <3>1, <3>2
    <2> DEFINE b == n * x
               c == n * total
    <2>9. b \in Nat /\ c \in Nat /\ b <= c /\ ChopRound(c) = n /\ GetVestedCoins(a, t) = ChopRound(b)
      BY <2>6, <2>7, <2>8
    <2>10. Over(a, t) => b = c
      BY <2>5
    <2> HIDE DEF b, c
    <2>11. ChopRound(b) \in Nat /\ ChopRound(b) <= n
      BY <2>9, ChopNear, ChopMonotone
    <2>12. GetVestedCoins(a, t) \in 0..n /\ (Over(a, t) => GetVestedCoins(a, t) = n)
      BY <1>1, <2>9, <2>10, <2>11
    <2> QED BY <2>12 DEF n
  <1> QED BY <1>2, <1>3

\* Any account that Validate accepts vests nearly what it has.
LEMMA VestsNearlyAll ==
    ASSUME NEW a, GoodAccount(a), Validate(a), NEW t \in Nat
    PROVE  LET v == GetVestedCoins(a, t)
               slack == a.original + FixedPoint
           IN  /\ 2 * FixedPoint * v <= 2 * FixedPoint * a.original + slack
               /\ Over(a, t) => 2 * FixedPoint * a.original - slack <= 2 * FixedPoint * v
  <1> DEFINE n == a.original
             q == a.schedules
             x == GetVestedRatio(q, t)
             total == SumRatio(q)
             F == FixedPoint
             v == GetVestedCoins(a, t)
  <1>1. n \in Nat /\ F \in Nat \ {0} /\ 2 * F * n \in Nat
    <2>1. n \in Nat /\ F \in Nat \ {0}
      BY VestingAssumption DEF GoodAccount
    <2> HIDE DEF n, F
    <2> QED BY <2>1, Z3
  <1>2. CASE q = None
    <2>1. v = n
      BY <1>2 DEF GetVestedCoins
    <2> HIDE DEF v, n, F
    <2>2. 2 * F * v <= 2 * F * n + (n + F) /\ 2 * F * n - (n + F) <= 2 * F * v
      <3> DEFINE m == 2 * F * n
      <3>1. m \in Nat /\ 2 * F * v = m
        BY <1>1, <2>1
      <3> HIDE DEF m
      <3>2. m <= m + (n + F) /\ m - (n + F) <= m
        BY <1>1, <3>1
      <3> QED BY <3>1, <3>2 DEF m
    <2> QED BY <2>2 DEF v, n, F
  <1>3. CASE q # None
    <2>1. /\ x \in Nat /\ total \in Nat /\ x <= total
          /\ (\A i \in DOMAIN q : q[i].end <= t) => x = total
      BY <1>3, RatioGrows DEF GoodAccount
    <2>2. v = RoundInt(Mul(NewDec(n), x))
      BY <1>3 DEF GetVestedCoins
    <2>3. QuoInt(NewDec(RoundInt(total * FixedPoint)), FixedPoint) = OneDec
      BY <1>3 DEF Validate
    <2>4. Over(a, t) => x = total
      BY <1>3, <2>1 DEF Over
    <2> HIDE DEF n, x, total, v
    <2> DEFINE b == n * x
               c == n * total
               w == ChopRound(c)
    <2>5. /\ w \in Nat /\ 2 * F * w <= 2 * F * n + (n + F) /\ 2 * F * n - (n + F) <= 2 * F * w
      BY <1>1, <2>1, <2>3, NearlyAllVests
    <2>6. b \in Nat /\ c \in Nat /\ v = ChopRound(b)
      BY <1>1, <2>1, <2>2, VestedIs
    <2>7. b <= c
      <3>1. x * n <= total * n
        BY <1>1, <2>1, TimesMonotone
      <3>2. x * n = n * x /\ total * n = n * total
        BY <1>1, <2>1, Z3
      <3> QED BY <3>1, <3>2
    <2>8. Over(a, t) => b = c
      BY <2>4
    <2> HIDE DEF b, c, F
    <2>9. v \in Nat /\ v <= w /\ (Over(a, t) => v = w)
      BY <2>6, <2>7, <2>8, ChopNear, ChopMonotone
    <2> HIDE DEF w
    <2>10. 2 * F * v <= 2 * F * w /\ 2 * F * v \in Int /\ 2 * F * w \in Int
      <3>1. 2 * F \in Nat
        BY <1>1
      <3>2. v * (2 * F) <= w * (2 * F)
        BY <2>5, <2>9, <3>1, TimesMonotone
      <3>3. v * (2 * F) = 2 * F * v /\ w * (2 * F) = 2 * F * w
        BY <1>1, <2>5, <2>9, Z3
      <3>4. 2 * F * v \in Int /\ 2 * F * w \in Int
        BY <1>1, <2>5, <2>9, Z3
      <3> QED BY <3>2, <3>3, <3>4
    <2>11. 2 * F * v <= 2 * F * n + (n + F)
      <3> DEFINE i == 2 * F * v
                 j == 2 * F * w
                 k == 2 * F * n
      <3>1. i \in Int /\ j \in Int /\ k \in Int /\ i <= j /\ j <= k + (n + F)
        BY <1>1, <2>5, <2>10
      <3> HIDE DEF i, j, k
      <3>2. i <= k + (n + F)
        BY <1>1, <3>1
      <3> QED BY <3>2 DEF i, k
    <2>12. Over(a, t) => 2 * F * n - (n + F) <= 2 * F * v
      BY <2>5, <2>9, Zenon
    <2> QED BY <2>11, <2>12 DEF n, v, F
  <1> QED BY <1>2, <1>3

\* For every account that a genesis accepts: when its ratios add up to one exactly, or it has
\* fewer coins than FixedPoint, GetVestingCoins never subtracts more than was granted, and
\* nothing is left to vest when every schedule has ended (vesting_account.go:98-100).  Of the
\* others Validate only promises that one part in 2 * FixedPoint, and a half, is too much or
\* too little.
THEOREM AllOfItVests == Spec => []VestedNearOriginal
  <1>1. Held => VestedNearOriginal
    <2> SUFFICES ASSUME Held PROVE VestedNearOriginal
      OBVIOUS
    <2>1. GoodAccount(account) /\ Validate(account) /\ time \in Nat
      BY AccountNumbers DEF Held, AccountTypeOK
    <2>2. Precise(account) => /\ GetVestedCoins(account, time) \in 0..account.original
                              /\ Over(account, time)
                                    => GetVestedCoins(account, time) = account.original
      BY <2>1, VestsAll
    <2> DEFINE v == GetVestedCoins(account, time)
               k == 2 * FixedPoint * account.original
               slack == account.original + FixedPoint
               m == 2 * FixedPoint * v
    <2>3. m <= k + slack /\ (Over(account, time) => k - slack <= m)
      BY <2>1, VestsNearlyAll
    <2>4. k - slack \in Int /\ m \in Int
      <3>1. account.original \in Nat /\ v \in Nat /\ FixedPoint \in Nat
        BY AccountNumbers, VestingAssumption DEF Held
      <3> QED BY <3>1, Z3
    <2>5. Over(account, time) => m >= k - slack
      <3> HIDE DEF k, m, slack
      <3> QED BY <2>3, <2>4
    <2> QED BY <2>2, <2>3, <2>5 DEF VestedNearOriginal
  <1>2. Spec => []Held
    BY HeldInit, HeldStep, PTL DEF Spec
  <1> QED BY <1>1, <1>2, PTL

-------------------------------------------------------------------------------
(* How close the rounding comes *)

\* The length of a schedule is positive, and their product a multiple of each.
LEMMA ScaleIs ==
    ASSUME NEW q, ValidSchedules(q)
    PROVE  /\ Scale(q) \in Nat \ {0}
           /\ \A i \in DOMAIN q : \E k \in Nat : Scale(q) = k * Length(q[i])
  <1> DEFINE D == DOMAIN q
             f == [i \in D |-> Length(q[i])]
  <1>1. IsFiniteSet(D) /\ \A i \in D : q[i] \in Schedule
    BY SchedulesFinite DEF ValidSchedules
  <1>2. \A i \in D : f[i] \in Nat \ {0} /\ f[i] = Length(q[i])
    <2> TAKE i \in D
    <2>1. q[i].end - q[i].start \in Int
      BY <1>1 DEF Schedule
    <2> QED BY <2>1, MaxOfTwo DEF Length
  <1>3. DOMAIN f = D
    OBVIOUS
  <1>4. Scale(q) = FoldFunction(LAMBDA x, y : x * y, 1, f)
    BY Zenon DEF Scale
  <1> HIDE DEF f, D
  <1>5. Scale(q) \in Nat \ {0} /\ \A i \in D : \E k \in Nat : Scale(q) = k * f[i]
    BY <1>1, <1>2, <1>3, <1>4, ProductIs, Zenon
  <1> QED BY <1>2, <1>5 DEF D

\* Truncation takes less than one from a share, and nothing before the start and from the end.
LEMMA ShareIsLinear ==
    ASSUME NEW s \in Schedule, ValidSchedule(s), NEW t \in Nat,
           NEW scale \in Nat \ {0}, NEW k \in Nat, scale = k * Length(s)
    PROVE  /\ Grown(s, t, scale) \in Nat /\ Share(s, t) * scale \in Nat
           /\ Share(s, t) * scale <= Grown(s, t, scale)
           /\ Grown(s, t, scale) <= Share(s, t) * scale + scale
  <1> DEFINE L == Length(s)
             E == Elapsed(s, t)
             b == s.start
             e == s.end
             r == s.ratio
             x == Share(s, t)
  <1>1. b \in Nat /\ e \in Nat /\ b <= e /\ r \in Nat
    BY DEF Schedule, ValidSchedule
  <1>2. L = (IF e = b THEN 1 ELSE e - b) /\ L \in Nat \ {0}
    <2>1. e - b \in Int
      BY <1>1
    <2> QED BY <1>1, <2>1, MaxOfTwo DEF Length
  <1>3. scale \div L = k
    BY <1>2, DivMultiple
  <1>4. x \in Nat
    <2>1. t <= t
      OBVIOUS
    <2> QED BY <2>1, ShareGrows
  <1>5. Grown(s, t, scale) = (r * E) * k
    BY <1>3 DEF Grown
  <1>6. CASE t < b
    <2>1. x = 0 /\ E = 0
      BY <1>6 DEF Share, Elapsed
    <2>2. (r * 0) * k = 0 /\ 0 * scale = 0
      BY <1>1, Z3
    <2> QED BY <1>5, <2>1, <2>2
  <1>7. CASE b <= t /\ t < e
    <2>1. L = e - b /\ t - b \in Nat /\ t - b <= L
      BY <1>1, <1>2, <1>7
    <2>2. E = t - b
      <3>1. E = Min({t - b, L})
        <4>1. ~(t < b) /\ e # b
          BY <1>1, <1>7
        <4> QED BY <4>1, Zenon DEF Elapsed
      <3>2. t - b \in Int /\ L \in Int
        BY <1>2, <2>1
      <3> DEFINE d == t - b
      <3> HIDE DEF L, E, d
      <3>3. Min({d, L}) = IF d <= L THEN d ELSE L
        BY <3>2, MinOfTwo DEF d
      <3> QED BY <2>1, <3>1, <3>3 DEF d
    <2> DEFINE y == r * E
    <2>3. y \in Nat
      <3> HIDE DEF E
      <3> QED BY <1>1, <2>1, <2>2, Z3
    <2>4. x = y \div L
      <3>1. x = QuoInt(r * (t - b), e - b)
        BY <1>1, <1>7 DEF Share
      <3>2. x = TruncQuo(y, L)
        BY <2>1, <2>2, <3>1 DEF QuoInt
      <3> HIDE DEF L, y, x
      <3> QED BY <1>2, <2>3, <3>2, TruncQuoType
    <2> DEFINE z == y % L
    <2>5. z \in 0..(L - 1) /\ y = x * L + z
      <3> HIDE DEF L, y, x
      <3> QED BY <1>2, <2>3, <2>4, DivDef, ZenonT(30)
    <2>6. Grown(s, t, scale) = y * k
      BY <1>5
    <2> HIDE DEF L, E, y, z, x
    <2>7. y * k = x * scale + z * k /\ z * k \in Nat /\ x * scale \in Nat
      <3>1. (x * L + z) * k = x * (k * L) + z * k /\ z * k \in Nat
        BY <1>2, <1>4, <2>5, Z3
      <3>2. x * scale \in Nat
        BY <1>4, Z3
      <3> QED BY <2>5, <3>1, <3>2 DEF L
    <2>8. z * k <= L * k
      BY <1>2, <2>5, TimesMonotone
    <2>9. L * k = scale
      <3>1. L * k = k * L
        BY <1>2, Z3
      <3> QED BY <3>1 DEF L
    <2> DEFINE u == z * k
               w == x * scale
               g == Grown(s, t, scale)
    <2>10. g = w + u /\ u \in Nat /\ w \in Nat /\ u <= scale
      BY <2>6, <2>7, <2>8, <2>9
    <2> HIDE DEF u, w, g
    <2>11. g \in Nat /\ w <= g /\ g <= w + scale
      BY <2>10
    <2> QED BY <2>10, <2>11 DEF g, w, x
  <1>8. CASE e <= t
    <2>1. x = r
      <3>1. t <= t
        OBVIOUS
      <3> QED BY <1>8, <3>1, ShareGrows
    <2>2. E = L
      <3>1. E = Min({IF e = b THEN 1 ELSE t - b, L})
        BY <1>1, <1>8 DEF Elapsed
      <3>2. (IF e = b THEN 1 ELSE t - b) \in Nat /\ (IF e = b THEN 1 ELSE t - b) >= L
        BY <1>1, <1>2, <1>8
      <3> HIDE DEF L, E
      <3> QED BY <1>2, <3>1, <3>2, MinOfTwo
    <2>3. Grown(s, t, scale) = (r * L) * k
      BY <1>5, <2>2
    <2> HIDE DEF L, x, E
    <2>4. (r * L) * k = r * (k * L) /\ r * scale \in Nat
      BY <1>1, <1>2, Z3
    <2>5. Grown(s, t, scale) = x * scale /\ x * scale \in Nat
      BY <2>1, <2>3, <2>4 DEF L
    <2> DEFINE w == x * scale
    <2>6. w \in Nat /\ Grown(s, t, scale) = w
      BY <2>5
    <2> HIDE DEF w
    <2>7. w <= w + scale
      BY <2>6
    <2> QED BY <2>6, <2>7 DEF w, x
  <1> QED BY <1>1, <1>6, <1>7, <1>8

\* Over all schedules, it takes less than one from each.
LEMMA RatioIsLinear ==
    ASSUME NEW q, ValidSchedules(q), NEW t \in Nat
    PROVE  LET exact == SumFunction([i \in DOMAIN q |-> Grown(q[i], t, Scale(q))])
               found == GetVestedRatio(q, t) * Scale(q)
           IN  /\ exact \in Nat /\ found \in Nat /\ Len(q) * Scale(q) \in Nat
               /\ found <= exact /\ exact <= found + Len(q) * Scale(q)
  <1> DEFINE D == DOMAIN q
             scale == Scale(q)
             f == [i \in D |-> Share(q[i], t)]
             g == [i \in D |-> Grown(q[i], t, scale)]
             low == [i \in D |-> scale * f[i] + 0]
             high == [i \in D |-> scale * f[i] + scale]
  <1>1. IsFiniteSet(D) /\ \A i \in D : q[i] \in Schedule /\ ValidSchedule(q[i])
    BY SchedulesFinite DEF ValidSchedules
  <1>2. /\ scale \in Nat \ {0}
        /\ \A i \in D : \E k \in Nat : scale = k * Length(q[i])
    BY ScaleIs
  <1>3. Len(q) \in Nat /\ Cardinality(D) = Len(q)
    <2>1. Len(q) \in Nat /\ D = 1..Len(q)
      BY DEF ValidSchedules, Schedules
    <2>2. Cardinality(1..Len(q)) = Len(q)
      <3>1. Cardinality(1..Len(q)) = IF 1 > Len(q) THEN 0 ELSE Len(q) - 1 + 1
        BY <2>1, FS_Interval
      <3> QED BY <2>1, <3>1
    <2> QED BY <2>1, <2>2
  <1> HIDE DEF scale
  <1>4. ASSUME NEW i \in D
        PROVE  /\ f[i] \in Nat /\ g[i] \in Nat
               /\ low[i] \in Int /\ high[i] \in Int /\ low[i] <= g[i] /\ g[i] <= high[i]
    <2>1. PICK k \in Nat : scale = k * Length(q[i])
      BY <1>2
    <2>2. q[i] \in Schedule /\ ValidSchedule(q[i])
      BY <1>1
    <2> DEFINE x == Share(q[i], t)
               y == Grown(q[i], t, scale)
    <2>3. y \in Nat /\ x * scale \in Nat /\ x * scale <= y /\ y <= x * scale + scale
      BY <1>2, <2>1, <2>2, ShareIsLinear
    <2>4. x \in Nat
      <3>1. t <= t
        OBVIOUS
      <3> QED BY <2>2, <3>1, ShareGrows
    <2>5. f[i] = x /\ g[i] = y /\ low[i] = scale * x + 0 /\ high[i] = scale * x + scale
      OBVIOUS
    <2> HIDE DEF x, y, f, g, low, high
    <2>6. scale * x = x * scale
      BY <1>2, <2>4, Z3
    <2> DEFINE w == x * scale
    <2>7. w \in Nat /\ w <= y /\ y <= w + scale /\ low[i] = w + 0 /\ high[i] = w + scale
      BY <2>3, <2>5, <2>6
    <2> HIDE DEF w
    <2> QED BY <1>2, <2>3, <2>4, <2>5, <2>7
  <1>5. \A i \in D : low[i] = scale * f[i] + 0 /\ high[i] = scale * f[i] + scale
    OBVIOUS
  <1>6. \A i \in D : /\ f[i] \in Nat /\ f[i] \in Int /\ g[i] \in Nat /\ g[i] \in Int
                     /\ low[i] \in Int /\ high[i] \in Int /\ low[i] <= g[i] /\ g[i] <= high[i]
    <2> HIDE DEF f, g, low, high
    <2> QED BY <1>4
  <1> DEFINE found == SumFunctionOnSet(f, D)
             exact == SumFunctionOnSet(g, D)
  <1>7. GetVestedRatio(q, t) = found /\ SumFunction(g) = exact
    BY DEF GetVestedRatio, SumFunction
  <1> HIDE DEF f, g, low, high, D
  <1>8. found \in Nat /\ exact \in Nat
    BY <1>1, <1>6, SumNat
  <1>9. SumFunctionOnSet(low, D) <= exact /\ exact <= SumFunctionOnSet(high, D)
    BY <1>1, <1>6, SumMonotone
  <1>10. scale \in Int /\ 0 \in Int
    BY <1>2
  <1>11. SumFunctionOnSet(low, D) = scale * found + 0 * Cardinality(D)
    <2>1. \A i \in D : low[i] = scale * f[i] + 0
      BY <1>5
    <2>2. \A i \in D : f[i] \in Int
      BY <1>6
    <2> QED BY <1>1, <1>10, <2>1, <2>2, SumLinear, Zenon
  <1>12. SumFunctionOnSet(high, D) = scale * found + scale * Cardinality(D)
    <2>1. \A i \in D : high[i] = scale * f[i] + scale
      BY <1>5
    <2>2. \A i \in D : f[i] \in Int
      BY <1>6
    <2> QED BY <1>1, <1>10, <2>1, <2>2, SumLinear, Zenon
  <1> HIDE DEF found, exact
  <1> DEFINE n == Len(q)
             w == found * scale
             m == n * scale
  <1>13. /\ w \in Nat /\ m \in Nat
         /\ scale * found + 0 * n = w /\ scale * found + scale * n = w + m
    <2> HIDE DEF n
    <2> QED BY <1>2, <1>3, <1>8, Z3 DEF n
  <1>14. w <= exact /\ exact <= w + m
    <2> HIDE DEF w, m
    <2> QED BY <1>3, <1>9, <1>11, <1>12, <1>13
  <1> QED BY <1>7, <1>8, <1>13, <1>14 DEF scale, g, D

\* The arithmetic of the last rounding: v is o * x to the nearest Unit, and x * scale is
\* below y by no more than m.
LEMMA ErrorBound ==
    ASSUME NEW o \in Nat, NEW x \in Nat, NEW y \in Nat, NEW m \in Nat, NEW scale \in Nat,
           NEW v \in Nat, x * scale <= y, y <= x * scale + m,
           2 * (o * x) <= 2 * (v * Unit) + Unit, 2 * (v * Unit) <= 2 * (o * x) + Unit
    PROVE  LET error == v * Unit * scale - o * y
           IN  2 * error <= Unit * scale /\ 2 * error >= -(Unit * scale) - 2 * (o * m)
  <1>1. Unit \in Nat \ {0}
    BY UnitAssumption
  <1> DEFINE a == o * x
             b == v * Unit
             A == a * scale
             B == b * scale
             w == x * scale
             C == Unit * scale
             Y == o * y
             M == o * m
  <1>2. a \in Nat /\ b \in Nat /\ w \in Nat
    BY <1>1, Z3
  <1>3. /\ A \in Nat /\ B \in Nat /\ C \in Nat /\ Y \in Nat /\ M \in Nat
    <2> HIDE DEF a, b
    <2> QED BY <1>1, <1>2, Z3
  <1>4. o * w = A
    BY Z3
  <1>5. A <= Y /\ Y <= A + M
    <2> HIDE DEF w, A
    <2>1. w * o <= y * o /\ y * o <= (w + m) * o
      <3>1. w <= y /\ y <= w + m /\ w \in Int /\ y \in Int /\ w + m \in Int
        BY <1>2 DEF w
      <3> QED BY <3>1, TimesMonotone
    <2>2. w * o = o * w /\ y * o = o * y /\ (w + m) * o = o * w + o * m
      BY <1>2, Z3
    <2> QED BY <1>4, <2>1, <2>2
  <1>6. 2 * A <= 2 * B + C /\ 2 * B <= 2 * A + C
    <2>1. 2 * a <= 2 * b + Unit /\ 2 * b <= 2 * a + Unit
      OBVIOUS
    <2> HIDE DEF a, b
    <2>2. /\ (2 * a) * scale <= (2 * b + Unit) * scale
          /\ (2 * b) * scale <= (2 * a + Unit) * scale
      <3>1. 2 * a \in Int /\ 2 * b \in Int /\ 2 * a + Unit \in Int /\ 2 * b + Unit \in Int
        BY <1>1, <1>2
      <3> QED BY <2>1, <3>1, TimesMonotone
    <2>3. /\ (2 * a) * scale = 2 * A /\ (2 * b + Unit) * scale = 2 * B + C
          /\ (2 * b) * scale = 2 * B /\ (2 * a + Unit) * scale = 2 * A + C
      BY <1>1, <1>2, Z3
    <2> QED BY <2>2, <2>3
  <1> HIDE DEF A, B, C, Y, M
  <1>7. 2 * (B - Y) <= C /\ 2 * (B - Y) >= -C - 2 * M
    BY <1>3, <1>5, <1>6
  <1> QED BY <1>7 DEF B, C, Y, M

\* The vested amount is the exact piecewise linear one to within a half and one part in Unit
\* of the amount for each schedule, however the schedules overlap and whatever their lengths
\* (schedule.go:73-92, vesting_account.go:72-85).
THEOREM VestingIsLinear == Spec => []VestedIsLinear
  <1>1. Held => VestedIsLinear
    <2> SUFFICES ASSUME Held, account.schedules # None PROVE VestedIsLinear
      BY DEF VestedIsLinear
    <2> DEFINE q == account.schedules
               o == account.original
               scale == Scale(q)
               x == GetVestedRatio(q, time)
               y == SumFunction([i \in DOMAIN q |-> Grown(q[i], time, scale)])
               m == Len(q) * scale
               v == GetVestedCoins(account, time)
    <2>1. ValidSchedules(q) /\ o \in Nat /\ time \in Nat /\ v \in Nat
      BY AccountNumbers DEF Held, AccountTypeOK, GoodAccount
    <2>2. x \in Nat
      <3>1. time <= time
        BY <2>1
      <3> QED BY <2>1, <3>1, RatioGrows
    <2>3. scale \in Nat
      BY <2>1, ScaleIs
    <2>4. y \in Nat /\ m \in Nat /\ x * scale <= y /\ y <= x * scale + m
      BY <2>1, RatioIsLinear, Zenon
    <2>5. v = RoundInt(Mul(NewDec(o), x))
      BY DEF GetVestedCoins
    <2> DEFINE goal == LET error == v * Unit * scale - o * y
                       IN  /\ 2 * error <= Unit * scale
                           /\ 2 * error >= -(Unit * scale) - 2 * (o * m)
    <2>6. goal
      <3> HIDE DEF v, x, y, m, o, scale
      <3>1. o * x \in Nat /\ v = ChopRound(o * x)
        BY <2>1, <2>2, <2>5, VestedIs
      <3>2. 2 * (o * x) <= 2 * (v * Unit) + Unit /\ 2 * (v * Unit) <= 2 * (o * x) + Unit
        BY <3>1, ChopNear
      <3> QED BY <2>1, <2>2, <2>3, <2>4, <3>2, ErrorBound, Zenon
    <2>7. o * Len(q) * scale = o * m
      <3>1. Len(q) \in Nat
        BY <2>1 DEF ValidSchedules, Schedules
      <3> DEFINE n == Len(q)
      <3> HIDE DEF n, o, scale
      <3>2. o * n * scale = o * (n * scale)
        BY <2>1, <2>3, <3>1, Z3 DEF n
      <3> QED BY <3>2 DEF n
    <2> QED BY <2>6, <2>7, Zenon DEF VestedIsLinear
  <1>2. Spec => []Held
    BY HeldInit, HeldStep, PTL DEF Spec
  <1> QED BY <1>1, <1>2, PTL
===============================================================================
