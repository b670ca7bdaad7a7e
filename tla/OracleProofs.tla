--------------------------- MODULE OracleProofs ---------------------------
(***************************************************************************)
(* Theorems about Oracle, for any set of validators and any parameters:    *)
(* the commit-reveal discipline, the life of a prevote, the miss counters  *)
(* and their owners, the median and the rewards of a tally, and what can   *)
(* stop the chain.                                                         *)
(*                                                                         *)
(* First come lemmas about one tally, in any state of the right types: how *)
(* a ballot is sorted, where its median lies, whose votes it holds before  *)
(* and after the conversion to cross rates, what its winners weigh and are *)
(* paid, and when no median is zero.                                       *)
(***************************************************************************)
EXTENDS Oracle, ArithmeticTheorems, TLAPS

-----------------------------------------------------------------------------
(* Ballots: sorting, and the weighted median *)

\* A vote of a ballot.
BallotVote == [voter : Validators, rate : Nat, power : Nat]

\* The order that Place counts along.
Before(pb, j, i) == Less(pb[j], pb[i]) \/ (~Less(pb[i], pb[j]) /\ j <= i)

\* Sorting finds a place for each vote, no place twice, and lower rates come first.
LEMMA Places ==
    ASSUME NEW pb \in Seq(BallotVote), NEW i \in DOMAIN pb
    PROVE  /\ Place(pb, i) \in DOMAIN pb
           /\ \A j \in DOMAIN pb : i # j => Place(pb, i) # Place(pb, j)
           /\ \A j \in DOMAIN pb : Place(pb, i) < Place(pb, j) => pb[i].rate <= pb[j].rate
  <1> DEFINE D == DOMAIN pb
             Upto(k) == {j \in D : Before(pb, j, k)}
  <1>1. Len(pb) \in Nat /\ D = 1..Len(pb) /\ \A k \in D : pb[k].rate \in Nat
    <2>1. Len(pb) \in Nat /\ D = 1..Len(pb) /\ \A k \in D : pb[k] \in BallotVote
      OBVIOUS
    <2> QED BY <2>1 DEF BallotVote
  <1>2. IsFiniteSet(D) /\ Cardinality(D) = Len(pb)
    BY <1>1, FS_Interval
  <1>3. \A k \in D : Place(pb, k) = Cardinality(Upto(k)) /\ IsFiniteSet(Upto(k))
    BY <1>2, FS_Subset DEF Place, Before
  <1>4. \A k \in D : k \in Upto(k)
    BY <1>1 DEF Before, Less
  <1>5. \A k \in D : Place(pb, k) \in 1..Len(pb)
    <2> TAKE k \in D
    <2>1. Upto(k) \in SUBSET D /\ Upto(k) # {}
      BY <1>4
    <2> HIDE DEF Upto, D
    <2>2. Cardinality(Upto(k)) \in Nat /\ Cardinality(Upto(k)) <= Len(pb)
      BY <1>2, <2>1, FS_Subset, FS_CardinalityType
    <2>3. Cardinality(Upto(k)) # 0
      BY <1>3, <2>1, FS_EmptySet
    <2> QED BY <1>1, <1>3, <2>2, <2>3
  <1>6. ASSUME NEW j \in D, NEW k \in D, j # k, Before(pb, j, k)
        PROVE  Place(pb, j) < Place(pb, k)
    <2>1. Upto(j) \subseteq Upto(k)
      BY <1>1, <1>6 DEF Before, Less
    <2>2. k \notin Upto(j)
      BY <1>1, <1>6 DEF Before, Less
    <2>3. Upto(j) # Upto(k)
      BY <1>4, <2>2
    <2> HIDE DEF Upto, D
    <2>4. Cardinality(Upto(j)) <= Cardinality(Upto(k)) /\ Cardinality(Upto(j)) # Cardinality(Upto(k))
      BY <1>3, <2>1, <2>3, FS_Subset
    <2>5. Cardinality(Upto(j)) \in Nat /\ Cardinality(Upto(k)) \in Nat
      BY <1>3, FS_CardinalityType
    <2> QED BY <1>3, <2>4, <2>5
  <1>7. \A j, k \in D : j # k => Before(pb, j, k) \/ Before(pb, k, j)
    BY <1>1 DEF Before, Less
  <1>8. ASSUME NEW j \in D
        PROVE  /\ i # j => Place(pb, i) # Place(pb, j)
               /\ Place(pb, i) < Place(pb, j) => pb[i].rate <= pb[j].rate
    <2> HIDE DEF Upto
    <2>0. Place(pb, i) \in Int /\ Place(pb, j) \in Int
      BY <1>1, <1>5
    <2>1. CASE i = j
      BY <1>1, <2>1
    <2>2. CASE i # j /\ Before(pb, i, j)
      <3>1. Place(pb, i) < Place(pb, j)
        BY <1>6, <2>2
      <3>2. pb[i].rate <= pb[j].rate
        BY <1>1, <2>2 DEF Before, Less
      <3> QED BY <2>0, <3>1, <3>2
    <2>3. CASE i # j /\ Before(pb, j, i)
      <3>1. Place(pb, j) < Place(pb, i)
        BY <1>6, <2>3
      <3> QED BY <2>0, <2>3, <3>1
    <2> QED BY <1>7, <2>1, <2>2, <2>3
  <1> QED BY <1>1, <1>5, <1>8

\* SortBallot rearranges the ballot, and leaves it sorted.
LEMMA Sorts ==
    ASSUME NEW pb \in Seq(BallotVote)
    PROVE  LET sorted == SortBallot(pb)
           IN  /\ sorted \in Seq(BallotVote) /\ DOMAIN sorted = DOMAIN pb
               /\ SortedBallot(sorted)
               /\ Range(sorted) = Range(pb)
  <1> DEFINE D == DOMAIN pb
             p == [i \in D |-> Place(pb, i)]
             at == [n \in D |-> CHOOSE i \in D : Place(pb, i) = n]
             sorted == SortBallot(pb)
  <1>1. Len(pb) \in Nat /\ D = 1..Len(pb) /\ IsFiniteSet(D)
    BY FS_Interval
  <1>2. p \in Injection(D, D)
    BY Places DEF Injection, IsInjective
  <1>3. p \in Surjection(D, D)
    BY <1>1, <1>2, FS_Injection
  <1>4. \A n \in D : \E i \in D : Place(pb, i) = n
    BY <1>3, Zenon DEF Surjection
  <1>5. \A n \in D : at[n] \in D /\ Place(pb, at[n]) = n
    BY <1>4
  <1>6. \A i \in D : at[Place(pb, i)] = i
    BY <1>5, Places
  <1>7. sorted = [n \in D |-> pb[at[n]]]
    BY DEF SortBallot
  <1> HIDE DEF at, p, sorted
  <1>8. \A n \in D : sorted[n] = pb[at[n]] /\ pb[at[n]] \in BallotVote
    BY <1>1, <1>5, <1>7
  <1>9. sorted \in Seq(BallotVote) /\ DOMAIN sorted = D
    BY <1>1, <1>7, <1>8
  <1>10. SortedBallot(sorted)
    <2> SUFFICES ASSUME NEW m \in D, NEW n \in D, m < n
                 PROVE  sorted[m].rate <= sorted[n].rate
      BY <1>9 DEF SortedBallot
    <2>1. at[m] \in D /\ at[n] \in D /\ Place(pb, at[m]) < Place(pb, at[n])
      BY <1>5
    <2>2. pb[at[m]].rate <= pb[at[n]].rate
      BY <2>1, Places
    <2> QED BY <1>8, <2>2
  <1>11. Range(sorted) = Range(pb)
    <2>1. \A n \in D : sorted[n] = pb[at[n]] /\ at[n] \in D
      BY <1>5, <1>8
    <2>2. \A i \in D : pb[i] = sorted[Place(pb, i)] /\ Place(pb, i) \in D
      BY <1>6, <1>8, Places
    <2> HIDE DEF D
    <2>3. Range(sorted) = {sorted[n] : n \in D} /\ Range(pb) = {pb[n] : n \in D}
      BY <1>9 DEF Range, D
    <2>4. \A x \in Range(sorted) : x \in Range(pb)
      BY <2>1, <2>3, Zenon
    <2>5. \A x \in Range(pb) : x \in Range(sorted)
      BY <2>2, <2>3, Zenon
    <2> QED BY <2>4, <2>5, Zenon
  <1> QED BY <1>9, <1>10, <1>11 DEF sorted

\* SetToSeq lists a finite set.
LEMMA Lists ==
    ASSUME NEW S, IsFiniteSet(S)
    PROVE  /\ SetToSeq(S) \in Seq(S) /\ Range(SetToSeq(S)) = S
           /\ Len(SetToSeq(S)) = Cardinality(S)
  <1> DEFINE D == 1..Cardinality(S)
             s == SetToSeq(S)
  <1>1. Cardinality(S) \in Nat /\ IsFiniteSet(D) /\ Cardinality(D) = Cardinality(S)
    BY FS_CardinalityType, FS_Interval
  <1>2. \E f \in [D -> S] : IsInjective(f)
    BY FS_CardinalityType DEF ExistsBijection, Bijection, Injection, IsInjective
  <1>3. s \in [D -> S] /\ IsInjective(s)
    BY <1>2 DEF SetToSeq
  <1> HIDE DEF s
  <1>4. s \in Injection(D, S)
    BY <1>3 DEF Injection
  <1>5. s \in Surjection(D, S)
    BY <1>1, <1>4, FS_Injection
  <1>6. s \in Seq(S) /\ DOMAIN s = D /\ Len(s) = Cardinality(S)
    BY <1>1, <1>3
  <1>7. Range(s) = S
    BY <1>3, <1>5 DEF Range, Surjection
  <1> QED BY <1>6, <1>7 DEF s

\* The median of a sorted ballot, the rate of the first vote that reaches half of the power,
\* splits it.
LEMMA SortedSplits ==
    ASSUME NEW pb \in Seq(BallotVote), SortedBallot(pb)
    PROVE  Splits(pb)
  <1> DEFINE n == Len(pb)
             f == Powers(pb)
             total == SumFunctionOnSet(f, 1..n)
             m == Min({k \in 1..n : SumFunctionOnSet(f, 1..k) >= total \div 2})
             below == {i \in DOMAIN pb : pb[i].rate < WeightedMedian(pb)}
             above == {i \in DOMAIN pb : pb[i].rate > WeightedMedian(pb)}
  <1>1. n \in Nat /\ DOMAIN pb = 1..n /\ \A k \in 1..n : pb[k] \in BallotVote
    OBVIOUS
  <1>2. DOMAIN f = 1..n /\ \A k \in 1..n : f[k] \in Nat /\ pb[k].rate \in Nat
    BY <1>1 DEF Powers, BallotVote
  <1>3. BallotPower(pb) = total
    BY <1>1, <1>2 DEF BallotPower, SumFunction
  <1> SUFFICES ASSUME total > 1
               PROVE  /\ 2 * SumFunctionOnSet(f, below) < total
                      /\ 2 * SumFunctionOnSet(f, above) <= total + 1
    BY <1>3 DEF Splits
  <1> HIDE DEF f
  <1>4. /\ m \in 1..n
        /\ \A T \in SUBSET (1..(m - 1)) : 2 * SumFunctionOnSet(f, T) < total
        /\ \A T \in SUBSET ((m + 1)..n) : 2 * SumFunctionOnSet(f, T) <= total + 1
    BY <1>1, <1>2, Halves, Zenon
  <1>5. WeightedMedian(pb) = pb[m].rate
    <2>1. pb # <<>>
      BY <1>1, <1>4
    <2> QED BY <1>1, <1>3, <2>1 DEF WeightedMedian, f
  <1> HIDE DEF m
  <1>6. \A i, j \in 1..n : i < j => pb[i].rate <= pb[j].rate
    BY <1>1 DEF SortedBallot
  <1>7. below \in SUBSET (1..(m - 1)) /\ above \in SUBSET ((m + 1)..n)
    <2>1. ASSUME NEW i \in below PROVE i \in 1..(m - 1)
      BY <1>1, <1>2, <1>4, <1>5, <1>6
    <2>2. ASSUME NEW i \in above PROVE i \in (m + 1)..n
      BY <1>1, <1>2, <1>4, <1>5, <1>6
    <2> QED BY <2>1, <2>2
  <1> HIDE DEF below, above, total
  <1> QED BY <1>4, <1>7

\* The power of a ballot is that of its votes, when no voter has two.
LEMMA PowerByVoter ==
    ASSUME NEW pb \in Seq(BallotVote), NEW V, IsFiniteSet(V), NEW g \in [V -> BallotVote],
           \A v \in V : g[v].voter = v, Range(pb) = {g[v] : v \in V}, Len(pb) = Cardinality(V)
    PROVE  BallotPower(pb) = SumFunctionOnSet([v \in V |-> g[v].power], V)
  <1> DEFINE D == DOMAIN pb
             f == Powers(pb)
             by == [i \in D |-> pb[i].voter]
             h == [v \in V |-> g[v].power]
  <1>1. /\ D = 1..Len(pb) /\ Len(pb) \in Nat /\ IsFiniteSet(D) /\ Cardinality(D) = Len(pb)
        /\ \A i \in D : pb[i] \in BallotVote
    <2>1. D = 1..Len(pb) /\ Len(pb) \in Nat /\ \A i \in D : pb[i] \in BallotVote
      OBVIOUS
    <2>2. IsFiniteSet(1..Len(pb)) /\ Cardinality(1..Len(pb)) = Len(pb)
      BY <2>1, FS_Interval
    <2> QED BY <2>1, <2>2, Zenon
  <1>2. \A i \in D : pb[i].voter \in V /\ pb[i] = g[pb[i].voter]
    <2> TAKE i \in D
    <2>1. PICK v \in V : pb[i] = g[v]
      BY ZenonT(30) DEF Range
    <2> QED BY <2>1
  <1>3. \A v \in V : \E i \in D : pb[i].voter = v
    <2> TAKE v \in V
    <2>1. PICK i \in D : pb[i] = g[v]
      BY DEF Range
    <2> QED BY <2>1
  <1>4. by \in Surjection(D, V)
    BY <1>2, <1>3 DEF Surjection
  <1>5. by \in Injection(D, V)
    <2> HIDE DEF by, D
    <2> QED BY <1>1, <1>4, FS_Surjection
  <1>6. \A i, j \in D : by[i] = by[j] => i = j
    <2> HIDE DEF by, D
    <2> QED BY <1>5 DEF Injection, IsInjective
  <1>7. (\A i \in D : by[i] \in V) /\ \A v \in V : \E i \in D : v = by[i]
    BY <1>2, <1>3
  <1>8. \A i \in D : f[i] \in Int /\ h[by[i]] = f[i]
    <2> TAKE i \in D
    <2>1. pb[i].power \in Nat /\ f[i] = pb[i].power
      BY <1>1 DEF BallotVote, Powers
    <2>2. h[by[i]] = pb[i].power
      BY <1>2
    <2> QED BY <2>1, <2>2
  <1>9. BallotPower(pb) = SumFunctionOnSet(f, D)
    BY DEF BallotPower, SumFunction, Powers
  <1> HIDE DEF f, h, by, D
  <1>10. SumFunctionOnSet(h, V) = SumFunctionOnSet(f, D)
    <2>1. IsFiniteSet(D) /\ \A i \in D : f[i] \in Int
      BY <1>1, <1>8
    <2>2. \A i \in D : h[by[i]] = f[i]
      BY <1>8
    <2> QED BY <1>6, <1>7, <2>1, <2>2, SumRenamed
  <1> QED BY <1>9, <1>10 DEF h

\* A sorted ballot has a positive median if more than one unit of power, and all of it,
\* voted for positive rates.
LEMMA PositiveMedian ==
    ASSUME NEW pb \in Seq(BallotVote), SortedBallot(pb), BallotPower(pb) > 1,
           \A i \in DOMAIN pb : pb[i].rate = 0 => pb[i].power = 0
    PROVE  WeightedMedian(pb) # 0
  <1> SUFFICES ASSUME WeightedMedian(pb) = 0 PROVE FALSE
    OBVIOUS
  <1> DEFINE D == DOMAIN pb
             f == Powers(pb)
             above == {i \in D : pb[i].rate > 0}
             total == BallotPower(pb)
  <1>1. \A i \in D : pb[i].rate \in Nat /\ f[i] \in Nat /\ f[i] = pb[i].power
    <2>1. \A i \in D : pb[i] \in BallotVote
      OBVIOUS
    <2> QED BY <2>1 DEF BallotVote, Powers
  <1>2. IsFiniteSet(D)
    <2>1. D = 1..Len(pb) /\ Len(pb) \in Nat
      OBVIOUS
    <2> QED BY <2>1, FS_Interval
  <1>3. 2 * SumFunctionOnSet(f, above) <= total + 1
    BY SortedSplits, ZenonT(30) DEF Splits
  <1>4. total = SumFunctionOnSet(f, D)
    BY DEF BallotPower, SumFunction, Powers
  <1>5. above \in SUBSET D /\ \A i \in D \ above : f[i] = 0
    BY <1>1
  <1>6. total \in Nat
    <2> HIDE DEF f, D
    <2> QED BY <1>1, <1>2, <1>4, SumNat
  <1>7. SumFunctionOnSet(f, D) = SumFunctionOnSet(f, above)
    <2>1. \A i \in above : f[i] \in Int /\ f[i] = f[i]
      BY <1>1
    <2> HIDE DEF f, D, above
    <2> QED BY <1>2, <1>5, <2>1, SumMasked
  <1> HIDE DEF f, D, above, total
  <1>8. total > 1
    BY DEF total
  <1>9. 2 * total <= total + 1
    BY <1>3, <1>4, <1>7
  <1> QED BY <1>6, <1>8, <1>9

-----------------------------------------------------------------------------
(* The ballots of a period *)

\* Whose votes OrganizeBallotByDenom finds for d, and what it makes of one.
VotersOf(d) == {v \in Claimed : votes[v] # None /\ d \in DOMAIN votes[v].rates}

ForTally(v, d) == [voter |-> v, rate |-> votes[v].rates[d],
                   power |-> IF votes[v].rates[d] > 0 THEN power[v] ELSE 0]

Ballots == [d \in Denoms |-> OrganizeBallotByDenom(d)]

\* The votes of a sorted ballot.
LEMMA OrganizedBallot ==
    ASSUME StoreTypeOK, NEW d \in Denoms
    PROVE  /\ Ballots[d] \in Seq(BallotVote) /\ SortedBallot(Ballots[d])
           /\ Range(Ballots[d]) = {ForTally(v, d) : v \in VotersOf(d)}
           /\ Len(Ballots[d]) = Cardinality(VotersOf(d))
  <1> DEFINE S == {ForTally(v, d) : v \in VotersOf(d)}
             f == [v \in VotersOf(d) |-> ForTally(v, d)]
  <1>1. VotersOf(d) \in SUBSET Validators /\ IsFiniteSet(VotersOf(d))
    BY OracleAssumption, FS_Subset DEF VotersOf, Claimed
  <1>2. f \in Surjection(VotersOf(d), S)
    BY DEF Surjection
  <1>3. IsFiniteSet(S)
    BY <1>1, <1>2, FS_Surjection
  <1>4. S \in SUBSET BallotVote
    <2> SUFFICES ASSUME NEW v \in VotersOf(d) PROVE ForTally(v, d) \in BallotVote
      OBVIOUS
    <2>1. v \in Validators /\ votes[v] \in Vote /\ d \in DOMAIN votes[v].rates
      BY <1>1 DEF VotersOf, StoreTypeOK
    <2>2. votes[v].rates[d] \in Nat
      <3>1. votes[v].rates \in Tuples
        BY <2>1 DEF Vote
      <3>2. PICK D \in SUBSET Denoms : votes[v].rates \in [D -> Rates]
        BY <3>1 DEF Tuples
      <3> QED BY <2>1, <3>2, OracleAssumption, ZenonT(30)
    <2>3. power[v] \in Nat
      BY <2>1 DEF StoreTypeOK, StakingTypeOK
    <2> QED BY <2>1, <2>2, <2>3 DEF ForTally, BallotVote
  <1>5. Ballots[d] = SortBallot(SetToSeq(S))
    BY DEF Ballots, OrganizeBallotByDenom, VotersOf, ForTally
  <1>7. f \in Injection(VotersOf(d), S)
    <2>1. \A v \in VotersOf(d) : f[v] = ForTally(v, d) /\ ForTally(v, d).voter = v
      BY DEF ForTally
    <2> QED BY <2>1 DEF Injection, IsInjective
  <1>8. Cardinality(S) = Cardinality(VotersOf(d))
    <2> HIDE DEF f, S
    <2> QED BY <1>1, <1>2, <1>7, FS_Surjection
  <1> HIDE DEF S
  <1>6. /\ SetToSeq(S) \in Seq(BallotVote) /\ Range(SetToSeq(S)) = S
        /\ Len(SetToSeq(S)) = Cardinality(S)
    <2>1. SetToSeq(S) \in Seq(S) /\ Range(SetToSeq(S)) = S
      BY <1>3, Lists
    <2> QED BY <1>3, <1>4, <2>1, Lists
  <1>9. /\ Ballots[d] \in Seq(BallotVote) /\ SortedBallot(Ballots[d])
        /\ Range(Ballots[d]) = S /\ DOMAIN Ballots[d] = DOMAIN SetToSeq(S)
    BY <1>5, <1>6, Sorts
  <1>10. Len(Ballots[d]) = Len(SetToSeq(S))
    <2> DEFINE a == Ballots[d]
               b == SetToSeq(S)
    <2>1. a \in Seq(BallotVote) /\ b \in Seq(BallotVote) /\ DOMAIN a = DOMAIN b
      BY <1>6, <1>9
    <2> HIDE DEF a, b
    <2>2. Len(a) = Len(b)
      BY <2>1
    <2> QED BY <2>2 DEF a, b
  <1> QED BY <1>6, <1>8, <1>9, <1>10 DEF S

\* The Reference Terra is one of the denominations whose ballot passes.
LEMMA ReferenceTerra ==
    ASSUME StoreTypeOK, PassingBallots(Ballots) # {}
    PROVE  PickReferenceTerra(Ballots) \in PassingBallots(Ballots)
  <1> DEFINE passing == PassingBallots(Ballots)
             pw(d) == BallotPower(Ballots[d])
             Better(d, e) == pw(d) > pw(e) \/ (pw(d) = pw(e) /\ Rank[d] < Rank[e])
             P == {T \in SUBSET passing : T # {} => \E d \in T : \A e \in T \ {d} : Better(d, e)}
  <1>1. passing \in SUBSET Denoms /\ IsFiniteSet(passing)
    BY OracleAssumption, FS_Subset DEF PassingBallots, Listed
  <1>2. \A d \in Denoms : pw(d) \in Nat /\ Rank[d] \in Nat
    <2> TAKE d \in Denoms
    <2> DEFINE pb == Ballots[d]
    <2>1. pb \in Seq(BallotVote)
      BY OrganizedBallot
    <2> HIDE DEF pb
    <2>2. \A i \in DOMAIN pb : Powers(pb)[i] \in Nat
      <3>1. \A i \in DOMAIN pb : pb[i] \in BallotVote
        BY <2>1
      <3> QED BY <3>1 DEF Powers, BallotVote
    <2>3. DOMAIN Powers(pb) = DOMAIN pb /\ IsFiniteSet(DOMAIN pb)
      BY <2>1, FS_Interval DEF Powers
    <2>4. BallotPower(pb) \in Nat
      BY <2>2, <2>3, SumNat DEF BallotPower, SumFunction
    <2> QED BY <2>4, OracleAssumption DEF pb
  <1> HIDE DEF pw
  <1>3. /\ \A d, e \in Denoms : d # e => Better(d, e) \/ Better(e, d)
        /\ \A d, e, g \in Denoms : Better(d, e) /\ Better(e, g) => Better(d, g)
    BY <1>2, OracleAssumption
  <1> HIDE DEF Better
  <1>4. ASSUME NEW T \in SUBSET passing, \A U \in SUBSET T : U # T => U \in P
        PROVE  T \in P
    <2> SUFFICES ASSUME T # {} PROVE \E d \in T : \A e \in T \ {d} : Better(d, e)
      OBVIOUS
    <2>1. PICK x \in T : TRUE
      OBVIOUS
    <2>2. CASE T \ {x} = {}
      BY <2>1, <2>2
    <2>3. CASE T \ {x} # {}
      <3>1. T \ {x} \in P
        BY <1>4, <2>1, ZenonT(30)
      <3>2. PICK d \in T \ {x} : \A e \in (T \ {x}) \ {d} : Better(d, e)
        BY <2>3, <3>1
      <3>3. T \in SUBSET Denoms
        BY <1>1
      <3>4. CASE Better(d, x)
        <4>1. \A e \in T \ {d} : Better(d, e)
          BY <3>2, <3>4
        <4> QED BY <4>1
      <3>5. CASE Better(x, d)
        <4>1. \A e \in T \ {x} : Better(x, e)
          <5> TAKE e \in T \ {x}
          <5> QED BY <1>3, <3>2, <3>3, <3>5, Zenon
        <4> QED BY <2>1, <4>1
      <3> QED BY <1>3, <2>1, <3>2, <3>3, <3>4, <3>5, Zenon
    <2> QED BY <2>2, <2>3
  <1> HIDE DEF P
  <1>5. SUBSET passing \subseteq P
    <2> HIDE DEF passing
    <2> QED BY <1>1, <1>4, SubsetInduction
  <1>6. \E d \in passing : \A e \in passing \ {d} : Better(d, e)
    BY <1>5 DEF P
  <1> QED BY <1>6 DEF PickReferenceTerra, Better, pw

\* What becomes of a vote in the conversion to cross rates.
LEMMA CrossVoteType ==
    ASSUME NEW vote \in BallotVote, NEW bases, \A v \in DOMAIN bases : bases[v] \in Nat
    PROVE  /\ CrossVote(vote, bases) \in BallotVote
           /\ CrossVote(vote, bases).voter = vote.voter
           /\ vote.rate = 0 => CrossVote(vote, bases).rate = 0 /\ CrossVote(vote, bases).power = 0
  <1>1. vote.voter \in Validators /\ vote.rate \in Nat /\ vote.power \in Nat
    BY DEF BallotVote
  <1>2. CASE vote.voter \in DOMAIN bases /\ vote.rate > 0
    <2> DEFINE new == Quo(bases[vote.voter], vote.rate)
    <2>1. bases[vote.voter] \in Nat /\ vote.rate # 0
      BY <1>1, <1>2
    <2>4. new \in Nat
      BY <1>1, <2>1, DecTypes, Zenon
    <2>2. CrossVote(vote, bases) = [vote EXCEPT !.rate = new]
      BY <1>2 DEF CrossVote
    <2> HIDE DEF new
    <2>3. CrossVote(vote, bases) = [voter |-> vote.voter, rate |-> new, power |-> vote.power]
      BY <2>2 DEF BallotVote
    <2> QED BY <1>1, <1>2, <2>3, <2>4 DEF BallotVote
  <1>3. CASE ~(vote.voter \in DOMAIN bases /\ vote.rate > 0)
    <2>1. CrossVote(vote, bases) = [vote EXCEPT !.rate = 0, !.power = 0]
      BY <1>3 DEF CrossVote
    <2>2. CrossVote(vote, bases) = [voter |-> vote.voter, rate |-> 0, power |-> 0]
      BY <2>1, ZenonT(30) DEF BallotVote
    <2> QED BY <1>1, <2>2 DEF BallotVote
  <1> QED BY <1>2, <1>3

\* The voters of a denomination that do not abstain on it.
Supporters(d) == {v \in VotersOf(d) : votes[v].rates[d] > 0}

\* ToMap collects their rates.
LEMMA Bases ==
    ASSUME StoreTypeOK, NEW d \in Denoms
    PROVE  LET bases == ToMap(Ballots[d])
           IN  /\ DOMAIN bases = Supporters(d)
               /\ \A v \in Supporters(d) : bases[v] = votes[v].rates[d] /\ bases[v] \in Nat
  <1> DEFINE pb == Ballots[d]
             positive == {i \in DOMAIN pb : pb[i].rate > 0}
             bases == ToMap(pb)
  <1>1. pb \in Seq(BallotVote) /\ Range(pb) = {ForTally(v, d) : v \in VotersOf(d)}
    BY OrganizedBallot
  <1> HIDE DEF pb
  <1>2. \A v \in VotersOf(d) : ForTally(v, d).voter = v /\ ForTally(v, d).rate = votes[v].rates[d]
    BY DEF ForTally
  <1>3. \A i \in DOMAIN pb : /\ pb[i].voter \in VotersOf(d)
                             /\ pb[i].rate = votes[pb[i].voter].rates[d] /\ pb[i].rate \in Nat
    <2> TAKE i \in DOMAIN pb
    <2>1. pb[i] \in Range(pb) /\ pb[i] \in BallotVote
      BY <1>1 DEF Range
    <2>2. PICK v \in VotersOf(d) : pb[i] = ForTally(v, d)
      BY <1>1, <2>1
    <2>3. pb[i].rate \in Nat
      BY <2>1 DEF BallotVote
    <2> QED BY <1>2, <2>2, <2>3
  <1>4. \A v \in VotersOf(d) : \E i \in DOMAIN pb : pb[i].voter = v
    <2> TAKE v \in VotersOf(d)
    <2>1. ForTally(v, d) \in Range(pb)
      BY <1>1
    <2>2. PICK i \in DOMAIN pb : pb[i] = ForTally(v, d)
      BY <2>1 DEF Range
    <2> QED BY <1>2, <2>2
  <1>5. /\ DOMAIN bases = {pb[i].voter : i \in positive}
        /\ \A v \in DOMAIN bases : bases[v] = pb[CHOOSE i \in positive : pb[i].voter = v].rate
    BY DEF ToMap
  <1>6. DOMAIN bases = Supporters(d)
    <2>1. \A v \in DOMAIN bases : v \in Supporters(d)
      BY <1>3, <1>5 DEF Supporters
    <2>2. \A v \in Supporters(d) : v \in DOMAIN bases
      <3> TAKE v \in Supporters(d)
      <3>1. PICK i \in DOMAIN pb : pb[i].voter = v
        BY <1>4 DEF Supporters
      <3>2. i \in positive
        BY <1>3, <3>1 DEF Supporters
      <3> QED BY <1>5, <3>1, <3>2
    <2> QED BY <2>1, <2>2
  <1>7. ASSUME NEW v \in Supporters(d)
        PROVE  bases[v] = votes[v].rates[d] /\ bases[v] \in Nat
    <2>1. \E i \in positive : pb[i].voter = v
      BY <1>5, <1>6
    <2>2. PICK i \in positive : pb[i].voter = v /\ bases[v] = pb[i].rate
      BY <1>5, <1>6, <2>1
    <2> QED BY <1>3, <2>2
  <1> QED BY <1>6, <1>7 DEF pb

\* What Tallied holds.
LEMMA TalliedIs ==
    LET reference == PickReferenceTerra(Ballots)
    IN  /\ Tallied.targets = RemainingTargets(Ballots)
        /\ Tallied.reference = reference
        /\ Tallied.cross = CrossBallots(Ballots, reference)
        /\ DOMAIN Tallied.cross = PassingBallots(Ballots)
        /\ DOMAIN Tallied.winners = PassingBallots(Ballots)
        /\ \A d \in PassingBallots(Ballots) :
                Tallied.winners[d] = TallyWinners(Tallied.cross[d], RewardBand)
  BY ZenonT(30) DEF Tallied, Ballots, CrossBallots

\* What CrossVote makes of the vote of v for d.
Converted(v, d) == CrossVote(ForTally(v, d), ToMap(Ballots[Tallied.reference]))

\* A ballot of cross rates: sorted, with one vote for each vote of the period.
LEMMA ConvertedBallot ==
    ASSUME StoreTypeOK, NEW d \in DOMAIN Tallied.cross, d # Tallied.reference
    PROVE  LET pb == Tallied.cross[d]
           IN  /\ pb \in Seq(BallotVote) /\ SortedBallot(pb)
               /\ Range(pb) = {Converted(v, d) : v \in VotersOf(d)}
               /\ Len(pb) = Cardinality(VotersOf(d))
               /\ \A v \in VotersOf(d) :
                    /\ Converted(v, d) \in BallotVote /\ Converted(v, d).voter = v
                    /\ votes[v].rates[d] = 0 => Converted(v, d).rate = 0 /\ Converted(v, d).power = 0
  <1> DEFINE reference == PickReferenceTerra(Ballots)
             raw == Ballots[d]
             bases == ToMap(Ballots[reference])
             converted == [i \in DOMAIN raw |-> CrossVote(raw[i], bases)]
             pb == Tallied.cross[d]
  <1>1. d \in PassingBallots(Ballots) /\ d \in Denoms
    BY TalliedIs DEF PassingBallots, Listed
  <1>2. reference \in Denoms
    BY <1>1, ReferenceTerra DEF PassingBallots, Listed
  <1>3. /\ raw \in Seq(BallotVote) /\ Len(raw) = Cardinality(VotersOf(d))
        /\ Range(raw) = {ForTally(v, d) : v \in VotersOf(d)}
    BY <1>1, OrganizedBallot
  <1>4. \A v \in DOMAIN bases : bases[v] \in Nat
    BY <1>2, Bases
  <1>5. pb = SortBallot(converted)
    BY <1>1, TalliedIs DEF CrossBallots, ToCrossRateWithSort
  <1>6. \A v \in VotersOf(d) : Converted(v, d) = CrossVote(ForTally(v, d), bases)
    BY TalliedIs DEF Converted
  <1> HIDE DEF raw, bases, reference, pb
  <1>7. \A i \in DOMAIN raw : raw[i] \in BallotVote /\ converted[i] \in BallotVote
    <2>1. \A i \in DOMAIN raw : raw[i] \in BallotVote
      BY <1>3
    <2> QED BY <1>4, <2>1, CrossVoteType
  <1>8. \A v \in VotersOf(d) : \E i \in DOMAIN raw : raw[i] = ForTally(v, d)
    BY <1>3 DEF Range
  <1>9. \A i \in DOMAIN raw : \E v \in VotersOf(d) : raw[i] = ForTally(v, d)
    BY <1>3, ZenonT(30) DEF Range
  <1>10. \A v \in VotersOf(d) :
            /\ Converted(v, d) \in BallotVote /\ Converted(v, d).voter = v
            /\ votes[v].rates[d] = 0 => Converted(v, d).rate = 0 /\ Converted(v, d).power = 0
    <2> TAKE v \in VotersOf(d)
    <2>1. ForTally(v, d) \in BallotVote
      BY <1>7, <1>8
    <2>2. ForTally(v, d).voter = v /\ ForTally(v, d).rate = votes[v].rates[d]
      BY DEF ForTally
    <2> QED BY <1>4, <1>6, <2>1, <2>2, CrossVoteType
  <1>11. converted \in Seq(BallotVote) /\ DOMAIN converted = DOMAIN raw /\ Len(converted) = Len(raw)
    <2>1. DOMAIN raw = 1..Len(raw) /\ Len(raw) \in Nat
      BY <1>3
    <2>2. converted \in [1..Len(raw) -> BallotVote]
      BY <1>7, <2>1
    <2> HIDE DEF converted
    <2> QED BY <2>1, <2>2
  <1>12. \A i \in DOMAIN raw : converted[i] = CrossVote(raw[i], bases)
    OBVIOUS
  <1> HIDE DEF converted
  <1>13. /\ pb \in Seq(BallotVote) /\ SortedBallot(pb)
         /\ Range(pb) = Range(converted) /\ DOMAIN pb = DOMAIN converted
    BY <1>5, <1>11, Sorts
  <1>14. Len(pb) = Len(converted)
    BY <1>11, <1>13
  <1>15. Range(converted) = {Converted(v, d) : v \in VotersOf(d)}
    <2>1. \A w \in Range(converted) : \E v \in VotersOf(d) : w = Converted(v, d)
      <3> TAKE w \in Range(converted)
      <3>1. PICK i \in DOMAIN raw : w = converted[i]
        BY <1>11 DEF Range
      <3>2. PICK v \in VotersOf(d) : raw[i] = ForTally(v, d)
        BY <1>9
      <3> QED BY <1>6, <1>12, <3>1, <3>2
    <2>2. \A v \in VotersOf(d) : Converted(v, d) \in Range(converted)
      <3> TAKE v \in VotersOf(d)
      <3>1. PICK i \in DOMAIN raw : raw[i] = ForTally(v, d)
        BY <1>8
      <3>2. converted[i] = Converted(v, d)
        BY <1>6, <1>12, <3>1
      <3> QED BY <1>11, <3>2 DEF Range
    <2> QED BY <2>1, <2>2
  <1> QED BY <1>3, <1>10, <1>11, <1>13, <1>14, <1>15 DEF pb

\* A ballot as Tally counts it: sorted, with one vote for each vote of the period, of
\* which those that abstained still abstain.
LEMMA CrossBallot ==
    ASSUME StoreTypeOK, NEW d \in DOMAIN Tallied.cross
    PROVE  LET pb == Tallied.cross[d]
           IN  /\ d \in Listed(tobinTaxes)
               /\ pb \in Seq(BallotVote) /\ SortedBallot(pb)
               /\ \A w \in Range(pb) :
                    /\ w.voter \in VotersOf(d)
                    /\ votes[w.voter].rates[d] = 0 => w.rate = 0 /\ w.power = 0
               /\ \A v \in VotersOf(d) : \E w \in Range(pb) : w.voter = v
  <1> DEFINE raw == Ballots[d]
             pb == Tallied.cross[d]
  <1>1. d \in PassingBallots(Ballots) /\ d \in Listed(tobinTaxes) /\ d \in Denoms
    BY TalliedIs DEF PassingBallots, Listed
  <1>2. CASE d = Tallied.reference
    <2>1. pb = raw
      BY <1>1, <1>2, TalliedIs DEF CrossBallots
    <2>2. /\ pb \in Seq(BallotVote) /\ SortedBallot(pb)
          /\ Range(pb) = {ForTally(v, d) : v \in VotersOf(d)}
      BY <1>1, <2>1, OrganizedBallot
    <2>3. \A v \in VotersOf(d) : /\ ForTally(v, d).voter = v
                                 /\ ForTally(v, d).rate = votes[v].rates[d]
                                 /\ votes[v].rates[d] = 0 => ForTally(v, d).power = 0
      BY DEF ForTally
    <2> HIDE DEF pb, raw
    <2>4. \A w \in Range(pb) : \E v \in VotersOf(d) : w = ForTally(v, d)
      BY <2>2
    <2>5. \A v \in VotersOf(d) : ForTally(v, d) \in Range(pb)
      BY <2>2
    <2>6. \A w \in Range(pb) :
            /\ w.voter \in VotersOf(d)
            /\ votes[w.voter].rates[d] = 0 => w.rate = 0 /\ w.power = 0
      BY <2>3, <2>4
    <2>7. \A v \in VotersOf(d) : \E w \in Range(pb) : w.voter = v
      BY <2>3, <2>5, Zenon
    <2> QED BY <1>1, <2>2, <2>6, <2>7 DEF pb
  <1>3. CASE d # Tallied.reference
    <2>1. /\ pb \in Seq(BallotVote) /\ SortedBallot(pb)
          /\ Range(pb) = {Converted(v, d) : v \in VotersOf(d)}
          /\ \A v \in VotersOf(d) :
                /\ Converted(v, d).voter = v
                /\ votes[v].rates[d] = 0 => Converted(v, d).rate = 0 /\ Converted(v, d).power = 0
      BY <1>3, ConvertedBallot, ZenonT(30)
    <2> HIDE DEF pb
    <2>2. \A w \in Range(pb) : \E v \in VotersOf(d) : w = Converted(v, d)
      BY <2>1
    <2>3. \A v \in VotersOf(d) : Converted(v, d) \in Range(pb)
      BY <2>1
    <2>4. \A w \in Range(pb) :
            /\ w.voter \in VotersOf(d)
            /\ votes[w.voter].rates[d] = 0 => w.rate = 0 /\ w.power = 0
      BY <2>1, <2>2
    <2>5. \A v \in VotersOf(d) : \E w \in Range(pb) : w.voter = v
      BY <2>1, <2>3, Zenon
    <2> QED BY <1>1, <2>1, <2>4, <2>5 DEF pb
  <1> QED BY <1>2, <1>3

\* The sets of validators that the sums below are over.
LEMMA SupporterSets ==
    ASSUME StoreTypeOK, NEW d \in Denoms
    PROVE  /\ IsFiniteSet(Validators) /\ \A v \in Validators : power[v] \in Nat /\ power[v] \in Int
           /\ VotersOf(d) \in SUBSET Validators /\ IsFiniteSet(VotersOf(d))
           /\ Supporters(d) \in SUBSET VotersOf(d)
           /\ \A v \in VotersOf(d) : votes[v].rates[d] \in Rates /\ votes[v].rates[d] \in Nat
  <1>1. IsFiniteSet(Validators) /\ \A v \in Validators : power[v] \in Nat /\ power[v] \in Int
    BY OracleAssumption DEF StoreTypeOK, StakingTypeOK
  <1>2. /\ VotersOf(d) \in SUBSET Validators /\ IsFiniteSet(VotersOf(d))
        /\ Supporters(d) \in SUBSET VotersOf(d)
    BY OracleAssumption, FS_Subset DEF VotersOf, Claimed, Supporters
  <1>3. ASSUME NEW v \in VotersOf(d)
        PROVE  votes[v].rates[d] \in Rates /\ votes[v].rates[d] \in Nat
    <2>1. votes[v] \in Vote /\ d \in DOMAIN votes[v].rates
      BY <1>2 DEF VotersOf, StoreTypeOK
    <2>2. votes[v].rates \in Tuples
      BY <2>1 DEF Vote
    <2>3. PICK D \in SUBSET Denoms : votes[v].rates \in [D -> Rates]
      BY <2>2 DEF Tuples
    <2> QED BY <2>1, <2>3, OracleAssumption, Zenon
  <1> QED BY <1>1, <1>2, <1>3

\* The power of a ballot is that of its supporters.
LEMMA RawPower ==
    ASSUME StoreTypeOK, NEW d \in Denoms
    PROVE  BallotPower(Ballots[d]) = SumFunctionOnSet(power, Supporters(d))
  <1> DEFINE V == VotersOf(d)
             g == [v \in V |-> ForTally(v, d)]
             h == [v \in V |-> g[v].power]
             pb == Ballots[d]
  <1>1. /\ pb \in Seq(BallotVote) /\ Len(pb) = Cardinality(V)
        /\ Range(pb) = {ForTally(v, d) : v \in V}
    BY OrganizedBallot
  <1>2. \A v \in V : g[v] = ForTally(v, d)
    OBVIOUS
  <1>3. Range(pb) = {g[v] : v \in V}
    BY <1>1
  <1>4. \A v \in V : g[v] \in BallotVote /\ g[v].voter = v
    <2> TAKE v \in V
    <2>1. g[v] \in Range(pb)
      BY <1>3
    <2>2. g[v] \in BallotVote
      BY <1>1, <2>1 DEF Range
    <2> QED BY <2>2 DEF ForTally
  <1>5. g \in [V -> BallotVote]
    BY <1>4
  <1>6. IsFiniteSet(V)
    BY SupporterSets
  <1>7. (\A v \in Supporters(d) : h[v] = power[v]) /\ \A v \in V \ Supporters(d) : h[v] = 0
    <2>1. \A v \in V : h[v] = IF votes[v].rates[d] > 0 THEN power[v] ELSE 0
      BY DEF ForTally
    <2>2. \A v \in V : v \in Supporters(d) <=> votes[v].rates[d] > 0
      BY DEF Supporters
    <2>3. Supporters(d) \in SUBSET V
      BY DEF Supporters
    <2> HIDE DEF h, V
    <2> QED BY <2>1, <2>2, <2>3
  <1> HIDE DEF pb, g, V
  <1>8. BallotPower(pb) = SumFunctionOnSet(h, V)
    BY <1>1, <1>3, <1>4, <1>5, <1>6, PowerByVoter
  <1> HIDE DEF h
  <1>9. SumFunctionOnSet(h, V) = SumFunctionOnSet(power, Supporters(d))
    <2>1. Supporters(d) \in SUBSET V /\ \A v \in Supporters(d) : power[v] \in Int
      BY SupporterSets DEF V
    <2> QED BY <1>6, <1>7, <2>1, SumMasked
  <1> QED BY <1>8, <1>9 DEF pb

\* The power of a ballot of cross rates is that of the validators that support both
\* denominations.
LEMMA ConvertedPower ==
    ASSUME StoreTypeOK, NEW d \in DOMAIN Tallied.cross, d # Tallied.reference
    PROVE  BallotPower(Tallied.cross[d])
             = SumFunctionOnSet(power, Supporters(d) \cap Supporters(Tallied.reference))
  <1> DEFINE V == VotersOf(d)
             g == [v \in V |-> Converted(v, d)]
             h == [v \in V |-> g[v].power]
             pb == Tallied.cross[d]
             both == Supporters(d) \cap Supporters(Tallied.reference)
  <1>1. d \in Denoms /\ Tallied.reference \in Denoms
    BY TalliedIs, ReferenceTerra DEF PassingBallots, Listed
  <1>2. /\ pb \in Seq(BallotVote) /\ Len(pb) = Cardinality(V)
        /\ Range(pb) = {Converted(v, d) : v \in V}
        /\ \A v \in V : Converted(v, d) \in BallotVote /\ Converted(v, d).voter = v
    BY ConvertedBallot, ZenonT(30)
  <1>3. Range(pb) = {g[v] : v \in V} /\ g \in [V -> BallotVote] /\ \A v \in V : g[v].voter = v
    BY <1>2
  <1>4. IsFiniteSet(V)
    BY <1>1, SupporterSets
  <1>5. (\A v \in both : h[v] = power[v]) /\ \A v \in V \ both : h[v] = 0
    <2>1. \A v \in V : h[v] = IF v \in both THEN power[v] ELSE 0
      <3> TAKE v \in V
      <3>1. /\ h[v] = CrossVote(ForTally(v, d), ToMap(Ballots[Tallied.reference])).power
            /\ DOMAIN ToMap(Ballots[Tallied.reference]) = Supporters(Tallied.reference)
        BY <1>1, Bases DEF Converted
      <3>2. ForTally(v, d) = [voter |-> v, rate |-> votes[v].rates[d],
                              power |-> IF votes[v].rates[d] > 0 THEN power[v] ELSE 0]
        BY DEF ForTally
      <3>3. v \in both <=> v \in Supporters(Tallied.reference) /\ votes[v].rates[d] > 0
        BY DEF Supporters
      <3> DEFINE vote == ForTally(v, d)
      <3>4. vote \in BallotVote /\ vote.voter = v /\ vote.rate = votes[v].rates[d]
            /\ vote.power = IF votes[v].rates[d] > 0 THEN power[v] ELSE 0
        <4>1. votes[v].rates[d] \in Nat /\ v \in Validators /\ power[v] \in Nat
          BY <1>1, SupporterSets
        <4> QED BY <3>2, <4>1 DEF BallotVote
      <3> HIDE DEF vote, h, both
      <3>5. CASE v \in both
        <4>1. h[v] = [vote EXCEPT !.rate = Quo(ToMap(Ballots[Tallied.reference])[vote.voter], vote.rate)].power
          BY <3>1, <3>3, <3>4, <3>5 DEF CrossVote, vote
        <4>2. \A x : [vote EXCEPT !.rate = x].power = vote.power
          BY <3>4 DEF BallotVote
        <4> QED BY <3>3, <3>4, <3>5, <4>1, <4>2
      <3>6. CASE v \notin both
        <4>1. h[v] = [vote EXCEPT !.rate = 0, !.power = 0].power
          BY <3>1, <3>3, <3>4, <3>6 DEF CrossVote, vote
        <4>2. [vote EXCEPT !.rate = 0, !.power = 0].power = 0
          BY <3>4 DEF BallotVote
        <4> QED BY <3>6, <4>1, <4>2
      <3> QED BY <3>5, <3>6
    <2>2. both \in SUBSET V
      BY DEF Supporters
    <2> HIDE DEF h, V, both
    <2> QED BY <2>1, <2>2
  <1> HIDE DEF pb, g, V
  <1>6. BallotPower(pb) = SumFunctionOnSet(h, V)
    BY <1>2, <1>3, <1>4, PowerByVoter
  <1> HIDE DEF h
  <1>7. SumFunctionOnSet(h, V) = SumFunctionOnSet(power, both)
    <2>1. both \in SUBSET V /\ \A v \in both : power[v] \in Int
      BY <1>1, SupporterSets DEF V
    <2> HIDE DEF both
    <2> QED BY <1>4, <1>5, <2>1, SumMasked
  <1> QED BY <1>6, <1>7 DEF pb

\* The votes of a denomination that win are votes of its ballot, and an abstention wins.
LEMMA Winners ==
    ASSUME StoreTypeOK, NEW d \in DOMAIN Tallied.winners
    PROVE  /\ d \in DOMAIN Tallied.cross
           /\ Tallied.winners[d] \subseteq Range(Tallied.cross[d])
           /\ IsFiniteSet(Tallied.winners[d])
           /\ \A w \in Range(Tallied.cross[d]) : w.rate = 0 => w \in Tallied.winners[d]
  <1> DEFINE pb == Tallied.cross[d]
             W == Tallied.winners[d]
  <1>1. d \in DOMAIN Tallied.cross /\ W = TallyWinners(pb, RewardBand)
    BY TalliedIs
  <1>2. pb \in Seq(BallotVote)
    BY <1>1, CrossBallot
  <1> HIDE DEF pb, W
  <1>3. W \subseteq Range(pb) /\ \A w \in Range(pb) : ~(w.rate > 0) => w \in W
    BY <1>1 DEF TallyWinners
  <1>4. IsFiniteSet(Range(pb))
    <2>1. DOMAIN pb = 1..Len(pb) /\ Len(pb) \in Nat
      BY <1>2
    <2>2. IsFiniteSet(DOMAIN pb)
      BY <2>1, FS_Interval
    <2>3. pb \in Surjection(DOMAIN pb, Range(pb))
      BY <1>2, <2>1 DEF Surjection, Range
    <2> QED BY <2>2, <2>3, FS_Surjection
  <1>5. \A w \in Range(pb) : w.rate = 0 => w \in W
    BY <1>3
  <1> QED BY <1>1, <1>3, <1>4, <1>5, FS_Subset DEF pb, W

\* The votes of a validator that won, each with its denomination.
WonBy(v) ==
    {vote \in UNION {{<<d, w>> : w \in Tallied.winners[d]} : d \in DOMAIN Tallied.winners} :
        vote[2].voter = v}

\* They are finitely many, and have their powers.
LEMMA Won ==
    ASSUME StoreTypeOK, NEW v
    PROVE  /\ IsFiniteSet(WonBy(v))
           /\ \A vote \in WonBy(v) : \E d \in DOMAIN Tallied.winners :
                \E w \in Tallied.winners[d] : vote = <<d, w>> /\ w.voter = v
           /\ \A vote \in WonBy(v) : vote[2].power \in Nat
           /\ Weight(Tallied, v) = SumFunctionOnSet([vote \in WonBy(v) |-> vote[2].power], WonBy(v))
           /\ Weight(Tallied, v) \in Nat
  <1> DEFINE D == DOMAIN Tallied.winners
             of == [d \in D |-> {<<d, w>> : w \in Tallied.winners[d]}]
             all == UNION {of[d] : d \in D}
             f == [vote \in WonBy(v) |-> vote[2].power]
  <1>1. IsFiniteSet(D)
    <2>1. D \in SUBSET Denoms
      BY TalliedIs DEF PassingBallots, Listed
    <2> HIDE DEF D
    <2> QED BY <2>1, OracleAssumption, FS_Subset
  <1>2. \A d \in D : IsFiniteSet(of[d])
    <2> TAKE d \in D
    <2> DEFINE W == Tallied.winners[d]
               pair == [w \in W |-> <<d, w>>]
    <2>1. IsFiniteSet(W)
      BY Winners
    <2> HIDE DEF W
    <2>2. pair \in Surjection(W, {<<d, w>> : w \in W})
      BY Zenon DEF Surjection
    <2>3. IsFiniteSet({<<d, w>> : w \in W})
      BY <2>1, <2>2, FS_Surjection
    <2> QED BY <2>3 DEF W
  <1>3. IsFiniteSet({of[d] : d \in D})
    <2> HIDE DEF D
    <2>1. of \in Surjection(D, {of[d] : d \in D})
      BY DEF Surjection
    <2> QED BY <1>1, <2>1, FS_Surjection
  <1>4. IsFiniteSet(all)
    <2> HIDE DEF of, D
    <2>1. \A T \in {of[d] : d \in D} : IsFiniteSet(T)
      BY <1>2
    <2> QED BY <1>3, <2>1, FS_UNION
  <1>5. all = UNION {{<<d, w>> : w \in Tallied.winners[d]} : d \in D}
    <2> HIDE DEF D
    <2>1. {of[d] : d \in D} = {{<<d, w>> : w \in Tallied.winners[d]} : d \in D}
      OBVIOUS
    <2> QED BY <2>1, Zenon
  <1>6. WonBy(v) \in SUBSET all /\ \A vote \in WonBy(v) : vote[2].voter = v
    BY <1>5 DEF WonBy
  <1>7. IsFiniteSet(WonBy(v))
    <2> HIDE DEF all
    <2> QED BY <1>4, <1>6, FS_Subset
  <1>8. \A vote \in WonBy(v) : \E d \in D :
            \E w \in Tallied.winners[d] : vote = <<d, w>> /\ w.voter = v
    <2> TAKE vote \in WonBy(v)
    <2>1. PICK d \in D : \E w \in Tallied.winners[d] : vote = <<d, w>>
      BY <1>6, ZenonT(30)
    <2>2. PICK w \in Tallied.winners[d] : vote = <<d, w>>
      BY <2>1
    <2>3. vote[2] = w
      BY <2>2
    <2> QED BY <1>6, <2>2, <2>3
  <1>9. \A vote \in WonBy(v) : vote[2].power \in Nat
    <2> TAKE vote \in WonBy(v)
    <2>1. PICK d \in D : \E w \in Tallied.winners[d] : vote = <<d, w>>
      BY <1>8
    <2>2. PICK w \in Tallied.winners[d] : vote = <<d, w>>
      BY <2>1
    <2> DEFINE pb == Tallied.cross[d]
    <2>3. w \in Range(pb) /\ pb \in Seq(BallotVote)
      BY Winners, CrossBallot
    <2> HIDE DEF pb
    <2>4. w \in BallotVote
      BY <2>3 DEF Range
    <2> QED BY <2>2, <2>4 DEF BallotVote
  <1>10. Weight(Tallied, v) = SumFunctionOnSet(f, WonBy(v))
    BY DEF Weight, WonBy, SumFunction
  <1>11. SumFunctionOnSet(f, WonBy(v)) \in Nat
    <2>1. \A vote \in WonBy(v) : f[vote] \in Nat
      BY <1>9
    <2> HIDE DEF f
    <2> QED BY <1>7, <2>1, SumNat
  <1> QED BY <1>7, <1>8, <1>9, <1>10, <1>11

\* A validator that abstains on every target wins them all, and weighs nothing.
LEMMA AbstainerWins ==
    ASSUME StoreTypeOK, NEW v \in Claimed, Abstains(v)
    PROVE  /\ WinCount(Tallied, v) = Cardinality(Tallied.targets)
           /\ Weight(Tallied, v) = 0
  <1> DEFINE passing == PassingBallots(Ballots)
             won == {d \in DOMAIN Tallied.winners :
                        \E vote \in Tallied.winners[d] : vote.voter = v}
             f == [vote \in WonBy(v) |-> vote[2].power]
  <1>1. \A d \in Listed(tobinTaxes) : v \in VotersOf(d) /\ votes[v].rates[d] = 0
    BY DEF Abstains, VotersOf
  <1>2. \A d \in Listed(tobinTaxes) : Ballots[d] # <<>>
    <2> TAKE d \in Listed(tobinTaxes)
    <2>1. d \in Denoms
      BY DEF Listed
    <2>2. ForTally(v, d) \in Range(Ballots[d])
      BY <1>1, <2>1, OrganizedBallot
    <2> QED BY <2>2 DEF Range
  <1>3. Tallied.targets = passing
    BY <1>2, TalliedIs DEF RemainingTargets, PassingBallots
  <1>4. DOMAIN Tallied.winners = passing /\ DOMAIN Tallied.cross = passing
    BY TalliedIs
  <1>5. \A d \in passing : d \in won
    <2> TAKE d \in passing
    <2>1. d \in Listed(tobinTaxes)
      BY DEF PassingBallots
    <2>2. PICK w \in Range(Tallied.cross[d]) : w.voter = v
      BY <1>1, <1>4, <2>1, CrossBallot
    <2>3. w.rate = 0
      BY <1>1, <1>4, <2>1, <2>2, CrossBallot
    <2> QED BY <1>4, <2>2, <2>3, Winners
  <1>6. won = passing
    BY <1>4, <1>5
  <1>7. \A vote \in WonBy(v) : vote[2].power = 0
    <2> TAKE vote \in WonBy(v)
    <2>1. PICK d \in passing : \E w \in Tallied.winners[d] : vote = <<d, w>> /\ w.voter = v
      BY <1>4, Won, ZenonT(30)
    <2>2. PICK w \in Tallied.winners[d] : vote = <<d, w>> /\ w.voter = v
      BY <2>1
    <2>3. d \in Listed(tobinTaxes)
      BY DEF PassingBallots
    <2>4. w.power = 0
      BY <1>1, <1>4, <2>2, <2>3, Winners, CrossBallot
    <2> QED BY <2>2, <2>4
  <1>8. SumFunctionOnSet(f, WonBy(v)) = 0
    <2>1. \A vote \in WonBy(v) : f[vote] = 0
      BY <1>7
    <2> HIDE DEF f
    <2> QED BY <2>1, Won, SumZero, ZenonT(30)
  <1> QED BY <1>3, <1>6, <1>8, Won DEF WinCount

\* What the reward window, the active set and the decimals must satisfy for the roundings
\* of the shares not to add up to a coin.  The chain's decimals have 18 places, its window
\* is about 10^7 blocks and it has some hundred validators.
RoundingsVanish == RewardDistributionWindow * Cardinality(Validators) < 2 * Unit

\* The amounts that RewardBallotWinners pays are natural numbers, nothing for no weight, and
\* add up to no more than the period's share of the pool.
LEMMA RewardsFit ==
    ASSUME StoreTypeOK, NEW d \in RewardDenoms
    PROVE  LET rewards == RewardBallotWinners(Tallied)
           IN  /\ \A v \in Validators :
                    /\ rewards[v][d] \in Nat
                    /\ v \in Claimed /\ Weight(Tallied, v) = 0 => rewards[v][d] = 0
                    /\ v \notin Claimed => rewards[v][d] = 0
               /\ Distributed(rewards, d) \in Nat
               /\ RoundingsVanish =>
                    /\ Distributed(rewards, d) * RewardDistributionWindow <= pool[d] * VotePeriod
                    /\ Distributed(rewards, d) <= pool[d]
  <1> DEFINE t == Tallied
             g == [v \in Claimed |-> Weight(t, v)]
             sum == SumFunction(g)
             W == RewardDistributionWindow
             P == pool[d]
             reward == Mul(NewDec(P), QuoInt(NewDec(VotePeriod), W))
             rewards == RewardBallotWinners(t)
             f == [v \in Validators |-> rewards[v][d]]
             R == Distributed(rewards, d)
             N == Cardinality(Claimed)
             paid == ~(sum = 0 \/ d \notin t.targets \cup {Luna})
  <1>1. /\ Unit \in Nat \ {0} /\ W \in Nat \ {0} /\ VotePeriod \in Nat \ {0}
        /\ VotePeriod <= W /\ P \in Nat
    BY UnitAssumption, OracleAssumption, ParamsAssumption DEF StoreTypeOK
  <1>2. /\ IsFiniteSet(Validators) /\ Claimed \in SUBSET Validators /\ IsFiniteSet(Claimed)
        /\ N \in Nat /\ Cardinality(Validators) \in Nat /\ N <= Cardinality(Validators)
    BY OracleAssumption, FS_Subset, FS_CardinalityType DEF Claimed
  <1>3. \A v \in Claimed : g[v] \in Nat /\ g[v] = Weight(Tallied, v)
    BY Won, ZenonT(30)
  <1>4. sum = SumFunctionOnSet(g, Claimed)
    BY DEF SumFunction
  <1>5. R = SumFunctionOnSet(f, Validators) /\ \A v \in Validators : f[v] = rewards[v][d]
    BY DEF Distributed, SumFunction
  <1>6. \A v \in Validators :
            f[v] = IF sum = 0 \/ v \notin Claimed \/ d \notin t.targets \cup {Luna} THEN 0
                   ELSE TruncateInt(Mul(reward, QuoInt(NewDec(g[v]), sum)))
    BY DEF RewardBallotWinners
  <1> HIDE DEF f, R, rewards, sum, g, t
  <1>7. sum \in Nat
    BY <1>2, <1>3, <1>4, SumNat
  <1>8. reward \in Nat
    BY <1>1, PartIs
  <1> HIDE DEF reward
  <1>9. CASE ~paid
    <2>1. \A v \in Validators : f[v] = 0
      BY <1>6, <1>9
    <2>2. R = 0
      BY <1>2, <1>5, <2>1, SumZero
    <2>3. 0 * W = 0 /\ P * VotePeriod \in Nat
      BY <1>1, Z3
    <2>4. R \in Nat /\ R * W <= P * VotePeriod /\ R <= P
      BY <1>1, <2>2, <2>3
    <2>5. \A v \in Validators : rewards[v][d] = 0
      BY <1>5, <2>1
    <2> QED BY <2>4, <2>5 DEF R, rewards, t
  <1>10. CASE paid
    <2>1. sum \in Nat \ {0}
      BY <1>7, <1>10
    <2>2. \A v \in Claimed : f[v] = TruncateInt(Mul(reward, QuoInt(NewDec(g[v]), sum)))
      BY <1>2, <1>6, <1>10
    <2>3. \A v \in Validators \ Claimed : f[v] = 0
      BY <1>6
    <2> HIDE DEF paid
    <2>4. /\ \A v \in Claimed : f[v] \in Nat /\ (g[v] = 0 => f[v] = 0)
          /\ SumFunctionOnSet(f, Claimed) \in Nat
          /\ 2 * Unit * SumFunctionOnSet(f, Claimed) <= 2 * reward + N
      BY <1>2, <1>3, <1>4, <1>8, <2>1, <2>2, SharesFit
    <2>5. \A v \in Validators : f[v] \in Nat /\ f[v] \in Int
      BY <2>3, <2>4
    <2>6. R = SumFunctionOnSet(f, Claimed)
      <3>1. R = SumFunctionOnSet(f, Claimed) + SumFunctionOnSet(f, Validators \ Claimed)
        BY <1>2, <1>5, <2>5, SumSplit
      <3>2. IsFiniteSet(Validators \ Claimed)
        BY <1>2, FS_Subset
      <3>3. SumFunctionOnSet(f, Validators \ Claimed) = 0
        BY <2>3, <3>2, SumZero
      <3> QED BY <2>4, <3>1, <3>3
    <2>7. R \in Nat /\ 2 * Unit * R <= 2 * reward + N
      BY <2>4, <2>6
    <2>8. ASSUME RoundingsVanish PROVE R * W <= P * VotePeriod /\ R <= P
      <3>1. W * N < 2 * Unit
        <4> DEFINE V == Cardinality(Validators)
        <4>1. V \in Nat /\ N <= V /\ W * V < 2 * Unit
          BY <1>2, <2>8 DEF RoundingsVanish
        <4> HIDE DEF V, N, W
        <4>2. W * N <= W * V /\ W * N \in Int /\ W * V \in Int
          BY <1>1, <1>2, <4>1, Z3
        <4> QED BY <1>1, <4>1, <4>2
      <3> HIDE DEF N, W, P
      <3> QED BY <1>1, <1>2, <2>7, <3>1, PartSuffices DEF reward
    <2>9. \A v \in Validators :
            /\ rewards[v][d] \in Nat
            /\ v \in Claimed /\ Weight(Tallied, v) = 0 => rewards[v][d] = 0
            /\ v \notin Claimed => rewards[v][d] = 0
      BY <1>3, <1>5, <2>3, <2>4, <2>5
    <2> QED BY <2>7, <2>8, <2>9 DEF R, rewards, t
  <1> QED BY <1>9, <1>10

-----------------------------------------------------------------------------
(* Zero medians *)

\* No ballot of cross rates has the median zero.
MediansPositive ==
    EndOfPeriod => \A d \in DOMAIN Tallied.cross \ {Tallied.reference} :
                        WeightedMedian(Tallied.cross[d]) # 0

\* The power of the bonded validators.
BondedPower == SumFunctionOnSet(power, {v \in Validators : IsBonded(v)})

\* Two ballots that pass have a voter in common, and it has more than one unit of power.
MajoritiesOverlap ==
    2 * ThresholdVotes > BondedPower /\ \A v \in Claimed : power[v] # 1

\* No two rates are so far apart that their quotient rounds to zero.
CrossRatesPositive == \A r, s \in Rates \ {0} : Quo(r, s) # 0

\* The supporters of two passing ballots that overlap have more than one unit of power.
LEMMA Overlap ==
    ASSUME StoreTypeOK, MajoritiesOverlap,
           NEW d \in PassingBallots(Ballots), NEW e \in PassingBallots(Ballots)
    PROVE  SumFunctionOnSet(power, Supporters(d) \cap Supporters(e)) > 1
  <1> DEFINE A == Supporters(d)
             B == Supporters(e)
             bonded == {v \in Validators : IsBonded(v)}
             n == SumFunctionOnSet(power, bonded)
             p == VoteThreshold * n
  <1>1. d \in Denoms /\ e \in Denoms
    BY DEF PassingBallots, Listed
  <1>2. /\ IsFiniteSet(Validators) /\ \A v \in Validators : power[v] \in Nat
        /\ A \in SUBSET Claimed /\ B \in SUBSET Claimed /\ Claimed \in SUBSET bonded
        /\ bonded \in SUBSET Validators
    BY <1>1, SupporterSets, ZenonT(30) DEF Supporters, VotersOf, Claimed
  <1>3. n = BondedPower /\ ThresholdVotes = ChopRound(p)
    BY DEF BondedPower, ThresholdVotes, RoundInt
  <1>4. /\ SumFunctionOnSet(power, A) >= ThresholdVotes
        /\ SumFunctionOnSet(power, B) >= ThresholdVotes
    BY <1>1, RawPower DEF PassingBallots, BallotIsPassing
  <1>5. 2 * ThresholdVotes > n /\ \A v \in A \cap B : power[v] # 1
    BY <1>2, <1>3 DEF MajoritiesOverlap
  <1> HIDE DEF A, B, bonded
  <1>6. /\ IsFiniteSet(bonded) /\ \A v \in bonded : power[v] \in Nat
        /\ A \in SUBSET bonded /\ B \in SUBSET bonded
    BY <1>2, FS_Subset
  <1>7. VoteThreshold \in Nat /\ n \in Nat
    BY <1>6, SumNat, OracleAssumption, UnitAssumption DEF OneDec
  <1>8. ThresholdVotes \in Nat
    <2>1. p \in Nat
      <3> HIDE DEF n
      <3> QED BY <1>7, Z3
    <2> HIDE DEF p
    <2> QED BY <1>3, <2>1, ChopNear
  <1>9. SumFunctionOnSet(power, A \cap B) > 1
    BY <1>4, <1>5, <1>6, <1>8, Majorities
  <1> QED BY <1>9 DEF A, B

\* Where passing ballots overlap and no quotient of rates rounds to zero, no median does.
LEMMA OverlapMedians ==
    ASSUME StoreTypeOK, MajoritiesOverlap, CrossRatesPositive
    PROVE  MediansPositive
  <1> SUFFICES ASSUME NEW d \in DOMAIN Tallied.cross, d # Tallied.reference
               PROVE  WeightedMedian(Tallied.cross[d]) # 0
    BY DEF MediansPositive
  <1> DEFINE pb == Tallied.cross[d]
             reference == Tallied.reference
  <1>1. /\ d \in PassingBallots(Ballots) /\ reference \in PassingBallots(Ballots)
        /\ d \in Denoms /\ reference \in Denoms
    BY TalliedIs, ReferenceTerra DEF PassingBallots, Listed
  <1>2. /\ pb \in Seq(BallotVote) /\ SortedBallot(pb)
        /\ Range(pb) = {Converted(v, d) : v \in VotersOf(d)}
    BY ConvertedBallot, Zenon
  <1>3. BallotPower(pb) > 1
    BY <1>1, ConvertedPower, Overlap, ZenonT(30)
  <1>4. ASSUME NEW v \in VotersOf(d), Converted(v, d).rate = 0
        PROVE  Converted(v, d).power = 0
    <2> DEFINE vote == ForTally(v, d)
               bases == ToMap(Ballots[reference])
    <2>1. vote.voter = v /\ vote.rate = votes[v].rates[d] /\ vote \in BallotVote
      <3>1. votes[v].rates[d] \in Nat /\ v \in Validators /\ power[v] \in Nat
        BY <1>1, SupporterSets
      <3> QED BY <3>1 DEF ForTally, BallotVote
    <2>2. Converted(v, d) = CrossVote(vote, bases)
      BY DEF Converted
    <2>3. /\ DOMAIN bases = Supporters(reference)
          /\ \A w \in Supporters(reference) : bases[w] = votes[w].rates[reference]
      BY <1>1, Bases
    <2>4. votes[v].rates[d] \in Rates /\ votes[v].rates[d] \in Nat
      BY <1>1, SupporterSets
    <2>5. \A w \in Supporters(reference) : votes[w].rates[reference] \in Rates \ {0}
      BY <1>1, SupporterSets DEF Supporters
    <2> HIDE DEF vote, bases, reference
    <2>6. CASE v \in DOMAIN bases /\ vote.rate > 0
      <3> DEFINE q == Quo(bases[v], vote.rate)
      <3>1. q # 0
        BY <2>1, <2>3, <2>4, <2>5, <2>6 DEF CrossRatesPositive
      <3>2. Converted(v, d) = [vote EXCEPT !.rate = q]
        BY <2>1, <2>2, <2>6 DEF CrossVote
      <3> HIDE DEF q
      <3>3. [vote EXCEPT !.rate = q].rate = q
        BY <2>1 DEF BallotVote
      <3> QED BY <1>4, <3>1, <3>2, <3>3
    <2>7. CASE ~(v \in DOMAIN bases /\ vote.rate > 0)
      <3>1. Converted(v, d) = [vote EXCEPT !.rate = 0, !.power = 0]
        BY <2>1, <2>2, <2>7 DEF CrossVote
      <3>2. [vote EXCEPT !.rate = 0, !.power = 0].power = 0
        BY <2>1 DEF BallotVote
      <3> QED BY <3>1, <3>2
    <2> QED BY <2>6, <2>7
  <1>5. \A i \in DOMAIN pb : pb[i].rate = 0 => pb[i].power = 0
    <2> HIDE DEF pb
    <2> TAKE i \in DOMAIN pb
    <2>1. pb[i] \in Range(pb)
      BY DEF Range
    <2>2. PICK v \in VotersOf(d) : pb[i] = Converted(v, d)
      BY <1>2, <2>1
    <2> QED BY <1>4, <2>2
  <1> HIDE DEF pb
  <1>6. WeightedMedian(pb) # 0
    BY <1>2, <1>3, <1>5, PositiveMedian
  <1> QED BY <1>6 DEF pb


-----------------------------------------------------------------------------
(* Types *)

\* What a slash leaves of a validator's power is a natural number.
LEMMA SlashedPowerType ==
    ASSUME NEW n \in Nat
    PROVE  TruncateInt(n * (OneDec - SlashFraction)) \in Nat
  <1> DEFINE rest == n * (OneDec - SlashFraction)
  <1>1. OneDec - SlashFraction \in Nat
    BY UnitAssumption, OracleAssumption DEF OneDec
  <1>2. rest \in Nat
    BY <1>1, Z3
  <1> HIDE DEF rest
  <1>3. rest \div Unit \in Nat
    BY <1>2, UnitAssumption, DivDef
  <1>4. TruncateInt(rest) = rest \div Unit
    BY <1>2, UnitAssumption DEF TruncateInt, TruncQuo
  <1> QED BY <1>3, <1>4 DEF rest

\* Counting the misses of a tally keeps the counters natural numbers.
LEMMA CountMissesType ==
    ASSUME StoreTypeOK, NEW t
    PROVE  MissesAfterTally(t) \in [Validators -> Nat \cup {None}]
  <1>1. ASSUME NEW v \in Validators, missCounters[v] # None
        PROVE  1 + missCounters[v] \in Nat
    BY <1>1 DEF StoreTypeOK
  <1> QED BY <1>1 DEF StoreTypeOK, MissesAfterTally, CountMisses

\* What the tally pays leaves the amounts natural numbers: the EndBlocker panics when it
\* exceeds the pool.
LEMMA AmountsAtEndBlock ==
    ASSUME StoreTypeOK, ~EndBlockerPanics(Tallied), EndBlocker(Tallied)
    PROVE  pool' \in [RewardDenoms -> Nat] /\ allocated' \in [Validators -> [RewardDenoms -> Nat]]
  <1> DEFINE rewards == RewardBallotWinners(Tallied)
  <1>1. CASE ~EndOfPeriod
    BY <1>1 DEF EndBlocker, StoreTypeOK
  <1>2. CASE EndOfPeriod
    <2>1. \A d \in RewardDenoms :
            /\ Distributed(rewards, d) \in Nat
            /\ \A v \in Validators : rewards[v][d] \in Nat
      BY RewardsFit
    <2>2. \A d \in RewardDenoms : ~(Distributed(rewards, d) > pool[d])
      BY <1>2 DEF EndBlockerPanics, RewardsPanic
    <2>3. /\ pool' = [d \in RewardDenoms |-> pool[d] - Distributed(rewards, d)]
          /\ allocated' = [v \in Validators |-> [d \in RewardDenoms |->
                                allocated[v][d] + rewards[v][d]]]
      BY <1>2 DEF EndBlocker, WriteTally
    <2> HIDE DEF rewards
    <2>4. \A d \in RewardDenoms : pool[d] \in Nat /\ \A v \in Validators : allocated[v][d] \in Nat
      BY DEF StoreTypeOK
    <2>5. \A d \in RewardDenoms : pool[d] - Distributed(rewards, d) \in Nat
      BY <2>1, <2>2, <2>4
    <2>6. \A v \in Validators, d \in RewardDenoms : allocated[v][d] + rewards[v][d] \in Nat
      BY <2>1, <2>4
    <2> QED BY <2>3, <2>5, <2>6
  <1> QED BY <1>1, <1>2

\* The end of a block keeps the types of the stores it writes.
LEMMA EndBlockType ==
    ASSUME StoreTypeOK, EndBlock
    PROVE  StoreTypeOK'
  <1> USE DEF StoreTypeOK
  <1>1. CASE EndBlockerPanics(Tallied)
    BY <1>1 DEF EndBlock, StakingTypeOK, stakingVars
  <1>2. CASE ~EndBlockerPanics(Tallied)
    <2> DEFINE t == Tallied
    <2>1. /\ EndBlocker(t) /\ StakingEndBlock(jailed', height)
          /\ height' = height + 1 /\ UNCHANGED <<feeder, whitelist, halted>>
      BY <1>2 DEF EndBlock
    <2> HIDE DEF t
    <2>2. height' \in Nat /\ feeder' \in [Validators -> Accounts]
          /\ whitelist' \in TaxTable /\ halted' \in BOOLEAN
      BY <2>1
    <2>3. prevotes' \in [Validators -> Prevote \cup {None}]
      BY <2>1, ZenonT(30) DEF EndBlocker, WriteTally, ClearPrevotes
    <2>4. votes' \in [Validators -> Vote \cup {None}]
      BY <2>1, ZenonT(30) DEF EndBlocker, WriteTally
    <2>5. tobinTaxes' \in TaxTable
      BY <2>1 DEF EndBlocker, WriteTally, ApplyWhitelist
    <2>6. missCounters' \in [Validators -> Nat \cup {None}]
      BY <2>1, CountMissesType DEF EndBlocker, SlashAndResetMissCounters
    <2>7. jailed' \in [Validators -> BOOLEAN]
      BY <2>1, Zenon DEF EndBlocker, SlashAndResetMissCounters, StakingTypeOK
    <2>8. power' \in [Validators -> Nat]
      BY <2>1, SlashedPowerType DEF EndBlocker, SlashAndResetMissCounters, StakingTypeOK
    <2>9. status' \in [Validators -> Statuses] /\ since' \in [Validators -> Nat]
      BY <2>1 DEF StakingEndBlock, StakingTypeOK
    <2>10. pool' \in [RewardDenoms -> Nat] /\ allocated' \in [Validators -> [RewardDenoms -> Nat]]
      BY <1>2, <2>1, AmountsAtEndBlock DEF t
    <2> QED BY <2>2, <2>3, <2>4, <2>5, <2>6, <2>7, <2>8, <2>9, <2>10 DEF StakingTypeOK
  <1> QED BY <1>1, <1>2

\* Every step keeps the types.
LEMMA StoreTypeStep == StoreTypeOK /\ [Next]_vars => StoreTypeOK'
  <1> SUFFICES ASSUME StoreTypeOK, [Next]_vars PROVE StoreTypeOK'
    OBVIOUS
  <1> USE DEF StoreTypeOK
  <1>1. ASSUME NEW f \in Accounts, NEW v \in Validators, NEW hash \in Hashes,
               AggregateExchangeRatePrevote(f, v, hash)
        PROVE  StoreTypeOK'
    BY <1>1, ZenonT(30) DEF AggregateExchangeRatePrevote, Prevote, StakingTypeOK, stakingVars
  <1>2. ASSUME NEW f \in Accounts, NEW v \in Validators, NEW tuples \in Tuples,
               AggregateExchangeRateVote(f, v, tuples)
        PROVE  StoreTypeOK'
    <2>1. prevotes[v].submitBlock \in Nat
      BY <1>2, ZenonT(30) DEF AggregateExchangeRateVote, Prevote
    <2>2. [rates |-> tuples, submitBlock |-> prevotes[v].submitBlock, revealBlock |-> height]
            \in Vote
      BY <2>1 DEF Vote
    <2> QED BY <1>2, <2>2, ZenonT(30) DEF AggregateExchangeRateVote, StakingTypeOK, stakingVars
  <1>3. ASSUME NEW v \in Validators, NEW f \in Delegates, DelegateFeedConsent(v, f)
        PROVE  StoreTypeOK'
    BY <1>3, OracleAssumption DEF DelegateFeedConsent, StakingTypeOK, stakingVars
  <1>4. CASE EndBlock
    BY <1>4, EndBlockType
  <1>5. ASSUME NEW table \in Whitelists, ChangeWhitelist(table)
        PROVE  StoreTypeOK'
    BY <1>5, OracleAssumption DEF ChangeWhitelist, StakingTypeOK, stakingVars
  <1>6. ASSUME NEW d \in RewardDenoms, NEW amount \in Fees, ReceiveFee(d, amount)
        PROVE  StoreTypeOK'
    <2>1. pool[d] + amount \in Nat
      BY OracleAssumption
    <2> QED BY <1>6, <2>1 DEF ReceiveFee, StakingTypeOK, stakingVars
  <1>7. CASE StakingTx
    BY <1>7, StakingAssumption, ZenonT(30) DEF StakingTx, oracleVars, Jail, Unjail, CreateValidator,
        StakingTypeOK, Statuses
  <1>8. CASE UNCHANGED vars
    BY <1>8 DEF vars, oracleVars, stakingVars, StakingTypeOK
  <1> QED BY <1>1, <1>2, <1>3, <1>4, <1>5, <1>6, <1>7, <1>8, ZenonT(30) DEF Next, Messages

\* The stores hold what their keys promise, in every state.
THEOREM StoreTypes == Spec => []StoreTypeOK
  <1>1. Init => StakingTypeOK
    BY StakingAssumption DEF Init, StakingInit, StakingTypeOK, Statuses
  <1>2. Init => feeder \in [Validators -> Accounts]
    BY OracleAssumption DEF Init
  <1>3. Init => tobinTaxes \in TaxTable /\ whitelist \in TaxTable
    BY OracleAssumption DEF Init
  <1>4. Init => prevotes \in [Validators -> Prevote \cup {None}]
                /\ votes \in [Validators -> Vote \cup {None}]
                /\ missCounters \in [Validators -> Nat \cup {None}]
    BY DEF Init
  <1>5. Init => height \in Nat
    BY DEF Init
  <1>6. Init => halted \in BOOLEAN
    BY ZenonT(30) DEF Init
  <1>8. Init => /\ pool \in [RewardDenoms -> Nat]
                /\ allocated \in [Validators -> [RewardDenoms -> Nat]]
    BY DEF Init
  <1>7. Init => StoreTypeOK
    BY <1>1, <1>2, <1>3, <1>4, <1>5, <1>6, <1>8 DEF StoreTypeOK
  <1> QED BY <1>7, StoreTypeStep, PTL DEF Spec

-----------------------------------------------------------------------------
(* Commit and reveal *)

\* Votes live in one period: the standing ones were revealed in the current
\* period, and committed to in the one before.
RevealInv ==
    \A v \in Validators : votes[v] # None =>
        /\ PeriodOf(votes[v].revealBlock) = PeriodOf(height)
        /\ PeriodOf(votes[v].submitBlock) + 1 = PeriodOf(height)

\* A block is in some period.
LEMMA PeriodOfType ==
    ASSUME NEW h \in Nat
    PROVE  PeriodOf(h) \in Nat
  BY DivDef, OracleAssumption, Zenon DEF PeriodOf

\* A period later, the period number is one more.
LEMMA PeriodShift ==
    ASSUME NEW h \in Nat
    PROVE  PeriodOf(h + VotePeriod) = PeriodOf(h) + 1
  <1> DEFINE q == h \div VotePeriod
             r == h % VotePeriod
  <1>1. q \in Nat /\ r \in 0..(VotePeriod - 1) /\ h = q * VotePeriod + r
    BY DivDef, OracleAssumption, ZenonT(30)
  <1> HIDE DEF q, r
  <1>2. h + VotePeriod = (q + 1) * VotePeriod + r
    BY <1>1, OracleAssumption, Z3
  <1>3. /\ VotePeriod \in Nat \ {0} /\ h + VotePeriod \in Int /\ q + 1 \in Int
        /\ r \in Int /\ 0 <= r /\ r < VotePeriod
    BY <1>1, OracleAssumption
  <1>4. (h + VotePeriod) \div VotePeriod = q + 1
    BY <1>2, <1>3, DivUnique, Zenon
  <1> QED BY <1>4 DEF PeriodOf, q

\* What a step does to the height, and what it leaves alone between two blocks.
LEMMA HeightStep ==
    ASSUME StoreTypeOK, [Next]_vars
    PROVE  \/ height' = height
           \/ EndBlock /\ ~EndBlockerPanics(Tallied) /\ height' = height + 1
  <1>1. CASE Messages
    BY <1>1, ZenonT(30) DEF Messages, AggregateExchangeRatePrevote, AggregateExchangeRateVote,
                DelegateFeedConsent, oracleVars
  <1>2. CASE EndBlock
    BY <1>2 DEF EndBlock
  <1>3. ASSUME NEW table \in Whitelists, ChangeWhitelist(table)
        PROVE  height' = height
    BY <1>3 DEF ChangeWhitelist, oracleVars
  <1>4. ASSUME NEW d \in RewardDenoms, NEW amount \in Fees, ReceiveFee(d, amount)
        PROVE  height' = height
    BY <1>4 DEF ReceiveFee, oracleVars
  <1>5. CASE StakingTx
    BY <1>5 DEF StakingTx, oracleVars
  <1>6. CASE UNCHANGED vars
    BY <1>6 DEF vars, oracleVars
  <1> QED BY <1>1, <1>2, <1>3, <1>4, <1>5, <1>6 DEF Next

\* Within a block, a vote changes only by being revealed.
LEMMA VoteStep ==
    ASSUME StoreTypeOK, [Next]_vars, height' = height, NEW v \in Validators
    PROVE  \/ votes'[v] = votes[v]
           \/ /\ votes'[v].revealBlock = height
              /\ prevotes[v] # None
              /\ votes'[v].submitBlock = prevotes[v].submitBlock
              /\ PeriodOf(height) - PeriodOf(prevotes[v].submitBlock) = 1
  <1>1. ASSUME NEW f \in Accounts, NEW w \in Validators, NEW tuples \in Tuples,
               AggregateExchangeRateVote(f, w, tuples)
        PROVE  \/ votes'[v] = votes[v]
               \/ /\ votes'[v].revealBlock = height
                  /\ prevotes[v] # None
                  /\ votes'[v].submitBlock = prevotes[v].submitBlock
                  /\ PeriodOf(height) - PeriodOf(prevotes[v].submitBlock) = 1
    BY <1>1, ZenonT(30) DEF AggregateExchangeRateVote, RevealPeriod, StoreTypeOK
  <1>2. CASE EndBlock
    BY <1>2 DEF EndBlock, StoreTypeOK
  <1> QED BY <1>1, <1>2, ZenonT(30) DEF Next, Messages, AggregateExchangeRatePrevote,
         DelegateFeedConsent, ChangeWhitelist, ReceiveFee, StakingTx, vars, oracleVars

\* RevealInv is inductive.
LEMMA RevealStep ==
    ASSUME StoreTypeOK, RevealInv, [Next]_vars
    PROVE  RevealInv'
  <1> SUFFICES ASSUME NEW v \in Validators, votes'[v] # None
               PROVE  /\ PeriodOf(votes'[v].revealBlock) = PeriodOf(height')
                      /\ PeriodOf(votes'[v].submitBlock) + 1 = PeriodOf(height')
    BY DEF RevealInv, PeriodOf
  <1>1. CASE height' = height
    <2>1. CASE votes'[v] = votes[v]
      BY <1>1, <2>1 DEF RevealInv
    <2>2. CASE votes'[v] # votes[v]
      <3>1. prevotes[v] \in Prevote \/ prevotes[v] = None
        BY DEF StoreTypeOK
      <3>2. /\ votes'[v].revealBlock = height
            /\ prevotes[v] # None
            /\ votes'[v].submitBlock = prevotes[v].submitBlock
            /\ PeriodOf(height) - PeriodOf(prevotes[v].submitBlock) = 1
        BY <1>1, <2>2, VoteStep
      <3>3. PeriodOf(height) \in Nat /\ PeriodOf(prevotes[v].submitBlock) \in Nat
        BY <3>1, <3>2, PeriodOfType DEF StoreTypeOK, Prevote
      <3> QED BY <1>1, <3>2, <3>3
    <2> QED BY <2>1, <2>2
  <1>2. CASE EndBlock /\ ~EndBlockerPanics(Tallied) /\ height' = height + 1
    <2>1. ~EndOfPeriod /\ votes' = votes
      BY <1>2 DEF EndBlock, EndBlocker, WriteTally
    <2>2. PeriodOf(height') = PeriodOf(height)
      BY <1>2, <2>1, NextPeriod, OracleAssumption DEF EndOfPeriod, PeriodOf, StoreTypeOK
    <2> QED BY <2>1, <2>2 DEF RevealInv
  <1> QED BY <1>1, <1>2, HeightStep, ZenonT(30)

\* A voter commits before knowing the votes of others, whatever the validators,
\* the length of the vote period and the order of the messages.
THEOREM CommitReveal == Spec => []CommittedBeforeReveals
  <1>1. Init => RevealInv
    BY DEF Init, RevealInv
  <1>2. StoreTypeOK /\ RevealInv /\ [Next]_vars => RevealInv'
    BY RevealStep
  <1>3. StoreTypeOK /\ RevealInv => CommittedBeforeReveals
    <2> SUFFICES ASSUME StoreTypeOK, RevealInv, NEW v \in Validators, NEW w \in Validators,
                        votes[v] # None, votes[w] # None
                 PROVE  PeriodOf(votes[v].submitBlock) < PeriodOf(votes[w].revealBlock)
      BY DEF CommittedBeforeReveals
    <2>1. PeriodOf(votes[v].submitBlock) \in Nat
      BY PeriodOfType DEF StoreTypeOK, Vote
    <2>2. /\ PeriodOf(votes[v].submitBlock) + 1 = PeriodOf(height)
          /\ PeriodOf(votes[w].revealBlock) = PeriodOf(height)
      BY DEF RevealInv
    <2> QED BY <2>1, <2>2
  <1> QED BY <1>1, <1>2, <1>3, StoreTypes, PTL DEF Spec

-----------------------------------------------------------------------------
(* The life of a prevote *)

\* Within a block, a prevote changes only by being made now or being revealed.
LEMMA PrevoteStep ==
    ASSUME StoreTypeOK, [Next]_vars, height' = height, NEW v \in Validators
    PROVE  \/ prevotes'[v] = prevotes[v]
           \/ prevotes'[v] = None
           \/ prevotes'[v].submitBlock = height
  <1>1. ASSUME NEW f \in Accounts, NEW w \in Validators, NEW hash \in Hashes,
               AggregateExchangeRatePrevote(f, w, hash)
        PROVE  prevotes'[v] = prevotes[v] \/ prevotes'[v].submitBlock = height
    BY <1>1, ZenonT(30) DEF AggregateExchangeRatePrevote, StoreTypeOK
  <1>2. ASSUME NEW f \in Accounts, NEW w \in Validators, NEW tuples \in Tuples,
               AggregateExchangeRateVote(f, w, tuples)
        PROVE  prevotes'[v] = prevotes[v] \/ prevotes'[v] = None
    BY <1>2, ZenonT(30) DEF AggregateExchangeRateVote, StoreTypeOK
  <1>3. CASE EndBlock
    <2>1. height' = height + 1 \/ prevotes' = prevotes
      BY <1>3 DEF EndBlock
    <2>2. height + 1 # height
      BY DEF StoreTypeOK
    <2> QED BY <2>1, <2>2
  <1> QED BY <1>1, <1>2, <1>3 DEF Next, Messages,
         DelegateFeedConsent, ChangeWhitelist, ReceiveFee, StakingTx, vars, oracleVars

\* The end of a block removes a prevote only on the last block of a period, and
\* only when VotePeriod blocks and more have passed since it was made.
LEMMA PrevoteAtEndBlock ==
    ASSUME StoreTypeOK, EndBlock, ~EndBlockerPanics(Tallied), NEW v \in Validators
    PROVE  IF EndOfPeriod /\ prevotes[v] # None /\ height > prevotes[v].submitBlock + VotePeriod
           THEN prevotes'[v] = None ELSE prevotes'[v] = prevotes[v]
  BY ZenonT(30) DEF EndBlock, EndBlocker, WriteTally, ClearPrevotes, StoreTypeOK

\* PrevotesExpire is inductive.
LEMMA PrevotesExpireStep ==
    ASSUME StoreTypeOK, PrevotesExpire, [Next]_vars
    PROVE  PrevotesExpire'
  <1> SUFFICES ASSUME NEW v \in Validators, prevotes'[v] # None
               PROVE  PeriodOf(height') - PeriodOf(prevotes'[v].submitBlock) <= 2
    BY DEF PrevotesExpire, PeriodOf
  <1>1. PeriodOf(height) \in Nat
    BY PeriodOfType DEF StoreTypeOK
  <1>2. CASE height' = height
    <2>1. CASE prevotes'[v] = prevotes[v]
      BY <1>2, <2>1 DEF PrevotesExpire
    <2>2. CASE prevotes'[v].submitBlock = height
      BY <1>1, <1>2, <2>2
    <2> QED BY <1>2, <2>1, <2>2, PrevoteStep
  <1>3. CASE EndBlock /\ ~EndBlockerPanics(Tallied) /\ height' = height + 1
    <2> DEFINE s == prevotes[v].submitBlock
    <2>1. /\ prevotes'[v] = prevotes[v]
          /\ ~(EndOfPeriod /\ height > s + VotePeriod)
      BY <1>3, PrevoteAtEndBlock
    <2>2. s \in Nat
      BY <2>1 DEF StoreTypeOK, Prevote
    <2> HIDE DEF s
    <2>3. CASE ~EndOfPeriod
      <3>1. PeriodOf(height') = PeriodOf(height)
        BY <1>3, <2>3, NextPeriod, OracleAssumption DEF EndOfPeriod, PeriodOf, StoreTypeOK
      <3> QED BY <2>1, <3>1 DEF PrevotesExpire
    <2>4. CASE EndOfPeriod
      <3>1. PeriodOf(height') = PeriodOf(height) + 1
        BY <1>3, <2>4, NextPeriod, OracleAssumption DEF EndOfPeriod, PeriodOf, StoreTypeOK
      <3>2. height <= s + VotePeriod /\ s + VotePeriod \in Nat
        BY <2>1, <2>2, <2>4, OracleAssumption DEF StoreTypeOK
      <3>3. PeriodOf(height) <= PeriodOf(s + VotePeriod)
        BY <3>2, DivMonotone, OracleAssumption DEF PeriodOf, StoreTypeOK
      <3>4. PeriodOf(height) <= PeriodOf(s) + 1 /\ PeriodOf(s) \in Nat
        BY <2>2, <3>3, PeriodShift, PeriodOfType
      <3> QED BY <1>1, <2>1, <3>1, <3>4 DEF s
    <2> QED BY <2>3, <2>4
  <1> QED BY <1>2, <1>3, HeightStep, ZenonT(30)

\* Prevotes do not pile up: none outlives the second period after its own.
THEOREM PrevotesAreCleared == Spec => []PrevotesExpire
  <1>1. Init => PrevotesExpire
    BY DEF Init, PrevotesExpire
  <1>2. StoreTypeOK /\ PrevotesExpire /\ [Next]_vars => PrevotesExpire'
    BY PrevotesExpireStep
  <1> QED BY <1>1, <1>2, StoreTypes, PTL DEF Spec

\* The end of a block never removes a prevote that could still be revealed.
THEOREM NoLostPrevote == Spec => RevealablePrevotesKept
  <1> DEFINE Kept == \A v \in Validators :
                        height' # height /\ prevotes[v] # None /\ prevotes'[v] = None =>
                            PeriodOf(height') - PeriodOf(prevotes[v].submitBlock) > 1
  <1>1. ASSUME StoreTypeOK, [Next]_vars
        PROVE  Kept
    <2> SUFFICES ASSUME NEW v \in Validators,
                        height' # height, prevotes[v] # None, prevotes'[v] = None
                 PROVE  PeriodOf(height') - PeriodOf(prevotes[v].submitBlock) > 1
      OBVIOUS
    <2> DEFINE s == prevotes[v].submitBlock
    <2>1. EndBlock /\ ~EndBlockerPanics(Tallied) /\ height' = height + 1
      BY <1>1, HeightStep
    <2>2. EndOfPeriod /\ height > s + VotePeriod
      BY <1>1, <2>1, PrevoteAtEndBlock
    <2>3. s \in Nat /\ height \in Nat /\ VotePeriod \in Nat \ {0}
      BY <1>1, OracleAssumption DEF StoreTypeOK, Prevote
    <2> HIDE DEF s
    <2>4. PeriodOf(s + VotePeriod) <= PeriodOf(height)
      BY <2>2, <2>3, DivMonotone DEF PeriodOf
    <2>5. PeriodOf(height') = PeriodOf(height) + 1
      BY <2>1, <2>2, <2>3, NextPeriod, ZenonT(30) DEF EndOfPeriod, PeriodOf
    <2>6. PeriodOf(s + VotePeriod) = PeriodOf(s) + 1
      BY <2>3, PeriodShift
    <2>7. PeriodOf(s) \in Nat /\ PeriodOf(height) \in Nat
      BY <2>3, PeriodOfType
    <2>8. PeriodOf(height') - PeriodOf(s) > 1
      <3> DEFINE a == PeriodOf(s)
                 b == PeriodOf(height)
      <3>1. a \in Nat /\ b \in Nat /\ a + 1 <= b /\ PeriodOf(height') = b + 1
        BY <2>4, <2>5, <2>6, <2>7
      <3> HIDE DEF a, b
      <3>2. PeriodOf(height') - a > 1
        BY <3>1
      <3> QED BY <3>2 DEF a
    <2> QED BY <2>8 DEF s
  <1>2. StoreTypeOK /\ [Next]_vars => [Kept]_vars
    BY <1>1
  <1> QED BY <1>2, StoreTypes, PTL DEF Spec, RevealablePrevotesKept

-----------------------------------------------------------------------------
(* Standing votes and vote targets *)

\* VotesNameTargets is inductive: the targets change only when the votes are cleared.
LEMMA VotesNameTargetsStep ==
    ASSUME StoreTypeOK, VotesNameTargets, [Next]_vars
    PROVE  VotesNameTargets'
  <1>1. ASSUME NEW f \in Accounts, NEW w \in Validators, NEW tuples \in Tuples,
               AggregateExchangeRateVote(f, w, tuples)
        PROVE  VotesNameTargets'
    <2> SUFFICES ASSUME NEW v \in Validators, votes'[v] # None
                 PROVE  DOMAIN votes'[v].rates \subseteq Listed(tobinTaxes)
      BY <1>1, ZenonT(30) DEF VotesNameTargets, Listed, AggregateExchangeRateVote
    <2>1. CASE v = w
      <3>1. votes'[v].rates = tuples
        BY <1>1, <2>1, ZenonT(30) DEF AggregateExchangeRateVote, StoreTypeOK
      <3> QED BY <1>1, <3>1, ZenonT(30) DEF AggregateExchangeRateVote, NamesTargets
    <2>2. CASE v # w
      <3>1. votes'[v] = votes[v]
        BY <1>1, <2>2, ZenonT(30) DEF AggregateExchangeRateVote, StoreTypeOK
      <3> QED BY <3>1 DEF VotesNameTargets
    <2> QED BY <2>1, <2>2
  <1>2. CASE EndBlock
    <2>1. CASE EndBlockerPanics(Tallied)
      <3>1. UNCHANGED <<votes, tobinTaxes>>
        BY <1>2, <2>1 DEF EndBlock
      <3> QED BY <3>1 DEF VotesNameTargets, Listed
    <2>2. CASE ~EndBlockerPanics(Tallied)
      <3> DEFINE t == Tallied
      <3>1. EndBlocker(t)
        BY <1>2, <2>2 DEF EndBlock
      <3> HIDE DEF t
      <3>2. votes' = [v \in Validators |-> None] \/ UNCHANGED <<votes, tobinTaxes>>
        BY <3>1 DEF EndBlocker, WriteTally
      <3> QED BY <3>2 DEF VotesNameTargets, Listed
    <2> QED BY <2>1, <2>2
  <1>3. CASE UNCHANGED <<votes, tobinTaxes>>
    BY <1>3 DEF VotesNameTargets, Listed
  <1> QED BY <1>1, <1>2, <1>3 DEF Next, Messages, AggregateExchangeRatePrevote,
         DelegateFeedConsent, ChangeWhitelist, ReceiveFee, StakingTx, vars, oracleVars

\* A standing vote names vote targets only, whatever becomes of the whitelist: the tally
\* never meets a denomination that has no ballot of its own.
THEOREM VotesAreForTargets == Spec => []VotesNameTargets
  <1>1. Init => VotesNameTargets
    BY DEF Init, VotesNameTargets
  <1>2. StoreTypeOK /\ VotesNameTargets /\ [Next]_vars => VotesNameTargets'
    BY VotesNameTargetsStep
  <1> QED BY <1>1, <1>2, StoreTypes, PTL DEF Spec

-----------------------------------------------------------------------------
(* Miss counters *)

\* A slash window starts no later than the blocks in it, and ends SlashWindow
\* blocks on; its last block is the only one after which it changes.
LEMMA WindowStartFacts ==
    ASSUME NEW h \in Nat
    PROVE  /\ WindowStart(h) \in Nat
           /\ WindowStart(h) <= h
           /\ ~IsPeriodLastBlock(h, SlashWindow) =>
                /\ WindowStart(h + 1) = WindowStart(h)
                /\ h + 1 < WindowStart(h) + SlashWindow
  <1> DEFINE q == h \div SlashWindow
             r == h % SlashWindow
             k == (h + 1) \div SlashWindow
             m == (h + 1) % SlashWindow
  <1>0. SlashWindow \in Nat \ {0} /\ h + 1 \in Nat
    BY OracleAssumption
  <1>1. q \in Nat /\ r \in 0..(SlashWindow - 1) /\ h = q * SlashWindow + r
    BY <1>0, DivDef, Zenon
  <1>2. k \in Nat /\ m \in 0..(SlashWindow - 1) /\ h + 1 = k * SlashWindow + m
    BY <1>0, DivDef, ZenonT(30)
  <1>3. ~IsPeriodLastBlock(h, SlashWindow) => k = q
    BY <1>0, NextPeriod
  <1>4. WindowStart(h) = q * SlashWindow /\ WindowStart(h + 1) = k * SlashWindow
    BY DEF WindowStart
  <1> HIDE DEF q, r, k, m
  <1>5. q * SlashWindow \in Nat
    BY <1>0, <1>1, Z3
  <1> QED BY <1>0, <1>1, <1>2, <1>3, <1>4, <1>5

\* A miss counter changes at the end of a block only: it is reset at the end of a
\* window, and otherwise grows by one at the end of a period, for the active set.
LEMMA MissStep ==
    ASSUME StoreTypeOK, [Next]_vars, NEW v \in Validators, missCounters'[v] # None
    PROVE  \/ missCounters'[v] = missCounters[v] /\ height' = height
           \/ /\ EndBlock /\ ~EndBlockerPanics(Tallied) /\ height' = height + 1
              /\ ~EndOfWindow
              /\ \/ missCounters'[v] = missCounters[v]
                 \/ /\ EndOfPeriod /\ IsBonded(v)
                    /\ \/ missCounters[v] = None /\ missCounters'[v] = 1
                       \/ missCounters[v] # None /\ missCounters'[v] = 1 + missCounters[v]
  <1>1. CASE EndBlock /\ EndBlockerPanics(Tallied)
    BY <1>1, SMTT(20) DEF EndBlock
  <1>2. CASE EndBlock /\ ~EndBlockerPanics(Tallied)
    <2> DEFINE t == Tallied
    <2>1. EndBlocker(t) /\ height' = height + 1
      BY <1>2 DEF EndBlock
    <2> HIDE DEF t
    <2>2. ~EndOfWindow /\ missCounters' = MissesAfterTally(t)
      BY <2>1 DEF EndBlocker, SlashAndResetMissCounters
    <2>3. CASE ~EndOfPeriod
      BY <1>2, <2>1, <2>2, <2>3 DEF MissesAfterTally
    <2>4. CASE EndOfPeriod
      <3>1. missCounters'[v] =
                IF v \in Claimed /\ WinCount(t, v) # Cardinality(t.targets)
                THEN 1 + (IF missCounters[v] = None THEN 0 ELSE missCounters[v])
                ELSE missCounters[v]
        BY <2>2, <2>4 DEF MissesAfterTally, CountMisses
      <3> QED BY <1>2, <2>1, <2>2, <2>4, <3>1 DEF Claimed
    <2> QED BY <2>3, <2>4, ZenonT(30)
  <1> QED BY <1>1, <1>2, ZenonT(30) DEF Next, Messages, AggregateExchangeRatePrevote,
         AggregateExchangeRateVote, DelegateFeedConsent, ChangeWhitelist, ReceiveFee,
         StakingTx, vars, oracleVars

\* MissesBounded is inductive.
LEMMA MissesBoundedStep ==
    ASSUME StoreTypeOK, MissesBounded, [Next]_vars
    PROVE  MissesBounded'
  <1> SUFFICES ASSUME NEW v \in Validators, missCounters'[v] # None
               PROVE  missCounters'[v] <= PeriodOf(height') - PeriodOf(WindowStart(height'))
    BY DEF MissesBounded, PeriodOf, WindowStart
  <1> DEFINE first == PeriodOf(WindowStart(height))
  <1>1. height \in Nat /\ VotePeriod \in Nat \ {0}
    BY OracleAssumption DEF StoreTypeOK
  <1>2. /\ first \in Nat /\ PeriodOf(height) \in Nat /\ first <= PeriodOf(height)
    BY <1>1, WindowStartFacts, PeriodOfType, DivMonotone DEF PeriodOf
  <1>3. CASE missCounters'[v] = missCounters[v] /\ height' = height
    BY <1>3 DEF MissesBounded
  <1>4. CASE /\ EndBlock /\ ~EndBlockerPanics(Tallied) /\ height' = height + 1
             /\ ~EndOfWindow
             /\ \/ missCounters'[v] = missCounters[v]
                \/ /\ EndOfPeriod /\ IsBonded(v)
                   /\ \/ missCounters[v] = None /\ missCounters'[v] = 1
                      \/ missCounters[v] # None /\ missCounters'[v] = 1 + missCounters[v]
    <2>1. PeriodOf(WindowStart(height')) = first
      BY <1>1, <1>4, WindowStartFacts DEF EndOfWindow
    <2>2. missCounters[v] # None => missCounters[v] \in Nat /\ missCounters[v] <= PeriodOf(height) - first
      BY DEF StoreTypeOK, MissesBounded
    <2>3. EndOfPeriod => PeriodOf(height') = PeriodOf(height) + 1
      BY <1>1, <1>4, NextPeriod DEF EndOfPeriod, PeriodOf
    <2>4. ~EndOfPeriod => PeriodOf(height') = PeriodOf(height)
      BY <1>1, <1>4, NextPeriod DEF EndOfPeriod, PeriodOf
    <2> HIDE DEF first
    <2> QED BY <1>2, <1>4, <2>1, <2>2, <2>3, <2>4
  <1> QED BY <1>3, <1>4, MissStep

\* A miss counter never counts more periods than the slash window has seen.
THEOREM MissesAreBounded == Spec => []MissesBounded
  <1>1. Init => MissesBounded
    BY DEF Init, MissesBounded
  <1>2. StoreTypeOK /\ MissesBounded /\ [Next]_vars => MissesBounded'
    BY MissesBoundedStep
  <1> QED BY <1>1, <1>2, StoreTypes, PTL DEF Spec

\* When a slash window is a whole number of vote periods, that many periods have ended
\* since it began when it ends, and its last block is also the last one of a period.
LEMMA PeriodsOfWindow ==
    ASSUME SlashWindow % VotePeriod = 0, NEW h \in Nat, IsPeriodLastBlock(h, SlashWindow)
    PROVE  /\ IsPeriodLastBlock(h, VotePeriod)
           /\ VotePeriodsPerWindow \in Nat \ {0}
           /\ PeriodOf(h + 1) - PeriodOf(WindowStart(h)) = VotePeriodsPerWindow
  <1> DEFINE n == SlashWindow \div VotePeriod
             k == (h + 1) \div SlashWindow
  <1>1. VotePeriod \in Nat \ {0} /\ SlashWindow \in Nat \ {0} /\ h + 1 \in Nat
    BY OracleAssumption
  <1>2. n \in Nat /\ SlashWindow = n * VotePeriod
    BY <1>1, DivWhole
  <1>3. k \in Nat /\ h + 1 = k * SlashWindow /\ h \div SlashWindow = k - 1
    <2>1. h \div SlashWindow \in Nat /\ k = h \div SlashWindow + 1
      BY <1>1, DivDef, NextPeriod
    <2>2. h + 1 = k * SlashWindow
      BY <1>1, DivWhole DEF IsPeriodLastBlock
    <2> HIDE DEF k
    <2> QED BY <2>1, <2>2
  <1> HIDE DEF n, k
  <1>4. n # 0
    BY <1>1, <1>2
  <1> DEFINE after == k * n
             before == (k - 1) * n
  <1>5. h + 1 = after * VotePeriod /\ after \in Int
    BY <1>1, <1>2, <1>3, Z3
  <1>6. WindowStart(h) = before * VotePeriod /\ before \in Int
    BY <1>1, <1>2, <1>3, Z3 DEF WindowStart
  <1>7. after - before = n
    BY <1>2, <1>3, Z3
  <1> HIDE DEF after, before
  <1>8. PeriodOf(h + 1) = after /\ (h + 1) % VotePeriod = 0
    BY <1>1, <1>5, DivMultiple DEF PeriodOf
  <1>9. PeriodOf(WindowStart(h)) = before
    BY <1>1, <1>6, DivMultiple DEF PeriodOf
  <1> QED BY <1>2, <1>4, <1>7, <1>8, <1>9 DEF IsPeriodLastBlock, VotePeriodsPerWindow, n

\* Then no validator has missed more periods than there were, and the truncated quotient of
\* ValidVoteRate decides as the exact share would.
LEMMA BelowMinimumExact ==
    ASSUME SlashWindow % VotePeriod = 0, StoreTypeOK, MissesBounded, EndOfWindow,
           NEW t, NEW v \in Validators, MissesAfterTally(t)[v] # None
    PROVE  LET misses == MissesAfterTally(t)
               ended == PeriodOf(height + 1) - PeriodOf(WindowStart(height))
           IN  BelowMinimum(misses, v)
                 <=> (ended - misses[v]) * Unit < MinValidPerWindow * ended
  <1> DEFINE m == MissesAfterTally(t)[v]
             n == VotePeriodsPerWindow
             first == PeriodOf(WindowStart(height))
             valid == (n - m) * Unit
  <1>1. height \in Nat /\ VotePeriod \in Nat \ {0} /\ MinValidPerWindow \in Nat
        /\ Unit \in Nat \ {0}
    BY OracleAssumption, UnitAssumption DEF StoreTypeOK, OneDec
  <1>2. EndOfPeriod /\ n \in Nat \ {0} /\ PeriodOf(height + 1) - first = n
    BY <1>1, PeriodsOfWindow DEF EndOfWindow, EndOfPeriod
  <1>3. /\ first \in Nat /\ PeriodOf(height) \in Nat /\ first <= PeriodOf(height)
        /\ PeriodOf(height + 1) = PeriodOf(height) + 1
    <2>1. WindowStart(height) \in Nat /\ WindowStart(height) <= height
      BY <1>1, WindowStartFacts
    <2>2. PeriodOf(height + 1) = PeriodOf(height) + 1
      BY <1>1, <1>2, NextPeriod DEF EndOfPeriod, PeriodOf
    <2> QED BY <1>1, <2>1, <2>2, PeriodOfType, DivMonotone DEF PeriodOf
  <1>4. m \in Nat /\ m <= n
    <2>1. m = IF v \in Claimed /\ WinCount(t, v) # Cardinality(t.targets)
              THEN 1 + (IF missCounters[v] = None THEN 0 ELSE missCounters[v])
              ELSE missCounters[v]
      BY <1>2 DEF MissesAfterTally, CountMisses
    <2>2. missCounters[v] # None =>
            missCounters[v] \in Nat /\ missCounters[v] <= PeriodOf(height) - first
      BY DEF StoreTypeOK, MissesBounded
    <2> HIDE DEF n, first
    <2> QED BY <1>2, <1>3, <2>1, <2>2
  <1> HIDE DEF m, n, first
  <1>5. valid \in Nat
    BY <1>1, <1>2, <1>4, Z3
  <1>6. ValidVoteRate(m) = valid \div n
    BY <1>1, <1>2, <1>5 DEF ValidVoteRate, QuoInt, TruncQuo, NewDec, n
  <1>7. valid \div n < MinValidPerWindow <=> valid < MinValidPerWindow * n
    <2> HIDE DEF valid
    <2> QED BY <1>1, <1>2, <1>5, DivBelow
  <1>8. BelowMinimum(MissesAfterTally(t), v) <=> ValidVoteRate(m) < MinValidPerWindow
    BY DEF BelowMinimum, m
  <1> QED BY <1>2, <1>6, <1>7, <1>8 DEF m, first

\* Slashing is exact whenever a slash window is a whole number of vote periods, as it is by
\* default: at its end a validator of the active set is jailed exactly when the share of the
\* window's periods in which it voted is below the minimum.
THEOREM SlashingIsExact ==
    ASSUME SlashWindow % VotePeriod = 0
    PROVE  Spec => SlashedIffBelowMinimum
  <1> DEFINE Exact == LET misses == MissesAfterTally(Tallied)
                          ended == PeriodOf(height + 1) - PeriodOf(WindowStart(height))
                      IN  EndOfWindow /\ height' # height =>
                            \A v \in Claimed : misses[v] # None =>
                              (jailed'[v] <=> (ended - misses[v]) * Unit < MinValidPerWindow * ended)
  <1>1. ASSUME StoreTypeOK, MissesBounded, [Next]_vars
        PROVE  Exact
    <2> DEFINE t == Tallied
               misses == MissesAfterTally(t)
    <2> SUFFICES ASSUME EndOfWindow, height' # height, NEW v \in Claimed, misses[v] # None
                 PROVE  jailed'[v] <=> BelowMinimum(misses, v)
      <3>1. \A v \in Claimed : v \in Validators
        BY DEF Claimed
      <3> HIDE DEF t
      <3>2. \A v \in Claimed : EndOfWindow /\ misses[v] # None =>
              (BelowMinimum(misses, v)
                 <=> (PeriodOf(height + 1) - PeriodOf(WindowStart(height)) - misses[v]) * Unit
                       < MinValidPerWindow * (PeriodOf(height + 1) - PeriodOf(WindowStart(height))))
        BY <1>1, <3>1, BelowMinimumExact
      <3> HIDE DEF misses
      <3> QED BY <3>2 DEF t, misses
    <2>1. EndBlock /\ ~EndBlockerPanics(t)
      BY <1>1, HeightStep
    <2>2. EndBlocker(t)
      BY <2>1 DEF EndBlock
    <2> HIDE DEF t
    <2>3. jailed' = [w \in Validators |-> jailed[w] \/ w \in Slashed(misses)]
      BY <2>2 DEF EndBlocker, SlashAndResetMissCounters
    <2>4. v \in Validators /\ IsBonded(v) /\ ~jailed[v]
      BY DEF Claimed
    <2> HIDE DEF misses
    <2>5. jailed'[v] <=> v \in Slashed(misses)
      BY <2>3, <2>4, Zenon
    <2> QED BY <2>4, <2>5 DEF Slashed
  <1>2. StoreTypeOK /\ MissesBounded /\ [Next]_vars => [Exact]_vars
    BY <1>1, ZenonT(30)
  <1> QED BY <1>2, StoreTypes, MissesAreBounded, PTL DEF Spec, SlashedIffBelowMinimum

\* Why a counter's owner exists: it is still bonded, or it began to unbond in
\* this slash window and unbonding outlasts the window.
MissOwnerInv ==
    \A v \in Validators : missCounters[v] # None =>
        \/ status[v] = "bonded"
        \/ status[v] = "unbonding" /\ since[v] >= WindowStart(height)

\* Where the staking EndBlocker of a block inside the window takes the owner.
LEMMA OwnerAtEndBlock ==
    ASSUME StoreTypeOK, NEW v \in Validators,
           EndBlock, ~EndBlockerPanics(Tallied), height' = height + 1, ~EndOfWindow,
           \/ status[v] = "bonded"
           \/ status[v] = "unbonding" /\ since[v] >= WindowStart(height)
    PROVE  \/ status'[v] = "bonded"
           \/ status'[v] = "unbonding" /\ since'[v] >= WindowStart(height')
  <1>1. height \in Nat /\ since[v] \in Nat /\ UnbondingBlocks \in Nat /\ SlashWindow \in Nat
    BY StakingAssumption, OracleAssumption DEF StoreTypeOK, StakingTypeOK
  <1>2. /\ WindowStart(height) \in Nat /\ WindowStart(height) <= height
        /\ WindowStart(height') = WindowStart(height)
        /\ height + 1 < WindowStart(height) + SlashWindow
    <2>1. ~IsPeriodLastBlock(height, SlashWindow) /\ height \in Nat /\ height' = height + 1
      BY <1>1, Zenon DEF EndOfWindow
    <2>2. /\ WindowStart(height) \in Nat /\ WindowStart(height) <= height
          /\ WindowStart(height + 1) = WindowStart(height)
          /\ height + 1 < WindowStart(height) + SlashWindow
      BY <2>1, WindowStartFacts, Zenon
    <2>3. WindowStart(height') = WindowStart(height + 1)
      BY <2>1, Zenon
    <2> QED BY <2>2, <2>3, Zenon
  <1>3. StakingEndBlock(jailed', height)
    BY ZenonT(30) DEF EndBlock
  <1>4. /\ status'[v] \in AfterEndBlock(v, jailed'[v], height)
        /\ since'[v] = IF status[v] = "bonded" /\ status'[v] = "unbonding"
                       THEN height ELSE since[v]
    <2>1. status'[v] \in AfterEndBlock(v, jailed'[v], height)
      BY <1>3, Zenon DEF StakingEndBlock
    <2>2. since' = [w \in Validators |->
                      IF status[w] = "bonded" /\ status'[w] = "unbonding" THEN height ELSE since[w]]
      BY <1>3, Zenon DEF StakingEndBlock
    <2> QED BY <2>1, <2>2
  <1>5. CASE status[v] = "bonded"
    <2>1. status'[v] \in {"bonded", "unbonding"}
      BY <1>4, <1>5 DEF AfterEndBlock
    <2> QED BY <1>2, <1>4, <1>5, <2>1
  <1>6. CASE status[v] = "unbonding" /\ since[v] >= WindowStart(height)
    <2>1. ~(height >= since[v] + UnbondingBlocks)
      BY <1>1, <1>2, <1>6, UnbondingAssumption
    <2>2. status'[v] \in {"bonded", "unbonding"}
      BY <1>4, <1>6, <2>1 DEF AfterEndBlock
    <2> QED BY <1>2, <1>4, <1>6, <2>2
  <1> QED BY <1>5, <1>6

\* The transactions of the staking module leave the owners of counters in place.
LEMMA OwnerWithinBlock ==
    ASSUME StoreTypeOK, [Next]_vars, height' = height, NEW v \in Validators, status[v] # "gone"
    PROVE  status'[v] = status[v] /\ since'[v] = since[v]
  <1>1. CASE StakingTx
    BY <1>1 DEF StakingTx, Jail, Unjail, CreateValidator, ValidatorExists, StoreTypeOK, StakingTypeOK
  <1>2. CASE EndBlock
    <2>1. height + 1 # height
      BY DEF StoreTypeOK
    <2>2. EndBlockerPanics(Tallied)
      BY <1>2, <2>1, Zenon DEF EndBlock
    <2>3. UNCHANGED stakingVars
      BY <1>2, <2>2, Zenon DEF EndBlock
    <2> QED BY <2>3 DEF stakingVars
  <1> QED BY <1>1, <1>2, ZenonT(30) DEF Next, Messages, AggregateExchangeRatePrevote,
         AggregateExchangeRateVote, DelegateFeedConsent, ChangeWhitelist, ReceiveFee,
         vars, stakingVars

\* MissOwnerInv is inductive.
LEMMA MissOwnerStep ==
    ASSUME StoreTypeOK, MissOwnerInv, [Next]_vars
    PROVE  MissOwnerInv'
  <1> SUFFICES ASSUME NEW v \in Validators, missCounters'[v] # None
               PROVE  \/ status'[v] = "bonded"
                      \/ status'[v] = "unbonding" /\ since'[v] >= WindowStart(height')
    BY ZenonT(30) DEF MissOwnerInv, WindowStart
  <1>1. CASE missCounters'[v] = missCounters[v] /\ height' = height
    BY <1>1, OwnerWithinBlock DEF MissOwnerInv
  <1>2. CASE /\ EndBlock /\ ~EndBlockerPanics(Tallied) /\ height' = height + 1
             /\ ~EndOfWindow
             /\ missCounters'[v] = missCounters[v] \/ IsBonded(v)
    BY <1>2, OwnerAtEndBlock DEF MissOwnerInv, IsBonded
  <1> QED BY <1>1, <1>2, MissStep, ZenonT(30)

\* The validator of a miss counter has not been removed from the staking store:
\* SlashAndResetMissCounters never meets a nil validator.
THEOREM MissCounterOwners == Spec => []MissCounterOwnerExists
  <1>1. Init => MissOwnerInv
    BY DEF Init, MissOwnerInv
  <1>2. StoreTypeOK /\ MissOwnerInv /\ [Next]_vars => MissOwnerInv'
    BY MissOwnerStep
  <1>3. MissOwnerInv => MissCounterOwnerExists
    BY DEF MissOwnerInv, MissCounterOwnerExists, ValidatorExists
  <1> QED BY <1>1, <1>2, <1>3, StoreTypes, PTL DEF Spec

-----------------------------------------------------------------------------
(* The tally *)

\* WeightedMedian splits every ballot that Tally counts, after OrganizeBallotByDenom and
\* ToCrossRateWithSort have sorted it, whatever the votes.
THEOREM MediansSplit == Spec => []MedianSplits
  <1>1. StoreTypeOK => MedianSplits
    BY CrossBallot, SortedSplits DEF MedianSplits
  <1> QED BY <1>1, StoreTypes, PTL

\* A validator that abstains on every vote target is charged no miss by CountMisses and
\* paid nothing by RewardBallotWinners, whatever the others vote.
THEOREM AbstainersAreAbsolved == Spec => AbstainerAbsolved
  <1> DEFINE Absolved == \A v \in Validators : height' # height /\ Abstains(v) =>
                            /\ missCounters'[v] \in {missCounters[v], None}
                            /\ EndOfPeriod => allocated'[v] = allocated[v]
  <1>1. ASSUME StoreTypeOK, [Next]_vars
        PROVE  Absolved
    <2> SUFFICES ASSUME NEW v \in Validators, height' # height, Abstains(v)
                 PROVE  /\ missCounters'[v] \in {missCounters[v], None}
                        /\ EndOfPeriod => allocated'[v] = allocated[v]
      OBVIOUS
    <2> DEFINE t == Tallied
               rewards == RewardBallotWinners(t)
    <2>1. EndBlock /\ ~EndBlockerPanics(t)
      BY <1>1, HeightStep
    <2>2. EndBlocker(t)
      BY <2>1 DEF EndBlock
    <2>3. v \in Claimed => WinCount(t, v) = Cardinality(t.targets) /\ Weight(t, v) = 0
      BY <1>1, AbstainerWins
    <2> HIDE DEF t
    <2>5. MissesAfterTally(t)[v] = missCounters[v]
      BY <2>3 DEF MissesAfterTally, CountMisses
    <2>6. missCounters'[v] \in {missCounters[v], None}
      BY <2>2, <2>5 DEF EndBlocker, SlashAndResetMissCounters
    <2>7. ASSUME EndOfPeriod
          PROVE  allocated'[v] = allocated[v]
      <3>1. \A d \in RewardDenoms : rewards[v][d] = 0
        BY <1>1, <2>3, RewardsFit DEF t
      <3>2. allocated' = [w \in Validators |-> [d \in RewardDenoms |-> allocated[w][d] + rewards[w][d]]]
        BY <2>2, <2>7 DEF EndBlocker, WriteTally
      <3> HIDE DEF rewards
      <3>3. allocated[v] \in [RewardDenoms -> Nat]
        BY <1>1 DEF StoreTypeOK
      <3>4. allocated'[v] = [d \in RewardDenoms |-> allocated[v][d] + rewards[v][d]]
        BY <3>2
      <3>5. \A d \in RewardDenoms : allocated[v][d] + rewards[v][d] = allocated[v][d]
        BY <3>1, <3>3
      <3>6. allocated'[v] = [d \in RewardDenoms |-> allocated[v][d]]
        BY <3>4, <3>5
      <3> QED BY <3>3, <3>6
    <2> QED BY <2>6, <2>7
  <1>2. StoreTypeOK /\ [Next]_vars => [Absolved]_vars
    BY <1>1
  <1> QED BY <1>2, StoreTypes, PTL DEF Spec, AbstainerAbsolved

\* A period pays out no more than its share of the pool: the roundings of QuoInt, Mul and
\* TruncateInt in RewardBallotWinners never add up to a coin.
THEOREM RewardsAreWithinBudget ==
    ASSUME RoundingsVanish
    PROVE  Spec => RewardsWithinBudget
  <1> DEFINE Within == height' # height => \A d \in RewardDenoms :
                          (pool[d] - pool'[d]) * RewardDistributionWindow <= pool[d] * VotePeriod
  <1>1. ASSUME StoreTypeOK, [Next]_vars
        PROVE  Within
    <2> SUFFICES ASSUME height' # height, NEW d \in RewardDenoms
                 PROVE  (pool[d] - pool'[d]) * RewardDistributionWindow <= pool[d] * VotePeriod
      OBVIOUS
    <2> DEFINE R == Distributed(RewardBallotWinners(Tallied), d)
    <2>1. EndBlocker(Tallied)
      BY <1>1, HeightStep, ZenonT(30) DEF EndBlock
    <2>2. pool[d] \in Nat /\ R \in Nat
      BY <1>1, RewardsFit, Zenon DEF StoreTypeOK
    <2>3. CASE EndOfPeriod
      <3>1. pool'[d] = pool[d] - R
        BY <2>1, <2>3 DEF EndBlocker, WriteTally
      <3>2. R * RewardDistributionWindow <= pool[d] * VotePeriod
        BY <1>1, RewardsFit
      <3> HIDE DEF R
      <3>3. pool[d] - pool'[d] = R
        BY <2>2, <3>1
      <3> QED BY <3>2, <3>3
    <2>4. CASE ~EndOfPeriod
      <3>1. pool'[d] = pool[d]
        BY <2>1, <2>4 DEF EndBlocker
      <3>2. pool[d] - pool'[d] = 0
        BY <2>2, <3>1
      <3>3. 0 * RewardDistributionWindow <= pool[d] * VotePeriod
        BY <2>2, OracleAssumption, Z3
      <3> QED BY <3>2, <3>3
    <2> QED BY <2>3, <2>4
  <1>2. StoreTypeOK /\ [Next]_vars => [Within]_vars
    BY <1>1
  <1> QED BY <1>2, StoreTypes, PTL DEF Spec, RewardsWithinBudget

-----------------------------------------------------------------------------
(* What can stop the chain *)

\* The slash never panics: the quotient it divides by is positive, and a counter's owner
\* exists.
LEMMA SlashIsSafe ==
    ASSUME StoreTypeOK, MissOwnerInv
    PROVE  ~SlashPanics(MissesAfterTally(Tallied))
  <1> DEFINE misses == MissesAfterTally(Tallied)
  <1>1. VotePeriodsPerWindow # 0
    <2>1. VotePeriod \in Nat \ {0} /\ SlashWindow \in Nat /\ VotePeriod <= SlashWindow
      BY OracleAssumption, ParamsAssumption
    <2>2. ~(SlashWindow < 1 * VotePeriod)
      BY <2>1
    <2>3. ~(SlashWindow \div VotePeriod < 1)
      BY <2>1, <2>2, DivBelow
    <2> QED BY <2>3 DEF VotePeriodsPerWindow
  <1>2. \A v \in Validators : misses[v] # None => ValidatorExists(v)
    <2> TAKE v \in Validators
    <2>1. missCounters[v] # None => ValidatorExists(v)
      BY DEF MissOwnerInv, ValidatorExists
    <2>2. v \in Claimed => ValidatorExists(v)
      BY DEF Claimed, IsBonded, ValidatorExists
    <2>3. misses[v] # None => missCounters[v] # None \/ v \in Claimed
      BY DEF MissesAfterTally, CountMisses
    <2> QED BY <2>1, <2>2, <2>3
  <1> QED BY <1>1, <1>2 DEF SlashPanics

\* Only a zero median stops the chain: with positive ones no ballot is unsorted, no reward
\* exceeds the pool and no miss counter belongs to a nil validator.
THEOREM HaltsOnlyOnZeroMedian ==
    ASSUME RoundingsVanish
    PROVE  Spec /\ []MediansPositive => []NeverHalts
  <1>1. Init => MissOwnerInv
    BY DEF Init, MissOwnerInv
  <1>2. StoreTypeOK /\ MissOwnerInv /\ [Next]_vars => MissOwnerInv'
    BY MissOwnerStep
  <1>3. Init => NeverHalts
    BY DEF Init, NeverHalts
  <1>4. ASSUME StoreTypeOK, MissOwnerInv, MediansPositive, NeverHalts, [Next]_vars
        PROVE  NeverHalts'
    <2>1. CASE EndBlock
      <3>1. EndOfPeriod => ~TallyPanics(Tallied)
        BY <1>4, CrossBallot, ZenonT(30) DEF TallyPanics, MediansPositive
      <3>2. ~RewardsPanic(RewardBallotWinners(Tallied))
        <4>1. \A d \in RewardDenoms :
                /\ Distributed(RewardBallotWinners(Tallied), d) \in Nat
                /\ Distributed(RewardBallotWinners(Tallied), d) <= pool[d]
                /\ pool[d] \in Nat
          BY <1>4, RewardsFit, ZenonT(30) DEF StoreTypeOK
        <4> QED BY <4>1 DEF RewardsPanic
      <3>3. ~EndBlockerPanics(Tallied)
        BY <1>4, <3>1, <3>2, SlashIsSafe DEF EndBlockerPanics
      <3> QED BY <1>4, <2>1, <3>3 DEF EndBlock, NeverHalts
    <2> QED BY <1>4, <2>1, ZenonT(30) DEF Next, Messages, AggregateExchangeRatePrevote,
            AggregateExchangeRateVote, DelegateFeedConsent, ChangeWhitelist, ReceiveFee,
            StakingTx, vars, oracleVars, NeverHalts
  <1>5. StoreTypeOK /\ MissOwnerInv /\ MediansPositive /\ NeverHalts /\ [Next]_vars => NeverHalts'
    BY <1>4
  <1> QED BY <1>1, <1>2, <1>3, <1>5, StoreTypes, PTL DEF Spec

\* The EndBlocker never panics while more than half of the bonded power is needed for a
\* ballot to pass, no voter's power is exactly one, and no quotient of two rates rounds to
\* zero: what the code does not ensure (VoteThreshold may be about a third, and its default
\* is exactly a half).
THEOREM NoHalt ==
    ASSUME RoundingsVanish, CrossRatesPositive
    PROVE  Spec /\ []MajoritiesOverlap => []NeverHalts
  <1>1. StoreTypeOK /\ MajoritiesOverlap => MediansPositive
    BY OverlapMedians
  <1> QED BY <1>1, StoreTypes, HaltsOnlyOnZeroMedian, PTL

===========================================================================
