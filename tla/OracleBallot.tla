-------------------------- MODULE OracleBallot --------------------------
(***************************************************************************)
(* Counting one vote period's ballots: x/oracle/types/ballot.go and        *)
(* x/oracle/tally.go, as the code behaves after its soft forks (the        *)
(* ballot is sorted again after the conversion to cross rates, and the     *)
(* median asserts that it is).  A ballot is the sequence of the votes for  *)
(* one denomination, [voter, rate, power]; rates are decimals >= 0, the    *)
(* parser of the vote message accepting no sign, and 0 is an abstention.   *)
(***************************************************************************)
EXTENDS Dec, Sequences, FiniteSetsExt, Functions

\* The members of a set, in some order (SetToSeq of SequencesExt, without the rest of that
\* module).
SetToSeq(S) == CHOOSE f \in [1..Cardinality(S) -> S] : IsInjective(f)

Less(a, b) == a.rate < b.rate

Powers(pb) == [i \in DOMAIN pb |-> pb[i].power]

BallotPower(pb) == SumFunction(Powers(pb))

\* The place of the i-th vote when the ballot is sorted: it comes after the votes of
\* lower rates and, among its equals, after those that came before it.
Place(pb, i) ==
    Cardinality({j \in DOMAIN pb : Less(pb[j], pb[i]) \/ (~Less(pb[i], pb[j]) /\ j <= i)})

\* sort.Sort, in ascending order of rates.  Go keeps the order of equals in ballots of up
\* to twelve votes, and may not in longer ones; no result depends on it.
SortBallot(pb) == [n \in DOMAIN pb |-> pb[CHOOSE i \in DOMAIN pb : Place(pb, i) = n]]

SortedBallot(pb) == \A i, j \in DOMAIN pb : i < j => pb[i].rate <= pb[j].rate

\* Mutant: the power counted must exceed half.
MedianPastHalf(pb) ==
    LET Pivot(n) == SumFunctionOnSet(Powers(pb), 1..n)
        past == {n \in DOMAIN pb : Pivot(n) > BallotPower(pb) \div 2}
    IN  IF past = {} THEN 0 ELSE pb[Min(past)].rate

\* The rate of the first vote at which the power counted so far reaches half,
\* with Go's integer division; 0 for an empty ballot.
WeightedMedian(pb) ==
    LET Pivot(n) == SumFunctionOnSet(Powers(pb), 1..n)
    IN  IF pb = <<>> THEN 0
        ELSE pb[Min({n \in DOMAIN pb : Pivot(n) >= BallotPower(pb) \div 2})].rate

\* A square root through float64, printed with %f: the nearest decimal (the
\* Unit of a run is coarser than the six digits %f prints).  The abstentions
\* are counted too.  The recovery from an overflow is left out.
StandardDeviation(pb, median) ==
    LET Deviation(i) == pb[i].rate - median
        variance == QuoInt(MapThenSumSet(LAMBDA i : Mul(Deviation(i), Deviation(i)), DOMAIN pb),
                           Len(pb))
    IN  IF pb = <<>> THEN 0
        ELSE CHOOSE s \in 0..(variance + Unit) :
                /\ (2 * s - 1) * (2 * s - 1) <= 4 * variance * Unit \/ s = 0
                /\ 4 * variance * Unit < (2 * s + 1) * (2 * s + 1)

\* The positive rates of the reference ballot, by voter.
ToMap(pb) ==
    LET positive == {i \in DOMAIN pb : pb[i].rate > 0}
    IN  [v \in {pb[i].voter : i \in positive} |->
            pb[CHOOSE i \in positive : pb[i].voter = v].rate]

\* A vote whose voter named no reference rate, or which is an abstention,
\* becomes an abstention.
CrossVote(vote, bases) ==
    IF vote.voter \in DOMAIN bases /\ vote.rate > 0
    THEN [vote EXCEPT !.rate = Quo(bases[vote.voter], vote.rate)]
    ELSE [vote EXCEPT !.rate = 0, !.power = 0]

\* Mutant: ToCrossRate, which leaves the ballot in the order of the old rates.
ToCrossRate(pb, bases) == [i \in DOMAIN pb |-> CrossVote(pb[i], bases)]

ToCrossRateWithSort(pb, bases) ==
    SortBallot([i \in DOMAIN pb |-> CrossVote(pb[i], bases)])

\* Mutant: an abstention does not win.
TallyInBand(pb, rewardBand) ==
    LET median == WeightedMedian(pb)
        deviation == StandardDeviation(pb, median)
        band == Mul(median, QuoInt(rewardBand, 2))
        spread == IF deviation > band THEN deviation ELSE band
    IN  {vote \in Range(pb) : vote.rate >= median - spread /\ vote.rate <= median + spread}

\* The votes that Tally credits: in the band around the median, or abstaining.
TallyWinners(pb, rewardBand) ==
    LET median == WeightedMedian(pb)
        deviation == StandardDeviation(pb, median)
        band == Mul(median, QuoInt(rewardBand, 2))
        spread == IF deviation > band THEN deviation ELSE band
    IN  {vote \in Range(pb) : \/ /\ vote.rate >= median - spread
                                 /\ vote.rate <= median + spread
                              \/ ~(vote.rate > 0)}

BallotIsPassing(pb, thresholdVotes) ==
    BallotPower(pb) # 0 /\ BallotPower(pb) >= thresholdVotes

===========================================================================
