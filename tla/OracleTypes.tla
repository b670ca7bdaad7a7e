------------------------------ MODULE OracleTypes -----------------------------
(***************************************************************************)
(* The codecs of the messages of x/oracle: what Marshal writes, from the     *)
(* end, what Size counts and what Unmarshal looks for.                       *)
(***************************************************************************)
EXTENDS Fields

(* oracle.pb.go *)

ParamsMarshal ==
    <<Part(66, "MinValidPerWindow", "Dec"), Number(56, "SlashWindow"),
      Part(50, "SlashFraction", "Dec"), Parts(42, "Whitelist", "Denom"),
      Number(32, "RewardDistributionWindow"), Part(26, "RewardBand", "Dec"),
      Part(18, "VoteThreshold", "Dec"), Number(8, "VotePeriod")>>
ParamsSize ==
    <<Number(1, "VotePeriod"), Part(1, "VoteThreshold", "Dec"), Part(1, "RewardBand", "Dec"),
      Number(1, "RewardDistributionWindow"), Parts(1, "Whitelist", "Denom"),
      Part(1, "SlashFraction", "Dec"), Number(1, "SlashWindow"),
      Part(1, "MinValidPerWindow", "Dec")>>
ParamsUnmarshal ==
    <<Number(<<1, 0>>, "VotePeriod"), Part(<<2, 2>>, "VoteThreshold", "Dec"),
      Part(<<3, 2>>, "RewardBand", "Dec"), Number(<<4, 0>>, "RewardDistributionWindow"),
      Parts(<<5, 2>>, "Whitelist", "Denom"), Part(<<6, 2>>, "SlashFraction", "Dec"),
      Number(<<7, 0>>, "SlashWindow"), Part(<<8, 2>>, "MinValidPerWindow", "Dec")>>

DenomMarshal == <<Part(18, "TobinTax", "Dec"), Text(10, "Name")>>
DenomSize == <<Text(1, "Name"), Part(1, "TobinTax", "Dec")>>
DenomUnmarshal == <<Text(<<1, 2>>, "Name"), Part(<<2, 2>>, "TobinTax", "Dec")>>

AggregateExchangeRatePrevoteMarshal ==
    <<Number(24, "SubmitBlock"), Text(18, "Voter"), Text(10, "Hash")>>
AggregateExchangeRatePrevoteSize ==
    <<Text(1, "Hash"), Text(1, "Voter"), Number(1, "SubmitBlock")>>
AggregateExchangeRatePrevoteUnmarshal ==
    <<Text(<<1, 2>>, "Hash"), Text(<<2, 2>>, "Voter"), Number(<<3, 0>>, "SubmitBlock")>>

AggregateExchangeRateVoteMarshal ==
    <<Text(18, "Voter"), Parts(10, "ExchangeRateTuples", "ExchangeRateTuple")>>
AggregateExchangeRateVoteSize ==
    <<Parts(1, "ExchangeRateTuples", "ExchangeRateTuple"), Text(1, "Voter")>>
AggregateExchangeRateVoteUnmarshal ==
    <<Parts(<<1, 2>>, "ExchangeRateTuples", "ExchangeRateTuple"), Text(<<2, 2>>, "Voter")>>

ExchangeRateTupleMarshal == <<Part(18, "ExchangeRate", "Dec"), Text(10, "Denom")>>
ExchangeRateTupleSize == <<Text(1, "Denom"), Part(1, "ExchangeRate", "Dec")>>
ExchangeRateTupleUnmarshal == <<Text(<<1, 2>>, "Denom"), Part(<<2, 2>>, "ExchangeRate", "Dec")>>

(* genesis.pb.go *)

GenesisStateMarshal ==
    <<Parts(58, "TobinTaxes", "TobinTax"),
      Parts(50, "AggregateExchangeRateVotes", "AggregateExchangeRateVote"),
      Parts(42, "AggregateExchangeRatePrevotes", "AggregateExchangeRatePrevote"),
      Parts(34, "MissCounters", "MissCounter"),
      Parts(26, "ExchangeRates", "ExchangeRateTuple"),
      Parts(18, "FeederDelegations", "FeederDelegation"), Part(10, "Params", "Params")>>
GenesisStateSize ==
    <<Part(1, "Params", "Params"), Parts(1, "FeederDelegations", "FeederDelegation"),
      Parts(1, "ExchangeRates", "ExchangeRateTuple"), Parts(1, "MissCounters", "MissCounter"),
      Parts(1, "AggregateExchangeRatePrevotes", "AggregateExchangeRatePrevote"),
      Parts(1, "AggregateExchangeRateVotes", "AggregateExchangeRateVote"),
      Parts(1, "TobinTaxes", "TobinTax")>>
GenesisStateUnmarshal ==
    <<Part(<<1, 2>>, "Params", "Params"),
      Parts(<<2, 2>>, "FeederDelegations", "FeederDelegation"),
      Parts(<<3, 2>>, "ExchangeRates", "ExchangeRateTuple"),
      Parts(<<4, 2>>, "MissCounters", "MissCounter"),
      Parts(<<5, 2>>, "AggregateExchangeRatePrevotes", "AggregateExchangeRatePrevote"),
      Parts(<<6, 2>>, "AggregateExchangeRateVotes", "AggregateExchangeRateVote"),
      Parts(<<7, 2>>, "TobinTaxes", "TobinTax")>>

FeederDelegationMarshal == <<Text(18, "ValidatorAddress"), Text(10, "FeederAddress")>>
FeederDelegationSize == <<Text(1, "FeederAddress"), Text(1, "ValidatorAddress")>>
FeederDelegationUnmarshal ==
    <<Text(<<1, 2>>, "FeederAddress"), Text(<<2, 2>>, "ValidatorAddress")>>

MissCounterMarshal == <<Number(16, "MissCounter"), Text(10, "ValidatorAddress")>>
MissCounterSize == <<Text(1, "ValidatorAddress"), Number(1, "MissCounter")>>
MissCounterUnmarshal == <<Text(<<1, 2>>, "ValidatorAddress"), Number(<<2, 0>>, "MissCounter")>>

TobinTaxMarshal == <<Part(18, "TobinTax", "Dec"), Text(10, "Denom")>>
TobinTaxSize == <<Text(1, "Denom"), Part(1, "TobinTax", "Dec")>>
TobinTaxUnmarshal == <<Text(<<1, 2>>, "Denom"), Part(<<2, 2>>, "TobinTax", "Dec")>>

(* tx.pb.go *)

MsgAggregateExchangeRatePrevoteMarshal ==
    <<Text(26, "Validator"), Text(18, "Feeder"), Text(10, "Hash")>>
MsgAggregateExchangeRatePrevoteSize ==
    <<Text(1, "Hash"), Text(1, "Feeder"), Text(1, "Validator")>>
MsgAggregateExchangeRatePrevoteUnmarshal ==
    <<Text(<<1, 2>>, "Hash"), Text(<<2, 2>>, "Feeder"), Text(<<3, 2>>, "Validator")>>

MsgAggregateExchangeRatePrevoteResponseMarshal == <<>>
MsgAggregateExchangeRatePrevoteResponseSize == <<>>
MsgAggregateExchangeRatePrevoteResponseUnmarshal == <<>>

MsgAggregateExchangeRateVoteMarshal ==
    <<Text(34, "Validator"), Text(26, "Feeder"), Text(18, "ExchangeRates"), Text(10, "Salt")>>
MsgAggregateExchangeRateVoteSize ==
    <<Text(1, "Salt"), Text(1, "ExchangeRates"), Text(1, "Feeder"), Text(1, "Validator")>>
MsgAggregateExchangeRateVoteUnmarshal ==
    <<Text(<<1, 2>>, "Salt"), Text(<<2, 2>>, "ExchangeRates"), Text(<<3, 2>>, "Feeder"),
      Text(<<4, 2>>, "Validator")>>

MsgAggregateExchangeRateVoteResponseMarshal == <<>>
MsgAggregateExchangeRateVoteResponseSize == <<>>
MsgAggregateExchangeRateVoteResponseUnmarshal == <<>>

MsgDelegateFeedConsentMarshal == <<Text(18, "Delegate"), Text(10, "Operator")>>
MsgDelegateFeedConsentSize == <<Text(1, "Operator"), Text(1, "Delegate")>>
MsgDelegateFeedConsentUnmarshal == <<Text(<<1, 2>>, "Operator"), Text(<<2, 2>>, "Delegate")>>

MsgDelegateFeedConsentResponseMarshal == <<>>
MsgDelegateFeedConsentResponseSize == <<>>
MsgDelegateFeedConsentResponseUnmarshal == <<>>

(* query.pb.go *)

QueryExchangeRateRequestMarshal == <<Text(10, "Denom")>>
QueryExchangeRateRequestSize == <<Text(1, "Denom")>>
QueryExchangeRateRequestUnmarshal == <<Text(<<1, 2>>, "Denom")>>

QueryExchangeRateResponseMarshal == <<Part(10, "ExchangeRate", "Dec")>>
QueryExchangeRateResponseSize == <<Part(1, "ExchangeRate", "Dec")>>
QueryExchangeRateResponseUnmarshal == <<Part(<<1, 2>>, "ExchangeRate", "Dec")>>

QueryExchangeRatesRequestMarshal == <<>>
QueryExchangeRatesRequestSize == <<>>
QueryExchangeRatesRequestUnmarshal == <<>>

QueryExchangeRatesResponseMarshal == <<Parts(10, "ExchangeRates", "DecCoin")>>
QueryExchangeRatesResponseSize == <<Parts(1, "ExchangeRates", "DecCoin")>>
QueryExchangeRatesResponseUnmarshal == <<Parts(<<1, 2>>, "ExchangeRates", "DecCoin")>>

QueryTobinTaxRequestMarshal == <<Text(10, "Denom")>>
QueryTobinTaxRequestSize == <<Text(1, "Denom")>>
QueryTobinTaxRequestUnmarshal == <<Text(<<1, 2>>, "Denom")>>

QueryTobinTaxResponseMarshal == <<Part(10, "TobinTax", "Dec")>>
QueryTobinTaxResponseSize == <<Part(1, "TobinTax", "Dec")>>
QueryTobinTaxResponseUnmarshal == <<Part(<<1, 2>>, "TobinTax", "Dec")>>

QueryTobinTaxesRequestMarshal == <<>>
QueryTobinTaxesRequestSize == <<>>
QueryTobinTaxesRequestUnmarshal == <<>>

QueryTobinTaxesResponseMarshal == <<Parts(10, "TobinTaxes", "Denom")>>
QueryTobinTaxesResponseSize == <<Parts(1, "TobinTaxes", "Denom")>>
QueryTobinTaxesResponseUnmarshal == <<Parts(<<1, 2>>, "TobinTaxes", "Denom")>>

QueryActivesRequestMarshal == <<>>
QueryActivesRequestSize == <<>>
QueryActivesRequestUnmarshal == <<>>

QueryActivesResponseMarshal == <<Texts(10, "Actives")>>
QueryActivesResponseSize == <<Texts(1, "Actives")>>
QueryActivesResponseUnmarshal == <<Texts(<<1, 2>>, "Actives")>>

QueryVoteTargetsRequestMarshal == <<>>
QueryVoteTargetsRequestSize == <<>>
QueryVoteTargetsRequestUnmarshal == <<>>

QueryVoteTargetsResponseMarshal == <<Texts(10, "VoteTargets")>>
QueryVoteTargetsResponseSize == <<Texts(1, "VoteTargets")>>
QueryVoteTargetsResponseUnmarshal == <<Texts(<<1, 2>>, "VoteTargets")>>

QueryFeederDelegationRequestMarshal == <<Text(10, "ValidatorAddr")>>
QueryFeederDelegationRequestSize == <<Text(1, "ValidatorAddr")>>
QueryFeederDelegationRequestUnmarshal == <<Text(<<1, 2>>, "ValidatorAddr")>>

QueryFeederDelegationResponseMarshal == <<Text(10, "FeederAddr")>>
QueryFeederDelegationResponseSize == <<Text(1, "FeederAddr")>>
QueryFeederDelegationResponseUnmarshal == <<Text(<<1, 2>>, "FeederAddr")>>

QueryMissCounterRequestMarshal == <<Text(10, "ValidatorAddr")>>
QueryMissCounterRequestSize == <<Text(1, "ValidatorAddr")>>
QueryMissCounterRequestUnmarshal == <<Text(<<1, 2>>, "ValidatorAddr")>>

QueryMissCounterResponseMarshal == <<Number(8, "MissCounter")>>
QueryMissCounterResponseSize == <<Number(1, "MissCounter")>>
QueryMissCounterResponseUnmarshal == <<Number(<<1, 0>>, "MissCounter")>>

QueryAggregatePrevoteRequestMarshal == <<Text(10, "ValidatorAddr")>>
QueryAggregatePrevoteRequestSize == <<Text(1, "ValidatorAddr")>>
QueryAggregatePrevoteRequestUnmarshal == <<Text(<<1, 2>>, "ValidatorAddr")>>

QueryAggregatePrevoteResponseMarshal ==
    <<Part(10, "AggregatePrevote", "AggregateExchangeRatePrevote")>>
QueryAggregatePrevoteResponseSize ==
    <<Part(1, "AggregatePrevote", "AggregateExchangeRatePrevote")>>
QueryAggregatePrevoteResponseUnmarshal ==
    <<Part(<<1, 2>>, "AggregatePrevote", "AggregateExchangeRatePrevote")>>

QueryAggregatePrevotesRequestMarshal == <<>>
QueryAggregatePrevotesRequestSize == <<>>
QueryAggregatePrevotesRequestUnmarshal == <<>>

QueryAggregatePrevotesResponseMarshal ==
    <<Parts(10, "AggregatePrevotes", "AggregateExchangeRatePrevote")>>
QueryAggregatePrevotesResponseSize ==
    <<Parts(1, "AggregatePrevotes", "AggregateExchangeRatePrevote")>>
QueryAggregatePrevotesResponseUnmarshal ==
    <<Parts(<<1, 2>>, "AggregatePrevotes", "AggregateExchangeRatePrevote")>>

QueryAggregateVoteRequestMarshal == <<Text(10, "ValidatorAddr")>>
QueryAggregateVoteRequestSize == <<Text(1, "ValidatorAddr")>>
QueryAggregateVoteRequestUnmarshal == <<Text(<<1, 2>>, "ValidatorAddr")>>

QueryAggregateVoteResponseMarshal == <<Part(10, "AggregateVote", "AggregateExchangeRateVote")>>
QueryAggregateVoteResponseSize == <<Part(1, "AggregateVote", "AggregateExchangeRateVote")>>
QueryAggregateVoteResponseUnmarshal ==
    <<Part(<<1, 2>>, "AggregateVote", "AggregateExchangeRateVote")>>

QueryAggregateVotesRequestMarshal == <<>>
QueryAggregateVotesRequestSize == <<>>
QueryAggregateVotesRequestUnmarshal == <<>>

QueryAggregateVotesResponseMarshal ==
    <<Parts(10, "AggregateVotes", "AggregateExchangeRateVote")>>
QueryAggregateVotesResponseSize == <<Parts(1, "AggregateVotes", "AggregateExchangeRateVote")>>
QueryAggregateVotesResponseUnmarshal ==
    <<Parts(<<1, 2>>, "AggregateVotes", "AggregateExchangeRateVote")>>

QueryParamsRequestMarshal == <<>>
QueryParamsRequestSize == <<>>
QueryParamsRequestUnmarshal == <<>>

QueryParamsResponseMarshal == <<Part(10, "Params", "Params")>>
QueryParamsResponseSize == <<Part(1, "Params", "Params")>>
QueryParamsResponseUnmarshal == <<Part(<<1, 2>>, "Params", "Params")>>

Names ==
    {"Params", "Denom", "AggregateExchangeRatePrevote", "AggregateExchangeRateVote",
     "ExchangeRateTuple", "GenesisState", "FeederDelegation", "MissCounter", "TobinTax",
     "MsgAggregateExchangeRatePrevote", "MsgAggregateExchangeRatePrevoteResponse",
     "MsgAggregateExchangeRateVote", "MsgAggregateExchangeRateVoteResponse",
     "MsgDelegateFeedConsent", "MsgDelegateFeedConsentResponse", "QueryExchangeRateRequest",
     "QueryExchangeRateResponse", "QueryExchangeRatesRequest", "QueryExchangeRatesResponse",
     "QueryTobinTaxRequest", "QueryTobinTaxResponse", "QueryTobinTaxesRequest",
     "QueryTobinTaxesResponse", "QueryActivesRequest", "QueryActivesResponse",
     "QueryVoteTargetsRequest", "QueryVoteTargetsResponse", "QueryFeederDelegationRequest",
     "QueryFeederDelegationResponse", "QueryMissCounterRequest", "QueryMissCounterResponse",
     "QueryAggregatePrevoteRequest", "QueryAggregatePrevoteResponse",
     "QueryAggregatePrevotesRequest", "QueryAggregatePrevotesResponse",
     "QueryAggregateVoteRequest", "QueryAggregateVoteResponse", "QueryAggregateVotesRequest",
     "QueryAggregateVotesResponse", "QueryParamsRequest", "QueryParamsResponse"}

Messages(name) ==
    CASE name = "Params" -> Codec(ParamsMarshal, ParamsSize, ParamsUnmarshal)
      [] name = "Denom" -> Codec(DenomMarshal, DenomSize, DenomUnmarshal)
      [] name = "AggregateExchangeRatePrevote" ->
            Codec(AggregateExchangeRatePrevoteMarshal, AggregateExchangeRatePrevoteSize,
                  AggregateExchangeRatePrevoteUnmarshal)
      [] name = "AggregateExchangeRateVote" ->
            Codec(AggregateExchangeRateVoteMarshal, AggregateExchangeRateVoteSize,
                  AggregateExchangeRateVoteUnmarshal)
      [] name = "ExchangeRateTuple" ->
            Codec(ExchangeRateTupleMarshal, ExchangeRateTupleSize,
                  ExchangeRateTupleUnmarshal)
      [] name = "GenesisState" ->
            Codec(GenesisStateMarshal, GenesisStateSize,
                  GenesisStateUnmarshal)
      [] name = "FeederDelegation" ->
            Codec(FeederDelegationMarshal, FeederDelegationSize,
                  FeederDelegationUnmarshal)
      [] name = "MissCounter" -> Codec(MissCounterMarshal, MissCounterSize, MissCounterUnmarshal)
      [] name = "TobinTax" -> Codec(TobinTaxMarshal, TobinTaxSize, TobinTaxUnmarshal)
      [] name = "MsgAggregateExchangeRatePrevote" ->
            Codec(MsgAggregateExchangeRatePrevoteMarshal, MsgAggregateExchangeRatePrevoteSize,
                  MsgAggregateExchangeRatePrevoteUnmarshal)
      [] name = "MsgAggregateExchangeRatePrevoteResponse" ->
            Codec(MsgAggregateExchangeRatePrevoteResponseMarshal, MsgAggregateExchangeRatePrevoteResponseSize,
                  MsgAggregateExchangeRatePrevoteResponseUnmarshal)
      [] name = "MsgAggregateExchangeRateVote" ->
            Codec(MsgAggregateExchangeRateVoteMarshal, MsgAggregateExchangeRateVoteSize,
                  MsgAggregateExchangeRateVoteUnmarshal)
      [] name = "MsgAggregateExchangeRateVoteResponse" ->
            Codec(MsgAggregateExchangeRateVoteResponseMarshal, MsgAggregateExchangeRateVoteResponseSize,
                  MsgAggregateExchangeRateVoteResponseUnmarshal)
      [] name = "MsgDelegateFeedConsent" ->
            Codec(MsgDelegateFeedConsentMarshal, MsgDelegateFeedConsentSize,
                  MsgDelegateFeedConsentUnmarshal)
      [] name = "MsgDelegateFeedConsentResponse" ->
            Codec(MsgDelegateFeedConsentResponseMarshal, MsgDelegateFeedConsentResponseSize,
                  MsgDelegateFeedConsentResponseUnmarshal)
      [] name = "QueryExchangeRateRequest" ->
            Codec(QueryExchangeRateRequestMarshal, QueryExchangeRateRequestSize,
                  QueryExchangeRateRequestUnmarshal)
      [] name = "QueryExchangeRateResponse" ->
            Codec(QueryExchangeRateResponseMarshal, QueryExchangeRateResponseSize,
                  QueryExchangeRateResponseUnmarshal)
      [] name = "QueryExchangeRatesRequest" ->
            Codec(QueryExchangeRatesRequestMarshal, QueryExchangeRatesRequestSize,
                  QueryExchangeRatesRequestUnmarshal)
      [] name = "QueryExchangeRatesResponse" ->
            Codec(QueryExchangeRatesResponseMarshal, QueryExchangeRatesResponseSize,
                  QueryExchangeRatesResponseUnmarshal)
      [] name = "QueryTobinTaxRequest" ->
            Codec(QueryTobinTaxRequestMarshal, QueryTobinTaxRequestSize,
                  QueryTobinTaxRequestUnmarshal)
      [] name = "QueryTobinTaxResponse" ->
            Codec(QueryTobinTaxResponseMarshal, QueryTobinTaxResponseSize,
                  QueryTobinTaxResponseUnmarshal)
      [] name = "QueryTobinTaxesRequest" ->
            Codec(QueryTobinTaxesRequestMarshal, QueryTobinTaxesRequestSize,
                  QueryTobinTaxesRequestUnmarshal)
      [] name = "QueryTobinTaxesResponse" ->
            Codec(QueryTobinTaxesResponseMarshal, QueryTobinTaxesResponseSize,
                  QueryTobinTaxesResponseUnmarshal)
      [] name = "QueryActivesRequest" ->
            Codec(QueryActivesRequestMarshal, QueryActivesRequestSize,
                  QueryActivesRequestUnmarshal)
      [] name = "QueryActivesResponse" ->
            Codec(QueryActivesResponseMarshal, QueryActivesResponseSize,
                  QueryActivesResponseUnmarshal)
      [] name = "QueryVoteTargetsRequest" ->
            Codec(QueryVoteTargetsRequestMarshal, QueryVoteTargetsRequestSize,
                  QueryVoteTargetsRequestUnmarshal)
      [] name = "QueryVoteTargetsResponse" ->
            Codec(QueryVoteTargetsResponseMarshal, QueryVoteTargetsResponseSize,
                  QueryVoteTargetsResponseUnmarshal)
      [] name = "QueryFeederDelegationRequest" ->
            Codec(QueryFeederDelegationRequestMarshal, QueryFeederDelegationRequestSize,
                  QueryFeederDelegationRequestUnmarshal)
      [] name = "QueryFeederDelegationResponse" ->
            Codec(QueryFeederDelegationResponseMarshal, QueryFeederDelegationResponseSize,
                  QueryFeederDelegationResponseUnmarshal)
      [] name = "QueryMissCounterRequest" ->
            Codec(QueryMissCounterRequestMarshal, QueryMissCounterRequestSize,
                  QueryMissCounterRequestUnmarshal)
      [] name = "QueryMissCounterResponse" ->
            Codec(QueryMissCounterResponseMarshal, QueryMissCounterResponseSize,
                  QueryMissCounterResponseUnmarshal)
      [] name = "QueryAggregatePrevoteRequest" ->
            Codec(QueryAggregatePrevoteRequestMarshal, QueryAggregatePrevoteRequestSize,
                  QueryAggregatePrevoteRequestUnmarshal)
      [] name = "QueryAggregatePrevoteResponse" ->
            Codec(QueryAggregatePrevoteResponseMarshal, QueryAggregatePrevoteResponseSize,
                  QueryAggregatePrevoteResponseUnmarshal)
      [] name = "QueryAggregatePrevotesRequest" ->
            Codec(QueryAggregatePrevotesRequestMarshal, QueryAggregatePrevotesRequestSize,
                  QueryAggregatePrevotesRequestUnmarshal)
      [] name = "QueryAggregatePrevotesResponse" ->
            Codec(QueryAggregatePrevotesResponseMarshal, QueryAggregatePrevotesResponseSize,
                  QueryAggregatePrevotesResponseUnmarshal)
      [] name = "QueryAggregateVoteRequest" ->
            Codec(QueryAggregateVoteRequestMarshal, QueryAggregateVoteRequestSize,
                  QueryAggregateVoteRequestUnmarshal)
      [] name = "QueryAggregateVoteResponse" ->
            Codec(QueryAggregateVoteResponseMarshal, QueryAggregateVoteResponseSize,
                  QueryAggregateVoteResponseUnmarshal)
      [] name = "QueryAggregateVotesRequest" ->
            Codec(QueryAggregateVotesRequestMarshal, QueryAggregateVotesRequestSize,
                  QueryAggregateVotesRequestUnmarshal)
      [] name = "QueryAggregateVotesResponse" ->
            Codec(QueryAggregateVotesResponseMarshal, QueryAggregateVotesResponseSize,
                  QueryAggregateVotesResponseUnmarshal)
      [] name = "QueryParamsRequest" ->
            Codec(QueryParamsRequestMarshal, QueryParamsRequestSize,
                  QueryParamsRequestUnmarshal)
      [] name = "QueryParamsResponse" ->
            Codec(QueryParamsResponseMarshal, QueryParamsResponseSize,
                  QueryParamsResponseUnmarshal)
===============================================================================
