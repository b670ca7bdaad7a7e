----------------------------- MODULE TreasuryTypes ----------------------------
(***************************************************************************)
(* The codecs of the messages of x/treasury: what Marshal writes, from the   *)
(* end, what Size counts and what Unmarshal looks for.                       *)
(***************************************************************************)
EXTENDS Fields

(* treasury.pb.go *)

ParamsMarshal ==
    <<Number(56, "WindowProbation"), Number(48, "WindowLong"), Number(40, "WindowShort"),
      Part(34, "MiningIncrement", "Dec"), Part(26, "SeigniorageBurdenTarget", "Dec"),
      Part(18, "RewardPolicy", "PolicyConstraints"),
      Part(10, "TaxPolicy", "PolicyConstraints")>>
ParamsSize ==
    <<Part(1, "TaxPolicy", "PolicyConstraints"), Part(1, "RewardPolicy", "PolicyConstraints"),
      Part(1, "SeigniorageBurdenTarget", "Dec"), Part(1, "MiningIncrement", "Dec"),
      Number(1, "WindowShort"), Number(1, "WindowLong"), Number(1, "WindowProbation")>>
ParamsUnmarshal ==
    <<Part(<<1, 2>>, "TaxPolicy", "PolicyConstraints"),
      Part(<<2, 2>>, "RewardPolicy", "PolicyConstraints"),
      Part(<<3, 2>>, "SeigniorageBurdenTarget", "Dec"),
      Part(<<4, 2>>, "MiningIncrement", "Dec"), Number(<<5, 0>>, "WindowShort"),
      Number(<<6, 0>>, "WindowLong"), Number(<<7, 0>>, "WindowProbation")>>

PolicyConstraintsMarshal ==
    <<Part(34, "ChangeRateMax", "Dec"), Part(26, "Cap", "Coin"), Part(18, "RateMax", "Dec"),
      Part(10, "RateMin", "Dec")>>
PolicyConstraintsSize ==
    <<Part(1, "RateMin", "Dec"), Part(1, "RateMax", "Dec"), Part(1, "Cap", "Coin"),
      Part(1, "ChangeRateMax", "Dec")>>
PolicyConstraintsUnmarshal ==
    <<Part(<<1, 2>>, "RateMin", "Dec"), Part(<<2, 2>>, "RateMax", "Dec"),
      Part(<<3, 2>>, "Cap", "Coin"), Part(<<4, 2>>, "ChangeRateMax", "Dec")>>

EpochTaxProceedsMarshal == <<Parts(10, "TaxProceeds", "Coin")>>
EpochTaxProceedsSize == <<Parts(1, "TaxProceeds", "Coin")>>
EpochTaxProceedsUnmarshal == <<Parts(<<1, 2>>, "TaxProceeds", "Coin")>>

EpochInitialIssuanceMarshal == <<Parts(10, "Issuance", "Coin")>>
EpochInitialIssuanceSize == <<Parts(1, "Issuance", "Coin")>>
EpochInitialIssuanceUnmarshal == <<Parts(<<1, 2>>, "Issuance", "Coin")>>

(* genesis.pb.go *)

GenesisStateMarshal ==
    <<Parts(58, "EpochStates", "EpochState"), Parts(50, "EpochInitialIssuance", "Coin"),
      Parts(42, "TaxProceeds", "Coin"), Parts(34, "TaxCaps", "TaxCap"),
      Part(26, "RewardWeight", "Dec"), Part(18, "TaxRate", "Dec"),
      Part(10, "Params", "Params")>>
GenesisStateSize ==
    <<Part(1, "Params", "Params"), Part(1, "TaxRate", "Dec"), Part(1, "RewardWeight", "Dec"),
      Parts(1, "TaxCaps", "TaxCap"), Parts(1, "TaxProceeds", "Coin"),
      Parts(1, "EpochInitialIssuance", "Coin"), Parts(1, "EpochStates", "EpochState")>>
GenesisStateUnmarshal ==
    <<Part(<<1, 2>>, "Params", "Params"), Part(<<2, 2>>, "TaxRate", "Dec"),
      Part(<<3, 2>>, "RewardWeight", "Dec"), Parts(<<4, 2>>, "TaxCaps", "TaxCap"),
      Parts(<<5, 2>>, "TaxProceeds", "Coin"), Parts(<<6, 2>>, "EpochInitialIssuance", "Coin"),
      Parts(<<7, 2>>, "EpochStates", "EpochState")>>

TaxCapMarshal == <<Part(18, "TaxCap", "Int"), Text(10, "Denom")>>
TaxCapSize == <<Text(1, "Denom"), Part(1, "TaxCap", "Int")>>
TaxCapUnmarshal == <<Text(<<1, 2>>, "Denom"), Part(<<2, 2>>, "TaxCap", "Int")>>

EpochStateMarshal ==
    <<Part(34, "TotalStakedLuna", "Int"), Part(26, "SeigniorageReward", "Dec"),
      Part(18, "TaxReward", "Dec"), Number(8, "Epoch")>>
EpochStateSize ==
    <<Number(1, "Epoch"), Part(1, "TaxReward", "Dec"), Part(1, "SeigniorageReward", "Dec"),
      Part(1, "TotalStakedLuna", "Int")>>
EpochStateUnmarshal ==
    <<Number(<<1, 0>>, "Epoch"), Part(<<2, 2>>, "TaxReward", "Dec"),
      Part(<<3, 2>>, "SeigniorageReward", "Dec"), Part(<<4, 2>>, "TotalStakedLuna", "Int")>>

(* query.pb.go *)

QueryTaxRateRequestMarshal == <<>>
QueryTaxRateRequestSize == <<>>
QueryTaxRateRequestUnmarshal == <<>>

QueryTaxRateResponseMarshal == <<Part(10, "TaxRate", "Dec")>>
QueryTaxRateResponseSize == <<Part(1, "TaxRate", "Dec")>>
QueryTaxRateResponseUnmarshal == <<Part(<<1, 2>>, "TaxRate", "Dec")>>

QueryTaxCapRequestMarshal == <<Text(10, "Denom")>>
QueryTaxCapRequestSize == <<Text(1, "Denom")>>
QueryTaxCapRequestUnmarshal == <<Text(<<1, 2>>, "Denom")>>

QueryTaxCapResponseMarshal == <<Part(10, "TaxCap", "Int")>>
QueryTaxCapResponseSize == <<Part(1, "TaxCap", "Int")>>
QueryTaxCapResponseUnmarshal == <<Part(<<1, 2>>, "TaxCap", "Int")>>

QueryTaxCapsRequestMarshal == <<>>
QueryTaxCapsRequestSize == <<>>
QueryTaxCapsRequestUnmarshal == <<>>

QueryTaxCapsResponseItemMarshal == <<Part(18, "TaxCap", "Int"), Text(10, "Denom")>>
QueryTaxCapsResponseItemSize == <<Text(1, "Denom"), Part(1, "TaxCap", "Int")>>
QueryTaxCapsResponseItemUnmarshal ==
    <<Text(<<1, 2>>, "Denom"), Part(<<2, 2>>, "TaxCap", "Int")>>

QueryTaxCapsResponseMarshal == <<Parts(10, "TaxCaps", "QueryTaxCapsResponseItem")>>
QueryTaxCapsResponseSize == <<Parts(1, "TaxCaps", "QueryTaxCapsResponseItem")>>
QueryTaxCapsResponseUnmarshal == <<Parts(<<1, 2>>, "TaxCaps", "QueryTaxCapsResponseItem")>>

QueryRewardWeightRequestMarshal == <<>>
QueryRewardWeightRequestSize == <<>>
QueryRewardWeightRequestUnmarshal == <<>>

QueryRewardWeightResponseMarshal == <<Part(10, "RewardWeight", "Dec")>>
QueryRewardWeightResponseSize == <<Part(1, "RewardWeight", "Dec")>>
QueryRewardWeightResponseUnmarshal == <<Part(<<1, 2>>, "RewardWeight", "Dec")>>

QueryTaxProceedsRequestMarshal == <<>>
QueryTaxProceedsRequestSize == <<>>
QueryTaxProceedsRequestUnmarshal == <<>>

QueryTaxProceedsResponseMarshal == <<Parts(10, "TaxProceeds", "Coin")>>
QueryTaxProceedsResponseSize == <<Parts(1, "TaxProceeds", "Coin")>>
QueryTaxProceedsResponseUnmarshal == <<Parts(<<1, 2>>, "TaxProceeds", "Coin")>>

QuerySeigniorageProceedsRequestMarshal == <<>>
QuerySeigniorageProceedsRequestSize == <<>>
QuerySeigniorageProceedsRequestUnmarshal == <<>>

QuerySeigniorageProceedsResponseMarshal == <<Part(10, "SeigniorageProceeds", "Int")>>
QuerySeigniorageProceedsResponseSize == <<Part(1, "SeigniorageProceeds", "Int")>>
QuerySeigniorageProceedsResponseUnmarshal == <<Part(<<1, 2>>, "SeigniorageProceeds", "Int")>>

QueryIndicatorsRequestMarshal == <<>>
QueryIndicatorsRequestSize == <<>>
QueryIndicatorsRequestUnmarshal == <<>>

QueryIndicatorsResponseMarshal == <<Part(18, "TRLMonth", "Dec"), Part(10, "TRLYear", "Dec")>>
QueryIndicatorsResponseSize == <<Part(1, "TRLYear", "Dec"), Part(1, "TRLMonth", "Dec")>>
QueryIndicatorsResponseUnmarshal ==
    <<Part(<<1, 2>>, "TRLYear", "Dec"), Part(<<2, 2>>, "TRLMonth", "Dec")>>

QueryParamsRequestMarshal == <<>>
QueryParamsRequestSize == <<>>
QueryParamsRequestUnmarshal == <<>>

QueryParamsResponseMarshal == <<Part(10, "Params", "Params")>>
QueryParamsResponseSize == <<Part(1, "Params", "Params")>>
QueryParamsResponseUnmarshal == <<Part(<<1, 2>>, "Params", "Params")>>

Names ==
    {"Params", "PolicyConstraints", "EpochTaxProceeds", "EpochInitialIssuance",
     "GenesisState", "TaxCap", "EpochState", "QueryTaxRateRequest", "QueryTaxRateResponse",
     "QueryTaxCapRequest", "QueryTaxCapResponse", "QueryTaxCapsRequest",
     "QueryTaxCapsResponseItem", "QueryTaxCapsResponse", "QueryRewardWeightRequest",
     "QueryRewardWeightResponse", "QueryTaxProceedsRequest", "QueryTaxProceedsResponse",
     "QuerySeigniorageProceedsRequest", "QuerySeigniorageProceedsResponse",
     "QueryIndicatorsRequest", "QueryIndicatorsResponse", "QueryParamsRequest",
     "QueryParamsResponse"}

Messages(name) ==
    CASE name = "Params" -> Codec(ParamsMarshal, ParamsSize, ParamsUnmarshal)
      [] name = "PolicyConstraints" ->
            Codec(PolicyConstraintsMarshal, PolicyConstraintsSize,
                  PolicyConstraintsUnmarshal)
      [] name = "EpochTaxProceeds" ->
            Codec(EpochTaxProceedsMarshal, EpochTaxProceedsSize,
                  EpochTaxProceedsUnmarshal)
      [] name = "EpochInitialIssuance" ->
            Codec(EpochInitialIssuanceMarshal, EpochInitialIssuanceSize,
                  EpochInitialIssuanceUnmarshal)
      [] name = "GenesisState" ->
            Codec(GenesisStateMarshal, GenesisStateSize,
                  GenesisStateUnmarshal)
      [] name = "TaxCap" -> Codec(TaxCapMarshal, TaxCapSize, TaxCapUnmarshal)
      [] name = "EpochState" -> Codec(EpochStateMarshal, EpochStateSize, EpochStateUnmarshal)
      [] name = "QueryTaxRateRequest" ->
            Codec(QueryTaxRateRequestMarshal, QueryTaxRateRequestSize,
                  QueryTaxRateRequestUnmarshal)
      [] name = "QueryTaxRateResponse" ->
            Codec(QueryTaxRateResponseMarshal, QueryTaxRateResponseSize,
                  QueryTaxRateResponseUnmarshal)
      [] name = "QueryTaxCapRequest" ->
            Codec(QueryTaxCapRequestMarshal, QueryTaxCapRequestSize,
                  QueryTaxCapRequestUnmarshal)
      [] name = "QueryTaxCapResponse" ->
            Codec(QueryTaxCapResponseMarshal, QueryTaxCapResponseSize,
                  QueryTaxCapResponseUnmarshal)
      [] name = "QueryTaxCapsRequest" ->
            Codec(QueryTaxCapsRequestMarshal, QueryTaxCapsRequestSize,
                  QueryTaxCapsRequestUnmarshal)
      [] name = "QueryTaxCapsResponseItem" ->
            Codec(QueryTaxCapsResponseItemMarshal, QueryTaxCapsResponseItemSize,
                  QueryTaxCapsResponseItemUnmarshal)
      [] name = "QueryTaxCapsResponse" ->
            Codec(QueryTaxCapsResponseMarshal, QueryTaxCapsResponseSize,
                  QueryTaxCapsResponseUnmarshal)
      [] name = "QueryRewardWeightRequest" ->
            Codec(QueryRewardWeightRequestMarshal, QueryRewardWeightRequestSize,
                  QueryRewardWeightRequestUnmarshal)
      [] name = "QueryRewardWeightResponse" ->
            Codec(QueryRewardWeightResponseMarshal, QueryRewardWeightResponseSize,
                  QueryRewardWeightResponseUnmarshal)
      [] name = "QueryTaxProceedsRequest" ->
            Codec(QueryTaxProceedsRequestMarshal, QueryTaxProceedsRequestSize,
                  QueryTaxProceedsRequestUnmarshal)
      [] name = "QueryTaxProceedsResponse" ->
            Codec(QueryTaxProceedsResponseMarshal, QueryTaxProceedsResponseSize,
                  QueryTaxProceedsResponseUnmarshal)
      [] name = "QuerySeigniorageProceedsRequest" ->
            Codec(QuerySeigniorageProceedsRequestMarshal, QuerySeigniorageProceedsRequestSize,
                  QuerySeigniorageProceedsRequestUnmarshal)
      [] name = "QuerySeigniorageProceedsResponse" ->
            Codec(QuerySeigniorageProceedsResponseMarshal, QuerySeigniorageProceedsResponseSize,
                  QuerySeigniorageProceedsResponseUnmarshal)
      [] name = "QueryIndicatorsRequest" ->
            Codec(QueryIndicatorsRequestMarshal, QueryIndicatorsRequestSize,
                  QueryIndicatorsRequestUnmarshal)
      [] name = "QueryIndicatorsResponse" ->
            Codec(QueryIndicatorsResponseMarshal, QueryIndicatorsResponseSize,
                  QueryIndicatorsResponseUnmarshal)
      [] name = "QueryParamsRequest" ->
            Codec(QueryParamsRequestMarshal, QueryParamsRequestSize,
                  QueryParamsRequestUnmarshal)
      [] name = "QueryParamsResponse" ->
            Codec(QueryParamsResponseMarshal, QueryParamsResponseSize,
                  QueryParamsResponseUnmarshal)
===============================================================================
