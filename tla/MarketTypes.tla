------------------------------ MODULE MarketTypes -----------------------------
(***************************************************************************)
(* The codecs of the messages of x/market: what Marshal writes, from the     *)
(* end, what Size counts and what Unmarshal looks for.                       *)
(***************************************************************************)
EXTENDS Fields

(* market.pb.go *)

ParamsMarshal ==
    <<Part(26, "MinStabilitySpread", "Dec"), Number(16, "PoolRecoveryPeriod"),
      Part(10, "BasePool", "Dec")>>
ParamsSize ==
    <<Part(1, "BasePool", "Dec"), Number(1, "PoolRecoveryPeriod"),
      Part(1, "MinStabilitySpread", "Dec")>>
ParamsUnmarshal ==
    <<Part(<<1, 2>>, "BasePool", "Dec"), Number(<<2, 0>>, "PoolRecoveryPeriod"),
      Part(<<3, 2>>, "MinStabilitySpread", "Dec")>>

(* genesis.pb.go *)

GenesisStateMarshal == <<Part(18, "TerraPoolDelta", "Dec"), Part(10, "Params", "Params")>>
GenesisStateSize == <<Part(1, "Params", "Params"), Part(1, "TerraPoolDelta", "Dec")>>
GenesisStateUnmarshal ==
    <<Part(<<1, 2>>, "Params", "Params"), Part(<<2, 2>>, "TerraPoolDelta", "Dec")>>

(* tx.pb.go *)

MsgSwapMarshal == <<Text(26, "AskDenom"), Part(18, "OfferCoin", "Coin"), Text(10, "Trader")>>
MsgSwapSize == <<Text(1, "Trader"), Part(1, "OfferCoin", "Coin"), Text(1, "AskDenom")>>
MsgSwapUnmarshal ==
    <<Text(<<1, 2>>, "Trader"), Part(<<2, 2>>, "OfferCoin", "Coin"),
      Text(<<3, 2>>, "AskDenom")>>

MsgSwapResponseMarshal == <<Part(18, "SwapFee", "Coin"), Part(10, "SwapCoin", "Coin")>>
MsgSwapResponseSize == <<Part(1, "SwapCoin", "Coin"), Part(1, "SwapFee", "Coin")>>
MsgSwapResponseUnmarshal ==
    <<Part(<<1, 2>>, "SwapCoin", "Coin"), Part(<<2, 2>>, "SwapFee", "Coin")>>

MsgSwapSendMarshal ==
    <<Text(34, "AskDenom"), Part(26, "OfferCoin", "Coin"), Text(18, "ToAddress"),
      Text(10, "FromAddress")>>
MsgSwapSendSize ==
    <<Text(1, "FromAddress"), Text(1, "ToAddress"), Part(1, "OfferCoin", "Coin"),
      Text(1, "AskDenom")>>

(* Mutant: the two addresses are read into each other. *)
MsgSwapSendUnmarshalSwapped ==
    <<Text(<<1, 2>>, "ToAddress"), Text(<<2, 2>>, "FromAddress"),
      Part(<<3, 2>>, "OfferCoin", "Coin"), Text(<<4, 2>>, "AskDenom")>>

MsgSwapSendUnmarshal ==
    <<Text(<<1, 2>>, "FromAddress"), Text(<<2, 2>>, "ToAddress"),
      Part(<<3, 2>>, "OfferCoin", "Coin"), Text(<<4, 2>>, "AskDenom")>>

MsgSwapSendResponseMarshal == <<Part(18, "SwapFee", "Coin"), Part(10, "SwapCoin", "Coin")>>
MsgSwapSendResponseSize == <<Part(1, "SwapCoin", "Coin"), Part(1, "SwapFee", "Coin")>>
MsgSwapSendResponseUnmarshal ==
    <<Part(<<1, 2>>, "SwapCoin", "Coin"), Part(<<2, 2>>, "SwapFee", "Coin")>>

(* query.pb.go *)

QuerySwapRequestMarshal == <<Text(18, "AskDenom"), Text(10, "OfferCoin")>>
QuerySwapRequestSize == <<Text(1, "OfferCoin"), Text(1, "AskDenom")>>
QuerySwapRequestUnmarshal == <<Text(<<1, 2>>, "OfferCoin"), Text(<<2, 2>>, "AskDenom")>>

QuerySwapResponseMarshal == <<Part(10, "ReturnCoin", "Coin")>>
QuerySwapResponseSize == <<Part(1, "ReturnCoin", "Coin")>>
QuerySwapResponseUnmarshal == <<Part(<<1, 2>>, "ReturnCoin", "Coin")>>

QueryTerraPoolDeltaRequestMarshal == <<>>
QueryTerraPoolDeltaRequestSize == <<>>
QueryTerraPoolDeltaRequestUnmarshal == <<>>

QueryTerraPoolDeltaResponseMarshal == <<Part(10, "TerraPoolDelta", "Dec")>>
QueryTerraPoolDeltaResponseSize == <<Part(1, "TerraPoolDelta", "Dec")>>
QueryTerraPoolDeltaResponseUnmarshal == <<Part(<<1, 2>>, "TerraPoolDelta", "Dec")>>

QueryParamsRequestMarshal == <<>>
QueryParamsRequestSize == <<>>
QueryParamsRequestUnmarshal == <<>>

QueryParamsResponseMarshal == <<Part(10, "Params", "Params")>>
QueryParamsResponseSize == <<Part(1, "Params", "Params")>>
QueryParamsResponseUnmarshal == <<Part(<<1, 2>>, "Params", "Params")>>

Names ==
    {"Params", "GenesisState", "MsgSwap", "MsgSwapResponse", "MsgSwapSend",
     "MsgSwapSendResponse", "QuerySwapRequest", "QuerySwapResponse",
     "QueryTerraPoolDeltaRequest", "QueryTerraPoolDeltaResponse", "QueryParamsRequest",
     "QueryParamsResponse"}

Messages(name) ==
    CASE name = "Params" -> Codec(ParamsMarshal, ParamsSize, ParamsUnmarshal)
      [] name = "GenesisState" ->
            Codec(GenesisStateMarshal, GenesisStateSize,
                  GenesisStateUnmarshal)
      [] name = "MsgSwap" -> Codec(MsgSwapMarshal, MsgSwapSize, MsgSwapUnmarshal)
      [] name = "MsgSwapResponse" ->
            Codec(MsgSwapResponseMarshal, MsgSwapResponseSize,
                  MsgSwapResponseUnmarshal)
      [] name = "MsgSwapSend" -> Codec(MsgSwapSendMarshal, MsgSwapSendSize, MsgSwapSendUnmarshal)
      [] name = "MsgSwapSendResponse" ->
            Codec(MsgSwapSendResponseMarshal, MsgSwapSendResponseSize,
                  MsgSwapSendResponseUnmarshal)
      [] name = "QuerySwapRequest" ->
            Codec(QuerySwapRequestMarshal, QuerySwapRequestSize,
                  QuerySwapRequestUnmarshal)
      [] name = "QuerySwapResponse" ->
            Codec(QuerySwapResponseMarshal, QuerySwapResponseSize,
                  QuerySwapResponseUnmarshal)
      [] name = "QueryTerraPoolDeltaRequest" ->
            Codec(QueryTerraPoolDeltaRequestMarshal, QueryTerraPoolDeltaRequestSize,
                  QueryTerraPoolDeltaRequestUnmarshal)
      [] name = "QueryTerraPoolDeltaResponse" ->
            Codec(QueryTerraPoolDeltaResponseMarshal, QueryTerraPoolDeltaResponseSize,
                  QueryTerraPoolDeltaResponseUnmarshal)
      [] name = "QueryParamsRequest" ->
            Codec(QueryParamsRequestMarshal, QueryParamsRequestSize,
                  QueryParamsRequestUnmarshal)
      [] name = "QueryParamsResponse" ->
            Codec(QueryParamsResponseMarshal, QueryParamsResponseSize,
                  QueryParamsResponseUnmarshal)
===============================================================================
