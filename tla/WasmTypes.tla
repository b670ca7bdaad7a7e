------------------------------- MODULE WasmTypes ------------------------------
(***************************************************************************)
(* The codecs of the messages of x/wasm: what Marshal writes, from the       *)
(* end, what Size counts and what Unmarshal looks for.                       *)
(***************************************************************************)
EXTENDS Fields

(* wasm.pb.go *)

ParamsMarshal ==
    <<Number(24, "MaxContractMsgSize"), Number(16, "MaxContractGas"),
      Number(8, "MaxContractSize")>>
ParamsSize ==
    <<Number(1, "MaxContractSize"), Number(1, "MaxContractGas"),
      Number(1, "MaxContractMsgSize")>>
ParamsUnmarshal ==
    <<Number(<<1, 0>>, "MaxContractSize"), Number(<<2, 0>>, "MaxContractGas"),
      Number(<<3, 0>>, "MaxContractMsgSize")>>

CodeInfoMarshal == <<Text(26, "Creator"), Text(18, "CodeHash"), Number(8, "CodeID")>>
CodeInfoSize == <<Number(1, "CodeID"), Text(1, "CodeHash"), Text(1, "Creator")>>
CodeInfoUnmarshal ==
    <<Number(<<1, 0>>, "CodeID"), Text(<<2, 2>>, "CodeHash"), Text(<<3, 2>>, "Creator")>>

ContractInfoMarshal ==
    <<Text(42, "InitMsg"), Number(32, "CodeID"), Text(26, "Admin"), Text(18, "Creator"),
      Text(10, "Address")>>
ContractInfoSize ==
    <<Text(1, "Address"), Text(1, "Creator"), Text(1, "Admin"), Number(1, "CodeID"),
      Text(1, "InitMsg")>>
ContractInfoUnmarshal ==
    <<Text(<<1, 2>>, "Address"), Text(<<2, 2>>, "Creator"), Text(<<3, 2>>, "Admin"),
      Number(<<4, 0>>, "CodeID"), Text(<<5, 2>>, "InitMsg")>>

(* genesis.pb.go *)

GenesisStateMarshal ==
    <<Parts(42, "Contracts", "Contract"), Parts(34, "Codes", "Code"),
      Number(24, "LastInstanceID"), Number(16, "LastCodeID"), Part(10, "Params", "Params")>>
GenesisStateSize ==
    <<Part(1, "Params", "Params"), Number(1, "LastCodeID"), Number(1, "LastInstanceID"),
      Parts(1, "Codes", "Code"), Parts(1, "Contracts", "Contract")>>
GenesisStateUnmarshal ==
    <<Part(<<1, 2>>, "Params", "Params"), Number(<<2, 0>>, "LastCodeID"),
      Number(<<3, 0>>, "LastInstanceID"), Parts(<<4, 2>>, "Codes", "Code"),
      Parts(<<5, 2>>, "Contracts", "Contract")>>

ModelMarshal == <<Text(18, "Value"), Text(10, "Key")>>
ModelSize == <<Text(1, "Key"), Text(1, "Value")>>
ModelUnmarshal == <<Text(<<1, 2>>, "Key"), Text(<<2, 2>>, "Value")>>

CodeMarshal == <<Text(18, "CodeBytes"), Part(10, "CodeInfo", "CodeInfo")>>
CodeSize == <<Part(1, "CodeInfo", "CodeInfo"), Text(1, "CodeBytes")>>
CodeUnmarshal == <<Part(<<1, 2>>, "CodeInfo", "CodeInfo"), Text(<<2, 2>>, "CodeBytes")>>

ContractMarshal ==
    <<Parts(18, "ContractStore", "Model"), Part(10, "ContractInfo", "ContractInfo")>>
ContractSize == <<Part(1, "ContractInfo", "ContractInfo"), Parts(1, "ContractStore", "Model")>>
ContractUnmarshal ==
    <<Part(<<1, 2>>, "ContractInfo", "ContractInfo"),
      Parts(<<2, 2>>, "ContractStore", "Model")>>

(* tx.pb.go *)

MsgStoreCodeMarshal == <<Text(18, "WASMByteCode"), Text(10, "Sender")>>
MsgStoreCodeSize == <<Text(1, "Sender"), Text(1, "WASMByteCode")>>
MsgStoreCodeUnmarshal == <<Text(<<1, 2>>, "Sender"), Text(<<2, 2>>, "WASMByteCode")>>

MsgStoreCodeResponseMarshal == <<Number(8, "CodeID")>>
MsgStoreCodeResponseSize == <<Number(1, "CodeID")>>
MsgStoreCodeResponseUnmarshal == <<Number(<<1, 0>>, "CodeID")>>

MsgMigrateCodeMarshal == <<Text(26, "WASMByteCode"), Text(18, "Sender"), Number(8, "CodeID")>>
MsgMigrateCodeSize == <<Number(1, "CodeID"), Text(1, "Sender"), Text(1, "WASMByteCode")>>
MsgMigrateCodeUnmarshal ==
    <<Number(<<1, 0>>, "CodeID"), Text(<<2, 2>>, "Sender"), Text(<<3, 2>>, "WASMByteCode")>>

MsgMigrateCodeResponseMarshal == <<>>
MsgMigrateCodeResponseSize == <<>>
MsgMigrateCodeResponseUnmarshal == <<>>

MsgInstantiateContractMarshal ==
    <<Parts(42, "InitCoins", "Coin"), Text(34, "InitMsg"), Number(24, "CodeID"),
      Text(18, "Admin"), Text(10, "Sender")>>
MsgInstantiateContractSize ==
    <<Text(1, "Sender"), Text(1, "Admin"), Number(1, "CodeID"), Text(1, "InitMsg"),
      Parts(1, "InitCoins", "Coin")>>
MsgInstantiateContractUnmarshal ==
    <<Text(<<1, 2>>, "Sender"), Text(<<2, 2>>, "Admin"), Number(<<3, 0>>, "CodeID"),
      Text(<<4, 2>>, "InitMsg"), Parts(<<5, 2>>, "InitCoins", "Coin")>>

MsgInstantiateContractResponseMarshal == <<Text(18, "Data"), Text(10, "ContractAddress")>>
MsgInstantiateContractResponseSize == <<Text(1, "ContractAddress"), Text(1, "Data")>>
MsgInstantiateContractResponseUnmarshal ==
    <<Text(<<1, 2>>, "ContractAddress"), Text(<<2, 2>>, "Data")>>

MsgExecuteContractMarshal ==
    <<Parts(42, "Coins", "Coin"), Text(26, "ExecuteMsg"), Text(18, "Contract"),
      Text(10, "Sender")>>
MsgExecuteContractSize ==
    <<Text(1, "Sender"), Text(1, "Contract"), Text(1, "ExecuteMsg"), Parts(1, "Coins", "Coin")>>
MsgExecuteContractUnmarshal ==
    <<Text(<<1, 2>>, "Sender"), Text(<<2, 2>>, "Contract"), Text(<<3, 2>>, "ExecuteMsg"),
      Parts(<<5, 2>>, "Coins", "Coin")>>

MsgExecuteContractResponseMarshal == <<Text(10, "Data")>>
MsgExecuteContractResponseSize == <<Text(1, "Data")>>
MsgExecuteContractResponseUnmarshal == <<Text(<<1, 2>>, "Data")>>

MsgMigrateContractMarshal ==
    <<Text(34, "MigrateMsg"), Number(24, "NewCodeID"), Text(18, "Contract"), Text(10, "Admin")>>
MsgMigrateContractSize ==
    <<Text(1, "Admin"), Text(1, "Contract"), Number(1, "NewCodeID"), Text(1, "MigrateMsg")>>
MsgMigrateContractUnmarshal ==
    <<Text(<<1, 2>>, "Admin"), Text(<<2, 2>>, "Contract"), Number(<<3, 0>>, "NewCodeID"),
      Text(<<4, 2>>, "MigrateMsg")>>

MsgMigrateContractResponseMarshal == <<Text(10, "Data")>>
MsgMigrateContractResponseSize == <<Text(1, "Data")>>
MsgMigrateContractResponseUnmarshal == <<Text(<<1, 2>>, "Data")>>

MsgUpdateContractAdminMarshal ==
    <<Text(26, "Contract"), Text(18, "NewAdmin"), Text(10, "Admin")>>
MsgUpdateContractAdminSize == <<Text(1, "Admin"), Text(1, "NewAdmin"), Text(1, "Contract")>>
MsgUpdateContractAdminUnmarshal ==
    <<Text(<<1, 2>>, "Admin"), Text(<<2, 2>>, "NewAdmin"), Text(<<3, 2>>, "Contract")>>

MsgUpdateContractAdminResponseMarshal == <<>>
MsgUpdateContractAdminResponseSize == <<>>
MsgUpdateContractAdminResponseUnmarshal == <<>>

MsgClearContractAdminMarshal == <<Text(18, "Contract"), Text(10, "Admin")>>
MsgClearContractAdminSize == <<Text(1, "Admin"), Text(1, "Contract")>>
MsgClearContractAdminUnmarshal == <<Text(<<1, 2>>, "Admin"), Text(<<2, 2>>, "Contract")>>

MsgClearContractAdminResponseMarshal == <<>>
MsgClearContractAdminResponseSize == <<>>
MsgClearContractAdminResponseUnmarshal == <<>>

(* query.pb.go *)

QueryCodeInfoRequestMarshal == <<Number(8, "CodeId")>>
QueryCodeInfoRequestSize == <<Number(1, "CodeId")>>
QueryCodeInfoRequestUnmarshal == <<Number(<<1, 0>>, "CodeId")>>

QueryCodeInfoResponseMarshal == <<Part(10, "CodeInfo", "CodeInfo")>>
QueryCodeInfoResponseSize == <<Part(1, "CodeInfo", "CodeInfo")>>
QueryCodeInfoResponseUnmarshal == <<Part(<<1, 2>>, "CodeInfo", "CodeInfo")>>

QueryByteCodeRequestMarshal == <<Number(8, "CodeId")>>
QueryByteCodeRequestSize == <<Number(1, "CodeId")>>
QueryByteCodeRequestUnmarshal == <<Number(<<1, 0>>, "CodeId")>>

QueryByteCodeResponseMarshal == <<Text(10, "ByteCode")>>
QueryByteCodeResponseSize == <<Text(1, "ByteCode")>>
QueryByteCodeResponseUnmarshal == <<Text(<<1, 2>>, "ByteCode")>>

QueryContractInfoRequestMarshal == <<Text(10, "ContractAddress")>>
QueryContractInfoRequestSize == <<Text(1, "ContractAddress")>>
QueryContractInfoRequestUnmarshal == <<Text(<<1, 2>>, "ContractAddress")>>

QueryContractInfoResponseMarshal == <<Part(10, "ContractInfo", "ContractInfo")>>
QueryContractInfoResponseSize == <<Part(1, "ContractInfo", "ContractInfo")>>
QueryContractInfoResponseUnmarshal == <<Part(<<1, 2>>, "ContractInfo", "ContractInfo")>>

QueryContractStoreRequestMarshal == <<Text(18, "QueryMsg"), Text(10, "ContractAddress")>>
QueryContractStoreRequestSize == <<Text(1, "ContractAddress"), Text(1, "QueryMsg")>>
QueryContractStoreRequestUnmarshal ==
    <<Text(<<1, 2>>, "ContractAddress"), Text(<<2, 2>>, "QueryMsg")>>

QueryContractStoreResponseMarshal == <<Text(10, "QueryResult")>>
QueryContractStoreResponseSize == <<Text(1, "QueryResult")>>
QueryContractStoreResponseUnmarshal == <<Text(<<1, 2>>, "QueryResult")>>

QueryRawStoreRequestMarshal == <<Text(18, "Key"), Text(10, "ContractAddress")>>
QueryRawStoreRequestSize == <<Text(1, "ContractAddress"), Text(1, "Key")>>
QueryRawStoreRequestUnmarshal == <<Text(<<1, 2>>, "ContractAddress"), Text(<<2, 2>>, "Key")>>

QueryRawStoreResponseMarshal == <<Text(10, "Data")>>
QueryRawStoreResponseSize == <<Text(1, "Data")>>
QueryRawStoreResponseUnmarshal == <<Text(<<1, 2>>, "Data")>>

QueryParamsRequestMarshal == <<>>
QueryParamsRequestSize == <<>>
QueryParamsRequestUnmarshal == <<>>

QueryParamsResponseMarshal == <<Part(10, "Params", "Params")>>
QueryParamsResponseSize == <<Part(1, "Params", "Params")>>
QueryParamsResponseUnmarshal == <<Part(<<1, 2>>, "Params", "Params")>>

Names ==
    {"Params", "CodeInfo", "ContractInfo", "GenesisState", "Model", "Code", "Contract",
     "MsgStoreCode", "MsgStoreCodeResponse", "MsgMigrateCode", "MsgMigrateCodeResponse",
     "MsgInstantiateContract", "MsgInstantiateContractResponse", "MsgExecuteContract",
     "MsgExecuteContractResponse", "MsgMigrateContract", "MsgMigrateContractResponse",
     "MsgUpdateContractAdmin", "MsgUpdateContractAdminResponse", "MsgClearContractAdmin",
     "MsgClearContractAdminResponse", "QueryCodeInfoRequest", "QueryCodeInfoResponse",
     "QueryByteCodeRequest", "QueryByteCodeResponse", "QueryContractInfoRequest",
     "QueryContractInfoResponse", "QueryContractStoreRequest", "QueryContractStoreResponse",
     "QueryRawStoreRequest", "QueryRawStoreResponse", "QueryParamsRequest",
     "QueryParamsResponse"}

Messages(name) ==
    CASE name = "Params" -> Codec(ParamsMarshal, ParamsSize, ParamsUnmarshal)
      [] name = "CodeInfo" -> Codec(CodeInfoMarshal, CodeInfoSize, CodeInfoUnmarshal)
      [] name = "ContractInfo" ->
            Codec(ContractInfoMarshal, ContractInfoSize,
                  ContractInfoUnmarshal)
      [] name = "GenesisState" ->
            Codec(GenesisStateMarshal, GenesisStateSize,
                  GenesisStateUnmarshal)
      [] name = "Model" -> Codec(ModelMarshal, ModelSize, ModelUnmarshal)
      [] name = "Code" -> Codec(CodeMarshal, CodeSize, CodeUnmarshal)
      [] name = "Contract" -> Codec(ContractMarshal, ContractSize, ContractUnmarshal)
      [] name = "MsgStoreCode" ->
            Codec(MsgStoreCodeMarshal, MsgStoreCodeSize,
                  MsgStoreCodeUnmarshal)
      [] name = "MsgStoreCodeResponse" ->
            Codec(MsgStoreCodeResponseMarshal, MsgStoreCodeResponseSize,
                  MsgStoreCodeResponseUnmarshal)
      [] name = "MsgMigrateCode" ->
            Codec(MsgMigrateCodeMarshal, MsgMigrateCodeSize,
                  MsgMigrateCodeUnmarshal)
      [] name = "MsgMigrateCodeResponse" ->
            Codec(MsgMigrateCodeResponseMarshal, MsgMigrateCodeResponseSize,
                  MsgMigrateCodeResponseUnmarshal)
      [] name = "MsgInstantiateContract" ->
            Codec(MsgInstantiateContractMarshal, MsgInstantiateContractSize,
                  MsgInstantiateContractUnmarshal)
      [] name = "MsgInstantiateContractResponse" ->
            Codec(MsgInstantiateContractResponseMarshal, MsgInstantiateContractResponseSize,
                  MsgInstantiateContractResponseUnmarshal)
      [] name = "MsgExecuteContract" ->
            Codec(MsgExecuteContractMarshal, MsgExecuteContractSize,
                  MsgExecuteContractUnmarshal)
      [] name = "MsgExecuteContractResponse" ->
            Codec(MsgExecuteContractResponseMarshal, MsgExecuteContractResponseSize,
                  MsgExecuteContractResponseUnmarshal)
      [] name = "MsgMigrateContract" ->
            Codec(MsgMigrateContractMarshal, MsgMigrateContractSize,
                  MsgMigrateContractUnmarshal)
      [] name = "MsgMigrateContractResponse" ->
            Codec(MsgMigrateContractResponseMarshal, MsgMigrateContractResponseSize,
                  MsgMigrateContractResponseUnmarshal)
      [] name = "MsgUpdateContractAdmin" ->
            Codec(MsgUpdateContractAdminMarshal, MsgUpdateContractAdminSize,
                  MsgUpdateContractAdminUnmarshal)
      [] name = "MsgUpdateContractAdminResponse" ->
            Codec(MsgUpdateContractAdminResponseMarshal, MsgUpdateContractAdminResponseSize,
                  MsgUpdateContractAdminResponseUnmarshal)
      [] name = "MsgClearContractAdmin" ->
            Codec(MsgClearContractAdminMarshal, MsgClearContractAdminSize,
                  MsgClearContractAdminUnmarshal)
      [] name = "MsgClearContractAdminResponse" ->
            Codec(MsgClearContractAdminResponseMarshal, MsgClearContractAdminResponseSize,
                  MsgClearContractAdminResponseUnmarshal)
      [] name = "QueryCodeInfoRequest" ->
            Codec(QueryCodeInfoRequestMarshal, QueryCodeInfoRequestSize,
                  QueryCodeInfoRequestUnmarshal)
      [] name = "QueryCodeInfoResponse" ->
            Codec(QueryCodeInfoResponseMarshal, QueryCodeInfoResponseSize,
                  QueryCodeInfoResponseUnmarshal)
      [] name = "QueryByteCodeRequest" ->
            Codec(QueryByteCodeRequestMarshal, QueryByteCodeRequestSize,
                  QueryByteCodeRequestUnmarshal)
      [] name = "QueryByteCodeResponse" ->
            Codec(QueryByteCodeResponseMarshal, QueryByteCodeResponseSize,
                  QueryByteCodeResponseUnmarshal)
      [] name = "QueryContractInfoRequest" ->
            Codec(QueryContractInfoRequestMarshal, QueryContractInfoRequestSize,
                  QueryContractInfoRequestUnmarshal)
      [] name = "QueryContractInfoResponse" ->
            Codec(QueryContractInfoResponseMarshal, QueryContractInfoResponseSize,
                  QueryContractInfoResponseUnmarshal)
      [] name = "QueryContractStoreRequest" ->
            Codec(QueryContractStoreRequestMarshal, QueryContractStoreRequestSize,
                  QueryContractStoreRequestUnmarshal)
      [] name = "QueryContractStoreResponse" ->
            Codec(QueryContractStoreResponseMarshal, QueryContractStoreResponseSize,
                  QueryContractStoreResponseUnmarshal)
      [] name = "QueryRawStoreRequest" ->
            Codec(QueryRawStoreRequestMarshal, QueryRawStoreRequestSize,
                  QueryRawStoreRequestUnmarshal)
      [] name = "QueryRawStoreResponse" ->
            Codec(QueryRawStoreResponseMarshal, QueryRawStoreResponseSize,
                  QueryRawStoreResponseUnmarshal)
      [] name = "QueryParamsRequest" ->
            Codec(QueryParamsRequestMarshal, QueryParamsRequestSize,
                  QueryParamsRequestUnmarshal)
      [] name = "QueryParamsResponse" ->
            Codec(QueryParamsResponseMarshal, QueryParamsResponseSize,
                  QueryParamsResponseUnmarshal)
===============================================================================
