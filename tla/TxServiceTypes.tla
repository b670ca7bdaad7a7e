---------------------------- MODULE TxServiceTypes ----------------------------
(***************************************************************************)
(* The codecs of the messages of custom/auth/tx: what Marshal writes, from the*)
(* end, what Size counts and what Unmarshal looks for.                       *)
(***************************************************************************)
EXTENDS Fields

(* service.pb.go *)

ComputeTaxRequestMarshal == <<Text(18, "TxBytes"), Pointer(10, "Tx", "Tx")>>
ComputeTaxRequestSize == <<Pointer(1, "Tx", "Tx"), Text(1, "TxBytes")>>
ComputeTaxRequestUnmarshal == <<Pointer(<<1, 2>>, "Tx", "Tx"), Text(<<2, 2>>, "TxBytes")>>

ComputeTaxResponseMarshal == <<Parts(10, "TaxAmount", "Coin")>>
ComputeTaxResponseSize == <<Parts(1, "TaxAmount", "Coin")>>
ComputeTaxResponseUnmarshal == <<Parts(<<1, 2>>, "TaxAmount", "Coin")>>

Names ==
    {"ComputeTaxRequest", "ComputeTaxResponse"}

Messages(name) ==
    CASE name = "ComputeTaxRequest" ->
            Codec(ComputeTaxRequestMarshal, ComputeTaxRequestSize,
                  ComputeTaxRequestUnmarshal)
      [] name = "ComputeTaxResponse" ->
            Codec(ComputeTaxResponseMarshal, ComputeTaxResponseSize,
                  ComputeTaxResponseUnmarshal)
===============================================================================
