-------------------------------- MODULE MCCodec -------------------------------
(* Every message of the repository, with no, each or all of its fields set. *)
EXTENDS Codec

MarketTypes    == INSTANCE MarketTypes
OracleTypes    == INSTANCE OracleTypes
TreasuryTypes  == INSTANCE TreasuryTypes
WasmTypes      == INSTANCE WasmTypes
VestingTypes   == INSTANCE VestingTypes
TxServiceTypes == INSTANCE TxServiceTypes

NamesOf(p) == CASE p = "market"   -> MarketTypes!Names
                [] p = "oracle"   -> OracleTypes!Names
                [] p = "treasury" -> TreasuryTypes!Names
                [] p = "wasm"     -> WasmTypes!Names
                [] p = "vesting"  -> VestingTypes!Names
                [] p = "tx"       -> TxServiceTypes!Names

AllTypes == UNION {{<<p, n>> : n \in NamesOf(p)} :
                    p \in {"market", "oracle", "treasury", "wasm", "vesting", "tx"}}

MCKnown(t) == t[2] \in NamesOf(t[1])

MCCodecOf(t) == CASE t[1] = "market"   -> MarketTypes!Messages(t[2])
                  [] t[1] = "oracle"   -> OracleTypes!Messages(t[2])
                  [] t[1] = "treasury" -> TreasuryTypes!Messages(t[2])
                  [] t[1] = "wasm"     -> WasmTypes!Messages(t[2])
                  [] t[1] = "vesting"  -> VestingTypes!Messages(t[2])
                  [] t[1] = "tx"       -> TxServiceTypes!Messages(t[2])

Entries(t) == Range(MCCodecOf(t).unmarshal)

Fields(t, kinds) == {e.field : e \in {x \in Entries(t) : x.kind \in kinds}}

(* A message with the fields of S set, and those that are always there *)
RECURSIVE Sample(_, _)
Sample(t, S) ==
    LET Inner(e, all) ==
            LET u == <<t[1], e.type>>
            IN  IF ~MCKnown(u) THEN <<65, 66>>
                ELSE Sample(u, IF all THEN Fields(u, {"text", "texts", "number", "parts"}) ELSE {})
        Value(e) == CASE e.kind = "text"    -> <<65>>
                      [] e.kind = "texts"   -> <<<<65>>, <<>>>>
                      [] e.kind = "number"  -> IF e.type = "int64" THEN -1 ELSE 300
                      [] e.kind = "part"    -> Inner(e, S # {})
                      [] e.kind = "pointer" -> <<>>
                      [] e.kind = "parts"   -> <<Inner(e, TRUE), Inner(e, FALSE)>>
        ValueOf(f) == Value(CHOOSE e \in Entries(t) : e.field = f)
    IN  [f \in S \cup Fields(t, {"part"}) |-> ValueOf(f)]

Optional(t) == Fields(t, {"text", "texts", "number", "pointer", "parts"})

(* Numbers and lengths at the boundaries of one, two and three bytes *)
Edges == {<<<<"wasm", "CodeInfo">>, [CodeID |-> n]>> : n \in {1, 127, 128, 16383, 16384, 32767}}
         \cup {<<<<"wasm", "MsgStoreCode">>, [Sender |-> [k \in 1..n |-> 65]]>> : n \in {127, 128}}

MCSamples ==
    UNION {{<<t, Sample(t, S)>> : S \in {{f} : f \in Optional(t)} \cup {{}, Optional(t)}} : t \in AllTypes}
    \cup Edges

(* One for each wire type, and one with a key of two bytes *)
MCNewFields == {<<120, 133, 2>>, <<121, 1, 2, 3, 4, 5, 6, 7, 8>>, <<122, 1, 7>>,
                <<123, 120, 5, 124>>, <<125, 1, 2, 3, 4>>, <<130, 1, 0>>}

(* No key, a group of an unknown field, its end, and a number that goes on *)
MCBadBytes == {0, 123, 124, 255}
===============================================================================
