---------------------------- MODULE MCWasmDispatch ----------------------------
(***************************************************************************)
(* Two compiled codes and one that waits for its migration; one contract,    *)
(* whose address a later instance of the first code would get as well.       *)
(***************************************************************************)
EXTENDS WasmDispatch, TLC

CONSTANT u1

Code(compiled) == [creator |-> u1, compiled |-> compiled]

MCCodes == <<Code(TRUE), Code(TRUE), Code(FALSE)>>

MCContracts == 5 :> [code |-> 2, id |-> 1, admin |-> u1]

Execute     == [kind |-> "execute",     coins |-> FALSE, contract |-> 5]
Instantiate == [kind |-> "instantiate", coins |-> TRUE,  code |-> 1, admin |-> None]
Clear       == [kind |-> "clearAdmin",  coins |-> FALSE, contract |-> 5, admin |-> None]

MCMessages ==
    {Execute, Clear,
     [kind |-> "instantiate", coins |-> FALSE, code |-> 2, admin |-> u1],
     [kind |-> "migrate",     coins |-> FALSE, code |-> 1, contract |-> 5],
     [kind |-> "storeCode",   coins |-> FALSE],
     [kind |-> "migrateCode", coins |-> FALSE, code |-> 3],
     [kind |-> "updateAdmin", coins |-> FALSE, contract |-> 5, admin |-> 5]}

MCSubMessages == {Execute, Instantiate, Clear, [kind |-> "other", coins |-> TRUE]}
===============================================================================
