---------------------------- MODULE MCMarket ----------------------------
(* Instances of Market: two accounts, SDR and one other Terra denomination. *)
EXTENDS Market

CONSTANTS alice, bob, usdr, ukrw

Purses == [a \in {alice, bob} |->
            IF a = alice THEN [d \in {usdr, ukrw, Luna} |-> IF d = Luna THEN 20 ELSE 9]
            ELSE [d \in {usdr, ukrw, Luna} |-> 0]]
Taxes == [d \in {usdr, ukrw} |-> IF d = usdr THEN 2 ELSE 10]
Cheap == [d \in {usdr, ukrw} |-> IF d = usdr THEN 100 ELSE 300]
Unpriced == [d \in {usdr, ukrw} |-> IF d = usdr THEN 250 ELSE None]
AllTables == {Cheap, Unpriced}

===========================================================================
