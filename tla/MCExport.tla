-------------------------------- MODULE MCExport -------------------------------
(* Chains for TLC: two users, each with a position in almost every protocol.   *)
EXTENDS Export

(* Accounts with a key of their own *)
People == {"u1", "u2", "admin", "Deployer", "AddressRefundTo", "AddressMarketTo"}

MCAccounts ==
    People \cup
    {"bridge", "farm", "strategy", "pairA", "pairT", "pairL", "pairP", "pairC", "pairM", "pairK",
     "pairV", "pairF", "pairG", "pairX", "pairY", "tsStaking", "loopFarm", "astroStaking", "flokiStaking",
     "tfmFarm", "safe", "vestor", "treasury", "stranger",
     BondedPool, NotBondedPool, LidoHub, Custody, Generator, PrismVault, PrismLimitOrder,
     SteakHub, LunaXState, BLunaVault, AutoCompounder, nLunaFarm,
     "marsMarket", "marsLockDrop", "marsSafetyFund", "marsField", "marsAuction", "astroLockdrop",
     "whiteWhaleVault", "whitewhaleTreasury", "KujiraAUstVault", "MirrorMint", "MirrorStaking",
     "MirrorLimitOrder", "aperture", "InkAUstVault", "party", "inkVault", "EdgeProtocolPool",
     "IDO", "Settlement", "Arbitrage", "DANO", "AliceaaUSTWrapper", "KineticVault",
     "KineticPhaser", "kineticLockdrop", "glow", "pylon", "CommunityFund", "AddressRefund",
     "AddressMarket", "wallet1", "wallet2", "oneplanet", "sale", "staderPools", "stakePlus",
     "staderVaults"}

Zero == [a \in MCAccounts |-> 0]
H(f) == f @@ Zero
Both(m, n) == H("u1" :> m @@ "u2" :> n)

Pair(addr, dex, lp, assets, staking) ==
    [addr |-> addr, dex |-> dex, lp |-> lp, assets |-> assets, staking |-> staking]

Locker(protocol, vault, lp, deposit, shares) ==
    [protocol |-> protocol, vault |-> vault, lp |-> lp, deposit |-> deposit, shares |-> shares,
     units |-> SumOf(shares), withdrawn |-> {}, listed |-> TRUE]

Held(odd) ==
    [LUNA |-> H("u1" :> 7 @@ "u2" :> 5 @@ "bridge" :> 9 @@ "pairA" :> 50 @@ "pairL" :> 40
                @@ "pairM" :> 20 @@ "safe" :> 10 @@ "vestor" :> 6 @@ "treasury" :> 8
                @@ "stranger" :> 30 @@ PrismLimitOrder :> 5 @@ PrismVault :> 4
                @@ BondedPool :> 302 @@ NotBondedPool :> 12 @@ LidoHub :> 3
                @@ "marsMarket" :> 30 @@ "MirrorMint" :> 10 @@ "Settlement" :> 10
                @@ "oneplanet" :> 10 @@ "pairY" :> 10),
     UST |-> H("u1" :> 3 @@ "pairL" :> 20 @@ "pairM" :> 40 @@ "pairK" :> 20 @@ "pairF" :> 20
               @@ "pairG" :> 10 @@ "pairX" :> 40 @@ "pairY" :> 20 @@ "safe" :> 4 @@ "marsMarket" :> 40
               @@ "marsSafetyFund" :> 10 @@ "whiteWhaleVault" :> 20 @@ "MirrorMint" :> 10
               @@ "MirrorLimitOrder" :> 12 @@ "IDO" :> 10 @@ "CommunityFund" :> 9
               @@ "AddressRefund" :> 8 @@ "AddressMarket" :> 14 @@ "oneplanet" :> 20),
     AUST |-> H("u2" :> 6 @@ "safe" :> 8 @@ "wallet1" :> 10 @@ "wallet2" :> 12
                @@ "whiteWhaleVault" :> 20 @@ "KujiraAUstVault" :> 10 @@ "MirrorMint" :> 30
                @@ "InkAUstVault" :> 20 @@ "inkVault" :> 10 @@ "EdgeProtocolPool" :> 30
                @@ "IDO" :> 10 @@ "Arbitrage" :> 20 @@ "DANO" :> 16 @@ "AliceaaUSTWrapper" :> 10
                @@ "KineticVault" :> 16 @@ "KineticPhaser" :> 12 @@ "pylon" :> 8 @@ "glow" :> 15
                @@ "AddressRefund" :> 10),
     BLUNA |-> H("u1" :> 10 @@ "pairA" :> 30 @@ Custody :> 62 @@ "EdgeProtocolPool" :> 10),
     STLUNA |-> H("u2" :> 5),
     NLUNA |-> H("u1" :> 2 @@ "pairT" :> 30 @@ AutoCompounder :> 8 @@ nLunaFarm :> 10),
     CNLUNA |-> IF odd THEN Both(10, 0) ELSE Both(0, 8),
     PLUNA |-> H("u1" :> 3 @@ "pairP" :> 10),
     CLUNA |-> H("u2" :> 3 @@ "pairC" :> 10),
     STEAK |-> H("u1" :> 5 @@ "pairT" :> 20),
     LUNAX |-> H("u2" :> 5 @@ "MirrorMint" :> 10 @@ "staderVaults" :> 10),
     PRISM |-> H("pairP" :> 1 @@ "pairC" :> 1),
     MINE |-> H("pairK" :> 10 @@ "pairF" :> 10 @@ "pairG" :> 10 @@ "pairX" :> 10),
     MALUNA |-> Both(10, 20),
     MAUST |-> H("u1" :> 10 @@ "u2" :> 10 @@ "marsLockDrop" :> 20),
     VUST |-> H("u1" :> 4 @@ "pairV" :> 10 @@ "whitewhaleTreasury" :> 6),
     VSWAP |-> Both(5, 5),
     AAUST |-> Both(4, 6),
     OPUST |-> H("u1" :> 10 @@ "sale" :> 10),
     OPLUNA |-> H("u2" :> 10),
     EAUST |-> Both(10, 10),
     EBLUNA |-> H("u1" :> 10),
     lpA |-> H("u1" :> 5 @@ Generator :> 10 @@ "strategy" :> 5),
     lpT |-> H("u1" :> 5 @@ "farm" :> 5 @@ (IF odd THEN Generator ELSE "tsStaking") :> 10),
     lpL |-> H("u1" :> 2 @@ "loopFarm" :> 6),
     lpP |-> H("u2" :> 5),
     lpC |-> Both(2, 3),
     lpM |-> H(Generator :> 40),
     lpK |-> H("kineticLockdrop" :> 10 @@ "MirrorStaking" :> 10),
     lpV |-> H("u2" :> 5),
     lpF |-> H("u1" :> 5 @@ "flokiStaking" :> 5),
     lpG |-> H("u2" :> 10),
     lpX |-> H("u1" :> 10 @@ "tfmFarm" :> 10),
     lpY |-> H("u1" :> 5 @@ "tfmFarm" :> 5)]

(* Whoever holds a token has a balance of it; so have some who had it once. *)
Stored(odd) ==
    [token \in DOMAIN Held(odd) |->
        {a \in MCAccounts : Held(odd)[token][a] > 0}
        \cup (CASE token = "lpL" /\ ~odd -> {"u2"}
                [] token = "lpM" /\ odd -> {"astroStaking"}
                [] OTHER -> {})]

pairX == Pair("pairX", "tfm", "lpX", <<"MINE", "UST">>, None)
pairY == Pair("pairY", "tfm", "lpY", <<"LUNA", "UST">>, None)

(* What the protocols of ExportVaults know of their users *)
Vaults(kind) ==
    [admin |-> [c \in {"marsSafetyFund", "whiteWhaleVault", "EdgeProtocolPool"} |-> "admin"],
     lockers |->
       {Locker("mars-auction", "marsAuction", "lpM", 10, Both(4, 4)),
        [Locker("astro-lockdrop", "astroLockdrop", "lpM", 20, Both(8, 8)) EXCEPT !.withdrawn = {"u1"}],
        Locker("kinetic-lockdrop-lps", "kineticLockdrop", "lpK", 10, Both(3, 3)),
        Locker("mirror", "MirrorStaking", "lpK", 10, Both(6, 4)),
        [Locker("mirror", "MirrorStaking", "lpDelisted", 5, Both(5, 0)) EXCEPT !.listed = FALSE]}
       \cup (IF kind = "pre" THEN {Locker("mars-field", "marsField", "lpM", 10, Both(20, 20))} ELSE {}),
     maUstLocked |-> Both(5, 5),
     markets |-> <<[underlying |-> "AUST", etoken |-> "EAUST", total |-> 30, insurance |-> 10],
                   [underlying |-> "MINE", etoken |-> "EAUST", total |-> 5, insurance |-> 5],
                   [underlying |-> "BLUNA", etoken |-> "EBLUNA", total |-> 10, insurance |-> 0]>>,
     cdps |-> <<[owner |-> "u1", denom |-> "AUST", amount |-> 15],
                [owner |-> "aperture", denom |-> "AUST", amount |-> 15],
                [owner |-> "u2", denom |-> "LUNAX", amount |-> 10],
                [owner |-> "u1", denom |-> "LUNA", amount |-> 10],
                [owner |-> "u2", denom |-> "UST", amount |-> 10],
                [owner |-> "u2", denom |-> "MINE", amount |-> 9]>>,
     mirrorOrders |-> <<[bidder |-> "u1", denom |-> "UST", amount |-> 20, filled |-> 8],
                        [bidder |-> "u2", denom |-> "MINE", amount |-> 9, filled |-> 0]>>,
     positions |-> <<[holder |-> "u2", contract |-> "aperture", aust |-> 15, ust |-> 20, open |-> TRUE],
                     [holder |-> "u1", contract |-> "aperture", aust |-> 9, ust |-> 9, open |-> FALSE]>>,
     subwallets |-> <<[wallet |-> "wallet1", owner |-> "u1"], [wallet |-> "wallet2", owner |-> "u2"]>>,
     vUstPairs |-> <<Pair("pairV", "other", "lpV", <<"VUST", "MINE">>, None)>>,
     bids |-> Both(4, 6),
     ink |-> [players |-> H("u1" :> 10 @@ "party" :> 10 @@ "inkVault" :> 5),
              parties |-> <<[addr |-> "party", deposits |-> Both(0, 10)]>>,
              vaults |-> <<[addr |-> "inkVault", owner |-> "u2", anchor |-> 6, core |-> 4]>>],
     pylonPools |-> <<Both(10, 0)>>,
     endowments |-> <<[owner |-> "u1", liquid |-> 4, locked |-> 6],
                      [owner |-> "u2", liquid |-> 6, locked |-> 0]>>,
     funders |-> Both(5, 5),
     kineticDeposits |-> Both(20, 0),
     kineticLocked |-> Both(5, 5),
     lotteryDeposits |-> Both(0, 10),
     lotterySavings |-> Both(5, 2),
     pools |-> [staked |-> Both(10, 0), undelegating |-> Both(0, 6), rewards |-> Both(2, 2)],
     stakePlus |-> <<[fund |-> FALSE, staked |-> Both(8, 0), undelegating |-> Both(0, 4)],
                     [fund |-> TRUE, staked |-> Both(9, 0), undelegating |-> Zero]>>,
     claims |-> Both(10, 10),
     hasClaimed |-> {"u2"},
     settled |-> Both(4, 6),
     initOwner |-> [sale |-> None, oneplanet |-> "u1"],
     recipient |-> [sale |-> "u2"],
     flokiPairs |-> <<Pair("pairF", "other", "lpF", <<"UST", "MINE">>, "flokiStaking"),
                      Pair("pairG", "other", "lpG", <<"UST", "MINE">>, None)>>,
     tfmPairs |-> <<pairX, pairY>>,
     tfmFarms |-> <<[pair |-> pairX, bonded |-> Both(0, 10)],
                    [pair |-> pairY, bonded |-> Both(0, 5)]>>]

(* On an odd chain nLUNA trades on Astroport, a cnLUNA is worth less than an    *)
(* nLUNA, and accounts that the exporters of Loop and Prism do not ask have     *)
(* something there.  off is what the staking contract of Terraswap has too few *)
(* records for, keys the registered accounts that are no contracts.           *)
Chain(kind, odd, off, keys) ==
    [kind |-> kind,
     held |-> Held(odd),
     stored |-> Stored(odd),
     delegated |-> H("u1" :> 20 @@ "u2" :> 10 @@ LidoHub :> 140 @@ SteakHub :> 29
                     @@ LunaXState :> 45 @@ PrismVault :> 26 @@ "staderPools" :> 20
                     @@ "stakePlus" :> 12),
     undelegating |-> H("u2" :> 12),
     pairs |-> {Pair("pairA", "astroport", "lpA", <<"LUNA", "BLUNA">>, Generator),
                Pair("pairM", "astroport", "lpM", <<"LUNA", "UST">>, Generator),
                IF odd THEN Pair("pairT", "astroport", "lpT", <<"NLUNA", "STEAK">>, Generator)
                ELSE Pair("pairT", "terraswap", "lpT", <<"NLUNA", "STEAK">>, "tsStaking"),
                Pair("pairK", "terraswap", "lpK", <<"UST", "MINE">>, None),
                Pair("pairL", "loop", "lpL", <<"UST", "LUNA">>, "loopFarm")},
     prismPairs |-> [PLUNA |-> Pair("pairP", "prism", "lpP", <<"PLUNA", "PRISM">>, None),
                     CLUNA |-> Pair("pairC", "prism", "lpC", <<"CLUNA", "PRISM">>, None)],
     staked |-> [lpA |-> H("u2" :> 4 @@ "farm" :> 6),
                 lpT |-> IF odd THEN Both(10, 0) ELSE Both(0, 10 - off),
                 lpL |-> H("u2" :> 6), lpF |-> Both(0, 5),
                 lpM |-> H("marsAuction" :> 10 @@ "astroLockdrop" :> 20
                           @@ (IF kind = "pre" THEN "marsField" ELSE "u1") :> 10)]
                @@ [lp \in {"lpP", "lpC", "lpK", "lpV", "lpG", "lpX", "lpY"} |-> Zero],
     stakingContracts |-> {"astroStaking"},
     farms |-> {[vault |-> "farm", lp |-> "lpA", holders |-> Both(2, 4)],
                [vault |-> "farm", lp |-> "lpT", holders |-> Both(5, 0)],
                [vault |-> nLunaFarm, lp |-> None, holders |-> Both(5, 5)]},
     strategies |-> {[vault |-> "strategy", lp |-> "lpA", bond |-> 5, shares |-> Both(3, 7)]},
     collateral |-> H("u1" :> 12 @@ BLunaVault :> 50),
     waits |-> [BLUNA |-> Both(0, 10), STLUNA |-> Zero],
     unbonding |-> [CLUNA |-> IF odd THEN H("admin" :> 4) ELSE Both(0, 4),
                   STEAK |-> Both(2, 0), LUNAX |-> Both(0, 5)],
     orders |-> [LUNA |-> Both(5, 0), PLUNA |-> Zero, CLUNA |-> Zero, UST |-> Zero],
     rates |-> [BLUNA |-> 110, STLUNA |-> 120, CLUNA |-> 100, STEAK |-> 105, LUNAX |-> 150,
                AUST |-> 125],
     vesting |-> <<[owner |-> "u2", denom |-> "LUNA", amount |-> 6]>>,
     voters |-> [safe |-> Both(1, 1)],
     known |-> << <<"treasury", "u1">> >>,
     contracts |-> MCAccounts \ (People \cup keys \cup {BondedPool, NotBondedPool}),
     whitelist |-> {"bridge"}] @@ Vaults(kind)

(* Both kinds of snapshot; staking records that are off and that are right. *)
MCChains == {Chain("pre", FALSE, 6, {}), Chain("post", FALSE, 0, {}), Chain("post", TRUE, 0, {})}

(* The wallet in which Angel Protocol keeps the aUST of the endowments is no   *)
(* contract.                                                                  *)
WalletChains == {Chain("pre", FALSE, 0, {"DANO"})}
================================================================================
