------------------------------ MODULE ExportVaults -----------------------------
(***************************************************************************)
(* app/export: the exporters of the protocols that keep coins for their       *)
(* users, in the form of ExportProtocols.  A protocol's contracts are named   *)
(* as in its package.  What a protocol knows of its users is a field of the   *)
(* chain: a holding map, or a list of records where an account may occur      *)
(* several times.  The pages in which the code asks for such lists, and the   *)
(* formats of their keys, are left out.                                       *)
(***************************************************************************)
EXTENDS ExportProtocols

(* x of total for every x of shares, of which there are n *)
Parts(total, shares, n) == [a \in Accounts |-> TruncQuo(shares[a] * total, n)]

Credit(s, a, d, n) == [s EXCEPT ![a] = AppendOrAddBalance(@, SnapshotBalance(d, n))]

(* A list of entries of an account, a denomination and an amount. *)
Credited(entries) == FoldLeft(LAMBDA s, e : Credit(s, e[1], e[2], e[3]), NoBalances, entries)

(* Deposits in UST, as the aUST they were exchanged for *)
AsAUst(c, holdings) ==
    [a \in Accounts |-> TruncateInt(Quo(NewDec(holdings[a]), c.rates["AUST"]))]

-------------------------------------------------------------------------------
(* More vaults that hold LP tokens: lockers have a number of shares, and what  *)
(* all of them are worth in LP tokens.                                        *)

Lockers(c, protocol) == {l \in c.lockers : l.protocol = protocol}

SharedOut(l) ==
    [vault |-> l.vault, lp |-> l.lp, holders |-> Parts(l.deposit, l.shares, l.units)]

ExportFieldOfMarsLpTokens(c) == {SharedOut(l) : l \in Lockers(c, "mars-field")}

(* auditAstroportLpBalances *)
FieldsAudited(c) ==
    \A l \in Lockers(c, "mars-field") :
        AlmostEqual(SumOf(SharedOut(l).holders), l.deposit, Epsilon)

ExportMarsAuctionLpHolders(c) ==
    {[vault |-> l.vault, lp |-> l.lp, holders |-> normalizeStakingHoldings(l.shares, l.deposit)] :
        l \in Lockers(c, "mars-auction")}

(* A position whose LP tokens have been handed over counts no more. *)
ExportAstroportLockdrop(c) ==
    {LET left == [a \in Accounts |-> IF a \in l.withdrawn THEN 0 ELSE l.shares[a]]
     IN  [vault |-> l.vault, lp |-> l.lp, holders |-> Parts(l.deposit, left, SumOf(left))] :
        l \in Lockers(c, "astro-lockdrop")}

ExportKineticLpHoldings(c) ==
    {[vault |-> l.vault, lp |-> l.lp,
      holders |-> Parts(c.held[l.lp][l.vault], l.shares, SumOf(l.shares))] :
        l \in Lockers(c, "kinetic-lockdrop-lps")}

(* Assets that have been delisted are skipped. *)
ExportMirrorLpStakers(c) ==
    {[vault |-> "MirrorStaking", lp |-> l.lp, holders |-> l.shares] :
        l \in {x \in Lockers(c, "mirror") : x.listed}}

AuditCompounders(c, vaults) ==
    \A v \in {x \in vaults : x.vault = "MirrorStaking"} :
        AlmostEqual(c.held[v.lp][v.vault], SumOf(v.holders), Epsilon)

-------------------------------------------------------------------------------
(* Lending. *)

(* ExportContract of package mars: what is left in the bank is the depositors'. *)
ExportMars(c) ==
    LET maUst == c.held["MAUST"]
        rate == QuoInt(NewDec(maUst["marsLockDrop"]), SumOf(c.maUstLocked))
        resolved == [MergeMaps(<<maUst, AtRate(rate, c.maUstLocked)>>)
                         EXCEPT !["marsLockDrop"] = 0]
        luna == Parts(c.held["LUNA"]["marsMarket"], c.held["MALUNA"], Supply(c, "MALUNA"))
        ust == Parts(c.held["UST"]["marsMarket"], resolved, Supply(c, "MAUST"))
        safety == Credited(<< <<c.admin["marsSafetyFund"], "UST",
                                c.held["UST"]["marsSafetyFund"]>> >>)
    IN  [ok |-> AlmostEqual(SumOf(resolved), Supply(c, "MAUST"), Epsilon),
         listed |-> {<<"LUNA", "marsMarket">>, <<"UST", "marsMarket">>,
                     <<"UST", "marsSafetyFund">>},
         balances |-> MergeSnapshots(<<AsSnapshot(luna, "LUNA"), AsSnapshot(ust, "UST"), safety>>)]

AuditMars(c, s) ==
    /\ AlmostEqual(c.held["UST"]["marsMarket"] + c.held["UST"]["marsSafetyFund"],
                   SumOfDenom(s, "UST"), Epsilon)
    /\ AlmostEqual(c.held["LUNA"]["marsMarket"], SumOfDenom(s, "LUNA"), Epsilon)

(* ExportContract of package edge.  The insurance is the administrator's, who  *)
(* has no other part in the market.                                           *)
EdgeProtocolTokens == {"AUST", "LUNA", "UST", "BLUNA", "STLUNA", "LUNAX", "PLUNA"}

ExportEdge(c) ==
    LET markets == SelectSeq(c.markets, LAMBDA m : m.underlying \in EdgeProtocolTokens)
        Holding(m) == [Parts(m.total - m.insurance, c.held[m.etoken], Supply(c, m.etoken))
                           EXCEPT ![c.admin["EdgeProtocolPool"]] = m.insurance]
    IN  Exported(FoldLeft(LAMBDA s, m : AddHoldings(s, Holding(m), m.underlying),
                          NoBalances, markets),
                 {markets[i].underlying : i \in DOMAIN markets} \X {"EdgeProtocolPool"})

AuditEdge(c, s) ==
    \A d \in EdgeProtocolTokens :
        AlmostEqual(SumOfDenom(s, d), c.held[d]["EdgeProtocolPool"], Epsilon)

-------------------------------------------------------------------------------
(* Mirror and what builds on it. *)

MirrorRelevantCollaterals == {"AUST", "UST", "LUNAX", "LUNA"}

ExportMirrorCdps(c) ==
    LET relevant == SelectSeq(c.cdps, LAMBDA p : p.denom \in MirrorRelevantCollaterals)
        Entry(p) == IF p.denom = "LUNAX"
                    THEN <<p.owner, "LUNA", TruncateInt(c.rates["LUNAX"] * p.amount)>>
                    ELSE <<p.owner, p.denom, p.amount>>
    IN  Exported(Credited(MapSeq(Entry, relevant)),
                 ({"UST", "LUNA", "AUST"} \X {"MirrorMint"}) \cup {<<"UST", "MirrorLock">>})

AuditCdps(c, s) ==
    LET lunaX == FoldLeft(LAMBDA n, p : IF p.denom = "LUNAX" THEN n + p.amount ELSE n, 0, c.cdps)
        Recorded(d) == CASE d = "LUNAX" -> lunaX
                         [] d = "LUNA" -> SumOfDenom(s, d) - TruncateInt(c.rates["LUNAX"] * lunaX)
                         [] OTHER -> SumOfDenom(s, d)
    IN  \A d \in MirrorRelevantCollaterals :
            AlmostEqual(c.held[d]["MirrorMint"], Recorded(d), Epsilon)

(* ExportLimitOrderContract of package mirror: only orders in UST count. *)
ExportMirrorOrders(c) ==
    Exported(Credited(MapSeq(LAMBDA o : <<o.bidder, "UST", o.amount - o.filled>>,
                             SelectSeq(c.mirrorOrders, LAMBDA o : o.denom = "UST"))),
             {<<"UST", "MirrorLimitOrder">>})

AuditMirrorOrders(c, s) ==
    AlmostEqual(c.held["UST"]["MirrorLimitOrder"], SumOfDenom(s, "UST"), Epsilon)

(* Five workers ask for the positions, in any order: the balances are sums.    *)
(* Before the attack a position is the aUST it has put up with Mirror, after   *)
(* it what it would be worth in UST.                                          *)
exportApertureVaults(c) ==
    LET d == IF c.kind = "pre" THEN "AUST" ELSE "UST"
        open == SelectSeq(c.positions, LAMBDA p : p.open)
    IN  Exported(Credited(MapSeq(LAMBDA p : <<p.holder, d, IF d = "AUST" THEN p.aust ELSE p.ust>>,
                                 open)),
                 {d} \X {open[i].contract : i \in DOMAIN open})

-------------------------------------------------------------------------------
(* Vaults of aUST and UST. *)

ExportSuberra(c) ==
    Exported(Credited(MapSeq(LAMBDA w : <<w.owner, "AUST", c.held["AUST"][w.wallet]>>,
                             SelectSeq(c.subwallets, LAMBDA w : c.held["AUST"][w.wallet] > 0))),
             {"AUST"} \X {c.subwallets[i].wallet : i \in DOMAIN c.subwallets})

AuditSuberra(s) == Cardinality({a \in Accounts : s[a] # <<>>}) >= 2

(* vUST in a pair is its LP holders'. *)
resolveVUstLps(c, h, p) ==
    IF h[p.addr] = 0 THEN h
    ELSE [MergeMaps(<<h, Parts(c.held["VUST"][p.addr], c.held[p.lp], Supply(c, p.lp))>>)
              EXCEPT ![p.addr] = 0]

(* The treasury's part becomes the administrator's, in place of what that one  *)
(* had.                                                                       *)
ExportWhiteWhaleVaults(c) ==
    LET vUst == FoldLeft(LAMBDA h, p : resolveVUstLps(c, h, p), c.held["VUST"], c.vUstPairs)
        Held(d) == Parts(c.held[d]["whiteWhaleVault"], vUst, Supply(c, "VUST"))
        s == AddHoldings(AsSnapshot(Held("UST"), "UST"), Held("AUST"), "AUST")
    IN  Exported([s EXCEPT ![c.admin["whiteWhaleVault"]] = s["whitewhaleTreasury"],
                           !["whitewhaleTreasury"] = <<>>],
                 {"UST", "AUST"} \X {"whiteWhaleVault"})

AuditWhiteWhale(c, s) ==
    /\ \A d \in {"UST", "AUST"} :
           AlmostEqual(c.held[d]["whiteWhaleVault"], SumOfDenom(s, d), Epsilon)
    /\ s["whitewhaleTreasury"] = <<>>
    /\ s[c.admin["whiteWhaleVault"]] # <<>>

ExportKujiraVault(c) == Exported(AsSnapshot(c.bids, "AUST"), {<<"AUST", "KujiraAUstVault">>})

(* ExportContract of package ink: players, then parties, whose members take    *)
(* their place, then vaults, whose owners do; all share the aUST there is.     *)
ExportInk(c) ==
    LET partied == FoldLeft(LAMBDA h, p : MergeMaps(<<[h EXCEPT ![p.addr] = 0], p.deposits>>),
                            c.ink.players, c.ink.parties)
        deposits == FoldLeft(LAMBDA h, v : [[h EXCEPT ![v.addr] = 0]
                                                EXCEPT ![v.owner] = @ + v.anchor + v.core],
                             partied, c.ink.vaults)
        places == {"InkAUstVault"} \cup {c.ink.vaults[i].addr : i \in DOMAIN c.ink.vaults}
        locked == MapThenSumSet(LAMBDA a : c.held["AUST"][a], places)
    IN  Exported(AsSnapshot(Parts(locked, deposits, SumOf(deposits)), "AUST"), {"AUST"} \X places)

(* ExportContract of package pylon, which registers nothing *)
ExportPylon(c) ==
    Exported(MergeSnapshots(MapSeq(LAMBDA pool : AsSnapshot(AsAUst(c, pool), "AUST"), c.pylonPools)),
             {})

(* ExportEndowments: what the endowments own is with a wallet of the protocol. *)
ExportEndowments(c) ==
    Exported(Credited(MapSeq(LAMBDA e : <<e.owner, "AUST", e.liquid + e.locked>>,
                             SelectSeq(c.endowments, LAMBDA e : e.liquid + e.locked # 0))),
             {"UST", "AUST"} \X {"DANO"})

(* ExportIDO of package starterra *)
ExportIDO(c) ==
    LET Ratio(d) == QuoInt(NewDec(c.held[d]["IDO"]), SumOf(c.funders))
    IN  Exported(AddHoldings(AsSnapshot(AtRate(Ratio("UST"), c.funders), "UST"),
                             AtRate(Ratio("AUST"), c.funders), "AUST"),
                 {"UST", "AUST"} \X {"IDO"})

AuditIDO(c, s) ==
    \A d \in {"UST", "AUST"} : AlmostEqual(SumOfDenom(s, d), c.held[d]["IDO"], Epsilon)

ExportArbitrageAUST(c) ==
    Exported(AsSnapshot([a \in Accounts |->
                 TruncateInt(QuoInt(NewDec(c.held["VSWAP"][a]), Supply(c, "VSWAP"))
                             * c.held["AUST"]["Arbitrage"])], "AUST"),
             {<<"AUST", "Arbitrage">>})

(* One aaUST is one aUST. *)
ExportAlice(c) ==
    Exported(AsSnapshot(c.held["AAUST"], "AUST"), {<<"AUST", "AliceaaUSTWrapper">>})

(* Deposits at Anchor's rate; those of the lockdrop share the phaser's aUST,   *)
(* which is not registered.                                                   *)
ExportKinetic(c) ==
    Exported(MergeSnapshots(<<AsSnapshot(AsAUst(c, c.kineticDeposits), "AUST"),
                              AsSnapshot(Parts(c.held["AUST"]["KineticPhaser"], c.kineticLocked,
                                               SumOf(c.kineticLocked)), "AUST")>>),
             {"UST", "AUST"} \X {"KineticVault"})

(* ExportContract of package glow, which registers nothing *)
ExportGlow(c) ==
    Exported(AsSnapshot(MergeMaps(<<AsAUst(c, c.lotteryDeposits), c.lotterySavings>>), "AUST"), {})

ExportNebulaCommunityFund(c) ==
    Exported(Credited(<< <<"Deployer", "UST", c.held["UST"]["CommunityFund"]>> >>),
             {<<"UST", "CommunityFund">>})

ExportFlokiRefunds(c) ==
    LET moved == << <<"AddressRefund", "AddressRefundTo">>, <<"AddressMarket", "AddressMarketTo">> >>
        Of(m) == << <<m[2], "UST", c.held["UST"][m[1]]>>, <<m[2], "AUST", c.held["AUST"][m[1]]>> >>
    IN  Exported(Credited(Of(moved[1]) \o Of(moved[2])),
                 {"UST", "AUST"} \X {"AddressRefund", "AddressMarket"})

-------------------------------------------------------------------------------
(* LUNA. *)

(* ExportPools: staked, being unstaked, and rewards; nothing is registered.    *)
ExportPools(c) ==
    Exported(AsSnapshot(MergeMaps(<<c.pools.staked, c.pools.undelegating, c.pools.rewards>>),
                        "LUNA"), {})

(* Contracts that are funds are left out; nothing is registered. *)
ExportStakePlus(c) ==
    Exported(MergeSnapshots(MapSeq(LAMBDA k : AsSnapshot(MergeMaps(<<k.staked, k.undelegating>>),
                                                         "LUNA"),
                                   SelectSeq(c.stakePlus, LAMBDA k : ~k.fund))), {})

(* ExportVaults of package stader: claims that have not been paid *)
ExportStaderVaults(c) ==
    Exported(AsSnapshot(AtRate(c.rates["LUNAX"],
                 [a \in Accounts |-> IF a \in c.hasClaimed THEN 0 ELSE c.claims[a]]), "LUNA"), {})

ExportSettlements(c) == Exported(AsSnapshot(c.settled, "LUNA"), {<<"LUNA", "Settlement">>})

(* ExportHoldings of package oneplanet.  The owner of a contract is in its     *)
(* first message; a sale names one to whom it pays instead.                    *)
OwnerOf(c, a) ==
    IF a \notin DOMAIN c.initOwner THEN a
    ELSE IF c.initOwner[a] # None THEN c.initOwner[a]
    ELSE IF c.recipient[a] \notin DOMAIN c.initOwner THEN c.recipient[a]
    ELSE c.initOwner[c.recipient[a]]

ExportHoldings(c) ==
    LET Of(token) == [a \in Accounts |->
                         MapThenSumSet(LAMBDA b : c.held[token][b], {b \in Accounts : OwnerOf(c, b) = a})]
    IN  Exported(AddHoldings(AsSnapshot(Of("OPUST"), "UST"), Of("OPLUNA"), "LUNA"), {})

-------------------------------------------------------------------------------
(* Pairs outside the three exchanges. *)

(* ExportTerraFloki: LP tokens of the first pair are staked. *)
ExportTerraFloki(c) ==
    LET Holders(p) == IF p.staking = None THEN c.held[p.lp]
                      ELSE MergeMaps(<<[c.held[p.lp] EXCEPT ![p.staking] = 0], c.staked[p.lp]>>)
        Of(p) == [a \in Accounts |-> Refund(c, p, Holders(p)[a])]
    IN  Exported(MergeSnapshots(MapSeq(Of, c.flokiPairs)),
                 {"UST"} \X {c.flokiPairs[i].addr : i \in DOMAIN c.flokiPairs})

(* ExportTfmLiquidity: of the assets only UST and LUNA count; nothing is       *)
(* registered, and balances of several pairs are not added up.                *)
ExportTfmLiquidity(c) ==
    LET pairs == SelectSeq(c.tfmPairs, LAMBDA p : \A i \in DOMAIN p.assets :
                                                      c.held[p.assets[i]][p.addr] # 0)
        Of(p, a) == SelectSeq(Refund(c, p, TerraswapHolders(c, p)[a]),
                              LAMBDA b : b.denom \in {"UST", "LUNA"})
    IN  Exported([a \in Accounts |-> FlattenSeq(MapSeq(LAMBDA p : Of(p, a), pairs))], {})

(* getStakerUstBal: the second asset counts only if the first is a token. *)
UstInPool(c, p) ==
    IF p.assets[1] \in {"UST", "LUNA"} THEN (IF p.assets[1] = "UST" THEN c.held["UST"][p.addr] ELSE 0)
    ELSE IF p.assets[2] = "UST" THEN c.held["UST"][p.addr] ELSE 0

ExportTfmFarms(c) ==
    Exported(MergeSnapshots(MapSeq(LAMBDA f : AsSnapshot(Parts(UstInPool(c, f.pair), f.bonded,
                                                               Supply(c, f.pair.lp)), "UST"),
                                   c.tfmFarms)), {})
================================================================================
