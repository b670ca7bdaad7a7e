---------------------------- MODULE ExportProtocols ----------------------------
(***************************************************************************)
(* app/export: what the exporters of single protocols read off a chain c     *)
(* that has stopped.  Each returns the balances it attributes, and the       *)
(* (denomination, contract) pairs whose own balance it has thereby dealt     *)
(* with; ok is false where the exporter panics.                              *)
(*                                                                           *)
(* Fields of c: held (denomination -> account -> amount, native coins and    *)
(* tokens alike), stored (token -> the accounts it has a balance of, which   *)
(* may be zero), delegated and undelegating LUNA, pairs of the exchanges,    *)
(* staked (LP token -> account -> amount), farms and strategies of the       *)
(* compounders, collateral, waits, unbonding, orders, rates, vesting, voters *)
(* of multisigs, known owners of contracts, contracts, whitelist, and kind   *)
(* ("pre" or "post" the attack).                                             *)
(***************************************************************************)
EXTENDS Snapshots

CONSTANTS Epsilon,         \* tolerance of the audits
          None

BondedPool == "bondedPool"
NotBondedPool == "notBondedPool"
LidoHub == "lidoHub"
Custody == "custody"
Generator == "generator"
PrismVault == "prismVault"
PrismLimitOrder == "prismLimitOrder"
SteakHub == "steakHub"
LunaXState == "lunaXState"
BLunaVault == "bLunaVault"
AutoCompounder == "autoCompounder"
nLunaFarm == "nLunaFarm"

PairDenoms == {"AUST", "UST", "LUNA", "BLUNA", "STLUNA", "PLUNA", "CLUNA", "STEAK", "LUNAX"}

(* coalesceToBalanceDenom: the assets that count; any other is left out. *)
TargetDenoms == PairDenoms \cup {"NLUNA"}

Supply(c, d) == SumOf(c.held[d])

Exported(balances, listed) == [balances |-> balances, listed |-> listed, ok |-> TRUE]

AtRate(rate, holdings) == [a \in Accounts |-> TruncateInt(rate * holdings[a])]

-------------------------------------------------------------------------------
(* Vaults that hold LP tokens for their users: a set of records of a vault,   *)
(* an LP token and what each user has of it.                                 *)

(* What is staked in the farm of nLUNA itself is no LP token; it goes into a   *)
(* snapshot of its own, which ends in the second file and nowhere else.       *)
ExportSpecVaultLPs(c) == {f \in c.farms : f.vault # nLunaFarm}

ExportApolloVaultLPs(c) ==
    {[vault |-> s.vault, lp |-> s.lp,
      holders |-> [a \in Accounts |-> TruncQuo(s.shares[a] * s.bond, SumOf(s.shares))]] :
        s \in c.strategies}

(* The vaults of a later compounder replace those of an earlier one. *)
AddCompounder(known, found) ==
    {v \in known : \A w \in found : w.vault # v.vault} \cup found

(* The users of a vault take its place among the holders of an LP token.  A   *)
(* vault whose users have more or less than it holds is a panic.             *)
ReplaceVault(h, v) ==
    IF h = None \/ h[v.vault] = 0 THEN h
    ELSE IF ~AlmostEqual(h[v.vault], SumOf(v.holders), Epsilon) THEN None
    ELSE (v.vault :> 0) @@ MergeMaps(<<h, v.holders>>)

ReplaceVaults(h, lp, vaults) ==
    FoldLeft(ReplaceVault, h, SetToSeq({v \in vaults : v.lp = lp}))

-------------------------------------------------------------------------------
(* Exchanges.  A pair has two assets and an LP token. *)

isTargetPool(p) == \E i \in DOMAIN p.assets : p.assets[i] \in TargetDenoms

TotalShare(c, p) == Supply(c, p.lp)

(* getShareInAssets, for one asset *)
ShareInAsset(c, p, lpAmount, d) ==
    IF TotalShare(c, p) = 0 THEN 0
    ELSE TruncateInt(Quo(NewDec(lpAmount), NewDec(TotalShare(c, p))) * c.held[d][p.addr])

Refund(c, p, lpAmount) ==
    SelectSeq([i \in DOMAIN p.assets |->
                   SnapshotBalance(p.assets[i], ShareInAsset(c, p, lpAmount, p.assets[i]))],
              LAMBDA b : b.denom \in TargetDenoms /\ b.balance # 0)

(* Astroport: LP tokens staked in the generator are their stakers'.  To be     *)
(* among the holders is to have a balance, also one of zero.                  *)
AstroportHolders(c, p) ==
    LET h == MergeMaps(<<c.held[p.lp], c.staked[p.lp]>>)
        holding == {a \in c.stakingContracts : a \in c.stored[p.lp] \/ c.staked[p.lp][a] > 0}
        gone == holding \cup (IF holding = c.stakingContracts THEN {} ELSE {Generator})
    IN  [a \in gone |-> 0] @@ h

normalizeStakingHoldings(holdings, total) ==
    [a \in Accounts |-> TruncateInt(QuoInt(NewDec(holdings[a]) * total, SumOf(holdings)))]

(* Terraswap: a pair may have a staking contract, whose records are scaled to *)
(* what it really holds when they are off.                                   *)
TerraswapHolders(c, p) ==
    LET h == c.held[p.lp]
        amount == h[p.staking]
        stakers == IF AlmostEqual(amount, SumOf(c.staked[p.lp]), Epsilon)
                   THEN c.staked[p.lp]
                   ELSE normalizeStakingHoldings(c.staked[p.lp], amount)
    IN  IF p.staking \notin c.stored[p.lp] THEN h
        ELSE MergeMaps(<<(p.staking :> 0) @@ h, stakers>>)

(* Loop: a farm gives one token of its own for each LP token.  Only those who  *)
(* have a balance of the LP token, also one of zero, are asked for it.        *)
LoopHolders(c, p) ==
    [a \in Accounts |-> IF a \in c.stored[p.lp] THEN c.held[p.lp][a] + c.staked[p.lp][a] ELSE 0]

LpHolders(c, p) ==
    CASE p.dex = "astroport" -> AstroportHolders(c, p)
      [] p.dex = "terraswap" -> TerraswapHolders(c, p)
      [] p.dex = "loop" -> LoopHolders(c, p)

IsExported(c, p) ==
    /\ isTargetPool(p)
    /\ p.dex = "astroport" => TotalShare(c, p) # 0
    /\ p.dex = "terraswap" => \A i \in DOMAIN p.assets : c.held[p.assets[i]][p.addr] # 0

(* The LP holders of a pair get their share of its reserves. *)
Refunds(c, p, vaults) ==
    LET holders == ReplaceVaults(LpHolders(c, p), p.lp, vaults)
    IN  IF holders = None THEN None ELSE [a \in Accounts |-> Refund(c, p, holders[a])]

(* Astroport and Loop add up what an account has in several pairs, Terraswap  *)
(* does not.                                                                 *)
ExportDex(c, dex, vaults) ==
    LET pairs == {p \in c.pairs : p.dex = dex}
        refunds == MapSeq(LAMBDA p : Refunds(c, p, vaults),
                          SetToSeq({p \in pairs : IsExported(c, p)}))
        ok == \A i \in DOMAIN refunds : refunds[i] # None
    IN  [ok |-> ok,
         listed |-> PairDenoms \X {p.addr : p \in pairs},
         balances |-> IF ~ok THEN NoBalances
                      ELSE IF dex = "terraswap"
                      THEN [a \in Accounts |->
                               FlattenSeq([i \in DOMAIN refunds |-> refunds[i][a]])]
                      ELSE MergeSnapshots(refunds)]

-------------------------------------------------------------------------------
(* Lending and liquid staking. *)

ExportAnchorDeposit(c) == Exported(AsSnapshot(c.held["AUST"], "AUST"), {})

ExportbLUNA(c) ==
    Exported(AsSnapshot(c.collateral, "BLUNA"), {<<"LUNA", LidoHub>>, <<"BLUNA", Custody>>})

(* What an account has in one of Prism's own pairs. *)
resolveCw20LpHoldings(c, token) ==
    LET p == c.prismPairs[token]
    IN  [a \in Accounts |-> TruncQuo(c.held[p.lp][a] * c.held[token][p.addr], Supply(c, p.lp))]

(* Those with a balance of cLUNA, or of LP tokens of its pair, are asked what   *)
(* LUNA they are unbonding.                                                   *)
checkUnbondingCLuna(c) ==
    LET pair == c.prismPairs["CLUNA"]
        cLunaHolders == (c.stored["CLUNA"] \ {pair.addr}) \cup c.stored[pair.lp]
    IN  [a \in Accounts |-> IF a \in cLunaHolders THEN c.unbonding["CLUNA"][a] ELSE 0]

(* ExportContract of package prism *)
ExportPrism(c) ==
    LET PairOf(token) == c.prismPairs[token].addr
        pLuna == [MergeMaps(<<c.held["PLUNA"], resolveCw20LpHoldings(c, "PLUNA")>>)
                      EXCEPT ![PairOf("PLUNA")] = 0]
        cLuna == MergeMaps(<<[c.held["CLUNA"] EXCEPT ![PairOf("CLUNA")] = 0],
                             resolveCw20LpHoldings(c, "CLUNA")>>)
        s == AddHoldings(AddHoldings(AsSnapshot(pLuna, "PLUNA"), cLuna, "CLUNA"),
                         checkUnbondingCLuna(c), "LUNA")
    IN  Exported(s, {<<"PLUNA", PairOf("PLUNA")>>, <<"CLUNA", PairOf("CLUNA")>>,
                     <<"CLUNA", PrismVault>>, <<"LUNA", PrismVault>>})

AuditPrism(c, s) == AlmostEqual(Supply(c, "PLUNA"), SumOfDenom(s, "PLUNA"), Epsilon)

(* ExportLimitOrderContract: open orders are their bidders'. *)
ExportLimitOrders(c) ==
    LET tokens == SetToSeq(DOMAIN c.orders)
    IN  Exported(FoldLeft(LAMBDA s, d : AddHoldings(s, c.orders[d], d), NoBalances, tokens),
                 (PairDenoms \cup DOMAIN c.orders) \X {PrismLimitOrder})

AuditLOs(c, s) ==
    \A d \in DOMAIN c.orders :
        AlmostEqual(c.held[d][PrismLimitOrder], SumOfDenom(s, d), Epsilon)

ExportSteak(c) ==
    Exported(AsSnapshot(AtRate(c.rates["STEAK"],
                               MergeMaps(<<c.held["STEAK"], c.unbonding["STEAK"]>>)), "LUNA"),
             {<<"LUNA", SteakHub>>})

ExportLunaX(c) ==
    Exported(AsSnapshot(MergeMaps(<<AtRate(c.rates["LUNAX"], c.held["LUNAX"]),
                                    AtRate(c.rates["LUNAX"], c.unbonding["LUNAX"])>>), "LUNA"),
             {<<"LUNA", LunaXState>>})

(* getnAssetTobAssetRatio *)
NAssetTobAssetRatio(c) == QuoInt(NewDec(c.collateral[BLunaVault]), Supply(c, "NLUNA"))

(* cnLUNA counts as nLUNA, and nLUNA as the bLUNA behind it; fromLP is what   *)
(* Astroport attributed.                                                     *)
ExportNexus(c, fromLP, bl) ==
    LET ratio == QuoInt(NewDec(Supply(c, "CNLUNA")), c.held["NLUNA"][AutoCompounder])
        nLuna == MergeMaps(<<AtRate(ratio, c.held["CNLUNA"]), c.held["NLUNA"],
                             PickDenomIntoBalanceMap(fromLP, "NLUNA")>>)
        kept == [a \in Accounts |-> IF <<"NLUNA", a>> \in bl THEN 0 ELSE nLuna[a]]
    IN  AsSnapshot(AtRate(NAssetTobAssetRatio(c), kept), "BLUNA")

-------------------------------------------------------------------------------
(* The chain's own balances. *)

(* ExportAllBondedLuna.  Lido's hub is left out, its LUNA is the bLUNA's. *)
ExportAllBondedLuna(c) ==
    Exported(AsSnapshot([MergeMaps(<<c.undelegating, c.delegated>>) EXCEPT ![LidoHub] = 0],
                        "LUNA"),
             {<<"LUNA", BondedPool>>, <<"LUNA", NotBondedPool>>})

ExportAllNativeBalances(c) ==
    Exported(AddHoldings(AsSnapshot(c.held["LUNA"], "LUNA"), c.held["UST"], "UST"), {})

ExportVestingContracts(c) ==
    MergeSnapshots([i \in DOMAIN c.vesting |->
        [NoBalances EXCEPT ![c.vesting[i].owner] =
            <<SnapshotBalance(c.vesting[i].denom, c.vesting[i].amount)>>]])

(* Multisigs: the voters share its coins by weight; its own balance loses them. *)
ExportCW3(c, s) ==
    LET denoms == <<"UST", "LUNA", "AUST">>
        Part(safe, a, d) ==
            TruncateInt(Quo(Mul(NewDec(c.held[d][safe]), NewDec(c.voters[safe][a])),
                            NewDec(SumOf(c.voters[safe]))))
        Split(safe) ==
            [a \in Accounts |->
                IF c.voters[safe][a] = 0 THEN <<>>
                ELSE MapSeq(LAMBDA d : SnapshotBalance(d, Part(safe, a, d)), denoms)]
        shared == MergeSnapshots(<<s>> \o [i \in 1..Cardinality(DOMAIN c.voters) |->
                                              Split(SetToSeq(DOMAIN c.voters)[i])])
        Rest(safe, b) ==
            IF b.denom \in ToSet(denoms)
            THEN [b EXCEPT !.balance = @ - c.held[b.denom][safe]] ELSE b
    IN  [a \in Accounts |->
            IF a \in DOMAIN c.voters
            THEN MapSeq(LAMBDA b : Rest(a, b), shared[a]) ELSE shared[a]]

(* Contracts with an owner that is known from a file. *)
mapKnownContracts(c, s) ==
    FoldLeft(LAMBDA t, k : [t EXCEPT ![k[2]] = FoldLeft(AppendOrAddBalance, @, t[k[1]]),
                                     ![k[1]] = <<>>],
             s, c.known)

HandleContractBalances(c, s, bl) ==
    ApplyBlackList(mapKnownContracts(c, ExportCW3(c, MergeSnapshots(<<s>>))),
                   bl \cup ({"UST", "LUNA", "AUST"} \X DOMAIN c.voters))
================================================================================
