--------------------------------- MODULE Export --------------------------------
(***************************************************************************)
(* app/export/contract_export.go: a process that walks through the protocols *)
(* of a stopped chain, keeps what each one attributes in a file, and adds    *)
(* everything up into the balances of a new genesis.  It takes hours, so it  *)
(* is killed and started again; then it reads the files of the protocols it  *)
(* has been through instead of asking the chain.  The blacklist is only in   *)
(* memory, and a protocol read from its file registers nothing.              *)
(***************************************************************************)
EXTENDS ExportVaults

CONSTANTS Chains,          \* the chains to export
          Dust,            \* what rounding may cost one account
          MaxKills

Compounders == {"spectrum", "apollo", "mars-field", "mirror", "mars-auction", "astro-lockdrop",
                "kinetic-lockdrop-lps"}

(* The order of ExportContracts.  Compounders leave two files.  The exporters  *)
(* of vesting contracts leave none and come first, which does not matter.      *)
Steps == <<"anchor", "anchor-bluna",
           "spectrum", "apollo", "mars-field", "mirror", "mars-auction", "astro-lockdrop",
           "kinetic-lockdrop-lps",
           "astroport", "terraswap", "loop",
           "suberra", "whitewhale", "kujira", "prism", "prism-limit-order", "aperture", "edge",
           "mirror-cdp", "mirror-limit-order", "ink", "stader", "stader-pools",
           "stader-stake-plus", "stader-vaults", "tfm-farm", "tfm-lp", "angel", "radomearth",
           "starterra", "starflet", "pylon", "mars",
           "floki", "floki-refunds", "nebula", "alice", "kinetic", "steak", "oneplanet",
           "nexus", "glow",
           "bonded-luna", "native-balance", "merge", "lido", "resolve", "finish">>

Uncached == {"nexus", "merge", "lido", "resolve", "finish"}

(* What it attributes is not merged. *)
Dropped == {"starterra"}

Derivatives == {"BLUNA", "STLUNA", "STEAK", "NLUNA", "CLUNA", "PLUNA", "LUNAX"}

VARIABLES chain,           \* never changes
          files,           \* step -> the file it left: absent, torn, or its contents
          snapshotFiles,   \* compounder -> its second file: absent, torn or written
          step,            \* the next step
          bl,              \* the blacklist
          fromLP,          \* what Astroport attributed, in this process
          vaults,          \* what the compounders found, in this process
          snapshot,        \* what has been attributed so far, in this process
          outcome,         \* running, killed, panic or done
          result,          \* the balances exported
          earlier,         \* those of an earlier export of the same chain
          kills

process == <<step, bl, fromLP, vaults, snapshot, outcome>>

vars == <<chain, files, snapshotFiles, process, result, earlier, kills>>

Absent == [kind |-> "absent"]
Torn == [kind |-> "torn"]
Written(x) == [kind |-> "written", data |-> x]

(* A process starts with nothing in memory, and leaves nothing in it. *)
Fresh(how) ==
    /\ step' = 1
    /\ bl' = {}
    /\ fromLP' = NoBalances
    /\ vaults' = {}
    /\ snapshot' = NoBalances
    /\ outcome' = how

Init ==
    /\ chain \in Chains
    /\ files = [s \in ToSet(Steps) |-> Absent]
    /\ snapshotFiles = [s \in Compounders |-> Absent]
    /\ step = 1
    /\ bl = {}
    /\ fromLP = NoBalances
    /\ vaults = {}
    /\ snapshot = NoBalances
    /\ outcome = "running"
    /\ result = None
    /\ earlier = None
    /\ kills = 0

Running(s) == outcome = "running" /\ Steps[step] = s

Panic == Fresh("panic")

-------------------------------------------------------------------------------
(* One protocol. *)

Exporter(s) ==
    CASE s = "anchor" -> ExportAnchorDeposit(chain)
      [] s = "anchor-bluna" -> ExportbLUNA(chain)
      [] s = "astroport" -> ExportDex(chain, "astroport", vaults)
      [] s = "terraswap" -> ExportDex(chain, "terraswap", vaults)
      [] s = "loop" -> ExportDex(chain, "loop", {})
      [] s = "suberra" -> ExportSuberra(chain)
      [] s = "whitewhale" -> ExportWhiteWhaleVaults(chain)
      [] s = "kujira" -> ExportKujiraVault(chain)
      [] s = "prism" -> ExportPrism(chain)
      [] s = "prism-limit-order" -> ExportLimitOrders(chain)
      [] s = "aperture" -> exportApertureVaults(chain)
      [] s = "edge" -> ExportEdge(chain)
      [] s = "mirror-cdp" -> ExportMirrorCdps(chain)
      [] s = "mirror-limit-order" -> ExportMirrorOrders(chain)
      [] s = "ink" -> ExportInk(chain)
      [] s = "stader" -> ExportLunaX(chain)
      [] s = "stader-pools" -> ExportPools(chain)
      [] s = "stader-stake-plus" -> ExportStakePlus(chain)
      [] s = "stader-vaults" -> ExportStaderVaults(chain)
      [] s = "tfm-farm" -> ExportTfmFarms(chain)
      [] s = "tfm-lp" -> ExportTfmLiquidity(chain)
      [] s = "angel" -> ExportEndowments(chain)
      [] s = "radomearth" -> ExportSettlements(chain)
      [] s = "starterra" -> ExportIDO(chain)
      [] s = "starflet" -> ExportArbitrageAUST(chain)
      [] s = "pylon" -> ExportPylon(chain)
      [] s = "mars" -> ExportMars(chain)
      [] s = "floki" -> ExportTerraFloki(chain)
      [] s = "floki-refunds" -> ExportFlokiRefunds(chain)
      [] s = "nebula" -> ExportNebulaCommunityFund(chain)
      [] s = "alice" -> ExportAlice(chain)
      [] s = "kinetic" -> ExportKinetic(chain)
      [] s = "steak" -> ExportSteak(chain)
      [] s = "oneplanet" -> ExportHoldings(chain)
      [] s = "glow" -> ExportGlow(chain)
      [] s = "bonded-luna" -> ExportAllBondedLuna(chain)
      [] s = "native-balance" -> ExportAllNativeBalances(chain)

(* check(protocol.Audit(...)), where there is one whose result counts *)
Audited(s, balances) ==
    CASE s = "suberra" -> AuditSuberra(balances)
      [] s = "whitewhale" -> AuditWhiteWhale(chain, balances)
      [] s = "prism" -> AuditPrism(chain, balances)
      [] s = "prism-limit-order" -> AuditLOs(chain, balances)
      [] s = "edge" -> AuditEdge(chain, balances)
      [] s = "mirror-cdp" -> AuditCdps(chain, balances)
      [] s = "mirror-limit-order" -> AuditMirrorOrders(chain, balances)
      [] s = "starterra" -> AuditIDO(chain, balances)
      [] s = "mars" -> AuditMars(chain, balances)
      [] OTHER -> TRUE

(* Mutant: the pools are left to the step before, which may come from a file. *)
NothingRegistered(s) == {}

(* ExportContracts registers the staking pools itself, after "bonded-luna". *)
RegisteredAfter(s) ==
    IF s = "bonded-luna" THEN {<<"LUNA", BondedPool>>, <<"LUNA", NotBondedPool>>} ELSE {}

(* ExportContracts keeps what the protocols attribute and merges it after the   *)
(* last of them; to merge each with those before comes to the same.           *)
Took(s, balances, listed) ==
    IF ~Audited(s, balances) THEN Panic
    ELSE /\ step' = step + 1
         /\ fromLP' = IF s = "astroport" THEN balances ELSE fromLP
         /\ snapshot' = IF s \in Dropped THEN snapshot ELSE MergeSnapshots(<<snapshot, balances>>)
         /\ bl' = bl \cup listed \cup RegisteredAfter(s)
         /\ UNCHANGED <<vaults, outcome>>

(* Mutant: a file that cannot be read stops the export. *)
CachedOrPanic(s) ==
    /\ Running(s)
    /\ \/ /\ files[s].kind = "written"
          /\ Took(s, files[s].data, {})
          /\ files' = files
       \/ /\ files[s].kind = "torn"
          /\ Panic
          /\ files' = files
       \/ /\ files[s].kind = "absent"
          /\ \E e \in {Exporter(s)} :
                /\ Took(s, e.balances, e.listed)
                /\ files' = [files EXCEPT ![s] = Written(e.balances)]
    /\ UNCHANGED <<chain, snapshotFiles, result, earlier, kills>>

(* CachedSBA and CachedDex.  A file that cannot be decoded counts as absent. *)
Cached(s) ==
    /\ Running(s)
    /\ \/ /\ files[s].kind = "written"
          /\ Took(s, files[s].data, {})
          /\ files' = files
       \/ /\ files[s].kind # "written"
          /\ \E e \in {Exporter(s)} :
                IF e.ok
                THEN /\ Took(s, e.balances, e.listed)
                     /\ files' = [files EXCEPT ![s] = Written(e.balances)]
                ELSE Panic /\ files' = files
    /\ UNCHANGED <<chain, snapshotFiles, result, earlier, kills>>

VaultsOf(s) ==
    CASE s = "spectrum" -> ExportSpecVaultLPs(chain)
      [] s = "apollo" -> ExportApolloVaultLPs(chain)
      [] s = "mars-field" -> ExportFieldOfMarsLpTokens(chain)
      [] s = "mirror" -> ExportMirrorLpStakers(chain)
      [] s = "mars-auction" -> ExportMarsAuctionLpHolders(chain)
      [] s = "astro-lockdrop" -> ExportAstroportLockdrop(chain)
      [] s = "kinetic-lockdrop-lps" -> ExportKineticLpHoldings(chain)

Skipped(s) == s = "mars-field" /\ chain.kind = "post"

(* exportCompounders; after the last one Mirror's vaults are audited. *)
TookVaults(s, vs) ==
    LET all == AddCompounder(vaults, vs)
    IN  IF s = "kinetic-lockdrop-lps" /\ ~AuditCompounders(chain, all) THEN Panic
        ELSE /\ vaults' = all
             /\ step' = step + 1
             /\ UNCHANGED <<bl, fromLP, snapshot, outcome>>

(* CachedMap3.  The second file is read only to be decoded, and that must      *)
(* succeed; what is in it goes no further.                                    *)
CachedCompounder(s) ==
    /\ Running(s)
    /\ \/ /\ Skipped(s)
          /\ TookVaults(s, {})
          /\ UNCHANGED <<files, snapshotFiles>>
       \/ /\ ~Skipped(s) /\ files[s].kind # "absent" /\ snapshotFiles[s].kind = "torn"
          /\ Panic
          /\ UNCHANGED <<files, snapshotFiles>>
       \/ /\ ~Skipped(s) /\ files[s].kind = "written" /\ snapshotFiles[s].kind # "torn"
          /\ TookVaults(s, files[s].data)
          /\ UNCHANGED <<files, snapshotFiles>>
       \/ /\ ~Skipped(s)
          /\ files[s].kind = "absent" \/ (files[s].kind = "torn" /\ snapshotFiles[s].kind # "torn")
          /\ IF s = "mars-field" /\ ~FieldsAudited(chain)
             THEN Panic /\ UNCHANGED <<files, snapshotFiles>>
             ELSE /\ TookVaults(s, VaultsOf(s))
                  /\ files' = [files EXCEPT ![s] = Written(VaultsOf(s))]
                  /\ snapshotFiles' = [snapshotFiles EXCEPT ![s] = Written(None)]
    /\ UNCHANGED <<chain, result, earlier, kills>>

Nexus ==
    /\ Running("nexus")
    /\ Took("nexus", ExportNexus(chain, fromLP, bl), {})
    /\ UNCHANGED <<chain, files, snapshotFiles, result, earlier, kills>>

-------------------------------------------------------------------------------
(* After the last protocol. *)

(* Everything that was attributed, less what the blacklist rules out. *)
AfterProtocols ==
    ApplyBlackList(MergeSnapshots(<<snapshot, ExportVestingContracts(chain)>>), bl)

(* nexus.ResolveToBLuna *)
ResolveToBLuna(s) == ResolveTo(s, "NLUNA", "BLUNA", NAssetTobAssetRatio(chain))

ExportBSTLunaHolders(s) ==
    LET st == ApplyBlackList(AddHoldings(s, chain.held["STLUNA"], "STLUNA"), bl)
    IN  ApplyBlackList(AddHoldings(st, chain.held["BLUNA"], "BLUNA"), bl)

(* The rewards are computed and dropped. *)
ExportLidoRewards(s) == ApplyBlackList(s, bl)

ToLuna(s, d) == ResolveTo(s, d, "LUNA", chain.rates[d])

(* Those who wait for their LUNA are paid as well. *)
ResolveLidoLuna(s) ==
    LET waiting == MergeMaps(<<AtRate(chain.rates["BLUNA"], chain.waits["BLUNA"]),
                               AtRate(chain.rates["STLUNA"], chain.waits["STLUNA"])>>)
    IN  AddHoldings(ToLuna(ToLuna(ApplyBlackList(s, bl), "BLUNA"), "STLUNA"), waiting, "LUNA")

(* ResolveLidoLuna registers the hub again. *)
WithLidoHub == bl \cup {<<"LUNA", LidoHub>>}

(* prism.ResolveToLuna *)
ResolvePrismLuna(s) ==
    LET swapped == ResolveTo(ApplyBlackList(s, WithLidoHub), "PLUNA", "CLUNA", OneDec)
    IN  ToLuna(ApplyBlackList(swapped, WithLidoHub), "CLUNA")

ResolveSteakLuna(s) == ToLuna(s, "STEAK")

(* stader.ResolveToLuna *)
ResolveLunaX(s) == ToLuna(s, "LUNAX")

Renamed(s) == IF chain.kind = "post" THEN ResolveTo(s, "AUST", "UST", OneDec) ELSE s

(* Mutant: the whitelist is forgotten. *)
RemoveAllContracts(s) == RemoveAccounts(s, chain.contracts)

RemoveContractBalances(s) == RemoveAccounts(s, chain.contracts \ chain.whitelist)

Final ==
    RemoveContractBalances(
        Renamed(HandleContractBalances(chain, snapshot, bl)))

(* AssertNativeSupply returns an error, which is only logged, if the supply   *)
(* differs, and panics if it does not.                                       *)
SupplyMatches(s, d) == AlmostEqual(Supply(chain, d), SumOfDenom(s, d), Epsilon)

finalAuditPanics(s) ==
    \/ \E d \in Derivatives : SumOfDenom(s, d) # 0
    \/ SupplyMatches(s, "LUNA")
    \/ chain.kind = "post" /\ SupplyMatches(s, "UST")

Balances(s) ==
    [a \in Accounts |-> [d \in {"LUNA", "UST", "AUST"} |-> GetAddrBalance(s, a, d)]]

Becomes(s, s2) ==
    /\ Running(s)
    /\ step' = step + 1
    /\ snapshot' = s2
    /\ UNCHANGED <<chain, files, snapshotFiles, vaults, outcome, result, earlier, kills>>

Merge == Becomes("merge", AfterProtocols) /\ UNCHANGED <<fromLP, bl>>

Lido ==
    /\ Becomes("lido", ExportLidoRewards(ExportBSTLunaHolders(ResolveToBLuna(snapshot))))
    /\ UNCHANGED <<fromLP, bl>>

Resolve ==
    /\ Becomes("resolve", ResolveLunaX(ResolveSteakLuna(ResolvePrismLuna(ResolveLidoLuna(snapshot)))))
    /\ bl' = WithLidoHub
    /\ fromLP' = fromLP

Finish ==
    /\ Running("finish")
    /\ LET s == Final
       IN  IF finalAuditPanics(s) THEN Fresh("panic") /\ result' = result
           ELSE Fresh("done") /\ result' = Balances(s)
    /\ UNCHANGED <<chain, files, snapshotFiles, earlier, kills>>

-------------------------------------------------------------------------------
(* The operator and the machine. *)

(* The process may be killed while it writes a file. *)
Kill ==
    /\ outcome = "running"
    /\ kills < MaxKills
    /\ kills' = kills + 1
    /\ Fresh("killed")
    /\ LET s == Steps[step]
           Half(f, t) == IF f[t].kind = "written" THEN f ELSE [f EXCEPT ![t] = Torn]
       IN  \/ UNCHANGED <<files, snapshotFiles>>
           \/ /\ s \notin Uncached /\ ~Skipped(s)
              /\ files' = Half(files, s)
              /\ snapshotFiles' = snapshotFiles
           \/ /\ s \in Compounders /\ ~Skipped(s)
              /\ files[s].kind # "written"
              /\ files' = [files EXCEPT ![s] = Written(VaultsOf(s))]
              /\ \E f \in {Absent, Torn} : snapshotFiles' = [snapshotFiles EXCEPT ![s] = f]
    /\ UNCHANGED <<chain, result, earlier>>

(* The export is started again after it has stopped short. *)
Restart ==
    /\ outcome \in {"killed", "panic"}
    /\ Fresh("running")
    /\ UNCHANGED <<chain, files, snapshotFiles, result, earlier, kills>>

(* The export is started again although it has been through. *)
Rerun ==
    /\ outcome = "done"
    /\ Fresh("running")
    /\ earlier' = result
    /\ result' = None
    /\ UNCHANGED <<chain, files, snapshotFiles, kills>>

Go ==
    \/ \E s \in {Steps[step]} \ (Uncached \cup Compounders) : Cached(s)
    \/ \E s \in {Steps[step]} \cap Compounders : CachedCompounder(s)
    \/ Nexus
    \/ Merge \/ Lido \/ Resolve
    \/ Finish

Next == Go \/ Kill \/ Restart \/ Rerun

Spec == Init /\ [][Next]_vars

(* No process runs for ever, and the operator starts it again when it has      *)
(* stopped short.  The former is weak fairness of Go, which is enabled exactly *)
(* while a process is running.                                                *)
FairSpec == Spec /\ []<>(outcome # "running") /\ WF_vars(Restart)

-------------------------------------------------------------------------------
(***************************************************************************)
(* What an account owns, read off the chain without any export: what it      *)
(* holds, and its part of what contracts hold for it; and how much of that   *)
(* an export can find.                                                       *)
(***************************************************************************)

Pairs == chain.pairs \cup {chain.prismPairs[d] : d \in DOMAIN chain.prismPairs}
             \cup ToSet(chain.vUstPairs \o chain.flokiPairs \o chain.tfmPairs)

(* The part of n that shares out of all give a *)
PartOf(a, n, shares, all) == IF shares[a] = 0 THEN 0 ELSE (n * shares[a]) \div all

(* The LP tokens of a staking contract are its stakers', in proportion. *)
LpOf(a, p) ==
    chain.held[p.lp][a]
    + (IF chain.staked[p.lp][a] = 0 THEN 0
       ELSE (chain.staked[p.lp][a] * chain.held[p.lp][p.staking]) \div SumOf(chain.staked[p.lp]))
    + MapThenSumSet(LAMBDA v : IF v.lp = p.lp THEN v.holders[a] ELSE 0, chain.farms)
    + MapThenSumSet(LAMBDA v : IF v.lp = p.lp THEN (v.shares[a] * v.bond) \div SumOf(v.shares)
                               ELSE 0, chain.strategies)
    + MapThenSumSet(LAMBDA l : IF l.lp # p.lp \/ a \in l.withdrawn THEN 0
                               ELSE (l.shares[a] * l.deposit) \div
                                    MapThenSumSet(LAMBDA b : l.shares[b], Accounts \ l.withdrawn),
                    chain.lockers)
    + FoldLeft(LAMBDA n, f : IF f.pair = p THEN n + f.bonded[a] ELSE n, 0, chain.tfmFarms)

(* What a has of a denomination: directly, in pairs, in multisigs, in vesting *)
(* contracts and in open orders.                                             *)
HeldOf(a, d) ==
    LET InPair(p) == (LpOf(a, p) * chain.held[d][p.addr]) \div TotalShare(chain, p)
        InSafe(m) == (chain.held[d][m] * chain.voters[m][a]) \div SumOf(chain.voters[m])
        InVesting(i) == IF chain.vesting[i].owner = a /\ chain.vesting[i].denom = d
                        THEN chain.vesting[i].amount ELSE 0
    IN  chain.held[d][a]
        + MapThenSumSet(InPair, {p \in Pairs : d \in ToSet(p.assets)})
        + MapThenSumSet(InVesting, DOMAIN chain.vesting)
        + (IF d \in DOMAIN chain.orders THEN chain.orders[d][a] ELSE 0)
        + (IF d \in {"LUNA", "UST", "AUST"}
           THEN MapThenSumSet(InSafe, DOMAIN chain.voters) ELSE 0)

(* nLUNA that is staked with Spectrum as such *)
SingleStake(a) ==
    MapThenSumSet(LAMBDA f : IF f.vault = nLunaFarm THEN f.holders[a] ELSE 0, chain.farms)

(* The entries of a list that are a's *)
Listed(a, list, Who(_), Amount(_)) ==
    FoldLeft(LAMBDA n, x : IF Who(x) = a THEN n + Amount(x) ELSE n, 0, list)

(* What protocols keep for a in a denomination: first those that know it as    *)
(* such, then those that know parts of what they have.                        *)
KeptFor(a, d) ==
    LET Bank(c) == chain.held[d][c]
        Deposit(h) == (h[a] * Unit) \div chain.rates["AUST"]
        InMarket(m) == PartOf(a, m.total - m.insurance, chain.held[m.etoken], Supply(chain, m.etoken))
                       + (IF a = chain.admin["EdgeProtocolPool"] THEN m.insurance ELSE 0)
        vUst == IF a = chain.admin["whiteWhaleVault"] THEN chain.held["VUST"]["whitewhaleTreasury"]
                ELSE HeldOf(a, "VUST")
        maUst == chain.held["MAUST"][a]
                 + PartOf(a, chain.held["MAUST"]["marsLockDrop"], chain.maUstLocked,
                          SumOf(chain.maUstLocked))
        ofParties(b) == Listed(b, chain.ink.vaults, LAMBDA v : v.owner, LAMBDA v : v.anchor + v.core)
                        + FoldLeft(LAMBDA n, q : n + q.deposits[b], 0, chain.ink.parties)
        crew == Accounts \ {x.addr : x \in ToSet(chain.ink.parties) \cup ToSet(chain.ink.vaults)}
        InInk == [b \in Accounts |-> IF b \in crew THEN chain.ink.players[b] + ofParties(b) ELSE 0]
        inkAUst == chain.held["AUST"]["InkAUstVault"]
                   + FoldLeft(LAMBDA n, v : n + chain.held["AUST"][v.addr], 0, chain.ink.vaults)
        Refunded == (IF a = "AddressRefundTo" THEN Bank("AddressRefund") ELSE 0)
                    + (IF a = "AddressMarketTo" THEN Bank("AddressMarket") ELSE 0)
        OpOf(token) == MapThenSumSet(LAMBDA b : IF OwnerOf(chain, b) = a THEN chain.held[token][b] ELSE 0,
                                     Accounts)
        Cdps == Listed(a, SelectSeq(chain.cdps, LAMBDA q : q.denom = d), LAMBDA q : q.owner,
                       LAMBDA q : q.amount)
        Positions == Listed(a, SelectSeq(chain.positions, LAMBDA q : q.open), LAMBDA q : q.holder,
                            LAMBDA q : IF d = "AUST" THEN q.aust ELSE q.ust)
        Funded == PartOf(a, Bank("IDO"), chain.funders, SumOf(chain.funders))
        inMarkets == FoldLeft(LAMBDA n, m : IF m.underlying = d THEN n + InMarket(m) ELSE n,
                              0, chain.markets)
    IN  inMarkets + Cdps +
        CASE d = "AUST" ->
               Listed(a, chain.subwallets, LAMBDA w : w.owner, LAMBDA w : Bank(w.wallet))
               + chain.bids[a] + chain.held["AAUST"][a] + chain.lotterySavings[a] + Refunded
               + Funded
               + Listed(a, chain.endowments, LAMBDA e : e.owner, LAMBDA e : e.liquid + e.locked)
               + Deposit(chain.kineticDeposits) + Deposit(chain.lotteryDeposits)
               + FoldLeft(LAMBDA n, h : n + Deposit(h), 0, chain.pylonPools)
               + (IF chain.kind = "pre" THEN Positions ELSE 0)
               + (vUst * Bank("whiteWhaleVault")) \div Supply(chain, "VUST")
               + PartOf(a, inkAUst, InInk, SumOf(InInk))
               + PartOf(a, Bank("Arbitrage"), chain.held["VSWAP"], Supply(chain, "VSWAP"))
               + PartOf(a, Bank("KineticPhaser"), chain.kineticLocked, SumOf(chain.kineticLocked))
          [] d = "UST" ->
               Refunded + Funded + OpOf("OPUST")
               + Listed(a, SelectSeq(chain.mirrorOrders, LAMBDA o : o.denom = d), LAMBDA o : o.bidder,
                        LAMBDA o : o.amount - o.filled)
               + (IF chain.kind = "post" THEN Positions ELSE 0)
               + (IF a = "Deployer" THEN Bank("CommunityFund") ELSE 0)
               + (IF a = chain.admin["marsSafetyFund"] THEN Bank("marsSafetyFund") ELSE 0)
               + (vUst * Bank("whiteWhaleVault")) \div Supply(chain, "VUST")
               + (maUst * Bank("marsMarket")) \div Supply(chain, "MAUST")
          [] d = "LUNA" ->
               chain.pools.staked[a] + chain.pools.undelegating[a] + chain.pools.rewards[a]
               + FoldLeft(LAMBDA n, k : IF k.fund THEN n ELSE n + k.staked[a] + k.undelegating[a],
                          0, chain.stakePlus)
               + chain.settled[a] + OpOf("OPLUNA")
               + PartOf(a, Bank("marsMarket"), chain.held["MALUNA"], Supply(chain, "MALUNA"))
          [] d = "NLUNA" -> SingleStake(a)
          [] d = "LUNAX" -> IF a \in chain.hasClaimed THEN 0 ELSE chain.claims[a]
          [] OTHER -> 0

TokenOf(a, d) == HeldOf(a, d) + KeptFor(a, d)

(* The owners of the contracts that are known, with those contracts. *)
OwnedBy(a) == {a} \cup {k[1] : k \in {x \in ToSet(chain.known) : x[2] = a}}

(* LUNA, and the tokens that stand for it at the rates of their protocols. *)
LunaWith(a, token) ==
    LET Worth(d, n) == TruncateInt(chain.rates[d] * n)
        nLuna == token["NLUNA"]
                 + (chain.held["CNLUNA"][a] * chain.held["NLUNA"][AutoCompounder])
                   \div Supply(chain, "CNLUNA")
        bLuna == token["BLUNA"] + chain.collateral[a] + chain.waits["BLUNA"][a]
                 + (nLuna * chain.collateral[BLunaVault]) \div Supply(chain, "NLUNA")
    IN  token["LUNA"] + chain.delegated[a] + chain.undelegating[a]
        + Worth("BLUNA", bLuna)
        + Worth("STLUNA", token["STLUNA"] + chain.waits["STLUNA"][a])
        + Worth("CLUNA", token["CLUNA"] + token["PLUNA"]) + chain.unbonding["CLUNA"][a]
        + Worth("STEAK", token["STEAK"] + chain.unbonding["STEAK"][a])
        + Worth("LUNAX", token["LUNAX"] + chain.unbonding["LUNAX"][a])

(***************************************************************************)
(* What an account owns and no exporter gives it:                            *)
(*  - its part of the funds of an IDO, which are not merged                  *)
(*    (contract_export.go:116);                                              *)
(*  - nLUNA staked with Spectrum, neither (contract_export.go:70);           *)
(*  - LP tokens in a Loop farm, when Loop does not know the account by a     *)
(*    balance of its own (contract_export_loop_lp.go:135);                   *)
(*  - LP tokens in a farm of TFM, but for UST that is the first asset of the *)
(*    pair or comes after a token (contract_export_tfm_farm.go:76);          *)
(*  - LUNA that it unbonds from Prism without having had cLUNA (prism.go:277).*)
(***************************************************************************)
Unreached(a, d) ==
    LET InPair(lp, p) ==
            IF d \in ToSet(p.assets) THEN (lp * chain.held[d][p.addr]) \div TotalShare(chain, p) ELSE 0
        InLoop(p) == IF p.dex = "loop" /\ a \notin chain.stored[p.lp]
                     THEN InPair(chain.staked[p.lp][a], p) ELSE 0
        InFarm(f) == IF d = "UST" /\ UstInPool(chain, f.pair) # 0 THEN 0
                     ELSE InPair(f.bonded[a], f.pair)
        cLunaKnown == chain.stored["CLUNA"] \cup chain.stored[chain.prismPairs["CLUNA"].lp]
    IN  MapThenSumSet(InLoop, chain.pairs)
        + FoldLeft(LAMBDA n, f : n + InFarm(f), 0, chain.tfmFarms)
        + (IF d \in {"UST", "AUST"}
           THEN PartOf(a, chain.held[d]["IDO"], chain.funders, SumOf(chain.funders)) ELSE 0)
        + (IF d = "NLUNA" THEN SingleStake(a) ELSE 0)
        + (IF d = "LUNA" /\ a \notin cLunaKnown THEN chain.unbonding["CLUNA"][a] ELSE 0)

Reached(a, d) == TokenOf(a, d) - Unreached(a, d)

LunaOf(a) == LunaWith(a, [d \in Derivatives \cup {"LUNA"} |-> Reached(a, d)])

(* What the export owes to an account.  The coins of the staking pools are      *)
(* their delegators'.                                                         *)
Owed(a, d) ==
    IF a \in {BondedPool, NotBondedPool} THEN 0
    ELSE MapThenSumSet(LAMBDA k : IF d = "LUNA" THEN LunaOf(k) ELSE Reached(k, d), OwnedBy(a))

(* Accounts whose nLUNA is taken for another amount: of cnLUNA, which is        *)
(* converted at the reciprocal of its rate (contract_export_nexus.go:50), and   *)
(* in a pair of Astroport, where it is counted as nLUNA and as the bLUNA        *)
(* behind it (contract_export_nexus.go:66).                                   *)
Miscounted(a) ==
    \/ chain.held["CNLUNA"][a] > 0 /\ Supply(chain, "CNLUNA") # chain.held["NLUNA"][AutoCompounder]
    \/ \E p \in chain.pairs : p.dex = "astroport" /\ "NLUNA" \in ToSet(p.assets) /\ LpOf(a, p) > 0

Owners == Accounts \ (chain.contracts \ chain.whitelist)

Close(a, b) == a - b <= Dust /\ b - a <= Dust

(* Before the attack UST and aUST are kept apart, after it aUST is given as UST. *)
GivenAsOwed(a, given) ==
    /\ (\E k \in OwnedBy(a) : Miscounted(k)) \/ Close(given["LUNA"], Owed(a, "LUNA"))
    /\ IF chain.kind = "pre"
       THEN Close(given["UST"], Owed(a, "UST")) /\ Close(given["AUST"], Owed(a, "AUST"))
       ELSE Close(given["UST"], Owed(a, "UST") + Owed(a, "AUST"))

(***************************************************************************)
(* Every account that stays in the genesis is given what it owns, once, up   *)
(* to rounding, and no more LUNA is given away than there was: whatever was   *)
(* read from files because the export had been killed or run before          *)
(* (ExportContracts and AssertNativeSupply, contract_export.go).  Excepted is *)
(* what Unreached lists, and the LUNA of accounts whose nLUNA is Miscounted; *)
(* neither takes anything from the other accounts.                           *)
(***************************************************************************)
HoldingsCountedOnce ==
    result # None =>
        /\ \A a \in Owners : GivenAsOwed(a, result[a])
        /\ (\A a \in Accounts : ~Miscounted(a)) =>
               MapThenSumSet(LAMBDA a : result[a]["LUNA"], Accounts) < Supply(chain, "LUNA") + Epsilon

(***************************************************************************)
(* Exporting the same chain again gives the same balances to everybody,      *)
(* although the blacklist of the second export is not that of the first      *)
(* (CachedSBA, CachedDex and CachedMap3 skip the exporter).                  *)
(***************************************************************************)
RerunSame == result # None /\ earlier # None => result = earlier

(***************************************************************************)
(* An export that is started again whenever it was killed gets through, also *)
(* when it left a file half written; unless that was the second file of a    *)
(* compounder, which CachedMap3 cannot get past.                             *)
(***************************************************************************)
ExportEnds == <>(result # None \/ \E s \in Compounders : snapshotFiles[s].kind = "torn")
================================================================================
