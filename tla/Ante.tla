------------------------------- MODULE Ante -------------------------------
(***************************************************************************)
(* custom/auth/ante on one node, composed with x/treasury: the stability   *)
(* tax and the limit on oracle messages, over CheckTx, ReCheckTx and       *)
(* DeliverTx.  CheckTx works on a copy of the last committed state; a      *)
(* block may deliver transactions this node has never seen.  The ante      *)
(* handler changes state only if all its decorators succeed, except for    *)
(* the maps of the spamming prevention, which are no part of that state.   *)
(***************************************************************************)
EXTENDS Treasury, Sequences

CONSTANTS Payers, Validators,
          Txs,                \* transactions that users may sign
          InitBalance,        \* coins of each payer
          MinGasPrices,       \* of this node's configuration
          MaxOracleMsgGasUsage,
          MempoolSize,        \* of Tendermint's configuration
          MaxNodeRestarts

\* A message is an oracle message, where feederOk is what ValidateFeeder finds; a taxed
\* message, which stands for sends and multi-sends, swap-sends and coins for a contract; or
\* an authz MsgExec.  The messages of a transaction are listed as FilterMsgAndComputeTax
\* visits them: those inside a MsgExec follow it.
OracleTypes == {"prevote", "vote"}
Messages ==
    [type : OracleTypes, validator : Validators, feederOk : BOOLEAN]
        \cup [type : {"send"}, coins : Coins] \cup [type : {"exec"}]

ASSUME AnteAssumption ==
    /\ \A t \in Txs :
          t.payer \in Payers /\ t.fee \in Coins /\ t.gas \in Nat /\ t.msgs \in Seq(Messages)
    /\ InitBalance \in [Payers -> Coins]
    /\ MinGasPrices \in Coins
    /\ MaxOracleMsgGasUsage \in Nat /\ MempoolSize \in Nat /\ MaxNodeRestarts \in Nat

VARIABLES mempool,            \* sequence of transactions with the height of their CheckTx
          oraclePrevoteMap, oracleVoteMap,
          checkBalance,       \* balances in the state of CheckTx
          balance,            \* balances in the state of DeliverTx
          collected,          \* coins paid to the fee collector (history)
          delivered,          \* transactions of this block
          committed,          \* transactions of earlier blocks
          nodeRestarts

nodeVars == <<mempool, oraclePrevoteMap, oracleVoteMap, checkBalance, nodeRestarts>>
anteVars == <<nodeVars, balance, collected, delivered, committed>>

AnteInit ==
    /\ Init
    /\ mempool = <<>>
    /\ oraclePrevoteMap = [v \in Validators |-> None]
    /\ oracleVoteMap = [v \in Validators |-> None]
    /\ balance = InitBalance /\ checkBalance = InitBalance
    /\ collected = NoCoins
    /\ delivered = {} /\ committed = {}
    /\ nodeRestarts = 0

Covers(a, b) == \A d \in Terra : a[d] >= b[d]
SubCoins(a, b) == [d \in Terra |-> a[d] - b[d]]

(* Taxes *)

\* computeTax, of coins other than Luna and the bond denomination.
ComputeTax(principal) ==
    [d \in Terra |-> Min({TruncateInt(principal[d] * taxRate), GetTaxCap(d)})]

Sends(t) == {i \in DOMAIN t.msgs : t.msgs[i].type = "send"}

\* FilterMsgAndComputeTax
TaxOf(t) ==
    [d \in Terra |-> SumFunction([i \in Sends(t) |-> ComputeTax(t.msgs[i].coins)[d]])]

\* Mutant: one oracle message is enough.
HasOracleMsg(t) == \E i \in DOMAIN t.msgs : t.msgs[i].type \in OracleTypes

\* isOracleTx
IsOracleTx(t) == \A i \in DOMAIN t.msgs : t.msgs[i].type \in OracleTypes

\* No fee is asked for an oracle transaction of moderate gas.
FeeExempt(t) == IsOracleTx(t) /\ t.gas <= Len(t.msgs) * MaxOracleMsgGasUsage

\* Gas price times gas, rounded up.
RequiredFee(d, gas) == (MinGasPrices[d] * gas + Unit - 1) \div Unit

EnsureSufficientMempoolFees(t) ==
    /\ Covers(t.fee, TaxOf(t))
    /\ (\E d \in Terra : RequiredFee(d, t.gas) > 0) =>
          \E d \in Terra : /\ RequiredFee(d, t.gas) > 0
                           /\ t.fee[d] - TaxOf(t)[d] >= RequiredFee(d, t.gas)

\* Mutant: fees are validated in CheckTx only.
DeliverAnyFees(t) == TRUE

\* TaxFeeDecorator in CheckTx and ReCheckTx, and in DeliverTx.
CheckTxFees(t) ==
    /\ FeeExempt(t) \/ EnsureSufficientMempoolFees(t)
    /\ Covers(t.fee, TaxOf(t))
DeliverTxFees(t) == Covers(t.fee, TaxOf(t))

(* Spamming prevention *)

SameSubmission(m, n) == m.type = n.type /\ m.validator = n.validator

\* CheckOracleSpamming at height h: its loop ends at the first message that is not an
\* oracle's, or with an error at the first one that is from a stranger or that repeats a
\* submission of this height, maybe of this very transaction.  The messages that passed
\* until then are in the maps, whatever becomes of the transaction.
CheckOracleSpamming(h, msgs) ==
    LET examined == {i \in DOMAIN msgs : \A j \in 1..i : msgs[j].type \in OracleTypes}
        Last(m) == IF m.type = "prevote" THEN oraclePrevoteMap[m.validator]
                   ELSE oracleVoteMap[m.validator]
        Refused(i) == \/ ~msgs[i].feederOk
                      \/ Last(msgs[i]) = h
                      \/ \E j \in 1..(i - 1) : SameSubmission(msgs[j], msgs[i])
        passed == {i \in examined : \A j \in 1..i : ~Refused(j)}
        Submitted(map, type) ==
            [v \in Validators |->
                IF \E i \in passed : msgs[i].type = type /\ msgs[i].validator = v
                THEN h ELSE map[v]]
    IN  [spam |-> passed # examined,
         prevotes |-> Submitted(oraclePrevoteMap, "prevote"),
         votes |-> Submitted(oracleVoteMap, "vote")]

(* The node *)

InMempool(t) == \E i \in DOMAIN mempool : mempool[i].tx = t

\* CheckTx, at the height of the last committed block.  Tendermint checks no transaction
\* twice that is in the mempool; the sequence number stops one that was committed.
CheckTx(t) ==
    LET check == CheckOracleSpamming(height - 1, t.msgs)
        admitted == /\ ~check.spam
                    /\ CheckTxFees(t)
                    /\ Covers(checkBalance[t.payer], t.fee)
    IN  /\ ~halted /\ Len(mempool) < MempoolSize /\ ~InMempool(t) /\ t \notin committed
        /\ oraclePrevoteMap' = check.prevotes /\ oracleVoteMap' = check.votes
        /\ mempool' = IF admitted THEN Append(mempool, [tx |-> t, height |-> height - 1])
                      ELSE mempool
        /\ checkBalance' = IF admitted
                           THEN [checkBalance EXCEPT ![t.payer] = SubCoins(@, t.fee)]
                           ELSE checkBalance
        /\ UNCHANGED <<vars, nodeRestarts, balance, collected, delivered, committed>>

\* What the messages of a transaction send, nested ones included.
Sent(t) == [d \in Terra |-> SumFunction([i \in Sends(t) |-> t.msgs[i].coins[d]])]

\* DeliverTx of a transaction that passes the ante handler; its messages may still fail,
\* which undoes what they did and neither the fee nor the tax proceeds.
DeliverTx(t) ==
    LET paid == [balance EXCEPT ![t.payer] = SubCoins(@, t.fee)]
        sent == Sent(t)
    IN  /\ t \notin delivered \cup committed
        /\ DeliverTxFees(t)
        /\ Covers(balance[t.payer], t.fee)
        /\ Tx /\ RecordEpochTaxProceeds(TaxOf(t))
        /\ collected' = AddCoins(collected, t.fee)
        /\ balance' = IF Covers(paid[t.payer], sent)
                      THEN [paid EXCEPT ![t.payer] = SubCoins(@, sent)]
                      ELSE paid
        /\ delivered' = delivered \cup {t}
        /\ UNCHANGED <<nodeVars, committed>>

\* One transaction of the mempool is checked again, on the balances left by those before it.
RecheckTx(paying, acc, e) ==
    LET t == e.tx
    IN  IF t \in paying \ delivered /\ Covers(acc.balance[t.payer], t.fee)
        THEN [pool |-> Append(acc.pool, e),
              balance |-> [acc.balance EXCEPT ![t.payer] = SubCoins(@, t.fee)]]
        ELSE acc

\* Mutant: the tax is not computed again in ReCheckTx.
RecheckBalances(paying) ==
    LET kept[n \in 0..Len(mempool)] ==
            IF n = 0 THEN [pool |-> <<>>, balance |-> balance]
            ELSE RecheckTx(Txs, kept[n - 1], mempool[n])
    IN  kept[Len(mempool)]

\* ReCheckTx of the transactions left in the mempool, in order, on the committed state.
Recheck(paying) ==
    LET kept[n \in 0..Len(mempool)] ==
            IF n = 0 THEN [pool |-> <<>>, balance |-> balance]
            ELSE RecheckTx(paying, kept[n - 1], mempool[n])
    IN  kept[Len(mempool)]

\* The end of a block and its commit.
CommitBlock ==
    /\ EndBlock
    /\ IF halted' THEN UNCHANGED anteVars
       ELSE /\ committed' = committed \cup delivered
            /\ delivered' = {}
            /\ \E left \in {Recheck({t \in Txs : CheckTxFees(t)'})} :
                  mempool' = left.pool /\ checkBalance' = left.balance
            /\ UNCHANGED <<oraclePrevoteMap, oracleVoteMap, nodeRestarts, balance, collected>>

\* The node stops between two blocks and starts again: what it holds in memory is lost.
RestartNode ==
    /\ delivered = {} /\ nodeRestarts < MaxNodeRestarts
    /\ nodeRestarts' = nodeRestarts + 1
    /\ mempool' = <<>>
    /\ oraclePrevoteMap' = [v \in Validators |-> None]
    /\ oracleVoteMap' = [v \in Validators |-> None]
    /\ checkBalance' = balance
    /\ UNCHANGED <<vars, balance, collected, delivered, committed>>

AnteNext ==
    \/ \E t \in Txs : CheckTx(t) \/ DeliverTx(t)
    \/ CommitBlock
    \/ RestartNode

AnteSpec == AnteInit /\ [][AnteNext]_<<vars, anteVars>>

(* Properties *)

\* The coins counted as tax proceeds were really paid (tax.go): all that was ever recorded,
\* also for transactions whose messages failed, is within what the fee collector received.
ProceedsCovered ==
    \A d \in Terra : SumFunction([e \in Epochs |-> taxLog[e][d]]) <= collected[d]

\* A transaction that waits in the mempool pays the tax of now: its tax is computed again
\* in ReCheckTx, after every block that may have changed the rate or a cap.
MempoolPaysTax ==
    \A i \in DOMAIN mempool : Covers(mempool[i].tx.fee, TaxOf(mempool[i].tx))

\* The two decorators agree: whatever is exempt from fees (isOracleTx) was examined to its
\* last message by CheckOracleSpamming, so that of each validator at most one prevote and
\* one vote enter the mempool for free at one height.
OneFreePerHeight ==
    \A i, j \in DOMAIN mempool :
        LET t == mempool[i].tx
            u == mempool[j].tx
        IN  mempool[i].height = mempool[j].height /\ FeeExempt(t) /\ FeeExempt(u) =>
                \A k \in DOMAIN t.msgs, l \in DOMAIN u.msgs :
                    <<i, k>> # <<j, l>> => ~SameSubmission(t.msgs[k], u.msgs[l])

===========================================================================
