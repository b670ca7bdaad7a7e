----------------------------- MODULE WasmDispatch -----------------------------
(***************************************************************************)
(* x/wasm: codes, contracts, and the messages contracts send each other.    *)
(* A transaction carries one message.  Handling it may run a contract, which*)
(* may dispatch sub-messages, each in a cached store and perhaps under a gas*)
(* limit of its own, and may ask to be called back with the outcome.  The   *)
(* call stack of the keeper is the variable `stack'.                        *)
(*                                                                          *)
(* The virtual machine is external: it may return any number of             *)
(* sub-messages up to MaxSubMsgs, fail, run out of gas, or panic.           *)
(***************************************************************************)
EXTENDS Stacks, FiniteSets, Functions

CONSTANTS Users,           \* accounts that sign transactions
          None,
          Messages,        \* the messages users send
          SubMessages,     \* the messages contracts send
          InitCodes,       \* the codes stored at first
          InitContracts,   \* the contracts that exist at first, by address
          InstanceBits,    \* 32 in the code
          MaxContractGas, TxGas,
          GasCosts,        \* what running a contract or a handler may cost
          GasLimits,       \* the limits a contract may set on a sub-message
          MaxSubMsgs, MaxTxs

ASSUME DispatchAssumption ==
    /\ InstanceBits \in Nat /\ MaxContractGas \in Nat /\ TxGas \in Nat
    /\ MaxSubMsgs \in Nat /\ MaxTxs \in Nat
    /\ GasCosts \subseteq Nat \ {0}
    /\ GasLimits \subseteq Nat
    /\ None \notin Users \cup Int

(* The contracts that exist at first have codes and the first instance ids. *)
ASSUME GenesisAssumption ==
    LET addresses == DOMAIN InitContracts
        ids == 1..Cardinality(addresses)
    IN  /\ InitCodes \in Seq([creator : Users, compiled : BOOLEAN])
        /\ addresses \subseteq Int /\ IsFiniteSet(addresses)
        /\ InitContracts \in [addresses -> [code  : DOMAIN InitCodes,
                                            id    : ids,
                                            admin : Users \cup addresses \cup {None}]]
        /\ \A a, b \in addresses : InitContracts[a].id = InitContracts[b].id => a = b

VARIABLES chain,           \* the committed store
          caches,          \* the cached stores over it, the innermost last
          meters,          \* the gas meters, the innermost last
          stack,           \* the calls in progress, the innermost last
          err,             \* how the innermost call is failing, if it is
          told,            \* the outcome of the last call that ended
          txs              \* transactions so far

vars == <<chain, caches, meters, stack, err, told, txs>>

-------------------------------------------------------------------------------
(* Stores.  `log' is history: what the transaction has written, in order. *)

GenerateContractAddress(codeID, instanceID) ==
    codeID * 2^InstanceBits + instanceID

InitStore == [codes          |-> InitCodes,
              lastInstanceID |-> Cardinality(DOMAIN InitContracts),
              accounts       |-> DOMAIN InitContracts,
              contracts      |-> InitContracts,
              log            |-> <<>>]

Logged(s, w) == [s EXCEPT !.log = Append(@, w)]

NextAddress(s, m) == GenerateContractAddress(m.code, s.lastInstanceID + 1)

RunsContract(m) == m.kind \in {"instantiate", "execute", "migrate"}

(* The contract whose code a message runs, and that code. *)
ContractOf(s, m) == IF m.kind = "instantiate" THEN NextAddress(s, m) ELSE m.contract

CodeOf(s, m) == IF m.kind = "execute" THEN s.contracts[m.contract].code ELSE m.code

(***************************************************************************)
(* The checks each handler makes before it changes anything that lasts.     *)
(***************************************************************************)
(* Mutant: a contract without an admin has everybody as its admin. *)
IsAdminOrNone(s, sender, contract) ==
    /\ contract \in DOMAIN s.contracts
    /\ s.contracts[contract].admin \in {sender, None}

IsAdmin(s, sender, contract) ==
    /\ contract \in DOMAIN s.contracts
    /\ s.contracts[contract].admin = sender

(* Mutant: the address is taken to be fresh. *)
CanInstantiateAnywhere(s, m) == m.code \in DOMAIN s.codes

CanInstantiate(s, m) ==
    /\ NextAddress(s, m) \notin s.accounts
    /\ m.code \in DOMAIN s.codes

CanExecute(s, m) == /\ m.contract \in DOMAIN s.contracts
                    /\ s.contracts[m.contract].code \in DOMAIN s.codes

CanMigrate(s, sender, m) == /\ IsAdmin(s, sender, m.contract)
                            /\ m.code \in DOMAIN s.codes

CanMigrateCode(s, sender, m) == /\ m.code \in DOMAIN s.codes
                                /\ ~s.codes[m.code].compiled
                                /\ s.codes[m.code].creator = sender

CanChangeAdmin(s, sender, m) == IsAdmin(s, sender, m.contract)

Accepts(s, sender, m) ==
    CASE m.kind = "instantiate" -> CanInstantiate(s, m)
      [] m.kind = "execute"     -> CanExecute(s, m)
      [] m.kind = "migrate"     -> CanMigrate(s, sender, m)
      [] m.kind = "migrateCode" -> CanMigrateCode(s, sender, m)
      [] m.kind \in {"updateAdmin", "clearAdmin"} -> CanChangeAdmin(s, sender, m)
      [] OTHER -> TRUE

(***************************************************************************)
(* The store once a handler has succeeded, before its sub-messages.         *)
(***************************************************************************)
StoreCode(s, sender) ==
    [s EXCEPT !.codes = Append(@, [creator |-> sender, compiled |-> TRUE])]

MigrateCode(s, m) == [s EXCEPT !.codes[m.code].compiled = TRUE]

SetContractInfo(contracts, a, info) ==
    [x \in DOMAIN contracts \cup {a} |-> IF x = a THEN info ELSE contracts[x]]

(* Mutant: the new instance id is used and not stored. *)
InstantiateUncounted(s, m) ==
    LET a == NextAddress(s, m)
        id == s.lastInstanceID + 1
    IN  [s EXCEPT !.accounts = @ \cup {a},
                  !.contracts = SetContractInfo(@, a, [code |-> m.code, id |-> id, admin |-> m.admin])]

InstantiateContract(s, m) ==
    LET a == NextAddress(s, m)
        id == s.lastInstanceID + 1
    IN  [s EXCEPT !.accounts = @ \cup {a},
                  !.lastInstanceID = id,
                  !.contracts = SetContractInfo(@, a, [code |-> m.code, id |-> id, admin |-> m.admin])]

MigrateContract(s, m) == [s EXCEPT !.contracts[m.contract].code = m.code]

SetAdmin(s, m) == [s EXCEPT !.contracts[m.contract].admin = m.admin]

Handled(s, sender, m) ==
    Logged(CASE m.kind = "instantiate" -> InstantiateContract(s, m)
             [] m.kind = "migrate"     -> MigrateContract(s, m)
             [] m.kind = "storeCode"   -> StoreCode(s, sender)
             [] m.kind = "migrateCode" -> MigrateCode(s, m)
             [] m.kind \in {"updateAdmin", "clearAdmin"} -> SetAdmin(s, m)
             [] OTHER -> s,
           "run")

-------------------------------------------------------------------------------
(* Gas meters. *)

Meter(limit) == [limit |-> limit, used |-> 0]

Remaining(meter) == meter.limit - meter.used

Consume(ms, gas) == [ms EXCEPT ![Len(ms)].used = @ + gas]

(* Mutant: what the caller has used already is forgotten. *)
LimitsWholeGas(limit, meter) == limit # None /\ limit < meter.limit

LimitsGas(limit, meter) == limit # None /\ limit < Remaining(meter)

ContractMeter(meter) ==
    Meter(IF Remaining(meter) > MaxContractGas THEN MaxContractGas ELSE Remaining(meter))

-------------------------------------------------------------------------------
(***************************************************************************)
(* Calls.  A frame is the handling of a message in a cache of its own, or of *)
(* a reply, which runs in the cache and under the meter of its contract.     *)
(* `limited' and `metered' say which meters it owns: the sub-message's limit *)
(* and the meter a contract message runs under, in this order.               *)
(***************************************************************************)
CallFrame(sender, m, replyOn, limited) ==
    [reply |-> FALSE, self |-> sender, todo |-> m, left |-> 0,
     replyOn |-> replyOn, limited |-> limited, metered |-> FALSE]

ReplyFrame(contract) ==
    [reply |-> TRUE, self |-> contract, todo |-> [kind |-> "reply"], left |-> 0,
     replyOn |-> "never", limited |-> FALSE, metered |-> FALSE]

Top == Last(stack)

SetTop(frame) == Append(Front(stack), frame)

Store == Last(caches)

SetStore(s) == Append(Front(caches), s)

Running == stack # <<>> /\ err = "nil"

Owned(frame) == (IF frame.limited THEN 1 ELSE 0) + (IF frame.metered THEN 1 ELSE 0)

(* The meters below the innermost call's own, charged with `gas'. *)
Charged(gas) == Consume(SubSeq(meters, 1, Len(meters) - Owned(Top)), gas)

OwnMeters == SubSeq(meters, Len(meters) - Owned(Top) + 1, Len(meters))

Fails(how) == err' = how /\ UNCHANGED <<chain, caches, meters, stack, told, txs>>

(***************************************************************************)
(* A transaction: its message is handled in the transaction's own cache.    *)
(***************************************************************************)
Deliver(user, m) ==
    /\ stack = <<>>
    /\ txs < MaxTxs
    /\ chain' = [chain EXCEPT !.log = <<>>]
    /\ caches' = <<chain'>>
    /\ meters' = <<Meter(TxGas)>>
    /\ stack' = <<CallFrame(user, m, "never", FALSE)>>
    /\ txs' = txs + 1
    /\ UNCHANGED <<err, told>>

(***************************************************************************)
(* A message that runs no contract: an admin change, a code, which may not   *)
(* compile, or a message of another module, which may fail by itself.        *)
(***************************************************************************)
HandleMessage ==
    /\ Running /\ ~Top.reply /\ Top.todo # None
    /\ ~RunsContract(Top.todo)
    /\ \E gas \in GasCosts :
         IF gas > Remaining(Last(meters))
         THEN Fails("outofgas")
         ELSE \/ /\ Accepts(Store, Top.self, Top.todo)
                 /\ caches' = SetStore(Handled(Store, Top.self, Top.todo))
                 /\ meters' = Consume(meters, gas)
                 /\ stack' = SetTop([Top EXCEPT !.todo = None])
                 /\ UNCHANGED <<chain, err, told, txs>>
              \/ /\ Accepts(Store, Top.self, Top.todo) =>
                        Top.todo.kind \in {"storeCode", "migrateCode", "other"}
                 /\ meters' = Consume(meters, gas)
                 /\ err' = "error"
                 /\ UNCHANGED <<chain, caches, stack, told, txs>>

(***************************************************************************)
(* A message that runs a contract, under a meter of what is left and no      *)
(* more than MaxContractGas.  When it fails that meter is dropped.           *)
(***************************************************************************)
RunContract ==
    /\ Running /\ ~Top.reply /\ Top.todo # None
    /\ RunsContract(Top.todo)
    /\ \E gas \in GasCosts :
         LET meter == ContractMeter(Last(meters))
         IN  IF gas > meter.limit
             THEN Fails("outofgas")
             ELSE \/ /\ Accepts(Store, Top.self, Top.todo)
                     /\ Store.codes[CodeOf(Store, Top.todo)].compiled
                     /\ \E n \in 0..MaxSubMsgs :
                          stack' = SetTop([Top EXCEPT !.todo = None, !.left = n,
                                                      !.metered = TRUE,
                                                      !.self = ContractOf(Store, Top.todo)])
                     /\ caches' = SetStore(Handled(Store, Top.self, Top.todo))
                     /\ meters' = Append(meters, [meter EXCEPT !.used = gas])
                     /\ UNCHANGED <<chain, err, told, txs>>
                  \/ Fails("error")
                  \/ Accepts(Store, Top.self, Top.todo) /\ Fails("panic")

(***************************************************************************)
(* The contract is told how its sub-message did, and may answer with more.   *)
(***************************************************************************)
Reply ==
    /\ Running /\ Top.reply /\ Top.todo # None
    /\ \E gas \in GasCosts :
         IF gas > Remaining(Last(meters))
         THEN Fails("outofgas")
         ELSE \/ /\ \E n \in 0..MaxSubMsgs :
                      stack' = SetTop([Top EXCEPT !.todo = None, !.left = n])
                 /\ caches' = SetStore(Logged(Store, "reply"))
                 /\ meters' = Consume(meters, gas)
                 /\ UNCHANGED <<chain, err, told, txs>>
              \/ Fails("error")
              \/ Fails("panic")

(***************************************************************************)
(* The next sub-message is parsed and taxed in its own cache, and handed to  *)
(* its handler if the contract may sign it.                                  *)
(***************************************************************************)
Taxed(m) == m.coins

Dispatch(m, replyOn, limit) ==
    /\ Running /\ Top.todo = None /\ Top.left > 0
    /\ IF replyOn = "unknown"
       THEN Fails("error")
       ELSE LET limited == LimitsGas(limit, Last(meters))
                caller  == [Top EXCEPT !.left = @ - 1]
            IN  /\ stack' = Append(SetTop(caller), CallFrame(Top.self, m, replyOn, limited))
                /\ meters' = IF limited THEN Append(meters, Meter(limit)) ELSE meters
                /\ \/ /\ caches' = Append(caches, IF Taxed(m) THEN Logged(Store, "tax") ELSE Store)
                      /\ err' \in {"nil", "error"}
                   \/ /\ caches' = Append(caches, Store)
                      /\ err' = "error"
                /\ UNCHANGED <<chain, told, txs>>

-------------------------------------------------------------------------------
(* How calls end. *)

(* The cached store goes away: into the one below, or nowhere. *)
Commit ==
    IF Len(caches) = 1
    THEN chain' = Store /\ caches' = <<>>
    ELSE chain' = chain /\ caches' = Append(Front(Front(caches)), Store)

(* Mutant: the cache is written back whatever the outcome. *)
CommitAnyway == Commit

Discard == chain' = chain /\ caches' = Front(caches)

(* The caller is called back, fails as well, or goes on. *)
Wanted(replyOn, ok) == replyOn \in {"always", IF ok THEN "success" ELSE "error"}

Below == Front(stack)

CallBack == Append(Below, ReplyFrame(Last(Below).self))

SpentBy(own) == IF own = <<>> THEN 0
                ELSE own[1].used + (IF Len(own) = 2 THEN own[2].used ELSE 0)

Return ==
    /\ Running /\ Top.todo = None /\ Top.left = 0
    /\ IF Top.reply
       THEN /\ stack' = Below
            /\ UNCHANGED <<chain, caches, meters, told>>
       ELSE /\ Commit
            /\ told' = "ok"
            /\ meters' = IF Below = <<>> THEN <<>> ELSE Charged(SpentBy(OwnMeters))
            /\ stack' = IF Wanted(Top.replyOn, TRUE) THEN CallBack ELSE Below
    /\ UNCHANGED <<err, txs>>

(***************************************************************************)
(* A failing call leaves nothing in the store.  Its caller pays what the     *)
(* limit's meter has recorded, or, when it ran out of gas under a limit, the *)
(* whole limit, and the panic stops there.  Any other panic goes on.         *)
(***************************************************************************)
Caught == err = "error" \/ (err = "outofgas" /\ Top.limited)

PaidByCaller == IF ~Top.limited THEN 0
                ELSE IF err = "outofgas" THEN OwnMeters[1].limit
                ELSE OwnMeters[1].used

(* Mutant: a panic that is not about gas is not passed on. *)
FailingButNoPanic == stack # <<>> /\ err \in {"error", "outofgas"}

Failing == stack # <<>> /\ err # "nil"

Fail ==
    /\ Failing
    /\ IF Top.reply
       THEN /\ stack' = Below
            /\ UNCHANGED <<chain, caches, meters, told, err>>
       ELSE /\ Discard
            /\ told' = "failed"
            /\ meters' = IF Below = <<>> THEN <<>> ELSE Charged(IF Caught THEN PaidByCaller ELSE 0)
            /\ IF Caught /\ Wanted(Top.replyOn, FALSE)
               THEN stack' = CallBack /\ err' = "nil"
               ELSE /\ stack' = Below
                    /\ err' = IF Below = <<>> THEN "nil"
                              ELSE IF Caught THEN "error" ELSE err
    /\ UNCHANGED txs

ReplyOns == {"never", "always", "success", "error", "unknown"}

Init == /\ chain = InitStore
        /\ caches = <<>> /\ meters = <<>> /\ stack = <<>>
        /\ err = "nil" /\ told = "ok" /\ txs = 0

Step == \/ HandleMessage
        \/ RunContract
        \/ Reply
        \/ \E m \in SubMessages, r \in ReplyOns, l \in GasLimits \cup {None} : Dispatch(m, r, l)
        \/ Return
        \/ Fail

Next == Step \/ \E u \in Users, m \in Messages : Deliver(u, m)

Spec == Init /\ [][Next]_vars

(* The node keeps executing the transaction it has begun. *)
FairSpec == Spec /\ WF_vars(Step)

-------------------------------------------------------------------------------
(* Properties. *)

Stores == {chain} \cup Range(caches)

(* The writes in force, and where each call in progress began, in a store     *)
(* with caches over it.                                                       *)
Writes == {"tax", "run", "reply"}

Base(s, over, i) == IF i = 1 THEN s ELSE over[i - 1]

LogOf(s, over) == IF over = <<>> THEN s.log ELSE Last(over).log

MarksOf(s, over) == [i \in 1..Len(over) |-> Len(Base(s, over, i).log)]

Calls == INSTANCE Savepoints WITH log <- LogOf(chain, caches), marks <- MarksOf(chain, caches)

(***************************************************************************)
(* However contracts call each other, and whatever instantiations were       *)
(* rolled back in between, no two contracts of a store share an instance id  *)
(* (contract.go:106-175: the id is stored before the contract's own          *)
(* sub-messages run).                                                        *)
(***************************************************************************)
InstanceIdsUnique ==
    \A s \in Stores : \A a, b \in DOMAIN s.contracts :
        s.contracts[a].id = s.contracts[b].id => a = b

(***************************************************************************)
(* What the meters of nested calls may still charge always fits in the       *)
(* meter below, so charging the caller never panics (connector.go:29-30,     *)
(* 107, 116; msg_server.go:100-120).                                         *)
(***************************************************************************)
GasFits ==
    /\ \A i \in DOMAIN meters : meters[i].used <= meters[i].limit
    /\ \A i \in 1..Len(meters) - 1 : meters[i + 1].limit <= Remaining(meters[i])

(***************************************************************************)
(* A contract is never replaced by another one, also when the identifier     *)
(* its address is made of overflows its 32 bits (contract.go:114-118).       *)
(***************************************************************************)
ContractsKept ==
    [][\A a \in DOMAIN chain.contracts :
         /\ a \in DOMAIN chain'.contracts
         /\ chain'.contracts[a].id = chain.contracts[a].id]_vars

(***************************************************************************)
(* A contract without an admin is never changed again (contract.go:288,      *)
(* msg_server.go:279 and 321).                                               *)
(***************************************************************************)
NoAdminNoChange ==
    [][\A a \in DOMAIN chain.contracts :
         chain.contracts[a].admin = None => chain'.contracts[a] = chain.contracts[a]]_vars

(***************************************************************************)
(* Nested calls implement nested savepoints: what a failed message and all   *)
(* that it called wrote, the tax on it included, is gone, what a successful  *)
(* one wrote is there, and the contract is told the truth                    *)
(* (connector.go:26-72).                                                     *)
(***************************************************************************)
CallsSpec == Calls!SPSpec

(***************************************************************************)
(* Every transaction ends: each message, contract run and reply costs gas,   *)
(* although a contract that fails under its own meter costs its caller       *)
(* nothing (msg_server.go:115-120).                                          *)
(***************************************************************************)
TxEnds == stack # <<>> ~> stack = <<>>
===============================================================================
