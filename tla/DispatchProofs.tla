---------------------------- MODULE DispatchProofs ----------------------------
(***************************************************************************)
(* Theorems about WasmDispatch, for any messages, codes, gas costs and depth *)
(* of calls: instance ids are unique, contracts are kept, a contract without *)
(* an admin is never changed, and nested calls implement Savepoints.         *)
(***************************************************************************)
EXTENDS WasmDispatch, SequenceTheorems, FiniteSetTheorems, TLAPS

(* What the state is made of *)

Address == DOMAIN InitContracts
           \cup {GenerateContractAddress(c, i) : c \in Nat, i \in Nat}

Sender == Users \cup Address

Todo == Messages \cup SubMessages \cup {None, [kind |-> "reply"]}

Admin == {m.admin : m \in Todo} \cup {InitContracts[a].admin : a \in DOMAIN InitContracts}

Contract == [code : Nat, id : Nat, admin : Admin]

StoreSet == [codes          : Seq([creator : Sender, compiled : BOOLEAN]),
             lastInstanceID : Nat,
             accounts       : SUBSET Address,
             contracts      : UNION {[D -> Contract] : D \in SUBSET Address},
             log            : Seq(Writes)]

\* The instance ids of a store are counted and unique, and its contracts have accounts.
Numbered(s) ==
    /\ DOMAIN s.contracts \subseteq s.accounts
    /\ \A a \in DOMAIN s.contracts : s.contracts[a].id \in 1..s.lastInstanceID
    /\ \A a, b \in DOMAIN s.contracts : s.contracts[a].id = s.contracts[b].id => a = b

GoodStore == {s \in StoreSet : Numbered(s)}

\* What no message may undo: t has the contracts of s, and those without an admin as they were.
Keeps(s, t) ==
    \A a \in DOMAIN s.contracts :
        /\ a \in DOMAIN t.contracts
        /\ t.contracts[a].id = s.contracts[a].id
        /\ s.contracts[a].admin = None => t.contracts[a] = s.contracts[a]

\* The log of t begins with that of s.
Begins(s, t) ==
    /\ Len(s.log) <= Len(t.log)
    /\ \A i \in 1..Len(s.log) : t.log[i] = s.log[i]

Later(s, t) == Keeps(s, t) /\ Begins(s, t)

-------------------------------------------------------------------------------
(***************************************************************************)
(* What each handler does to a store: the store after it is a later one, in  *)
(* which no instance id is used twice, no contract is lost and none without  *)
(* an admin has changed.                                                     *)
(***************************************************************************)

\* A store is later than itself.
LEMMA LaterReflexive ==
    ASSUME NEW s \in StoreSet
    PROVE  Later(s, s)
  BY DEF Later, Keeps, Begins, StoreSet

\* What is later than a later store is later.
LEMMA LaterTransitive ==
    ASSUME NEW s \in StoreSet, NEW t \in StoreSet, NEW u \in StoreSet,
           Later(s, t), Later(t, u)
    PROVE  Later(s, u)
  <1>1. Keeps(s, u)
    BY DEF Later, Keeps
  <1>2. Begins(s, u)
    <2>1. s.log \in Seq(Writes) /\ t.log \in Seq(Writes) /\ u.log \in Seq(Writes)
      BY DEF StoreSet
    <2>2. Len(s.log) \in Nat /\ Len(t.log) \in Nat /\ Len(u.log) \in Nat
      BY <2>1
    <2> QED BY <2>2 DEF Later, Begins
  <1> QED BY <1>1, <1>2 DEF Later

\* A write to the log changes nothing else.
LEMMA LoggedIsLater ==
    ASSUME NEW s \in GoodStore, NEW w \in Writes
    PROVE  /\ Logged(s, w) \in GoodStore
           /\ Later(s, Logged(s, w))
           /\ Logged(s, w).log = Append(s.log, w)
  <1>1. s \in StoreSet /\ Numbered(s)
    BY DEF GoodStore
  <1>2. s.log \in Seq(Writes)
    BY <1>1 DEF StoreSet
  <1>3. Append(s.log, w) \in Seq(Writes)
    BY <1>2
  <1>4. /\ Logged(s, w).log = Append(s.log, w)
        /\ Logged(s, w).contracts = s.contracts
        /\ Logged(s, w).accounts = s.accounts
        /\ Logged(s, w).lastInstanceID = s.lastInstanceID
    BY <1>1 DEF Logged, StoreSet
  <1>5. Logged(s, w) \in StoreSet
    BY <1>1, <1>3, Zenon DEF Logged, StoreSet
  <1>6. Numbered(Logged(s, w))
    BY <1>1, <1>4 DEF Numbered
  <1>7. Keeps(s, Logged(s, w))
    BY <1>4 DEF Keeps
  <1>8. Begins(s, Logged(s, w))
    BY <1>2, <1>4 DEF Begins
  <1> QED BY <1>4, <1>5, <1>6, <1>7, <1>8 DEF GoodStore, Later

\* The store with other accounts, another counter and other contracts.
LEMMA StoreExcept ==
    ASSUME NEW s \in StoreSet, NEW accounts, NEW n, NEW contracts
    PROVE  [s EXCEPT !.accounts = accounts, !.lastInstanceID = n, !.contracts = contracts]
           = [codes |-> s.codes, lastInstanceID |-> n, accounts |-> accounts,
              contracts |-> contracts, log |-> s.log]
  <1> DEFINE t == [s EXCEPT !.accounts = accounts]
             u == [t EXCEPT !.lastInstanceID = n]
  <1>1. t = [codes |-> s.codes, lastInstanceID |-> s.lastInstanceID, accounts |-> accounts,
             contracts |-> s.contracts, log |-> s.log]
    BY DEF StoreSet
  <1> HIDE DEF t
  <1>2. u = [codes |-> s.codes, lastInstanceID |-> n, accounts |-> accounts,
             contracts |-> s.contracts, log |-> s.log]
    BY <1>1
  <1> HIDE DEF u
  <1>3. [u EXCEPT !.contracts = contracts]
        = [codes |-> s.codes, lastInstanceID |-> n, accounts |-> accounts,
           contracts |-> contracts, log |-> s.log]
    BY <1>2
  <1> QED BY <1>3, Zenon DEF t, u

\* A new contract takes an id and an address that no other has (contract.go:91-196).
LEMMA InstantiateKeeps ==
    ASSUME NEW s \in GoodStore, NEW m \in Todo, CanInstantiate(s, m)
    PROVE  /\ InstantiateContract(s, m) \in GoodStore
           /\ Keeps(s, InstantiateContract(s, m))
           /\ InstantiateContract(s, m).log = s.log
  <1> DEFINE a == NextAddress(s, m)
             id == s.lastInstanceID + 1
             r == [code |-> m.code, id |-> id, admin |-> m.admin]
             t == InstantiateContract(s, m)
  <1>1. s \in StoreSet /\ Numbered(s)
    BY DEF GoodStore
  <1>2. s.lastInstanceID \in Nat /\ id \in Nat
    BY <1>1 DEF StoreSet
  <1>3. m.code \in Nat
    <2>1. s.codes \in Seq([creator : Sender, compiled : BOOLEAN])
      BY <1>1 DEF StoreSet
    <2>2. m.code \in DOMAIN s.codes
      BY DEF CanInstantiate
    <2> QED BY <2>1, <2>2
  <1>4. r \in Contract
    BY <1>2, <1>3 DEF Contract, Admin
  <1>5. a \in Address
    BY <1>2, <1>3 DEF Address, NextAddress
  <1>6. a \notin DOMAIN s.contracts
    BY <1>1 DEF CanInstantiate, Numbered
  <1>7. PICK D \in SUBSET Address : s.contracts \in [D -> Contract]
    BY <1>1 DEF StoreSet
  <1>8. DOMAIN s.contracts = D
    BY <1>7
  <1>9. /\ t.contracts = SetContractInfo(s.contracts, a, r)
        /\ t.accounts = s.accounts \cup {a}
        /\ t.lastInstanceID = id
        /\ t.log = s.log
        /\ t.codes = s.codes
        /\ t = [codes |-> t.codes, lastInstanceID |-> t.lastInstanceID, accounts |-> t.accounts,
                contracts |-> t.contracts, log |-> t.log]
    <2>1. t = [s EXCEPT !.accounts = s.accounts \cup {a}, !.lastInstanceID = id,
                        !.contracts = SetContractInfo(s.contracts, a, r)]
      BY Zenon DEF InstantiateContract
    <2> HIDE DEF a, id, r, t
    <2>2. t = [codes |-> s.codes, lastInstanceID |-> id, accounts |-> s.accounts \cup {a},
               contracts |-> SetContractInfo(s.contracts, a, r), log |-> s.log]
      BY <1>1, <2>1, StoreExcept, ZenonT(30)
    <2> QED BY <2>2
  <1>10. t.contracts = [x \in D \cup {a} |-> IF x = a THEN r ELSE s.contracts[x]]
    BY <1>8, <1>9 DEF SetContractInfo
  <1> HIDE DEF a, id, r, t
  <1>11. t \in StoreSet
    <2>1. t.contracts \in [D \cup {a} -> Contract]
      BY <1>4, <1>7, <1>10
    <2>2. D \cup {a} \in SUBSET Address
      BY <1>5, <1>7
    <2>3. t.contracts \in UNION {[E -> Contract] : E \in SUBSET Address}
      BY <2>1, <2>2
    <2> QED BY <1>1, <1>2, <1>5, <1>9, <2>3 DEF StoreSet
  <1>12. DOMAIN t.contracts = D \cup {a}
    BY <1>10
  <1>13. r.id = s.lastInstanceID + 1
    BY DEF r, id
  <1>14. Numbered(t)
    <2>1. DOMAIN t.contracts \subseteq t.accounts
      BY <1>1, <1>8, <1>9, <1>12 DEF Numbered
    <2>2. \A x \in D : s.contracts[x].id \in 1..s.lastInstanceID
      BY <1>1, <1>8 DEF Numbered
    <2>3. \A x \in D \cup {a} : t.contracts[x].id \in 1..t.lastInstanceID
      BY <1>2, <1>9, <1>10, <1>13, <2>2 DEF id
    <2>4. \A x, y \in D \cup {a} : t.contracts[x].id = t.contracts[y].id => x = y
      BY <1>1, <1>2, <1>8, <1>10, <1>13, <2>2 DEF Numbered
    <2> QED BY <1>12, <2>1, <2>3, <2>4 DEF Numbered
  <1>15. Keeps(s, t)
    BY <1>6, <1>8, <1>10, <1>12 DEF Keeps
  <1> QED BY <1>9, <1>11, <1>14, <1>15 DEF GoodStore, t
\* Whoever signs a message is somebody.
LEMMA SenderIsNotNone == None \notin Sender
  <1>1. \A c, i \in Nat : GenerateContractAddress(c, i) \in Int
    <2>1. 2^InstanceBits \in Int
      BY DispatchAssumption
    <2> QED BY <2>1 DEF GenerateContractAddress
  <1>2. Address \subseteq Int
    BY <1>1, GenesisAssumption DEF Address
  <1> QED BY <1>2, DispatchAssumption, Zenon DEF Sender

\* A store is made of its parts.
LEMMA StoreOf ==
    ASSUME NEW codes \in Seq([creator : Sender, compiled : BOOLEAN]),
           NEW last \in Nat, NEW accounts \in SUBSET Address,
           NEW contracts \in UNION {[D -> Contract] : D \in SUBSET Address},
           NEW log \in Seq(Writes)
    PROVE  [codes |-> codes, lastInstanceID |-> last, accounts |-> accounts,
            contracts |-> contracts, log |-> log] \in StoreSet
  BY Zenon DEF StoreSet

\* One contract is changed and keeps its id, if its admin asked for it.
LEMMA ChangeKeeps ==
    ASSUME NEW s \in GoodStore, NEW c \in DOMAIN s.contracts, s.contracts[c].admin # None,
           NEW info \in Contract, info.id = s.contracts[c].id,
           NEW t, t = [s EXCEPT !.contracts = [s.contracts EXCEPT ![c] = info]]
    PROVE  t \in GoodStore /\ Keeps(s, t) /\ t.log = s.log
  <1>1. s \in StoreSet /\ Numbered(s)
    BY DEF GoodStore
  <1>2. PICK D \in SUBSET Address : s.contracts \in [D -> Contract]
    BY <1>1 DEF StoreSet
  <1> DEFINE new == [s.contracts EXCEPT ![c] = info]
  <1>3. new \in [D -> Contract] /\ DOMAIN s.contracts = D
    BY <1>2
  <1>4. new[c] = info /\ \A a \in D : a # c => new[a] = s.contracts[a]
    BY <1>2
  <1>5. new \in UNION {[E -> Contract] : E \in SUBSET Address}
    BY <1>3
  <1> HIDE DEF new
  <1>6. t = [codes |-> s.codes, lastInstanceID |-> s.lastInstanceID, accounts |-> s.accounts,
             contracts |-> new, log |-> s.log]
    BY <1>1, ZenonT(30) DEF StoreSet, new
  <1>7. t \in StoreSet
    <2>1. /\ s.codes \in Seq([creator : Sender, compiled : BOOLEAN])
          /\ s.lastInstanceID \in Nat /\ s.accounts \in SUBSET Address /\ s.log \in Seq(Writes)
      BY <1>1 DEF StoreSet
    <2>2. [codes |-> s.codes, lastInstanceID |-> s.lastInstanceID, accounts |-> s.accounts,
           contracts |-> new, log |-> s.log] \in StoreSet
      BY <1>5, <2>1, StoreOf, Zenon
    <2> QED BY <1>6, <2>2, Zenon
  <1>8. DOMAIN new = D
    BY <1>3
  <1>9. \A a \in D : new[a].id = s.contracts[a].id
    BY <1>3, <1>4
  <1>10. Numbered(t)
    BY <1>1, <1>3, <1>6, <1>8, <1>9 DEF Numbered
  <1>11. Keeps(s, t)
    BY <1>3, <1>4, <1>6, <1>8, <1>9 DEF Keeps
  <1> QED BY <1>6, <1>7, <1>10, <1>11 DEF GoodStore
\* Migration and admin changes (contract.go:270-349, msg_server.go:256-342).
LEMMA MigrateKeeps ==
    ASSUME NEW s \in GoodStore, NEW sender \in Sender, NEW m \in Todo, CanMigrate(s, sender, m)
    PROVE  LET t == MigrateContract(s, m)
           IN  t \in GoodStore /\ Keeps(s, t) /\ t.log = s.log
  <1> DEFINE c == m.contract
             info == [s.contracts[c] EXCEPT !.code = m.code]
  <1>1. s \in StoreSet
    BY DEF GoodStore
  <1>2. c \in DOMAIN s.contracts /\ s.contracts[c].admin # None
    BY SenderIsNotNone DEF CanMigrate, IsAdmin
  <1>3. m.code \in Nat
    <2>1. s.codes \in Seq([creator : Sender, compiled : BOOLEAN])
      BY <1>1 DEF StoreSet
    <2>2. m.code \in DOMAIN s.codes
      BY DEF CanMigrate
    <2> QED BY <2>1, <2>2
  <1>4. s.contracts[c] \in Contract
    BY <1>1, <1>2 DEF StoreSet
  <1>5. info \in Contract /\ info.id = s.contracts[c].id
    BY <1>3, <1>4 DEF Contract
  <1>6. MigrateContract(s, m) = [s EXCEPT !.contracts = [s.contracts EXCEPT ![c] = info]]
    BY Zenon DEF MigrateContract
  <1> HIDE DEF c, info
  <1> QED BY <1>2, <1>5, <1>6, ChangeKeeps

LEMMA SetAdminKeeps ==
    ASSUME NEW s \in GoodStore, NEW sender \in Sender, NEW m \in Todo,
           CanChangeAdmin(s, sender, m)
    PROVE  LET t == SetAdmin(s, m)
           IN  t \in GoodStore /\ Keeps(s, t) /\ t.log = s.log
  <1> DEFINE c == m.contract
             info == [s.contracts[c] EXCEPT !.admin = m.admin]
  <1>1. s \in StoreSet
    BY DEF GoodStore
  <1>2. c \in DOMAIN s.contracts /\ s.contracts[c].admin # None
    BY SenderIsNotNone DEF CanChangeAdmin, IsAdmin
  <1>3. m.admin \in Admin
    BY DEF Admin
  <1>4. s.contracts[c] \in Contract
    BY <1>1, <1>2 DEF StoreSet
  <1>5. info \in Contract /\ info.id = s.contracts[c].id
    BY <1>3, <1>4 DEF Contract
  <1>6. SetAdmin(s, m) = [s EXCEPT !.contracts = [s.contracts EXCEPT ![c] = info]]
    BY Zenon DEF SetAdmin
  <1> HIDE DEF c, info
  <1> QED BY <1>2, <1>5, <1>6, ChangeKeeps

\* Codes are no contracts (contract.go:42-88).
LEMMA CodesKeep ==
    ASSUME NEW s \in GoodStore, NEW codes \in Seq([creator : Sender, compiled : BOOLEAN]),
           NEW t, t = [s EXCEPT !.codes = codes]
    PROVE  t \in GoodStore /\ Keeps(s, t) /\ t.log = s.log
  <1>1. s \in StoreSet /\ Numbered(s)
    BY DEF GoodStore
  <1>2. t = [codes |-> codes, lastInstanceID |-> s.lastInstanceID, accounts |-> s.accounts,
             contracts |-> s.contracts, log |-> s.log]
    BY <1>1 DEF StoreSet
  <1>3. t \in StoreSet
    BY <1>1, <1>2, Zenon DEF StoreSet
  <1>4. Numbered(t)
    BY <1>1, <1>2 DEF Numbered
  <1>5. Keeps(s, t)
    BY <1>2 DEF Keeps
  <1> QED BY <1>2, <1>3, <1>4, <1>5 DEF GoodStore

LEMMA StoreCodeKeeps ==
    ASSUME NEW s \in GoodStore, NEW sender \in Sender
    PROVE  LET t == StoreCode(s, sender)
           IN  t \in GoodStore /\ Keeps(s, t) /\ t.log = s.log
  <1>1. s.codes \in Seq([creator : Sender, compiled : BOOLEAN])
    BY DEF GoodStore, StoreSet
  <1>2. Append(s.codes, [creator |-> sender, compiled |-> TRUE])
          \in Seq([creator : Sender, compiled : BOOLEAN])
    BY <1>1
  <1> QED BY <1>2, CodesKeep, Zenon DEF StoreCode

LEMMA MigrateCodeKeeps ==
    ASSUME NEW s \in GoodStore, NEW sender, NEW m \in Todo, CanMigrateCode(s, sender, m)
    PROVE  LET t == MigrateCode(s, m)
           IN  t \in GoodStore /\ Keeps(s, t) /\ t.log = s.log
  <1> DEFINE codes == [s.codes EXCEPT ![m.code] = [s.codes[m.code] EXCEPT !.compiled = TRUE]]
  <1>1. s.codes \in Seq([creator : Sender, compiled : BOOLEAN])
    BY DEF GoodStore, StoreSet
  <1>2. m.code \in DOMAIN s.codes
    BY DEF CanMigrateCode
  <1>3. codes \in Seq([creator : Sender, compiled : BOOLEAN])
    <2>1. m.code \in 1..Len(s.codes)
      BY <1>1, <1>2
    <2>2. s.codes[m.code] \in [creator : Sender, compiled : BOOLEAN]
      BY <1>1, <2>1, ElementOfSeq, Zenon
    <2>3. \A code \in [creator : Sender, compiled : BOOLEAN] :
            [code EXCEPT !.compiled = TRUE] \in [creator : Sender, compiled : BOOLEAN]
      BY Zenon
    <2> QED BY <1>1, <2>1, <2>2, <2>3, ExceptSeq
  <1>4. MigrateCode(s, m) = [s EXCEPT !.codes = codes]
    BY Zenon DEF MigrateCode
  <1> HIDE DEF codes
  <1> QED BY <1>3, <1>4, CodesKeep, Zenon
\* Whatever message is handled, the store after it is a later one, with one more write.
LEMMA HandledIsLater ==
    ASSUME NEW s \in GoodStore, NEW sender \in Sender, NEW m \in Todo, Accepts(s, sender, m)
    PROVE  /\ Handled(s, sender, m) \in GoodStore
           /\ Later(s, Handled(s, sender, m))
           /\ Handled(s, sender, m).log = Append(s.log, "run")
  <1>1. \E t \in GoodStore : Keeps(s, t) /\ t.log = s.log /\ Handled(s, sender, m) = Logged(t, "run")
    <2>1. CASE m.kind = "instantiate"
      <3>1. CanInstantiate(s, m)
        BY <2>1 DEF Accepts
      <3>2. Handled(s, sender, m) = Logged(InstantiateContract(s, m), "run")
        BY <2>1 DEF Handled
      <3> QED BY <3>1, <3>2, InstantiateKeeps
    <2>2. CASE m.kind = "migrate"
      <3>1. CanMigrate(s, sender, m)
        BY <2>2 DEF Accepts
      <3>2. Handled(s, sender, m) = Logged(MigrateContract(s, m), "run")
        BY <2>2 DEF Handled
      <3> QED BY <3>1, <3>2, MigrateKeeps
    <2>3. CASE m.kind = "storeCode"
      <3>1. Handled(s, sender, m) = Logged(StoreCode(s, sender), "run")
        BY <2>3 DEF Handled
      <3> QED BY <3>1, StoreCodeKeeps
    <2>4. CASE m.kind = "migrateCode"
      <3>1. CanMigrateCode(s, sender, m)
        BY <2>4 DEF Accepts
      <3>2. Handled(s, sender, m) = Logged(MigrateCode(s, m), "run")
        BY <2>4 DEF Handled
      <3> QED BY <3>1, <3>2, MigrateCodeKeeps
    <2>5. CASE m.kind \in {"updateAdmin", "clearAdmin"}
      <3>1. CanChangeAdmin(s, sender, m)
        BY <2>5 DEF Accepts
      <3>2. Handled(s, sender, m) = Logged(SetAdmin(s, m), "run")
        BY <2>5 DEF Handled
      <3> QED BY <3>1, <3>2, SetAdminKeeps
    <2>6. CASE m.kind \notin {"instantiate", "migrate", "storeCode", "migrateCode",
                             "updateAdmin", "clearAdmin"}
      <3>1. Handled(s, sender, m) = Logged(s, "run")
        BY <2>6 DEF Handled
      <3>2. Keeps(s, s)
        BY DEF Keeps
      <3> QED BY <3>1, <3>2
    <2> QED BY <2>1, <2>2, <2>3, <2>4, <2>5, <2>6
  <1>2. PICK t \in GoodStore : /\ Keeps(s, t) /\ t.log = s.log
                              /\ Handled(s, sender, m) = Logged(t, "run")
    BY <1>1
  <1>3. /\ Logged(t, "run") \in GoodStore
        /\ Later(t, Logged(t, "run"))
        /\ Logged(t, "run").log = Append(t.log, "run")
    BY LoggedIsLater DEF Writes
  <1>4. s.log \in Seq(Writes) /\ s \in StoreSet /\ t \in StoreSet /\ Logged(t, "run") \in StoreSet
    BY <1>3 DEF GoodStore, StoreSet
  <1>5. Later(s, t)
    BY <1>2, <1>4 DEF Later, Begins
  <1> QED BY <1>2, <1>3, <1>4, <1>5, LaterTransitive

-------------------------------------------------------------------------------
(* The inductive invariant *)

Frame == [reply : BOOLEAN, self : Sender, todo : Todo, left : Nat, replyOn : ReplyOns,
          limited : BOOLEAN, metered : BOOLEAN]

\* The calls that have a cache of their own.
CallsOf(frames) == {i \in 1..Len(frames) : ~frames[i].reply}

\* Every call in progress has a cache; the outermost one is the transaction's message, to
\* which nobody replies.
Stacked(frames, n) ==
    /\ frames \in Seq(Frame)
    /\ frames # <<>> => ~frames[1].reply /\ frames[1].replyOn = "never"
    /\ n = Cardinality(CallsOf(frames))

\* Each cached store is later than the one it lies over.
Nested(s, over) ==
    /\ s \in GoodStore
    /\ over \in Seq(GoodStore)
    /\ \A i \in 1..Len(over) : Later(Base(s, over, i), over[i])

DispatchInv == Stacked(stack, Len(caches)) /\ Nested(chain, caches)

-------------------------------------------------------------------------------
(* Sequences *)

\* What is left of a sequence without its last element.
LEMMA FrontLast ==
    ASSUME NEW S, NEW q \in Seq(S), q # <<>>
    PROVE  /\ Front(q) \in Seq(S)
           /\ Len(Front(q)) = Len(q) - 1
           /\ \A i \in 1..Len(q) - 1 : Front(q)[i] = q[i]
           /\ Last(q) = q[Len(q)]
           /\ Last(q) \in S
           /\ Len(q) \in Nat \ {0}
  <1>1. Len(q) \in Nat \ {0}
    BY EmptySeq, LenProperties
  <1>2. \A i \in 1..Len(q) - 1 : q[i] \in S
    BY <1>1, ElementOfSeq
  <1>3. /\ Front(q) \in Seq(S)
        /\ Len(Front(q)) = Len(q) - 1
        /\ \A i \in 1..Len(q) - 1 : Front(q)[i] = q[i]
    <2> DEFINE n == Len(q) - 1
    <2>1. n \in Int /\ n + 1 = Len(q) /\ n >= 0
      BY <1>1
    <2>2. Front(q) = SubSeq(q, 1, n)
      BY DEF Front
    <2> HIDE DEF n
    <2>3. /\ SubSeq(q, 1, n) \in Seq(S)
          /\ Len(SubSeq(q, 1, n)) = IF 1 <= n THEN n - 1 + 1 ELSE 0
          /\ \A i \in 1..n - 1 + 1 : SubSeq(q, 1, n)[i] = q[1 + i - 1]
      BY <1>2, <2>1, SubSeqProperties DEF n
    <2>4. Len(Front(q)) = n
      BY <2>1, <2>2, <2>3
    <2>5. \A i \in 1..n : Front(q)[i] = q[i]
      BY <2>1, <2>2, <2>3
    <2> QED BY <2>2, <2>3, <2>4, <2>5 DEF n
  <1> QED BY <1>1, <1>3, ElementOfSeq DEF Last

\* A sequence with another last element.
LEMMA ReplaceLast ==
    ASSUME NEW S, NEW q \in Seq(S), q # <<>>, NEW e \in S
    PROVE  LET r == Append(Front(q), e)
           IN  /\ r \in Seq(S)
               /\ Len(r) = Len(q)
               /\ \A i \in 1..Len(q) - 1 : r[i] = q[i]
               /\ r[Len(q)] = e
  <1>1. /\ Front(q) \in Seq(S) /\ Len(Front(q)) = Len(q) - 1 /\ Len(q) \in Nat \ {0}
        /\ \A i \in 1..Len(q) - 1 : Front(q)[i] = q[i]
    BY FrontLast
  <1>2. LET r == Append(Front(q), e)
        IN  /\ r \in Seq(S)
            /\ Len(r) = Len(Front(q)) + 1
            /\ \A i \in 1..Len(Front(q)) : r[i] = Front(q)[i]
            /\ r[Len(Front(q)) + 1] = e
    BY <1>1, AppendProperties
  <1> QED BY <1>1, <1>2

-------------------------------------------------------------------------------
(* The number of calls *)

LEMMA CallsFinite ==
    ASSUME NEW frames \in Seq(Frame)
    PROVE  IsFiniteSet(CallsOf(frames)) /\ Cardinality(CallsOf(frames)) \in Nat
  <1>1. Len(frames) \in Nat
    BY LenProperties
  <1>2. IsFiniteSet(1..Len(frames))
    BY <1>1, FS_Interval
  <1>3. IsFiniteSet(CallsOf(frames))
    BY <1>2, FS_Subset DEF CallsOf
  <1> QED BY <1>3, FS_CardinalityType

\* A new call counts, a reply does not.
LEMMA CallsPush ==
    ASSUME NEW frames \in Seq(Frame), NEW f \in Frame
    PROVE  Cardinality(CallsOf(Append(frames, f)))
           = Cardinality(CallsOf(frames)) + (IF f.reply THEN 0 ELSE 1)
  <1> DEFINE n == Len(frames) + 1
  <1>1. Len(frames) \in Nat
    BY LenProperties
  <1>2. /\ Len(Append(frames, f)) = n /\ Append(frames, f)[n] = f
        /\ \A i \in 1..Len(frames) : Append(frames, f)[i] = frames[i]
    BY AppendProperties
  <1>3. CASE f.reply
    <2>1. CallsOf(Append(frames, f)) = CallsOf(frames)
      BY <1>1, <1>2, <1>3 DEF CallsOf
    <2> QED BY <1>3, <2>1, CallsFinite
  <1>4. CASE ~f.reply
    <2>1. CallsOf(Append(frames, f)) = CallsOf(frames) \cup {n}
      BY <1>1, <1>2, <1>4 DEF CallsOf
    <2>2. n \notin CallsOf(frames)
      BY <1>1 DEF CallsOf
    <2> HIDE DEF n
    <2> QED BY <1>4, <2>1, <2>2, CallsFinite, FS_AddElement, Zenon
  <1> QED BY <1>3, <1>4

\* And so the other way round.
LEMMA CallsPop ==
    ASSUME NEW frames \in Seq(Frame), frames # <<>>
    PROVE  Cardinality(CallsOf(frames))
           = Cardinality(CallsOf(Front(frames))) + (IF Last(frames).reply THEN 0 ELSE 1)
  <1>1. Front(frames) \in Seq(Frame) /\ Last(frames) \in Frame
    BY FrontLast
  <1>2. frames = Append(Front(frames), Last(frames))
    <2>1. LET r == Append(Front(frames), Last(frames))
          IN  /\ r \in Seq(Frame) /\ Len(r) = Len(frames)
              /\ \A i \in 1..Len(frames) - 1 : r[i] = frames[i]
              /\ r[Len(frames)] = Last(frames)
      BY <1>1, ReplaceLast
    <2>2. Last(frames) = frames[Len(frames)] /\ Len(frames) \in Nat \ {0}
      BY FrontLast, ZenonT(30)
    <2>3. \A i \in 1..Len(frames) : Append(Front(frames), Last(frames))[i] = frames[i]
      BY <2>1, <2>2
    <2> QED BY <2>1, <2>3, SeqEqual
  <1> QED BY <1>1, <1>2, CallsPush, ZenonT(30)

-------------------------------------------------------------------------------
(* Caches *)

\* The innermost store is written to.
LEMMA NestWrite ==
    ASSUME NEW s, NEW over, Nested(s, over), over # <<>>,
           NEW t \in GoodStore, Later(Last(over), t)
    PROVE  LET new == Append(Front(over), t)
           IN  /\ Nested(s, new)
               /\ MarksOf(s, new) = MarksOf(s, over)
               /\ LogOf(s, new) = t.log
               /\ new # <<>>
  <1> DEFINE new == Append(Front(over), t)
             n == Len(over)
  <1>1. over \in Seq(GoodStore) /\ s \in GoodStore
    BY DEF Nested
  <1>2. n \in Nat \ {0} /\ Last(over) = over[n] /\ Last(over) \in GoodStore
    BY <1>1, FrontLast
  <1>3. /\ new \in Seq(GoodStore) /\ Len(new) = n /\ new[n] = t
        /\ \A i \in 1..n - 1 : new[i] = over[i]
    BY <1>1, ReplaceLast
  <1> HIDE DEF new, n
  <1>4. \A i \in 1..n : Base(s, new, i) = Base(s, over, i)
    BY <1>2, <1>3 DEF Base
  <1>5. \A i \in 1..n : Later(Base(s, over, i), over[i]) /\ Base(s, over, i) \in StoreSet
    <2>1. \A i \in 1..n : Base(s, over, i) \in GoodStore
      <3>1. \A i \in 1..n : over[i] \in GoodStore
        BY <1>1, ElementOfSeq DEF n
      <3> QED BY <1>1, <1>2, <3>1 DEF Base
    <2> QED BY <2>1 DEF Nested, n, GoodStore
  <1>6. Later(Base(s, over, n), t)
    <2>1. Later(Base(s, over, n), over[n]) /\ Base(s, over, n) \in StoreSet
      BY <1>2, <1>5
    <2>2. over[n] \in StoreSet /\ t \in StoreSet
      BY <1>2 DEF GoodStore
    <2> QED BY <1>2, <2>1, <2>2, LaterTransitive
  <1>7. \A i \in 1..n : Later(Base(s, new, i), new[i])
    <2> TAKE i \in 1..n
    <2>1. CASE i = n
      BY <1>3, <1>4, <1>6, <2>1
    <2>2. CASE i # n
      <3>1. i \in 1..n - 1
        BY <1>2, <2>2
      <3> QED BY <1>3, <1>4, <1>5, <3>1
    <2> QED BY <2>1, <2>2
  <1>8. Nested(s, new)
    BY <1>1, <1>3, <1>7 DEF Nested
  <1>9. MarksOf(s, new) = MarksOf(s, over)
    BY <1>3, <1>4 DEF MarksOf, n
  <1>10. new # <<>>
    BY <1>2, <1>3
  <1>11. LogOf(s, new) = t.log
    BY <1>3, <1>10 DEF LogOf, Last
  <1> QED BY <1>8, <1>9, <1>10, <1>11 DEF new

\* Another cache is laid over the innermost store.
LEMMA NestBegin ==
    ASSUME NEW s, NEW over, Nested(s, over), over # <<>>,
           NEW t \in GoodStore, Later(Last(over), t)
    PROVE  /\ Nested(s, Append(over, t))
           /\ MarksOf(s, Append(over, t)) = Append(MarksOf(s, over), Len(Last(over).log))
           /\ LogOf(s, Append(over, t)) = t.log
  <1> DEFINE new == Append(over, t)
             n == Len(over)
  <1>1. over \in Seq(GoodStore) /\ s \in GoodStore
    BY DEF Nested
  <1>2. n \in Nat \ {0} /\ Last(over) = over[n]
    BY <1>1, FrontLast, Zenon
  <1>3. /\ new \in Seq(GoodStore) /\ Len(new) = n + 1 /\ new[n + 1] = t /\ new # <<>>
        /\ \A i \in 1..n : new[i] = over[i]
    BY <1>1, AppendProperties
  <1> HIDE DEF new, n
  <1>4. /\ \A i \in 1..n : Base(s, new, i) = Base(s, over, i)
        /\ Base(s, new, n + 1) = Last(over)
    BY <1>2, <1>3 DEF Base
  <1>5. \A i \in 1..n + 1 : Later(Base(s, new, i), new[i])
    <2> TAKE i \in 1..n + 1
    <2>1. CASE i = n + 1
      BY <1>3, <1>4, <2>1
    <2>2. CASE i \in 1..n
      BY <1>3, <1>4, <2>2 DEF Nested, n
    <2> QED BY <1>2, <2>1, <2>2
  <1>6. Nested(s, new)
    BY <1>1, <1>3, <1>5 DEF Nested
  <1>7. MarksOf(s, new) = Append(MarksOf(s, over), Len(Last(over).log))
    <2> DEFINE old == MarksOf(s, over)
               S == {Len(Base(s, new, i).log) : i \in 1..n + 1}
    <2>1. old = [i \in 1..n |-> Len(Base(s, new, i).log)]
      BY <1>2, <1>4 DEF MarksOf, n
    <2>2. old \in Seq(S) /\ Len(old) = n
      BY <1>2, <2>1, IsASeq
    <2>3. Len(Last(over).log) \in S
      BY <1>2, <1>4
    <2>4. /\ Append(old, Len(Last(over).log)) \in Seq(S)
          /\ Len(Append(old, Len(Last(over).log))) = n + 1
          /\ \A i \in 1..n : Append(old, Len(Last(over).log))[i] = old[i]
          /\ Append(old, Len(Last(over).log))[n + 1] = Len(Last(over).log)
      BY <2>2, <2>3, AppendProperties
    <2>5. MarksOf(s, new) = [i \in 1..n + 1 |-> Len(Base(s, new, i).log)]
      BY <1>3 DEF MarksOf
    <2>6. MarksOf(s, new) \in Seq(S) /\ Len(MarksOf(s, new)) = n + 1
      BY <1>2, <2>5, IsASeq
    <2>7. \A i \in 1..n + 1 : MarksOf(s, new)[i] = Append(old, Len(Last(over).log))[i]
      <3> HIDE DEF old
      <3> TAKE i \in 1..n + 1
      <3>1. CASE i = n + 1
        BY <1>4, <2>4, <2>5, <3>1
      <3>2. CASE i \in 1..n
        BY <1>2, <2>1, <2>4, <2>5, <3>2
      <3>3. i = n + 1 \/ i \in 1..n
        BY <1>2
      <3> QED BY <3>1, <3>2, <3>3, Zenon
    <2> HIDE DEF old, S
    <2> QED BY <2>4, <2>6, <2>7, SeqEqual DEF old
  <1>8. LogOf(s, new) = t.log
    BY <1>3 DEF LogOf, Last
  <1> QED BY <1>6, <1>7, <1>8 DEF new

\* The innermost cache is dropped.
LEMMA NestDiscard ==
    ASSUME NEW s, NEW over, Nested(s, over), over # <<>>
    PROVE  /\ Nested(s, Front(over))
           /\ MarksOf(s, Front(over)) = Front(MarksOf(s, over))
           /\ Len(MarksOf(s, over)) = Len(over)
           /\ LogOf(s, Front(over)) = Base(s, over, Len(over)).log
           /\ Last(MarksOf(s, over)) = Len(Base(s, over, Len(over)).log)
  <1> DEFINE new == Front(over)
             n == Len(over)
  <1>1. over \in Seq(GoodStore) /\ s \in GoodStore
    BY DEF Nested
  <1>2. /\ n \in Nat \ {0}
        /\ new \in Seq(GoodStore) /\ Len(new) = n - 1
        /\ \A i \in 1..n - 1 : new[i] = over[i]
    BY <1>1, FrontLast
  <1> HIDE DEF new, n
  <1>3. \A i \in 1..n - 1 : Base(s, new, i) = Base(s, over, i)
    BY <1>2 DEF Base
  <1>4. \A i \in 1..n - 1 : Later(Base(s, new, i), new[i])
    BY <1>2, <1>3 DEF Nested, n
  <1>5. Nested(s, new)
    BY <1>1, <1>2, <1>4 DEF Nested
  <1>6. /\ MarksOf(s, new) = Front(MarksOf(s, over))
        /\ Len(MarksOf(s, over)) = n
        /\ Last(MarksOf(s, over)) = Len(Base(s, over, n).log)
    <2> DEFINE old == MarksOf(s, over)
               S == {Len(Base(s, over, i).log) : i \in 1..n}
    <2>1. old = [i \in 1..n |-> Len(Base(s, over, i).log)]
      BY DEF MarksOf, n
    <2>2. old \in Seq(S) /\ Len(old) = n
      BY <1>2, <2>1, IsASeq
    <2>3. MarksOf(s, new) = [i \in 1..n - 1 |-> Len(Base(s, over, i).log)]
      BY <1>2, <1>3 DEF MarksOf
    <2>4. MarksOf(s, new) \in Seq(S) /\ Len(MarksOf(s, new)) = n - 1
      <3>1. n - 1 \in Nat
        BY <1>2
      <3>2. MarksOf(s, new) \in [1..n - 1 -> S]
        BY <1>2, <2>3
      <3> QED BY <3>1, <3>2, IsASeq
    <2> HIDE DEF old
    <2>5. old # <<>>
      BY <1>2, <2>2
    <2>6. /\ Front(old) \in Seq(S) /\ Len(Front(old)) = n - 1 /\ Last(old) = old[n]
          /\ \A i \in 1..n - 1 : Front(old)[i] = old[i]
      BY <2>2, <2>5, FrontLast, Zenon
    <2>7. \A i \in 1..n - 1 : MarksOf(s, new)[i] = Front(old)[i]
      <3> TAKE i \in 1..n - 1
      <3>1. i \in 1..n
        BY <1>2
      <3>2. old[i] = Len(Base(s, over, i).log)
        BY <2>1, <3>1
      <3>3. MarksOf(s, new)[i] = Len(Base(s, over, i).log)
        BY <2>3
      <3>4. Front(old)[i] = old[i]
        BY <2>6
      <3> QED BY <3>2, <3>3, <3>4
    <2>8. MarksOf(s, new) = Front(old)
      <3> HIDE DEF S
      <3> QED BY <2>4, <2>6, <2>7, SeqEqual
    <2> QED BY <1>2, <2>1, <2>2, <2>6, <2>8 DEF old
  <1>7. LogOf(s, new) = Base(s, over, n).log
    <2>1. CASE n = 1
      <3>1. new = <<>>
        BY <1>2, <2>1
      <3> QED BY <2>1, <3>1 DEF LogOf, Base
    <2>2. CASE n # 1
      <3>1. new # <<>> /\ Last(new) = over[n - 1]
        BY <1>2, <2>2 DEF Last
      <3> QED BY <2>2, <3>1 DEF LogOf, Base
    <2> QED BY <2>1, <2>2
  <1> QED BY <1>5, <1>6, <1>7 DEF new, n

\* The innermost cache is written to the store below, the chain's if there is no other.
LEMMA NestCommit ==
    ASSUME NEW s, NEW over, Nested(s, over), over # <<>>
    PROVE  /\ Len(over) = 1 =>
                /\ Nested(Last(over), <<>>)
                /\ Later(s, Last(over))
                /\ MarksOf(Last(over), <<>>) = Front(MarksOf(s, over))
                /\ LogOf(Last(over), <<>>) = LogOf(s, over)
           /\ Len(over) # 1 =>
                LET new == Append(Front(Front(over)), Last(over))
                IN  /\ Nested(s, new)
                    /\ MarksOf(s, new) = Front(MarksOf(s, over))
                    /\ LogOf(s, new) = LogOf(s, over)
                    /\ Len(new) = Len(over) - 1
  <1> DEFINE n == Len(over)
             mid == Front(over)
             t == Last(over)
  <1>1. over \in Seq(GoodStore) /\ s \in GoodStore
    BY DEF Nested
  <1>2. /\ n \in Nat \ {0} /\ t = over[n] /\ t \in GoodStore
        /\ mid \in Seq(GoodStore) /\ Len(mid) = n - 1
        /\ \A i \in 1..n - 1 : mid[i] = over[i]
    BY <1>1, FrontLast
  <1>3. /\ Nested(s, mid)
        /\ MarksOf(s, mid) = Front(MarksOf(s, over))
    BY NestDiscard
  <1>4. LogOf(s, over) = t.log
    BY DEF LogOf
  <1>5. Later(Base(s, over, n), over[n])
    BY <1>2 DEF Nested
  <1> HIDE DEF n, mid, t
  <1>6. ASSUME n = 1
        PROVE  /\ Nested(t, <<>>)
               /\ Later(s, t)
               /\ MarksOf(t, <<>>) = Front(MarksOf(s, over))
               /\ LogOf(t, <<>>) = LogOf(s, over)
    <2>1. mid = <<>>
      BY <1>2, <1>6
    <2>2. Nested(t, <<>>)
      BY <1>2, EmptySeq DEF Nested
    <2>3. Later(s, t)
      BY <1>2, <1>5, <1>6 DEF Base
    <2>4. MarksOf(t, <<>>) = MarksOf(s, <<>>)
      <3>1. Len(<<>>) = 0
        OBVIOUS
      <3>2. \A i \in 1..Len(<<>>) : FALSE
        BY <3>1
      <3> QED BY <3>2 DEF MarksOf
    <2>5. LogOf(t, <<>>) = t.log
      BY DEF LogOf
    <2> QED BY <1>3, <1>4, <2>1, <2>2, <2>3, <2>4, <2>5
  <1>7. ASSUME n # 1
        PROVE  LET new == Append(Front(mid), t)
               IN  /\ Nested(s, new)
                   /\ MarksOf(s, new) = Front(MarksOf(s, over))
                   /\ LogOf(s, new) = LogOf(s, over)
                   /\ Len(new) = n - 1
    <2>1. mid # <<>>
      BY <1>2, <1>7
    <2>2. Last(mid) = over[n - 1]
      BY <1>2, <1>7 DEF Last
    <2>3. Later(Last(mid), t)
      BY <1>2, <1>5, <1>7, <2>2 DEF Base
    <2>4. LET new == Append(Front(mid), t)
          IN  /\ Nested(s, new)
              /\ MarksOf(s, new) = MarksOf(s, mid)
              /\ LogOf(s, new) = t.log
      BY <1>2, <1>3, <2>1, <2>3, NestWrite
    <2>5. Len(Append(Front(mid), t)) = n - 1
      BY <1>2, <2>1, ReplaceLast
    <2> QED BY <1>3, <1>4, <2>4, <2>5
  <1> QED BY <1>6, <1>7 DEF n, mid, t

-------------------------------------------------------------------------------
(* The stack *)

\* A call in progress has a cache.
LEMMA StackedCounts ==
    ASSUME NEW frames, NEW n, Stacked(frames, n)
    PROVE  n \in Nat /\ (frames # <<>> <=> n # 0)
  <1>1. frames \in Seq(Frame) /\ n = Cardinality(CallsOf(frames))
    BY DEF Stacked
  <1>2. IsFiniteSet(CallsOf(frames)) /\ n \in Nat
    BY <1>1, CallsFinite
  <1>3. ASSUME frames # <<>> PROVE n # 0
    <2>1. Len(frames) \in Nat \ {0}
      BY <1>1, <1>3, FrontLast
    <2>2. 1 \in CallsOf(frames)
      BY <1>3, <2>1 DEF CallsOf, Stacked
    <2> QED BY <1>1, <1>2, <2>2, FS_EmptySet
  <1>4. ASSUME frames = <<>> PROVE n = 0
    <2>1. CallsOf(frames) = {}
      BY <1>4 DEF CallsOf
    <2> QED BY <1>1, <2>1, FS_EmptySet
  <1> QED BY <1>2, <1>3, <1>4

\* The innermost call goes on.
LEMMA StackTop ==
    ASSUME NEW frames, NEW n, Stacked(frames, n), frames # <<>>,
           NEW f \in Frame, f.reply = Last(frames).reply, f.replyOn = Last(frames).replyOn
    PROVE  Stacked(Append(Front(frames), f), n) /\ Append(Front(frames), f) # <<>>
  <1> DEFINE new == Append(Front(frames), f)
  <1>1. frames \in Seq(Frame) /\ n = Cardinality(CallsOf(frames))
    BY DEF Stacked
  <1>2. /\ Len(frames) \in Nat \ {0} /\ Last(frames) = frames[Len(frames)]
        /\ Front(frames) \in Seq(Frame)
    BY <1>1, FrontLast
  <1>3. /\ new \in Seq(Frame) /\ Len(new) = Len(frames) /\ new[Len(frames)] = f
        /\ \A i \in 1..Len(frames) - 1 : new[i] = frames[i]
    BY <1>1, ReplaceLast
  <1>4. n = Cardinality(CallsOf(new))
    BY <1>1, <1>2, CallsPop, CallsPush
  <1> HIDE DEF new
  <1>5. ~new[1].reply /\ new[1].replyOn = "never"
    <2>1. ~frames[1].reply /\ frames[1].replyOn = "never"
      BY DEF Stacked
    <2>2. CASE Len(frames) = 1
      BY <1>2, <1>3, <2>1, <2>2
    <2>3. CASE Len(frames) # 1
      BY <1>2, <1>3, <2>1, <2>3
    <2> QED BY <2>2, <2>3
  <1>6. new # <<>>
    BY <1>2, <1>3
  <1> QED BY <1>3, <1>4, <1>5, <1>6 DEF Stacked, new

\* A call or a reply begins.
LEMMA StackPush ==
    ASSUME NEW frames, NEW n, Stacked(frames, n), NEW f \in Frame,
           frames = <<>> => ~f.reply /\ f.replyOn = "never"
    PROVE  Stacked(Append(frames, f), n + (IF f.reply THEN 0 ELSE 1))
  <1>1. frames \in Seq(Frame) /\ n = Cardinality(CallsOf(frames))
    BY DEF Stacked
  <1>2. Len(frames) \in Nat /\ (frames = <<>> <=> Len(frames) = 0)
    BY <1>1, EmptySeq, LenProperties
  <1>3. /\ Append(frames, f) \in Seq(Frame) /\ Append(frames, f)[Len(frames) + 1] = f
        /\ \A i \in 1..Len(frames) : Append(frames, f)[i] = frames[i]
    BY <1>1, AppendProperties
  <1>4. ~Append(frames, f)[1].reply /\ Append(frames, f)[1].replyOn = "never"
    <2>1. CASE frames = <<>>
      BY <1>2, <1>3, <2>1
    <2>2. CASE frames # <<>>
      BY <1>2, <1>3, <2>2 DEF Stacked
    <2> QED BY <2>1, <2>2
  <1> QED BY <1>1, <1>3, <1>4, CallsPush DEF Stacked

\* The innermost call or reply ends.
LEMMA StackPop ==
    ASSUME NEW frames, NEW n, Stacked(frames, n), frames # <<>>
    PROVE  /\ Stacked(Front(frames), n - (IF Last(frames).reply THEN 0 ELSE 1))
           /\ Front(frames) = <<>> => ~Last(frames).reply /\ Last(frames).replyOn = "never"
           /\ Last(frames) \in Frame
  <1>1. frames \in Seq(Frame) /\ n = Cardinality(CallsOf(frames)) /\ n \in Nat
    BY StackedCounts DEF Stacked
  <1>2. /\ Front(frames) \in Seq(Frame) /\ Len(Front(frames)) = Len(frames) - 1
        /\ Len(frames) \in Nat \ {0} /\ Last(frames) = frames[Len(frames)]
        /\ Last(frames) \in Frame
        /\ \A i \in 1..Len(frames) - 1 : Front(frames)[i] = frames[i]
    BY <1>1, FrontLast
  <1>3. Cardinality(CallsOf(Front(frames))) = n - (IF Last(frames).reply THEN 0 ELSE 1)
    <2>1. Cardinality(CallsOf(Front(frames))) \in Nat
      BY <1>2, CallsFinite
    <2>2. n = Cardinality(CallsOf(Front(frames))) + (IF Last(frames).reply THEN 0 ELSE 1)
      BY <1>1, CallsPop
    <2> QED BY <2>1, <2>2
  <1>4. ~frames[1].reply /\ frames[1].replyOn = "never"
    BY DEF Stacked
  <1>5. Front(frames) # <<>> => Front(frames)[1] = frames[1]
    BY <1>2
  <1>6. Front(frames) = <<>> => Last(frames) = frames[1]
    <2>1. Len(<<>>) = 0
      OBVIOUS
    <2>2. Front(frames) = <<>> => Len(frames) = 1
      BY <1>2, <2>1
    <2> QED BY <1>2, <2>2, Zenon
  <1> QED BY <1>2, <1>3, <1>4, <1>5, <1>6 DEF Stacked
-------------------------------------------------------------------------------
(* Frames *)

LEMMA CallFrameType ==
    ASSUME NEW sender \in Sender, NEW m \in Todo, NEW r \in ReplyOns, NEW limited \in BOOLEAN
    PROVE  LET f == CallFrame(sender, m, r, limited)
           IN  f \in Frame /\ ~f.reply /\ f.replyOn = r
  BY DEF CallFrame, Frame

LEMMA ReplyFrameType ==
    ASSUME NEW contract \in Sender
    PROVE  ReplyFrame(contract) \in Frame /\ ReplyFrame(contract).reply
  <1>1. [kind |-> "reply"] \in Todo
    BY DEF Todo
  <1> QED BY <1>1 DEF ReplyFrame, Frame, ReplyOns

\* A frame with nothing left to handle.
LEMMA FrameHandled ==
    ASSUME NEW f \in Frame
    PROVE  LET g == [f EXCEPT !.todo = None]
           IN  g \in Frame /\ g.reply = f.reply /\ g.replyOn = f.replyOn
  <1>1. None \in Todo
    BY DEF Todo
  <1> QED BY <1>1 DEF Frame

LEMMA FrameLeft ==
    ASSUME NEW f \in Frame, NEW n \in Nat
    PROVE  LET g == [f EXCEPT !.left = n]
           IN  g \in Frame /\ g.reply = f.reply /\ g.replyOn = f.replyOn
  BY DEF Frame

LEMMA FrameMetered ==
    ASSUME NEW f \in Frame
    PROVE  LET g == [f EXCEPT !.metered = TRUE]
           IN  g \in Frame /\ g.reply = f.reply /\ g.replyOn = f.replyOn
  BY Zenon DEF Frame

LEMMA FrameSelf ==
    ASSUME NEW f \in Frame, NEW a \in Sender
    PROVE  LET g == [f EXCEPT !.self = a]
           IN  g \in Frame /\ g.reply = f.reply /\ g.replyOn = f.replyOn
  BY DEF Frame

\* The frame of a contract that has run.
LEMMA FrameRan ==
    ASSUME NEW f \in Frame, NEW n \in Nat, NEW a \in Sender
    PROVE  LET g == [f EXCEPT !.todo = None, !.left = n, !.metered = TRUE, !.self = a]
           IN  g \in Frame /\ g.reply = f.reply /\ g.replyOn = f.replyOn
  <1> DEFINE g1 == [f EXCEPT !.todo = None]
             g2 == [g1 EXCEPT !.left = n]
             g3 == [g2 EXCEPT !.metered = TRUE]
             g4 == [g3 EXCEPT !.self = a]
  <1>1. g1 \in Frame /\ g1.reply = f.reply /\ g1.replyOn = f.replyOn
    BY FrameHandled
  <1> HIDE DEF g1
  <1>2. g2 \in Frame /\ g2.reply = f.reply /\ g2.replyOn = f.replyOn
    BY <1>1, FrameLeft
  <1> HIDE DEF g2
  <1>3. g3 \in Frame /\ g3.reply = f.reply /\ g3.replyOn = f.replyOn
    BY <1>2, FrameMetered
  <1> HIDE DEF g3
  <1>4. g4 \in Frame /\ g4.reply = f.reply /\ g4.replyOn = f.replyOn
    BY <1>3, FrameSelf
  <1> QED BY <1>4 DEF g1, g2, g3, g4

\* The frame of a contract that has been told an outcome.
LEMMA FrameReplied ==
    ASSUME NEW f \in Frame, NEW n \in Nat
    PROVE  LET g == [f EXCEPT !.todo = None, !.left = n]
           IN  g \in Frame /\ g.reply = f.reply /\ g.replyOn = f.replyOn
  <1> DEFINE g1 == [f EXCEPT !.todo = None]
  <1>1. g1 \in Frame /\ g1.reply = f.reply /\ g1.replyOn = f.replyOn
    BY FrameHandled
  <1> HIDE DEF g1
  <1>2. LET g2 == [g1 EXCEPT !.left = n]
        IN  g2 \in Frame /\ g2.reply = f.reply /\ g2.replyOn = f.replyOn
    BY <1>1, FrameLeft
  <1> QED BY <1>2 DEF g1

\* The contract a message runs has an address.
LEMMA ContractOfType ==
    ASSUME NEW s \in GoodStore, NEW sender, NEW m \in Todo,
           RunsContract(m), Accepts(s, sender, m)
    PROVE  ContractOf(s, m) \in Sender
  <1>1. s \in StoreSet /\ Numbered(s)
    BY DEF GoodStore
  <1>2. CASE m.kind = "instantiate"
    <2>1. m.code \in DOMAIN s.codes
      BY <1>2 DEF Accepts, CanInstantiate
    <2>2. m.code \in Nat /\ s.lastInstanceID + 1 \in Nat
      <3>1. s.codes \in Seq([creator : Sender, compiled : BOOLEAN]) /\ s.lastInstanceID \in Nat
        BY <1>1 DEF StoreSet
      <3> QED BY <2>1, <3>1
    <2> QED BY <1>2, <2>2 DEF ContractOf, NextAddress, Sender, Address
  <1>3. CASE m.kind # "instantiate"
    <2>1. m.contract \in DOMAIN s.contracts
      BY <1>3 DEF Accepts, RunsContract, CanExecute, CanMigrate, IsAdmin
    <2>2. DOMAIN s.contracts \subseteq Address
      BY <1>1 DEF Numbered, StoreSet
    <2> QED BY <1>3, <2>1, <2>2 DEF ContractOf, Sender
  <1> QED BY <1>2, <1>3
-------------------------------------------------------------------------------
(***************************************************************************)
(* What a step does to the stores: nothing, a write, the beginning of a      *)
(* transaction or of a call, or its end.                                     *)
(***************************************************************************)
Quiet == UNCHANGED <<chain, caches, told>>

Wrote == /\ caches # <<>>
         /\ \E t \in GoodStore, w \in Writes :
              /\ Later(Store, t)
              /\ t.log = Append(Store.log, w)
              /\ caches' = SetStore(t)
         /\ UNCHANGED <<chain, told>>

BegunTx == /\ caches = <<>>
           /\ chain' = [chain EXCEPT !.log = <<>>]
           /\ caches' = <<chain'>>
           /\ told' = told

BegunCall == /\ caches # <<>>
             /\ \/ caches' = Append(caches, Store)
                \/ caches' = Append(caches, Logged(Store, "tax"))
             /\ UNCHANGED <<chain, told>>

Committed == caches # <<>> /\ Commit /\ told' = "ok"

Discarded == caches # <<>> /\ Discard /\ told' = "failed"

Moves == Quiet \/ Wrote \/ BegunTx \/ BegunCall \/ Committed \/ Discarded

StackedNow == Stacked(stack, Len(caches))

\* In a call there is a frame, a store and a cache.
LEMMA InCall ==
    ASSUME DispatchInv, stack # <<>>
    PROVE  /\ caches # <<>> /\ Len(caches) \in Nat \ {0}
           /\ caches \in Seq(GoodStore)
           /\ Store \in GoodStore
           /\ Top \in Frame
           /\ stack \in Seq(Frame)
           /\ StackedNow
  <1>1. StackedNow /\ caches \in Seq(GoodStore) /\ stack \in Seq(Frame)
    BY DEF DispatchInv, StackedNow, Stacked, Nested
  <1>2. Len(caches) # 0 /\ Len(caches) \in Nat
    BY <1>1, StackedCounts DEF StackedNow
  <1>3. caches # <<>>
    BY <1>2
  <1>4. Store \in GoodStore
    BY <1>1, <1>3, FrontLast DEF Store
  <1>5. Top \in Frame
    BY <1>1, FrontLast DEF Top
  <1> QED BY <1>1, <1>2, <1>3, <1>4, <1>5

\* A handler or a contract has run: it wrote, and its frame goes on.
LEMMA RanMoves ==
    ASSUME DispatchInv, stack # <<>>,
           NEW f \in Frame, f.reply = Top.reply, f.replyOn = Top.replyOn, stack' = SetTop(f),
           NEW t \in GoodStore, Later(Store, t), caches' = SetStore(t),
           NEW w \in Writes, t.log = Append(Store.log, w),
           UNCHANGED <<chain, told>>
    PROVE  Moves /\ StackedNow'
  <1>1. Wrote
    BY InCall DEF Wrote
  <1>2. Len(caches') = Len(caches)
    BY InCall, ReplaceLast DEF SetStore
  <1>3. Stacked(stack', Len(caches))
    BY InCall, StackTop DEF SetTop, Top, StackedNow
  <1> QED BY <1>1, <1>2, <1>3 DEF Moves, StackedNow

LEMMA DeliverMoves ==
    ASSUME DispatchInv, NEW u \in Users, NEW m \in Messages, Deliver(u, m)
    PROVE  Moves /\ StackedNow'
  <1> DEFINE f == CallFrame(u, m, "never", FALSE)
  <1>1. Stacked(<<>>, Len(caches)) /\ Len(caches) = 0 /\ caches \in Seq(GoodStore)
    BY StackedCounts DEF DispatchInv, Deliver, Nested
  <1>2. BegunTx
    BY <1>1, EmptySeq DEF BegunTx, Deliver
  <1>3. f \in Frame /\ ~f.reply /\ f.replyOn = "never"
    BY CallFrameType, Zenon DEF Sender, Todo, ReplyOns
  <1> HIDE DEF f
  <1>4. Stacked(Append(<<>>, f), 0 + 1)
    BY <1>1, <1>3, StackPush, Zenon
  <1>5. stack' = Append(<<>>, f) /\ Len(caches') = 0 + 1
    BY DEF Deliver, f
  <1> QED BY <1>2, <1>4, <1>5 DEF Moves, StackedNow

LEMMA FailsMoves ==
    ASSUME DispatchInv, NEW how, Fails(how)
    PROVE  Moves /\ StackedNow'
  BY DEF Fails, Moves, Quiet, StackedNow, DispatchInv

LEMMA HandleMessageMoves ==
    ASSUME DispatchInv, HandleMessage
    PROVE  Moves /\ StackedNow'
  <1>1. CASE \E how : Fails(how)
    BY <1>1, FailsMoves
  <1>2. CASE /\ Accepts(Store, Top.self, Top.todo)
             /\ caches' = SetStore(Handled(Store, Top.self, Top.todo))
             /\ stack' = SetTop([Top EXCEPT !.todo = None])
             /\ UNCHANGED <<chain, told>>
    <2>1. stack # <<>>
      BY DEF HandleMessage, Running
    <2>2. Store \in GoodStore /\ Top \in Frame
      BY <2>1, InCall
    <2>3. Top.self \in Sender /\ Top.todo \in Todo
      BY <2>2 DEF Frame
    <2> DEFINE t == Handled(Store, Top.self, Top.todo)
               f == [Top EXCEPT !.todo = None]
    <2>4. t \in GoodStore /\ Later(Store, t) /\ t.log = Append(Store.log, "run")
      BY <1>2, <2>2, <2>3, HandledIsLater
    <2>5. f \in Frame /\ f.reply = Top.reply /\ f.replyOn = Top.replyOn
      BY <2>2, FrameHandled
    <2> HIDE DEF t, f
    <2>6. caches' = SetStore(t) /\ stack' = SetTop(f) /\ UNCHANGED <<chain, told>>
      BY <1>2 DEF t, f
    <2>7. "run" \in Writes
      BY DEF Writes
    <2> QED BY <2>1, <2>4, <2>5, <2>6, <2>7, RanMoves
  <1>3. CASE UNCHANGED <<chain, caches, stack, told>>
    BY <1>3 DEF Moves, Quiet, StackedNow, DispatchInv
  <1> QED BY <1>1, <1>2, <1>3 DEF HandleMessage

LEMMA RunContractMoves ==
    ASSUME DispatchInv, RunContract
    PROVE  Moves /\ StackedNow'
  <1>1. CASE \E how : Fails(how)
    BY <1>1, FailsMoves
  <1>2. ASSUME NEW n \in 0..MaxSubMsgs,
               Accepts(Store, Top.self, Top.todo),
               caches' = SetStore(Handled(Store, Top.self, Top.todo)),
               stack' = SetTop([Top EXCEPT !.todo = None, !.left = n, !.metered = TRUE,
                                           !.self = ContractOf(Store, Top.todo)]),
               UNCHANGED <<chain, told>>
        PROVE  Moves /\ StackedNow'
    <2>1. stack # <<>> /\ RunsContract(Top.todo)
      BY Zenon DEF RunContract, Running
    <2>2. Store \in GoodStore /\ Top \in Frame
      BY <2>1, InCall
    <2>3. Top.self \in Sender /\ Top.todo \in Todo
      BY <2>2 DEF Frame
    <2> DEFINE a == ContractOf(Store, Top.todo)
               t == Handled(Store, Top.self, Top.todo)
               f == [Top EXCEPT !.todo = None, !.left = n, !.metered = TRUE, !.self = a]
    <2>4. t \in GoodStore /\ Later(Store, t) /\ t.log = Append(Store.log, "run")
      BY <1>2, <2>2, <2>3, HandledIsLater
    <2>5. a \in Sender
      BY <1>2, <2>1, <2>2, <2>3, ContractOfType
    <2>6. n \in Nat
      BY DispatchAssumption
    <2> HIDE DEF t, a
    <2>7. f \in Frame /\ f.reply = Top.reply /\ f.replyOn = Top.replyOn
      BY <2>2, <2>5, <2>6, FrameRan, ZenonT(30)
    <2>8. caches' = SetStore(t) /\ stack' = SetTop(f) /\ UNCHANGED <<chain, told>>
      BY <1>2 DEF t, a
    <2> HIDE DEF f
    <2>9. "run" \in Writes
      BY DEF Writes
    <2> QED BY <2>1, <2>4, <2>7, <2>8, <2>9, RanMoves
  <1> QED BY <1>1, <1>2, ZenonT(30) DEF RunContract

LEMMA ReplyMoves ==
    ASSUME DispatchInv, Reply
    PROVE  Moves /\ StackedNow'
  <1>1. CASE \E how : Fails(how)
    BY <1>1, FailsMoves
  <1>2. ASSUME NEW n \in 0..MaxSubMsgs,
               stack' = SetTop([Top EXCEPT !.todo = None, !.left = n]),
               caches' = SetStore(Logged(Store, "reply")),
               UNCHANGED <<chain, told>>
        PROVE  Moves /\ StackedNow'
    <2>1. stack # <<>> /\ "reply" \in Writes
      BY Zenon DEF Reply, Running, Writes
    <2>2. Store \in GoodStore /\ Top \in Frame
      BY <2>1, InCall
    <2> DEFINE t == Logged(Store, "reply")
               f == [Top EXCEPT !.todo = None, !.left = n]
    <2>3. t \in GoodStore /\ Later(Store, t) /\ t.log = Append(Store.log, "reply")
      BY <2>1, <2>2, LoggedIsLater
    <2>4. n \in Nat
      BY DispatchAssumption
    <2>5. f \in Frame /\ f.reply = Top.reply /\ f.replyOn = Top.replyOn
      BY <2>2, <2>4, FrameReplied, ZenonT(30)
    <2>6. caches' = SetStore(t) /\ stack' = SetTop(f) /\ UNCHANGED <<chain, told>>
      BY <1>2
    <2> HIDE DEF t, f
    <2> QED BY <2>1, <2>3, <2>5, <2>6, RanMoves
  <1> QED BY <1>1, <1>2, ZenonT(30) DEF Reply
LEMMA DispatchMoves ==
    ASSUME DispatchInv, NEW m \in SubMessages, NEW r \in ReplyOns, NEW l, Dispatch(m, r, l)
    PROVE  Moves /\ StackedNow'
  <1>1. CASE r = "unknown"
    BY <1>1, FailsMoves DEF Dispatch
  <1>2. CASE r # "unknown"
    <2> DEFINE limited == LimitsGas(l, Last(meters))
               caller == [Top EXCEPT !.left = Top.left - 1]
               callee == CallFrame(Top.self, m, r, limited)
    <2>1. stack # <<>> /\ Top.left > 0
      BY DEF Dispatch, Running
    <2>2. /\ Store \in GoodStore /\ Top \in Frame /\ caches \in Seq(GoodStore)
          /\ caches # <<>> /\ Len(caches) \in Nat /\ StackedNow
      BY <2>1, InCall
    <2>3. Top.self \in Sender /\ Top.left \in Nat /\ m \in Todo
      BY <2>2 DEF Frame, Todo
    <2>4. limited \in BOOLEAN
      BY DEF LimitsGas
    <2>5. /\ stack' = Append(SetTop(caller), callee)
          /\ UNCHANGED <<chain, told>>
          /\ \/ caches' = Append(caches, Store)
             \/ caches' = Append(caches, Logged(Store, "tax"))
      BY <1>2 DEF Dispatch
    <2> HIDE DEF limited
    <2>6. callee \in Frame /\ ~callee.reply
      BY <2>3, <2>4, CallFrameType
    <2>7. caller \in Frame /\ caller.reply = Top.reply /\ caller.replyOn = Top.replyOn
      <3>1. Top.left - 1 \in Nat
        BY <2>1, <2>3
      <3> QED BY <2>2, <3>1, FrameLeft
    <2> HIDE DEF caller, callee
    <2>8. Stacked(SetTop(caller), Len(caches)) /\ SetTop(caller) # <<>>
      BY <2>1, <2>2, <2>7, StackTop DEF SetTop, Top, StackedNow
    <2>9. Stacked(stack', Len(caches) + 1)
      BY <2>5, <2>6, <2>8, StackPush
    <2>10. Len(caches') = Len(caches) + 1
      <3>1. Logged(Store, "tax") \in GoodStore
        BY <2>2, LoggedIsLater DEF Writes
      <3> QED BY <2>2, <2>5, <3>1, AppendProperties
    <2>11. BegunCall
      BY <2>2, <2>5 DEF BegunCall
    <2> QED BY <2>9, <2>10, <2>11 DEF Moves, StackedNow
  <1> QED BY <1>1, <1>2

\* A call ends: its frame goes, and its caller may be called back.
LEMMA StackAfter ==
    ASSUME DispatchInv, stack # <<>>, ~Top.reply, NEW ok \in BOOLEAN
    PROVE  /\ Stacked(Below, Len(caches) - 1)
           /\ Wanted(Top.replyOn, ok) => Stacked(CallBack, Len(caches) - 1)
  <1>1. Len(caches) \in Nat \ {0} /\ StackedNow
    BY InCall
  <1>2. /\ Stacked(Below, Len(caches) - 1)
        /\ Below = <<>> => Top.replyOn = "never"
    BY <1>1, StackPop DEF Below, Top, StackedNow
  <1>3. ASSUME Wanted(Top.replyOn, ok)
        PROVE  Stacked(CallBack, Len(caches) - 1)
    <2>1. Below # <<>>
      BY <1>2, <1>3 DEF Wanted
    <2>2. Last(Below) \in Frame
      <3>1. Below \in Seq(Frame)
        BY <1>2 DEF Stacked
      <3> QED BY <2>1, <3>1, FrontLast
    <2>3. Last(Below).self \in Sender
      BY <2>2 DEF Frame
    <2> DEFINE f == ReplyFrame(Last(Below).self)
    <2>4. f \in Frame /\ f.reply
      BY <2>3, ReplyFrameType
    <2> HIDE DEF f
    <2>5. Stacked(Append(Below, f), Len(caches) - 1 + 0)
      BY <1>2, <2>1, <2>4, StackPush
    <2> QED BY <1>1, <2>5 DEF CallBack, f
  <1> QED BY <1>2, <1>3

\* A reply ends: its frame goes, and its contract's cache stays.
LEMMA ReplyEnds ==
    ASSUME DispatchInv, stack # <<>>, Top.reply,
           stack' = Below, UNCHANGED <<chain, caches, told>>
    PROVE  Moves /\ StackedNow'
  <1>1. Len(caches) \in Nat \ {0} /\ StackedNow
    BY InCall
  <1>2. Stacked(Below, Len(caches) - 0)
    BY <1>1, StackPop DEF Below, Top, StackedNow
  <1> QED BY <1>1, <1>2 DEF Moves, Quiet, StackedNow

\* One cache fewer.
LEMMA FewerCaches ==
    ASSUME DispatchInv, stack # <<>>, Commit \/ Discard
    PROVE  Len(caches') = Len(caches) - 1
  <1>1. /\ caches # <<>> /\ Len(caches) \in Nat \ {0} /\ Nested(chain, caches)
        /\ caches \in Seq(GoodStore)
    BY InCall DEF DispatchInv
  <1>2. CASE Discard
    BY <1>1, <1>2, FrontLast DEF Discard
  <1>3. CASE Commit /\ Len(caches) = 1
    <2>1. caches' = <<>>
      BY <1>3 DEF Commit
    <2>2. Len(<<>>) = 0
      OBVIOUS
    <2> QED BY <1>3, <2>1, <2>2
  <1>4. CASE Commit /\ Len(caches) # 1
    <2>1. caches' = Append(Front(Front(caches)), Store)
      BY <1>4 DEF Commit
    <2> QED BY <1>1, <1>4, <2>1, NestCommit, ZenonT(30) DEF Store
  <1> QED BY <1>2, <1>3, <1>4

LEMMA ReturnMoves ==
    ASSUME DispatchInv, Return
    PROVE  Moves /\ StackedNow'
  <1>1. stack # <<>>
    BY DEF Return, Running
  <1>2. CASE Top.reply
    BY <1>1, <1>2, ReplyEnds DEF Return
  <1>3. CASE ~Top.reply
    <2>1. Commit /\ told' = "ok"
      BY <1>3 DEF Return
    <2>2. stack' = IF Wanted(Top.replyOn, TRUE) THEN CallBack ELSE Below
      BY <1>3, Zenon DEF Return
    <2>3. Stacked(stack', Len(caches) - 1)
      BY <1>1, <1>3, <2>2, StackAfter, ZenonT(30)
    <2>4. Len(caches') = Len(caches) - 1
      BY <1>1, <2>1, FewerCaches
    <2>5. Committed
      BY <1>1, <2>1, InCall DEF Committed
    <2> QED BY <2>3, <2>4, <2>5 DEF Moves, StackedNow
  <1> QED BY <1>2, <1>3

LEMMA FailMoves ==
    ASSUME DispatchInv, Fail
    PROVE  Moves /\ StackedNow'
  <1>1. stack # <<>>
    BY DEF Fail, Failing
  <1>2. CASE Top.reply
    BY <1>1, <1>2, ReplyEnds DEF Fail
  <1>3. CASE ~Top.reply
    <2>1. Discard /\ told' = "failed"
      BY <1>3 DEF Fail
    <2>2. stack' = Below \/ (Wanted(Top.replyOn, FALSE) /\ stack' = CallBack)
      BY <1>3, Zenon DEF Fail
    <2>3. Stacked(stack', Len(caches) - 1)
      BY <1>1, <1>3, <2>2, StackAfter, ZenonT(30)
    <2>4. Len(caches') = Len(caches) - 1
      BY <1>1, <2>1, FewerCaches
    <2>5. Discarded
      BY <1>1, <2>1, InCall DEF Discarded
    <2> QED BY <2>3, <2>4, <2>5 DEF Moves, StackedNow
  <1> QED BY <1>2, <1>3

\* Every step is one of those.
LEMMA NextMoves ==
    ASSUME DispatchInv, [Next]_vars
    PROVE  Moves /\ StackedNow'
  <1>1. CASE UNCHANGED vars
    BY <1>1 DEF vars, Moves, Quiet, StackedNow, DispatchInv
  <1>2. CASE Next
    <2>1. CASE Step
      BY <2>1, HandleMessageMoves, RunContractMoves, ReplyMoves, DispatchMoves, ReturnMoves,
         FailMoves DEF Step
    <2>2. CASE \E u \in Users, m \in Messages : Deliver(u, m)
      BY <2>2, DeliverMoves
    <2> QED BY <1>2, <2>1, <2>2 DEF Next
  <1> QED BY <1>1, <1>2
-------------------------------------------------------------------------------
(* What the steps do to the invariant, to the contracts, and to the log of Savepoints *)

Logs == LogOf(chain, caches)
Marks == MarksOf(chain, caches)

Implemented == Calls!SPNext \/ UNCHANGED <<Logs, Marks, told>>

Good == Nested(chain, caches)' /\ Keeps(chain, chain') /\ Implemented

\* A store keeps what it has.
LEMMA KeepsItself ==
    ASSUME NEW s
    PROVE  Keeps(s, s)
  BY DEF Keeps

\* There are as many savepoints as caches.
LEMMA MarksNow ==
    ASSUME DispatchInv, caches # <<>>
    PROVE  Marks # <<>> /\ Nested(chain, caches) /\ Store \in GoodStore /\ Logs = Store.log
  <1>1. Nested(chain, caches)
    BY DEF DispatchInv
  <1>2. caches \in Seq(GoodStore)
    BY <1>1 DEF Nested
  <1>3. Len(caches) \in Nat \ {0} /\ Store \in GoodStore
    BY <1>2, FrontLast DEF Store
  <1>4. Len(Marks) = Len(caches)
    BY <1>1, NestDiscard DEF Marks
  <1>5. Marks # <<>>
    BY <1>3, <1>4
  <1> QED BY <1>1, <1>3, <1>5 DEF Logs, LogOf, Store

LEMMA QuietGood ==
    ASSUME DispatchInv, Quiet
    PROVE  Good
  <1>1. chain' = chain /\ caches' = caches /\ told' = told
    BY DEF Quiet
  <1>2. UNCHANGED <<Logs, Marks, told>>
    BY <1>1 DEF Logs, Marks
  <1> QED BY <1>1, <1>2, KeepsItself DEF Good, DispatchInv, Implemented

LEMMA WroteGood ==
    ASSUME DispatchInv, Wrote
    PROVE  Good
  <1>1. PICK t \in GoodStore, w \in Writes :
           Later(Store, t) /\ t.log = Append(Store.log, w) /\ caches' = SetStore(t)
    BY DEF Wrote
  <1>2. caches # <<>> /\ chain' = chain /\ told' = told
    BY DEF Wrote
  <1>3. Marks # <<>> /\ Nested(chain, caches) /\ Logs = Store.log
    BY <1>2, MarksNow
  <1>4. /\ Nested(chain, caches')
        /\ MarksOf(chain, caches') = Marks
        /\ LogOf(chain, caches') = t.log
    BY <1>1, <1>2, <1>3, NestWrite DEF SetStore, Store, Marks
  <1>5. Marks' = Marks /\ Logs' = Append(Logs, w)
    BY <1>1, <1>2, <1>3, <1>4 DEF Marks, Logs
  <1>6. Calls!Write
    BY <1>2, <1>3, <1>5 DEF Calls!Write, Marks, Logs
  <1> QED BY <1>2, <1>4, <1>6, KeepsItself DEF Good, Implemented, Calls!SPNext

LEMMA BegunTxGood ==
    ASSUME DispatchInv, BegunTx
    PROVE  Good
  <1> DEFINE t == [chain EXCEPT !.log = <<>>]
  <1>1. caches = <<>> /\ chain' = t /\ caches' = <<t>> /\ told' = told
    BY DEF BegunTx
  <1>2. chain \in StoreSet /\ Numbered(chain)
    BY DEF DispatchInv, Nested, GoodStore
  <1>3. /\ t \in StoreSet /\ t.log = <<>> /\ t.contracts = chain.contracts
        /\ t.accounts = chain.accounts /\ t.lastInstanceID = chain.lastInstanceID
    <2>1. t = [codes |-> chain.codes, lastInstanceID |-> chain.lastInstanceID,
               accounts |-> chain.accounts, contracts |-> chain.contracts, log |-> <<>>]
      BY <1>2 DEF StoreSet
    <2>2. <<>> \in Seq(Writes)
      BY EmptySeq
    <2> HIDE DEF t
    <2> QED BY <1>2, <2>1, <2>2 DEF StoreSet
  <1> HIDE DEF t
  <1>4. t \in GoodStore
    BY <1>2, <1>3 DEF GoodStore, Numbered
  <1>5. Keeps(chain, t)
    BY <1>3 DEF Keeps
  <1>6. Len(<<>>) = 0 /\ Len(<<t>>) = 1 /\ <<t>>[1] = t /\ <<t>> # <<>>
    OBVIOUS
  <1>7. Nested(t, <<t>>)
    <2>1. <<t>> \in Seq(GoodStore)
      BY <1>4
    <2>2. \A i \in 1..1 : Later(Base(t, <<t>>, i), <<t>>[i])
      BY <1>3, <1>6, LaterReflexive DEF Base
    <2> QED BY <1>4, <1>6, <2>1, <2>2 DEF Nested
  <1>8. Marks = <<>>
    <2>1. Marks = [i \in 1..0 |-> Len(Base(chain, caches, i).log)]
      BY <1>1, <1>6 DEF Marks, MarksOf
    <2> QED BY <2>1
  <1>9. Marks' = <<0>>
    <2>1. MarksOf(t, <<t>>) = [i \in 1..1 |-> Len(Base(t, <<t>>, i).log)]
      BY <1>6 DEF MarksOf
    <2>2. \A i \in 1..1 : Len(Base(t, <<t>>, i).log) = 0
      BY <1>3, <1>6 DEF Base
    <2>3. MarksOf(t, <<t>>) = [i \in 1..1 |-> 0]
      BY <2>1, <2>2
    <2>4. MarksOf(t, <<t>>) = <<0>>
      BY <2>3
    <2> QED BY <1>1, <2>4 DEF Marks
  <1>10. Logs' = <<>>
    <2>1. LogOf(t, <<t>>) = <<>>
      BY <1>3, <1>6 DEF LogOf, Last
    <2> QED BY <1>1, <2>1 DEF Logs
  <1>11. Calls!Begin
    <2>1. Marks' = Append(Marks, Len(<<>>))
      BY <1>6, <1>8, <1>9
    <2> QED BY <1>1, <1>8, <1>10, <2>1 DEF Calls!Begin, Marks, Logs
  <1> QED BY <1>1, <1>5, <1>7, <1>11 DEF Good, Implemented, Calls!SPNext

LEMMA BegunCallGood ==
    ASSUME DispatchInv, BegunCall
    PROVE  Good
  <1>1. caches # <<>> /\ chain' = chain /\ told' = told
    BY DEF BegunCall
  <1>2. Marks # <<>> /\ Nested(chain, caches) /\ Store \in GoodStore /\ Logs = Store.log
    BY <1>1, MarksNow
  <1>3. PICK t \in GoodStore :
           /\ caches' = Append(caches, t)
           /\ Later(Store, t)
           /\ t.log = Store.log \/ t.log = Append(Store.log, "tax")
    <2>1. Later(Store, Store)
      BY <1>2, LaterReflexive DEF GoodStore
    <2>2. "tax" \in Writes
      BY DEF Writes
    <2>3. /\ Logged(Store, "tax") \in GoodStore /\ Later(Store, Logged(Store, "tax"))
          /\ Logged(Store, "tax").log = Append(Store.log, "tax")
      BY <1>2, <2>2, LoggedIsLater
    <2> QED BY <1>2, <2>1, <2>3 DEF BegunCall
  <1>4. /\ Nested(chain, caches')
        /\ MarksOf(chain, caches') = Append(Marks, Len(Store.log))
        /\ LogOf(chain, caches') = t.log
    BY <1>1, <1>2, <1>3, NestBegin DEF Store, Marks
  <1>5. /\ Marks' = Append(Marks, Len(Logs))
        /\ Logs' = Logs \/ \E w \in Writes : Logs' = Append(Logs, w)
    BY <1>1, <1>2, <1>3, <1>4 DEF Marks, Logs, Writes
  <1>6. Calls!Begin
    BY <1>1, <1>2, <1>5 DEF Calls!Begin, Marks, Logs
  <1> QED BY <1>1, <1>4, <1>6, KeepsItself DEF Good, Implemented, Calls!SPNext

LEMMA CommittedGood ==
    ASSUME DispatchInv, Committed
    PROVE  Good
  <1>1. caches # <<>> /\ Commit /\ told' = "ok"
    BY DEF Committed
  <1>2. Marks # <<>> /\ Nested(chain, caches)
    BY <1>1, MarksNow
  <1>3. /\ Nested(chain', caches')
        /\ Keeps(chain, chain')
        /\ MarksOf(chain', caches') = Front(Marks)
        /\ LogOf(chain', caches') = Logs
    <2>1. CASE Len(caches) = 1
      <3>1. chain' = Last(caches) /\ caches' = <<>>
        BY <1>1, <2>1 DEF Commit, Store
      <3> QED BY <1>1, <1>2, <2>1, <3>1, NestCommit DEF Later, Marks, Logs
    <2>2. CASE Len(caches) # 1
      <3>1. chain' = chain /\ caches' = Append(Front(Front(caches)), Last(caches))
        BY <1>1, <2>2 DEF Commit, Store
      <3> QED BY <1>1, <1>2, <2>2, <3>1, NestCommit, KeepsItself DEF Marks, Logs
    <2> QED BY <2>1, <2>2
  <1>4. Marks' = Front(Marks) /\ Logs' = Logs
    BY <1>3 DEF Marks, Logs
  <1>5. Calls!Commit
    BY <1>1, <1>2, <1>4 DEF Calls!Commit, Calls!Front, Front, Marks, Logs
  <1> QED BY <1>3, <1>5 DEF Good, Implemented, Calls!SPNext

LEMMA DiscardedGood ==
    ASSUME DispatchInv, Discarded
    PROVE  Good
  <1> DEFINE n == Len(caches)
             base == Base(chain, caches, n)
  <1>1. /\ caches # <<>> /\ chain' = chain /\ caches' = Front(caches) /\ told' = "failed"
    BY DEF Discarded, Discard
  <1>2. Marks # <<>> /\ Nested(chain, caches) /\ Store \in GoodStore /\ Logs = Store.log
    BY <1>1, MarksNow
  <1>3. /\ Nested(chain, caches')
        /\ MarksOf(chain, caches') = Front(Marks)
        /\ LogOf(chain, caches') = base.log
        /\ Last(Marks) = Len(base.log)
    BY <1>1, <1>2, NestDiscard DEF Marks
  <1>4. caches \in Seq(GoodStore) /\ chain \in GoodStore
    BY <1>2 DEF Nested
  <1>5. n \in Nat \ {0} /\ Store = caches[n]
    BY <1>1, <1>4, FrontLast DEF Store
  <1>6. base \in GoodStore /\ Later(base, Store)
    <2>1. Later(base, Store)
      BY <1>2, <1>5 DEF Nested
    <2>2. \A i \in 1..n : caches[i] \in GoodStore
      BY <1>4, ElementOfSeq
    <2> HIDE DEF n
    <2>3. base \in GoodStore
      BY <1>4, <1>5, <2>2 DEF Base
    <2> QED BY <2>1, <2>3
  <1> HIDE DEF base, n
  <1>7. SubSeq(Logs, 1, Last(Marks)) = base.log
    <2> DEFINE k == Len(base.log)
               cut == SubSeq(Store.log, 1, k)
    <2>1. base.log \in Seq(Writes) /\ Store.log \in Seq(Writes)
      BY <1>2, <1>6 DEF GoodStore, StoreSet
    <2>2. k \in Nat /\ k <= Len(Store.log) /\ \A i \in 1..k : Store.log[i] = base.log[i]
      BY <1>6, <2>1 DEF Later, Begins
    <2>3. \A i \in 1..k : Store.log[i] \in Writes
      BY <2>1, <2>2, ElementOfSeq
    <2> HIDE DEF k
    <2>4. /\ cut \in Seq(Writes)
          /\ Len(cut) = IF 1 <= k THEN k - 1 + 1 ELSE 0
          /\ \A i \in 1..k - 1 + 1 : cut[i] = Store.log[1 + i - 1]
      BY <2>2, <2>3, SubSeqProperties
    <2> HIDE DEF cut
    <2>5. Len(cut) = k /\ \A i \in 1..k : cut[i] = base.log[i]
      BY <2>2, <2>4
    <2>6. cut = base.log
      BY <2>1, <2>4, <2>5, SeqEqual DEF k
    <2> QED BY <1>2, <1>3, <2>6 DEF cut, k
  <1>8. Marks' = Front(Marks) /\ Logs' = SubSeq(Logs, 1, Last(Marks))
    BY <1>1, <1>3, <1>7 DEF Marks, Logs
  <1>9. Calls!RollBack
    <2>1. \A q : Calls!Front(q) = Front(q) /\ Calls!Last(q) = Last(q)
      BY DEF Calls!Front, Front, Calls!Last, Last
    <2> QED BY <1>1, <1>2, <1>8, <2>1, ZenonT(30) DEF Calls!RollBack, Marks, Logs
  <1> QED BY <1>1, <1>3, <1>9, KeepsItself DEF Good, Implemented, Calls!SPNext

\* The invariant is inductive, and every step keeps the contracts and is one of Savepoints.
LEMMA NextGood ==
    ASSUME DispatchInv, [Next]_vars
    PROVE  DispatchInv' /\ Keeps(chain, chain') /\ Implemented
  <1>1. Good
    BY NextMoves, QuietGood, WroteGood, BegunTxGood, BegunCallGood, CommittedGood, DiscardedGood
    DEF Moves
  <1>2. StackedNow'
    BY NextMoves
  <1> QED BY <1>1, <1>2 DEF Good, StackedNow, DispatchInv
-------------------------------------------------------------------------------
(* Theorems *)

LEMMA InitStoreGood == InitStore \in GoodStore
  <1> DEFINE addresses == DOMAIN InitContracts
             count == Cardinality(addresses)
  <1>1. /\ InitCodes \in Seq([creator : Users, compiled : BOOLEAN])
        /\ IsFiniteSet(addresses)
        /\ InitContracts \in [addresses -> [code  : DOMAIN InitCodes,
                                            id    : 1..count,
                                            admin : Users \cup addresses \cup {None}]]
        /\ \A a, b \in addresses : InitContracts[a].id = InitContracts[b].id => a = b
    BY GenesisAssumption
  <1>2. count \in Nat
    BY <1>1, FS_CardinalityType
  <1>3. InitCodes \in Seq([creator : Sender, compiled : BOOLEAN])
    <2>1. [creator : Users, compiled : BOOLEAN] \subseteq [creator : Sender, compiled : BOOLEAN]
      BY DEF Sender
    <2> QED BY <1>1, <2>1, SeqMonotonic, ZenonT(30)
  <1>4. addresses \subseteq Address
    BY DEF Address
  <1>5. DOMAIN InitCodes \subseteq Nat
    BY <1>1
  <1> HIDE DEF addresses, count
  <1>6. InitContracts \in [addresses -> Contract]
    <2>1. \A a \in addresses :
            /\ InitContracts[a] \in [code : DOMAIN InitCodes, id : 1..count,
                                     admin : Users \cup addresses \cup {None}]
            /\ InitContracts[a].admin \in Admin
      BY <1>1 DEF Admin, addresses
    <2>2. \A a \in addresses : InitContracts[a] \in Contract
      BY <1>2, <1>5, <2>1 DEF Contract
    <2> QED BY <1>1, <2>2
  <1>7. InitStore \in StoreSet
    <2>1. <<>> \in Seq(Writes)
      BY EmptySeq
    <2>2. InitContracts \in UNION {[D -> Contract] : D \in SUBSET Address}
      BY <1>4, <1>6
    <2> QED BY <1>2, <1>3, <1>4, <2>1, <2>2 DEF InitStore, StoreSet, addresses, count
  <1>8. Numbered(InitStore)
    BY <1>1 DEF InitStore, Numbered, addresses, count
  <1> QED BY <1>7, <1>8 DEF GoodStore

LEMMA InitGood == Init => DispatchInv /\ Calls!SPInit
  <1> SUFFICES ASSUME Init PROVE DispatchInv /\ Calls!SPInit
    OBVIOUS
  <1>1. chain = InitStore /\ caches = <<>> /\ stack = <<>> /\ told = "ok" /\ Len(caches) = 0
    BY DEF Init
  <1>2. Stacked(<<>>, 0)
    <2>1. CallsOf(<<>>) = {}
      BY DEF CallsOf
    <2> QED BY <2>1, FS_EmptySet, EmptySeq DEF Stacked
  <1>3. Nested(InitStore, <<>>)
    BY InitStoreGood, EmptySeq DEF Nested
  <1>4. Calls!SPInit
    <2>1. LogOf(chain, caches) = <<>>
      BY <1>1 DEF LogOf, InitStore
    <2>2. MarksOf(chain, caches) = <<>>
      <3>1. MarksOf(chain, caches) = [i \in 1..0 |-> Len(Base(chain, caches, i).log)]
        BY <1>1 DEF MarksOf
      <3> QED BY <3>1
    <2> QED BY <1>1, <2>1, <2>2 DEF Calls!SPInit
  <1> QED BY <1>1, <1>2, <1>3, <1>4 DEF DispatchInv

\* Each call in progress has one cache, and each cache is later than the store it lies
\* over: what the keeper's cached contexts and its call stack have in common
\* (x/wasm/keeper/connector.go, DispatchMessages).
THEOREM DispatchInvariant == Spec => []DispatchInv
  <1>1. DispatchInv /\ [Next]_vars => DispatchInv'
    BY NextGood
  <1> QED BY InitGood, <1>1, PTL DEF Spec

\* In the committed store and in every cache over it no two contracts share an instance
\* id, however calls nest and whichever of them are rolled back (InstantiateContract).
THEOREM InstanceIds == Spec => []InstanceIdsUnique
  <1>1. DispatchInv => InstanceIdsUnique
    <2> SUFFICES ASSUME DispatchInv, NEW s \in Stores
                 PROVE  \A a, b \in DOMAIN s.contracts :
                            s.contracts[a].id = s.contracts[b].id => a = b
      BY DEF InstanceIdsUnique
    <2>1. chain \in GoodStore /\ caches \in Seq(GoodStore)
      BY DEF DispatchInv, Nested
    <2>2. s \in GoodStore
      BY <2>1 DEF Stores, Range
    <2> QED BY <2>2 DEF GoodStore, Numbered
  <1> QED BY <1>1, DispatchInvariant, PTL

\* No step of any handler removes a contract from the chain or puts another one in its
\* place, whatever the width of the identifiers (InstantiateContract's check for an
\* account at the new address).
THEOREM ContractsAreKept == Spec => ContractsKept
  <1>1. DispatchInv /\ [Next]_vars =>
          [\A a \in DOMAIN chain.contracts :
             /\ a \in DOMAIN chain'.contracts
             /\ chain'.contracts[a].id = chain.contracts[a].id]_vars
    BY NextGood DEF Keeps
  <1> QED BY <1>1, DispatchInvariant, PTL DEF Spec, ContractsKept

\* A contract without an admin stays as it is, in every block and for every sender
\* (MigrateContract, UpdateContractAdmin and ClearContractAdmin).
THEOREM UnadministeredStay == Spec => NoAdminNoChange
  <1>1. DispatchInv /\ [Next]_vars =>
          [\A a \in DOMAIN chain.contracts :
             chain.contracts[a].admin = None => chain'.contracts[a] = chain.contracts[a]]_vars
    BY NextGood DEF Keeps
  <1> QED BY <1>1, DispatchInvariant, PTL DEF Spec, NoAdminNoChange

\* The dispatcher implements Savepoints: to any depth of calls, a failed call's writes are
\* gone, a successful call's are kept, and the caller learns which (DispatchMessages and
\* dispatchMessageWithGasLimit).
THEOREM CallsAreSavepoints == Spec => CallsSpec
  <1>1. DispatchInv /\ [Next]_vars => [Calls!SPNext]_(Calls!spvars)
    BY NextGood DEF Implemented, Logs, Marks, Calls!spvars
  <1> QED BY InitGood, <1>1, DispatchInvariant, PTL DEF Spec, CallsSpec, Calls!SPSpec

-------------------------------------------------------------------------------
(* Gas *)

\* A frame that still waits to be handled, or that is a reply, has no contract's meter, and
\* a reply has no limit either.
GasFrame == {f \in Frame : /\ f.todo # None => ~f.metered
                           /\ f.reply => ~f.metered /\ ~f.limited}

\* Meters that fit in each other, as in GasFits.
Gauge == [limit : Nat, used : Nat]

Fit(ms) ==
    /\ ms \in Seq(Gauge)
    /\ \A i \in 1..Len(ms) : ms[i].used <= ms[i].limit
    /\ \A i \in 1..Len(ms) - 1 : ms[i + 1].limit <= Remaining(ms[i])

\* With the frames' own meters the transaction's meter makes n: floor[i] is the number of
\* meters below the own ones of the i-th frame.
Floored(frames, n) ==
    \E floor \in [1..Len(frames) + 1 -> Nat \ {0}] :
        /\ \A i \in 1..Len(frames) : floor[i + 1] = floor[i] + Owned(frames[i])
        /\ floor[Len(frames) + 1] = n

\* The inductive invariant: which meter belongs to which call, and that they fit.
GasInv ==
    /\ stack \in Seq(GasFrame)
    /\ Fit(meters)
    /\ stack = <<>> => meters = <<>>
    /\ stack # <<>> => Floored(stack, Len(meters))

LEMMA OwnedType ==
    ASSUME NEW f \in Frame
    PROVE  Owned(f) \in 0..2
  <1>1. f.limited \in BOOLEAN /\ f.metered \in BOOLEAN
    BY DEF Frame
  <1> QED BY <1>1 DEF Owned

\* A call begins: its own meters come on top.
LEMMA FlooredPush ==
    ASSUME NEW frames \in Seq(GasFrame), NEW n \in Nat, Floored(frames, n), NEW f \in GasFrame
    PROVE  Floored(Append(frames, f), n + Owned(f)) /\ Append(frames, f) \in Seq(GasFrame)
  <1> DEFINE k == Len(frames)
             new == Append(frames, f)
  <1>1. k \in Nat
    BY LenProperties
  <1>2. /\ new \in Seq(GasFrame) /\ Len(new) = k + 1 /\ new[k + 1] = f
        /\ \A i \in 1..k : new[i] = frames[i]
    BY AppendProperties
  <1>3. Owned(f) \in Nat
    BY OwnedType DEF GasFrame
  <1>4. PICK floor \in [1..k + 1 -> Nat \ {0}] :
          /\ \A i \in 1..k : floor[i + 1] = floor[i] + Owned(frames[i])
          /\ floor[k + 1] = n
    BY DEF Floored
  <1> HIDE DEF new, k
  <1> DEFINE over == [i \in 1..(k + 1) + 1 |-> IF i = (k + 1) + 1 THEN n + Owned(f) ELSE floor[i]]
  <1>5. \A i \in 1..k + 1 : over[i] = floor[i] /\ over[i] \in Nat \ {0}
    BY <1>1, <1>4
  <1>6. over[(k + 1) + 1] = n + Owned(f)
    BY <1>1
  <1>7. n \in Nat \ {0}
    BY <1>1, <1>4
  <1>8. over \in [1..(k + 1) + 1 -> Nat \ {0}]
    BY <1>1, <1>3, <1>4, <1>7
  <1> HIDE DEF over
  <1>9. \A i \in 1..k + 1 : over[i + 1] = over[i] + Owned(new[i])
    <2> TAKE i \in 1..k + 1
    <2>1. CASE i = k + 1
      BY <1>1, <1>2, <1>4, <1>5, <1>6, <2>1
    <2>2. CASE i # k + 1
      <3>1. i \in 1..k /\ i + 1 \in 1..k + 1
        BY <1>1, <2>2
      <3> QED BY <1>2, <1>4, <1>5, <3>1
    <2> QED BY <2>1, <2>2
  <1>10. Floored(new, n + Owned(f))
    BY <1>2, <1>6, <1>8, <1>9, ZenonT(30) DEF Floored
  <1> QED BY <1>2, <1>10 DEF new

\* A call ends: there is a meter below its own ones.
LEMMA FlooredPop ==
    ASSUME NEW frames \in Seq(GasFrame), NEW n \in Nat, Floored(frames, n), frames # <<>>
    PROVE  /\ Front(frames) \in Seq(GasFrame) /\ Last(frames) \in GasFrame
           /\ Owned(Last(frames)) \in 0..2
           /\ n - Owned(Last(frames)) \in Nat \ {0}
           /\ Floored(Front(frames), n - Owned(Last(frames)))
  <1> DEFINE k == Len(frames) - 1
             new == Front(frames)
             own == Owned(Last(frames))
  <1>1. /\ new \in Seq(GasFrame) /\ Len(new) = k /\ Last(frames) = frames[k + 1]
        /\ Last(frames) \in GasFrame /\ k \in Nat /\ Len(frames) = k + 1
        /\ \A i \in 1..k : new[i] = frames[i]
    BY FrontLast
  <1>2. own \in 0..2
    BY <1>1, OwnedType DEF GasFrame
  <1> HIDE DEF k
  <1>3. PICK floor \in [1..(k + 1) + 1 -> Nat \ {0}] :
          /\ \A i \in 1..k + 1 : floor[i + 1] = floor[i] + Owned(frames[i])
          /\ floor[(k + 1) + 1] = n
    BY <1>1 DEF Floored
  <1>4. floor[k + 1] \in Nat \ {0} /\ n = floor[k + 1] + own
    BY <1>1, <1>3
  <1> HIDE DEF own, new
  <1>5. floor[k + 1] = n - own
    BY <1>2, <1>4
  <1> DEFINE under == [i \in 1..k + 1 |-> floor[i]]
  <1>6. under \in [1..k + 1 -> Nat \ {0}]
    BY <1>1, <1>3
  <1>7. \A i \in 1..k : under[i + 1] = under[i] + Owned(new[i])
    BY <1>1, <1>3
  <1>8. under[k + 1] = n - own
    BY <1>1, <1>5
  <1> HIDE DEF under
  <1>9. Floored(new, n - own)
    BY <1>1, <1>6, <1>7, <1>8, Zenon DEF Floored
  <1> QED BY <1>1, <1>2, <1>4, <1>5, <1>9 DEF new, own

\* A call goes on, perhaps with a meter more.
LEMMA FlooredTop ==
    ASSUME NEW frames \in Seq(GasFrame), NEW n \in Nat, Floored(frames, n), frames # <<>>,
           NEW f \in GasFrame
    PROVE  LET new == Append(Front(frames), f)
           IN  /\ new \in Seq(GasFrame) /\ new # <<>>
               /\ Floored(new, n - Owned(Last(frames)) + Owned(f))
  <1>1. /\ Front(frames) \in Seq(GasFrame)
        /\ n - Owned(Last(frames)) \in Nat
        /\ Floored(Front(frames), n - Owned(Last(frames)))
    BY FlooredPop
  <1>2. Append(Front(frames), f) # <<>>
    BY <1>1, AppendProperties
  <1> QED BY <1>1, <1>2, FlooredPush

LEMMA GaugeUsed ==
    ASSUME NEW m \in Gauge, NEW gas \in Nat
    PROVE  LET new == [m EXCEPT !.used = @ + gas]
           IN  new \in Gauge /\ new.limit = m.limit /\ new.used = m.used + gas
  BY DEF Gauge

\* The innermost meter is charged with what it still has.
LEMMA FitConsume ==
    ASSUME NEW ms, Fit(ms), ms # <<>>, NEW gas \in Nat, gas <= Remaining(Last(ms))
    PROVE  Fit(Consume(ms, gas)) /\ Len(Consume(ms, gas)) = Len(ms)
  <1> DEFINE k == Len(ms)
             new == Consume(ms, gas)
  <1>1. ms \in Seq(Gauge) /\ k \in Nat \ {0} /\ Last(ms) = ms[k]
    BY FrontLast, ZenonT(30) DEF Fit
  <1>2. ms \in [1..k -> Gauge]
    BY <1>1, LenProperties
  <1>3. \A i \in 1..k : ms[i].used \in Nat /\ ms[i].limit \in Nat /\ ms[i] \in Gauge
    BY <1>2 DEF Gauge
  <1> HIDE DEF k
  <1>4. new = [ms EXCEPT ![k].used = @ + gas]
    BY DEF Consume, k
  <1> HIDE DEF new
  <1>5. new[k] = [ms[k] EXCEPT !.used = @ + gas]
    BY <1>1, <1>2, <1>4
  <1>6. new[k].limit = ms[k].limit /\ new[k].used = ms[k].used + gas /\ new[k] \in Gauge
    BY <1>1, <1>3, <1>5, GaugeUsed
  <1>7. \A i \in 1..k : i # k => new[i] = ms[i]
    BY <1>2, <1>4
  <1>8. new \in [1..k -> Gauge]
    BY <1>2, <1>3, <1>4, <1>6, <1>7, ZenonT(30)
  <1>9. new \in Seq(Gauge) /\ Len(new) = k
    BY <1>1, <1>8, SeqDef, LenProperties
  <1>10. new[k].used <= new[k].limit
    BY <1>1, <1>3, <1>6 DEF Remaining
  <1>11. \A i \in 1..k : new[i].used <= new[i].limit
    BY <1>7, <1>10 DEF Fit, k
  <1>12. \A i \in 1..k - 1 : new[i + 1].limit <= Remaining(new[i])
    <2> TAKE i \in 1..k - 1
    <2>1. i \in 1..k /\ i # k /\ i + 1 \in 1..k
      BY <1>1
    <2>2. new[i] = ms[i] /\ new[i + 1].limit = ms[i + 1].limit
      BY <1>6, <1>7, <2>1
    <2>3. ms[i + 1].limit <= Remaining(ms[i])
      BY DEF Fit, k
    <2> QED BY <2>2, <2>3
  <1> QED BY <1>9, <1>11, <1>12 DEF Fit, new, k

\* A meter within what the innermost one has left.
LEMMA FitPush ==
    ASSUME NEW ms, Fit(ms), ms # <<>>, NEW m \in Gauge,
           m.used <= m.limit, m.limit <= Remaining(Last(ms))
    PROVE  Fit(Append(ms, m)) /\ Len(Append(ms, m)) = Len(ms) + 1
  <1> DEFINE k == Len(ms)
             new == Append(ms, m)
  <1>1. ms \in Seq(Gauge) /\ k \in Nat \ {0} /\ Last(ms) = ms[k]
    BY FrontLast, ZenonT(30) DEF Fit
  <1>2. /\ new \in Seq(Gauge) /\ Len(new) = k + 1 /\ new[k + 1] = m
        /\ \A i \in 1..k : new[i] = ms[i]
    BY <1>1, AppendProperties
  <1> HIDE DEF new, k
  <1>3. \A i \in 1..k + 1 : new[i].used <= new[i].limit
    <2> TAKE i \in 1..k + 1
    <2>1. i = k + 1 \/ i \in 1..k
      BY <1>1
    <2> QED BY <1>2, <2>1 DEF Fit, k
  <1>4. \A i \in 1..k : new[i + 1].limit <= Remaining(new[i])
    <2> TAKE i \in 1..k
    <2>1. CASE i = k
      BY <1>1, <1>2, <2>1
    <2>2. CASE i # k
      <3>1. i \in 1..k - 1 /\ i + 1 \in 1..k
        BY <1>1, <2>2
      <3>2. ms[i + 1].limit <= Remaining(ms[i])
        BY <3>1 DEF Fit, k
      <3> QED BY <1>2, <3>1, <3>2
    <2> QED BY <2>1, <2>2
  <1>5. (k + 1) - 1 = k
    BY <1>1
  <1> QED BY <1>2, <1>3, <1>4, <1>5 DEF Fit, new, k

\* The meters below the innermost `own' ones, and what those may have recorded.
LEMMA FitCut ==
    ASSUME NEW ms, Fit(ms), NEW own \in 0..2, Len(ms) - own \in Nat \ {0}
    PROVE  LET low  == SubSeq(ms, 1, Len(ms) - own)
               high == SubSeq(ms, Len(ms) - own + 1, Len(ms))
           IN  /\ Fit(low) /\ low # <<>> /\ Len(low) = Len(ms) - own
               /\ SpentBy(high) \in Nat /\ SpentBy(high) <= Remaining(Last(low))
               /\ own # 0 => /\ high[1] \in Gauge
                             /\ high[1].used <= high[1].limit
                             /\ high[1].limit <= Remaining(Last(low))
  <1> DEFINE n == Len(ms)
             k == n - own
             low == SubSeq(ms, 1, k)
             high == SubSeq(ms, k + 1, n)
  <1>1. ms \in Seq(Gauge) /\ n \in Nat /\ k \in Nat \ {0} /\ n = k + own
    BY LenProperties DEF Fit
  <1>2. \A i \in 1..n : /\ ms[i] \in Gauge /\ ms[i].used \in Nat /\ ms[i].limit \in Nat
                        /\ ms[i].used <= ms[i].limit
    <2>1. \A i \in 1..n : ms[i] \in Gauge
      BY <1>1, ElementOfSeq, ZenonT(30)
    <2>2. \A i \in 1..n : ms[i].used <= ms[i].limit
      BY DEF Fit
    <2> HIDE DEF n
    <2> QED BY <2>1, <2>2 DEF Gauge
  <1>3. \A i \in 1..n - 1 : ms[i + 1].limit <= Remaining(ms[i])
    BY DEF Fit
  <1> HIDE DEF n, k
  <1>4. /\ low \in Seq(Gauge) /\ Len(low) = k
        /\ \A i \in 1..k : low[i] = ms[i]
    <2>1. \A i \in 1..k : ms[i] \in Gauge
      BY <1>1, <1>2
    <2>2. /\ low \in Seq(Gauge)
          /\ Len(low) = IF 1 <= k THEN k - 1 + 1 ELSE 0
          /\ \A i \in 1..k - 1 + 1 : low[i] = ms[1 + i - 1]
      BY <1>1, <2>1, SubSeqProperties DEF n
    <2> HIDE DEF low
    <2> QED BY <1>1, <2>2
  <1>5. /\ high \in Seq(Gauge) /\ Len(high) = own
        /\ \A i \in 1..own : high[i] = ms[k + i]
    <2>1. \A i \in k + 1..n : ms[i] \in Gauge
      BY <1>1, <1>2
    <2>2. /\ high \in Seq(Gauge)
          /\ Len(high) = IF k + 1 <= n THEN n - (k + 1) + 1 ELSE 0
          /\ \A i \in 1..n - (k + 1) + 1 : high[i] = ms[k + 1 + i - 1]
      BY <1>1, <2>1, SubSeqProperties DEF n
    <2> HIDE DEF high
    <2> QED BY <1>1, <2>2
  <1> HIDE DEF low, high
  <1>6. low # <<>> /\ Last(low) = ms[k]
    <2>1. low # <<>>
      BY <1>1, <1>4
    <2>2. Last(low) = low[k]
      BY <1>4, <2>1, FrontLast, ZenonT(30)
    <2>3. k \in 1..k
      BY <1>1
    <2> QED BY <1>4, <2>1, <2>2, <2>3
  <1>7. Fit(low)
    <2>1. \A i \in 1..k : low[i].used <= low[i].limit
      BY <1>1, <1>2, <1>4
    <2>2. \A i \in 1..k - 1 : low[i + 1].limit <= Remaining(low[i])
      <3> TAKE i \in 1..k - 1
      <3>1. i \in 1..k /\ i + 1 \in 1..k /\ i \in 1..n - 1
        BY <1>1
      <3> QED BY <1>3, <1>4, <3>1
    <2> QED BY <1>4, <2>1, <2>2 DEF Fit
  <1>8. k \in 1..n /\ Remaining(ms[k]) \in Nat
    BY <1>1, <1>2 DEF Remaining
  <1>9. CASE own = 0
    <2>1. high = <<>>
      BY <1>5, <1>9, EmptySeq
    <2>2. SpentBy(high) = 0
      BY <2>1 DEF SpentBy
    <2> QED BY <1>4, <1>6, <1>7, <1>8, <1>9, <2>2 DEF low, high, k, n
  <1>10. CASE own = 1
    <2>1. high # <<>> /\ Len(high) # 2 /\ high[1] = ms[k + 1]
      <3>1. Len(high) = 1 /\ Len(<<>>) = 0
        BY <1>5, <1>10
      <3>2. 1 \in 1..own
        BY <1>10
      <3>3. high[1] = ms[k + 1]
        BY <1>5, <3>2, Zenon
      <3> QED BY <3>1, <3>3
    <2>2. SpentBy(high) = ms[k + 1].used + 0
      BY <2>1 DEF SpentBy
    <2>3. k + 1 \in 1..n /\ k \in 1..n - 1
      BY <1>1, <1>10
    <2>4. /\ ms[k + 1].limit <= Remaining(ms[k]) /\ ms[k + 1].used <= ms[k + 1].limit
          /\ ms[k + 1].limit \in Nat /\ ms[k + 1].used \in Nat /\ ms[k + 1] \in Gauge
      BY <1>2, <1>3, <2>3
    <2>5. SpentBy(high) \in Nat /\ SpentBy(high) <= Remaining(ms[k])
      BY <1>8, <2>2, <2>4
    <2> QED BY <1>4, <1>6, <1>7, <2>1, <2>4, <2>5 DEF low, high, k, n
  <1>11. CASE own = 2
    <2>1. high # <<>> /\ Len(high) = 2 /\ high[1] = ms[k + 1] /\ high[2] = ms[k + 2]
      <3>1. Len(high) = 2 /\ Len(<<>>) = 0
        BY <1>5, <1>11
      <3>2. 1 \in 1..own /\ 2 \in 1..own
        BY <1>11
      <3>3. high[1] = ms[k + 1] /\ high[2] = ms[k + 2]
        BY <1>5, <3>2, Zenon
      <3> QED BY <3>1, <3>3
    <2>2. SpentBy(high) = ms[k + 1].used + ms[k + 2].used
      BY <2>1 DEF SpentBy
    <2>3. k + 1 \in 1..n /\ k \in 1..n - 1 /\ k + 1 \in 1..n - 1 /\ k + 2 \in 1..n
          /\ (k + 1) + 1 = k + 2
      BY <1>1, <1>11
    <2>4. /\ ms[k + 1].limit <= Remaining(ms[k]) /\ ms[k + 1].used <= ms[k + 1].limit
          /\ ms[k + 1].limit \in Nat /\ ms[k + 1].used \in Nat /\ ms[k + 1] \in Gauge
      BY <1>2, <1>3, <2>3
    <2>5. /\ ms[k + 2].limit <= Remaining(ms[k + 1]) /\ ms[k + 2].used <= ms[k + 2].limit
          /\ ms[k + 2].limit \in Nat /\ ms[k + 2].used \in Nat
      BY <1>2, <1>3, <2>3
    <2>6. Remaining(ms[k + 1]) = ms[k + 1].limit - ms[k + 1].used
      BY DEF Remaining
    <2> DEFINE u == ms[k + 1].used
               v == ms[k + 2].used
               l == ms[k + 1].limit
               m == ms[k + 2].limit
               r == Remaining(ms[k])
    <2>7. /\ l <= r /\ u <= l /\ l \in Nat /\ u \in Nat
          /\ m <= l - u /\ v <= m /\ m \in Nat /\ v \in Nat
          /\ r \in Nat /\ SpentBy(high) = u + v
      BY <1>8, <2>2, <2>4, <2>5, <2>6
    <2> HIDE DEF u, v, l, m, r
    <2>8. SpentBy(high) \in Nat /\ SpentBy(high) <= r
      BY <2>7
    <2> QED BY <1>4, <1>6, <1>7, <2>1, <2>4, <2>8, Zenon DEF low, high, k, n, r
  <1> QED BY <1>9, <1>10, <1>11

\* Frames as their calls go on.
LEMMA GasHandled ==
    ASSUME NEW f \in GasFrame
    PROVE  LET g == [f EXCEPT !.todo = None]
           IN  g \in GasFrame /\ Owned(g) = Owned(f)
  <1> DEFINE g == [f EXCEPT !.todo = None]
  <1>1. f \in Frame /\ (f.reply => ~f.metered /\ ~f.limited)
    BY DEF GasFrame
  <1>2. g \in Frame /\ g.reply = f.reply
    BY <1>1, FrameHandled
  <1>3. g.todo = None /\ g.limited = f.limited /\ g.metered = f.metered
    BY <1>1 DEF Frame
  <1> HIDE DEF g
  <1> QED BY <1>1, <1>2, <1>3, Zenon DEF GasFrame, Owned, g

LEMMA GasLeft ==
    ASSUME NEW f \in GasFrame, NEW n \in Nat
    PROVE  LET g == [f EXCEPT !.left = n]
           IN  g \in GasFrame /\ Owned(g) = Owned(f)
  <1> DEFINE g == [f EXCEPT !.left = n]
  <1>1. f \in Frame /\ (f.reply => ~f.metered /\ ~f.limited) /\ (f.todo # None => ~f.metered)
    BY DEF GasFrame
  <1>2. g \in Frame /\ g.reply = f.reply
    BY <1>1, FrameLeft
  <1>3. g.todo = f.todo /\ g.limited = f.limited /\ g.metered = f.metered
    BY <1>1 DEF Frame
  <1> HIDE DEF g
  <1> QED BY <1>1, <1>2, <1>3, Zenon DEF GasFrame, Owned, g

\* The contract's meter is the frame's from now on.
LEMMA GasRan ==
    ASSUME NEW f \in GasFrame, f.todo # None, ~f.reply, NEW n \in Nat, NEW a \in Sender
    PROVE  LET g == [f EXCEPT !.todo = None, !.left = n, !.metered = TRUE, !.self = a]
           IN  g \in GasFrame /\ Owned(g) = Owned(f) + 1
  <1> DEFINE g == [f EXCEPT !.todo = None, !.left = n, !.metered = TRUE, !.self = a]
  <1>1. f \in Frame /\ ~f.metered
    BY DEF GasFrame
  <1>2. g \in Frame /\ ~g.reply
    BY <1>1, FrameRan, ZenonT(30)
  <1>3. g.todo = None /\ g.limited = f.limited /\ g.metered
    BY <1>1 DEF Frame
  <1>4. f.limited \in BOOLEAN
    BY <1>1 DEF Frame
  <1> HIDE DEF g
  <1>5. Owned(g) = Owned(f) + 1
    BY <1>1, <1>3, <1>4 DEF Owned
  <1> QED BY <1>2, <1>3, <1>5, Zenon DEF GasFrame, g

LEMMA GasCall ==
    ASSUME NEW sender \in Sender, NEW m \in Todo, NEW r \in ReplyOns, NEW limited \in BOOLEAN
    PROVE  LET f == CallFrame(sender, m, r, limited)
           IN  f \in GasFrame /\ Owned(f) = IF limited THEN 1 ELSE 0
  <1> DEFINE f == CallFrame(sender, m, r, limited)
  <1>1. f \in Frame
    BY CallFrameType
  <1>2. ~f.reply /\ f.limited = limited /\ ~f.metered
    BY DEF CallFrame
  <1> HIDE DEF f
  <1> QED BY <1>1, <1>2 DEF GasFrame, Owned, f

LEMMA GasReply ==
    ASSUME NEW contract \in Sender
    PROVE  ReplyFrame(contract) \in GasFrame /\ Owned(ReplyFrame(contract)) = 0
  <1> DEFINE f == ReplyFrame(contract)
  <1>1. f \in Frame
    BY ReplyFrameType
  <1>2. ~f.limited /\ ~f.metered
    BY DEF ReplyFrame
  <1> HIDE DEF f
  <1> QED BY <1>1, <1>2 DEF GasFrame, Owned, f

\* In a call there is a meter, and one below the call's own.
LEMMA InGas ==
    ASSUME GasInv, stack # <<>>
    PROVE  /\ meters # <<>> /\ Len(meters) \in Nat
           /\ Fit(meters) /\ Floored(stack, Len(meters)) /\ stack \in Seq(GasFrame)
           /\ Top \in GasFrame /\ Owned(Top) \in 0..2
           /\ Len(meters) - Owned(Top) \in Nat \ {0}
           /\ Below \in Seq(GasFrame) /\ Floored(Below, Len(meters) - Owned(Top))
           /\ Last(meters).limit \in Nat /\ Last(meters).used \in Nat
           /\ Last(meters).used <= Last(meters).limit
  <1>1. Fit(meters) /\ Floored(stack, Len(meters)) /\ stack \in Seq(GasFrame)
    BY DEF GasInv
  <1>2. meters \in Seq(Gauge) /\ Len(meters) \in Nat
    BY <1>1, LenProperties DEF Fit
  <1>3. /\ Top \in GasFrame /\ Owned(Top) \in 0..2
        /\ Len(meters) - Owned(Top) \in Nat \ {0}
        /\ Below \in Seq(GasFrame) /\ Floored(Below, Len(meters) - Owned(Top))
    BY <1>1, <1>2, FlooredPop DEF Top, Below
  <1>4. Len(meters) # 0 /\ Len(<<>>) = 0
    BY <1>2, <1>3
  <1>5. meters # <<>>
    BY <1>4
  <1>6. Last(meters) \in Gauge /\ Last(meters) = meters[Len(meters)] /\ Len(meters) \in 1..Len(meters)
    BY <1>2, <1>5, FrontLast
  <1>7. Last(meters).used <= Last(meters).limit
    BY <1>1, <1>6 DEF Fit
  <1> QED BY <1>1, <1>2, <1>3, <1>5, <1>6, <1>7 DEF Gauge

\* The innermost call goes on with meters that fit.
LEMMA GasTop ==
    ASSUME GasInv, stack # <<>>, NEW f \in GasFrame, stack' = SetTop(f),
           Fit(meters'), Len(meters') = Len(meters) - Owned(Top) + Owned(f)
    PROVE  GasInv'
  <1>1. /\ SetTop(f) \in Seq(GasFrame) /\ SetTop(f) # <<>>
        /\ Floored(SetTop(f), Len(meters) - Owned(Top) + Owned(f))
    BY InGas, FlooredTop DEF SetTop, Top
  <1> QED BY <1>1 DEF GasInv

LEMMA FailsGas ==
    ASSUME GasInv, NEW how, Fails(how)
    PROVE  GasInv'
  BY DEF Fails, GasInv

LEMMA HandleMessageGas ==
    ASSUME GasInv, HandleMessage
    PROVE  GasInv'
  <1>1. stack # <<>>
    BY DEF HandleMessage, Running
  <1>2. CASE \E how : Fails(how)
    BY <1>2, FailsGas
  <1>3. ASSUME NEW gas \in GasCosts, ~(gas > Remaining(Last(meters))),
               meters' = Consume(meters, gas),
               stack' = SetTop([Top EXCEPT !.todo = None]) \/ stack' = stack
        PROVE  GasInv'
    <2>1. gas \in Nat /\ gas <= Remaining(Last(meters))
      BY <1>1, <1>3, InGas, DispatchAssumption DEF Remaining
    <2>2. Fit(meters') /\ Len(meters') = Len(meters)
      BY <1>1, <1>3, <2>1, InGas, FitConsume
    <2>3. CASE stack' = stack
      BY <1>1, <2>2, <2>3 DEF GasInv
    <2>4. CASE stack' = SetTop([Top EXCEPT !.todo = None])
      <3> DEFINE f == [Top EXCEPT !.todo = None]
      <3>1. f \in GasFrame /\ Owned(f) = Owned(Top)
        BY <1>1, InGas, GasHandled
      <3>2. stack' = SetTop(f)
        BY <2>4
      <3> HIDE DEF f
      <3>3. Len(meters') = Len(meters) - Owned(Top) + Owned(f)
        BY <1>1, <2>2, <3>1, InGas
      <3> QED BY <1>1, <2>2, <3>1, <3>2, <3>3, GasTop
    <2> QED BY <1>3, <2>3, <2>4
  <1> QED BY <1>2, <1>3 DEF HandleMessage

LEMMA RunContractGas ==
    ASSUME DispatchInv, GasInv, RunContract
    PROVE  GasInv'
  <1> DEFINE meter == ContractMeter(Last(meters))
  <1>1. stack # <<>> /\ Top.todo # None /\ ~Top.reply /\ RunsContract(Top.todo)
    BY Zenon DEF RunContract, Running
  <1>2. CASE \E how : Fails(how)
    BY <1>2, FailsGas
  <1>3. ASSUME NEW gas \in GasCosts, ~(gas > meter.limit), NEW n \in 0..MaxSubMsgs,
               Accepts(Store, Top.self, Top.todo),
               stack' = SetTop([Top EXCEPT !.todo = None, !.left = n, !.metered = TRUE,
                                           !.self = ContractOf(Store, Top.todo)]),
               meters' = Append(meters, [meter EXCEPT !.used = gas])
        PROVE  GasInv'
    <2>1. gas \in Nat /\ n \in Nat /\ MaxContractGas \in Nat
      BY DispatchAssumption
    <2> DEFINE r == Remaining(Last(meters))
    <2>2. r \in Nat
      BY <1>1, InGas DEF Remaining
    <2> DEFINE l == IF r > MaxContractGas THEN MaxContractGas ELSE r
    <2>3. meter = [limit |-> l, used |-> 0]
      BY DEF ContractMeter, Meter
    <2> HIDE DEF r, meter
    <2>4. l \in Nat /\ l <= r
      BY <2>1, <2>2
    <2> HIDE DEF l
    <2>5. gas <= l
      BY <1>3, <2>1, <2>3, <2>4
    <2> DEFINE m == [meter EXCEPT !.used = gas]
    <2>6. m = [limit |-> l, used |-> gas]
      BY <2>3
    <2>7. m \in Gauge /\ m.used <= m.limit /\ m.limit <= r
      BY <2>1, <2>4, <2>5, <2>6 DEF Gauge
    <2>8. meters' = Append(meters, m)
      BY <1>3
    <2> HIDE DEF m
    <2>9. Fit(meters') /\ Len(meters') = Len(meters) + 1
      BY <1>1, <2>7, <2>8, InGas, FitPush DEF r
    <2> DEFINE a == ContractOf(Store, Top.todo)
               f == [Top EXCEPT !.todo = None, !.left = n, !.metered = TRUE, !.self = a]
    <2>10. a \in Sender
      <3>1. Store \in GoodStore /\ Top \in Frame
        BY <1>1, InCall
      <3>2. Top.todo \in Todo
        BY <3>1 DEF Frame
      <3> QED BY <1>1, <1>3, <3>1, <3>2, ContractOfType
    <2> HIDE DEF a
    <2>11. f \in GasFrame /\ Owned(f) = Owned(Top) + 1
      BY <1>1, <2>1, <2>10, InGas, GasRan, ZenonT(30)
    <2>12. stack' = SetTop(f)
      BY <1>3 DEF a
    <2> HIDE DEF f
    <2>13. Len(meters') = Len(meters) - Owned(Top) + Owned(f)
      BY <1>1, <2>9, <2>11, InGas
    <2> QED BY <1>1, <2>9, <2>11, <2>12, <2>13, GasTop
  <1> QED BY <1>2, <1>3, ZenonT(30) DEF RunContract

LEMMA ReplyGas ==
    ASSUME GasInv, Reply
    PROVE  GasInv'
  <1>1. stack # <<>>
    BY Zenon DEF Reply, Running
  <1>2. CASE \E how : Fails(how)
    BY <1>2, FailsGas
  <1>3. ASSUME NEW gas \in GasCosts, ~(gas > Remaining(Last(meters))), NEW n \in 0..MaxSubMsgs,
               stack' = SetTop([Top EXCEPT !.todo = None, !.left = n]),
               meters' = Consume(meters, gas)
        PROVE  GasInv'
    <2>1. gas \in Nat /\ n \in Nat /\ gas <= Remaining(Last(meters))
      BY <1>1, <1>3, InGas, DispatchAssumption DEF Remaining
    <2>2. Fit(meters') /\ Len(meters') = Len(meters)
      BY <1>1, <1>3, <2>1, InGas, FitConsume
    <2> DEFINE g == [Top EXCEPT !.todo = None]
               f == [g EXCEPT !.left = n]
    <2>3. g \in GasFrame /\ Owned(g) = Owned(Top)
      BY <1>1, InGas, GasHandled
    <2>4. stack' = SetTop(f)
      BY <1>3
    <2> HIDE DEF g
    <2>5. f \in GasFrame /\ Owned(f) = Owned(Top)
      BY <2>1, <2>3, GasLeft
    <2> HIDE DEF f
    <2>6. Len(meters') = Len(meters) - Owned(Top) + Owned(f)
      BY <1>1, <2>2, <2>5, InGas
    <2> QED BY <1>1, <2>2, <2>4, <2>5, <2>6, GasTop
  <1> QED BY <1>2, <1>3, ZenonT(30) DEF Reply

LEMMA DispatchGas ==
    ASSUME GasInv, NEW m \in SubMessages, NEW r \in ReplyOns,
           NEW l \in GasLimits \cup {None}, Dispatch(m, r, l)
    PROVE  GasInv'
  <1>1. CASE r = "unknown"
    BY <1>1, FailsGas DEF Dispatch
  <1>2. CASE r # "unknown"
    <2> DEFINE limited == LimitsGas(l, Last(meters))
               caller == [Top EXCEPT !.left = Top.left - 1]
               callee == CallFrame(Top.self, m, r, limited)
    <2>1. stack # <<>> /\ Top.left > 0
      BY DEF Dispatch, Running
    <2>2. Top.self \in Sender /\ Top.left \in Nat /\ m \in Todo
      BY <2>1, InGas DEF GasFrame, Frame, Todo
    <2>3. limited \in BOOLEAN
      BY DEF LimitsGas
    <2>4. /\ stack' = Append(SetTop(caller), callee)
          /\ meters' = IF limited THEN Append(meters, Meter(l)) ELSE meters
      BY <1>2 DEF Dispatch
    <2>5. limited => l \in Nat /\ l <= Remaining(Last(meters))
      <3>1. Remaining(Last(meters)) \in Nat
        BY <2>1, InGas DEF Remaining
      <3>2. limited => l # None /\ l < Remaining(Last(meters))
        BY DEF LimitsGas
      <3>3. l # None => l \in Nat
        BY DispatchAssumption
      <3> HIDE DEF limited
      <3> QED BY <3>1, <3>2, <3>3
    <2> HIDE DEF limited
    <2>6. callee \in GasFrame /\ Owned(callee) = IF limited THEN 1 ELSE 0
      BY <2>2, <2>3, GasCall
    <2>7. caller \in GasFrame /\ Owned(caller) = Owned(Top)
      <3>1. Top.left - 1 \in Nat
        BY <2>1, <2>2
      <3> QED BY <2>1, <3>1, InGas, GasLeft
    <2> HIDE DEF caller, callee
    <2>8. Fit(meters') /\ Len(meters') = Len(meters) + Owned(callee)
      <3>1. CASE ~limited
        BY <2>1, <2>4, <2>6, <3>1, InGas
      <3>2. CASE limited
        <4>1. Meter(l) \in Gauge /\ Meter(l).used <= Meter(l).limit /\ Meter(l).limit = l
          BY <2>5, <3>2 DEF Meter, Gauge
        <4> QED BY <2>1, <2>4, <2>5, <2>6, <3>2, <4>1, InGas, FitPush
      <3> QED BY <3>1, <3>2
    <2>9. /\ SetTop(caller) \in Seq(GasFrame)
          /\ Floored(SetTop(caller), Len(meters) - Owned(Top) + Owned(caller))
      BY <2>1, <2>7, InGas, FlooredTop DEF SetTop, Top
    <2>10. Len(meters) - Owned(Top) + Owned(caller) = Len(meters)
      BY <2>1, <2>7, InGas
    <2>11. Floored(stack', Len(meters) + Owned(callee)) /\ stack' \in Seq(GasFrame)
      BY <2>1, <2>4, <2>6, <2>9, <2>10, InGas, FlooredPush
    <2>12. stack' # <<>>
      <3> DEFINE s == SetTop(caller)
      <3>1. s \in Seq(GasFrame)
        BY <2>9
      <3> HIDE DEF s
      <3>2. Len(Append(s, callee)) = Len(s) + 1 /\ Len(s) \in Nat
        BY <2>6, <3>1, AppendProperties, LenProperties
      <3>3. Append(s, callee) # <<>>
        BY <3>2
      <3> QED BY <2>4, <3>3 DEF s
    <2> QED BY <2>8, <2>11, <2>12 DEF GasInv
  <1> QED BY <1>1, <1>2

\* A call ends, and the meter below its own is charged with what it still has.
LEMMA CallEndsGas ==
    ASSUME DispatchInv, GasInv, stack # <<>>, ~Top.reply,
           NEW gas \in Nat, gas <= Remaining(Last(SubSeq(meters, 1, Len(meters) - Owned(Top)))),
           meters' = IF Below = <<>> THEN <<>> ELSE Charged(gas),
           NEW ok \in BOOLEAN,
           stack' = Below \/ (Wanted(Top.replyOn, ok) /\ stack' = CallBack)
    PROVE  GasInv'
  <1> DEFINE n == Len(meters) - Owned(Top)
             low == SubSeq(meters, 1, n)
  <1>1. /\ Fit(meters) /\ Below \in Seq(GasFrame) /\ Floored(Below, n)
        /\ Owned(Top) \in 0..2 /\ n \in Nat \ {0}
    BY InGas
  <1>2. Fit(low) /\ low # <<>> /\ Len(low) = n
    BY <1>1, FitCut, ZenonT(30)
  <1>3. Charged(gas) = Consume(low, gas)
    BY DEF Charged
  <1>4. gas <= Remaining(Last(low))
    OBVIOUS
  <1> HIDE DEF low
  <1>5. Fit(Charged(gas)) /\ Len(Charged(gas)) = n
    BY <1>2, <1>3, <1>4, FitConsume
  <1> HIDE DEF n
  <1>6. CASE Below = <<>>
    <2>1. Top.replyOn = "never"
      BY <1>6, InCall, StackPop DEF Below, Top, StackedNow
    <2>2. stack' = <<>> /\ meters' = <<>>
      BY <1>6, <2>1 DEF Wanted
    <2>3. <<>> \in Seq(GasFrame) /\ <<>> \in Seq(Gauge) /\ Len(<<>>) = 0
      BY EmptySeq
    <2>4. Fit(<<>>)
      BY <2>3 DEF Fit
    <2> QED BY <2>2, <2>3, <2>4 DEF GasInv
  <1>7. CASE Below # <<>> /\ stack' = Below
    BY <1>1, <1>5, <1>7 DEF GasInv
  <1>8. CASE Below # <<>> /\ stack' = CallBack
    <2> DEFINE f == ReplyFrame(Last(Below).self)
    <2>1. Last(Below) \in GasFrame
      BY <1>1, <1>8, FrontLast
    <2>2. Last(Below).self \in Sender
      BY <2>1 DEF GasFrame, Frame
    <2>3. f \in GasFrame /\ Owned(f) = 0
      BY <2>2, GasReply
    <2>4. stack' = Append(Below, f)
      BY <1>8 DEF CallBack
    <2> HIDE DEF f
    <2>5. Floored(stack', n + 0) /\ stack' \in Seq(GasFrame)
      BY <1>1, <2>3, <2>4, FlooredPush
    <2>6. stack' # <<>> /\ n + 0 = n
      BY <1>1, <2>3, <2>4, AppendProperties
    <2> QED BY <1>5, <1>8, <2>5, <2>6 DEF GasInv
  <1> QED BY <1>6, <1>7, <1>8

\* A reply ends: it has no meter.
LEMMA ReplyEndsGas ==
    ASSUME DispatchInv, GasInv, stack # <<>>, Top.reply, stack' = Below, meters' = meters
    PROVE  GasInv'
  <1>1. /\ Fit(meters) /\ Below \in Seq(GasFrame) /\ Floored(Below, Len(meters) - Owned(Top))
        /\ Top \in GasFrame /\ Len(meters) \in Nat
    BY InGas
  <1>2. ~Top.limited /\ ~Top.metered
    BY <1>1 DEF GasFrame
  <1>3. Len(meters) - Owned(Top) = Len(meters)
    BY <1>1, <1>2 DEF Owned
  <1>4. Below # <<>>
    BY InCall, StackPop DEF Below, Top, StackedNow
  <1> QED BY <1>1, <1>3, <1>4 DEF GasInv

LEMMA ReturnGas ==
    ASSUME DispatchInv, GasInv, Return
    PROVE  GasInv'
  <1>1. stack # <<>>
    BY DEF Return, Running
  <1>2. CASE Top.reply
    BY <1>1, <1>2, ReplyEndsGas DEF Return
  <1>3. CASE ~Top.reply
    <2> DEFINE gas == SpentBy(OwnMeters)
    <2>1. gas \in Nat /\ gas <= Remaining(Last(SubSeq(meters, 1, Len(meters) - Owned(Top))))
      BY <1>1, InGas, FitCut, Zenon DEF OwnMeters
    <2>2. meters' = IF Below = <<>> THEN <<>> ELSE Charged(gas)
      BY <1>3 DEF Return
    <2>3. stack' = Below \/ (Wanted(Top.replyOn, TRUE) /\ stack' = CallBack)
      BY <1>3, Zenon DEF Return
    <2> HIDE DEF gas
    <2> QED BY <1>1, <1>3, <2>1, <2>2, <2>3, CallEndsGas, Zenon
  <1> QED BY <1>2, <1>3

LEMMA FailGas ==
    ASSUME DispatchInv, GasInv, Fail
    PROVE  GasInv'
  <1>1. stack # <<>>
    BY DEF Fail, Failing
  <1>2. CASE Top.reply
    BY <1>1, <1>2, ReplyEndsGas DEF Fail
  <1>3. CASE ~Top.reply
    <2> DEFINE gas == IF Caught THEN PaidByCaller ELSE 0
               r == Remaining(Last(SubSeq(meters, 1, Len(meters) - Owned(Top))))
    <2>1. SpentBy(OwnMeters) \in Nat /\ SpentBy(OwnMeters) <= r
      BY <1>1, InGas, FitCut, Zenon DEF OwnMeters
    <2>2. r \in Int
      <3>1. /\ Fit(SubSeq(meters, 1, Len(meters) - Owned(Top)))
            /\ SubSeq(meters, 1, Len(meters) - Owned(Top)) # <<>>
        BY <1>1, InGas, FitCut, Zenon
      <3>2. Last(SubSeq(meters, 1, Len(meters) - Owned(Top))) \in Gauge
        BY <3>1, FrontLast, Zenon DEF Fit
      <3> QED BY <3>2 DEF Gauge, Remaining
    <2>3. Top.limited => /\ OwnMeters[1] \in Gauge
                         /\ OwnMeters[1].used <= OwnMeters[1].limit
                         /\ OwnMeters[1].limit <= r
      <3>1. Top.limited => Owned(Top) # 0
        <4>1. Top.metered \in BOOLEAN
          BY <1>1, InCall DEF Frame
        <4> QED BY <4>1 DEF Owned
      <3> QED BY <1>1, <3>1, InGas, FitCut, ZenonT(30) DEF OwnMeters
    <2>4. Top.limited => /\ OwnMeters[1].used \in Nat /\ OwnMeters[1].limit \in Nat
                         /\ OwnMeters[1].used <= OwnMeters[1].limit /\ OwnMeters[1].limit <= r
      BY <2>3 DEF Gauge
    <2> HIDE DEF r
    <2>5. gas \in Nat /\ gas <= r
      BY <2>1, <2>2, <2>4 DEF PaidByCaller
    <2>6. meters' = IF Below = <<>> THEN <<>> ELSE Charged(gas)
      BY <1>3 DEF Fail
    <2>7. stack' = Below \/ (Wanted(Top.replyOn, FALSE) /\ stack' = CallBack)
      BY <1>3, Zenon DEF Fail
    <2> HIDE DEF gas
    <2> QED BY <1>1, <1>3, <2>5, <2>6, <2>7, CallEndsGas, Zenon DEF r
  <1> QED BY <1>2, <1>3

LEMMA DeliverGas ==
    ASSUME GasInv, NEW u \in Users, NEW m \in Messages, Deliver(u, m)
    PROVE  GasInv'
  <1> DEFINE f == CallFrame(u, m, "never", FALSE)
             meter == Meter(TxGas)
  <1>1. f \in GasFrame /\ Owned(f) = 0
    <2>1. u \in Sender /\ m \in Todo /\ "never" \in ReplyOns
      BY DEF Sender, Todo, ReplyOns
    <2> QED BY <2>1, GasCall, ZenonT(30)
  <1>2. meter \in Gauge /\ meter.used <= meter.limit
    BY DispatchAssumption DEF Meter, Gauge
  <1>3. stack' = Append(<<>>, f) /\ meters' = <<meter>>
    BY DEF Deliver
  <1> HIDE DEF f, meter
  <1>4. Fit(<<meter>>) /\ Len(<<meter>>) = 1
    <2>1. <<meter>> \in Seq(Gauge) /\ Len(<<meter>>) = 1 /\ <<meter>>[1] = meter
      BY <1>2
    <2> QED BY <1>2, <2>1 DEF Fit
  <1>5. Floored(<<>>, 1)
    <2>1. Len(<<>>) = 0
      OBVIOUS
    <2> DEFINE floor == [i \in 1..0 + 1 |-> 1]
    <2>2. floor \in [1..0 + 1 -> Nat \ {0}] /\ floor[0 + 1] = 1
      OBVIOUS
    <2> HIDE DEF floor
    <2> QED BY <2>1, <2>2 DEF Floored
  <1>6. <<>> \in Seq(GasFrame)
    BY EmptySeq
  <1>7. Floored(stack', 1 + 0) /\ stack' \in Seq(GasFrame)
    BY <1>1, <1>3, <1>5, <1>6, FlooredPush, ZenonT(30)
  <1>8. stack' # <<>>
    BY <1>1, <1>3, <1>6, AppendProperties
  <1> QED BY <1>3, <1>4, <1>7, <1>8 DEF GasInv

\* Charging a caller never panics: what the meters of nested calls may still record fits in
\* the meter below, to any depth of calls and for every limit a contract sets, also after
\* calls that failed, were rolled back or ran out of gas (dispatchMessageWithGasLimit, and the
\* meters of the message server).
THEOREM NestedGasFits == Spec => []GasFits
  <1>1. Init => GasInv
    <2> SUFFICES ASSUME Init PROVE GasInv
      OBVIOUS
    <2>1. stack = <<>> /\ meters = <<>>
      BY DEF Init
    <2>2. <<>> \in Seq(GasFrame) /\ <<>> \in Seq(Gauge) /\ Len(<<>>) = 0
      BY EmptySeq
    <2>3. Fit(<<>>)
      BY <2>2 DEF Fit
    <2> QED BY <2>1, <2>2, <2>3 DEF GasInv
  <1>2. DispatchInv /\ GasInv /\ [Next]_vars => GasInv'
    <2> SUFFICES ASSUME DispatchInv, GasInv, [Next]_vars PROVE GasInv'
      OBVIOUS
    <2>1. CASE UNCHANGED vars
      BY <2>1 DEF vars, GasInv
    <2>2. CASE Step
      BY <2>2, HandleMessageGas, RunContractGas, ReplyGas, DispatchGas, ReturnGas, FailGas DEF Step
    <2>3. CASE \E u \in Users, m \in Messages : Deliver(u, m)
      BY <2>3, DeliverGas
    <2> QED BY <2>1, <2>2, <2>3 DEF Next
  <1>3. GasInv => GasFits
    <2> SUFFICES ASSUME GasInv PROVE GasFits
      OBVIOUS
    <2>1. Fit(meters)
      BY DEF GasInv
    <2>2. DOMAIN meters = 1..Len(meters)
      BY <2>1, LenProperties DEF Fit
    <2> QED BY <2>1, <2>2 DEF Fit, GasFits
  <1> QED BY <1>1, <1>2, <1>3, DispatchInvariant, PTL DEF Spec
===============================================================================
