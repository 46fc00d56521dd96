--------------------------- MODULE FactoryProofs ---------------------------
(***************************************************************************)
(* What the factory's register says is true, for every set of users, salts *)
(* and hashes, and every number of ledgers.                                *)
(*                                                                         *)
(* The inductive invariant speaks of two states at once: the one that the  *)
(* invocation being executed has reached, in which one pool may still be   *)
(* under construction, and the one that the host goes back to if it        *)
(* panics, in which none is.                                               *)
(***************************************************************************)
EXTENDS Factory, TLAPS

\* The pool at addr is what the factory makes.
Good(addr, ps) ==
  /\ addr \in DOMAIN ps
  /\ ps[addr].code = wasmHash
  /\ ps[addr].controller # NoController
  /\ ps[addr].initialisedBy = addr[2]
  /\ ps[addr].askedFor = addr[2]

\* All that is registered is good, and all that is at an address of the
\* factory's is registered, besides what is under construction.
Sound(ps, cs, besides) ==
  /\ \A addr \in DOMAIN cs : addr \in Salts \X Users /\ Good(addr, ps)
  /\ \A addr \in (Salts \X Users) \ besides : addr \in DOMAIN ps => addr \in DOMAIN cs

UnderConstruction == IF at \in {"init", "register"} THEN {newPool.address} ELSE {}

NewPoolOK ==
  /\ at # "idle" => /\ wasmHash \in Hashes
                    /\ newPool.controller \in Users
                    /\ newPool.address \in Salts \X {newPool.controller}
  /\ at = "init" => /\ newPool.address \in DOMAIN pools
                    /\ pools[newPool.address].code = wasmHash
                    /\ pools[newPool.address].controller = NoController
                    /\ pools[newPool.address].askedFor = newPool.controller
  /\ at = "register" => Good(newPool.address, pools)

Reached ==
  /\ wasmHash \in Hashes \cup {NoHash}
  /\ ledger \in Nat
  /\ at \in {"idle", "deploy", "init", "register"}
  /\ StateOK(State)
  /\ NewPoolOK
  /\ Sound(pools, isCpool, UnderConstruction)

Committed == StateOK(committed) /\ Sound(committed.pools, committed.isCpool, {})

IInv == Reached /\ Committed /\ (at = "idle" => committed = State)
-----------------------------------------------------------------------------
(***************************************************************************)
(* Lemmas                                                                  *)
(***************************************************************************)
LEMMA LivesAreIntegers ==
  ASSUME NEW liveUntil \in Int, NEW now \in Nat, NEW threshold, NEW extendTo \in Nat
  PROVE  /\ ExtendedLife(liveUntil, now, threshold, extendTo) \in Int
         /\ FreshLife(now) \in Int
BY StorageAssumption DEF ExtendedLife, FreshLife

LEMMA StateTypes ==
  StateOK(State) <=>
    /\ instanceLife \in Int
    /\ DOMAIN isCpool \subseteq PoolAddresses /\ isCpool \in [DOMAIN isCpool -> Int]
    /\ DOMAIN pools \subseteq PoolAddresses /\ pools \in [DOMAIN pools -> Pool]
BY DEF StateOK, State

\* The end of a step: the host commits what an invocation that has returned
\* has reached.
LEMMA Commits ==
  ASSUME Committed, Reached',
         committed' = IF at' = "idle" THEN State' ELSE committed,
         wasmHash' = wasmHash \/ at' = "idle"
  PROVE  IInv'
<1>1. CASE at' = "idle"
  <2>1. committed' = State'
    BY <1>1
  <2>2. committed'.pools = pools' /\ committed'.isCpool = isCpool'
    BY <2>1 DEF State
  <2>3. UnderConstruction' = {}
    BY <1>1 DEF UnderConstruction
  <2>4. Sound(pools, isCpool, UnderConstruction)' /\ StateOK(State)'
    BY DEF Reached
  <2>5. Sound(committed.pools, committed.isCpool, {})'
    BY <2>2, <2>3, <2>4 DEF Sound, Good
  <2>6. StateOK(committed)'
    BY <2>1, <2>4 DEF StateOK
  <2> QED
    BY <2>1, <2>5, <2>6 DEF IInv, Committed
<1>2. CASE at' # "idle"
  <2>1. committed' = committed /\ wasmHash' = wasmHash
    BY <1>2
  <2>2. Committed'
    BY <2>1 DEF Committed, StateOK, Sound, Good
  <2> QED
    BY <1>2, <2>2 DEF IInv
<1> QED
  BY <1>1, <1>2

\* A step that changes the lives of entries only.
LEMMA LivesChange ==
  ASSUME Reached, UNCHANGED <<wasmHash, pools, at, newPool>>, ledger' \in Nat,
         instanceLife' \in Int, DOMAIN isCpool' = DOMAIN isCpool,
         isCpool' \in [DOMAIN isCpool -> Int]
  PROVE  Reached'
BY StateTypes DEF Reached, StateOK, State, NewPoolOK, Good, Sound, UnderConstruction

\* A step that changes the pool at one address, which is not registered or
\* stays good, and not the one under construction.
LEMMA OnePoolChanges ==
  ASSUME Reached, UNCHANGED <<wasmHash, instanceLife, isCpool, ledger, at, newPool>>,
         NEW addr \in PoolAddresses, NEW pool \in Pool,
         pools' = With(pools, addr, pool),
         addr \in Outside \ DOMAIN pools \/ addr \in DOMAIN pools,
         at = "idle" \/ (at = "init" /\ addr # newPool.address),
         addr \in DOMAIN isCpool => /\ pool.code = wasmHash
                                    /\ pool.controller # NoController
                                    /\ pool.initialisedBy = addr[2]
                                    /\ pool.askedFor = addr[2]
  PROVE  Reached'
<1>1. /\ pools \in [DOMAIN pools -> Pool] /\ DOMAIN pools \subseteq PoolAddresses
      /\ instanceLife \in Int
      /\ DOMAIN isCpool \subseteq PoolAddresses /\ isCpool \in [DOMAIN isCpool -> Int]
  BY StateTypes DEF Reached
<1>2. /\ pools' \in [DOMAIN pools \cup {addr} -> Pool]
      /\ DOMAIN pools' = DOMAIN pools \cup {addr}
      /\ pools'[addr] = pool
      /\ \A a \in DOMAIN pools \ {addr} : pools'[a] = pools[a]
  BY <1>1 DEF With
<1>3. StateOK(State)'
  BY <1>1, <1>2 DEF StateOK, State
<1>4. NewPoolOK'
  BY <1>2 DEF Reached, NewPoolOK
<1>5. Sound(pools, isCpool, UnderConstruction)'
  <2>1. UnderConstruction' = UnderConstruction
    BY DEF UnderConstruction
  <2>2. ASSUME NEW a \in DOMAIN isCpool
        PROVE  a \in Salts \X Users /\ Good(a, pools)'
    <3>1. a \in Salts \X Users /\ Good(a, pools)
      BY DEF Reached, Sound
    <3> QED
      BY <1>2, <3>1 DEF Good
  <2>3. ASSUME NEW a \in (Salts \X Users) \ UnderConstruction, a \in DOMAIN pools'
        PROVE  a \in DOMAIN isCpool
    <3>1. a \in DOMAIN pools
      BY <1>2, <2>3, FactoryAssumption
    <3> QED
      BY <3>1 DEF Reached, Sound
  <2> QED
    BY <2>1, <2>2, <2>3 DEF Sound
<1> QED
  BY <1>3, <1>4, <1>5 DEF Reached
-----------------------------------------------------------------------------
(***************************************************************************)
(* The factory's own steps                                                 *)
(***************************************************************************)
LEMMA FactoryInitReaches ==
  ASSUME Reached, NEW hash \in Hashes, FactoryInit(hash)
  PROVE  Reached'
<1>1. DOMAIN isCpool = {}
  <2>1. ASSUME NEW addr \in DOMAIN isCpool PROVE FALSE
    <3>1. Good(addr, pools) /\ wasmHash = NoHash
      BY DEF Reached, Sound, FactoryInit
    <3>2. pools[addr].code \in Hashes
      BY <3>1, StateTypes DEF Reached, Good, Pool
    <3> QED
      BY <3>1, <3>2, FactoryAssumption DEF Good
  <2> QED
    BY <2>1
<1>2. /\ at = "idle" /\ wasmHash' = hash
      /\ UNCHANGED <<instanceLife, isCpool, pools, ledger, at, newPool>>
  BY DEF FactoryInit
<1>3. StateOK(State)' /\ NewPoolOK'
  BY <1>2 DEF Reached, StateOK, State, NewPoolOK
<1>4. Sound(pools, isCpool, UnderConstruction)'
  BY <1>1, <1>2 DEF Reached, Sound, UnderConstruction
<1> QED
  BY <1>2, <1>3, <1>4 DEF Reached

LEMMA NewCPoolReaches ==
  ASSUME Reached, NEW salt \in Salts, NEW controller \in Users, NewCPool(salt, controller)
  PROVE  Reached'
<1>1. /\ at = "idle" /\ at' = "deploy" /\ wasmHash \in Hashes
      /\ newPool' = [address |-> <<salt, controller>>, controller |-> controller]
      /\ UNCHANGED <<wasmHash, isCpool, pools, ledger>>
      /\ instanceLife' = ExtendedLife(instanceLife, ledger, SHARED_LIFETIME_THRESHOLD,
                                      SHARED_BUMP_AMOUNT)
  BY DEF NewCPool, PoolAddress, Reached
<1>2. instanceLife' \in Int
  BY <1>1, StateTypes, LivesAreIntegers, FactoryAssumption DEF Reached
<1>3. StateOK(State)'
  BY <1>1, <1>2, StateTypes DEF Reached, StateOK, State
<1>4. NewPoolOK'
  BY <1>1 DEF NewPoolOK
<1>5. Sound(pools, isCpool, UnderConstruction)'
  BY <1>1 DEF Reached, Sound, UnderConstruction, Good
<1> QED
  BY <1>1, <1>3, <1>4, <1>5 DEF Reached

LEMMA DeployReaches ==
  ASSUME Reached, Deploy
  PROVE  Reached'
<1> DEFINE addr == newPool.address
           pool == Deployed(wasmHash, newPool.controller)
<1>1. /\ at = "deploy" /\ at' = "init" /\ addr \notin DOMAIN pools
      /\ pools' = With(pools, addr, pool)
      /\ UNCHANGED <<wasmHash, instanceLife, isCpool, ledger, newPool>>
  BY DEF Deploy
<1>2. /\ wasmHash \in Hashes /\ newPool.controller \in Users
      /\ addr \in Salts \X {newPool.controller}
  BY <1>1 DEF Reached, NewPoolOK
<1>3. pool \in Pool /\ addr \in PoolAddresses
  BY <1>2 DEF Deployed, Pool, PoolAddresses
<1>4. /\ pools \in [DOMAIN pools -> Pool] /\ DOMAIN pools \subseteq PoolAddresses
      /\ instanceLife \in Int
      /\ DOMAIN isCpool \subseteq PoolAddresses /\ isCpool \in [DOMAIN isCpool -> Int]
  BY StateTypes DEF Reached
<1>5. /\ pool.code = wasmHash /\ pool.controller = NoController
      /\ pool.askedFor = newPool.controller
  BY DEF Deployed
<1> HIDE DEF addr, pool
<1>6. /\ pools' \in [DOMAIN pools \cup {addr} -> Pool]
      /\ DOMAIN pools' = DOMAIN pools \cup {addr}
      /\ pools'[addr] = pool
      /\ \A a \in DOMAIN pools \ {addr} : pools'[a] = pools[a]
  BY <1>1, <1>3, <1>4 DEF With
<1>7. StateOK(State)'
  BY <1>1, <1>3, <1>4, <1>6 DEF StateOK, State
<1>8. NewPoolOK'
  BY <1>1, <1>2, <1>5, <1>6 DEF NewPoolOK, addr
<1>9. Sound(pools, isCpool, UnderConstruction)'
  <2>1. UnderConstruction' = {addr} /\ UnderConstruction = {}
    BY <1>1 DEF UnderConstruction, addr
  <2>2. ASSUME NEW a \in DOMAIN isCpool
        PROVE  a \in Salts \X Users /\ Good(a, pools)'
    <3>1. a \in Salts \X Users /\ Good(a, pools)
      BY DEF Reached, Sound
    <3> QED
      BY <1>1, <1>6, <3>1 DEF Good
  <2>3. ASSUME NEW a \in (Salts \X Users) \ {addr}, a \in DOMAIN pools'
        PROVE  a \in DOMAIN isCpool
    BY <1>6, <2>1, <2>3 DEF Reached, Sound
  <2> QED
    BY <1>1, <2>1, <2>2, <2>3 DEF Sound
<1> QED
  BY <1>1, <1>7, <1>8, <1>9 DEF Reached

LEMMA InvokeInitReaches ==
  ASSUME Reached, InvokeInit
  PROVE  Reached'
<1> DEFINE addr == newPool.address
           pool == Initialised(pools[addr], newPool.controller)
<1>1. /\ at = "init" /\ at' = "register"
      /\ pools' = With(pools, addr, pool)
      /\ UNCHANGED <<wasmHash, instanceLife, isCpool, ledger, newPool>>
  BY DEF InvokeInit
<1>2. /\ wasmHash \in Hashes /\ newPool.controller \in Users
      /\ addr \in Salts \X {newPool.controller}
      /\ addr \in DOMAIN pools
      /\ pools[addr].code = wasmHash /\ pools[addr].controller = NoController
      /\ pools[addr].askedFor = newPool.controller
  BY <1>1 DEF Reached, NewPoolOK
<1>3. /\ pools \in [DOMAIN pools -> Pool] /\ DOMAIN pools \subseteq PoolAddresses
      /\ instanceLife \in Int
      /\ DOMAIN isCpool \subseteq PoolAddresses /\ isCpool \in [DOMAIN isCpool -> Int]
  BY StateTypes DEF Reached
<1>4. pools[addr] \in Pool
  BY <1>2, <1>3
<1>5. /\ pool \in Pool
      /\ pool.code = wasmHash /\ pool.controller = newPool.controller
      /\ pool.initialisedBy = newPool.controller /\ pool.askedFor = newPool.controller
  BY <1>2, <1>4 DEF Initialised, Pool
<1>6. addr[2] = newPool.controller /\ newPool.controller # NoController
  BY <1>2, FactoryAssumption
<1> HIDE DEF addr, pool
<1>7. /\ pools' \in [DOMAIN pools -> Pool]
      /\ DOMAIN pools' = DOMAIN pools
      /\ pools'[addr] = pool
      /\ \A a \in DOMAIN pools \ {addr} : pools'[a] = pools[a]
  BY <1>1, <1>2, <1>3, <1>5 DEF With
<1>8. StateOK(State)'
  BY <1>1, <1>3, <1>7 DEF StateOK, State
<1>9. Good(addr, pools)'
  BY <1>1, <1>2, <1>5, <1>6, <1>7 DEF Good, addr
<1>10. NewPoolOK'
  BY <1>1, <1>2, <1>9 DEF NewPoolOK, addr
<1>11. Sound(pools, isCpool, UnderConstruction)'
  <2>1. UnderConstruction' = UnderConstruction
    BY <1>1 DEF UnderConstruction
  <2>2. ASSUME NEW a \in DOMAIN isCpool
        PROVE  a \in Salts \X Users /\ Good(a, pools)'
    <3>1. a \in Salts \X Users /\ Good(a, pools)
      BY DEF Reached, Sound
    <3>2. a # addr
      BY <1>2, <3>1 DEF Good
    <3> QED
      BY <1>1, <1>7, <3>1, <3>2 DEF Good
  <2>3. ASSUME NEW a \in (Salts \X Users) \ UnderConstruction, a \in DOMAIN pools'
        PROVE  a \in DOMAIN isCpool
    BY <1>7, <2>3 DEF Reached, Sound
  <2> QED
    BY <1>1, <2>1, <2>2, <2>3 DEF Sound
<1> QED
  BY <1>1, <1>8, <1>10, <1>11 DEF Reached

LEMMA RegisterReaches ==
  ASSUME Reached, Register
  PROVE  Reached'
<1> DEFINE addr == newPool.address
           life == ExtendedLife(FreshLife(ledger), ledger, LARGE_LIFETIME_THRESHOLD,
                                LARGE_BUMP_AMOUNT)
<1>1. /\ at = "register" /\ at' = "idle"
      /\ isCpool' = With(isCpool, addr, life)
      /\ UNCHANGED <<wasmHash, instanceLife, pools, ledger, newPool>>
  BY DEF Register
<1>2. /\ newPool.controller \in Users /\ addr \in Salts \X {newPool.controller}
      /\ Good(addr, pools)
  BY <1>1 DEF Reached, NewPoolOK
<1>3. life \in Int
  BY LivesAreIntegers, StorageAssumption, FactoryAssumption DEF Reached, FreshLife
<1>4. addr \in Salts \X Users /\ addr \in PoolAddresses
  BY <1>2 DEF PoolAddresses
<1>5. /\ pools \in [DOMAIN pools -> Pool] /\ DOMAIN pools \subseteq PoolAddresses
      /\ instanceLife \in Int
      /\ DOMAIN isCpool \subseteq PoolAddresses /\ isCpool \in [DOMAIN isCpool -> Int]
  BY StateTypes DEF Reached
<1>6. UnderConstruction = {addr} /\ UnderConstruction' = {}
  BY <1>1 DEF UnderConstruction
<1> HIDE DEF addr, life
<1>7. /\ isCpool' \in [DOMAIN isCpool \cup {addr} -> Int]
      /\ DOMAIN isCpool' = DOMAIN isCpool \cup {addr}
  BY <1>1, <1>3, <1>5 DEF With
<1>8. StateOK(State)'
  BY <1>1, <1>4, <1>5, <1>7 DEF StateOK, State
<1>9. NewPoolOK'
  BY <1>1 DEF NewPoolOK
<1>10. Sound(pools, isCpool, UnderConstruction)'
  <2>1. ASSUME NEW a \in DOMAIN isCpool'
        PROVE  a \in Salts \X Users /\ Good(a, pools)'
    <3>1. a \in Salts \X Users /\ Good(a, pools)
      BY <1>2, <1>4, <1>7 DEF Reached, Sound
    <3> QED
      BY <1>1, <3>1 DEF Good
  <2>2. ASSUME NEW a \in Salts \X Users, a \in DOMAIN pools'
        PROVE  a \in DOMAIN isCpool'
    BY <1>1, <1>6, <1>7, <2>2 DEF Reached, Sound
  <2> QED
    BY <1>6, <2>1, <2>2 DEF Sound
<1> QED
  BY <1>1, <1>8, <1>9, <1>10 DEF Reached

LEMMA PanicReaches ==
  ASSUME Reached, Committed, Panic
  PROVE  Reached'
<1>1. /\ instanceLife' = committed.instanceLife /\ isCpool' = committed.isCpool
      /\ pools' = committed.pools
      /\ at' = "idle"
      /\ UNCHANGED <<wasmHash, ledger, newPool>>
  BY DEF Panic
<1>2. StateOK(State)'
  BY <1>1 DEF Committed, StateOK, State
<1>3. NewPoolOK'
  BY <1>1 DEF NewPoolOK
<1>4. Sound(pools, isCpool, UnderConstruction)'
  BY <1>1 DEF Committed, Sound, Good, UnderConstruction
<1> QED
  BY <1>1, <1>2, <1>3, <1>4 DEF Reached
-----------------------------------------------------------------------------
(***************************************************************************)
(* What goes on past the factory                                           *)
(***************************************************************************)
LEMMA PoolStepReaches ==
  ASSUME Reached, NEW addr \in PoolAddresses,
         \/ \E code \in Hashes : DeployOutside(addr, code)
         \/ \E user \in Users : InitDirectly(user, addr) \/ SetController(addr, user)
  PROVE  Reached'
<1>1. /\ pools \in [DOMAIN pools -> Pool]
      /\ \A a \in DOMAIN isCpool : a \in Salts \X Users /\ Good(a, pools)
  BY StateTypes DEF Reached, Sound
<1>2. CASE \E code \in Hashes : DeployOutside(addr, code)
  <2>1. PICK code \in Hashes : DeployOutside(addr, code)
    BY <1>2
  <2>2. Deployed(code, NoController) \in Pool
    BY DEF Deployed, Pool
  <2>3. addr \in Outside \ DOMAIN pools /\ addr \notin DOMAIN isCpool
    BY <1>1, <2>1 DEF DeployOutside, Good
  <2> QED
    BY <2>1, <2>2, <2>3, OnePoolChanges DEF DeployOutside, MayRun
<1>3. CASE \E user \in Users : InitDirectly(user, addr)
  <2>1. PICK user \in Users : InitDirectly(user, addr)
    BY <1>3
  <2>2. Initialised(pools[addr], user) \in Pool
    BY <1>1, <2>1 DEF InitDirectly, Initialised, Pool
  <2>3. addr \in DOMAIN pools /\ addr \notin DOMAIN isCpool
    BY <1>1, <2>1 DEF InitDirectly, Good
  <2> QED
    BY <2>1, <2>2, <2>3, OnePoolChanges DEF InitDirectly, MayRun
<1>4. CASE \E user \in Users : SetController(addr, user)
  <2>1. PICK user \in Users : SetController(addr, user)
    BY <1>4
  <2> DEFINE pool == [pools[addr] EXCEPT !.controller = user]
  <2>2. addr \in DOMAIN pools /\ pools[addr] \in Pool
    BY <1>1, <2>1 DEF SetController
  <2>3. /\ pool \in Pool /\ pool.controller = user /\ user # NoController
        /\ pool.code = pools[addr].code
        /\ pool.initialisedBy = pools[addr].initialisedBy
        /\ pool.askedFor = pools[addr].askedFor
    BY <2>2, FactoryAssumption DEF Pool
  <2>4. pools' = With(pools, addr, pool)
    <3>1. pools' = [pools EXCEPT ![addr] = pool]
      BY <2>1 DEF SetController
    <3>2. DOMAIN pools \cup {addr} = DOMAIN pools
      BY <2>2
    <3> HIDE DEF pool
    <3> QED
      BY <1>1, <3>1, <3>2 DEF With
  <2>5. addr \in DOMAIN isCpool => /\ pool.code = wasmHash
                                   /\ pool.initialisedBy = addr[2]
                                   /\ pool.askedFor = addr[2]
    BY <1>1, <2>3 DEF Good
  <2> HIDE DEF pool
  <2> QED
    BY <2>1, <2>2, <2>3, <2>4, <2>5, OnePoolChanges DEF SetController, MayRun
<1> QED
  BY <1>2, <1>3, <1>4

LEMMA LivesStepReaches ==
  ASSUME Reached,
         \/ \E addr : IsCPool(addr) \/ RestoreEntry(addr)
         \/ AdvanceLedger \/ RestoreInstance
  PROVE  Reached'
<1>1. /\ instanceLife \in Int /\ ledger \in Nat
      /\ isCpool \in [DOMAIN isCpool -> Int]
  BY StateTypes DEF Reached
<1>2. ASSUME NEW addr, NEW life \in Int, isCpool' = [isCpool EXCEPT ![addr] = life],
             UNCHANGED <<wasmHash, instanceLife, pools, ledger, at, newPool>>
      PROVE  Reached'
  <2>1. DOMAIN isCpool' = DOMAIN isCpool /\ isCpool' \in [DOMAIN isCpool -> Int]
    BY <1>1, <1>2
  <2> QED
    BY <1>1, <1>2, <2>1, LivesChange
<1>3. CASE \E addr : IsCPool(addr)
  <2>1. PICK addr : IsCPool(addr)
    BY <1>3
  <2> DEFINE life == ExtendedLife(isCpool[addr], ledger, LARGE_LIFETIME_THRESHOLD,
                                  LARGE_BUMP_AMOUNT)
  <2>2. addr \in DOMAIN isCpool /\ isCpool[addr] \in Int
    <3>1. addr \in DOMAIN isCpool
      BY <2>1 DEF IsCPool, IsCPoolAnswer
    <3> QED
      BY <1>1, <3>1
  <2>3. life \in Int
    BY <1>1, <2>2, LivesAreIntegers, FactoryAssumption
  <2> QED
    BY <1>2, <2>1, <2>3 DEF IsCPool
<1>4. CASE \E addr : RestoreEntry(addr)
  <2>1. PICK addr : RestoreEntry(addr)
    BY <1>4
  <2>2. FreshLife(ledger) \in Int
    BY <1>1, StorageAssumption DEF FreshLife
  <2> QED
    BY <1>2, <2>1, <2>2 DEF RestoreEntry
<1>5. CASE AdvanceLedger
  BY <1>1, <1>5, LivesChange DEF AdvanceLedger
<1>6. CASE RestoreInstance
  <2>1. FreshLife(ledger) \in Int
    BY <1>1, StorageAssumption DEF FreshLife
  <2> QED
    BY <1>1, <1>6, <2>1, LivesChange DEF RestoreInstance
<1> QED
  BY <1>3, <1>4, <1>5, <1>6
-----------------------------------------------------------------------------
LEMMA IInvInit == Init => IInv
<1> SUFFICES ASSUME Init PROVE IInv
  OBVIOUS
<1>1. StateOK(State)
  BY StorageAssumption DEF Init, State, StateOK, FreshLife
<1>2. NewPoolOK
  BY DEF Init, NewPoolOK
<1>3. Sound(pools, isCpool, UnderConstruction) /\ Sound(pools, isCpool, {})
  BY DEF Init, Sound
<1>4. committed = State /\ committed.pools = pools /\ committed.isCpool = isCpool
  BY DEF Init, State
<1> QED
  BY <1>1, <1>2, <1>3, <1>4 DEF Init, IInv, Reached, Committed

LEMMA IInvNext == IInv /\ [Next]_vars => IInv'
<1> SUFFICES ASSUME IInv, [Next]_vars PROVE IInv'
  OBVIOUS
<1>1. CASE UNCHANGED vars
  BY <1>1 DEF vars, IInv, Reached, Committed, StateOK, State, NewPoolOK, Sound, Good,
              UnderConstruction
<1>2. CASE Next
  <2>1. Reached /\ Committed
    BY DEF IInv
  <2>2. committed' = IF at' = "idle" THEN State' ELSE committed
    BY <1>2 DEF Next
  <2>3. CASE \E hash \in Hashes : FactoryInit(hash)
    <3>1. at' = "idle"
      BY <2>3 DEF FactoryInit
    <3> QED
      BY <2>1, <2>2, <2>3, <3>1, FactoryInitReaches, Commits
  <2>4. CASE ~\E hash \in Hashes : FactoryInit(hash)
    <3>1. Reached' /\ wasmHash' = wasmHash
      <4>1. CASE \E salt \in Salts, controller \in Users : NewCPool(salt, controller)
        BY <2>1, <4>1, NewCPoolReaches DEF NewCPool
      <4>2. CASE Deploy
        BY <2>1, <4>2, DeployReaches DEF Deploy
      <4>3. CASE InvokeInit
        BY <2>1, <4>3, InvokeInitReaches DEF InvokeInit
      <4>4. CASE Register
        BY <2>1, <4>4, RegisterReaches DEF Register
      <4>5. CASE Panic
        BY <2>1, <4>5, PanicReaches DEF Panic
      <4>6. CASE \E addr \in PoolAddresses : IsCPool(addr)
        BY <2>1, <4>6, LivesStepReaches DEF IsCPool
      <4>7. CASE \E addr \in PoolAddresses : RestoreEntry(addr)
        BY <2>1, <4>7, LivesStepReaches DEF RestoreEntry
      <4>8. CASE AdvanceLedger
        BY <2>1, <4>8, LivesStepReaches DEF AdvanceLedger
      <4>9. CASE RestoreInstance
        BY <2>1, <4>9, LivesStepReaches DEF RestoreInstance
      <4>10. CASE \E addr \in PoolAddresses :
                    \/ \E code \in Hashes : DeployOutside(addr, code)
                    \/ \E user \in Users : InitDirectly(user, addr) \/ SetController(addr, user)
        <5>1. wasmHash' = wasmHash
          BY <4>10 DEF DeployOutside, InitDirectly, SetController
        <5> QED
          BY <2>1, <4>10, <5>1, PoolStepReaches
      <4> QED
        BY <1>2, <2>4, <4>1, <4>2, <4>3, <4>4, <4>5, <4>6, <4>7, <4>8, <4>9, <4>10
        DEF Next, FactoryNext, EnvironmentNext
    <3> QED
      BY <2>1, <2>2, <3>1, Commits
  <2> QED
    BY <2>3, <2>4
<1> QED
  BY <1>1, <1>2

LEMMA IInvForever == Spec => []IInv
BY IInvInit, IInvNext, PTL DEF Spec
-----------------------------------------------------------------------------
\* The factory's storage, the pools and the call keep their types.
THEOREM FactoryTypeCorrect == Spec => []TypeOK
<1>1. IInv => TypeOK
  BY DEF IInv, Reached, Committed, NewPoolOK, TypeOK
<1> QED
  BY <1>1, IInvForever, PTL

\* A pool that is registered runs the factory's code and has been initialised
\* by the call of the user who asked for it: neither other invocations nor the
\* tokens that init calls can come in between.
THEOREM RegisterIsTruthful == Spec => []RegisteredPoolsAreInitialised
<1>1. IInv => RegisteredPoolsAreInitialised
  BY DEF IInv, Committed, Sound, Good, RegisteredPoolsAreInitialised
<1> QED
  BY <1>1, IInvForever, PTL

\* There is a contract at an address of the factory's just when it is
\* registered: a creation that fails leaves nothing behind, whatever fails.
THEOREM CreationIsAtomic == Spec => []CreationIsAllOrNothing
<1>1. IInv => CreationIsAllOrNothing
  BY DEF IInv, Committed, Sound, Good, CreationIsAllOrNothing
<1> QED
  BY <1>1, IInvForever, PTL

\* is_c_pool never takes a pool of the factory's for another contract, however
\* long its entry has been archived, nor another contract for one of them.
THEOREM PoolsAreNeverDenied == Spec => []FactoryPoolsAreNeverDenied
<1>1. ASSUME IInv, NEW addr \in DOMAIN committed.pools, at = "idle"
      PROVE  IsCPoolAnswer(addr) = "no" <=> addr \in Outside
  <2>1. committed.isCpool = isCpool
    BY <1>1 DEF IInv, State
  <2>2. addr \in PoolAddresses
    BY <1>1 DEF IInv, Committed, StateOK
  <2>3. CASE addr \in DOMAIN isCpool
    <3>1. addr \notin Outside
      BY <1>1, <2>1, <2>3, FactoryAssumption DEF IInv, Committed, Sound
    <3> QED
      BY <2>3, <3>1 DEF IsCPoolAnswer
  <2>4. CASE addr \notin DOMAIN isCpool
    <3>1. addr \in Outside
      BY <1>1, <2>1, <2>2, <2>4 DEF IInv, Committed, Sound, PoolAddresses
    <3> QED
      BY <2>4, <3>1 DEF IsCPoolAnswer
  <2> QED
    BY <2>3, <2>4
<1>2. IInv => FactoryPoolsAreNeverDenied
  BY <1>1 DEF FactoryPoolsAreNeverDenied
<1> QED
  BY <1>2, IInvForever, PTL
=============================================================================
