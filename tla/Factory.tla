------------------------------ MODULE Factory ------------------------------
(***************************************************************************)
(* The factory contract, factory/src: lib.rs and call_logic/factory.rs,    *)
(* and the pools it deploys, of which only the code they run and their     *)
(* controller matter here.                                                 *)
(*                                                                         *)
(* new_c_pool makes three calls into the host, each a step of its own: it  *)
(* deploys a contract, invokes its init and registers it.  init in turn    *)
(* calls the tokens of the new pool, which may refuse, and which run code  *)
(* of their own that may use any contract but the two that are waiting.  A *)
(* panic anywhere makes the host undo the whole call.  Pools are deployed  *)
(* and initialised past the factory as well.                               *)
(***************************************************************************)
EXTENDS HostStorage

CONSTANTS
  Users, Salts,
  Outside,            \* addresses of contracts that others than the factory deploy
  Hashes,             \* hashes of installed code
  NoHash,             \* stands for a WasmHash entry that does not exist
  NoController,       \* stands for a Controller entry that does not exist
  SHARED_LIFETIME_THRESHOLD, SHARED_BUMP_AMOUNT,   \* of factory.rs, in ledgers
  LARGE_LIFETIME_THRESHOLD, LARGE_BUMP_AMOUNT

ASSUME FactoryAssumption ==
  /\ NoHash \notin Hashes /\ NoController \notin Users
  /\ Outside \cap (Salts \X Users) = {}
  /\ SHARED_LIFETIME_THRESHOLD \in Nat /\ SHARED_BUMP_AMOUNT \in Nat
  /\ LARGE_LIFETIME_THRESHOLD \in Nat /\ LARGE_BUMP_AMOUNT \in Nat

VARIABLES
  wasmHash,       \* DataKeyFactory::WasmHash
  instanceLife,   \* the life of the instance, which holds it
  isCpool,        \* DataKeyFactory::IsCpool: the life of each entry there is
  pools,          \* external: the pools there are, by address
  ledger,
  at,             \* the step that new_c_pool is at, "idle" when it does not run
  newPool,        \* the address it is about, the last one when it does not run
  committed       \* what the host goes back to when an invocation panics

vars == <<wasmHash, instanceLife, isCpool, pools, ledger, at, newPool, committed>>

(***************************************************************************)
(* The address of a pool is determined by the hash of the caller's salt    *)
(* and the controller: a pair of the two.                                  *)
(***************************************************************************)
\* Mutant of PoolAddress: the controller is left out of the salt.
PoolAddressOfSalt(salt, controller) == <<salt, CHOOSE u \in Users : TRUE>>

PoolAddress(salt, controller) == <<salt, controller>>

PoolAddresses == (Salts \X Users) \cup Outside

InstanceLive == LiveAt(instanceLife, ledger)

State == [instanceLife |-> instanceLife, isCpool |-> isCpool, pools |-> pools]

\* A contract that has just been deployed: it runs the code, and anyone may
\* initialise it.  askedFor is history: who had the factory deploy it.
Deployed(code, askedFor) ==
  [code |-> code, controller |-> NoController, askedFor |-> askedFor,
   initialisedBy |-> NoController]

Initialised(pool, user) == [pool EXCEPT !.controller = user, !.initialisedBy = user]

With(f, key, value) == [k \in DOMAIN f \cup {key} |-> IF k = key THEN value ELSE f[k]]
-----------------------------------------------------------------------------
(***************************************************************************)
(* lib.rs and factory.rs                                                   *)
(***************************************************************************)
FactoryInit(hash) ==
  /\ at = "idle" /\ InstanceLive
  /\ wasmHash = NoHash
  /\ wasmHash' = hash
  /\ UNCHANGED <<instanceLife, isCpool, pools, ledger, at, newPool>>

NewCPool(salt, controller) ==
  /\ at = "idle" /\ InstanceLive
  /\ wasmHash # NoHash
  /\ instanceLife' = ExtendedLife(instanceLife, ledger, SHARED_LIFETIME_THRESHOLD,
                                  SHARED_BUMP_AMOUNT)
  /\ newPool' = [address |-> PoolAddress(salt, controller), controller |-> controller]
  /\ at' = "deploy"
  /\ UNCHANGED <<wasmHash, isCpool, pools, ledger>>

Deploy ==
  /\ at = "deploy"
  /\ newPool.address \notin DOMAIN pools
  /\ pools' = With(pools, newPool.address, Deployed(wasmHash, newPool.controller))
  /\ at' = "init"
  /\ UNCHANGED <<wasmHash, instanceLife, isCpool, ledger, newPool>>

\* Mutant of InvokeInit: what init returns is not looked at.
InvokeInitIgnoringErrors ==
  /\ at = "init"
  /\ \E outcome \in {pools[newPool.address],
                     Initialised(pools[newPool.address], newPool.controller)} :
       pools' = With(pools, newPool.address, outcome)
  /\ at' = "register"
  /\ UNCHANGED <<wasmHash, instanceLife, isCpool, ledger, newPool>>

\* Mutant of InvokeInit: when init fails, new_c_pool returns without registering.
InvokeInitReturningEarly ==
  /\ at = "init"
  /\ \/ /\ pools' = With(pools, newPool.address,
                          Initialised(pools[newPool.address], newPool.controller))
        /\ at' = "register"
     \/ pools' = pools /\ at' = "idle"
  /\ UNCHANGED <<wasmHash, instanceLife, isCpool, ledger, newPool>>

InvokeInit ==
  /\ at = "init"
  /\ pools[newPool.address].controller = NoController
  /\ pools' = With(pools, newPool.address,
                   Initialised(pools[newPool.address], newPool.controller))
  /\ at' = "register"
  /\ UNCHANGED <<wasmHash, instanceLife, isCpool, ledger, newPool>>

Register ==
  /\ at = "register"
  /\ isCpool' = With(isCpool, newPool.address,
                     ExtendedLife(FreshLife(ledger), ledger, LARGE_LIFETIME_THRESHOLD,
                                  LARGE_BUMP_AMOUNT))
  /\ at' = "idle"
  /\ UNCHANGED <<wasmHash, instanceLife, pools, ledger, newPool>>

\* The address is taken, init refuses its arguments, a token refuses to pay,
\* or the budget of the invocation is used up.
Panic ==
  /\ at # "idle"
  /\ instanceLife' = committed.instanceLife
  /\ isCpool' = committed.isCpool
  /\ pools' = committed.pools
  /\ at' = "idle"
  /\ UNCHANGED <<wasmHash, ledger, newPool>>

\* Mutant of IsCPoolAnswer: the entry is in temporary storage.
IsCPoolAnswerTemporary(addr) ==
  IF addr \in DOMAIN isCpool /\ LiveAt(isCpool[addr], ledger) THEN "yes" ELSE "no"

\* What comes of asking is_c_pool about an address: the invocation traps when
\* it touches an entry that is archived.
IsCPoolAnswer(addr) ==
  IF addr \notin DOMAIN isCpool THEN "no"
    ELSE IF LiveAt(isCpool[addr], ledger) THEN "yes" ELSE "trap"

IsCPool(addr) ==
  /\ at = "idle" /\ InstanceLive
  /\ IsCPoolAnswer(addr) = "yes"
  /\ isCpool' = [isCpool EXCEPT ![addr] =
       ExtendedLife(@, ledger, LARGE_LIFETIME_THRESHOLD, LARGE_BUMP_AMOUNT)]
  /\ UNCHANGED <<wasmHash, instanceLife, pools, ledger, at, newPool>>
-----------------------------------------------------------------------------
(***************************************************************************)
(* What goes on past the factory, between its calls and from the tokens    *)
(* that the init of a new pool calls.                                      *)
(***************************************************************************)
MayRun(addr) == at = "idle" \/ (at = "init" /\ addr # newPool.address)

DeployOutside(addr, code) ==
  /\ MayRun(addr)
  /\ addr \in Outside \ DOMAIN pools
  /\ pools' = With(pools, addr, Deployed(code, NoController))
  /\ UNCHANGED <<wasmHash, instanceLife, isCpool, ledger, at, newPool>>

\* comet.rs: init and set_controller of a pool
InitDirectly(user, addr) ==
  /\ MayRun(addr)
  /\ addr \in DOMAIN pools
  /\ pools[addr].controller = NoController
  /\ pools' = With(pools, addr, Initialised(pools[addr], user))
  /\ UNCHANGED <<wasmHash, instanceLife, isCpool, ledger, at, newPool>>

SetController(addr, manager) ==
  /\ MayRun(addr)
  /\ addr \in DOMAIN pools
  /\ pools[addr].controller # NoController
  /\ pools' = [pools EXCEPT ![addr].controller = manager]
  /\ UNCHANGED <<wasmHash, instanceLife, isCpool, ledger, at, newPool>>

\* The network closes a ledger.
AdvanceLedger ==
  /\ at = "idle" /\ ledger < MaxLedger
  /\ ledger' = ledger + 1
  /\ UNCHANGED <<wasmHash, instanceLife, isCpool, pools, at, newPool>>

RestoreInstance ==
  /\ at = "idle" /\ ~InstanceLive
  /\ instanceLife' = FreshLife(ledger)
  /\ UNCHANGED <<wasmHash, isCpool, pools, ledger, at, newPool>>

RestoreEntry(addr) ==
  /\ at = "idle" /\ IsCPoolAnswer(addr) = "trap"
  /\ isCpool' = [isCpool EXCEPT ![addr] = FreshLife(ledger)]
  /\ UNCHANGED <<wasmHash, instanceLife, pools, ledger, at, newPool>>
-----------------------------------------------------------------------------
Init ==
  /\ wasmHash = NoHash
  /\ instanceLife = FreshLife(0)
  /\ isCpool = <<>> /\ pools = <<>>   \* the function with no domain
  /\ ledger = 0
  /\ at = "idle"
  /\ newPool = [address |-> NoHash, controller |-> NoController]
  /\ committed = State

FactoryNext ==
  \/ \E hash \in Hashes : FactoryInit(hash)
  \/ \E salt \in Salts, controller \in Users : NewCPool(salt, controller)
  \/ Deploy \/ InvokeInit \/ Register \/ Panic
  \/ \E addr \in PoolAddresses : IsCPool(addr)

EnvironmentNext ==
  \/ \E addr \in PoolAddresses :
       \/ \E code \in Hashes : DeployOutside(addr, code)
       \/ \E user \in Users : InitDirectly(user, addr) \/ SetController(addr, user)
       \/ RestoreEntry(addr)
  \/ AdvanceLedger \/ RestoreInstance

\* A call that has returned is committed, one that is being executed is not.
Next ==
  /\ FactoryNext \/ EnvironmentNext
  /\ committed' = IF at' = "idle" THEN State' ELSE committed

Spec == Init /\ [][Next]_vars
-----------------------------------------------------------------------------
(***************************************************************************)
(* Properties                                                              *)
(***************************************************************************)
Pool == [code : Hashes, controller : Users \cup {NoController},
         askedFor : Users \cup {NoController}, initialisedBy : Users \cup {NoController}]

StateOK(state) ==
  /\ state.instanceLife \in Int
  /\ DOMAIN state.isCpool \subseteq PoolAddresses
  /\ DOMAIN state.pools \subseteq PoolAddresses
  /\ state.isCpool \in [DOMAIN state.isCpool -> Int]
  /\ state.pools \in [DOMAIN state.pools -> Pool]

\* The types of the factory's storage, of the pools and of the call.
TypeOK ==
  /\ wasmHash \in Hashes \cup {NoHash}
  /\ StateOK(State) /\ StateOK(committed)
  /\ ledger \in Nat
  /\ at \in {"idle", "deploy", "init", "register"}
  /\ at # "idle" => /\ newPool.controller \in Users
                    /\ newPool.address \in Salts \X {newPool.controller}

\* Whatever is registered is a pool that runs the code the factory was set up
\* with and that its own init has handed to the user who asked for it: nobody
\* comes in between deploy, init and registration (factory.rs:46-63), neither
\* in other invocations nor in what the tokens do that init calls.
RegisteredPoolsAreInitialised ==
  \A addr \in DOMAIN committed.isCpool :
    /\ addr \in DOMAIN committed.pools
    /\ committed.pools[addr].code = wasmHash
    /\ committed.pools[addr].controller # NoController
    /\ committed.pools[addr].initialisedBy = addr[2]
    /\ committed.pools[addr].askedFor = addr[2]

\* A creation happens completely or not at all: no call that fails half way
\* leaves a contract behind at the address, where it would make every retry
\* with the same salt fail, and nobody takes an address of somebody else.
CreationIsAllOrNothing ==
  \A salt \in Salts, user \in Users :
    <<salt, user>> \in DOMAIN committed.pools <=> <<salt, user>> \in DOMAIN committed.isCpool

\* is_c_pool never denies a pool that the factory has made, however long
\* nobody has asked: the entry may have to be restored first, but it is never
\* taken for missing (factory.rs:78).  Of other contracts it says no.
FactoryPoolsAreNeverDenied ==
  \A addr \in DOMAIN committed.pools :
    at = "idle" => (IsCPoolAnswer(addr) = "no" <=> addr \in Outside)
=============================================================================
