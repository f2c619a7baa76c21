---------------------------- MODULE TestEnvironment ----------------------------
(***************************************************************************)
(* The scripts that prepare a cluster for the tests (app/setup.ts and      *)
(* app/generateFees.ts, run by the Makefile) with the functions they call  *)
(* in utils.ts, create-position.ts, swap.ts and config.ts.                 *)
(*                                                                         *)
(* A script is a process that does one thing after another.  Everything it *)
(* asks of the cluster may fail, and may have happened although it failed. *)
(* An error that is not caught ends the process; the developer may run the *)
(* script again, on the cluster the earlier runs have left.  Amounts are   *)
(* left out, and so are SOL and what is only printed.                      *)
(***************************************************************************)
EXTENDS Integers, Sequences, SequencesExt

CONSTANT
  MAX_FAULTS    \* bound on the failures of the cluster and the network

ASSUME TestEnvironmentAssumption == MAX_FAULTS \in Nat

VARIABLES
  env,          \* process.env.ENV, "localnet" or "devnet"
  script,       \* the script that runs, or none
  pc,           \* the place in it
  faults,
  accounts,     \* token accounts that exist
  funded,       \* token accounts that have received tokens
  pools,        \* pools that exist
  opened,       \* pools in which the master wallet has a position
  traded,       \* whether the pools have traded
  attempts,     \* pool -> openings tried in this run
  unopened,     \* pools whose opening failed in this run
  done          \* scripts that have ended with "done"

chainVars == <<accounts, funded, pools, opened, traded>>
envVars == <<env, script, pc, faults, chainVars, attempts, unopened, done>>

Wallets == {"master", "creator"}
PoolMints ==
  [usdc_mint0 |-> {"USDC", "mint0"}, usdc_mint1 |-> {"USDC", "mint1"},
   mint0_mint1 |-> {"mint0", "mint1"}]
Pools == DOMAIN PoolMints
LocalPools == <<"usdc_mint0", "usdc_mint1", "mint0_mint1">>
\* The pools of devnet are there before, and so is its USDC.
DevnetPools == <<"usdc_mint0", "usdc_mint1">>
TokenAccount(wallet, mint) == <<wallet, mint>>

EnvInit ==
  /\ env \in {"localnet", "devnet"}
  /\ script = "none" /\ pc = 1 /\ faults = 0
  /\ accounts = IF env = "devnet" THEN {TokenAccount("master", "USDC")} ELSE {}
  /\ funded = accounts
  /\ pools = IF env = "devnet" THEN ToSet(DevnetPools) ELSE {}
  /\ opened = {} /\ traded = FALSE
  /\ attempts = [p \in Pools |-> 0] /\ unopened = {}
  /\ done = {}

-----------------------------------------------------------------------------
(* The scripts: what they do, in order.                                    *)

Do(op, on) == [op |-> op, on |-> on]
MintToBoth(mint) ==
  <<Do("mint", TokenAccount("master", mint)), Do("mint", TokenAccount("creator", mint))>>
DoAll(op, ps) == [i \in DOMAIN ps |-> Do(op, ps[i])]

SetupSteps ==
  <<Do("airdrop", "creator"), Do("airdrop", "master"), Do("sdk", "owner")>>
  \o MintToBoth("mint0") \o MintToBoth("mint1")
  \o (IF env # "devnet"
      THEN MintToBoth("USDC") \o DoAll("pool", LocalPools) \o DoAll("open", LocalPools)
      ELSE DoAll("open", DevnetPools))
  \o <<Do("done", "setup")>>

\* for (let i = 0; i < 0; i++)
FeeRounds == 0
FeeSteps ==
  <<Do("airdrop", "master"), Do("sdk", "owner")>>
  \o FlattenSeq([i \in 1..FeeRounds |-> <<Do("swap", "mint0"), Do("swap", "mint1")>>])
  \o <<Do("report", "mint0_mint1"), Do("done", "fees")>>

Steps == IF script = "setup" THEN SetupSteps ELSE FeeSteps
At(op) == script # "none" /\ Steps[pc].op = op
On == Steps[pc].on

Continue == pc' = pc + 1 /\ UNCHANGED <<env, script, done>>
Die == script' = "none" /\ pc' = 1 /\ UNCHANGED <<env, done>>
Fault == faults < MAX_FAULTS /\ faults' = faults + 1
NoFault == UNCHANGED faults

-----------------------------------------------------------------------------
(* What each step does.  The disjuncts are its outcomes.                   *)

\* airdrop, which asks for nothing on devnet, and initSdk.
Prepare ==
  /\ At("airdrop") \/ At("sdk")
  /\ \/ NoFault /\ Continue
     \/ ~(At("airdrop") /\ env = "devnet") /\ Fault /\ Die
  /\ UNCHANGED <<chainVars, attempts, unopened>>

\* Mutant: the error is logged as those of the pools are.
MintLogged ==
  /\ At("mint")
  /\ accounts' = accounts \cup {On}
  /\ \/ funded' = funded \cup {On} /\ NoFault
     \/ UNCHANGED funded /\ Fault
  /\ Continue
  /\ UNCHANGED <<pools, opened, traded, attempts, unopened>>

\* customMintToWithATA makes the token account first, in a transaction of its
\* own.  Its error is not caught.
Mint ==
  /\ At("mint")
  /\ accounts' \in {accounts, accounts \cup {On}}
  /\ funded' \in {funded, funded \cup {On}}
  /\ funded' \subseteq accounts'
  /\ \/ On \in funded' /\ NoFault /\ Continue
     \/ Fault /\ Die
  /\ UNCHANGED <<pools, opened, traded, attempts, unopened>>

\* Mutant: an error of the transaction is not caught.
CreatePoolRethrows ==
  /\ At("pool")
  /\ \/ On \notin pools /\ pools' = pools \cup {On} /\ NoFault /\ Continue
     \/ On \in pools /\ UNCHANGED pools /\ NoFault /\ Die
     \/ pools' \in {pools, pools \cup {On}} /\ Fault /\ Die
  /\ UNCHANGED <<accounts, funded, opened, traded, attempts, unopened>>

\* createPool: an error of the transaction is logged, that the pool exists too;
\* one before it, in the requests the transaction is built from, is not caught.
CreatePool ==
  /\ At("pool")
  /\ \/ On \notin pools /\ pools' = pools \cup {On} /\ NoFault /\ Continue
     \/ On \in pools /\ UNCHANGED pools /\ NoFault /\ Continue
     \/ pools' \in {pools, pools \cup {On}} /\ Fault /\ Continue
     \/ UNCHANGED pools /\ Fault /\ Die
  /\ UNCHANGED <<accounts, funded, opened, traded, attempts, unopened>>

\* createPosition, which run calls with .catch(console.error): reading the pool
\* may fail, and the opening, which the wallet must have the tokens for and
\* which is not tried again.
CreatePosition ==
  LET can == \A mint \in PoolMints[On] : TokenAccount("master", mint) \in funded
      tried == attempts' = [attempts EXCEPT ![On] = @ + 1]
      withPosition == IF can THEN opened \cup {On} ELSE opened
  IN
  /\ At("open")
  /\ \/ /\ On \in pools /\ opened' = withPosition /\ tried
        /\ unopened' = IF can THEN unopened ELSE unopened \cup {On}
        /\ NoFault
     \/ /\ On \in pools /\ opened' \in {opened, withPosition}
        /\ tried /\ unopened' = unopened \cup {On}
        /\ Fault
     \/ On \notin pools /\ UNCHANGED <<opened, attempts, unopened>> /\ NoFault
     \/ UNCHANGED <<opened, attempts, unopened>> /\ Fault
  /\ Continue
  /\ UNCHANGED <<accounts, funded, pools, traded>>

\* swap: the pool has to have the input's mint.  An error is logged.
Swap ==
  /\ \/ On \in PoolMints["mint0_mint1"] /\ traded' = TRUE /\ NoFault
     \/ UNCHANGED traded /\ Fault
  /\ Continue
  /\ UNCHANGED <<accounts, funded, pools, opened, attempts, unopened>>

\* generateFees reads the position, whose key is written in the script and may
\* be that of another cluster, and the pool, and prints.  Nothing is caught.
Report ==
  /\ \/ On \in opened /\ NoFault /\ Continue
     \/ NoFault /\ Die
     \/ Fault /\ Die
  /\ UNCHANGED <<chainVars, attempts, unopened>>

Fees == IF At("swap") THEN Swap ELSE At("report") /\ Report

Done ==
  /\ At("done")
  /\ done' = done \cup {On}
  /\ script' = "none" /\ pc' = 1
  /\ UNCHANGED <<env, chainVars, faults, attempts, unopened>>

Step == Prepare \/ Mint \/ CreatePool \/ CreatePosition \/ Fees \/ Done

-----------------------------------------------------------------------------
Run(s) ==
  /\ script = "none"
  /\ script' = s /\ pc' = 1
  /\ attempts' = [p \in Pools |-> 0] /\ unopened' = {}
  /\ UNCHANGED <<env, chainVars, faults, done>>

\* make setup-test-localnet (or -env-devnet) and make generate-fees.
RunSetup == Run("setup")
RunFees  == Run("fees")

EnvNext == RunSetup \/ RunFees \/ Step

Ready ==
  \A p \in ToSet(IF env = "devnet" THEN DevnetPools ELSE LocalPools) :
    p \in pools /\ p \in opened

\* Fairness: a script goes on as long as it lives, and a developer whose cluster
\* is not ready runs setup again some time.  That the failures end is the bound
\* on them.
EnvSpec ==
  /\ EnvInit /\ [][EnvNext]_envVars
  /\ WF_envVars(Step) /\ SF_envVars(RunSetup /\ ~Ready)

-----------------------------------------------------------------------------
\* A setup that says "done" has funded both wallets in both mints of the
\* strategies, by this run or an earlier one; the tests rely on it and check
\* nothing.
DoneMeansFunded ==
  "setup" \in done =>
    \A w \in Wallets, mint \in {"mint0", "mint1"} : TokenAccount(w, mint) \in funded

\* Setup can be run again whatever state a failed run has left, and in the end
\* has made every pool and opened a position in each: what exists already, and
\* fails, is passed over.
EventuallyReady == <>[]Ready

-----------------------------------------------------------------------------
\* What getTokenBalanceForOwner asks for, once it has derived the owner's token
\* account: the balance of the token account at the owner's own address.
NoBalance == -1
BalanceAt(address) ==
  IF address \notin accounts THEN NoBalance ELSE IF address \in funded THEN 1 ELSE 0
getTokenBalanceForOwner(mint, owner) == BalanceAt(<<owner>>)
==============================================================================
