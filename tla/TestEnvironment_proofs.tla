------------------------- MODULE TestEnvironment_proofs -------------------------
(***************************************************************************)
(* Proof that a setup that ends with "done" has funded both wallets,       *)
(* however many failures there were and however often it was run again.    *)
(***************************************************************************)
EXTENDS TestEnvironment, TLAPS

ScriptTypeOK ==
  /\ env \in {"localnet", "devnet"}
  /\ script \in {"none", "setup", "fees"}
  /\ pc \in Nat
  /\ script # "none" => pc \in 1..Len(Steps)

\* The places of the setup at which the wallets get the strategies' mints.
MintPlaces == 4..7

\* A setup that is past a mint has made it.
MintedSoFar ==
  script = "setup" => \A i \in MintPlaces : i < pc => SetupSteps[i].on \in funded

EnvInv == ScriptTypeOK /\ MintedSoFar /\ DoneMeansFunded

-----------------------------------------------------------------------------
(* The scripts.                                                            *)

\* The first seven steps of the setup, and its last.
LEMMA SetupOrder ==
  LET p == SetupSteps
  IN  /\ Len(p) \in {10, 16} /\ p[Len(p)].op = "done"
      /\ p[1].op = "airdrop" /\ p[2].op = "airdrop" /\ p[3].op = "sdk"
      /\ p[4] = Do("mint", TokenAccount("master", "mint0"))
      /\ p[5] = Do("mint", TokenAccount("creator", "mint0"))
      /\ p[6] = Do("mint", TokenAccount("master", "mint1"))
      /\ p[7] = Do("mint", TokenAccount("creator", "mint1"))
<1>1. CASE env # "devnet"
  <2>. DEFINE first == <<Do("airdrop", "creator"), Do("airdrop", "master"), Do("sdk", "owner")>>
              rest == MintToBoth("USDC") \o DoAll("pool", LocalPools) \o DoAll("open", LocalPools)
  <2>1. SetupSteps = first \o MintToBoth("mint0") \o MintToBoth("mint1")
                       \o rest \o <<Do("done", "setup")>>
    BY <1>1 DEF SetupSteps
  <2>. QED
    BY <2>1 DEF MintToBoth, DoAll, LocalPools, Do
<1>2. CASE env = "devnet"
  <2>. DEFINE first == <<Do("airdrop", "creator"), Do("airdrop", "master"), Do("sdk", "owner")>>
  <2>1. SetupSteps = first \o MintToBoth("mint0") \o MintToBoth("mint1")
                       \o DoAll("open", DevnetPools) \o <<Do("done", "setup")>>
    BY <1>2 DEF SetupSteps
  <2>. QED
    BY <2>1 DEF MintToBoth, DoAll, DevnetPools, Do
<1>. QED
  BY <1>1, <1>2

LEMMA FeeOrder ==
  LET p == FeeSteps
  IN  /\ Len(p) = 4 /\ p[4] = Do("done", "fees")
      /\ p[1].op = "airdrop" /\ p[2].op = "sdk" /\ p[3].op = "report"
<1>. DEFINE rounds == [i \in 1..FeeRounds |-> <<Do("swap", "mint0"), Do("swap", "mint1")>>]
<1>1. rounds = <<>>
  BY DEF FeeRounds
<1>2. FlattenSeq(rounds) = <<>>
  BY <1>1 DEF FlattenSeq
<1>3. FeeSteps = <<Do("airdrop", "master"), Do("sdk", "owner")>> \o <<>>
                   \o <<Do("report", "mint0_mint1"), Do("done", "fees")>>
  BY <1>2 DEF FeeSteps
<1>. QED
  BY <1>3 DEF Do

\* A script goes on from every step but its last, which is the one that is done.
LEMMA StepOrder ==
  ASSUME ScriptTypeOK, script # "none"
  PROVE  /\ pc \in Nat
         /\ Steps[pc].op # "done" => pc + 1 \in 1..Len(Steps)
         /\ Steps[pc].op = "done" => IF script = "setup" THEN pc > 7 ELSE On = "fees"
         /\ script = "setup" /\ pc \in MintPlaces => At("mint")
<1>1. CASE script = "setup"
  <2>1. Steps = SetupSteps /\ pc \in Nat /\ pc \in 1..Len(SetupSteps) /\ Len(SetupSteps) \in Nat
    BY <1>1, SetupOrder DEF ScriptTypeOK, Steps
  <2>2. SetupSteps[pc].op # "done" => pc # Len(SetupSteps)
    BY SetupOrder
  <2>3. pc + 1 \in 1..Len(SetupSteps) \/ pc = Len(SetupSteps)
    BY <2>1
  <2>4. pc <= 3 => SetupSteps[pc].op \in {"airdrop", "sdk"}
    BY <2>1, SetupOrder
  <2>5. pc \in MintPlaces => SetupSteps[pc].op = "mint"
    BY <2>1, SetupOrder DEF MintPlaces, Do
  <2>. QED
    BY <1>1, <2>1, <2>2, <2>3, <2>4, <2>5 DEF At, MintPlaces
<1>2. CASE script = "fees"
  <2>1. Steps = FeeSteps /\ pc \in 1..4 /\ Len(Steps) = 4
    BY <1>2, FeeOrder DEF ScriptTypeOK, Steps
  <2>2. pc = 1 \/ pc = 2 \/ pc = 3 \/ pc = 4
    BY <2>1
  <2>. QED
    BY <1>2, <2>1, <2>2, FeeOrder DEF Do, On
<1>. QED
  BY <1>1, <1>2 DEF ScriptTypeOK

-----------------------------------------------------------------------------
(* The invariant.                                                          *)

\* A step by which the script goes on, and which makes the mint it stands at.
LEMMA GoingOnKeeps ==
  ASSUME EnvInv, script # "none", Steps[pc].op # "done", Continue,
         funded \subseteq funded', At("mint") => On \in funded'
  PROVE  EnvInv'
<1>1. ScriptTypeOK /\ MintedSoFar /\ DoneMeansFunded
  BY DEF EnvInv
<1>2. /\ env' = env /\ script' = script /\ pc' = pc + 1 /\ done' = done
      /\ SetupSteps' = SetupSteps /\ Steps' = Steps
  BY DEF Continue, SetupSteps, Steps, FeeSteps
<1>3. ScriptTypeOK'
  BY <1>1, <1>2, StepOrder DEF ScriptTypeOK
<1>4. MintedSoFar'
  <2>. SUFFICES ASSUME script = "setup", NEW i \in MintPlaces, i < pc + 1
                PROVE  SetupSteps[i].on \in funded'
    BY <1>2 DEF MintedSoFar
  <2>1. CASE i < pc
    BY <1>1, <2>1 DEF MintedSoFar
  <2>2. CASE i = pc
    BY <1>1, <2>2, StepOrder DEF On, Steps
  <2>. QED
    BY <1>1, <2>1, <2>2 DEF ScriptTypeOK, MintPlaces
<1>5. DoneMeansFunded'
  BY <1>1, <1>2 DEF DoneMeansFunded
<1>. QED
  BY <1>3, <1>4, <1>5 DEF EnvInv

\* A step after which no script runs, or one from its start.
LEMMA RestartKeeps ==
  ASSUME EnvInv, UNCHANGED <<env, done>>, pc' = 1, script' \in {"none", "setup", "fees"},
         funded \subseteq funded'
  PROVE  EnvInv'
<1>1. ScriptTypeOK /\ DoneMeansFunded
  BY DEF EnvInv
<1>2. ScriptTypeOK'
  <2>1. 1 \in 1..Len(Steps')
    <3>1. SetupSteps' = SetupSteps /\ FeeSteps' = FeeSteps
      BY DEF SetupSteps, FeeSteps
    <3>2. Len(SetupSteps) \in {10, 16} /\ Len(FeeSteps) = 4
      BY SetupOrder, FeeOrder
    <3>3. Steps' = SetupSteps \/ Steps' = FeeSteps
      BY <3>1 DEF Steps
    <3>4. ASSUME NEW n \in {4, 10, 16} PROVE 1 \in 1..n
      OBVIOUS
    <3>. QED
      BY <3>2, <3>3, <3>4
  <2>. QED
    BY <1>1, <2>1 DEF ScriptTypeOK
<1>3. MintedSoFar'
  BY DEF MintedSoFar, MintPlaces
<1>4. DoneMeansFunded'
  BY <1>1 DEF DoneMeansFunded
<1>. QED
  BY <1>2, <1>3, <1>4 DEF EnvInv

LEMMA DoneKeeps ==
  ASSUME EnvInv, Done
  PROVE  EnvInv'
<1>1. ScriptTypeOK /\ MintedSoFar /\ DoneMeansFunded
  BY DEF EnvInv
<1>2. script' = "none" /\ pc' = 1 /\ env' = env /\ funded' = funded /\ done' = done \cup {On}
      /\ script # "none" /\ Steps[pc].op = "done"
  BY DEF Done, At, chainVars
<1>3. ScriptTypeOK' /\ MintedSoFar'
  BY <1>1, <1>2 DEF ScriptTypeOK, MintedSoFar
<1>4. DoneMeansFunded'
  <2>1. CASE script = "setup"
    <3>1. pc > 7 /\ pc \in Nat
      BY <1>1, <1>2, <2>1, StepOrder
    <3>2. \A i \in MintPlaces : SetupSteps[i].on \in funded
      BY <1>1, <2>1, <3>1 DEF MintedSoFar, MintPlaces
    <3>3. {SetupSteps[4].on, SetupSteps[5].on, SetupSteps[6].on, SetupSteps[7].on} \subseteq funded
      BY <3>2 DEF MintPlaces
    <3>4. {TokenAccount("master", "mint0"), TokenAccount("creator", "mint0"),
           TokenAccount("master", "mint1"), TokenAccount("creator", "mint1")} \subseteq funded
      BY <3>3, SetupOrder DEF Do
    <3>. QED
      BY <1>2, <3>4 DEF DoneMeansFunded, Wallets
  <2>2. CASE script # "setup"
    <3>1. On = "fees"
      BY <1>1, <1>2, <2>2, StepOrder
    <3>. QED
      BY <1>1, <1>2, <3>1 DEF DoneMeansFunded
  <2>. QED
    BY <2>1, <2>2
<1>. QED
  BY <1>3, <1>4 DEF EnvInv

\* What every other step comes to.
LEMMA StepEffect ==
  ASSUME Step, ~Done
  PROVE  /\ script # "none" /\ Steps[pc].op # "done"
         /\ funded \subseteq funded'
         /\ Die \/ (Continue /\ (At("mint") => On \in funded'))
<1>1. CASE Prepare
  BY <1>1 DEF Prepare, At, chainVars
<1>2. CASE Mint
  BY <1>2 DEF Mint, At
<1>3. CASE CreatePool
  BY <1>3 DEF CreatePool, At
<1>4. CASE CreatePosition
  BY <1>4 DEF CreatePosition, At
<1>5. CASE At("swap") /\ Swap
  BY <1>5 DEF Swap, At
<1>6. CASE At("report") /\ Report
  BY <1>6 DEF Report, At, chainVars
<1>. QED
  BY <1>1, <1>2, <1>3, <1>4, <1>5, <1>6 DEF Step, Fees

LEMMA EnvNextKeeps == EnvInv /\ [EnvNext]_envVars => EnvInv'
<1>. SUFFICES ASSUME EnvInv, [EnvNext]_envVars PROVE EnvInv'
  OBVIOUS
<1>1. CASE Done
  BY <1>1, DoneKeeps
<1>2. CASE Step /\ ~Done
  BY <1>2, StepEffect, GoingOnKeeps, RestartKeeps DEF Die
<1>3. ASSUME NEW s \in {"setup", "fees"}, Run(s) PROVE EnvInv'
  BY <1>3, RestartKeeps DEF Run, chainVars
<1>4. CASE UNCHANGED envVars
  BY <1>4 DEF envVars, chainVars, EnvInv, ScriptTypeOK, MintedSoFar, DoneMeansFunded,
              Steps, SetupSteps, FeeSteps
<1>. QED
  BY <1>1, <1>2, <1>3, <1>4 DEF EnvNext, RunSetup, RunFees

\* EnvInv holds of every run of the scripts.
THEOREM EnvInvariant == EnvSpec => []EnvInv
<1>1. EnvInit => EnvInv
  BY DEF EnvInit, EnvInv, ScriptTypeOK, MintedSoFar, DoneMeansFunded
<1>. QED
  BY <1>1, EnvNextKeeps, PTL DEF EnvSpec

\* A setup that has said "done" has given both wallets both mints of the
\* strategies.
THEOREM DoneMeansFundedTheorem == EnvSpec => []DoneMeansFunded
<1>1. EnvInv => DoneMeansFunded
  BY DEF EnvInv
<1>. QED
  BY <1>1, EnvInvariant, PTL
===============================================================================
