------------------------- MODULE VaultCreation_proofs -------------------------
(***************************************************************************)
(* Proofs about the admin's and the creators' instructions: the types of   *)
(* the accounts, the allocation of a config's percentages, the agreement   *)
(* of the registry with the strategies' own accounts, and that an active   *)
(* config is frozen.                                                       *)
(***************************************************************************)
EXTENDS VaultCreation, VaultAccountsTheorems

\* An account that was never initialized has no strategies.  InitializeConfig
\* empties the list of strategies only, so the lists stay aligned because of
\* this.
UnknownIsEmpty ==
  \A c \in Configs :
    vault_strategy_config[c].status = "Unknown" =>
      /\ vault_strategy_config[c].strategies = <<>>
      /\ vault_strategy_config[c].percentages = <<>>

CreationInv ==
  /\ CreationTypeOK
  /\ UnknownIsEmpty
  /\ AllocationBounded
  /\ ActiveFullyAllocated
  /\ RegistryAgrees

-----------------------------------------------------------------------------
(* Types of the values an instruction computes.                            *)

\* Liquidity is a natural number, and no more of a leg than was offered.
LEMMA LiquidityType ==
  ASSUME NEW range \in Ranges, NEW amount \in [Legs -> Nat]
  PROVE  /\ LiquidityFromAmounts(range, amount) \in Nat
         /\ TokensOf(range, LiquidityFromAmounts(range, amount)) \in [Legs -> Nat]
         /\ \A k \in Legs :
              TokensOf(range, LiquidityFromAmounts(range, amount))[k] <= amount[k]
<1>. DEFINE least(n) == /\ n \in {amount[k] : k \in LegsInUse(range)}
                        /\ \A k \in LegsInUse(range) : n <= amount[k]
            liq == LiquidityFromAmounts(range, amount)
<1>1. range \in {"below", "inside", "above"}
  BY CreationAssumption
<1>2. LegsInUse(range) \in {{0}, {0, 1}, {1}}
  BY <1>1 DEF LegsInUse, Legs
<1>3. \E n : least(n)
  <2>. amount[0] \in Nat /\ amount[1] \in Nat
    BY DEF Legs
  <2>1. CASE amount[0] <= amount[1]
    BY <1>2, <2>1
  <2>2. CASE ~(amount[0] <= amount[1])
    BY <1>2, <2>2
  <2>. QED  BY <2>1, <2>2
<1>4. least(liq)
  BY <1>3 DEF LiquidityFromAmounts
<1>5. liq \in Nat /\ \A k \in LegsInUse(range) : liq <= amount[k]
  BY <1>2, <1>4 DEF Legs
<1>. HIDE DEF liq
<1>6. /\ TokensOf(range, liq) \in [Legs -> Nat]
      /\ \A k \in Legs : TokensOf(range, liq)[k] <= amount[k]
  BY <1>5 DEF TokensOf
<1>. QED  BY <1>5, <1>6 DEF liq

\* Paying tokens one has leaves a balance.
LEMMA DebitType ==
  ASSUME NEW balances \in [Mints -> Nat], NEW c \in Configs,
         NEW amount \in [Legs -> Nat],
         \A k \in Legs : balances[LegMint[c][k]] >= amount[k]
  PROVE  Debit(balances, c, amount) \in [Mints -> Nat]
<1>. SUFFICES ASSUME NEW m \in Mints, \E k \in Legs : m = LegMint[c][k]
              PROVE  balances[m] - amount[CHOOSE k \in Legs : m = LegMint[c][k]] \in Nat
  BY DEF Debit
<1>. DEFINE k == CHOOSE k \in Legs : m = LegMint[c][k]
<1>1. k \in Legs /\ m = LegMint[c][k]
  OBVIOUS
<1>. HIDE DEF k
<1>2. balances[m] >= amount[k] /\ balances[m] \in Nat /\ amount[k] \in Nat
  BY <1>1
<1>3. balances[m] - amount[k] \in Nat
  BY <1>2
<1>. QED  BY <1>3 DEF k

\* Receiving tokens leaves a balance.
LEMMA CreditType ==
  ASSUME NEW balances \in [Mints -> Nat], NEW c \in Configs,
         NEW amount \in [Legs -> Nat]
  PROVE  Credit(balances, c, amount) \in [Mints -> Nat]
<1>. DEFINE minus == [k \in Legs |-> -amount[k]]
<1>. SUFFICES ASSUME NEW m \in Mints, \E k \in Legs : m = LegMint[c][k]
              PROVE  balances[m] - minus[CHOOSE k \in Legs : m = LegMint[c][k]] \in Nat
  BY DEF Debit, Credit
<1>. DEFINE k == CHOOSE k \in Legs : m = LegMint[c][k]
<1>1. k \in Legs
  OBVIOUS
<1>. HIDE DEF k
<1>2. balances[m] \in Nat /\ amount[k] \in Nat /\ minus[k] = -amount[k]
  BY <1>1
<1>. HIDE DEF minus
<1>3. balances[m] - minus[k] \in Nat
  BY <1>2
<1>. QED  BY <1>3 DEF k

\* A deposit leaves a position and a u64 of shares.
LEMMA DepositType ==
  ASSUME NEW pos \in PositionType, NEW assets \in Nat,
         NEW total_assets \in U64, NEW total_shares \in U64
  PROVE  Deposit(pos, assets, total_assets, total_shares) \in PositionType
<1>1. ConvertAssetsToShares(assets, total_assets, total_shares) \in Nat
  BY SharesType, U64Type
<1>2. pos.shares \in Nat /\ pos.assets \in Nat
  BY U64Type DEF PositionType
<1>. QED  BY <1>1, <1>2, U64Type DEF Deposit, PositionType

\* A vault to which assets or shares are added.
LEMMA AddAssetsType ==
  ASSUME NEW v \in VaultType, NEW n \in Nat
  PROVE  AddAssets(v, n) \in VaultType /\ AddShares(v, n) \in VaultType
<1>1. v.total_assets \in Nat /\ v.total_shares \in Nat
  BY U64Type DEF VaultType
<1>. QED  BY <1>1, U64Type DEF AddAssets, AddShares, VaultType

\* The totals of a vault to which assets and shares are added.
LEMMA AddedTotals ==
  ASSUME NEW v \in VaultType, NEW assets, NEW shares
  PROVE  /\ AddShares(AddAssets(v, assets), shares).total_assets
              = SatAdd(v.total_assets, assets)
         /\ AddShares(AddAssets(v, assets), shares).total_shares
              = SatAdd(v.total_shares, shares)
<1>. DEFINE w == AddAssets(v, assets)
<1>1. w = [v EXCEPT !.total_assets = SatAdd(v.total_assets, assets)]
  BY DEF AddAssets
<1>2. /\ w.total_assets = SatAdd(v.total_assets, assets)
      /\ w.total_shares = v.total_shares
      /\ w = [initialized |-> v.initialized, percentage |-> v.percentage,
              total_assets |-> SatAdd(v.total_assets, assets),
              total_shares |-> v.total_shares]
  BY <1>1 DEF VaultType
<1>. HIDE DEF w
<1>3. AddShares(w, shares) = [w EXCEPT !.total_shares = SatAdd(v.total_shares, shares)]
  BY <1>2 DEF AddShares
<1>. QED  BY <1>2, <1>3 DEF w

\* The totals of a new vault.
LEMMA InitializedTotals ==
  ASSUME NEW v \in VaultType, NEW assets, NEW shares, NEW p
  PROVE  /\ InitializeVault(v, assets, shares, p).total_assets
              = SatAdd(v.total_assets, assets)
         /\ InitializeVault(v, assets, shares, p).total_shares
              = SatAdd(v.total_shares, shares)
<1>. DEFINE w == AddShares(AddAssets(v, assets), shares)
<1>1. /\ w.total_assets = SatAdd(v.total_assets, assets)
      /\ w.total_shares = SatAdd(v.total_shares, shares)
  BY AddedTotals
<1>. HIDE DEF w
<1>2. InitializeVault(v, assets, shares, p)
        = [w EXCEPT !.initialized = TRUE, !.percentage = p]
  BY DEF InitializeVault, w
<1>3. /\ [w EXCEPT !.initialized = TRUE, !.percentage = p].total_assets = w.total_assets
      /\ [w EXCEPT !.initialized = TRUE, !.percentage = p].total_shares = w.total_shares
  OBVIOUS
<1>. QED  BY <1>1, <1>2, <1>3

\* A new vault is initialized, with its percentage.
LEMMA InitializeVaultType ==
  ASSUME NEW v \in VaultType, NEW assets \in Nat, NEW shares \in Nat, NEW p \in Nat
  PROVE  /\ InitializeVault(v, assets, shares, p) \in VaultType
         /\ InitializeVault(v, assets, shares, p).initialized
         /\ InitializeVault(v, assets, shares, p).percentage = p
<1>1. AddShares(AddAssets(v, assets), shares) \in VaultType
  BY AddAssetsType
<1>. QED  BY <1>1 DEF InitializeVault, VaultType

\* add_strategy appends to both lists and changes nothing else.
LEMMA AddStrategyEffect ==
  ASSUME NEW cfg \in ConfigType, NEW s \in Strategies, NEW p \in Nat
  PROVE  /\ AddStrategy(cfg, s, p) \in ConfigType
         /\ AddStrategy(cfg, s, p).status = cfg.status
         /\ AddStrategy(cfg, s, p).performance_fee = cfg.performance_fee
         /\ AddStrategy(cfg, s, p).strategies = Append(cfg.strategies, s)
         /\ AddStrategy(cfg, s, p).percentages = Append(cfg.percentages, p)
<1>1. /\ Append(cfg.strategies, s) \in Seq(Strategies)
      /\ Append(cfg.percentages, p) \in Seq(Nat)
  BY DEF ConfigType
<1>. QED  BY <1>1 DEF AddStrategy, ConfigType

-----------------------------------------------------------------------------
(* The initial state, and the instructions one by one.                     *)

\* The initial state satisfies the invariant.
LEMMA CreationInitInv ==
  ASSUME CreationInit
  PROVE  CreationInv
<1>. USE DEF CreationInit
<1>1. 0 \in U64 /\ 0 \in Nat /\ <<>> \in Seq(Nat) /\ <<>> \in Seq(Strategies)
  BY ScaleAssumption DEF U64
<1>2. CreationTypeOK
  <2>1. /\ NoConfig \in ConfigType /\ NoVault \in VaultType
        /\ NoPosition \in PositionType
    BY <1>1 DEF NoConfig, NoVault, NoPosition, ConfigType, VaultType,
                PositionType, VaultStrategyStatus
  <2>2. NoProtocol \in [status : {"Unknown", "Active", "Paused"},
                        admin_authority : Admins \cup {NoKey},
                        protocol_fees : Nat]
    BY DEF NoProtocol
  <2>. QED  BY <2>1, <2>2, CreationAssumption DEF CreationTypeOK
<1>3. UnknownIsEmpty
  BY DEF UnknownIsEmpty, NoConfig
<1>4. AllocationBounded
  <2>1. TotalPercentage(NoConfig) = 0
    <3>1. SumOver({}, <<>>) = 0
      BY SumEmpty
    <3>2. DOMAIN <<>> = {}
      OBVIOUS
    <3>. QED  BY <3>1, <3>2 DEF TotalPercentage, NoConfig
  <2>2. Len(NoConfig.strategies) = 0
        /\ DOMAIN NoConfig.percentages = DOMAIN NoConfig.strategies
    BY DEF NoConfig
  <2>. QED  BY <2>1, <2>2, ScaleAssumption DEF AllocationBounded
<1>5. ActiveFullyAllocated
  BY DEF ActiveFullyAllocated, NoConfig
<1>6. RegistryAgrees
  BY DEF RegistryAgrees, NoConfig, NoVault
<1>. QED  BY <1>2, <1>3, <1>4, <1>5, <1>6 DEF CreationInv

\* The registry is kept by a step that changes no list, and of the strategies'
\* accounts neither the percentage nor whether they are initialized.
LEMMA RegistryKept ==
  ASSUME RegistryAgrees, CreationTypeOK,
         \A d \in Configs :
           /\ vault_strategy_config'[d].strategies = vault_strategy_config[d].strategies
           /\ vault_strategy_config'[d].percentages = vault_strategy_config[d].percentages,
         \A s \in Strategies :
           /\ vault_strategy'[s].initialized = vault_strategy[s].initialized
           /\ vault_strategy'[s].percentage = vault_strategy[s].percentage
  PROVE  RegistryAgrees'
<1>1. ConfigOf \in [Strategies -> Configs]
  BY CreationAssumption
<1>2. \A d \in Configs : \A n \in DOMAIN vault_strategy_config[d].strategies :
        vault_strategy_config[d].strategies[n] \in Strategies
  BY DEF CreationTypeOK, ConfigType
<1>. QED  BY <1>1, <1>2 DEF RegistryAgrees

\* Steps that change only the protocol's account.
LEMMA ProtocolStep ==
  ASSUME CreationInv,
         protocol_config' \in [status : {"Unknown", "Active", "Paused"},
                               admin_authority : Admins \cup {NoKey},
                               protocol_fees : Nat],
         UNCHANGED <<vault_strategy_config, vault_strategy,
                     investor_strategy_position, liquidity, wallet>>
  PROVE  CreationInv'
<1>1. CreationTypeOK'
  BY DEF CreationInv, CreationTypeOK
<1>2. UnknownIsEmpty'
  BY DEF CreationInv, UnknownIsEmpty
<1>3. AllocationBounded'
  BY DEF CreationInv, AllocationBounded
<1>4. ActiveFullyAllocated'
  BY DEF CreationInv, ActiveFullyAllocated
<1>5. RegistryAgrees'
  BY RegistryKept DEF CreationInv
<1>. QED  BY <1>1, <1>2, <1>3, <1>4, <1>5 DEF CreationInv

\* The admin's instructions change the protocol's account only.
LEMMA AdminStep ==
  ASSUME CreationInv, AdminNext
  PROVE  CreationInv'
<1>. USE DEF CreationInv, CreationTypeOK
<1>1. ASSUME NEW a \in Admins, NEW fees \in ProtocolFees,
             InitProtocolConfig(a, fees)
      PROVE  CreationInv'
  <2>1. fees \in Nat
    BY CreationAssumption
  <2>2. protocol_config' \in [status : {"Unknown", "Active", "Paused"},
                              admin_authority : Admins \cup {NoKey},
                              protocol_fees : Nat]
    BY <1>1, <2>1 DEF InitProtocolConfig
  <2>. QED  BY <1>1, <2>2, ProtocolStep DEF InitProtocolConfig
<1>2. ASSUME NEW a \in Admins, PauseProtocol(a) \/ UnpauseProtocol(a)
      PROVE  CreationInv'
  <2>1. protocol_config' \in [status : {"Unknown", "Active", "Paused"},
                              admin_authority : Admins \cup {NoKey},
                              protocol_fees : Nat]
    BY <1>2 DEF PauseProtocol, UnpauseProtocol, SwitchProtocol
  <2>. QED  BY <1>2, <2>1, ProtocolStep
            DEF PauseProtocol, UnpauseProtocol, SwitchProtocol
<1>. QED  BY <1>1, <1>2 DEF AdminNext

\* The list of strategies starts empty, and so does that of percentages.
LEMMA InitConfigStep ==
  ASSUME CreationInv, NEW c \in Configs, NEW fee \in PerformanceFees,
         InitVaultStrategyConfig(c, fee)
  PROVE  CreationInv'
<1>. DEFINE cfg == vault_strategy_config[c]
            new == InitializeConfig(cfg, fee)
<1>. USE DEF CreationInv
<1>1. /\ vault_strategy_config' = [vault_strategy_config EXCEPT ![c] = new]
      /\ UNCHANGED <<protocol_config, vault_strategy,
                     investor_strategy_position, liquidity, wallet>>
      /\ cfg.status = "Unknown" /\ cfg \in ConfigType
      /\ vault_strategy_config \in [Configs -> ConfigType]
  BY DEF InitVaultStrategyConfig, CanInitializeConfig, CreationTypeOK
<1>2. cfg.strategies = <<>> /\ cfg.percentages = <<>>
  BY <1>1 DEF UnknownIsEmpty
<1>3. /\ new \in ConfigType /\ new.status = "Draft"
      /\ new.strategies = <<>> /\ new.percentages = <<>>
  <2>1. fee \in Nat /\ <<>> \in Seq(Strategies) /\ <<>> \in Seq(Nat)
    BY CreationAssumption
  <2>. QED  BY <1>1, <1>2, <2>1
            DEF InitializeConfig, ConfigType, VaultStrategyStatus
<1>. HIDE DEF new, cfg
<1>4. /\ vault_strategy_config' \in [Configs -> ConfigType]
      /\ vault_strategy_config'[c] = new
      /\ \A d \in Configs \ {c} : vault_strategy_config'[d] = vault_strategy_config[d]
  BY <1>1, <1>3
<1>5. CreationTypeOK'
  BY <1>1, <1>4 DEF CreationTypeOK
<1>6. UnknownIsEmpty'
  BY <1>3, <1>4 DEF UnknownIsEmpty
<1>7. AllocationBounded'
  <2>1. TotalPercentage(new) = 0 /\ Len(new.strategies) = 0
        /\ DOMAIN new.percentages = DOMAIN new.strategies
    <3>1. SumOver({}, <<>>) = 0 /\ DOMAIN <<>> = {} /\ Len(<<>>) = 0
      BY SumEmpty
    <3>. QED  BY <1>3, <3>1 DEF TotalPercentage
  <2>. SUFFICES ASSUME NEW d \in Configs
                PROVE  LET k == vault_strategy_config'[d] IN
                       /\ Len(k.strategies) <= MAX_NUM_STRATEGIES
                       /\ DOMAIN k.percentages = DOMAIN k.strategies
                       /\ TotalPercentage(k) <= MAX_PERCENTAGE
    BY DEF AllocationBounded
  <2>2. CASE d = c
    BY <1>4, <2>1, <2>2, ScaleAssumption
  <2>3. CASE d # c
    BY <1>4, <2>3 DEF AllocationBounded
  <2>. QED  BY <2>2, <2>3
<1>8. ActiveFullyAllocated'
  BY <1>3, <1>4 DEF ActiveFullyAllocated
<1>9. RegistryAgrees'
  <2>1. \A d \in Configs :
          vault_strategy_config'[d].strategies = vault_strategy_config[d].strategies
          /\ vault_strategy_config'[d].percentages = vault_strategy_config[d].percentages
    BY <1>2, <1>3, <1>4 DEF cfg
  <2>. QED  BY <1>1, <2>1, RegistryKept
<1>. QED  BY <1>5, <1>6, <1>7, <1>8, <1>9

\* Activation changes a status, under the condition it establishes.
LEMMA ActivateStep ==
  ASSUME CreationInv, NEW c \in Configs, ActivateVaultStrategyConfig(c)
  PROVE  CreationInv'
<1>. DEFINE new == [vault_strategy_config[c] EXCEPT !.status = "Active"]
<1>. USE DEF CreationInv
<1>1. /\ vault_strategy_config' = [vault_strategy_config EXCEPT ![c] = new]
      /\ UNCHANGED <<protocol_config, vault_strategy,
                     investor_strategy_position, liquidity, wallet>>
      /\ vault_strategy_config \in [Configs -> ConfigType]
      /\ vault_strategy_config[c] \in ConfigType
      /\ vault_strategy_config[c].strategies # <<>>
      /\ TotalPercentage(vault_strategy_config[c]) = MAX_PERCENTAGE
  BY DEF ActivateVaultStrategyConfig, CreationTypeOK
<1>2. /\ new \in ConfigType /\ new.status = "Active"
      /\ new.strategies = vault_strategy_config[c].strategies
      /\ new.percentages = vault_strategy_config[c].percentages
  BY <1>1 DEF ConfigType, VaultStrategyStatus
<1>. HIDE DEF new
<1>3. /\ vault_strategy_config' \in [Configs -> ConfigType]
      /\ vault_strategy_config'[c] = new
      /\ \A d \in Configs \ {c} : vault_strategy_config'[d] = vault_strategy_config[d]
  BY <1>1, <1>2
<1>4. \A d \in Configs :
        /\ vault_strategy_config'[d].strategies = vault_strategy_config[d].strategies
        /\ vault_strategy_config'[d].percentages = vault_strategy_config[d].percentages
        /\ TotalPercentage(vault_strategy_config'[d])
              = TotalPercentage(vault_strategy_config[d])
  BY <1>2, <1>3 DEF TotalPercentage
<1>5. CreationTypeOK'
  BY <1>1, <1>3 DEF CreationTypeOK
<1>6. UnknownIsEmpty'
  BY <1>2, <1>3 DEF UnknownIsEmpty
<1>7. AllocationBounded'
  BY <1>4 DEF AllocationBounded
<1>8. ActiveFullyAllocated'
  BY <1>1, <1>3, <1>4 DEF ActiveFullyAllocated
<1>9. RegistryAgrees'
  BY <1>1, <1>4, RegistryKept
<1>. QED  BY <1>5, <1>6, <1>7, <1>8, <1>9

\* What creating strategy s does to the registry, and that it keeps the types.
LEMMA CreateEffect ==
  ASSUME CreationTypeOK, NEW s \in Strategies, NEW percentage \in Percentages,
         NEW amount_max \in [Legs -> CreateAmounts],
         NEW price \in [Legs -> Prices], NEW range \in Ranges,
         CreateRaydiumVaultStrategy(s, percentage, amount_max, price, range)
  PROVE  LET c   == ConfigOf[s]
             cfg == vault_strategy_config[c]
         IN
         /\ CreationTypeOK'
         /\ c \in Configs /\ cfg \in ConfigType /\ percentage \in Nat
         /\ cfg.status = "Draft"
         /\ CanAddStrategy(cfg, percentage)
         /\ vault_strategy_config'
              = [vault_strategy_config EXCEPT ![c] = AddStrategy(cfg, s, percentage)]
         /\ ~vault_strategy[s].initialized
         /\ vault_strategy'[s].initialized
         /\ vault_strategy'[s].percentage = percentage
         /\ \A t \in Strategies \ {s} : vault_strategy'[t] = vault_strategy[t]
         /\ \E u \in Users, newPos \in PositionType, assets \in Nat :
              /\ newPos = Deposit(investor_strategy_position[u][s], assets,
                                 vault_strategy[s].total_assets,
                                 vault_strategy[s].total_shares)
              /\ investor_strategy_position' =
                   [investor_strategy_position EXCEPT ![u][s] = newPos]
              /\ vault_strategy'[s].total_assets
                   = SatAdd(vault_strategy[s].total_assets, assets)
              /\ vault_strategy'[s].total_shares
                   = SatAdd(vault_strategy[s].total_shares, newPos.shares)
         /\ \E liq \in Nat \ {0} : liquidity' = [liquidity EXCEPT ![s] = liquidity[s] + liq]
<1>. DEFINE c == ConfigOf[s]
            u == CreatorOf[c]
            v == vault_strategy[s]
            cfg == vault_strategy_config[c]
            pos == investor_strategy_position[u][s]
            liq == LiquidityFromAmounts(range, amount_max)
            tokens == TokensOf(range, liq)
            assets == AmountAssets(amount_max, price)
            newPos == Deposit(pos, assets, v.total_assets, v.total_shares)
            newVault == InitializeVault(v, assets, newPos.shares, percentage)
<1>1. /\ c \in Configs /\ u \in Users /\ percentage \in Nat
      /\ LegMint[c] \in [Legs -> Mints]
      /\ amount_max \in [Legs -> Nat] /\ price \in [Legs -> Nat]
  BY CreationAssumption, U64Type
<1>2. /\ v \in VaultType /\ cfg \in ConfigType /\ pos \in PositionType
      /\ wallet[u] \in [Mints -> Nat] /\ liquidity[s] \in Nat
  BY <1>1 DEF CreationTypeOK
<1>3. assets \in Nat
  <2>1. /\ amount_max[0] \in Nat /\ amount_max[1] \in Nat
        /\ price[0] \in Nat /\ price[1] \in Nat
    BY <1>1 DEF Legs
  <2>2. amount_max[0] * price[0] \in Nat /\ amount_max[1] * price[1] \in Nat
    BY <2>1
  <2>. QED  BY <2>2, U64Type DEF AmountAssets
<1>4. newPos \in PositionType /\ newPos.shares \in Nat
  <2>1. v.total_assets \in U64 /\ v.total_shares \in U64
    BY <1>2 DEF VaultType
  <2>2. newPos \in PositionType
    BY <1>2, <1>3, <2>1, DepositType
  <2>. QED  BY <2>2, U64Type DEF PositionType
<1>5. liq \in Nat /\ tokens \in [Legs -> Nat]
  BY <1>1, LiquidityType
<1>. HIDE DEF newPos, assets, tokens, liq, pos, cfg, v, u, c
<1>6. /\ newVault \in VaultType /\ newVault.initialized
      /\ newVault.percentage = percentage
      /\ newVault.total_assets = SatAdd(v.total_assets, assets)
      /\ newVault.total_shares = SatAdd(v.total_shares, newPos.shares)
  <2>1. v \in VaultType /\ assets \in Nat /\ newPos.shares \in Nat /\ percentage \in Nat
    BY <1>1, <1>2, <1>3, <1>4
  <2>2. newVault \in VaultType /\ newVault.initialized /\ newVault.percentage = percentage
    BY <2>1, InitializeVaultType
  <2>3. /\ newVault.total_assets = SatAdd(v.total_assets, assets)
        /\ newVault.total_shares = SatAdd(v.total_shares, newPos.shares)
    BY <2>1, InitializedTotals
  <2>. QED  BY <2>2, <2>3
<1>. HIDE DEF newVault
<1>7. /\ cfg.status = "Draft" /\ liq > 0
      /\ \A k \in Legs : wallet[u][LegMint[c][k]] >= tokens[k]
      /\ CanAddStrategy(cfg, percentage)
      /\ ~v.initialized
      /\ liquidity' = [liquidity EXCEPT ![s] = liquidity[s] + liq]
      /\ wallet' = [wallet EXCEPT ![u] = Debit(wallet[u], c, tokens)]
      /\ investor_strategy_position' =
           [investor_strategy_position EXCEPT ![u][s] = newPos]
      /\ vault_strategy_config' =
           [vault_strategy_config EXCEPT ![c] = AddStrategy(cfg, s, percentage)]
      /\ vault_strategy' = [vault_strategy EXCEPT ![s] = newVault]
      /\ UNCHANGED protocol_config
  BY DEF CreateRaydiumVaultStrategy, CanInitializeVault,
         newVault, newPos, assets, tokens, liq, pos, cfg, v, u, c
<1>8. Debit(wallet[u], c, tokens) \in [Mints -> Nat]
  BY <1>1, <1>2, <1>5, <1>7, DebitType
<1>9. AddStrategy(cfg, s, percentage) \in ConfigType
  BY <1>1, <1>2, AddStrategyEffect
<1>10. CreationTypeOK'
  <2>1. vault_strategy_config' \in [Configs -> ConfigType]
    BY <1>7, <1>9 DEF CreationTypeOK
  <2>2. vault_strategy' \in [Strategies -> VaultType]
    BY <1>6, <1>7 DEF CreationTypeOK
  <2>3. investor_strategy_position' \in [Users -> [Strategies -> PositionType]]
    BY <1>4, <1>7 DEF CreationTypeOK
  <2>4. liquidity' \in [Strategies -> Nat]
    BY <1>2, <1>5, <1>7 DEF CreationTypeOK
  <2>5. wallet' \in [Users -> [Mints -> Nat]]
    BY <1>7, <1>8 DEF CreationTypeOK
  <2>. QED  BY <1>7, <2>1, <2>2, <2>3, <2>4, <2>5 DEF CreationTypeOK
<1>11. /\ vault_strategy'[s] = newVault
       /\ \A t \in Strategies \ {s} : vault_strategy'[t] = vault_strategy[t]
  BY <1>7 DEF CreationTypeOK
<1>12. \E w \in Users, p \in PositionType, a \in Nat :
         /\ p = Deposit(investor_strategy_position[w][s], a,
                        vault_strategy[s].total_assets, vault_strategy[s].total_shares)
         /\ investor_strategy_position' =
              [investor_strategy_position EXCEPT ![w][s] = p]
         /\ vault_strategy'[s].total_assets = SatAdd(vault_strategy[s].total_assets, a)
         /\ vault_strategy'[s].total_shares = SatAdd(vault_strategy[s].total_shares, p.shares)
  <2>1. newPos = Deposit(investor_strategy_position[u][s], assets,
                         vault_strategy[s].total_assets, vault_strategy[s].total_shares)
    BY DEF newPos, pos, v
  <2>2. /\ vault_strategy'[s].total_assets = SatAdd(vault_strategy[s].total_assets, assets)
        /\ vault_strategy'[s].total_shares
             = SatAdd(vault_strategy[s].total_shares, newPos.shares)
    BY <1>6, <1>11 DEF v
  <2>. QED  BY <1>1, <1>3, <1>4, <1>7, <2>1, <2>2
<1>13. \E n \in Nat \ {0} : liquidity' = [liquidity EXCEPT ![s] = liquidity[s] + n]
  <2>1. liq \in Nat \ {0}
    BY <1>5, <1>7
  <2>. QED  BY <1>7, <2>1
<1>. QED  BY <1>1, <1>2, <1>6, <1>7, <1>10, <1>11, <1>12, <1>13 DEF cfg, c, v

\* Creating a strategy lists it once, within the limits.
LEMMA CreateStep ==
  ASSUME CreationInv, NEW s \in Strategies, NEW percentage \in Percentages,
         NEW amount_max \in [Legs -> CreateAmounts],
         NEW price \in [Legs -> Prices], NEW range \in Ranges,
         CreateRaydiumVaultStrategy(s, percentage, amount_max, price, range)
  PROVE  CreationInv'
<1>. DEFINE c   == ConfigOf[s]
            cfg == vault_strategy_config[c]
            new == AddStrategy(cfg, s, percentage)
            len == Len(cfg.strategies)
<1>. USE DEF CreationInv
<1>1. /\ CreationTypeOK'
      /\ c \in Configs /\ cfg \in ConfigType /\ percentage \in Nat
      /\ cfg.status = "Draft"
      /\ CanAddStrategy(cfg, percentage)
      /\ vault_strategy_config' = [vault_strategy_config EXCEPT ![c] = new]
      /\ ~vault_strategy[s].initialized
      /\ vault_strategy'[s].initialized
      /\ vault_strategy'[s].percentage = percentage
      /\ \A t \in Strategies \ {s} : vault_strategy'[t] = vault_strategy[t]
  BY CreateEffect
<1>2. /\ new \in ConfigType /\ new.status = "Draft"
      /\ new.strategies = Append(cfg.strategies, s)
      /\ new.percentages = Append(cfg.percentages, percentage)
  BY <1>1, AddStrategyEffect
<1>. HIDE DEF new
<1>3. /\ vault_strategy_config'[c] = new
      /\ \A d \in Configs \ {c} : vault_strategy_config'[d] = vault_strategy_config[d]
  BY <1>1 DEF CreationTypeOK
<1>4. /\ cfg.strategies \in Seq(Strategies) /\ cfg.percentages \in Seq(Nat)
      /\ DOMAIN cfg.percentages = DOMAIN cfg.strategies
  BY <1>1 DEF ConfigType, AllocationBounded
<1>5. Len(cfg.percentages) = len /\ len \in Nat
  BY <1>4
<1>. HIDE DEF cfg, c
<1>6. /\ Len(new.strategies) = len + 1
      /\ DOMAIN new.strategies = 1..(len + 1)
      /\ DOMAIN new.percentages = 1..(len + 1)
      /\ DOMAIN cfg.strategies = 1..len
      /\ new.strategies[len + 1] = s /\ new.percentages[len + 1] = percentage
      /\ \A n \in 1..len : /\ new.strategies[n] = cfg.strategies[n]
                           /\ new.percentages[n] = cfg.percentages[n]
  BY <1>1, <1>2, <1>4, <1>5
<1>7. UnknownIsEmpty'
  BY <1>2, <1>3 DEF UnknownIsEmpty
<1>8. AllocationBounded'
  <2>1. TotalPercentage(new) = TotalPercentage(cfg) + percentage
    BY <1>1, <1>2, <1>4, SumOfAppend DEF TotalPercentage
  <2>2. /\ Len(cfg.strategies) < MAX_NUM_STRATEGIES
        /\ TotalPercentage(cfg) + percentage <= MAX_PERCENTAGE
    BY <1>1 DEF CanAddStrategy
  <2>3. /\ Len(new.strategies) <= MAX_NUM_STRATEGIES
        /\ DOMAIN new.percentages = DOMAIN new.strategies
        /\ TotalPercentage(new) <= MAX_PERCENTAGE
    BY <1>5, <1>6, <2>1, <2>2, ScaleAssumption
  <2>. QED  BY <1>3, <2>3 DEF AllocationBounded
<1>9. ActiveFullyAllocated'
  BY <1>2, <1>3 DEF ActiveFullyAllocated
<1>10. RegistryAgrees'
  <2>1. ASSUME NEW d \in Configs, NEW n \in DOMAIN vault_strategy_config'[d].strategies
        PROVE  LET t == vault_strategy_config'[d].strategies[n] IN
               /\ ConfigOf[t] = d
               /\ vault_strategy'[t].initialized
               /\ vault_strategy'[t].percentage = vault_strategy_config'[d].percentages[n]
    <3>1. \A m \in DOMAIN vault_strategy_config[d].strategies :
            LET t == vault_strategy_config[d].strategies[m] IN
            /\ t \in Strategies /\ t # s
            /\ ConfigOf[t] = d
            /\ vault_strategy'[t].initialized
            /\ vault_strategy'[t].percentage = vault_strategy_config[d].percentages[m]
      <4>. TAKE m \in DOMAIN vault_strategy_config[d].strategies
      <4>. DEFINE t == vault_strategy_config[d].strategies[m]
      <4>1. t \in Strategies
        <5>1. vault_strategy_config[d].strategies \in Seq(Strategies)
          BY DEF CreationTypeOK, ConfigType
        <5>. QED  BY <5>1
      <4>2. /\ ConfigOf[t] = d /\ vault_strategy[t].initialized
            /\ vault_strategy[t].percentage = vault_strategy_config[d].percentages[m]
        BY DEF RegistryAgrees
      <4>3. t # s /\ vault_strategy'[t] = vault_strategy[t]
        BY <1>1, <4>1, <4>2
      <4>. QED  BY <4>1, <4>2, <4>3
    <3>2. CASE d # c
      BY <1>3, <3>1, <3>2
    <3>3. CASE d = c /\ n = len + 1
      BY <1>1, <1>3, <1>6, <3>3 DEF c
    <3>4. CASE d = c /\ n # len + 1
      <4>1. n \in 1..len
        BY <1>3, <1>5, <1>6, <3>4
      <4>2. /\ vault_strategy_config'[d].strategies[n] = cfg.strategies[n]
            /\ vault_strategy_config'[d].percentages[n] = cfg.percentages[n]
            /\ n \in DOMAIN cfg.strategies
        BY <1>3, <1>6, <3>4, <4>1
      <4>. QED  BY <3>1, <3>4, <4>2 DEF cfg
    <3>. QED  BY <3>2, <3>3, <3>4
  <2>2. ASSUME NEW d \in Configs,
               NEW m \in DOMAIN vault_strategy_config'[d].strategies,
               NEW n \in DOMAIN vault_strategy_config'[d].strategies,
               vault_strategy_config'[d].strategies[m]
                 = vault_strategy_config'[d].strategies[n]
        PROVE  m = n
    <3>1. CASE d # c
      BY <1>3, <2>2, <3>1 DEF RegistryAgrees
    <3>2. CASE d = c
      <4>1. \A k \in 1..len : cfg.strategies[k] # s
        BY <1>1, <1>6 DEF RegistryAgrees, cfg
      <4>2. /\ m \in 1..(len + 1) /\ n \in 1..(len + 1)
            /\ new.strategies[m] = new.strategies[n]
        BY <1>3, <1>6, <2>2, <3>2
      <4>3. CASE m \in 1..len /\ n \in 1..len
        BY <1>1, <1>6, <4>2, <4>3 DEF RegistryAgrees, cfg
      <4>4. CASE m \notin 1..len \/ n \notin 1..len
        <5>1. /\ m \notin 1..len => m = len + 1
              /\ n \notin 1..len => n = len + 1
          BY <1>5, <4>2
        <5>. QED  BY <1>6, <4>1, <4>2, <4>4, <5>1
      <4>. QED  BY <4>3, <4>4
    <3>. QED  BY <3>1, <3>2
  <2>3. ASSUME NEW t \in Strategies, vault_strategy'[t].initialized
        PROVE  \E n \in DOMAIN vault_strategy_config'[ConfigOf[t]].strategies :
                 vault_strategy_config'[ConfigOf[t]].strategies[n] = t
    <3>1. ConfigOf[t] \in Configs
      BY CreationAssumption
    <3>2. CASE t = s
      <4>1. len + 1 \in DOMAIN new.strategies
        BY <1>5, <1>6
      <4>. QED  BY <1>3, <1>6, <3>2, <4>1 DEF c
    <3>3. CASE t # s
      <4>1. PICK n \in DOMAIN vault_strategy_config[ConfigOf[t]].strategies :
              vault_strategy_config[ConfigOf[t]].strategies[n] = t
        BY <1>1, <2>3, <3>3 DEF RegistryAgrees
      <4>2. CASE ConfigOf[t] # c
        BY <1>3, <3>1, <4>1, <4>2
      <4>3. CASE ConfigOf[t] = c
        <5>1. n \in 1..len /\ n \in 1..(len + 1)
          BY <1>5, <1>6, <4>1, <4>3 DEF cfg
        <5>. QED  BY <1>3, <1>6, <4>1, <4>3, <5>1 DEF cfg
      <4>. QED  BY <4>2, <4>3
    <3>. QED  BY <3>2, <3>3
  <2>. QED  BY <2>1, <2>2, <2>3 DEF RegistryAgrees
<1>. QED  BY <1>1, <1>7, <1>8, <1>9, <1>10

-----------------------------------------------------------------------------
(* The theorems.                                                           *)

\* Every admin's and creator's instruction preserves the invariant.
LEMMA CreationStep ==
  ASSUME CreationInv, CreationNext
  PROVE  CreationInv'
<1>1. CASE AdminNext
  BY <1>1, AdminStep
<1>2. ASSUME NEW c \in Configs, NEW fee \in PerformanceFees,
             InitVaultStrategyConfig(c, fee)
      PROVE  CreationInv'
  BY <1>2, InitConfigStep
<1>3. ASSUME NEW s \in Strategies, NEW percentage \in Percentages,
             NEW amount_max \in [Legs -> CreateAmounts],
             NEW price \in [Legs -> Prices], NEW range \in Ranges,
             CreateRaydiumVaultStrategy(s, percentage, amount_max, price, range)
      PROVE  CreationInv'
  BY <1>3, CreateStep
<1>4. ASSUME NEW c \in Configs, ActivateVaultStrategyConfig(c)
      PROVE  CreationInv'
  BY <1>4, ActivateStep
<1>. QED  BY <1>1, <1>2, <1>3, <1>4 DEF CreationNext, CreatorNext

\* A stutter preserves the invariant.
LEMMA CreationStutter ==
  ASSUME CreationInv, UNCHANGED creationVars
  PROVE  CreationInv'
<1>. USE DEF creationVars, CreationInv
<1>1. CreationTypeOK'
  BY DEF CreationTypeOK
<1>2. UnknownIsEmpty'
  BY DEF UnknownIsEmpty
<1>3. AllocationBounded'
  BY DEF AllocationBounded
<1>4. ActiveFullyAllocated'
  BY DEF ActiveFullyAllocated
<1>5. RegistryAgrees'
  BY RegistryKept
<1>. QED  BY <1>1, <1>2, <1>3, <1>4, <1>5

\* The inductive invariant holds in every reachable state: the conjunction of
\* the invariants below with the fact that an unused config is empty.
THEOREM CreationInvariant == CreationSpec => []CreationInv
<1>1. CreationInit => CreationInv
  BY CreationInitInv
<1>2. CreationInv /\ [CreationNext]_creationVars => CreationInv'
  BY CreationStep, CreationStutter
<1>. QED  BY <1>1, <1>2, PTL DEF CreationSpec

\* Accounts and balances keep their types; in particular no creator pays more
\* tokens than it has.
THEOREM CreationTypeCorrect == CreationSpec => []CreationTypeOK
<1>1. CreationInv => CreationTypeOK
  BY DEF CreationInv
<1>. QED  BY <1>1, CreationInvariant, PTL

\* add_strategy keeps a config's percentages within one hundred percent and
\* its two lists aligned, for any limits and any sequence of instructions.
THEOREM AllocationTheorem == CreationSpec => []AllocationBounded
<1>1. CreationInv => AllocationBounded
  BY DEF CreationInv
<1>. QED  BY <1>1, CreationInvariant, PTL

\* Whatever happens after activate_vault_strategy_config, an active config
\* places all of an investment.
THEOREM FullAllocationTheorem == CreationSpec => []ActiveFullyAllocated
<1>1. CreationInv => ActiveFullyAllocated
  BY DEF CreationInv
<1>. QED  BY <1>1, CreationInvariant, PTL

\* A config's list and its strategies' own accounts agree, and a strategy is
\* in the list exactly once, from create_raydium_vault_strategy on.
THEOREM RegistryTheorem == CreationSpec => []RegistryAgrees
<1>1. CreationInv => RegistryAgrees
  BY DEF CreationInv
<1>. QED  BY <1>1, CreationInvariant, PTL

\* No instruction changes what investors saw of an active config.
THEOREM FrozenTheorem == CreationSpec => ActiveConfigFrozen
<1>. DEFINE kept(c) ==
       /\ vault_strategy_config[c].status = "Active" =>
            vault_strategy_config'[c] = vault_strategy_config[c]
       /\ vault_strategy_config[c].status = "Draft" =>
            /\ vault_strategy_config'[c].performance_fee
                 = vault_strategy_config[c].performance_fee
            /\ \A n \in DOMAIN vault_strategy_config[c].strategies :
                 /\ n \in DOMAIN vault_strategy_config'[c].strategies
                 /\ vault_strategy_config'[c].strategies[n]
                      = vault_strategy_config[c].strategies[n]
<1>1. ASSUME CreationInv, CreationNext, NEW c \in Configs
      PROVE  kept(c)
  <2>. /\ vault_strategy_config \in [Configs -> ConfigType]
       /\ vault_strategy_config[c] \in ConfigType
    BY <1>1 DEF CreationInv, CreationTypeOK
  <2>1. CASE AdminNext
    BY <2>1 DEF AdminNext, InitProtocolConfig, PauseProtocol, UnpauseProtocol,
                SwitchProtocol
  <2>2. ASSUME NEW d \in Configs, NEW fee \in PerformanceFees,
               InitVaultStrategyConfig(d, fee)
        PROVE  kept(c)
    BY <2>2 DEF InitVaultStrategyConfig, CanInitializeConfig
  <2>3. ASSUME NEW s \in Strategies, NEW percentage \in Percentages,
               NEW amount_max \in [Legs -> CreateAmounts],
               NEW price \in [Legs -> Prices], NEW range \in Ranges,
               CreateRaydiumVaultStrategy(s, percentage, amount_max, price, range)
        PROVE  kept(c)
    <3>. DEFINE d == ConfigOf[s]
                cfg == vault_strategy_config[d]
    <3>1. /\ cfg \in ConfigType /\ d \in Configs /\ cfg.status = "Draft"
          /\ percentage \in Nat
          /\ vault_strategy_config' = [vault_strategy_config EXCEPT
                                         ![d] = AddStrategy(cfg, s, percentage)]
      BY <1>1, <2>3, CreateEffect DEF CreationInv
    <3>2. CASE c # d
      BY <3>1, <3>2
    <3>3. CASE c = d
      <4>1. /\ AddStrategy(cfg, s, percentage).performance_fee = cfg.performance_fee
            /\ AddStrategy(cfg, s, percentage).strategies = Append(cfg.strategies, s)
        BY <3>1, AddStrategyEffect
      <4>2. \A n \in DOMAIN cfg.strategies :
              /\ n \in DOMAIN Append(cfg.strategies, s)
              /\ Append(cfg.strategies, s)[n] = cfg.strategies[n]
        BY <3>1 DEF ConfigType
      <4>3. vault_strategy_config'[c] = AddStrategy(cfg, s, percentage)
        BY <3>1, <3>3
      <4>. QED  BY <3>1, <3>3, <4>1, <4>2, <4>3
    <3>. QED  BY <3>2, <3>3
  <2>4. ASSUME NEW d \in Configs, ActivateVaultStrategyConfig(d)
        PROVE  kept(c)
    BY <2>4 DEF ActivateVaultStrategyConfig, ConfigType
  <2>. QED  BY <1>1, <2>1, <2>2, <2>3, <2>4 DEF CreationNext, CreatorNext
<1>2. CreationInv /\ [CreationNext]_creationVars
        => [\A c \in Configs : kept(c)]_creationVars
  BY <1>1
<1>. QED  BY <1>2, CreationInvariant, PTL DEF CreationSpec, ActiveConfigFrozen

-----------------------------------------------------------------------------
(* How an investment divides.                                              *)

\* What holds of every index, up to k, holds of the sums, up to k per index.
\* A smallest set that it did not hold of would lose an index and keep failing.
LEMMA SumsCompare ==
  ASSUME NEW S, IsFiniteSet(S), NEW f, NEW g, NEW m \in Nat, NEW n \in Nat, NEW k \in Nat,
         \A x \in S : f[x] \in Nat /\ g[x] \in Nat /\ f[x] * m <= g[x] * n + k
  PROVE  SumOver(S, f) * m <= SumOver(S, g) * n + Cardinality(S) * k
<1>. DEFINE Holds(T) == SumOver(T, f) * m <= SumOver(T, g) * n + Cardinality(T) * k
            Sizes == {i \in Nat : \E T \in SUBSET S : Cardinality(T) = i /\ ~Holds(T)}
<1>1. SUFFICES ASSUME ~Holds(S) PROVE FALSE
  OBVIOUS
<1>2. \A T \in SUBSET S : IsFiniteSet(T) /\ Cardinality(T) \in Nat
  BY FS_Subset, FS_CardinalityType
<1>3. Sizes # {}
  BY <1>1, <1>2
<1>4. PICK i \in Sizes : \A j \in Sizes : i <= j
  BY <1>3, LeastElement
<1>5. PICK T \in SUBSET S : Cardinality(T) = i /\ ~Holds(T)
  BY <1>4
<1>6. T # {}
  <2>1. SumOver({}, f) = 0 /\ SumOver({}, g) = 0 /\ Cardinality({}) = 0
    BY SumEmpty, FS_EmptySet
  <2>2. 0 * m <= 0 * n + 0 * k
    OBVIOUS
  <2>. QED
    BY <1>5, <2>1, <2>2
<1>7. PICK x : x \in T
  BY <1>6
<1>. DEFINE U == T \ {x}
<1>8. U \in SUBSET S /\ IsFiniteSet(U) /\ Cardinality(U) = i - 1 /\ i \in Nat
  BY <1>2, <1>5, <1>7, FS_RemoveElement
<1>9. Holds(U)
  <2>1. ~(i <= i - 1) /\ (Cardinality(U) \in Nat)
    BY <1>2, <1>8
  <2>. QED
    BY <1>4, <1>8, <2>1
<1>10. SumOver(T, f) = SumOver(U, f) + f[x] /\ SumOver(T, g) = SumOver(U, g) + g[x]
  BY <1>2, <1>7, SumSplit
<1>11. SumOver(U, f) \in Nat /\ SumOver(U, g) \in Nat
  BY <1>8, SumType
<1>12. f[x] \in Nat /\ g[x] \in Nat /\ f[x] * m <= g[x] * n + k
  BY <1>5, <1>7
<1>. HIDE DEF U
<1>13. /\ (SumOver(U, f) + f[x]) * m = SumOver(U, f) * m + f[x] * m
       /\ (SumOver(U, g) + g[x]) * n = SumOver(U, g) * n + g[x] * n
  BY <1>11, <1>12
<1>14. i * k = (i - 1) * k + k
  BY <1>8
<1>15. Holds(T)
  <2>. DEFINE fm == SumOver(U, f) * m
              gn == SumOver(U, g) * n
              ik == (i - 1) * k
              xm == f[x] * m
              xn == g[x] * n
  <2>1. fm \in Nat /\ gn \in Nat /\ xm \in Nat /\ xn \in Nat
    BY <1>11, <1>12
  <2>2. ik \in Int
    BY <1>8
  <2>3. fm <= gn + ik
    BY <1>8, <1>9
  <2>4. xm <= xn + k
    BY <1>12
  <2>5. SumOver(T, f) * m = fm + xm /\ SumOver(T, g) * n = gn + xn
    BY <1>10, <1>13
  <2>6. Cardinality(T) * k = ik + k
    BY <1>5, <1>14
  <2>. HIDE DEF fm, gn, ik, xm, xn
  <2>7. fm + xm <= (gn + xn) + (ik + k)
    BY <2>1, <2>2, <2>3, <2>4
  <2>. QED
    BY <2>5, <2>6, <2>7
<1>. QED
  BY <1>5, <1>15

\* One strategy's part of an investment, which is rounded down once.
LEMMA PartOfInvestment ==
  ASSUME NEW amount \in Nat, NEW p \in Nat
  PROVE  /\ UsdcAmount(amount, p) \in Nat
         /\ UsdcAmount(amount, p) * MAX_PERCENTAGE <= p * amount
         /\ p * amount <= U64_MAX =>
              p * amount <= UsdcAmount(amount, p) * MAX_PERCENTAGE + (MAX_PERCENTAGE - 1)
<1>. DEFINE t == SatMul(amount, p)
<1>1. p * amount \in Nat /\ amount * p = p * amount /\ U64_MAX \in Nat
      /\ MAX_PERCENTAGE \in Nat \ {0}
  BY ScaleAssumption
<1>2. t \in Nat /\ t <= p * amount /\ (p * amount <= U64_MAX => t = p * amount)
  BY <1>1 DEF SatMul
<1>. HIDE DEF t
<1>3. /\ t \div MAX_PERCENTAGE \in Nat
      /\ (t \div MAX_PERCENTAGE) * MAX_PERCENTAGE <= t
      /\ t <= (t \div MAX_PERCENTAGE) * MAX_PERCENTAGE + (MAX_PERCENTAGE - 1)
  BY <1>1, <1>2
<1>4. UsdcAmount(amount, p) = t \div MAX_PERCENTAGE
  BY DEF UsdcAmount, t
<1>. QED
  BY <1>1, <1>2, <1>3, <1>4

LEMMA Divides ==
  ASSUME CreationInv
  PROVE  InvestmentDivides
<1>. SUFFICES ASSUME NEW c \in Configs, NEW amount \in U64
              PROVE  LET cfg    == vault_strategy_config[c]
                         placed == SumOver(DOMAIN cfg.percentages,
                                     [n \in DOMAIN cfg.percentages |->
                                        UsdcAmount(amount, cfg.percentages[n])])
                     IN /\ placed <= amount
                        /\ (cfg.status = "Active" /\ amount * MAX_PERCENTAGE <= U64_MAX) =>
                             amount - placed < Len(cfg.strategies)
  BY DEF InvestmentDivides
<1>. DEFINE cfg == vault_strategy_config[c]
            p == cfg.percentages
            D == DOMAIN p
            part == [n \in D |-> UsdcAmount(amount, p[n])]
            placed == SumOver(D, part)
            total == SumOver(D, p)
            M == MAX_PERCENTAGE
            len == Len(cfg.strategies)
<1>1. amount \in Nat /\ M \in Nat \ {0} /\ U64_MAX \in Nat
  BY ScaleAssumption DEF U64
<1>2. p \in Seq(Nat) /\ cfg.strategies \in Seq(Strategies)
  BY DEF CreationInv, CreationTypeOK, ConfigType
<1>3. D = DOMAIN cfg.strategies /\ total <= M
  BY DEF CreationInv, AllocationBounded, TotalPercentage
<1>4. IsFiniteSet(D) /\ total \in Nat /\ \A n \in D : p[n] \in Nat
  BY <1>2, SumOfList
<1>5. Cardinality(D) = len /\ len \in Nat
  <2>1. D = 1..len /\ len \in Nat
    BY <1>2, <1>3
  <2>. QED
    BY <2>1, FS_Interval
<1>6. \A n \in D : /\ part[n] \in Nat
                   /\ part[n] * M <= p[n] * amount + 0
                   /\ p[n] * amount <= U64_MAX => p[n] * amount <= part[n] * M + (M - 1)
  <2>. TAKE n \in D
  <2>1. part[n] = UsdcAmount(amount, p[n]) /\ p[n] \in Nat
    BY <1>4
  <2>2. p[n] * amount + 0 = p[n] * amount
    BY <1>1, <2>1
  <2>. QED
    BY <1>1, <2>1, <2>2, PartOfInvestment
<1>7. placed \in Nat
  BY <1>4, <1>6, SumType
<1>. HIDE DEF part, p, D, placed, total, len
<1>8. placed * M <= total * amount + Cardinality(D) * 0
  BY <1>1, <1>4, <1>6, SumsCompare DEF placed, total
<1>9. placed <= amount
  <2>1. total * amount <= M * amount /\ total * amount \in Nat /\ M * amount \in Nat
    BY <1>1, <1>3, <1>4, ProductMonotone
  <2>2. placed * M <= amount * M
    BY <1>1, <1>5, <1>7, <1>8, <2>1
  <2>3. SUFFICES ASSUME amount + 1 <= placed PROVE FALSE
    BY <1>1, <1>7
  <2>4. (amount + 1) * M <= placed * M
    BY <1>1, <1>7, <2>3, ProductMonotone
  <2>5. (amount + 1) * M = amount * M + M /\ amount * M \in Nat /\ placed * M \in Nat
    BY <1>1, <1>7
  <2>. QED
    BY <1>1, <2>2, <2>4, <2>5
<1>10. ASSUME cfg.status = "Active", amount * M <= U64_MAX
       PROVE  amount - placed < len
  <2>1. total = M /\ len > 0
    <3>1. cfg.strategies # <<>> /\ total = M
      BY <1>10 DEF CreationInv, ActiveFullyAllocated, TotalPercentage, total, p, D
    <3>. QED
      BY <1>2, <3>1 DEF len
  <2>2. \A n \in D : p[n] * amount <= part[n] * M + (M - 1)
    <3>. TAKE n \in D
    <3>1. p[n] <= M /\ p[n] \in Nat
      BY <1>4, <2>1, SumMember DEF total
    <3>2. p[n] * amount <= M * amount /\ M * amount = amount * M
      BY <1>1, <3>1, ProductMonotone
    <3>3. p[n] * amount <= U64_MAX
      <4>1. p[n] * amount \in Nat /\ amount * M \in Nat
        BY <1>1, <3>1
      <4>. QED
        BY <1>1, <1>10, <3>2, <4>1
    <3>. QED
      BY <1>6, <3>3
  <2>3. total * amount <= placed * M + Cardinality(D) * (M - 1)
    <3>1. M - 1 \in Nat
      BY <1>1
    <3>. QED
      BY <1>1, <1>4, <1>6, <2>2, <3>1, SumsCompare DEF placed, total
  <2>4. M * amount <= placed * M + len * (M - 1)
    BY <1>5, <2>1, <2>3
  <2>5. len * (M - 1) = len * M - len
    BY <1>1, <1>5
  <2>6. SUFFICES ASSUME len <= amount - placed PROVE FALSE
    BY <1>1, <1>5, <1>7
  <2>7. len + placed <= amount
    BY <1>1, <1>5, <1>7, <2>6
  <2>8. (len + placed) * M <= amount * M /\ amount * M = M * amount
    BY <1>1, <1>5, <1>7, <2>7, ProductMonotone
  <2>9. (len + placed) * M = len * M + placed * M
    BY <1>1, <1>5, <1>7
  <2>10. len * M \in Nat /\ placed * M \in Nat /\ amount * M \in Nat
    BY <1>1, <1>5, <1>7
  <2>. QED
    BY <1>5, <2>1, <2>4, <2>5, <2>8, <2>9, <2>10
<1>. QED
  BY <1>9, <1>10 DEF placed, part, p, D, len

\* The parts that swap_to_ratio takes of an investment never exceed it, and in
\* an Active config they leave less than one unit per strategy, for any number
\* of strategies.
THEOREM DivisionTheorem == CreationSpec => []InvestmentDivides
<1>1. CreationInv => InvestmentDivides
  BY Divides
<1>. QED  BY <1>1, CreationInvariant, PTL
==============================================================================
