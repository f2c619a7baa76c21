------------------------ MODULE ShareAccounting_proofs ------------------------
(***************************************************************************)
(* Proofs about shares: as long as no share counter has saturated, the     *)
(* counter of a vault covers the shares of its positions, so that a        *)
(* position stands for at most the whole vault.  From this follow that     *)
(* every position can be closed, that removals pay fees out of what they   *)
(* have just collected, and that a vault with shares has liquidity.        *)
(***************************************************************************)
EXTENDS TokenizedVaults_proofs

\* add_shares saturates at the largest u64, and from then on the counter no
\* longer counts; the theorems below are about the time before.
NoSaturation == \A s \in Strategies : vault_strategy[s].total_shares < U64_MAX

\* initialize checks the performance fee, and nothing changes it later.
FeeBounded ==
  \A c \in Configs : vault_strategy_config[c].performance_fee <= MAX_PERFORMANCE_FEE

ShareInv == SharesBacked /\ FeeBounded

-----------------------------------------------------------------------------
(* One position of one strategy changes.                                   *)

\* The sums over all users change by what the one position changes.
LEMMA PositionChange ==
  ASSUME TypeOK, NEW u \in Users, NEW s \in Strategies, NEW p \in PositionType,
         investor_strategy_position' =
           [investor_strategy_position EXCEPT ![u][s] = p]
  PROVE  LET pos == investor_strategy_position[u][s] IN
         /\ OutstandingShares(s) \in Nat /\ BookedAssets(s) \in Nat
         /\ pos.shares \in Nat /\ pos.assets \in Nat
         /\ pos.shares <= OutstandingShares(s) /\ pos.assets <= BookedAssets(s)
         /\ OutstandingShares(s)' = OutstandingShares(s) - pos.shares + p.shares
         /\ BookedAssets(s)' = BookedAssets(s) - pos.assets + p.assets
         /\ \A t \in Strategies \ {s} :
              /\ OutstandingShares(t)' = OutstandingShares(t)
              /\ BookedAssets(t)' = BookedAssets(t)
<1>. DEFINE shares(t) == [w \in Users |-> investor_strategy_position[w][t].shares]
            assets(t) == [w \in Users |-> investor_strategy_position[w][t].assets]
            newShares(t) == [w \in Users |-> investor_strategy_position'[w][t].shares]
            newAssets(t) == [w \in Users |-> investor_strategy_position'[w][t].assets]
<1>1. IsFiniteSet(Users)
  BY InvestAssumption
<1>2. /\ investor_strategy_position'[u][s] = p
      /\ \A w \in Users, t \in Strategies :
           ~(w = u /\ t = s) =>
             investor_strategy_position'[w][t] = investor_strategy_position[w][t]
  BY DEF TypeOK, CreationTypeOK
<1>3. \A w \in Users, t \in Strategies :
        /\ shares(t)[w] \in Nat /\ assets(t)[w] \in Nat
        /\ newShares(t)[w] \in Nat /\ newAssets(t)[w] \in Nat
  <2>. TAKE w \in Users, t \in Strategies
  <2>1. \A x \in PositionType : x.shares \in Nat /\ x.assets \in Nat
    BY U64Type DEF PositionType
  <2>2. investor_strategy_position[w][t] \in PositionType
    BY DEF TypeOK, CreationTypeOK
  <2>3. investor_strategy_position'[w][t] \in PositionType
    BY <1>2, <2>2
  <2>. QED  BY <2>1, <2>2, <2>3
<1>4. ASSUME NEW t \in Strategies
      PROVE  /\ OutstandingShares(t) = SumOver(Users, shares(t))
             /\ BookedAssets(t) = SumOver(Users, assets(t))
             /\ OutstandingShares(t)' = SumOver(Users, newShares(t))
             /\ BookedAssets(t)' = SumOver(Users, newAssets(t))
  BY DEF OutstandingShares, BookedAssets
<1>5. \A t \in Strategies \ {s} :
        /\ SumOver(Users, newShares(t)) = SumOver(Users, shares(t))
        /\ SumOver(Users, newAssets(t)) = SumOver(Users, assets(t))
  <2>. TAKE t \in Strategies \ {s}
  <2>1. /\ \A w \in Users : newShares(t)[w] = shares(t)[w]
        /\ \A w \in Users : newAssets(t)[w] = assets(t)[w]
    BY <1>2
  <2>. QED  BY <2>1, SumCongruent
<1>. DEFINE f == shares(s)  g == newShares(s)
            h == assets(s)  i == newAssets(s)
<1>6. /\ \A w \in Users : f[w] \in Nat /\ g[w] \in Nat /\ h[w] \in Nat /\ i[w] \in Nat
      /\ \A w \in Users \ {u} : g[w] = f[w] /\ i[w] = h[w]
      /\ f[u] = investor_strategy_position[u][s].shares /\ g[u] = p.shares
      /\ h[u] = investor_strategy_position[u][s].assets /\ i[u] = p.assets
  BY <1>2, <1>3
<1>7. /\ OutstandingShares(s) = SumOver(Users, f) /\ OutstandingShares(s)' = SumOver(Users, g)
      /\ BookedAssets(s) = SumOver(Users, h) /\ BookedAssets(s)' = SumOver(Users, i)
  BY <1>4
<1>8. \A t \in Strategies \ {s} :
        /\ OutstandingShares(t)' = OutstandingShares(t)
        /\ BookedAssets(t)' = BookedAssets(t)
  BY <1>4, <1>5
<1>. HIDE DEF f, g, h, i
<1>9. /\ SumOver(Users, f) \in Nat /\ SumOver(Users, g) = SumOver(Users, f) - f[u] + g[u]
      /\ f[u] <= SumOver(Users, f)
  BY <1>1, <1>6, SumUpdate, SumMember
<1>10. /\ SumOver(Users, h) \in Nat /\ SumOver(Users, i) = SumOver(Users, h) - h[u] + i[u]
       /\ h[u] <= SumOver(Users, h)
  BY <1>1, <1>6, SumUpdate, SumMember
<1>. QED  BY <1>6, <1>7, <1>8, <1>9, <1>10

\* A deposit: the whole position's shares are added to the vault's counter,
\* at least as many as the position gains.  Nothing is assumed of the assets'
\* counter, which stays below the position's when both saturate.
LEMMA DepositBacked ==
  ASSUME TypeOK, SharesBacked, NoSaturation', vault_strategy' \in [Strategies -> VaultType],
         NEW u \in Users, NEW s \in Strategies, NEW amount \in Nat,
         NEW p \in PositionType,
         p.assets = SatAdd(investor_strategy_position[u][s].assets, amount),
         investor_strategy_position' =
           [investor_strategy_position EXCEPT ![u][s] = p],
         vault_strategy'[s].total_assets = SatAdd(vault_strategy[s].total_assets, amount),
         vault_strategy'[s].total_shares = SatAdd(vault_strategy[s].total_shares, p.shares),
         \A t \in Strategies \ {s} : vault_strategy'[t] = vault_strategy[t]
  PROVE  SharesBacked'
<1>. DEFINE v == vault_strategy[s]
            w == vault_strategy'[s]
            pos == investor_strategy_position[u][s]
<1>1. /\ OutstandingShares(s) \in Nat /\ BookedAssets(s) \in Nat
      /\ pos.shares \in Nat /\ pos.assets \in Nat
      /\ pos.shares <= OutstandingShares(s) /\ pos.assets <= BookedAssets(s)
      /\ OutstandingShares(s)' = OutstandingShares(s) - pos.shares + p.shares
      /\ BookedAssets(s)' = BookedAssets(s) - pos.assets + p.assets
      /\ \A t \in Strategies \ {s} :
           /\ OutstandingShares(t)' = OutstandingShares(t)
           /\ BookedAssets(t)' = BookedAssets(t)
  BY PositionChange
<1>2. /\ v.total_shares \in Nat /\ v.total_assets \in Nat
      /\ p.shares \in Nat /\ p.assets \in Nat /\ U64_MAX \in Nat
  BY ScaleAssumption, U64Type DEF TypeOK, CreationTypeOK, VaultType, PositionType
<1>3. OutstandingShares(s) <= v.total_shares /\ v.total_assets <= BookedAssets(s)
  BY DEF SharesBacked
<1>4. w.total_shares < U64_MAX
  BY DEF NoSaturation
<1>. HIDE DEF v, w, pos
<1>5. w.total_shares = v.total_shares + p.shares
  <2>1. w.total_shares = SatAdd(v.total_shares, p.shares)
    BY DEF v, w
  <2>. QED  BY <1>2, <1>4, <2>1 DEF SatAdd
<1>6. OutstandingShares(s)' <= w.total_shares
  BY <1>1, <1>2, <1>3, <1>5
<1>7. w.total_assets <= BookedAssets(s)'
  <2>1. /\ w.total_assets = SatAdd(v.total_assets, amount)
        /\ p.assets = SatAdd(pos.assets, amount)
    BY DEF v, w, pos
  <2>2. CASE pos.assets + amount <= U64_MAX
    <3>1. p.assets = pos.assets + amount
      BY <1>1, <2>1, <2>2 DEF SatAdd
    <3>2. w.total_assets <= v.total_assets + amount
      BY <1>2, <2>1 DEF SatAdd
    <3>3. BookedAssets(s)' = BookedAssets(s) + amount
      BY <1>1, <3>1
    <3>4. w.total_assets \in Nat
      BY <1>2, <2>1, U64Type
    <3>. QED  BY <1>1, <1>2, <1>3, <3>2, <3>3, <3>4
  <2>3. CASE ~(pos.assets + amount <= U64_MAX)
    <3>1. p.assets = U64_MAX
      BY <2>1, <2>3 DEF SatAdd
    <3>2. w.total_assets <= U64_MAX
      BY <1>2, <2>1 DEF SatAdd
    <3>3. w.total_assets \in Nat
      BY <1>2, <2>1, U64Type
    <3>. QED  BY <1>1, <1>2, <3>1, <3>2, <3>3
  <2>. QED  BY <2>2, <2>3
<1>8. ASSUME NEW t \in Strategies
      PROVE  /\ OutstandingShares(t)' <= vault_strategy'[t].total_shares
             /\ vault_strategy'[t].total_assets <= BookedAssets(t)'
  <2>1. CASE t = s
    BY <1>6, <1>7, <2>1 DEF w
  <2>2. CASE t # s
    BY <1>1, <2>2 DEF SharesBacked
  <2>. QED  BY <2>1, <2>2
<1>. QED  BY <1>8 DEF SharesBacked

\* A removal: the position and the counter lose the same shares, and the
\* position no more assets than the counter, unless that reaches zero.
LEMMA RemovalBacked ==
  ASSUME TypeOK, SharesBacked,
         NEW u \in Users, NEW s \in Strategies, NEW burn \in U64, NEW amount \in Nat,
         NEW p \in PositionType,
         burn <= investor_strategy_position[u][s].shares,
         p.shares = investor_strategy_position[u][s].shares - burn,
         p.assets = SatSub(investor_strategy_position[u][s].assets, amount),
         investor_strategy_position' =
           [investor_strategy_position EXCEPT ![u][s] = p],
         vault_strategy'[s].total_assets = SatSub(vault_strategy[s].total_assets, amount),
         vault_strategy'[s].total_shares = SatSub(vault_strategy[s].total_shares, burn),
         \A t \in Strategies \ {s} : vault_strategy'[t] = vault_strategy[t]
  PROVE  SharesBacked'
<1>. DEFINE v == vault_strategy[s]
            w == vault_strategy'[s]
            pos == investor_strategy_position[u][s]
<1>1. /\ OutstandingShares(s) \in Nat /\ BookedAssets(s) \in Nat
      /\ pos.shares \in Nat /\ pos.assets \in Nat
      /\ pos.shares <= OutstandingShares(s) /\ pos.assets <= BookedAssets(s)
      /\ OutstandingShares(s)' = OutstandingShares(s) - pos.shares + p.shares
      /\ BookedAssets(s)' = BookedAssets(s) - pos.assets + p.assets
      /\ \A t \in Strategies \ {s} :
           /\ OutstandingShares(t)' = OutstandingShares(t)
           /\ BookedAssets(t)' = BookedAssets(t)
  BY PositionChange
<1>2. /\ v.total_shares \in Nat /\ v.total_assets \in Nat /\ burn \in Nat
      /\ p.shares \in Nat /\ p.assets \in Nat
  BY ScaleAssumption, U64Type DEF TypeOK, CreationTypeOK, VaultType, PositionType
<1>3. OutstandingShares(s) <= v.total_shares /\ v.total_assets <= BookedAssets(s)
  BY DEF SharesBacked
<1>4. /\ burn <= pos.shares /\ p.shares = pos.shares - burn
      /\ p.assets = SatSub(pos.assets, amount)
      /\ w.total_shares = SatSub(v.total_shares, burn)
      /\ w.total_assets = SatSub(v.total_assets, amount)
  OBVIOUS
<1>. HIDE DEF v, w, pos
<1>5. OutstandingShares(s)' <= w.total_shares
  BY <1>1, <1>2, <1>3, <1>4 DEF SatSub
<1>6. w.total_assets <= BookedAssets(s)'
  BY <1>1, <1>2, <1>3, <1>4 DEF SatSub
<1>7. ASSUME NEW t \in Strategies
      PROVE  /\ OutstandingShares(t)' <= vault_strategy'[t].total_shares
             /\ vault_strategy'[t].total_assets <= BookedAssets(t)'
  <2>1. CASE t = s
    BY <1>5, <1>6, <2>1 DEF w
  <2>2. CASE t # s
    BY <1>1, <2>2 DEF SharesBacked
  <2>. QED  BY <2>1, <2>2
<1>. QED  BY <1>7 DEF SharesBacked
-----------------------------------------------------------------------------
(* The steps.                                                              *)

\* The totals of a vault from which assets and shares are taken.
LEMMA RemovedTotals ==
  ASSUME NEW v \in VaultType, NEW assets, NEW shares
  PROVE  /\ RemoveShares(RemoveAssets(v, assets), shares).total_assets
              = SatSub(v.total_assets, assets)
         /\ RemoveShares(RemoveAssets(v, assets), shares).total_shares
              = SatSub(v.total_shares, shares)
<1>. DEFINE w == RemoveAssets(v, assets)
<1>1. w = [v EXCEPT !.total_assets = SatSub(v.total_assets, assets)]
  BY DEF RemoveAssets
<1>2. /\ w.total_assets = SatSub(v.total_assets, assets)
      /\ w.total_shares = v.total_shares
      /\ w = [initialized |-> v.initialized, percentage |-> v.percentage,
              total_assets |-> SatSub(v.total_assets, assets),
              total_shares |-> v.total_shares]
  BY <1>1 DEF VaultType
<1>. HIDE DEF w
<1>3. RemoveShares(w, shares) = [w EXCEPT !.total_shares = SatSub(v.total_shares, shares)]
  BY <1>2 DEF RemoveShares
<1>. QED  BY <1>2, <1>3 DEF w

\* Sums of the vault and the positions of a step that changes neither.
LEMMA ShareKept ==
  ASSUME SharesBacked, UNCHANGED <<vault_strategy, investor_strategy_position>>
  PROVE  SharesBacked'
  BY DEF SharesBacked, OutstandingShares, BookedAssets

\* The performance fee stays within its limit when a step changes no config.
LEMMA FeeKept ==
  ASSUME FeeBounded, UNCHANGED vault_strategy_config
  PROVE  FeeBounded'
  BY DEF FeeBounded

\* The creator's first deposit keeps shares backed.
LEMMA CreateShares ==
  ASSUME Inv, Inv', ShareInv, NoSaturation',
         NEW s \in Strategies, NEW percentage \in Percentages,
         NEW amount_max \in [Legs -> CreateAmounts],
         NEW price \in [Legs -> Prices], NEW range \in Ranges,
         CreateRaydiumVaultStrategy(s, percentage, amount_max, price, range)
  PROVE  ShareInv'
<1>. USE DEF Inv, ShareInv
<1>1. CreationTypeOK
  BY DEF TypeOK
<1>2. PICK u \in Users, p \in PositionType, assets \in Nat :
         /\ p = Deposit(investor_strategy_position[u][s], assets,
                        vault_strategy[s].total_assets, vault_strategy[s].total_shares)
         /\ investor_strategy_position' =
              [investor_strategy_position EXCEPT ![u][s] = p]
         /\ vault_strategy'[s].total_assets = SatAdd(vault_strategy[s].total_assets, assets)
         /\ vault_strategy'[s].total_shares = SatAdd(vault_strategy[s].total_shares, p.shares)
  BY <1>1, CreateEffect
<1>3. \A t \in Strategies \ {s} : vault_strategy'[t] = vault_strategy[t]
  BY <1>1, CreateEffect
<1>4. p.assets = SatAdd(investor_strategy_position[u][s].assets, assets)
  BY <1>2 DEF Deposit
<1>5. vault_strategy' \in [Strategies -> VaultType]
  BY DEF TypeOK, CreationTypeOK
<1>6. SharesBacked'
  BY <1>2, <1>3, <1>4, <1>5, DepositBacked
<1>7. FeeBounded'
  <2>. DEFINE c == ConfigOf[s]
              cfg == vault_strategy_config[c]
  <2>1. /\ c \in Configs /\ cfg \in ConfigType /\ percentage \in Nat
        /\ vault_strategy_config'
             = [vault_strategy_config EXCEPT ![c] = AddStrategy(cfg, s, percentage)]
    BY <1>1, CreateEffect
  <2>2. AddStrategy(cfg, s, percentage).performance_fee = cfg.performance_fee
    BY <2>1, AddStrategyEffect
  <2>. QED  BY <1>1, <2>1, <2>2 DEF FeeBounded, CreationTypeOK
<1>. QED  BY <1>6, <1>7

\* An investor's deposit keeps shares backed.
LEMMA AddLiquidityShares ==
  ASSUME Inv, Inv', ShareInv, NoSaturation',
         NEW u \in Users, NEW s \in Strategies, NEW range \in Ranges,
         AddLiquidity(u, s, range)
  PROVE  ShareInv'
<1>. USE DEF Inv, ShareInv
<1>1. PICK p \in PositionType, amount \in Nat :
         /\ p = Deposit(investor_strategy_position[u][s], amount,
                        vault_strategy[s].total_assets, vault_strategy[s].total_shares)
         /\ investor_strategy_position' =
              [investor_strategy_position EXCEPT ![u][s] = p]
         /\ vault_strategy' = [vault_strategy EXCEPT
              ![s] = AddShares(AddAssets(vault_strategy[s], amount), p.shares)]
  BY AddLiquidityEffect
<1>. DEFINE w == AddShares(AddAssets(vault_strategy[s], amount), p.shares)
<1>2. vault_strategy[s] \in VaultType /\ vault_strategy \in [Strategies -> VaultType]
  BY DEF TypeOK, CreationTypeOK
<1>3. /\ w.total_assets = SatAdd(vault_strategy[s].total_assets, amount)
      /\ w.total_shares = SatAdd(vault_strategy[s].total_shares, p.shares)
  BY <1>2, AddedTotals
<1>. HIDE DEF w
<1>4. /\ vault_strategy'[s] = w
      /\ \A t \in Strategies \ {s} : vault_strategy'[t] = vault_strategy[t]
  BY <1>1, <1>2 DEF w
<1>5. p.assets = SatAdd(investor_strategy_position[u][s].assets, amount)
  BY <1>1 DEF Deposit
<1>6. vault_strategy' \in [Strategies -> VaultType]
  BY DEF TypeOK, CreationTypeOK
<1>7. SharesBacked'
  BY <1>1, <1>3, <1>4, <1>5, <1>6, DepositBacked
<1>8. UNCHANGED vault_strategy_config
  BY AddLiquidityEffect
<1>. QED  BY <1>7, <1>8, FeeKept

\* A removal keeps shares backed, saturated or not.
LEMMA RemoveLiquidityShares ==
  ASSUME Inv, Inv', ShareInv,
         NEW u \in Users, NEW s \in Strategies,
         NEW percentage \in RemovePercentages, NEW range \in Ranges,
         RemoveLiquidity(u, s, percentage, range)
  PROVE  ShareInv'
<1>. USE DEF Inv, ShareInv
<1>. DEFINE pos == investor_strategy_position[u][s]
            after(b, a) == [initialized |-> pos.initialized, shares |-> pos.shares - b,
                            assets |-> SatSub(pos.assets, a)]
<1>1. PICK burn \in U64, assets \in Nat :
         /\ burn <= pos.shares
         /\ investor_strategy_position' =
              [investor_strategy_position EXCEPT ![u][s] = after(burn, assets)]
         /\ vault_strategy' = [vault_strategy EXCEPT
              ![s] = RemoveShares(RemoveAssets(vault_strategy[s], assets), burn)]
  BY RemoveLiquidityEffect
<1>. DEFINE p == after(burn, assets)
            w == RemoveShares(RemoveAssets(vault_strategy[s], assets), burn)
<1>2. vault_strategy[s] \in VaultType /\ vault_strategy \in [Strategies -> VaultType]
  BY DEF TypeOK, CreationTypeOK
<1>3. /\ w.total_assets = SatSub(vault_strategy[s].total_assets, assets)
      /\ w.total_shares = SatSub(vault_strategy[s].total_shares, burn)
  BY <1>2, RemovedTotals
<1>. HIDE DEF w
<1>4. /\ vault_strategy'[s] = w
      /\ \A t \in Strategies \ {s} : vault_strategy'[t] = vault_strategy[t]
  BY <1>1, <1>2 DEF w
<1>5. p \in PositionType
  <2>1. investor_strategy_position' \in [Users -> [Strategies -> PositionType]]
    BY DEF TypeOK, CreationTypeOK
  <2>2. investor_strategy_position'[u][s] = p
    BY <1>1 DEF TypeOK, CreationTypeOK
  <2>3. investor_strategy_position'[u][s] \in PositionType
    BY <2>1
  <2>. QED  BY <2>2, <2>3
<1>6. p.shares = pos.shares - burn /\ p.assets = SatSub(pos.assets, assets)
  OBVIOUS
<1>7. investor_strategy_position' = [investor_strategy_position EXCEPT ![u][s] = p]
  BY <1>1
<1>. HIDE DEF p
<1>8. SharesBacked'
  <2>1. /\ vault_strategy'[s].total_assets = SatSub(vault_strategy[s].total_assets, assets)
        /\ vault_strategy'[s].total_shares = SatSub(vault_strategy[s].total_shares, burn)
    BY <1>3, <1>4
  <2>2. /\ burn <= investor_strategy_position[u][s].shares
        /\ p.shares = investor_strategy_position[u][s].shares - burn
        /\ p.assets = SatSub(investor_strategy_position[u][s].assets, assets)
    BY <1>1, <1>6
  <2>3. TypeOK /\ SharesBacked
    OBVIOUS
  <2>. HIDE DEF pos, after, Inv, ShareInv
  <2>. QED  BY ONLY <1>4, <1>5, <1>7, <2>1, <2>2, <2>3, RemovalBacked
<1>9. UNCHANGED vault_strategy_config
  BY RemoveLiquidityEffect
<1>. QED  BY <1>8, <1>9, FeeKept

\* Nobody holds shares at first, and no config has a fee.
LEMMA ShareInvInit ==
  ASSUME Init
  PROVE  ShareInv
<1>1. \A s \in Strategies : OutstandingShares(s) = 0
  BY SumZero DEF OutstandingShares, Init, CreationInit, NoPosition
<1>2. \A s \in Strategies : BookedAssets(s) = 0
  BY SumZero DEF BookedAssets, Init, CreationInit, NoPosition
<1>3. SharesBacked
  BY <1>1, <1>2 DEF SharesBacked, Init, CreationInit, NoVault
<1>4. FeeBounded
  BY ScaleAssumption DEF FeeBounded, Init, CreationInit, NoConfig
<1>. QED  BY <1>3, <1>4 DEF ShareInv

\* Every instruction keeps shares backed.
LEMMA ShareInvStep ==
  ASSUME Inv, Inv', ShareInv, NoSaturation', [Next]_vars
  PROVE  ShareInv'
<1>. USE DEF ShareInv
<1>1. CASE UNCHANGED vars
  BY <1>1, ShareKept, FeeKept DEF vars, creationVars
<1>2. CASE AdminNext
  BY <1>2, ShareKept, FeeKept DEF AdminNext, InitProtocolConfig, PauseProtocol,
     UnpauseProtocol, SwitchProtocol
<1>3. ASSUME NEW c \in Configs, NEW fee \in PerformanceFees,
             InitVaultStrategyConfig(c, fee)
      PROVE  ShareInv'
  <2>1. SharesBacked'
    BY <1>3, ShareKept DEF InitVaultStrategyConfig
  <2>2. /\ vault_strategy_config[c] \in ConfigType
        /\ fee <= MAX_PERFORMANCE_FEE
        /\ vault_strategy_config' =
             [vault_strategy_config EXCEPT ![c] =
                InitializeConfig(vault_strategy_config[c], fee)]
    BY <1>3, ScaleAssumption, CreationAssumption
       DEF InitVaultStrategyConfig, CanInitializeConfig, CheckPerformanceFee,
           Inv, TypeOK, CreationTypeOK
  <2>3. InitializeConfig(vault_strategy_config[c], fee).performance_fee = fee
    BY <2>2 DEF InitializeConfig, ConfigType
  <2>4. FeeBounded'
    BY <2>2, <2>3 DEF FeeBounded, Inv, TypeOK, CreationTypeOK
  <2>. QED  BY <2>1, <2>4
<1>4. ASSUME NEW s \in Strategies, NEW percentage \in Percentages,
             NEW amount_max \in [Legs -> CreateAmounts],
             NEW price \in [Legs -> Prices], NEW range \in Ranges,
             CreateRaydiumVaultStrategy(s, percentage, amount_max, price, range)
      PROVE  ShareInv'
  BY <1>4, CreateShares
<1>5. ASSUME NEW c \in Configs, ActivateVaultStrategyConfig(c)
      PROVE  ShareInv'
  <2>1. SharesBacked'
    BY <1>5, ShareKept DEF ActivateVaultStrategyConfig
  <2>2. FeeBounded'
    BY <1>5 DEF ActivateVaultStrategyConfig, FeeBounded, Inv, TypeOK,
                CreationTypeOK, ConfigType
  <2>. QED  BY <2>1, <2>2
<1>6. ASSUME NEW u \in Users, NEW amount \in Amounts,
             \/ DepositToEscrow(u, amount) \/ WithdrawFromEscrow(u, amount)
             \/ \E c \in Configs : InvestReserve(u, c, amount)
      PROVE  ShareInv'
  BY <1>6, ShareKept, FeeKept
     DEF DepositToEscrow, WithdrawFromEscrow, InvestReserve, creationVars
<1>7. ASSUME NEW u \in Users, NEW s \in Strategies, NEW range \in Ranges,
             NEW split \in Splits, NEW slippage \in Slippages,
             SwapToRatio(u, s, range, split, slippage)
      PROVE  ShareInv'
  <2>1. UNCHANGED creationVars
    BY <1>7 DEF SwapToRatio
  <2>. QED  BY <2>1, ShareKept, FeeKept DEF creationVars
<1>8. ASSUME NEW u \in Users, NEW s \in Strategies, NEW range \in Ranges,
             AddLiquidity(u, s, range)
      PROVE  ShareInv'
  BY <1>8, AddLiquidityShares
<1>9. ASSUME NEW u \in Users, NEW s \in Strategies,
             NEW percentage \in RemovePercentages, NEW range \in Ranges,
             RemoveLiquidity(u, s, percentage, range)
      PROVE  ShareInv'
  BY <1>9, RemoveLiquidityShares
<1>10. ASSUME NEW s \in Strategies, NEW fees \in FeeAccruals, AccrueFees(s, fees)
      PROVE  ShareInv'
  BY <1>10, ShareKept, FeeKept DEF AccrueFees, creationVars
<1>. QED  BY <1>1, <1>2, <1>3, <1>4, <1>5, <1>6, <1>7, <1>8, <1>9, <1>10
          DEF Next, CreationNext, CreatorNext, InvestorNext, PoolNext

\* While no counter saturates, shares are backed, for any number of investors
\* and any sequence of deposits and removals.
THEOREM ShareInvariant == Spec /\ []NoSaturation => []ShareInv
<1>1. Init => ShareInv
  BY ShareInvInit
<1>2. Inv /\ Inv' /\ ShareInv /\ NoSaturation' /\ [Next]_vars => ShareInv'
  BY ShareInvStep
<1>. QED  BY <1>1, <1>2, Invariant, PTL DEF Spec

\* The vault's counters cover what its positions hold.
THEOREM SharesBackedTheorem == Spec /\ []NoSaturation => []SharesBacked
<1>1. ShareInv => SharesBacked
  BY DEF ShareInv
<1>. QED  BY <1>1, ShareInvariant, PTL
-----------------------------------------------------------------------------
(* What a backed position can rely on.                                     *)

\* A position stands for at most the whole vault.
LEMMA PartOfBacked ==
  ASSUME Inv, ShareInv, NEW u \in Users, NEW s \in Strategies
  PROVE  /\ investor_strategy_position[u][s].shares \in U64
         /\ vault_strategy[s].total_shares \in Nat
         /\ investor_strategy_position[u][s].shares <= vault_strategy[s].total_shares
         /\ PartOf(u, s) \in Nat /\ PartOf(u, s) <= DENOMINATOR_MULTIPLIER
         /\ liquidity[s] \in Nat /\ ConfigOf[s] \in Configs
         /\ fees_owed[s] \in [Legs -> Nat]
         /\ fees_escrow[ConfigOf[s]] \in [Legs -> Nat]
         /\ vault_strategy_config[ConfigOf[s]].performance_fee \in Nat
         /\ vault_strategy_config[ConfigOf[s]].performance_fee <= MAX_PERFORMANCE_FEE
<1>. DEFINE pos == investor_strategy_position[u][s]
            total == vault_strategy[s].total_shares
            shares == [w \in Users |-> investor_strategy_position[w][s].shares]
<1>. USE DEF Inv, ShareInv
<1>1. \A w \in Users : shares[w] \in U64 /\ shares[w] \in Nat
  <2>. TAKE w \in Users
  <2>1. investor_strategy_position[w][s] \in PositionType
    BY DEF TypeOK, CreationTypeOK
  <2>2. investor_strategy_position[w][s].shares \in U64
    BY <2>1 DEF PositionType
  <2>. QED  BY <2>2, U64Type
<1>2. total \in U64 /\ total \in Nat
  BY U64Type DEF TypeOK, CreationTypeOK, VaultType
<1>3. pos.shares \in U64 /\ pos.shares \in Nat
  BY <1>1
<1>4. pos.shares <= total
  <2>1. shares[u] <= SumOver(Users, shares) /\ SumOver(Users, shares) \in Nat
    BY <1>1, InvestAssumption, SumMember, SumType
  <2>2. SumOver(Users, shares) <= total
    BY DEF SharesBacked, OutstandingShares
  <2>3. shares[u] = pos.shares
    OBVIOUS
  <2>. HIDE DEF shares, total, pos
  <2>. QED  BY <1>2, <1>3, <2>1, <2>2, <2>3
<1>5. PartOf(u, s) \in Nat /\ PartOf(u, s) <= DENOMINATOR_MULTIPLIER
  <2>. HIDE DEF total, pos
  <2>1. /\ ConvertSharesToPercentage(pos, total) \in Nat
        /\ ConvertSharesToPercentage(pos, total) <= DENOMINATOR_MULTIPLIER
    BY <1>2, <1>3, <1>4, PartBound
  <2>. QED  BY <2>1 DEF PartOf, pos, total
<1>6. ConfigOf[s] \in Configs
  BY CreationAssumption
<1>7. /\ liquidity[s] \in Nat /\ fees_owed[s] \in [Legs -> Nat]
      /\ fees_escrow[ConfigOf[s]] \in [Legs -> Nat]
      /\ vault_strategy_config[ConfigOf[s]].performance_fee \in Nat
  BY <1>6 DEF TypeOK, CreationTypeOK, ConfigType
<1>. QED  BY <1>2, <1>3, <1>4, <1>5, <1>6, <1>7 DEF FeeBounded

\* A removal pays no more fees than it has collected.
LEMMA FeesOfBacked ==
  ASSUME Inv, ShareInv, NEW u \in Users, NEW s \in Strategies, NEW k \in Legs
  PROVE  /\ InvestorFeesOf(u, s, k) \in Nat /\ CreatorFeesOf(u, s, k) \in Nat
         /\ InvestorFeesOf(u, s, k) + CreatorFeesOf(u, s, k) <= fees_owed[s][k]
<1>1. fees_owed[s][k] \in Nat
  BY PartOfBacked
<1>. QED  BY <1>1, PartOfBacked, FeesBound DEF InvestorFeesOf, CreatorFeesOf

\* Whoever holds shares of a backed vault can remove all of its position.
LEMMA ExitFromInv ==
  ASSUME Inv, ShareInv
  PROVE  ExitServiceable
<1>. SUFFICES ASSUME NEW u \in Users, NEW s \in Strategies,
                     investor_strategy_position[u][s].shares > 0
              PROVE  /\ SharesToBurn(investor_strategy_position[u][s],
                                     MAX_REMOVE_PERCENTAGE) > 0
                     /\ RemovalPayable(u, s, MAX_REMOVE_PERCENTAGE)
  BY DEF ExitServiceable
<1>. DEFINE pos == investor_strategy_position[u][s]
<1>1. MAX_REMOVE_PERCENTAGE \in Nat /\ MAX_REMOVE_PERCENTAGE <= MAX_REMOVE_PERCENTAGE
  BY ScaleAssumption
<1>2. /\ pos.shares \in U64 /\ pos.shares \in Nat
      /\ vault_strategy[s].total_shares \in Nat
      /\ pos.shares <= vault_strategy[s].total_shares
  BY PartOfBacked, U64Type
<1>3. SharesToBurn(pos, MAX_REMOVE_PERCENTAGE) > 0
  <2>1. SharesToBurn(pos, MAX_REMOVE_PERCENTAGE) = pos.shares
    BY <1>1, <1>2, BurnBound
  <2>. QED  BY <2>1
<1>4. vault_strategy[s].total_shares > 0
  BY <1>2
<1>5. Withdrawn(u, s, MAX_REMOVE_PERCENTAGE) <= liquidity[s]
  BY <1>1, PartOfBacked, WithdrawnBound DEF Withdrawn
<1>6. ASSUME NEW k \in Legs
      PROVE  /\ InvestorFeesOf(u, s, k) \in Nat
             /\ InvestorFeesOf(u, s, k) + CreatorFeesOf(u, s, k)
                  <= fees_escrow[ConfigOf[s]][k] + fees_owed[s][k]
  <2>1. fees_escrow[ConfigOf[s]][k] \in Nat /\ fees_owed[s][k] \in Nat
    BY PartOfBacked
  <2>2. /\ InvestorFeesOf(u, s, k) \in Nat /\ CreatorFeesOf(u, s, k) \in Nat
        /\ InvestorFeesOf(u, s, k) + CreatorFeesOf(u, s, k) <= fees_owed[s][k]
    BY FeesOfBacked
  <2>. QED  BY <2>1, <2>2
<1>. QED  BY <1>3, <1>4, <1>5, <1>6 DEF RemovalPayable

\* A position can always be closed while no counter saturates: Raydium and the
\* token program find the liquidity and the fees that a full removal computes.
THEOREM ExitTheorem == Spec /\ []NoSaturation => []ExitServiceable
<1>1. Inv /\ ShareInv => ExitServiceable
  BY ExitFromInv
<1>. QED  BY <1>1, Invariant, ShareInvariant, PTL

\* No instruction takes fees out of the fees escrow that it has not put there.
THEOREM EarlierFeesTheorem == Spec /\ []NoSaturation => EarlierFeesUntouched
<1>. DEFINE kept(c, k) == fees_escrow'[c][k] >= fees_escrow[c][k]
<1>1. ASSUME Inv, ShareInv, Next, NEW c \in Configs, NEW k \in Legs
      PROVE  kept(c, k)
  <2>1. fees_escrow[c][k] \in Nat /\ fees_escrow \in [Configs -> [Legs -> Nat]]
    BY <1>1 DEF Inv, TypeOK
  <2>2. CASE UNCHANGED fees_escrow
    BY <2>1, <2>2
  <2>3. ASSUME NEW u \in Users, NEW s \in Strategies,
               NEW percentage \in RemovePercentages, NEW range \in Ranges,
               RemoveLiquidity(u, s, percentage, range)
        PROVE  kept(c, k)
    <3>. DEFINE after == [j \in Legs |-> fees_escrow[ConfigOf[s]][j] + fees_owed[s][j]
                            - InvestorFeesOf(u, s, j) - CreatorFeesOf(u, s, j)]
    <3>1. fees_escrow' = [fees_escrow EXCEPT ![ConfigOf[s]] = after]
      BY <2>3 DEF RemoveLiquidity
    <3>2. CASE c = ConfigOf[s]
      <4>1. fees_escrow'[c][k] = fees_escrow[c][k] + fees_owed[s][k]
              - InvestorFeesOf(u, s, k) - CreatorFeesOf(u, s, k)
        BY <2>1, <3>1, <3>2
      <4>2. /\ InvestorFeesOf(u, s, k) \in Nat /\ CreatorFeesOf(u, s, k) \in Nat
            /\ InvestorFeesOf(u, s, k) + CreatorFeesOf(u, s, k) <= fees_owed[s][k]
        BY <1>1, FeesOfBacked
      <4>3. fees_owed[s][k] \in Nat
        BY <1>1 DEF Inv, TypeOK
      <4>. QED  BY <2>1, <4>1, <4>2, <4>3
    <3>3. CASE c # ConfigOf[s]
      BY <2>1, <3>1, <3>3
    <3>. QED  BY <3>2, <3>3
  <2>4. ASSUME NEW u \in Users, NEW amount \in Amounts,
               \/ DepositToEscrow(u, amount) \/ WithdrawFromEscrow(u, amount)
               \/ \E d \in Configs : InvestReserve(u, d, amount)
        PROVE  UNCHANGED fees_escrow
    BY <2>4 DEF DepositToEscrow, WithdrawFromEscrow, InvestReserve
  <2>5. ASSUME NEW u \in Users, NEW s \in Strategies, NEW range \in Ranges,
               \/ AddLiquidity(u, s, range)
               \/ \E split \in Splits, slippage \in Slippages :
                    SwapToRatio(u, s, range, split, slippage)
        PROVE  UNCHANGED fees_escrow
    BY <2>5 DEF AddLiquidity, SwapToRatio
  <2>6. CASE PoolNext
    BY <2>2, <2>6 DEF PoolNext, AccrueFees
  <2>7. CASE CreationNext /\ UNCHANGED investVars
    BY <2>2, <2>7 DEF investVars
  <2>8. CASE InvestorNext
    BY <2>2, <2>3, <2>4, <2>5, <2>8 DEF InvestorNext
  <2>. QED  BY <1>1, <2>6, <2>7, <2>8 DEF Next
<1>2. Inv /\ ShareInv /\ [Next]_vars
        => [\A c \in Configs, k \in Legs : kept(c, k)]_vars
  BY <1>1
<1>. QED  BY <1>2, Invariant, ShareInvariant, PTL DEF Spec, EarlierFeesUntouched

-----------------------------------------------------------------------------
(* Liquidity.                                                              *)

\* A quotient is below a bound its dividend is strictly below.
LEMMA QuotientStrict ==
  ASSUME NEW a \in Nat, NEW b \in Nat \ {0}, NEW c \in Nat, a < c * b
  PROVE  a \div b < c
<1>1. a = b * (a \div b) + (a % b) /\ a % b \in Nat /\ a \div b \in Nat
  OBVIOUS
<1>. DEFINE q == a \div b
<1>. HIDE DEF q
<1>2. q \in Nat /\ b * q <= a
  BY <1>1 DEF q
<1>3. CASE c <= q
  <2>1. c * b <= q * b /\ q * b = b * q
    BY <1>2, <1>3, ProductMonotone
  <2>. QED  BY <1>2, <2>1
<1>. QED  BY <1>2, <1>3 DEF q

\* A product is strict in its first factor when the second is positive.
LEMMA ProductStrict ==
  ASSUME NEW a \in Nat, NEW b \in Nat, NEW c \in Nat \ {0}, a < b
  PROVE  a * c < b * c /\ a * c \in Nat /\ b * c \in Nat
<1>1. (a + 1) * c <= b * c /\ (a + 1) * c = a * c + c
  BY ProductMonotone
<1>. QED  BY <1>1

\* Whoever leaves less than the whole vault, or less than the whole position,
\* leaves liquidity.
LEMMA PartialLeaves ==
  ASSUME NEW percentage \in Nat, percentage <= MAX_REMOVE_PERCENTAGE,
         NEW part \in Nat, part <= DENOMINATOR_MULTIPLIER, NEW liq \in Nat \ {0},
         part < DENOMINATOR_MULTIPLIER \/ percentage < MAX_REMOVE_PERCENTAGE
  PROVE  LiquidityToRemove(percentage, part, liq) < liq
<1>1. MAX_REMOVE_PERCENTAGE \in Nat \ {0} /\ DENOMINATOR_MULTIPLIER \in Nat \ {0}
  BY ScaleAssumption
<1>. DEFINE D == DENOMINATOR_MULTIPLIER
            M == MAX_REMOVE_PERCENTAGE
            q == (part * percentage) \div M
<1>2. part * percentage \in Nat /\ part * percentage < D * M
  <2>1. CASE part < D
    <3>1. part * M < D * M /\ part * M \in Nat
      BY <1>1, <2>1, ProductStrict
    <3>2. part * percentage <= part * M /\ part * percentage \in Nat
      BY <1>1, ProductMonotone
    <3>. QED  BY <1>1, <3>1, <3>2
  <2>2. CASE percentage < M /\ part = D
    <3>1. percentage * D < M * D /\ percentage * D \in Nat
      BY <1>1, <2>2, ProductStrict
    <3>. QED  BY <1>1, <2>2, <3>1, ProductMonotone
  <2>. QED  BY <1>1, <2>1, <2>2
<1>3. q \in Nat /\ q < D
  BY <1>1, <1>2, QuotientStrict, QuotientType
<1>. HIDE DEF q
<1>4. q * liq < D * liq /\ q * liq \in Nat /\ D * liq = liq * D
  BY <1>1, <1>3, ProductStrict, ProductMonotone
<1>5. (q * liq) \div D < liq
  BY <1>1, <1>4, QuotientStrict
<1>. QED  BY <1>5 DEF LiquidityToRemove, q
\* Who holds less than all shares stands for less than the whole vault.
LEMMA PartStrict ==
  ASSUME NEW pos, pos.shares \in Nat, NEW total \in Nat, pos.shares < total
  PROVE  ConvertSharesToPercentage(pos, total) < DENOMINATOR_MULTIPLIER
<1>. DEFINE D == DENOMINATOR_MULTIPLIER
            q == (pos.shares * D) \div total
<1>1. D \in Nat \ {0} /\ total \in Nat \ {0}
  BY ScaleAssumption
<1>2. pos.shares * D \in Nat /\ pos.shares * D < D * total
  <2>1. pos.shares * D < total * D /\ total * D = D * total /\ pos.shares * D \in Nat
    BY <1>1, ProductStrict, ProductMonotone
  <2>. QED  BY <2>1
<1>3. q < D /\ q \in Nat
  BY <1>1, <1>2, QuotientStrict, QuotientType
<1>4. AsU64(q) \in Nat /\ AsU64(q) <= q
  BY <1>3, AsU64Bound
<1>. HIDE DEF D
<1>5. ConvertSharesToPercentage(pos, total) = AsU64(q)
  BY <1>1 DEF ConvertSharesToPercentage, D
<1>. HIDE DEF q
<1>6. AsU64(q) < D
  BY <1>1, <1>3, <1>4
<1>. QED  BY <1>5, <1>6 DEF D

\* A removal that leaves shares leaves liquidity.
LEMMA RemovalLeaves ==
  ASSUME Inv, ShareInv, SharesHaveLiquidity,
         NEW u \in Users, NEW s \in Strategies,
         NEW percentage \in RemovePercentages, NEW range \in Ranges,
         RemoveLiquidity(u, s, percentage, range)
  PROVE  SharesHaveLiquidity'
<1>. DEFINE pos == investor_strategy_position[u][s]
            total == vault_strategy[s].total_shares
            burn == SharesToBurn(pos, percentage)
            w == Withdrawn(u, s, percentage)
<1>1. /\ pos.shares \in U64 /\ pos.shares \in Nat /\ total \in Nat
      /\ pos.shares <= total /\ liquidity[s] \in Nat
      /\ PartOf(u, s) \in Nat /\ PartOf(u, s) <= DENOMINATOR_MULTIPLIER
  BY PartOfBacked, U64Type
<1>2. percentage \in Nat /\ percentage <= MAX_REMOVE_PERCENTAGE
  BY InvestAssumption, ScaleAssumption DEF RemoveLiquidity
<1>3. liquidity' = [liquidity EXCEPT ![s] = liquidity[s] - w]
  BY DEF RemoveLiquidity
<1>4. PICK b \in U64, assets \in Nat :
        /\ b = burn /\ b <= pos.shares
        /\ vault_strategy' = [vault_strategy EXCEPT
             ![s] = RemoveShares(RemoveAssets(vault_strategy[s], assets), b)]
  BY RemoveLiquidityEffect DEF Inv
<1>5. vault_strategy[s] \in VaultType /\ vault_strategy \in [Strategies -> VaultType]
  BY DEF Inv, TypeOK, CreationTypeOK
<1>. DEFINE v == RemoveShares(RemoveAssets(vault_strategy[s], assets), b)
<1>6. v.total_shares = SatSub(total, b)
  BY <1>5, RemovedTotals
<1>. HIDE DEF v
<1>7. /\ vault_strategy'[s] = v
      /\ \A t \in Strategies \ {s} : vault_strategy'[t] = vault_strategy[t]
  BY <1>4, <1>5 DEF v
<1>8. liquidity \in [Strategies -> Nat]
  BY DEF Inv, TypeOK, CreationTypeOK
<1>9. b \in Nat
  BY U64Type
<1>10. w \in Nat
  <2>1. w <= liquidity[s] /\ LiquidityToRemove(percentage, PartOf(u, s), liquidity[s]) \in Nat
    BY <1>1, <1>2, WithdrawnBound DEF Withdrawn
  <2>. QED  BY <2>1 DEF Withdrawn
<1>11. ASSUME v.total_shares > 0
       PROVE  w < liquidity[s]
  <2>. HIDE DEF pos, total, burn, w
  <2>1. b < total /\ total > 0
    BY <1>1, <1>4, <1>6, <1>9, <1>11 DEF SatSub
  <2>2. liquidity[s] \in Nat \ {0}
    BY <1>1, <2>1 DEF SharesHaveLiquidity, total
  <2>3. CASE percentage < MAX_REMOVE_PERCENTAGE
    BY <1>1, <1>2, <2>2, <2>3, PartialLeaves DEF Withdrawn, w
  <2>4. CASE percentage = MAX_REMOVE_PERCENTAGE
    <3>1. burn = pos.shares
      BY <1>1, <1>2, <2>4, BurnBound DEF burn
    <3>2. pos.shares < total
      BY <1>4, <2>1, <3>1
    <3>3. PartOf(u, s) < DENOMINATOR_MULTIPLIER
      BY <1>1, <3>2, PartStrict DEF PartOf, pos, total
    <3>. QED  BY <1>1, <1>2, <2>2, <3>3, PartialLeaves DEF Withdrawn, w
  <2>5. MAX_REMOVE_PERCENTAGE \in Nat
    BY ScaleAssumption
  <2>. QED  BY <1>2, <2>3, <2>4, <2>5
<1>. HIDE DEF pos, total, burn, w
<1>12. ASSUME NEW t \in Strategies, vault_strategy'[t].total_shares > 0
       PROVE  liquidity'[t] > 0
  <2>1. CASE t = s
    <3>1. w < liquidity[s]
      BY <1>7, <1>11, <1>12, <2>1
    <3>2. liquidity'[s] = liquidity[s] - w
      BY <1>3, <1>8
    <3>. QED  BY <1>1, <1>10, <2>1, <3>1, <3>2
  <2>2. CASE t # s
    <3>1. vault_strategy'[t] = vault_strategy[t] /\ liquidity'[t] = liquidity[t]
      BY <1>3, <1>7, <1>8, <2>2
    <3>. QED  BY <1>12, <3>1 DEF SharesHaveLiquidity
  <2>. QED  BY <2>1, <2>2
<1>. QED  BY <1>12 DEF SharesHaveLiquidity

\* Deposits, the creator's included, add liquidity with the shares.
LEMMA DepositLeaves ==
  ASSUME CreationTypeOK, SharesHaveLiquidity, NEW s \in Strategies,
         NEW liq \in Nat \ {0},
         liquidity' = [liquidity EXCEPT ![s] = liquidity[s] + liq],
         \A t \in Strategies \ {s} : vault_strategy'[t] = vault_strategy[t]
  PROVE  SharesHaveLiquidity'
<1>. SUFFICES ASSUME NEW t \in Strategies, vault_strategy'[t].total_shares > 0
              PROVE  liquidity'[t] > 0
  BY DEF SharesHaveLiquidity
<1>1. liquidity \in [Strategies -> Nat] /\ liquidity[s] \in Nat
  BY DEF CreationTypeOK
<1>2. CASE t = s
  BY <1>1, <1>2
<1>3. CASE t # s
  BY <1>1, <1>3 DEF SharesHaveLiquidity
<1>. QED  BY <1>2, <1>3

\* Steps that touch neither a vault nor its liquidity.
LEMMA LiquidityKept ==
  ASSUME SharesHaveLiquidity, UNCHANGED <<vault_strategy, liquidity>>
  PROVE  SharesHaveLiquidity'
  BY DEF SharesHaveLiquidity

\* Every instruction leaves liquidity to those who hold shares.
LEMMA LiquidityStep ==
  ASSUME Inv, ShareInv, SharesHaveLiquidity, [Next]_vars
  PROVE  SharesHaveLiquidity'
<1>. CreationTypeOK
  BY DEF Inv, TypeOK
<1>1. CASE UNCHANGED vars
  BY <1>1, LiquidityKept DEF vars, creationVars
<1>2. CASE AdminNext
  BY <1>2, LiquidityKept DEF AdminNext, InitProtocolConfig, PauseProtocol,
     UnpauseProtocol, SwitchProtocol
<1>3. ASSUME NEW c \in Configs,
             \/ ActivateVaultStrategyConfig(c)
             \/ \E fee \in PerformanceFees : InitVaultStrategyConfig(c, fee)
      PROVE  SharesHaveLiquidity'
  BY <1>3, LiquidityKept DEF ActivateVaultStrategyConfig, InitVaultStrategyConfig
<1>4. ASSUME NEW s \in Strategies, NEW percentage \in Percentages,
             NEW amount_max \in [Legs -> CreateAmounts],
             NEW price \in [Legs -> Prices], NEW range \in Ranges,
             CreateRaydiumVaultStrategy(s, percentage, amount_max, price, range)
      PROVE  SharesHaveLiquidity'
  <2>1. /\ \A t \in Strategies \ {s} : vault_strategy'[t] = vault_strategy[t]
        /\ \E liq \in Nat \ {0} : liquidity' = [liquidity EXCEPT ![s] = liquidity[s] + liq]
    BY <1>4, CreateEffect
  <2>. QED  BY <2>1, DepositLeaves
<1>5. ASSUME NEW u \in Users, NEW amount \in Amounts,
             \/ DepositToEscrow(u, amount) \/ WithdrawFromEscrow(u, amount)
             \/ \E c \in Configs : InvestReserve(u, c, amount)
      PROVE  SharesHaveLiquidity'
  BY <1>5, LiquidityKept
     DEF DepositToEscrow, WithdrawFromEscrow, InvestReserve, creationVars
<1>6. ASSUME NEW u \in Users, NEW s \in Strategies, NEW range \in Ranges,
             NEW split \in Splits, NEW slippage \in Slippages,
             SwapToRatio(u, s, range, split, slippage)
      PROVE  SharesHaveLiquidity'
  BY <1>6, LiquidityKept DEF SwapToRatio, creationVars
<1>7. ASSUME NEW u \in Users, NEW s \in Strategies, NEW range \in Ranges,
             AddLiquidity(u, s, range)
      PROVE  SharesHaveLiquidity'
  <2>1. \E liq \in Nat \ {0} : liquidity' = [liquidity EXCEPT ![s] = liquidity[s] + liq]
    BY <1>7, AddLiquidityEffect DEF Inv
  <2>2. \A t \in Strategies \ {s} : vault_strategy'[t] = vault_strategy[t]
    <3>1. \E v : vault_strategy' = [vault_strategy EXCEPT ![s] = v]
      BY <1>7 DEF AddLiquidity
    <3>. QED  BY <3>1 DEF CreationTypeOK
  <2>. QED  BY <2>1, <2>2, DepositLeaves
<1>8. ASSUME NEW u \in Users, NEW s \in Strategies,
             NEW percentage \in RemovePercentages, NEW range \in Ranges,
             RemoveLiquidity(u, s, percentage, range)
      PROVE  SharesHaveLiquidity'
  BY <1>8, RemovalLeaves
<1>9. ASSUME NEW s \in Strategies, NEW fees \in FeeAccruals, AccrueFees(s, fees)
      PROVE  SharesHaveLiquidity'
  BY <1>9, LiquidityKept DEF AccrueFees, creationVars
<1>. QED  BY <1>1, <1>2, <1>3, <1>4, <1>5, <1>6, <1>7, <1>8, <1>9
          DEF Next, CreationNext, CreatorNext, InvestorNext, PoolNext

\* Rounding in liquidity_to_remove never lets those who leave take the last
\* liquidity of those who stay.
THEOREM LiquidityTheorem == Spec /\ []NoSaturation => []SharesHaveLiquidity
<1>1. Init => SharesHaveLiquidity
  BY DEF Init, CreationInit, NoVault, SharesHaveLiquidity
<1>2. Inv /\ ShareInv /\ SharesHaveLiquidity /\ [Next]_vars => SharesHaveLiquidity'
  BY LiquidityStep
<1>. QED  BY <1>1, <1>2, Invariant, ShareInvariant, PTL DEF Spec

-----------------------------------------------------------------------------
(* Those who stay.                                                         *)

\* The two factors of products can be paired differently.
LEMMA ProductsPaired ==
  ASSUME NEW a \in Nat, NEW b \in Nat, NEW c \in Nat, NEW d \in Nat
  PROVE  (a * b) * (c * d) = (a * d) * (b * c) /\ (a * b) * (c * d) = (a * c) * (b * d)
<1>1. (a * b) * (c * d) = ((a * b) * c) * d
  OBVIOUS
<1>2. (a * d) * (b * c) = ((a * b) * c) * d
  OBVIOUS
<1>3. (a * c) * (b * d) = ((a * b) * c) * d
  OBVIOUS
<1>. QED  BY <1>1, <1>2, <1>3

\* The liquidity of a removal, rounded down twice, and the shares it burns,
\* rounded down once.
LEMMA RemovalRounding ==
  ASSUME NEW percentage \in Nat, NEW shares \in Nat, NEW total \in Nat \ {0},
         NEW part \in Nat, part * total <= shares * DENOMINATOR_MULTIPLIER,
         NEW liq \in Nat, NEW burn \in Nat,
         percentage * shares <= (burn + 1) * MAX_REMOVE_PERCENTAGE
  PROVE  LiquidityToRemove(percentage, part, liq) * total <= liq * (burn + 1)
<1>. DEFINE D == DENOMINATOR_MULTIPLIER
            M == MAX_REMOVE_PERCENTAGE
            r == (part * percentage) \div M
            w == (r * liq) \div D
            b == burn + 1
<1>1. D \in Nat \ {0} /\ M \in Nat \ {0} /\ b \in Nat
  BY ScaleAssumption
<1>2. part * percentage \in Nat
  OBVIOUS
<1>3. r \in Nat /\ r * M <= part * percentage
  BY <1>1, <1>2
<1>4. r * liq \in Nat
  BY <1>3
<1>5. w \in Nat /\ w * D <= r * liq
  BY <1>1, <1>4
<1>6. LiquidityToRemove(percentage, part, liq) = w
  BY DEF LiquidityToRemove
<1>7. part * total <= shares * D /\ percentage * shares <= b * M
  OBVIOUS
<1>. HIDE DEF D, M, r, w, b
<1>8. (w * D) * (total * M) <= (r * liq) * (total * M)
  BY <1>1, <1>3, <1>5, ProductMonotone
<1>9. (r * liq) * (total * M) = (r * M) * (liq * total)
  BY <1>1, <1>3, ProductsPaired
<1>10. (r * M) * (liq * total) <= (part * percentage) * (liq * total)
  <2>1. r * M \in Nat /\ liq * total \in Nat
    BY <1>1, <1>3
  <2>. QED  BY <1>2, <1>3, <2>1, ProductMonotone
<1>11. (part * percentage) * (liq * total) = (part * total) * (percentage * liq)
  BY ProductsPaired
<1>12. (part * total) * (percentage * liq) <= (shares * D) * (percentage * liq)
  <2>1. part * total \in Nat /\ shares * D \in Nat /\ percentage * liq \in Nat
    BY <1>1
  <2>. QED  BY <1>7, <2>1, ProductMonotone
<1>13. (shares * D) * (percentage * liq) = (percentage * shares) * (D * liq)
  <2>1. (shares * D) * (percentage * liq) = (shares * percentage) * (D * liq)
    BY <1>1, ProductsPaired
  <2>2. shares * percentage = percentage * shares
    OBVIOUS
  <2>. QED  BY <2>1, <2>2
<1>14. (percentage * shares) * (D * liq) <= (b * M) * (D * liq)
  <2>1. percentage * shares \in Nat /\ b * M \in Nat /\ D * liq \in Nat
    BY <1>1
  <2>. QED  BY <1>7, <2>1, ProductMonotone
<1>. DEFINE K == D * M
<1>15. K \in Nat \ {0}
  <2>1. D * M >= 1 * 1
    BY <1>1, ProductMonotone
  <2>2. D * M \in Nat
    BY <1>1
  <2>. QED  BY <2>1, <2>2
<1>16. (w * D) * (total * M) = (w * total) * K /\ (b * M) * (D * liq) = (liq * b) * K
  <2>1. (w * D) * (total * M) = (w * total) * (D * M)
    BY <1>1, <1>5, ProductsPaired
  <2>2. (b * M) * (D * liq) = (b * liq) * (M * D)
    BY <1>1, ProductsPaired
  <2>3. M * D = D * M /\ b * liq = liq * b
    BY <1>1
  <2>. QED  BY <2>1, <2>2, <2>3
<1>. HIDE DEF K
<1>17. (w * total) * K <= (liq * b) * K
  <2>1. /\ (w * D) * (total * M) \in Nat /\ (r * liq) * (total * M) \in Nat
        /\ (part * percentage) * (liq * total) \in Nat
        /\ (shares * D) * (percentage * liq) \in Nat /\ (b * M) * (D * liq) \in Nat
    BY <1>1, <1>3, <1>5
  <2>2. (w * D) * (total * M) <= (part * percentage) * (liq * total)
    BY <1>8, <1>9, <1>10, <2>1
  <2>3. (part * percentage) * (liq * total) <= (b * M) * (D * liq)
    BY <1>11, <1>12, <1>13, <1>14, <2>1
  <2>4. (w * D) * (total * M) <= (b * M) * (D * liq)
    BY <2>1, <2>2, <2>3
  <2>. QED  BY <1>16, <2>4
<1>18. w * total \in Nat /\ liq * b \in Nat
  BY <1>1, <1>5
<1>19. w * total <= liq * b
  <2>1. SUFFICES ASSUME liq * b < w * total PROVE FALSE
    BY <1>18
  <2>2. (liq * b) * K < (w * total) * K /\ (liq * b) * K \in Nat /\ (w * total) * K \in Nat
    BY <1>15, <1>18, <2>1, ProductStrict
  <2>. QED  BY <1>17, <2>2
<1>. QED  BY <1>6, <1>19 DEF b

\* A position's part, rounded down, is at most what its shares stand for.
LEMMA PartRounded ==
  ASSUME NEW pos, pos.shares \in Nat, NEW total \in Nat \ {0}
  PROVE  ConvertSharesToPercentage(pos, total) * total <= pos.shares * DENOMINATOR_MULTIPLIER
<1>. DEFINE q == (pos.shares * DENOMINATOR_MULTIPLIER) \div total
<1>1. DENOMINATOR_MULTIPLIER \in Nat
  BY ScaleAssumption
<1>2. pos.shares * DENOMINATOR_MULTIPLIER \in Nat
  BY <1>1
<1>3. q \in Nat /\ q * total <= pos.shares * DENOMINATOR_MULTIPLIER
  BY <1>2
<1>. HIDE DEF q
<1>4. AsU64(q) \in Nat /\ AsU64(q) <= q
  BY <1>3, AsU64Bound
<1>5. AsU64(q) * total <= q * total /\ AsU64(q) * total \in Nat /\ q * total \in Nat
  BY <1>3, <1>4, ProductMonotone
<1>6. AsU64(q) * total <= pos.shares * DENOMINATOR_MULTIPLIER
  BY <1>2, <1>3, <1>5
<1>7. ConvertSharesToPercentage(pos, total) = AsU64(q)
  BY DEF ConvertSharesToPercentage, q
<1>. QED  BY <1>6, <1>7

\* One share more than a removal burns covers its percentage of the position.
LEMMA BurnRounded ==
  ASSUME NEW pos, pos.shares \in U64, NEW percentage \in Nat,
         percentage <= MAX_REMOVE_PERCENTAGE
  PROVE  percentage * pos.shares
           <= (SharesToBurn(pos, percentage) + 1) * MAX_REMOVE_PERCENTAGE
<1>. DEFINE q == (percentage * pos.shares) \div MAX_REMOVE_PERCENTAGE
<1>1. MAX_REMOVE_PERCENTAGE \in Nat \ {0} /\ pos.shares \in Nat
  BY ScaleAssumption, U64Type
<1>2. percentage * pos.shares \in Nat
  BY <1>1
<1>3. q \in Nat /\ percentage * pos.shares <= (q + 1) * MAX_REMOVE_PERCENTAGE
  BY <1>1, <1>2
<1>4. q <= pos.shares
  BY <1>1, FractionBound
<1>. HIDE DEF q
<1>5. q \in U64
  BY <1>1, <1>3, <1>4, ScaleAssumption DEF U64
<1>6. SharesToBurn(pos, percentage) = q
  BY <1>5, AsU64OfU64 DEF SharesToBurn, q
<1>. QED  BY <1>3, <1>6

\* A removal of a backed position.
LEMMA RemovalRounded ==
  ASSUME Inv, ShareInv, NEW u \in Users, NEW s \in Strategies,
         NEW percentage \in RemovePercentages, NEW range \in Ranges,
         RemoveLiquidity(u, s, percentage, range), NEW t \in Strategies,
         vault_strategy'[t].total_shares < vault_strategy[t].total_shares
  PROVE  (liquidity[t] - liquidity'[t]) * vault_strategy[t].total_shares
           <= liquidity[t] * (vault_strategy[t].total_shares
                              - vault_strategy'[t].total_shares + 1)
<1>. DEFINE pos == investor_strategy_position[u][s]
            total == vault_strategy[s].total_shares
            burn == SharesToBurn(pos, percentage)
            w == Withdrawn(u, s, percentage)
<1>1. /\ pos.shares \in U64 /\ pos.shares \in Nat /\ total \in Nat
      /\ pos.shares <= total /\ liquidity[s] \in Nat
      /\ PartOf(u, s) \in Nat /\ PartOf(u, s) <= DENOMINATOR_MULTIPLIER
  BY PartOfBacked, U64Type
<1>2. percentage \in Nat /\ percentage <= MAX_REMOVE_PERCENTAGE
  BY InvestAssumption, ScaleAssumption DEF RemoveLiquidity
<1>3. liquidity' = [liquidity EXCEPT ![s] = liquidity[s] - w]
  BY DEF RemoveLiquidity
<1>4. PICK b \in U64, assets \in Nat :
        /\ b = burn /\ b <= pos.shares
        /\ vault_strategy' = [vault_strategy EXCEPT
             ![s] = RemoveShares(RemoveAssets(vault_strategy[s], assets), b)]
  BY RemoveLiquidityEffect DEF Inv
<1>5. vault_strategy[s] \in VaultType /\ vault_strategy \in [Strategies -> VaultType]
  BY DEF Inv, TypeOK, CreationTypeOK
<1>. DEFINE v == RemoveShares(RemoveAssets(vault_strategy[s], assets), b)
<1>6. v.total_shares = SatSub(total, b)
  BY <1>5, RemovedTotals
<1>. HIDE DEF v
<1>7. /\ vault_strategy'[s] = v
      /\ \A d \in Strategies \ {s} : vault_strategy'[d] = vault_strategy[d]
  BY <1>4, <1>5 DEF v
<1>8. b \in Nat /\ total - b \in Nat /\ v.total_shares = total - b
  <2>1. b \in Nat /\ b <= pos.shares
    BY <1>4, U64Type
  <2>. HIDE DEF pos, total
  <2>2. b <= total /\ total - b \in Nat
    BY <1>1, <2>1
  <2>. QED  BY <1>6, <2>1, <2>2 DEF SatSub
<1>9. t = s
  <2>1. SUFFICES ASSUME t # s PROVE FALSE
    OBVIOUS
  <2>2. vault_strategy'[t] = vault_strategy[t] /\ vault_strategy[t].total_shares \in Nat
    BY <1>5, <1>7, <2>1, U64Type DEF VaultType
  <2>. QED  BY <2>2
<1>10. total \in Nat \ {0}
  <2>1. total - b < total
    BY <1>7, <1>8, <1>9
  <2>. QED  BY <1>1, <1>8, <2>1
<1>11. liquidity'[s] = liquidity[s] - w /\ w \in Nat /\ w <= liquidity[s]
  <2>1. liquidity \in [Strategies -> Nat]
    BY DEF Inv, TypeOK, CreationTypeOK
  <2>2. w \in Nat /\ w <= liquidity[s]
    BY <1>1, <1>2, WithdrawnBound DEF Withdrawn
  <2>. QED  BY <1>3, <2>1, <2>2
<1>12. w * total <= liquidity[s] * (b + 1)
  <2>1. PartOf(u, s) * total <= pos.shares * DENOMINATOR_MULTIPLIER
    BY <1>1, <1>10, PartRounded DEF PartOf
  <2>2. percentage * pos.shares <= (b + 1) * MAX_REMOVE_PERCENTAGE
    BY <1>1, <1>2, <1>4, BurnRounded
  <2>. HIDE DEF pos, total, burn
  <2>. QED  BY <1>1, <1>2, <1>8, <1>10, <2>1, <2>2, RemovalRounding DEF Withdrawn
<1>13. liquidity[s] - liquidity'[s] = w /\ total - vault_strategy'[s].total_shares = b
  BY <1>1, <1>7, <1>8, <1>11
<1>. QED  BY <1>9, <1>12, <1>13

\* Deposits never lower the counter of shares.
LEMMA SharesRise ==
  ASSUME vault_strategy \in [Strategies -> VaultType],
         NEW s \in Strategies, NEW n \in Nat,
         vault_strategy'[s].total_shares = SatAdd(vault_strategy[s].total_shares, n),
         \A t \in Strategies \ {s} : vault_strategy'[t] = vault_strategy[t],
         NEW d \in Strategies
  PROVE  ~(vault_strategy'[d].total_shares < vault_strategy[d].total_shares)
<1>1. vault_strategy[d].total_shares \in U64 /\ vault_strategy[d].total_shares \in Nat
  BY U64Type DEF VaultType
<1>2. U64_MAX \in Nat /\ vault_strategy[d].total_shares <= U64_MAX
  BY <1>1, ScaleAssumption DEF U64
<1>3. CASE d = s
  BY <1>1, <1>2, <1>3 DEF SatAdd
<1>4. CASE d # s
  BY <1>1, <1>4
<1>. QED  BY <1>3, <1>4

\* What a removal takes of those who stay is at most the rounding of a share,
\* whatever removals and deposits went before.
THEOREM DilutionTheorem == Spec /\ []NoSaturation => RemovalRoundingBounded
<1>. DEFINE bounded(t) ==
       vault_strategy'[t].total_shares < vault_strategy[t].total_shares =>
         (liquidity[t] - liquidity'[t]) * vault_strategy[t].total_shares
           <= liquidity[t] * (vault_strategy[t].total_shares
                              - vault_strategy'[t].total_shares + 1)
<1>1. ASSUME Inv, ShareInv, Next, NEW t \in Strategies
      PROVE  bounded(t)
  <2>. SUFFICES ASSUME vault_strategy'[t].total_shares < vault_strategy[t].total_shares
                PROVE  bounded(t)
    OBVIOUS
  <2>1. CreationTypeOK /\ vault_strategy \in [Strategies -> VaultType] /\ TypeOK
    BY <1>1 DEF Inv, TypeOK, CreationTypeOK
  <2>2. vault_strategy' # vault_strategy
    <3>1. vault_strategy[t].total_shares \in Nat
      BY <2>1, U64Type DEF VaultType
    <3>. QED  BY <3>1
  <2>3. ASSUME NEW s \in Strategies, NEW percentage \in Percentages,
               NEW amount_max \in [Legs -> CreateAmounts],
               NEW price \in [Legs -> Prices], NEW range \in Ranges,
               CreateRaydiumVaultStrategy(s, percentage, amount_max, price, range)
        PROVE  FALSE
    <3>1. \A d \in Strategies \ {s} : vault_strategy'[d] = vault_strategy[d]
      BY <2>1, <2>3, CreateEffect
    <3>2. PICK p \in PositionType :
            vault_strategy'[s].total_shares = SatAdd(vault_strategy[s].total_shares, p.shares)
      BY <2>1, <2>3, CreateEffect
    <3>3. p.shares \in Nat
      BY U64Type DEF PositionType
    <3>. QED  BY <2>1, <3>1, <3>2, <3>3, SharesRise
  <2>4. ASSUME NEW u \in Users, NEW s \in Strategies, NEW range \in Ranges,
               AddLiquidity(u, s, range)
        PROVE  FALSE
    <3>1. PICK p \in PositionType, amount \in Nat :
            vault_strategy' = [vault_strategy EXCEPT
              ![s] = AddShares(AddAssets(vault_strategy[s], amount), p.shares)]
      BY <2>1, <2>4, AddLiquidityEffect
    <3>. DEFINE v == AddShares(AddAssets(vault_strategy[s], amount), p.shares)
    <3>2. v.total_shares = SatAdd(vault_strategy[s].total_shares, p.shares)
      BY <2>1, AddedTotals
    <3>. HIDE DEF v
    <3>3. /\ vault_strategy'[s] = v
          /\ \A d \in Strategies \ {s} : vault_strategy'[d] = vault_strategy[d]
      BY <2>1, <3>1 DEF v
    <3>4. p.shares \in Nat
      BY U64Type DEF PositionType
    <3>. QED  BY <2>1, <3>2, <3>3, <3>4, SharesRise
  <2>5. ASSUME NEW u \in Users, NEW s \in Strategies,
               NEW percentage \in RemovePercentages, NEW range \in Ranges,
               RemoveLiquidity(u, s, percentage, range)
        PROVE  bounded(t)
    BY <1>1, <2>5, RemovalRounded
  <2>6. ~AdminNext
    BY <2>2 DEF AdminNext, InitProtocolConfig, PauseProtocol, UnpauseProtocol, SwitchProtocol
  <2>7. ASSUME NEW c \in Configs
        PROVE  /\ ~ActivateVaultStrategyConfig(c)
               /\ \A fee \in PerformanceFees : ~InitVaultStrategyConfig(c, fee)
    BY <2>2 DEF ActivateVaultStrategyConfig, InitVaultStrategyConfig
  <2>8. ASSUME NEW u \in Users, NEW amount \in Amounts
        PROVE  /\ ~DepositToEscrow(u, amount) /\ ~WithdrawFromEscrow(u, amount)
               /\ \A c \in Configs : ~InvestReserve(u, c, amount)
    BY <2>2 DEF DepositToEscrow, WithdrawFromEscrow, InvestReserve, creationVars
  <2>9. ASSUME NEW u \in Users, NEW s \in Strategies, NEW range \in Ranges,
               NEW split \in Splits, NEW slippage \in Slippages
        PROVE  ~SwapToRatio(u, s, range, split, slippage)
    BY <2>2 DEF SwapToRatio, creationVars
  <2>10. ASSUME NEW s \in Strategies, NEW fees \in FeeAccruals PROVE ~AccrueFees(s, fees)
    BY <2>2 DEF AccrueFees, creationVars
  <2>. HIDE DEF bounded
  <2>. QED  BY <1>1, <2>3, <2>4, <2>5, <2>6, <2>7, <2>8, <2>9, <2>10
            DEF Next, CreationNext, CreatorNext, InvestorNext, PoolNext
<1>2. Inv /\ ShareInv /\ [Next]_vars =>
        [\A s \in Strategies :
           vault_strategy'[s].total_shares < vault_strategy[s].total_shares =>
             (liquidity[s] - liquidity'[s]) * vault_strategy[s].total_shares
               <= liquidity[s] * (vault_strategy[s].total_shares
                                  - vault_strategy'[s].total_shares + 1)]_vars
  BY <1>1
<1>. HIDE DEF bounded
<1>. QED  BY <1>2, Invariant, ShareInvariant, PTL DEF Spec, RemovalRoundingBounded
==============================================================================
