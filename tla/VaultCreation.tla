---------------------------- MODULE VaultCreation ----------------------------
(***************************************************************************)
(* The admin's and the creators' instructions (instructions/admin and      *)
(* instructions/creator): the protocol switch, a creator's config, the     *)
(* Raydium strategies added to it, and its activation.                     *)
(*                                                                         *)
(* One action is one instruction: Solana executes it alone and either      *)
(* commits all its writes or none.  Accounts are program-derived, so an    *)
(* account is a function of the keys in its seeds: a config belongs to one *)
(* creator, a strategy to one config, a position to a user and a strategy. *)
(***************************************************************************)
EXTENDS VaultAccounts

CONSTANTS
  Users,            \* signers: creators and investors
  Admins,           \* signers that send the admin instructions
  Configs,          \* keys of VaultStrategyConfig accounts
  Strategies,       \* keys of VaultStrategy accounts
  CreatorOf,        \* the creator in the seeds of a config
  ConfigOf,         \* the config in the seeds of a strategy
  Mints,            \* the token mints
  LegMint,          \* LegMint[c][k]: mint of leg k of every strategy of c
  ProtocolFees, PerformanceFees, Percentages, CreateAmounts, Prices,
                    \* values that occur as arguments
  Ranges,           \* where a pool's price may be, seen from a position
  InitialWallet,    \* InitialWallet[u][m]: tokens of mint m that u owns at first
  HIGH_FEES,        \* largest protocol fee
  NoKey             \* Pubkey::default()

\* A Raydium position has two legs, token 0 and token 1.
Legs == {0, 1}

ASSUME CreationAssumption ==
  /\ CreatorOf \in [Configs -> Users]
  /\ ConfigOf \in [Strategies -> Configs]
  /\ LegMint \in [Configs -> [Legs -> Mints]]
  /\ \A c \in Configs : LegMint[c][0] # LegMint[c][1]
  /\ ProtocolFees \subseteq Nat /\ PerformanceFees \subseteq Nat
  /\ Percentages \subseteq Nat
  /\ CreateAmounts \subseteq U64 /\ Prices \subseteq Nat
  /\ Ranges \subseteq {"below", "inside", "above"}
  /\ InitialWallet \in [Users -> [Mints -> Nat]]
  /\ HIGH_FEES \in Nat

VARIABLES
  protocol_config,              \* the ProtocolConfig account
  vault_strategy_config,        \* config -> VaultStrategyConfig account
  vault_strategy,               \* strategy -> VaultStrategy account
  investor_strategy_position,   \* user -> strategy -> position account
  liquidity,                    \* strategy -> liquidity of its Raydium position
  wallet                        \* user -> mint -> balance of the user's ATA

creationVars == <<protocol_config, vault_strategy_config, vault_strategy,
                  investor_strategy_position, liquidity, wallet>>

NoProtocol == [status |-> "Unknown", admin_authority |-> NoKey,
               protocol_fees |-> 0]

CreationInit ==
  /\ protocol_config = NoProtocol
  /\ vault_strategy_config = [c \in Configs |-> NoConfig]
  /\ vault_strategy = [s \in Strategies |-> NoVault]
  /\ investor_strategy_position =
       [u \in Users |-> [s \in Strategies |-> NoPosition]]
  /\ liquidity = [s \in Strategies |-> 0]
  /\ wallet = InitialWallet

-----------------------------------------------------------------------------
(* instructions/admin                                                      *)

\* The first admin to call it owns the protocol; the account is never reset.
InitProtocolConfig(a, fees) ==
  /\ protocol_config.status = "Unknown"
  /\ fees \in 1..HIGH_FEES
  /\ protocol_config' = [status |-> "Active", admin_authority |-> a,
                         protocol_fees |-> fees]
  /\ UNCHANGED <<vault_strategy_config, vault_strategy,
                 investor_strategy_position, liquidity, wallet>>

\* pause and unpause: the stored authority flips the status.
SwitchProtocol(a, from, to) ==
  /\ protocol_config.status = from
  /\ protocol_config.admin_authority = a
  /\ protocol_config' = [protocol_config EXCEPT !.status = to]
  /\ UNCHANGED <<vault_strategy_config, vault_strategy,
                 investor_strategy_position, liquidity, wallet>>

PauseProtocol(a)   == SwitchProtocol(a, "Active", "Paused")
UnpauseProtocol(a) == SwitchProtocol(a, "Paused", "Active")

\* Seeds of the address at which a config was created, and of the address at
\* which pause_vault and unpause_vault look for it.
ConfigSeeds(c) == <<"vault_strategy_config:", CreatorOf[c], c>>
PauseVaultSeeds == <<"vault_strategy_config:">>

SwitchVault(c, from, to) ==
  /\ PauseVaultSeeds = ConfigSeeds(c)
  /\ vault_strategy_config[c].status = from
  /\ vault_strategy_config' = [vault_strategy_config EXCEPT ![c].status = to]
  /\ UNCHANGED <<protocol_config, vault_strategy,
                 investor_strategy_position, liquidity, wallet>>

PauseVault(c)   == SwitchVault(c, "Active", "Paused")
UnpauseVault(c) == SwitchVault(c, "Paused", "Active")

-----------------------------------------------------------------------------
(* instructions/creator                                                    *)

InitVaultStrategyConfig(c, fee) ==
  /\ protocol_config.status = "Active"
  /\ CanInitializeConfig(vault_strategy_config[c], fee)
  /\ vault_strategy_config' =
       [vault_strategy_config EXCEPT ![c] = InitializeConfig(@, fee)]
  /\ UNCHANGED <<protocol_config, vault_strategy,
                 investor_strategy_position, liquidity, wallet>>

\* Raydium, external: below its range a position holds token 0 only, above it
\* token 1 only, and inside it both, at price one in equal amounts.  Liquidity
\* is counted in tokens of a leg.
LegsInUse(range) ==
  CASE range = "below" -> {0} [] range = "inside" -> Legs [] range = "above" -> {1}

LiquidityFromAmounts(range, amount) ==
  CHOOSE n \in {amount[k] : k \in LegsInUse(range)} :
    \A k \in LegsInUse(range) : n <= amount[k]

TokensOf(range, liq) ==
  [k \in Legs |-> IF k \in LegsInUse(range) THEN liq ELSE 0]

\* Mutant: the tokens of a leg are paid twice.
DebitTwice(balances, c, amount) ==
  [m \in Mints |-> IF \E k \in Legs : m = LegMint[c][k]
                     THEN balances[m] - 2 * amount[CHOOSE k \in Legs : m = LegMint[c][k]]
                     ELSE balances[m]]

\* A user's wallet with the tokens of both legs of config c changed.
Debit(balances, c, amount) ==
  [m \in Mints |-> IF \E k \in Legs : m = LegMint[c][k]
                     THEN balances[m] - amount[CHOOSE k \in Legs : m = LegMint[c][k]]
                     ELSE balances[m]]
Credit(balances, c, amount) == Debit(balances, c, [k \in Legs |-> -amount[k]])

\* token_amounts_in_usd at the feed prices, summed: the assets of a position.
AmountAssets(amount_max, price) ==
  SatAdd(amount_max[0] * price[0], amount_max[1] * price[1])

\* create: opens the Raydium position with the creator's tokens, books the
\* maximal amounts as the creator's assets and shares, and adds the strategy
\* to the config.  The protocol's status is not read.
CreateRaydiumVaultStrategy(s, percentage, amount_max, price, range) ==
  LET c      == ConfigOf[s]
      u      == CreatorOf[c]
      v      == vault_strategy[s]
      pos    == investor_strategy_position[u][s]
      liq    == LiquidityFromAmounts(range, amount_max)
      tokens == TokensOf(range, liq)
      assets == AmountAssets(amount_max, price)
      newPos == Deposit(pos, assets, v.total_assets, v.total_shares)
  IN
  /\ vault_strategy_config[c].status = "Draft"
  /\ liq > 0
  /\ \A k \in Legs : wallet[u][LegMint[c][k]] >= tokens[k]
  /\ \A k \in Legs : amount_max[k] * price[k] <= U64_MAX
  /\ CanDeposit(pos, assets, v.total_assets, v.total_shares)
  /\ CanAddStrategy(vault_strategy_config[c], percentage)
  /\ CanInitializeVault(v, assets, newPos.shares, percentage)
  /\ liquidity' = [liquidity EXCEPT ![s] = @ + liq]
  /\ wallet' = [wallet EXCEPT ![u] = Debit(@, c, tokens)]
  /\ investor_strategy_position' =
       [investor_strategy_position EXCEPT ![u][s] = newPos]
  /\ vault_strategy_config' =
       [vault_strategy_config EXCEPT ![c] = AddStrategy(@, s, percentage)]
  /\ vault_strategy' =
       [vault_strategy EXCEPT
          ![s] = InitializeVault(@, assets, newPos.shares, percentage)]
  /\ UNCHANGED protocol_config

\* Mutant: a config is activated before it places all of an investment.
ActivateEarly(c) ==
  /\ protocol_config.status = "Active"
  /\ vault_strategy_config[c].status = "Draft"
  /\ vault_strategy_config[c].strategies # <<>>
  /\ vault_strategy_config' =
       [vault_strategy_config EXCEPT ![c].status = "Active"]
  /\ UNCHANGED <<protocol_config, vault_strategy,
                 investor_strategy_position, liquidity, wallet>>

ActivateVaultStrategyConfig(c) ==
  /\ protocol_config.status = "Active"
  /\ vault_strategy_config[c].status = "Draft"
  /\ vault_strategy_config[c].strategies # <<>>
  /\ TotalPercentage(vault_strategy_config[c]) = MAX_PERCENTAGE
  /\ vault_strategy_config' =
       [vault_strategy_config EXCEPT ![c].status = "Active"]
  /\ UNCHANGED <<protocol_config, vault_strategy,
                 investor_strategy_position, liquidity, wallet>>

-----------------------------------------------------------------------------
\* PauseVault and UnpauseVault are left out: their seeds match no config.
AdminNext ==
  \E a \in Admins :
    \/ \E fees \in ProtocolFees : InitProtocolConfig(a, fees)
    \/ PauseProtocol(a)
    \/ UnpauseProtocol(a)

CreatorNext ==
  \/ \E c \in Configs, fee \in PerformanceFees : InitVaultStrategyConfig(c, fee)
  \/ \E s \in Strategies, percentage \in Percentages,
        amount_max \in [Legs -> CreateAmounts], price \in [Legs -> Prices],
        range \in Ranges :
       CreateRaydiumVaultStrategy(s, percentage, amount_max, price, range)
  \/ \E c \in Configs : ActivateVaultStrategyConfig(c)

CreationNext == AdminNext \/ CreatorNext

CreationSpec == CreationInit /\ [][CreationNext]_creationVars

-----------------------------------------------------------------------------
ConfigType ==
  [status : VaultStrategyStatus, performance_fee : Nat,
   strategies : Seq(Strategies), percentages : Seq(Nat)]
VaultType ==
  [initialized : BOOLEAN, percentage : Nat, total_assets : U64, total_shares : U64]
PositionType == [initialized : BOOLEAN, shares : U64, assets : U64]

\* Every account holds a value of its Rust type.
CreationTypeOK ==
  /\ protocol_config \in [status : {"Unknown", "Active", "Paused"},
                          admin_authority : Admins \cup {NoKey},
                          protocol_fees : Nat]
  /\ vault_strategy_config \in [Configs -> ConfigType]
  /\ vault_strategy \in [Strategies -> VaultType]
  /\ investor_strategy_position \in [Users -> [Strategies -> PositionType]]
  /\ liquidity \in [Strategies -> Nat]
  /\ wallet \in [Users -> [Mints -> Nat]]

\* The strategies of a config never claim more than all of an investment, the
\* limit on their number holds, and the two parallel lists stay aligned
\* (add_strategy checks the sum and the length against what earlier
\* instructions pushed).
AllocationBounded ==
  \A c \in Configs :
    LET cfg == vault_strategy_config[c] IN
    /\ Len(cfg.strategies) <= MAX_NUM_STRATEGIES
    /\ DOMAIN cfg.percentages = DOMAIN cfg.strategies
    /\ TotalPercentage(cfg) <= MAX_PERCENTAGE

\* A config that investors find Active places all of an investment.
ActiveFullyAllocated ==
  \A c \in Configs :
    vault_strategy_config[c].status = "Active" =>
      /\ vault_strategy_config[c].strategies # <<>>
      /\ TotalPercentage(vault_strategy_config[c]) = MAX_PERCENTAGE

\* Two accounts describe a strategy's share: the config's list, which
\* activation checks, and the strategy's own percentage, which swap_to_ratio
\* applies.  They agree, and a strategy is listed exactly once, in the config
\* of its seeds, from the moment it exists.
RegistryAgrees ==
  /\ \A c \in Configs :
       LET cfg == vault_strategy_config[c] IN
       /\ \A n \in DOMAIN cfg.strategies :
            LET s == cfg.strategies[n] IN
            /\ ConfigOf[s] = c
            /\ vault_strategy[s].initialized
            /\ vault_strategy[s].percentage = cfg.percentages[n]
       /\ \A m, n \in DOMAIN cfg.strategies :
            cfg.strategies[m] = cfg.strategies[n] => m = n
  /\ \A s \in Strategies :
       vault_strategy[s].initialized =>
         \E n \in DOMAIN vault_strategy_config[ConfigOf[s]].strategies :
           vault_strategy_config[ConfigOf[s]].strategies[n] = s

\* An investment of any size divides among the strategies of a config: their
\* parts, each rounded down on its own, never exceed it, and once the config
\* is Active less than one unit per strategy is left over, as long as the
\* product that swap_to_ratio saturates fits a u64.
InvestmentDivides ==
  \A c \in Configs, amount \in U64 :
    LET cfg    == vault_strategy_config[c]
        placed == SumOver(DOMAIN cfg.percentages,
                    [n \in DOMAIN cfg.percentages |->
                       UsdcAmount(amount, cfg.percentages[n])])
    IN /\ placed <= amount
       /\ (cfg.status = "Active" /\ amount * MAX_PERCENTAGE <= U64_MAX) =>
            amount - placed < Len(cfg.strategies)

\* From Active on, a config's strategies, percentages and fee are what the
\* investors saw, whatever the creator sends and however often the admin
\* pauses the protocol; and no config is ever initialized again.
ActiveConfigFrozen ==
  [][\A c \in Configs :
       /\ vault_strategy_config[c].status = "Active" =>
            vault_strategy_config'[c] = vault_strategy_config[c]
       /\ vault_strategy_config[c].status = "Draft" =>
            /\ vault_strategy_config'[c].performance_fee
                 = vault_strategy_config[c].performance_fee
            /\ \A n \in DOMAIN vault_strategy_config[c].strategies :
                 /\ n \in DOMAIN vault_strategy_config'[c].strategies
                 /\ vault_strategy_config'[c].strategies[n]
                      = vault_strategy_config[c].strategies[n]]_creationVars
==============================================================================
