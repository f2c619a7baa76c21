---------------------------- MODULE ClientAddresses ----------------------------
(***************************************************************************)
(* How the client derives addresses by itself (protocol-pdas.ts,           *)
(* raydium-helpers.ts, utils.ts, web/tokens), apart from what Anchor       *)
(* derives from the interface description.  The two networks differ in     *)
(* constant keys only; a model is of one of them.                          *)
(***************************************************************************)
EXTENDS TokenizedVaultsIdl

CONSTANTS
  UsdcMint, Token0Mint, Token1Mint,   \* what getTokens returns
  MintOrder,                          \* mint -> its place in the order of the keys' bytes
  DEFAULT_TICK_LOWER, DEFAULT_TICK_UPPER,   \* -194221 and 7940 in the code
  TICKS_PER_ARRAY,                    \* ticks of a tick array times the tick spacing
  LAMPORTS_PER_USDC                   \* units of the mint in a USDC, 1e6

ASSUME ClientAddressAssumption ==
  /\ DEFAULT_TICK_LOWER \in Int /\ DEFAULT_TICK_UPPER \in Int
  /\ DEFAULT_TICK_LOWER < DEFAULT_TICK_UPPER
  /\ TICKS_PER_ARRAY \in Nat \ {0} /\ LAMPORTS_PER_USDC \in Nat \ {0}
  /\ \A m \in {UsdcMint, Token0Mint, Token1Mint} : MintOrder[m] \in Nat
  /\ Token0Mint # Token1Mint

-----------------------------------------------------------------------------
(* utils.ts                                                                *)

ClmmAddress(prefix, seeds) == ProgramAddress("raydiumClmmProgram", prefix, seeds)

u8ToBytes(n)  == <<n % 256>>
\* Four bytes, the most significant first, of the two's complement.
i32ToBytes(n) == <<(n \div 16777216) % 256, (n \div 65536) % 256, (n \div 256) % 256, n % 256>>

getNftMetadataAddress(nft) ==
  ProgramAddress("metadataProgram", "metadata", <<Key("metadataProgram"), nft>>)
getTickArrayBitmapAddress(pool) ==
  ClmmAddress("pool_tick_array_bitmap_extension", <<pool>>)

getTokens == [USDC |-> UsdcMint, token0 |-> Token0Mint, token1 |-> Token1Mint]

\* Both files sort the two mints by their bytes before they derive anything.
SortedMints(mint0, mint1) ==
  IF MintOrder[mint0] <= MintOrder[mint1] THEN <<mint0, mint1>> ELSE <<mint1, mint0>>

-----------------------------------------------------------------------------
(* protocol-pdas.ts                                                        *)

\* Mutant: the seeds are not those of the interface description.
VaultStrategyAddressIdFirst(config, mints, id) ==
  VaultsAddress("vlt_strtg:", <<config, id, Key(mints[1]), Key(mints[2])>>)

VaultStrategyAddress(config, mints, id) ==
  VaultsAddress("vlt_strtg:", <<config, Key(mints[1]), Key(mints[2]), id>>)

protocolPDAs(strategyCreator, investor, strategyConfigName, strategyId, mint0, mint1) ==
  LET mints  == SortedMints(mint0, mint1)
      config == VaultsAddress("vault_strategy_config:", <<strategyCreator, strategyConfigName>>)
      vault  == VaultStrategyAddress(config, mints, u8ToBytes(strategyId))
      OfConfig(prefix) == VaultsAddress(prefix, <<config>>)
  IN [mint0 |-> mints[1], mint1 |-> mints[2],
      protocolConfig |-> VaultsAddress("protocol_config:", <<>>),
      vaultStrategyConfig |-> config,
      vaultStrategy |-> vault,
      investReserveVault |-> VaultsAddress("invest_reserve_vault:", <<investor, config>>),
      investorStrategyPosition |-> VaultsAddress("inv_strtg_pos:", <<vault, investor>>),
      vaultStrategyCfgUsdcEscrow |-> OfConfig("vlt_strategy_cfg_usdc_escrow:"),
      vaultStrategyCfgMint0Escrow |-> OfConfig("vlt_swap_ratio_0_escrow:"),
      vaultStrategyCfgMint1Escrow |-> OfConfig("vlt_swap_ratio_1_escrow:"),
      vaultStrategyCfgMint0FeesEscrow |-> OfConfig("vlt_fees_0_escrow:"),
      vaultStrategyCfgMint1FeesEscrow |-> OfConfig("vlt_fees_1_escrow:"),
      vaultStrategyCfgMint0PerfFeesEscrow |-> OfConfig("vlt_perf_fees_0_escrow:"),
      vaultStrategyCfgMint1PerfFeesEscrow |-> OfConfig("vlt_perf_fees_1_escrow:")]

-----------------------------------------------------------------------------
(* raydium-helpers.ts                                                      *)

raydiumAmmConfig == Key("ammConfig")

raydiumPools(mint0, mint1) ==
  LET mints == SortedMints(mint0, mint1)
  IN ClmmAddress("pool", <<raydiumAmmConfig, Key(mints[1]), Key(mints[2])>>)

PoolVault(pool, mint) == ClmmAddress("pool_vault", <<pool, Key(mint)>>)

raydiumTokenVaults(_mint0, _mint1) ==
  LET mints == SortedMints(_mint0, _mint1)
      pool  == raydiumPools(_mint0, _mint1)
      UsdcPool(k) == raydiumPools(getTokens.USDC, mints[k])
  IN [usdcWithMint0VaultInput  |-> PoolVault(UsdcPool(1), getTokens.USDC),
      usdcWithMint1VaultInput  |-> PoolVault(UsdcPool(2), getTokens.USDC),
      usdcWithMint0VaultOutput |-> PoolVault(UsdcPool(1), mints[1]),
      usdcWithMint1VaultOutput |-> PoolVault(UsdcPool(2), mints[2]),
      openPositionTokenVault0  |-> PoolVault(pool, mints[1]),
      openPositionTokenVault1  |-> PoolVault(pool, mints[2])]

\* The SDK's TickUtils, external: the array that holds a tick starts at the
\* greatest multiple of its size that is not above the tick.
getTickArrayStartIndexByTick(tick) == (tick \div TICKS_PER_ARRAY) * TICKS_PER_ARRAY
getTickArrayAddressByTick(pool, tick) ==
  ClmmAddress("tick_array", <<pool, i32ToBytes(getTickArrayStartIndexByTick(tick))>>)

protocolPosition(pool, tickLower, tickUpper) ==
  ClmmAddress("position", <<pool, i32ToBytes(tickLower), i32ToBytes(tickUpper)>>)
personalPosition(nft) == ClmmAddress("position", <<nft>>)

raydiumPDAs(nft, tickLower, tickUpper, _mint0, _mint1) ==
  LET mints == SortedMints(_mint0, _mint1)
      pool  == raydiumPools(_mint0, _mint1)
      UsdcPool(k) == raydiumPools(getTokens.USDC, mints[k])
  IN AndMore(
     [mint0 |-> mints[1], mint1 |-> mints[2],
      poolStateUSDCWithMint0 |-> UsdcPool(1),
      poolStateUSDCWithMint1 |-> UsdcPool(2),
      poolStateMint0WithMint1 |-> pool,
      tickLowerArrayAddress |-> getTickArrayAddressByTick(pool, tickLower),
      tickUpperArrayAddress |-> getTickArrayAddressByTick(pool, tickUpper),
      tickArrayLowerStartIndex |-> getTickArrayStartIndexByTick(tickLower),
      tickArrayUpperStartIndex |-> getTickArrayStartIndexByTick(tickUpper),
      bitmapExtMint0WithMint1 |-> getTickArrayBitmapAddress(pool),
      bitmapExtUSDCWithMint0 |-> getTickArrayBitmapAddress(UsdcPool(1)),
      bitmapExtUSDCWithMint1 |-> getTickArrayBitmapAddress(UsdcPool(2)),
      personalPosition |-> personalPosition(nft),
      protocolPosition |-> protocolPosition(pool, tickLower, tickUpper),
      metadataAccount |-> getNftMetadataAddress(nft)],
     raydiumTokenVaults(_mint0, _mint1))

\* The pool's own record of its observation account, read over RPC.
ObservationOf(pool) == ClmmAddress("observation", <<pool>>)
observationIds(_mint0, _mint1) ==
  LET mints == SortedMints(_mint0, _mint1)
  IN [observationIdMint0WithMint1 |-> ObservationOf(raydiumPools(_mint0, _mint1)),
      observationIdWSolWithMint0 |-> ObservationOf(raydiumPools(getTokens.USDC, mints[1])),
      observationIdWSolWithMint1 |-> ObservationOf(raydiumPools(getTokens.USDC, mints[2]))]
==============================================================================
