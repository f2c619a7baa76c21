-------------------------- MODULE ClientTransactions --------------------------
(***************************************************************************)
(* The client's functions (src/app/web) as senders of transactions to the  *)
(* program.  A function builds instructions from what it derives and what  *)
(* Anchor resolves; the program takes an instruction for what its first    *)
(* byte says, checks the accounts by position, and runs the handler, an    *)
(* action of TokenizedVaults.                                              *)
(*                                                                         *)
(* The instructions of a transaction are executed one by one with nothing  *)
(* of another transaction between them.  If one of them fails, or the      *)
(* network drops the transaction, all its effects are undone.              *)
(***************************************************************************)
EXTENDS TokenizedVaults, ClientAddresses

CONSTANTS
  StrategyId,     \* strategy -> its id, an argument of create
  TickRanges,     \* <<lower, upper>>: the ranges a creator asks for
  MAX_SESSIONS    \* bound: processes that run the client one after another

\* A strategy is one account of the program: its config and its id, a u8, are
\* seeds of its address.
ASSUME ClientAssumption ==
  /\ Configs \cap Strategies = {} /\ NoKey \notin Strategies
  /\ \A s \in Strategies : StrategyId[s] \in 0..255
  /\ \A s, t \in Strategies :
       ConfigOf[s] = ConfigOf[t] /\ StrategyId[s] = StrategyId[t] => s = t

VARIABLES
  tx,             \* the transaction being executed
  nft_key,        \* RAYDIUM_POSITION_NFT of the running client process
  raydium_position   \* strategy -> NFT and ticks of its Raydium position

clientVars == <<vars, tx, nft_key, raydium_position>>

NoTx == [call |-> "none"]
NotOpened == [nft |-> 0, lower |-> 0, upper |-> 0]

ClientInit ==
  /\ Init
  /\ tx = NoTx
  /\ nft_key = 1
  /\ raydium_position = [s \in Strategies |-> NotOpened]

-----------------------------------------------------------------------------
(* Where the accounts of the model live.                                   *)

ConfigAddress(c) == VaultsAddress("vault_strategy_config:", <<Key(CreatorOf[c]), Key(c)>>)
StrategyAddress(s) ==
  VaultsAddress("vlt_strtg:", <<ConfigAddress(ConfigOf[s]), Key(LegMint[ConfigOf[s]][0]),
                                Key(LegMint[ConfigOf[s]][1]), u8ToBytes(StrategyId[s])>>)
NftAccount(c, nft) == AssociatedAddress(ConfigAddress(c), Key("tokenProgram2022"), Key(nft))

\* Raydium, external: the accounts it requires for the position of strategy s.
RaydiumAccounts(s, position) ==
  LET legs == LegMint[ConfigOf[s]]
      pool == ClmmAddress("pool", <<raydiumAmmConfig, Key(legs[0]), Key(legs[1])>>)
  IN [raydiumPoolState |-> pool,
      raydiumPersonalPosition |-> personalPosition(Key(position.nft)),
      raydiumPositionNftAccount |-> NftAccount(ConfigOf[s], position.nft),
      raydiumProtocolPosition |->
        ClmmAddress("position", <<pool, i32ToBytes(position.lower), i32ToBytes(position.upper)>>),
      raydiumTickArrayLower |-> getTickArrayAddressByTick(pool, position.lower),
      raydiumTickArrayUpper |-> getTickArrayAddressByTick(pool, position.upper),
      raydiumTokenVault0 |-> PoolVault(pool, legs[0]),
      raydiumTokenVault1 |-> PoolVault(pool, legs[1])]

\* An instruction names the accounts Raydium requires.
FitsRaydium(accounts, s, position) ==
  LET required == RaydiumAccounts(s, position)
  IN \A n \in DOMAIN required \cap DOMAIN accounts : accounts[n] = required[n]

-----------------------------------------------------------------------------
(* The client's functions: the instructions they put into a transaction.   *)

depositToEscrowTx(investor, amount) ==
  <<Instruction("depositToEscrow", {Key(investor)},
      [investor |-> Key(investor), usdcMint |-> Key(getTokens.USDC)],
      [amount |-> amount * LAMPORTS_PER_USDC], <<>>)>>

\* No function of the client wraps it: program.methods.withdrawFromEscrow.
withdrawFromEscrow(investor, amount) ==
  <<Instruction("withdrawFromEscrow", {Key(investor)},
      [investor |-> Key(investor), usdcMint |-> Key(getTokens.USDC)],
      [amount |-> amount * LAMPORTS_PER_USDC], <<>>)>>

createVaultStrategyConfigTx(c, performanceFee) ==
  <<Instruction("initVaultStrategyConfig", {Key(CreatorOf[c])},
      [creator |-> Key(CreatorOf[c]), usdcMint |-> Key(getTokens.USDC)],
      [name |-> Key(c), performanceFee |-> performanceFee, vaultStrategyType |-> 1], <<>>)>>

\* The creator's token accounts are derived by hand, with the classic token
\* program; the NFT is the one the process made when it started.
createRaydiumStrategyTx(s, percentage, amount_max, ticks) ==
  LET c       == ConfigOf[s]
      creator == Key(CreatorOf[c])
      nft     == Key(nft_key)
      r == raydiumPDAs(nft, ticks[1], ticks[2], getTokens.token0, getTokens.token1)
      p == protocolPDAs(creator, creator, Key(c), StrategyId[s],
                        getTokens.token0, getTokens.token1)
      TokenAccount(mint) == AssociatedAddress(creator, Key("tokenProgram"), Key(mint))
  IN <<Instruction("createRaydiumVaultStrategy", {creator, nft},
         [creator |-> creator, vaultStrategyConfig |-> p.vaultStrategyConfig,
          raydiumPositionNftMint |-> nft,
          raydiumPositionNftAccount |->
            AssociatedAddress(p.vaultStrategyConfig, Key("tokenProgram2022"), nft),
          raydiumPoolState |-> r.poolStateMint0WithMint1,
          raydiumProtocolPosition |-> r.protocolPosition,
          raydiumTickArrayLower |-> r.tickLowerArrayAddress,
          raydiumTickArrayUpper |-> r.tickUpperArrayAddress,
          raydiumPersonalPosition |-> r.personalPosition,
          raydiumTokenAccount0 |-> TokenAccount(r.mint0),
          raydiumTokenAccount1 |-> TokenAccount(r.mint1),
          raydiumTokenVault0 |-> r.openPositionTokenVault0,
          raydiumTokenVault1 |-> r.openPositionTokenVault1,
          raydiumVault0Mint |-> Key(r.mint0), raydiumVault1Mint |-> Key(r.mint1),
          pythToken0PriceUpdate |-> Key("solFeed"), pythToken1PriceUpdate |-> Key("usdcFeed")],
         [strategyId |-> u8ToBytes(StrategyId[s]), percentage |-> percentage,
          amount0Max |-> amount_max[0], amount1Max |-> amount_max[1],
          tickLowerIndex |-> ticks[1], tickUpperIndex |-> ticks[2],
          tickArrayLowerStartIndex |-> r.tickArrayLowerStartIndex,
          tickArrayUpperStartIndex |-> r.tickArrayUpperStartIndex,
          token0FeedId |-> "solFeed", token1FeedId |-> "usdcFeed", lookUpTable |-> "table"],
         <<r.bitmapExtMint0WithMint1>>)>>

\* Mutant: the bounds of the default range are swapped.
FetchedPDAsSwapped == raydiumPDAs(Key("freshKeypair"), DEFAULT_TICK_UPPER, DEFAULT_TICK_LOWER,
                                  getTokens.token0, getTokens.token1)

\* What add and remove read from the strategy's account and derive.  They ask
\* raydiumPDAs for no ticks, and so get those of the default range.
FetchedPDAs == raydiumPDAs(Key("freshKeypair"), DEFAULT_TICK_LOWER, DEFAULT_TICK_UPPER,
                           getTokens.token0, getTokens.token1)
LiquidityGiven(investor, s) ==
  LET r   == FetchedPDAs
      nft == Key(raydium_position[s].nft)
      config == ConfigAddress(ConfigOf[s])
  IN [investor |-> Key(investor), vaultStrategyConfig |-> config,
      raydiumPositionNftAccount |-> AssociatedAddress(config, Key("tokenProgram2022"), nft),
      raydiumPoolState |-> r.poolStateMint0WithMint1,
      raydiumPersonalPosition |-> personalPosition(nft),
      raydiumProtocolPosition |-> r.protocolPosition,
      raydiumTickArrayLower |-> r.tickLowerArrayAddress,
      raydiumTickArrayUpper |-> r.tickUpperArrayAddress,
      raydiumTokenVault0 |-> r.openPositionTokenVault0,
      raydiumTokenVault1 |-> r.openPositionTokenVault1,
      raydiumVault0Mint |-> Key(r.mint0), raydiumVault1Mint |-> Key(r.mint1)]

investReserveIx(investor, s, amount) ==
  Instruction("investReserve", {Key(investor)},
    [investor |-> Key(investor), vaultStrategyConfig |-> ConfigAddress(ConfigOf[s]),
     usdcMint |-> Key(getTokens.USDC)],
    [amount |-> amount * LAMPORTS_PER_USDC], <<>>)

swapToRatioIx(investor, s) ==
  LET r == FetchedPDAs
  IN Instruction("swapToRatioRaydiumVaultStrategy", {Key(investor)}, AndMore(
       [raydiumAmmConfigUsdcForToken0 |-> raydiumAmmConfig,
        raydiumPoolStateUsdcForToken0 |-> r.poolStateUSDCWithMint0,
        raydiumAmmConfigUsdcForToken1 |-> raydiumAmmConfig,
        raydiumPoolStateUsdcForToken1 |-> r.poolStateUSDCWithMint1,
        raydiumVault0Input |-> r.usdcWithMint0VaultInput,
        raydiumVault1Input |-> r.usdcWithMint1VaultInput,
        raydiumVault0Output |-> r.usdcWithMint0VaultOutput,
        raydiumVault1Output |-> r.usdcWithMint1VaultOutput,
        usdcMint |-> Key(getTokens.USDC),
        raydiumObservationState0 |-> ObservationOf(r.poolStateUSDCWithMint0),
        raydiumObservationState1 |-> ObservationOf(r.poolStateUSDCWithMint1)],
       LiquidityGiven(investor, s)),
       [strategyId |-> u8ToBytes(StrategyId[s]), token0AmountOutMin |-> 0,
        token1AmountOutMin |-> 0],
       <<r.bitmapExtUSDCWithMint0, Key("systemProgram"), r.bitmapExtUSDCWithMint1>>)

addLiquidityIx(investor, s) ==
  Instruction("addLiquidityRaydiumVaultStrategy", {Key(investor)},
    LiquidityGiven(investor, s), [strategyId |-> u8ToBytes(StrategyId[s])],
    <<FetchedPDAs.bitmapExtMint0WithMint1>>)

\* Mutant: the liquidity is left for a later transaction to add.
addLiquidityTxSplit(investor, s, amount) ==
  <<investReserveIx(investor, s, amount), swapToRatioIx(investor, s)>>

\* The whole amount is reserved, and one strategy's part of it invested.
addLiquidityRaydiumStrategyTx(investor, s, amount) ==
  <<investReserveIx(investor, s, amount), swapToRatioIx(investor, s),
    addLiquidityIx(investor, s)>>

removeLiquidityRaydiumStrategyTx(investor, s, percentage) ==
  <<Instruction("removeLiquidityRaydiumVaultStrategy", {Key(investor)},
      LiquidityGiven(investor, s),
      [strategyId |-> u8ToBytes(StrategyId[s]),
       percentage |-> percentage * DENOMINATOR_MULTIPLIER, amount0Min |-> 0, amount1Min |-> 0],
      <<FetchedPDAs.bitmapExtMint0WithMint1>>)>>

\* No function of the client either: the admin's methods.
adminMethod(a, method, fees) ==
  <<Instruction(method, {Key(a)}, [adminAuthority |-> Key(a)], [protocolFees |-> fees], <<>>)>>

-----------------------------------------------------------------------------
(* The program, reached through the dispatch of lib.rs.                    *)

HandleAdmin(handler, a, g) ==
  /\ \E x \in Admins :
       /\ a.adminAuthority = Key(x)
       /\ \/ handler = "initProtocolConfig" /\ InitProtocolConfig(x, g.protocolFees)
          \/ handler = "pauseProtocol" /\ PauseProtocol(x)
          \/ handler = "unpauseProtocol" /\ UnpauseProtocol(x)
  /\ UNCHANGED <<investVars, raydium_position>>

HandleInitVault(a, g) ==
  /\ \E c \in Configs : /\ a.vaultStrategyConfig = ConfigAddress(c)
                        /\ InitVaultStrategyConfig(c, g.performanceFee)
  /\ UNCHANGED <<investVars, raydium_position>>

\* Raydium initializes the NFT's mint, which must not exist yet.
HandleCreate(a, g) ==
  \E s \in Strategies, price \in [Legs -> Prices], range \in Ranges :
    LET position == [nft |-> a.raydiumPositionNftMint[1],
                     lower |-> g.tickLowerIndex, upper |-> g.tickUpperIndex]
    IN /\ a.vaultStrategy = StrategyAddress(s)
       /\ a.creator = Key(CreatorOf[ConfigOf[s]])
       /\ \A t \in Strategies : raydium_position[t].nft # position.nft
       /\ FitsRaydium(a, s, position)
       /\ CreateRaydiumVaultStrategy(s, g.percentage,
            [k \in Legs |-> IF k = 0 THEN g.amount0Max ELSE g.amount1Max], price, range)
       /\ raydium_position' = [raydium_position EXCEPT ![s] = position]
       /\ UNCHANGED investVars

HandleEscrow(handler, a, g) ==
  /\ \E u \in Users :
       /\ a.investor = Key(u)
       /\ \/ handler = "depositToEscrow" /\ DepositToEscrow(u, g.amount)
          \/ handler = "withdrawFromEscrow" /\ WithdrawFromEscrow(u, g.amount)
          \/ handler = "investReserve" /\ \E c \in Configs :
               /\ a.vaultStrategyConfig = ConfigAddress(c)
               /\ InvestReserve(u, c, g.amount)
  /\ UNCHANGED raydium_position

HandleLiquidity(handler, a, g) ==
  /\ \E u \in Users, s \in Strategies, range \in Ranges :
       /\ a.investor = Key(u)
       /\ a.vaultStrategy = StrategyAddress(s)
       /\ FitsRaydium(a, s, raydium_position[s])
       /\ \/ /\ handler = "swapToRatioRaydiumVaultStrategy"
             /\ \E split \in Splits, slippage \in Slippages :
                  SwapToRatio(u, s, range, split, slippage)
          \/ /\ handler = "addLiquidityRaydiumVaultStrategy"
             /\ AddLiquidity(u, s, range)
          \/ /\ handler = "removeLiquidityRaydiumVaultStrategy"
             /\ RemoveLiquidity(u, s, g.percentage, range)
  /\ UNCHANGED raydium_position

\* pause_vault and unpause_vault, whose seeds match no config, and activate,
\* which the committed description does not have, are left out: nothing the
\* client sends is accepted by them.
Handle(ix) ==
  LET handler == HandlerAt(ix.discriminator)
      a == ReceivedAccounts(ix)
      g == ReceivedArgs(ix)
  IN
  CASE handler \in {"initProtocolConfig", "pauseProtocol", "unpauseProtocol"} ->
         HandleAdmin(handler, a, g)
    [] handler = "initVaultStrategyConfig" -> HandleInitVault(a, g)
    [] handler = "createRaydiumVaultStrategy" -> HandleCreate(a, g)
    [] handler \in {"depositToEscrow", "withdrawFromEscrow", "investReserve"} ->
         HandleEscrow(handler, a, g)
    [] OTHER -> HandleLiquidity(handler, a, g)

-----------------------------------------------------------------------------
(* Transactions.                                                           *)

\* A function has returned its transaction and the wallet has signed it.
Submit(u, call, about, queue) ==
  /\ tx = NoTx
  /\ tx' = [call |-> call, user |-> u, about |-> about, queue |-> queue,
            before |-> [vars |-> vars, position |-> raydium_position]]
  /\ UNCHANGED <<vars, nft_key, raydium_position>>

SubmitAdmin ==
  \E a \in Admins :
    \/ \E fees \in ProtocolFees :
         Submit(a, "admin", NoKey, adminMethod(a, "initProtocolConfig", fees))
    \/ \E method \in {"pauseProtocol", "unpauseProtocol"} :
         Submit(a, "admin", NoKey, adminMethod(a, method, 0))

SubmitCreator ==
  \/ \E c \in Configs, fee \in PerformanceFees :
       Submit(CreatorOf[c], "createVaultStrategyConfigTx", c,
              createVaultStrategyConfigTx(c, fee))
  \/ \E s \in Strategies, percentage \in Percentages,
        amount_max \in [Legs -> CreateAmounts], ticks \in TickRanges :
       Submit(CreatorOf[ConfigOf[s]], "createRaydiumStrategyTx", s,
              createRaydiumStrategyTx(s, percentage, amount_max, ticks))

\* Add and remove read the strategy's account first and throw without it.
SubmitInvestor ==
  \E u \in Users :
    \/ \E amount \in Amounts :
         \/ Submit(u, "depositToEscrowTx", NoKey, depositToEscrowTx(u, amount))
         \/ Submit(u, "withdrawFromEscrow", NoKey, withdrawFromEscrow(u, amount))
    \/ \E s \in Strategies :
         /\ vault_strategy[s].initialized
         /\ \/ \E amount \in Amounts :
                 Submit(u, "addLiquidityRaydiumStrategyTx", s,
                        addLiquidityRaydiumStrategyTx(u, s, amount))
            \/ \E percentage \in RemovePercentages :
                 Submit(u, "removeLiquidityRaydiumStrategyTx", s,
                        removeLiquidityRaydiumStrategyTx(u, s, percentage))

\* The next instruction succeeds; with the last one the transaction commits.
Execute ==
  /\ tx # NoTx
  /\ Accepted(Head(tx.queue))
  /\ Handle(Head(tx.queue))
  /\ tx' = IF Len(tx.queue) = 1 THEN NoTx ELSE [tx EXCEPT !.queue = Tail(@)]
  /\ UNCHANGED nft_key

\* An instruction fails, or the transaction is never executed: slippage, an
\* expired blockhash, a spent compute budget.  Nothing of it remains.
Drop ==
  /\ tx # NoTx
  /\ LET created == tx.before.vars[1]
         invested == tx.before.vars[2]
     IN /\ protocol_config' = created[1] /\ vault_strategy_config' = created[2]
        /\ vault_strategy' = created[3] /\ investor_strategy_position' = created[4]
        /\ liquidity' = created[5] /\ wallet' = created[6]
        /\ escrow' = invested[1] /\ usdc_escrow' = invested[2]
        /\ mint_escrow' = invested[3] /\ reserve' = invested[4]
        /\ fees_owed' = invested[5] /\ fees_escrow' = invested[6]
        /\ perf_escrow' = invested[7]
  /\ raydium_position' = tx.before.position
  /\ tx' = NoTx
  /\ UNCHANGED nft_key

\* The module create-raydium-strategy.ts makes its key pair when it is loaded.
Restart ==
  /\ nft_key < MAX_SESSIONS
  /\ nft_key' = nft_key + 1
  /\ UNCHANGED <<vars, tx, raydium_position>>

\* Activation is sent by other means than this client, as the tests do; and the
\* pools trade.
Others ==
  /\ tx = NoTx
  /\ \/ /\ \E c \in Configs : ActivateVaultStrategyConfig(c)
        /\ UNCHANGED investVars
     \/ PoolNext
  /\ UNCHANGED <<tx, nft_key, raydium_position>>

ClientNext ==
  \/ SubmitAdmin \/ SubmitCreator \/ SubmitInvestor
  \/ Execute \/ Drop \/ Restart \/ Others

ClientSpec == ClientInit /\ [][ClientNext]_clientVars

-----------------------------------------------------------------------------
(* What others see: the state before the transaction under way.            *)

Committed(now, before(_)) == IF tx = NoTx THEN now ELSE before(tx.before.vars)
CommittedEscrow   == Committed(escrow, LAMBDA b : b[2][1])
CommittedReserve  == Committed(reserve, LAMBDA b : b[2][4])
CommittedUsdc     == Committed(usdc_escrow, LAMBDA b : b[2][2])
CommittedPosition == Committed(investor_strategy_position, LAMBDA b : b[1][4])

\* All or nothing: seen between transactions, what the client does to an
\* investor's USDC is what InvestmentLedger allows, though the program does it
\* in three instructions that each could be sent alone.
Ledger ==
  INSTANCE InvestmentLedger WITH
    escrow <- CommittedEscrow,
    left <- CommittedUsdc,
    assets <- [u \in Users |-> [s \in Strategies |-> CommittedPosition[u][s].assets]]
LedgerSpec == Ledger!LedgerSpec

\* The program allows a swap to wait for its add_liquidity for ever, and to be
\* lost when the reserve is overwritten.  Between the client's transactions no
\* swap waits: every invested reserve has all its swaps executed.
NoSwapBetweenTransactions ==
  \A u \in Users, c \in Configs :
    LET swaps == CommittedReserve[u][c].swap_to_ratio_vaults
    IN \A i \in DOMAIN swaps : swaps[i].executed

\* A handler writes each of its derived accounts back when it ends: no two of
\* the accounts of an instruction may be one, or the later write would undo the
\* earlier.
DerivedAccountsDistinct ==
  tx # NoTx =>
    \A n \in DOMAIN tx.queue :
      LET ix == tx.queue[n]
          declared == Expected(HandlerAt(ix.discriminator)).accounts
          derived == {i \in DOMAIN declared \cap DOMAIN ix.accounts :
                        declared[i].kind \in {"pda", "ata"}}
      IN \A i, j \in derived : ix.accounts[i] = ix.accounts[j] => i = j

\* The client derives the accounts of a strategy twice, by protocolPDAs for its
\* callers and its lookup tables, and through the interface description for the
\* instruction.  They are the same accounts, in whatever order the two mints
\* are given.
ClientAgreesWithIdl ==
  (tx # NoTx /\ tx.about \in Strategies) =>
    LET s == tx.about
        pdas == protocolPDAs(Key(CreatorOf[ConfigOf[s]]), Key(tx.user), Key(ConfigOf[s]),
                             StrategyId[s], getTokens.token0, getTokens.token1)
    IN \A n \in DOMAIN tx.queue :
         LET a == ReceivedAccounts(tx.queue[n])
         IN \A name \in DOMAIN pdas \cap DOMAIN a : pdas[name] = a[name]

\* A strategy that was opened with the default range can be added to and
\* removed from: the client rebuilds, from the strategy's account alone, all
\* that Raydium requires.
DefaultRangeServiceable ==
  \A u \in Users, s \in Strategies :
    LET p == raydium_position[s]
    IN (p.lower = DEFAULT_TICK_LOWER /\ p.upper = DEFAULT_TICK_UPPER) =>
         FitsRaydium(LiquidityGiven(u, s), s, p)

\* An escrow is filled by deposits only, and emptied by withdrawals and
\* investments only.
EscrowMovesAsAsked ==
  [][\A u \in Users :
       /\ CommittedEscrow'[u] > CommittedEscrow[u] =>
            tx.call = "depositToEscrowTx" /\ tx.user = u
       /\ CommittedEscrow'[u] < CommittedEscrow[u] =>
            /\ tx.call \in {"withdrawFromEscrow", "addLiquidityRaydiumStrategyTx"}
            /\ tx.user = u]_clientVars
==============================================================================
