-------------------------- MODULE TokenizedVaultsIdl --------------------------
(***************************************************************************)
(* The interface description the client is built on (src/app/web/idl).  It *)
(* names, for each instruction, the byte it is sent with, the accounts in  *)
(* their order, and its arguments.  An account is given by the caller,     *)
(* fixed, or derived from accounts and arguments of the same instruction.  *)
(* Anchor's client library, which is external, fills in what the caller    *)
(* does not give; the program finds an account by its position alone.      *)
(*                                                                         *)
(* Addresses are terms: a hash of a program, a prefix and seeds is the     *)
(* tuple of these, so that two derivations are equal exactly when their    *)
(* inputs are.  Writability, types, events and error texts are left out.   *)
(***************************************************************************)
EXTENDS Integers, Sequences, SequencesExt

CONSTANT
  IdlIsCommitted   \* the file in the repository, or one built from the program

ASSUME IdlAssumption == IdlIsCommitted \in BOOLEAN

-----------------------------------------------------------------------------
(* Addresses, and declarations of accounts.                                *)

Key(k) == <<k>>
NoPrefix == "none"
ProgramAddress(program, prefix, seeds) == <<program, prefix>> \o seeds
VaultsAddress(prefix, seeds) == ProgramAddress("tokenizedVaults", prefix, seeds)
AssociatedAddress(owner, token_program, mint) ==
  ProgramAddress("associatedTokenProgram", NoPrefix, <<owner, token_program, mint>>)

Account(kind, name, prefix, seeds) ==
  [kind |-> kind, name |-> name, prefix |-> prefix, seeds |-> seeds]
Given(name)  == Account("given", name, NoPrefix, <<>>)
Signer(name) == Account("signer", name, NoPrefix, <<>>)
Fixed(name)  == Account("fixed", name, NoPrefix, <<>>)
Pda(name, prefix, seeds) == Account("pda", name, prefix, seeds)
Ata(name, owner, mint)   == Account("ata", name, NoPrefix, <<owner, "tokenProgram", mint>>)

GivenAll(names) == [i \in DOMAIN names |-> Given(names[i])]
FixedAll(names) == [i \in DOMAIN names |-> Fixed(names[i])]

-----------------------------------------------------------------------------
(* The accounts of each instruction, in order.                             *)

ProtocolConfigPda == Pda("protocolConfig", "protocol_config:", <<>>)
UsdcEscrowPda ==
  Pda("vaultStrategyCfgUsdcEscrow", "vlt_strategy_cfg_usdc_escrow:",
      <<"vaultStrategyConfig">>)
EscrowVaultPda == Pda("escrowVault", "escrow_vault:", <<"investor">>)
ReservePda ==
  Pda("investReserveVault", "invest_reserve_vault:",
      <<"investor", "vaultStrategyConfig">>)
VaultStrategyPda ==
  Pda("vaultStrategy", "vlt_strtg:",
      <<"vaultStrategyConfig", "raydiumVault0Mint", "raydiumVault1Mint", "strategyId">>)
PositionPda(holder) ==
  Pda("investorStrategyPosition", "inv_strtg_pos:", <<"vaultStrategy", holder>>)

\* Mutant: both legs are kept in one escrow.
SwapEscrowPdasShared ==
  <<Pda("vaultStrategyCfgMint0Escrow", "vlt_swap_ratio_0_escrow:", <<"vaultStrategyConfig">>),
    Pda("vaultStrategyCfgMint1Escrow", "vlt_swap_ratio_0_escrow:", <<"vaultStrategyConfig">>)>>

SwapEscrowPdas ==
  <<Pda("vaultStrategyCfgMint0Escrow", "vlt_swap_ratio_0_escrow:", <<"vaultStrategyConfig">>),
    Pda("vaultStrategyCfgMint1Escrow", "vlt_swap_ratio_1_escrow:", <<"vaultStrategyConfig">>)>>

FeesEscrowPdas ==
  <<Pda("vaultStrategyCfgMint0FeesEscrow", "vlt_fees_0_escrow:", <<"vaultStrategyConfig">>),
    Pda("vaultStrategyCfgMint1FeesEscrow", "vlt_fees_1_escrow:", <<"vaultStrategyConfig">>),
    Pda("vaultStrategyCfgMint0PerfFeesEscrow", "vlt_perf_fees_0_escrow:",
        <<"vaultStrategyConfig">>),
    Pda("vaultStrategyCfgMint1PerfFeesEscrow", "vlt_perf_fees_1_escrow:",
        <<"vaultStrategyConfig">>)>>

ProtocolAccounts == <<Signer("adminAuthority"), ProtocolConfigPda, Fixed("systemProgram")>>

InitVaultAccounts ==
  <<Signer("creator"), ProtocolConfigPda,
    Pda("vaultStrategyConfig", "vault_strategy_config:", <<"creator", "name">>),
    UsdcEscrowPda, Given("usdcMint"), Fixed("tokenProgram"), Fixed("systemProgram")>>

\* The seeds of a config to pause are the prefix alone, as in pause_vault.rs.
PauseVaultAccounts ==
  <<Signer("creator"), Pda("vaultStrategyConfig", "vault_strategy_config:", <<>>),
    Fixed("systemProgram")>>

EscrowAccounts ==
  <<Signer("investor"), EscrowVaultPda, Ata("investorTokenAccount", "investor", "usdcMint"),
    Given("usdcMint"), Fixed("tokenProgram"), Fixed("associatedTokenProgram"),
    Fixed("systemProgram")>>

InvestReserveAccounts ==
  <<Signer("investor"), Given("vaultStrategyConfig"), EscrowVaultPda, UsdcEscrowPda,
    ReservePda, Given("usdcMint"), Fixed("tokenProgram"), Fixed("systemProgram")>>

CreateVaultAccounts ==
  <<Signer("creator"), Given("vaultStrategyConfig"), VaultStrategyPda,
    PositionPda("creator")>>
CreateRaydiumAccounts ==
  GivenAll(<<"pythToken0PriceUpdate", "pythToken1PriceUpdate">>) \o
  <<Fixed("raydiumClmmProgram"), Signer("raydiumPositionNftMint")>> \o
  GivenAll(<<"raydiumPositionNftAccount", "raydiumPoolState", "raydiumProtocolPosition",
             "raydiumTickArrayLower", "raydiumTickArrayUpper", "raydiumPersonalPosition",
             "raydiumTokenAccount0", "raydiumTokenAccount1", "raydiumTokenVault0",
             "raydiumTokenVault1", "raydiumVault0Mint", "raydiumVault1Mint">>) \o
  FixedAll(<<"rent", "systemProgram", "tokenProgram", "associatedTokenProgram",
             "tokenProgram2022">>)

SwapVaultAccounts ==
  <<Signer("investor"), Given("vaultStrategyConfig"), VaultStrategyPda, ReservePda,
    UsdcEscrowPda>> \o SwapEscrowPdas \o <<Given("usdcMint")>>
SwapRaydiumAccounts ==
  <<Fixed("raydiumClmmProgram")>> \o
  GivenAll(<<"raydiumPoolState", "raydiumPersonalPosition", "raydiumAmmConfigUsdcForToken0",
             "raydiumPoolStateUsdcForToken0", "raydiumAmmConfigUsdcForToken1",
             "raydiumPoolStateUsdcForToken1", "raydiumVault0Input", "raydiumVault1Input",
             "raydiumVault0Output", "raydiumVault1Output", "raydiumVault0Mint",
             "raydiumVault1Mint", "raydiumObservationState0", "raydiumObservationState1",
             "raydiumTokenVault0", "raydiumTokenVault1">>) \o
  FixedAll(<<"tokenProgram", "tokenProgram2022", "memoProgram", "systemProgram">>)

AddVaultAccounts ==
  <<Signer("investor"), Given("vaultStrategyConfig"), VaultStrategyPda, ReservePda,
    PositionPda("investor")>> \o SwapEscrowPdas
InvestorMintAccounts ==
  <<Ata("investorMint0Account", "investor", "raydiumVault0Mint"),
    Ata("investorMint1Account", "investor", "raydiumVault1Mint")>>
RemoveVaultAccounts ==
  <<Signer("investor"), Given("vaultStrategyConfig"), VaultStrategyPda,
    PositionPda("investor")>> \o InvestorMintAccounts \o FeesEscrowPdas
\* add_liquidity and remove_liquidity end with the same accounts.
LiquidityRaydiumAccounts(programs) ==
  <<Fixed("raydiumClmmProgram")>> \o
  GivenAll(<<"raydiumPositionNftAccount", "raydiumPoolState", "raydiumPersonalPosition",
             "raydiumProtocolPosition", "raydiumTickArrayLower", "raydiumTickArrayUpper",
             "raydiumTokenVault0", "raydiumTokenVault1", "raydiumVault0Mint",
             "raydiumVault1Mint">>) \o FixedAll(programs)
LiquidityPrograms ==
  <<"tokenProgram", "tokenProgram2022", "associatedTokenProgram", "memoProgram",
    "systemProgram">>

-----------------------------------------------------------------------------
(* The instructions: discriminator in the committed file, accounts, and    *)
(* the names and types of the arguments.                                   *)

Arg(name, type) == [name |-> name, type |-> type]
Ix(discriminator, accounts, args) ==
  [discriminator |-> discriminator, accounts |-> accounts, args |-> args]
AmountArg == <<Arg("amount", "u64")>>
StrategyArg == Arg("strategyId", "u8")

InitProtocolConfigIx  == Ix(0, ProtocolAccounts, <<Arg("protocolFees", "u32")>>)
PauseProtocolIx       == Ix(1, ProtocolAccounts, <<>>)
UnpauseProtocolIx     == Ix(2, ProtocolAccounts, <<>>)
InitVaultStrategyConfigIx ==
  Ix(3, InitVaultAccounts,
     <<Arg("name", "string"), Arg("performanceFee", "u32"), Arg("vaultStrategyType", "u8")>>)
CreateArgs ==
  <<StrategyArg, Arg("percentage", "u32"), Arg("amount0Max", "u64"), Arg("amount1Max", "u64"),
    Arg("tickLowerIndex", "u32"), Arg("tickUpperIndex", "u32"),
    Arg("tickArrayLowerStartIndex", "u32"), Arg("tickArrayUpperStartIndex", "u32"),
    Arg("token0FeedId", "string"), Arg("token1FeedId", "string"),
    Arg("lookUpTable", "pubkey")>>
CreateRaydiumVaultStrategyIx ==
  Ix(4, CreateVaultAccounts \o SwapEscrowPdas \o FeesEscrowPdas \o CreateRaydiumAccounts,
     CreateArgs)
DepositToEscrowIx     == Ix(5, EscrowAccounts, AmountArg)
WithdrawFromEscrowIx  == Ix(6, EscrowAccounts, AmountArg)
PauseVaultIx          == Ix(7, PauseVaultAccounts, <<>>)
UnpauseVaultIx        == Ix(8, PauseVaultAccounts, <<>>)
InvestReserveIx       == Ix(9, InvestReserveAccounts, AmountArg)
SwapToRatioRaydiumVaultStrategyIx ==
  Ix(10, SwapVaultAccounts \o SwapRaydiumAccounts,
     <<StrategyArg, Arg("token0AmountOutMin", "u64"), Arg("token1AmountOutMin", "u64")>>)
AddLiquidityRaydiumVaultStrategyIx ==
  Ix(11, AddVaultAccounts \o LiquidityRaydiumAccounts(LiquidityPrograms), <<StrategyArg>>)
RemoveLiquidityRaydiumVaultStrategyIx ==
  Ix(12, RemoveVaultAccounts \o LiquidityRaydiumAccounts(LiquidityPrograms),
     <<StrategyArg, Arg("percentage", "u64"), Arg("amount0Min", "u64"),
       Arg("amount1Min", "u64")>>)

\* program.methods: what the client can call, by the name it calls it.
Methods ==
  [initProtocolConfig |-> InitProtocolConfigIx, pauseProtocol |-> PauseProtocolIx,
   unpauseProtocol |-> UnpauseProtocolIx, initVaultStrategyConfig |-> InitVaultStrategyConfigIx,
   createRaydiumVaultStrategy |-> CreateRaydiumVaultStrategyIx,
   depositToEscrow |-> DepositToEscrowIx, withdrawFromEscrow |-> WithdrawFromEscrowIx,
   pauseVault |-> PauseVaultIx, unpauseVault |-> UnpauseVaultIx,
   investReserve |-> InvestReserveIx,
   swapToRatioRaydiumVaultStrategy |-> SwapToRatioRaydiumVaultStrategyIx,
   addLiquidityRaydiumVaultStrategy |-> AddLiquidityRaydiumVaultStrategyIx,
   removeLiquidityRaydiumVaultStrategy |-> RemoveLiquidityRaydiumVaultStrategyIx]

-----------------------------------------------------------------------------
(* The program's side: the handlers in the order of their discriminators   *)
(* (constants.rs, lib.rs), one more than the committed file knows.  What a *)
(* handler requires of its accounts is what a description built from it    *)
(* would say.                                                              *)

Handlers ==
  <<"initProtocolConfig", "pauseProtocol", "unpauseProtocol", "initVaultStrategyConfig",
    "activateVaultStrategyConfig", "createRaydiumVaultStrategy", "depositToEscrow",
    "withdrawFromEscrow", "pauseVault", "unpauseVault", "investReserve",
    "swapToRatioRaydiumVaultStrategy", "addLiquidityRaydiumVaultStrategy",
    "removeLiquidityRaydiumVaultStrategy">>
HandlerAt(discriminator) == Handlers[discriminator + 1]

ActivateAccounts == <<Signer("creator"), ProtocolConfigPda, Given("vaultStrategyConfig")>>
Expected(handler) ==
  IF handler = "activateVaultStrategyConfig" THEN Ix(4, ActivateAccounts, <<>>)
  ELSE Methods[handler]

\* Mutant: every description is the committed one.
DiscriminatorCommitted(method) == Methods[method].discriminator

Discriminator(method) ==
  IF IdlIsCommitted THEN Methods[method].discriminator
  ELSE (CHOOSE i \in DOMAIN Handlers : Handlers[i] = method) - 1

-----------------------------------------------------------------------------
(* Building and receiving an instruction.                                  *)

\* What f maps, and what only g does: f @@ g, as the provers can read it.
AndMore(f, g) ==
  [x \in DOMAIN f \cup DOMAIN g |-> IF x \in DOMAIN f THEN f[x] ELSE g[x]]

AddressOf(decl, known) ==
  LET seeds == [i \in DOMAIN decl.seeds |-> known[decl.seeds[i]]]
  IN CASE decl.kind = "fixed" -> Key(decl.name)
       [] decl.kind = "pda"   -> VaultsAddress(decl.prefix, seeds)
       [] decl.kind = "ata"   -> AssociatedAddress(seeds[1], seeds[2], seeds[3])
       [] OTHER               -> known[decl.name]

\* One pass of Anchor's resolver: every account whose seeds are known.
Resolve(accounts, known) ==
  LET ready == {i \in DOMAIN accounts :
                  /\ accounts[i].name \notin DOMAIN known
                  /\ accounts[i].kind \in {"fixed", "pda", "ata"}
                  /\ ToSet(accounts[i].seeds) \subseteq DOMAIN known}
      names == {accounts[i].name : i \in ready}
      Named(n) == CHOOSE i \in ready : accounts[i].name = n
  IN AndMore(known, [n \in names |-> AddressOf(accounts[Named(n)], known)])

\* A derived account may be the seed of a derived account, and that of one more.
ResolveAll(accounts, given) ==
  Resolve(accounts, Resolve(accounts, Resolve(accounts, given)))

\* The instruction that program.methods builds for a call: given maps names to
\* the accounts the caller passes, remaining follow the accounts declared.
Instruction(method, signers, given, args, remaining) ==
  LET accounts == Methods[method].accounts
      known == ResolveAll(accounts, AndMore(given, args))
  IN [discriminator |-> Discriminator(method), signers |-> signers, types |->
        [i \in DOMAIN Methods[method].args |-> Methods[method].args[i].type],
      args |-> [i \in DOMAIN Methods[method].args |-> args[Methods[method].args[i].name]],
      accounts |-> [i \in DOMAIN accounts |-> known[accounts[i].name]] \o remaining]

\* The least number of bytes an argument list takes.
Bytes(types) ==
  LET width == [u8 |-> 1, u32 |-> 4, u64 |-> 8, string |-> 4, pubkey |-> 32]
  IN FoldLeft(LAMBDA n, t : n + width[t], 0, types)

\* What the handler that the discriminator selects makes of the accounts and
\* the arguments: positions are named by its own declarations.
ReceivedAccounts(ix) ==
  LET accounts == Expected(HandlerAt(ix.discriminator)).accounts
      Position(n) == CHOOSE i \in DOMAIN accounts : accounts[i].name = n
  IN [n \in {accounts[i].name : i \in DOMAIN accounts} |-> ix.accounts[Position(n)]]
ReceivedArgs(ix) ==
  LET args == Expected(HandlerAt(ix.discriminator)).args
  IN [n \in {args[i].name : i \in DOMAIN args} |->
        ix.args[CHOOSE i \in DOMAIN args : args[i].name = n]]

\* The arguments can be decoded, there are enough accounts, the signers have
\* signed, and every fixed or derived account is the one the handler expects.
Accepted(ix) ==
  LET expected == Expected(HandlerAt(ix.discriminator))
      types == [i \in DOMAIN expected.args |-> expected.args[i].type]
  IN /\ Len(ix.accounts) >= Len(expected.accounts)
     /\ Bytes(ix.types) >= Bytes(types)
     /\ IF IsPrefix(types, ix.types)
        THEN LET known == AndMore(ReceivedAccounts(ix), ReceivedArgs(ix))
             IN \A i \in DOMAIN expected.accounts :
                  LET decl == expected.accounts[i]
                  IN /\ decl.kind = "signer" => ix.accounts[i] \in ix.signers
                     /\ decl.kind \in {"fixed", "pda", "ata"}
                          => ix.accounts[i] = AddressOf(decl, known)
        ELSE FALSE
==============================================================================
