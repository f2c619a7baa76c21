---------------------- MODULE ClientTransactions_proofs ----------------------
(***************************************************************************)
(* Proofs about the client.  An instruction that the client has built from *)
(* a description of the program reaches the handler of its name with the   *)
(* accounts and arguments the client put in; from this follow what a       *)
(* transaction has done when only a part of its instructions is executed,  *)
(* and so what it does as a whole.                                         *)
(***************************************************************************)
EXTENDS ClientTransactions, TokenizedVaults_proofs

(* Instructions as the client builds them and the program receives them.   *)

\* With a description built from the program, the byte an instruction is sent
\* with selects the handler of its name.
LEMMA Dispatched ==
  ASSUME ~IdlIsCommitted, NEW m \in DOMAIN Methods
  PROVE  /\ HandlerAt(Discriminator(m)) = m
         /\ Expected(m) = Methods[m]
<1>1. HandlerAt(Discriminator(m)) = m
  BY DEF Methods, HandlerAt, Discriminator, Handlers
<1>2. m # "activateVaultStrategyConfig"
  BY DEF Methods
<1>. QED  BY <1>1, <1>2 DEF Expected

\* An account of its own name in a list of declarations.
Unique(accounts, i) ==
  \A j \in DOMAIN accounts : accounts[j].name = accounts[i].name => j = i
Derived(decl) == decl.kind \in {"fixed", "pda", "ata"}

\* A pass of the resolver keeps what is known, and adds every derived account
\* whose seeds are known.
LEMMA ResolvePass ==
  ASSUME NEW accounts, NEW known
  PROVE  LET found == Resolve(accounts, known) IN
         /\ DOMAIN known \subseteq DOMAIN found
         /\ \A n \in DOMAIN known : found[n] = known[n]
         /\ \A i \in DOMAIN accounts :
              Unique(accounts, i) /\ accounts[i].name \notin DOMAIN known =>
                /\ accounts[i].name \in DOMAIN found
                     <=> Derived(accounts[i]) /\ ToSet(accounts[i].seeds) \subseteq DOMAIN known
                /\ accounts[i].name \in DOMAIN found
                     => found[accounts[i].name] = AddressOf(accounts[i], known)
<1>. DEFINE ready == {i \in DOMAIN accounts :
                        /\ accounts[i].name \notin DOMAIN known
                        /\ accounts[i].kind \in {"fixed", "pda", "ata"}
                        /\ ToSet(accounts[i].seeds) \subseteq DOMAIN known}
            names == {accounts[i].name : i \in ready}
            Named(n) == CHOOSE i \in ready : accounts[i].name = n
            more == [n \in names |-> AddressOf(accounts[Named(n)], known)]
            found == AndMore(known, more)
<1>1. Resolve(accounts, known) = found
  BY DEF Resolve
<1>. HIDE DEF found
<1>2. /\ DOMAIN found = DOMAIN known \cup names
      /\ \A n \in DOMAIN known : found[n] = known[n]
      /\ \A n \in names : n \notin DOMAIN known => found[n] = more[n]
  BY DEF found, AndMore
<1>3. ASSUME NEW i \in DOMAIN accounts, Unique(accounts, i),
             accounts[i].name \notin DOMAIN known
      PROVE  /\ accounts[i].name \in DOMAIN found
                  <=> Derived(accounts[i]) /\ ToSet(accounts[i].seeds) \subseteq DOMAIN known
             /\ accounts[i].name \in DOMAIN found
                  => found[accounts[i].name] = AddressOf(accounts[i], known)
  <2>1. accounts[i].name \in names <=> i \in ready
    BY <1>3 DEF Unique
  <2>2. i \in ready => Named(accounts[i].name) = i
    <3>1. \A j \in ready : accounts[j].name = accounts[i].name => j = i
      BY <1>3 DEF Unique
    <3>. HIDE DEF ready
    <3>. QED  BY <3>1
  <2>3. i \in ready <=> Derived(accounts[i])
                          /\ ToSet(accounts[i].seeds) \subseteq DOMAIN known
    BY <1>3 DEF Derived
  <2>. HIDE DEF ready
  <2>. QED  BY <1>2, <1>3, <2>1, <2>2, <2>3
<1>. QED  BY <1>1, <1>2, <1>3

\* An address depends on the seeds alone, so that more knowledge keeps it.
LEMMA AddressKept ==
  ASSUME NEW decl, Derived(decl), NEW known, NEW more,
         ToSet(decl.seeds) \subseteq DOMAIN known,
         \A n \in DOMAIN known : more[n] = known[n]
  PROVE  AddressOf(decl, more) = AddressOf(decl, known)
<1>1. \A i \in DOMAIN decl.seeds : more[decl.seeds[i]] = known[decl.seeds[i]]
  BY DEF ToSet
<1>2. [i \in DOMAIN decl.seeds |-> more[decl.seeds[i]]]
        = [i \in DOMAIN decl.seeds |-> known[decl.seeds[i]]]
  BY <1>1
<1>. QED  BY <1>2 DEF AddressOf, Derived

\* After all passes the accounts of the caller are what they were, and a
\* derived account, whose seeds one pass makes known, is derived from them.
LEMMA Resolved ==
  ASSUME NEW accounts, NEW given
  PROVE  LET first == Resolve(accounts, given)
             found == ResolveAll(accounts, given)
         IN
         /\ \A n \in DOMAIN given : n \in DOMAIN found /\ found[n] = given[n]
         /\ \A n \in DOMAIN given : n \in DOMAIN first
         /\ \A i \in DOMAIN accounts :
              /\ Unique(accounts, i) /\ Derived(accounts[i])
              /\ accounts[i].name \notin DOMAIN given
              => /\ ToSet(accounts[i].seeds) \subseteq DOMAIN given
                      => accounts[i].name \in DOMAIN first
                 /\ ToSet(accounts[i].seeds) \subseteq DOMAIN first
                      => /\ accounts[i].name \in DOMAIN found
                         /\ found[accounts[i].name] = AddressOf(accounts[i], found)
<1>. DEFINE first == Resolve(accounts, given)
            second == Resolve(accounts, first)
            found == Resolve(accounts, second)
<1>1. ResolveAll(accounts, given) = found
  BY DEF ResolveAll
<1>. HIDE DEF first, second, found
<1>2. /\ DOMAIN given \subseteq DOMAIN first
      /\ DOMAIN first \subseteq DOMAIN second
      /\ DOMAIN second \subseteq DOMAIN found
      /\ \A n \in DOMAIN given : first[n] = given[n]
      /\ \A n \in DOMAIN first : second[n] = first[n]
      /\ \A n \in DOMAIN second : found[n] = second[n]
  BY ResolvePass DEF first, second, found
<1>3. ASSUME NEW i \in DOMAIN accounts, Unique(accounts, i), Derived(accounts[i]),
             accounts[i].name \notin DOMAIN given
      PROVE  /\ ToSet(accounts[i].seeds) \subseteq DOMAIN given
                  => accounts[i].name \in DOMAIN first
             /\ ToSet(accounts[i].seeds) \subseteq DOMAIN first
                  => /\ accounts[i].name \in DOMAIN found
                     /\ found[accounts[i].name] = AddressOf(accounts[i], found)
  <2>1. ToSet(accounts[i].seeds) \subseteq DOMAIN given
          => accounts[i].name \in DOMAIN first
    BY <1>3, ResolvePass DEF first
  <2>2. ASSUME ToSet(accounts[i].seeds) \subseteq DOMAIN first
        PROVE  /\ accounts[i].name \in DOMAIN found
               /\ found[accounts[i].name] = AddressOf(accounts[i], found)
    <3>1. CASE accounts[i].name \in DOMAIN first
      <4>1. /\ ToSet(accounts[i].seeds) \subseteq DOMAIN given
            /\ first[accounts[i].name] = AddressOf(accounts[i], given)
        BY <1>3, <3>1, ResolvePass DEF first
      <4>2. AddressOf(accounts[i], found) = AddressOf(accounts[i], given)
        <5>1. \A n \in DOMAIN given : found[n] = given[n]
          BY <1>2
        <5>. QED  BY <1>3, <4>1, <5>1, AddressKept
      <4>. QED  BY <1>2, <3>1, <4>1, <4>2
    <3>2. CASE accounts[i].name \notin DOMAIN first
      <4>1. /\ accounts[i].name \in DOMAIN second
            /\ second[accounts[i].name] = AddressOf(accounts[i], first)
        BY <1>3, <2>2, <3>2, ResolvePass DEF second
      <4>2. AddressOf(accounts[i], found) = AddressOf(accounts[i], first)
        <5>1. \A n \in DOMAIN first : found[n] = first[n]
          BY <1>2
        <5>. QED  BY <1>3, <2>2, <5>1, AddressKept
      <4>. QED  BY <1>2, <4>1, <4>2
    <3>. QED  BY <3>1, <3>2
  <2>. QED  BY <2>1, <2>2
<1>. QED  BY <1>1, <1>2, <1>3 DEF first

\* Instruction ix is one of method m, and the program reads from it, by their
\* names, the accounts that are known to the client and its arguments.
Faithful(m, ix, known, args) ==
  LET accounts == Methods[m].accounts IN
  /\ HandlerAt(ix.discriminator) = m
  /\ \A i \in DOMAIN accounts : i \in DOMAIN ix.accounts
  /\ \A i \in DOMAIN accounts : ix.accounts[i] = known[accounts[i].name]
  /\ DOMAIN ReceivedAccounts(ix) = {accounts[i].name : i \in DOMAIN accounts}
  /\ \A i \in DOMAIN accounts :
       ReceivedAccounts(ix)[accounts[i].name] = known[accounts[i].name]
  /\ \A i \in DOMAIN Methods[m].args :
       ReceivedArgs(ix)[Methods[m].args[i].name] = args[Methods[m].args[i].name]

\* What the client builds is such an instruction.
LEMMA Built ==
  ASSUME ~IdlIsCommitted, NEW m \in DOMAIN Methods, NEW signers, NEW given, NEW args,
         NEW S, NEW remaining \in Seq(S), Len(Methods[m].accounts) \in Nat,
         DOMAIN Methods[m].accounts = 1..Len(Methods[m].accounts)
  PROVE  Faithful(m, Instruction(m, signers, given, args, remaining),
                  ResolveAll(Methods[m].accounts, AndMore(given, args)), args)
<1>. DEFINE accounts == Methods[m].accounts
            n == Len(accounts)
            known == ResolveAll(accounts, AndMore(given, args))
            ix == Instruction(m, signers, given, args, remaining)
            named == [i \in DOMAIN accounts |-> known[accounts[i].name]]
            values == {named[i] : i \in 1..n} \cup S
<1>1. /\ ix.discriminator = Discriminator(m)
      /\ ix.accounts = named \o remaining
      /\ \A i \in DOMAIN Methods[m].args : ix.args[i] = args[Methods[m].args[i].name]
  BY DEF Instruction
<1>2. HandlerAt(ix.discriminator) = m /\ Expected(HandlerAt(ix.discriminator)) = Methods[m]
  BY <1>1, Dispatched
<1>. HIDE DEF known, ix
<1>3. /\ DOMAIN accounts \subseteq DOMAIN ix.accounts
      /\ \A i \in DOMAIN accounts : ix.accounts[i] = known[accounts[i].name]
  <2>1. named \in [1..n -> values]
    OBVIOUS
  <2>2. named \in Seq(values) /\ Len(named) = n /\ remaining \in Seq(values)
    BY <2>1
  <2>3. \A i \in 1..n : named[i] = known[accounts[i].name]
    OBVIOUS
  <2>. HIDE DEF named, values
  <2>4. \A i \in 1..n : i \in DOMAIN (named \o remaining) /\ (named \o remaining)[i] = named[i]
    BY <2>2
  <2>. QED  BY <1>1, <2>3, <2>4
<1>4. /\ DOMAIN ReceivedAccounts(ix) = {accounts[i].name : i \in DOMAIN accounts}
      /\ \A i \in DOMAIN accounts :
           ReceivedAccounts(ix)[accounts[i].name] = known[accounts[i].name]
  <2>. DEFINE declared == Expected(HandlerAt(ix.discriminator)).accounts
              Position(name) == CHOOSE i \in DOMAIN declared : declared[i].name = name
  <2>1. ReceivedAccounts(ix)
          = [name \in {declared[i].name : i \in DOMAIN declared} |-> ix.accounts[Position(name)]]
    BY DEF ReceivedAccounts
  <2>2. declared = accounts
    BY <1>2
  <2>3. ASSUME NEW i \in DOMAIN declared
        PROVE  ReceivedAccounts(ix)[declared[i].name] = known[declared[i].name]
    <3>1. /\ Position(declared[i].name) \in DOMAIN declared
          /\ declared[Position(declared[i].name)].name = declared[i].name
      OBVIOUS
    <3>. HIDE DEF Position, declared
    <3>. QED  BY <1>3, <2>1, <2>2, <3>1
  <2>4. DOMAIN ReceivedAccounts(ix) = {declared[i].name : i \in DOMAIN declared}
    BY <2>1
  <2>. HIDE DEF Position, declared, accounts
  <2>. QED  BY <2>2, <2>3, <2>4
<1>5. \A i \in DOMAIN Methods[m].args :
        ReceivedArgs(ix)[Methods[m].args[i].name] = args[Methods[m].args[i].name]
  <2>. DEFINE declared == Expected(HandlerAt(ix.discriminator)).args
              Position(name) == CHOOSE i \in DOMAIN declared : declared[i].name = name
  <2>1. ReceivedArgs(ix)
          = [name \in {declared[i].name : i \in DOMAIN declared} |-> ix.args[Position(name)]]
    BY DEF ReceivedArgs
  <2>2. declared = Methods[m].args
    BY <1>2
  <2>3. ASSUME NEW i \in DOMAIN declared
        PROVE  ReceivedArgs(ix)[declared[i].name] = args[declared[i].name]
    <3>1. /\ Position(declared[i].name) \in DOMAIN declared
          /\ declared[Position(declared[i].name)].name = declared[i].name
      OBVIOUS
    <3>. HIDE DEF Position, declared
    <3>. QED  BY <1>1, <2>1, <2>2, <3>1
  <2>. HIDE DEF Position, declared
  <2>. QED  BY <2>2, <2>3
<1>. QED  BY <1>2, <1>3, <1>4, <1>5 DEF ix, known, Faithful

\* The accounts that protocolPDAs derives, by their names.
PdaNames ==
  {"mint0", "mint1", "protocolConfig", "vaultStrategyConfig", "vaultStrategy",
   "investReserveVault", "investorStrategyPosition", "vaultStrategyCfgUsdcEscrow",
   "vaultStrategyCfgMint0Escrow", "vaultStrategyCfgMint1Escrow",
   "vaultStrategyCfgMint0FeesEscrow", "vaultStrategyCfgMint1FeesEscrow",
   "vaultStrategyCfgMint0PerfFeesEscrow", "vaultStrategyCfgMint1PerfFeesEscrow"}

\* The parts of a declaration.
LEMMA DeclaredFields ==
  /\ \A n : Given(n).kind = "given" /\ Given(n).name = n
  /\ \A n : Signer(n).kind = "signer" /\ Signer(n).name = n
  /\ \A n : Fixed(n).kind = "fixed" /\ Fixed(n).name = n
  /\ \A n, prefix, seeds : /\ Pda(n, prefix, seeds).kind = "pda"
                          /\ Pda(n, prefix, seeds).name = n
                          /\ Pda(n, prefix, seeds).prefix = prefix
                          /\ Pda(n, prefix, seeds).seeds = seeds
  /\ \A n, owner, mint : /\ Ata(n, owner, mint).kind = "ata"
                        /\ Ata(n, owner, mint).name = n
                        /\ Ata(n, owner, mint).seeds = <<owner, "tokenProgram", mint>>
<1>1. \A kind, n, prefix, seeds : /\ Account(kind, n, prefix, seeds).kind = kind
                                 /\ Account(kind, n, prefix, seeds).name = n
                                 /\ Account(kind, n, prefix, seeds).prefix = prefix
                                 /\ Account(kind, n, prefix, seeds).seeds = seeds
  BY DEF Account
<1>. QED  BY <1>1 DEF Given, Signer, Fixed, Pda, Ata

\* The derived accounts of each method, at their places.  No other account of
\* the method has the name of one of them.
LEMMA ProtocolDeclares ==
  ASSUME NEW m \in {"initProtocolConfig", "pauseProtocol", "unpauseProtocol"}
  PROVE  LET a == Methods[m].accounts IN
         /\ m \in DOMAIN Methods
         /\ DOMAIN a = 1..Len(a) /\ Len(a) = 3
         /\ a[1] = Signer("adminAuthority") /\ a[2] = ProtocolConfigPda
         /\ \A i \in DOMAIN a : a[i].kind \in {"pda", "ata"} => i \in {2}
         /\ \A i \in {2} : Unique(a, i)
<1>0. PICK a : a = Methods[m].accounts
  OBVIOUS
<1>1. a = ProtocolAccounts
  BY <1>0 DEF Methods, Ix, InitProtocolConfigIx, PauseProtocolIx, UnpauseProtocolIx
<1>2. /\ DOMAIN a = 1..Len(a) /\ Len(a) = 3
      /\ a[1] = Signer("adminAuthority") /\ a[2] = ProtocolConfigPda
      /\ a[3] = Fixed("systemProgram")
  BY <1>1, SMTT(30) DEF ProtocolAccounts
<1>3. m \in DOMAIN Methods
  BY DEF Methods
<1>4. \A i \in DOMAIN a : a[i].kind \in {"pda", "ata"} => i \in {2}
  BY <1>2, DeclaredFields
<1>5. \A i \in {2} : Unique(a, i)
  BY <1>2, DeclaredFields DEF Unique, ProtocolConfigPda, UsdcEscrowPda, EscrowVaultPda,
         ReservePda, VaultStrategyPda, PositionPda, SwapEscrowPdas, FeesEscrowPdas
<1>. QED  BY <1>0, <1>2, <1>3, <1>4, <1>5

LEMMA InitVaultDeclares ==
  LET a == Methods["initVaultStrategyConfig"].accounts IN
  /\ "initVaultStrategyConfig" \in DOMAIN Methods
  /\ DOMAIN a = 1..Len(a) /\ Len(a) = 7
  /\ a[1] = Signer("creator") /\ a[2] = ProtocolConfigPda
  /\ a[3] = Pda("vaultStrategyConfig", "vault_strategy_config:", <<"creator", "name">>)
  /\ a[4] = UsdcEscrowPda
  /\ \A i \in DOMAIN a : a[i].kind \in {"pda", "ata"} => i \in {2, 3, 4}
  /\ \A i \in {2, 3, 4} : Unique(a, i)
<1>0. PICK a : a = Methods["initVaultStrategyConfig"].accounts
  OBVIOUS
<1>1. a = InitVaultAccounts
  BY <1>0 DEF Methods, Ix, InitVaultStrategyConfigIx
<1>2. /\ DOMAIN a = 1..Len(a) /\ Len(a) = 7
      /\ a[1] = Signer("creator") /\ a[2] = ProtocolConfigPda
      /\ a[3] = Pda("vaultStrategyConfig", "vault_strategy_config:", <<"creator", "name">>)
      /\ a[4] = UsdcEscrowPda /\ a[5] = Given("usdcMint") /\ a[6] = Fixed("tokenProgram")
      /\ a[7] = Fixed("systemProgram")
  BY <1>1, SMTT(30) DEF InitVaultAccounts
<1>3. "initVaultStrategyConfig" \in DOMAIN Methods
  BY DEF Methods
<1>4. \A i \in DOMAIN a : a[i].kind \in {"pda", "ata"} => i \in {2, 3, 4}
  BY <1>2, DeclaredFields
<1>5. \A i \in {2, 3, 4} : Unique(a, i)
  BY <1>2, DeclaredFields DEF Unique, ProtocolConfigPda, UsdcEscrowPda, EscrowVaultPda,
         ReservePda, VaultStrategyPda, PositionPda, SwapEscrowPdas, FeesEscrowPdas
<1>. QED  BY <1>0, <1>2, <1>3, <1>4, <1>5

LEMMA CreateDeclares ==
  LET a == Methods["createRaydiumVaultStrategy"].accounts
      g == Methods["createRaydiumVaultStrategy"].args
  IN
  /\ "createRaydiumVaultStrategy" \in DOMAIN Methods
  /\ DOMAIN a = 1..Len(a) /\ Len(a) = 31
  /\ a[1] = Signer("creator") /\ a[2] = Given("vaultStrategyConfig")
  /\ a[3] = VaultStrategyPda /\ a[4] = PositionPda("creator") /\ a[5] = SwapEscrowPdas[1]
  /\ a[6] = SwapEscrowPdas[2] /\ a[7] = FeesEscrowPdas[1] /\ a[8] = FeesEscrowPdas[2]
  /\ a[9] = FeesEscrowPdas[3] /\ a[10] = FeesEscrowPdas[4] /\ a[16] = Given("raydiumPoolState")
  /\ \A i \in DOMAIN a : a[i].kind \in {"pda", "ata"} => i \in {3, 4, 5, 6, 7, 8, 9, 10}
  /\ \A i \in {3, 4, 5, 6, 7, 8, 9, 10} : Unique(a, i)
  /\ \A i \in DOMAIN a : a[i].name \in PdaNames => i \in 2..10
  /\ 2 \in DOMAIN g /\ g[2].name = "percentage" /\ 3 \in DOMAIN g /\ g[3].name = "amount0Max"
  /\ 4 \in DOMAIN g /\ g[4].name = "amount1Max"
<1>0. PICK a : a = Methods["createRaydiumVaultStrategy"].accounts
  OBVIOUS
<1>1. a = CreateVaultAccounts \o SwapEscrowPdas \o FeesEscrowPdas \o CreateRaydiumAccounts
  BY <1>0 DEF Methods, Ix, CreateRaydiumVaultStrategyIx
<1>2. /\ DOMAIN a = 1..Len(a) /\ Len(a) = 31
      /\ a[1] = Signer("creator") /\ a[2] = Given("vaultStrategyConfig")
      /\ a[3] = VaultStrategyPda /\ a[4] = PositionPda("creator") /\ a[5] = SwapEscrowPdas[1]
      /\ a[6] = SwapEscrowPdas[2] /\ a[7] = FeesEscrowPdas[1] /\ a[8] = FeesEscrowPdas[2]
      /\ a[9] = FeesEscrowPdas[3] /\ a[10] = FeesEscrowPdas[4]
      /\ a[11] = Given("pythToken0PriceUpdate") /\ a[12] = Given("pythToken1PriceUpdate")
      /\ a[13] = Fixed("raydiumClmmProgram") /\ a[14] = Signer("raydiumPositionNftMint")
      /\ a[15] = Given("raydiumPositionNftAccount") /\ a[16] = Given("raydiumPoolState")
      /\ a[17] = Given("raydiumProtocolPosition") /\ a[18] = Given("raydiumTickArrayLower")
      /\ a[19] = Given("raydiumTickArrayUpper") /\ a[20] = Given("raydiumPersonalPosition")
      /\ a[21] = Given("raydiumTokenAccount0") /\ a[22] = Given("raydiumTokenAccount1")
      /\ a[23] = Given("raydiumTokenVault0") /\ a[24] = Given("raydiumTokenVault1")
      /\ a[25] = Given("raydiumVault0Mint") /\ a[26] = Given("raydiumVault1Mint")
      /\ a[27] = Fixed("rent") /\ a[28] = Fixed("systemProgram") /\ a[29] = Fixed("tokenProgram")
      /\ a[30] = Fixed("associatedTokenProgram") /\ a[31] = Fixed("tokenProgram2022")
  BY <1>1, SMTT(30) DEF CreateVaultAccounts, CreateRaydiumAccounts, SwapEscrowPdas,
         FeesEscrowPdas, GivenAll, FixedAll
<1>3. "createRaydiumVaultStrategy" \in DOMAIN Methods
  BY DEF Methods
<1>4. \A i \in DOMAIN a : a[i].kind \in {"pda", "ata"} => i \in {3, 4, 5, 6, 7, 8, 9, 10}
  BY <1>2, DeclaredFields
<1>5. \A i \in {3, 4, 5, 6, 7, 8, 9, 10} : Unique(a, i)
  BY <1>2, DeclaredFields DEF Unique, ProtocolConfigPda, UsdcEscrowPda, EscrowVaultPda,
         ReservePda, VaultStrategyPda, PositionPda, SwapEscrowPdas, FeesEscrowPdas
<1>6. \A i \in DOMAIN a : a[i].name \in PdaNames => i \in 2..10
  BY <1>2, DeclaredFields DEF PdaNames
<1>7. LET g == Methods["createRaydiumVaultStrategy"].args IN
      /\ 2 \in DOMAIN g /\ g[2].name = "percentage"
      /\ 3 \in DOMAIN g /\ g[3].name = "amount0Max"
      /\ 4 \in DOMAIN g /\ g[4].name = "amount1Max"
  BY DEF Methods, Ix, Arg, CreateArgs, CreateRaydiumVaultStrategyIx
<1>. QED  BY <1>0, <1>2, <1>3, <1>4, <1>5, <1>6, <1>7

LEMMA EscrowDeclares ==
  ASSUME NEW m \in {"depositToEscrow", "withdrawFromEscrow"}
  PROVE  LET a == Methods[m].accounts
             g == Methods[m].args
         IN
         /\ m \in DOMAIN Methods
         /\ DOMAIN a = 1..Len(a) /\ Len(a) = 7
         /\ a[1] = Signer("investor") /\ a[2] = EscrowVaultPda
         /\ a[3] = Ata("investorTokenAccount", "investor", "usdcMint")
         /\ a[5] = Fixed("tokenProgram")
         /\ \A i \in DOMAIN a : a[i].kind \in {"pda", "ata"} => i \in {2, 3}
         /\ \A i \in {2, 3, 5} : Unique(a, i)
         /\ 1 \in DOMAIN g /\ g[1].name = "amount"
<1>0. PICK a : a = Methods[m].accounts
  OBVIOUS
<1>1. a = EscrowAccounts
  BY <1>0 DEF Methods, Ix, DepositToEscrowIx, WithdrawFromEscrowIx
<1>2. /\ DOMAIN a = 1..Len(a) /\ Len(a) = 7
      /\ a[1] = Signer("investor") /\ a[2] = EscrowVaultPda
      /\ a[3] = Ata("investorTokenAccount", "investor", "usdcMint") /\ a[4] = Given("usdcMint")
      /\ a[5] = Fixed("tokenProgram") /\ a[6] = Fixed("associatedTokenProgram")
      /\ a[7] = Fixed("systemProgram")
  BY <1>1, SMTT(30) DEF EscrowAccounts
<1>3. m \in DOMAIN Methods
  BY DEF Methods
<1>4. \A i \in DOMAIN a : a[i].kind \in {"pda", "ata"} => i \in {2, 3}
  BY <1>2, DeclaredFields
<1>5. \A i \in {2, 3, 5} : Unique(a, i)
  BY <1>2, DeclaredFields DEF Unique, ProtocolConfigPda, UsdcEscrowPda, EscrowVaultPda,
         ReservePda, VaultStrategyPda, PositionPda, SwapEscrowPdas, FeesEscrowPdas
<1>7. LET g == Methods[m].args IN
      /\ 1 \in DOMAIN g /\ g[1].name = "amount"
  BY DEF Methods, Ix, AmountArg, Arg, DepositToEscrowIx, WithdrawFromEscrowIx
<1>. QED  BY <1>0, <1>2, <1>3, <1>4, <1>5, <1>7

LEMMA InvestReserveDeclares ==
  LET a == Methods["investReserve"].accounts
      g == Methods["investReserve"].args
  IN
  /\ "investReserve" \in DOMAIN Methods
  /\ DOMAIN a = 1..Len(a) /\ Len(a) = 8
  /\ a[1] = Signer("investor") /\ a[2] = Given("vaultStrategyConfig") /\ a[3] = EscrowVaultPda
  /\ a[4] = UsdcEscrowPda /\ a[5] = ReservePda
  /\ \A i \in DOMAIN a : a[i].kind \in {"pda", "ata"} => i \in {3, 4, 5}
  /\ \A i \in {3, 4, 5} : Unique(a, i)
  /\ \A i \in DOMAIN a : a[i].name \in PdaNames => i \in 2..5
  /\ 1 \in DOMAIN g /\ g[1].name = "amount"
<1>0. PICK a : a = Methods["investReserve"].accounts
  OBVIOUS
<1>1. a = InvestReserveAccounts
  BY <1>0 DEF Methods, Ix, InvestReserveIx
<1>2. /\ DOMAIN a = 1..Len(a) /\ Len(a) = 8
      /\ a[1] = Signer("investor") /\ a[2] = Given("vaultStrategyConfig")
      /\ a[3] = EscrowVaultPda /\ a[4] = UsdcEscrowPda /\ a[5] = ReservePda
      /\ a[6] = Given("usdcMint") /\ a[7] = Fixed("tokenProgram") /\ a[8] = Fixed("systemProgram")
  BY <1>1, SMTT(30) DEF InvestReserveAccounts
<1>3. "investReserve" \in DOMAIN Methods
  BY DEF Methods
<1>4. \A i \in DOMAIN a : a[i].kind \in {"pda", "ata"} => i \in {3, 4, 5}
  BY <1>2, DeclaredFields
<1>5. \A i \in {3, 4, 5} : Unique(a, i)
  BY <1>2, DeclaredFields DEF Unique, ProtocolConfigPda, UsdcEscrowPda, EscrowVaultPda,
         ReservePda, VaultStrategyPda, PositionPda, SwapEscrowPdas, FeesEscrowPdas
<1>6. \A i \in DOMAIN a : a[i].name \in PdaNames => i \in 2..5
  BY <1>2, DeclaredFields DEF PdaNames
<1>7. LET g == Methods["investReserve"].args IN
      /\ 1 \in DOMAIN g /\ g[1].name = "amount"
  BY DEF Methods, Ix, AmountArg, Arg, InvestReserveIx
<1>. QED  BY <1>0, <1>2, <1>3, <1>4, <1>5, <1>6, <1>7

LEMMA SwapDeclares ==
  LET a == Methods["swapToRatioRaydiumVaultStrategy"].accounts IN
  /\ "swapToRatioRaydiumVaultStrategy" \in DOMAIN Methods
  /\ DOMAIN a = 1..Len(a) /\ Len(a) = 29
  /\ a[1] = Signer("investor") /\ a[2] = Given("vaultStrategyConfig")
  /\ a[3] = VaultStrategyPda /\ a[4] = ReservePda /\ a[5] = UsdcEscrowPda
  /\ a[6] = SwapEscrowPdas[1] /\ a[7] = SwapEscrowPdas[2]
  /\ \A i \in DOMAIN a : a[i].kind \in {"pda", "ata"} => i \in {3, 4, 5, 6, 7}
  /\ \A i \in {3, 4, 5, 6, 7} : Unique(a, i)
  /\ \A i \in DOMAIN a : a[i].name \in PdaNames => i \in 2..7
<1>0. PICK a : a = Methods["swapToRatioRaydiumVaultStrategy"].accounts
  OBVIOUS
<1>1. a = SwapVaultAccounts \o SwapRaydiumAccounts
  BY <1>0 DEF Methods, Ix, SwapToRatioRaydiumVaultStrategyIx
<1>2. /\ DOMAIN a = 1..Len(a) /\ Len(a) = 29
      /\ a[1] = Signer("investor") /\ a[2] = Given("vaultStrategyConfig")
      /\ a[3] = VaultStrategyPda /\ a[4] = ReservePda /\ a[5] = UsdcEscrowPda
      /\ a[6] = SwapEscrowPdas[1] /\ a[7] = SwapEscrowPdas[2] /\ a[8] = Given("usdcMint")
      /\ a[9] = Fixed("raydiumClmmProgram") /\ a[10] = Given("raydiumPoolState")
      /\ a[11] = Given("raydiumPersonalPosition")
      /\ a[12] = Given("raydiumAmmConfigUsdcForToken0")
      /\ a[13] = Given("raydiumPoolStateUsdcForToken0")
      /\ a[14] = Given("raydiumAmmConfigUsdcForToken1")
      /\ a[15] = Given("raydiumPoolStateUsdcForToken1") /\ a[16] = Given("raydiumVault0Input")
      /\ a[17] = Given("raydiumVault1Input") /\ a[18] = Given("raydiumVault0Output")
      /\ a[19] = Given("raydiumVault1Output") /\ a[20] = Given("raydiumVault0Mint")
      /\ a[21] = Given("raydiumVault1Mint") /\ a[22] = Given("raydiumObservationState0")
      /\ a[23] = Given("raydiumObservationState1") /\ a[24] = Given("raydiumTokenVault0")
      /\ a[25] = Given("raydiumTokenVault1") /\ a[26] = Fixed("tokenProgram")
      /\ a[27] = Fixed("tokenProgram2022") /\ a[28] = Fixed("memoProgram")
      /\ a[29] = Fixed("systemProgram")
  BY <1>1, SMTT(30) DEF SwapVaultAccounts, SwapRaydiumAccounts, SwapEscrowPdas, GivenAll, FixedAll
<1>3. "swapToRatioRaydiumVaultStrategy" \in DOMAIN Methods
  BY DEF Methods
<1>4. \A i \in DOMAIN a : a[i].kind \in {"pda", "ata"} => i \in {3, 4, 5, 6, 7}
  BY <1>2, DeclaredFields
<1>5. \A i \in {3, 4, 5, 6, 7} : Unique(a, i)
  BY <1>2, DeclaredFields DEF Unique, ProtocolConfigPda, UsdcEscrowPda, EscrowVaultPda,
         ReservePda, VaultStrategyPda, PositionPda, SwapEscrowPdas, FeesEscrowPdas
<1>6. \A i \in DOMAIN a : a[i].name \in PdaNames => i \in 2..7
  BY <1>2, DeclaredFields DEF PdaNames
<1>. QED  BY <1>0, <1>2, <1>3, <1>4, <1>5, <1>6

LEMMA AddDeclares ==
  LET a == Methods["addLiquidityRaydiumVaultStrategy"].accounts IN
  /\ "addLiquidityRaydiumVaultStrategy" \in DOMAIN Methods
  /\ DOMAIN a = 1..Len(a) /\ Len(a) = 23
  /\ a[1] = Signer("investor") /\ a[2] = Given("vaultStrategyConfig")
  /\ a[3] = VaultStrategyPda /\ a[4] = ReservePda /\ a[5] = PositionPda("investor")
  /\ a[6] = SwapEscrowPdas[1] /\ a[7] = SwapEscrowPdas[2]
  /\ \A i \in DOMAIN a : a[i].kind \in {"pda", "ata"} => i \in {3, 4, 5, 6, 7}
  /\ \A i \in {3, 4, 5, 6, 7} : Unique(a, i)
  /\ \A i \in DOMAIN a : a[i].name \in PdaNames => i \in 2..7
<1>0. PICK a : a = Methods["addLiquidityRaydiumVaultStrategy"].accounts
  OBVIOUS
<1>1. a = AddVaultAccounts \o LiquidityRaydiumAccounts(LiquidityPrograms)
  BY <1>0 DEF Methods, Ix, AddLiquidityRaydiumVaultStrategyIx
<1>2. /\ DOMAIN a = 1..Len(a) /\ Len(a) = 23
      /\ a[1] = Signer("investor") /\ a[2] = Given("vaultStrategyConfig")
      /\ a[3] = VaultStrategyPda /\ a[4] = ReservePda /\ a[5] = PositionPda("investor")
      /\ a[6] = SwapEscrowPdas[1] /\ a[7] = SwapEscrowPdas[2]
      /\ a[8] = Fixed("raydiumClmmProgram") /\ a[9] = Given("raydiumPositionNftAccount")
      /\ a[10] = Given("raydiumPoolState") /\ a[11] = Given("raydiumPersonalPosition")
      /\ a[12] = Given("raydiumProtocolPosition") /\ a[13] = Given("raydiumTickArrayLower")
      /\ a[14] = Given("raydiumTickArrayUpper") /\ a[15] = Given("raydiumTokenVault0")
      /\ a[16] = Given("raydiumTokenVault1") /\ a[17] = Given("raydiumVault0Mint")
      /\ a[18] = Given("raydiumVault1Mint") /\ a[19] = Fixed("tokenProgram")
      /\ a[20] = Fixed("tokenProgram2022") /\ a[21] = Fixed("associatedTokenProgram")
      /\ a[22] = Fixed("memoProgram") /\ a[23] = Fixed("systemProgram")
  BY <1>1, SMTT(30) DEF AddVaultAccounts, LiquidityRaydiumAccounts, LiquidityPrograms,
         SwapEscrowPdas, GivenAll, FixedAll
<1>3. "addLiquidityRaydiumVaultStrategy" \in DOMAIN Methods
  BY DEF Methods
<1>4. \A i \in DOMAIN a : a[i].kind \in {"pda", "ata"} => i \in {3, 4, 5, 6, 7}
  BY <1>2, DeclaredFields
<1>5. \A i \in {3, 4, 5, 6, 7} : Unique(a, i)
  BY <1>2, DeclaredFields DEF Unique, ProtocolConfigPda, UsdcEscrowPda, EscrowVaultPda,
         ReservePda, VaultStrategyPda, PositionPda, SwapEscrowPdas, FeesEscrowPdas
<1>6. \A i \in DOMAIN a : a[i].name \in PdaNames => i \in 2..7
  BY <1>2, DeclaredFields DEF PdaNames
<1>. QED  BY <1>0, <1>2, <1>3, <1>4, <1>5, <1>6

LEMMA RemoveDeclares ==
  LET a == Methods["removeLiquidityRaydiumVaultStrategy"].accounts
      g == Methods["removeLiquidityRaydiumVaultStrategy"].args
  IN
  /\ "removeLiquidityRaydiumVaultStrategy" \in DOMAIN Methods
  /\ DOMAIN a = 1..Len(a) /\ Len(a) = 26
  /\ a[1] = Signer("investor") /\ a[2] = Given("vaultStrategyConfig")
  /\ a[3] = VaultStrategyPda /\ a[4] = PositionPda("investor")
  /\ a[5] = Ata("investorMint0Account", "investor", "raydiumVault0Mint")
  /\ a[6] = Ata("investorMint1Account", "investor", "raydiumVault1Mint")
  /\ a[7] = FeesEscrowPdas[1] /\ a[8] = FeesEscrowPdas[2] /\ a[9] = FeesEscrowPdas[3]
  /\ a[10] = FeesEscrowPdas[4] /\ a[22] = Fixed("tokenProgram")
  /\ \A i \in DOMAIN a : a[i].kind \in {"pda", "ata"} => i \in {3, 4, 5, 6, 7, 8, 9, 10}
  /\ \A i \in {3, 4, 5, 6, 7, 8, 9, 10, 22} : Unique(a, i)
  /\ \A i \in DOMAIN a : a[i].name \in PdaNames => i \in 2..10
  /\ 2 \in DOMAIN g /\ g[2].name = "percentage"
<1>0. PICK a : a = Methods["removeLiquidityRaydiumVaultStrategy"].accounts
  OBVIOUS
<1>1. a = RemoveVaultAccounts \o LiquidityRaydiumAccounts(LiquidityPrograms)
  BY <1>0 DEF Methods, Ix, RemoveLiquidityRaydiumVaultStrategyIx
<1>2. /\ DOMAIN a = 1..Len(a) /\ Len(a) = 26
      /\ a[1] = Signer("investor") /\ a[2] = Given("vaultStrategyConfig")
      /\ a[3] = VaultStrategyPda /\ a[4] = PositionPda("investor")
      /\ a[5] = Ata("investorMint0Account", "investor", "raydiumVault0Mint")
      /\ a[6] = Ata("investorMint1Account", "investor", "raydiumVault1Mint")
      /\ a[7] = FeesEscrowPdas[1] /\ a[8] = FeesEscrowPdas[2] /\ a[9] = FeesEscrowPdas[3]
      /\ a[10] = FeesEscrowPdas[4] /\ a[11] = Fixed("raydiumClmmProgram")
      /\ a[12] = Given("raydiumPositionNftAccount") /\ a[13] = Given("raydiumPoolState")
      /\ a[14] = Given("raydiumPersonalPosition") /\ a[15] = Given("raydiumProtocolPosition")
      /\ a[16] = Given("raydiumTickArrayLower") /\ a[17] = Given("raydiumTickArrayUpper")
      /\ a[18] = Given("raydiumTokenVault0") /\ a[19] = Given("raydiumTokenVault1")
      /\ a[20] = Given("raydiumVault0Mint") /\ a[21] = Given("raydiumVault1Mint")
      /\ a[22] = Fixed("tokenProgram") /\ a[23] = Fixed("tokenProgram2022")
      /\ a[24] = Fixed("associatedTokenProgram") /\ a[25] = Fixed("memoProgram")
      /\ a[26] = Fixed("systemProgram")
  BY <1>1, SMTT(30) DEF RemoveVaultAccounts, InvestorMintAccounts, LiquidityRaydiumAccounts,
         LiquidityPrograms, FeesEscrowPdas, GivenAll, FixedAll
<1>3. "removeLiquidityRaydiumVaultStrategy" \in DOMAIN Methods
  BY DEF Methods
<1>4. \A i \in DOMAIN a : a[i].kind \in {"pda", "ata"} => i \in {3, 4, 5, 6, 7, 8, 9, 10}
  BY <1>2, DeclaredFields
<1>5. \A i \in {3, 4, 5, 6, 7, 8, 9, 10, 22} : Unique(a, i)
  BY <1>2, DeclaredFields DEF Unique, ProtocolConfigPda, UsdcEscrowPda, EscrowVaultPda,
         ReservePda, VaultStrategyPda, PositionPda, SwapEscrowPdas, FeesEscrowPdas
<1>6. \A i \in DOMAIN a : a[i].name \in PdaNames => i \in 2..10
  BY <1>2, DeclaredFields DEF PdaNames
<1>7. LET g == Methods["removeLiquidityRaydiumVaultStrategy"].args IN
      /\ 2 \in DOMAIN g /\ g[2].name = "percentage"
  BY DEF Methods, Ix, Arg, StrategyArg, RemoveLiquidityRaydiumVaultStrategyIx
<1>. QED  BY <1>0, <1>2, <1>3, <1>4, <1>5, <1>6, <1>7

\* The address of a declaration, by the number of its seeds.
LEMMA AddressOfNone ==
  ASSUME NEW decl, NEW known, decl.kind = "pda", decl.seeds = <<>>
  PROVE  AddressOf(decl, known) = VaultsAddress(decl.prefix, <<>>)
<1>1. [i \in DOMAIN decl.seeds |-> known[decl.seeds[i]]] = <<>>
  OBVIOUS
<1>. QED  BY <1>1 DEF AddressOf

LEMMA AddressOfOne ==
  ASSUME NEW decl, NEW known, NEW a, decl.kind = "pda", decl.seeds = <<a>>
  PROVE  AddressOf(decl, known) = VaultsAddress(decl.prefix, <<known[a]>>)
<1>1. [i \in DOMAIN decl.seeds |-> known[decl.seeds[i]]] = <<known[a]>>
  OBVIOUS
<1>. QED  BY <1>1 DEF AddressOf

LEMMA AddressOfTwo ==
  ASSUME NEW decl, NEW known, NEW a, NEW b, decl.kind = "pda", decl.seeds = <<a, b>>
  PROVE  AddressOf(decl, known) = VaultsAddress(decl.prefix, <<known[a], known[b]>>)
<1>1. [i \in DOMAIN decl.seeds |-> known[decl.seeds[i]]] = <<known[a], known[b]>>
  OBVIOUS
<1>. QED  BY <1>1 DEF AddressOf

LEMMA AddressOfFour ==
  ASSUME NEW decl, NEW known, NEW a, NEW b, NEW c, NEW d,
         decl.kind = "pda", decl.seeds = <<a, b, c, d>>
  PROVE  AddressOf(decl, known)
           = VaultsAddress(decl.prefix, <<known[a], known[b], known[c], known[d]>>)
<1>1. [i \in DOMAIN decl.seeds |-> known[decl.seeds[i]]]
        = <<known[a], known[b], known[c], known[d]>>
  OBVIOUS
<1>. QED  BY <1>1 DEF AddressOf

\* A derived address tells its prefix, an associated one its mint, and a
\* strategy's its config, its mints and its id.
Listed(decl) ==
  /\ decl.kind = "pda" /\ Len(decl.seeds) \in Nat
  /\ DOMAIN decl.seeds = 1..Len(decl.seeds)

LEMMA PrefixOf ==
  ASSUME NEW decl, NEW known, Listed(decl)
  PROVE  AddressOf(decl, known)[2] = decl.prefix
<1>. DEFINE seeds == [i \in DOMAIN decl.seeds |-> known[decl.seeds[i]]]
            values == {seeds[i] : i \in DOMAIN decl.seeds}
                        \cup {"tokenizedVaults", decl.prefix}
<1>1. seeds \in Seq(values)
  BY DEF Listed
<1>2. <<"tokenizedVaults", decl.prefix>> \in Seq(values)
  OBVIOUS
<1>3. AddressOf(decl, known) = <<"tokenizedVaults", decl.prefix>> \o seeds
  BY DEF Listed, AddressOf, VaultsAddress, ProgramAddress
<1>. HIDE DEF seeds, values
<1>. QED  BY <1>1, <1>2, <1>3

LEMMA MintOf ==
  ASSUME NEW decl, NEW known, NEW a, NEW b, decl.kind = "ata",
         decl.seeds = <<a, "tokenProgram", b>>
  PROVE  /\ AddressOf(decl, known)[2] = NoPrefix
         /\ AddressOf(decl, known)[5] = known[b]
<1>1. AddressOf(decl, known)
        = AssociatedAddress(known[a], known["tokenProgram"], known[b])
  BY DEF AddressOf
<1>. QED  BY <1>1 DEF AssociatedAddress, ProgramAddress

LEMMA StrategyParts ==
  ASSUME NEW p, NEW a, NEW b, NEW c, NEW d, NEW a1, NEW b1, NEW c1, NEW d1,
         VaultsAddress(p, <<a, b, c, d>>) = VaultsAddress(p, <<a1, b1, c1, d1>>)
  PROVE  a = a1 /\ b = b1 /\ c = c1 /\ d = d1
<1>1. \A x, y, z, w : LET t == VaultsAddress(p, <<x, y, z, w>>) IN
        t[3] = x /\ t[4] = y /\ t[5] = z /\ t[6] = w
  BY DEF VaultsAddress, ProgramAddress
<1>. QED  BY <1>1

LEMMA ConfigParts ==
  ASSUME NEW p, NEW a, NEW b, NEW a1, NEW b1,
         VaultsAddress(p, <<a, b>>) = VaultsAddress(p, <<a1, b1>>)
  PROVE  a = a1 /\ b = b1
<1>1. \A x, y : LET t == VaultsAddress(p, <<x, y>>) IN t[3] = x /\ t[4] = y
  BY DEF VaultsAddress, ProgramAddress
<1>. QED  BY <1>1

\* An account is left to the resolver, and its seeds are what the caller has
\* told or derived from that.
Derivable(a, i, told) ==
  /\ Unique(a, i) /\ Derived(a[i]) /\ a[i].name \notin told
  /\ \A seed \in ToSet(a[i].seeds) :
       seed \in told \/ \E j \in DOMAIN a :
         /\ a[j].name = seed /\ Unique(a, j) /\ Derived(a[j])
         /\ ToSet(a[j].seeds) \subseteq told

\* Instruction ix carries what the caller has given, and every account that
\* is left to the resolver is derived.
Understood(m, ix, known, given, args) ==
  LET a == Methods[m].accounts
      told == DOMAIN given \cup DOMAIN args
  IN
  /\ Faithful(m, ix, known, args)
  /\ \A name \in DOMAIN given : known[name] = given[name]
  /\ \A name \in DOMAIN args : name \notin DOMAIN given => known[name] = args[name]
  /\ \A i \in DOMAIN a : Derivable(a, i, told) => known[a[i].name] = AddressOf(a[i], known)

\* The client and the program agree on what the client has built.
LEMMA Received ==
  ASSUME ~IdlIsCommitted, NEW m \in DOMAIN Methods, NEW signers, NEW given, NEW args,
         NEW S, NEW remaining \in Seq(S), Len(Methods[m].accounts) \in Nat,
         DOMAIN Methods[m].accounts = 1..Len(Methods[m].accounts)
  PROVE  Understood(m, Instruction(m, signers, given, args, remaining),
                    ResolveAll(Methods[m].accounts, AndMore(given, args)), given, args)
<1>. DEFINE a == Methods[m].accounts
            more == AndMore(given, args)
            first == Resolve(a, more)
            known == ResolveAll(a, more)
            told == DOMAIN given \cup DOMAIN args
<1>1. Faithful(m, Instruction(m, signers, given, args, remaining), known, args)
  BY Built
<1>2. /\ DOMAIN more = told
      /\ \A name \in DOMAIN given : more[name] = given[name]
      /\ \A name \in DOMAIN args : name \notin DOMAIN given => more[name] = args[name]
  BY DEF AndMore
<1>. HIDE DEF more
<1>3. ASSUME NEW i \in DOMAIN a, Derivable(a, i, told)
      PROVE  known[a[i].name] = AddressOf(a[i], known)
  <2>0. /\ Unique(a, i) /\ Derived(a[i]) /\ a[i].name \notin told
        /\ \A seed \in ToSet(a[i].seeds) :
             seed \in told \/ \E j \in DOMAIN a :
               /\ a[j].name = seed /\ Unique(a, j) /\ Derived(a[j])
               /\ ToSet(a[j].seeds) \subseteq told
    BY <1>3 DEF Derivable
  <2>1. ASSUME NEW seed \in ToSet(a[i].seeds)
        PROVE  seed \in DOMAIN first
    <3>1. CASE seed \in told
      BY <1>2, <3>1, Resolved DEF first
    <3>2. CASE seed \notin told
      <4>1. PICK j \in DOMAIN a : /\ a[j].name = seed /\ Unique(a, j) /\ Derived(a[j])
                                  /\ ToSet(a[j].seeds) \subseteq told
        BY <2>0, <2>1, <3>2
      <4>. QED  BY <1>2, <3>2, <4>1, Resolved DEF first
    <3>. QED  BY <3>1, <3>2
  <2>. HIDE DEF a
  <2>. QED  BY <1>2, <2>0, <2>1, Resolved DEF first, known
<1>4. \A name \in told : known[name] = more[name]
  BY <1>2, Resolved DEF known
<1>5. \A i \in DOMAIN a : Derivable(a, i, told) => known[a[i].name] = AddressOf(a[i], known)
  <2>. HIDE DEF a, told, known
  <2>. QED  BY <1>3
<1>. HIDE DEF known
<1>6. Understood(m, Instruction(m, signers, given, args, remaining), known, given, args)
  BY <1>1, <1>2, <1>4, <1>5 DEF Understood
<1>. QED  BY <1>6 DEF more, known

\* A derived account is at its place in the instruction, and the handler finds
\* it there.
LEMMA Placed ==
  ASSUME NEW m, NEW ix, NEW known, NEW given, NEW args,
         Understood(m, ix, known, given, args), NEW i \in DOMAIN Methods[m].accounts,
         Derivable(Methods[m].accounts, i, DOMAIN given \cup DOMAIN args)
  PROVE  LET decl == Methods[m].accounts[i] IN
         /\ ix.accounts[i] = AddressOf(decl, known)
         /\ known[decl.name] = AddressOf(decl, known)
         /\ ReceivedAccounts(ix)[decl.name] = AddressOf(decl, known)
BY DEF Understood, Faithful

\* The derived accounts of an instruction are all different.
DistinctDerived(ix) ==
  LET declared == Expected(HandlerAt(ix.discriminator)).accounts
      derived == {i \in DOMAIN declared \cap DOMAIN ix.accounts :
                    declared[i].kind \in {"pda", "ata"}}
  IN \A i, j \in derived : ix.accounts[i] = ix.accounts[j] => i = j

\* Only the accounts at the places of set D need to be compared.
LEMMA DistinctAt ==
  ASSUME ~IdlIsCommitted, NEW m \in DOMAIN Methods, NEW ix, NEW known, NEW given, NEW args,
         Understood(m, ix, known, given, args), NEW D,
         \A i \in DOMAIN Methods[m].accounts :
           Methods[m].accounts[i].kind \in {"pda", "ata"} => i \in D,
         \A i, j \in D : ix.accounts[i] = ix.accounts[j] => i = j
  PROVE  DistinctDerived(ix)
<1>1. Expected(HandlerAt(ix.discriminator)) = Methods[m]
  BY Dispatched DEF Understood, Faithful
<1>. QED  BY <1>1 DEF DistinctDerived

\* The derived accounts of method m are at the places of D, and have prefixes
\* of their own.
ByPrefix(m, told, D) ==
  LET a == Methods[m].accounts IN
  /\ D \in SUBSET DOMAIN a
  /\ \A i \in DOMAIN a : a[i].kind \in {"pda", "ata"} => i \in D
  /\ \A i \in D : Derivable(a, i, told)
  /\ \A i \in D : Listed(a[i])
  /\ \A i, j \in D : a[i].prefix = a[j].prefix => i = j

LEMMA DistinctByPrefix ==
  ASSUME ~IdlIsCommitted, NEW m \in DOMAIN Methods, NEW ix, NEW known, NEW given, NEW args,
         Understood(m, ix, known, given, args), NEW D,
         ByPrefix(m, DOMAIN given \cup DOMAIN args, D)
  PROVE  DistinctDerived(ix)
<1>. DEFINE a == Methods[m].accounts
            told == DOMAIN given \cup DOMAIN args
<1>1. ASSUME NEW i \in D
      PROVE  ix.accounts[i][2] = a[i].prefix
  <2>1. Derivable(a, i, told) /\ Listed(a[i]) /\ i \in DOMAIN a
    BY DEF ByPrefix
  <2>2. ix.accounts[i] = AddressOf(a[i], known)
    BY <2>1 DEF Understood, Faithful
  <2>3. AddressOf(a[i], known)[2] = a[i].prefix
    BY <2>1, PrefixOf
  <2>. QED  BY <2>2, <2>3
<1>2. /\ \A i, j \in D : ix.accounts[i] = ix.accounts[j] => i = j
      /\ \A i \in DOMAIN a : a[i].kind \in {"pda", "ata"} => i \in D
  BY <1>1 DEF ByPrefix
<1>. QED  BY <1>2, DistinctAt

LEMMA FixedSeeds ==
  \A n : ToSet(Fixed(n).seeds) = {}
BY DEF Fixed, Account, ToSet

LEMMA NoSeeds ==
  ToSet(<<>>) = {}
BY DEF ToSet

LEMMA OneSeed ==
  ASSUME NEW a
  PROVE  ToSet(<<a>>) = {a}
BY DEF ToSet

LEMMA TwoSeeds ==
  ASSUME NEW a, NEW b
  PROVE  ToSet(<<a, b>>) = {a, b}
BY DEF ToSet

LEMMA ThreeSeeds ==
  ASSUME NEW a, NEW b, NEW c
  PROVE  ToSet(<<a, b, c>>) = {a, b, c}
BY DEF ToSet

LEMMA FourSeeds ==
  ASSUME NEW a, NEW b, NEW c, NEW d
  PROVE  ToSet(<<a, b, c, d>>) = {a, b, c, d}
BY DEF ToSet

\* The derived accounts of each method are derived from what its callers tell.
LEMMA ProtocolDerives ==
  ASSUME NEW m \in {"initProtocolConfig", "pauseProtocol", "unpauseProtocol"}, NEW told,
         {"protocolConfig"} \cap told = {}
  PROVE  LET a == Methods[m].accounts IN
         /\ \A i \in {2} : Derivable(a, i, told)
         /\ \A i \in {2} : Listed(a[i])
         /\ a[2].kind = "pda" /\ a[2].name = "protocolConfig" /\ a[2].prefix = "protocol_config:"
         /\ a[2].seeds = <<>>
<1>0. PICK a : a = Methods[m].accounts
  OBVIOUS
<1>1. /\ a[2] = Pda("protocolConfig", "protocol_config:", <<>>)
      /\ \A i \in {2} : i \in DOMAIN a /\ Unique(a, i)
  BY <1>0, ProtocolDeclares DEF ProtocolConfigPda
<1>2. /\ a[2].kind = "pda" /\ a[2].name = "protocolConfig" /\ a[2].prefix = "protocol_config:"
      /\ a[2].seeds = <<>>
  BY <1>1, DeclaredFields
<1>3. /\ ToSet(a[2].seeds) = {}
  <2>2. ToSet(a[2].seeds) = {}
    BY <1>2, NoSeeds
  <2>. QED  BY <2>2
<1>4. \A i \in {2} : Derivable(a, i, told)
  <2>2. Derivable(a, 2, told)
    BY <1>1, <1>2, <1>3 DEF Derivable, Derived
  <2>. QED  BY <2>2
<1>5. \A i \in {2} : Listed(a[i])
  <2>2. Listed(a[2])
    BY <1>2 DEF Listed
  <2>. QED  BY <2>2
<1>. QED  BY <1>0, <1>2, <1>4, <1>5

LEMMA InitVaultDerives ==
  ASSUME NEW told,
         {"creator", "name"} \subseteq told,
         {"protocolConfig", "vaultStrategyConfig", "vaultStrategyCfgUsdcEscrow"} \cap told = {}
  PROVE  LET a == Methods["initVaultStrategyConfig"].accounts IN
         /\ \A i \in {2, 3, 4} : Derivable(a, i, told)
         /\ \A i \in {2, 3, 4} : Listed(a[i])
         /\ a[2].kind = "pda" /\ a[2].name = "protocolConfig" /\ a[2].prefix = "protocol_config:"
         /\ a[2].seeds = <<>>
         /\ a[3].kind = "pda" /\ a[3].name = "vaultStrategyConfig"
         /\ a[3].prefix = "vault_strategy_config:"
         /\ a[3].seeds = <<"creator", "name">>
         /\ a[4].kind = "pda" /\ a[4].name = "vaultStrategyCfgUsdcEscrow"
         /\ a[4].prefix = "vlt_strategy_cfg_usdc_escrow:"
         /\ a[4].seeds = <<"vaultStrategyConfig">>
<1>0. PICK a : a = Methods["initVaultStrategyConfig"].accounts
  OBVIOUS
<1>1. /\ a[2] = Pda("protocolConfig", "protocol_config:", <<>>)
      /\ a[3] = Pda("vaultStrategyConfig", "vault_strategy_config:", <<"creator", "name">>)
      /\ a[4] = Pda("vaultStrategyCfgUsdcEscrow", "vlt_strategy_cfg_usdc_escrow:",
                    <<"vaultStrategyConfig">>)
      /\ \A i \in {2, 3, 4} : i \in DOMAIN a /\ Unique(a, i)
  BY <1>0, InitVaultDeclares DEF ProtocolConfigPda, UsdcEscrowPda
<1>2. /\ a[2].kind = "pda" /\ a[2].name = "protocolConfig" /\ a[2].prefix = "protocol_config:"
      /\ a[2].seeds = <<>>
      /\ a[3].kind = "pda" /\ a[3].name = "vaultStrategyConfig"
      /\ a[3].prefix = "vault_strategy_config:"
      /\ a[3].seeds = <<"creator", "name">>
      /\ a[4].kind = "pda" /\ a[4].name = "vaultStrategyCfgUsdcEscrow"
      /\ a[4].prefix = "vlt_strategy_cfg_usdc_escrow:"
      /\ a[4].seeds = <<"vaultStrategyConfig">>
  BY <1>1, DeclaredFields
<1>3. /\ ToSet(a[2].seeds) = {}
      /\ ToSet(a[3].seeds) = {"creator", "name"}
      /\ ToSet(a[4].seeds) = {"vaultStrategyConfig"}
  <2>2. ToSet(a[2].seeds) = {}
    BY <1>2, NoSeeds
  <2>3. ToSet(a[3].seeds) = {"creator", "name"}
    BY <1>2, TwoSeeds
  <2>4. ToSet(a[4].seeds) = {"vaultStrategyConfig"}
    BY <1>2, OneSeed
  <2>. QED  BY <2>2, <2>3, <2>4
<1>4. \A i \in {2, 3, 4} : Derivable(a, i, told)
  <2>2. Derivable(a, 2, told)
    BY <1>1, <1>2, <1>3 DEF Derivable, Derived
  <2>3. Derivable(a, 3, told)
    BY <1>1, <1>2, <1>3 DEF Derivable, Derived
  <2>4. Derivable(a, 4, told)
    BY <1>1, <1>2, <1>3 DEF Derivable, Derived
  <2>. QED  BY <2>2, <2>3, <2>4
<1>5. \A i \in {2, 3, 4} : Listed(a[i])
  <2>2. Listed(a[2])
    BY <1>2 DEF Listed
  <2>3. Listed(a[3])
    BY <1>2 DEF Listed
  <2>4. Listed(a[4])
    BY <1>2 DEF Listed
  <2>. QED  BY <2>2, <2>3, <2>4
<1>. QED  BY <1>0, <1>2, <1>4, <1>5

LEMMA CreateDerives ==
  ASSUME NEW told,
         {"vaultStrategyConfig", "raydiumVault0Mint", "raydiumVault1Mint",
          "strategyId", "creator"} \subseteq told,
         {"vaultStrategy", "investorStrategyPosition", "vaultStrategyCfgMint0Escrow",
          "vaultStrategyCfgMint1Escrow", "vaultStrategyCfgMint0FeesEscrow",
          "vaultStrategyCfgMint1FeesEscrow", "vaultStrategyCfgMint0PerfFeesEscrow",
          "vaultStrategyCfgMint1PerfFeesEscrow"} \cap told = {}
  PROVE  LET a == Methods["createRaydiumVaultStrategy"].accounts IN
         /\ \A i \in {3, 4, 5, 6, 7, 8, 9, 10} : Derivable(a, i, told)
         /\ \A i \in {3, 4, 5, 6, 7, 8, 9, 10} : Listed(a[i])
         /\ a[3].kind = "pda" /\ a[3].name = "vaultStrategy" /\ a[3].prefix = "vlt_strtg:"
         /\ a[3].seeds =
              <<"vaultStrategyConfig", "raydiumVault0Mint", "raydiumVault1Mint", "strategyId">>
         /\ a[4].kind = "pda" /\ a[4].name = "investorStrategyPosition"
         /\ a[4].prefix = "inv_strtg_pos:"
         /\ a[4].seeds = <<"vaultStrategy", "creator">>
         /\ a[5].kind = "pda" /\ a[5].name = "vaultStrategyCfgMint0Escrow"
         /\ a[5].prefix = "vlt_swap_ratio_0_escrow:"
         /\ a[5].seeds = <<"vaultStrategyConfig">>
         /\ a[6].kind = "pda" /\ a[6].name = "vaultStrategyCfgMint1Escrow"
         /\ a[6].prefix = "vlt_swap_ratio_1_escrow:"
         /\ a[6].seeds = <<"vaultStrategyConfig">>
         /\ a[7].kind = "pda" /\ a[7].name = "vaultStrategyCfgMint0FeesEscrow"
         /\ a[7].prefix = "vlt_fees_0_escrow:"
         /\ a[7].seeds = <<"vaultStrategyConfig">>
         /\ a[8].kind = "pda" /\ a[8].name = "vaultStrategyCfgMint1FeesEscrow"
         /\ a[8].prefix = "vlt_fees_1_escrow:"
         /\ a[8].seeds = <<"vaultStrategyConfig">>
         /\ a[9].kind = "pda" /\ a[9].name = "vaultStrategyCfgMint0PerfFeesEscrow"
         /\ a[9].prefix = "vlt_perf_fees_0_escrow:"
         /\ a[9].seeds = <<"vaultStrategyConfig">>
         /\ a[10].kind = "pda" /\ a[10].name = "vaultStrategyCfgMint1PerfFeesEscrow"
         /\ a[10].prefix = "vlt_perf_fees_1_escrow:"
         /\ a[10].seeds = <<"vaultStrategyConfig">>
<1>0. PICK a : a = Methods["createRaydiumVaultStrategy"].accounts
  OBVIOUS
<1>1. /\ a[3] = Pda("vaultStrategy", "vlt_strtg:",
                    <<"vaultStrategyConfig", "raydiumVault0Mint", "raydiumVault1Mint",
                      "strategyId">>)
      /\ a[4] = Pda("investorStrategyPosition", "inv_strtg_pos:", <<"vaultStrategy", "creator">>)
      /\ a[5] = Pda("vaultStrategyCfgMint0Escrow", "vlt_swap_ratio_0_escrow:",
                    <<"vaultStrategyConfig">>)
      /\ a[6] = Pda("vaultStrategyCfgMint1Escrow", "vlt_swap_ratio_1_escrow:",
                    <<"vaultStrategyConfig">>)
      /\ a[7] = Pda("vaultStrategyCfgMint0FeesEscrow", "vlt_fees_0_escrow:",
                    <<"vaultStrategyConfig">>)
      /\ a[8] = Pda("vaultStrategyCfgMint1FeesEscrow", "vlt_fees_1_escrow:",
                    <<"vaultStrategyConfig">>)
      /\ a[9] = Pda("vaultStrategyCfgMint0PerfFeesEscrow", "vlt_perf_fees_0_escrow:",
                    <<"vaultStrategyConfig">>)
      /\ a[10] = Pda("vaultStrategyCfgMint1PerfFeesEscrow", "vlt_perf_fees_1_escrow:",
                     <<"vaultStrategyConfig">>)
      /\ \A i \in {3, 4, 5, 6, 7, 8, 9, 10} : i \in DOMAIN a /\ Unique(a, i)
  BY <1>0, CreateDeclares DEF VaultStrategyPda, PositionPda, SwapEscrowPdas, FeesEscrowPdas
<1>2. /\ a[3].kind = "pda" /\ a[3].name = "vaultStrategy" /\ a[3].prefix = "vlt_strtg:"
      /\ a[3].seeds =
           <<"vaultStrategyConfig", "raydiumVault0Mint", "raydiumVault1Mint", "strategyId">>
      /\ a[4].kind = "pda" /\ a[4].name = "investorStrategyPosition"
      /\ a[4].prefix = "inv_strtg_pos:"
      /\ a[4].seeds = <<"vaultStrategy", "creator">>
      /\ a[5].kind = "pda" /\ a[5].name = "vaultStrategyCfgMint0Escrow"
      /\ a[5].prefix = "vlt_swap_ratio_0_escrow:"
      /\ a[5].seeds = <<"vaultStrategyConfig">>
      /\ a[6].kind = "pda" /\ a[6].name = "vaultStrategyCfgMint1Escrow"
      /\ a[6].prefix = "vlt_swap_ratio_1_escrow:"
      /\ a[6].seeds = <<"vaultStrategyConfig">>
      /\ a[7].kind = "pda" /\ a[7].name = "vaultStrategyCfgMint0FeesEscrow"
      /\ a[7].prefix = "vlt_fees_0_escrow:"
      /\ a[7].seeds = <<"vaultStrategyConfig">>
      /\ a[8].kind = "pda" /\ a[8].name = "vaultStrategyCfgMint1FeesEscrow"
      /\ a[8].prefix = "vlt_fees_1_escrow:"
      /\ a[8].seeds = <<"vaultStrategyConfig">>
      /\ a[9].kind = "pda" /\ a[9].name = "vaultStrategyCfgMint0PerfFeesEscrow"
      /\ a[9].prefix = "vlt_perf_fees_0_escrow:"
      /\ a[9].seeds = <<"vaultStrategyConfig">>
      /\ a[10].kind = "pda" /\ a[10].name = "vaultStrategyCfgMint1PerfFeesEscrow"
      /\ a[10].prefix = "vlt_perf_fees_1_escrow:"
      /\ a[10].seeds = <<"vaultStrategyConfig">>
  BY <1>1, DeclaredFields
<1>3. /\ ToSet(a[3].seeds) = {"vaultStrategyConfig", "raydiumVault0Mint", "raydiumVault1Mint",
                              "strategyId"}
      /\ ToSet(a[4].seeds) = {"vaultStrategy", "creator"}
      /\ ToSet(a[5].seeds) = {"vaultStrategyConfig"}
      /\ ToSet(a[6].seeds) = {"vaultStrategyConfig"}
      /\ ToSet(a[7].seeds) = {"vaultStrategyConfig"}
      /\ ToSet(a[8].seeds) = {"vaultStrategyConfig"}
      /\ ToSet(a[9].seeds) = {"vaultStrategyConfig"}
      /\ ToSet(a[10].seeds) = {"vaultStrategyConfig"}
  <2>3. ToSet(a[3].seeds) = {"vaultStrategyConfig", "raydiumVault0Mint", "raydiumVault1Mint",
                             "strategyId"}
    BY <1>2, FourSeeds
  <2>4. ToSet(a[4].seeds) = {"vaultStrategy", "creator"}
    BY <1>2, TwoSeeds
  <2>5. ToSet(a[5].seeds) = {"vaultStrategyConfig"}
    BY <1>2, OneSeed
  <2>6. ToSet(a[6].seeds) = {"vaultStrategyConfig"}
    BY <1>2, OneSeed
  <2>7. ToSet(a[7].seeds) = {"vaultStrategyConfig"}
    BY <1>2, OneSeed
  <2>8. ToSet(a[8].seeds) = {"vaultStrategyConfig"}
    BY <1>2, OneSeed
  <2>9. ToSet(a[9].seeds) = {"vaultStrategyConfig"}
    BY <1>2, OneSeed
  <2>10. ToSet(a[10].seeds) = {"vaultStrategyConfig"}
    BY <1>2, OneSeed
  <2>. QED  BY <2>3, <2>4, <2>5, <2>6, <2>7, <2>8, <2>9, <2>10
<1>4. \A i \in {3, 4, 5, 6, 7, 8, 9, 10} : Derivable(a, i, told)
  <2>3. Derivable(a, 3, told)
    BY <1>1, <1>2, <1>3 DEF Derivable, Derived
  <2>4. Derivable(a, 4, told)
    BY <1>1, <1>2, <1>3 DEF Derivable, Derived
  <2>5. Derivable(a, 5, told)
    BY <1>1, <1>2, <1>3 DEF Derivable, Derived
  <2>6. Derivable(a, 6, told)
    BY <1>1, <1>2, <1>3 DEF Derivable, Derived
  <2>7. Derivable(a, 7, told)
    BY <1>1, <1>2, <1>3 DEF Derivable, Derived
  <2>8. Derivable(a, 8, told)
    BY <1>1, <1>2, <1>3 DEF Derivable, Derived
  <2>9. Derivable(a, 9, told)
    BY <1>1, <1>2, <1>3 DEF Derivable, Derived
  <2>10. Derivable(a, 10, told)
    BY <1>1, <1>2, <1>3 DEF Derivable, Derived
  <2>. QED  BY <2>3, <2>4, <2>5, <2>6, <2>7, <2>8, <2>9, <2>10
<1>5. \A i \in {3, 4, 5, 6, 7, 8, 9, 10} : Listed(a[i])
  <2>3. Listed(a[3])
    BY <1>2 DEF Listed
  <2>4. Listed(a[4])
    BY <1>2 DEF Listed
  <2>5. Listed(a[5])
    BY <1>2 DEF Listed
  <2>6. Listed(a[6])
    BY <1>2 DEF Listed
  <2>7. Listed(a[7])
    BY <1>2 DEF Listed
  <2>8. Listed(a[8])
    BY <1>2 DEF Listed
  <2>9. Listed(a[9])
    BY <1>2 DEF Listed
  <2>10. Listed(a[10])
    BY <1>2 DEF Listed
  <2>. QED  BY <2>3, <2>4, <2>5, <2>6, <2>7, <2>8, <2>9, <2>10
<1>. QED  BY <1>0, <1>2, <1>4, <1>5, SMTT(20)

LEMMA EscrowDerives ==
  ASSUME NEW m \in {"depositToEscrow", "withdrawFromEscrow"}, NEW told,
         {"investor", "usdcMint"} \subseteq told,
         {"escrowVault", "investorTokenAccount", "tokenProgram"} \cap told = {}
  PROVE  LET a == Methods[m].accounts IN
         /\ \A i \in {2, 3} : Derivable(a, i, told)
         /\ \A i \in {2} : Listed(a[i])
         /\ a[2].kind = "pda" /\ a[2].name = "escrowVault" /\ a[2].prefix = "escrow_vault:"
         /\ a[2].seeds = <<"investor">>
         /\ a[3].kind = "ata" /\ a[3].name = "investorTokenAccount"
         /\ a[3].seeds = <<"investor", "tokenProgram", "usdcMint">>
<1>0. PICK a : a = Methods[m].accounts
  OBVIOUS
<1>1. /\ a[2] = Pda("escrowVault", "escrow_vault:", <<"investor">>)
      /\ a[3] = Ata("investorTokenAccount", "investor", "usdcMint")
      /\ a[5] = Fixed("tokenProgram")
      /\ \A i \in {2, 3, 5} : i \in DOMAIN a /\ Unique(a, i)
  BY <1>0, EscrowDeclares DEF EscrowVaultPda
<1>2. /\ a[2].kind = "pda" /\ a[2].name = "escrowVault" /\ a[2].prefix = "escrow_vault:"
      /\ a[2].seeds = <<"investor">>
      /\ a[3].kind = "ata" /\ a[3].name = "investorTokenAccount"
      /\ a[3].seeds = <<"investor", "tokenProgram", "usdcMint">>
      /\ a[5].kind = "fixed" /\ a[5].name = "tokenProgram" /\ ToSet(a[5].seeds) = {}
  BY <1>1, DeclaredFields, FixedSeeds
<1>3. /\ ToSet(a[2].seeds) = {"investor"}
      /\ ToSet(a[3].seeds) = {"investor", "tokenProgram", "usdcMint"}
  <2>2. ToSet(a[2].seeds) = {"investor"}
    BY <1>2, OneSeed
  <2>3. ToSet(a[3].seeds) = {"investor", "tokenProgram", "usdcMint"}
    BY <1>2, ThreeSeeds
  <2>. QED  BY <2>2, <2>3
<1>4. \A i \in {2, 3} : Derivable(a, i, told)
  <2>2. Derivable(a, 2, told)
    BY <1>1, <1>2, <1>3 DEF Derivable, Derived
  <2>3. Derivable(a, 3, told)
    BY <1>1, <1>2, <1>3 DEF Derivable, Derived
  <2>. QED  BY <2>2, <2>3
<1>5. \A i \in {2} : Listed(a[i])
  <2>2. Listed(a[2])
    BY <1>2 DEF Listed
  <2>. QED  BY <2>2
<1>. QED  BY <1>0, <1>2, <1>4, <1>5

LEMMA InvestReserveDerives ==
  ASSUME NEW told,
         {"investor", "vaultStrategyConfig"} \subseteq told,
         {"escrowVault", "vaultStrategyCfgUsdcEscrow", "investReserveVault"} \cap told = {}
  PROVE  LET a == Methods["investReserve"].accounts IN
         /\ \A i \in {3, 4, 5} : Derivable(a, i, told)
         /\ \A i \in {3, 4, 5} : Listed(a[i])
         /\ a[3].kind = "pda" /\ a[3].name = "escrowVault" /\ a[3].prefix = "escrow_vault:"
         /\ a[3].seeds = <<"investor">>
         /\ a[4].kind = "pda" /\ a[4].name = "vaultStrategyCfgUsdcEscrow"
         /\ a[4].prefix = "vlt_strategy_cfg_usdc_escrow:"
         /\ a[4].seeds = <<"vaultStrategyConfig">>
         /\ a[5].kind = "pda" /\ a[5].name = "investReserveVault"
         /\ a[5].prefix = "invest_reserve_vault:"
         /\ a[5].seeds = <<"investor", "vaultStrategyConfig">>
<1>0. PICK a : a = Methods["investReserve"].accounts
  OBVIOUS
<1>1. /\ a[3] = Pda("escrowVault", "escrow_vault:", <<"investor">>)
      /\ a[4] = Pda("vaultStrategyCfgUsdcEscrow", "vlt_strategy_cfg_usdc_escrow:",
                    <<"vaultStrategyConfig">>)
      /\ a[5] = Pda("investReserveVault", "invest_reserve_vault:",
                    <<"investor", "vaultStrategyConfig">>)
      /\ \A i \in {3, 4, 5} : i \in DOMAIN a /\ Unique(a, i)
  BY <1>0, InvestReserveDeclares DEF EscrowVaultPda, UsdcEscrowPda, ReservePda
<1>2. /\ a[3].kind = "pda" /\ a[3].name = "escrowVault" /\ a[3].prefix = "escrow_vault:"
      /\ a[3].seeds = <<"investor">>
      /\ a[4].kind = "pda" /\ a[4].name = "vaultStrategyCfgUsdcEscrow"
      /\ a[4].prefix = "vlt_strategy_cfg_usdc_escrow:"
      /\ a[4].seeds = <<"vaultStrategyConfig">>
      /\ a[5].kind = "pda" /\ a[5].name = "investReserveVault"
      /\ a[5].prefix = "invest_reserve_vault:"
      /\ a[5].seeds = <<"investor", "vaultStrategyConfig">>
  BY <1>1, DeclaredFields
<1>3. /\ ToSet(a[3].seeds) = {"investor"}
      /\ ToSet(a[4].seeds) = {"vaultStrategyConfig"}
      /\ ToSet(a[5].seeds) = {"investor", "vaultStrategyConfig"}
  <2>3. ToSet(a[3].seeds) = {"investor"}
    BY <1>2, OneSeed
  <2>4. ToSet(a[4].seeds) = {"vaultStrategyConfig"}
    BY <1>2, OneSeed
  <2>5. ToSet(a[5].seeds) = {"investor", "vaultStrategyConfig"}
    BY <1>2, TwoSeeds
  <2>. QED  BY <2>3, <2>4, <2>5
<1>4. \A i \in {3, 4, 5} : Derivable(a, i, told)
  <2>3. Derivable(a, 3, told)
    BY <1>1, <1>2, <1>3 DEF Derivable, Derived
  <2>4. Derivable(a, 4, told)
    BY <1>1, <1>2, <1>3 DEF Derivable, Derived
  <2>5. Derivable(a, 5, told)
    BY <1>1, <1>2, <1>3 DEF Derivable, Derived
  <2>. QED  BY <2>3, <2>4, <2>5
<1>5. \A i \in {3, 4, 5} : Listed(a[i])
  <2>3. Listed(a[3])
    BY <1>2 DEF Listed
  <2>4. Listed(a[4])
    BY <1>2 DEF Listed
  <2>5. Listed(a[5])
    BY <1>2 DEF Listed
  <2>. QED  BY <2>3, <2>4, <2>5
<1>. QED  BY <1>0, <1>2, <1>4, <1>5

LEMMA SwapDerives ==
  ASSUME NEW told,
         {"vaultStrategyConfig", "raydiumVault0Mint", "raydiumVault1Mint", "strategyId",
          "investor"} \subseteq told,
         {"vaultStrategy", "investReserveVault", "vaultStrategyCfgUsdcEscrow",
          "vaultStrategyCfgMint0Escrow", "vaultStrategyCfgMint1Escrow"} \cap told = {}
  PROVE  LET a == Methods["swapToRatioRaydiumVaultStrategy"].accounts IN
         /\ \A i \in {3, 4, 5, 6, 7} : Derivable(a, i, told)
         /\ \A i \in {3, 4, 5, 6, 7} : Listed(a[i])
         /\ a[3].kind = "pda" /\ a[3].name = "vaultStrategy" /\ a[3].prefix = "vlt_strtg:"
         /\ a[3].seeds =
              <<"vaultStrategyConfig", "raydiumVault0Mint", "raydiumVault1Mint", "strategyId">>
         /\ a[4].kind = "pda" /\ a[4].name = "investReserveVault"
         /\ a[4].prefix = "invest_reserve_vault:"
         /\ a[4].seeds = <<"investor", "vaultStrategyConfig">>
         /\ a[5].kind = "pda" /\ a[5].name = "vaultStrategyCfgUsdcEscrow"
         /\ a[5].prefix = "vlt_strategy_cfg_usdc_escrow:"
         /\ a[5].seeds = <<"vaultStrategyConfig">>
         /\ a[6].kind = "pda" /\ a[6].name = "vaultStrategyCfgMint0Escrow"
         /\ a[6].prefix = "vlt_swap_ratio_0_escrow:"
         /\ a[6].seeds = <<"vaultStrategyConfig">>
         /\ a[7].kind = "pda" /\ a[7].name = "vaultStrategyCfgMint1Escrow"
         /\ a[7].prefix = "vlt_swap_ratio_1_escrow:"
         /\ a[7].seeds = <<"vaultStrategyConfig">>
<1>0. PICK a : a = Methods["swapToRatioRaydiumVaultStrategy"].accounts
  OBVIOUS
<1>1. /\ a[3] = Pda("vaultStrategy", "vlt_strtg:",
                    <<"vaultStrategyConfig", "raydiumVault0Mint", "raydiumVault1Mint",
                      "strategyId">>)
      /\ a[4] = Pda("investReserveVault", "invest_reserve_vault:",
                    <<"investor", "vaultStrategyConfig">>)
      /\ a[5] = Pda("vaultStrategyCfgUsdcEscrow", "vlt_strategy_cfg_usdc_escrow:",
                    <<"vaultStrategyConfig">>)
      /\ a[6] = Pda("vaultStrategyCfgMint0Escrow", "vlt_swap_ratio_0_escrow:",
                    <<"vaultStrategyConfig">>)
      /\ a[7] = Pda("vaultStrategyCfgMint1Escrow", "vlt_swap_ratio_1_escrow:",
                    <<"vaultStrategyConfig">>)
      /\ \A i \in {3, 4, 5, 6, 7} : i \in DOMAIN a /\ Unique(a, i)
  BY <1>0, SwapDeclares DEF VaultStrategyPda, ReservePda, UsdcEscrowPda, SwapEscrowPdas
<1>2. /\ a[3].kind = "pda" /\ a[3].name = "vaultStrategy" /\ a[3].prefix = "vlt_strtg:"
      /\ a[3].seeds =
           <<"vaultStrategyConfig", "raydiumVault0Mint", "raydiumVault1Mint", "strategyId">>
      /\ a[4].kind = "pda" /\ a[4].name = "investReserveVault"
      /\ a[4].prefix = "invest_reserve_vault:"
      /\ a[4].seeds = <<"investor", "vaultStrategyConfig">>
      /\ a[5].kind = "pda" /\ a[5].name = "vaultStrategyCfgUsdcEscrow"
      /\ a[5].prefix = "vlt_strategy_cfg_usdc_escrow:"
      /\ a[5].seeds = <<"vaultStrategyConfig">>
      /\ a[6].kind = "pda" /\ a[6].name = "vaultStrategyCfgMint0Escrow"
      /\ a[6].prefix = "vlt_swap_ratio_0_escrow:"
      /\ a[6].seeds = <<"vaultStrategyConfig">>
      /\ a[7].kind = "pda" /\ a[7].name = "vaultStrategyCfgMint1Escrow"
      /\ a[7].prefix = "vlt_swap_ratio_1_escrow:"
      /\ a[7].seeds = <<"vaultStrategyConfig">>
  BY <1>1, DeclaredFields
<1>3. /\ ToSet(a[3].seeds) = {"vaultStrategyConfig", "raydiumVault0Mint", "raydiumVault1Mint",
                              "strategyId"}
      /\ ToSet(a[4].seeds) = {"investor", "vaultStrategyConfig"}
      /\ ToSet(a[5].seeds) = {"vaultStrategyConfig"}
      /\ ToSet(a[6].seeds) = {"vaultStrategyConfig"}
      /\ ToSet(a[7].seeds) = {"vaultStrategyConfig"}
  <2>3. ToSet(a[3].seeds) = {"vaultStrategyConfig", "raydiumVault0Mint", "raydiumVault1Mint",
                             "strategyId"}
    BY <1>2, FourSeeds
  <2>4. ToSet(a[4].seeds) = {"investor", "vaultStrategyConfig"}
    BY <1>2, TwoSeeds
  <2>5. ToSet(a[5].seeds) = {"vaultStrategyConfig"}
    BY <1>2, OneSeed
  <2>6. ToSet(a[6].seeds) = {"vaultStrategyConfig"}
    BY <1>2, OneSeed
  <2>7. ToSet(a[7].seeds) = {"vaultStrategyConfig"}
    BY <1>2, OneSeed
  <2>. QED  BY <2>3, <2>4, <2>5, <2>6, <2>7
<1>4. \A i \in {3, 4, 5, 6, 7} : Derivable(a, i, told)
  <2>3. Derivable(a, 3, told)
    BY <1>1, <1>2, <1>3 DEF Derivable, Derived
  <2>4. Derivable(a, 4, told)
    BY <1>1, <1>2, <1>3 DEF Derivable, Derived
  <2>5. Derivable(a, 5, told)
    BY <1>1, <1>2, <1>3 DEF Derivable, Derived
  <2>6. Derivable(a, 6, told)
    BY <1>1, <1>2, <1>3 DEF Derivable, Derived
  <2>7. Derivable(a, 7, told)
    BY <1>1, <1>2, <1>3 DEF Derivable, Derived
  <2>. QED  BY <2>3, <2>4, <2>5, <2>6, <2>7
<1>5. \A i \in {3, 4, 5, 6, 7} : Listed(a[i])
  <2>3. Listed(a[3])
    BY <1>2 DEF Listed
  <2>4. Listed(a[4])
    BY <1>2 DEF Listed
  <2>5. Listed(a[5])
    BY <1>2 DEF Listed
  <2>6. Listed(a[6])
    BY <1>2 DEF Listed
  <2>7. Listed(a[7])
    BY <1>2 DEF Listed
  <2>. QED  BY <2>3, <2>4, <2>5, <2>6, <2>7
<1>. QED  BY <1>0, <1>2, <1>4, <1>5

LEMMA AddDerives ==
  ASSUME NEW told,
         {"vaultStrategyConfig", "raydiumVault0Mint", "raydiumVault1Mint", "strategyId",
          "investor"} \subseteq told,
         {"vaultStrategy", "investReserveVault", "investorStrategyPosition",
          "vaultStrategyCfgMint0Escrow", "vaultStrategyCfgMint1Escrow"} \cap told = {}
  PROVE  LET a == Methods["addLiquidityRaydiumVaultStrategy"].accounts IN
         /\ \A i \in {3, 4, 5, 6, 7} : Derivable(a, i, told)
         /\ \A i \in {3, 4, 5, 6, 7} : Listed(a[i])
         /\ a[3].kind = "pda" /\ a[3].name = "vaultStrategy" /\ a[3].prefix = "vlt_strtg:"
         /\ a[3].seeds =
              <<"vaultStrategyConfig", "raydiumVault0Mint", "raydiumVault1Mint", "strategyId">>
         /\ a[4].kind = "pda" /\ a[4].name = "investReserveVault"
         /\ a[4].prefix = "invest_reserve_vault:"
         /\ a[4].seeds = <<"investor", "vaultStrategyConfig">>
         /\ a[5].kind = "pda" /\ a[5].name = "investorStrategyPosition"
         /\ a[5].prefix = "inv_strtg_pos:"
         /\ a[5].seeds = <<"vaultStrategy", "investor">>
         /\ a[6].kind = "pda" /\ a[6].name = "vaultStrategyCfgMint0Escrow"
         /\ a[6].prefix = "vlt_swap_ratio_0_escrow:"
         /\ a[6].seeds = <<"vaultStrategyConfig">>
         /\ a[7].kind = "pda" /\ a[7].name = "vaultStrategyCfgMint1Escrow"
         /\ a[7].prefix = "vlt_swap_ratio_1_escrow:"
         /\ a[7].seeds = <<"vaultStrategyConfig">>
<1>0. PICK a : a = Methods["addLiquidityRaydiumVaultStrategy"].accounts
  OBVIOUS
<1>1. /\ a[3] = Pda("vaultStrategy", "vlt_strtg:",
                    <<"vaultStrategyConfig", "raydiumVault0Mint", "raydiumVault1Mint",
                      "strategyId">>)
      /\ a[4] = Pda("investReserveVault", "invest_reserve_vault:",
                    <<"investor", "vaultStrategyConfig">>)
      /\ a[5] = Pda("investorStrategyPosition", "inv_strtg_pos:", <<"vaultStrategy", "investor">>)
      /\ a[6] = Pda("vaultStrategyCfgMint0Escrow", "vlt_swap_ratio_0_escrow:",
                    <<"vaultStrategyConfig">>)
      /\ a[7] = Pda("vaultStrategyCfgMint1Escrow", "vlt_swap_ratio_1_escrow:",
                    <<"vaultStrategyConfig">>)
      /\ \A i \in {3, 4, 5, 6, 7} : i \in DOMAIN a /\ Unique(a, i)
  BY <1>0, AddDeclares DEF VaultStrategyPda, ReservePda, PositionPda, SwapEscrowPdas
<1>2. /\ a[3].kind = "pda" /\ a[3].name = "vaultStrategy" /\ a[3].prefix = "vlt_strtg:"
      /\ a[3].seeds =
           <<"vaultStrategyConfig", "raydiumVault0Mint", "raydiumVault1Mint", "strategyId">>
      /\ a[4].kind = "pda" /\ a[4].name = "investReserveVault"
      /\ a[4].prefix = "invest_reserve_vault:"
      /\ a[4].seeds = <<"investor", "vaultStrategyConfig">>
      /\ a[5].kind = "pda" /\ a[5].name = "investorStrategyPosition"
      /\ a[5].prefix = "inv_strtg_pos:"
      /\ a[5].seeds = <<"vaultStrategy", "investor">>
      /\ a[6].kind = "pda" /\ a[6].name = "vaultStrategyCfgMint0Escrow"
      /\ a[6].prefix = "vlt_swap_ratio_0_escrow:"
      /\ a[6].seeds = <<"vaultStrategyConfig">>
      /\ a[7].kind = "pda" /\ a[7].name = "vaultStrategyCfgMint1Escrow"
      /\ a[7].prefix = "vlt_swap_ratio_1_escrow:"
      /\ a[7].seeds = <<"vaultStrategyConfig">>
  BY <1>1, DeclaredFields
<1>3. /\ ToSet(a[3].seeds) = {"vaultStrategyConfig", "raydiumVault0Mint", "raydiumVault1Mint",
                              "strategyId"}
      /\ ToSet(a[4].seeds) = {"investor", "vaultStrategyConfig"}
      /\ ToSet(a[5].seeds) = {"vaultStrategy", "investor"}
      /\ ToSet(a[6].seeds) = {"vaultStrategyConfig"}
      /\ ToSet(a[7].seeds) = {"vaultStrategyConfig"}
  <2>3. ToSet(a[3].seeds) = {"vaultStrategyConfig", "raydiumVault0Mint", "raydiumVault1Mint",
                             "strategyId"}
    BY <1>2, FourSeeds
  <2>4. ToSet(a[4].seeds) = {"investor", "vaultStrategyConfig"}
    BY <1>2, TwoSeeds
  <2>5. ToSet(a[5].seeds) = {"vaultStrategy", "investor"}
    BY <1>2, TwoSeeds
  <2>6. ToSet(a[6].seeds) = {"vaultStrategyConfig"}
    BY <1>2, OneSeed
  <2>7. ToSet(a[7].seeds) = {"vaultStrategyConfig"}
    BY <1>2, OneSeed
  <2>. QED  BY <2>3, <2>4, <2>5, <2>6, <2>7
<1>4. \A i \in {3, 4, 5, 6, 7} : Derivable(a, i, told)
  <2>3. Derivable(a, 3, told)
    BY <1>1, <1>2, <1>3 DEF Derivable, Derived
  <2>4. Derivable(a, 4, told)
    BY <1>1, <1>2, <1>3 DEF Derivable, Derived
  <2>5. Derivable(a, 5, told)
    BY <1>1, <1>2, <1>3 DEF Derivable, Derived
  <2>6. Derivable(a, 6, told)
    BY <1>1, <1>2, <1>3 DEF Derivable, Derived
  <2>7. Derivable(a, 7, told)
    BY <1>1, <1>2, <1>3 DEF Derivable, Derived
  <2>. QED  BY <2>3, <2>4, <2>5, <2>6, <2>7
<1>5. \A i \in {3, 4, 5, 6, 7} : Listed(a[i])
  <2>3. Listed(a[3])
    BY <1>2 DEF Listed
  <2>4. Listed(a[4])
    BY <1>2 DEF Listed
  <2>5. Listed(a[5])
    BY <1>2 DEF Listed
  <2>6. Listed(a[6])
    BY <1>2 DEF Listed
  <2>7. Listed(a[7])
    BY <1>2 DEF Listed
  <2>. QED  BY <2>3, <2>4, <2>5, <2>6, <2>7
<1>. QED  BY <1>0, <1>2, <1>4, <1>5

LEMMA RemoveDerives ==
  ASSUME NEW told,
         {"vaultStrategyConfig", "raydiumVault0Mint", "raydiumVault1Mint", "strategyId",
          "investor"} \subseteq told,
         {"vaultStrategy", "investorStrategyPosition", "vaultStrategyCfgMint0FeesEscrow",
          "vaultStrategyCfgMint1FeesEscrow", "vaultStrategyCfgMint0PerfFeesEscrow",
          "vaultStrategyCfgMint1PerfFeesEscrow", "investorMint0Account", "investorMint1Account",
          "tokenProgram"} \cap told = {}
  PROVE  LET a == Methods["removeLiquidityRaydiumVaultStrategy"].accounts IN
         /\ \A i \in {3, 4, 5, 6, 7, 8, 9, 10} : Derivable(a, i, told)
         /\ \A i \in {3, 4, 7, 8, 9, 10} : Listed(a[i])
         /\ a[3].kind = "pda" /\ a[3].name = "vaultStrategy" /\ a[3].prefix = "vlt_strtg:"
         /\ a[3].seeds =
              <<"vaultStrategyConfig", "raydiumVault0Mint", "raydiumVault1Mint", "strategyId">>
         /\ a[4].kind = "pda" /\ a[4].name = "investorStrategyPosition"
         /\ a[4].prefix = "inv_strtg_pos:"
         /\ a[4].seeds = <<"vaultStrategy", "investor">>
         /\ a[5].kind = "ata" /\ a[5].name = "investorMint0Account"
         /\ a[5].seeds = <<"investor", "tokenProgram", "raydiumVault0Mint">>
         /\ a[6].kind = "ata" /\ a[6].name = "investorMint1Account"
         /\ a[6].seeds = <<"investor", "tokenProgram", "raydiumVault1Mint">>
         /\ a[7].kind = "pda" /\ a[7].name = "vaultStrategyCfgMint0FeesEscrow"
         /\ a[7].prefix = "vlt_fees_0_escrow:"
         /\ a[7].seeds = <<"vaultStrategyConfig">>
         /\ a[8].kind = "pda" /\ a[8].name = "vaultStrategyCfgMint1FeesEscrow"
         /\ a[8].prefix = "vlt_fees_1_escrow:"
         /\ a[8].seeds = <<"vaultStrategyConfig">>
         /\ a[9].kind = "pda" /\ a[9].name = "vaultStrategyCfgMint0PerfFeesEscrow"
         /\ a[9].prefix = "vlt_perf_fees_0_escrow:"
         /\ a[9].seeds = <<"vaultStrategyConfig">>
         /\ a[10].kind = "pda" /\ a[10].name = "vaultStrategyCfgMint1PerfFeesEscrow"
         /\ a[10].prefix = "vlt_perf_fees_1_escrow:"
         /\ a[10].seeds = <<"vaultStrategyConfig">>
<1>0. PICK a : a = Methods["removeLiquidityRaydiumVaultStrategy"].accounts
  OBVIOUS
<1>1. /\ a[3] = Pda("vaultStrategy", "vlt_strtg:",
                    <<"vaultStrategyConfig", "raydiumVault0Mint", "raydiumVault1Mint",
                      "strategyId">>)
      /\ a[4] = Pda("investorStrategyPosition", "inv_strtg_pos:", <<"vaultStrategy", "investor">>)
      /\ a[5] = Ata("investorMint0Account", "investor", "raydiumVault0Mint")
      /\ a[6] = Ata("investorMint1Account", "investor", "raydiumVault1Mint")
      /\ a[7] = Pda("vaultStrategyCfgMint0FeesEscrow", "vlt_fees_0_escrow:",
                    <<"vaultStrategyConfig">>)
      /\ a[8] = Pda("vaultStrategyCfgMint1FeesEscrow", "vlt_fees_1_escrow:",
                    <<"vaultStrategyConfig">>)
      /\ a[9] = Pda("vaultStrategyCfgMint0PerfFeesEscrow", "vlt_perf_fees_0_escrow:",
                    <<"vaultStrategyConfig">>)
      /\ a[10] = Pda("vaultStrategyCfgMint1PerfFeesEscrow", "vlt_perf_fees_1_escrow:",
                     <<"vaultStrategyConfig">>)
      /\ a[22] = Fixed("tokenProgram")
      /\ \A i \in {3, 4, 5, 6, 7, 8, 9, 10, 22} : i \in DOMAIN a /\ Unique(a, i)
  BY <1>0, RemoveDeclares DEF VaultStrategyPda, PositionPda, FeesEscrowPdas
<1>2. /\ a[3].kind = "pda" /\ a[3].name = "vaultStrategy" /\ a[3].prefix = "vlt_strtg:"
      /\ a[3].seeds =
           <<"vaultStrategyConfig", "raydiumVault0Mint", "raydiumVault1Mint", "strategyId">>
      /\ a[4].kind = "pda" /\ a[4].name = "investorStrategyPosition"
      /\ a[4].prefix = "inv_strtg_pos:"
      /\ a[4].seeds = <<"vaultStrategy", "investor">>
      /\ a[5].kind = "ata" /\ a[5].name = "investorMint0Account"
      /\ a[5].seeds = <<"investor", "tokenProgram", "raydiumVault0Mint">>
      /\ a[6].kind = "ata" /\ a[6].name = "investorMint1Account"
      /\ a[6].seeds = <<"investor", "tokenProgram", "raydiumVault1Mint">>
      /\ a[7].kind = "pda" /\ a[7].name = "vaultStrategyCfgMint0FeesEscrow"
      /\ a[7].prefix = "vlt_fees_0_escrow:"
      /\ a[7].seeds = <<"vaultStrategyConfig">>
      /\ a[8].kind = "pda" /\ a[8].name = "vaultStrategyCfgMint1FeesEscrow"
      /\ a[8].prefix = "vlt_fees_1_escrow:"
      /\ a[8].seeds = <<"vaultStrategyConfig">>
      /\ a[9].kind = "pda" /\ a[9].name = "vaultStrategyCfgMint0PerfFeesEscrow"
      /\ a[9].prefix = "vlt_perf_fees_0_escrow:"
      /\ a[9].seeds = <<"vaultStrategyConfig">>
      /\ a[10].kind = "pda" /\ a[10].name = "vaultStrategyCfgMint1PerfFeesEscrow"
      /\ a[10].prefix = "vlt_perf_fees_1_escrow:"
      /\ a[10].seeds = <<"vaultStrategyConfig">>
      /\ a[22].kind = "fixed" /\ a[22].name = "tokenProgram" /\ ToSet(a[22].seeds) = {}
  BY <1>1, DeclaredFields, FixedSeeds
<1>3. /\ ToSet(a[3].seeds) = {"vaultStrategyConfig", "raydiumVault0Mint", "raydiumVault1Mint",
                              "strategyId"}
      /\ ToSet(a[4].seeds) = {"vaultStrategy", "investor"}
      /\ ToSet(a[5].seeds) = {"investor", "tokenProgram", "raydiumVault0Mint"}
      /\ ToSet(a[6].seeds) = {"investor", "tokenProgram", "raydiumVault1Mint"}
      /\ ToSet(a[7].seeds) = {"vaultStrategyConfig"}
      /\ ToSet(a[8].seeds) = {"vaultStrategyConfig"}
      /\ ToSet(a[9].seeds) = {"vaultStrategyConfig"}
      /\ ToSet(a[10].seeds) = {"vaultStrategyConfig"}
  <2>3. ToSet(a[3].seeds) = {"vaultStrategyConfig", "raydiumVault0Mint", "raydiumVault1Mint",
                             "strategyId"}
    BY <1>2, FourSeeds
  <2>4. ToSet(a[4].seeds) = {"vaultStrategy", "investor"}
    BY <1>2, TwoSeeds
  <2>5. ToSet(a[5].seeds) = {"investor", "tokenProgram", "raydiumVault0Mint"}
    BY <1>2, ThreeSeeds
  <2>6. ToSet(a[6].seeds) = {"investor", "tokenProgram", "raydiumVault1Mint"}
    BY <1>2, ThreeSeeds
  <2>7. ToSet(a[7].seeds) = {"vaultStrategyConfig"}
    BY <1>2, OneSeed
  <2>8. ToSet(a[8].seeds) = {"vaultStrategyConfig"}
    BY <1>2, OneSeed
  <2>9. ToSet(a[9].seeds) = {"vaultStrategyConfig"}
    BY <1>2, OneSeed
  <2>10. ToSet(a[10].seeds) = {"vaultStrategyConfig"}
    BY <1>2, OneSeed
  <2>. QED  BY <2>3, <2>4, <2>5, <2>6, <2>7, <2>8, <2>9, <2>10
<1>4. \A i \in {3, 4, 5, 6, 7, 8, 9, 10} : Derivable(a, i, told)
  <2>3. Derivable(a, 3, told)
    BY <1>1, <1>2, <1>3 DEF Derivable, Derived
  <2>4. Derivable(a, 4, told)
    BY <1>1, <1>2, <1>3 DEF Derivable, Derived
  <2>5. Derivable(a, 5, told)
    BY <1>1, <1>2, <1>3 DEF Derivable, Derived
  <2>6. Derivable(a, 6, told)
    BY <1>1, <1>2, <1>3 DEF Derivable, Derived
  <2>7. Derivable(a, 7, told)
    BY <1>1, <1>2, <1>3 DEF Derivable, Derived
  <2>8. Derivable(a, 8, told)
    BY <1>1, <1>2, <1>3 DEF Derivable, Derived
  <2>9. Derivable(a, 9, told)
    BY <1>1, <1>2, <1>3 DEF Derivable, Derived
  <2>10. Derivable(a, 10, told)
    BY <1>1, <1>2, <1>3 DEF Derivable, Derived
  <2>. QED  BY <2>3, <2>4, <2>5, <2>6, <2>7, <2>8, <2>9, <2>10
<1>5. \A i \in {3, 4, 7, 8, 9, 10} : Listed(a[i])
  <2>3. Listed(a[3])
    BY <1>2 DEF Listed
  <2>4. Listed(a[4])
    BY <1>2 DEF Listed
  <2>7. Listed(a[7])
    BY <1>2 DEF Listed
  <2>8. Listed(a[8])
    BY <1>2 DEF Listed
  <2>9. Listed(a[9])
    BY <1>2 DEF Listed
  <2>10. Listed(a[10])
    BY <1>2 DEF Listed
  <2>. QED  BY <2>3, <2>4, <2>7, <2>8, <2>9, <2>10
<1>. QED  BY <1>0, <1>2, <1>4, <1>5, SMTT(20)

\* The admin's methods are for the one who signs them.
LEMMA AdminCall ==
  ASSUME ~IdlIsCommitted, NEW u, NEW fees,
         NEW m \in {"initProtocolConfig", "pauseProtocol", "unpauseProtocol"}
  PROVE  LET ix == adminMethod(u, m, fees)[1] IN
         /\ HandlerAt(ix.discriminator) = m
         /\ DistinctDerived(ix)
<1>. DEFINE given == [adminAuthority |-> Key(u)]
            args == [protocolFees |-> fees]
            a == Methods[m].accounts
            known == ResolveAll(a, AndMore(given, args))
            ix == Instruction(m, {Key(u)}, given, args, <<>>)
            told == DOMAIN given \cup DOMAIN args
<1>1. /\ m \in DOMAIN Methods /\ Len(a) \in Nat /\ DOMAIN a = 1..Len(a)
      /\ {2} \in SUBSET DOMAIN a
      /\ \A i \in DOMAIN a : a[i].kind \in {"pda", "ata"} => i \in {2}
      /\ <<>> \in Seq({})
  BY ProtocolDeclares
<1>2. Understood(m, ix, known, given, args)
  <2>. HIDE DEF given, args
  <2>. QED  BY <1>1, Received
<1>3. {"protocolConfig"} \cap told = {}
  OBVIOUS
<1>4. adminMethod(u, m, fees)[1] = ix
  BY DEF adminMethod
<1>. HIDE DEF given, args, known, ix, told
<1>5. /\ \A i \in {2} : Derivable(a, i, told)
      /\ \A i \in {2} : Listed(a[i])
  BY <1>3, ProtocolDerives
<1>. HIDE DEF a
<1>6. DistinctDerived(ix)
  <2>1. ByPrefix(m, told, {2})
    BY <1>1, <1>5 DEF ByPrefix, a
  <2>. QED  BY <1>1, <1>2, <2>1, DistinctByPrefix DEF told
<1>7. HandlerAt(ix.discriminator) = m
  BY <1>2 DEF Understood, Faithful
<1>. QED  BY <1>4, <1>6, <1>7

\* A config is the one that its creator and its name give.
LEMMA InitVaultCall ==
  ASSUME ~IdlIsCommitted, NEW c, NEW fee
  PROVE  LET ix == createVaultStrategyConfigTx(c, fee)[1] IN
         /\ HandlerAt(ix.discriminator) = "initVaultStrategyConfig"
         /\ DistinctDerived(ix)
<1>. DEFINE m == "initVaultStrategyConfig"
            given == [creator |-> Key(CreatorOf[c]), usdcMint |-> Key(getTokens.USDC)]
            args == [name |-> Key(c), performanceFee |-> fee, vaultStrategyType |-> 1]
            a == Methods[m].accounts
            known == ResolveAll(a, AndMore(given, args))
            ix == Instruction(m, {Key(CreatorOf[c])}, given, args, <<>>)
            told == DOMAIN given \cup DOMAIN args
<1>1. /\ m \in DOMAIN Methods /\ Len(a) \in Nat /\ DOMAIN a = 1..Len(a)
      /\ {2, 3, 4} \in SUBSET DOMAIN a
      /\ \A i \in DOMAIN a : a[i].kind \in {"pda", "ata"} => i \in {2, 3, 4}
      /\ <<>> \in Seq({})
  BY InitVaultDeclares
<1>2. Understood(m, ix, known, given, args)
  <2>. HIDE DEF given, args
  <2>. QED  BY <1>1, Received
<1>3. /\ {"creator", "name"} \subseteq told
      /\ {"protocolConfig", "vaultStrategyConfig", "vaultStrategyCfgUsdcEscrow"} \cap told = {}
  OBVIOUS
<1>4. createVaultStrategyConfigTx(c, fee)[1] = ix
  BY DEF createVaultStrategyConfigTx
<1>. HIDE DEF given, args, known, ix, told
<1>5. /\ \A i \in {2, 3, 4} : Derivable(a, i, told)
      /\ \A i \in {2, 3, 4} : Listed(a[i])
      /\ \A i, j \in {2, 3, 4} : a[i].prefix = a[j].prefix => i = j
  BY <1>3, InitVaultDerives
<1>. HIDE DEF a
<1>6. DistinctDerived(ix)
  <2>1. ByPrefix(m, told, {2, 3, 4})
    BY <1>1, <1>5 DEF ByPrefix, a
  <2>. QED  BY <1>1, <1>2, <2>1, DistinctByPrefix DEF told
<1>7. HandlerAt(ix.discriminator) = m
  BY <1>2 DEF Understood, Faithful
<1>. QED  BY <1>4, <1>6, <1>7

\* A deposit to the escrow, or a withdrawal, is for the one who signs it.
LEMMA EscrowCall ==
  ASSUME ~IdlIsCommitted, NEW m \in {"depositToEscrow", "withdrawFromEscrow"},
         NEW u, NEW amount
  PROVE  LET ix == Instruction(m, {Key(u)},
                     [investor |-> Key(u), usdcMint |-> Key(getTokens.USDC)],
                     [amount |-> amount], <<>>)
         IN
         /\ HandlerAt(ix.discriminator) = m
         /\ ReceivedAccounts(ix).investor = Key(u)
         /\ ReceivedArgs(ix).amount = amount
         /\ DistinctDerived(ix)
<1>. DEFINE given == [investor |-> Key(u), usdcMint |-> Key(getTokens.USDC)]
            args == [amount |-> amount]
            a == Methods[m].accounts
            known == ResolveAll(a, AndMore(given, args))
            ix == Instruction(m, {Key(u)}, given, args, <<>>)
            told == DOMAIN given \cup DOMAIN args
<1>1. /\ m \in DOMAIN Methods /\ Len(a) \in Nat /\ DOMAIN a = 1..Len(a)
      /\ {2, 3} \in SUBSET DOMAIN a
      /\ \A i \in DOMAIN a : a[i].kind \in {"pda", "ata"} => i \in {2, 3}
      /\ <<>> \in Seq({})
  BY EscrowDeclares
<1>2. Understood(m, ix, known, given, args)
  <2>. HIDE DEF given, args
  <2>. QED  BY <1>1, Received
<1>3. /\ {"investor", "usdcMint"} \subseteq told
      /\ {"escrowVault", "investorTokenAccount", "tokenProgram"} \cap told = {}
  OBVIOUS
<1>4. /\ DOMAIN given = {"investor", "usdcMint"} /\ DOMAIN args = {"amount"}
      /\ given["investor"] = Key(u) /\ args["amount"] = amount
  OBVIOUS
<1>. HIDE DEF given, args, known, ix, told
<1>5. /\ HandlerAt(ix.discriminator) = m
      /\ ReceivedAccounts(ix)["investor"] = Key(u)
      /\ ReceivedArgs(ix)["amount"] = amount
  BY <1>2, <1>4, EscrowDeclares, DeclaredFields DEF Understood, Faithful
<1>6. /\ Derivable(a, 2, told) /\ Derivable(a, 3, told) /\ Listed(a[2])
      /\ a[2].prefix = "escrow_vault:" /\ a[3].kind = "ata"
      /\ a[3].seeds = <<"investor", "tokenProgram", "usdcMint">>
  BY <1>3, EscrowDerives
<1>. HIDE DEF a
<1>7. ix.accounts[2] = AddressOf(a[2], known) /\ ix.accounts[3] = AddressOf(a[3], known)
  BY <1>1, <1>2, <1>6 DEF Understood, Faithful, a, told
<1>8. AddressOf(a[2], known)[2] = "escrow_vault:" /\ AddressOf(a[3], known)[2] = NoPrefix
  BY <1>6, PrefixOf, MintOf
<1>9. ix.accounts[2] # ix.accounts[3]
  BY <1>7, <1>8 DEF NoPrefix
<1>10. \A i, j \in {2, 3} : ix.accounts[i] = ix.accounts[j] => i = j
  BY <1>9
<1>11. DistinctDerived(ix)
  BY <1>1, <1>2, <1>10, DistinctAt DEF a
<1>. QED  BY <1>5, <1>11 DEF ix, given, args

\* The two mints of the client in the order of their bytes, and the address of
\* a strategy whose legs they are.
Sorted == SortedMints(getTokens.token0, getTokens.token1)
ClientStrategy(s) ==
  VaultsAddress("vlt_strtg:", <<ConfigAddress(ConfigOf[s]), Key(Sorted[1]), Key(Sorted[2]),
                                u8ToBytes(StrategyId[s])>>)

\* What protocolPDAs derives for a strategy and an investor.
PdasOf(s, user) ==
  protocolPDAs(Key(CreatorOf[ConfigOf[s]]), Key(user), Key(ConfigOf[s]), StrategyId[s],
               getTokens.token0, getTokens.token1)

LEMMA PdaFields ==
  ASSUME NEW s, NEW user
  PROVE  LET pdas == PdasOf(s, user)
             config == ConfigAddress(ConfigOf[s])
         IN
         /\ DOMAIN pdas = PdaNames
         /\ pdas["vaultStrategyConfig"] = config
         /\ pdas["vaultStrategy"] = ClientStrategy(s)
         /\ pdas["investReserveVault"]
              = VaultsAddress("invest_reserve_vault:", <<Key(user), config>>)
         /\ pdas["investorStrategyPosition"]
              = VaultsAddress("inv_strtg_pos:", <<ClientStrategy(s), Key(user)>>)
         /\ pdas["vaultStrategyCfgUsdcEscrow"]
              = VaultsAddress("vlt_strategy_cfg_usdc_escrow:", <<config>>)
         /\ pdas["vaultStrategyCfgMint0Escrow"]
              = VaultsAddress("vlt_swap_ratio_0_escrow:", <<config>>)
         /\ pdas["vaultStrategyCfgMint1Escrow"]
              = VaultsAddress("vlt_swap_ratio_1_escrow:", <<config>>)
         /\ pdas["vaultStrategyCfgMint0FeesEscrow"]
              = VaultsAddress("vlt_fees_0_escrow:", <<config>>)
         /\ pdas["vaultStrategyCfgMint1FeesEscrow"]
              = VaultsAddress("vlt_fees_1_escrow:", <<config>>)
         /\ pdas["vaultStrategyCfgMint0PerfFeesEscrow"]
              = VaultsAddress("vlt_perf_fees_0_escrow:", <<config>>)
         /\ pdas["vaultStrategyCfgMint1PerfFeesEscrow"]
              = VaultsAddress("vlt_perf_fees_1_escrow:", <<config>>)
BY DEF PdasOf, protocolPDAs, PdaNames, ConfigAddress, ClientStrategy, Sorted,
       VaultStrategyAddress

\* Instruction ix has the accounts that protocolPDAs derives.
Agrees(ix, s, user) ==
  LET a == ReceivedAccounts(ix) IN
  \A name \in DOMAIN PdasOf(s, user) \cap DOMAIN a : PdasOf(s, user)[name] = a[name]

LEMMA AgreesByName ==
  ASSUME NEW m, NEW ix, NEW known, NEW given, NEW args,
         Understood(m, ix, known, given, args), NEW s, NEW user,
         \A i \in DOMAIN Methods[m].accounts :
           Methods[m].accounts[i].name \in PdaNames =>
             known[Methods[m].accounts[i].name] = PdasOf(s, user)[Methods[m].accounts[i].name]
  PROVE  Agrees(ix, s, user)
<1>. DEFINE a == Methods[m].accounts
<1>1. ASSUME NEW name \in DOMAIN PdasOf(s, user) \cap DOMAIN ReceivedAccounts(ix)
      PROVE  PdasOf(s, user)[name] = ReceivedAccounts(ix)[name]
  <2>1. name \in PdaNames
    BY PdaFields
  <2>2. PICK i \in DOMAIN a : a[i].name = name
    BY DEF Understood, Faithful
  <2>3. ReceivedAccounts(ix)[a[i].name] = known[a[i].name]
    BY DEF Understood, Faithful
  <2>. QED  BY <2>1, <2>2, <2>3
<1>. QED  BY <1>1 DEF Agrees

\* What add and remove tell of a strategy.
LEMMA LiquidityTold ==
  ASSUME NEW u, NEW s
  PROVE  LET g == LiquidityGiven(u, s) IN
         /\ DOMAIN g = {"investor", "vaultStrategyConfig", "raydiumPositionNftAccount",
                        "raydiumPoolState", "raydiumPersonalPosition",
                        "raydiumProtocolPosition", "raydiumTickArrayLower",
                        "raydiumTickArrayUpper", "raydiumTokenVault0", "raydiumTokenVault1",
                        "raydiumVault0Mint", "raydiumVault1Mint"}
         /\ g["investor"] = Key(u)
         /\ g["vaultStrategyConfig"] = ConfigAddress(ConfigOf[s])
         /\ g["raydiumVault0Mint"] = Key(Sorted[1])
         /\ g["raydiumVault1Mint"] = Key(Sorted[2])
<1>1. FetchedPDAs.mint0 = Sorted[1] /\ FetchedPDAs.mint1 = Sorted[2]
  BY DEF FetchedPDAs, raydiumPDAs, AndMore, Sorted
<1>. QED  BY <1>1 DEF LiquidityGiven

\* An investment in a strategy is in the config of the strategy.
LEMMA InvestReserveCall ==
  ASSUME ~IdlIsCommitted, NEW u, NEW s, NEW amount
  PROVE  LET ix == investReserveIx(u, s, amount) IN
         /\ HandlerAt(ix.discriminator) = "investReserve"
         /\ ReceivedAccounts(ix).investor = Key(u)
         /\ ReceivedAccounts(ix).vaultStrategyConfig = ConfigAddress(ConfigOf[s])
         /\ ReceivedArgs(ix).amount = amount * LAMPORTS_PER_USDC
         /\ DistinctDerived(ix)
         /\ Agrees(ix, s, u)
<1>. DEFINE m == "investReserve"
            given == [investor |-> Key(u), vaultStrategyConfig |-> ConfigAddress(ConfigOf[s]),
                      usdcMint |-> Key(getTokens.USDC)]
            args == [amount |-> amount * LAMPORTS_PER_USDC]
            a == Methods[m].accounts
            known == ResolveAll(a, AndMore(given, args))
            remaining == <<>>
            ix == Instruction(m, {Key(u)}, given, args, remaining)
            told == DOMAIN given \cup DOMAIN args
<1>1. /\ m \in DOMAIN Methods /\ Len(a) \in Nat /\ DOMAIN a = 1..Len(a)
      /\ {3, 4, 5} \in SUBSET DOMAIN a
      /\ \A i \in DOMAIN a : a[i].kind \in {"pda", "ata"} => i \in {3, 4, 5}
      /\ \A i \in DOMAIN a : a[i].name \in PdaNames => i \in 2..5
  BY InvestReserveDeclares
<1>2. 1 \in DOMAIN Methods[m].args /\ Methods[m].args[1].name = "amount"
  BY InvestReserveDeclares
<1>3. /\ 1 \in DOMAIN a /\ 2 \in DOMAIN a /\ a[1].name = "investor"
      /\ a[2].name = "vaultStrategyConfig"
  BY InvestReserveDeclares, DeclaredFields
<1>4. investReserveIx(u, s, amount) = ix
  BY DEF investReserveIx
<1>5. remaining \in Seq({})
  OBVIOUS
<1>6. Understood(m, ix, known, given, args)
  <2>. HIDE DEF given, args, remaining
  <2>. QED  BY <1>1, <1>5, Received
<1>7. /\ {"investor", "vaultStrategyConfig"} \subseteq DOMAIN given
      /\ given["investor"] = Key(u)
      /\ given["vaultStrategyConfig"] = ConfigAddress(ConfigOf[s])
      /\ "amount" \in DOMAIN args /\ args["amount"] = amount * LAMPORTS_PER_USDC
      /\ {"escrowVault", "vaultStrategyCfgUsdcEscrow", "investReserveVault"} \cap told = {}
  OBVIOUS
<1>. HIDE DEF given, args, known, ix, told
<1>8. told = DOMAIN given \cup DOMAIN args
  BY DEF told
<1>9. /\ \A i \in {3, 4, 5} : Derivable(a, i, told)
      /\ \A i \in {3, 4, 5} : Listed(a[i])
      /\ a[3].kind = "pda" /\ a[3].name = "escrowVault" /\ a[3].prefix = "escrow_vault:"
      /\ a[3].seeds = <<"investor">>
      /\ a[4].kind = "pda" /\ a[4].name = "vaultStrategyCfgUsdcEscrow"
      /\ a[4].prefix = "vlt_strategy_cfg_usdc_escrow:"
      /\ a[4].seeds = <<"vaultStrategyConfig">>
      /\ a[5].kind = "pda" /\ a[5].name = "investReserveVault"
      /\ a[5].prefix = "invest_reserve_vault:"
      /\ a[5].seeds = <<"investor", "vaultStrategyConfig">>
  BY <1>7, <1>8, InvestReserveDerives
<1>. HIDE DEF a, m
<1>10. DistinctDerived(ix)
  <2>1. \A i, j \in {3, 4, 5} : a[i].prefix = a[j].prefix => i = j
    BY <1>9
  <2>2. ByPrefix(m, told, {3, 4, 5})
    BY <1>1, <1>9, <2>1 DEF ByPrefix, a
  <2>. QED  BY <1>1, <1>6, <1>8, <2>2, DistinctByPrefix
<1>11. /\ known["investor"] = Key(u)
       /\ known["vaultStrategyConfig"] = ConfigAddress(ConfigOf[s])
  BY <1>6, <1>7 DEF Understood
<1>12. \A i \in {3, 4, 5} : known[a[i].name] = AddressOf(a[i], known)
  BY <1>1, <1>6, <1>8, <1>9 DEF Understood, a
<1>13. known["vaultStrategyCfgUsdcEscrow"]
         = VaultsAddress("vlt_strategy_cfg_usdc_escrow:", <<ConfigAddress(ConfigOf[s])>>)
  <2>1. AddressOf(a[4], known) =
          VaultsAddress("vlt_strategy_cfg_usdc_escrow:", <<known["vaultStrategyConfig"]>>)
    BY <1>9, AddressOfOne
  <2>. QED  BY <1>9, <1>11, <1>12, <2>1
<1>14. known["investReserveVault"]
         = VaultsAddress("invest_reserve_vault:", <<Key(u), ConfigAddress(ConfigOf[s])>>)
  <2>1. AddressOf(a[5], known) =
          VaultsAddress("invest_reserve_vault:",
            <<known["investor"], known["vaultStrategyConfig"]>>)
    BY <1>9, AddressOfTwo
  <2>. QED  BY <1>9, <1>11, <1>12, <2>1
<1>15. ASSUME NEW i \in DOMAIN a, a[i].name \in PdaNames
       PROVE  known[a[i].name] = PdasOf(s, u)[a[i].name]
  <2>1. i \in 2..5
    BY <1>1, <1>15
  <2>2. CASE i = 2
    <3>1. PdasOf(s, u)["vaultStrategyConfig"] = ConfigAddress(ConfigOf[s])
      BY PdaFields
    <3>. QED  BY <1>3, <1>11, <2>2, <3>1
  <2>3. CASE i = 3
    BY <1>9, <1>15, <2>3 DEF PdaNames
  <2>4. CASE i = 4
    <3>1. PdasOf(s, u)["vaultStrategyCfgUsdcEscrow"] = known["vaultStrategyCfgUsdcEscrow"]
      BY <1>13, PdaFields
    <3>2. a[4].name = "vaultStrategyCfgUsdcEscrow"
      BY <1>9
    <3>. QED  BY <2>4, <3>1, <3>2
  <2>5. CASE i = 5
    <3>1. PdasOf(s, u)["investReserveVault"] = known["investReserveVault"]
      BY <1>14, PdaFields
    <3>2. a[5].name = "investReserveVault"
      BY <1>9
    <3>. QED  BY <2>5, <3>1, <3>2
  <2>. QED  BY <2>1, <2>2, <2>3, <2>4, <2>5
<1>16. Agrees(ix, s, u)
  BY <1>6, <1>15, AgreesByName DEF a
<1>17. /\ HandlerAt(ix.discriminator) = m
       /\ ReceivedAccounts(ix)["investor"] = Key(u)
       /\ ReceivedAccounts(ix)["vaultStrategyConfig"] = ConfigAddress(ConfigOf[s])
       /\ ReceivedArgs(ix)["amount"] = amount * LAMPORTS_PER_USDC
  <2>1. HandlerAt(ix.discriminator) = m
    BY <1>6 DEF Understood, Faithful
  <2>2. ReceivedAccounts(ix)[a[1].name] = known[a[1].name]
    BY <1>3, <1>6 DEF Understood, Faithful, a
  <2>3. ReceivedAccounts(ix)[a[2].name] = known[a[2].name]
    BY <1>1, <1>3, <1>6 DEF Understood, Faithful, a
  <2>4. ReceivedArgs(ix)["amount"] = args["amount"]
    BY <1>2, <1>6 DEF Understood, Faithful
  <2>. QED  BY <1>3, <1>7, <1>11, <2>1, <2>2, <2>3, <2>4
<1>. QED  BY <1>4, <1>10, <1>16, <1>17 DEF m

\* A swap is for the strategy it is called for, and for the one who signs it.
LEMMA SwapCall ==
  ASSUME ~IdlIsCommitted, NEW u, NEW s
  PROVE  LET ix == swapToRatioIx(u, s) IN
         /\ HandlerAt(ix.discriminator) = "swapToRatioRaydiumVaultStrategy"
         /\ ReceivedAccounts(ix).investor = Key(u)
         /\ ReceivedAccounts(ix).vaultStrategy = ClientStrategy(s)
         /\ DistinctDerived(ix)
         /\ Agrees(ix, s, u)
<1>. DEFINE m == "swapToRatioRaydiumVaultStrategy"
            swapped ==
             [raydiumAmmConfigUsdcForToken0 |-> raydiumAmmConfig,
              raydiumPoolStateUsdcForToken0 |-> FetchedPDAs.poolStateUSDCWithMint0,
              raydiumAmmConfigUsdcForToken1 |-> raydiumAmmConfig,
              raydiumPoolStateUsdcForToken1 |-> FetchedPDAs.poolStateUSDCWithMint1,
              raydiumVault0Input |-> FetchedPDAs.usdcWithMint0VaultInput,
              raydiumVault1Input |-> FetchedPDAs.usdcWithMint1VaultInput,
              raydiumVault0Output |-> FetchedPDAs.usdcWithMint0VaultOutput,
              raydiumVault1Output |-> FetchedPDAs.usdcWithMint1VaultOutput,
              usdcMint |-> Key(getTokens.USDC),
              raydiumObservationState0 |-> ObservationOf(FetchedPDAs.poolStateUSDCWithMint0),
              raydiumObservationState1 |-> ObservationOf(FetchedPDAs.poolStateUSDCWithMint1)]
            given == AndMore(swapped, LiquidityGiven(u, s))
            args == [strategyId |-> u8ToBytes(StrategyId[s]), token0AmountOutMin |-> 0,
                     token1AmountOutMin |-> 0]
            a == Methods[m].accounts
            known == ResolveAll(a, AndMore(given, args))
            remaining == <<FetchedPDAs.bitmapExtUSDCWithMint0, Key("systemProgram"),
                   FetchedPDAs.bitmapExtUSDCWithMint1>>
            ix == Instruction(m, {Key(u)}, given, args, remaining)
            told == DOMAIN given \cup DOMAIN args
<1>1. /\ m \in DOMAIN Methods /\ Len(a) \in Nat /\ DOMAIN a = 1..Len(a)
      /\ {3, 4, 5, 6, 7} \in SUBSET DOMAIN a
      /\ \A i \in DOMAIN a : a[i].kind \in {"pda", "ata"} => i \in {3, 4, 5, 6, 7}
      /\ \A i \in DOMAIN a : a[i].name \in PdaNames => i \in 2..7
  BY SwapDeclares
<1>3. /\ 1 \in DOMAIN a /\ 2 \in DOMAIN a /\ a[1].name = "investor"
      /\ a[2].name = "vaultStrategyConfig"
  BY SwapDeclares, DeclaredFields
<1>4. swapToRatioIx(u, s) = ix
  BY DEF swapToRatioIx
<1>5. remaining \in Seq({remaining[i] : i \in 1..3})
  OBVIOUS
<1>6. Understood(m, ix, known, given, args)
  <2>. HIDE DEF given, args, remaining
  <2>. QED  BY <1>1, <1>5, Received
<1>7. /\ {"vaultStrategyConfig", "raydiumVault0Mint",
          "raydiumVault1Mint", "investor"} \subseteq DOMAIN given
      /\ given["investor"] = Key(u)
      /\ given["vaultStrategyConfig"] = ConfigAddress(ConfigOf[s])
      /\ given["raydiumVault0Mint"] = Key(Sorted[1])
      /\ given["raydiumVault1Mint"] = Key(Sorted[2])
      /\ "strategyId" \in DOMAIN args /\ args["strategyId"] = u8ToBytes(StrategyId[s])
      /\ "strategyId" \notin DOMAIN given
      /\ {"vaultStrategy", "investReserveVault", "vaultStrategyCfgUsdcEscrow",
          "vaultStrategyCfgMint0Escrow", "vaultStrategyCfgMint1Escrow"} \cap told = {}
  <2>1. /\ DOMAIN given = DOMAIN swapped \cup DOMAIN LiquidityGiven(u, s)
        /\ \A n \in DOMAIN LiquidityGiven(u, s) :
             n \notin DOMAIN swapped => given[n] = LiquidityGiven(u, s)[n]
    BY DEF AndMore
  <2>2. DOMAIN swapped =
          {"raydiumAmmConfigUsdcForToken0", "raydiumPoolStateUsdcForToken0",
           "raydiumAmmConfigUsdcForToken1", "raydiumPoolStateUsdcForToken1",
           "raydiumVault0Input", "raydiumVault1Input", "raydiumVault0Output",
           "raydiumVault1Output", "usdcMint", "raydiumObservationState0",
           "raydiumObservationState1"}
    OBVIOUS
  <2>3. /\ DOMAIN args = {"strategyId", "token0AmountOutMin", "token1AmountOutMin"}
        /\ args["strategyId"] = u8ToBytes(StrategyId[s])
    OBVIOUS
  <2>. HIDE DEF given, args, swapped
  <2>. QED  BY <2>1, <2>2, <2>3, LiquidityTold
<1>. HIDE DEF given, args, known, ix, told
<1>8. told = DOMAIN given \cup DOMAIN args
  BY DEF told
<1>9. /\ \A i \in {3, 4, 5, 6, 7} : Derivable(a, i, told)
      /\ \A i \in {3, 4, 5, 6, 7} : Listed(a[i])
      /\ a[3].kind = "pda" /\ a[3].name = "vaultStrategy" /\ a[3].prefix = "vlt_strtg:"
      /\ a[3].seeds =
           <<"vaultStrategyConfig", "raydiumVault0Mint", "raydiumVault1Mint", "strategyId">>
      /\ a[4].kind = "pda" /\ a[4].name = "investReserveVault"
      /\ a[4].prefix = "invest_reserve_vault:"
      /\ a[4].seeds = <<"investor", "vaultStrategyConfig">>
      /\ a[5].kind = "pda" /\ a[5].name = "vaultStrategyCfgUsdcEscrow"
      /\ a[5].prefix = "vlt_strategy_cfg_usdc_escrow:"
      /\ a[5].seeds = <<"vaultStrategyConfig">>
      /\ a[6].kind = "pda" /\ a[6].name = "vaultStrategyCfgMint0Escrow"
      /\ a[6].prefix = "vlt_swap_ratio_0_escrow:"
      /\ a[6].seeds = <<"vaultStrategyConfig">>
      /\ a[7].kind = "pda" /\ a[7].name = "vaultStrategyCfgMint1Escrow"
      /\ a[7].prefix = "vlt_swap_ratio_1_escrow:"
      /\ a[7].seeds = <<"vaultStrategyConfig">>
  BY <1>7, <1>8, SwapDerives
<1>. HIDE DEF a, m
<1>10. DistinctDerived(ix)
  <2>1. \A i, j \in {3, 4, 5, 6, 7} : a[i].prefix = a[j].prefix => i = j
    BY <1>9
  <2>2. ByPrefix(m, told, {3, 4, 5, 6, 7})
    BY <1>1, <1>9, <2>1 DEF ByPrefix, a
  <2>. QED  BY <1>1, <1>6, <1>8, <2>2, DistinctByPrefix
<1>11. /\ known["investor"] = Key(u)
       /\ known["vaultStrategyConfig"] = ConfigAddress(ConfigOf[s])
       /\ known["raydiumVault0Mint"] = Key(Sorted[1])
       /\ known["raydiumVault1Mint"] = Key(Sorted[2])
       /\ known["strategyId"] = u8ToBytes(StrategyId[s])
  BY <1>6, <1>7 DEF Understood
<1>12. \A i \in {3, 4, 5, 6, 7} : known[a[i].name] = AddressOf(a[i], known)
  BY <1>1, <1>6, <1>8, <1>9 DEF Understood, a
<1>13. known["vaultStrategy"] = ClientStrategy(s)
  <2>1. AddressOf(a[3], known) =
          VaultsAddress("vlt_strtg:",
            <<known["vaultStrategyConfig"], known["raydiumVault0Mint"],
              known["raydiumVault1Mint"], known["strategyId"]>>)
    BY <1>9, AddressOfFour
  <2>. QED  BY <1>9, <1>11, <1>12, <2>1 DEF ClientStrategy
<1>14. known["investReserveVault"]
         = VaultsAddress("invest_reserve_vault:", <<Key(u), ConfigAddress(ConfigOf[s])>>)
  <2>1. AddressOf(a[4], known) =
          VaultsAddress("invest_reserve_vault:",
            <<known["investor"], known["vaultStrategyConfig"]>>)
    BY <1>9, AddressOfTwo
  <2>. QED  BY <1>9, <1>11, <1>12, <2>1
<1>15. known["vaultStrategyCfgUsdcEscrow"]
         = VaultsAddress("vlt_strategy_cfg_usdc_escrow:", <<ConfigAddress(ConfigOf[s])>>)
  <2>1. AddressOf(a[5], known) =
          VaultsAddress("vlt_strategy_cfg_usdc_escrow:", <<known["vaultStrategyConfig"]>>)
    BY <1>9, AddressOfOne
  <2>. QED  BY <1>9, <1>11, <1>12, <2>1
<1>16. known["vaultStrategyCfgMint0Escrow"]
         = VaultsAddress("vlt_swap_ratio_0_escrow:", <<ConfigAddress(ConfigOf[s])>>)
  <2>1. AddressOf(a[6], known) =
          VaultsAddress("vlt_swap_ratio_0_escrow:", <<known["vaultStrategyConfig"]>>)
    BY <1>9, AddressOfOne
  <2>. QED  BY <1>9, <1>11, <1>12, <2>1
<1>17. known["vaultStrategyCfgMint1Escrow"]
         = VaultsAddress("vlt_swap_ratio_1_escrow:", <<ConfigAddress(ConfigOf[s])>>)
  <2>1. AddressOf(a[7], known) =
          VaultsAddress("vlt_swap_ratio_1_escrow:", <<known["vaultStrategyConfig"]>>)
    BY <1>9, AddressOfOne
  <2>. QED  BY <1>9, <1>11, <1>12, <2>1
<1>18. ASSUME NEW i \in DOMAIN a, a[i].name \in PdaNames
       PROVE  known[a[i].name] = PdasOf(s, u)[a[i].name]
  <2>1. i \in 2..7
    BY <1>1, <1>18
  <2>2. CASE i = 2
    <3>1. PdasOf(s, u)["vaultStrategyConfig"] = ConfigAddress(ConfigOf[s])
      BY PdaFields
    <3>. QED  BY <1>3, <1>11, <2>2, <3>1
  <2>3. CASE i = 3
    <3>1. PdasOf(s, u)["vaultStrategy"] = known["vaultStrategy"]
      BY <1>13, PdaFields
    <3>2. a[3].name = "vaultStrategy"
      BY <1>9
    <3>. QED  BY <2>3, <3>1, <3>2
  <2>4. CASE i = 4
    <3>1. PdasOf(s, u)["investReserveVault"] = known["investReserveVault"]
      BY <1>14, PdaFields
    <3>2. a[4].name = "investReserveVault"
      BY <1>9
    <3>. QED  BY <2>4, <3>1, <3>2
  <2>5. CASE i = 5
    <3>1. PdasOf(s, u)["vaultStrategyCfgUsdcEscrow"] = known["vaultStrategyCfgUsdcEscrow"]
      BY <1>15, PdaFields
    <3>2. a[5].name = "vaultStrategyCfgUsdcEscrow"
      BY <1>9
    <3>. QED  BY <2>5, <3>1, <3>2
  <2>6. CASE i = 6
    <3>1. PdasOf(s, u)["vaultStrategyCfgMint0Escrow"] = known["vaultStrategyCfgMint0Escrow"]
      BY <1>16, PdaFields
    <3>2. a[6].name = "vaultStrategyCfgMint0Escrow"
      BY <1>9
    <3>. QED  BY <2>6, <3>1, <3>2
  <2>7. CASE i = 7
    <3>1. PdasOf(s, u)["vaultStrategyCfgMint1Escrow"] = known["vaultStrategyCfgMint1Escrow"]
      BY <1>17, PdaFields
    <3>2. a[7].name = "vaultStrategyCfgMint1Escrow"
      BY <1>9
    <3>. QED  BY <2>7, <3>1, <3>2
  <2>. QED  BY <2>1, <2>2, <2>3, <2>4, <2>5, <2>6, <2>7
<1>19. Agrees(ix, s, u)
  BY <1>6, <1>18, AgreesByName DEF a
<1>20. /\ HandlerAt(ix.discriminator) = m
       /\ ReceivedAccounts(ix)["investor"] = Key(u)
       /\ ReceivedAccounts(ix)["vaultStrategy"] = ClientStrategy(s)
  <2>1. HandlerAt(ix.discriminator) = m
    BY <1>6 DEF Understood, Faithful
  <2>2. ReceivedAccounts(ix)[a[1].name] = known[a[1].name]
    BY <1>3, <1>6 DEF Understood, Faithful, a
  <2>3. ReceivedAccounts(ix)[a[3].name] = known[a[3].name]
    BY <1>1, <1>3, <1>6 DEF Understood, Faithful, a
  <2>5. a[3].name = "vaultStrategy"
    BY <1>9
  <2>. QED  BY <1>3, <1>7, <1>11, <1>13, <2>1, <2>2, <2>3, <2>5
<1>. QED  BY <1>4, <1>10, <1>19, <1>20 DEF m

\* So is the addition of liquidity.
LEMMA AddCall ==
  ASSUME ~IdlIsCommitted, NEW u, NEW s
  PROVE  LET ix == addLiquidityIx(u, s) IN
         /\ HandlerAt(ix.discriminator) = "addLiquidityRaydiumVaultStrategy"
         /\ ReceivedAccounts(ix).investor = Key(u)
         /\ ReceivedAccounts(ix).vaultStrategy = ClientStrategy(s)
         /\ DistinctDerived(ix)
         /\ Agrees(ix, s, u)
<1>. DEFINE m == "addLiquidityRaydiumVaultStrategy"
            given == LiquidityGiven(u, s)
            args == [strategyId |-> u8ToBytes(StrategyId[s])]
            a == Methods[m].accounts
            known == ResolveAll(a, AndMore(given, args))
            remaining == <<FetchedPDAs.bitmapExtMint0WithMint1>>
            ix == Instruction(m, {Key(u)}, given, args, remaining)
            told == DOMAIN given \cup DOMAIN args
<1>1. /\ m \in DOMAIN Methods /\ Len(a) \in Nat /\ DOMAIN a = 1..Len(a)
      /\ {3, 4, 5, 6, 7} \in SUBSET DOMAIN a
      /\ \A i \in DOMAIN a : a[i].kind \in {"pda", "ata"} => i \in {3, 4, 5, 6, 7}
      /\ \A i \in DOMAIN a : a[i].name \in PdaNames => i \in 2..7
  BY AddDeclares
<1>3. /\ 1 \in DOMAIN a /\ 2 \in DOMAIN a /\ a[1].name = "investor"
      /\ a[2].name = "vaultStrategyConfig"
  BY AddDeclares, DeclaredFields
<1>4. addLiquidityIx(u, s) = ix
  BY DEF addLiquidityIx
<1>5. remaining \in Seq({remaining[i] : i \in 1..1})
  OBVIOUS
<1>6. Understood(m, ix, known, given, args)
  <2>. HIDE DEF given, args, remaining
  <2>. QED  BY <1>1, <1>5, Received
<1>7. /\ {"vaultStrategyConfig", "raydiumVault0Mint",
          "raydiumVault1Mint", "investor"} \subseteq DOMAIN given
      /\ given["investor"] = Key(u)
      /\ given["vaultStrategyConfig"] = ConfigAddress(ConfigOf[s])
      /\ given["raydiumVault0Mint"] = Key(Sorted[1])
      /\ given["raydiumVault1Mint"] = Key(Sorted[2])
      /\ "strategyId" \in DOMAIN args /\ args["strategyId"] = u8ToBytes(StrategyId[s])
      /\ "strategyId" \notin DOMAIN given
      /\ {"vaultStrategy", "investReserveVault", "investorStrategyPosition",
          "vaultStrategyCfgMint0Escrow", "vaultStrategyCfgMint1Escrow"} \cap told = {}
  BY LiquidityTold
<1>. HIDE DEF given, args, known, ix, told
<1>8. told = DOMAIN given \cup DOMAIN args
  BY DEF told
<1>9. /\ \A i \in {3, 4, 5, 6, 7} : Derivable(a, i, told)
      /\ \A i \in {3, 4, 5, 6, 7} : Listed(a[i])
      /\ a[3].kind = "pda" /\ a[3].name = "vaultStrategy" /\ a[3].prefix = "vlt_strtg:"
      /\ a[3].seeds =
           <<"vaultStrategyConfig", "raydiumVault0Mint", "raydiumVault1Mint", "strategyId">>
      /\ a[4].kind = "pda" /\ a[4].name = "investReserveVault"
      /\ a[4].prefix = "invest_reserve_vault:"
      /\ a[4].seeds = <<"investor", "vaultStrategyConfig">>
      /\ a[5].kind = "pda" /\ a[5].name = "investorStrategyPosition"
      /\ a[5].prefix = "inv_strtg_pos:"
      /\ a[5].seeds = <<"vaultStrategy", "investor">>
      /\ a[6].kind = "pda" /\ a[6].name = "vaultStrategyCfgMint0Escrow"
      /\ a[6].prefix = "vlt_swap_ratio_0_escrow:"
      /\ a[6].seeds = <<"vaultStrategyConfig">>
      /\ a[7].kind = "pda" /\ a[7].name = "vaultStrategyCfgMint1Escrow"
      /\ a[7].prefix = "vlt_swap_ratio_1_escrow:"
      /\ a[7].seeds = <<"vaultStrategyConfig">>
  BY <1>7, <1>8, AddDerives
<1>. HIDE DEF a, m
<1>10. DistinctDerived(ix)
  <2>1. \A i, j \in {3, 4, 5, 6, 7} : a[i].prefix = a[j].prefix => i = j
    BY <1>9
  <2>2. ByPrefix(m, told, {3, 4, 5, 6, 7})
    BY <1>1, <1>9, <2>1 DEF ByPrefix, a
  <2>. QED  BY <1>1, <1>6, <1>8, <2>2, DistinctByPrefix
<1>11. /\ known["investor"] = Key(u)
       /\ known["vaultStrategyConfig"] = ConfigAddress(ConfigOf[s])
       /\ known["raydiumVault0Mint"] = Key(Sorted[1])
       /\ known["raydiumVault1Mint"] = Key(Sorted[2])
       /\ known["strategyId"] = u8ToBytes(StrategyId[s])
  BY <1>6, <1>7 DEF Understood
<1>12. \A i \in {3, 4, 5, 6, 7} : known[a[i].name] = AddressOf(a[i], known)
  BY <1>1, <1>6, <1>8, <1>9 DEF Understood, a
<1>13. known["vaultStrategy"] = ClientStrategy(s)
  <2>1. AddressOf(a[3], known) =
          VaultsAddress("vlt_strtg:",
            <<known["vaultStrategyConfig"], known["raydiumVault0Mint"],
              known["raydiumVault1Mint"], known["strategyId"]>>)
    BY <1>9, AddressOfFour
  <2>. QED  BY <1>9, <1>11, <1>12, <2>1 DEF ClientStrategy
<1>14. known["investReserveVault"]
         = VaultsAddress("invest_reserve_vault:", <<Key(u), ConfigAddress(ConfigOf[s])>>)
  <2>1. AddressOf(a[4], known) =
          VaultsAddress("invest_reserve_vault:",
            <<known["investor"], known["vaultStrategyConfig"]>>)
    BY <1>9, AddressOfTwo
  <2>. QED  BY <1>9, <1>11, <1>12, <2>1
<1>15. known["investorStrategyPosition"]
         = VaultsAddress("inv_strtg_pos:", <<ClientStrategy(s), Key(u)>>)
  <2>1. AddressOf(a[5], known) =
          VaultsAddress("inv_strtg_pos:", <<known["vaultStrategy"], known["investor"]>>)
    BY <1>9, AddressOfTwo
  <2>. QED  BY <1>9, <1>11, <1>12, <1>13, <2>1
<1>16. known["vaultStrategyCfgMint0Escrow"]
         = VaultsAddress("vlt_swap_ratio_0_escrow:", <<ConfigAddress(ConfigOf[s])>>)
  <2>1. AddressOf(a[6], known) =
          VaultsAddress("vlt_swap_ratio_0_escrow:", <<known["vaultStrategyConfig"]>>)
    BY <1>9, AddressOfOne
  <2>. QED  BY <1>9, <1>11, <1>12, <2>1
<1>17. known["vaultStrategyCfgMint1Escrow"]
         = VaultsAddress("vlt_swap_ratio_1_escrow:", <<ConfigAddress(ConfigOf[s])>>)
  <2>1. AddressOf(a[7], known) =
          VaultsAddress("vlt_swap_ratio_1_escrow:", <<known["vaultStrategyConfig"]>>)
    BY <1>9, AddressOfOne
  <2>. QED  BY <1>9, <1>11, <1>12, <2>1
<1>18. ASSUME NEW i \in DOMAIN a, a[i].name \in PdaNames
       PROVE  known[a[i].name] = PdasOf(s, u)[a[i].name]
  <2>1. i \in 2..7
    BY <1>1, <1>18
  <2>2. CASE i = 2
    <3>1. PdasOf(s, u)["vaultStrategyConfig"] = ConfigAddress(ConfigOf[s])
      BY PdaFields
    <3>. QED  BY <1>3, <1>11, <2>2, <3>1
  <2>3. CASE i = 3
    <3>1. PdasOf(s, u)["vaultStrategy"] = known["vaultStrategy"]
      BY <1>13, PdaFields
    <3>2. a[3].name = "vaultStrategy"
      BY <1>9
    <3>. QED  BY <2>3, <3>1, <3>2
  <2>4. CASE i = 4
    <3>1. PdasOf(s, u)["investReserveVault"] = known["investReserveVault"]
      BY <1>14, PdaFields
    <3>2. a[4].name = "investReserveVault"
      BY <1>9
    <3>. QED  BY <2>4, <3>1, <3>2
  <2>5. CASE i = 5
    <3>1. PdasOf(s, u)["investorStrategyPosition"] = known["investorStrategyPosition"]
      BY <1>15, PdaFields
    <3>2. a[5].name = "investorStrategyPosition"
      BY <1>9
    <3>. QED  BY <2>5, <3>1, <3>2
  <2>6. CASE i = 6
    <3>1. PdasOf(s, u)["vaultStrategyCfgMint0Escrow"] = known["vaultStrategyCfgMint0Escrow"]
      BY <1>16, PdaFields
    <3>2. a[6].name = "vaultStrategyCfgMint0Escrow"
      BY <1>9
    <3>. QED  BY <2>6, <3>1, <3>2
  <2>7. CASE i = 7
    <3>1. PdasOf(s, u)["vaultStrategyCfgMint1Escrow"] = known["vaultStrategyCfgMint1Escrow"]
      BY <1>17, PdaFields
    <3>2. a[7].name = "vaultStrategyCfgMint1Escrow"
      BY <1>9
    <3>. QED  BY <2>7, <3>1, <3>2
  <2>. QED  BY <2>1, <2>2, <2>3, <2>4, <2>5, <2>6, <2>7
<1>19. Agrees(ix, s, u)
  BY <1>6, <1>18, AgreesByName DEF a
<1>20. /\ HandlerAt(ix.discriminator) = m
       /\ ReceivedAccounts(ix)["investor"] = Key(u)
       /\ ReceivedAccounts(ix)["vaultStrategy"] = ClientStrategy(s)
  <2>1. HandlerAt(ix.discriminator) = m
    BY <1>6 DEF Understood, Faithful
  <2>2. ReceivedAccounts(ix)[a[1].name] = known[a[1].name]
    BY <1>3, <1>6 DEF Understood, Faithful, a
  <2>3. ReceivedAccounts(ix)[a[3].name] = known[a[3].name]
    BY <1>1, <1>3, <1>6 DEF Understood, Faithful, a
  <2>5. a[3].name = "vaultStrategy"
    BY <1>9
  <2>. QED  BY <1>3, <1>7, <1>11, <1>13, <2>1, <2>2, <2>3, <2>5
<1>. QED  BY <1>4, <1>10, <1>19, <1>20 DEF m

\* So is the removal of liquidity, whose tokens go to two accounts, as the legs of a
\* strategy are of two mints.
LEMMA RemoveCall ==
  ASSUME ~IdlIsCommitted, NEW u, NEW s, NEW percentage,
         Key(Sorted[1]) # Key(Sorted[2])
  PROVE  LET ix == removeLiquidityRaydiumStrategyTx(u, s, percentage)[1] IN
         /\ HandlerAt(ix.discriminator) = "removeLiquidityRaydiumVaultStrategy"
         /\ ReceivedAccounts(ix).investor = Key(u)
         /\ ReceivedAccounts(ix).vaultStrategy = ClientStrategy(s)
         /\ ReceivedArgs(ix).percentage = percentage * DENOMINATOR_MULTIPLIER
         /\ DistinctDerived(ix)
         /\ Agrees(ix, s, u)
<1>. DEFINE m == "removeLiquidityRaydiumVaultStrategy"
            given == LiquidityGiven(u, s)
            args == [strategyId |-> u8ToBytes(StrategyId[s]),
                     percentage |-> percentage * DENOMINATOR_MULTIPLIER,
                     amount0Min |-> 0, amount1Min |-> 0]
            a == Methods[m].accounts
            known == ResolveAll(a, AndMore(given, args))
            remaining == <<FetchedPDAs.bitmapExtMint0WithMint1>>
            ix == Instruction(m, {Key(u)}, given, args, remaining)
            told == DOMAIN given \cup DOMAIN args
<1>1. /\ m \in DOMAIN Methods /\ Len(a) \in Nat /\ DOMAIN a = 1..Len(a)
      /\ {3, 4, 5, 6, 7, 8, 9, 10} \in SUBSET DOMAIN a
      /\ \A i \in DOMAIN a : a[i].kind \in {"pda", "ata"} => i \in {3, 4, 5, 6, 7, 8, 9, 10}
      /\ \A i \in DOMAIN a : a[i].name \in PdaNames => i \in 2..10
  BY RemoveDeclares
<1>2. 2 \in DOMAIN Methods[m].args /\ Methods[m].args[2].name = "percentage"
  BY RemoveDeclares
<1>3. /\ 1 \in DOMAIN a /\ 2 \in DOMAIN a /\ a[1].name = "investor"
      /\ a[2].name = "vaultStrategyConfig"
  BY RemoveDeclares, DeclaredFields
<1>4. removeLiquidityRaydiumStrategyTx(u, s, percentage)[1] = ix
  BY DEF removeLiquidityRaydiumStrategyTx
<1>5. remaining \in Seq({remaining[i] : i \in 1..1})
  OBVIOUS
<1>6. Understood(m, ix, known, given, args)
  <2>. HIDE DEF given, args, remaining
  <2>. QED  BY <1>1, <1>5, Received
<1>7. /\ {"vaultStrategyConfig", "raydiumVault0Mint",
          "raydiumVault1Mint", "investor"} \subseteq DOMAIN given
      /\ given["investor"] = Key(u)
      /\ given["vaultStrategyConfig"] = ConfigAddress(ConfigOf[s])
      /\ given["raydiumVault0Mint"] = Key(Sorted[1])
      /\ given["raydiumVault1Mint"] = Key(Sorted[2])
      /\ "strategyId" \in DOMAIN args /\ args["strategyId"] = u8ToBytes(StrategyId[s])
      /\ "strategyId" \notin DOMAIN given
      /\ "percentage" \in DOMAIN args
      /\ args["percentage"] = percentage * DENOMINATOR_MULTIPLIER
      /\ {"vaultStrategy", "investorStrategyPosition", "vaultStrategyCfgMint0FeesEscrow",
          "vaultStrategyCfgMint1FeesEscrow", "vaultStrategyCfgMint0PerfFeesEscrow",
          "vaultStrategyCfgMint1PerfFeesEscrow", "investorMint0Account",
          "investorMint1Account", "tokenProgram"} \cap told = {}
  BY LiquidityTold
<1>. HIDE DEF given, args, known, ix, told
<1>8. told = DOMAIN given \cup DOMAIN args
  BY DEF told
<1>9. /\ \A i \in {3, 4, 5, 6, 7, 8, 9, 10} : Derivable(a, i, told)
      /\ \A i \in {3, 4, 7, 8, 9, 10} : Listed(a[i])
      /\ a[3].kind = "pda" /\ a[3].name = "vaultStrategy" /\ a[3].prefix = "vlt_strtg:"
      /\ a[3].seeds =
           <<"vaultStrategyConfig", "raydiumVault0Mint", "raydiumVault1Mint", "strategyId">>
      /\ a[4].kind = "pda" /\ a[4].name = "investorStrategyPosition"
      /\ a[4].prefix = "inv_strtg_pos:"
      /\ a[4].seeds = <<"vaultStrategy", "investor">>
      /\ a[7].kind = "pda" /\ a[7].name = "vaultStrategyCfgMint0FeesEscrow"
      /\ a[7].prefix = "vlt_fees_0_escrow:"
      /\ a[7].seeds = <<"vaultStrategyConfig">>
      /\ a[8].kind = "pda" /\ a[8].name = "vaultStrategyCfgMint1FeesEscrow"
      /\ a[8].prefix = "vlt_fees_1_escrow:"
      /\ a[8].seeds = <<"vaultStrategyConfig">>
      /\ a[9].kind = "pda" /\ a[9].name = "vaultStrategyCfgMint0PerfFeesEscrow"
      /\ a[9].prefix = "vlt_perf_fees_0_escrow:"
      /\ a[9].seeds = <<"vaultStrategyConfig">>
      /\ a[10].kind = "pda" /\ a[10].name = "vaultStrategyCfgMint1PerfFeesEscrow"
      /\ a[10].prefix = "vlt_perf_fees_1_escrow:"
      /\ a[10].seeds = <<"vaultStrategyConfig">>
      /\ a[5].kind = "ata" /\ a[5].name = "investorMint0Account"
      /\ a[5].seeds = <<"investor", "tokenProgram", "raydiumVault0Mint">>
      /\ a[6].kind = "ata" /\ a[6].name = "investorMint1Account"
      /\ a[6].seeds = <<"investor", "tokenProgram", "raydiumVault1Mint">>
  BY <1>7, <1>8, RemoveDerives, SMTT(20)
<1>. HIDE DEF a, m
<1>10. DistinctDerived(ix)
  <2>1. \A i \in {3, 4, 5, 6, 7, 8, 9, 10} : ix.accounts[i] = AddressOf(a[i], known)
    <3>1. \A i \in {3, 4, 5, 6, 7, 8, 9, 10} : i \in DOMAIN a /\ Derivable(a, i, told)
      BY <1>1, <1>9
    <3>2. \A i \in DOMAIN a : ix.accounts[i] = known[a[i].name]
      BY <1>6 DEF Understood, Faithful, a
    <3>3. \A i \in DOMAIN a : Derivable(a, i, told) => known[a[i].name] = AddressOf(a[i], known)
      BY <1>6, <1>8 DEF Understood, a
    <3>. QED  BY <3>1, <3>2, <3>3
  <2>2. \A i \in {3, 4, 7, 8, 9, 10} : ix.accounts[i][2] = a[i].prefix
    BY <1>9, <2>1, PrefixOf
  <2>3. /\ ix.accounts[5][2] = NoPrefix /\ ix.accounts[5][5] = known["raydiumVault0Mint"]
        /\ ix.accounts[6][2] = NoPrefix /\ ix.accounts[6][5] = known["raydiumVault1Mint"]
    BY <1>9, <2>1, MintOf
  <2>4. /\ known["raydiumVault0Mint"] = Key(Sorted[1])
        /\ known["raydiumVault1Mint"] = Key(Sorted[2])
    BY <1>6, <1>7 DEF Understood
  <2>5. \A i, j \in {3, 4, 5, 6, 7, 8, 9, 10} : ix.accounts[i] = ix.accounts[j] => i = j
    <3>1. \A i, j \in {3, 4, 7, 8, 9, 10} :
            a[i].prefix # NoPrefix /\ (a[i].prefix = a[j].prefix => i = j)
      BY <1>9 DEF NoPrefix
    <3>. QED  BY <2>2, <2>3, <2>4, <3>1
  <2>. QED  BY <1>1, <1>6, <2>5, DistinctAt DEF a
<1>11. /\ known["investor"] = Key(u)
       /\ known["vaultStrategyConfig"] = ConfigAddress(ConfigOf[s])
       /\ known["raydiumVault0Mint"] = Key(Sorted[1])
       /\ known["raydiumVault1Mint"] = Key(Sorted[2])
       /\ known["strategyId"] = u8ToBytes(StrategyId[s])
  BY <1>6, <1>7 DEF Understood
<1>12. \A i \in {3, 4, 5, 6, 7, 8, 9, 10} : known[a[i].name] = AddressOf(a[i], known)
  BY <1>1, <1>6, <1>8, <1>9 DEF Understood, a
<1>13. known["vaultStrategy"] = ClientStrategy(s)
  <2>1. AddressOf(a[3], known) =
          VaultsAddress("vlt_strtg:",
            <<known["vaultStrategyConfig"], known["raydiumVault0Mint"],
              known["raydiumVault1Mint"], known["strategyId"]>>)
    BY <1>9, AddressOfFour
  <2>. QED  BY <1>9, <1>11, <1>12, <2>1 DEF ClientStrategy
<1>14. known["investorStrategyPosition"]
         = VaultsAddress("inv_strtg_pos:", <<ClientStrategy(s), Key(u)>>)
  <2>1. AddressOf(a[4], known) =
          VaultsAddress("inv_strtg_pos:", <<known["vaultStrategy"], known["investor"]>>)
    BY <1>9, AddressOfTwo
  <2>. QED  BY <1>9, <1>11, <1>12, <1>13, <2>1
<1>15. known["vaultStrategyCfgMint0FeesEscrow"]
         = VaultsAddress("vlt_fees_0_escrow:", <<ConfigAddress(ConfigOf[s])>>)
  <2>1. AddressOf(a[7], known) =
          VaultsAddress("vlt_fees_0_escrow:", <<known["vaultStrategyConfig"]>>)
    BY <1>9, AddressOfOne
  <2>. QED  BY <1>9, <1>11, <1>12, <2>1
<1>16. known["vaultStrategyCfgMint1FeesEscrow"]
         = VaultsAddress("vlt_fees_1_escrow:", <<ConfigAddress(ConfigOf[s])>>)
  <2>1. AddressOf(a[8], known) =
          VaultsAddress("vlt_fees_1_escrow:", <<known["vaultStrategyConfig"]>>)
    BY <1>9, AddressOfOne
  <2>. QED  BY <1>9, <1>11, <1>12, <2>1
<1>17. known["vaultStrategyCfgMint0PerfFeesEscrow"]
         = VaultsAddress("vlt_perf_fees_0_escrow:", <<ConfigAddress(ConfigOf[s])>>)
  <2>1. AddressOf(a[9], known) =
          VaultsAddress("vlt_perf_fees_0_escrow:", <<known["vaultStrategyConfig"]>>)
    BY <1>9, AddressOfOne
  <2>. QED  BY <1>9, <1>11, <1>12, <2>1
<1>18. known["vaultStrategyCfgMint1PerfFeesEscrow"]
         = VaultsAddress("vlt_perf_fees_1_escrow:", <<ConfigAddress(ConfigOf[s])>>)
  <2>1. AddressOf(a[10], known) =
          VaultsAddress("vlt_perf_fees_1_escrow:", <<known["vaultStrategyConfig"]>>)
    BY <1>9, AddressOfOne
  <2>. QED  BY <1>9, <1>11, <1>12, <2>1
<1>19. ASSUME NEW i \in DOMAIN a, a[i].name \in PdaNames
       PROVE  known[a[i].name] = PdasOf(s, u)[a[i].name]
  <2>1. i \in 2..10
    BY <1>1, <1>19
  <2>2. CASE i = 2
    <3>1. PdasOf(s, u)["vaultStrategyConfig"] = ConfigAddress(ConfigOf[s])
      BY PdaFields
    <3>. QED  BY <1>3, <1>11, <2>2, <3>1
  <2>3. CASE i = 3
    <3>1. PdasOf(s, u)["vaultStrategy"] = known["vaultStrategy"]
      BY <1>13, PdaFields
    <3>2. a[3].name = "vaultStrategy"
      BY <1>9
    <3>. QED  BY <2>3, <3>1, <3>2
  <2>4. CASE i = 4
    <3>1. PdasOf(s, u)["investorStrategyPosition"] = known["investorStrategyPosition"]
      BY <1>14, PdaFields
    <3>2. a[4].name = "investorStrategyPosition"
      BY <1>9
    <3>. QED  BY <2>4, <3>1, <3>2
  <2>5. CASE i = 5
    BY <1>9, <1>19, <2>5 DEF PdaNames
  <2>6. CASE i = 6
    BY <1>9, <1>19, <2>6 DEF PdaNames
  <2>7. CASE i = 7
    <3>1. PdasOf(s, u)["vaultStrategyCfgMint0FeesEscrow"]
            = known["vaultStrategyCfgMint0FeesEscrow"]
      BY <1>15, PdaFields
    <3>2. a[7].name = "vaultStrategyCfgMint0FeesEscrow"
      BY <1>9
    <3>. QED  BY <2>7, <3>1, <3>2
  <2>8. CASE i = 8
    <3>1. PdasOf(s, u)["vaultStrategyCfgMint1FeesEscrow"]
            = known["vaultStrategyCfgMint1FeesEscrow"]
      BY <1>16, PdaFields
    <3>2. a[8].name = "vaultStrategyCfgMint1FeesEscrow"
      BY <1>9
    <3>. QED  BY <2>8, <3>1, <3>2
  <2>9. CASE i = 9
    <3>1. PdasOf(s, u)["vaultStrategyCfgMint0PerfFeesEscrow"]
            = known["vaultStrategyCfgMint0PerfFeesEscrow"]
      BY <1>17, PdaFields
    <3>2. a[9].name = "vaultStrategyCfgMint0PerfFeesEscrow"
      BY <1>9
    <3>. QED  BY <2>9, <3>1, <3>2
  <2>10. CASE i = 10
    <3>1. PdasOf(s, u)["vaultStrategyCfgMint1PerfFeesEscrow"]
            = known["vaultStrategyCfgMint1PerfFeesEscrow"]
      BY <1>18, PdaFields
    <3>2. a[10].name = "vaultStrategyCfgMint1PerfFeesEscrow"
      BY <1>9
    <3>. QED  BY <2>10, <3>1, <3>2
  <2>. QED  BY <2>1, <2>2, <2>3, <2>4, <2>5, <2>6, <2>7, <2>8, <2>9, <2>10
<1>20. Agrees(ix, s, u)
  BY <1>6, <1>19, AgreesByName DEF a
<1>21. /\ HandlerAt(ix.discriminator) = m
       /\ ReceivedAccounts(ix)["investor"] = Key(u)
       /\ ReceivedAccounts(ix)["vaultStrategy"] = ClientStrategy(s)
       /\ ReceivedArgs(ix)["percentage"] = percentage * DENOMINATOR_MULTIPLIER
  <2>1. HandlerAt(ix.discriminator) = m
    BY <1>6 DEF Understood, Faithful
  <2>2. ReceivedAccounts(ix)[a[1].name] = known[a[1].name]
    BY <1>3, <1>6 DEF Understood, Faithful, a
  <2>3. ReceivedAccounts(ix)[a[3].name] = known[a[3].name]
    BY <1>1, <1>3, <1>6 DEF Understood, Faithful, a
  <2>4. ReceivedArgs(ix)["percentage"] = args["percentage"]
    BY <1>2, <1>6 DEF Understood, Faithful
  <2>5. a[3].name = "vaultStrategy"
    BY <1>9
  <2>. QED  BY <1>3, <1>7, <1>11, <1>13, <2>1, <2>2, <2>3, <2>4, <2>5
<1>. QED  BY <1>4, <1>10, <1>20, <1>21 DEF m

\* A creation is of the strategy it is called for, in the pool of the sorted mints.
LEMMA CreateCall ==
  ASSUME ~IdlIsCommitted, NEW s, NEW percentage,
         NEW amount_max, NEW ticks
  PROVE  LET ix == createRaydiumStrategyTx(s, percentage, amount_max, ticks)[1] IN
         /\ HandlerAt(ix.discriminator) = "createRaydiumVaultStrategy"
         /\ ReceivedAccounts(ix).creator = Key(CreatorOf[ConfigOf[s]])
         /\ ReceivedAccounts(ix).vaultStrategy = ClientStrategy(s)
         /\ "raydiumPoolState" \in DOMAIN ReceivedAccounts(ix)
         /\ ReceivedAccounts(ix).raydiumPoolState
              = raydiumPools(getTokens.token0, getTokens.token1)
         /\ ReceivedArgs(ix).percentage = percentage
         /\ ReceivedArgs(ix).amount0Max = amount_max[0]
         /\ ReceivedArgs(ix).amount1Max = amount_max[1]
         /\ DistinctDerived(ix)
         /\ Agrees(ix, s, CreatorOf[ConfigOf[s]])
<1>. DEFINE m == "createRaydiumVaultStrategy"
            creator == Key(CreatorOf[ConfigOf[s]])
            nft == Key(nft_key)
            r == raydiumPDAs(nft, ticks[1], ticks[2], getTokens.token0, getTokens.token1)
            p == PdasOf(s, CreatorOf[ConfigOf[s]])
            given == [creator |-> creator, vaultStrategyConfig |-> p.vaultStrategyConfig,
          raydiumPositionNftMint |-> nft,
          raydiumPositionNftAccount |->
            AssociatedAddress(p.vaultStrategyConfig, Key("tokenProgram2022"), nft),
          raydiumPoolState |-> r.poolStateMint0WithMint1,
          raydiumProtocolPosition |-> r.protocolPosition,
          raydiumTickArrayLower |-> r.tickLowerArrayAddress,
          raydiumTickArrayUpper |-> r.tickUpperArrayAddress,
          raydiumPersonalPosition |-> r.personalPosition,
          raydiumTokenAccount0 |-> AssociatedAddress(creator, Key("tokenProgram"), Key(r.mint0)),
          raydiumTokenAccount1 |-> AssociatedAddress(creator, Key("tokenProgram"), Key(r.mint1)),
          raydiumTokenVault0 |-> r.openPositionTokenVault0,
          raydiumTokenVault1 |-> r.openPositionTokenVault1,
          raydiumVault0Mint |-> Key(r.mint0), raydiumVault1Mint |-> Key(r.mint1),
          pythToken0PriceUpdate |-> Key("solFeed"), pythToken1PriceUpdate |-> Key("usdcFeed")]
            args == [strategyId |-> u8ToBytes(StrategyId[s]), percentage |-> percentage,
          amount0Max |-> amount_max[0], amount1Max |-> amount_max[1],
          tickLowerIndex |-> ticks[1], tickUpperIndex |-> ticks[2],
          tickArrayLowerStartIndex |-> r.tickArrayLowerStartIndex,
          tickArrayUpperStartIndex |-> r.tickArrayUpperStartIndex,
          token0FeedId |-> "solFeed", token1FeedId |-> "usdcFeed", lookUpTable |-> "table"]
            a == Methods[m].accounts
            known == ResolveAll(a, AndMore(given, args))
            remaining == <<r.bitmapExtMint0WithMint1>>
            ix == Instruction(m, {creator, nft}, given, args, remaining)
            told == DOMAIN given \cup DOMAIN args
<1>1. /\ m \in DOMAIN Methods /\ Len(a) \in Nat /\ DOMAIN a = 1..Len(a)
      /\ {3, 4, 5, 6, 7, 8, 9, 10} \in SUBSET DOMAIN a
      /\ \A i \in DOMAIN a : a[i].kind \in {"pda", "ata"} => i \in {3, 4, 5, 6, 7, 8, 9, 10}
      /\ \A i \in DOMAIN a : a[i].name \in PdaNames => i \in 2..10
  BY CreateDeclares, SMTT(20)
<1>2. LET g == Methods[m].args IN
      /\ 2 \in DOMAIN g /\ g[2].name = "percentage" /\ 3 \in DOMAIN g /\ g[3].name = "amount0Max"
      /\ 4 \in DOMAIN g /\ g[4].name = "amount1Max"
      /\ 16 \in DOMAIN a /\ a[16].name = "raydiumPoolState"
  BY CreateDeclares, DeclaredFields
<1>3. /\ 1 \in DOMAIN a /\ 2 \in DOMAIN a /\ a[1].name = "creator"
      /\ a[2].name = "vaultStrategyConfig"
  BY CreateDeclares, DeclaredFields
<1>4. createRaydiumStrategyTx(s, percentage, amount_max, ticks)[1] = ix
  BY DEF createRaydiumStrategyTx, PdasOf
<1>5. remaining \in Seq({remaining[i] : i \in 1..1})
  OBVIOUS
<1>6. Understood(m, ix, known, given, args)
  <2>. HIDE DEF given, args, remaining
  <2>. QED  BY <1>1, <1>5, Received
<1>7. /\ {"vaultStrategyConfig", "raydiumVault0Mint",
          "raydiumVault1Mint", "creator"} \subseteq DOMAIN given
      /\ given["creator"] = Key(CreatorOf[ConfigOf[s]])
      /\ given["vaultStrategyConfig"] = ConfigAddress(ConfigOf[s])
      /\ given["raydiumVault0Mint"] = Key(Sorted[1])
      /\ given["raydiumVault1Mint"] = Key(Sorted[2])
      /\ "strategyId" \in DOMAIN args /\ args["strategyId"] = u8ToBytes(StrategyId[s])
      /\ "strategyId" \notin DOMAIN given
      /\ "raydiumPoolState" \in DOMAIN given
      /\ given["raydiumPoolState"] = raydiumPools(getTokens.token0, getTokens.token1)
      /\ args["percentage"] = percentage
      /\ args["amount0Max"] = amount_max[0] /\ args["amount1Max"] = amount_max[1]
      /\ {"vaultStrategy", "investorStrategyPosition", "vaultStrategyCfgMint0Escrow",
          "vaultStrategyCfgMint1Escrow", "vaultStrategyCfgMint0FeesEscrow",
          "vaultStrategyCfgMint1FeesEscrow", "vaultStrategyCfgMint0PerfFeesEscrow",
          "vaultStrategyCfgMint1PerfFeesEscrow"} \cap told = {}
  <2>1. p.vaultStrategyConfig = ConfigAddress(ConfigOf[s])
    BY PdaFields
  <2>2. /\ r.mint0 = Sorted[1] /\ r.mint1 = Sorted[2]
        /\ r.poolStateMint0WithMint1 = raydiumPools(getTokens.token0, getTokens.token1)
    BY DEF raydiumPDAs, AndMore, Sorted
  <2>. HIDE DEF r, p
  <2>. QED  BY <2>1, <2>2
<1>. HIDE DEF given, args, known, ix, told, r, p
<1>8. told = DOMAIN given \cup DOMAIN args
  BY DEF told
<1>9. /\ \A i \in {3, 4, 5, 6, 7, 8, 9, 10} : Derivable(a, i, told)
      /\ \A i \in {3, 4, 5, 6, 7, 8, 9, 10} : Listed(a[i])
      /\ a[3].kind = "pda" /\ a[3].name = "vaultStrategy" /\ a[3].prefix = "vlt_strtg:"
      /\ a[3].seeds =
           <<"vaultStrategyConfig", "raydiumVault0Mint", "raydiumVault1Mint", "strategyId">>
      /\ a[4].kind = "pda" /\ a[4].name = "investorStrategyPosition"
      /\ a[4].prefix = "inv_strtg_pos:"
      /\ a[4].seeds = <<"vaultStrategy", "creator">>
      /\ a[5].kind = "pda" /\ a[5].name = "vaultStrategyCfgMint0Escrow"
      /\ a[5].prefix = "vlt_swap_ratio_0_escrow:"
      /\ a[5].seeds = <<"vaultStrategyConfig">>
      /\ a[6].kind = "pda" /\ a[6].name = "vaultStrategyCfgMint1Escrow"
      /\ a[6].prefix = "vlt_swap_ratio_1_escrow:"
      /\ a[6].seeds = <<"vaultStrategyConfig">>
      /\ a[7].kind = "pda" /\ a[7].name = "vaultStrategyCfgMint0FeesEscrow"
      /\ a[7].prefix = "vlt_fees_0_escrow:"
      /\ a[7].seeds = <<"vaultStrategyConfig">>
      /\ a[8].kind = "pda" /\ a[8].name = "vaultStrategyCfgMint1FeesEscrow"
      /\ a[8].prefix = "vlt_fees_1_escrow:"
      /\ a[8].seeds = <<"vaultStrategyConfig">>
      /\ a[9].kind = "pda" /\ a[9].name = "vaultStrategyCfgMint0PerfFeesEscrow"
      /\ a[9].prefix = "vlt_perf_fees_0_escrow:"
      /\ a[9].seeds = <<"vaultStrategyConfig">>
      /\ a[10].kind = "pda" /\ a[10].name = "vaultStrategyCfgMint1PerfFeesEscrow"
      /\ a[10].prefix = "vlt_perf_fees_1_escrow:"
      /\ a[10].seeds = <<"vaultStrategyConfig">>
  BY <1>7, <1>8, CreateDerives, SMTT(20)
<1>. HIDE DEF a, m
<1>10. DistinctDerived(ix)
  <2>1. \A i, j \in {3, 4, 5, 6, 7, 8, 9, 10} : a[i].prefix = a[j].prefix => i = j
    BY <1>9
  <2>2. ByPrefix(m, told, {3, 4, 5, 6, 7, 8, 9, 10})
    BY <1>1, <1>9, <2>1 DEF ByPrefix, a
  <2>. QED  BY <1>1, <1>6, <1>8, <2>2, DistinctByPrefix
<1>11. /\ known["creator"] = Key(CreatorOf[ConfigOf[s]])
       /\ known["vaultStrategyConfig"] = ConfigAddress(ConfigOf[s])
       /\ known["raydiumVault0Mint"] = Key(Sorted[1])
       /\ known["raydiumVault1Mint"] = Key(Sorted[2])
       /\ known["strategyId"] = u8ToBytes(StrategyId[s])
  BY <1>6, <1>7 DEF Understood
<1>12. \A i \in {3, 4, 5, 6, 7, 8, 9, 10} : known[a[i].name] = AddressOf(a[i], known)
  BY <1>1, <1>6, <1>8, <1>9 DEF Understood, a
<1>13. known["vaultStrategy"] = ClientStrategy(s)
  <2>1. AddressOf(a[3], known) =
          VaultsAddress("vlt_strtg:",
            <<known["vaultStrategyConfig"], known["raydiumVault0Mint"],
              known["raydiumVault1Mint"], known["strategyId"]>>)
    BY <1>9, AddressOfFour
  <2>. QED  BY <1>9, <1>11, <1>12, <2>1 DEF ClientStrategy
<1>14. known["investorStrategyPosition"]
         = VaultsAddress("inv_strtg_pos:", <<ClientStrategy(s), Key(CreatorOf[ConfigOf[s]])>>)
  <2>1. AddressOf(a[4], known) =
          VaultsAddress("inv_strtg_pos:", <<known["vaultStrategy"], known["creator"]>>)
    BY <1>9, AddressOfTwo
  <2>. QED  BY <1>9, <1>11, <1>12, <1>13, <2>1
<1>15. known["vaultStrategyCfgMint0Escrow"]
         = VaultsAddress("vlt_swap_ratio_0_escrow:", <<ConfigAddress(ConfigOf[s])>>)
  <2>1. AddressOf(a[5], known) =
          VaultsAddress("vlt_swap_ratio_0_escrow:", <<known["vaultStrategyConfig"]>>)
    BY <1>9, AddressOfOne
  <2>. QED  BY <1>9, <1>11, <1>12, <2>1
<1>16. known["vaultStrategyCfgMint1Escrow"]
         = VaultsAddress("vlt_swap_ratio_1_escrow:", <<ConfigAddress(ConfigOf[s])>>)
  <2>1. AddressOf(a[6], known) =
          VaultsAddress("vlt_swap_ratio_1_escrow:", <<known["vaultStrategyConfig"]>>)
    BY <1>9, AddressOfOne
  <2>. QED  BY <1>9, <1>11, <1>12, <2>1
<1>17. known["vaultStrategyCfgMint0FeesEscrow"]
         = VaultsAddress("vlt_fees_0_escrow:", <<ConfigAddress(ConfigOf[s])>>)
  <2>1. AddressOf(a[7], known) =
          VaultsAddress("vlt_fees_0_escrow:", <<known["vaultStrategyConfig"]>>)
    BY <1>9, AddressOfOne
  <2>. QED  BY <1>9, <1>11, <1>12, <2>1
<1>18. known["vaultStrategyCfgMint1FeesEscrow"]
         = VaultsAddress("vlt_fees_1_escrow:", <<ConfigAddress(ConfigOf[s])>>)
  <2>1. AddressOf(a[8], known) =
          VaultsAddress("vlt_fees_1_escrow:", <<known["vaultStrategyConfig"]>>)
    BY <1>9, AddressOfOne
  <2>. QED  BY <1>9, <1>11, <1>12, <2>1
<1>19. known["vaultStrategyCfgMint0PerfFeesEscrow"]
         = VaultsAddress("vlt_perf_fees_0_escrow:", <<ConfigAddress(ConfigOf[s])>>)
  <2>1. AddressOf(a[9], known) =
          VaultsAddress("vlt_perf_fees_0_escrow:", <<known["vaultStrategyConfig"]>>)
    BY <1>9, AddressOfOne
  <2>. QED  BY <1>9, <1>11, <1>12, <2>1
<1>20. known["vaultStrategyCfgMint1PerfFeesEscrow"]
         = VaultsAddress("vlt_perf_fees_1_escrow:", <<ConfigAddress(ConfigOf[s])>>)
  <2>1. AddressOf(a[10], known) =
          VaultsAddress("vlt_perf_fees_1_escrow:", <<known["vaultStrategyConfig"]>>)
    BY <1>9, AddressOfOne
  <2>. QED  BY <1>9, <1>11, <1>12, <2>1
<1>21. ASSUME NEW i \in DOMAIN a, a[i].name \in PdaNames
       PROVE  known[a[i].name] = PdasOf(s, CreatorOf[ConfigOf[s]])[a[i].name]
  <2>1. i \in 2..10
    BY <1>1, <1>21
  <2>2. CASE i = 2
    <3>1. PdasOf(s, CreatorOf[ConfigOf[s]])["vaultStrategyConfig"] = ConfigAddress(ConfigOf[s])
      BY PdaFields
    <3>. QED  BY <1>3, <1>11, <2>2, <3>1
  <2>3. CASE i = 3
    <3>1. PdasOf(s, CreatorOf[ConfigOf[s]])["vaultStrategy"] = known["vaultStrategy"]
      BY <1>13, PdaFields
    <3>2. a[3].name = "vaultStrategy"
      BY <1>9
    <3>. QED  BY <2>3, <3>1, <3>2
  <2>4. CASE i = 4
    <3>1. PdasOf(s, CreatorOf[ConfigOf[s]])["investorStrategyPosition"]
            = known["investorStrategyPosition"]
      <4>1. \A user : PdasOf(s, user)["investorStrategyPosition"]
              = VaultsAddress("inv_strtg_pos:", <<ClientStrategy(s), Key(user)>>)
        BY PdaFields
      <4>. QED  BY <1>14, <4>1
    <3>2. a[4].name = "investorStrategyPosition"
      BY <1>9
    <3>. QED  BY <2>4, <3>1, <3>2
  <2>5. CASE i = 5
    <3>1. PdasOf(s, CreatorOf[ConfigOf[s]])["vaultStrategyCfgMint0Escrow"]
            = known["vaultStrategyCfgMint0Escrow"]
      BY <1>15, PdaFields
    <3>2. a[5].name = "vaultStrategyCfgMint0Escrow"
      BY <1>9
    <3>. QED  BY <2>5, <3>1, <3>2
  <2>6. CASE i = 6
    <3>1. PdasOf(s, CreatorOf[ConfigOf[s]])["vaultStrategyCfgMint1Escrow"]
            = known["vaultStrategyCfgMint1Escrow"]
      BY <1>16, PdaFields
    <3>2. a[6].name = "vaultStrategyCfgMint1Escrow"
      BY <1>9
    <3>. QED  BY <2>6, <3>1, <3>2
  <2>7. CASE i = 7
    <3>1. PdasOf(s, CreatorOf[ConfigOf[s]])["vaultStrategyCfgMint0FeesEscrow"]
            = known["vaultStrategyCfgMint0FeesEscrow"]
      BY <1>17, PdaFields
    <3>2. a[7].name = "vaultStrategyCfgMint0FeesEscrow"
      BY <1>9
    <3>. QED  BY <2>7, <3>1, <3>2
  <2>8. CASE i = 8
    <3>1. PdasOf(s, CreatorOf[ConfigOf[s]])["vaultStrategyCfgMint1FeesEscrow"]
            = known["vaultStrategyCfgMint1FeesEscrow"]
      BY <1>18, PdaFields
    <3>2. a[8].name = "vaultStrategyCfgMint1FeesEscrow"
      BY <1>9
    <3>. QED  BY <2>8, <3>1, <3>2
  <2>9. CASE i = 9
    <3>1. PdasOf(s, CreatorOf[ConfigOf[s]])["vaultStrategyCfgMint0PerfFeesEscrow"]
            = known["vaultStrategyCfgMint0PerfFeesEscrow"]
      BY <1>19, PdaFields
    <3>2. a[9].name = "vaultStrategyCfgMint0PerfFeesEscrow"
      BY <1>9
    <3>. QED  BY <2>9, <3>1, <3>2
  <2>10. CASE i = 10
    <3>1. PdasOf(s, CreatorOf[ConfigOf[s]])["vaultStrategyCfgMint1PerfFeesEscrow"]
            = known["vaultStrategyCfgMint1PerfFeesEscrow"]
      BY <1>20, PdaFields
    <3>2. a[10].name = "vaultStrategyCfgMint1PerfFeesEscrow"
      BY <1>9
    <3>. QED  BY <2>10, <3>1, <3>2
  <2>. QED  BY <2>1, <2>2, <2>3, <2>4, <2>5, <2>6, <2>7, <2>8, <2>9, <2>10
<1>22. Agrees(ix, s, CreatorOf[ConfigOf[s]])
  BY <1>6, <1>21, AgreesByName DEF a
<1>23. /\ HandlerAt(ix.discriminator) = m
       /\ ReceivedAccounts(ix)["creator"] = Key(CreatorOf[ConfigOf[s]])
       /\ ReceivedAccounts(ix)["vaultStrategy"] = ClientStrategy(s)
       /\ "raydiumPoolState" \in DOMAIN ReceivedAccounts(ix)
       /\ ReceivedAccounts(ix)["raydiumPoolState"]
              = raydiumPools(getTokens.token0, getTokens.token1)
       /\ ReceivedArgs(ix)["percentage"] = percentage
       /\ ReceivedArgs(ix)["amount0Max"] = amount_max[0]
       /\ ReceivedArgs(ix)["amount1Max"] = amount_max[1]
  <2>1. HandlerAt(ix.discriminator) = m
    BY <1>6 DEF Understood, Faithful
  <2>2. ReceivedAccounts(ix)[a[1].name] = known[a[1].name]
    BY <1>3, <1>6 DEF Understood, Faithful, a
  <2>3. ReceivedAccounts(ix)[a[3].name] = known[a[3].name]
    BY <1>1, <1>3, <1>6 DEF Understood, Faithful, a
  <2>4. /\ ReceivedArgs(ix)["percentage"] = args["percentage"]
        /\ ReceivedArgs(ix)["amount0Max"] = args["amount0Max"]
        /\ ReceivedArgs(ix)["amount1Max"] = args["amount1Max"]
    BY <1>2, <1>6 DEF Understood, Faithful
  <2>6. /\ "raydiumPoolState" \in DOMAIN ReceivedAccounts(ix)
        /\ ReceivedAccounts(ix)["raydiumPoolState"] = given["raydiumPoolState"]
    BY <1>2, <1>6, <1>7 DEF Understood, Faithful, a
  <2>5. a[3].name = "vaultStrategy"
    BY <1>9
  <2>. QED  BY <1>3, <1>7, <1>11, <1>13, <2>1, <2>2, <2>3, <2>4, <2>6, <2>5
<1>. QED  BY <1>4, <1>10, <1>22, <1>23 DEF m

-----------------------------------------------------------------------------
(* What a transaction that the client submits is made of.                  *)

\* The mints of the two legs differ, so one of them comes first.
LEMMA SortedMintsDiffer ==
  /\ {Sorted[1], Sorted[2]} = {Token0Mint, Token1Mint}
  /\ Key(Sorted[1]) # Key(Sorted[2])
<1>1. Sorted = <<Token0Mint, Token1Mint>> \/ Sorted = <<Token1Mint, Token0Mint>>
  BY DEF Sorted, SortedMints, getTokens
<1>2. Token0Mint # Token1Mint
  BY ClientAddressAssumption DEF ClientAddressAssumption
<1>. QED  BY <1>1, <1>2 DEF Key

\* A queue of one to three instructions.
Queued(q) == q = <<q[1]>> \/ q = <<q[1], q[2]>> \/ q = <<q[1], q[2], q[3]>>

LEMMA QueuedTail ==
  ASSUME NEW q, Queued(q)
  PROVE  /\ Head(q) = q[1] /\ 1 \in DOMAIN q /\ DOMAIN q \subseteq 1..3
         /\ Len(q) # 1 => /\ Queued(Tail(q))
                          /\ \A n \in DOMAIN Tail(q) : n + 1 \in DOMAIN q /\ Tail(q)[n] = q[n + 1]
<1>1. CASE q = <<q[1]>>
  <2>1. PICK a : q = <<a>>
    BY <1>1
  <2>. QED  BY <2>1
<1>2. CASE q = <<q[1], q[2]>>
  <2>1. PICK a, b : q = <<a, b>>
    BY <1>2
  <2>2. Head(q) = a /\ Tail(q) = <<b>> /\ DOMAIN q = 1..2 /\ q[1] = a /\ q[2] = b
    BY <2>1
  <2>3. Queued(<<b>>) /\ DOMAIN <<b>> = 1..1 /\ <<b>>[1] = b
    BY DEF Queued
  <2>4. \A n \in DOMAIN <<b>> : n + 1 \in DOMAIN q /\ <<b>>[n] = q[n + 1]
    BY <2>2, <2>3
  <2>5. 1 \in DOMAIN q /\ DOMAIN q \subseteq 1..3
    BY <2>2
  <2>. QED  BY <2>2, <2>3, <2>4, <2>5
<1>3. CASE q = <<q[1], q[2], q[3]>>
  <2>1. PICK a, b, c : q = <<a, b, c>>
    BY <1>3
  <2>2. /\ Head(q) = a /\ Tail(q) = <<b, c>> /\ DOMAIN q = 1..3
        /\ q[1] = a /\ q[2] = b /\ q[3] = c
    BY <2>1
  <2>3. Queued(<<b, c>>) /\ DOMAIN <<b, c>> = 1..2 /\ <<b, c>>[1] = b /\ <<b, c>>[2] = c
    BY DEF Queued
  <2>4. \A n \in DOMAIN <<b, c>> : n + 1 \in DOMAIN q /\ <<b, c>>[n] = q[n + 1]
    <3>1. \A n \in 1..2 : n = 1 \/ n = 2
      OBVIOUS
    <3>. QED  BY <2>2, <2>3, <3>1
  <2>5. 1 \in DOMAIN q /\ DOMAIN q \subseteq 1..3
    BY <2>2
  <2>. QED  BY <2>2, <2>3, <2>4, <2>5
<1>. QED  BY <1>1, <1>2, <1>3 DEF Queued

\* What holds of every instruction of a transaction about a strategy or another
\* account.
WellBuilt(ix, about, user) ==
  /\ DistinctDerived(ix)
  /\ about \in Strategies => Agrees(ix, about, user)
  /\ HandlerAt(ix.discriminator) = "createRaydiumVaultStrategy" =>
       /\ "raydiumPoolState" \in DOMAIN ReceivedAccounts(ix)
       /\ ReceivedAccounts(ix).raydiumPoolState = raydiumPools(getTokens.token0, getTokens.token1)
AllWellBuilt(q, about, user) ==
  Queued(q) /\ \A n \in DOMAIN q : WellBuilt(q[n], about, user)

LEMMA AloneWellBuilt ==
  ASSUME NEW ix, NEW about, NEW user, WellBuilt(ix, about, user)
  PROVE  AllWellBuilt(<<ix>>, about, user)
BY DEF AllWellBuilt, Queued

LEMMA SubmittedWellBuilt ==
  ASSUME ~IdlIsCommitted, SubmitAdmin \/ SubmitCreator \/ SubmitInvestor
  PROVE  \E u, call, about, queue :
           Submit(u, call, about, queue) /\ AllWellBuilt(queue, about, u)
<1>1. NoKey \notin Strategies /\ \A c \in Configs : c \notin Strategies
  BY ClientAssumption DEF ClientAssumption
<1>2. ASSUME NEW a \in Admins, NEW m \in {"initProtocolConfig", "pauseProtocol", "unpauseProtocol"},
             NEW fees, Submit(a, "admin", NoKey, adminMethod(a, m, fees))
      PROVE  \E u, call, about, queue :
               Submit(u, call, about, queue) /\ AllWellBuilt(queue, about, u)
  <2>. DEFINE ix == adminMethod(a, m, fees)[1]
  <2>1. adminMethod(a, m, fees) = <<ix>>
    BY DEF adminMethod
  <2>2. HandlerAt(ix.discriminator) = m /\ DistinctDerived(ix)
    BY AdminCall
  <2>. HIDE DEF ix
  <2>3. AllWellBuilt(<<ix>>, NoKey, a)
    BY <1>1, <2>2, AloneWellBuilt DEF WellBuilt
  <2>. QED  BY <1>2, <2>1, <2>3
<1>3. ASSUME NEW c \in Configs, NEW fee,
             Submit(CreatorOf[c], "createVaultStrategyConfigTx", c,
                    createVaultStrategyConfigTx(c, fee))
      PROVE  \E u, call, about, queue :
               Submit(u, call, about, queue) /\ AllWellBuilt(queue, about, u)
  <2>. DEFINE ix == createVaultStrategyConfigTx(c, fee)[1]
  <2>1. createVaultStrategyConfigTx(c, fee) = <<ix>>
    BY DEF createVaultStrategyConfigTx
  <2>2. HandlerAt(ix.discriminator) = "initVaultStrategyConfig" /\ DistinctDerived(ix)
    BY InitVaultCall
  <2>. HIDE DEF ix
  <2>3. AllWellBuilt(<<ix>>, c, CreatorOf[c])
    BY <1>1, <2>2, AloneWellBuilt DEF WellBuilt
  <2>. QED  BY <1>3, <2>1, <2>3
<1>4. ASSUME NEW s \in Strategies, NEW percentage, NEW amount_max, NEW ticks,
             Submit(CreatorOf[ConfigOf[s]], "createRaydiumStrategyTx", s,
                    createRaydiumStrategyTx(s, percentage, amount_max, ticks))
      PROVE  \E u, call, about, queue :
               Submit(u, call, about, queue) /\ AllWellBuilt(queue, about, u)
  <2>. DEFINE ix == createRaydiumStrategyTx(s, percentage, amount_max, ticks)[1]
  <2>1. createRaydiumStrategyTx(s, percentage, amount_max, ticks) = <<ix>>
    BY DEF createRaydiumStrategyTx
  <2>2. WellBuilt(ix, s, CreatorOf[ConfigOf[s]])
    BY CreateCall DEF WellBuilt
  <2>. HIDE DEF ix
  <2>3. AllWellBuilt(<<ix>>, s, CreatorOf[ConfigOf[s]])
    BY <2>2, AloneWellBuilt
  <2>. QED  BY <1>4, <2>1, <2>3
<1>5. ASSUME NEW u \in Users, NEW amount,
             \/ Submit(u, "depositToEscrowTx", NoKey, depositToEscrowTx(u, amount))
             \/ Submit(u, "withdrawFromEscrow", NoKey, withdrawFromEscrow(u, amount))
      PROVE  \E v, call, about, queue :
               Submit(v, call, about, queue) /\ AllWellBuilt(queue, about, v)
  <2>. DEFINE EscrowIx(m) ==
         Instruction(m, {Key(u)}, [investor |-> Key(u), usdcMint |-> Key(getTokens.USDC)],
                     [amount |-> amount * LAMPORTS_PER_USDC], <<>>)
  <2>1. /\ depositToEscrowTx(u, amount) = <<EscrowIx("depositToEscrow")>>
        /\ withdrawFromEscrow(u, amount) = <<EscrowIx("withdrawFromEscrow")>>
    BY DEF depositToEscrowTx, withdrawFromEscrow
  <2>2. \A m \in {"depositToEscrow", "withdrawFromEscrow"} :
          HandlerAt(EscrowIx(m).discriminator) = m /\ DistinctDerived(EscrowIx(m))
    BY EscrowCall
  <2>. HIDE DEF EscrowIx
  <2>3. \A m \in {"depositToEscrow", "withdrawFromEscrow"} : WellBuilt(EscrowIx(m), NoKey, u)
    BY <1>1, <2>2 DEF WellBuilt
  <2>4. \A m \in {"depositToEscrow", "withdrawFromEscrow"} : AllWellBuilt(<<EscrowIx(m)>>, NoKey, u)
    BY <2>3, AloneWellBuilt
  <2>. QED  BY <1>5, <2>1, <2>4
<1>6. ASSUME NEW u \in Users, NEW s \in Strategies, NEW amount,
             Submit(u, "addLiquidityRaydiumStrategyTx", s,
                    addLiquidityRaydiumStrategyTx(u, s, amount))
      PROVE  \E v, call, about, queue :
               Submit(v, call, about, queue) /\ AllWellBuilt(queue, about, v)
  <2>. DEFINE queue == addLiquidityRaydiumStrategyTx(u, s, amount)
  <2>1. queue = <<investReserveIx(u, s, amount), swapToRatioIx(u, s), addLiquidityIx(u, s)>>
    BY DEF addLiquidityRaydiumStrategyTx
  <2>2. WellBuilt(investReserveIx(u, s, amount), s, u)
    BY InvestReserveCall DEF WellBuilt
  <2>3. WellBuilt(swapToRatioIx(u, s), s, u)
    BY SwapCall DEF WellBuilt
  <2>4. WellBuilt(addLiquidityIx(u, s), s, u)
    BY AddCall DEF WellBuilt
  <2>. HIDE DEF queue
  <2>5. AllWellBuilt(queue, s, u)
    BY <2>1, <2>2, <2>3, <2>4 DEF AllWellBuilt, Queued
  <2>. QED  BY <1>6, <2>5 DEF queue
<1>7. ASSUME NEW u \in Users, NEW s \in Strategies, NEW percentage,
             Submit(u, "removeLiquidityRaydiumStrategyTx", s,
                    removeLiquidityRaydiumStrategyTx(u, s, percentage))
      PROVE  \E v, call, about, queue :
               Submit(v, call, about, queue) /\ AllWellBuilt(queue, about, v)
  <2>. DEFINE ix == removeLiquidityRaydiumStrategyTx(u, s, percentage)[1]
  <2>1. removeLiquidityRaydiumStrategyTx(u, s, percentage) = <<ix>>
    BY DEF removeLiquidityRaydiumStrategyTx
  <2>2. WellBuilt(ix, s, u)
    BY SortedMintsDiffer, RemoveCall DEF WellBuilt
  <2>. HIDE DEF ix
  <2>3. AllWellBuilt(<<ix>>, s, u)
    BY <2>2, AloneWellBuilt
  <2>. QED  BY <1>7, <2>1, <2>3
<1>8. CASE SubmitAdmin
  BY <1>2, <1>8 DEF SubmitAdmin
<1>9. CASE SubmitCreator
  BY <1>3, <1>4, <1>9 DEF SubmitCreator
<1>10. CASE SubmitInvestor
  BY <1>5, <1>6, <1>7, <1>10 DEF SubmitInvestor
<1>. QED  BY <1>8, <1>9, <1>10

-----------------------------------------------------------------------------
(* The transaction under way is made of such instructions, and positions   *)
(* are opened in the pool of the sorted mints only.                        *)

\* The legs of a config are the client's mints in their order.
SortedLegs(c) == LegMint[c][0] = Sorted[1] /\ LegMint[c][1] = Sorted[2]
WellPlaced(positions) ==
  /\ DOMAIN positions = Strategies
  /\ \A s \in Strategies : positions[s] = NotOpened \/ SortedLegs(ConfigOf[s])

BuiltInv ==
  /\ WellPlaced(raydium_position)
  /\ tx # NoTx =>
       /\ tx = [call |-> tx.call, user |-> tx.user, about |-> tx.about, queue |-> tx.queue,
                before |-> tx.before]
       /\ AllWellBuilt(tx.queue, tx.about, tx.user)
       /\ WellPlaced(tx.before.position)

LEMMA SubmittedRecord ==
  ASSUME NEW u, NEW call, NEW about, NEW queue, Submit(u, call, about, queue)
  PROVE  /\ tx' # NoTx
         /\ tx' = [call |-> tx'.call, user |-> tx'.user, about |-> tx'.about,
                   queue |-> tx'.queue, before |-> tx'.before]
         /\ tx'.call = call /\ tx'.user = u /\ tx'.about = about /\ tx'.queue = queue
         /\ tx'.before = [vars |-> vars, position |-> raydium_position]
<1>. DEFINE r == [call |-> call, user |-> u, about |-> about, queue |-> queue,
                  before |-> [vars |-> vars, position |-> raydium_position]]
<1>1. tx' = r
  BY DEF Submit
<1>2. "queue" \in DOMAIN r /\ "queue" \notin DOMAIN NoTx
  BY DEF NoTx
<1>3. r = [call |-> r.call, user |-> r.user, about |-> r.about, queue |-> r.queue,
           before |-> r.before]
  OBVIOUS
<1>4. /\ r.call = call /\ r.user = u /\ r.about = about /\ r.queue = queue
      /\ r.before = [vars |-> vars, position |-> raydium_position]
  OBVIOUS
<1>. HIDE DEF r
<1>. QED  BY <1>1, <1>2, <1>3, <1>4

\* The next instruction leaves the queue, and the transaction is otherwise as it was.
LEMMA ExecutedRecord ==
  ASSUME NEW call, NEW u, NEW about, NEW queue, NEW before,
         tx = [call |-> call, user |-> u, about |-> about, queue |-> queue, before |-> before],
         Execute, tx' # NoTx
  PROVE  /\ Len(queue) # 1
         /\ tx' = [call |-> call, user |-> u, about |-> about, queue |-> Tail(queue),
                   before |-> before]
BY DEF Execute

LEMMA PoolLegs ==
  ASSUME NEW a, NEW b,
         ClmmAddress("pool", <<raydiumAmmConfig, Key(a), Key(b)>>)
           = raydiumPools(getTokens.token0, getTokens.token1)
  PROVE  a = Sorted[1] /\ b = Sorted[2]
<1>1. raydiumPools(getTokens.token0, getTokens.token1)
        = ClmmAddress("pool", <<raydiumAmmConfig, Key(Sorted[1]), Key(Sorted[2])>>)
  BY DEF raydiumPools, Sorted
<1>2. \A x, y : LET t == ClmmAddress("pool", <<raydiumAmmConfig, Key(x), Key(y)>>) IN
        t[4][1] = x /\ t[5][1] = y
  BY DEF ClmmAddress, ProgramAddress, Key
<1>. HIDE DEF ClmmAddress, Key
<1>. QED  BY <1>1, <1>2

\* Only a creation opens a position.
LEMMA OpenedInPool ==
  ASSUME NEW ix, NEW about, NEW user, WellBuilt(ix, about, user),
         Handle(ix), WellPlaced(raydium_position)
  PROVE  WellPlaced(raydium_position')
<1>. DEFINE h == HandlerAt(ix.discriminator)
            a == ReceivedAccounts(ix)
            g == ReceivedArgs(ix)
<1>1. CASE h # "createRaydiumVaultStrategy"
  <2>1. \/ HandleAdmin(h, a, g) \/ HandleInitVault(a, g)
        \/ HandleEscrow(h, a, g) \/ HandleLiquidity(h, a, g)
    BY <1>1 DEF Handle
  <2>2. raydium_position' = raydium_position
    BY <2>1 DEF HandleAdmin, HandleInitVault, HandleEscrow, HandleLiquidity
  <2>. QED  BY <2>2
<1>2. CASE h = "createRaydiumVaultStrategy"
  <2>1. HandleCreate(a, g)
    BY <1>2 DEF Handle
  <2>2. /\ "raydiumPoolState" \in DOMAIN a
        /\ a.raydiumPoolState = raydiumPools(getTokens.token0, getTokens.token1)
    BY <1>2 DEF WellBuilt
  <2>. HIDE DEF a, g
  <2>3. PICK s, position :
          /\ s \in Strategies
          /\ FitsRaydium(a, s, position)
          /\ raydium_position' = [raydium_position EXCEPT ![s] = position]
    BY <2>1 DEF HandleCreate
  <2>. DEFINE legs == LegMint[ConfigOf[s]]
  <2>4. a.raydiumPoolState = ClmmAddress("pool", <<raydiumAmmConfig, Key(legs[0]), Key(legs[1])>>)
    <3>1. /\ "raydiumPoolState" \in DOMAIN RaydiumAccounts(s, position)
          /\ RaydiumAccounts(s, position).raydiumPoolState
               = ClmmAddress("pool", <<raydiumAmmConfig, Key(legs[0]), Key(legs[1])>>)
      BY DEF RaydiumAccounts
    <3>. QED  BY <2>2, <2>3, <3>1 DEF FitsRaydium
  <2>5. SortedLegs(ConfigOf[s])
    <3>1. legs[0] = Sorted[1] /\ legs[1] = Sorted[2]
      BY <2>2, <2>4, PoolLegs
    <3>. QED  BY <3>1 DEF SortedLegs
  <2>. QED  BY <2>3, <2>5 DEF WellPlaced
<1>. QED  BY <1>1, <1>2

LEMMA BuiltInit == ClientInit => BuiltInv
BY DEF ClientInit, BuiltInv, WellPlaced

LEMMA BuiltNext ==
  ASSUME ~IdlIsCommitted, BuiltInv, [ClientNext]_clientVars
  PROVE  BuiltInv'
<1>1. CASE SubmitAdmin \/ SubmitCreator \/ SubmitInvestor
  <2>1. PICK u, call, about, queue :
          Submit(u, call, about, queue) /\ AllWellBuilt(queue, about, u)
    BY <1>1, SubmittedWellBuilt
  <2>2. /\ tx'.user = u /\ tx'.about = about /\ tx'.queue = queue
        /\ tx'.before.position = raydium_position
        /\ tx' = [call |-> tx'.call, user |-> tx'.user, about |-> tx'.about,
                  queue |-> tx'.queue, before |-> tx'.before]
    BY <2>1, SubmittedRecord
  <2>3. raydium_position' = raydium_position
    BY <2>1 DEF Submit
  <2>. QED  BY <2>1, <2>2, <2>3 DEF BuiltInv
<1>2. CASE Execute
  <2>1. /\ tx # NoTx /\ AllWellBuilt(tx.queue, tx.about, tx.user)
        /\ tx = [call |-> tx.call, user |-> tx.user, about |-> tx.about, queue |-> tx.queue,
                 before |-> tx.before]
        /\ Handle(Head(tx.queue)) /\ WellPlaced(tx.before.position)
    BY <1>2 DEF Execute, BuiltInv
  <2>2. /\ Head(tx.queue) = tx.queue[1] /\ 1 \in DOMAIN tx.queue
        /\ Len(tx.queue) # 1 =>
             /\ Queued(Tail(tx.queue))
             /\ \A n \in DOMAIN Tail(tx.queue) :
                  n + 1 \in DOMAIN tx.queue /\ Tail(tx.queue)[n] = tx.queue[n + 1]
    BY <2>1, QueuedTail DEF AllWellBuilt
  <2>3. WellPlaced(raydium_position')
    BY <2>1, <2>2, OpenedInPool DEF BuiltInv, AllWellBuilt
  <2>4. CASE tx' = NoTx
    BY <2>3, <2>4 DEF BuiltInv
  <2>5. CASE tx' # NoTx
    <3>1. /\ Len(tx.queue) # 1
          /\ tx' = [call |-> tx.call, user |-> tx.user, about |-> tx.about,
                    queue |-> Tail(tx.queue), before |-> tx.before]
      BY <1>2, <2>1, <2>5, ExecutedRecord
    <3>2. AllWellBuilt(Tail(tx.queue), tx.about, tx.user)
      BY <2>1, <2>2, <3>1 DEF AllWellBuilt
    <3>. QED  BY <2>1, <2>3, <3>1, <3>2 DEF BuiltInv
  <2>. QED  BY <2>4, <2>5
<1>3. CASE Drop
  BY <1>3 DEF Drop, BuiltInv
<1>4. CASE Restart
  BY <1>4 DEF Restart, BuiltInv
<1>5. CASE Others
  BY <1>5 DEF Others, BuiltInv
<1>6. CASE UNCHANGED clientVars
  BY <1>6 DEF clientVars, BuiltInv
<1>. QED  BY <1>1, <1>2, <1>3, <1>4, <1>5, <1>6 DEF ClientNext

\* Every transaction that waits is one that a function of the client has built,
\* and every position was opened in the client's own pool.
THEOREM BuiltTheorem == ASSUME ~IdlIsCommitted PROVE ClientSpec => []BuiltInv
BY BuiltInit, BuiltNext, PTL DEF ClientSpec

\* No two accounts that an instruction of the client writes back are one
\* account, for any keys of users, configs and mints (instructions of
\* src/app/web, accounts of the program's contexts).
THEOREM DerivedAccountsTheorem ==
  ASSUME ~IdlIsCommitted PROVE ClientSpec => []DerivedAccountsDistinct
<1>1. BuiltInv => DerivedAccountsDistinct
  BY DEF BuiltInv, AllWellBuilt, WellBuilt, DistinctDerived, DerivedAccountsDistinct
<1>. QED  BY <1>1, BuiltTheorem, PTL

\* protocolPDAs and the interface description derive the same accounts for
\* every instruction about a strategy.
THEOREM ClientAgreesTheorem ==
  ASSUME ~IdlIsCommitted PROVE ClientSpec => []ClientAgreesWithIdl
<1>1. BuiltInv => ClientAgreesWithIdl
  BY DEF BuiltInv, AllWellBuilt, WellBuilt, Agrees, PdasOf, ClientAgreesWithIdl
<1>. QED  BY <1>1, BuiltTheorem, PTL

\* What add and remove derive for a position of the default range is what
\* Raydium requires, for any range, keys and order of the mints.
THEOREM DefaultRangeTheorem ==
  ASSUME ~IdlIsCommitted PROVE ClientSpec => []DefaultRangeServiceable
<1>1. ASSUME BuiltInv, NEW u \in Users, NEW s \in Strategies,
             raydium_position[s].lower = DEFAULT_TICK_LOWER,
             raydium_position[s].upper = DEFAULT_TICK_UPPER
      PROVE  FitsRaydium(LiquidityGiven(u, s), s, raydium_position[s])
  <2>. DEFINE p == raydium_position[s]
              r == FetchedPDAs
              g == LiquidityGiven(u, s)
              required == RaydiumAccounts(s, p)
              pool == raydiumPools(getTokens.token0, getTokens.token1)
  <2>1. p # NotOpened
    BY <1>1, ClientAddressAssumption DEF NotOpened, ClientAddressAssumption
  <2>2. LegMint[ConfigOf[s]][0] = Sorted[1] /\ LegMint[ConfigOf[s]][1] = Sorted[2]
    BY <1>1, <2>1 DEF BuiltInv, WellPlaced, SortedLegs
  <2>3. pool = ClmmAddress("pool", <<raydiumAmmConfig, Key(Sorted[1]), Key(Sorted[2])>>)
    BY DEF raydiumPools, Sorted
  <2>4. /\ r.poolStateMint0WithMint1 = pool
        /\ r.protocolPosition = protocolPosition(pool, DEFAULT_TICK_LOWER, DEFAULT_TICK_UPPER)
        /\ r.tickLowerArrayAddress = getTickArrayAddressByTick(pool, DEFAULT_TICK_LOWER)
        /\ r.tickUpperArrayAddress = getTickArrayAddressByTick(pool, DEFAULT_TICK_UPPER)
    BY DEF FetchedPDAs, raydiumPDAs, AndMore
  <2>5. /\ r.openPositionTokenVault0 = PoolVault(pool, Sorted[1])
        /\ r.openPositionTokenVault1 = PoolVault(pool, Sorted[2])
    BY DEF FetchedPDAs, raydiumPDAs, raydiumTokenVaults, AndMore, Sorted
  <2>. HIDE DEF r, pool
  <2>6. /\ g["raydiumPoolState"] = r.poolStateMint0WithMint1
        /\ g["raydiumPersonalPosition"] = personalPosition(Key(p.nft))
        /\ g["raydiumPositionNftAccount"] =
             AssociatedAddress(ConfigAddress(ConfigOf[s]), Key("tokenProgram2022"), Key(p.nft))
        /\ g["raydiumProtocolPosition"] = r.protocolPosition
        /\ g["raydiumTickArrayLower"] = r.tickLowerArrayAddress
        /\ g["raydiumTickArrayUpper"] = r.tickUpperArrayAddress
        /\ g["raydiumTokenVault0"] = r.openPositionTokenVault0
        /\ g["raydiumTokenVault1"] = r.openPositionTokenVault1
    BY DEF LiquidityGiven, r
  <2>7. /\ DOMAIN required =
             {"raydiumPoolState", "raydiumPersonalPosition", "raydiumPositionNftAccount",
              "raydiumProtocolPosition", "raydiumTickArrayLower", "raydiumTickArrayUpper",
              "raydiumTokenVault0", "raydiumTokenVault1"}
        /\ required["raydiumPoolState"] = pool
        /\ required["raydiumPersonalPosition"] = personalPosition(Key(p.nft))
        /\ required["raydiumPositionNftAccount"] =
             AssociatedAddress(ConfigAddress(ConfigOf[s]), Key("tokenProgram2022"), Key(p.nft))
        /\ required["raydiumProtocolPosition"] =
             protocolPosition(pool, DEFAULT_TICK_LOWER, DEFAULT_TICK_UPPER)
        /\ required["raydiumTickArrayLower"] =
             getTickArrayAddressByTick(pool, DEFAULT_TICK_LOWER)
        /\ required["raydiumTickArrayUpper"] =
             getTickArrayAddressByTick(pool, DEFAULT_TICK_UPPER)
        /\ required["raydiumTokenVault0"] = PoolVault(pool, Sorted[1])
        /\ required["raydiumTokenVault1"] = PoolVault(pool, Sorted[2])
    BY <1>1, <2>2, <2>3 DEF RaydiumAccounts, NftAccount, protocolPosition
  <2>. HIDE DEF g, required
  <2>8. \A n \in DOMAIN required : g[n] = required[n]
    BY <2>4, <2>5, <2>6, <2>7
  <2>. QED  BY <2>8 DEF FitsRaydium, g, required, p
<1>2. BuiltInv => DefaultRangeServiceable
  BY <1>1 DEF DefaultRangeServiceable
<1>. QED  BY <1>2, BuiltTheorem, PTL

-----------------------------------------------------------------------------
(* What an instruction of the client does: the program's action, for the   *)
(* investor, the config and the strategy that the client has in mind.      *)

\* Instruction ix asks for method m, for investor u.
Asks(m, ix, u) ==
  HandlerAt(ix.discriminator) = m /\ ReceivedAccounts(ix).investor = Key(u)

MovesEscrow(m, ix, u) == Asks(m, ix, u) /\ ReceivedArgs(ix).amount \in Nat
Invests(ix, u, s) ==
  /\ MovesEscrow("investReserve", ix, u)
  /\ ReceivedAccounts(ix).vaultStrategyConfig = ConfigAddress(ConfigOf[s])
ForStrategy(m, ix, u, s) ==
  Asks(m, ix, u) /\ ReceivedAccounts(ix).vaultStrategy = ClientStrategy(s)
Creates(ix, s) ==
  /\ HandlerAt(ix.discriminator) = "createRaydiumVaultStrategy"
  /\ ReceivedAccounts(ix).vaultStrategy = ClientStrategy(s)
  /\ ReceivedArgs(ix).percentage \in Percentages
  /\ ReceivedArgs(ix).amount0Max \in CreateAmounts
  /\ ReceivedArgs(ix).amount1Max \in CreateAmounts
Configures(ix) ==
  HandlerAt(ix.discriminator) \in {"initProtocolConfig", "pauseProtocol", "unpauseProtocol",
                                   "initVaultStrategyConfig"}

\* A config has one address.
LEMMA ConfigAddressUnique ==
  ASSUME NEW c, NEW d, ConfigAddress(c) = ConfigAddress(d)
  PROVE  c = d
<1>1. Key(c) = Key(d)
  BY ConfigParts DEF ConfigAddress
<1>. QED  BY <1>1 DEF Key

\* The address that the client derives for a strategy is of no other strategy.
LEMMA StrategyAddressUnique ==
  ASSUME NEW s \in Strategies, NEW t \in Strategies, StrategyAddress(t) = ClientStrategy(s)
  PROVE  t = s
<1>1. /\ ConfigAddress(ConfigOf[t]) = ConfigAddress(ConfigOf[s])
      /\ u8ToBytes(StrategyId[t]) = u8ToBytes(StrategyId[s])
  BY StrategyParts DEF StrategyAddress, ClientStrategy
<1>2. ConfigOf[t] = ConfigOf[s]
  BY <1>1, ConfigAddressUnique
<1>3. \A n \in 0..255 : u8ToBytes(n)[1] = n
  BY DEF u8ToBytes
<1>4. StrategyId[t] = StrategyId[s]
  BY <1>1, <1>3, ClientAssumption DEF ClientAssumption
<1>. QED  BY <1>2, <1>4, ClientAssumption DEF ClientAssumption

LEMMA EscrowHandled ==
  ASSUME NEW m \in {"depositToEscrow", "withdrawFromEscrow"}, NEW ix, NEW u \in Users,
         MovesEscrow(m, ix, u), Handle(ix)
  PROVE  /\ m = "depositToEscrow" => DepositToEscrow(u, ReceivedArgs(ix).amount)
         /\ m = "withdrawFromEscrow" => WithdrawFromEscrow(u, ReceivedArgs(ix).amount)
<1>. DEFINE a == ReceivedAccounts(ix)
            g == ReceivedArgs(ix)
<1>1. HandlerAt(ix.discriminator) = m /\ a.investor = Key(u)
  BY DEF MovesEscrow, Asks
<1>2. HandleEscrow(m, a, g)
  BY <1>1 DEF Handle
<1>. HIDE DEF a, g
<1>3. \A v : a.investor = Key(v) => v = u
  BY <1>1 DEF Key
<1>4. /\ m = "depositToEscrow" => DepositToEscrow(u, g.amount)
      /\ m = "withdrawFromEscrow" => WithdrawFromEscrow(u, g.amount)
  BY <1>2, <1>3 DEF HandleEscrow
<1>. QED  BY <1>4 DEF g

LEMMA InvestHandled ==
  ASSUME NEW ix, NEW u \in Users, NEW s \in Strategies, Invests(ix, u, s), Handle(ix)
  PROVE  InvestReserve(u, ConfigOf[s], ReceivedArgs(ix).amount)
<1>. DEFINE a == ReceivedAccounts(ix)
            g == ReceivedArgs(ix)
<1>1. /\ HandlerAt(ix.discriminator) = "investReserve" /\ a.investor = Key(u)
      /\ a.vaultStrategyConfig = ConfigAddress(ConfigOf[s])
  BY DEF Invests, MovesEscrow, Asks
<1>2. HandleEscrow("investReserve", a, g)
  BY <1>1 DEF Handle
<1>. HIDE DEF a, g
<1>3. \A v : a.investor = Key(v) => v = u
  BY <1>1 DEF Key
<1>4. \A c : a.vaultStrategyConfig = ConfigAddress(c) => c = ConfigOf[s]
  BY <1>1, ConfigAddressUnique
<1>5. InvestReserve(u, ConfigOf[s], g.amount)
  BY <1>2, <1>3, <1>4 DEF HandleEscrow
<1>. QED  BY <1>5 DEF g

LEMMA LiquidityHandled ==
  ASSUME NEW m \in {"swapToRatioRaydiumVaultStrategy", "addLiquidityRaydiumVaultStrategy",
                    "removeLiquidityRaydiumVaultStrategy"},
         NEW ix, NEW u \in Users, NEW s \in Strategies, ForStrategy(m, ix, u, s), Handle(ix)
  PROVE  \E range \in Ranges :
           /\ m = "swapToRatioRaydiumVaultStrategy" =>
                \E split \in Splits, slippage \in Slippages :
                  SwapToRatio(u, s, range, split, slippage)
           /\ m = "addLiquidityRaydiumVaultStrategy" => AddLiquidity(u, s, range)
           /\ m = "removeLiquidityRaydiumVaultStrategy" =>
                RemoveLiquidity(u, s, ReceivedArgs(ix).percentage, range)
<1>. DEFINE a == ReceivedAccounts(ix)
            g == ReceivedArgs(ix)
<1>1. /\ HandlerAt(ix.discriminator) = m /\ a.investor = Key(u)
      /\ a.vaultStrategy = ClientStrategy(s)
  BY DEF ForStrategy, Asks
<1>2. HandleLiquidity(m, a, g)
  BY <1>1 DEF Handle
<1>. HIDE DEF a, g
<1>3. \A v : a.investor = Key(v) => v = u
  BY <1>1 DEF Key
<1>4. \A t \in Strategies : a.vaultStrategy = StrategyAddress(t) => t = s
  BY <1>1, StrategyAddressUnique
<1>5. PICK v \in Users, t \in Strategies, range \in Ranges :
        /\ a.investor = Key(v) /\ a.vaultStrategy = StrategyAddress(t)
        /\ \/ /\ m = "swapToRatioRaydiumVaultStrategy"
              /\ \E split \in Splits, slippage \in Slippages :
                   SwapToRatio(v, t, range, split, slippage)
           \/ /\ m = "addLiquidityRaydiumVaultStrategy"
              /\ AddLiquidity(v, t, range)
           \/ /\ m = "removeLiquidityRaydiumVaultStrategy"
              /\ RemoveLiquidity(v, t, g.percentage, range)
  BY <1>2 DEF HandleLiquidity
<1>6. v = u /\ t = s
  BY <1>3, <1>4, <1>5
<1>. QED  BY <1>5, <1>6 DEF g

LEMMA CreateHandled ==
  ASSUME NEW ix, NEW s \in Strategies, Creates(ix, s), Handle(ix)
  PROVE  /\ \E percentage \in Percentages, amount_max \in [Legs -> CreateAmounts],
               price \in [Legs -> Prices], range \in Ranges :
              CreateRaydiumVaultStrategy(s, percentage, amount_max, price, range)
         /\ UNCHANGED investVars
<1>. DEFINE a == ReceivedAccounts(ix)
            g == ReceivedArgs(ix)
            amount == [k \in Legs |-> IF k = 0 THEN g.amount0Max ELSE g.amount1Max]
<1>1. /\ HandlerAt(ix.discriminator) = "createRaydiumVaultStrategy"
      /\ a.vaultStrategy = ClientStrategy(s)
      /\ g.percentage \in Percentages
      /\ g.amount0Max \in CreateAmounts /\ g.amount1Max \in CreateAmounts
  BY DEF Creates
<1>2. HandleCreate(a, g)
  BY <1>1 DEF Handle
<1>. HIDE DEF a, g
<1>3. \A t \in Strategies : a.vaultStrategy = StrategyAddress(t) => t = s
  BY <1>1, StrategyAddressUnique
<1>4. amount \in [Legs -> CreateAmounts]
  BY <1>1 DEF Legs
<1>5. PICK t \in Strategies, price \in [Legs -> Prices], range \in Ranges :
        /\ a.vaultStrategy = StrategyAddress(t)
        /\ CreateRaydiumVaultStrategy(t, g.percentage, amount, price, range)
        /\ UNCHANGED investVars
  BY <1>2 DEF HandleCreate
<1>6. t = s
  BY <1>3, <1>5
<1>. HIDE DEF amount
<1>. QED  BY <1>1, <1>4, <1>5, <1>6

-----------------------------------------------------------------------------
(* How far a transaction is, and what it has done until then.              *)

\* A tuple of the values of the accounts and balances is typed as they are.
TypedVars(b) ==
  LET created == b[1]
      invested == b[2]
  IN
  /\ created[1] \in [status : {"Unknown", "Active", "Paused"},
                     admin_authority : Admins \cup {NoKey}, protocol_fees : Nat]
  /\ created[2] \in [Configs -> ConfigType]
  /\ created[3] \in [Strategies -> VaultType]
  /\ created[4] \in [Users -> [Strategies -> PositionType]]
  /\ created[5] \in [Strategies -> Nat]
  /\ created[6] \in [Users -> [Mints -> Nat]]
  /\ invested[1] \in [Users -> Nat]
  /\ invested[2] \in [Configs -> Nat]
  /\ invested[3] \in [Configs -> [Legs -> Nat]]
  /\ invested[4] \in [Users -> [Configs -> ReserveType]]
  /\ invested[5] \in [Strategies -> [Legs -> Nat]]
  /\ invested[6] \in [Configs -> [Legs -> Nat]]
  /\ invested[7] \in [Configs -> [Legs -> Nat]]

\* No swap of reserves r waits.
Settled(r) ==
  \A u \in Users, c \in Configs :
    \A i \in DOMAIN r[u][c].swap_to_ratio_vaults : r[u][c].swap_to_ratio_vaults[i].executed

\* Nobody holds assets of a strategy that does not exist.
Unopened(vaults, positions) ==
  \A s \in Strategies : ~vaults[s].initialized =>
    \A u \in Users : positions[u][s].assets = 0

\* A state from which a transaction may start, in a tuple.
Sound(b) == TypedVars(b) /\ Settled(b[2][4]) /\ Unopened(b[1][3], b[1][4])

\* Instruction ix is all of a transaction of user u.
Single(ix, call, u, about) ==
  \/ Configures(ix)
  \/ about \in Strategies /\ Creates(ix, about)
  \/ /\ call = "depositToEscrowTx" /\ u \in Users
     /\ MovesEscrow("depositToEscrow", ix, u)
  \/ /\ call = "withdrawFromEscrow" /\ u \in Users
     /\ MovesEscrow("withdrawFromEscrow", ix, u)
  \/ /\ u \in Users /\ about \in Strategies
     /\ ForStrategy("removeLiquidityRaydiumVaultStrategy", ix, u, about)

\* It has not been executed.
Alone ==
  /\ vars = tx.before.vars
  /\ tx.queue = <<tx.queue[1]>>
  /\ Single(tx.queue[1], tx.call, tx.user, tx.about)

\* An investment, of which nothing has been executed.
Investing ==
  /\ tx.call = "addLiquidityRaydiumStrategyTx"
  /\ tx.user \in Users /\ tx.about \in Strategies
ToSwap(ix) == ForStrategy("swapToRatioRaydiumVaultStrategy", ix, tx.user, tx.about)
ToAdd(ix)  == ForStrategy("addLiquidityRaydiumVaultStrategy", ix, tx.user, tx.about)
Whole ==
  /\ Investing /\ vars = tx.before.vars
  /\ tx.queue = <<tx.queue[1], tx.queue[2], tx.queue[3]>>
  /\ Invests(tx.queue[1], tx.user, tx.about)
  /\ ToSwap(tx.queue[2]) /\ ToAdd(tx.queue[3])

\* The amount has left the escrow, what is kept of it is in the config's, and
\* the investor's reserve is r.
Spent(amount, kept, r) ==
  LET c == ConfigOf[tx.about]
      invested == tx.before.vars[2]
  IN
  /\ amount \in 1..invested[1][tx.user]
  /\ escrow = [invested[1] EXCEPT ![tx.user] = @ - amount]
  /\ usdc_escrow = [invested[2] EXCEPT ![c] = @ + kept]
  /\ reserve = [invested[4] EXCEPT ![tx.user][c] = r]
  /\ investor_strategy_position = tx.before.vars[1][4]

\* The amount is reserved; the swap and the deposit are left.
Reserved ==
  /\ Investing
  /\ tx.queue = <<tx.queue[1], tx.queue[2]>>
  /\ ToSwap(tx.queue[1]) /\ ToAdd(tx.queue[2])
  /\ LET amount == reserve[tx.user][ConfigOf[tx.about]].reserved_amount
     IN Spent(amount, amount, InitializeReserve(amount))

\* A part of the amount is swapped; the deposit is left.
Swapped ==
  /\ Investing
  /\ tx.queue = <<tx.queue[1]>>
  /\ ToAdd(tx.queue[1])
  /\ LET r     == reserve[tx.user][ConfigOf[tx.about]]
         entry == r.swap_to_ratio_vaults[1]
         part  == entry.amount_in
     IN /\ part \in 1..r.reserved_amount
        /\ entry = SwapToRatioVault(tx.about, part, entry.token_amount)
        /\ Spent(r.reserved_amount, r.reserved_amount - part,
                 [reserved_amount |-> r.reserved_amount, swap_to_ratio_vaults |-> <<entry>>])

ClientInv ==
  /\ TypeOK /\ Unopened(vault_strategy, investor_strategy_position)
  /\ tx = NoTx => Settled(reserve)
  /\ tx # NoTx =>
       /\ tx = [call |-> tx.call, user |-> tx.user, about |-> tx.about, queue |-> tx.queue,
                before |-> tx.before]
       /\ Sound(tx.before.vars)
       /\ Alone \/ Whole \/ Reserved \/ Swapped

LEMMA SoundNow ==
  ASSUME TypeOK, Settled(reserve), Unopened(vault_strategy, investor_strategy_position)
  PROVE  Sound(vars)
<1>1. /\ vars[1] = creationVars /\ vars[2] = investVars
      /\ creationVars[3] = vault_strategy /\ creationVars[4] = investor_strategy_position
      /\ investVars[4] = reserve
  BY DEF vars, creationVars, investVars
<1>2. TypedVars(vars)
  BY DEF TypeOK, CreationTypeOK, TypedVars, vars, creationVars, investVars
<1>. QED  BY <1>1, <1>2 DEF Sound

LEMMA SubmittedAlone ==
  ASSUME ClientInv, NEW u, NEW call, NEW about, NEW ix, Single(ix, call, u, about),
         Submit(u, call, about, <<ix>>)
  PROVE  ClientInv'
<1>1. /\ TypeOK /\ Settled(reserve) /\ Unopened(vault_strategy, investor_strategy_position)
      /\ UNCHANGED vars
  BY DEF ClientInv, Submit
<1>2. /\ tx' # NoTx
      /\ tx' = [call |-> tx'.call, user |-> tx'.user, about |-> tx'.about,
                queue |-> tx'.queue, before |-> tx'.before]
      /\ tx'.call = call /\ tx'.user = u /\ tx'.about = about /\ tx'.queue = <<ix>>
      /\ tx'.before.vars = vars
  BY SubmittedRecord
<1>3. Sound(vars)
  BY <1>1, SoundNow
<1>4. TypeOK' /\ Unopened(vault_strategy, investor_strategy_position)'
  BY <1>1 DEF TypeOK, CreationTypeOK, vars, creationVars, investVars
<1>5. Alone'
  BY <1>1, <1>2 DEF Alone
<1>6. Sound(tx'.before.vars)
  BY <1>2, <1>3
<1>. QED  BY <1>2, <1>4, <1>5, <1>6 DEF ClientInv

LEMMA SubmittedWhole ==
  ASSUME ~IdlIsCommitted, ClientInv, NEW u \in Users, NEW s \in Strategies,
         NEW amount \in Amounts,
         Submit(u, "addLiquidityRaydiumStrategyTx", s,
                addLiquidityRaydiumStrategyTx(u, s, amount))
  PROVE  ClientInv'
<1>. DEFINE q == addLiquidityRaydiumStrategyTx(u, s, amount)
<1>1. /\ TypeOK /\ Settled(reserve) /\ Unopened(vault_strategy, investor_strategy_position)
      /\ UNCHANGED vars
  BY DEF ClientInv, Submit
<1>2. /\ tx' # NoTx
      /\ tx' = [call |-> tx'.call, user |-> tx'.user, about |-> tx'.about,
                queue |-> tx'.queue, before |-> tx'.before]
      /\ tx'.call = "addLiquidityRaydiumStrategyTx" /\ tx'.user = u /\ tx'.about = s
      /\ tx'.queue = q /\ tx'.before.vars = vars
  BY SubmittedRecord
<1>3. Sound(vars)
  BY <1>1, SoundNow
<1>4. TypeOK' /\ Unopened(vault_strategy, investor_strategy_position)'
  BY <1>1 DEF TypeOK, CreationTypeOK, vars, creationVars, investVars
<1>5. q = <<investReserveIx(u, s, amount), swapToRatioIx(u, s), addLiquidityIx(u, s)>>
  BY DEF addLiquidityRaydiumStrategyTx
<1>6. Invests(investReserveIx(u, s, amount), u, s)
  <2>1. amount * LAMPORTS_PER_USDC \in Nat
    <3>1. amount \in Nat /\ LAMPORTS_PER_USDC \in Nat
      BY AmountType, ClientAddressAssumption DEF ClientAddressAssumption
    <3>. QED  BY <3>1
  <2>2. LET ix == investReserveIx(u, s, amount) IN
        /\ HandlerAt(ix.discriminator) = "investReserve"
        /\ ReceivedAccounts(ix).investor = Key(u)
        /\ ReceivedAccounts(ix).vaultStrategyConfig = ConfigAddress(ConfigOf[s])
        /\ ReceivedArgs(ix).amount = amount * LAMPORTS_PER_USDC
    BY InvestReserveCall
  <2>. QED  BY <2>1, <2>2 DEF Invests, MovesEscrow, Asks
<1>7. ForStrategy("swapToRatioRaydiumVaultStrategy", swapToRatioIx(u, s), u, s)
  BY SwapCall DEF ForStrategy, Asks
<1>8. ForStrategy("addLiquidityRaydiumVaultStrategy", addLiquidityIx(u, s), u, s)
  BY AddCall DEF ForStrategy, Asks
<1>9. q = <<q[1], q[2], q[3]>> /\ q[1] = investReserveIx(u, s, amount)
      /\ q[2] = swapToRatioIx(u, s) /\ q[3] = addLiquidityIx(u, s)
  BY <1>5
<1>. HIDE DEF q
<1>10. Whole'
  BY <1>1, <1>2, <1>6, <1>7, <1>8, <1>9 DEF Whole, Investing, ToSwap, ToAdd
<1>11. Sound(tx'.before.vars)
  BY <1>2, <1>3
<1>. QED  BY <1>2, <1>4, <1>10, <1>11 DEF ClientInv

\* A transaction starts from a sound state, with nothing of it done.
LEMMA SubmittedStage ==
  ASSUME ~IdlIsCommitted, ClientInv, SubmitAdmin \/ SubmitCreator \/ SubmitInvestor
  PROVE  ClientInv'
<1>2. ASSUME NEW a \in Admins, NEW m \in {"initProtocolConfig", "pauseProtocol", "unpauseProtocol"},
             NEW fees, Submit(a, "admin", NoKey, adminMethod(a, m, fees))
      PROVE  ClientInv'
  <2>. DEFINE ix == adminMethod(a, m, fees)[1]
  <2>1. adminMethod(a, m, fees) = <<ix>>
    BY DEF adminMethod
  <2>2. Configures(ix)
    BY AdminCall DEF Configures
  <2>. HIDE DEF ix
  <2>. QED  BY <1>2, <2>1, <2>2, SubmittedAlone DEF Single
<1>3. ASSUME NEW c \in Configs, NEW fee,
             Submit(CreatorOf[c], "createVaultStrategyConfigTx", c,
                    createVaultStrategyConfigTx(c, fee))
      PROVE  ClientInv'
  <2>. DEFINE ix == createVaultStrategyConfigTx(c, fee)[1]
  <2>1. createVaultStrategyConfigTx(c, fee) = <<ix>>
    BY DEF createVaultStrategyConfigTx
  <2>2. Configures(ix)
    BY InitVaultCall DEF Configures
  <2>. HIDE DEF ix
  <2>. QED  BY <1>3, <2>1, <2>2, SubmittedAlone DEF Single
<1>4. ASSUME NEW s \in Strategies, NEW percentage \in Percentages,
             NEW amount_max \in [Legs -> CreateAmounts], NEW ticks,
             Submit(CreatorOf[ConfigOf[s]], "createRaydiumStrategyTx", s,
                    createRaydiumStrategyTx(s, percentage, amount_max, ticks))
      PROVE  ClientInv'
  <2>. DEFINE ix == createRaydiumStrategyTx(s, percentage, amount_max, ticks)[1]
  <2>1. createRaydiumStrategyTx(s, percentage, amount_max, ticks) = <<ix>>
    BY DEF createRaydiumStrategyTx
  <2>2. Creates(ix, s)
    <3>1. amount_max[0] \in CreateAmounts /\ amount_max[1] \in CreateAmounts
      BY DEF Legs
    <3>2. /\ HandlerAt(ix.discriminator) = "createRaydiumVaultStrategy"
          /\ ReceivedAccounts(ix).vaultStrategy = ClientStrategy(s)
          /\ ReceivedArgs(ix).percentage = percentage
          /\ ReceivedArgs(ix).amount0Max = amount_max[0]
          /\ ReceivedArgs(ix).amount1Max = amount_max[1]
      BY CreateCall
    <3>. QED  BY <3>1, <3>2 DEF Creates
  <2>. HIDE DEF ix
  <2>. QED  BY <1>4, <2>1, <2>2, SubmittedAlone DEF Single
<1>5. ASSUME NEW u \in Users, NEW amount \in Amounts,
             \/ Submit(u, "depositToEscrowTx", NoKey, depositToEscrowTx(u, amount))
             \/ Submit(u, "withdrawFromEscrow", NoKey, withdrawFromEscrow(u, amount))
      PROVE  ClientInv'
  <2>. DEFINE EscrowIx(m) ==
         Instruction(m, {Key(u)}, [investor |-> Key(u), usdcMint |-> Key(getTokens.USDC)],
                     [amount |-> amount * LAMPORTS_PER_USDC], <<>>)
  <2>1. /\ depositToEscrowTx(u, amount) = <<EscrowIx("depositToEscrow")>>
        /\ withdrawFromEscrow(u, amount) = <<EscrowIx("withdrawFromEscrow")>>
    BY DEF depositToEscrowTx, withdrawFromEscrow
  <2>2. amount * LAMPORTS_PER_USDC \in Nat
    <3>1. amount \in Nat /\ LAMPORTS_PER_USDC \in Nat
      BY AmountType, ClientAddressAssumption DEF ClientAddressAssumption
    <3>. QED  BY <3>1
  <2>3. \A m \in {"depositToEscrow", "withdrawFromEscrow"} :
          /\ HandlerAt(EscrowIx(m).discriminator) = m
          /\ ReceivedAccounts(EscrowIx(m)).investor = Key(u)
          /\ ReceivedArgs(EscrowIx(m)).amount = amount * LAMPORTS_PER_USDC
    BY EscrowCall
  <2>. HIDE DEF EscrowIx
  <2>4. \A m \in {"depositToEscrow", "withdrawFromEscrow"} : MovesEscrow(m, EscrowIx(m), u)
    BY <2>2, <2>3 DEF MovesEscrow, Asks
  <2>5. /\ Single(EscrowIx("depositToEscrow"), "depositToEscrowTx", u, NoKey)
        /\ Single(EscrowIx("withdrawFromEscrow"), "withdrawFromEscrow", u, NoKey)
    BY <2>4 DEF Single
  <2>6. CASE Submit(u, "depositToEscrowTx", NoKey, depositToEscrowTx(u, amount))
    BY <2>1, <2>5, <2>6, SubmittedAlone
  <2>7. CASE Submit(u, "withdrawFromEscrow", NoKey, withdrawFromEscrow(u, amount))
    BY <2>1, <2>5, <2>7, SubmittedAlone
  <2>. QED  BY <1>5, <2>6, <2>7
<1>6. ASSUME NEW u \in Users, NEW s \in Strategies, NEW percentage,
             Submit(u, "removeLiquidityRaydiumStrategyTx", s,
                    removeLiquidityRaydiumStrategyTx(u, s, percentage))
      PROVE  ClientInv'
  <2>. DEFINE ix == removeLiquidityRaydiumStrategyTx(u, s, percentage)[1]
  <2>1. removeLiquidityRaydiumStrategyTx(u, s, percentage) = <<ix>>
    BY DEF removeLiquidityRaydiumStrategyTx
  <2>2. ForStrategy("removeLiquidityRaydiumVaultStrategy", ix, u, s)
    BY SortedMintsDiffer, RemoveCall DEF ForStrategy, Asks
  <2>. HIDE DEF ix
  <2>. QED  BY <1>6, <2>1, <2>2, SubmittedAlone DEF Single
<1>8. CASE SubmitAdmin
  BY <1>2, <1>8 DEF SubmitAdmin
<1>9. CASE SubmitCreator
  BY <1>3, <1>4, <1>9 DEF SubmitCreator
<1>10. CASE SubmitInvestor
  BY <1>5, <1>6, <1>10, SubmittedWhole DEF SubmitInvestor
<1>. QED  BY <1>8, <1>9, <1>10

-----------------------------------------------------------------------------
(* What the instructions do to the books: the escrows of the investors,    *)
(* the USDC of the configs, and the positions.                             *)

books == <<escrow, usdc_escrow, investor_strategy_position>>

\* The escrow of u becomes e.
Moves(u, e) ==
  /\ e \in Nat /\ escrow' = [escrow EXCEPT ![u] = e]
  /\ UNCHANGED <<usdc_escrow, investor_strategy_position>>

\* The position of u in s becomes another, of no more assets if it has any.
Rebooks(u, s) ==
  /\ \E p \in PositionType :
       /\ investor_strategy_position' = [investor_strategy_position EXCEPT ![u][s] = p]
       /\ investor_strategy_position[u][s].assets > 0 =>
            p.assets <= investor_strategy_position[u][s].assets
  /\ UNCHANGED <<escrow, usdc_escrow>>

\* The types, and that nobody holds assets of what does not exist.
Fit == TypeOK /\ Unopened(vault_strategy, investor_strategy_position)

LEMMA FitKept ==
  ASSUME Fit, UNCHANGED <<vault_strategy, investor_strategy_position>>
  PROVE  Unopened(vault_strategy, investor_strategy_position)'
BY DEF Fit, Unopened

LEMMA ConfiguresEffect ==
  ASSUME Fit, NEW ix, Configures(ix), Handle(ix)
  PROVE  Fit' /\ UNCHANGED <<books, reserve>>
<1>. DEFINE h == HandlerAt(ix.discriminator)
            a == ReceivedAccounts(ix)
            g == ReceivedArgs(ix)
<1>1. h # "initVaultStrategyConfig" => HandleAdmin(h, a, g)
  BY DEF Handle, Configures
<1>2. h = "initVaultStrategyConfig" => HandleInitVault(a, g)
  BY DEF Handle
<1>. HIDE DEF h, a, g
<1>3. CASE h # "initVaultStrategyConfig"
  <2>1. PICK x \in Admins :
          \/ InitProtocolConfig(x, g.protocolFees) \/ PauseProtocol(x) \/ UnpauseProtocol(x)
    BY <1>1, <1>3 DEF HandleAdmin
  <2>2. UNCHANGED <<vault_strategy_config, vault_strategy, investor_strategy_position,
                    liquidity, wallet>>
    BY <2>1 DEF InitProtocolConfig, PauseProtocol, UnpauseProtocol, SwitchProtocol
  <2>3. UNCHANGED investVars
    BY <1>1, <1>3 DEF HandleAdmin
  <2>4. protocol_config' \in [status : {"Unknown", "Active", "Paused"},
                              admin_authority : Admins \cup {NoKey}, protocol_fees : Nat]
    <3>1. protocol_config \in [status : {"Unknown", "Active", "Paused"},
                               admin_authority : Admins \cup {NoKey}, protocol_fees : Nat]
      BY DEF Fit, TypeOK, CreationTypeOK
    <3>2. HIGH_FEES \in Nat
      BY CreationAssumption
    <3>3. CASE InitProtocolConfig(x, g.protocolFees)
      <4>1. g.protocolFees \in Nat
        BY <3>2, <3>3 DEF InitProtocolConfig
      <4>. QED  BY <3>3, <4>1 DEF InitProtocolConfig
    <3>4. CASE PauseProtocol(x)
      BY <3>1, <3>4 DEF PauseProtocol, SwitchProtocol
    <3>5. CASE UnpauseProtocol(x)
      BY <3>1, <3>5 DEF UnpauseProtocol, SwitchProtocol
    <3>. QED  BY <2>1, <3>3, <3>4, <3>5
  <2>5. TypeOK'
    BY <2>2, <2>3, <2>4 DEF Fit, TypeOK, CreationTypeOK, investVars
  <2>. QED  BY <2>2, <2>3, <2>5, FitKept DEF Fit, books, investVars
<1>4. CASE h = "initVaultStrategyConfig"
  <2>1. PICK c \in Configs : InitVaultStrategyConfig(c, g.performanceFee)
    BY <1>2, <1>4 DEF HandleInitVault
  <2>2. UNCHANGED investVars
    BY <1>2, <1>4 DEF HandleInitVault
  <2>3. UNCHANGED <<protocol_config, vault_strategy, investor_strategy_position,
                    liquidity, wallet>>
    BY <2>1 DEF InitVaultStrategyConfig
  <2>4. vault_strategy_config' \in [Configs -> ConfigType]
    <3>1. g.performanceFee \in Nat
      BY <2>1, ScaleAssumption
         DEF InitVaultStrategyConfig, CanInitializeConfig, CheckPerformanceFee
    <3>2. vault_strategy_config \in [Configs -> ConfigType]
      BY DEF Fit, TypeOK, CreationTypeOK
    <3>3. <<>> \in Seq(Strategies)
      OBVIOUS
    <3>4. InitializeConfig(vault_strategy_config[c], g.performanceFee) \in ConfigType
      BY <3>1, <3>2, <3>3 DEF InitializeConfig, ConfigType, VaultStrategyStatus
    <3>. QED  BY <2>1, <3>2, <3>4 DEF InitVaultStrategyConfig
  <2>5. TypeOK'
    BY <2>2, <2>3, <2>4 DEF Fit, TypeOK, CreationTypeOK, investVars
  <2>. QED  BY <2>2, <2>3, <2>5, FitKept DEF Fit, books, investVars
<1>. QED  BY <1>3, <1>4

LEMMA CreatesEffect ==
  ASSUME Fit, NEW s \in Strategies, NEW ix, Creates(ix, s), Handle(ix)
  PROVE  /\ Fit' /\ UNCHANGED reserve
         /\ \E u \in Users : Rebooks(u, s)
<1>1. PICK percentage \in Percentages, amount_max \in [Legs -> CreateAmounts],
           price \in [Legs -> Prices], range \in Ranges :
        CreateRaydiumVaultStrategy(s, percentage, amount_max, price, range)
  BY CreateHandled
<1>2. UNCHANGED investVars
  BY CreateHandled
<1>3. CreationTypeOK
  BY DEF Fit, TypeOK
<1>4. /\ CreationTypeOK' /\ ~vault_strategy[s].initialized /\ vault_strategy'[s].initialized
      /\ \A t \in Strategies \ {s} : vault_strategy'[t] = vault_strategy[t]
  BY <1>1, <1>3, CreateEffect
<1>5. PICK u \in Users, newPos \in PositionType, booked \in Nat :
        /\ newPos = Deposit(investor_strategy_position[u][s], booked,
                            vault_strategy[s].total_assets, vault_strategy[s].total_shares)
        /\ investor_strategy_position' = [investor_strategy_position EXCEPT ![u][s] = newPos]
        /\ vault_strategy'[s].total_assets = SatAdd(vault_strategy[s].total_assets, booked)
        /\ vault_strategy'[s].total_shares
             = SatAdd(vault_strategy[s].total_shares, newPos.shares)
  BY <1>1, <1>3, CreateEffect
<1>6. TypeOK'
  BY <1>2, <1>4 DEF Fit, TypeOK, investVars
<1>7. investor_strategy_position \in [Users -> [Strategies -> PositionType]]
  BY <1>3 DEF CreationTypeOK
<1>8. Unopened(vault_strategy', investor_strategy_position')
  <2>1. \A t \in Strategies, v \in Users : t # s =>
          investor_strategy_position'[v][t] = investor_strategy_position[v][t]
    BY <1>5, <1>7
  <2>. QED  BY <1>4, <2>1 DEF Fit, Unopened
<1>9. investor_strategy_position[u][s].assets = 0
  BY <1>4 DEF Fit, Unopened
<1>10. Rebooks(u, s)
  <2>1. /\ investor_strategy_position' = [investor_strategy_position EXCEPT ![u][s] = newPos]
        /\ ~(investor_strategy_position[u][s].assets > 0)
    BY <1>5, <1>9
  <2>2. UNCHANGED <<escrow, usdc_escrow>>
    BY <1>2 DEF investVars
  <2>. QED  BY <2>1, <2>2 DEF Rebooks
<1>. QED  BY <1>2, <1>6, <1>8, <1>10 DEF Fit, investVars

LEMMA EscrowEffect ==
  ASSUME Fit, NEW u \in Users, NEW amount \in Nat,
         DepositToEscrow(u, amount) \/ WithdrawFromEscrow(u, amount)
  PROVE  /\ Fit' /\ UNCHANGED reserve
         /\ DepositToEscrow(u, amount) => \E e : Moves(u, e) /\ e >= escrow[u]
         /\ WithdrawFromEscrow(u, amount) => \E e : Moves(u, e) /\ e <= escrow[u]
<1>1. TypeOK'
  BY DepositToEscrowType DEF Fit
<1>2. UNCHANGED <<vault_strategy, investor_strategy_position, reserve, usdc_escrow>>
  BY DEF DepositToEscrow, WithdrawFromEscrow
<1>3. escrow[u] \in Nat
  BY DEF Fit, TypeOK
<1>4. ASSUME DepositToEscrow(u, amount)
      PROVE  \E e : Moves(u, e) /\ e >= escrow[u]
  <2>1. Moves(u, escrow[u] + amount)
    BY <1>2, <1>3, <1>4 DEF Moves, DepositToEscrow
  <2>. QED  BY <1>3, <2>1
<1>5. ASSUME WithdrawFromEscrow(u, amount)
      PROVE  \E e : Moves(u, e) /\ e <= escrow[u]
  <2>1. Moves(u, escrow[u] - amount)
    BY <1>2, <1>3, <1>5 DEF Moves, WithdrawFromEscrow
  <2>. QED  BY <1>3, <2>1
<1>. QED  BY <1>1, <1>2, <1>4, <1>5, FitKept DEF Fit

LEMMA RemovesEffect ==
  ASSUME Fit, NEW u \in Users, NEW s \in Strategies, NEW percentage, NEW range \in Ranges,
         RemoveLiquidity(u, s, percentage, range)
  PROVE  /\ Fit' /\ UNCHANGED reserve
         /\ Rebooks(u, s)
<1>. DEFINE v == vault_strategy[s]
            pos == investor_strategy_position[u][s]
<1>1. TypeOK' /\ UNCHANGED <<vault_strategy_config, usdc_escrow, reserve>>
  BY RemoveLiquidityEffect DEF Fit
<1>2. PICK burn \in U64, assets \in Nat :
        /\ investor_strategy_position' =
             [investor_strategy_position EXCEPT
                ![u][s] = [initialized |-> pos.initialized, shares |-> pos.shares - burn,
                           assets |-> SatSub(pos.assets, assets)]]
        /\ vault_strategy' =
             [vault_strategy EXCEPT ![s] = RemoveShares(RemoveAssets(v, assets), burn)]
  BY RemoveLiquidityEffect DEF Fit
<1>. DEFINE p == [initialized |-> pos.initialized, shares |-> pos.shares - burn,
                  assets |-> SatSub(pos.assets, assets)]
            w == RemoveShares(RemoveAssets(v, assets), burn)
<1>3. /\ investor_strategy_position \in [Users -> [Strategies -> PositionType]]
      /\ investor_strategy_position' \in [Users -> [Strategies -> PositionType]]
      /\ vault_strategy \in [Strategies -> VaultType]
  BY <1>1 DEF Fit, TypeOK, CreationTypeOK
<1>4. pos \in PositionType /\ v \in VaultType /\ pos.assets \in Nat
  BY <1>3, U64Type DEF PositionType
<1>5. p.assets \in Nat /\ p.assets <= pos.assets
  BY <1>4 DEF SatSub
<1>6. w.initialized = v.initialized
  BY <1>4 DEF RemoveShares, RemoveAssets, VaultType
<1>. HIDE DEF p, w
<1>7. /\ investor_strategy_position' = [investor_strategy_position EXCEPT ![u][s] = p]
      /\ vault_strategy' = [vault_strategy EXCEPT ![s] = w]
  BY <1>2 DEF p, w
<1>8. p \in PositionType
  BY <1>3, <1>7
<1>9. UNCHANGED escrow
  BY DEF RemoveLiquidity
<1>10. Unopened(vault_strategy', investor_strategy_position')
  <2>. SUFFICES ASSUME NEW t \in Strategies, ~vault_strategy'[t].initialized, NEW x \in Users
                PROVE  investor_strategy_position'[x][t].assets = 0
    BY DEF Unopened
  <2>1. ~vault_strategy[t].initialized
    BY <1>3, <1>6, <1>7
  <2>2. investor_strategy_position[x][t].assets = 0
    BY <2>1 DEF Fit, Unopened
  <2>3. CASE x = u /\ t = s
    <3>1. investor_strategy_position'[x][t] = p
      BY <1>3, <1>7, <2>3
    <3>. QED  BY <1>5, <2>2, <2>3, <3>1
  <2>4. CASE ~(x = u /\ t = s)
    BY <1>3, <1>7, <2>2, <2>4
  <2>. QED  BY <2>3, <2>4
<1>11. Rebooks(u, s)
  BY <1>1, <1>5, <1>7, <1>8, <1>9 DEF Rebooks
<1>. QED  BY <1>1, <1>10, <1>11 DEF Fit

\* What a transaction of one instruction does.
LEMMA SingleEffect ==
  ASSUME Fit, NEW ix, NEW call, NEW user, NEW about, Single(ix, call, user, about), Handle(ix)
  PROVE  /\ Fit' /\ UNCHANGED reserve
         /\ \/ UNCHANGED books
            \/ /\ call = "depositToEscrowTx" /\ user \in Users
               /\ \E e : Moves(user, e) /\ e >= escrow[user]
            \/ /\ call = "withdrawFromEscrow" /\ user \in Users
               /\ \E e : Moves(user, e) /\ e <= escrow[user]
            \/ \E u \in Users, s \in Strategies : Rebooks(u, s)
<1>1. CASE Configures(ix)
  BY <1>1, ConfiguresEffect
<1>2. CASE about \in Strategies /\ Creates(ix, about)
  BY <1>2, CreatesEffect
<1>3. CASE /\ call = "depositToEscrowTx" /\ user \in Users
           /\ MovesEscrow("depositToEscrow", ix, user)
  <2>1. ReceivedArgs(ix).amount \in Nat
    BY <1>3 DEF MovesEscrow
  <2>2. DepositToEscrow(user, ReceivedArgs(ix).amount)
    BY <1>3, EscrowHandled
  <2>. QED  BY <1>3, <2>1, <2>2, EscrowEffect
<1>4. CASE /\ call = "withdrawFromEscrow" /\ user \in Users
           /\ MovesEscrow("withdrawFromEscrow", ix, user)
  <2>1. ReceivedArgs(ix).amount \in Nat
    BY <1>4 DEF MovesEscrow
  <2>2. WithdrawFromEscrow(user, ReceivedArgs(ix).amount)
    BY <1>4, EscrowHandled
  <2>. QED  BY <1>4, <2>1, <2>2, EscrowEffect
<1>5. CASE /\ user \in Users /\ about \in Strategies
           /\ ForStrategy("removeLiquidityRaydiumVaultStrategy", ix, user, about)
  <2>1. PICK range \in Ranges : RemoveLiquidity(user, about, ReceivedArgs(ix).percentage, range)
    BY <1>5, LiquidityHandled
  <2>. QED  BY <1>5, <2>1, RemovesEffect
<1>. QED  BY <1>1, <1>2, <1>3, <1>4, <1>5 DEF Single

-----------------------------------------------------------------------------
(* What a transaction has done after each of its instructions.             *)

\* A function that is updated twice at a place has the later value there.
LEMMA UpdatedTwice ==
  ASSUME NEW S, NEW T, NEW f \in [S -> T], NEW x \in S, NEW a, NEW b
  PROVE  [[f EXCEPT ![x] = a] EXCEPT ![x] = b] = [f EXCEPT ![x] = b]
OBVIOUS

LEMMA UpdatedTwiceWithin ==
  ASSUME NEW S, NEW D, NEW T, NEW g \in [S -> [D -> T]], NEW x \in S, NEW y \in D,
         NEW a, NEW b
  PROVE  /\ [[g EXCEPT ![x][y] = a] EXCEPT ![x][y] = b] = [g EXCEPT ![x][y] = b]
         /\ [g EXCEPT ![x][y] = a][x][y] = a
OBVIOUS

\* The balances in the tuple of all variables.
LEMMA InTuple ==
  ASSUME NEW b, vars = b
  PROVE  /\ escrow = b[2][1] /\ usdc_escrow = b[2][2] /\ reserve = b[2][4]
         /\ investor_strategy_position = b[1][4] /\ vault_strategy = b[1][3]
BY DEF vars, creationVars, investVars

\* An instruction that is not the last leaves the rest of the transaction.
LEMMA ExecutedMore ==
  ASSUME tx = [call |-> tx.call, user |-> tx.user, about |-> tx.about, queue |-> tx.queue,
               before |-> tx.before],
         Execute, Len(tx.queue) # 1
  PROVE  /\ tx' # NoTx
         /\ tx' = [call |-> tx'.call, user |-> tx'.user, about |-> tx'.about,
                   queue |-> tx'.queue, before |-> tx'.before]
         /\ tx'.call = tx.call /\ tx'.user = tx.user /\ tx'.about = tx.about
         /\ tx'.queue = Tail(tx.queue) /\ tx'.before = tx.before
<1>. DEFINE call == tx.call
            u == tx.user
            about == tx.about
            queue == tx.queue
            before == tx.before
            r == [call |-> call, user |-> u, about |-> about, queue |-> Tail(queue),
                  before |-> before]
<1>1. tx' = [tx EXCEPT !.queue = Tail(@)]
  BY DEF Execute
<1>2. tx = [call |-> call, user |-> u, about |-> about, queue |-> queue, before |-> before]
  OBVIOUS
<1>. HIDE DEF call, u, about, queue, before
<1>3. tx' = r
  BY <1>1, <1>2
<1>4. "queue" \in DOMAIN r /\ "queue" \notin DOMAIN NoTx
  BY DEF NoTx
<1>5. r = [call |-> r.call, user |-> r.user, about |-> r.about, queue |-> r.queue,
           before |-> r.before]
  OBVIOUS
<1>6. /\ r.call = call /\ r.user = u /\ r.about = about /\ r.queue = Tail(queue)
      /\ r.before = before
  OBVIOUS
<1>. HIDE DEF r
<1>. QED  BY <1>3, <1>4, <1>5, <1>6 DEF call, u, about, queue, before

\* The only instruction of a transaction ends it.
LEMMA ExecutedAlone ==
  ASSUME Fit, Alone, Sound(tx.before.vars), Execute
  PROVE  /\ Fit' /\ tx' = NoTx /\ Settled(reserve')
         /\ \/ UNCHANGED books
            \/ /\ tx.call = "depositToEscrowTx" /\ tx.user \in Users
               /\ \E e : Moves(tx.user, e) /\ e >= escrow[tx.user]
            \/ /\ tx.call = "withdrawFromEscrow" /\ tx.user \in Users
               /\ \E e : Moves(tx.user, e) /\ e <= escrow[tx.user]
            \/ \E u \in Users, s \in Strategies : Rebooks(u, s)
<1>1. PICK ix : tx.queue = <<ix>> /\ ix = tx.queue[1]
  BY DEF Alone
<1>2. Head(tx.queue) = ix /\ Len(tx.queue) = 1
  BY <1>1
<1>3. Handle(ix) /\ tx' = NoTx
  BY <1>2 DEF Execute
<1>4. Single(ix, tx.call, tx.user, tx.about)
  BY <1>1 DEF Alone
<1>5. Settled(reserve)
  <2>1. reserve = tx.before.vars[2][4]
    BY InTuple DEF Alone
  <2>. QED  BY <2>1 DEF Sound
<1>. QED  BY <1>3, <1>4, <1>5, SingleEffect

\* The first instruction of an investment reserves the amount.
LEMMA ExecutedWhole ==
  ASSUME Fit, Whole, Execute,
         tx = [call |-> tx.call, user |-> tx.user, about |-> tx.about, queue |-> tx.queue,
               before |-> tx.before]
  PROVE  /\ Fit' /\ Reserved' /\ tx' # NoTx /\ tx'.before = tx.before
         /\ tx' = [call |-> tx'.call, user |-> tx'.user, about |-> tx'.about,
                   queue |-> tx'.queue, before |-> tx'.before]
<1>. DEFINE u == tx.user
            s == tx.about
            c == ConfigOf[s]
            b == tx.before.vars
<1>1. PICK i, j, k : tx.queue = <<i, j, k>>
  BY DEF Whole
<1>2. /\ Head(tx.queue) = i /\ Len(tx.queue) = 3 /\ Tail(tx.queue) = <<j, k>>
      /\ tx.queue[1] = i /\ tx.queue[2] = j /\ tx.queue[3] = k
  BY <1>1
<1>3. /\ u \in Users /\ s \in Strategies /\ c \in Configs
      /\ Invests(i, u, s) /\ ToSwap(j) /\ ToAdd(k)
  BY <1>2, CreationAssumption DEF Whole, Investing
<1>. DEFINE amount == ReceivedArgs(i).amount
<1>4. amount \in Nat
  BY <1>3 DEF Invests, MovesEscrow
<1>5. InvestReserve(u, c, amount)
  BY <1>2, <1>3, InvestHandled DEF Execute
<1>. HIDE DEF amount
<1>6. /\ TypeOK' /\ reserve' = [reserve EXCEPT ![u][c] = InitializeReserve(amount)]
      /\ usdc_escrow' = [usdc_escrow EXCEPT ![c] = usdc_escrow[c] + amount]
  BY <1>3, <1>4, <1>5, InvestReserveEffect DEF Fit
<1>7. /\ amount > 0 /\ escrow[u] >= amount
      /\ escrow' = [escrow EXCEPT ![u] = escrow[u] - amount]
      /\ UNCHANGED <<vault_strategy, investor_strategy_position>>
  BY <1>5 DEF InvestReserve, creationVars
<1>8. /\ escrow = b[2][1] /\ usdc_escrow = b[2][2] /\ reserve = b[2][4]
      /\ investor_strategy_position = b[1][4]
  BY InTuple DEF Whole
<1>9. reserve'[u][c] = InitializeReserve(amount)
  <2>1. reserve \in [Users -> [Configs -> ReserveType]]
    BY DEF Fit, TypeOK
  <2>. QED  BY <1>3, <1>6, <2>1, UpdatedTwiceWithin
<1>10. reserve'[u][c].reserved_amount = amount
  BY <1>9 DEF InitializeReserve
<1>11. /\ tx' # NoTx /\ tx'.call = tx.call /\ tx'.user = u /\ tx'.about = s
       /\ tx'.queue = <<j, k>> /\ tx'.before = tx.before
       /\ tx' = [call |-> tx'.call, user |-> tx'.user, about |-> tx'.about,
                 queue |-> tx'.queue, before |-> tx'.before]
  BY <1>2, ExecutedMore, SMTT(20)
<1>12. amount \in 1..escrow[u]
  <2>1. escrow[u] \in Nat
    BY <1>3 DEF Fit, TypeOK
  <2>. QED  BY <1>4, <1>7, <2>1
<1>. HIDE DEF u, s, c, b
<1>13. Spent(amount, amount, InitializeReserve(amount))'
  BY <1>6, <1>7, <1>8, <1>11, <1>12 DEF Spent, b, c
<1>14. Investing' /\ ToSwap(j)' /\ ToAdd(k)'
  BY <1>3, <1>11 DEF Whole, Investing, ToSwap, ToAdd, u, s
<1>15. Reserved'
  <2>1. tx'.queue = <<tx'.queue[1], tx'.queue[2]>> /\ tx'.queue[1] = j /\ tx'.queue[2] = k
    BY <1>11
  <2>. QED  BY <1>10, <1>11, <1>13, <1>14, <2>1 DEF Reserved, ToSwap, ToAdd, c
<1>. QED  BY <1>6, <1>7, <1>11, <1>15, FitKept DEF Fit

\* What a swap leaves of the books.
LEMMA SwapRecorded ==
  ASSUME TypeOK, NEW u \in Users, NEW s \in Strategies, NEW range, NEW split \in Splits,
         NEW slippage \in Slippages, SwapToRatio(u, s, range, split, slippage)
  PROVE  LET c == ConfigOf[s]
             r == reserve[u][c]
         IN \E part \in Nat, out \in [Legs -> Nat] :
              /\ CanAddSwapToRatioVault(r, SwapToRatioVault(s, part, out))
              /\ reserve' = [reserve EXCEPT
                   ![u][c] = AddSwapToRatioVault(r, SwapToRatioVault(s, part, out))]
              /\ usdc_escrow' = [usdc_escrow EXCEPT ![c] = usdc_escrow[c] - part]
              /\ UNCHANGED <<escrow, investor_strategy_position, vault_strategy>>
<1>. DEFINE c == ConfigOf[s]
            r == reserve[u][c]
            part == UsdcAmount(r.reserved_amount, vault_strategy[s].percentage)
            in == RatioAmounts(s, part, range, split)
            out == [k \in Legs |-> SwapLeg(c, k, in[k], slippage)]
<1>1. /\ r.reserved_amount \in Nat /\ vault_strategy[s].percentage \in Nat
      /\ MAX_PERCENTAGE \in Nat \ {0}
  BY CreationAssumption, ScaleAssumption DEF TypeOK, CreationTypeOK, ReserveType, VaultType
<1>2. part \in Nat
  <2>1. SatMul(r.reserved_amount, vault_strategy[s].percentage) \in Nat
    BY <1>1, U64Type
  <2>. QED  BY <1>1, <2>1, QuotientType DEF UsdcAmount
<1>3. out \in [Legs -> Nat]
  <2>1. in \in [Legs -> Nat] /\ slippage \in Nat
    BY <1>2, RatioType, InvestAssumption
  <2>. HIDE DEF in
  <2>. QED  BY <2>1 DEF SwapLeg, SatSub
<1>4. /\ CanAddSwapToRatioVault(r, SwapToRatioVault(s, part, out))
      /\ reserve' = [reserve EXCEPT
           ![u][c] = AddSwapToRatioVault(r, SwapToRatioVault(s, part, out))]
      /\ usdc_escrow' = [usdc_escrow EXCEPT ![c] = usdc_escrow[c] - part]
      /\ UNCHANGED <<escrow, investor_strategy_position, vault_strategy>>
  BY DEF SwapToRatio, creationVars
<1>. HIDE DEF part, out
<1>. QED  BY <1>2, <1>3, <1>4

\* The second instruction of an investment swaps a part of the amount.
LEMMA ExecutedReserved ==
  ASSUME Fit, Reserved, Execute, Sound(tx.before.vars),
         tx = [call |-> tx.call, user |-> tx.user, about |-> tx.about, queue |-> tx.queue,
               before |-> tx.before]
  PROVE  /\ Fit' /\ Swapped' /\ tx' # NoTx /\ tx'.before = tx.before
         /\ tx' = [call |-> tx'.call, user |-> tx'.user, about |-> tx'.about,
                   queue |-> tx'.queue, before |-> tx'.before]
<1>0. PICK u, s, b : u = tx.user /\ s = tx.about /\ b = tx.before.vars
  OBVIOUS
<1>. DEFINE c == ConfigOf[s]
            r == reserve[u][c]
<1>a. PICK amount : amount = r.reserved_amount
  OBVIOUS
<1>1. PICK j, k : tx.queue = <<j, k>>
  BY DEF Reserved
<1>2. /\ Head(tx.queue) = j /\ Len(tx.queue) = 2 /\ Tail(tx.queue) = <<k>>
      /\ tx.queue[1] = j /\ tx.queue[2] = k
  BY <1>1
<1>3. /\ u \in Users /\ s \in Strategies /\ c \in Configs
      /\ ToSwap(j) /\ ToAdd(k)
  BY <1>0, <1>2, CreationAssumption DEF Reserved, Investing
<1>4. PICK range \in Ranges, split \in Splits, slippage \in Slippages :
        SwapToRatio(u, s, range, split, slippage)
  BY <1>0, <1>2, <1>3, LiquidityHandled DEF Execute, ToSwap
<1>5. TypeOK'
  BY <1>3, <1>4, SwapToRatioEffect DEF Fit
<1>6. PICK part \in Nat, out \in [Legs -> Nat] :
        /\ CanAddSwapToRatioVault(r, SwapToRatioVault(s, part, out))
        /\ reserve' = [reserve EXCEPT
             ![u][c] = AddSwapToRatioVault(r, SwapToRatioVault(s, part, out))]
        /\ usdc_escrow' = [usdc_escrow EXCEPT ![c] = usdc_escrow[c] - part]
        /\ UNCHANGED <<escrow, investor_strategy_position, vault_strategy>>
  BY <1>3, <1>4, SwapRecorded DEF Fit
<1>. DEFINE entry == SwapToRatioVault(s, part, out)
            new == [reserved_amount |-> amount, swap_to_ratio_vaults |-> <<entry>>]
<1>7. Spent(amount, amount, InitializeReserve(amount))
  BY <1>0, <1>a DEF Reserved
<1>8. /\ b[2][1] \in [Users -> Nat] /\ b[2][2] \in [Configs -> Nat]
      /\ b[2][4] \in [Users -> [Configs -> ReserveType]]
  BY <1>0 DEF Sound, TypedVars
<1>. HIDE DEF entry
<1>9. /\ amount \in 1..b[2][1][u]
      /\ escrow = [b[2][1] EXCEPT ![u] = b[2][1][u] - amount]
      /\ usdc_escrow = [b[2][2] EXCEPT ![c] = b[2][2][c] + amount]
      /\ reserve = [b[2][4] EXCEPT ![u][c] = InitializeReserve(amount)]
      /\ investor_strategy_position = b[1][4]
  BY <1>0, <1>7 DEF Spent
<1>10. amount \in Nat /\ b[2][1][u] \in Nat /\ b[2][2][c] \in Nat
  BY <1>3, <1>8, <1>9
<1>11. r = InitializeReserve(amount)
  BY <1>3, <1>8, <1>9, UpdatedTwiceWithin
<1>12. r = [reserved_amount |-> amount, swap_to_ratio_vaults |-> <<>>]
  BY <1>11 DEF InitializeReserve
<1>13. part \in 1..amount
  <2>1. SwappedAmount(r) = 0
    <3>1. r \in ReserveType /\ UnspentOf(r) = amount
      BY <1>10, <1>11, FreshReserve
    <3>2. SwappedAmount(r) \in Nat
      BY <3>1, ReserveFacts
    <3>. QED  BY <1>10, <1>12, <3>1, <3>2 DEF UnspentOf
  <2>2. entry.amount_in = part
    BY DEF entry, SwapToRatioVault
  <2>3. CanAddSwapToRatioVault(r, entry)
    BY <1>6 DEF entry
  <2>4. part > 0 /\ 0 + part <= amount
    BY <1>12, <2>1, <2>2, <2>3 DEF CanAddSwapToRatioVault
  <2>. QED  BY <1>10, <2>4
<1>14. AddSwapToRatioVault(r, entry) = new
  <2>1. Append(<<>>, entry) = <<entry>>
    OBVIOUS
  <2>. QED  BY <1>12, <2>1 DEF AddSwapToRatioVault
<1>. HIDE DEF r, new
<1>15. /\ reserve' = [b[2][4] EXCEPT ![u][c] = new]
       /\ reserve'[u][c] = new
  <2>1. reserve' = [reserve EXCEPT ![u][c] = new]
    BY <1>6, <1>14 DEF entry
  <2>2. [b[2][4] EXCEPT ![u][c] = new][u][c] = new
    BY <1>3, <1>8, UpdatedTwiceWithin
  <2>3. [[b[2][4] EXCEPT ![u][c] = InitializeReserve(amount)] EXCEPT ![u][c] = new]
          = [b[2][4] EXCEPT ![u][c] = new]
    <3>. DEFINE f == b[2][4]
                x == InitializeReserve(amount)
    <3>1. f \in [Users -> [Configs -> ReserveType]] /\ u \in Users /\ c \in Configs
      BY <1>3, <1>8
    <3>. HIDE DEF f, x, c
    <3>. QED  BY <3>1, UpdatedTwiceWithin
  <2>. QED  BY <1>9, <2>1, <2>2, <2>3
<1>16. usdc_escrow' = [b[2][2] EXCEPT ![c] = b[2][2][c] + (amount - part)]
  <2>1. usdc_escrow[c] = b[2][2][c] + amount
    BY <1>3, <1>8, <1>9
  <2>2. (b[2][2][c] + amount) - part = b[2][2][c] + (amount - part)
    BY <1>10
  <2>3. usdc_escrow' = [usdc_escrow EXCEPT ![c] = b[2][2][c] + (amount - part)]
    BY <1>6, <2>1, <2>2
  <2>. QED  BY <1>3, <1>8, <1>9, <2>3, UpdatedTwice
<1>17. /\ tx' # NoTx /\ tx'.call = tx.call /\ tx'.user = u /\ tx'.about = s
       /\ tx'.queue = <<k>> /\ tx'.before = tx.before /\ tx'.before.vars = b
       /\ tx' = [call |-> tx'.call, user |-> tx'.user, about |-> tx'.about,
                 queue |-> tx'.queue, before |-> tx'.before]
  BY <1>0, <1>2, ExecutedMore, SMTT(20)
<1>18. /\ new.reserved_amount = amount /\ new.swap_to_ratio_vaults[1] = entry
       /\ new = [reserved_amount |-> new.reserved_amount, swap_to_ratio_vaults |-> <<entry>>]
  BY DEF new
<1>19. /\ entry.amount_in = part
       /\ entry = SwapToRatioVault(s, part, entry.token_amount)
  BY DEF entry, SwapToRatioVault
<1>20. Spent(amount, amount - part, new)'
  <2>1. tx'.before.vars = b /\ tx'.user = u /\ ConfigOf[tx'.about] = c
    BY <1>17
  <2>2. UNCHANGED <<escrow, investor_strategy_position>>
    BY <1>6
  <2>. HIDE DEF c
  <2>. QED  BY <1>9, <1>15, <1>16, <2>1, <2>2 DEF Spent
<1>21. Investing' /\ ToAdd(k)'
  BY <1>0, <1>3, <1>17 DEF Reserved, Investing, ToAdd
<1>22. Swapped'
  <2>1. tx'.queue = <<tx'.queue[1]>> /\ tx'.queue[1] = k
    BY <1>17
  <2>. DEFINE r1 == reserve'[tx'.user][ConfigOf[tx'.about]]
  <2>2. r1 = new
    BY <1>15, <1>17 DEF c
  <2>3. Spent(amount, amount - part,
              [reserved_amount |-> amount, swap_to_ratio_vaults |-> <<entry>>])'
    BY <1>20 DEF new
  <2>. HIDE DEF r1
  <2>4. r1.reserved_amount = amount /\ r1.swap_to_ratio_vaults[1] = entry
    BY <1>18, <2>2
  <2>5. /\ part \in 1..r1.reserved_amount
        /\ entry = SwapToRatioVault(tx'.about, part, entry.token_amount)
    BY <1>13, <1>17, <1>19, <2>4
  <2>6. /\ Investing'
        /\ ForStrategy("addLiquidityRaydiumVaultStrategy", tx'.queue[1], tx'.user, tx'.about)
    BY <1>21, <2>1 DEF ToAdd
  <2>. QED  BY <1>19, <2>1, <2>3, <2>4, <2>5, <2>6 DEF Swapped, ToAdd, r1
<1>. QED  BY <1>5, <1>6, <1>17, <1>22, FitKept DEF Fit

\* The only swap of a reserve is the one that add_liquidity uses and marks.
LEMMA OnlySwap ==
  ASSUME NEW s \in Strategies, NEW part \in Nat, NEW out \in [Legs -> Nat], NEW n \in Nat
  PROVE  LET entry == SwapToRatioVault(s, part, out)
             r == [reserved_amount |-> n, swap_to_ratio_vaults |-> <<entry>>]
         IN
         /\ r.swap_to_ratio_vaults[First(PendingEntries(r, s))] = entry
         /\ \A x \in {CleanUp(r), SetSwapToRatioExecuted(r, s)} :
              \A i \in DOMAIN x.swap_to_ratio_vaults : x.swap_to_ratio_vaults[i].executed
<1>. DEFINE entry == SwapToRatioVault(s, part, out)
            r == [reserved_amount |-> n, swap_to_ratio_vaults |-> <<entry>>]
<1>1. entry.vault_strategy_key = s /\ ~entry.executed
  BY DEF SwapToRatioVault
<1>2. /\ r.swap_to_ratio_vaults = <<entry>> /\ DOMAIN <<entry>> = {1}
      /\ <<entry>>[1] = entry
  OBVIOUS
<1>. DEFINE marked == [entry EXCEPT !.executed = TRUE]
<1>3. marked.executed
  BY DEF SwapToRatioVault
<1>. HIDE DEF entry
<1>4. EntriesOf(r, s) = {1} /\ PendingEntries(r, s) = {1}
  BY <1>1, <1>2 DEF EntriesOf, PendingEntries
<1>5. First({1}) = 1
  BY DEF First
<1>6. SetSwapToRatioExecuted(r, s)
        = [reserved_amount |-> n, swap_to_ratio_vaults |-> [<<entry>> EXCEPT ![1] = marked]]
  <2>1. SetSwapToRatioExecuted(r, s)
          = [r EXCEPT !.swap_to_ratio_vaults =
               [r.swap_to_ratio_vaults EXCEPT
                  ![1] = [r.swap_to_ratio_vaults[1] EXCEPT !.executed = TRUE]]]
    BY <1>4, <1>5 DEF SetSwapToRatioExecuted
  <2>2. [r.swap_to_ratio_vaults EXCEPT
           ![1] = [r.swap_to_ratio_vaults[1] EXCEPT !.executed = TRUE]]
          = [<<entry>> EXCEPT ![1] = marked]
    BY <1>2
  <2>. HIDE DEF marked
  <2>. QED  BY <2>1, <2>2
<1>. HIDE DEF marked
<1>7. [<<entry>> EXCEPT ![1] = marked] = <<marked>>
  OBVIOUS
<1>8. SetSwapToRatioExecuted(r, s)
        = [reserved_amount |-> n, swap_to_ratio_vaults |-> <<marked>>]
  BY <1>6, <1>7
<1>9. \A i \in DOMAIN <<marked>> : <<marked>>[i].executed
  BY <1>3
<1>10. DOMAIN CleanUp(r).swap_to_ratio_vaults = {}
  BY DEF CleanUp, NoReserve
<1>11. r.swap_to_ratio_vaults[First(PendingEntries(r, s))] = entry
  BY <1>2, <1>4, <1>5
<1>12. \A i \in DOMAIN SetSwapToRatioExecuted(r, s).swap_to_ratio_vaults :
         SetSwapToRatioExecuted(r, s).swap_to_ratio_vaults[i].executed
  BY <1>8, <1>9
<1>. QED  BY <1>10, <1>11, <1>12 DEF entry

\* The balances e of the escrows and l of the configs and the positions p become
\* e1, l1 and p1: u invests an amount in s, and a part of it is booked.
Invested(u, s, e, l, p, e1, l1, p1) ==
  \E amount \in 1..e[u] : \E part \in 1..amount, q \in PositionType :
    /\ e1 = [e EXCEPT ![u] = e[u] - amount]
    /\ l1 = [l EXCEPT ![ConfigOf[s]] = l[ConfigOf[s]] + (amount - part)]
    /\ p1 = [p EXCEPT ![u][s] = q]
    /\ q.assets = SatAdd(p[u][s].assets, part)

\* The last instruction of an investment books the part that was swapped.
LEMMA ExecutedSwapped ==
  ASSUME Fit, Swapped, Execute, Sound(tx.before.vars)
  PROVE  /\ Fit' /\ tx' = NoTx /\ Settled(reserve')
         /\ tx.user \in Users /\ tx.about \in Strategies
         /\ Invested(tx.user, tx.about, tx.before.vars[2][1], tx.before.vars[2][2],
                     tx.before.vars[1][4], escrow', usdc_escrow', investor_strategy_position')
<1>1. PICK u, s, b : u = tx.user /\ s = tx.about /\ b = tx.before.vars
  OBVIOUS
<1>. DEFINE c == ConfigOf[s]
            r == reserve[u][c]
<1>2. PICK k : tx.queue = <<k>>
  BY DEF Swapped
<1>3. Head(tx.queue) = k /\ Len(tx.queue) = 1 /\ tx.queue[1] = k
  BY <1>2
<1>4. /\ u \in Users /\ s \in Strategies /\ c \in Configs /\ ToAdd(k)
  BY <1>1, <1>3, CreationAssumption DEF Swapped, Investing
<1>5. tx' = NoTx
  BY <1>3 DEF Execute
<1>6. PICK range \in Ranges : AddLiquidity(u, s, range)
  BY <1>1, <1>3, <1>4, LiquidityHandled DEF Execute, ToAdd
<1>7. TypeOK' /\ UNCHANGED usdc_escrow
  BY <1>4, <1>6, AddLiquidityEffect DEF Fit
<1>8. PICK amount, entry : amount = r.reserved_amount /\ entry = r.swap_to_ratio_vaults[1]
  OBVIOUS
<1>9. PICK part, out : part = entry.amount_in /\ out = entry.token_amount
  OBVIOUS
<1>10. /\ part \in 1..amount
       /\ entry = SwapToRatioVault(s, part, out)
       /\ Spent(amount, amount - part,
                [reserved_amount |-> amount, swap_to_ratio_vaults |-> <<entry>>])
  BY <1>1, <1>8, <1>9 DEF Swapped
<1>. DEFINE old == [reserved_amount |-> amount, swap_to_ratio_vaults |-> <<entry>>]
<1>11. /\ b[2][1] \in [Users -> Nat] /\ b[2][2] \in [Configs -> Nat]
       /\ b[2][4] \in [Users -> [Configs -> ReserveType]]
       /\ b[1][4] \in [Users -> [Strategies -> PositionType]]
       /\ Settled(b[2][4])
  BY <1>1 DEF Sound, TypedVars
<1>12. /\ amount \in 1..b[2][1][u]
       /\ escrow = [b[2][1] EXCEPT ![u] = b[2][1][u] - amount]
       /\ usdc_escrow = [b[2][2] EXCEPT ![c] = b[2][2][c] + (amount - part)]
       /\ reserve = [b[2][4] EXCEPT ![u][c] = old]
       /\ investor_strategy_position = b[1][4]
  BY <1>1, <1>10 DEF Spent
<1>13. amount \in Nat /\ part \in Nat
  BY <1>4, <1>10, <1>11, <1>12
<1>14. r = old
  BY <1>4, <1>11, <1>12, UpdatedTwiceWithin
<1>15. out \in [Legs -> Nat]
  <2>1. r \in ReserveType /\ r.swap_to_ratio_vaults = <<entry>>
    BY <1>4, <1>14 DEF Fit, TypeOK
  <2>2. <<entry>> \in Seq(SwapType)
    BY <2>1 DEF ReserveType
  <2>3. <<entry>>[1] \in SwapType
    BY <2>2
  <2>. QED  BY <1>9, <2>3 DEF SwapType
<1>16. /\ old.swap_to_ratio_vaults[First(PendingEntries(old, s))] = entry
       /\ \A x \in {CleanUp(old), SetSwapToRatioExecuted(old, s)} :
            \A i \in DOMAIN x.swap_to_ratio_vaults : x.swap_to_ratio_vaults[i].executed
  BY <1>4, <1>10, <1>13, <1>15, OnlySwap
<1>. DEFINE p == Deposit(investor_strategy_position[u][s],
                         r.swap_to_ratio_vaults[First(PendingEntries(r, s))].amount_in,
                         vault_strategy[s].total_assets, vault_strategy[s].total_shares)
<1>17. /\ UNCHANGED escrow
       /\ vault_strategy[s].initialized
       /\ investor_strategy_position' = [investor_strategy_position EXCEPT ![u][s] = p]
       /\ \E x \in {CleanUp(r), SetSwapToRatioExecuted(r, s)} :
            reserve' = [reserve EXCEPT ![u][c] = x]
       /\ \A t \in Strategies : vault_strategy[t].initialized => vault_strategy'[t].initialized
  <2>. DEFINE v == AddShares(AddAssets(vault_strategy[s],
                     r.swap_to_ratio_vaults[First(PendingEntries(r, s))].amount_in), p.shares)
  <2>1. vault_strategy \in [Strategies -> VaultType]
    BY DEF Fit, TypeOK, CreationTypeOK
  <2>2. v.initialized = vault_strategy[s].initialized
    BY <1>4, <2>1 DEF AddShares, AddAssets, VaultType
  <2>3. vault_strategy' = [vault_strategy EXCEPT ![s] = v]
    BY <1>6 DEF AddLiquidity
  <2>. HIDE DEF v
  <2>4. \A t \in Strategies : vault_strategy[t].initialized => vault_strategy'[t].initialized
    BY <2>1, <2>2, <2>3
  <2>. QED  BY <1>6, <2>4 DEF AddLiquidity
<1>. HIDE DEF r, old
<1>18. p.assets = SatAdd(b[1][4][u][s].assets, part)
  BY <1>9, <1>12, <1>14, <1>16 DEF Deposit
<1>. HIDE DEF p
<1>19. Settled(reserve')
  <2>1. PICK x \in {CleanUp(old), SetSwapToRatioExecuted(old, s)} :
          reserve' = [reserve EXCEPT ![u][c] = x]
    BY <1>14, <1>17
  <2>. HIDE DEF c
  <2>2. \A w \in Users, d \in Configs :
          reserve'[w][d] = IF w = u /\ d = c THEN x ELSE b[2][4][w][d]
    BY <1>4, <1>11, <1>12, <2>1
  <2>3. \A i \in DOMAIN x.swap_to_ratio_vaults : x.swap_to_ratio_vaults[i].executed
    BY <1>16
  <2>. SUFFICES ASSUME NEW w \in Users, NEW d \in Configs,
                       NEW i \in DOMAIN reserve'[w][d].swap_to_ratio_vaults
                PROVE  reserve'[w][d].swap_to_ratio_vaults[i].executed
    BY DEF Settled
  <2>4. CASE w = u /\ d = c
    <3>1. reserve'[w][d] = x
      BY <2>2, <2>4
    <3>. QED  BY <2>3, <3>1
  <2>5. CASE ~(w = u /\ d = c)
    <3>1. reserve'[w][d] = b[2][4][w][d]
      BY <2>2, <2>5
    <3>. QED  BY <1>11, <3>1 DEF Settled
  <2>. QED  BY <2>4, <2>5
<1>20. p \in PositionType
  <2>1. investor_strategy_position' \in [Users -> [Strategies -> PositionType]]
    BY <1>7 DEF TypeOK, CreationTypeOK
  <2>2. investor_strategy_position'[u][s] = p
    BY <1>4, <1>11, <1>12, <1>17, UpdatedTwiceWithin
  <2>. QED  BY <1>4, <2>1, <2>2
<1>21. Unopened(vault_strategy', investor_strategy_position')
  <2>. SUFFICES ASSUME NEW t \in Strategies, ~vault_strategy'[t].initialized, NEW w \in Users
                PROVE  investor_strategy_position'[w][t].assets = 0
    BY DEF Unopened
  <2>1. ~vault_strategy[t].initialized /\ t # s
    BY <1>17
  <2>2. investor_strategy_position[w][t].assets = 0
    BY <2>1 DEF Fit, Unopened
  <2>3. investor_strategy_position'[w][t] = investor_strategy_position[w][t]
    BY <1>4, <1>11, <1>12, <1>17, <2>1
  <2>. QED  BY <2>2, <2>3
<1>22. /\ escrow' = [b[2][1] EXCEPT ![u] = b[2][1][u] - amount]
       /\ usdc_escrow' = [b[2][2] EXCEPT ![c] = b[2][2][c] + (amount - part)]
       /\ investor_strategy_position' = [b[1][4] EXCEPT ![u][s] = p]
  BY <1>7, <1>12, <1>17
<1>23. Invested(u, s, b[2][1], b[2][2], b[1][4],
                escrow', usdc_escrow', investor_strategy_position')
  BY <1>10, <1>12, <1>18, <1>20, <1>22 DEF Invested
<1>24. Fit'
  BY <1>7, <1>21 DEF Fit
<1>. QED  BY <1>1, <1>4, <1>5, <1>19, <1>23, <1>24

-----------------------------------------------------------------------------
(* What others see of it.                                                  *)

\* What others see of the balances e of the escrows and l of the configs and of
\* the positions p becomes e1, l1 and p1.
Shows(e, l, p, e1, l1, p1) ==
  \/ e1 = e /\ l1 = l /\ p1 = p
  \/ /\ tx.user \in Users /\ l1 = l /\ p1 = p
     /\ \E x \in Nat :
          /\ e1 = [e EXCEPT ![tx.user] = x]
          /\ \/ tx.call = "depositToEscrowTx" /\ x >= e[tx.user]
             \/ tx.call = "withdrawFromEscrow" /\ x <= e[tx.user]
  \/ /\ e1 = e /\ l1 = l
     /\ \E u \in Users, s \in Strategies, q \in PositionType :
          /\ p1 = [p EXCEPT ![u][s] = q]
          /\ p[u][s].assets > 0 => q.assets <= p[u][s].assets
  \/ /\ tx.call = "addLiquidityRaydiumStrategyTx"
     /\ tx.user \in Users /\ tx.about \in Strategies
     /\ Invested(tx.user, tx.about, e, l, p, e1, l1, p1)

Seen == Shows(CommittedEscrow, CommittedUsdc, CommittedPosition,
              CommittedEscrow', CommittedUsdc', CommittedPosition')

\* Others see the state, or the state before the transaction under way.
LEMMA CommittedIs ==
  /\ tx = NoTx =>
       /\ CommittedEscrow = escrow /\ CommittedReserve = reserve
       /\ CommittedUsdc = usdc_escrow /\ CommittedPosition = investor_strategy_position
  /\ tx # NoTx =>
       /\ CommittedEscrow = tx.before.vars[2][1] /\ CommittedReserve = tx.before.vars[2][4]
       /\ CommittedUsdc = tx.before.vars[2][2] /\ CommittedPosition = tx.before.vars[1][4]
  /\ tx' = NoTx =>
       /\ CommittedEscrow' = escrow' /\ CommittedReserve' = reserve'
       /\ CommittedUsdc' = usdc_escrow' /\ CommittedPosition' = investor_strategy_position'
  /\ tx' # NoTx =>
       /\ CommittedEscrow' = tx'.before.vars[2][1] /\ CommittedReserve' = tx'.before.vars[2][4]
       /\ CommittedUsdc' = tx'.before.vars[2][2] /\ CommittedPosition' = tx'.before.vars[1][4]
BY DEF CommittedEscrow, CommittedReserve, CommittedUsdc, CommittedPosition, Committed

\* Nothing is seen of a transaction that is sent.
LEMMA SubmittedSeen ==
  ASSUME SubmitAdmin \/ SubmitCreator \/ SubmitInvestor
  PROVE  Seen
<1>1. ASSUME NEW u, NEW call, NEW about, NEW queue, Submit(u, call, about, queue)
      PROVE  tx = NoTx /\ tx' # NoTx /\ tx'.before.vars = vars
  BY <1>1, SubmittedRecord DEF Submit
<1>2. tx = NoTx /\ tx' # NoTx /\ tx'.before.vars = vars
  BY <1>1 DEF SubmitAdmin, SubmitCreator, SubmitInvestor
<1>3. /\ CommittedEscrow' = CommittedEscrow /\ CommittedUsdc' = CommittedUsdc
      /\ CommittedPosition' = CommittedPosition
  BY <1>2, CommittedIs, InTuple
<1>. QED  BY <1>3 DEF Seen, Shows

\* Nothing is seen of an instruction that is not the last.
LEMMA NothingSeen ==
  ASSUME tx # NoTx, tx' # NoTx, tx'.before = tx.before
  PROVE  Seen
<1>1. /\ CommittedEscrow' = CommittedEscrow /\ CommittedUsdc' = CommittedUsdc
      /\ CommittedPosition' = CommittedPosition
  BY CommittedIs
<1>. QED  BY <1>1 DEF Seen, Shows

\* With the last instruction a transaction is seen as one step.
LEMMA ExecutedSeen ==
  ASSUME ClientInv, Execute
  PROVE  ClientInv' /\ Seen
<1>1. /\ Fit /\ tx # NoTx /\ Sound(tx.before.vars)
      /\ tx = [call |-> tx.call, user |-> tx.user, about |-> tx.about, queue |-> tx.queue,
               before |-> tx.before]
      /\ Alone \/ Whole \/ Reserved \/ Swapped
  BY DEF ClientInv, Fit, Execute
<1>2. CASE Alone
  <2>1. /\ Fit' /\ tx' = NoTx /\ Settled(reserve')
        /\ \/ UNCHANGED books
           \/ /\ tx.call = "depositToEscrowTx" /\ tx.user \in Users
              /\ \E e : Moves(tx.user, e) /\ e >= escrow[tx.user]
           \/ /\ tx.call = "withdrawFromEscrow" /\ tx.user \in Users
              /\ \E e : Moves(tx.user, e) /\ e <= escrow[tx.user]
           \/ \E u \in Users, s \in Strategies : Rebooks(u, s)
    BY <1>1, <1>2, ExecutedAlone
  <2>2. ClientInv'
    BY <2>1 DEF ClientInv, Fit
  <2>3. /\ CommittedEscrow = escrow /\ CommittedUsdc = usdc_escrow
        /\ CommittedPosition = investor_strategy_position
        /\ CommittedEscrow' = escrow' /\ CommittedUsdc' = usdc_escrow'
        /\ CommittedPosition' = investor_strategy_position'
    BY <1>1, <1>2, <2>1, CommittedIs, InTuple DEF Alone
  <2>4. Shows(escrow, usdc_escrow, investor_strategy_position,
              escrow', usdc_escrow', investor_strategy_position')
    BY <2>1 DEF Shows, Moves, Rebooks, books
  <2>. QED  BY <2>2, <2>3, <2>4 DEF Seen
<1>3. CASE Whole
  <2>1. /\ Fit' /\ Reserved' /\ tx' # NoTx /\ tx'.before = tx.before
        /\ tx' = [call |-> tx'.call, user |-> tx'.user, about |-> tx'.about,
                  queue |-> tx'.queue, before |-> tx'.before]
    BY <1>1, <1>3, ExecutedWhole
  <2>. QED  BY <1>1, <2>1, NothingSeen DEF ClientInv, Fit
<1>4. CASE Reserved
  <2>1. /\ Fit' /\ Swapped' /\ tx' # NoTx /\ tx'.before = tx.before
        /\ tx' = [call |-> tx'.call, user |-> tx'.user, about |-> tx'.about,
                  queue |-> tx'.queue, before |-> tx'.before]
    BY <1>1, <1>4, ExecutedReserved
  <2>. QED  BY <1>1, <2>1, NothingSeen DEF ClientInv, Fit
<1>5. CASE Swapped
  <2>1. /\ Fit' /\ tx' = NoTx /\ Settled(reserve')
        /\ tx.user \in Users /\ tx.about \in Strategies
        /\ Invested(tx.user, tx.about, tx.before.vars[2][1], tx.before.vars[2][2],
                    tx.before.vars[1][4], escrow', usdc_escrow', investor_strategy_position')
    BY <1>1, <1>5, ExecutedSwapped
  <2>2. ClientInv'
    BY <2>1 DEF ClientInv, Fit
  <2>3. PICK b : b = tx.before.vars
    OBVIOUS
  <2>4. /\ CommittedEscrow = b[2][1] /\ CommittedUsdc = b[2][2]
        /\ CommittedPosition = b[1][4]
        /\ CommittedEscrow' = escrow' /\ CommittedUsdc' = usdc_escrow'
        /\ CommittedPosition' = investor_strategy_position'
    BY <1>1, <2>1, <2>3, CommittedIs
  <2>5. Shows(b[2][1], b[2][2], b[1][4], escrow', usdc_escrow', investor_strategy_position')
    <3>1. tx.call = "addLiquidityRaydiumStrategyTx"
      BY <1>5 DEF Swapped, Investing
    <3>. QED  BY <2>1, <2>3, <3>1 DEF Shows
  <2>. QED  BY <2>2, <2>4, <2>5 DEF Seen
<1>. QED  BY <1>1, <1>2, <1>3, <1>4, <1>5

\* Nothing is seen of a transaction that is dropped.
LEMMA DroppedSeen ==
  ASSUME ClientInv, Drop
  PROVE  ClientInv' /\ Seen
<1>1. PICK b : b = tx.before.vars
  OBVIOUS
<1>2. tx # NoTx /\ tx' = NoTx /\ Sound(b)
  BY <1>1 DEF ClientInv, Drop
<1>3. /\ protocol_config' = b[1][1] /\ vault_strategy_config' = b[1][2]
      /\ vault_strategy' = b[1][3] /\ investor_strategy_position' = b[1][4]
      /\ liquidity' = b[1][5] /\ wallet' = b[1][6]
      /\ escrow' = b[2][1] /\ usdc_escrow' = b[2][2]
      /\ mint_escrow' = b[2][3] /\ reserve' = b[2][4]
      /\ fees_owed' = b[2][5] /\ fees_escrow' = b[2][6]
      /\ perf_escrow' = b[2][7]
  BY <1>1 DEF Drop
<1>4. TypeOK'
  BY <1>2, <1>3 DEF Sound, TypedVars, TypeOK, CreationTypeOK
<1>5. Settled(reserve') /\ Unopened(vault_strategy', investor_strategy_position')
  BY <1>2, <1>3 DEF Sound
<1>6. ClientInv'
  BY <1>2, <1>4, <1>5 DEF ClientInv
<1>7. /\ CommittedEscrow' = CommittedEscrow /\ CommittedUsdc' = CommittedUsdc
      /\ CommittedPosition' = CommittedPosition
  BY <1>1, <1>2, <1>3, CommittedIs
<1>. QED  BY <1>6, <1>7 DEF Seen, Shows

\* Between transactions, others and the pools change nothing of this.
LEMMA OthersSeen ==
  ASSUME ClientInv, Others
  PROVE  ClientInv' /\ Seen
<1>1. tx = NoTx /\ tx' = NoTx /\ Fit /\ Settled(reserve)
  BY DEF ClientInv, Others, Fit
<1>2. CASE (\E c \in Configs : ActivateVaultStrategyConfig(c)) /\ UNCHANGED investVars
  <2>1. PICK c \in Configs : ActivateVaultStrategyConfig(c)
    BY <1>2
  <2>2. vault_strategy_config' \in [Configs -> ConfigType]
    <3>1. vault_strategy_config \in [Configs -> ConfigType]
      BY <1>1 DEF Fit, TypeOK, CreationTypeOK
    <3>2. [vault_strategy_config[c] EXCEPT !.status = "Active"] \in ConfigType
      BY <3>1 DEF ConfigType, VaultStrategyStatus
    <3>. QED  BY <2>1, <3>1, <3>2 DEF ActivateVaultStrategyConfig
  <2>3. UNCHANGED <<protocol_config, vault_strategy, investor_strategy_position, liquidity,
                    wallet>>
    BY <2>1 DEF ActivateVaultStrategyConfig
  <2>4. TypeOK'
    BY <1>1, <1>2, <2>2, <2>3 DEF Fit, TypeOK, CreationTypeOK, investVars
  <2>5. UNCHANGED <<books, reserve>>
    BY <1>2, <2>3 DEF books, investVars
  <2>6. Fit'
    BY <1>1, <2>3, <2>4, FitKept DEF Fit
  <2>. QED  BY <1>1, <2>5, <2>6, CommittedIs DEF ClientInv, Fit, Seen, Shows, books
<1>3. CASE PoolNext
  <2>1. PICK s \in Strategies, fees \in FeeAccruals : AccrueFees(s, fees)
    BY <1>3 DEF PoolNext
  <2>2. TypeOK'
    BY <1>1, <2>1, AccrueFeesType DEF Fit
  <2>3. UNCHANGED <<vault_strategy, investor_strategy_position, escrow, usdc_escrow, reserve>>
    BY <2>1 DEF AccrueFees, creationVars
  <2>4. Fit'
    BY <1>1, <2>2, <2>3, FitKept DEF Fit
  <2>. QED  BY <1>1, <2>3, <2>4, CommittedIs DEF ClientInv, Fit, Seen, Shows
<1>. QED  BY <1>2, <1>3 DEF Others

\* A client process that starts changes nothing of this, and nor does nothing.
LEMMA KeptSeen ==
  ASSUME ClientInv, UNCHANGED <<vars, tx>>
  PROVE  ClientInv' /\ Seen
<1>1. UNCHANGED <<vars, creationVars, investVars, tx>>
  BY DEF vars
<1>2. UNCHANGED <<protocol_config, vault_strategy_config, vault_strategy,
                  investor_strategy_position, liquidity, wallet, escrow, usdc_escrow,
                  mint_escrow, reserve, fees_owed, fees_escrow, perf_escrow>>
  BY <1>1 DEF creationVars, investVars
<1>3. TypeOK'
  BY <1>2 DEF ClientInv, TypeOK, CreationTypeOK
<1>4. /\ Alone => Alone'
      /\ Whole => Whole'
  BY <1>1 DEF Alone, Whole, Investing, ToSwap, ToAdd
<1>5. /\ Reserved => Reserved'
      /\ Swapped => Swapped'
  BY <1>1, <1>2 DEF Reserved, Swapped, Spent, Investing, ToSwap, ToAdd
<1>6. ClientInv'
  BY <1>1, <1>2, <1>3, <1>4, <1>5 DEF ClientInv
<1>7. /\ CommittedEscrow' = CommittedEscrow /\ CommittedUsdc' = CommittedUsdc
      /\ CommittedPosition' = CommittedPosition
  BY <1>1, <1>2, CommittedIs
<1>. QED  BY <1>6, <1>7 DEF Seen, Shows

LEMMA StagesInit == ClientInit => ClientInv
<1>. SUFFICES ASSUME ClientInit PROVE ClientInv
  OBVIOUS
<1>1. TypeOK /\ Init /\ tx = NoTx
  BY InitInv DEF ClientInit, Inv
<1>2. \A u \in Users, c \in Configs : DOMAIN reserve[u][c].swap_to_ratio_vaults = {}
  BY <1>1 DEF Init, NoReserve
<1>3. \A u \in Users, s \in Strategies : investor_strategy_position[u][s].assets = 0
  BY <1>1 DEF Init, CreationInit, NoPosition
<1>. QED  BY <1>1, <1>2, <1>3 DEF ClientInv, Settled, Unopened

LEMMA StagesNext ==
  ASSUME ~IdlIsCommitted, ClientInv, [ClientNext]_clientVars
  PROVE  ClientInv' /\ Seen
<1>1. CASE SubmitAdmin \/ SubmitCreator \/ SubmitInvestor
  BY <1>1, SubmittedStage, SubmittedSeen
<1>2. CASE Execute
  BY <1>2, ExecutedSeen
<1>3. CASE Drop
  BY <1>3, DroppedSeen
<1>4. CASE Restart
  BY <1>4, KeptSeen DEF Restart
<1>5. CASE Others
  BY <1>5, OthersSeen
<1>6. CASE UNCHANGED clientVars
  BY <1>6, KeptSeen DEF clientVars
<1>. QED  BY <1>1, <1>2, <1>3, <1>4, <1>5, <1>6 DEF ClientNext

\* The stages of a transaction, with the balances it started from.
THEOREM StagesTheorem == ASSUME ~IdlIsCommitted PROVE ClientSpec => []ClientInv
<1>1. ClientInv /\ [ClientNext]_clientVars => ClientInv'
  BY StagesNext
<1>. QED  BY <1>1, StagesInit, PTL DEF ClientSpec

\* Between the client's transactions no swap waits for its deposit: the program
\* would let it wait, and be lost, for ever (invest_reserve, clean_up), but
\* addLiquidityRaydiumStrategyTx sends the three instructions together.
THEOREM NoSwapTheorem ==
  ASSUME ~IdlIsCommitted PROVE ClientSpec => []NoSwapBetweenTransactions
<1>1. ClientInv => Settled(CommittedReserve)
  BY CommittedIs DEF ClientInv, Sound
<1>2. ClientInv => NoSwapBetweenTransactions
  BY <1>1 DEF Settled, NoSwapBetweenTransactions
<1>. QED  BY <1>2, StagesTheorem, PTL

LEMMA CommittedType ==
  ASSUME ClientInv
  PROVE  /\ CommittedEscrow \in [Users -> Nat]
         /\ CommittedUsdc \in [Configs -> Nat]
         /\ CommittedPosition \in [Users -> [Strategies -> PositionType]]
<1>1. CASE tx = NoTx
  BY <1>1, CommittedIs DEF ClientInv, TypeOK, CreationTypeOK
<1>2. CASE tx # NoTx
  BY <1>2, CommittedIs DEF ClientInv, Sound, TypedVars
<1>. QED  BY <1>1, <1>2

\* Only the deposits of an investor fill the investor's escrow, and only the
\* withdrawals and the investments empty it (depositToEscrowTx,
\* addLiquidityRaydiumStrategyTx), whatever else is sent, dropped or restarted.
THEOREM EscrowTheorem ==
  ASSUME ~IdlIsCommitted PROVE ClientSpec => EscrowMovesAsAsked
<1>1. ASSUME ClientInv, [ClientNext]_clientVars, NEW u \in Users
      PROVE  /\ CommittedEscrow'[u] > CommittedEscrow[u] =>
                  tx.call = "depositToEscrowTx" /\ tx.user = u
             /\ CommittedEscrow'[u] < CommittedEscrow[u] =>
                  /\ tx.call \in {"withdrawFromEscrow", "addLiquidityRaydiumStrategyTx"}
                  /\ tx.user = u
  <2>1. PICK e, l, p, e1, l1, p1 :
          /\ e = CommittedEscrow /\ l = CommittedUsdc /\ p = CommittedPosition
          /\ e1 = CommittedEscrow' /\ l1 = CommittedUsdc' /\ p1 = CommittedPosition'
    OBVIOUS
  <2>2. Shows(e, l, p, e1, l1, p1)
    BY <1>1, <2>1, StagesNext DEF Seen
  <2>3. e \in [Users -> Nat]
    BY <1>1, <2>1, CommittedType
  <2>4. e[u] \in Nat
    BY <2>3
  <2>5. CASE e1 = e
    BY <2>1, <2>4, <2>5
  <2>6. ASSUME tx.user \in Users, NEW x \in Nat, e1 = [e EXCEPT ![tx.user] = x]
        PROVE  /\ u = tx.user => e1[u] = x
               /\ u # tx.user => e1[u] = e[u]
    BY <2>3, <2>6
  <2>7. ASSUME tx.user \in Users, NEW x \in Nat, e1 = [e EXCEPT ![tx.user] = x],
               \/ tx.call = "depositToEscrowTx" /\ x >= e[tx.user]
               \/ tx.call = "withdrawFromEscrow" /\ x <= e[tx.user]
        PROVE  /\ e1[u] > e[u] => tx.call = "depositToEscrowTx" /\ tx.user = u
               /\ e1[u] < e[u] => tx.call = "withdrawFromEscrow" /\ tx.user = u
    BY <2>4, <2>6, <2>7
  <2>8. CASE /\ tx.call = "addLiquidityRaydiumStrategyTx"
             /\ tx.user \in Users /\ tx.about \in Strategies
             /\ Invested(tx.user, tx.about, e, l, p, e1, l1, p1)
    <3>1. PICK amount \in 1..e[tx.user] : e1 = [e EXCEPT ![tx.user] = e[tx.user] - amount]
      BY <2>8 DEF Invested
    <3>2. e[tx.user] - amount \in Nat /\ e[tx.user] - amount < e[tx.user]
      BY <2>3, <2>8, <3>1
    <3>3. CASE u = tx.user
      <4>1. e1[u] = e[tx.user] - amount
        BY <2>3, <3>1, <3>3
      <4>2. e1[u] \in Nat /\ e1[u] < e[u]
        BY <3>2, <3>3, <4>1
      <4>3. ~(e1[u] > e[u])
        BY <2>4, <4>2
      <4>. QED  BY <2>1, <2>8, <3>3, <4>3
    <3>4. CASE u # tx.user
      <4>1. e1[u] = e[u]
        BY <2>3, <3>1, <3>4
      <4>. QED  BY <2>1, <2>4, <4>1
    <3>. QED  BY <3>3, <3>4
  <2>. QED  BY <2>1, <2>2, <2>5, <2>7, <2>8 DEF Shows
<1>2. ClientInv /\ [ClientNext]_clientVars =>
        [\A u \in Users :
           /\ CommittedEscrow'[u] > CommittedEscrow[u] =>
                tx.call = "depositToEscrowTx" /\ tx.user = u
           /\ CommittedEscrow'[u] < CommittedEscrow[u] =>
                /\ tx.call \in {"withdrawFromEscrow", "addLiquidityRaydiumStrategyTx"}
                /\ tx.user = u]_clientVars
  BY <1>1
<1>. QED  BY <1>2, StagesTheorem, PTL DEF ClientSpec, EscrowMovesAsAsked

-----------------------------------------------------------------------------
(* The transactions implement the ledger.                                  *)

\* The assets of a position saturate at the largest u64 (deposit), and from then
\* on they no longer count; the theorem below is about the time before.
AssetsCounted ==
  \A u \in Users, s \in Strategies : CommittedPosition[u][s].assets < U64_MAX

\* The assets of positions p.
AssetsOf(p) == [u \in Users |-> [s \in Strategies |-> p[u][s].assets]]

\* f with v for x and y.
Put(f, x, y, v) == [f EXCEPT ![x][y] = v]

LEMMA AssetsUpdate ==
  ASSUME NEW p \in [Users -> [Strategies -> PositionType]], NEW u \in Users,
         NEW s \in Strategies, NEW q \in PositionType,
         NEW p1, p1 = Put(p, u, s, q)
  PROVE  /\ AssetsOf(p1) = Put(AssetsOf(p), u, s, q.assets)
         /\ AssetsOf(p1)[u][s] = q.assets
         /\ AssetsOf(p)[u][s] = p[u][s].assets /\ p[u][s].assets \in Nat
         /\ q.assets \in Nat
<1>1. p[u][s] \in PositionType
  OBVIOUS
<1>2. p[u][s].assets \in Nat /\ q.assets \in Nat
  BY <1>1, U64Type DEF PositionType
<1>3. \A v \in Users, t \in Strategies :
        p1[v][t].assets = IF v = u /\ t = s THEN q.assets ELSE p[v][t].assets
  BY DEF Put
<1>4. AssetsOf(p1) = Put(AssetsOf(p), u, s, q.assets)
  BY <1>3 DEF AssetsOf, Put
<1>5. AssetsOf(p1)[u][s] = q.assets
  BY <1>3 DEF AssetsOf
<1>. QED  BY <1>2, <1>4, <1>5 DEF AssetsOf

LEMMA LedgerStart ==
  ASSUME ClientInit
  PROVE  Ledger!LedgerInit
<1>1. /\ CommittedEscrow = escrow /\ CommittedUsdc = usdc_escrow
      /\ CommittedPosition = investor_strategy_position
  BY CommittedIs DEF ClientInit
<1>2. /\ escrow = [u \in Users |-> 0] /\ usdc_escrow = [c \in Configs |-> 0]
      /\ investor_strategy_position = [u \in Users |-> [s \in Strategies |-> NoPosition]]
  BY DEF ClientInit, Init, CreationInit
<1>3. NoPosition.assets = 0
  BY DEF NoPosition
<1>. QED  BY <1>1, <1>2, <1>3 DEF Ledger!LedgerInit

\* Each step is seen as a step of the ledger, or as none.
LEMMA LedgerStep ==
  ASSUME ClientInv, AssetsCounted', ClientInv', Seen
  PROVE  Ledger!LedgerNext \/ UNCHANGED Ledger!ledgerVars
<1>1. PICK e, l, p, e1, l1, p1 :
        /\ e = CommittedEscrow /\ l = CommittedUsdc /\ p = CommittedPosition
        /\ e1 = CommittedEscrow' /\ l1 = CommittedUsdc' /\ p1 = CommittedPosition'
  OBVIOUS
<1>2. Shows(e, l, p, e1, l1, p1)
  BY <1>1 DEF Seen
<1>3. /\ e \in [Users -> Nat] /\ l \in [Configs -> Nat]
      /\ p \in [Users -> [Strategies -> PositionType]]
  BY <1>1, CommittedType
<1>4. /\ [u \in Users |-> [s \in Strategies |-> CommittedPosition[u][s].assets]] = AssetsOf(p)
      /\ [u \in Users |-> [s \in Strategies |-> CommittedPosition[u][s].assets]]' = AssetsOf(p1)
  BY <1>1 DEF AssetsOf
<1>5. CASE e1 = e /\ l1 = l /\ p1 = p
  BY <1>1, <1>4, <1>5 DEF Ledger!ledgerVars
<1>6. ASSUME NEW u \in Users, NEW x \in Nat, e1 = [e EXCEPT ![u] = x], l1 = l, p1 = p
      PROVE  Ledger!LedgerNext
  <2>1. e1[u] = x /\ e1 = [e EXCEPT ![u] = e1[u]]
    BY <1>3, <1>6
  <2>2. Ledger!Move(u)
    BY <1>1, <1>4, <1>6, <2>1 DEF Ledger!Move
  <2>. QED  BY <2>2 DEF Ledger!LedgerNext
<1>7. ASSUME NEW u \in Users, NEW s \in Strategies, NEW q \in PositionType,
             e1 = e, l1 = l, p1 = [p EXCEPT ![u][s] = q],
             p[u][s].assets > 0 => q.assets <= p[u][s].assets
      PROVE  Ledger!LedgerNext
  <2>1. /\ AssetsOf(p1) = Put(AssetsOf(p), u, s, q.assets)
        /\ AssetsOf(p1)[u][s] = q.assets /\ AssetsOf(p)[u][s] = p[u][s].assets
        /\ q.assets \in Nat
    <3>1. p \in [Users -> [Strategies -> PositionType]] /\ p1 = Put(p, u, s, q)
      BY <1>3, <1>7 DEF Put
    <3>. QED  BY <3>1, AssetsUpdate
  <2>2. Ledger!Rebook(u, s)
    BY <1>1, <1>4, <1>7, <2>1 DEF Ledger!Rebook, Put
  <2>. QED  BY <2>2 DEF Ledger!LedgerNext
<1>8. ASSUME NEW u \in Users, NEW s \in Strategies, Invested(u, s, e, l, p, e1, l1, p1)
      PROVE  Ledger!LedgerNext
  <2>1. PICK amount \in 1..e[u] : \E part \in 1..amount, q \in PositionType :
          /\ e1 = [e EXCEPT ![u] = e[u] - amount]
          /\ l1 = [l EXCEPT ![ConfigOf[s]] = l[ConfigOf[s]] + (amount - part)]
          /\ p1 = [p EXCEPT ![u][s] = q]
          /\ q.assets = SatAdd(p[u][s].assets, part)
    BY <1>8 DEF Invested
  <2>2. PICK part \in 1..amount, q \in PositionType :
          /\ e1 = [e EXCEPT ![u] = e[u] - amount]
          /\ l1 = [l EXCEPT ![ConfigOf[s]] = l[ConfigOf[s]] + (amount - part)]
          /\ p1 = [p EXCEPT ![u][s] = q]
          /\ q.assets = SatAdd(p[u][s].assets, part)
    BY <2>1
  <2>3. /\ AssetsOf(p1) = Put(AssetsOf(p), u, s, q.assets)
        /\ AssetsOf(p1)[u][s] = q.assets /\ AssetsOf(p)[u][s] = p[u][s].assets
        /\ p[u][s].assets \in Nat /\ q.assets \in Nat
    <3>1. p \in [Users -> [Strategies -> PositionType]] /\ p1 = Put(p, u, s, q)
      BY <1>3, <2>2 DEF Put
    <3>. QED  BY <3>1, AssetsUpdate
  <2>4. q.assets = p[u][s].assets + part
    <3>1. p1[u][s] = q
      BY <1>3, <2>2, UpdatedTwiceWithin
    <3>2. q.assets < U64_MAX
      BY <1>1, <3>1 DEF AssetsCounted
    <3>. QED  BY <2>2, <2>3, <3>2, ScaleAssumption DEF SatAdd
  <2>5. l[ConfigOf[s]] \in Nat
    BY <1>3, CreationAssumption
  <2>6. l[ConfigOf[s]] + (amount - part) = l[ConfigOf[s]] + amount - part
    BY <2>5
  <2>7. /\ e1 = [e EXCEPT ![u] = e[u] - amount]
        /\ AssetsOf(p1) = [AssetsOf(p) EXCEPT ![u][s] = AssetsOf(p)[u][s] + part]
        /\ l1 = [l EXCEPT ![ConfigOf[s]] = l[ConfigOf[s]] + amount - part]
    BY <2>2, <2>3, <2>4, <2>6 DEF Put
  <2>8. amount \in 1..CommittedEscrow[u] /\ part \in 1..amount
    BY <1>1, <2>1, <2>2
  <2>9. CommittedEscrow' = [CommittedEscrow EXCEPT ![u] = CommittedEscrow[u] - amount]
    BY <1>1, <2>7
  <2>10. CommittedUsdc' =
           [CommittedUsdc EXCEPT ![ConfigOf[s]] = CommittedUsdc[ConfigOf[s]] + amount - part]
    BY <1>1, <2>7
  <2>11. [v \in Users |-> [t \in Strategies |-> CommittedPosition[v][t].assets]]' =
           [[v \in Users |-> [t \in Strategies |-> CommittedPosition[v][t].assets]]
              EXCEPT ![u][s] = @ + part]
    BY <1>4, <2>7
  <2>12. Ledger!Invest(u, s)
    BY <2>8, <2>9, <2>10, <2>11 DEF Ledger!Invest
  <2>. QED  BY <2>12 DEF Ledger!LedgerNext
<1>. QED  BY <1>2, <1>5, <1>6, <1>7, <1>8 DEF Shows

\* Seen between transactions, the client's transactions do to an investor's USDC
\* what InvestmentLedger allows, all or nothing, as long as no position reaches
\* the largest u64.
THEOREM LedgerTheorem ==
  ASSUME ~IdlIsCommitted PROVE ClientSpec /\ []AssetsCounted => LedgerSpec
<1>1. ClientInit => Ledger!LedgerInit
  BY LedgerStart
<1>2. ClientInv /\ [ClientNext]_clientVars /\ AssetsCounted' =>
        [Ledger!LedgerNext]_Ledger!ledgerVars
  BY StagesNext, LedgerStep
<1>. QED  BY <1>1, <1>2, StagesTheorem, PTL DEF ClientSpec, LedgerSpec, Ledger!LedgerSpec
==============================================================================
