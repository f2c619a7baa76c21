------------------------------ MODULE ClientCalls ------------------------------
(***************************************************************************)
(* The awaits of the client's functions (createRaydiumStrategyTx,          *)
(* addLiquidityRaydiumStrategyTx, removeLiquidityRaydiumStrategyTx): what  *)
(* each of them asks the network for before it returns a transaction.      *)
(* ClientTransactions has them return at once; here calls interleave, with *)
(* each other and with the chain, and every answer may be a failure.       *)
(*                                                                         *)
(* An address lookup table lives at an address derived from its authority, *)
(* which is the master wallet for every call, and from a recent slot.  Two *)
(* calls that read the same slot therefore get the same table.  A message  *)
(* names the accounts found in a table by their index in it.               *)
(***************************************************************************)
EXTENDS Integers, Sequences, FiniteSets, SequencesExt

CONSTANTS
  Calls,         \* calls of one process, which may overlap
  KindOf,        \* call -> "create", "add" or "remove"
  OwnerOf,       \* call -> the user whose token accounts it needs
  Owners,
  Accounts,      \* addresses that a table may list
  Wanted,        \* call -> the accounts it puts into a new table
  StoredTable,   \* entries of the table recorded in the strategy, at slot 0
  MAX_SLOT,      \* bound on the slots that are told apart
  MAX_ENTRIES,   \* entries a table can hold
  BLOCKHASH_LIFE \* blocks that a blockhash outlives

ASSUME ClientCallsAssumption ==
  /\ KindOf \in [Calls -> {"create", "add", "remove"}]
  /\ OwnerOf \in [Calls -> Owners]
  /\ MAX_SLOT \in Nat \ {0} /\ MAX_ENTRIES \in Nat /\ BLOCKHASH_LIFE \in Nat \ {0}
  /\ Wanted \in [Calls -> Seq(Accounts)] /\ StoredTable \in Seq(Accounts)
  /\ \A c \in Calls : KindOf[c] # "remove" => Len(Wanted[c]) \in 1..MAX_ENTRIES

VARIABLES
  outcome,         \* call -> idle, running, returned, threw, noAccount
  pc,              \* call -> place in the path of its kind
  slot,            \* the slot of the chain
  tables,          \* slot -> entries of the table derived from it, <<>>: none
  table_tx,        \* call -> the transaction that creates and extends its table
  fetched,         \* call -> tables the call holds, address and entries
  message,         \* call -> what the returned transaction looks up
  token_accounts,  \* <<owner, leg>> of the token accounts that exist
  blocks_left,     \* call -> blocks until it may give up on its table's transaction
  node_up          \* whether the RPC node answers

waitVars == <<blocks_left, node_up>>
callVars ==
  <<outcome, pc, slot, tables, table_tx, fetched, message, token_accounts, waitVars>>

NotSent == [state |-> "none", address |-> 0]
NotAsked == -1

CallsInit ==
  /\ outcome = [c \in Calls |-> "idle"]
  /\ pc = [c \in Calls |-> 1]
  /\ slot = 2
  /\ tables = [s \in 0..MAX_SLOT |-> IF s = 0 THEN StoredTable ELSE <<>>]
  /\ table_tx = [c \in Calls |-> NotSent]
  /\ fetched = [c \in Calls |-> {}]
  /\ message = [c \in Calls |-> {}]
  /\ token_accounts \in SUBSET (Owners \X {0, 1})
  /\ blocks_left = [c \in Calls |-> NotAsked]
  /\ node_up = TRUE

-----------------------------------------------------------------------------
(* The awaits of each function, in their order.                            *)

TokenAccountReads == <<"account0", "again0", "account1", "again1">>
NewTable == <<"slot", "send", "confirm", "fetch">>

createRaydiumStrategyPath ==
  <<"sdk">> \o TokenAccountReads \o NewTable \o <<"compile">>
addLiquidityRaydiumStrategyPath ==
  <<"sdk", "strategy">> \o NewTable \o <<"reuse", "compile">>
removeLiquidityRaydiumStrategyPath ==
  <<"sdk", "strategy">> \o TokenAccountReads \o <<"reuse", "compile">>

Path(c) ==
  CASE KindOf[c] = "create" -> createRaydiumStrategyPath
    [] KindOf[c] = "add"    -> addLiquidityRaydiumStrategyPath
    [] KindOf[c] = "remove" -> removeLiquidityRaydiumStrategyPath

At(c, step) == outcome[c] = "running" /\ Path(c)[pc[c]] = step
Advance(c, n) == pc' = [pc EXCEPT ![c] = @ + n] /\ UNCHANGED outcome
End(c, how) == outcome' = [outcome EXCEPT ![c] = how] /\ UNCHANGED pc

Start(c) ==
  /\ outcome[c] = "idle"
  /\ End(c, "running")
  /\ UNCHANGED <<slot, tables, table_tx, fetched, message, token_accounts, waitVars>>

\* initSdkWithoutOwner, and what is read of the strategy, the pools and their
\* observations before the first table.
Ask(c) ==
  /\ At(c, "sdk") \/ At(c, "strategy")
  /\ Advance(c, 1)
  /\ UNCHANGED <<slot, tables, table_tx, fetched, message, token_accounts, waitVars>>

\* confirmTransaction has begun to wait.
Waiting(c) == At(c, "confirm") /\ blocks_left[c] # NotAsked

\* A request that the node does not answer rejects its await, although a
\* transaction that was to be sent may have been.  Only the wait for the
\* confirmation passes over what goes wrong while it asks.
Fail(c) ==
  /\ outcome[c] = "running" /\ ~Waiting(c)
  /\ End(c, "threw")
  /\ \/ table_tx' = table_tx
     \/ At(c, "send") /\ table_tx' = [table_tx EXCEPT ![c].state = "sent"]
  /\ UNCHANGED <<slot, tables, fetched, message, token_accounts, waitVars>>

-----------------------------------------------------------------------------
(* getAccountOrCreateAssociatedTokenAccountTx: a missing account is looked *)
(* up again after an instruction to create it has been built, not sent.    *)

FirstRead(c) ==
  \E k \in {0, 1} :
    /\ At(c, IF k = 0 THEN "account0" ELSE "account1")
    /\ Advance(c, IF <<OwnerOf[c], k>> \in token_accounts THEN 2 ELSE 1)
    /\ UNCHANGED <<slot, tables, table_tx, fetched, message, token_accounts, waitVars>>

SecondRead(c) ==
  \E k \in {0, 1} :
    /\ At(c, IF k = 0 THEN "again0" ELSE "again1")
    /\ IF <<OwnerOf[c], k>> \in token_accounts THEN Advance(c, 1) ELSE End(c, "noAccount")
    /\ UNCHANGED <<slot, tables, table_tx, fetched, message, token_accounts, waitVars>>

-----------------------------------------------------------------------------
(* createLookUpTable without a table to reuse.                             *)

\* The slot before the current one gives the address.
ReadSlot(c) ==
  /\ At(c, "slot")
  /\ table_tx' = [table_tx EXCEPT ![c] = [state |-> "built", address |-> slot - 1]]
  /\ Advance(c, 1)
  /\ UNCHANGED <<slot, tables, fetched, message, token_accounts, waitVars>>

SendTable(c) ==
  /\ At(c, "send")
  /\ table_tx' = [table_tx EXCEPT ![c].state = "sent"]
  /\ Advance(c, 1)
  /\ UNCHANGED <<slot, tables, fetched, message, token_accounts, waitVars>>

\* The helper asks for a blockhash of its own: the last block in which a
\* transaction may use that one is the last for which it waits.
AskExpiry(c) ==
  /\ At(c, "confirm") /\ blocks_left[c] = NotAsked
  /\ blocks_left' = [blocks_left EXCEPT ![c] = BLOCKHASH_LIFE]
  /\ UNCHANGED <<outcome, pc, slot, tables, table_tx, fetched, message, token_accounts, node_up>>

\* Mutant: the wait for the confirmation never gives up.
ConfirmTableForever(c) ==
  /\ Waiting(c)
  /\ \/ table_tx[c].state = "landed" /\ Advance(c, 1)
     \/ table_tx[c].state = "failed" /\ End(c, "threw")
  /\ blocks_left' = [blocks_left EXCEPT ![c] = NotAsked]
  /\ UNCHANGED <<slot, tables, table_tx, fetched, message, token_accounts, node_up>>

\* Mutant: the transaction is sent and not waited for.
ConfirmTableNever(c) ==
  /\ At(c, "confirm")
  /\ Advance(c, 1)
  /\ UNCHANGED <<slot, tables, table_tx, fetched, message, token_accounts, waitVars>>

\* The wait ends when a node reports that the transaction is final, that it has
\* failed, or that the chain has passed the last block for it, although it may
\* have landed.
ConfirmTable(c) ==
  /\ Waiting(c)
  /\ \/ table_tx[c].state = "landed" /\ Advance(c, 1)
     \/ table_tx[c].state = "failed" /\ End(c, "threw")
     \/ blocks_left[c] = 0 /\ End(c, "threw")
  /\ blocks_left' = [blocks_left EXCEPT ![c] = NotAsked]
  /\ UNCHANGED <<slot, tables, table_tx, fetched, message, token_accounts, node_up>>

\* Mutant: the client trusts that the table holds what it has just sent.
FetchedEntriesAssumed(c, address) ==
  IF KindOf[c] = "remove" \/ address = 0 THEN tables[address] ELSE Wanted[c]

FetchedEntries(c, address) == tables[address]

\* After the sleep: the table as the node knows it.  Without one the call throws.
FetchTable(c) ==
  /\ At(c, "fetch")
  /\ LET address == table_tx[c].address
         entries == FetchedEntries(c, address)
     IN IF entries = <<>>
        THEN End(c, "threw") /\ UNCHANGED fetched
        ELSE /\ Advance(c, 1)
             /\ fetched' = [fetched EXCEPT ![c] =
                              @ \cup {[address |-> address, entries |-> entries]}]
  /\ UNCHANGED <<slot, tables, table_tx, message, token_accounts, waitVars>>

\* createLookUpTable with the strategy's table.  That the node knows no such
\* table is not an error here, but one of the compilation that follows: Fail.
ReuseTable(c) ==
  /\ At(c, "reuse")
  /\ fetched' = [fetched EXCEPT ![c] =
                   @ \cup {[address |-> 0, entries |-> FetchedEntries(c, 0)]}]
  /\ Advance(c, 1)
  /\ UNCHANGED <<slot, tables, table_tx, message, token_accounts, waitVars>>

\* compileToV0Message: each account is looked up in the tables that were
\* fetched; one in none of them is named in full, and is not in the set.
\* The latest blockhash is awaited just before.
Lookups(c, accounts) ==
  UNION {{[account |-> a, address |-> t.address,
           index |-> CHOOSE i \in DOMAIN t.entries : t.entries[i] = a] :
            a \in accounts \cap ToSet(t.entries)} : t \in fetched[c]}

Compile(c) ==
  /\ At(c, "compile")
  /\ message' = [message EXCEPT ![c] =
                   Lookups(c, IF KindOf[c] = "create" THEN ToSet(Wanted[c])
                              ELSE ToSet(Wanted[c] \o StoredTable))]
  /\ End(c, "returned")
  /\ UNCHANGED <<slot, tables, table_tx, fetched, token_accounts, waitVars>>

-----------------------------------------------------------------------------
(* The chain, external.                                                    *)

\* Creating a table that exists leaves it as it is; extending appends, up to
\* the capacity.  A transaction may land after the call that sent it has given
\* up on it.
TableLands(c) ==
  LET address == table_tx[c].address
  IN /\ table_tx[c].state = "sent"
     /\ Len(tables[address]) + Len(Wanted[c]) <= MAX_ENTRIES
     /\ tables' = [tables EXCEPT ![address] = @ \o Wanted[c]]
     /\ table_tx' = [table_tx EXCEPT ![c].state = "landed"]
     /\ UNCHANGED <<outcome, pc, slot, fetched, message, token_accounts, waitVars>>

\* It is executed and fails: a skipped slot, a full table.  One whose blockhash
\* is spent, or that is lost, stays sent.
TableFails(c) ==
  /\ table_tx[c].state = "sent"
  /\ table_tx' = [table_tx EXCEPT ![c].state = "failed"]
  /\ UNCHANGED <<outcome, pc, slot, tables, fetched, message, token_accounts, waitVars>>

SlotPasses == slot' = IF slot < MAX_SLOT THEN slot + 1 ELSE slot

\* A slot whose leader makes no block.
SkippedSlot ==
  /\ slot < MAX_SLOT /\ SlotPasses
  /\ UNCHANGED <<outcome, pc, tables, table_tx, fetched, message, token_accounts, waitVars>>

NextBlock ==
  /\ slot < MAX_SLOT \/ \E c \in Calls : blocks_left[c] > 0
  /\ SlotPasses
  /\ blocks_left' =
       [c \in Calls |-> IF blocks_left[c] > 0 THEN blocks_left[c] - 1 ELSE blocks_left[c]]
  /\ UNCHANGED <<outcome, pc, tables, table_tx, fetched, message, token_accounts, node_up>>

\* The RPC node, external, stops answering and answers again.
NodeDown ==
  /\ node_up /\ node_up' = FALSE
  /\ UNCHANGED <<outcome, pc, slot, tables, table_tx, fetched, message, token_accounts,
                 blocks_left>>

NodeUp ==
  /\ ~node_up /\ node_up' = TRUE
  /\ UNCHANGED <<outcome, pc, slot, tables, table_tx, fetched, message, token_accounts,
                 blocks_left>>

\* Somebody sends the owner tokens and opens the account for it.
OpenAccount ==
  /\ \E a \in (Owners \X {0, 1}) \ token_accounts :
       token_accounts' = token_accounts \cup {a}
  /\ UNCHANGED <<outcome, pc, slot, tables, table_tx, fetched, message, waitVars>>

-----------------------------------------------------------------------------
Answered(c) ==
  /\ node_up
  /\ \/ Ask(c) \/ FirstRead(c) \/ SecondRead(c)
     \/ ReadSlot(c) \/ SendTable(c) \/ AskExpiry(c) \/ ConfirmTable(c)
     \/ FetchTable(c) \/ ReuseTable(c) \/ Compile(c)

CallsNext ==
  \/ \E c \in Calls : \/ Start(c) \/ Answered(c) \/ Fail(c)
                      \/ TableLands(c) \/ TableFails(c)
  \/ SkippedSlot \/ NextBlock \/ NodeDown \/ NodeUp \/ OpenAccount

\* The event loop resumes an await that is settled, and every single request is
\* settled, by an answer or by its failure.
RequestsSettled == \A c \in Calls : WF_callVars(Answered(c) \/ Fail(c))

\* The wait for a confirmation asks again every second: it meets a node that
\* answers, if there is one time and again.
ConfirmationPolled == \A c \in Calls : SF_callVars(node_up /\ ConfirmTable(c))

\* What is assumed of the network: blocks go on being made, and a node that is
\* down comes back.  No transaction need land.
ChainGoesOn == WF_callVars(NextBlock)
NodeComesBack == WF_callVars(NodeUp)

CallsSpec ==
  /\ CallsInit /\ [][CallsNext]_callVars
  /\ RequestsSettled /\ ConfirmationPolled /\ ChainGoesOn /\ NodeComesBack

-----------------------------------------------------------------------------
\* A message names accounts by their index in a table that other calls may
\* still extend, the same table even.  Whatever they do after it was compiled,
\* each index still leads to the account that was meant.
LookupsResolve ==
  \A c \in Calls : \A l \in message[c] :
    /\ l.index \in DOMAIN tables[l.address]
    /\ tables[l.address][l.index] = l.account

\* No transaction is returned that is too large because a table was read before
\* it was filled: all the accounts a call wanted in its table are looked up.
AllAccountsLookedUp ==
  \A c \in Calls :
    (outcome[c] = "returned" /\ KindOf[c] # "remove") =>
      ToSet(Wanted[c]) \subseteq {l.account : l \in message[c]}

\* While the chain makes blocks and the node comes back, a call does not wait for
\* ever: whatever fails, is late or is lost, it returns a transaction or throws.
\* Without either, confirmTransaction may never give up.
EveryCallEnds ==
  \A c \in Calls : (outcome[c] = "running") ~> (outcome[c] # "running")
==============================================================================
