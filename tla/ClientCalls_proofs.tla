--------------------------- MODULE ClientCalls_proofs ---------------------------
(***************************************************************************)
(* Proofs about the client's calls and the lookup tables they share, for   *)
(* every set of calls, table and capacity.                                 *)
(***************************************************************************)
EXTENDS ClientCalls, SequenceTheorems, TLAPS

Outcomes == {"idle", "running", "returned", "threw", "noAccount"}
TableStates == {"none", "built", "sent", "landed", "failed"}
Addresses == 0..MAX_SLOT

\* How long a call waits has no part in what it returns: blocks_left and node_up
\* are left out.
CallsTypeOK ==
  /\ outcome \in [Calls -> Outcomes]
  /\ pc \in [Calls -> Nat]
  /\ \A c \in Calls : pc[c] \in 1..Len(Path(c)) /\ (outcome[c] = "idle" => pc[c] = 1)
  /\ slot \in Nat /\ slot >= 2 /\ slot - 1 <= MAX_SLOT
  /\ tables \in [Addresses -> Seq(Accounts)]
  /\ table_tx \in [Calls -> [state : TableStates, address : Addresses]]
  /\ fetched \in [Calls -> SUBSET [address : Addresses, entries : Seq(Accounts)]]
  /\ message \in [Calls -> SUBSET [account : Accounts, address : Addresses, index : Nat]]

\* s is how a table that now reads t began.
Begins(s, t) == Len(s) <= Len(t) /\ \A i \in 1..Len(s) : t[i] = s[i]

\* A call holds its tables as they were, and they only grow.
FetchedBegin == \A c \in Calls : \A t \in fetched[c] : Begins(t.entries, tables[t.address])

\* A transaction that landed has put its accounts into its table.
LandedHolds ==
  \A c \in Calls :
    table_tx[c].state = "landed" =>
      ToSet(Wanted[c]) \subseteq ToSet(tables[table_tx[c].address])

StepOf(c) == Path(c)[pc[c]]
AfterConfirm == {"fetch", "reuse", "compile"}
AfterFetch == {"reuse", "compile"}
RunsIn(c, steps) == outcome[c] = "running" /\ KindOf[c] # "remove" /\ StepOf(c) \in steps

\* A call that goes on after the confirmation has a transaction that landed.
ConfirmedLanded == \A c \in Calls : RunsIn(c, AfterConfirm) => table_tx[c].state = "landed"

\* A call that has fetched its table holds every account it wanted in it.
HoldsWanted(c) == \E t \in fetched[c] : ToSet(Wanted[c]) \subseteq ToSet(t.entries)
FetchedHolds == \A c \in Calls : RunsIn(c, AfterFetch) => HoldsWanted(c)

CallsInv ==
  /\ CallsTypeOK
  /\ FetchedBegin /\ LandedHolds /\ ConfirmedLanded /\ FetchedHolds
  /\ LookupsResolve /\ AllAccountsLookedUp

-----------------------------------------------------------------------------
(* The paths.                                                              *)

LEMMA CreatePath ==
  LET p == createRaydiumStrategyPath
  IN  /\ Len(p) = 10
      /\ p[1] = "sdk" /\ p[2] = "account0" /\ p[3] = "again0" /\ p[4] = "account1"
      /\ p[5] = "again1" /\ p[6] = "slot" /\ p[7] = "send" /\ p[8] = "confirm"
      /\ p[9] = "fetch" /\ p[10] = "compile"
  BY DEF createRaydiumStrategyPath, TokenAccountReads, NewTable

LEMMA AddPath ==
  LET p == addLiquidityRaydiumStrategyPath
  IN  /\ Len(p) = 8
      /\ p[1] = "sdk" /\ p[2] = "strategy" /\ p[3] = "slot" /\ p[4] = "send"
      /\ p[5] = "confirm" /\ p[6] = "fetch" /\ p[7] = "reuse" /\ p[8] = "compile"
  BY DEF addLiquidityRaydiumStrategyPath, NewTable

LEMMA RemovePath ==
  LET p == removeLiquidityRaydiumStrategyPath
  IN  /\ Len(p) = 8
      /\ p[1] = "sdk" /\ p[2] = "strategy" /\ p[3] = "account0" /\ p[4] = "again0"
      /\ p[5] = "account1" /\ p[6] = "again1" /\ p[7] = "reuse" /\ p[8] = "compile"
  BY DEF removeLiquidityRaydiumStrategyPath, TokenAccountReads

LEMMA PathOf ==
  ASSUME NEW c \in Calls
  PROVE  /\ KindOf[c] \in {"create", "add", "remove"}
         /\ KindOf[c] = "create" => Path(c) = createRaydiumStrategyPath
         /\ KindOf[c] = "add" => Path(c) = addLiquidityRaydiumStrategyPath
         /\ KindOf[c] = "remove" => Path(c) = removeLiquidityRaydiumStrategyPath
<1>1. KindOf[c] \in {"create", "add", "remove"}
  BY ClientCallsAssumption
<1>2. CASE KindOf[c] = "create"
  BY <1>2 DEF Path
<1>3. CASE KindOf[c] = "add"
  BY <1>3 DEF Path
<1>4. CASE KindOf[c] = "remove"
  BY <1>4 DEF Path
<1>. QED
  BY <1>1, <1>2, <1>3, <1>4

\* Which awaits may follow one another.
LEMMA PathOrder ==
  ASSUME NEW c \in Calls, NEW i \in 1..Len(Path(c))
  PROVE  /\ 1 \in 1..Len(Path(c)) /\ Len(Path(c)) \in Nat
         /\ Path(c)[i] # "compile" => i + 1 \in 1..Len(Path(c))
         /\ Path(c)[i] \in {"account0", "account1"} => i + 2 \in 1..Len(Path(c))
         /\ KindOf[c] # "remove" =>
              /\ Path(c)[i] \in {"sdk", "strategy", "account0", "again0", "account1",
                                 "again1", "slot", "send"} =>
                   Path(c)[i + 1] \notin AfterConfirm
              /\ Path(c)[i] \in {"account0", "account1"} => Path(c)[i + 2] \notin AfterConfirm
              /\ Path(c)[i] = "confirm" => Path(c)[i + 1] = "fetch"
<1>1. CASE KindOf[c] = "create"
  <2>1. Path(c) = createRaydiumStrategyPath
    BY <1>1, PathOf
  <2>2. Len(Path(c)) = 10
    BY <2>1, CreatePath
  <2>3. \/ i = 1 \/ i = 2 \/ i = 3 \/ i = 4 \/ i = 5
        \/ i = 6 \/ i = 7 \/ i = 8 \/ i = 9 \/ i = 10
    BY <2>2
  <2>. QED
    BY <1>1, <2>1, <2>2, <2>3, CreatePath DEF AfterConfirm
<1>2. CASE KindOf[c] = "add"
  <2>1. Path(c) = addLiquidityRaydiumStrategyPath
    BY <1>2, PathOf
  <2>2. Len(Path(c)) = 8
    BY <2>1, AddPath
  <2>3. \/ i = 1 \/ i = 2 \/ i = 3 \/ i = 4
        \/ i = 5 \/ i = 6 \/ i = 7 \/ i = 8
    BY <2>2
  <2>. QED
    BY <1>2, <2>1, <2>2, <2>3, AddPath DEF AfterConfirm
<1>3. CASE KindOf[c] = "remove"
  <2>1. Path(c) = removeLiquidityRaydiumStrategyPath
    BY <1>3, PathOf
  <2>2. Len(Path(c)) = 8
    BY <2>1, RemovePath
  <2>3. \/ i = 1 \/ i = 2 \/ i = 3 \/ i = 4
        \/ i = 5 \/ i = 6 \/ i = 7 \/ i = 8
    BY <2>2
  <2>. QED
    BY <1>3, <2>1, <2>2, <2>3, RemovePath
<1>. QED
  BY <1>1, <1>2, <1>3, PathOf

-----------------------------------------------------------------------------
(* The initial states.                                                     *)

LEMMA PathStart ==
  ASSUME NEW c \in Calls
  PROVE  1 \in 1..Len(Path(c)) /\ Path(c)[1] = "sdk"
<1>1. Len(Path(c)) \in {8, 10} /\ Path(c)[1] = "sdk"
  <2>1. KindOf[c] \in {"create", "add", "remove"}
    BY PathOf
  <2>2. CASE KindOf[c] = "create"
    BY <2>2, PathOf, CreatePath
  <2>3. CASE KindOf[c] = "add"
    BY <2>3, PathOf, AddPath
  <2>4. CASE KindOf[c] = "remove"
    BY <2>4, PathOf, RemovePath
  <2>. QED
    BY <2>1, <2>2, <2>3, <2>4
<1>. QED
  BY <1>1

LEMMA InitCallsInv == CallsInit => CallsInv
<1>. SUFFICES ASSUME CallsInit PROVE CallsInv
  OBVIOUS
<1>1. MAX_SLOT \in Nat \ {0} /\ StoredTable \in Seq(Accounts)
  BY ClientCallsAssumption
<1>2. CallsTypeOK
  <2>1. tables \in [Addresses -> Seq(Accounts)]
    BY <1>1 DEF CallsInit, Addresses
  <2>2. \A c \in Calls : pc[c] \in 1..Len(Path(c)) /\ (outcome[c] = "idle" => pc[c] = 1)
    BY PathStart DEF CallsInit
  <2>3. table_tx \in [Calls -> [state : TableStates, address : Addresses]]
    BY <1>1 DEF CallsInit, NotSent, TableStates, Addresses
  <2>. QED
    BY <1>1, <2>1, <2>2, <2>3 DEF CallsInit, CallsTypeOK, Outcomes
<1>3. FetchedBegin /\ LookupsResolve
  BY DEF CallsInit, FetchedBegin, LookupsResolve
<1>4. LandedHolds
  BY DEF CallsInit, LandedHolds, NotSent
<1>5. ConfirmedLanded /\ FetchedHolds /\ AllAccountsLookedUp
  BY DEF CallsInit, ConfirmedLanded, FetchedHolds, AllAccountsLookedUp, RunsIn
<1>. QED
  BY <1>2, <1>3, <1>4, <1>5 DEF CallsInv

-----------------------------------------------------------------------------
(* A call's own steps that leave the tables and what it holds alone.       *)

LEMMA OwnStepKeeps ==
  ASSUME CallsInv, NEW c \in Calls,
         UNCHANGED <<slot, tables, fetched, message>>,
         outcome' \in [Calls -> Outcomes], pc' \in [Calls -> Nat],
         table_tx' \in [Calls -> [state : TableStates, address : Addresses]],
         \A d \in Calls \ {c} :
           outcome'[d] = outcome[d] /\ pc'[d] = pc[d] /\ table_tx'[d] = table_tx[d],
         pc'[c] \in 1..Len(Path(c)), outcome'[c] = "idle" => pc'[c] = 1,
         outcome'[c] = "returned" => outcome[c] = "returned",
         table_tx'[c].state = "landed" => table_tx'[c] = table_tx[c],
         RunsIn(c, AfterConfirm)' => table_tx'[c].state = "landed",
         RunsIn(c, AfterFetch)' => HoldsWanted(c)
  PROVE  CallsInv'
<1>1. CallsTypeOK /\ FetchedBegin /\ LandedHolds /\ ConfirmedLanded /\ FetchedHolds
      /\ LookupsResolve /\ AllAccountsLookedUp
  BY DEF CallsInv
<1>2. CallsTypeOK'
  <2>1. \A d \in Calls :
          pc'[d] \in 1..Len(Path(d)) /\ (outcome'[d] = "idle" => pc'[d] = 1)
    BY <1>1 DEF CallsTypeOK
  <2>. QED
    BY <1>1, <2>1 DEF CallsTypeOK, Path
<1>3. FetchedBegin' /\ LookupsResolve'
  BY <1>1 DEF FetchedBegin, Begins, LookupsResolve
<1>4. LandedHolds'
  BY <1>1 DEF LandedHolds
<1>5. ConfirmedLanded'
  <2>. SUFFICES ASSUME NEW d \in Calls, RunsIn(d, AfterConfirm)'
                PROVE  table_tx'[d].state = "landed"
    BY DEF ConfirmedLanded
  <2>1. CASE d # c
    BY <1>1, <2>1 DEF ConfirmedLanded, RunsIn, StepOf, Path
  <2>. QED
    BY <2>1
<1>6. FetchedHolds'
  <2>. SUFFICES ASSUME NEW d \in Calls, RunsIn(d, AfterFetch)'
                PROVE  HoldsWanted(d)'
    BY DEF FetchedHolds
  <2>1. HoldsWanted(d)
    BY <1>1 DEF FetchedHolds, RunsIn, StepOf, Path
  <2>. QED
    BY <2>1 DEF HoldsWanted
<1>7. AllAccountsLookedUp'
  BY <1>1 DEF AllAccountsLookedUp
<1>. QED
  BY <1>2, <1>3, <1>4, <1>5, <1>6, <1>7 DEF CallsInv

\* A step that ends a call, but for the compilation.
LEMMA EndKeeps ==
  ASSUME CallsInv, NEW c \in Calls, NEW how \in Outcomes \ {"idle", "returned"},
         how = "running" => outcome[c] = "idle" /\ Path(c)[pc[c]] = "sdk",
         End(c, how), UNCHANGED <<slot, tables, table_tx, fetched, message>>
  PROVE  CallsInv'
<1>1. CallsTypeOK
  BY DEF CallsInv
<1>2. /\ outcome' \in [Calls -> Outcomes] /\ outcome'[c] = how
      /\ \A d \in Calls \ {c} : outcome'[d] = outcome[d]
  BY <1>1 DEF CallsTypeOK, End
<1>3. pc' = pc /\ table_tx' = table_tx
  BY DEF End
<1>4. ~RunsIn(c, AfterConfirm)' /\ ~RunsIn(c, AfterFetch)'
  BY <1>2, <1>3 DEF RunsIn, StepOf, Path, AfterConfirm, AfterFetch
<1>. QED
  BY <1>1, <1>2, <1>3, <1>4, OwnStepKeeps DEF CallsTypeOK

\* An advance to a place before the confirmation.
LEMMA AdvanceKeeps ==
  ASSUME CallsInv, NEW c \in Calls, NEW n \in {1, 2},
         Advance(c, n), outcome[c] = "running",
         UNCHANGED <<slot, tables, fetched, message>>,
         table_tx' \in [Calls -> [state : TableStates, address : Addresses]],
         \A d \in Calls \ {c} : table_tx'[d] = table_tx[d],
         table_tx'[c].state = "landed" => table_tx'[c] = table_tx[c],
         pc[c] + n \in 1..Len(Path(c)),
         KindOf[c] # "remove" => Path(c)[pc[c] + n] \notin AfterConfirm
  PROVE  CallsInv'
<1>1. CallsTypeOK
  BY DEF CallsInv
<1>2. /\ pc' \in [Calls -> Nat] /\ pc'[c] = pc[c] + n
      /\ \A d \in Calls \ {c} : pc'[d] = pc[d]
      /\ outcome' = outcome
  BY <1>1 DEF CallsTypeOK, Advance
<1>3. ~RunsIn(c, AfterConfirm)' /\ ~RunsIn(c, AfterFetch)'
  BY <1>2 DEF RunsIn, StepOf, Path, AfterConfirm, AfterFetch
<1>. QED
  BY <1>1, <1>2, <1>3, OwnStepKeeps DEF CallsTypeOK

-----------------------------------------------------------------------------
(* Each action keeps the invariant.                                        *)

LEMMA StartKeeps ==
  ASSUME CallsInv, NEW c \in Calls, Start(c)
  PROVE  CallsInv'
<1>1. pc[c] = 1
  BY DEF CallsInv, CallsTypeOK, Start
<1>. QED
  BY <1>1, PathStart, EndKeeps DEF Start, Outcomes

LEMMA FailKeeps ==
  ASSUME CallsInv, NEW c \in Calls, Fail(c)
  PROVE  CallsInv'
<1>0. CallsTypeOK
  BY DEF CallsInv
<1>1. End(c, "threw") /\ UNCHANGED <<slot, tables, fetched, message>>
  BY DEF Fail
<1>2. CASE table_tx' = table_tx
  BY <1>1, <1>2, EndKeeps DEF Outcomes
<1>3. CASE At(c, "send") /\ table_tx' = [table_tx EXCEPT ![c].state = "sent"]
  <2>1. /\ outcome' \in [Calls -> Outcomes] /\ outcome'[c] = "threw" /\ pc' = pc
        /\ \A d \in Calls \ {c} : outcome'[d] = outcome[d]
    BY <1>0, <1>1 DEF CallsTypeOK, End, Outcomes
  <2>2. /\ table_tx' \in [Calls -> [state : TableStates, address : Addresses]]
        /\ table_tx'[c].state = "sent"
        /\ \A d \in Calls \ {c} : table_tx'[d] = table_tx[d]
    BY <1>0, <1>3 DEF CallsTypeOK, TableStates
  <2>3. ~RunsIn(c, AfterConfirm)' /\ ~RunsIn(c, AfterFetch)'
    BY <2>1 DEF RunsIn
  <2>. QED
    BY <1>0, <1>1, <2>1, <2>2, <2>3, OwnStepKeeps DEF CallsTypeOK
<1>. QED
  BY <1>2, <1>3 DEF Fail

LEMMA AskKeeps ==
  ASSUME CallsInv, NEW c \in Calls, Ask(c)
  PROVE  CallsInv'
<1>1. /\ outcome[c] = "running" /\ pc[c] \in 1..Len(Path(c))
      /\ Path(c)[pc[c]] \in {"sdk", "strategy"}
  BY DEF CallsInv, CallsTypeOK, Ask, At
<1>2. /\ pc[c] + 1 \in 1..Len(Path(c))
      /\ KindOf[c] # "remove" => Path(c)[pc[c] + 1] \notin AfterConfirm
  BY <1>1, PathOrder
<1>3. table_tx' \in [Calls -> [state : TableStates, address : Addresses]] /\ table_tx' = table_tx
  BY DEF CallsInv, CallsTypeOK, Ask
<1>. QED
  BY <1>1, <1>2, <1>3, AdvanceKeeps DEF Ask

LEMMA FirstReadKeeps ==
  ASSUME CallsInv, NEW c \in Calls, FirstRead(c)
  PROVE  CallsInv'
<1>1. /\ outcome[c] = "running" /\ pc[c] \in 1..Len(Path(c))
      /\ Path(c)[pc[c]] \in {"account0", "account1"}
  BY DEF CallsInv, CallsTypeOK, FirstRead, At
<1>2. PICK n \in {1, 2} : Advance(c, n)
  BY DEF FirstRead
<1>3. /\ pc[c] + n \in 1..Len(Path(c))
      /\ KindOf[c] # "remove" => Path(c)[pc[c] + n] \notin AfterConfirm
  BY <1>1, PathOrder
<1>4. table_tx' \in [Calls -> [state : TableStates, address : Addresses]]
      /\ UNCHANGED <<slot, tables, table_tx, fetched, message>>
  BY DEF CallsInv, CallsTypeOK, FirstRead
<1>. QED
  BY <1>1, <1>2, <1>3, <1>4, AdvanceKeeps

LEMMA SecondReadKeeps ==
  ASSUME CallsInv, NEW c \in Calls, SecondRead(c)
  PROVE  CallsInv'
<1>1. /\ outcome[c] = "running" /\ pc[c] \in 1..Len(Path(c))
      /\ Path(c)[pc[c]] \in {"again0", "again1"}
  BY DEF CallsInv, CallsTypeOK, SecondRead, At
<1>2. /\ pc[c] + 1 \in 1..Len(Path(c))
      /\ KindOf[c] # "remove" => Path(c)[pc[c] + 1] \notin AfterConfirm
  BY <1>1, PathOrder
<1>3. table_tx' \in [Calls -> [state : TableStates, address : Addresses]]
      /\ UNCHANGED <<slot, tables, table_tx, fetched, message>>
  BY DEF CallsInv, CallsTypeOK, SecondRead
<1>4. CASE Advance(c, 1)
  BY <1>1, <1>2, <1>3, <1>4, AdvanceKeeps
<1>5. CASE End(c, "noAccount")
  BY <1>3, <1>5, EndKeeps DEF Outcomes
<1>. QED
  BY <1>4, <1>5 DEF SecondRead

LEMMA ReadSlotKeeps ==
  ASSUME CallsInv, NEW c \in Calls, ReadSlot(c)
  PROVE  CallsInv'
<1>1. /\ outcome[c] = "running" /\ pc[c] \in 1..Len(Path(c))
      /\ Path(c)[pc[c]] = "slot"
  BY DEF CallsInv, CallsTypeOK, ReadSlot, At
<1>2. /\ pc[c] + 1 \in 1..Len(Path(c))
      /\ KindOf[c] # "remove" => Path(c)[pc[c] + 1] \notin AfterConfirm
  BY <1>1, PathOrder
<1>3. [state |-> "built", address |-> slot - 1] \in [state : TableStates, address : Addresses]
  BY ClientCallsAssumption DEF CallsInv, CallsTypeOK, TableStates, Addresses
<1>4. /\ table_tx' \in [Calls -> [state : TableStates, address : Addresses]]
      /\ table_tx'[c].state = "built"
      /\ \A d \in Calls \ {c} : table_tx'[d] = table_tx[d]
  BY <1>3 DEF CallsInv, CallsTypeOK, ReadSlot
<1>. QED
  BY <1>1, <1>2, <1>4, AdvanceKeeps DEF ReadSlot

LEMMA SendTableKeeps ==
  ASSUME CallsInv, NEW c \in Calls, SendTable(c)
  PROVE  CallsInv'
<1>1. /\ outcome[c] = "running" /\ pc[c] \in 1..Len(Path(c))
      /\ Path(c)[pc[c]] = "send"
  BY DEF CallsInv, CallsTypeOK, SendTable, At
<1>2. /\ pc[c] + 1 \in 1..Len(Path(c))
      /\ KindOf[c] # "remove" => Path(c)[pc[c] + 1] \notin AfterConfirm
  BY <1>1, PathOrder
<1>3. /\ table_tx' \in [Calls -> [state : TableStates, address : Addresses]]
      /\ table_tx'[c].state = "sent"
      /\ \A d \in Calls \ {c} : table_tx'[d] = table_tx[d]
  BY DEF CallsInv, CallsTypeOK, SendTable, TableStates
<1>. QED
  BY <1>1, <1>2, <1>3, AdvanceKeeps DEF SendTable

\* A step in which time passes, and calls only wait.
LEMMA TimeKeeps ==
  ASSUME CallsInv, UNCHANGED <<outcome, pc, tables, table_tx, fetched, message>>,
         slot' \in Nat, slot' >= 2, slot' - 1 <= MAX_SLOT
  PROVE  CallsInv'
<1>1. CallsTypeOK'
  BY DEF CallsInv, CallsTypeOK, Path
<1>2. FetchedBegin' /\ LandedHolds' /\ LookupsResolve' /\ AllAccountsLookedUp'
  BY DEF CallsInv, FetchedBegin, Begins, LandedHolds, LookupsResolve, AllAccountsLookedUp
<1>3. ConfirmedLanded' /\ FetchedHolds'
  BY DEF CallsInv, ConfirmedLanded, FetchedHolds, RunsIn, StepOf, Path, HoldsWanted
<1>. QED
  BY <1>1, <1>2, <1>3 DEF CallsInv

LEMMA AskExpiryKeeps ==
  ASSUME CallsInv, NEW c \in Calls, AskExpiry(c)
  PROVE  CallsInv'
  BY ClientCallsAssumption, TimeKeeps DEF CallsInv, CallsTypeOK, AskExpiry

LEMMA ConfirmTableKeeps ==
  ASSUME CallsInv, NEW c \in Calls, ConfirmTable(c)
  PROVE  CallsInv'
<1>0. CallsTypeOK
  BY DEF CallsInv
<1>1. outcome[c] = "running" /\ pc[c] \in 1..Len(Path(c)) /\ Path(c)[pc[c]] = "confirm"
  BY <1>0 DEF CallsTypeOK, ConfirmTable, Waiting, At
<1>2. CASE End(c, "threw")
  BY <1>2, EndKeeps DEF Outcomes, ConfirmTable
<1>3. CASE table_tx[c].state = "landed" /\ Advance(c, 1)
  <2>1. /\ pc' \in [Calls -> Nat] /\ pc'[c] = pc[c] + 1
        /\ \A d \in Calls \ {c} : pc'[d] = pc[d]
        /\ outcome' = outcome
    BY <1>0, <1>3 DEF CallsTypeOK, Advance
  <2>2. pc[c] + 1 \in 1..Len(Path(c)) /\ (KindOf[c] # "remove" => Path(c)[pc[c] + 1] = "fetch")
    BY <1>1, PathOrder
  <2>3. ~RunsIn(c, AfterFetch)'
    BY <2>1, <2>2 DEF RunsIn, StepOf, Path, AfterFetch
  <2>. QED
    BY <1>0, <1>1, <1>3, <2>1, <2>2, <2>3, OwnStepKeeps DEF CallsTypeOK, ConfirmTable
<1>. QED
  BY <1>2, <1>3 DEF ConfirmTable

LEMMA TableFailsKeeps ==
  ASSUME CallsInv, NEW c \in Calls, TableFails(c)
  PROVE  CallsInv'
<1>0. CallsTypeOK /\ ConfirmedLanded /\ FetchedHolds
  BY DEF CallsInv
<1>1. /\ table_tx' \in [Calls -> [state : TableStates, address : Addresses]]
      /\ table_tx'[c].state = "failed"
      /\ \A d \in Calls \ {c} : table_tx'[d] = table_tx[d]
  BY <1>0 DEF CallsTypeOK, TableFails, TableStates
<1>2. pc' = pc /\ outcome' = outcome
  BY DEF TableFails
<1>3. ~RunsIn(c, AfterConfirm)' /\ ~RunsIn(c, AfterFetch)'
  <2>1. ~RunsIn(c, AfterConfirm)
    BY <1>0 DEF ConfirmedLanded, TableFails
  <2>. QED
    BY <1>2, <2>1 DEF RunsIn, StepOf, Path, AfterConfirm, AfterFetch
<1>. QED
  BY <1>0, <1>1, <1>2, <1>3, OwnStepKeeps DEF CallsTypeOK, TableFails

\* A step that gives a call a table it read from the chain.
LEMMA HoldKeeps ==
  ASSUME CallsInv, NEW c \in Calls, NEW address \in Addresses,
         outcome[c] = "running", Advance(c, 1), pc[c] + 1 \in 1..Len(Path(c)),
         fetched' = [fetched EXCEPT ![c] =
                       @ \cup {[address |-> address, entries |-> tables[address]]}],
         UNCHANGED <<slot, tables, table_tx, message>>,
         KindOf[c] # "remove" => StepOf(c) \in AfterConfirm,
         HoldsWanted(c) \/ KindOf[c] = "remove"
           \/ ToSet(Wanted[c]) \subseteq ToSet(tables[address])
  PROVE  CallsInv'
<1>0. CallsTypeOK /\ FetchedBegin /\ LandedHolds /\ ConfirmedLanded /\ FetchedHolds
      /\ LookupsResolve /\ AllAccountsLookedUp
  BY DEF CallsInv
<1>. DEFINE t == [address |-> address, entries |-> tables[address]]
<1>1. /\ tables[address] \in Seq(Accounts)
      /\ t \in [address : Addresses, entries : Seq(Accounts)]
      /\ Begins(t.entries, tables[t.address])
  BY <1>0 DEF CallsTypeOK, Begins
<1>2. /\ pc' \in [Calls -> Nat] /\ pc'[c] = pc[c] + 1
      /\ \A d \in Calls \ {c} : pc'[d] = pc[d]
      /\ outcome' = outcome
  BY <1>0 DEF CallsTypeOK, Advance
<1>3. /\ fetched' \in [Calls -> SUBSET [address : Addresses, entries : Seq(Accounts)]]
      /\ fetched'[c] = fetched[c] \cup {t}
      /\ \A d \in Calls \ {c} : fetched'[d] = fetched[d]
  BY <1>0, <1>1 DEF CallsTypeOK
<1>. HIDE DEF t
<1>4. CallsTypeOK'
  <2>1. \A d \in Calls :
          pc'[d] \in 1..Len(Path(d)) /\ (outcome'[d] = "idle" => pc'[d] = 1)
    BY <1>0, <1>2 DEF CallsTypeOK
  <2>. QED
    BY <1>0, <1>2, <1>3, <2>1 DEF CallsTypeOK, Path
<1>5. FetchedBegin'
  BY <1>0, <1>1, <1>3 DEF FetchedBegin, Begins
<1>6. LookupsResolve' /\ LandedHolds' /\ AllAccountsLookedUp'
  BY <1>0, <1>2 DEF LookupsResolve, LandedHolds, AllAccountsLookedUp
<1>7. ConfirmedLanded'
  <2>. SUFFICES ASSUME NEW d \in Calls, RunsIn(d, AfterConfirm)'
                PROVE  table_tx'[d].state = "landed"
    BY DEF ConfirmedLanded
  <2>1. RunsIn(d, AfterConfirm)
    BY <1>2 DEF RunsIn, StepOf, Path
  <2>. QED
    BY <1>0, <2>1 DEF ConfirmedLanded
<1>8. FetchedHolds'
  <2>. SUFFICES ASSUME NEW d \in Calls, RunsIn(d, AfterFetch)'
                PROVE  HoldsWanted(d)'
    BY DEF FetchedHolds
  <2>1. CASE d # c
    <3>1. HoldsWanted(d)
      BY <1>0, <1>2, <2>1 DEF FetchedHolds, RunsIn, StepOf, Path
    <3>. QED
      BY <1>3, <2>1, <3>1 DEF HoldsWanted
  <2>2. CASE d = c
    <3>1. HoldsWanted(c) \/ ToSet(Wanted[c]) \subseteq ToSet(t.entries)
      BY <2>2 DEF RunsIn, t
    <3>. QED
      BY <1>3, <2>2, <3>1 DEF HoldsWanted
  <2>. QED
    BY <2>1, <2>2
<1>. QED
  BY <1>4, <1>5, <1>6, <1>7, <1>8 DEF CallsInv

LEMMA FetchTableKeeps ==
  ASSUME CallsInv, NEW c \in Calls, FetchTable(c)
  PROVE  CallsInv'
<1>0. CallsTypeOK /\ LandedHolds /\ ConfirmedLanded
  BY DEF CallsInv
<1>1. /\ outcome[c] = "running" /\ pc[c] \in 1..Len(Path(c))
      /\ Path(c)[pc[c]] = "fetch"
  BY <1>0 DEF CallsTypeOK, FetchTable, At
<1>. DEFINE address == table_tx[c].address
<1>2. CASE End(c, "threw") /\ UNCHANGED fetched
  BY <1>2, EndKeeps DEF FetchTable, Outcomes
<1>3. CASE /\ Advance(c, 1)
           /\ fetched' = [fetched EXCEPT ![c] =
                            @ \cup {[address |-> address, entries |-> tables[address]]}]
  <2>1. address \in Addresses
    BY <1>0 DEF CallsTypeOK
  <2>2. pc[c] + 1 \in 1..Len(Path(c))
    BY <1>1, PathOrder
  <2>3. StepOf(c) \in AfterConfirm
    BY <1>1 DEF StepOf, AfterConfirm
  <2>4. KindOf[c] = "remove" \/ ToSet(Wanted[c]) \subseteq ToSet(tables[address])
    BY <1>0, <1>1, <2>3 DEF ConfirmedLanded, LandedHolds, RunsIn
  <2>. HIDE DEF address
  <2>. QED
    BY <1>1, <1>3, <2>1, <2>2, <2>3, <2>4, HoldKeeps DEF FetchTable
<1>. QED
  BY <1>2, <1>3 DEF FetchTable, FetchedEntries

LEMMA ReuseTableKeeps ==
  ASSUME CallsInv, NEW c \in Calls, ReuseTable(c)
  PROVE  CallsInv'
<1>0. CallsTypeOK /\ FetchedHolds
  BY DEF CallsInv
<1>1. /\ outcome[c] = "running" /\ pc[c] \in 1..Len(Path(c))
      /\ Path(c)[pc[c]] = "reuse"
  BY <1>0 DEF CallsTypeOK, ReuseTable, At
<1>2. 0 \in Addresses
  BY ClientCallsAssumption DEF Addresses
<1>3. pc[c] + 1 \in 1..Len(Path(c))
  BY <1>1, PathOrder
<1>4. StepOf(c) \in AfterConfirm
  BY <1>1 DEF StepOf, AfterConfirm
<1>5. HoldsWanted(c) \/ KindOf[c] = "remove"
  BY <1>0, <1>1 DEF FetchedHolds, RunsIn, StepOf, AfterFetch
<1>. QED
  BY <1>1, <1>2, <1>3, <1>4, <1>5, HoldKeeps DEF ReuseTable, FetchedEntries

\* An account is looked up in a table that the call holds, at its place in it.
LEMMA LookupsType ==
  ASSUME CallsInv, NEW c \in Calls, NEW accounts, NEW l \in Lookups(c, accounts)
  PROVE  /\ l \in [account : Accounts, address : Addresses, index : Nat]
         /\ l.index \in DOMAIN tables[l.address]
         /\ tables[l.address][l.index] = l.account
<1>0. CallsTypeOK /\ FetchedBegin
  BY DEF CallsInv
<1>. DEFINE place(a, t) == CHOOSE i \in DOMAIN t.entries : t.entries[i] = a
<1>1. PICK t \in fetched[c] : \E a \in accounts \cap ToSet(t.entries) :
        l = [account |-> a, address |-> t.address, index |-> place(a, t)]
  BY DEF Lookups
<1>6. PICK a \in accounts \cap ToSet(t.entries) :
        l = [account |-> a, address |-> t.address, index |-> place(a, t)]
  BY <1>1
<1>2. t \in [address : Addresses, entries : Seq(Accounts)] /\ Begins(t.entries, tables[t.address])
      /\ tables[t.address] \in Seq(Accounts)
  BY <1>0 DEF CallsTypeOK, FetchedBegin
<1>3. place(a, t) \in DOMAIN t.entries /\ t.entries[place(a, t)] = a
  <2>1. \E i \in DOMAIN t.entries : t.entries[i] = a
    BY DEF ToSet
  <2>. QED
    BY <2>1
<1>. HIDE DEF place
<1>4. place(a, t) \in 1..Len(t.entries) /\ t.entries[place(a, t)] \in Accounts
  BY <1>2, <1>3
<1>5. place(a, t) \in 1..Len(tables[t.address]) /\ tables[t.address][place(a, t)] = a
  BY <1>2, <1>3, <1>4 DEF Begins
<1>. QED
  BY <1>2, <1>3, <1>4, <1>5, <1>6

\* Every account of a table that the call holds is looked up.
LEMMA LookupsComplete ==
  ASSUME NEW c \in Calls, NEW accounts, NEW t \in fetched[c],
         NEW a \in accounts, a \in ToSet(t.entries)
  PROVE  a \in {l.account : l \in Lookups(c, accounts)}
<1>. DEFINE look(b, u) == [account |-> b, address |-> u.address,
                           index |-> CHOOSE i \in DOMAIN u.entries : u.entries[i] = b]
            row(u) == {look(b, u) : b \in accounts \cap ToSet(u.entries)}
            l == look(a, t)
<1>1. l \in Lookups(c, accounts)
  <2>1. l \in row(t)
    OBVIOUS
  <2>. HIDE DEF row, l
  <2>2. l \in UNION {row(u) : u \in fetched[c]}
    BY <2>1
  <2>. QED
    BY <2>2 DEF Lookups, row
<1>2. l.account = a
  OBVIOUS
<1>. HIDE DEF l
<1>. QED
  BY <1>1, <1>2

LEMMA CompileKeeps ==
  ASSUME CallsInv, NEW c \in Calls, Compile(c)
  PROVE  CallsInv'
<1>0. CallsTypeOK /\ FetchedBegin /\ LandedHolds /\ ConfirmedLanded /\ FetchedHolds
      /\ LookupsResolve /\ AllAccountsLookedUp
  BY DEF CallsInv
<1>1. PICK accounts :
        /\ message' = [message EXCEPT ![c] = Lookups(c, accounts)]
        /\ accounts = IF KindOf[c] = "create" THEN ToSet(Wanted[c])
                      ELSE ToSet(Wanted[c] \o StoredTable)
  BY DEF Compile
<1>2. message'[c] = Lookups(c, accounts) /\ \A d \in Calls \ {c} : message'[d] = message[d]
  BY <1>0, <1>1 DEF CallsTypeOK
<1>3. message' \in
        [Calls -> SUBSET [account : Accounts, address : Addresses, index : Nat]]
  BY <1>0, <1>1, LookupsType DEF CallsTypeOK
<1>4. /\ outcome' \in [Calls -> Outcomes] /\ outcome'[c] = "returned" /\ pc' = pc
      /\ \A d \in Calls \ {c} : outcome'[d] = outcome[d]
  BY <1>0 DEF CallsTypeOK, Compile, End, Outcomes
<1>5. CallsTypeOK'
  <2>1. \A d \in Calls :
          pc'[d] \in 1..Len(Path(d)) /\ (outcome'[d] = "idle" => pc'[d] = 1)
    BY <1>0, <1>4 DEF CallsTypeOK
  <2>. QED
    BY <1>0, <1>3, <1>4, <2>1 DEF CallsTypeOK, Path, Compile
<1>6. FetchedBegin' /\ LandedHolds'
  BY <1>0 DEF FetchedBegin, Begins, LandedHolds, Compile
<1>7. ConfirmedLanded'
  BY <1>0, <1>4 DEF ConfirmedLanded, RunsIn, StepOf, Path, Compile
<1>8. FetchedHolds'
  BY <1>0, <1>4 DEF FetchedHolds, RunsIn, StepOf, Path, Compile, HoldsWanted
<1>9. LookupsResolve'
  <2>. SUFFICES ASSUME NEW d \in Calls, NEW l \in message'[d]
                PROVE  /\ l.index \in DOMAIN tables[l.address]
                       /\ tables[l.address][l.index] = l.account
    BY DEF LookupsResolve, Compile
  <2>1. CASE d = c
    BY <1>2, <2>1, LookupsType
  <2>. QED
    BY <1>0, <1>2, <2>1 DEF LookupsResolve
<1>10. AllAccountsLookedUp'
  <2>. SUFFICES ASSUME NEW d \in Calls, outcome'[d] = "returned", KindOf[d] # "remove",
                       NEW a \in ToSet(Wanted[d])
                PROVE  a \in {l.account : l \in message'[d]}
    BY DEF AllAccountsLookedUp
  <2>1. CASE d = c
    <3>1. PICK t \in fetched[c] : ToSet(Wanted[c]) \subseteq ToSet(t.entries)
      BY <1>0, <2>1 DEF FetchedHolds, RunsIn, StepOf, AfterFetch, Compile, At, HoldsWanted
    <3>2. a \in accounts
      <4>1. CASE KindOf[c] = "create"
        BY <1>1, <2>1, <4>1
      <4>2. CASE KindOf[c] # "create"
        <5>1. Wanted[c] \in Seq(Accounts) /\ StoredTable \in Seq(Accounts)
          BY ClientCallsAssumption
        <5>2. PICK i \in 1..Len(Wanted[c]) : Wanted[c][i] = a
          BY <2>1, <5>1 DEF ToSet
        <5>3. /\ i \in DOMAIN (Wanted[c] \o StoredTable)
              /\ (Wanted[c] \o StoredTable)[i] = a
          BY <5>1, <5>2
        <5>. QED
          BY <1>1, <4>2, <5>3 DEF ToSet
      <4>. QED
        BY <4>1, <4>2
    <3>. QED
      BY <1>2, <2>1, <3>1, <3>2, LookupsComplete
  <2>2. CASE d # c
    BY <1>0, <1>2, <1>4, <2>2 DEF AllAccountsLookedUp
  <2>. QED
    BY <2>1, <2>2
<1>. QED
  BY <1>5, <1>6, <1>7, <1>8, <1>9, <1>10 DEF CallsInv

-----------------------------------------------------------------------------
(* A table that is extended.                                               *)

\* Every table begins as it was.
LEMMA TablesGrow ==
  ASSUME CallsTypeOK, NEW c \in Calls, TableLands(c)
  PROVE  /\ tables' \in [Addresses -> Seq(Accounts)]
         /\ \A a \in Addresses : Begins(tables[a], tables'[a])
         /\ ToSet(Wanted[c]) \subseteq ToSet(tables'[table_tx[c].address])
<1>. DEFINE address == table_tx[c].address
<1>1. /\ tables \in [Addresses -> Seq(Accounts)] /\ address \in Addresses
      /\ Wanted[c] \in Seq(Accounts)
      /\ tables' = [tables EXCEPT ![address] = tables[address] \o Wanted[c]]
  BY ClientCallsAssumption DEF CallsTypeOK, TableLands
<1>. HIDE DEF address
<1>2. tables[address] \in Seq(Accounts) /\ tables[address] \o Wanted[c] \in Seq(Accounts)
  BY <1>1
<1>3. /\ tables'[address] = tables[address] \o Wanted[c]
      /\ \A a \in Addresses \ {address} : tables'[a] = tables[a]
      /\ tables' \in [Addresses -> Seq(Accounts)]
  BY <1>1, <1>2
<1>4. Begins(tables[address], tables'[address])
  BY <1>1, <1>2, <1>3 DEF Begins
<1>5. \A a \in Addresses : Begins(tables[a], tables'[a])
  BY <1>1, <1>3, <1>4 DEF Begins
<1>6. ToSet(Wanted[c]) \subseteq ToSet(tables'[address])
  <2>. SUFFICES ASSUME NEW a \in ToSet(Wanted[c]) PROVE a \in ToSet(tables'[address])
    OBVIOUS
  <2>0. PICK i \in 1..Len(Wanted[c]) : Wanted[c][i] = a
    BY <1>1 DEF ToSet
  <2>. DEFINE j == Len(tables[address]) + i
  <2>1. j \in DOMAIN tables'[address] /\ tables'[address][j] = Wanted[c][i]
    BY <1>1, <1>2, <1>3
  <2>. QED
    BY <2>0, <2>1 DEF ToSet
<1>. QED
  BY <1>3, <1>5, <1>6 DEF address

\* What is in a sequence stays in one that begins with it.
LEMMA BeginsKeeps ==
  ASSUME NEW s \in Seq(Accounts), NEW t \in Seq(Accounts), Begins(s, t)
  PROVE  ToSet(s) \subseteq ToSet(t)
<1>1. \A i \in DOMAIN s : i \in DOMAIN t /\ t[i] = s[i]
  BY DEF Begins
<1>. QED
  BY <1>1 DEF ToSet

LEMMA TableLandsKeeps ==
  ASSUME CallsInv, NEW c \in Calls, TableLands(c)
  PROVE  CallsInv'
<1>0. CallsTypeOK /\ FetchedBegin /\ LandedHolds /\ ConfirmedLanded /\ FetchedHolds
      /\ LookupsResolve /\ AllAccountsLookedUp
  BY DEF CallsInv
<1>1. /\ tables \in [Addresses -> Seq(Accounts)] /\ tables' \in [Addresses -> Seq(Accounts)]
      /\ \A a \in Addresses : Begins(tables[a], tables'[a])
      /\ ToSet(Wanted[c]) \subseteq ToSet(tables'[table_tx[c].address])
  BY <1>0, TablesGrow DEF CallsTypeOK
<1>2. /\ table_tx' \in [Calls -> [state : TableStates, address : Addresses]]
      /\ table_tx'[c].state = "landed" /\ table_tx'[c].address = table_tx[c].address
      /\ \A d \in Calls \ {c} : table_tx'[d] = table_tx[d]
  BY <1>0 DEF CallsTypeOK, TableLands, TableStates
<1>3. UNCHANGED <<outcome, pc, slot, fetched, message>>
  BY DEF TableLands
<1>4. CallsTypeOK'
  BY <1>0, <1>1, <1>2, <1>3 DEF CallsTypeOK, Path
<1>5. FetchedBegin'
  <2>. SUFFICES ASSUME NEW d \in Calls, NEW t \in fetched[d]
                PROVE  Begins(t.entries, tables'[t.address])
    BY <1>3 DEF FetchedBegin, Begins
  <2>1. t.address \in Addresses /\ t.entries \in Seq(Accounts)
        /\ Begins(t.entries, tables[t.address]) /\ Begins(tables[t.address], tables'[t.address])
        /\ tables[t.address] \in Seq(Accounts) /\ tables'[t.address] \in Seq(Accounts)
    BY <1>0, <1>1 DEF CallsTypeOK, FetchedBegin
  <2>. QED
    BY <2>1 DEF Begins
<1>6. LandedHolds'
  <2>. SUFFICES ASSUME NEW d \in Calls, table_tx'[d].state = "landed"
                PROVE  ToSet(Wanted[d]) \subseteq ToSet(tables'[table_tx'[d].address])
    BY DEF LandedHolds
  <2>1. CASE d = c
    BY <1>1, <1>2, <2>1
  <2>2. CASE d # c
    <3>1. table_tx[d].address \in Addresses /\ table_tx'[d] = table_tx[d]
          /\ ToSet(Wanted[d]) \subseteq ToSet(tables[table_tx[d].address])
      BY <1>0, <1>2, <2>2 DEF CallsTypeOK, LandedHolds
    <3>2. ToSet(tables[table_tx[d].address]) \subseteq ToSet(tables'[table_tx[d].address])
      BY <1>1, <3>1, BeginsKeeps
    <3>. QED
      BY <3>1, <3>2
  <2>. QED
    BY <2>1, <2>2
<1>7. ConfirmedLanded'
  BY <1>0, <1>2, <1>3 DEF ConfirmedLanded, RunsIn, StepOf, Path
<1>8. FetchedHolds'
  BY <1>0, <1>3 DEF FetchedHolds, RunsIn, StepOf, Path, HoldsWanted
<1>9. LookupsResolve'
  <2>. SUFFICES ASSUME NEW d \in Calls, NEW l \in message[d]
                PROVE  /\ l.index \in DOMAIN tables'[l.address]
                       /\ tables'[l.address][l.index] = l.account
    BY <1>3 DEF LookupsResolve
  <2>1. l.address \in Addresses /\ l.index \in DOMAIN tables[l.address]
        /\ tables[l.address][l.index] = l.account
    BY <1>0 DEF CallsTypeOK, LookupsResolve
  <2>2. /\ tables[l.address] \in Seq(Accounts) /\ tables'[l.address] \in Seq(Accounts)
        /\ Begins(tables[l.address], tables'[l.address])
    BY <1>1, <2>1
  <2>3. l.index \in 1..Len(tables[l.address]) /\ Len(tables[l.address]) \in Nat
        /\ Len(tables'[l.address]) \in Nat
    BY <2>1, <2>2
  <2>. QED
    BY <2>1, <2>2, <2>3 DEF Begins
<1>10. AllAccountsLookedUp'
  BY <1>0, <1>3 DEF AllAccountsLookedUp
<1>. QED
  BY <1>4, <1>5, <1>6, <1>7, <1>8, <1>9, <1>10 DEF CallsInv

-----------------------------------------------------------------------------
(* The theorems.                                                           *)

LEMMA CallsNextKeeps == CallsInv /\ [CallsNext]_callVars => CallsInv'
<1>. SUFFICES ASSUME CallsInv, [CallsNext]_callVars PROVE CallsInv'
  OBVIOUS
<1>0. slot \in Nat /\ slot >= 2 /\ slot - 1 <= MAX_SLOT /\ MAX_SLOT \in Nat
  BY ClientCallsAssumption DEF CallsInv, CallsTypeOK
<1>1. ASSUME NEW c \in Calls, Answered(c) PROVE CallsInv'
  BY <1>1, AskKeeps, FirstReadKeeps, SecondReadKeeps, ReadSlotKeeps, SendTableKeeps,
     AskExpiryKeeps, ConfirmTableKeeps, FetchTableKeeps, ReuseTableKeeps, CompileKeeps DEF Answered
<1>2. ASSUME NEW c \in Calls, Start(c) \/ Fail(c) \/ TableLands(c) \/ TableFails(c)
      PROVE  CallsInv'
  BY <1>2, StartKeeps, FailKeeps, TableLandsKeeps, TableFailsKeeps
<1>3. CASE SkippedSlot \/ NextBlock
  BY <1>0, <1>3, TimeKeeps DEF SkippedSlot, NextBlock, SlotPasses
<1>4. CASE NodeDown \/ NodeUp \/ OpenAccount
  BY <1>0, <1>4, TimeKeeps DEF NodeDown, NodeUp, OpenAccount
<1>5. CASE UNCHANGED callVars
  BY <1>0, <1>5, TimeKeeps DEF callVars
<1>. QED
  BY <1>1, <1>2, <1>3, <1>4, <1>5 DEF CallsNext

\* CallsInv holds of every interleaving of the calls and the chain.
THEOREM CallsInvariant == CallsSpec => []CallsInv
<1>. QED
  BY InitCallsInv, CallsNextKeeps, PTL DEF CallsSpec

\* Each index that a returned transaction carries leads to the account it was
\* compiled for, however the tables are extended before it is sent.
THEOREM LookupsResolveTheorem == CallsSpec => []LookupsResolve
<1>1. CallsInv => LookupsResolve
  BY DEF CallsInv
<1>. QED
  BY <1>1, CallsInvariant, PTL

\* Every account that a call put into its new table is looked up by the
\* transaction that it returns.
THEOREM AllAccountsLookedUpTheorem == CallsSpec => []AllAccountsLookedUp
<1>1. CallsInv => AllAccountsLookedUp
  BY DEF CallsInv
<1>. QED
  BY <1>1, CallsInvariant, PTL
===============================================================================
