----------------------------- MODULE MCClientCalls -----------------------------
(***************************************************************************)
(* Three calls of one process: a strategy is created, liquidity is added to *)
(* another strategy and removed from it, all at the same time.             *)
(***************************************************************************)
EXTENDS DocumentedCalls, TLC

CONSTANTS create, add, remove, alice, config, mint, pool, reserve, observation

MCKindOf  == create :> "create" @@ add :> "add" @@ remove :> "remove"
MCOwnerOf == create :> alice @@ add :> alice @@ remove :> alice
MCWanted  ==
  create :> <<pool, config>> @@ add :> <<reserve, pool, observation>> @@ remove :> <<>>
MCStoredTable == <<config, mint>>
==============================================================================
