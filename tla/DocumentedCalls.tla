---------------------------- MODULE DocumentedCalls ----------------------------
(***************************************************************************)
(* What a comment says of the client's calls and the code does not do.     *)
(***************************************************************************)
EXTENDS ClientCalls

\* getAccountOrCreateAssociatedTokenAccountTx finds the account at the second
\* read, however the first one ended.
SecondReadSucceeds == \A c \in Calls : outcome[c] # "noAccount"
==============================================================================
