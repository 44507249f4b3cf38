---------------------------- MODULE MCAmisRest ----------------------------
(***************************************************************************)
(* The chat page and the smaller parts of amis-ai on one instance each.    *)
(* They share no state here: part says which of them runs, so the states   *)
(* explored are the sum and not the product of theirs.                     *)
(***************************************************************************)
EXTENDS ChatPage, Startup, AgentPool, Accounts, ListPage
VARIABLE part
mcVars == <<vars, startupVars, poolVars, accountVars, listVars, part>>

Others(p) ==
  /\ p # "chat" => UNCHANGED vars
  /\ p # "startup" => UNCHANGED startupVars
  /\ p # "pool" => UNCHANGED poolVars
  /\ p # "accounts" => UNCHANGED accountVars
  /\ p # "list" => UNCHANGED listVars

AmisInit == /\ part \in {"chat", "startup", "pool", "accounts", "list"}
            /\ Init /\ StartupInit /\ PoolInit /\ AccountsInit /\ ListInit
AmisNext == /\ UNCHANGED part /\ Others(part)
            /\ \/ part = "chat" /\ Next
               \/ part = "startup" /\ StartupNext
               \/ part = "pool" /\ PoolNext
               \/ part = "accounts" /\ AccountsNext
               \/ part = "list" /\ ListNext
AmisSpec == AmisInit /\ [][AmisNext]_mcVars

\* Every variable of the modules stays in its type.
AmisTypeOK == TypeOK /\ StartupTypeOK /\ PoolTypeOK /\ AccountsTypeOK /\ ListTypeOK
============================================================================
