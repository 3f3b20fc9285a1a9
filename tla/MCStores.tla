------------------------------ MODULE MCStores -------------------------------
(* Small instances of the stores and of the forward proxy, of which only safety is checked.
   They share no state, so a behaviour is one of one part.
   Blocks: two epochs of two slots; a block without transactions, one whose transactions need
   two sessions, one of the next epoch.  Accounts: one account, two slots, two versions of the
   second slot.  Proxy: two transactions for two TPU nodes, one of which gets a second agent. *)
EXTENDS BlockStore, PostgresLogger, AccountStore, ForwardProxy

MCRow(s, signature, err) == [signature |-> signature, slot |-> s, recent_blockhash |-> <<"hash", s>>, err |-> err]
MCTransactions ==
  0 :> <<>> @@ 1 :> <<MCRow(1, "a", Null), MCRow(1, "b", "failed"), MCRow(1, "c", Null)>> @@ 2 :> <<MCRow(2, "d", Null)>>

CONSTANTS o1, o2
MCVersion == {[slot |-> 1, owner |-> o1], [slot |-> 2, owner |-> o1], [slot |-> 2, owner |-> o2]}

CONSTANTS x1, x2, x3, x4, a, b
MCHash == x1 :> 0 @@ x2 :> 1 @@ x3 :> 2 @@ x4 :> 3
MCTpuNodes == {<<a, b>>, <<a>>}
MCOneNode == {<<a>>}
MCMaxAgents == a :> 2 @@ b :> 1

VARIABLE part
all == <<blocksVars, loggerVars, storeVars, forwardVars, part>>

MCInit ==
  /\ BlocksInit /\ LoggerInit /\ StoreInit /\ ForwardInit
  /\ part \in {"blocks", "logger", "accounts", "proxy"}
MCNext ==
  /\ UNCHANGED part
  /\ \/ part = "blocks" /\ BlocksNext /\ UNCHANGED <<loggerVars, storeVars, forwardVars>>
     \/ part = "logger" /\ LoggerNext /\ UNCHANGED <<blocksVars, storeVars, forwardVars>>
     \/ part = "accounts" /\ StoreNext /\ UNCHANGED <<blocksVars, loggerVars, forwardVars>>
     \/ part = "proxy" /\ ForwardNext /\ UNCHANGED <<blocksVars, loggerVars, storeVars>>
MCSpec == MCInit /\ [][MCNext]_all

\* The block store alone; tokio runs its tasks.
BlockStoreSpec ==
  MCInit /\ part = "blocks" /\ [][MCNext]_all /\ WF_blocksVars(Prepare) /\ WF_blocksVars(Write)
\* The proxy alone
ProxySpec == MCInit /\ part = "proxy" /\ [][MCNext]_all
=============================================================================
