---------------------------- MODULE MCServices -------------------------------
(* Small instances of the services that run for as long as the process does: those that follow
   the cluster, the fee statistics, and the replay of transactions (of which the block that
   expires them is at stake here, and no other block).  They have no state in common: a behaviour
   is one of one part, the others stay in a state where they can do nothing.                     *)
EXTENDS RpcPolling, AccountStreams, PrioFees, TxLifecycle

CONSTANTS g, b1, x, i1, i2
MCHeight == g :> 0 @@ b1 :> 2
MCFeed == BlockTask :> {} @@ InfoTask :> {<<b1, Processed>>}
MCRecent == x :> g
MCTxs == g :> <<>> @@ b1 :> <<>>
MCSubmittedSig == i1 :> x @@ i2 :> x
MCMaxReplay == i1 :> 0 @@ i2 :> 2

VARIABLE part

MCClusterNodes == {{0, 2, 4, 6}, {1, 2, 3, 5, 6}}

MCTx(priority, cu, w, r, alt_w, alt_r) ==
  [priority |-> priority, cu |-> cu, is_vote |-> FALSE, writable |-> w, readable |-> r,
   alt_writable |-> alt_w, alt_readonly |-> alt_r]
MCVote == [MCTx(9, 9, {}, {}, {}, {}) EXCEPT !.is_vote = TRUE]
MCBlockContent ==
  {<<MCVote>>,
   <<MCTx(3, 5, {"x"}, {}, {}, {1}), MCTx(1, 2, {}, {"x"}, {}, {})>>,
   <<MCTx(2, 0, {"x"}, {}, {0}, {}), MCVote, MCTx(3, 4, {}, {}, {}, {0, 1})>>}
MCAddresses == <<"y", "z">>

NoPolling == source = "rpc" /\ consumer = "blocks"
NoStreams == supervisor = "on demand"
NoFees == content = [slot \in FeeSlot |-> <<MCVote>>] /\ map = 0

MCInit ==
  /\ PollingInit /\ StreamInit /\ FeesInit /\ Init
  /\ part \in {"polling", "streams", "block fees", "account fees", "replay"}
  /\ part # "polling" => NoPolling
  /\ part # "streams" => NoStreams
  /\ part \notin {"block fees", "account fees"} => NoFees
  /\ part = "block fees" => map = 0

MCNext ==
  /\ UNCHANGED part
  /\ \/ part = "polling" /\ PollingNext /\ UNCHANGED <<streamVars, tableVars, feeVars, vars>>
     \/ part = "streams" /\ StreamNext /\ UNCHANGED <<pollingVars, tableVars, feeVars, vars>>
     \/ /\ part = "block fees" /\ (\E slot \in FeeSlot : BlockReceived(slot))
        /\ UNCHANGED <<pollingVars, streamVars, vars>>
     \/ part = "account fees" /\ AccountTask /\ UNCHANGED <<pollingVars, streamVars, vars>>
     \/ part = "replay" /\ Next /\ UNCHANGED <<pollingVars, streamVars, tableVars, feeVars>>

MCSpec ==
  /\ MCInit /\ [][MCNext]_<<part, pollingVars, streamVars, tableVars, feeVars, vars>>
  /\ PollingFairness /\ StreamFairness /\ Fairness
=============================================================================
