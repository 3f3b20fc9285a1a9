--------------------------- MODULE MCTransactions ---------------------------
(* Three blocks with a skipped slot, the blockhash window so short that the last one
   expires the first.  The transaction s1 refers to the first block and is in the second.
   Either nobody submits it, and most notifications reach either task of the cache, or it
   is submitted twice (a client that retries once the first call has queued it) with
   different max_retries, the block task sees the block with the transaction and the other
   task the last one. *)
EXTENDS TxLifecycle, TLC

CONSTANTS g, b1, b2, s1, i1, i2

MCSlot == g :> 0 @@ b1 :> 1 @@ b2 :> 3
MCHeight == g :> 0 @@ b1 :> 1 @@ b2 :> 2
MCRecent == s1 :> g
MCTxs == g :> <<>> @@ b1 :> <<s1>> @@ b2 :> <<>>
MCFeed ==
  BlockTask :> {<<b1, Confirmed>>, <<b1, Finalized>>, <<b2, Finalized>>} @@ InfoTask :> {b1, b2} \X Level
MCSubmittedSig == i1 :> s1 @@ i2 :> s1
MCMaxReplay == i1 :> 0 @@ i2 :> 2

VARIABLE part          \* "cache" or "submissions"

Handles(t, notification) ==
  call'[t].pc = "idle" \/ <<call'[t].block, call'[t].level>> = notification
SubmissionsToo ==
  /\ Next
  /\ subscribers' = {}
  /\ submission'[i2] = "new" \/ submission'[i1] \in {"replay", "done"}
  /\ Handles(BlockTask, <<b1, Confirmed>>)
  /\ Handles(InfoTask, <<b2, Finalized>>)

MCInit == Init /\ part \in {"cache", "submissions"}
MCNext ==
  /\ (part = "cache" /\ CacheStep) \/ (part = "submissions" /\ SubmissionsToo)
  /\ UNCHANGED part
MCSpec == MCInit /\ [][MCNext]_<<vars, part>>
=============================================================================
