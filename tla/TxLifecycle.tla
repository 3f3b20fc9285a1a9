---------------------------- MODULE TxLifecycle ----------------------------
(* The life of a transaction in lite-rpc: TransactionService accepts it and
   queues it twice, TxSender forwards it once, TransactionReplayer sends it
   again until it is confirmed, expired or its replays are used up
   (services/src/transaction_service.rs, tx_sender.rs, transaction_replayer.rs),
   while the tasks of DataCache record blocks and statuses.

   Time is relative: wait is the number of ticks until replay_at.            *)
EXTENDS DataCache, SequencesExt

CONSTANTS
  Submission,    \* calls of send_wire_transaction
  SubmittedSig,  \* the transaction of a call
  MaxReplay,     \* max_retries of a call (its own or the service's default)
  QueueSize,     \* max_nb_txs_in_queue
  RetryOffset    \* retry_offset, in ticks

ASSUME LifecycleAssumption ==
  /\ SubmittedSig \in [Submission -> Sig]
  /\ MaxReplay \in [Submission -> Nat]
  /\ QueueSize \in Nat \ {0}
  /\ RetryOffset \in Nat \ {0}

VARIABLES
  submission,    \* how far each call of send_wire_transaction is
  tx_channel,    \* bounded channel to TxSender
  sending,       \* submissions TxSender has inserted but not sent yet (0 or 1)
  replay_queue,  \* unbounded channel to the replayer, of TransactionReplay
  replaying,     \* the TransactionReplay the replayer holds, if any
  loaded,        \* the replayer found it not expired and looks at its status next
  replays,       \* history: sends by the replayer, per submission
  recorded       \* history: signatures with a status recorded since they were
                 \* last forwarded

lifeVars == <<submission, tx_channel, sending, replay_queue, replaying, loaded,
              replays, recorded>>
vars == <<cacheVars, lifeVars>>

TransactionReplay ==
  [sub : Submission, replay_count : Nat, wait : Nat]

Init ==
  /\ CacheInit
  /\ submission = [i \in Submission |-> "new"]
  /\ tx_channel = <<>>
  /\ sending = {}
  /\ replay_queue = <<>>
  /\ replaying = {}
  /\ loaded = FALSE
  /\ replays = [i \in Submission |-> 0]
  /\ recorded = {}

-----------------------------------------------------------------------------
\* get_last_blockheight() > last_valid_block_height
Expired(s) == last_blockheight > LastValid(RecentBlockhash[s])

\* send_wire_transaction: the blockhash must be known ...
SubmitLookup(i) ==
  /\ submission[i] = "new"
  /\ submission' = [submission EXCEPT ![i] =
       IF blocks[RecentBlockhash[SubmittedSig[i]]] = Absent THEN "rejected" ELSE "check"]
  /\ UNCHANGED <<cacheVars, tx_channel, sending, replay_queue, replaying, loaded,
                 replays, recorded>>

\* ... and not expired.
SubmitAccept(i) ==
  /\ submission[i] = "check"
  /\ submission' = [submission EXCEPT ![i] =
       IF Expired(SubmittedSig[i]) THEN "rejected" ELSE "send"]
  /\ UNCHANGED <<cacheVars, tx_channel, sending, replay_queue, replaying, loaded,
                 replays, recorded>>

\* transaction_channel.send().await waits while the channel is full
SubmitSend(i) ==
  /\ submission[i] = "send"
  /\ Len(tx_channel) < QueueSize
  /\ tx_channel' = Append(tx_channel, i)
  /\ submission' = [submission EXCEPT ![i] = "replay"]
  /\ UNCHANGED <<cacheVars, sending, replay_queue, replaying, loaded, replays, recorded>>

SubmitReplay(i) ==
  /\ submission[i] = "replay"
  /\ replay_queue' =
       Append(replay_queue, [sub |-> i, replay_count |-> 0, wait |-> RetryOffset])
  /\ submission' = [submission EXCEPT ![i] = "done"]
  /\ UNCHANGED <<cacheVars, tx_channel, sending, replaying, loaded, replays, recorded>>

-----------------------------------------------------------------------------
\* TxSender::forward_txs: TxProps without a status replace whatever the store
\* has for the signature; the send to the TPU service follows.
ForwardInsert ==
  /\ sending = {} /\ tx_channel # <<>>
  /\ LET s == SubmittedSig[Head(tx_channel)]
     IN  /\ txs' = [x \in DOMAIN txs \cup {s} |->
                      IF x # s THEN txs[x]
                      ELSE [status |-> NoStatus,
                            lvbh |-> LastValid(RecentBlockhash[s]),
                            sent_by_lite_rpc |-> TRUE]]
         /\ recorded' = recorded \ {s}
  /\ sending' = {Head(tx_channel)}
  /\ tx_channel' = Tail(tx_channel)
  /\ UNCHANGED <<storeVars, call, subscribers, cleaner, submission, replay_queue,
                 replaying, loaded, replays>>

ForwardSend ==
  /\ sending # {}
  /\ sending' = {}
  /\ UNCHANGED <<cacheVars, submission, tx_channel, replay_queue, replaying, loaded,
                 replays, recorded>>

-----------------------------------------------------------------------------
\* recv of the replayer.  One that is due later than retry_offset from now goes
\* to the end of the queue, any other is held until it is due.
ReplayReceive ==
  /\ replaying = {} /\ replay_queue # <<>>
  /\ LET item == Head(replay_queue)
     IN  IF item.wait > RetryOffset
         THEN /\ replay_queue' = Append(Tail(replay_queue), item)
              /\ UNCHANGED replaying
         ELSE /\ replay_queue' = Tail(replay_queue)
              /\ replaying' = {item}
  /\ UNCHANGED <<cacheVars, submission, tx_channel, sending, loaded, replays, recorded>>

\* (faulty: only a finalized transaction counts as confirmed)
IsFinalized(s) == s \in DOMAIN txs /\ txs[s].status = Finalized

\* TxStore::is_transaction_confirmed
IsConfirmed(s) == s \in DOMAIN txs /\ txs[s].status # NoStatus

\* (faulty: an expired item is kept in hand)
ReplayLoadKept ==
  \E item \in replaying :
    /\ item.wait = 0
    /\ ~loaded
    /\ ~Expired(SubmittedSig[item.sub])
    /\ loaded' = TRUE
    /\ UNCHANGED <<cacheVars, submission, tx_channel, sending, replay_queue, replaying,
                   replays, recorded>>

\* An item is due: check_if_confirmed_or_expired_blockheight loads the height.
ReplayLoad ==
  \E item \in replaying :
    /\ item.wait = 0
    /\ ~loaded
    /\ IF Expired(SubmittedSig[item.sub])
       THEN replaying' = {} /\ UNCHANGED loaded
       ELSE loaded' = TRUE /\ UNCHANGED replaying
    /\ UNCHANGED <<cacheVars, submission, tx_channel, sending, replay_queue, replays,
                   recorded>>


\* The count and the time of the next replay of an item that was just sent.
Requeued(item) ==
  [item EXCEPT !.replay_count = @ + 1,
               !.wait = RetryOffset * (item.replay_count + 1)]

\* An item that was not expired is sent to the TPU service unless it has a
\* status, and queued again while its count is below max_replay.
ReplayItem ==
  \E item \in replaying :
    /\ loaded
    /\ replaying' = {} /\ loaded' = FALSE
    /\ IF IsConfirmed(SubmittedSig[item.sub])
       THEN UNCHANGED <<replay_queue, replays>>
       ELSE /\ replays' = [replays EXCEPT ![item.sub] = @ + 1]
            /\ replay_queue' = IF item.replay_count < MaxReplay[item.sub]
                               THEN Append(replay_queue, Requeued(item))
                               ELSE replay_queue
    /\ UNCHANGED <<cacheVars, submission, tx_channel, sending, recorded>>

\* One unit of time passes for everything that waits.
Sooner(item) == [item EXCEPT !.wait = IF @ > 0 THEN @ - 1 ELSE 0]

Tick ==
  /\ \E item \in ToSet(replay_queue) \cup replaying : item.wait > 0
  /\ replay_queue' = [n \in DOMAIN replay_queue |-> Sooner(replay_queue[n])]
  /\ replaying' = {Sooner(item) : item \in replaying}
  /\ UNCHANGED <<cacheVars, submission, tx_channel, sending, loaded, replays, recorded>>

\* A step of the cache; the history notes the status it records, if any.
CacheStep ==
  /\ CacheNext
  /\ recorded' =
       IF UpdateKnownTx \/ InsertTx THEN recorded \cup {CurrentTx} ELSE recorded
  /\ UNCHANGED <<submission, tx_channel, sending, replay_queue, replaying, loaded,
                 replays>>

Submit(i) == SubmitLookup(i) \/ SubmitAccept(i) \/ SubmitSend(i) \/ SubmitReplay(i)
Sender == ForwardInsert \/ ForwardSend
Replayer == ReplayReceive \/ ReplayLoad \/ ReplayItem

Next ==
  \/ \E i \in Submission : Submit(i)
  \/ Sender
  \/ Replayer
  \/ Tick
  \/ CacheStep

Spec == Init /\ [][Next]_vars

\* The tasks keep running and time passes; nothing is assumed of clients who
\* have not called yet, of the cluster, or of the tasks of the cache.
Fairness ==
  /\ \A i \in Submission : WF_vars(SubmitSend(i)) /\ WF_vars(SubmitReplay(i))
  /\ WF_vars(Sender)
  /\ WF_vars(Replayer)
  /\ WF_vars(Tick)

FairSpec == Spec /\ Fairness

-----------------------------------------------------------------------------
ReplaysOf(i) ==
  {n \in DOMAIN replay_queue : replay_queue[n].sub = i}


\* The replayer does not send a transaction again once a block has confirmed
\* it, as long as its blockhash is valid at the finalized height: the cleaner
\* drops no status before, and neither a last_blockheight that went backwards nor
\* the gap between the load of the height and the look at the status matters.
NoReplayOnceConfirmed ==
  [][\A i \in Submission :
       replays'[i] > replays[i] /\ SubmittedSig[i] \in recorded
         => final_height > LastValid(RecentBlockhash[SubmittedSig[i]])]_vars

\* nothing of the submission is in a channel or in a task's hands
Settled(i) ==
  /\ submission[i] = "done"
  /\ ReplaysOf(i) = {}
  /\ \A r \in replaying : r.sub # i
  /\ ~Contains(tx_channel, i) /\ i \notin sending

\* Every submission that send_wire_transaction accepted is eventually done
\* with: it does not stay in a channel, in the replay queue or with the replayer
\* for ever, though a requeued item goes round the queue until it is due.
EverySubmissionSettles ==
  \A i \in Submission : submission[i] = "send" ~> Settled(i)
=============================================================================
