-------------------------- MODULE ActiveConnection --------------------------
(* One ActiveConnection::listen (services/src/tpu_utils/tpu_connection_manager.rs):
   the heap filler task moves transactions from the broadcast channel into the
   priority heap and notifies; the main loop drains the heap, one send task and
   one semaphore permit per transaction; both stop on the exit broadcast, which
   each of them only sees if it had subscribed before it was sent.            *)
EXTENDS PrioFeeHeap

CONSTANTS
  ChannelSize,  \* maximum_transaction_in_queue of the broadcast channel
  Permits,      \* permits of the connection pool, over all connections
  NoTx,         \* not a transaction
  MaxHeight,    \* bound: heights the chain reaches
  MaxSends      \* bound: transactions the TPU service broadcasts

ASSUME ConnectionAssumption ==
  /\ ChannelSize \in Nat \ {0}
  /\ Permits \in Nat \ {0}
  /\ NoTx \notin Sig
  /\ MaxHeight \in Nat
  /\ MaxSends \in Nat

VARIABLES
  channel,    \* what the broadcast receiver of the filler has not read yet
  lagged,     \* the receiver was overtaken; its next recv fails
  heap,       \* the priority heap
  permit,     \* the stored wake-up of fill_notify
  filler,     \* [pc, tx, height]: the filler, its transaction, current_blockheight
  main,       \* [pc, tx]: the main loop and the transaction it holds
  inflight,   \* send tasks that hold a permit
  exit,       \* [sent, filler, main]: the exit broadcast, and who has it pending
  last_blockheight, confirmed,  \* what DataCache knows
  sends       \* transactions broadcast so far

connVars == <<channel, lagged, heap, permit, filler, main, inflight, exit,
          last_blockheight, confirmed, sends>>
envVars == <<last_blockheight, confirmed, sends>>

ConnInit ==
  /\ channel = <<>> /\ lagged = FALSE
  /\ heap = EmptyHeap /\ permit = FALSE
  /\ filler = [pc |-> "unborn", tx |-> NoTx, height |-> 0]
  /\ main = [pc |-> "start", tx |-> NoTx]
  /\ inflight = 0
  /\ exit = [sent |-> FALSE, filler |-> FALSE, main |-> FALSE]
  /\ last_blockheight = 0 /\ confirmed = {} /\ sends = 0

\* DataCache::check_if_confirmed_or_expired_blockheight
IsExpired(s) == last_blockheight > Lvbh[s]
ConfirmedOrExpired(s) == IsExpired(s) \/ s \in confirmed

-----------------------------------------------------------------------------
\* The surroundings: TpuService broadcasts (the receiver's oldest message is
\* overwritten when it is full), blocks arrive, statuses come and go, and
\* update_connections sends the exit once.
Broadcast(s) ==
  /\ sends < MaxSends
  /\ sends' = sends + 1
  /\ IF Len(channel) < ChannelSize
     THEN channel' = Append(channel, s) /\ UNCHANGED lagged
     ELSE channel' = Append(Tail(channel), s) /\ lagged' = TRUE
  /\ UNCHANGED <<heap, permit, filler, main, inflight, exit,
                 last_blockheight, confirmed>>

NewBlock ==
  /\ last_blockheight < MaxHeight
  /\ last_blockheight' = last_blockheight + 1
  /\ UNCHANGED <<channel, lagged, heap, permit, filler, main, inflight,
                 exit, confirmed, sends>>

StatusChange(s) ==
  /\ confirmed' = IF s \in confirmed THEN confirmed \ {s} ELSE confirmed \cup {s}
  /\ UNCHANGED <<channel, lagged, heap, permit, filler, main, inflight,
                 exit, last_blockheight, sends>>

SendExit ==
  /\ ~exit.sent
  /\ exit' = [sent |-> TRUE,
              filler |-> filler.pc # "unborn",
              main |-> main.pc \notin {"start", "connect"}]
  /\ UNCHANGED <<channel, lagged, heap, permit, filler, main, inflight,
                 envVars>>

-----------------------------------------------------------------------------
\* The heap filler task.

\* the spawned task starts with the height it compares later ones with
FillerStart ==
  /\ filler.pc = "spawned"
  /\ filler' = [filler EXCEPT !.pc = "recv", !.height = last_blockheight]
  /\ UNCHANGED <<channel, lagged, heap, permit, main, inflight, exit,
                 envVars>>

FillerReceive ==
  /\ filler.pc = "recv" /\ ~lagged /\ channel # <<>>
  /\ channel' = Tail(channel)
  /\ filler' = IF ConfirmedOrExpired(Head(channel)) THEN filler
               ELSE [filler EXCEPT !.pc = "insert", !.tx = Head(channel)]
  /\ UNCHANGED <<lagged, heap, permit, main, inflight, exit, envVars>>

\* recv returned Lagged: wait a little, go on with what is still there
FillerLagged ==
  /\ filler.pc = "recv" /\ lagged
  /\ lagged' = FALSE
  /\ UNCHANGED <<channel, heap, permit, filler, main, inflight, exit,
                 envVars>>

FillerInsert ==
  /\ filler.pc = "insert"
  /\ heap' = Insert(heap, filler.tx)
  /\ filler' = [filler EXCEPT !.pc = "notify", !.tx = NoTx]
  /\ UNCHANGED <<channel, lagged, permit, main, inflight, exit, envVars>>

\* (faulty: notify_waiters, which stores no permit)
FillerNotifyWaiters ==
  /\ filler.pc = "notify"
  /\ permit' = (permit \/ main.pc = "wait")
  /\ filler' = [filler EXCEPT
       !.pc = IF last_blockheight # filler.height THEN "expire" ELSE "recv",
       !.height = last_blockheight]
  /\ UNCHANGED <<channel, lagged, heap, main, inflight, exit, envVars>>

\* notify_one, and look whether the block height moved
FillerNotify ==
  /\ filler.pc = "notify"
  /\ permit' = TRUE
  /\ filler' = [filler EXCEPT
       !.pc = IF last_blockheight # filler.height THEN "expire" ELSE "recv",
       !.height = last_blockheight]
  /\ UNCHANGED <<channel, lagged, heap, main, inflight, exit, envVars>>

FillerExpire ==
  /\ filler.pc = "expire"
  /\ heap' = RemoveExpired(heap, filler.height)
  /\ filler' = [filler EXCEPT !.pc = "recv"]
  /\ UNCHANGED <<channel, lagged, permit, main, inflight, exit, envVars>>

\* (faulty: the exit is only looked at when a transaction has come)
FillerExitAfterRecv ==
  /\ filler.pc = "recv" /\ exit.filler /\ channel # <<>>
  /\ filler' = [filler EXCEPT !.pc = "done"]
  /\ UNCHANGED <<channel, lagged, heap, permit, main, inflight, exit,
                 envVars>>

FillerExit ==
  /\ filler.pc = "recv" /\ exit.filler
  /\ filler' = [filler EXCEPT !.pc = "done"]
  /\ UNCHANGED <<channel, lagged, heap, permit, main, inflight, exit,
                 envVars>>

-----------------------------------------------------------------------------
\* The main loop.

\* listen spawns the filler, which subscribes to the exit broadcast
MainStart ==
  /\ main.pc = "start"
  /\ main' = [main EXCEPT !.pc = "connect"]
  /\ filler' = [filler EXCEPT !.pc = "spawned"]
  /\ UNCHANGED <<channel, lagged, heap, permit, inflight, exit, envVars>>

\* the first connection; only then does the main loop subscribe
MainConnect ==
  /\ main.pc = "connect" /\ inflight < Permits
  /\ inflight' = inflight + 1
  /\ main' = [main EXCEPT !.pc = "wait"]
  /\ UNCHANGED <<channel, lagged, heap, permit, filler, exit, envVars>>

MainWake ==
  /\ main.pc = "wait" /\ permit
  /\ permit' = FALSE
  /\ main' = [main EXCEPT !.pc = "pop"]
  /\ UNCHANGED <<channel, lagged, heap, filler, inflight, exit, envVars>>

\* (faulty: back to waiting after a transaction that was confirmed meanwhile)
MainPopOnce ==
  /\ main.pc = "pop"
  /\ IF IsEmptyHeap(heap)
     THEN /\ main' = [main EXCEPT !.pc = "wait"]
          /\ UNCHANGED heap
     ELSE /\ heap' = Pop(heap)
          /\ main' = IF PopElement(heap) \in confirmed
                     THEN [main EXCEPT !.pc = "wait"]
                     ELSE [pc |-> "acquire", tx |-> PopElement(heap)]
  /\ UNCHANGED <<channel, lagged, permit, filler, inflight, exit, envVars>>

MainPop ==
  /\ main.pc = "pop"
  /\ IF IsEmptyHeap(heap)
     THEN /\ main' = [main EXCEPT !.pc = "wait"]
          /\ UNCHANGED heap
     ELSE /\ heap' = Pop(heap)
          /\ main' = IF PopElement(heap) \in confirmed THEN main
                     ELSE [pc |-> "acquire", tx |-> PopElement(heap)]
  /\ UNCHANGED <<channel, lagged, permit, filler, inflight, exit, envVars>>

\* get_pooled_connection waits for a permit; the send task takes it along
MainSend ==
  /\ main.pc = "acquire" /\ inflight < Permits
  /\ inflight' = inflight + 1
  /\ main' = [pc |-> "pop", tx |-> NoTx]
  /\ UNCHANGED <<channel, lagged, heap, permit, filler, exit, envVars>>

SendTaskDone ==
  /\ inflight > 0
  /\ inflight' = inflight - 1
  /\ UNCHANGED <<channel, lagged, heap, permit, filler, main, exit, envVars>>

MainExit ==
  /\ main.pc = "wait" /\ exit.main
  /\ main' = [main EXCEPT !.pc = "join"]
  /\ UNCHANGED <<channel, lagged, heap, permit, filler, inflight, exit,
                 envVars>>

\* heap_filler_task.await, then the heap is emptied and the pool closed
MainJoin ==
  /\ main.pc = "join" /\ filler.pc = "done"
  /\ heap' = EmptyHeap
  /\ main' = [main EXCEPT !.pc = "done"]
  /\ UNCHANGED <<channel, lagged, permit, filler, inflight, exit, envVars>>

-----------------------------------------------------------------------------
Environment ==
  \/ \E s \in Sig : Broadcast(s) \/ StatusChange(s)
  \/ NewBlock
  \/ SendExit

Filler ==
  \/ FillerStart \/ FillerReceive \/ FillerLagged \/ FillerInsert
  \/ FillerNotify \/ FillerExpire \/ FillerExit

Main ==
  \/ MainStart \/ MainConnect \/ MainWake \/ MainPop \/ MainSend
  \/ MainExit \/ MainJoin

ConnNext == Environment \/ Filler \/ Main \/ SendTaskDone

ConnSpec == ConnInit /\ [][ConnNext]_connVars

\* The tasks are scheduled and sends end (they have timeouts).  Nothing is assumed of the
\* surroundings; as MaxSends bounds what is broadcast, nothing needs to be assumed either of
\* which ready branch the select of the filler or of the main loop takes.
ConnFairness ==
  WF_connVars(Filler) /\ WF_connVars(Main) /\ WF_connVars(SendTaskDone)

ConnFairSpec == ConnSpec /\ ConnFairness

-----------------------------------------------------------------------------
\* No lost wake-up between insert/notify_one and pop/notified: the main loop
\* never sleeps on a heap with transactions in it unless a wake-up is stored or
\* the filler is about to give one.
NoLostWakeup ==
  ~IsEmptyHeap(heap) /\ main.pc = "wait" => permit \/ filler.pc = "notify"

\* Whatever is put into the heap leaves it: once no more transactions come in it is
\* drained, however sends, wake-ups, expiry, confirmations and the exit interleave.
HeapDrains == ~IsEmptyHeap(heap) ~> IsEmptyHeap(heap)

\* The main loop waits for the filler when it stops, and never in vain: the
\* filler had subscribed to the exit before it, so it got the same exit.
ShutdownCompletes == main.pc = "join" ~> main.pc = "done"

\* "remove connections which are no longer needed" (tpu_connection_manager.rs):
\* a listener that was told to exit ends.
ExitEndsListener == exit.sent ~> main.pc = "done"
=============================================================================
