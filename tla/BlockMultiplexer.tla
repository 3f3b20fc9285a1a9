-------------------------- MODULE BlockMultiplexer --------------------------
(***************************************************************************)
(* create_grpc_multiplex_blocks_subscription                               *)
(* (cluster-endpoints/src/grpc_multiplex.rs): the block emitter task joins *)
(* the stream of full processed blocks with the three streams of block     *)
(* infos, emits each full block again when it is confirmed and finalized,  *)
(* and restarts everything when a stream has been silent for too long.     *)
(* Blocks are named by their slots.  The exit message of a restart is only *)
(* read by a task that waits for its source, not by one that is sending.   *)
(***************************************************************************)
EXTENDS ProcessedBlockMerge, Sequences

CONSTANTS
  BlockCapacity,  \* capacity of processed_block_sender (10)
  InfoCapacity,   \* capacity of the block_info_senders (500)
  MaxIdleTicks,   \* MAX_ALLOWED_CLEANUP_WITHOUT_RECV (12)
  CleanupSlots    \* CLEANUP_SLOTS_BEHIND_FINALIZED (100)

ASSUME MultiplexerAssumption ==
  /\ BlockCapacity \in Nat \ {0}
  /\ InfoCapacity \in Nat \ {0}
  /\ MaxIdleTicks \in Nat
  /\ CleanupSlots \in Nat

Processed == "processed"
Confirmed == "confirmed"
Finalized == "finalized"
Level == {Processed, Confirmed, Finalized}

VARIABLES
  block_chan,   \* full blocks on their way to the emitter
  info,         \* info[l]: [tip, sending, chan] of the block info task of level l
  ended,        \* tasks that have ended: "merge" and levels
  exit,         \* the exit message was sent
  emitter,      \* "recv" or "restart"
  recent_processed_blocks,
  not_yet_processed,  \* {confirmed,finalized}_block_not_yet_processed, by level
  startup_completed,
  last_finalized_slot,
  idle,         \* cleanup_without_..., by stream: Processed stands for full blocks
  emitted,      \* history: emitted[s][l]: times block s was emitted at level l
  known         \* history: known[l]: infos the emitter handled and may not forget

emitVars == <<recent_processed_blocks, not_yet_processed, startup_completed,
              last_finalized_slot, emitted, known>>
vars == <<mergeVars, block_chan, info, ended, exit, emitter, emitVars, idle>>

\* One round of the outer loop: new channels, new tasks, empty caches.
Fresh ==
  [info |-> [l \in Level |-> [tip |-> 0, sending |-> NoSlot, chan |-> <<>>]],
   pending |-> [l \in {Confirmed, Finalized} |-> {}],
   idle |-> [l \in Level |-> 0],
   emitted |-> [s \in Slot |-> [l \in Level |-> 0]]]

Init ==
  /\ MergeInit
  /\ block_chan = <<>> /\ info = Fresh.info
  /\ ended = {} /\ exit = FALSE /\ emitter = "recv"
  /\ recent_processed_blocks = {} /\ not_yet_processed = Fresh.pending
  /\ startup_completed = FALSE /\ last_finalized_slot = 0
  /\ idle = Fresh.idle
  /\ emitted = Fresh.emitted /\ known = Fresh.pending

-----------------------------------------------------------------------------
(* The merging tasks.                                                       *)

MergeTask ==
  /\ "merge" \notin ended
  /\ \/ \E slot \in Slot : MergeReceive(slot) /\ UNCHANGED block_chan
     \/ /\ Len(block_chan) < BlockCapacity
        /\ block_chan' = Append(block_chan, sending)
        /\ MergeSent
  /\ UNCHANGED <<info, ended, exit, emitter, emitVars, idle>>

\* (faulty: an info of the tip passes again)
InfoReceiveAgain(l, slot) ==
  /\ l \notin ended
  /\ info[l].sending = NoSlot
  /\ slot >= info[l].tip
  /\ info' = [info EXCEPT ![l].tip = slot, ![l].sending = slot]
  /\ UNCHANGED <<mergeVars, block_chan, ended, exit, emitter, emitVars, idle>>

\* An info passes if its slot is beyond the tip, which moves at once.
InfoReceive(l, slot) ==
  /\ l \notin ended
  /\ info[l].sending = NoSlot
  /\ slot > info[l].tip
  /\ info' = [info EXCEPT ![l].tip = slot, ![l].sending = slot]
  /\ UNCHANGED <<mergeVars, block_chan, ended, exit, emitter, emitVars, idle>>

InfoSent(l) ==
  /\ info[l].sending # NoSlot
  /\ Len(info[l].chan) < InfoCapacity
  /\ info' = [info EXCEPT ![l].chan = Append(@, info[l].sending), ![l].sending = NoSlot]
  /\ UNCHANGED <<mergeVars, block_chan, ended, exit, emitter, emitVars, idle>>

\* select! { recv, exit_notify.recv() }: the exit arm.
TaskExit(task) ==
  /\ exit
  /\ task \notin ended
  /\ IF task = "merge" THEN sending = NoSlot ELSE info[task].sending = NoSlot
  /\ ended' = ended \cup {task}
  /\ UNCHANGED <<mergeVars, block_chan, info, exit, emitter, emitVars, idle>>

-----------------------------------------------------------------------------
(* The emitter.                                                             *)

Emit(s, levels) ==
  emitted' = [emitted EXCEPT ![s] = [l \in Level |-> @[l] + (IF l \in levels THEN 1 ELSE 0)]]

\* (faulty: the backlogs are not looked at)
ProcessedBlockOnly ==
  /\ emitter = "recv"
  /\ block_chan # <<>>
  /\ Emit(Head(block_chan), {Processed})
  /\ recent_processed_blocks' = recent_processed_blocks \cup {Head(block_chan)}
  /\ block_chan' = Tail(block_chan)
  /\ idle' = [idle EXCEPT ![Processed] = 0]
  /\ UNCHANGED <<mergeVars, info, ended, exit, emitter, not_yet_processed,
                 startup_completed, last_finalized_slot, known>>

\* A full block: emitted as processed, and again for every info that came first.
ProcessedBlock ==
  /\ emitter = "recv"
  /\ block_chan # <<>>
  /\ LET s == Head(block_chan)
         late == {l \in {Confirmed, Finalized} : s \in not_yet_processed[l]}
     IN /\ Emit(s, {Processed} \cup late)
        /\ not_yet_processed' = [l \in {Confirmed, Finalized} |-> not_yet_processed[l] \ {s}]
        /\ recent_processed_blocks' = recent_processed_blocks \cup {s}
  /\ block_chan' = Tail(block_chan)
  /\ idle' = [idle EXCEPT ![Processed] = 0]
  /\ UNCHANGED <<mergeVars, info, ended, exit, emitter, startup_completed,
                 last_finalized_slot, known>>

TakeInfo(l) ==
  /\ emitter = "recv"
  /\ info[l].chan # <<>>
  /\ info' = [info EXCEPT ![l].chan = Tail(@)]

\* A processed info is only passed on to the block info stream.
ProcessedInfo ==
  /\ TakeInfo(Processed)
  /\ UNCHANGED <<mergeVars, block_chan, ended, exit, emitter, emitVars, idle>>

ConfirmedInfo ==
  /\ TakeInfo(Confirmed)
  /\ LET s == Head(info[Confirmed].chan) IN
       /\ IF s \in recent_processed_blocks
          THEN Emit(s, {Confirmed}) /\ UNCHANGED not_yet_processed
          ELSE /\ not_yet_processed' = [not_yet_processed EXCEPT ![Confirmed] = @ \cup {s}]
               /\ UNCHANGED emitted
       /\ known' = [known EXCEPT ![Confirmed] = @ \cup {s}]
  /\ idle' = [idle EXCEPT ![Confirmed] = 0]
  /\ UNCHANGED <<mergeVars, block_chan, ended, exit, emitter, recent_processed_blocks,
                 startup_completed, last_finalized_slot>>

\* The block leaves the cache when it is finalized.  An info without its block
\* is kept only once a first finalized block has been emitted.
FinalizedInfo ==
  /\ TakeInfo(Finalized)
  /\ LET s == Head(info[Finalized].chan) IN
       /\ last_finalized_slot' = IF s > last_finalized_slot THEN s ELSE last_finalized_slot
       /\ IF s \in recent_processed_blocks
          THEN /\ Emit(s, {Finalized})
               /\ recent_processed_blocks' = recent_processed_blocks \ {s}
               /\ startup_completed' = TRUE
               /\ UNCHANGED <<not_yet_processed, known>>
          ELSE /\ LET kept == IF startup_completed THEN {s} ELSE {}
                  IN  /\ not_yet_processed' =
                           [not_yet_processed EXCEPT ![Finalized] = @ \cup kept]
                      /\ known' = [known EXCEPT ![Finalized] = @ \cup kept]
               /\ UNCHANGED <<emitted, recent_processed_blocks, startup_completed>>
  /\ idle' = [idle EXCEPT ![Finalized] = 0]
  /\ UNCHANGED <<mergeVars, block_chan, ended, exit, emitter>>

\* block.slot > last_finalized_slot.saturating_sub(CLEANUP_SLOTS_BEHIND_FINALIZED)
Recent(s) ==
  \/ last_finalized_slot = 0
  \/ s + CleanupSlots > last_finalized_slot /\ s > 0

\* (faulty: the silence is counted, but the restart is forgotten)
CleanupTickOnly ==
  /\ emitter = "recv"
  /\ idle' = [l \in Level |-> IF idle[l] <= MaxIdleTicks THEN idle[l] + 1 ELSE idle[l]]
  /\ recent_processed_blocks' = {s \in recent_processed_blocks : Recent(s)}
  /\ UNCHANGED <<mergeVars, block_chan, info, ended, exit, emitter, not_yet_processed,
                 startup_completed, last_finalized_slot, emitted, known>>

\* cleanup_tick: leave the loop and send the exit message, or clean up.
CleanupTick ==
  /\ emitter = "recv"
  /\ IF \E l \in Level : idle[l] > MaxIdleTicks
     THEN /\ emitter' = "restart"
          /\ exit' = TRUE
          /\ UNCHANGED <<idle, recent_processed_blocks>>
     ELSE /\ idle' = [l \in Level |-> idle[l] + 1]
          /\ recent_processed_blocks' = {s \in recent_processed_blocks : Recent(s)}
          /\ UNCHANGED <<emitter, exit>>
  /\ UNCHANGED <<mergeVars, block_chan, info, ended, not_yet_processed,
                 startup_completed, last_finalized_slot, emitted, known>>

\* join_all(task_list) returned: the next round of the outer loop.
Restart ==
  /\ emitter = "restart"
  /\ ended = Level \cup {"merge"}
  /\ slots_processed' = {} /\ sending' = NoSlot /\ sent' = {}
  /\ block_chan' = <<>> /\ info' = Fresh.info
  /\ ended' = {} /\ exit' = FALSE /\ emitter' = "recv"
  /\ recent_processed_blocks' = {} /\ not_yet_processed' = Fresh.pending
  /\ startup_completed' = FALSE /\ last_finalized_slot' = 0
  /\ idle' = Fresh.idle
  /\ emitted' = Fresh.emitted /\ known' = Fresh.pending

Tasks ==
  \/ MergeTask
  \/ \E l \in Level : InfoSent(l) \/ \E slot \in Slot : InfoReceive(l, slot)
  \/ \E task \in Level \cup {"merge"} : TaskExit(task)

Next ==
  \/ Tasks \/ ProcessedBlock \/ ProcessedInfo \/ ConfirmedInfo \/ FinalizedInfo
  \/ CleanupTick \/ Restart

Spec == Init /\ [][Next]_vars

\* The tasks run and the clean-up timer ticks.  The sources need not send anything.
Fairness ==
  /\ WF_vars(MergeTask /\ MergeSent)
  /\ \A l \in Level : WF_vars(InfoSent(l))
  /\ WF_vars(ProcessedBlock) /\ WF_vars(ProcessedInfo)
  /\ WF_vars(ConfirmedInfo) /\ WF_vars(FinalizedInfo)
  /\ WF_vars(CleanupTick) /\ WF_vars(Restart)

\* A select! takes each of its ready arms again and again.
ExitFairness == \A task \in Level \cup {"merge"} : SF_vars(TaskExit(task))

FairSpec == Spec /\ Fairness /\ ExitFairness
-----------------------------------------------------------------------------
MultiplexedFeed == INSTANCE BlockFeed WITH
  FeedSlot <- Slot, FeedLevel <- Level, FirstLevel <- Processed, Reconnects <- TRUE, delivered <- emitted

\* The emitter implements the feed of blocks: between two restarts a block is emitted at most
\* once at each level, and as processed first or at the same time, whatever the sources repeat
\* and in whatever order the four streams are read (slots_processed, the tips and the two
\* backlogs together).
EmitsLikeAFeed == MultiplexedFeed!FeedSpec

\* An info that overtook its block is not lost: a cached block has been
\* emitted at every level the emitter was told of.
CachedBlockCaughtUp ==
  \A s \in recent_processed_blocks, l \in {Confirmed, Finalized} :
    s \in known[l] => emitted[s][l] >= 1

\* A stream that stays silent makes the emitter leave its loop.
SilentStreamRestarts ==
  \A l \in Level : idle[l] > 0 ~> (idle[l] = 0 \/ emitter = "restart")

\* "tasks which should be cleaned up uppon reconnect" (comment on task_list):
\* a restart ends the tasks and the emitter receives again.
RestartCompletes == emitter = "restart" ~> emitter = "recv"
=============================================================================
