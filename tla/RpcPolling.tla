----------------------------- MODULE RpcPolling ------------------------------
(* How lite-rpc follows the cluster (cluster-endpoints/src): slots, polled by RPC or
   multiplexed from geyser, become slot notifications; these drive the polling of blocks
   (poll_blocks.rs) and the TPU service, which keeps connections to the leaders of the coming
   slots (tpu_service.rs, json_rpc_leaders_getter.rs).  A task that fails ends the process. *)
EXTENDS Naturals, FiniteSets, SequencesExt

CONSTANTS
  MaxSlot,                    \* bound: slots of the node
  Worker,                     \* num_parallel_tasks
  MaxAhead,                   \* how far the estimated slot may be ahead (32)
  MaxAge,                     \* slots after which a block is not fetched any more (128)
  SlotChannel,                \* capacity of the broadcast channel of slots
  Geyser,                     \* grpc sources
  Fanout, Behind,             \* leaders of Behind slots before (4) and Fanout slots after
  ClusterNodes,               \* nodes with an address that the RPC may return, by their slot
  LeadersToCache, OldLeaders  \* what JsonRpcLeaderGetter is made with (1024, 128)

ASSUME PollingAssumption ==
  /\ {MaxSlot, SlotChannel} \subseteq Nat \ {0}
  /\ {MaxAhead, MaxAge, Fanout, Behind, OldLeaders} \subseteq Nat
  /\ Fanout + Behind + MaxAhead < LeadersToCache

VARIABLES
  source, consumer,           \* "rpc" or "grpc"; "blocks" or "tpu": what is looked at
  alive,                      \* FALSE once a task has ended with an error
  chain, available,           \* the node: its slot, the blocks it can return
  poller, updates,            \* poll_commitment_slots: its last slot, and its channel
  view, last_slot,            \* geyser sources, and the multiplexer
  clock,                      \* last notification: current and estimated slot
  inbox, lagged,              \* notifications not received yet
  recent_slot, scheduled, retries, worker,   \* poll_block
  emitted,                    \* blocks sent, counted
  leader_schedule, contacts, kept            \* the TPU service

envVars == <<source, consumer>>
slotVars == <<poller, updates, view, last_slot, clock>>
blockVars == <<recent_slot, scheduled, retries, worker, emitted>>
tpuVars == <<leader_schedule, contacts, kept>>
pollingVars == <<envVars, alive, chain, available, slotVars, inbox, lagged, blockVars, tpuVars>>

PolledLevel == {"confirmed", "finalized"}
Item == (0 .. MaxSlot + MaxAhead) \X PolledLevel
Idle == <<"idle">>

PollingInit ==
  /\ source \in {"rpc", "grpc"} /\ consumer \in IF source = "rpc" THEN {"blocks", "tpu"} ELSE {"tpu"}
  /\ alive = TRUE
  /\ chain = 1 /\ available = {}
  /\ poller = 0 /\ updates = <<>>
  /\ view = [g \in Geyser |-> 0] /\ last_slot = 0
  /\ clock = IF source = "rpc" THEN [current |-> 1, estimated |-> 1] ELSE [current |-> 0, estimated |-> 0]
  /\ inbox = <<>> /\ lagged = FALSE
  /\ recent_slot = 1 /\ scheduled = <<>> /\ retries = <<>>
  /\ worker = [w \in Worker |-> Idle] /\ emitted = [i \in Item |-> 0]
  /\ leader_schedule = <<>> /\ contacts = {} /\ kept = {}

\* external: the node's bank moves on; a block can be fetched at a level (followed as long as
\* something of this process depends on it)
NodeMoves ==
  /\ alive /\ chain < MaxSlot /\ chain' = chain + 1
  /\ UNCHANGED <<envVars, alive, available, slotVars, inbox, lagged, blockVars, tpuVars>>
BlockAvailable(slot, level) ==
  /\ alive /\ consumer = "blocks" /\ slot \in 1 .. chain /\ <<slot, level>> \notin available
  /\ level = "finalized" => <<slot, "confirmed">> \in available
  /\ available' = available \cup {<<slot, level>>}
  /\ UNCHANGED <<envVars, alive, chain, slotVars, inbox, lagged, blockVars, tpuVars>>

\* start_lite_rpc: the first task that fails ends the process
Exit == alive' = FALSE /\ UNCHANGED <<slotVars, inbox, lagged, blockVars, tpuVars>>

\* A slot notification is broadcast; a receiver that is too slow loses the oldest one.
Notify(c) ==
  /\ clock' = c
  /\ inbox' = IF Len(inbox) < SlotChannel THEN Append(inbox, c) ELSE Append(Tail(inbox), c)
  /\ lagged' = (lagged \/ Len(inbox) >= SlotChannel)
-----------------------------------------------------------------------------
\* poll_commitment_slots
PollSlot ==
  /\ alive /\ source = "rpc"
  /\ poller' = chain
  /\ updates' = IF chain > poller THEN Append(updates, chain) ELSE updates
  /\ UNCHANGED <<envVars, alive, chain, available, view, last_slot, clock, inbox, lagged, blockVars, tpuVars>>
\* The poll failed too often in a row (a failure before that changes nothing)
PollError ==
  /\ alive /\ source = "rpc" /\ Exit
  /\ UNCHANGED <<envVars, chain, available>>

\* (faulty: the estimate follows the slot downwards)
EstimateFollows(slot) == slot

\* The estimate once a new slot is known
Estimate(slot) == IF slot > clock.estimated THEN slot ELSE clock.estimated

\* poll_slots: a slot of the poller
SlotUpdate ==
  /\ alive /\ updates # <<>>
  /\ updates' = Tail(updates)
  /\ IF Head(updates) > clock.current
     THEN Notify([current |-> Head(updates), estimated |-> Estimate(Head(updates))])
     ELSE UNCHANGED <<clock, inbox, lagged>>
  /\ UNCHANGED <<envVars, alive, chain, available, poller, view, last_slot, blockVars, tpuVars>>

\* poll_slots: no slot for a slot's time
SlotTimeout ==
  /\ alive /\ source = "rpc" /\ updates = <<>>
  /\ clock.estimated < clock.current + MaxAhead
  /\ Notify([clock EXCEPT !.estimated = @ + 1])
  /\ UNCHANGED <<envVars, alive, chain, available, poller, updates, view, last_slot, blockVars, tpuVars>>

\* create_grpc_multiplex_processed_slots_subscription: a slot of a geyser source
GeyserSlot(g) ==
  /\ alive /\ source = "grpc" /\ view[g] < chain
  /\ view' = [view EXCEPT ![g] = @ + 1]
  /\ IF last_slot > view[g] + 1
     THEN UNCHANGED <<last_slot, clock, inbox, lagged>>
     ELSE /\ last_slot' = view[g] + 1
          /\ Notify([current |-> view[g] + 1, estimated |-> view[g] + 1])
  /\ UNCHANGED <<envVars, alive, chain, available, poller, updates, blockVars, tpuVars>>

\* No slot for a long time, or all sources ended
GeyserReconnect ==
  /\ alive /\ source = "grpc" /\ last_slot > 0
  /\ last_slot' = 0
  /\ UNCHANGED <<envVars, alive, chain, available, poller, updates, view, clock, inbox, lagged, blockVars, tpuVars>>
-----------------------------------------------------------------------------
\* A consumer whose receiver lagged gets an error, and ends.
SlotReceiverLagged ==
  /\ alive /\ lagged /\ Exit
  /\ UNCHANGED <<envVars, chain, available>>

\* (faulty: begins with the last slot again)
SlotsToFetchFromLast(estimated) == [i \in 1 .. estimated - recent_slot + 1 |-> recent_slot + i - 1]

\* The slots that a notification adds
SlotsToFetch(estimated) == [i \in 1 .. estimated - recent_slot |-> recent_slot + i]

\* poll_block, the slot poller
ScheduleBlocks ==
  /\ alive /\ consumer = "blocks" /\ inbox # <<>> /\ ~lagged
  /\ inbox' = Tail(inbox)
  /\ LET estimated == Head(inbox).estimated
         slots == SlotsToFetch(estimated)
     IN  IF recent_slot < estimated
         THEN /\ recent_slot' = estimated
              /\ scheduled' = scheduled \o [i \in DOMAIN slots |-> <<slots[i], "confirmed">>]
         ELSE UNCHANGED <<recent_slot, scheduled>>
  /\ UNCHANGED <<envVars, alive, chain, available, slotVars, lagged, retries, worker, emitted, tpuVars>>

TakeBlock(w) ==
  /\ alive /\ worker[w] = Idle /\ scheduled # <<>>
  /\ worker' = [worker EXCEPT ![w] = Head(scheduled)]
  /\ scheduled' = Tail(scheduled)
  /\ UNCHANGED <<envVars, alive, chain, available, slotVars, inbox, lagged, recent_slot, retries, emitted, tpuVars>>

\* process_block returned the block: it is sent, and its finalized version fetched later
BlockFetched(w) ==
  /\ alive /\ worker[w] \in available
  /\ emitted' = [emitted EXCEPT ![worker[w]] = @ + 1]
  /\ retries' = IF worker[w][2] = "confirmed" THEN Append(retries, <<worker[w][1], "finalized">>) ELSE retries
  /\ worker' = [worker EXCEPT ![w] = Idle]
  /\ UNCHANGED <<envVars, alive, chain, available, slotVars, inbox, lagged, recent_slot, scheduled, tpuVars>>

\* (faulty: gives up)
RetriesDropped(item) == retries

\* A block that could not be fetched is tried again
Retries(item) == Append(retries, item)

BlockMissing(w) ==
  /\ alive /\ worker[w] # Idle
  /\ retries' = Retries(worker[w])
  /\ worker' = [worker EXCEPT ![w] = Idle]
  /\ UNCHANGED <<envVars, alive, chain, available, slotVars, inbox, lagged, recent_slot, scheduled, emitted, tpuVars>>

TooOld(slot) == recent_slot > slot + MaxAge

\* The replay task
Replay ==
  /\ alive /\ retries # <<>>
  /\ retries' = Tail(retries)
  /\ scheduled' = IF TooOld(Head(retries)[1]) THEN scheduled ELSE Append(scheduled, Head(retries))
  /\ UNCHANGED <<envVars, alive, chain, available, slotVars, inbox, lagged, recent_slot, worker, emitted, tpuVars>>
-----------------------------------------------------------------------------
\* The leader of a slot, as the node tells; every slot has its own here
LeaderAt(slot) == <<"leader of", slot>>

\* poll_cluster_info and load_cluster_info: nodes are added, never removed
ClusterInfo(nodes) ==
  /\ alive /\ consumer = "tpu"
  /\ contacts' = contacts \cup {LeaderAt(slot) : slot \in nodes}
  /\ UNCHANGED <<envVars, alive, chain, available, slotVars, inbox, lagged, blockVars, leader_schedule, kept>>

Minus(a, b) == IF a > b THEN a - b ELSE 0

\* update_leader_schedule: drop what is old, fetch what is missing behind the rest.
\* get_slot_leaders of the RPC gives the leaders from the first slot on.
WithoutOld(slot) == SelectSeq(leader_schedule, LAMBDA l : l.leader_slot >= Minus(slot, OldLeaders))

FirstToFetch(queue, slot) == IF queue = <<>> THEN slot ELSE Last(queue).leader_slot + 1

UpdatedSchedule(slot) ==
  LET queue == WithoutOld(slot)
      first == FirstToFetch(queue, slot)
  IN  queue \o [i \in 1 .. Minus(slot + LeadersToCache, first) |->
                  [leader_slot |-> first + i - 1, pubkey |-> LeaderAt(first + i - 1)]]


\* get_slot_leaders: is the cache good enough
Cached(from, to) ==
  leader_schedule # <<>> /\ Head(leader_schedule).leader_slot <= from /\ Last(leader_schedule).leader_slot >= to

Leaders(schedule, from, to) ==
  {schedule[i].pubkey : i \in {j \in DOMAIN schedule : schedule[j].leader_slot \in from .. to}}

\* update_quic_connections, which replaces the connections to keep; only leaders with a known
\* TPU address are kept
UpdateConnections ==
  /\ alive /\ consumer = "tpu" /\ inbox # <<>> /\ ~lagged
  /\ LET from == Minus(Head(inbox).current, Behind)
         to == Head(inbox).estimated + Fanout
     IN  /\ leader_schedule' = IF Cached(from, to) THEN leader_schedule ELSE UpdatedSchedule(from)
         /\ kept' = Leaders(leader_schedule', from, to) \cap contacts
  /\ inbox' = Tail(inbox)
  /\ UNCHANGED <<envVars, alive, chain, available, slotVars, lagged, blockVars, contacts>>

\* The RPC fails to give the leaders
LeadersError ==
  /\ alive /\ consumer = "tpu" /\ inbox # <<>> /\ ~lagged
  /\ ~Cached(Minus(Head(inbox).current, Behind), Head(inbox).estimated + Fanout)
  /\ Exit
  /\ UNCHANGED <<envVars, chain, available>>
-----------------------------------------------------------------------------
PollingNext ==
  \/ NodeMoves \/ \E slot \in 1 .. MaxSlot, level \in PolledLevel : BlockAvailable(slot, level)
  \/ PollSlot \/ PollError \/ SlotUpdate \/ SlotTimeout
  \/ \E g \in Geyser : GeyserSlot(g)
  \/ GeyserReconnect
  \/ SlotReceiverLagged \/ ScheduleBlocks \/ Replay
  \/ \E w \in Worker : TakeBlock(w) \/ BlockFetched(w) \/ BlockMissing(w)
  \/ \E nodes \in ClusterNodes : ClusterInfo(nodes)
  \/ UpdateConnections \/ LeadersError

\* tokio runs the tasks of poll_block; a node that is asked for blocks it has
\* does not fail for ever to return one
PollingFairness ==
  /\ WF_pollingVars(ScheduleBlocks) /\ WF_pollingVars(Replay)
  /\ \A w \in Worker : WF_pollingVars(TakeBlock(w)) /\ WF_pollingVars(BlockMissing(w))
  /\ SF_pollingVars(\E w \in Worker : BlockFetched(w))

PollingSpec == PollingInit /\ [][PollingNext]_pollingVars /\ PollingFairness
-----------------------------------------------------------------------------
\* The slots that are told to the services never go back, nor does the estimate, which stays within
\* reach of the known slot: only a reconnect of the geyser streams forgets the slot.
SlotsOnlyGrow ==
  [][ /\ last_slot # 0 \/ source = "rpc" =>
           clock'.current >= clock.current /\ clock'.estimated >= clock.estimated
      /\ clock'.estimated \in clock'.current .. clock'.current + MaxAhead ]_clock

PolledFeed == INSTANCE BlockFeed WITH
  FeedSlot <- 0 .. MaxSlot + MaxAhead, FeedLevel <- PolledLevel, FirstLevel <- "confirmed", Reconnects <- FALSE,
  delivered <- [slot \in 0 .. MaxSlot + MaxAhead |-> [level \in PolledLevel |-> emitted[<<slot, level>>]]]

\* Polling implements the feed of blocks: whatever the workers, the replays and the notifications
\* do, a block is sent once at each level, and as finalized only after it was sent as confirmed.
PollsLikeAFeed == PolledFeed!FeedSpec

\* A block that the node can return as finalized is sent as finalized, however often it was
\* missing before, unless the slots went on too far (or the process ended).
EveryBlockFinalized ==
  \A slot \in 2 .. MaxSlot :
    (recent_slot >= slot /\ <<slot, "finalized">> \in available)
      ~> (emitted[<<slot, "finalized">>] > 0 \/ TooOld(slot) \/ ~alive)

=============================================================================
