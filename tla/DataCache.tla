----------------------------- MODULE DataCache -----------------------------
(* The central cache (core/src/stores) and the tasks of DataCachingService
   that write it (services/src/data_caching_service.rs): the task that receives
   full blocks, the one that receives block infos, and the cleaner.  The first
   two run add_block of the BlockInformationStore concurrently and it is not
   atomic, so every access to shared memory in it is a step of its own.

   A block stands for its blockhash; its slot and height, and with them the
   last valid block height of the transactions that refer to it, never change. *)
EXTENDS Integers, Sequences, FiniteSets, Functions

CONSTANTS
  Block,                 \* blocks (by blockhash) the cluster produces
  Genesis,               \* the finalized block the store is created with
  Slot, Height,          \* slot and block height of a block
  Sig,                   \* transactions, by signature
  RecentBlockhash,       \* RecentBlockhash[s]: the block s refers to
  Txs,                   \* Txs[b]: the transactions in b, in order
  MaxRecentBlockhashes,  \* MAX_RECENT_BLOCKHASHES
  SubscribeLevel,        \* commitments clients subscribe to signatures with
  Feed,                  \* Feed[t]: the <<block, commitment>> notifications that
                         \* may arrive at task t, in any order, any number of times
  BlockTask, InfoTask    \* the two tasks that call add_block

ASSUME DataCacheAssumption ==
  /\ Genesis \in Block
  /\ Slot \in [Block -> Nat]
  /\ Height \in [Block -> Nat]
  /\ RecentBlockhash \in [Sig -> Block]
  /\ Txs \in [Block -> Seq(Sig)]
  /\ MaxRecentBlockhashes \in Nat
  /\ SubscribeLevel \subseteq 0..2
  /\ Feed \in [{BlockTask, InfoTask} -> SUBSET (Block \X (0..2))]
  /\ BlockTask # InfoTask

VARIABLES
  blocks,            \* blocks[b]: commitment b is stored with, or Absent
  last_blockheight,  \* AtomicU64
  latest_confirmed_block, latest_finalized_block,
  call,              \* call[t]: where task t is, and what it is working on
  txs,               \* TxStore: signature |-> [status, lvbh, sent_by_lite_rpc]
  subscribers,       \* SubscriptionStore: <<signature, commitment>> keys
  cleaner,           \* where DataCache::clean is, and the heights it has read
  added,             \* history: the highest commitment add_block completed
                     \* with, per block, or Absent
  final_height       \* history: the highest height latest_finalized_block had

storeVars == <<blocks, last_blockheight, latest_confirmed_block,
               latest_finalized_block, added, final_height>>
cacheVars == <<storeVars, call, txs, subscribers, cleaner>>

Task == {BlockTask, InfoTask}

Processed == 0
Confirmed == 1
Finalized == 2
Level == {Processed, Confirmed, Finalized}
Absent == -1
NoStatus == -1

\* a task between two notifications
IdleCall ==
  [pc |-> "idle", block |-> Genesis, level |-> Finalized, tx |-> 0, lvbh |-> 0]

LastValid(b) == Height[b] + MaxRecentBlockhashes

\* get_latest_block_arc: one cell for finalized, one for everything else.
Latest(level) ==
  IF level = Finalized THEN latest_finalized_block ELSE latest_confirmed_block

CacheInit ==
  /\ blocks = [b \in Block |-> IF b = Genesis THEN Finalized ELSE Absent]
  /\ last_blockheight = Height[Genesis]
  /\ latest_confirmed_block = Genesis
  /\ latest_finalized_block = Genesis
  /\ call = [t \in Task |-> IdleCall]
  /\ txs = <<>>
  /\ subscribers = {}
  /\ cleaner = [pc |-> "idle", txs_height |-> 0, blocks_height |-> 0]
  /\ added = blocks
  /\ final_height = Height[Genesis]

-----------------------------------------------------------------------------
(* add_block.  Notifications arrive in any order and any number of times: the
   streams promise no order between commitments or between blocks and block
   infos, a lagging receiver skips some and a restarted one repeats some.    *)

Goto(t, pc) == call' = [call EXCEPT ![t].pc = pc]

\* recv, then the load that add_block starts with.
LoadHeight(t, b, level) ==
  /\ call[t].pc = "idle"
  /\ call' = [call EXCEPT ![t] =
       [pc |-> IF last_blockheight < Height[b] THEN "store" ELSE "compare",
        block |-> b, level |-> level, tx |-> 0, lvbh |-> 0]]
  /\ UNCHANGED <<storeVars, txs, subscribers, cleaner>>

\* the store that follows a load which found a lower height
StoreHeight(t) ==
  /\ call[t].pc = "store"
  /\ last_blockheight' = Height[call[t].block]
  /\ Goto(t, "compare")
  /\ UNCHANGED <<blocks, latest_confirmed_block, latest_finalized_block, added,
                 final_height, txs, subscribers, cleaner>>

\* `slot > latest_block.read().await.slot`
CompareLatest(t) ==
  /\ call[t].pc = "compare"
  /\ Goto(t, IF Slot[call[t].block] > Slot[Latest(call[t].level)]
             THEN "write" ELSE "entry")
  /\ UNCHANGED <<storeVars, txs, subscribers, cleaner>>

\* `*latest_block.write().await = block_info`
WriteLatest(t) ==
  /\ call[t].pc = "write"
  /\ IF call[t].level = Finalized
     THEN /\ latest_finalized_block' = call[t].block
          /\ final_height' = IF Height[call[t].block] > final_height
                             THEN Height[call[t].block] ELSE final_height
          /\ UNCHANGED latest_confirmed_block
     ELSE /\ latest_confirmed_block' = call[t].block
          /\ UNCHANGED <<latest_finalized_block, final_height>>
  /\ Goto(t, "entry")
  /\ UNCHANGED <<blocks, last_blockheight, added, txs, subscribers, cleaner>>

\* A stored block is only replaced by one of a higher commitment.
ShouldUpdate(old, level) ==
  CASE old = Finalized -> FALSE
    [] old = Confirmed -> level = Finalized
    [] old = Processed -> level \in {Confirmed, Finalized}
    [] OTHER -> TRUE

\* The entry upsert that ends add_block.  The block task goes on with the
\* transactions of the block, the other one with its next notification.
UpsertBlock(t) ==
  LET b == call[t].block
      level == call[t].level
  IN  /\ call[t].pc = "entry"
      /\ blocks' = IF ShouldUpdate(blocks[b], level)
                   THEN [blocks EXCEPT ![b] = level] ELSE blocks
      /\ added' = [added EXCEPT ![b] = IF level > @ THEN level ELSE @]
      /\ call' = IF t = BlockTask /\ Txs[b] # <<>>
                 THEN [call EXCEPT ![t].pc = "lookup", ![t].tx = 1]
                 ELSE [call EXCEPT ![t] = IdleCall]
      /\ UNCHANGED <<last_blockheight, latest_confirmed_block,
                     latest_finalized_block, final_height, txs, subscribers,
                     cleaner>>

-----------------------------------------------------------------------------
(* The block task's loop over the transactions of the block: the last valid
   height is looked up, TxStore's update_status called with it, and the
   subscription for this commitment notified.  update_status looks the entry up
   and inserts one if there was none; these are separate steps because the
   cleaner and the transaction sender may act in between.                    *)

CurrentTx == Txs[call[BlockTask].block][call[BlockTask].tx]

\* the last valid height recorded for a transaction the store did not know
LookupLastValid(s, b) ==
  IF blocks[RecentBlockhash[s]] # Absent
  THEN LastValid(RecentBlockhash[s]) ELSE LastValid(b)

LookupTx ==
  /\ call[BlockTask].pc = "lookup"
  /\ call' = [call EXCEPT ![BlockTask].pc = "update",
       ![BlockTask].lvbh = LookupLastValid(CurrentTx, call[BlockTask].block)]
  /\ UNCHANGED <<storeVars, txs, subscribers, cleaner>>

\* update_status is done, and with it the height that was looked up
GotoNotify == call' = [call EXCEPT ![BlockTask].pc = "notify", ![BlockTask].lvbh = 0]

NextTx ==
  IF call[BlockTask].tx < Len(Txs[call[BlockTask].block])
  THEN call' = [call EXCEPT ![BlockTask].pc = "lookup", ![BlockTask].tx = @ + 1]
  ELSE call' = [call EXCEPT ![BlockTask] = IdleCall]

UpdateKnownTx ==
  /\ call[BlockTask].pc = "update"
  /\ CurrentTx \in DOMAIN txs
  /\ txs' = [txs EXCEPT ![CurrentTx].status = call[BlockTask].level]
  /\ GotoNotify
  /\ UNCHANGED <<storeVars, subscribers, cleaner>>

MissTx ==
  /\ call[BlockTask].pc = "update"
  /\ CurrentTx \notin DOMAIN txs
  /\ Goto(BlockTask, "insert")
  /\ UNCHANGED <<storeVars, txs, subscribers, cleaner>>

InsertTx ==
  /\ call[BlockTask].pc = "insert"
  /\ txs' = [s \in DOMAIN txs \cup {CurrentTx} |->
               IF s # CurrentTx THEN txs[s]
               ELSE [status |-> call[BlockTask].level,
                     lvbh |-> call[BlockTask].lvbh,
                     sent_by_lite_rpc |-> FALSE]]
  /\ GotoNotify
  /\ UNCHANGED <<storeVars, subscribers, cleaner>>

\* SubscriptionStore::notify removes the subscriber, then answers it.
NotifySubscriber ==
  /\ call[BlockTask].pc = "notify"
  /\ subscribers' = subscribers \ {<<CurrentTx, call[BlockTask].level>>}
  /\ NextTx
  /\ UNCHANGED <<storeVars, txs, cleaner>>

SignatureSubscribe(s, level) ==
  /\ subscribers' = subscribers \cup {<<s, level>>}
  /\ UNCHANGED <<storeVars, call, txs, cleaner>>

SignatureUnsubscribe(s, level) ==
  /\ <<s, level>> \in subscribers
  /\ subscribers' = subscribers \ {<<s, level>>}
  /\ UNCHANGED <<storeVars, call, txs, cleaner>>

-----------------------------------------------------------------------------
(* DataCache::clean, every minute.  It reads the latest finalized block for the
   transactions, then BlockInformationStore::clean reads it again.           *)

CleanStart ==
  /\ cleaner.pc = "idle"
  /\ cleaner' = [cleaner EXCEPT !.pc = "read",
                                !.txs_height = Height[latest_finalized_block]]
  /\ UNCHANGED <<storeVars, call, txs, subscribers>>

CleanRead ==
  /\ cleaner.pc = "read"
  /\ cleaner' = [cleaner EXCEPT !.pc = "blocks",
                                !.blocks_height = Height[latest_finalized_block]]
  /\ UNCHANGED <<storeVars, call, txs, subscribers>>

\* (faulty: a block is dropped at its last valid height)
RetainedStrictly(b) == LastValid(b) > cleaner.blocks_height

\* (faulty: the block's own height is compared)
RetainedByHeight(b) == Height[b] >= cleaner.blocks_height

\* the blocks that BlockInformationStore::clean retains
Retained(b) == LastValid(b) >= cleaner.blocks_height

CleanBlocks ==
  /\ cleaner.pc = "blocks"
  /\ blocks' = [b \in Block |-> IF Retained(b) THEN blocks[b] ELSE Absent]
  /\ cleaner' = [cleaner EXCEPT !.pc = "txs", !.blocks_height = 0]
  /\ UNCHANGED <<last_blockheight, latest_confirmed_block,
                 latest_finalized_block, added, final_height, call, txs,
                 subscribers>>

CleanTxs ==
  /\ cleaner.pc = "txs"
  /\ txs' = RestrictValues(txs, LAMBDA p : p.lvbh >= cleaner.txs_height)
  /\ cleaner' = [cleaner EXCEPT !.pc = "subs", !.txs_height = 0]
  /\ UNCHANGED <<storeVars, call, subscribers>>

\* Any subscriber may be past its time to live or have closed its sink.
CleanSubs ==
  /\ cleaner.pc = "subs"
  /\ subscribers' \in SUBSET subscribers
  /\ cleaner' = [cleaner EXCEPT !.pc = "idle"]
  /\ UNCHANGED <<storeVars, call, txs>>

-----------------------------------------------------------------------------
AddBlock(t) ==
  \/ \E n \in Feed[t] : LoadHeight(t, n[1], n[2])
  \/ StoreHeight(t)
  \/ CompareLatest(t)
  \/ WriteLatest(t)
  \/ UpsertBlock(t)

UpdateTxs == LookupTx \/ UpdateKnownTx \/ MissTx \/ InsertTx \/ NotifySubscriber

Clean == CleanStart \/ CleanRead \/ CleanBlocks \/ CleanTxs \/ CleanSubs

Subscriptions ==
  \E s \in Sig, level \in SubscribeLevel :
    SignatureSubscribe(s, level) \/ SignatureUnsubscribe(s, level)

CacheNext == (\E t \in Task : AddBlock(t)) \/ UpdateTxs \/ Clean \/ Subscriptions

CacheSpec == CacheInit /\ [][CacheNext]_cacheVars
-----------------------------------------------------------------------------
CallRecord ==
  [pc : {"idle", "store", "compare", "write", "entry", "lookup", "update", "insert",
         "notify"},
   block : Block, level : Level, tx : Nat, lvbh : Nat]

\* The state has the shape the declarations say.
CacheTypeOK ==
  /\ blocks \in [Block -> Level \cup {Absent}]
  /\ last_blockheight \in Nat
  /\ latest_confirmed_block \in Block
  /\ latest_finalized_block \in Block
  /\ call \in [Task -> CallRecord]
  /\ DOMAIN txs \subseteq Sig
  /\ subscribers \subseteq Sig \X Level
  /\ cleaner \in [pc : {"idle", "read", "blocks", "txs", "subs"},
                  txs_height : Nat, blocks_height : Nat]
  /\ added \in [Block -> Level \cup {Absent}]
  /\ final_height \in Nat

\* The store forgets nothing that is still needed, and keeps the best it knows:
\* a block that add_block completed with, and whose blockhash is valid at every
\* finalized height so far, is stored with the highest commitment it was ever
\* added with.  So neither the two concurrent writers of add_block, nor out of
\* order commitments, nor a clean that works with a height it read earlier can
\* lose or downgrade one.
NoValidBlockForgotten ==
  \A b \in Block :
    added[b] # Absent /\ LastValid(b) >= final_height => blocks[b] = added[b]

\* A blockhash that get_latest_blockhash hands out is accepted back by
\* send_wire_transaction (get_block_info finds it), unless the add_block that
\* published it has not reached its upsert yet, or the hash is expired.
LatestBlockhashKnown ==
  \A b \in {latest_confirmed_block, latest_finalized_block} :
    \/ blocks[b] # Absent
    \/ \E t \in Task : call[t].pc = "entry" /\ call[t].block = b
    \/ LastValid(b) < final_height
=============================================================================
