-------------------------- MODULE DataCacheProofs --------------------------
(* What the cache never forgets, for every set of blocks, every order and
   repetition of the notifications and every interleaving of the tasks.     *)
EXTENDS DataCache, TLAPS

(* CacheTypeOK, plus: while the block task walks through a block's
   transactions its index is one of theirs.                                 *)
CacheTypeInv ==
  /\ CacheTypeOK
  /\ call[BlockTask].pc \in {"lookup", "update", "insert", "notify"}
       => call[BlockTask].tx \in 1 .. Len(Txs[call[BlockTask].block])

(* The heights the tasks act on are never ahead of the finalized height of the
   history: the cleaner works with a value it read earlier, which may be
   stale but not too high.  And what is stored was added.                    *)
CacheInv ==
  /\ CacheTypeInv
  /\ Height[latest_finalized_block] <= final_height
  /\ cleaner.blocks_height <= final_height
  /\ \A b \in Block : blocks[b] # Absent => added[b] # Absent
  /\ NoValidBlockForgotten
  /\ LatestBlockhashKnown

\* The store created with the genesis block satisfies the invariant.
LEMMA CacheInvInit == CacheInit => CacheInv
<1> SUFFICES ASSUME CacheInit PROVE CacheInv
  OBVIOUS
<1> USE DataCacheAssumption
<1>1. CacheTypeInv
  <2>1. call \in [Task -> [pc : {"idle"}, block : Block, level : Level, tx : Nat, lvbh : Nat]]
    BY DEF CacheInit, IdleCall, Level, Processed, Confirmed, Finalized
  <2>2. DOMAIN txs \subseteq Sig
    BY DEF CacheInit
  <2> QED
    BY <2>1, <2>2 DEF CacheInit, CacheTypeInv, CacheTypeOK, Level, Processed, Confirmed,
                      Finalized, Absent, CallRecord, Task, IdleCall
<1>2. Height[latest_finalized_block] <= final_height /\ cleaner.blocks_height <= final_height
  BY DEF CacheInit
<1> QED
  BY <1>1, <1>2 DEF CacheInit, CacheInv, NoValidBlockForgotten, LatestBlockhashKnown,
                    Absent, Finalized

\* The elements of a sequence.
LEMMA SeqElement ==
  ASSUME NEW S, NEW q \in Seq(S), NEW i \in 1 .. Len(q)
  PROVE  q[i] \in S
  OBVIOUS

\* The block task's look-up of a last valid height gives a number.
LEMMA LookupIsNat ==
  ASSUME NEW s \in Sig, NEW b \in Block
  PROVE  LookupLastValid(s, b) \in Nat
<1>1. RecentBlockhash[s] \in Block
  BY DataCacheAssumption
<1>2. \A x \in Block : LastValid(x) \in Nat
  BY DataCacheAssumption DEF LastValid
<1> QED BY <1>1, <1>2 DEF LookupLastValid

\* Every step keeps the shape of the state.
LEMMA CacheTypeStep == CacheTypeInv /\ [CacheNext]_cacheVars => CacheTypeInv'
<1> SUFFICES ASSUME CacheTypeInv, [CacheNext]_cacheVars PROVE CacheTypeInv'
  OBVIOUS
<1> USE DataCacheAssumption DEF CacheTypeInv, CacheTypeOK, CallRecord, Task
<1>1. ASSUME NEW t \in Task, AddBlock(t) PROVE CacheTypeInv'
  <2>1. ASSUME NEW n \in Feed[t], LoadHeight(t, n[1], n[2]) PROVE CacheTypeInv'
    <3>1. n \in Block \X (0 .. 2)
      OBVIOUS
    <3>2. n[1] \in Block /\ n[2] \in 0 .. 2
      BY <3>1
    <3>3. n[2] \in Level
      BY <3>2 DEF Level, Processed, Confirmed, Finalized
    <3> QED
      BY <2>1, <3>2, <3>3 DEF LoadHeight, storeVars
  <2>a. call[t].block \in Block /\ Height[call[t].block] \in Nat
    OBVIOUS
  <2>2. CASE StoreHeight(t)
    BY <2>2, <2>a, ZenonT(60) DEF StoreHeight, Goto
  <2>3. CASE CompareLatest(t)
    <3>1. \/ call' = [call EXCEPT ![t].pc = "write"]
          \/ call' = [call EXCEPT ![t].pc = "entry"]
      BY <2>3 DEF CompareLatest, Goto
    <3>2. /\ call' \in [Task -> CallRecord]
          /\ call'[BlockTask].pc \in {"lookup", "update", "insert", "notify"}
               => call'[BlockTask].tx \in 1 .. Len(Txs[call'[BlockTask].block])
      <4>1. ASSUME NEW pc \in {"write", "entry"}, call' = [call EXCEPT ![t].pc = pc]
            PROVE /\ call' \in [Task -> CallRecord]
                  /\ call'[t].pc = pc
                  /\ \A u \in Task : u # t => call'[u] = call[u]
        BY <4>1, ZenonT(60)
      <4>2. PICK pc \in {"write", "entry"} : call' = [call EXCEPT ![t].pc = pc]
        BY <3>1
      <4> QED BY <4>1, <4>2
    <3> QED
      BY <2>3, <3>2 DEF CompareLatest, storeVars
  <2>4. CASE WriteLatest(t)
    <3>1. /\ latest_confirmed_block' \in Block /\ latest_finalized_block' \in Block
          /\ final_height' \in Nat
      BY <2>4, <2>a DEF WriteLatest
    <3> QED
      BY <2>4, <3>1, ZenonT(60) DEF WriteLatest, Goto
  <2>5. CASE UpsertBlock(t)
    <3>1. blocks' \in [Block -> Level \cup {Absent}] /\ added' \in [Block -> Level \cup {Absent}]
      BY <2>5 DEF UpsertBlock
    <3>2. IdleCall \in [pc : {"idle"}, block : Block, level : Level, tx : Nat, lvbh : Nat]
      BY DEF IdleCall, Level, Finalized
    <3>3. ASSUME t = BlockTask, Txs[call[t].block] # <<>>
          PROVE 1 \in 1 .. Len(Txs[call[t].block])
      <4>1. call[t].block \in Block
        OBVIOUS
      <4>2. Txs[call[t].block] \in Seq(Sig)
        BY <4>1
      <4> QED BY <3>3, <4>2
    <3>4. /\ call' \in [Task -> CallRecord]
          /\ call'[BlockTask].pc \in {"lookup", "update", "insert", "notify"}
               => call'[BlockTask].tx \in 1 .. Len(Txs[call'[BlockTask].block])
      BY <2>5, <3>2, <3>3 DEF UpsertBlock
    <3> QED
      BY <2>5, <3>1, <3>4 DEF UpsertBlock
  <2> QED BY <1>1, <2>1, <2>2, <2>3, <2>4, <2>5 DEF AddBlock
<1>2. CASE UpdateTxs
  <2>1. call[BlockTask].pc \in {"lookup", "update", "insert", "notify"} => CurrentTx \in Sig
    <3>1. call[BlockTask].block \in Block
      OBVIOUS
    <3>2. Txs[call[BlockTask].block] \in Seq(Sig)
      BY <3>1
    <3> SUFFICES ASSUME call[BlockTask].pc \in {"lookup", "update", "insert", "notify"}
                 PROVE  CurrentTx \in Sig
      OBVIOUS
    <3>3. call[BlockTask].tx \in 1 .. Len(Txs[call[BlockTask].block])
      OBVIOUS
    <3> QED BY <3>2, <3>3, SeqElement, Zenon DEF CurrentTx
  <2>a. CASE LookupTx
    <3>1. CurrentTx \in Sig /\ call[BlockTask].block \in Block
      BY <2>1, <2>a DEF LookupTx
    <3>2. LookupLastValid(CurrentTx, call[BlockTask].block) \in Nat
      BY <3>1, LookupIsNat
    <3>3. /\ call' \in [Task -> CallRecord]
          /\ call'[BlockTask].tx = call[BlockTask].tx
          /\ call'[BlockTask].block = call[BlockTask].block
      BY <2>a, <3>2 DEF LookupTx
    <3> QED
      BY <2>a, <3>3 DEF LookupTx, storeVars
  <2>2. CASE UpdateKnownTx
    BY <2>2 DEF UpdateKnownTx, GotoNotify, storeVars
  <2>3. CASE MissTx
    BY <2>3 DEF MissTx, Goto, storeVars
  <2>4. CASE InsertTx
    <3>1. DOMAIN txs' \subseteq Sig
      BY <2>1, <2>4 DEF InsertTx
    <3> QED
      BY <2>4, <3>1, ZenonT(60) DEF InsertTx, GotoNotify, storeVars
  <2>5. CASE NotifySubscriber
    <3>1. IdleCall \in [pc : {"idle"}, block : Block, level : Level, tx : Nat, lvbh : Nat]
      BY DEF IdleCall, Level, Finalized
    <3>2. Len(Txs[call[BlockTask].block]) \in Nat
      <4>1. call[BlockTask].block \in Block
        OBVIOUS
      <4>2. Txs[call[BlockTask].block] \in Seq(Sig)
        BY <4>1
      <4> QED BY <4>2
    <3>3. /\ call' \in [Task -> CallRecord]
          /\ call'[BlockTask].pc \in {"lookup", "update", "insert", "notify"}
               => call'[BlockTask].tx \in 1 .. Len(Txs[call'[BlockTask].block])
      <4>1. call[BlockTask].tx \in 1 .. Len(Txs[call[BlockTask].block])
        BY <2>5 DEF NotifySubscriber
      <4>2. CASE call[BlockTask].tx < Len(Txs[call[BlockTask].block])
        <5>1. call' = [call EXCEPT ![BlockTask].pc = "lookup", ![BlockTask].tx = @ + 1]
          BY <2>5, <4>2 DEF NotifySubscriber, NextTx
        <5>2. ASSUME NEW i, NEW n \in Nat, i \in 1 .. n, i < n
              PROVE i + 1 \in 1 .. n /\ i + 1 \in Nat
          BY <5>2
        <5>3. /\ call[BlockTask].tx + 1 \in 1 .. Len(Txs[call[BlockTask].block])
              /\ call[BlockTask].tx + 1 \in Nat
          BY <3>2, <4>1, <4>2, <5>2
        <5>4. /\ call'[BlockTask].block = call[BlockTask].block
              /\ call'[BlockTask].tx = call[BlockTask].tx + 1
          BY <5>1
        <5>a. [call[BlockTask] EXCEPT !.pc = "lookup", !.tx = @ + 1]
                \in CallRecord
          BY <5>3
        <5>5. call' \in [Task -> CallRecord]
          BY <5>1, <5>a
        <5> QED BY <5>3, <5>4, <5>5
      <4>3. CASE ~(call[BlockTask].tx < Len(Txs[call[BlockTask].block]))
        <5>1. call' = [call EXCEPT ![BlockTask] = IdleCall]
          BY <2>5, <4>3 DEF NotifySubscriber, NextTx
        <5> QED BY <5>1, <3>1
      <4> QED BY <4>2, <4>3
    <3> QED
      BY <2>5, <3>3 DEF NotifySubscriber, storeVars
  <2> QED BY <1>2, <2>a, <2>2, <2>3, <2>4, <2>5 DEF UpdateTxs
<1>3. CASE Clean
  <2>1. CASE CleanStart
    BY <2>1 DEF CleanStart, storeVars
  <2>a. Height[latest_finalized_block] \in Nat
    OBVIOUS
  <2>2. CASE CleanRead
    BY <2>2, <2>a DEF CleanRead, storeVars
  <2>3. CASE CleanBlocks
    BY <2>3 DEF CleanBlocks
  <2>4. CASE CleanTxs
    <3>1. DOMAIN txs' \subseteq DOMAIN txs
      BY <2>4 DEF CleanTxs, RestrictValues, Restrict
    <3> QED
      BY <2>4, <3>1 DEF CleanTxs, storeVars
  <2>5. CASE CleanSubs
    BY <2>5 DEF CleanSubs, storeVars
  <2> QED BY <1>3, <2>1, <2>2, <2>3, <2>4, <2>5 DEF Clean
<1>4. CASE Subscriptions
  <2>1. SubscribeLevel \subseteq Level
    BY DEF Level, Processed, Confirmed, Finalized
  <2>2. PICK s \in Sig, level \in SubscribeLevel :
          SignatureSubscribe(s, level) \/ SignatureUnsubscribe(s, level)
    BY <1>4 DEF Subscriptions
  <2>3. <<s, level>> \in Sig \X Level
    BY <2>1
  <2>4. subscribers' \subseteq Sig \X Level
    BY <2>2, <2>3 DEF SignatureSubscribe, SignatureUnsubscribe
  <2> QED
    BY <2>2, <2>4 DEF SignatureSubscribe, SignatureUnsubscribe, storeVars
<1>5. CASE UNCHANGED cacheVars
  BY <1>5 DEF cacheVars, storeVars
<1> QED BY <1>1, <1>2, <1>3, <1>4, <1>5 DEF CacheNext

\* A step that leaves the store, the positions at the upsert and the cleaner's
\* block height alone keeps the invariant.
LEMMA CacheInvFrame ==
  ASSUME CacheInv, CacheTypeInv',
         blocks' = blocks, added' = added, final_height' = final_height,
         latest_confirmed_block' = latest_confirmed_block,
         latest_finalized_block' = latest_finalized_block,
         cleaner'.blocks_height <= final_height,
         \A t \in Task : call[t].pc = "entry" =>
                          call'[t].pc = "entry" /\ call'[t].block = call[t].block
  PROVE  CacheInv'
  BY DEF CacheInv, NoValidBlockForgotten, LatestBlockhashKnown, LastValid

\* UpsertBlock stores a block under the higher of the two commitments.
LEMMA UpsertKeepsHighest ==
  ASSUME NEW old \in Level \cup {Absent}, NEW level \in Level
  PROVE  (IF ShouldUpdate(old, level) THEN level ELSE old)
           = (IF level > old THEN level ELSE old)
  BY DEF ShouldUpdate, Level, Processed, Confirmed, Finalized, Absent

\* Every step keeps the invariant.
LEMMA CacheInvStep == CacheInv /\ [CacheNext]_cacheVars => CacheInv'
<1> SUFFICES ASSUME CacheInv, [CacheNext]_cacheVars PROVE CacheInv'
  OBVIOUS
<1> USE DataCacheAssumption
<1>0. CacheTypeInv /\ CacheTypeInv' /\ CacheTypeOK /\ CacheTypeOK'
  BY CacheTypeStep DEF CacheInv, CacheTypeInv
<1>a. /\ call \in [Task -> CallRecord]
      /\ latest_finalized_block \in Block /\ latest_confirmed_block \in Block
      /\ final_height \in Nat /\ cleaner.blocks_height \in Nat
      /\ \A t \in Task : call[t].block \in Block /\ call[t].level \in Level
  BY <1>0 DEF CacheTypeOK, CallRecord
<1>1. ASSUME NEW t \in Task, AddBlock(t) PROVE CacheInv'
  <2>1. ASSUME NEW n \in Feed[t], LoadHeight(t, n[1], n[2]) PROVE CacheInv'
    BY <1>0, <1>a, <2>1, CacheInvFrame DEF LoadHeight, storeVars, CacheInv
  <2>2. CASE StoreHeight(t)
    BY <1>0, <1>a, <2>2, CacheInvFrame DEF StoreHeight, Goto, CacheInv
  <2>3. CASE CompareLatest(t)
    <3>1. \A u \in Task : call[u].pc = "entry" =>
                          call'[u].pc = "entry" /\ call'[u].block = call[u].block
      BY <1>a, <2>3 DEF CompareLatest, Goto
    <3> QED
      BY <1>0, <2>3, <3>1, CacheInvFrame DEF CompareLatest, storeVars, CacheInv
  <2>4. CASE WriteLatest(t)
    <3>1. /\ call'[t].pc = "entry" /\ call'[t].block = call[t].block
          /\ \A u \in Task : u # t => call'[u] = call[u]
      BY <1>a, <2>4 DEF WriteLatest, Goto, CallRecord
    <3>2. /\ blocks' = blocks /\ added' = added /\ cleaner' = cleaner
          /\ final_height' \in Nat /\ final_height' >= final_height
          /\ Height[latest_finalized_block'] <= final_height'
      BY <1>a, <2>4, SMTT(30) DEF WriteLatest, CacheInv
    <3>3. \A b \in {latest_confirmed_block', latest_finalized_block'} :
            b = call[t].block \/ b \in {latest_confirmed_block, latest_finalized_block}
      BY <2>4 DEF WriteLatest
    <3>4. \A b \in Block : LastValid(b) \in Nat /\ LastValid(b)' = LastValid(b)
      BY DEF LastValid
    <3>5. NoValidBlockForgotten'
      <4> SUFFICES ASSUME NEW b \in Block, added[b] # Absent, LastValid(b) >= final_height'
                   PROVE  blocks[b] = added[b]
        BY <3>2, <3>4 DEF NoValidBlockForgotten
      <4>1. LastValid(b) >= final_height
        <5>1. ASSUME NEW x \in Nat, NEW y \in Nat, NEW z \in Nat, x >= y, y >= z PROVE x >= z
          BY <5>1
        <5> QED BY <1>a, <3>2, <3>4, <5>1
      <4> QED BY <4>1 DEF CacheInv, NoValidBlockForgotten
    <3>6. LatestBlockhashKnown'
      <4> SUFFICES ASSUME NEW b \in {latest_confirmed_block', latest_finalized_block'}
                   PROVE \/ blocks'[b] # Absent
                         \/ \E u \in Task : call'[u].pc = "entry" /\ call'[u].block = b
                         \/ LastValid(b) < final_height'
        BY <3>4 DEF LatestBlockhashKnown, LastValid
      <4>1. CASE b = call[t].block
        BY <3>1, <4>1
      <4>2. CASE b # call[t].block
        <5>1. b \in {latest_confirmed_block, latest_finalized_block}
          BY <3>3, <4>2
        <5>2. \/ blocks[b] # Absent
              \/ \E u \in Task : call[u].pc = "entry" /\ call[u].block = b
              \/ LastValid(b) < final_height
          BY <5>1 DEF CacheInv, LatestBlockhashKnown
        <5>3. b \in Block
          BY <1>a, <5>1
        <5>4. LastValid(b) < final_height => LastValid(b) < final_height'
          <6>1. ASSUME NEW x \in Nat, NEW y \in Nat, NEW z \in Nat, x < z, y >= z PROVE x < y
            BY <6>1
          <6> QED BY <1>a, <3>2, <3>4, <5>3, <6>1
        <5>5. ASSUME NEW u \in Task, call[u].pc = "entry", call[u].block = b
              PROVE call'[u].pc = "entry" /\ call'[u].block = b
          BY <3>1, <4>2, <5>5
        <5> QED BY <3>2, <5>2, <5>4, <5>5
      <4> QED BY <4>1, <4>2
    <3>7. cleaner'.blocks_height <= final_height'
      BY <1>a, <3>2 DEF CacheInv
    <3> QED BY <1>0, <3>2, <3>5, <3>6, <3>7 DEF CacheInv
  <2>5. CASE UpsertBlock(t)
    <3> DEFINE c == call[t].block
               level == call[t].level
    <3>1. c \in Block /\ level \in Level /\ call[t].pc = "entry"
      BY <1>a, <2>5 DEF UpsertBlock
    <3>2. blocks \in [Block -> Level \cup {Absent}] /\ added \in [Block -> Level \cup {Absent}]
      BY <1>0 DEF CacheTypeOK
    <3>3. /\ blocks'[c] = IF level > blocks[c] THEN level ELSE blocks[c]
          /\ added'[c] = IF level > added[c] THEN level ELSE added[c]
          /\ \A b \in Block : b # c => blocks'[b] = blocks[b] /\ added'[b] = added[b]
      BY <2>5, <3>1, <3>2, UpsertKeepsHighest DEF UpsertBlock
    <3>4. blocks'[c] # Absent /\ added'[c] # Absent
      BY <3>1, <3>2, <3>3 DEF Level, Processed, Confirmed, Finalized, Absent
    <3>5. /\ latest_confirmed_block' = latest_confirmed_block
          /\ latest_finalized_block' = latest_finalized_block
          /\ final_height' = final_height /\ cleaner' = cleaner
          /\ \A u \in Task : u # t => call'[u] = call[u]
      BY <1>a, <2>5 DEF UpsertBlock
    <3>6. NoValidBlockForgotten'
      <4> SUFFICES ASSUME NEW b \in Block, added'[b] # Absent, LastValid(b) >= final_height
                   PROVE  blocks'[b] = added'[b]
        BY <3>5 DEF NoValidBlockForgotten, LastValid
      <4>1. CASE b # c
        BY <3>3, <4>1 DEF CacheInv, NoValidBlockForgotten
      <4>2. CASE b = c /\ added[c] # Absent
        BY <3>1, <3>3, <4>2 DEF CacheInv, NoValidBlockForgotten
      <4>3. CASE b = c /\ added[c] = Absent
        BY <3>1, <3>3, <4>3 DEF CacheInv
      <4> QED BY <4>1, <4>2, <4>3
    <3>7. LatestBlockhashKnown'
      BY <1>a, <3>1, <3>3, <3>4, <3>5, ZenonT(60) DEF CacheInv, LatestBlockhashKnown, LastValid
    <3>8. \A b \in Block : blocks'[b] # Absent => added'[b] # Absent
      BY <3>1, <3>3, <3>4 DEF CacheInv
    <3> QED BY <1>0, <3>5, <3>6, <3>7, <3>8 DEF CacheInv
  <2> QED BY <1>1, <2>1, <2>2, <2>3, <2>4, <2>5 DEF AddBlock
<1>2. CASE UpdateTxs
  <2>1. \A u \in Task : call[u].pc = "entry" =>
                        call'[u].pc = "entry" /\ call'[u].block = call[u].block
    BY <1>a, <1>2 DEF UpdateTxs, LookupTx, UpdateKnownTx, MissTx, InsertTx, NotifySubscriber,
                      NextTx, Goto, GotoNotify
  <2> QED
    BY <1>0, <1>2, <2>1, CacheInvFrame
    DEF UpdateTxs, LookupTx, UpdateKnownTx, MissTx, InsertTx, NotifySubscriber, storeVars,
        CacheInv
<1>3. CASE Clean
  <2>1. CASE CleanBlocks
    <3>1. \A b \in Block : LastValid(b) \in Nat
      BY DEF LastValid
    <3>2. /\ \A b \in Block : LastValid(b) >= final_height => blocks'[b] = blocks[b]
          /\ \A b \in Block : blocks'[b] = blocks[b] \/ LastValid(b) < final_height
          /\ \A b \in Block : blocks'[b] # Absent => blocks[b] # Absent
      <4> SUFFICES ASSUME NEW b \in Block
                   PROVE  /\ blocks'[b] = blocks[b] \/ (LastValid(b) < final_height /\ blocks'[b] = Absent)
                          /\ LastValid(b) >= final_height => ~(LastValid(b) < final_height)
        OBVIOUS
      <4>1. /\ LastValid(b) \in Nat /\ final_height \in Nat /\ cleaner.blocks_height \in Nat
            /\ cleaner.blocks_height <= final_height
        BY <1>a, <3>1 DEF CacheInv
      <4>2. blocks'[b] = IF LastValid(b) >= cleaner.blocks_height THEN blocks[b] ELSE Absent
        BY <2>1 DEF CleanBlocks, Retained
      <4>3. ~(LastValid(b) >= cleaner.blocks_height) => LastValid(b) < final_height
        <5>1. ASSUME NEW x \in Nat, NEW y \in Nat, NEW z \in Nat, ~(x >= y), y <= z PROVE x < z
          BY <5>1
        <5> QED BY <4>1, <5>1
      <4> QED BY <4>1, <4>2, <4>3
    <3>3. cleaner'.blocks_height <= final_height
      BY <1>0, <1>a, <2>1 DEF CleanBlocks, CacheTypeOK
    <3>4. /\ latest_confirmed_block' = latest_confirmed_block
          /\ latest_finalized_block' = latest_finalized_block
          /\ final_height' = final_height /\ added' = added /\ call' = call
      BY <2>1 DEF CleanBlocks
    <3> QED
      BY <1>0, <1>a, <3>2, <3>3, <3>4
      DEF CacheInv, NoValidBlockForgotten, LatestBlockhashKnown, LastValid
  <2>2. CASE CleanRead
    <3>1. cleaner'.blocks_height <= final_height
      BY <1>0, <2>2 DEF CleanRead, CacheTypeOK, CacheInv
    <3> QED BY <1>0, <2>2, <3>1, CacheInvFrame DEF CleanRead, storeVars
  <2>3. CASE CleanStart
    <3>1. cleaner'.blocks_height <= final_height
      BY <1>0, <2>3 DEF CleanStart, CacheTypeOK, CacheInv
    <3> QED BY <1>0, <2>3, <3>1, CacheInvFrame DEF CleanStart, storeVars
  <2>4. CASE CleanTxs
    <3>1. cleaner'.blocks_height <= final_height
      BY <1>0, <2>4 DEF CleanTxs, CacheTypeOK, CacheInv
    <3> QED BY <1>0, <2>4, <3>1, CacheInvFrame DEF CleanTxs, storeVars
  <2>5. CASE CleanSubs
    <3>1. cleaner'.blocks_height <= final_height
      BY <1>0, <2>5 DEF CleanSubs, CacheTypeOK, CacheInv
    <3> QED BY <1>0, <2>5, <3>1, CacheInvFrame DEF CleanSubs, storeVars
  <2> QED BY <1>3, <2>1, <2>2, <2>3, <2>4, <2>5 DEF Clean
<1>4. CASE Subscriptions
  BY <1>0, <1>4, CacheInvFrame
  DEF Subscriptions, SignatureSubscribe, SignatureUnsubscribe, storeVars, CacheInv
<1>5. CASE UNCHANGED cacheVars
  BY <1>0, <1>5, CacheInvFrame DEF cacheVars, storeVars, CacheInv
<1> QED BY <1>1, <1>2, <1>3, <1>4, <1>5 DEF CacheNext

\* For every feed of notifications and every interleaving of the two add_block
\* tasks with the cleaner (block_information_store.rs, data_caching_service.rs):
\* a block whose blockhash is still valid stays in the store, with the highest
\* commitment it was added with.
THEOREM ValidBlocksStay == CacheSpec => [](CacheTypeOK /\ NoValidBlockForgotten)
<1>1. CacheSpec => []CacheInv
  BY CacheInvInit, CacheInvStep, PTL DEF CacheSpec
<1>2. CacheInv => CacheTypeOK /\ NoValidBlockForgotten
  BY DEF CacheInv, CacheTypeInv
<1> QED BY <1>1, <1>2, PTL

\* The blockhash that get_latest_block_info hands out can be looked up again by
\* send_wire_transaction as long as it is valid, apart from the moment between
\* the two writes of the add_block that publishes it.
THEOREM LatestBlockhashStays == CacheSpec => []LatestBlockhashKnown
<1>1. CacheSpec => []CacheInv
  BY CacheInvInit, CacheInvStep, PTL DEF CacheSpec
<1>2. CacheInv => LatestBlockhashKnown
  BY DEF CacheInv
<1> QED BY <1>1, <1>2, PTL
=============================================================================
