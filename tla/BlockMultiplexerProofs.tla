----------------------- MODULE BlockMultiplexerProofs -----------------------
(* The emitter implements the block feed, for any slots, memory and channel sizes, whatever the
   sources send and however the four streams, the clean-up and the restarts interleave.       *)
EXTENDS BlockMultiplexer, ProcessedBlockMergeProofs

Late == {Confirmed, Finalized}

(* A block info task sends increasing slots, up to its tip.                                   *)
InfoRecord == [tip : Nat, sending : Slot \cup {NoSlot}, chan : Seq(Slot)]
InfoOK(r) ==
  /\ r \in InfoRecord
  /\ \A i \in 1 .. Len(r.chan) : r.chan[i] <= r.tip
  /\ \A i, j \in 1 .. Len(r.chan) : i < j => r.chan[i] < r.chan[j]
  /\ r.sending # NoSlot => /\ r.sending = r.tip
                           /\ \A i \in 1 .. Len(r.chan) : r.chan[i] < r.sending

(* The emitter has read the info of this slot, if there was one: it is before all that comes. *)
Passed(r, s) ==
  /\ s <= r.tip
  /\ r.sending # NoSlot => s < r.sending
  /\ \A i \in 1 .. Len(r.chan) : s < r.chan[i]

(* The full blocks in the channel are of different slots, and none was emitted before; what was
   emitted was emitted as processed, and a cached block too; an info that was used, or is kept
   for later, will not come again.                                                            *)
BlocksOK ==
  /\ block_chan \in Seq(Slot)
  /\ \A i \in 1 .. Len(block_chan) : block_chan[i] \in sent
  /\ \A i, j \in 1 .. Len(block_chan) : block_chan[i] = block_chan[j] => i = j
  /\ \A i \in 1 .. Len(block_chan), l \in Level : emitted[block_chan[i]][l] = 0

EmittedOK ==
  /\ emitted \in [Slot -> [Level -> {0, 1}]]
  /\ \A s \in Slot, l \in Level : emitted[s][l] = 1 => emitted[s][Processed] = 1 /\ s \in sent
  /\ recent_processed_blocks \subseteq {s \in Slot : emitted[s][Processed] = 1}

InfosOK ==
  /\ info \in [Level -> InfoRecord]
  /\ \A l \in Level : InfoOK(info[l])
  /\ not_yet_processed \in [Late -> SUBSET Slot]
  /\ \A l \in Late : \A s \in not_yet_processed[l] : Passed(info[l], s)
  /\ \A s \in Slot, l \in Late : emitted[s][l] = 1 => Passed(info[l], s)

FeedInv == MergeInv /\ BlocksOK /\ EmittedOK /\ InfosOK

-----------------------------------------------------------------------------
\* A block info task takes an info from its source: its slot is beyond the tip.
LEMMA InfoAfterReceive ==
  ASSUME NEW r, InfoOK(r), NEW slot \in Slot, r.sending = NoSlot, slot > r.tip,
         NEW after, after = [r EXCEPT !.tip = slot, !.sending = slot]
  PROVE  InfoOK(after) /\ \A s \in Slot : Passed(r, s) => Passed(after, s)
<1>1. /\ after \in InfoRecord /\ after.tip = slot /\ after.sending = slot /\ after.chan = r.chan
      /\ r.tip \in Nat /\ r.chan \in Seq(Slot) /\ Slot \subseteq Nat
  BY MergeAssumption DEF InfoOK, InfoRecord
<1>2. \A i \in 1 .. Len(r.chan) : r.chan[i] \in Nat /\ r.chan[i] < slot
  BY <1>1 DEF InfoOK
<1>3. InfoOK(after)
  BY <1>1, <1>2 DEF InfoOK
<1> QED BY <1>1, <1>3 DEF Passed

\* It has sent the info to the channel.
LEMMA InfoAfterSend ==
  ASSUME NEW r, InfoOK(r), r.sending # NoSlot,
         NEW after, after = [r EXCEPT !.chan = Append(@, r.sending), !.sending = NoSlot]
  PROVE  InfoOK(after) /\ \A s \in Slot : Passed(r, s) => Passed(after, s)
<1>1. /\ r.tip \in Nat /\ r.chan \in Seq(Slot) /\ r.sending \in Slot /\ Slot \subseteq Nat
      /\ r \in InfoRecord
  BY MergeAssumption DEF InfoOK, InfoRecord
<1>2. /\ after.tip = r.tip /\ after.sending = NoSlot /\ after.chan = Append(r.chan, r.sending)
      /\ after.chan \in Seq(Slot)
  BY <1>1 DEF InfoRecord
<1>3. after \in InfoRecord
  BY <1>1, <1>2 DEF InfoRecord
<1>4. /\ Len(after.chan) = Len(r.chan) + 1 /\ Len(r.chan) \in Nat
      /\ after.chan[Len(r.chan) + 1] = r.sending
      /\ \A i \in 1 .. Len(r.chan) : after.chan[i] = r.chan[i]
  BY <1>1, <1>2
<1>5. InfoOK(after)
  BY <1>1, <1>2, <1>3, <1>4 DEF InfoOK
<1>6. ASSUME NEW s \in Slot, Passed(r, s) PROVE Passed(after, s)
  BY <1>1, <1>2, <1>4, <1>6 DEF Passed
<1> QED BY <1>5, <1>6

\* The emitter takes an info from the channel: it was not read before, and is read now.
LEMMA InfoAfterTake ==
  ASSUME NEW r, InfoOK(r), r.chan # <<>>, NEW after, after = [r EXCEPT !.chan = Tail(@)]
  PROVE  /\ InfoOK(after)
         /\ \A s \in Slot : Passed(r, s) => Passed(after, s)
         /\ Head(r.chan) \in Slot
         /\ Passed(after, Head(r.chan))
         /\ ~Passed(r, Head(r.chan))
<1>1. /\ r.tip \in Nat /\ r.chan \in Seq(Slot) /\ r.sending \in Slot \cup {NoSlot}
      /\ Slot \subseteq Nat /\ r \in InfoRecord
  BY MergeAssumption DEF InfoOK, InfoRecord
<1>0. Tail(r.chan) \in Seq(Slot)
  BY <1>1
<1>2. /\ after.tip = r.tip /\ after.sending = r.sending /\ after.chan = Tail(r.chan)
      /\ after.chan \in Seq(Slot) /\ after \in InfoRecord
  BY <1>1, <1>0 DEF InfoRecord
<1>3. /\ Len(r.chan) \in Nat \ {0} /\ Len(after.chan) = Len(r.chan) - 1
      /\ Head(r.chan) = r.chan[1] /\ r.chan[1] \in Slot
      /\ \A i \in 1 .. Len(after.chan) : after.chan[i] = r.chan[i + 1]
  BY <1>1, <1>2
<1>4. \A i \in 1 .. Len(after.chan) :
        /\ i \in Nat /\ i + 1 \in 1 .. Len(r.chan) /\ 1 < i + 1
        /\ after.chan[i] = r.chan[i + 1] /\ r.chan[i + 1] \in Nat
        /\ r.chan[1] < r.chan[i + 1]
  <2>1. \A i \in 1 .. Len(after.chan) :
          i \in Nat /\ i + 1 \in 1 .. Len(r.chan) /\ 1 < i + 1
    BY <1>3
  <2>2. \A k \in 1 .. Len(r.chan) : r.chan[k] \in Nat
    BY <1>1
  <2>3. \A i, j \in 1 .. Len(r.chan) : i < j => r.chan[i] < r.chan[j]
    BY DEF InfoOK
  <2>4. 1 \in 1 .. Len(r.chan)
    BY <1>3
  <2> QED BY <1>3, <2>1, <2>2, <2>3, <2>4
<1>5. InfoOK(after)
  <2>1. \A i \in 1 .. Len(after.chan) : after.chan[i] <= after.tip
    BY <1>2, <1>4 DEF InfoOK
  <2>2. ASSUME NEW i \in 1 .. Len(after.chan), NEW j \in 1 .. Len(after.chan), i < j
        PROVE  after.chan[i] < after.chan[j]
    <3>1. i + 1 < j + 1
      BY <1>4, <2>2
    <3>2. r.chan[i + 1] < r.chan[j + 1]
      BY <1>4, <3>1 DEF InfoOK
    <3> QED BY <1>4, <3>2
  <2>3. after.sending # NoSlot =>
          after.sending = after.tip /\ \A i \in 1 .. Len(after.chan) : after.chan[i] < after.sending
    BY <1>2, <1>4 DEF InfoOK
  <2> QED BY <1>2, <2>1, <2>2, <2>3 DEF InfoOK
<1>6. ASSUME NEW s \in Slot, Passed(r, s) PROVE Passed(after, s)
  BY <1>2, <1>4, <1>6 DEF Passed
<1>7. Passed(after, r.chan[1])
  <2>1. 1 \in 1 .. Len(r.chan)
    BY <1>3
  <2> QED BY <1>2, <1>4, <2>1 DEF Passed, InfoOK
<1>8. ~Passed(r, r.chan[1])
  <2>1. 1 \in 1 .. Len(r.chan) /\ ~(r.chan[1] < r.chan[1])
    BY <1>1, <1>3
  <2> QED BY <2>1 DEF Passed
<1> QED BY <1>3, <1>5, <1>6, <1>7, <1>8

-----------------------------------------------------------------------------
\* A block is emitted at levels that it was not emitted at before, and as processed at the latest
\* now: a delivery of the feed.
LEMMA EmitDelivers ==
  ASSUME EmittedOK, NEW s \in Slot, NEW levels \in SUBSET Level, levels # {},
         \A l \in levels : emitted[s][l] = 0,
         Processed \in levels \/ emitted[s][Processed] = 1,
         emitted' = [emitted EXCEPT ![s] =
                       [l \in Level |-> emitted[s][l] + (IF l \in levels THEN 1 ELSE 0)]]
  PROVE  /\ MultiplexedFeed!FeedNext
         /\ emitted' \in [Slot -> [Level -> {0, 1}]]
         /\ \A l \in levels : emitted'[s][l] = 1
         /\ emitted'[s][Processed] = 1
         /\ \A t \in Slot, l \in Level : emitted[t][l] = 1 => emitted'[t][l] = 1
         /\ \A t \in Slot, l \in Level : emitted'[t][l] = 1 => emitted[t][l] = 1 \/ (t = s /\ l \in levels)
<1> DEFINE new == [l \in Level |-> IF l \in levels THEN 1 ELSE emitted[s][l]]
<1>1. emitted \in [Slot -> [Level -> {0, 1}]] /\ Processed \in Level
  BY DEF EmittedOK, Level
<1>2. \A l \in Level : emitted[s][l] + (IF l \in levels THEN 1 ELSE 0) = new[l]
  <2> SUFFICES ASSUME NEW l \in Level
               PROVE  emitted[s][l] + (IF l \in levels THEN 1 ELSE 0)
                        = IF l \in levels THEN 1 ELSE emitted[s][l]
    OBVIOUS
  <2>1. emitted[s][l] \in {0, 1}
    BY <1>1
  <2> QED BY <2>1
<1>3. emitted' = [emitted EXCEPT ![s] = new]
  BY <1>2
<1>4. new \in [Level -> {0, 1}]
  BY <1>1
<1>5. MultiplexedFeed!Deliver(s, levels)
  BY <1>3 DEF MultiplexedFeed!Deliver
<1>6. MultiplexedFeed!FeedNext
  BY <1>5 DEF MultiplexedFeed!FeedNext
<1>7. /\ emitted'[s] = new
      /\ \A t \in Slot : t # s => emitted'[t] = emitted[t]
  BY <1>1, <1>3
<1>8. /\ \A l \in levels : new[l] = 1
      /\ new[Processed] = 1
      /\ \A l \in Level : emitted[s][l] = 1 => new[l] = 1
      /\ \A l \in Level : new[l] = 1 => emitted[s][l] = 1 \/ l \in levels
  BY <1>1
<1> HIDE DEF new
<1> QED BY <1>1, <1>3, <1>4, <1>6, <1>7, <1>8

\* The infos stay in order if channels and tips only move on, and what is used or kept has passed.
LEMMA InfosKept ==
  ASSUME InfosOK,
         info' \in [Level -> InfoRecord],
         \A l \in Level : InfoOK(info'[l]),
         \A l \in Late, s \in Slot : Passed(info[l], s) => Passed(info'[l], s),
         not_yet_processed' \in [Late -> SUBSET Slot],
         \A l \in Late : \A s \in not_yet_processed'[l] :
           s \in not_yet_processed[l] \/ Passed(info'[l], s),
         \A s \in Slot, l \in Late : emitted'[s][l] = 1 =>
           emitted[s][l] = 1 \/ s \in not_yet_processed[l] \/ Passed(info'[l], s)
  PROVE  InfosOK'
<1>1. \A l \in Late : \A s \in not_yet_processed[l] : s \in Slot /\ Passed(info[l], s)
  BY DEF InfosOK
<1>2. \A s \in Slot, l \in Late : emitted[s][l] = 1 => Passed(info[l], s)
  BY DEF InfosOK
<1> QED BY <1>1, <1>2 DEF InfosOK

\* The info of one level moves on, and nothing else.
LEMMA InfoMoves ==
  ASSUME FeedInv, NEW l \in Level, NEW after, InfoOK(after), info' = [info EXCEPT ![l] = after],
         \A s \in Slot : Passed(info[l], s) => Passed(after, s)
  PROVE  /\ info' \in [Level -> InfoRecord]
         /\ \A k \in Level : InfoOK(info'[k])
         /\ \A k \in Late, s \in Slot : Passed(info[k], s) => Passed(info'[k], s)
         /\ info'[l] = after
<1>1. info \in [Level -> InfoRecord] /\ after \in InfoRecord /\ Late \subseteq Level
  BY DEF FeedInv, InfosOK, InfoOK, Late, Level
<1>2. info'[l] = after /\ \A k \in Level : k # l => info'[k] = info[k]
  BY <1>1
<1> QED BY <1>1, <1>2 DEF FeedInv, InfosOK

-----------------------------------------------------------------------------
\* The merge task
LEMMA MergeTaskKeeps ==
  ASSUME FeedInv, MergeTask
  PROVE  FeedInv' /\ UNCHANGED emitted
<1>1. /\ UNCHANGED <<info, not_yet_processed, emitted, recent_processed_blocks>>
  BY DEF MergeTask, emitVars
<1>2. InfosOK'
  BY <1>1 DEF FeedInv, InfosOK
<1>3. CASE \E slot \in Slot : MergeReceive(slot) /\ UNCHANGED block_chan
  <2>1. MergeInv'
    BY <1>3, MergeInvStep DEF FeedInv, MergeNext
  <2>2. UNCHANGED <<block_chan, sent>>
    BY <1>3 DEF MergeReceive
  <2> QED BY <1>1, <1>2, <2>1, <2>2 DEF FeedInv, BlocksOK, EmittedOK
<1>4. CASE block_chan' = Append(block_chan, sending) /\ MergeSent
  <2>1. MergeInv'
    BY <1>4, MergeInvStep DEF FeedInv, MergeNext
  <2>2. sending \in Slot /\ sending \notin sent /\ sent' = sent \cup {sending}
    BY <1>4, MergeInvImplies DEF FeedInv, MergeSent, NoSlotSentTwice
  <2>3. \A l \in Level : emitted[sending][l] = 0
    BY <2>2 DEF FeedInv, EmittedOK
  <2>4. /\ block_chan \in Seq(Slot) /\ block_chan' \in Seq(Slot) /\ Len(block_chan) \in Nat
        /\ Len(block_chan') = Len(block_chan) + 1
        /\ block_chan'[Len(block_chan) + 1] = sending
        /\ \A i \in 1 .. Len(block_chan) : block_chan'[i] = block_chan[i]
    BY <1>4, <2>2 DEF FeedInv, BlocksOK
  <2>5. \A i \in 1 .. Len(block_chan') : i \in 1 .. Len(block_chan) \/ i = Len(block_chan) + 1
    BY <2>4
  <2>6. BlocksOK'
    BY <1>1, <2>2, <2>3, <2>4, <2>5 DEF FeedInv, BlocksOK
  <2>7. EmittedOK'
    BY <1>1, <2>2 DEF FeedInv, EmittedOK
  <2> QED BY <1>1, <1>2, <2>1, <2>6, <2>7 DEF FeedInv
<1> QED BY <1>1, <1>3, <1>4 DEF MergeTask

\* The block info tasks
LEMMA InfoTaskKeeps ==
  ASSUME FeedInv, NEW l \in Level, InfoSent(l) \/ \E slot \in Slot : InfoReceive(l, slot)
  PROVE  FeedInv' /\ UNCHANGED emitted
<1>1. /\ UNCHANGED <<mergeVars, block_chan, not_yet_processed, emitted, recent_processed_blocks>>
  BY DEF InfoSent, InfoReceive, emitVars
<1>2. /\ info \in [Level -> InfoRecord] /\ InfoOK(info[l])
  BY DEF FeedInv, InfosOK
<1>3. PICK after : /\ info' = [info EXCEPT ![l] = after] /\ InfoOK(after)
                   /\ \A s \in Slot : Passed(info[l], s) => Passed(after, s)
  <2>1. CASE InfoSent(l)
    <3>1. /\ info' = [info EXCEPT ![l] = [info[l] EXCEPT !.chan = Append(@, info[l].sending), !.sending = NoSlot]]
          /\ info[l].sending # NoSlot
      BY <1>2, <2>1 DEF InfoSent
    <3> QED BY <1>2, <3>1, InfoAfterSend
  <2>2. CASE \E slot \in Slot : InfoReceive(l, slot)
    <3>1. PICK slot \in Slot :
             /\ info[l].sending = NoSlot /\ slot > info[l].tip
             /\ info' = [info EXCEPT ![l] = [info[l] EXCEPT !.tip = slot, !.sending = slot]]
      BY <1>2, <2>2 DEF InfoReceive
    <3>2. PICK after : after = [info[l] EXCEPT !.tip = slot, !.sending = slot]
      OBVIOUS
    <3>3. InfoOK(after) /\ \A s \in Slot : Passed(info[l], s) => Passed(after, s)
      BY <1>2, <3>1, <3>2, InfoAfterReceive
    <3> QED BY <3>1, <3>2, <3>3
  <2> QED BY <2>1, <2>2
<1>4. InfosOK'
  <2>1. /\ info' \in [Level -> InfoRecord]
        /\ \A k \in Level : InfoOK(info'[k])
        /\ \A k \in Late, s \in Slot : Passed(info[k], s) => Passed(info'[k], s)
    BY <1>3, InfoMoves
  <2>2. InfosOK
    BY DEF FeedInv
  <2>3. not_yet_processed' \in [Late -> SUBSET Slot]
    BY <1>1, <2>2 DEF InfosOK
  <2> QED BY <1>1, <2>1, <2>2, <2>3, InfosKept
<1>5. MergeInv' /\ BlocksOK' /\ EmittedOK'
  <2>1. MergeInv'
    BY <1>1, MergeInvStep DEF FeedInv
  <2> QED BY <1>1, <2>1 DEF FeedInv, BlocksOK, EmittedOK, mergeVars
<1> QED BY <1>1, <1>4, <1>5 DEF FeedInv

\* Nothing that the invariant speaks of changes, except that cached blocks may be dropped.
LEMMA OthersKeep ==
  ASSUME FeedInv, UNCHANGED <<mergeVars, block_chan, info, not_yet_processed, emitted>>,
         recent_processed_blocks' \subseteq recent_processed_blocks
  PROVE  FeedInv'
<1>1. MergeInv'
  BY MergeInvStep DEF FeedInv
<1>2. BlocksOK' /\ EmittedOK'
  BY DEF FeedInv, BlocksOK, EmittedOK, mergeVars
<1>3. InfosOK'
  BY DEF FeedInv, InfosOK
<1> QED BY <1>1, <1>2, <1>3 DEF FeedInv

-----------------------------------------------------------------------------
\* The emitter takes a full block.
LEMMA ProcessedBlockDelivers ==
  ASSUME FeedInv, ProcessedBlock
  PROVE  FeedInv' /\ MultiplexedFeed!FeedNext
<1> DEFINE s == Head(block_chan)
           late == {l \in Late : s \in not_yet_processed[l]}
           levels == {Processed} \cup late
<1>1. /\ block_chan # <<>> /\ block_chan' = Tail(block_chan)
      /\ UNCHANGED <<mergeVars, info>>
      /\ not_yet_processed' = [l \in Late |-> not_yet_processed[l] \ {s}]
      /\ recent_processed_blocks' = recent_processed_blocks \cup {s}
  BY DEF ProcessedBlock, Late
<1>2. emitted' = [emitted EXCEPT ![s] =
                    [l \in Level |-> emitted[s][l] + (IF l \in levels THEN 1 ELSE 0)]]
  <2>1. Emit(s, levels)
    BY DEF ProcessedBlock, Late
  <2>2. emitted \in [Slot -> [Level -> {0, 1}]]
    BY DEF FeedInv, EmittedOK
  <2> HIDE DEF s, levels
  <2> QED BY <2>1, <2>2 DEF Emit
<1>3. /\ block_chan \in Seq(Slot) /\ Tail(block_chan) \in Seq(Slot)
      /\ Len(block_chan) \in Nat \ {0} /\ Len(Tail(block_chan)) = Len(block_chan) - 1
      /\ s = block_chan[1] /\ 1 \in 1 .. Len(block_chan) /\ s \in Slot
      /\ \A i \in 1 .. Len(Tail(block_chan)) :
           i + 1 \in 1 .. Len(block_chan) /\ i + 1 # 1 /\ Tail(block_chan)[i] = block_chan[i + 1]
  <2>1. block_chan \in Seq(Slot)
    BY DEF FeedInv, BlocksOK
  <2>2. /\ Tail(block_chan) \in Seq(Slot) /\ s = block_chan[1]
        /\ Len(block_chan) \in Nat \ {0} /\ Len(Tail(block_chan)) = Len(block_chan) - 1
    BY <1>1, <2>1
  <2>3. 1 \in 1 .. Len(block_chan) /\ s \in Slot
    BY <2>1, <2>2
  <2>4. ASSUME NEW i \in 1 .. Len(Tail(block_chan))
        PROVE  i + 1 \in 1 .. Len(block_chan) /\ i + 1 # 1 /\ Tail(block_chan)[i] = block_chan[i + 1]
    BY <1>1, <2>1, <2>2
  <2> QED BY <2>1, <2>2, <2>3, <2>4
<1>4. /\ \A l \in Level : emitted[s][l] = 0
      /\ s \in sent
      /\ \A i \in 1 .. Len(Tail(block_chan)) : Tail(block_chan)[i] # s
  <2> HIDE DEF s
  <2> QED BY <1>3 DEF FeedInv, BlocksOK
<1>5. levels \subseteq Level /\ levels # {} /\ Processed \in levels /\ \A l \in levels : emitted[s][l] = 0
  BY <1>4 DEF Level, Late
<1> HIDE DEF s, levels
<1>6. /\ MultiplexedFeed!FeedNext
      /\ emitted' \in [Slot -> [Level -> {0, 1}]]
      /\ emitted'[s][Processed] = 1
      /\ \A t \in Slot, l \in Level : emitted[t][l] = 1 => emitted'[t][l] = 1
      /\ \A t \in Slot, l \in Level : emitted'[t][l] = 1 => emitted[t][l] = 1 \/ (t = s /\ l \in levels)
  BY <1>2, <1>3, <1>5, EmitDelivers DEF FeedInv
<1>7. MergeInv' /\ sent' = sent
  BY <1>1, MergeInvStep DEF FeedInv, mergeVars
<1>8. BlocksOK'
  <2>1. \A i \in 1 .. Len(Tail(block_chan)) : Tail(block_chan)[i] \in sent
    BY <1>3 DEF FeedInv, BlocksOK
  <2>2. ASSUME NEW i \in 1 .. Len(Tail(block_chan)), NEW j \in 1 .. Len(Tail(block_chan)),
               Tail(block_chan)[i] = Tail(block_chan)[j]
        PROVE  i = j
    <3>1. i + 1 = j + 1
      BY <1>3, <2>2 DEF FeedInv, BlocksOK
    <3> QED BY <3>1
  <2>3. ASSUME NEW i \in 1 .. Len(Tail(block_chan)), NEW l \in Level
        PROVE  emitted'[Tail(block_chan)[i]][l] = 0
    <3>1. Tail(block_chan)[i] \in Slot /\ Tail(block_chan)[i] # s
      BY <1>3, <1>4
    <3>2. emitted[Tail(block_chan)[i]][l] = 0
      BY <1>3 DEF FeedInv, BlocksOK
    <3>3. emitted'[Tail(block_chan)[i]][l] \in {0, 1}
      BY <1>6, <3>1
    <3> QED BY <1>6, <3>1, <3>2, <3>3
  <2> QED BY <1>1, <1>3, <1>7, <2>1, <2>2, <2>3 DEF BlocksOK
<1>9. EmittedOK'
  <2>1. Processed \in Level
    BY DEF Level
  <2> QED BY <1>1, <1>3, <1>4, <1>6, <1>7, <2>1 DEF FeedInv, EmittedOK
<1>10. InfosOK'
  <2>1. InfosOK
    BY DEF FeedInv
  <2>2. /\ info' \in [Level -> InfoRecord] /\ \A l \in Level : InfoOK(info'[l])
        /\ \A l \in Late, t \in Slot : Passed(info[l], t) => Passed(info'[l], t)
    BY <1>1, <2>1 DEF InfosOK
  <2>3. /\ not_yet_processed' \in [Late -> SUBSET Slot]
        /\ \A l \in Late : \A t \in not_yet_processed'[l] : t \in not_yet_processed[l]
    BY <1>1, <2>1 DEF InfosOK
  <2>4. \A l \in Late : l \in Level /\ (l \in levels => s \in not_yet_processed[l])
    BY DEF levels, Late, Level, Processed, Confirmed, Finalized
  <2> QED BY <1>6, <2>1, <2>2, <2>3, <2>4, InfosKept
<1> QED BY <1>6, <1>7, <1>8, <1>9, <1>10 DEF FeedInv

\* The emitter takes an info, which it has not read before, and keeps order among the infos.
LEMMA TakeInfoMoves ==
  ASSUME FeedInv, NEW l \in Level, TakeInfo(l)
  PROVE  /\ info' \in [Level -> InfoRecord]
         /\ \A k \in Level : InfoOK(info'[k])
         /\ \A k \in Late, s \in Slot : Passed(info[k], s) => Passed(info'[k], s)
         /\ Head(info[l].chan) \in Slot
         /\ Passed(info'[l], Head(info[l].chan))
         /\ ~Passed(info[l], Head(info[l].chan))
<1>1. info \in [Level -> InfoRecord] /\ InfoOK(info[l])
  BY DEF FeedInv, InfosOK
<1>2. PICK after : after = [info[l] EXCEPT !.chan = Tail(@)]
  OBVIOUS
<1>3. info[l].chan # <<>> /\ info' = [info EXCEPT ![l] = after]
  BY <1>1, <1>2 DEF TakeInfo
<1>4. /\ InfoOK(after)
      /\ \A s \in Slot : Passed(info[l], s) => Passed(after, s)
      /\ Head(info[l].chan) \in Slot
      /\ Passed(after, Head(info[l].chan))
      /\ ~Passed(info[l], Head(info[l].chan))
  BY <1>1, <1>2, <1>3, InfoAfterTake
<1> QED BY <1>3, <1>4, InfoMoves

\* An info without its block: at most, it is kept for later.
LEMMA InfoWaits ==
  ASSUME FeedInv, NEW l \in Level, TakeInfo(l), NEW kept \in SUBSET {Head(info[l].chan)},
         \/ UNCHANGED not_yet_processed
         \/ l \in Late /\ not_yet_processed' = [not_yet_processed EXCEPT ![l] = @ \cup kept],
         UNCHANGED <<mergeVars, block_chan, emitted, recent_processed_blocks>>
  PROVE  FeedInv'
<1> DEFINE s == Head(info[l].chan)
<1>1. /\ info' \in [Level -> InfoRecord]
      /\ \A k \in Level : InfoOK(info'[k])
      /\ \A k \in Late, t \in Slot : Passed(info[k], t) => Passed(info'[k], t)
      /\ s \in Slot /\ Passed(info'[l], s)
  BY TakeInfoMoves
<1> HIDE DEF s
<1>2. InfosOK
  BY DEF FeedInv
<1>3. not_yet_processed \in [Late -> SUBSET Slot]
  BY <1>2 DEF InfosOK
<1>4. /\ not_yet_processed' \in [Late -> SUBSET Slot]
      /\ \A k \in Late : \A t \in not_yet_processed'[k] :
           t \in not_yet_processed[k] \/ (k = l /\ t = s)
  BY <1>1, <1>3 DEF s
<1>5. InfosOK'
  BY <1>1, <1>2, <1>4, InfosKept
<1>6. MergeInv' /\ BlocksOK' /\ EmittedOK'
  <2>1. MergeInv'
    BY MergeInvStep DEF FeedInv
  <2> QED BY <2>1 DEF FeedInv, BlocksOK, EmittedOK, mergeVars
<1> QED BY <1>5, <1>6 DEF FeedInv

\* An info of a cached block: the block is emitted at that level, for the first time.
LEMMA InfoDelivers ==
  ASSUME FeedInv, NEW l \in Late, TakeInfo(l), Head(info[l].chan) \in recent_processed_blocks,
         Emit(Head(info[l].chan), {l}),
         recent_processed_blocks' \subseteq recent_processed_blocks,
         UNCHANGED <<mergeVars, block_chan, not_yet_processed>>
  PROVE  FeedInv' /\ MultiplexedFeed!FeedNext
<1> DEFINE s == Head(info[l].chan)
<1>0. l \in Level /\ l # Processed /\ Processed \in Level
  BY DEF Late, Level, Processed, Confirmed, Finalized
<1>1. /\ info' \in [Level -> InfoRecord]
      /\ \A k \in Level : InfoOK(info'[k])
      /\ \A k \in Late, t \in Slot : Passed(info[k], t) => Passed(info'[k], t)
      /\ s \in Slot /\ Passed(info'[l], s) /\ ~Passed(info[l], s)
  BY <1>0, TakeInfoMoves
<1>2. Emit(s, {l}) /\ s \in recent_processed_blocks
  OBVIOUS
<1> HIDE DEF s
<1>3. /\ emitted \in [Slot -> [Level -> {0, 1}]]
      /\ emitted[s][l] = 0 /\ emitted[s][Processed] = 1
  <2>1. emitted \in [Slot -> [Level -> {0, 1}]] /\ emitted[s][Processed] = 1
    BY <1>2 DEF FeedInv, EmittedOK
  <2>2. emitted[s][l] # 1
    BY <1>1 DEF FeedInv, InfosOK
  <2> QED BY <1>0, <1>1, <2>1, <2>2
<1>4. emitted' = [emitted EXCEPT ![s] =
                    [k \in Level |-> emitted[s][k] + (IF k \in {l} THEN 1 ELSE 0)]]
  BY <1>1, <1>2, <1>3 DEF Emit
<1>5. /\ MultiplexedFeed!FeedNext
      /\ emitted' \in [Slot -> [Level -> {0, 1}]]
      /\ emitted'[s][Processed] = 1
      /\ \A t \in Slot, k \in Level : emitted[t][k] = 1 => emitted'[t][k] = 1
      /\ \A t \in Slot, k \in Level : emitted'[t][k] = 1 => emitted[t][k] = 1 \/ (t = s /\ k \in {l})
  <2>1. {l} \in SUBSET Level /\ {l} # {} /\ \A k \in {l} : emitted[s][k] = 0
    BY <1>0, <1>3
  <2> QED BY <1>1, <1>3, <1>4, <2>1, EmitDelivers DEF FeedInv
<1>6. MergeInv' /\ sent' = sent
  BY MergeInvStep DEF FeedInv, mergeVars
<1>7. s \in sent
  BY <1>0, <1>1, <1>3 DEF FeedInv, EmittedOK
<1>8. EmittedOK'
  BY <1>0, <1>5, <1>6, <1>7 DEF FeedInv, EmittedOK
<1>9. BlocksOK'
  <2>1. ASSUME NEW i \in 1 .. Len(block_chan), NEW k \in Level
        PROVE  emitted'[block_chan[i]][k] = 0
    <3>1. block_chan[i] \in Slot /\ emitted[block_chan[i]][k] = 0 /\ emitted[block_chan[i]][Processed] = 0
      BY <1>0 DEF FeedInv, BlocksOK
    <3>2. block_chan[i] # s
      BY <1>3, <3>1
    <3>3. emitted'[block_chan[i]][k] \in {0, 1}
      BY <1>5, <3>1
    <3> QED BY <1>5, <3>1, <3>2, <3>3
  <2> QED BY <1>6, <2>1 DEF FeedInv, BlocksOK
<1>10. InfosOK'
  <2>1. InfosOK
    BY DEF FeedInv
  <2>2. not_yet_processed' \in [Late -> SUBSET Slot]
    BY <2>1 DEF InfosOK
  <2>3. \A t \in Slot, k \in Late : emitted'[t][k] = 1 => emitted[t][k] = 1 \/ Passed(info'[k], t)
    <3>1. Late \subseteq Level
      BY DEF Late, Level
    <3> QED BY <1>1, <1>5, <3>1
  <2> QED BY <1>1, <2>1, <2>2, <2>3, InfosKept
<1> QED BY <1>5, <1>6, <1>8, <1>9, <1>10 DEF FeedInv

-----------------------------------------------------------------------------
(* A round of the outer loop begins: nothing is in flight, cached or emitted.                 *)
RoundBegins ==
  /\ MergeInit
  /\ block_chan = <<>> /\ info = Fresh.info
  /\ recent_processed_blocks = {} /\ not_yet_processed = Fresh.pending /\ emitted = Fresh.emitted

LEMMA FreshRound == RoundBegins => FeedInv /\ emitted = MultiplexedFeed!Nothing
<1> SUFFICES ASSUME RoundBegins PROVE FeedInv /\ emitted = MultiplexedFeed!Nothing
  OBVIOUS
<1>1. emitted = MultiplexedFeed!Nothing
  BY DEF RoundBegins, Fresh, MultiplexedFeed!Nothing
<1>2. /\ emitted \in [Slot -> [Level -> {0, 1}]]
      /\ \A s \in Slot, l \in Level : emitted[s][l] = 0
  BY DEF RoundBegins, Fresh
<1>3. BlocksOK
  BY DEF RoundBegins, BlocksOK
<1>4. EmittedOK
  BY <1>2 DEF RoundBegins, EmittedOK
<1>5. InfosOK
  <2>1. info \in [Level -> InfoRecord]
    BY DEF RoundBegins, Fresh, InfoRecord
  <2>2. \A l \in Level : InfoOK(info[l])
    <3>1. \A l \in Level : info[l] = [tip |-> 0, sending |-> NoSlot, chan |-> <<>>]
      BY DEF RoundBegins, Fresh
    <3> QED BY <2>1, <3>1 DEF InfoOK
  <2>3. /\ not_yet_processed \in [Late -> SUBSET Slot]
        /\ \A l \in Late : not_yet_processed[l] = {}
    BY DEF RoundBegins, Fresh, Late
  <2>4. Late \subseteq Level
    BY DEF Late, Level
  <2> QED BY <1>2, <2>1, <2>2, <2>3, <2>4 DEF InfosOK
<1>6. MergeInv
  BY MergeInvInit DEF RoundBegins
<1> QED BY <1>1, <1>3, <1>4, <1>5, <1>6 DEF FeedInv

LEMMA FeedInvInit == Init => FeedInv /\ MultiplexedFeed!FeedInit
  BY FreshRound DEF Init, RoundBegins, MultiplexedFeed!FeedInit

\* A restart is a reconnect of the feed.
LEMMA RestartReconnects == Restart => FeedInv' /\ MultiplexedFeed!FeedNext
<1>1. Restart => RoundBegins'
  BY DEF Restart, RoundBegins, MergeInit, Fresh
<1>2. RoundBegins' => FeedInv' /\ (emitted = MultiplexedFeed!Nothing)'
  BY FreshRound, PTL
<1>3. (emitted = MultiplexedFeed!Nothing)' => MultiplexedFeed!FeedNext
  BY DEF MultiplexedFeed!FeedNext, MultiplexedFeed!Reconnect, MultiplexedFeed!Nothing
<1> QED BY <1>1, <1>2, <1>3

\* Every step of the multiplexer keeps the invariant, and is a step of the feed or none.
LEMMA FeedStep == FeedInv /\ [Next]_vars => FeedInv' /\ [MultiplexedFeed!FeedNext]_emitted
<1> SUFFICES ASSUME FeedInv, [Next]_vars PROVE FeedInv' /\ [MultiplexedFeed!FeedNext]_emitted
  OBVIOUS
<1>1. CASE MergeTask
  BY <1>1, MergeTaskKeeps
<1>2. CASE \E l \in Level : InfoSent(l) \/ \E slot \in Slot : InfoReceive(l, slot)
  BY <1>2, InfoTaskKeeps
<1>3. CASE \E task \in Level \cup {"merge"} : TaskExit(task)
  <2>1. UNCHANGED <<mergeVars, block_chan, info, emitVars>>
    BY <1>3 DEF TaskExit
  <2> QED BY <2>1, OthersKeep DEF emitVars
<1>4. CASE ProcessedBlock
  BY <1>4, ProcessedBlockDelivers
<1>5. CASE ProcessedInfo
  <2>1. /\ Processed \in Level /\ TakeInfo(Processed)
        /\ UNCHANGED <<mergeVars, block_chan, emitVars>>
    BY <1>5 DEF ProcessedInfo, Level
  <2>2. {} \in SUBSET {Head(info[Processed].chan)}
    OBVIOUS
  <2> QED BY <2>1, <2>2, InfoWaits DEF emitVars
<1>6. CASE ConfirmedInfo
  <2>1. /\ Confirmed \in Level /\ Confirmed \in Late /\ TakeInfo(Confirmed)
        /\ UNCHANGED <<mergeVars, block_chan, recent_processed_blocks>>
    BY <1>6 DEF ConfirmedInfo, Level, Late
  <2>2. CASE Head(info[Confirmed].chan) \in recent_processed_blocks
    <3>1. Emit(Head(info[Confirmed].chan), {Confirmed}) /\ UNCHANGED not_yet_processed
      BY <1>6, <2>2 DEF ConfirmedInfo
    <3> QED BY <2>1, <2>2, <3>1, InfoDelivers
  <2>3. CASE Head(info[Confirmed].chan) \notin recent_processed_blocks
    <3>1. /\ UNCHANGED emitted
          /\ not_yet_processed' = [not_yet_processed EXCEPT ![Confirmed] = @ \cup {Head(info[Confirmed].chan)}]
      BY <1>6, <2>3 DEF ConfirmedInfo
    <3> QED BY <2>1, <3>1, InfoWaits
  <2> QED BY <2>2, <2>3
<1>7. CASE FinalizedInfo
  <2>1. /\ Finalized \in Level /\ Finalized \in Late /\ TakeInfo(Finalized)
        /\ UNCHANGED <<mergeVars, block_chan>>
    BY <1>7 DEF FinalizedInfo, Level, Late
  <2>2. CASE Head(info[Finalized].chan) \in recent_processed_blocks
    <3>1. /\ Emit(Head(info[Finalized].chan), {Finalized}) /\ UNCHANGED not_yet_processed
          /\ recent_processed_blocks' \subseteq recent_processed_blocks
      BY <1>7, <2>2 DEF FinalizedInfo
    <3> QED BY <2>1, <2>2, <3>1, InfoDelivers
  <2>3. CASE Head(info[Finalized].chan) \notin recent_processed_blocks
    <3>1. PICK kept \in SUBSET {Head(info[Finalized].chan)} :
            not_yet_processed' = [not_yet_processed EXCEPT ![Finalized] = @ \cup kept]
      BY <1>7, <2>3 DEF FinalizedInfo
    <3>2. UNCHANGED <<emitted, recent_processed_blocks>>
      BY <1>7, <2>3 DEF FinalizedInfo
    <3> QED BY <2>1, <3>1, <3>2, InfoWaits
  <2> QED BY <2>2, <2>3
<1>8. CASE CleanupTick
  <2>1. /\ UNCHANGED <<mergeVars, block_chan, info, not_yet_processed, emitted>>
        /\ recent_processed_blocks' \subseteq recent_processed_blocks
    BY <1>8 DEF CleanupTick
  <2> QED BY <2>1, OthersKeep
<1>9. CASE Restart
  BY <1>9, RestartReconnects
<1>10. CASE UNCHANGED vars
  <2>1. UNCHANGED <<mergeVars, block_chan, info, emitVars>>
    BY <1>10 DEF vars
  <2> QED BY <2>1, OthersKeep DEF emitVars
<1> QED BY <1>1, <1>2, <1>3, <1>4, <1>5, <1>6, <1>7, <1>8, <1>9, <1>10 DEF Next, Tasks

\* The block emitter of grpc_multiplex.rs implements the feed of blocks: between two restarts a
\* block is emitted at most once at each level, as processed first or at the same time, however
\* the sources repeat and the four streams overtake each other.
THEOREM MultiplexerIsAFeed == Spec => EmitsLikeAFeed
<1>1. Spec => []FeedInv
  BY FeedInvInit, FeedStep, PTL DEF Spec
<1> QED BY <1>1, FeedInvInit, FeedStep, PTL DEF Spec, EmitsLikeAFeed, MultiplexedFeed!FeedSpec
=============================================================================
