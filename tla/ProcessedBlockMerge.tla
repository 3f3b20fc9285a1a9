------------------------ MODULE ProcessedBlockMerge ------------------------
(***************************************************************************)
(* The merging task of create_grpc_multiplex_processed_block_task          *)
(* (cluster-endpoints/src/grpc_multiplex.rs): several geyser sources send  *)
(* the blocks they process, in any order and again after a reconnect; the  *)
(* task forwards one block per slot.  It remembers the MaxSize youngest    *)
(* slots it forwarded.                                                     *)
(***************************************************************************)
EXTENDS Naturals, FiniteSets

CONSTANTS
  Slot,       \* slots of the blocks the sources send
  MaxSize,    \* MAX_SIZE of slots_processed
  NoSlot      \* no block is being sent

ASSUME MergeAssumption ==
  /\ Slot \subseteq Nat
  /\ NoSlot \notin Slot
  /\ MaxSize \in Nat \ {0}

VARIABLES
  slots_processed,  \* BTreeSet of the slots forwarded last
  sending,          \* the slot whose block waits for room in block_sender
  sent              \* history: every slot forwarded

mergeVars == <<slots_processed, sending, sent>>

MergeInit ==
  /\ slots_processed = {}
  /\ sending = NoSlot
  /\ sent = {}

\* slot <= slots_processed.first(), where the first of an empty set is 0
NotAfterFirst(slot) ==
  IF slots_processed = {} THEN slot <= 0 ELSE \A s \in slots_processed : slot <= s

\* "the slot is too old to process"
TooOld(slot) ==
  /\ Cardinality(slots_processed) >= MaxSize \div 2
  /\ NotAfterFirst(slot)

\* A block arrives from some source and passes both checks.
MergeReceive(slot) ==
  /\ sending = NoSlot
  /\ slot \notin slots_processed
  /\ ~TooOld(slot)
  /\ sending' = slot
  /\ UNCHANGED <<slots_processed, sent>>

\* A block of a slot that was forwarded, or that is too old, is dropped.
MergeSkip(slot) ==
  /\ sending = NoSlot
  /\ slot \in slots_processed \/ TooOld(slot)
  /\ UNCHANGED mergeVars

\* (faulty: pop_last instead of pop_first)
RememberOldest(slot, after) ==
  LET grown == slots_processed \cup {slot} IN
    IF Cardinality(grown) > MaxSize
    THEN \E last \in grown : /\ \A s \in grown : last >= s
                             /\ after = grown \ {last}
    ELSE after = grown

\* slots_processed.insert(slot), then pop_first() above MAX_SIZE
Remember(slot, after) ==
  LET grown == slots_processed \cup {slot} IN
    IF Cardinality(grown) > MaxSize
    THEN \E first \in grown : /\ \A s \in grown : first <= s
                              /\ after = grown \ {first}
    ELSE after = grown

\* block_sender.send returned.
MergeSent ==
  /\ sending \in Slot
  /\ Remember(sending, slots_processed')
  /\ sent' = sent \cup {sending}
  /\ sending' = NoSlot

MergeNext == MergeSent \/ \E slot \in Slot : MergeReceive(slot) \/ MergeSkip(slot)

MergeSpec == MergeInit /\ [][MergeNext]_mergeVars
-----------------------------------------------------------------------------
\* The state has the shape the declarations say; slots_processed, which is
\* pruned after every send, never exceeds MAX_SIZE.
MergeTypeOK ==
  /\ slots_processed \subseteq Slot
  /\ IsFiniteSet(slots_processed)
  /\ Cardinality(slots_processed) <= MaxSize
  /\ sending \in Slot \cup {NoSlot}
  /\ sent \subseteq Slot

\* The block being forwarded is of a slot that was never forwarded before,
\* although the task forgets all but the MaxSize youngest slots.
NoSlotSentTwice == sending \in Slot => sending \notin sent

=============================================================================
