--------------------------- MODULE PrioFeeHeapRef ---------------------------
(* The heap under its mutex: every operation is one atomic step.  Beside it
   runs a reference of a few lines, a plain list in order of arrival without
   cells and without an index, and the invariants compare the two.           *)
EXTENDS PrioFeeHeap

CONSTANT Heights   \* block heights remove_expired_transactions is called with

VARIABLES
  prio_heap, \* the heap
  arrivals,  \* the reference: queued signatures, oldest first
  result,    \* what the last operation returned
  expected   \* what the reference says it should have returned

refVars == <<prio_heap, arrivals, result, expected>>

-----------------------------------------------------------------------------
\* The reference.

FeesIn(list) == {Fee[s] : s \in ToSet(list)}
WithoutOldest(list, fee) == RemoveFirstMatch(list, LAMBDA s : Fee[s] = fee)
OldestOf(list, fee) == Head(SelectSeq(list, LAMBDA s : Fee[s] = fee))

RefInsert(list, s) ==
  IF Contains(list, s) THEN list
  ELSE IF Len(list) < MaxTxs THEN Append(list, s)
  ELSE IF Fee[s] > Min(FeesIn(list))
       THEN Append(WithoutOldest(list, Min(FeesIn(list))), s)
       ELSE list

-----------------------------------------------------------------------------
RefInit ==
  /\ prio_heap = EmptyHeap
  /\ arrivals = <<>>
  /\ result = 0
  /\ expected = 0

InsertTx(s) ==
  /\ prio_heap' = Insert(prio_heap, s)
  /\ arrivals' = RefInsert(arrivals, s)
  /\ result' = 0
  /\ expected' = 0

PopTx ==
  /\ ~IsEmptyHeap(prio_heap)
  /\ result' = PopElement(prio_heap)
  /\ prio_heap' = Pop(prio_heap)
  /\ expected' = OldestOf(arrivals, Max(FeesIn(arrivals)))
  /\ arrivals' = WithoutOldest(arrivals, Max(FeesIn(arrivals)))

RemoveExpiredTxs(height) ==
  /\ prio_heap' = RemoveExpired(prio_heap, height)
  /\ result' = Cardinality(Expired(prio_heap, height))
  /\ arrivals' = SelectSeq(arrivals, LAMBDA s : Lvbh[s] > height)
  /\ expected' = Len(arrivals) - Len(arrivals')

\* clear returns the number of signatures it drops.
ClearTxs ==
  /\ prio_heap' = EmptyHeap
  /\ result' = Cardinality(prio_heap.signatures)
  /\ expected' = Len(arrivals)
  /\ arrivals' = <<>>

RefNext ==
  \/ \E s \in Sig : InsertTx(s)
  \/ PopTx
  \/ \E height \in Heights : RemoveExpiredTxs(height)
  \/ ClearTxs

RefSpec == RefInit /\ [][RefNext]_refVars

-----------------------------------------------------------------------------
\* The fee cells and the index hold what a plain arrival-ordered list would hold, in the
\* same order within a fee, no cell is left empty (pop_front().unwrap() would panic on one),
\* and every operation returned what that list would have: pop the oldest of the highest
\* fee, the others the counts of what was dropped.  So a full heap gives up the cheapest
\* transaction it knows, and only for a dearer one.
MatchesReference ==
  /\ result = expected
  /\ prio_heap.signatures = ToSet(arrivals)
  /\ DOMAIN prio_heap.map = FeesIn(arrivals)
  /\ \A f \in DOMAIN prio_heap.map :
       prio_heap.map[f] = SelectSeq(arrivals, LAMBDA s : Fee[s] = f)
=============================================================================
