---------------------------- MODULE PrioFeeHeap ----------------------------
(* The bounded priority buffer of transactions that every TPU connection
   drains (core/src/structures/prioritization_fee_heap.rs), as operators on a
   heap value.  A heap is a record
     map        : fee |-> queue of signatures, only fees with a cell present
                  (BTreeMap<u64, VecDeque<SentTransactionInfo>>)
     signatures : the set of the queued signatures (HashSet<Signature>)
   A transaction is identified by its signature: the signature covers the
   message, so it determines the fee and the recent blockhash.              *)
EXTENDS Integers, Sequences, FiniteSets, FiniteSetsExt, SequencesExt

CONSTANTS
  Sig,      \* signatures of the transactions that may be queued
  Fee,      \* Fee[s]: the prioritization fee of s
  Lvbh,     \* Lvbh[s]: the last block height at which s is valid
  MaxTxs    \* max_number_of_transactions

ASSUME HeapAssumption ==
  /\ IsFiniteSet(Sig)
  /\ Fee \in [Sig -> Nat]
  /\ Lvbh \in [Sig -> Nat]
  /\ MaxTxs \in Nat \ {0}

EmptyHeap == [map |-> <<>>, signatures |-> {}]

\* pop_front on the queue of one cell, dropping the cell when it runs empty.
PopFront(map, fee) ==
  IF Tail(map[fee]) = <<>>
  THEN Restrict(map, DOMAIN map \ {fee})
  ELSE [map EXCEPT ![fee] = Tail(@)]

\* push_back on the queue of a cell, creating the cell when it is missing.
PushBack(map, s) ==
  [f \in DOMAIN map \cup {Fee[s]} |->
     IF f # Fee[s] THEN map[f]
     ELSE IF f \in DOMAIN map THEN Append(map[f], s) ELSE <<s>>]

\* The heap without the oldest transaction of the cell of the given fee.
TakeFrom(heap, fee) ==
  [map |-> PopFront(heap.map, fee),
   signatures |-> heap.signatures \ {Head(heap.map[fee])}]

IsEmptyHeap(heap) == DOMAIN heap.map = {}

\* What pop returns on a heap that is not empty, and what it leaves.
PopElement(heap) == Head(heap.map[Max(DOMAIN heap.map)])
Pop(heap) == TakeFrom(heap, Max(DOMAIN heap.map))

\* A transaction that was accepted goes to the end of its cell.
Queued(heap, s) ==
  [map |-> PushBack(heap.map, s), signatures |-> heap.signatures \cup {s}]

\* (faulty: a fee equal to the lowest one is accepted)
InsertAcceptEqual(heap, s) ==
  IF \/ s \in heap.signatures
     \/ Cardinality(heap.signatures) >= MaxTxs /\ Fee[s] < Min(DOMAIN heap.map)
  THEN heap
  ELSE LET pushed == Queued(heap, s)
       IN  IF Cardinality(pushed.signatures) > MaxTxs
           THEN TakeFrom(pushed, Min(DOMAIN pushed.map))
           ELSE pushed

\* insert: a known signature is ignored; a full heap rejects a fee that does
\* not exceed its lowest one, and otherwise evicts the oldest of the lowest.
Insert(heap, s) ==
  IF \/ s \in heap.signatures
     \/ /\ Cardinality(heap.signatures) >= MaxTxs
        /\ Fee[s] <= Min(DOMAIN heap.map)
  THEN heap
  ELSE LET pushed == Queued(heap, s)
       IN  IF Cardinality(pushed.signatures) > MaxTxs
           THEN TakeFrom(pushed, Min(DOMAIN pushed.map))
           ELSE pushed

Expired(heap, height) == {s \in heap.signatures : Lvbh[s] <= height}

\* remove_expired_transactions; it returns Cardinality(Expired(heap, height)).
RemoveExpired(heap, height) ==
  LET Keep(s) == Lvbh[s] > height
      kept(f) == SelectSeq(heap.map[f], Keep)
  IN  [map |-> [f \in {g \in DOMAIN heap.map : kept(g) # <<>>} |-> kept(f)],
       signatures |-> heap.signatures \ Expired(heap, height)]
=============================================================================
