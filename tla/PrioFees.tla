------------------------------ MODULE PrioFees -------------------------------
(* Statistics of prioritization fees (prioritization_fees/src): one task keeps those of the last
   blocks, one those of the accounts that the blocks' transactions lock.  Both read the stream of
   blocks, where the slots need not come in order, and may lag behind it.  Counts that are sums
   over the transactions are left out.                                                          *)
EXTENDS LookupTables, FiniteSets, Functions, TLC

CONSTANTS
  FeeSlot, SlotsToRetain,
  Step,               \* between two percentiles (5)
  BlockContent        \* sequences of [priority, cu, is_vote, writable, readable, alt_writable, alt_readonly]

ASSUME FeesAssumption == FeeSlot \subseteq Nat \ {0} /\ SlotsToRetain \in Nat \ {0} /\ Step \in 1 .. 100

VARIABLES
  content,            \* of the blocks, by slot
  received,           \* history: slots of the block task, as they came
  recent,             \* PrioFeeStore
  task,               \* the account task: the slot it works at (0: none), and where it is
  account_by_prio_fees_all, account_by_prio_fees_writeonly, last_fee_slot,
  message,            \* the last message of the account task: [write, all] by account
  excused, unresolved \* history: a load failed or was late; a lookup was not resolved

feeVars == <<content, received, recent, task, account_by_prio_fees_all,
             account_by_prio_fees_writeonly, last_fee_slot, message, excused, unresolved>>
accountFeeVars == <<account_by_prio_fees_all, account_by_prio_fees_writeonly, last_fee_slot, message>>

FeesInit ==
  /\ TablesInit
  /\ content \in [FeeSlot -> BlockContent] /\ received = <<>> /\ recent = <<>>
  /\ task = [slot |-> 0, at |-> "recv", seen |-> {}]
  /\ account_by_prio_fees_all = <<>> /\ account_by_prio_fees_writeonly = <<>>
  /\ last_fee_slot = 0 /\ message = <<>> /\ excused = FALSE /\ unresolved = FALSE
-----------------------------------------------------------------------------
\* BlockPrioData of the transactions without votes
PrioData(txs) ==
  LET nonvote == SelectSeq(txs, LAMBDA tx : ~tx.is_vote)
  IN  [i \in DOMAIN nonvote |-> [priority |-> nonvote[i].priority, cu_consumed |-> nonvote[i].cu]]

Percentile == {Step * k : k \in 0 .. 100 \div Step}

CuSum(data, n) == FoldLeft(LAMBDA sum, fee : sum + fee.cu_consumed, 0, SubSeq(data, 1, n))

Sorted(data) ==
  IF data = <<>> THEN <<[priority |-> 0, cu_consumed |-> 0]>>
  ELSE SortSeq(data, LAMBDA x, y : x.priority < y.priority)

\* calculate_supp_percentiles, by transactions: the index is capped
ByTx(data) ==
  LET fees == Sorted(data)
      Index(p) == (Len(fees) * p) \div 100
  IN  [p \in Percentile |->
         fees[(IF Index(p) < Len(fees) THEN Index(p) ELSE Len(fees) - 1) + 1].priority]

\* By compute units: the index moves on from one percentile to the next, until enough are consumed.
ByCu(data) ==
  LET fees == Sorted(data)
      agg == [i \in DOMAIN fees |-> CuSum(fees, i)]
      MoveOn(index, p) ==
        Min({i \in index .. Len(fees) : agg[i] >= (agg[Len(fees)] * p) \div 100})
      indexes == FoldLeft(LAMBDA found, p : Append(found, MoveOn(Last(found), p)), <<1>>,
                          SetToSortSeq(Percentile, <))
  IN  [p \in Percentile |-> fees[indexes[p \div Step + 2]].priority]

CalculateStats(data) == [by_tx |-> ByTx(data), by_cu |-> ByCu(data)]

NoStats == [by_tx |-> <<>>, by_cu |-> <<>>]   \* PrioFeesStats::default

\* (faulty: one slot more)
RecentSlotsAndOne(store, slot) == Restrict(store, {s \in DOMAIN store : s + SlotsToRetain >= slot})

\* retain: slot > processed_slot.saturating_sub(slots_to_retain)
RecentSlots(store, slot) == Restrict(store, {s \in DOMAIN store : s + SlotsToRetain > slot})

\* start_block_priofees_task: a processed block
BlockReceived(slot) ==
  /\ slot \notin Range(received)
  /\ received' = Append(received, slot)
  /\ recent' = RecentSlots(slot :> PrioData(content[slot]) @@ recent, slot)
  /\ UNCHANGED <<tableVars, content, task, accountFeeVars, excused, unresolved>>

\* get_last_n_priofees_aggregate
LastN(n) ==
  LET slots == SetToSortSeq(DOMAIN recent, >)
  IN  FoldLeft(LAMBDA sum, slot : sum \o recent[slot], <<>>,
               SubSeq(slots, 1, IF n < Len(slots) THEN n ELSE Len(slots)))
-----------------------------------------------------------------------------
Work(slot, at) == task' = [slot |-> slot, at |-> at, seen |-> task.seen \cup {slot}]

Lookups(txs) == UNION {txs[i].alt_writable \cup txs[i].alt_readonly : i \in {j \in DOMAIN txs : ~txs[j].is_vote}}

\* AccountPrioStore::update: tables that are needed are loaded first.  (A block uses addresses that
\* the table has at the node.)
UpdateBegins(slot) ==
  /\ task.at = "recv" /\ slot \notin task.seen
  /\ Lookups(content[slot]) \subseteq 0 .. table - 1
  /\ IF Lookups(content[slot]) # {} /\ NeedsLoad(Lookups(content[slot]))
     THEN Len(loads) < MaxLoads /\ StartLoad /\ Work(slot, "load")
     ELSE Work(slot, "update") /\ UNCHANGED loads
  /\ excused' = FALSE
  /\ UNCHANGED <<table, map, content, received, recent, accountFeeVars, unresolved>>

\* The newest load is the one that is waited for; an older one may end at any time.
Waited(k) == task.at = "load" /\ k = Len(loads)
LoadStep(k) ==
  /\ \/ Answer(k) /\ UNCHANGED <<task, excused>>
     \/ LoadFails(k) /\ (IF Waited(k) THEN Work(task.slot, "update") /\ excused' = TRUE ELSE UNCHANGED <<task, excused>>)
     \/ SaveAccount(k) /\ (IF Waited(k) THEN Work(task.slot, "update") /\ excused' = FALSE ELSE excused' = TRUE /\ UNCHANGED task)
  /\ UNCHANGED <<content, received, recent, accountFeeVars, unresolved>>

LoadTimeout ==
  /\ task.at = "load"
  /\ Work(task.slot, "update") /\ excused' = TRUE
  /\ UNCHANGED <<tableVars, content, received, recent, accountFeeVars, unresolved>>

Writable(tx) == tx.writable \cup Resolved(tx.alt_writable)
Readable(tx) == tx.readable \cup Resolved(tx.alt_readonly)

\* What the transactions that lock an account for writing (or for reading, if asked) paid, by account
ByAccount(txs, readers) ==
  LET nonvote == SelectSeq(txs, LAMBDA tx : ~tx.is_vote)
      Locks(tx) == Writable(tx) \cup (IF readers THEN Readable(tx) ELSE {})
  IN  [a \in UNION {Locks(nonvote[i]) : i \in DOMAIN nonvote} |->
         PrioData(SelectSeq(nonvote, LAMBDA tx : a \in Locks(tx)))]

StoredFees(store, data, slot) ==
  [a \in DOMAIN store \cup DOMAIN data |->
     IF a \in DOMAIN data THEN slot :> data[a] @@ (IF a \in DOMAIN store THEN store[a] ELSE <<>>)
     ELSE store[a]]

CleanedUp(store, slot) ==
  LET kept == [a \in DOMAIN store |-> RecentSlots(store[a], slot)]
  IN  Restrict(kept, {a \in DOMAIN kept : kept[a] # <<>>})

\* The rest of update: both maps of the block go to account_by_prio_fees_writeonly.
UpdateEnds ==
  /\ task.at = "update"
  /\ LET txs == content[task.slot]
         write == ByAccount(txs, FALSE)
         all == ByAccount(txs, TRUE)
     IN  /\ account_by_prio_fees_writeonly' =
              CleanedUp(StoredFees(StoredFees(account_by_prio_fees_writeonly, write, task.slot), all, task.slot), task.slot)
         /\ account_by_prio_fees_all' = CleanedUp(account_by_prio_fees_all, task.slot)
         /\ message' = [a \in DOMAIN all |->
              [write_stats |-> IF a \in DOMAIN write THEN CalculateStats(write[a]) ELSE NoStats,
               all_stats |-> CalculateStats(all[a])]]
         /\ unresolved' = (~excused /\ \E i \in {j \in DOMAIN txs : ~txs[j].is_vote} :
              \E indexes \in {txs[i].alt_writable, txs[i].alt_readonly} \ {{}} : Resolved(indexes) = {})
  /\ last_fee_slot' = task.slot
  /\ task' = [task EXCEPT !.slot = 0, !.at = "recv"]
  /\ UNCHANGED <<tableVars, content, received, recent, excused>>

\* get_latest_stats
LatestStats(a) ==
  LET Latest(store) == IF a \in DOMAIN store THEN store[a][CHOOSE s \in DOMAIN store[a] : \A t \in DOMAIN store[a] : t <= s]
                       ELSE <<>>
  IN  [write_stats |-> CalculateStats(Latest(account_by_prio_fees_writeonly)),
       all_stats |-> CalculateStats(Latest(account_by_prio_fees_all))]

AccountTask ==
  \/ \E slot \in FeeSlot : UpdateBegins(slot)
  \/ ExtendTable /\ UNCHANGED feeVars
  \/ \E k \in DOMAIN loads : LoadStep(k)
  \/ LoadTimeout \/ UpdateEnds

FeesNext == AccountTask \/ \E slot \in FeeSlot : BlockReceived(slot)

FeesSpec == FeesInit /\ [][FeesNext]_<<tableVars, feeVars>>
-----------------------------------------------------------------------------
\* The blocks that the service may answer from: none is older than one that came later allows
Window == {slot \in FeeSlot : \E i \in DOMAIN received :
             received[i] = slot /\ \A j \in i .. Len(received) : received[j] < slot + SlotsToRetain}

\* What getLatestBlockPrioFees answers for the last n blocks, however the slots came: at every
\* percentile, the lowest fee such that the transactions of the n youngest blocks in the window
\* that paid no more have that share of the compute units; the two arrays are monotonic.
LastNStats ==
  recent # <<>> => \A n \in 1 .. Cardinality(FeeSlot) :
    LET slots == {s \in Window : Cardinality({t \in Window : t > s}) < n}
        paid == {<<s, i>> \in slots \X (1 .. 3) : i \in DOMAIN content[s] /\ ~content[s][i].is_vote}
        Tx(id) == content[id[1]][id[2]]
        Units(ids) == FoldLeft(LAMBDA sum, id : sum + Tx(id).cu, 0, SetToSeq(ids))
        fees == {Tx(id).priority : id \in paid}
        stats == CalculateStats(LastN(n))
    IN  /\ fees # {} => \A p \in Percentile :
             stats.by_cu[p] = CHOOSE f \in fees :
               /\ Units({id \in paid : Tx(id).priority <= f}) >= (Units(paid) * p) \div 100
               /\ \A g \in fees : g < f =>
                    Units({id \in paid : Tx(id).priority <= g}) < (Units(paid) * p) \div 100
        /\ \A p, q \in Percentile : p <= q => stats.by_tx[p] <= stats.by_tx[q] /\ stats.by_cu[p] <= stats.by_cu[q]

\* The accounts that a block's transactions lock through lookup tables are all counted, unless the
\* load failed, took too long, or the answer to an earlier load came in between.
LookupsResolved == ~unresolved

\* "Number of accounts in priofees cache" and "Number of write accounts in priofees cache" (the
\* gauges of the two maps): what getLatestAccountPrioFees answers for an account of the last block
\* is what its subscribers were told.
AccountStatsAgree ==
  (\A slot \in task.seen : slot <= last_fee_slot) =>
    \A a \in DOMAIN message :
      /\ LatestStats(a).all_stats = message[a].all_stats
      /\ message[a].write_stats # NoStats => LatestStats(a).write_stats = message[a].write_stats
=============================================================================
