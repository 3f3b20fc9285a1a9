----------------------------- MODULE BlockStore ------------------------------
(* The postgres block store (blockstore/src/block_stores): a task prepares the schema
   of the current and of the next epoch statement by statement, a task saves
   confirmed blocks (the block, then its transactions in chunks on parallel
   sessions), clients query blocks.  Nothing of it runs in a database transaction: a
   crash leaves what was executed so far, and readers see it.

   A block is its slot; its transactions are records with the two text columns whose
   order differs between the statements.                                           *)
EXTENDS Integers, FiniteSets, SequencesExt, FiniteSetsExt

CONSTANTS
  SlotsInEpoch,
  Transactions,        \* slot -> its transactions (a sequence); its domain: slots with a block
  PARALLEL_WRITE_SESSIONS,
  MIN_WRITE_CHUNK_SIZE,
  Debounce,            \* slots between two preparations
  MaxSlot,             \* bound: last slot
  MaxFaults,           \* bound: crashes and broken connections
  Null

ASSUME BlockStoreAssumption ==
  /\ {SlotsInEpoch, PARALLEL_WRITE_SESSIONS, MIN_WRITE_CHUNK_SIZE, Debounce} \subseteq Nat \ {0}
  /\ MaxSlot \in Nat /\ MaxFaults \in Nat

EpochAt(slot) == slot \div SlotsInEpoch
Epoch == 0 .. EpochAt(MaxSlot) + 1
Session == 1 .. PARALLEL_WRITE_SESSIONS
StoredSlot == DOMAIN Transactions

VARIABLES
  slot,                \* processed slot of the cluster
  schema,              \* epoch -> statements of its creation that were executed
  blocks,              \* slots in the blocks tables
  ids,                 \* signatures in the transaction_ids tables, with their epoch
  data,                \* rows of the transaction_blockdata tables
  temp,                \* transaction_raw_blockdata of each write session
  connected,                \* write sessions whose connection is up
  guards,              \* write sessions whose RwLock is read-locked by the writer
  cached,              \* the session of the PostgresSessionCache is up
  prep,                \* the preparing task: epochs to do, statements of the first one done,
                       \* debounce_slot, first_run_signal, the slot it started with
  writer,              \* the saving task: pc, purpose, block, next session, its chunks
  reader,              \* a client: pc, slot asked for, the transactions it got
  saved,               \* history variable: blocks that save_block inserted with Ok
  interrupted,         \* history variable: epochs whose preparation was cut by a crash
  faults

blocksVars == <<slot, schema, blocks, ids, data, temp, connected, guards, cached, prep, writer, reader, saved,
          interrupted, faults>>
db == <<schema, blocks, ids, data>>
sessions == <<temp, connected, guards>>
others == <<cached, prep, reader>>
aux == <<saved, interrupted, faults>>

-----------------------------------------------------------------------------
\* start_new_epoch_if_necessary: schema, permissions, blocks, transactions, foreign key
CREATE_BLOCKS == 3
CREATE_TRANSACTIONS == 4
CREATE_ALL == 5

\* The row of save_transactions_from_block in the temporary table: the COPY names
\* recent_blockhash before err, the writer writes err before recent_blockhash
Raw(tx) == [signature |-> tx.signature, slot |-> tx.slot,
            recent_blockhash |-> tx.err, err |-> tx.recent_blockhash]

\* (faulty: the columns in the order of the temporary table)
RowInOrder(raw) == raw

\* The row of transaction_blockdata: INSERT without column names, in the order of the table
\* (recent_blockhash, err), selects err before recent_blockhash
Row(raw) == [signature |-> raw.signature, slot |-> raw.slot,
             recent_blockhash |-> raw.err, err |-> raw.recent_blockhash]

\* div_ceil, and the chunks of save_block
DivCeil(a, b) == (a + b - 1) \div b
ChunkSize(n) == Max({DivCeil(n, PARALLEL_WRITE_SESSIONS), MIN_WRITE_CHUNK_SIZE})
Chunk(s, i) == LET txs == Transactions[s]
                   size == ChunkSize(Len(txs))
               IN  SubSeq(txs, (i - 1) * size + 1, Min({i * size, Len(txs)}))
Chunks(s) == DivCeil(Len(Transactions[s]), ChunkSize(Len(Transactions[s])))

\* PostgresTransaction::build_query_statement, to_transaction_info
StoredTransactions(s) == {row \in data : row.slot = s}

\* get_slot_range_by_epoch: fails if a schema has no blocks table yet
RangesReadable == \A e \in Epoch : schema[e] = 0 \/ schema[e] >= CREATE_BLOCKS
SlotsOf(e) == {s \in blocks : EpochAt(s) = e}
RangeOf(e) == IF SlotsOf(e) = {} THEN Null ELSE Min(SlotsOf(e)) .. Max(SlotsOf(e))

\* (faulty: the newest block of the epoch does not count)
IsBlockInRangeExclusive(s) == \E t \in SlotsOf(EpochAt(s)) : t > s

\* is_block_in_range: there is a range, whether or not the slot is in it
IsBlockInRange(s) == RangeOf(EpochAt(s)) # Null

Idle == [pc |-> "idle", for |-> "block", slot |-> Null, next |-> 1, chunk |-> <<>>]
NotPrepared == [todo |-> <<>>, step |-> 0, debounce |-> 0, first |-> FALSE, since |-> Null]
Asks == [pc |-> "idle", slot |-> Null, found |-> {}, before |-> FALSE]

BlocksInit ==
  /\ slot = 0
  /\ schema = [e \in Epoch |-> 0]
  /\ blocks = {} /\ ids = {} /\ data = {}
  /\ temp = [i \in Session |-> {}] /\ connected = Session /\ guards = {}
  /\ cached = TRUE
  /\ prep = NotPrepared
  /\ writer = Idle /\ reader = Asks
  /\ saved = {} /\ interrupted = {} /\ faults = 0
-----------------------------------------------------------------------------
\* external: the cluster goes on
NewSlot ==
  /\ slot < MaxSlot /\ slot' = slot + 1
  /\ UNCHANGED <<db, sessions, others, writer, aux>>


\* prepare_epoch_schema: current and next epoch
EpochsToPrepare == <<EpochAt(slot), EpochAt(slot) + 1>>

\* storage_prepare_epoch_schema: a slot notification that is not debounced
PrepareEpochSchema ==
  /\ prep.todo = <<>> /\ slot >= prep.debounce
  /\ prep' = [prep EXCEPT !.todo = EpochsToPrepare, !.debounce = slot + Debounce,
                          !.since = IF @ = Null THEN slot ELSE @]
  /\ cached' = TRUE
  /\ UNCHANGED <<slot, db, sessions, reader, writer, aux>>

\* One statement of start_new_epoch_if_necessary.  A schema that exists is taken as it is.
PrepareStatement ==
  /\ prep.todo # <<>>
  /\ LET e == Head(prep.todo)
         done == prep.step = 0 /\ schema[e] > 0
         rest == [prep EXCEPT !.todo = Tail(@), !.step = 0, !.first = @ \/ Len(prep.todo) = 1]
     IN  /\ schema' = IF done THEN schema ELSE [schema EXCEPT ![e] = prep.step + 1]
         /\ prep' = IF done \/ prep.step + 1 = CREATE_ALL THEN rest ELSE [prep EXCEPT !.step = @ + 1]
  /\ UNCHANGED <<slot, blocks, ids, data, sessions, cached, reader, writer, aux>>
-----------------------------------------------------------------------------
\* save_block for a block of the stream, which may come again
SaveBlock(s) ==
  /\ writer.pc = "idle" /\ prep.first /\ s <= slot
  /\ writer' = [Idle EXCEPT !.pc = "session", !.slot = s]
  /\ UNCHANGED <<slot, db, sessions, others, aux>>

\* optimize_blocks_table after a block; the ANALYZE itself runs beside
OptimizeBlocksTable(s) ==
  /\ writer.pc = "idle" /\ s \in blocks
  /\ writer' = [Idle EXCEPT !.pc = "session", !.for = "optimize",
                            !.next = (s % PARALLEL_WRITE_SESSIONS) + 1]
  /\ UNCHANGED <<slot, db, sessions, others, aux>>

\* get_write_session: a read guard ...
LockSession ==
  /\ writer.pc = "session"
  /\ guards' = guards \cup {writer.next}
  /\ writer' = [writer EXCEPT !.pc = "locked"]
  /\ UNCHANGED <<slot, db, temp, connected, others, aux>>

\* ... and, if the connection is down, a write guard for the new session, while the read
\* guard is held
GetWriteSession ==
  /\ writer.pc = "locked"
  /\ writer.next \notin connected => writer.next \notin guards
  /\ connected' = connected \cup {writer.next} /\ guards' = guards \ {writer.next}
  /\ writer' = CASE writer.for = "block" -> [writer EXCEPT !.pc = "insert"]
                 [] writer.for = "optimize" -> Idle
                 [] OTHER -> [writer EXCEPT !.chunk = Append(@, "copy"), !.next = @ + 1,
                                !.pc = IF writer.next = Chunks(writer.slot) THEN "save" ELSE "session"]
  /\ UNCHANGED <<slot, db, temp, others, aux>>

\* PostgresBlock::save: without a blocks table it fails, and so does the task; a block that
\* exists is skipped.
InsertBlock ==
  LET s == writer.slot
  IN  /\ writer.pc = "insert"
      /\ IF 1 \notin connected \/ schema[EpochAt(s)] < CREATE_BLOCKS
         THEN writer' = [Idle EXCEPT !.pc = "dead", !.slot = s] /\ UNCHANGED <<blocks, saved>>
         ELSE /\ blocks' = blocks \cup {s}
              /\ writer' = IF s \in blocks \/ Chunks(s) = 0 THEN Idle
                           ELSE [writer EXCEPT !.pc = "session", !.for = "transactions"]
              /\ saved' = IF s \notin blocks /\ Chunks(s) = 0 THEN saved \cup {s} ELSE saved
      /\ UNCHANGED <<slot, schema, ids, data, sessions, others, interrupted, faults>>

Progress(i, result) == writer' = [writer EXCEPT !.chunk[i] = result]
Saving(i, at) == writer.pc = "save" /\ i \in DOMAIN writer.chunk /\ writer.chunk[i] = at

\* save_transactions_from_block: the temporary table of the session, emptied and filled ...
CopyChunk(i) ==
  /\ Saving(i, "copy") /\ i \in connected
  /\ temp' = [temp EXCEPT ![i] = {Raw(tx) : tx \in ToSet(Chunk(writer.slot, i))}]
  /\ Progress(i, "ids")
  /\ UNCHANGED <<slot, db, connected, guards, others, aux>>

\* ... the signatures get ids ...
InsertIds(i) ==
  /\ Saving(i, "ids") /\ i \in connected /\ schema[EpochAt(writer.slot)] >= CREATE_TRANSACTIONS
  /\ ids' = ids \cup {raw.signature : raw \in temp[i]}
  /\ Progress(i, "data")
  /\ UNCHANGED <<slot, schema, blocks, data, sessions, others, aux>>

\* ... and the rows refer to them (primary key: the id; foreign key: the block).
InsertData(i) ==
  /\ Saving(i, "data") /\ i \in connected
  /\ \A raw \in temp[i] : raw.signature \in ids /\ raw.slot \in blocks
  /\ data' = data \cup {Row(raw) : raw \in temp[i]}
  /\ Progress(i, "done")
  /\ UNCHANGED <<slot, schema, blocks, ids, sessions, others, aux>>

\* A statement fails: its connection is down, or its table is missing
ChunkFails(i) ==
  /\ \/ i \notin connected /\ \E at \in {"copy", "ids", "data"} : Saving(i, at)
     \/ Saving(i, "ids") /\ schema[EpochAt(writer.slot)] < CREATE_TRANSACTIONS
  /\ Progress(i, "failed")
  /\ UNCHANGED <<slot, db, sessions, others, aux>>

\* All results are there; one that failed ends the task.
SaveEnds ==
  /\ writer.pc = "save" /\ \A i \in DOMAIN writer.chunk : writer.chunk[i] \in {"done", "failed"}
  /\ IF "failed" \in ToSet(writer.chunk)
     THEN writer' = [Idle EXCEPT !.pc = "dead", !.slot = writer.slot] /\ UNCHANGED saved
     ELSE writer' = Idle /\ saved' = saved \cup {writer.slot}
  /\ UNCHANGED <<slot, db, sessions, others, interrupted, faults>>
-----------------------------------------------------------------------------
\* MultipleStrategyBlockStorage::query_block: the range check.  A schema without tables makes
\* it fail; there is no archive to ask for a block out of range.
QueryRange(s) ==
  /\ reader.pc = "idle"
  /\ reader' = [Asks EXCEPT !.slot = s, !.before = s \in saved,
                 !.pc = IF ~RangesReadable THEN "panic"
                        ELSE IF IsBlockInRange(s) THEN "block" ELSE "notfound"]
  /\ cached' = TRUE
  /\ UNCHANGED <<slot, db, sessions, prep, writer, aux>>

\* PostgresQueryBlockStore::query_block: the row of the block ...
QueryBlock ==
  /\ reader.pc = "block"
  /\ reader' = [reader EXCEPT !.pc = IF reader.slot \in blocks THEN "transactions" ELSE "notfound"]
  /\ cached' = TRUE
  /\ UNCHANGED <<slot, db, sessions, prep, writer, aux>>

\* ... then the rows of its transactions.
QueryTransactions ==
  /\ reader.pc = "transactions"
  /\ reader' = IF schema[EpochAt(reader.slot)] < CREATE_TRANSACTIONS
               THEN [reader EXCEPT !.pc = "panic"]
               ELSE [reader EXCEPT !.pc = "found", !.found = StoredTransactions(reader.slot)]
  /\ cached' = TRUE
  /\ UNCHANGED <<slot, db, sessions, prep, writer, aux>>

\* The client got its answer
QueryEnds ==
  /\ reader.pc \in {"found", "notfound", "panic"}
  /\ reader' = Asks
  /\ UNCHANGED <<slot, db, sessions, cached, prep, writer, aux>>
-----------------------------------------------------------------------------
\* The connection of a write session breaks
WriteConnectionBreaks(i) ==
  /\ faults < MaxFaults /\ faults' = faults + 1
  /\ i \in connected /\ connected' = connected \ {i}
  /\ temp' = [temp EXCEPT ![i] = {}]
  /\ UNCHANGED <<slot, db, guards, others, writer, saved, interrupted>>

\* The connection of the session cache breaks: get_session opens another one, but a task
\* in the middle of its statements fails (the preparing task for good).
CachedConnectionBreaks ==
  /\ faults < MaxFaults /\ faults' = faults + 1
  /\ cached /\ cached' = FALSE
  /\ IF prep.todo # <<>>
     THEN /\ prep' = [prep EXCEPT !.todo = <<>>, !.step = 0, !.debounce = MaxSlot + 1]
          /\ interrupted' = interrupted \cup {e \in Epoch : e >= Head(prep.todo)}
     ELSE UNCHANGED <<prep, interrupted>>
  /\ reader' = IF reader.pc \in {"block", "transactions"} THEN [reader EXCEPT !.pc = "panic"] ELSE reader
  /\ UNCHANGED <<slot, db, sessions, writer, saved>>

\* The process crashes and restarts: the database is what is left.
Crash ==
  /\ faults < MaxFaults /\ faults' = faults + 1
  /\ temp' = [i \in Session |-> {}] /\ connected' = Session /\ guards' = {}
  /\ cached' = TRUE
  /\ prep' = NotPrepared
  /\ writer' = Idle /\ reader' = Asks
  /\ interrupted' = IF prep.step > 0 THEN interrupted \cup {Head(prep.todo)} ELSE interrupted
  /\ UNCHANGED <<slot, db, saved>>

Prepare == PrepareEpochSchema \/ PrepareStatement
Chunking(i) == CopyChunk(i) \/ InsertIds(i) \/ InsertData(i) \/ ChunkFails(i)
Write == LockSession \/ GetWriteSession \/ InsertBlock \/ SaveEnds \/ \E i \in Session : Chunking(i)

BlocksNext ==
  \/ NewSlot \/ Prepare \/ Write
  \/ \E s \in StoredSlot : SaveBlock(s) \/ OptimizeBlocksTable(s)
  \/ \E s \in 0 .. MaxSlot : QueryRange(s)
  \/ QueryBlock \/ QueryTransactions \/ QueryEnds
  \/ \E i \in Session : WriteConnectionBreaks(i)
  \/ CachedConnectionBreaks \/ Crash

BlocksSpec == BlocksInit /\ [][BlocksNext]_blocksVars
-----------------------------------------------------------------------------
\* save_block that inserted a block and returned Ok stored exactly its transactions, each
\* column in its place, whatever chunks they were cut into and whatever failed before.
SavedBlockComplete == \A s \in saved : StoredTransactions(s) = ToSet(Transactions[s])

\* A client that asks for a block after it was saved gets it, with all its transactions,
\* unless a query fails; what others save or prepare meanwhile does not hide it.
SavedBlockFound ==
  reader.before => /\ reader.pc # "notfound"
                   /\ reader.pc = "found" => reader.found = ToSet(Transactions[reader.slot])


\* A save that waits for a session gets on: "should have created new postgres session"
\* (postgres_session.rs) when the connection is down.
SessionReplaced == writer.pc = "locked" ~> writer.pc # "locked"
=============================================================================
