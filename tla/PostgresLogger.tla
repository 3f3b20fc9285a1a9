--------------------------- MODULE PostgresLogger ----------------------------
(* The postgres logger (lite-rpc/src/postgres_logger): a task drains the channel of
   notifications into a batch and writes the batch in one statement.  It keeps the batch
   when the statement fails, and does not drain while it has no session.  Only the
   notifications of the tx sender are modelled: nothing sends the other kinds.        *)
EXTENDS Integers, SequencesExt

CONSTANTS
  Signature,           \* transactions that are forwarded
  MaxMessage,          \* transactions of one forwarded batch
  TX_MAX_CAPACITY,     \* get_max_safe_inserts
  MaxErrors            \* bound: failures of postgres

ASSUME PostgresLoggerAssumption ==
  MaxMessage \in Nat \ {0} /\ TX_MAX_CAPACITY \in Nat \ {0} /\ MaxErrors \in Nat

VARIABLES
  channel,             \* messages, each a sequence of signatures
  tx_batch,
  session_up,          \* the cached session is connected
  session_establish_error,
  txs,                 \* rows of lite_rpc.Txs in the order of insertion
  notified,            \* history variable: all signatures sent, in order
  errors

loggerVars == <<channel, tx_batch, session_up, session_establish_error, txs, notified, errors>>

LoggerInit ==
  /\ channel = <<>> /\ tx_batch = <<>> /\ txs = <<>> /\ notified = <<>>
  /\ session_up = TRUE /\ session_establish_error = FALSE
  /\ errors = 0

\* forward_txs of the tx sender notifies a batch that it forwarded
Notify(batch) ==
  /\ ToSet(batch) \cap ToSet(notified) = {}
  /\ channel' = Append(channel, batch)
  /\ notified' = notified \o batch
  /\ UNCHANGED <<tx_batch, session_up, session_establish_error, txs, errors>>

\* The inner loop goes on
Drains == ~session_establish_error /\ Len(tx_batch) < TX_MAX_CAPACITY /\ channel # <<>>

Drain ==
  /\ Drains
  /\ tx_batch' = tx_batch \o Head(channel)
  /\ channel' = Tail(channel)
  /\ UNCHANGED <<session_up, session_establish_error, txs, notified, errors>>

\* get_session: the cached session, or a new one if its connection is closed
NoSession ==
  /\ ~Drains /\ tx_batch # <<>>
  /\ ~session_up /\ errors < MaxErrors /\ errors' = errors + 1
  /\ session_establish_error' = TRUE
  /\ UNCHANGED <<channel, tx_batch, session_up, txs, notified>>

\* send_txs: one INSERT of the whole batch
Inserted(batch) == txs \o batch

\* (faulty: the batch is dropped whatever the result)
BatchAfterDropped(ok) == <<>>

\* "clear batches only if results were successful"
BatchAfter(ok) == IF ok THEN <<>> ELSE tx_batch

\* A session, and the statement: it succeeds, fails, or its connection breaks before the
\* result is back
SendTxs(executed, ok) ==
  /\ ~Drains /\ tx_batch # <<>>
  /\ ok => executed
  /\ IF ok THEN UNCHANGED errors ELSE errors < MaxErrors /\ errors' = errors + 1
  /\ session_establish_error' = FALSE
  /\ session_up' = (ok \/ ~executed)
  /\ txs' = IF executed THEN Inserted(tx_batch) ELSE txs
  /\ tx_batch' = BatchAfter(ok)
  /\ UNCHANGED <<channel, notified>>

ConnectionBreaks ==
  /\ session_up /\ session_up' = FALSE
  /\ errors < MaxErrors /\ errors' = errors + 1
  /\ UNCHANGED <<channel, tx_batch, session_establish_error, txs, notified>>

LoggerNext ==
  \/ \E n \in 1 .. MaxMessage : \E batch \in [1 .. n -> Signature] : IsInjective(batch) /\ Notify(batch)
  \/ Drain \/ NoSession \/ ConnectionBreaks
  \/ \E executed, ok \in BOOLEAN : SendTxs(executed, ok)
-----------------------------------------------------------------------------
\* The first occurrence of each signature
FirstOnly(seq) == FoldLeft(LAMBDA s, x : IF Contains(s, x) THEN s ELSE Append(s, x), <<>>, seq)

\* Every forwarded transaction is logged, in the order of forwarding, or still on its way: in
\* the batch (the first n of it again, if they were inserted and the result was lost) or in
\* the channel.  A failing database loses nothing.
LogFollowsSends ==
  \E n \in 0 .. Len(tx_batch) :
    FirstOnly(txs) \o SubSeq(tx_batch, n + 1, Len(tx_batch)) \o FlattenSeq(channel) = notified

=============================================================================
