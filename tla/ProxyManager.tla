---------------------------- MODULE ProxyManager -----------------------------
(* lite-rpc's side of the QUIC proxy (services/src/tpu_utils/quic_proxy_connection_manager.rs):
   one task takes transactions from the broadcast channel, in batches, and sends each
   batch in requests that name the TPU nodes of the moment.  The other end of the wire
   is ForwardProxy.                                                                *)
EXTENDS AutoReconnect, SequencesExt

CONSTANTS
  Tx,                        \* transactions that are submitted
  TpuNodes,                  \* lists of TPU nodes that update_connection may be given
  TxsPerUnistream,           \* number_of_transactions_per_unistream
  CHUNK_SIZE_PER_STREAM,
  TxChannel                  \* capacity of the broadcast channel

ASSUME ProxyManagerAssumption == {TxsPerUnistream, CHUNK_SIZE_PER_STREAM, TxChannel} \subseteq Nat \ {0}

VARIABLES
  submitted,                 \* the transactions sent to the broadcast channel so far
  cursor,                    \* where the task's receiver is
  current_tpu_nodes,
  task,                      \* simple_thread_started, and how the task is
  requests,                  \* requests of the batch that are to be sent
  proxyConn,                 \* auto_connection
  wire,                      \* requests on their way to the proxy
  intended                   \* history variable: transactions and the nodes they were meant for

managerVars == <<submitted, cursor, current_tpu_nodes, task, requests, proxyConn, wire, intended>>

ManagerInit ==
  /\ submitted = <<>> /\ cursor = 1
  /\ current_tpu_nodes = <<>>
  /\ task = "not started" /\ requests = <<>>
  /\ proxyConn = NotConnected
  /\ wire = {} /\ intended = {}

\* external: the tx sender
Submit(tx) ==
  /\ ~Contains(submitted, tx)
  /\ submitted' = Append(submitted, tx)
  /\ UNCHANGED <<cursor, current_tpu_nodes, task, requests, proxyConn, wire, intended>>

\* update_connection: the first call starts the task with the receiver it is given
UpdateConnection(nodes) ==
  /\ nodes # current_tpu_nodes
  /\ current_tpu_nodes' = nodes
  /\ IF task = "not started"
     THEN task' = "idle" /\ cursor' = Len(submitted) + 1
     ELSE UNCHANGED <<task, cursor>>
  /\ UNCHANGED <<submitted, requests, proxyConn, wire, intended>>

\* send_copy_of_txs_to_quicproxy: one request for each chunk; its hash is the one of its
\* first transaction
Requests(txs, nodes) ==
  [i \in 1 .. (Len(txs) + CHUNK_SIZE_PER_STREAM - 1) \div CHUNK_SIZE_PER_STREAM |->
    [nodes |-> nodes,
     txs |-> SubSeq(txs, (i - 1) * CHUNK_SIZE_PER_STREAM + 1,
                    IF i * CHUNK_SIZE_PER_STREAM < Len(txs) THEN i * CHUNK_SIZE_PER_STREAM ELSE Len(txs))]]

\* read_transactions_and_broadcast: a batch, and the nodes of the moment
ReadTransactions ==
  /\ task = "idle" /\ cursor <= Len(submitted) /\ Len(submitted) - cursor < TxChannel
  /\ LET last == IF cursor + TxsPerUnistream - 1 < Len(submitted) THEN cursor + TxsPerUnistream - 1
                 ELSE Len(submitted)
         txs == SubSeq(submitted, cursor, last)
     IN  /\ cursor' = last + 1
         /\ IF current_tpu_nodes = <<>>
            THEN UNCHANGED <<task, requests, intended>>
            ELSE /\ task' = "send"
                 /\ requests' = Requests(txs, current_tpu_nodes)
                 /\ intended' = intended \cup (ToSet(txs) \X ToSet(current_tpu_nodes))
  /\ UNCHANGED <<submitted, current_tpu_nodes, proxyConn, wire>>

\* The receiver lags: the task returns, and is not started again.
ReceiverLags ==
  /\ task = "idle" /\ Len(submitted) - cursor >= TxChannel
  /\ task' = "ended"
  /\ UNCHANGED <<submitted, cursor, current_tpu_nodes, requests, proxyConn, wire, intended>>

\* send_uni of a request.  Without a connection the rest of the batch is dropped.
SendRequest ==
  /\ task = "send"
  /\ \E state \in Refreshed(proxyConn) :
       /\ proxyConn' = state
       /\ wire' = IF state = Connection THEN wire \cup {Head(requests)} ELSE wire
       /\ requests' = IF state = Connection THEN Tail(requests) ELSE <<>>
       /\ task' = IF requests' = <<>> THEN "idle" ELSE "send"
  /\ UNCHANGED <<submitted, cursor, current_tpu_nodes, intended>>

\* create_connection panics on an error that is no timeout, and the task is gone.
ConnectPanics ==
  /\ task = "send" /\ Refreshed(proxyConn) # {proxyConn}
  /\ task' = "ended" /\ requests' = <<>>
  /\ UNCHANGED <<submitted, cursor, current_tpu_nodes, proxyConn, wire, intended>>

ManagerNext ==
  \/ \E tx \in Tx : Submit(tx)
  \/ \E nodes \in TpuNodes : UpdateConnection(nodes)
  \/ ReadTransactions \/ ReceiverLags \/ SendRequest \/ ConnectPanics
=============================================================================
