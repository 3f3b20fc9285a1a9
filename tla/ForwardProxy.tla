---------------------------- MODULE ForwardProxy -----------------------------
(* The QUIC forward proxy (quic-forward-proxy/src) with lite-rpc in front of it: the
   listener turns a request into a packet for each TPU node, the forwarder starts an
   agent for each TPU address and broadcasts every packet to all agents, an agent has
   a task for each of its connections, which sends the packets of its shard.           *)
EXTENDS ProxyManager, FiniteSets

CONSTANTS
  Tpu,                           \* addresses
  Hash,                          \* get_hash of a request, by its first transaction
  PARALLEL_TPU_CONNECTION_COUNT,
  ForwardChannel,                \* capacity of the channel of packets
  Broadcast,                     \* capacity of the broadcast channel of packets
  MaxAgents,                     \* bound: agents started for each address
  MaxPackets                     \* bound: packets that are broadcast

ASSUME ForwardProxyAssumption == {PARALLEL_TPU_CONNECTION_COUNT, ForwardChannel, Broadcast} \subseteq Nat \ {0}

Shard == 0 .. PARALLEL_TPU_CONNECTION_COUNT - 1
Agent == UNION {{tpu} \X (1 .. MaxAgents[tpu]) : tpu \in Tpu}
AgentTask == [agent : Agent, shard : Shard]

VARIABLES
  streams,                       \* requests being enqueued: packets that are left
  forward_channel,               \* packets for the forwarder
  forwarder,                     \* "running" or "panicked"
  agents,                        \* the map of agents: address -> number of its agent, 0 if none
  started,                       \* agents started so far for each address
  exit_signal,                   \* agents that were told to exit
  broadcast_in,                  \* packets broadcast so far
  tasks,                         \* tasks that run
  position,                      \* next packet of each task's receiver
  batch,                         \* transactions each task is sending
  agent_conn,                    \* auto_connection of each task
  picked                         \* history variable: tasks and the packets they took

proxyVars == <<streams, forward_channel, forwarder, agents, started, exit_signal, broadcast_in, tasks,
               position, batch, agent_conn, picked>>
forwardVars == <<managerVars, proxyVars>>
agentVars == <<tasks, position, batch, agent_conn, picked>>

ForwardInit ==
  /\ ManagerInit
  /\ streams = {} /\ forward_channel = <<>> /\ forwarder = "running"
  /\ agents = [a \in Tpu |-> 0] /\ started = agents /\ exit_signal = {}
  /\ broadcast_in = <<>> /\ tasks = {}
  /\ position = [t \in AgentTask |-> 1]
  /\ batch = [t \in AgentTask |-> <<>>]
  /\ agent_conn = [t \in AgentTask |-> NotConnected]
  /\ picked = {}
-----------------------------------------------------------------------------
\* handle_client_connection: a stream brings a request; ForwardPacket::new for each node
AcceptStream(request) ==
  /\ forwarder = "running" /\ request \in wire
  /\ wire' = wire \ {request}
  /\ streams' = streams \cup {[i \in DOMAIN request.nodes |->
                   [txs |-> request.txs, tpu |-> request.nodes[i], hash |-> Hash[request.txs[1]]]]}
  /\ UNCHANGED <<submitted, cursor, current_tpu_nodes, task, requests, proxyConn, intended,
                 forward_channel, forwarder, agents, started, exit_signal, broadcast_in, agentVars>>

\* send_timeout of the next packet; a channel that stays full ends the stream's task
Enqueue(packets) ==
  /\ packets \in streams
  /\ IF Len(forward_channel) < ForwardChannel
     THEN /\ forward_channel' = Append(forward_channel, Head(packets))
          /\ streams' = (streams \ {packets}) \cup ({Tail(packets)} \ {<<>>})
     ELSE streams' = streams \ {packets} /\ UNCHANGED forward_channel
  /\ UNCHANGED <<managerVars, forwarder, agents, started, exit_signal, broadcast_in, agentVars>>
-----------------------------------------------------------------------------
\* (faulty: shards counted from 1)
MatchingFromOne(shard, hash) == hash % PARALLEL_TPU_CONNECTION_COUNT = shard + 1

\* Sharder::matching
Matching(shard, hash) == hash % PARALLEL_TPU_CONNECTION_COUNT = shard

\* The agent of the packet, and whether it has to be started
AgentFor(tpu) == <<tpu, IF agents[tpu] = 0 THEN started[tpu] + 1 ELSE agents[tpu]>>
NewTasks(tpu) == IF agents[tpu] = 0 THEN {t \in AgentTask : t.agent = AgentFor(tpu)} ELSE {}

\* cleanup_agents: the agents that may turn out to be idle
CleanupAgents(tpu) == {a \in Tpu \ {tpu} : agents[a] # 0}

\* tx_forwarder: start the agent if there is none, tell agents that were idle (not the one of
\* this packet) to exit if the debouncer lets it, and broadcast.  send fails if no task is left.
Forward(idle) ==
  /\ forwarder = "running" /\ forward_channel # <<>> /\ Len(broadcast_in) < MaxPackets
  /\ LET packet == Head(forward_channel)
         tpu == packet.tpu
         run == tasks \cup NewTasks(tpu)
     IN  /\ AgentFor(tpu) \in Agent
         /\ idle \subseteq CleanupAgents(tpu)
         /\ forward_channel' = Tail(forward_channel)
         /\ started' = [started EXCEPT ![tpu] = AgentFor(tpu)[2]]
         /\ agents' = [a \in Tpu |-> IF a \in idle THEN 0 ELSE IF a = tpu THEN AgentFor(tpu)[2] ELSE agents[a]]
         /\ exit_signal' = exit_signal \cup {<<a, agents[a]>> : a \in idle}
         /\ tasks' = run
         /\ position' = [t \in AgentTask |-> IF t \in NewTasks(tpu) THEN Len(broadcast_in) + 1 ELSE position[t]]
         /\ IF run = {}
            THEN forwarder' = "panicked" /\ UNCHANGED broadcast_in
            ELSE broadcast_in' = Append(broadcast_in, packet @@ [agent |-> AgentFor(tpu)]) /\ UNCHANGED forwarder
  /\ UNCHANGED <<managerVars, streams, batch, agent_conn, picked>>
-----------------------------------------------------------------------------
\* (faulty: takes the packets of every address)
MineOfAnyTpu(t, i) == Matching(t.shard, broadcast_in[i].hash)

\* The packet is for this TPU and this connection
Mine(t, i) == broadcast_in[i].tpu = t.agent[1] /\ Matching(t.shard, broadcast_in[i].hash)

\* The packets that the task finds in the channel for its connection, as one batch
Collected(t) ==
  FlattenSeq([i \in 1 .. Len(broadcast_in) |->
    IF i >= position[t] /\ Mine(t, i)
    THEN [k \in DOMAIN broadcast_in[i].txs |-> <<i, broadcast_in[i].txs[k]>>] ELSE <<>>])

\* force_shutdown, and the receiver is dropped
EndTask(t) ==
  /\ tasks' = tasks \ {t}
  /\ agent_conn' = [agent_conn EXCEPT ![t] = ShuttingDown]
  /\ position' = [position EXCEPT ![t] = 1]
  /\ UNCHANGED <<batch, picked>>

\* A task ends after it received a packet (or lagged): it was told to exit and nothing is
\* left behind this packet, or its connection is dead and it was told to exit or the packet is
\* for it.
Ends(t) ==
  LET i == position[t]
      signalled == t.agent \in exit_signal
  IN  \/ Len(broadcast_in) - i >= Broadcast
      \/ signalled /\ i = Len(broadcast_in)
      \/ agent_conn[t] = PermanentError /\ (signalled \/ Mine(t, i))

\* The loop of an agent's task over the packets
AgentReceive(t) ==
  /\ forwarder = "running" /\ t \in tasks /\ batch[t] = <<>> /\ position[t] <= Len(broadcast_in)
  /\ IF Ends(t) THEN EndTask(t)
     ELSE /\ IF Mine(t, position[t])
             THEN /\ batch' = [batch EXCEPT ![t] = Collected(t)]
                  /\ picked' = picked \cup {<<t, i>> : i \in {j \in position[t] .. Len(broadcast_in) : Mine(t, j)}}
                  /\ position' = [position EXCEPT ![t] = Len(broadcast_in) + 1]
             ELSE position' = [position EXCEPT ![t] = @ + 1] /\ UNCHANGED <<batch, picked>>
          /\ UNCHANGED <<tasks, agent_conn>>
  /\ UNCHANGED <<managerVars, streams, forward_channel, forwarder, agents, started, exit_signal, broadcast_in>>

\* send_tx_batch_to_tpu: send_uni of one transaction, whose error is ignored; or the timeout
\* passed, and the rest of the batch is given up
AgentSend(t) ==
  /\ forwarder = "running" /\ t \in tasks /\ batch[t] # <<>>
  /\ \/ /\ \E state \in Refreshed(agent_conn[t]) : agent_conn' = [agent_conn EXCEPT ![t] = state]
        /\ batch' = [batch EXCEPT ![t] = Tail(@)]
     \/ batch' = [batch EXCEPT ![t] = <<>>] /\ UNCHANGED agent_conn
  /\ UNCHANGED <<managerVars, streams, forward_channel, forwarder, agents, started, exit_signal, broadcast_in,
                 tasks, position, picked>>

AgentStep(t) == AgentReceive(t) \/ AgentSend(t)

ForwardNext ==
  \/ ManagerNext /\ UNCHANGED proxyVars
  \/ \E request \in wire : AcceptStream(request)
  \/ \E packets \in streams : Enqueue(packets)
  \/ \E idle \in SUBSET Tpu : Forward(idle)
  \/ \E t \in AgentTask : AgentStep(t)

ForwardSpec == ForwardInit /\ [][ForwardNext]_forwardVars
-----------------------------------------------------------------------------
\* A connection is given only transactions that lite-rpc batched while the node was in its
\* list (current_tpu_nodes), through all the hands they go: request, packet, broadcast, batch.
SentWhereIntended ==
  \A t \in tasks : \A k \in DOMAIN batch[t] : <<batch[t][k][2], t.agent[1]>> \in intended

\* However the tasks of an agent interleave, each packet for it is put in a batch by one of its
\* connections and no other: once all tasks have gone past the packet, exactly one has
\* taken it, as long as none of them ended (it lagged, its connection is dead, or the agent was
\* told to exit).  The shards divide the packets, and an agent listens in time for the packet
\* that starts it.
EveryPacketPickedOnce ==
  \A i \in DOMAIN broadcast_in :
    LET all == {t \in AgentTask : t.agent = broadcast_in[i].agent}
        by == {t \in all : <<t, i>> \in picked}
    IN  /\ Cardinality(by) <= 1
        /\ all \subseteq tasks /\ (\A t \in all : position[t] > i) => by # {}

\* "send must succeed" (tx_forward.rs): there is always a task to broadcast to.
SendMustSucceed == forwarder # "panicked"
=============================================================================
