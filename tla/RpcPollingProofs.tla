-------------------------- MODULE RpcPollingProofs --------------------------
(* The slots that are told never go back, and the polling of blocks implements the block feed, for
   any number of workers, any slots, ages and channel sizes.                                     *)
EXTENDS RpcPolling, TLAPS

(* Queues                                                                                       *)

\* The first element is taken from a queue.
LEMMA QueueTail ==
  ASSUME NEW S, NEW q \in Seq(S), q # <<>>
  PROVE  /\ Head(q) \in S /\ Tail(q) \in Seq(S)
         /\ Contains(q, Head(q))
         /\ \A x : Contains(Tail(q), x) => Contains(q, x)
         /\ IsInjective(q) => IsInjective(Tail(q)) /\ ~Contains(Tail(q), Head(q))
<1>1. /\ Tail(q) \in Seq(S) /\ Len(q) \in Nat \ {0} /\ Len(Tail(q)) = Len(q) - 1
      /\ Head(q) = q[1] /\ DOMAIN q = 1 .. Len(q) /\ DOMAIN Tail(q) = 1 .. Len(Tail(q))
  OBVIOUS
<1>2. 1 \in 1 .. Len(q) /\ q[1] \in S
  BY <1>1
<1>3. \A i \in 1 .. Len(Tail(q)) : i + 1 \in 1 .. Len(q) /\ i + 1 # 1 /\ Tail(q)[i] = q[i + 1]
  <2> SUFFICES ASSUME NEW i \in 1 .. Len(Tail(q))
               PROVE  i + 1 \in 1 .. Len(q) /\ i + 1 # 1 /\ Tail(q)[i] = q[i + 1]
    OBVIOUS
  <2>1. i + 1 \in 1 .. Len(q) /\ i + 1 # 1
    BY <1>1
  <2> QED BY <1>1, <2>1
<1>4. Contains(q, Head(q)) /\ \A x : Contains(Tail(q), x) => Contains(q, x)
  BY <1>1, <1>2, <1>3 DEF Contains
<1>5. ASSUME IsInjective(q) PROVE IsInjective(Tail(q)) /\ ~Contains(Tail(q), Head(q))
  <2>1. \A i, j \in 1 .. Len(q) : q[i] = q[j] => i = j
    BY <1>1, <1>5 DEF IsInjective
  <2>2. ~Contains(Tail(q), Head(q))
    BY <1>1, <1>2, <1>3, <2>1 DEF Contains
  <2>3. ASSUME NEW i \in 1 .. Len(Tail(q)), NEW j \in 1 .. Len(Tail(q)), Tail(q)[i] = Tail(q)[j]
        PROVE  i = j
    <3>1. i + 1 = j + 1
      BY <1>3, <2>1, <2>3
    <3> QED BY <3>1
  <2> QED BY <1>1, <2>2, <2>3 DEF IsInjective
<1> QED BY <1>1, <1>2, <1>4, <1>5

\* An element that is not in a queue is put at its end.
LEMMA QueueAppend ==
  ASSUME NEW S, NEW q \in Seq(S), NEW x \in S
  PROVE  /\ Append(q, x) \in Seq(S)
         /\ \A y : Contains(Append(q, x), y) <=> Contains(q, y) \/ y = x
         /\ IsInjective(q) /\ ~Contains(q, x) => IsInjective(Append(q, x))
<1> DEFINE new == Append(q, x)
<1>1. /\ new \in Seq(S) /\ Len(q) \in Nat /\ Len(new) = Len(q) + 1
      /\ new[Len(q) + 1] = x /\ DOMAIN q = 1 .. Len(q) /\ DOMAIN new = 1 .. Len(new)
      /\ \A i \in 1 .. Len(q) : new[i] = q[i]
  OBVIOUS
<1> HIDE DEF new
<1>2. /\ \A i \in 1 .. Len(new) : i \in 1 .. Len(q) \/ i = Len(q) + 1
      /\ \A i \in 1 .. Len(q) : i \in 1 .. Len(new)
      /\ Len(q) + 1 \in 1 .. Len(new)
  BY <1>1
<1>3. \A y : Contains(new, y) <=> Contains(q, y) \/ y = x
  BY <1>1, <1>2 DEF Contains
<1>4. IsInjective(q) /\ ~Contains(q, x) => IsInjective(new)
  BY <1>1, <1>2 DEF Contains, IsInjective
<1> QED BY <1>1, <1>3, <1>4 DEF new

\* A queue of elements that are not in it is put at its end.
LEMMA QueueConcat ==
  ASSUME NEW S, NEW q \in Seq(S), NEW more \in Seq(S)
  PROVE  /\ q \o more \in Seq(S)
         /\ \A y : Contains(q \o more, y) <=> Contains(q, y) \/ Contains(more, y)
         /\ IsInjective(q) /\ IsInjective(more) /\ (\A y : ~(Contains(q, y) /\ Contains(more, y)))
              => IsInjective(q \o more)
<1> DEFINE new == q \o more
<1>1. /\ new \in Seq(S) /\ Len(q) \in Nat /\ Len(more) \in Nat /\ Len(new) = Len(q) + Len(more)
      /\ DOMAIN q = 1 .. Len(q) /\ DOMAIN new = 1 .. Len(new) /\ DOMAIN more = 1 .. Len(more)
  OBVIOUS
<1>2. /\ \A i \in 1 .. Len(q) : new[i] = q[i]
      /\ \A i \in 1 .. Len(new) : i \notin 1 .. Len(q) => new[i] = more[i - Len(q)]
  BY <1>1
<1> HIDE DEF new
<1>3. /\ \A i \in 1 .. Len(new) : i \notin 1 .. Len(q) => i - Len(q) \in 1 .. Len(more)
      /\ \A i \in 1 .. Len(q) : i \in 1 .. Len(new)
      /\ \A i \in 1 .. Len(more) : /\ i + Len(q) \in 1 .. Len(new) /\ i + Len(q) \notin 1 .. Len(q)
                                   /\ (i + Len(q)) - Len(q) = i
  BY <1>1
<1>4. \A y : Contains(new, y) <=> Contains(q, y) \/ Contains(more, y)
  <2> SUFFICES ASSUME NEW y PROVE Contains(new, y) <=> Contains(q, y) \/ Contains(more, y)
    OBVIOUS
  <2>1. Contains(new, y) => Contains(q, y) \/ Contains(more, y)
    BY <1>2, <1>3 DEF Contains
  <2>2. Contains(q, y) => Contains(new, y)
    BY <1>2, <1>3 DEF Contains
  <2>3. Contains(more, y) => Contains(new, y)
    BY <1>2, <1>3 DEF Contains
  <2> QED BY <2>1, <2>2, <2>3
<1>5. ASSUME IsInjective(q), IsInjective(more), \A y : ~(Contains(q, y) /\ Contains(more, y))
      PROVE  IsInjective(new)
  <2> SUFFICES ASSUME NEW i \in 1 .. Len(new), NEW j \in 1 .. Len(new), new[i] = new[j] PROVE i = j
    BY <1>1 DEF IsInjective
  <2>1. CASE i \in 1 .. Len(q) /\ j \in 1 .. Len(q)
    BY <1>1, <1>2, <1>5, <2>1 DEF IsInjective
  <2>2. CASE i \notin 1 .. Len(q) /\ j \notin 1 .. Len(q)
    <3>1. i - Len(q) = j - Len(q)
      BY <1>1, <1>2, <1>3, <1>5, <2>2 DEF IsInjective
    <3> QED BY <1>1, <3>1
  <2>3. CASE i \in 1 .. Len(q) /\ j \notin 1 .. Len(q)
    BY <1>2, <1>3, <1>5, <2>3 DEF Contains
  <2>4. CASE i \notin 1 .. Len(q) /\ j \in 1 .. Len(q)
    BY <1>2, <1>3, <1>5, <2>4 DEF Contains
  <2> QED BY <2>1, <2>2, <2>3, <2>4
<1> QED BY <1>1, <1>4, <1>5 DEF new

-----------------------------------------------------------------------------
SlotOf == [current : 0 .. MaxSlot, estimated : 0 .. MaxSlot + MaxAhead]

(* What is known of the slots: the estimate is within reach of the slot, and the multiplexer's
   last slot is the one it told last, unless it has just reconnected.                           *)
SlotInv ==
  /\ chain \in 1 .. MaxSlot
  /\ updates \in Seq(1 .. MaxSlot)
  /\ view \in [Geyser -> 0 .. MaxSlot]
  /\ last_slot \in Nat
  /\ clock \in SlotOf
  /\ clock.estimated \in clock.current .. clock.current + MaxAhead
  /\ inbox \in Seq(SlotOf)
  /\ source \in {"rpc", "grpc"}
  /\ source = "grpc" => /\ updates = <<>>
                        /\ clock.estimated = clock.current
                        /\ last_slot # 0 => last_slot = clock.current

\* A notification is one of a slot and an estimate within reach.
LEMMA NotifyKeeps ==
  ASSUME PollingAssumption, SlotInv, NEW c \in SlotOf, Notify(c)
  PROVE  clock' = c /\ inbox' \in Seq(SlotOf)
<1>1. clock' = c /\ inbox \in Seq(SlotOf) /\ SlotChannel \in Nat \ {0}
  BY PollingAssumption DEF Notify, SlotInv
<1>2. CASE Len(inbox) < SlotChannel
  BY <1>1, <1>2 DEF Notify
<1>3. CASE ~(Len(inbox) < SlotChannel)
  <2>1. inbox # <<>>
    BY <1>1, <1>3
  <2>2. Tail(inbox) \in Seq(SlotOf)
    BY <1>1, <2>1
  <2>3. inbox' = Append(Tail(inbox), c)
    BY <1>3 DEF Notify
  <2> QED BY <1>1, <2>2, <2>3
<1> QED BY <1>2, <1>3

\* The step of a slot, as SlotsOnlyGrow has it.
SlotStep ==
  /\ last_slot # 0 \/ source = "rpc" =>
       clock'.current >= clock.current /\ clock'.estimated >= clock.estimated
  /\ clock'.estimated \in clock'.current .. clock'.current + MaxAhead

LEMMA ClockRange ==
  ASSUME SlotInv
  PROVE  /\ clock.current \in 0 .. MaxSlot /\ clock.estimated \in 0 .. MaxSlot + MaxAhead
         /\ clock.estimated \in clock.current .. clock.current + MaxAhead
         /\ MaxSlot \in Nat /\ MaxAhead \in Nat
  BY PollingAssumption DEF SlotInv, SlotOf

LEMMA SlotInvInit == PollingInit => SlotInv
  BY PollingAssumption DEF PollingInit, SlotInv, SlotOf

\* The slot of the poller
LEMMA SlotUpdateGrows ==
  ASSUME SlotInv, SlotUpdate
  PROVE  SlotInv' /\ [SlotStep]_clock
<1>1. /\ updates \in Seq(1 .. MaxSlot) /\ updates # <<>> /\ updates' = Tail(updates)
      /\ UNCHANGED <<chain, view, last_slot, source>>
  BY DEF SlotUpdate, SlotInv, envVars
<1>2. Head(updates) \in 1 .. MaxSlot /\ updates' \in Seq(1 .. MaxSlot) /\ source = "rpc"
  <2>1. Head(updates) \in 1 .. MaxSlot /\ Tail(updates) \in Seq(1 .. MaxSlot)
    BY <1>1, QueueTail
  <2>2. source = "rpc"
    BY <1>1 DEF SlotInv
  <2> QED BY <1>1, <2>1, <2>2
<1>3. CASE Head(updates) > clock.current
  <2> DEFINE c == [current |-> Head(updates), estimated |-> Estimate(Head(updates))]
  <2>1. /\ c \in SlotOf
        /\ c.estimated \in c.current .. c.current + MaxAhead
        /\ c.current >= clock.current /\ c.estimated >= clock.estimated
    <3>1. PICK slot \in 1 .. MaxSlot : slot = Head(updates)
      BY <1>2
    <3>2. slot > clock.current /\ c = [current |-> slot, estimated |-> Estimate(slot)]
      BY <1>3, <3>1
    <3>3. PICK e : e = Estimate(slot)
      OBVIOUS
    <3>4. c \in SlotOf <=> e \in 0 .. MaxSlot + MaxAhead
      BY <3>2, <3>3, PollingAssumption DEF SlotOf
    <3>5. /\ e \in 0 .. MaxSlot + MaxAhead /\ e \in slot .. slot + MaxAhead /\ e >= clock.estimated
          /\ slot >= clock.current
      BY <3>2, <3>3, ClockRange, PollingAssumption DEF Estimate
    <3> QED BY <3>2, <3>3, <3>4, <3>5
  <2>2. Notify(c)
    BY <1>3 DEF SlotUpdate
  <2> HIDE DEF c
  <2>3. clock' = c /\ inbox' \in Seq(SlotOf)
    BY <2>1, <2>2, PollingAssumption, NotifyKeeps
  <2> QED BY <1>1, <1>2, <2>1, <2>3 DEF SlotInv, SlotStep
<1>4. CASE ~(Head(updates) > clock.current)
  <2>1. UNCHANGED <<clock, inbox>>
    BY <1>4 DEF SlotUpdate
  <2> QED BY <1>1, <1>2, <2>1 DEF SlotInv
<1> QED BY <1>3, <1>4

\* No slot for a slot's time
LEMMA SlotTimeoutGrows ==
  ASSUME SlotInv, SlotTimeout
  PROVE  SlotInv' /\ [SlotStep]_clock
<1> DEFINE c == [clock EXCEPT !.estimated = @ + 1]
<1>1. /\ source = "rpc" /\ clock.estimated < clock.current + MaxAhead
      /\ UNCHANGED <<chain, updates, view, last_slot, source>> /\ Notify(c)
  BY DEF SlotTimeout, envVars
<1>2. /\ c \in SlotOf
      /\ c.estimated \in c.current .. c.current + MaxAhead
      /\ c.current >= clock.current /\ c.estimated >= clock.estimated
  <2>1. c.current = clock.current /\ c.estimated = clock.estimated + 1
    BY DEF SlotInv, SlotOf
  <2>2. clock.estimated + 1 \in 0 .. MaxSlot + MaxAhead
    BY <1>1, ClockRange, PollingAssumption
  <2>3. c \in SlotOf
    BY <2>2 DEF SlotInv, SlotOf
  <2> QED BY <1>1, <2>1, <2>3, ClockRange, PollingAssumption
<1> HIDE DEF c
<1>3. clock' = c /\ inbox' \in Seq(SlotOf)
  BY <1>1, <1>2, PollingAssumption, NotifyKeeps
<1> QED BY <1>1, <1>2, <1>3 DEF SlotInv, SlotStep

\* A slot of a geyser source
LEMMA GeyserSlotGrows ==
  ASSUME SlotInv, NEW g \in Geyser, GeyserSlot(g)
  PROVE  SlotInv' /\ [SlotStep]_clock
<1>1. /\ source = "grpc" /\ view' = [view EXCEPT ![g] = view[g] + 1]
      /\ view[g] \in 0 .. MaxSlot /\ view[g] < chain
      /\ UNCHANGED <<chain, updates, source>>
  BY DEF GeyserSlot, SlotInv, envVars
<1>2. view[g] + 1 \in 1 .. MaxSlot /\ MaxSlot \in Nat /\ MaxAhead \in Nat
  BY <1>1, PollingAssumption DEF SlotInv
<1>3. view' \in [Geyser -> 0 .. MaxSlot]
  BY <1>1, <1>2 DEF SlotInv
<1>4. CASE last_slot > view[g] + 1
  <2>1. UNCHANGED <<last_slot, clock, inbox>>
    BY <1>4 DEF GeyserSlot
  <2> QED BY <1>1, <1>3, <2>1 DEF SlotInv
<1>5. CASE ~(last_slot > view[g] + 1)
  <2> DEFINE c == [current |-> view[g] + 1, estimated |-> view[g] + 1]
  <2>1. Notify(c) /\ last_slot' = view[g] + 1
    BY <1>5 DEF GeyserSlot
  <2>2. c \in SlotOf /\ c.estimated = view[g] + 1 /\ c.current = view[g] + 1
    BY <1>2 DEF SlotOf
  <2> HIDE DEF c
  <2>3. clock' = c /\ inbox' \in Seq(SlotOf)
    BY <2>1, <2>2, PollingAssumption, NotifyKeeps
  <2>4. last_slot # 0 => clock.current <= view[g] + 1 /\ clock.estimated <= view[g] + 1
    BY <1>1, <1>5 DEF SlotInv
  <2> QED BY <1>1, <1>2, <1>3, <2>1, <2>2, <2>3, <2>4 DEF SlotInv, SlotStep, SlotOf
<1> QED BY <1>4, <1>5

\* The other steps know nothing of slots, or take a notification.
LEMMA SlotInvKept ==
  ASSUME SlotInv, UNCHANGED <<chain, updates, view, last_slot, clock, source>>,
         inbox' = inbox \/ (inbox # <<>> /\ inbox' = Tail(inbox))
  PROVE  SlotInv'
<1>1. inbox' \in Seq(SlotOf)
  <2>1. inbox \in Seq(SlotOf)
    BY DEF SlotInv
  <2>2. inbox # <<>> => Tail(inbox) \in Seq(SlotOf)
    BY <2>1, QueueTail
  <2> QED BY <2>1, <2>2
<1> QED BY <1>1 DEF SlotInv

LEMMA SlotInvStep == SlotInv /\ [PollingNext]_pollingVars => SlotInv' /\ [SlotStep]_clock
<1> SUFFICES ASSUME SlotInv, [PollingNext]_pollingVars PROVE SlotInv' /\ [SlotStep]_clock
  OBVIOUS
<1>1. CASE NodeMoves
  <2>1. /\ chain' \in 1 .. MaxSlot
        /\ UNCHANGED <<updates, view, last_slot, clock, source, inbox>>
    BY <1>1, PollingAssumption DEF NodeMoves, SlotInv, slotVars, envVars
  <2> QED BY <2>1 DEF SlotInv
<1>2. CASE PollSlot
  <2>1. /\ source = "rpc" /\ UNCHANGED <<chain, view, last_slot, clock, source, inbox>>
        /\ updates' = updates \/ updates' = Append(updates, chain)
    BY <1>2 DEF PollSlot, envVars
  <2>2. updates' \in Seq(1 .. MaxSlot)
    <3>1. updates \in Seq(1 .. MaxSlot) /\ chain \in 1 .. MaxSlot
      BY DEF SlotInv
    <3>2. Append(updates, chain) \in Seq(1 .. MaxSlot)
      BY <3>1, QueueAppend
    <3> QED BY <2>1, <3>1, <3>2
  <2> QED BY <2>1, <2>2 DEF SlotInv
<1>3. CASE SlotUpdate
  BY <1>3, SlotUpdateGrows
<1>4. CASE SlotTimeout
  BY <1>4, SlotTimeoutGrows
<1>5. CASE \E g \in Geyser : GeyserSlot(g)
  BY <1>5, GeyserSlotGrows
<1>6. CASE GeyserReconnect
  <2>1. last_slot' = 0 /\ UNCHANGED <<chain, updates, view, clock, source, inbox>>
    BY <1>6 DEF GeyserReconnect, envVars
  <2> QED BY <2>1 DEF SlotInv
<1>7. CASE ScheduleBlocks \/ UpdateConnections
  <2>1. /\ UNCHANGED <<chain, updates, view, last_slot, clock, source>>
        /\ inbox # <<>> /\ inbox' = Tail(inbox)
    BY <1>7 DEF ScheduleBlocks, UpdateConnections, slotVars, envVars
  <2> QED BY <2>1, SlotInvKept
<1>8. CASE \/ PollError \/ SlotReceiverLagged \/ LeadersError \/ Replay \/ UNCHANGED pollingVars
           \/ \E slot \in 1 .. MaxSlot, level \in PolledLevel : BlockAvailable(slot, level)
           \/ \E w \in Worker : TakeBlock(w) \/ BlockFetched(w) \/ BlockMissing(w)
           \/ \E nodes \in ClusterNodes : ClusterInfo(nodes)
  <2>1. UNCHANGED <<chain, updates, view, last_slot, clock, source, inbox>>
    BY <1>8 DEF PollError, SlotReceiverLagged, LeadersError, Replay, BlockAvailable, TakeBlock,
      BlockFetched, BlockMissing, ClusterInfo, Exit, slotVars, envVars, pollingVars
  <2> QED BY <2>1, SlotInvKept
<1> QED BY <1>1, <1>2, <1>3, <1>4, <1>5, <1>6, <1>7, <1>8 DEF PollingNext

\* Slot notifications, of the RPC poller (poll_slots.rs) or of the geyser multiplexer, never go
\* back, whatever comes late or is repeated, and the estimate stays within reach of the slot.
THEOREM SlotsNeverGoBack == PollingSpec => SlotsOnlyGrow
<1>1. SlotStep <=> /\ last_slot # 0 \/ source = "rpc" =>
                        clock'.current >= clock.current /\ clock'.estimated >= clock.estimated
                   /\ clock'.estimated \in clock'.current .. clock'.current + MaxAhead
  BY DEF SlotStep
<1>2. PollingSpec => []SlotInv
  BY SlotInvInit, SlotInvStep, PTL DEF PollingSpec
<1> QED BY <1>1, <1>2, SlotInvStep, PTL DEF PollingSpec, SlotsOnlyGrow

-----------------------------------------------------------------------------
(* Where the blocks to fetch are: in the queue, with a worker, or waiting for the replay; a block
   is in one place only.                                                                        *)
Places(queue, later, held) ==
  /\ queue \in Seq(Item) /\ later \in Seq(Item) /\ held \in [Worker -> Item \cup {Idle}]
  /\ IsInjective(queue) /\ IsInjective(later)
  /\ \A v, w \in Worker : held[v] = held[w] => v = w \/ held[v] = Idle
  /\ \A x \in Item : ~(Contains(queue, x) /\ Contains(later, x))
  /\ \A x \in Item, w \in Worker : held[w] = x => ~Contains(queue, x) /\ ~Contains(later, x)

Pending(queue, later, held, x) ==
  Contains(queue, x) \/ Contains(later, x) \/ \E w \in Worker : held[w] = x

LEMMA ItemParts ==
  ASSUME NEW x \in Item
  PROVE  /\ x[1] \in 0 .. MaxSlot + MaxAhead /\ x[2] \in PolledLevel /\ x = <<x[1], x[2]>>
         /\ <<x[1], "confirmed">> \in Item /\ <<x[1], "finalized">> \in Item
         /\ x # Idle
<1>1. /\ x[1] \in 0 .. MaxSlot + MaxAhead /\ x[2] \in PolledLevel /\ x = <<x[1], x[2]>>
  BY DEF Item
<1>2. Len(x) = 2 /\ Len(Idle) = 1
  BY <1>1 DEF Idle
<1> QED BY <1>1, <1>2 DEF Item, PolledLevel

\* A worker takes the first of the queue.
LEMMA PlacesTake ==
  ASSUME NEW queue, NEW later, NEW held, Places(queue, later, held), NEW w \in Worker,
         held[w] = Idle, queue # <<>>, NEW taken, taken = [held EXCEPT ![w] = Head(queue)]
  PROVE  /\ Places(Tail(queue), later, taken)
         /\ \A x \in Item : Pending(Tail(queue), later, taken, x) => Pending(queue, later, held, x)
<1>1. /\ Head(queue) \in Item /\ Tail(queue) \in Seq(Item)
      /\ Contains(queue, Head(queue)) /\ ~Contains(Tail(queue), Head(queue))
      /\ \A x : Contains(Tail(queue), x) => Contains(queue, x)
      /\ IsInjective(Tail(queue))
  BY QueueTail DEF Places
<1>2. PICK h \in Item : h = Head(queue)
  BY <1>1
<1>3. PICK rest \in Seq(Item) : rest = Tail(queue)
  BY <1>1
<1>4. /\ taken \in [Worker -> Item \cup {Idle}] /\ taken[w] = h
      /\ \A v \in Worker : v # w => taken[v] = held[v]
  BY <1>2 DEF Places
<1>5. Places(rest, later, taken)
  BY <1>1, <1>2, <1>3, <1>4, ItemParts DEF Places
<1>6. \A x \in Item : Pending(rest, later, taken, x) => Pending(queue, later, held, x)
  BY <1>1, <1>2, <1>3, <1>4 DEF Pending
<1> QED BY <1>3, <1>5, <1>6

\* A worker is done with its block.
LEMMA PlacesDone ==
  ASSUME NEW queue, NEW later, NEW held, Places(queue, later, held), NEW w \in Worker,
         held[w] # Idle, NEW idle, idle = [held EXCEPT ![w] = Idle]
  PROVE  /\ Places(queue, later, idle)
         /\ held[w] \in Item /\ Pending(queue, later, held, held[w]) /\ ~Pending(queue, later, idle, held[w])
         /\ \A x \in Item : Pending(queue, later, idle, x) => Pending(queue, later, held, x)
<1>1. /\ idle \in [Worker -> Item \cup {Idle}] /\ idle[w] = Idle /\ held[w] \in Item
      /\ \A v \in Worker : v # w => idle[v] = held[v]
  BY DEF Places
<1>2. Places(queue, later, idle)
  BY <1>1, ItemParts DEF Places
<1>3. ~Pending(queue, later, idle, held[w])
  BY <1>1 DEF Places, Pending
<1>4. Pending(queue, later, held, held[w])
  BY DEF Pending
<1>5. \A x \in Item : Pending(queue, later, idle, x) => Pending(queue, later, held, x)
  BY <1>1, ItemParts DEF Pending
<1> QED BY <1>1, <1>2, <1>3, <1>4, <1>5

\* A block that is nowhere waits for the replay.
LEMMA PlacesRetry ==
  ASSUME NEW queue, NEW later, NEW held, Places(queue, later, held), NEW x \in Item,
         ~Pending(queue, later, held, x)
  PROVE  /\ Places(queue, Append(later, x), held)
         /\ \A y \in Item : Pending(queue, Append(later, x), held, y) => Pending(queue, later, held, y) \/ y = x
<1>1. PICK longer : longer = Append(later, x)
  OBVIOUS
<1>2. /\ longer \in Seq(Item)
      /\ \A y : Contains(longer, y) <=> Contains(later, y) \/ y = x
      /\ IsInjective(longer)
  BY <1>1, QueueAppend DEF Places, Pending
<1>3. Places(queue, longer, held)
  BY <1>2 DEF Places, Pending
<1>4. \A y \in Item : Pending(queue, longer, held, y) => Pending(queue, later, held, y) \/ y = x
  BY <1>2 DEF Pending
<1> QED BY <1>1, <1>3, <1>4

\* The replay takes the first of those that wait.
LEMMA PlacesReplay ==
  ASSUME NEW queue, NEW later, NEW held, Places(queue, later, held), later # <<>>
  PROVE  /\ Places(queue, Tail(later), held)
         /\ Head(later) \in Item /\ Pending(queue, later, held, Head(later))
         /\ ~Pending(queue, Tail(later), held, Head(later))
         /\ \A x \in Item : Pending(queue, Tail(later), held, x) => Pending(queue, later, held, x)
<1>1. /\ Head(later) \in Item /\ Tail(later) \in Seq(Item)
      /\ Contains(later, Head(later)) /\ ~Contains(Tail(later), Head(later))
      /\ \A x : Contains(Tail(later), x) => Contains(later, x)
      /\ IsInjective(Tail(later))
  BY QueueTail DEF Places
<1>2. PICK h \in Item : h = Head(later)
  BY <1>1
<1>3. PICK rest \in Seq(Item) : rest = Tail(later)
  BY <1>1
<1>4. Places(queue, rest, held)
  BY <1>1, <1>3 DEF Places
<1>5. Pending(queue, later, held, h) /\ ~Pending(queue, rest, held, h)
  BY <1>1, <1>2, <1>3 DEF Places, Pending
<1>6. \A x \in Item : Pending(queue, rest, held, x) => Pending(queue, later, held, x)
  BY <1>1, <1>3 DEF Pending
<1> QED BY <1>2, <1>3, <1>4, <1>5, <1>6

\* Blocks that are nowhere are put into the queue.
LEMMA PlacesSchedule ==
  ASSUME NEW queue, NEW later, NEW held, Places(queue, later, held), NEW more \in Seq(Item),
         IsInjective(more), \A x \in Item : Contains(more, x) => ~Pending(queue, later, held, x)
  PROVE  /\ Places(queue \o more, later, held)
         /\ \A x \in Item : Pending(queue \o more, later, held, x)
              => Pending(queue, later, held, x) \/ Contains(more, x)
<1>1. PICK longer : longer = queue \o more
  OBVIOUS
<1>2. \A x : Contains(more, x) => x \in Item
  BY DEF Contains
<1>3. /\ longer \in Seq(Item)
      /\ \A y : Contains(longer, y) <=> Contains(queue, y) \/ Contains(more, y)
      /\ IsInjective(longer)
  BY <1>1, <1>2, QueueConcat DEF Places, Pending
<1>4. Places(longer, later, held)
  BY <1>3 DEF Places, Pending
<1>5. \A x \in Item : Pending(longer, later, held, x) => Pending(queue, later, held, x) \/ Contains(more, x)
  BY <1>3 DEF Pending
<1> QED BY <1>1, <1>4, <1>5

(* What was sent, against what is still to fetch: nothing of that was sent; a finalized block
   follows its confirmed block; and confirmed blocks are of slots that were scheduled.          *)
Accounts(queue, later, held, sent, recent) ==
  /\ sent \in [Item -> {0, 1}] /\ recent \in Nat
  /\ \A x \in Item :
       /\ Pending(queue, later, held, x) =>
            sent[x] = 0 /\ (x[2] = "finalized" => sent[<<x[1], "confirmed">>] = 1)
       /\ sent[x] = 1 => sent[<<x[1], "confirmed">>] = 1
       /\ x[2] = "confirmed" /\ (Pending(queue, later, held, x) \/ sent[x] = 1) => x[1] <= recent

BlockInv ==
  /\ Places(scheduled, retries, worker)
  /\ Accounts(scheduled, retries, worker, emitted, recent_slot)

\* Nothing is sent, and no block is to be fetched that was not before.
LEMMA AccountsKept ==
  ASSUME NEW queue, NEW later, NEW held, NEW sent, NEW recent, Accounts(queue, later, held, sent, recent),
         NEW queue2, NEW later2, NEW held2,
         \A x \in Item : Pending(queue2, later2, held2, x) => Pending(queue, later, held, x)
  PROVE  Accounts(queue2, later2, held2, sent, recent)
  BY DEF Accounts

LEMMA BlockInvInit == PollingInit => BlockInv
<1> SUFFICES ASSUME PollingInit PROVE BlockInv
  OBVIOUS
<1>1. /\ scheduled = <<>> /\ retries = <<>> /\ worker = [w \in Worker |-> Idle]
      /\ emitted = [i \in Item |-> 0] /\ recent_slot = 1
  BY DEF PollingInit
<1>2. <<>> \in Seq(Item) /\ IsInjective(<<>>) /\ \A x : ~Contains(<<>>, x)
  BY DEF IsInjective, Contains
<1>3. worker \in [Worker -> Item \cup {Idle}] /\ \A w \in Worker : worker[w] = Idle
  BY <1>1
<1>4. Places(<<>>, <<>>, worker)
  BY <1>2, <1>3 DEF Places
<1>5. \A x \in Item : ~Pending(<<>>, <<>>, worker, x)
  BY <1>2, <1>3, ItemParts DEF Pending
<1>6. emitted \in [Item -> {0, 1}] /\ \A x \in Item : emitted[x] = 0
  BY <1>1
<1>7. Accounts(<<>>, <<>>, worker, emitted, recent_slot)
  BY <1>1, <1>5, <1>6 DEF Accounts
<1> QED BY <1>1, <1>4, <1>7 DEF BlockInv

-----------------------------------------------------------------------------
\* A notification: the slots from the last one on are scheduled.
LEMMA ScheduleKeeps ==
  ASSUME SlotInv, BlockInv, ScheduleBlocks
  PROVE  BlockInv' /\ UNCHANGED emitted
<1>1. /\ UNCHANGED <<retries, worker, emitted>> /\ inbox # <<>> /\ inbox \in Seq(SlotOf)
  BY DEF ScheduleBlocks, SlotInv
<1>2. PICK c \in SlotOf : c = Head(inbox)
  BY <1>1, QueueTail
<1>3. c.estimated \in 0 .. MaxSlot + MaxAhead /\ MaxSlot + MaxAhead \in Nat /\ recent_slot \in Nat
  BY PollingAssumption DEF SlotOf, BlockInv, Accounts
<1>4. CASE recent_slot < c.estimated
  <2> DEFINE n == c.estimated - recent_slot
             more == [i \in 1 .. n |-> <<recent_slot + i, "confirmed">>]
  <2>1. recent_slot' = c.estimated /\ scheduled' = scheduled \o more
    BY <1>2, <1>4 DEF ScheduleBlocks, SlotsToFetch
  <2>2. n \in Nat /\ \A i \in 1 .. n : recent_slot + i \in 0 .. MaxSlot + MaxAhead
                                       /\ recent_slot + i > recent_slot /\ recent_slot + i <= c.estimated
    BY <1>3, <1>4
  <2>3. \A i \in 1 .. n : <<recent_slot + i, "confirmed">> \in Item
    BY <2>2 DEF Item, PolledLevel
  <2> HIDE DEF n
  <2>4. more \in Seq(Item) /\ Len(more) = n /\ DOMAIN more = 1 .. n
    BY <2>2, <2>3
  <2>5. IsInjective(more)
    <3> SUFFICES ASSUME NEW i \in 1 .. n, NEW j \in 1 .. n, more[i] = more[j] PROVE i = j
      BY <2>4 DEF IsInjective
    <3>1. recent_slot + i = recent_slot + j
      OBVIOUS
    <3> QED BY <1>3, <2>2, <3>1
  <2>6. \A x \in Item : Contains(more, x) =>
          x[2] = "confirmed" /\ x[1] > recent_slot /\ x[1] <= c.estimated
    BY <2>2, <2>4 DEF Contains
  <2> HIDE DEF more
  <2>7. \A x \in Item : x[1] \in Nat
    <3> SUFFICES ASSUME NEW x \in Item PROVE x[1] \in Nat
      OBVIOUS
    <3>1. x[1] \in 0 .. MaxSlot + MaxAhead
      BY ItemParts
    <3> QED BY <1>3, <3>1
  <2>8. \A x \in Item : Contains(more, x) => ~Pending(scheduled, retries, worker, x) /\ emitted[x] = 0
    <3> SUFFICES ASSUME NEW x \in Item, Contains(more, x)
                 PROVE  ~Pending(scheduled, retries, worker, x) /\ emitted[x] = 0
      OBVIOUS
    <3>1. x[2] = "confirmed" /\ ~(x[1] <= recent_slot)
      BY <1>3, <2>6, <2>7
    <3>2. ~Pending(scheduled, retries, worker, x) /\ emitted[x] # 1 /\ emitted[x] \in {0, 1}
      BY <3>1 DEF BlockInv, Accounts
    <3> QED BY <3>2
  <2>9. /\ Places(scheduled \o more, retries, worker)
        /\ \A x \in Item : Pending(scheduled \o more, retries, worker, x)
             => Pending(scheduled, retries, worker, x) \/ Contains(more, x)
    BY <2>4, <2>5, <2>8, PlacesSchedule DEF BlockInv
  <2>10. PICK longer : longer = scheduled \o more
    OBVIOUS
  <2>11. Accounts(longer, retries, worker, emitted, c.estimated)
    BY <1>3, <1>4, <2>6, <2>7, <2>8, <2>9, <2>10 DEF BlockInv, Accounts
  <2> QED BY <1>1, <2>1, <2>9, <2>10, <2>11 DEF BlockInv
<1>5. CASE ~(recent_slot < c.estimated)
  <2>1. UNCHANGED <<recent_slot, scheduled>>
    BY <1>2, <1>5 DEF ScheduleBlocks
  <2> QED BY <1>1, <2>1 DEF BlockInv
<1> QED BY <1>4, <1>5

LEMMA TakeKeeps ==
  ASSUME BlockInv, NEW w \in Worker, TakeBlock(w)
  PROVE  BlockInv' /\ UNCHANGED emitted
<1>1. /\ worker[w] = Idle /\ scheduled # <<>> /\ scheduled' = Tail(scheduled)
      /\ worker' = [worker EXCEPT ![w] = Head(scheduled)]
      /\ UNCHANGED <<recent_slot, retries, emitted>>
  BY DEF TakeBlock
<1>2. PICK taken : taken = [worker EXCEPT ![w] = Head(scheduled)]
  OBVIOUS
<1>3. /\ Places(Tail(scheduled), retries, taken)
      /\ \A x \in Item : Pending(Tail(scheduled), retries, taken, x) => Pending(scheduled, retries, worker, x)
  BY <1>1, <1>2, PlacesTake DEF BlockInv
<1>4. Accounts(Tail(scheduled), retries, taken, emitted, recent_slot)
  BY <1>3, AccountsKept DEF BlockInv
<1> QED BY <1>1, <1>2, <1>3, <1>4 DEF BlockInv

LEMMA MissingKeeps ==
  ASSUME BlockInv, NEW w \in Worker, BlockMissing(w)
  PROVE  BlockInv' /\ UNCHANGED emitted
<1>1. /\ worker[w] # Idle /\ retries' = Append(retries, worker[w])
      /\ worker' = [worker EXCEPT ![w] = Idle]
      /\ UNCHANGED <<recent_slot, scheduled, emitted>>
  BY DEF BlockMissing, Retries
<1>2. PICK idle : idle = [worker EXCEPT ![w] = Idle]
  OBVIOUS
<1>3. /\ Places(scheduled, retries, idle) /\ worker[w] \in Item
      /\ Pending(scheduled, retries, worker, worker[w]) /\ ~Pending(scheduled, retries, idle, worker[w])
      /\ \A x \in Item : Pending(scheduled, retries, idle, x) => Pending(scheduled, retries, worker, x)
  BY <1>1, <1>2, PlacesDone DEF BlockInv
<1>4. PICK longer : longer = Append(retries, worker[w])
  OBVIOUS
<1>5. /\ Places(scheduled, longer, idle)
      /\ \A x \in Item : Pending(scheduled, longer, idle, x) => Pending(scheduled, retries, worker, x)
  BY <1>3, <1>4, PlacesRetry
<1>6. Accounts(scheduled, longer, idle, emitted, recent_slot)
  BY <1>5, AccountsKept DEF BlockInv
<1> QED BY <1>1, <1>2, <1>4, <1>5, <1>6 DEF BlockInv

LEMMA ReplayKeeps ==
  ASSUME BlockInv, Replay
  PROVE  BlockInv' /\ UNCHANGED emitted
<1>1. /\ retries # <<>> /\ retries' = Tail(retries)
      /\ scheduled' = scheduled \/ scheduled' = Append(scheduled, Head(retries))
      /\ UNCHANGED <<recent_slot, worker, emitted>>
  BY DEF Replay
<1>2. /\ Places(scheduled, Tail(retries), worker) /\ Head(retries) \in Item
      /\ Pending(scheduled, retries, worker, Head(retries))
      /\ ~Pending(scheduled, Tail(retries), worker, Head(retries))
      /\ \A x \in Item : Pending(scheduled, Tail(retries), worker, x) => Pending(scheduled, retries, worker, x)
  BY <1>1, PlacesReplay DEF BlockInv
<1>3. PICK rest : rest = Tail(retries)
  OBVIOUS
<1>4. CASE scheduled' = scheduled
  <2>1. Accounts(scheduled, rest, worker, emitted, recent_slot)
    BY <1>2, <1>3, AccountsKept DEF BlockInv
  <2> QED BY <1>1, <1>2, <1>3, <1>4, <2>1 DEF BlockInv
<1>5. CASE scheduled' = Append(scheduled, Head(retries))
  <2>1. PICK x \in Item : x = Head(retries)
    BY <1>2
  <2>2. /\ <<x>> \in Seq(Item) /\ IsInjective(<<x>>) /\ \A y : Contains(<<x>>, y) => y = x
    BY DEF IsInjective, Contains
  <2>3. /\ Places(scheduled \o <<x>>, rest, worker)
        /\ \A y \in Item : Pending(scheduled \o <<x>>, rest, worker, y)
             => Pending(scheduled, rest, worker, y) \/ Contains(<<x>>, y)
    BY <1>2, <1>3, <2>1, <2>2, PlacesSchedule
  <2>4. scheduled' = scheduled \o <<x>>
    <3>1. scheduled \in Seq(Item)
      BY DEF BlockInv, Places
    <3> QED BY <1>5, <2>1, <3>1
  <2>5. PICK longer : longer = scheduled \o <<x>>
    OBVIOUS
  <2>6. \A y \in Item : Pending(longer, rest, worker, y) => Pending(scheduled, retries, worker, y)
    BY <1>2, <1>3, <2>1, <2>2, <2>3, <2>5
  <2>7. Accounts(longer, rest, worker, emitted, recent_slot)
    BY <2>6, AccountsKept DEF BlockInv
  <2> QED BY <1>1, <1>3, <2>3, <2>4, <2>5, <2>7 DEF BlockInv
<1> QED BY <1>1, <1>4, <1>5

\* A block is sent: at a level that it was not sent at, and as confirmed first.
LEMMA FetchedDelivers ==
  ASSUME BlockInv, NEW w \in Worker, BlockFetched(w), available \subseteq Item
  PROVE  /\ BlockInv'
         /\ \E x \in Item : /\ emitted[x] = 0 /\ emitted' = [emitted EXCEPT ![x] = 1]
                            /\ x[2] = "confirmed" \/ emitted[<<x[1], "confirmed">>] = 1
<1>1. PICK x \in Item : x = worker[w]
  BY DEF BlockFetched
<1>2. /\ x # Idle /\ x = <<x[1], x[2]>> /\ x[2] \in PolledLevel
      /\ <<x[1], "confirmed">> \in Item /\ <<x[1], "finalized">> \in Item
  BY ItemParts
<1>3. PICK idle : idle = [worker EXCEPT ![w] = Idle]
  OBVIOUS
<1>4. /\ Places(scheduled, retries, idle)
      /\ Pending(scheduled, retries, worker, x) /\ ~Pending(scheduled, retries, idle, x)
      /\ \A y \in Item : Pending(scheduled, retries, idle, y) => Pending(scheduled, retries, worker, y)
  BY <1>1, <1>2, <1>3, PlacesDone DEF BlockInv
<1>5. /\ emitted \in [Item -> {0, 1}] /\ emitted[x] = 0
      /\ x[2] = "confirmed" \/ emitted[<<x[1], "confirmed">>] = 1
      /\ x[2] = "confirmed" => x[1] <= recent_slot
  BY <1>2, <1>4 DEF BlockInv, Accounts, PolledLevel
<1>6. PICK sent : sent = [emitted EXCEPT ![x] = 1]
  OBVIOUS
<1>7. /\ emitted' = sent /\ worker' = idle /\ UNCHANGED <<recent_slot, scheduled>>
      /\ retries' = IF x[2] = "confirmed" THEN Append(retries, <<x[1], "finalized">>) ELSE retries
  BY <1>1, <1>3, <1>5, <1>6 DEF BlockFetched
<1>8. /\ sent \in [Item -> {0, 1}] /\ sent[x] = 1
      /\ \A y \in Item : y # x => sent[y] = emitted[y]
  BY <1>5, <1>6
<1>9. Accounts(scheduled, retries, idle, sent, recent_slot)
  <2>1. ASSUME NEW y \in Item
        PROVE  <<y[1], "confirmed">> \in Item
    BY ItemParts
  <2>2. x[2] = "confirmed" => <<x[1], "confirmed">> = x
    BY <1>2
  <2> QED BY <1>4, <1>5, <1>8, <2>1, <2>2 DEF BlockInv, Accounts
<1>10. CASE x[2] # "confirmed"
  BY <1>4, <1>5, <1>6, <1>7, <1>9, <1>10 DEF BlockInv
<1>11. CASE x[2] = "confirmed"
  <2>1. PICK f \in Item : f = <<x[1], "finalized">>
    BY <1>2
  <2>2. f[1] = x[1] /\ f[2] = "finalized" /\ f # x /\ <<f[1], "confirmed">> = x
    BY <1>2, <1>11, <2>1
  <2>3. ~Pending(scheduled, retries, worker, f) /\ emitted[f] = 0
    BY <1>5, <2>2 DEF BlockInv, Accounts
  <2>4. PICK longer : longer = Append(retries, f)
    OBVIOUS
  <2>5. /\ Places(scheduled, longer, idle)
        /\ \A y \in Item : Pending(scheduled, longer, idle, y) => Pending(scheduled, retries, idle, y) \/ y = f
    BY <1>4, <2>3, <2>4, PlacesRetry
  <2>6. Accounts(scheduled, longer, idle, sent, recent_slot)
    BY <1>8, <1>9, <2>2, <2>3, <2>5 DEF Accounts
  <2> QED BY <1>5, <1>6, <1>7, <1>11, <2>1, <2>4, <2>5, <2>6 DEF BlockInv
<1> QED BY <1>10, <1>11

-----------------------------------------------------------------------------
PollInv == SlotInv /\ BlockInv /\ available \subseteq Item

(* What was sent, as the feed sees it.                                                          *)
Sent == [slot \in 0 .. MaxSlot + MaxAhead |-> [level \in PolledLevel |-> emitted[<<slot, level>>]]]

\* A block that is sent as FetchedDelivers has it is a delivery of the feed.
LEMMA SentDelivers ==
  ASSUME BlockInv, NEW x \in Item, emitted[x] = 0, emitted' = [emitted EXCEPT ![x] = 1],
         x[2] = "confirmed" \/ emitted[<<x[1], "confirmed">>] = 1
  PROVE  PolledFeed!FeedNext
<1>1. PICK slot \in 0 .. MaxSlot + MaxAhead, level \in PolledLevel : x = <<slot, level>>
  BY DEF Item
<1>2. /\ x[1] = slot /\ x[2] = level /\ emitted \in [Item -> {0, 1}] /\ "confirmed" \in PolledLevel
      /\ \A s \in 0 .. MaxSlot + MaxAhead, l \in PolledLevel : <<s, l>> \in Item
  BY <1>1 DEF BlockInv, Accounts, Item, PolledLevel
<1>3. \A s \in 0 .. MaxSlot + MaxAhead, l \in PolledLevel :
        emitted'[<<s, l>>] = IF s = slot /\ l = level THEN 1 ELSE emitted[<<s, l>>]
  BY <1>1, <1>2
<1>4. Sent[slot][level] = 0 /\ ("confirmed" \in {level} \/ Sent[slot]["confirmed"] = 1)
  BY <1>1, <1>2 DEF Sent
<1>5. Sent' = [Sent EXCEPT ![slot] = [l \in PolledLevel |-> IF l \in {level} THEN 1 ELSE Sent[slot][l]]]
  <2> DEFINE new == [l \in PolledLevel |-> IF l \in {level} THEN 1 ELSE Sent[slot][l]]
  <2>1. ASSUME NEW s \in 0 .. MaxSlot + MaxAhead
        PROVE  [l \in PolledLevel |-> emitted'[<<s, l>>]] = IF s = slot THEN new ELSE Sent[s]
    <3>1. CASE s = slot
      <4>1. \A l \in PolledLevel : emitted'[<<s, l>>] = new[l]
        BY <1>3, <3>1 DEF Sent
      <4> QED BY <3>1, <4>1
    <3>2. CASE s # slot
      <4>1. \A l \in PolledLevel : emitted'[<<s, l>>] = emitted[<<s, l>>]
        BY <1>3, <3>2
      <4> QED BY <3>2, <4>1 DEF Sent
    <3> QED BY <3>1, <3>2
  <2>2. Sent' = [s \in 0 .. MaxSlot + MaxAhead |-> [l \in PolledLevel |-> emitted'[<<s, l>>]]]
    BY DEF Sent
  <2>3. Sent' = [s \in 0 .. MaxSlot + MaxAhead |-> IF s = slot THEN new ELSE Sent[s]]
    <3> HIDE DEF new
    <3> QED BY <2>1, <2>2
  <2>4. DOMAIN Sent = 0 .. MaxSlot + MaxAhead /\ Sent = [s \in DOMAIN Sent |-> Sent[s]]
    BY DEF Sent
  <2> HIDE DEF new
  <2>5. Sent' = [Sent EXCEPT ![slot] = new]
    BY <2>3, <2>4
  <2> QED BY <2>5 DEF new
<1>6. PolledFeed!Deliver(slot, {level})
  BY <1>4, <1>5 DEF PolledFeed!Deliver, Sent
<1> QED BY <1>6 DEF PolledFeed!FeedNext

LEMMA PollInvInit == PollingInit => PollInv /\ PolledFeed!FeedInit
<1> SUFFICES ASSUME PollingInit PROVE PollInv /\ PolledFeed!FeedInit
  OBVIOUS
<1>1. PollInv
  BY SlotInvInit, BlockInvInit DEF PollInv, PollingInit
<1>2. \A slot \in 0 .. MaxSlot + MaxAhead, level \in PolledLevel : emitted[<<slot, level>>] = 0
  BY DEF PollingInit, Item
<1> QED BY <1>1, <1>2 DEF PolledFeed!FeedInit, PolledFeed!Nothing

\* Every step of the polling keeps the invariant, and is a step of the feed or none.
LEMMA PollInvStep ==
  PollInv /\ [PollingNext]_pollingVars => PollInv' /\ (PolledFeed!FeedNext \/ UNCHANGED emitted)
<1> SUFFICES ASSUME PollInv, [PollingNext]_pollingVars
             PROVE  PollInv' /\ (PolledFeed!FeedNext \/ UNCHANGED emitted)
  OBVIOUS
<1>1. SlotInv'
  BY SlotInvStep DEF PollInv
<1>2. available' \subseteq Item
  <2>1. CASE \E slot \in 1 .. MaxSlot, level \in PolledLevel : BlockAvailable(slot, level)
    <3>1. PICK slot \in 1 .. MaxSlot, level \in PolledLevel : available' = available \cup {<<slot, level>>}
      BY <2>1 DEF BlockAvailable
    <3>2. <<slot, level>> \in Item
      BY PollingAssumption DEF Item
    <3> QED BY <3>1, <3>2 DEF PollInv
  <2>2. CASE ~\E slot \in 1 .. MaxSlot, level \in PolledLevel : BlockAvailable(slot, level)
    <3>1. UNCHANGED available
      BY <2>2 DEF PollingNext, pollingVars, NodeMoves, PollSlot, PollError, SlotUpdate, SlotTimeout,
        GeyserSlot, GeyserReconnect, SlotReceiverLagged, ScheduleBlocks, Replay, TakeBlock, BlockFetched,
        BlockMissing, ClusterInfo, UpdateConnections, LeadersError
    <3> QED BY <3>1 DEF PollInv
  <2> QED BY <2>1, <2>2
<1>3. CASE ScheduleBlocks
  BY <1>1, <1>2, <1>3, ScheduleKeeps DEF PollInv
<1>4. CASE Replay
  BY <1>1, <1>2, <1>4, ReplayKeeps DEF PollInv
<1>5. CASE \E w \in Worker : TakeBlock(w)
  BY <1>1, <1>2, <1>5, TakeKeeps DEF PollInv
<1>6. CASE \E w \in Worker : BlockMissing(w)
  BY <1>1, <1>2, <1>6, MissingKeeps DEF PollInv
<1>7. CASE \E w \in Worker : BlockFetched(w)
  BY <1>1, <1>2, <1>7, FetchedDelivers, SentDelivers DEF PollInv
<1>8. CASE \/ NodeMoves \/ PollSlot \/ PollError \/ SlotUpdate \/ SlotTimeout \/ GeyserReconnect
           \/ SlotReceiverLagged \/ UpdateConnections \/ LeadersError \/ UNCHANGED pollingVars
           \/ \E slot \in 1 .. MaxSlot, level \in PolledLevel : BlockAvailable(slot, level)
           \/ \E g \in Geyser : GeyserSlot(g)
           \/ \E nodes \in ClusterNodes : ClusterInfo(nodes)
  <2>1. UNCHANGED <<recent_slot, scheduled, retries, worker, emitted>>
    BY <1>8 DEF NodeMoves, PollSlot, PollError, SlotUpdate, SlotTimeout, GeyserReconnect, SlotReceiverLagged,
      UpdateConnections, LeadersError, BlockAvailable, GeyserSlot, ClusterInfo, Exit, blockVars, pollingVars
  <2>2. BlockInv'
    BY <2>1 DEF PollInv, BlockInv
  <2> QED BY <1>1, <1>2, <2>1, <2>2 DEF PollInv
<1> QED BY <1>3, <1>4, <1>5, <1>6, <1>7, <1>8 DEF PollingNext

\* The polling of blocks (poll_blocks.rs) implements the feed of blocks, for any number of workers
\* and any order in which blocks are fetched, missed and replayed: a block is sent once at each
\* level, and as finalized only after it was sent as confirmed.
THEOREM PollingIsAFeed == PollingSpec => PollsLikeAFeed
<1>1. PollInv /\ [PollingNext]_pollingVars
        => PollInv' /\ [PolledFeed!FeedNext]_([slot \in 0 .. MaxSlot + MaxAhead |->
                                                [level \in PolledLevel |-> emitted[<<slot, level>>]]])
  BY PollInvStep
<1> QED BY <1>1, PollInvInit, PTL DEF PollingSpec, PollsLikeAFeed, PolledFeed!FeedSpec
=============================================================================
