----------------------- MODULE ActiveConnectionProofs -----------------------
(* No wake-up is lost between the heap filler and the main loop of listen, for
   every set of transactions, heap size, channel size and number of permits. *)
EXTENDS ActiveConnection, TLAPS

(* The promise has to hold before the main loop first waits, too: what the
   filler inserts while the first connection is being made leaves a permit
   behind.  And there is no filler before listen has spawned it.             *)
WakeInv ==
  /\ filler = [pc |-> filler.pc, tx |-> filler.tx, height |-> filler.height]
  /\ main = [pc |-> main.pc, tx |-> main.tx]
  /\ main.pc = "start" => filler.pc = "unborn"
  /\ ~IsEmptyHeap(heap) /\ main.pc \in {"start", "connect", "wait"}
       => permit \/ filler.pc = "notify"

\* Nothing is in the heap of a new listener.
LEMMA WakeInvInit == ConnInit => WakeInv
  BY DEF ConnInit, WakeInv, EmptyHeap, IsEmptyHeap

\* Expiry only takes cells away.
LEMMA ExpiryShrinks ==
  ASSUME NEW h, NEW height, IsEmptyHeap(h)
  PROVE  IsEmptyHeap(RemoveExpired(h, height))
  BY DEF IsEmptyHeap, RemoveExpired

\* Every step keeps the promise.
LEMMA WakeInvStep == WakeInv /\ [ConnNext]_connVars => WakeInv'
<1> SUFFICES ASSUME WakeInv, [ConnNext]_connVars PROVE WakeInv'
  OBVIOUS
<1> USE DEF WakeInv, envVars
<1>1. CASE Environment
  BY <1>1 DEF Environment, Broadcast, StatusChange, NewBlock, SendExit
<1>2. CASE Filler
  <2>1. CASE FillerReceive
    BY <2>1 DEF FillerReceive
  <2>2. CASE FillerLagged
    BY <2>2 DEF FillerLagged
  <2>3. CASE FillerInsert
    BY <2>3 DEF FillerInsert
  <2>4. CASE FillerNotify
    BY <2>4 DEF FillerNotify
  <2>5. CASE FillerExpire
    <3>1. IsEmptyHeap(heap) => IsEmptyHeap(heap')
      BY <2>5, ExpiryShrinks DEF FillerExpire
    <3> QED BY <2>5, <3>1 DEF FillerExpire
  <2>6. CASE FillerExit
    BY <2>6 DEF FillerExit
  <2>7. CASE FillerStart
    BY <2>7 DEF FillerStart
  <2> QED BY <1>2, <2>1, <2>2, <2>3, <2>4, <2>5, <2>6, <2>7 DEF Filler
<1>3. CASE Main
  <2>1. CASE MainStart
    BY <2>1 DEF MainStart
  <2>2. CASE MainConnect
    BY <2>2 DEF MainConnect
  <2>3. CASE MainWake
    BY <2>3 DEF MainWake
  <2>4. CASE MainPop
    <3>1. CASE IsEmptyHeap(heap)
      BY <2>4, <3>1 DEF MainPop
    <3>2. CASE ~IsEmptyHeap(heap)
      <4>1. main' = main \/ main' = [pc |-> "acquire", tx |-> PopElement(heap)]
        BY <2>4, <3>2 DEF MainPop
      <4> QED BY <2>4, <4>1 DEF MainPop
    <3> QED BY <3>1, <3>2
  <2>5. CASE MainSend
    BY <2>5 DEF MainSend
  <2>6. CASE MainExit
    BY <2>6 DEF MainExit
  <2>7. CASE MainJoin
    BY <2>7 DEF MainJoin
  <2> QED BY <1>3, <2>1, <2>2, <2>3, <2>4, <2>5, <2>6, <2>7 DEF Main
<1>4. CASE SendTaskDone
  BY <1>4 DEF SendTaskDone
<1>5. CASE UNCHANGED connVars
  BY <1>5 DEF connVars
<1> QED BY <1>1, <1>2, <1>3, <1>4, <1>5 DEF ConnNext

\* listen (tpu_connection_manager.rs): the main loop never sleeps on a heap that
\* has transactions in it while no wake-up is stored or on its way, whatever the
\* order of insert, notify_one, pop and remove_expired_transactions.
THEOREM WakeupNotLost == ConnSpec => []NoLostWakeup
<1>1. ConnSpec => []WakeInv
  BY WakeInvInit, WakeInvStep, PTL DEF ConnSpec
<1>2. WakeInv => NoLostWakeup
  BY DEF WakeInv, NoLostWakeup
<1> QED BY <1>1, <1>2, PTL
=============================================================================
