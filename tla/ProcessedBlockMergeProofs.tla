--------------------- MODULE ProcessedBlockMergeProofs ---------------------
(* The merging task forwards no slot twice, for every set of slots and every
   MAX_SIZE.                                                                *)
EXTENDS ProcessedBlockMerge, FiniteSetTheorems, TLAPS

(* What makes forgetting safe: a forwarded slot that is no longer remembered is
   older than everything remembered, and by then the set is more than half
   full, so that the "too old" check answers for the forgotten slots.  The
   block being sent has passed that check, and nothing changed since.        *)
Forgotten == sent \ slots_processed

MergeInv ==
  /\ MergeTypeOK
  /\ \A f \in Forgotten, s \in slots_processed : f < s
  /\ Forgotten # {} => /\ slots_processed # {}
                       /\ Cardinality(slots_processed) >= MaxSize \div 2
  /\ sending \in Slot => sending \notin slots_processed /\ ~TooOld(sending)

\* The invariant gives the property: a slot in sent is remembered, or it is
\* forgotten and then too old.
LEMMA MergeInvImplies == MergeInv => NoSlotSentTwice
<1> SUFFICES ASSUME MergeInv, sending \in Slot, sending \in sent PROVE FALSE
  BY DEF NoSlotSentTwice
<1>1. sending \in Forgotten
  BY DEF MergeInv, Forgotten
<1>2. /\ slots_processed # {}
      /\ Cardinality(slots_processed) >= MaxSize \div 2
      /\ \A s \in slots_processed : sending < s
  BY <1>1 DEF MergeInv
<1>3. \A s \in slots_processed : sending <= s
  BY <1>2, MergeAssumption DEF MergeInv, MergeTypeOK
<1> QED BY <1>2, <1>3 DEF MergeInv, TooOld, NotAfterFirst

\* Adding a slot to the remembered set makes it one larger, and taking the
\* first one out of a set that grew beyond MaxSize leaves MaxSize slots.
LEMMA RememberSize ==
  ASSUME MergeInv, NEW after, sending \in Slot, Remember(sending, after)
  PROVE  /\ after \subseteq slots_processed \cup {sending}
         /\ after # {}
         /\ IsFiniteSet(after)
         /\ Cardinality(after) <= MaxSize
         /\ Cardinality(after) >= Cardinality(slots_processed)
         /\ after = slots_processed \cup {sending}
              \/ \E first \in slots_processed \cup {sending} :
                   /\ \A s \in slots_processed \cup {sending} : first <= s
                   /\ after = (slots_processed \cup {sending}) \ {first}
                   /\ Cardinality(after) = MaxSize
<1> DEFINE grown == slots_processed \cup {sending}
<1>1. /\ IsFiniteSet(slots_processed)
      /\ sending \notin slots_processed
      /\ Cardinality(slots_processed) \in Nat
      /\ Cardinality(slots_processed) <= MaxSize
  BY FS_CardinalityType DEF MergeInv, MergeTypeOK
<1>2. IsFiniteSet(grown) /\ Cardinality(grown) = Cardinality(slots_processed) + 1
  BY <1>1, FS_AddElement
<1>3. CASE Cardinality(grown) > MaxSize
  <2>1. PICK first \in grown : /\ \A s \in grown : first <= s
                               /\ after = grown \ {first}
    BY <1>3 DEF Remember
  <2>2. IsFiniteSet(after) /\ Cardinality(after) = Cardinality(grown) - 1
    BY <1>2, <2>1, FS_RemoveElement
  <2>3. Cardinality(after) = MaxSize
    BY <1>1, <1>2, <1>3, <2>2, MergeAssumption
  <2>4. after # {}
    BY <2>3, FS_EmptySet, MergeAssumption
  <2> QED
    BY <1>1, <2>1, <2>2, <2>3, <2>4, MergeAssumption
<1>4. CASE ~(Cardinality(grown) > MaxSize)
  <2>1. after = grown
    BY <1>4 DEF Remember
  <2> QED
    BY <1>1, <1>2, <1>4, <2>1, MergeAssumption
<1> QED BY <1>3, <1>4

\* Every step keeps the invariant; only the end of a send changes the set.
LEMMA MergeInvStep == MergeInv /\ [MergeNext]_mergeVars => MergeInv'
<1> SUFFICES ASSUME MergeInv, [MergeNext]_mergeVars PROVE MergeInv'
  OBVIOUS
<1>1. CASE MergeSent
  <2>1. /\ sending \in Slot /\ sending' = NoSlot /\ sent' = sent \cup {sending}
        /\ Remember(sending, slots_processed')
    BY <1>1 DEF MergeSent
  <2>2. /\ slots_processed' \subseteq slots_processed \cup {sending}
        /\ slots_processed' # {}
        /\ IsFiniteSet(slots_processed')
        /\ Cardinality(slots_processed') <= MaxSize
        /\ Cardinality(slots_processed') >= Cardinality(slots_processed)
        /\ slots_processed' = slots_processed \cup {sending}
             \/ \E first \in slots_processed \cup {sending} :
                  /\ \A s \in slots_processed \cup {sending} : first <= s
                  /\ slots_processed' = (slots_processed \cup {sending}) \ {first}
                  /\ Cardinality(slots_processed') = MaxSize
    BY <2>1, RememberSize
  <2>3. MergeTypeOK'
    BY <2>1, <2>2 DEF MergeInv, MergeTypeOK
  <2>4. \A f \in Forgotten : f < sending
    <3> SUFFICES ASSUME NEW f \in Forgotten PROVE f < sending
      OBVIOUS
    <3>1. slots_processed # {} /\ Cardinality(slots_processed) >= MaxSize \div 2
      BY DEF MergeInv
    <3>2. PICK s \in slots_processed : ~(sending <= s)
      BY <2>1, <3>1 DEF MergeInv, TooOld, NotAfterFirst
    <3>3. f < s /\ f \in Nat /\ s \in Nat /\ sending \in Nat
      BY <2>1, <3>2, MergeAssumption DEF MergeInv, MergeTypeOK, Forgotten
    <3> QED BY <3>2, <3>3
  <2>5. /\ \A f \in Forgotten', s \in slots_processed' : f < s
        /\ Forgotten' # {} => Cardinality(slots_processed') >= MaxSize \div 2
    <3>1. CASE slots_processed' = slots_processed \cup {sending}
      <4>1. Forgotten' \subseteq Forgotten
        BY <2>1, <3>1 DEF Forgotten
      <4>2. Cardinality(slots_processed) \in Nat /\ Cardinality(slots_processed') \in Nat
        BY <2>2, FS_CardinalityType DEF MergeInv, MergeTypeOK
      <4> QED
        BY <2>2, <2>4, <3>1, <4>1, <4>2, MergeAssumption DEF MergeInv
    <3>2. CASE \E first \in slots_processed \cup {sending} :
                  /\ \A s \in slots_processed \cup {sending} : first <= s
                  /\ slots_processed' = (slots_processed \cup {sending}) \ {first}
                  /\ Cardinality(slots_processed') = MaxSize
      <4>1. PICK first \in slots_processed \cup {sending} :
                  /\ \A s \in slots_processed \cup {sending} : first <= s
                  /\ slots_processed' = (slots_processed \cup {sending}) \ {first}
                  /\ Cardinality(slots_processed') = MaxSize
        BY <3>2
      <4>2. Forgotten' \subseteq Forgotten \cup {first}
        BY <2>1, <4>1 DEF Forgotten
      <4>3. \A s \in slots_processed' : first < s
        BY <2>1, <2>2, <4>1, MergeAssumption DEF MergeInv, MergeTypeOK
      <4>4. \A f \in Forgotten, s \in slots_processed' : f < s
        BY <2>2, <2>4 DEF MergeInv
      <4> QED
        BY <4>1, <4>2, <4>3, <4>4, MergeAssumption
    <3> QED BY <2>2, <3>1, <3>2
  <2>6. sending' \notin Slot
    BY <2>1, MergeAssumption
  <2> QED
    BY <2>2, <2>3, <2>5, <2>6 DEF MergeInv
<1>2. CASE \E slot \in Slot : MergeReceive(slot)
  BY <1>2 DEF MergeReceive, MergeInv, MergeTypeOK, Forgotten, TooOld, NotAfterFirst
<1>3. CASE \E slot \in Slot : MergeSkip(slot)
  BY <1>3 DEF MergeSkip, mergeVars, MergeInv, MergeTypeOK, Forgotten, TooOld, NotAfterFirst
<1>4. CASE UNCHANGED mergeVars
  BY <1>4 DEF mergeVars, MergeInv, MergeTypeOK, Forgotten, TooOld, NotAfterFirst
<1> QED BY <1>1, <1>2, <1>3, <1>4 DEF MergeNext

\* The empty memory of a task that starts satisfies the invariant.
LEMMA MergeInvInit == MergeInit => MergeInv
  BY MergeAssumption, FS_EmptySet DEF MergeInit, MergeInv, MergeTypeOK, Forgotten

\* The merging task (grpc_multiplex.rs, slots_processed) keeps its set of
\* remembered slots within MAX_SIZE and forwards the block of a slot at most
\* once, however many sources repeat it and however late.
THEOREM MergeForwardsOnce == MergeSpec => [](MergeTypeOK /\ NoSlotSentTwice)
<1>1. MergeSpec => []MergeInv
  BY MergeInvInit, MergeInvStep, PTL DEF MergeSpec
<1>2. MergeInv => MergeTypeOK /\ NoSlotSentTwice
  BY MergeInvImplies DEF MergeInv
<1> QED BY <1>1, <1>2, PTL
=============================================================================
