------------------------------ MODULE MCBlocks -------------------------------
(* The merge task alone, with seven slots and a memory of four, so that slots are forgotten
   and come back; or the whole multiplexer with two of the slots, channels of one, and a
   restart after one silent tick. *)
EXTENDS BlockMultiplexer

VARIABLE part          \* "merge" or "multiplexer"

FewSlots == sending' \in {1, 2, NoSlot} /\ \A l \in Level : info'[l].tip <= 2

MCInit == Init /\ part \in {"merge", "multiplexer"}
MCNext ==
  \/ part = "merge" /\ MergeNext /\ UNCHANGED <<block_chan, info, ended, exit, emitter, emitVars, idle, part>>
  \/ part = "multiplexer" /\ Next /\ FewSlots /\ UNCHANGED part

\* The fairness of the multiplexer, where it runs
Runs == part = "multiplexer"
MCSpec ==
  /\ MCInit /\ [][MCNext]_<<vars, part>>
  /\ WF_vars(Runs /\ MergeTask /\ MergeSent) /\ \A l \in Level : WF_vars(Runs /\ InfoSent(l))
  /\ WF_vars(Runs /\ ProcessedBlock) /\ WF_vars(Runs /\ ProcessedInfo)
  /\ WF_vars(Runs /\ ConfirmedInfo) /\ WF_vars(Runs /\ FinalizedInfo)
  /\ WF_vars(Runs /\ CleanupTick) /\ WF_vars(Runs /\ Restart)

\* For the restart alone
RestartSpec == Init /\ part = "multiplexer" /\ [][MCNext]_<<vars, part>> /\ Fairness /\ ExitFairness
=============================================================================
