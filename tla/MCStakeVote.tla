---------------------------- MODULE MCStakeVote -----------------------------
(* One account of each program, and a change of epoch.  The process before
   this one saved the stakes of this epoch and of the next. *)
EXTENDS StakeVote

MCFiles == {<<StartEpoch, StartEpoch + 1>>}
=============================================================================
