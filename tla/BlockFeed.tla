----------------------------- MODULE BlockFeed -------------------------------
(* What the consumers of blocks rely on, wherever the blocks come from: of a slot every level is
   delivered at most once, and the first level is the first, or at least comes along with the
   others.  A source that had to reconnect may begin again.                                     *)
EXTENDS Naturals

CONSTANTS
  FeedSlot, FeedLevel,
  FirstLevel,      \* the level that the others follow
  Reconnects       \* does the source reconnect

VARIABLE delivered \* how often a slot was delivered at a level

Nothing == [slot \in FeedSlot |-> [level \in FeedLevel |-> 0]]

FeedInit == delivered = Nothing

\* One block, or several levels of the block at once
Deliver(slot, levels) ==
  /\ levels # {} /\ \A level \in levels : delivered[slot][level] = 0
  /\ FirstLevel \in levels \/ delivered[slot][FirstLevel] = 1
  /\ delivered' = [delivered EXCEPT ![slot] =
                     [level \in FeedLevel |-> IF level \in levels THEN 1 ELSE delivered[slot][level]]]

Reconnect == Reconnects /\ delivered' = Nothing

FeedNext == Reconnect \/ \E slot \in FeedSlot, levels \in SUBSET FeedLevel : Deliver(slot, levels)

FeedSpec == FeedInit /\ [][FeedNext]_delivered
=============================================================================
