------------------------- MODULE MCAccountsOnDemand -------------------------
(* Two readers of one account, whose owner is the only program, each at processed or confirmed,
   beside populate_from_rpc and the block info task.                                          *)
EXTENDS AccountsOnDemand

CONSTANT o1
MCOwner == {o1}
MCVersion == {[slot |-> 1, owner |-> o1]}
MCBlockSlot == {1}
=============================================================================
