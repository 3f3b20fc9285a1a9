---------------------------- MODULE LookupTables -----------------------------
(* The cache of address lookup tables (address-lookup-tables/src), for one table.  The node's table
   only grows, so a version of it is its length; a load that takes too long is not waited for, but
   goes on.                                                                                     *)
EXTENDS Naturals, SequencesExt

CONSTANTS
  Addresses,     \* the addresses of the table, once it has all
  SizeMod,       \* the length is compared as u8: 2^8
  MaxLoads       \* bound: loads under way

ASSUME TableAssumption == SizeMod \in Nat \ {0} /\ MaxLoads \in Nat

VARIABLES
  table,         \* length of the table at the node
  map,           \* length of the cached version, 0 if there is none
  loads          \* load tasks: <<>> before, <<length>> after the node's answer

tableVars == <<table, map, loads>>

TablesInit == table = 1 /\ map \in {0, 1} /\ loads = <<>>

\* external: addresses are appended to the table
ExtendTable == table < Len(Addresses) /\ table' = table + 1 /\ UNCHANGED <<map, loads>>

\* (faulty: off by one)
NeedsLoadLate(indexes) == map = 0 \/ \E i \in indexes : i > map % SizeMod

\* reload_if_necessary: the table is not there, or an index is beyond it
NeedsLoad(indexes) == map = 0 \/ \E i \in indexes : i >= map % SizeMod

\* load_alts_list: a task is spawned; it asks the node, ...
StartLoad == loads' = Append(loads, <<>>)
Answer(k) == loads[k] = <<>> /\ loads' = [loads EXCEPT ![k] = <<table>>] /\ UNCHANGED <<table, map>>

\* ... and ends with an error or saves the account.
LoadFails(k) == loads[k] = <<>> /\ loads' = RemoveAt(loads, k) /\ UNCHANGED <<table, map>>
SaveAccount(k) ==
  /\ loads[k] # <<>> /\ map' = Head(loads[k])
  /\ loads' = RemoveAt(loads, k) /\ UNCHANGED table

\* get_accounts: nothing, if the table is not there or an index is beyond it
Resolved(indexes) ==
  IF map = 0 \/ \E i \in indexes : i >= map THEN {} ELSE {Addresses[i + 1] : i \in indexes}
=============================================================================
