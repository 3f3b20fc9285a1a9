---------------------------- MODULE AccountStore ----------------------------
(* The in-memory account store of lite-rpc (accounts/src/inmemory_account_store.rs)
   under the tasks that use it: account streams that call update_account, the
   block info task that calls process_slot_data, and populate_from_rpc, which runs
   while the streams are already on (accounts/src/account_service.rs).

   A version of an account is its slot and its owner; the owner stands for all the
   contents.  An access to one entry of a DashMap or DashSet is one step.         *)
EXTENDS Integers, FiniteSets

CONSTANTS
  Account, Owner,
  StreamTask,    \* the account stream tasks
  Populate,      \* the task of populate_from_rpc
  Reader,        \* callers of get_account and get_program_accounts
  Version,       \* versions the cluster delivers: [slot, owner]
  BlockSlot,     \* slots the block info stream announces
  None           \* an empty Option, a vacant entry, a task without a call

Task == StreamTask \cup {Populate} \cup Reader
Level == {"processed", "confirmed", "finalized"}

AnyVersion == [slot : Nat, owner : Owner]
Entry == [processed : SUBSET AnyVersion, confirmed : AnyVersion \cup {None},
          finalized : AnyVersion \cup {None}]
UpdateCall == [acc : Account, data : AnyVersion, level : Level \cup {"initialize"}]
SlotCall == [slot : BlockSlot, level : {"confirmed", "finalized"}, todo : SUBSET Account,
             moved : SUBSET [acc : Account, from : Owner, to : Owner]]

ASSUME StoreAssumption ==
  /\ Version \subseteq AnyVersion
  /\ BlockSlot \subseteq Nat \ {0}
  /\ None \notin AnyVersion
  /\ None \notin Entry
  /\ None \notin UpdateCall
  /\ None \notin SlotCall

VARIABLES
  account_store,      \* AccountDataByCommitment, or None
  confirmed_slots,    \* confirmed_slots_map
  accounts_by_owner,  \* set of accounts, or None
  update,             \* the call of update_account a task is in, with the
                      \* commitment it found; "initialize": about to insert
  block,              \* the call of process_slot_data: accounts still to visit,
                      \* changes of owner still to index
  missed              \* history: accounts and slots whose update was under way when
                      \* the slot was confirmed

storeVars == <<account_store, confirmed_slots, accounts_by_owner, update, block, missed>>

StoreInit ==
  /\ account_store = [a \in Account |-> None]
  /\ confirmed_slots = {}
  /\ accounts_by_owner = [o \in Owner |-> None]
  /\ update = [t \in Task |-> None]
  /\ block = None
  /\ missed = {}

-----------------------------------------------------------------------------
(* AccountDataByCommitment: the versions by slot (one per slot), the confirmed
   and the finalized one.                                                        *)
Slots(e) == {v.slot : v \in e.processed}
Newest(vs) == CHOOSE v \in vs : \A w \in vs : w.slot <= v.slot

GetAccountData(e, c) ==
  CASE c = "processed" -> IF e.processed # {} THEN Newest(e.processed) ELSE e.confirmed
    [] c = "confirmed" -> e.confirmed
    [] c = "finalized" -> e.finalized

NewEntry(d, c) ==
  [processed |-> {d},
   confirmed |-> IF c \in {"confirmed", "finalized"} THEN d ELSE None,
   finalized |-> IF c = "finalized" THEN d ELSE None]

\* (faulty: the order of the slots is not looked at)
IsNewerAlways(opt, d) == TRUE

IsNewer(opt, d) == opt = None \/ opt.slot < d.slot

\* AccountDataByCommitment::update: the first version of a slot stays.
Updated(e, d, c) ==
  [processed |-> IF d.slot \in Slots(e) THEN e.processed ELSE e.processed \cup {d},
   confirmed |-> IF c \in {"confirmed", "finalized"} /\ IsNewer(e.confirmed, d)
                 THEN d ELSE e.confirmed,
   finalized |-> IF c = "finalized" /\ IsNewer(e.finalized, d) THEN d ELSE e.finalized]

\* (faulty: pops from the end)
PrunedNewest(vs, slot) ==
  LET earlier == {v \in vs : v.slot < slot} IN IF earlier = {} THEN vs ELSE earlier

\* The versions up to a finalized slot are popped while more than one is left.
Pruned(vs, slot) ==
  LET later == {v \in vs : v.slot > slot}
  IN  IF later = {} THEN {Newest(vs)} ELSE later

SlotOf(opt) == IF opt = None THEN 0 ELSE opt.slot

\* promote_slot_commitment
Promoted(e, slot, c) ==
  LET here == {v \in e.processed : v.slot = slot}
      Raised(opt) == IF here # {} /\ SlotOf(opt) < slot
                     THEN CHOOSE v \in here : TRUE ELSE opt
  IN  IF c = "confirmed"
      THEN [e EXCEPT !.confirmed = Raised(@)]
      ELSE [e EXCEPT !.processed = Pruned(@, slot), !.finalized = Raised(@)]

-----------------------------------------------------------------------------
\* add_account_owner
AddAccountOwner(index, a, o) ==
  [index EXCEPT ![o] = (IF @ = None THEN {} ELSE @) \cup {a}]

\* update_owner: the previous owner loses the account at finalized only
UpdateOwner(index, a, from, to, c) ==
  IF from = to THEN index
  ELSE AddAccountOwner(
         IF c = "finalized" /\ index[from] # None
         THEN [index EXCEPT ![from] = @ \ {a}] ELSE index, a, to)

\* (faulty: the commitment of the slot is not looked at)
BeginUpdateAsIs(t, a, d, c) ==
  update' = [update EXCEPT ![t] = [acc |-> a, data |-> d, level |-> c]]

\* update_account, first step: a processed version of a confirmed slot is confirmed
BeginUpdate(t, a, d, c) ==
  update' = [update EXCEPT ![t] =
    [acc |-> a, data |-> d,
     level |-> IF c = "processed" /\ d.slot \in confirmed_slots THEN "confirmed" ELSE c]]

\* An account stream delivers a processed version.
StreamReceive(t) ==
  /\ update[t] = None
  /\ \E a \in Account, d \in Version : BeginUpdate(t, a, d, "processed")
  /\ UNCHANGED <<account_store, confirmed_slots, accounts_by_owner, block, missed>>

\* update_account, second step, under the lock of the entry
UpdateEntry(t) ==
  /\ update[t] # None /\ update[t].level # "initialize"
  /\ LET u == update[t]
         e == account_store[u.acc]
         now == IF e = None THEN NewEntry(u.data, u.level) ELSE Updated(e, u.data, u.level)
         prev == IF e = None THEN None ELSE GetAccountData(e, u.level)
     IN  /\ account_store' = [account_store EXCEPT ![u.acc] = now]
         /\ accounts_by_owner' =
              CASE e = None -> AddAccountOwner(accounts_by_owner, u.acc, u.data.owner)
                [] e # None /\ now # e /\ prev # None ->
                     UpdateOwner(accounts_by_owner, u.acc, prev.owner, u.data.owner, u.level)
                [] OTHER -> accounts_by_owner
  /\ update' = [update EXCEPT ![t] = None]
  /\ UNCHANGED <<confirmed_slots, block, missed>>

\* initilize_or_update_account with a finalized version: contains_key ...
PopulateCheck ==
  /\ update[Populate] = None
  /\ \E a \in Account, d \in Version :
       IF account_store[a] # None
       THEN BeginUpdate(Populate, a, d, "finalized")
       ELSE update' = [update EXCEPT ![Populate] =
                         [acc |-> a, data |-> d, level |-> "initialize"]]
  /\ UNCHANGED <<account_store, confirmed_slots, accounts_by_owner, block, missed>>

\* ... then insert, which replaces what another task stored meanwhile.
PopulateInsert ==
  /\ update[Populate] # None /\ update[Populate].level = "initialize"
  /\ LET u == update[Populate]
     IN  /\ account_store' =
              [account_store EXCEPT ![u.acc] = NewEntry(u.data, "finalized")]
         /\ accounts_by_owner' = AddAccountOwner(accounts_by_owner, u.acc, u.data.owner)
  /\ update' = [update EXCEPT ![Populate] = None]
  /\ UNCHANGED <<confirmed_slots, block, missed>>

-----------------------------------------------------------------------------
\* an update that found the slot not confirmed and has not reached the entry yet
UnderWay(t, s) ==
  update[t] # None /\ update[t].level = "processed" /\ update[t].data.slot = s

\* process_slot_data for a confirmed or finalized block (processed ones are
\* skipped by the caller): the set of confirmed slots first ...
ProcessSlotData ==
  /\ block = None
  /\ \E s \in BlockSlot, c \in {"confirmed", "finalized"} :
       /\ confirmed_slots' = IF c = "confirmed" THEN confirmed_slots \cup {s}
                             ELSE confirmed_slots \ {s}
       /\ block' = [slot |-> s, level |-> c, todo |-> Account, moved |-> {}]
       /\ missed' = missed \cup
            {<<update[t].acc, s>> : t \in {x \in Task : c = "confirmed" /\ UnderWay(x, s)}}
  /\ UNCHANGED <<account_store, accounts_by_owner, update>>

\* ... then each account in turn, under the lock of its entry, ...
PromoteAccount(a) ==
  /\ block # None /\ a \in block.todo
  /\ LET e == account_store[a]
         now == IF e = None THEN None ELSE Promoted(e, block.slot, block.level)
         prev == IF e = None THEN None ELSE GetAccountData(e, block.level)
         new == IF e = None THEN None ELSE GetAccountData(now, block.level)
         move == IF new # prev /\ prev # None /\ prev.owner # new.owner
                 THEN {[acc |-> a, from |-> prev.owner, to |-> new.owner]} ELSE {}
     IN  /\ account_store' = [account_store EXCEPT ![a] = now]
         /\ block' = [block EXCEPT !.todo = @ \ {a}, !.moved = @ \cup move]
  /\ UNCHANGED <<confirmed_slots, accounts_by_owner, update, missed>>

\* ... then the changes of owner.
MoveOwner ==
  /\ block # None /\ block.todo = {}
  /\ \E m \in block.moved :
       /\ accounts_by_owner' =
            UpdateOwner(accounts_by_owner, m.acc, m.from, m.to, block.level)
       /\ block' = [block EXCEPT !.moved = @ \ {m}]
  /\ UNCHANGED <<account_store, confirmed_slots, update, missed>>

SlotDataDone ==
  /\ block # None /\ block.todo = {} /\ block.moved = {}
  /\ block' = None
  /\ UNCHANGED <<account_store, confirmed_slots, accounts_by_owner, update, missed>>

\* InmemoryAccountStore::get_account and get_program_accounts
GetAccount(a, c) ==
  IF account_store[a] = None THEN None ELSE GetAccountData(account_store[a], c)

GetProgramAccounts(o, c) ==
  IF accounts_by_owner[o] = None THEN None
  ELSE {a \in accounts_by_owner[o] : GetAccount(a, c) # None /\ GetAccount(a, c).owner = o}

StoreNext ==
  \/ \E t \in StreamTask : StreamReceive(t)
  \/ \E t \in Task : UpdateEntry(t)
  \/ PopulateCheck
  \/ PopulateInsert
  \/ ProcessSlotData
  \/ \E a \in Account : PromoteAccount(a)
  \/ MoveOwner
  \/ SlotDataDone

StoreSpec == StoreInit /\ [][StoreNext]_storeVars

-----------------------------------------------------------------------------
\* A processed read is never older than a confirmed or a finalized one: pruning
\* at a finalized slot, late versions and raised commitments leave a version at
\* least as new as both among the processed ones.
ProcessedIsNewest ==
  \A a \in Account : account_store[a] # None =>
    \A opt \in {account_store[a].confirmed, account_store[a].finalized} :
      opt # None => \E v \in account_store[a].processed : opt.slot <= v.slot

NotOlder(old, new) == old # None => new # None /\ old.slot <= new.slot

\* What a commitment level shows of an account never goes back to an older slot
\* or to nothing, whatever the order of updates, confirmations and finalizations; the
\* one exception is the insert of initilize_or_update_account.
CommittedOnlyGrows ==
  [][PopulateInsert \/
     \A a \in Account : account_store[a] # None =>
       /\ account_store'[a] # None
       /\ NotOlder(account_store[a].confirmed, account_store'[a].confirmed)
       /\ NotOlder(account_store[a].finalized, account_store'[a].finalized)]_storeVars

\* A stored version of a confirmed slot is visible at confirmed, or a newer one
\* is, as soon as process_slot_data has visited the account; left out are the
\* versions whose update looked at confirmed_slots_map before the slot got
\* there and reached the entry after.
ConfirmedSlotsShown ==
  \A a \in Account : account_store[a] # None =>
    \A s \in Slots(account_store[a]) \cap confirmed_slots :
      \/ s <= SlotOf(account_store[a].confirmed)
      \/ block # None /\ block.level = "confirmed" /\ block.slot = s /\ a \in block.todo
      \/ <<a, s>> \in missed
=============================================================================
