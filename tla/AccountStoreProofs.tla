------------------------- MODULE AccountStoreProofs -------------------------
(* The commitment levels of an account, for any accounts, versions, streams and
   block notifications.                                                        *)
EXTENDS AccountStore, TLAPS

HasNewest(vs) == \E v \in vs : \A w \in vs : w.slot <= v.slot

Covered(e, opt) == opt # None => \E v \in e.processed : opt.slot <= v.slot

(* What is true of an entry by itself: there is a newest processed version, and it
   is at least as new as the confirmed and the finalized one.                  *)
EntryOK(e) ==
  e \in Entry /\ HasNewest(e.processed) /\ Covered(e, e.confirmed) /\ Covered(e, e.finalized)

StoreInv ==
  /\ account_store \in [Account -> Entry \cup {None}]
  /\ \A a \in Account : account_store[a] # None => EntryOK(account_store[a])
  /\ update \in [Task -> UpdateCall \cup {None}]
  /\ block \in SlotCall \cup {None}

(* No commitment goes back from entry e to entry f.                            *)
Grows(e, f) ==
  NotOlder(e.confirmed, f.confirmed) /\ NotOlder(e.finalized, f.finalized)

-----------------------------------------------------------------------------
\* The newest version is one of the versions, and none is newer.
LEMMA NewestIsNewest ==
  ASSUME NEW vs, HasNewest(vs)
  PROVE  Newest(vs) \in vs /\ \A w \in vs : w.slot <= Newest(vs).slot
  BY DEF HasNewest, Newest

\* An entry is created with its only version.
LEMMA NewEntryIsOK ==
  ASSUME NEW d \in AnyVersion, NEW c
  PROVE  EntryOK(NewEntry(d, c))
<1> DEFINE e == NewEntry(d, c)
<1>1. e \in Entry
  BY DEF NewEntry, Entry
<1>2. e.processed = {d} /\ e.confirmed \in {d, None} /\ e.finalized \in {d, None}
  BY DEF NewEntry
<1>3. d.slot \in Nat
  BY DEF AnyVersion
<1> QED BY <1>1, <1>2, <1>3 DEF EntryOK, HasNewest, Covered

\* AccountDataByCommitment::update keeps an entry in order.
LEMMA UpdatedIsOK ==
  ASSUME NEW e, EntryOK(e), NEW d \in AnyVersion, NEW c
  PROVE  EntryOK(Updated(e, d, c)) /\ Grows(e, Updated(e, d, c))
<1> DEFINE f == Updated(e, d, c)
<1>1. /\ e.processed \subseteq AnyVersion
      /\ e.confirmed \in AnyVersion \cup {None} /\ e.finalized \in AnyVersion \cup {None}
  BY DEF EntryOK, Entry
<1>2. /\ f.processed = e.processed \/ f.processed = e.processed \cup {d}
      /\ f.confirmed = e.confirmed \/ (f.confirmed = d /\ IsNewer(e.confirmed, d))
      /\ f.finalized = e.finalized \/ (f.finalized = d /\ IsNewer(e.finalized, d))
  BY DEF Updated
<1>3. \E v \in f.processed : v.slot = d.slot
  BY DEF Updated, Slots
<1>4. f \in Entry
  BY <1>1 DEF Updated, Entry
<1>5. d.slot \in Nat /\ \A v \in AnyVersion : v.slot \in Nat
  BY DEF AnyVersion
<1>6. HasNewest(f.processed)
  <2>1. PICK v \in e.processed : \A w \in e.processed : w.slot <= v.slot
    BY DEF EntryOK, HasNewest
  <2>2. CASE v.slot <= d.slot
    <3>1. PICK x \in f.processed : x.slot = d.slot
      BY <1>3
    <3>2. \A w \in f.processed : w.slot <= x.slot
      BY <1>1, <1>2, <1>5, <2>1, <2>2, <3>1
    <3> QED BY <3>2 DEF HasNewest
  <2>3. CASE ~(v.slot <= d.slot)
    <3>1. v \in f.processed /\ \A w \in f.processed : w.slot <= v.slot
      BY <1>1, <1>2, <1>5, <2>1, <2>3
    <3> QED BY <3>1 DEF HasNewest
  <2> QED BY <2>2, <2>3
<1>7. Covered(f, f.confirmed) /\ Covered(f, f.finalized)
  <2>1. ASSUME NEW opt, Covered(e, opt) PROVE Covered(f, opt)
    BY <1>2, <2>1 DEF Covered
  <2>2. Covered(f, d)
    <3>1. PICK x \in f.processed : x.slot = d.slot
      BY <1>3
    <3> QED BY <3>1, <1>5 DEF Covered
  <2> QED BY <1>2, <2>1, <2>2 DEF EntryOK
<1>8. Grows(e, f)
  BY <1>1, <1>2, <1>5, StoreAssumption DEF Grows, NotOlder, IsNewer
<1> QED BY <1>4, <1>6, <1>7, <1>8 DEF EntryOK

\* Pruning at a finalized slot leaves the newest version.
LEMMA PrunedKeepsNewest ==
  ASSUME NEW vs \in SUBSET AnyVersion, HasNewest(vs), NEW slot \in Nat
  PROVE  /\ Pruned(vs, slot) \subseteq vs
         /\ \E v \in Pruned(vs, slot) : \A w \in vs : w.slot <= v.slot
<1> DEFINE later == {v \in vs : v.slot > slot}
<1>1. Newest(vs) \in vs /\ \A w \in vs : w.slot <= Newest(vs).slot
  BY NewestIsNewest
<1>2. \A v \in vs : v.slot \in Nat
  BY DEF AnyVersion
<1>3. CASE later = {}
  BY <1>1, <1>3 DEF Pruned
<1>4. CASE later # {}
  <2>1. PICK x \in later : TRUE
    BY <1>4
  <2>2. Newest(vs) \in later
    BY <1>1, <1>2, <2>1
  <2>3. Pruned(vs, slot) = later
    BY <1>4 DEF Pruned
  <2> QED BY <1>1, <2>2, <2>3
<1> QED BY <1>3, <1>4

\* promote_slot_commitment keeps an entry in order.
LEMMA PromotedIsOK ==
  ASSUME NEW e, EntryOK(e), NEW slot \in Nat, NEW c
  PROVE  EntryOK(Promoted(e, slot, c)) /\ Grows(e, Promoted(e, slot, c))
<1> DEFINE f == Promoted(e, slot, c)
           here == {v \in e.processed : v.slot = slot}
           Up(opt) == IF here # {} /\ SlotOf(opt) < slot THEN CHOOSE v \in here : TRUE ELSE opt
<1>1. /\ e \in Entry /\ e.processed \in SUBSET AnyVersion
      /\ e.confirmed \in AnyVersion \cup {None} /\ e.finalized \in AnyVersion \cup {None}
  BY DEF EntryOK, Entry
<1>2. \A v \in AnyVersion : v.slot \in Nat
  BY DEF AnyVersion
<1>3. ASSUME NEW opt \in AnyVersion \cup {None}, Covered(e, opt)
      PROVE  /\ Up(opt) \in AnyVersion \cup {None} /\ Covered(e, Up(opt))
             /\ NotOlder(opt, Up(opt))
  <2>1. CASE here # {} /\ SlotOf(opt) < slot
    <3>1. Up(opt) \in here
      BY <2>1
    <3>2. Up(opt) \in e.processed /\ Up(opt).slot = slot /\ Up(opt) \in AnyVersion
      BY <1>1, <3>1
    <3>3. Up(opt) # None
      BY <3>2, StoreAssumption
    <3>4. SlotOf(opt) \in Nat
      BY <1>2 DEF SlotOf
    <3> HIDE DEF Up
    <3> QED BY <1>2, <2>1, <3>2, <3>3, <3>4 DEF Covered, NotOlder, SlotOf
  <2>2. CASE ~(here # {} /\ SlotOf(opt) < slot)
    <3>1. Up(opt) = opt
      BY <2>2
    <3>2. NotOlder(opt, opt)
      BY <1>2 DEF NotOlder
    <3> HIDE DEF Up
    <3> QED BY <1>3, <3>1, <3>2
  <2> QED BY <2>1, <2>2
<1>4. Covered(e, e.confirmed) /\ Covered(e, e.finalized) /\ HasNewest(e.processed)
  BY DEF EntryOK
<1>5. NotOlder(e.confirmed, e.confirmed) /\ NotOlder(e.finalized, e.finalized)
  BY <1>1, <1>2 DEF NotOlder
<1>6. CASE c = "confirmed"
  <2>1. f = [e EXCEPT !.confirmed = Up(e.confirmed)]
    BY <1>6 DEF Promoted
  <2> HIDE DEF Up, f
  <2>2. f \in Entry
    BY <1>1, <1>3, <1>4, <2>1 DEF Entry
  <2>3. f.processed = e.processed /\ f.confirmed = Up(e.confirmed) /\ f.finalized = e.finalized
    BY <1>1, <2>1 DEF Entry
  <2>4. Covered(e, Up(e.confirmed)) /\ NotOlder(e.confirmed, Up(e.confirmed))
    BY <1>1, <1>3, <1>4
  <2>5. Grows(e, f)
    BY <1>5, <2>3, <2>4 DEF Grows
  <2> QED BY <1>4, <2>2, <2>3, <2>4, <2>5 DEF EntryOK, Covered, f
<1>7. CASE c # "confirmed"
  <2>1. f = [e EXCEPT !.processed = Pruned(@, slot), !.finalized = Up(e.finalized)]
    BY <1>7 DEF Promoted
  <2> HIDE DEF Up, f
  <2>2. PICK v \in Pruned(e.processed, slot) : \A w \in e.processed : w.slot <= v.slot
    BY <1>1, <1>4, PrunedKeepsNewest
  <2>3. Pruned(e.processed, slot) \subseteq e.processed
    BY <1>1, <1>4, PrunedKeepsNewest
  <2>4. Up(e.finalized) \in AnyVersion \cup {None} /\ Covered(e, Up(e.finalized))
        /\ NotOlder(e.finalized, Up(e.finalized))
    BY <1>1, <1>3, <1>4
  <2>5. f \in Entry
    BY <1>1, <2>1, <2>3, <2>4 DEF Entry
  <2>6. /\ f.processed = Pruned(e.processed, slot)
        /\ f.confirmed = e.confirmed /\ f.finalized = Up(e.finalized)
    BY <1>1, <2>1 DEF Entry
  <2>7. HasNewest(f.processed)
    BY <2>2, <2>3, <2>6 DEF HasNewest
  <2>8. ASSUME NEW opt \in AnyVersion \cup {None}, Covered(e, opt) PROVE Covered(f, opt)
    <3>1. CASE opt = None
      BY <3>1 DEF Covered
    <3>2. CASE opt # None
      <4>1. PICK w \in e.processed : opt.slot <= w.slot
        BY <2>8, <3>2 DEF Covered
      <4>2. w.slot <= v.slot /\ v \in f.processed
        BY <2>2, <2>6
      <4>3. opt.slot \in Nat /\ w.slot \in Nat /\ v.slot \in Nat
        BY <1>1, <1>2, <2>3, <3>2
      <4>4. opt.slot <= v.slot
        BY <4>1, <4>2, <4>3
      <4> QED BY <4>2, <4>4 DEF Covered
    <3> QED BY <3>1, <3>2
  <2>9. Grows(e, f)
    BY <1>5, <2>4, <2>6 DEF Grows
  <2>10. Covered(f, f.confirmed) /\ Covered(f, f.finalized)
    BY <1>1, <1>4, <2>4, <2>6, <2>8
  <2> QED BY <2>5, <2>7, <2>9, <2>10 DEF EntryOK, f
<1> QED BY <1>6, <1>7

-----------------------------------------------------------------------------
AllGrow ==
  \A a \in Account : account_store[a] # None =>
    account_store'[a] # None /\ Grows(account_store[a], account_store'[a])

\* An entry that does not change does not go back.
LEMMA GrowsStays ==
  ASSUME StoreInv, NEW a \in Account, account_store[a] # None
  PROVE  Grows(account_store[a], account_store[a])
<1>1. account_store[a] \in Entry
  BY DEF StoreInv
<1> QED BY <1>1 DEF Grows, NotOlder, Entry, AnyVersion

\* A step that replaces one entry by an entry that is in order.
LEMMA EntryStep ==
  ASSUME StoreInv, NEW a \in Account, NEW now, now = None \/ EntryOK(now),
         account_store' = [account_store EXCEPT ![a] = now],
         update' \in [Task -> UpdateCall \cup {None}], block' \in SlotCall \cup {None}
  PROVE  /\ StoreInv'
         /\ (account_store[a] # None => now # None /\ Grows(account_store[a], now))
              => AllGrow
<1>1. now \in Entry \cup {None}
  BY DEF EntryOK
<1>2. /\ account_store' \in [Account -> Entry \cup {None}] /\ account_store'[a] = now
      /\ \A b \in Account : b # a => account_store'[b] = account_store[b]
  BY <1>1 DEF StoreInv
<1>3. StoreInv'
  BY <1>2 DEF StoreInv
<1>4. ASSUME account_store[a] # None => now # None /\ Grows(account_store[a], now),
             NEW b \in Account, account_store[b] # None
      PROVE  account_store'[b] # None /\ Grows(account_store[b], account_store'[b])
  BY <1>2, <1>4, GrowsStays
<1> QED BY <1>3, <1>4 DEF AllGrow

\* A step that leaves all the entries alone.
LEMMA SameEntries ==
  ASSUME StoreInv, account_store' = account_store,
         update' \in [Task -> UpdateCall \cup {None}], block' \in SlotCall \cup {None}
  PROVE  StoreInv' /\ AllGrow
<1>1. StoreInv'
  BY DEF StoreInv
<1>2. AllGrow
  BY GrowsStays DEF AllGrow
<1> QED BY <1>1, <1>2

\* The step of each task keeps the invariant, and only the insert of
\* initilize_or_update_account can take a commitment back.
LEMMA StoreStep ==
  ASSUME StoreInv, [StoreNext]_storeVars
  PROVE  StoreInv' /\ (PopulateInsert \/ AllGrow)
<1> USE DEF StoreInv
<1>0. Populate \in Task /\ StreamTask \subseteq Task
  BY DEF Task
<1>1. ASSUME NEW t \in Task, NEW a \in Account, NEW d \in AnyVersion, NEW c \in Level,
             BeginUpdate(t, a, d, c)
      PROVE  update' \in [Task -> UpdateCall \cup {None}]
  BY <1>1 DEF BeginUpdate, UpdateCall, Level
<1>2. ASSUME NEW t \in StreamTask, StreamReceive(t)
      PROVE  StoreInv' /\ AllGrow
  <2>1. PICK a \in Account, d \in Version : BeginUpdate(t, a, d, "processed")
    BY <1>2 DEF StreamReceive
  <2>2. update' \in [Task -> UpdateCall \cup {None}]
    BY <1>0, <1>1, <2>1, StoreAssumption DEF Level
  <2> QED BY <1>2, <2>2, SameEntries DEF StreamReceive
<1>3. ASSUME NEW t \in Task, UpdateEntry(t)
      PROVE  StoreInv' /\ AllGrow
  <2> DEFINE u == update[t]
             e == account_store[u.acc]
             now == IF e = None THEN NewEntry(u.data, u.level)
                    ELSE Updated(e, u.data, u.level)
  <2>1. u \in UpdateCall
    BY <1>3 DEF UpdateEntry
  <2>2. u.acc \in Account /\ u.data \in AnyVersion
    BY <2>1 DEF UpdateCall
  <2>3. account_store' = [account_store EXCEPT ![u.acc] = now]
    BY <1>3 DEF UpdateEntry
  <2>4. update' \in [Task -> UpdateCall \cup {None}] /\ block' \in SlotCall \cup {None}
    BY <1>3 DEF UpdateEntry
  <2>5. EntryOK(now) /\ (e # None => Grows(e, now))
    BY <2>2, NewEntryIsOK, UpdatedIsOK
  <2>6. now # None
    BY <2>5, StoreAssumption DEF EntryOK
  <2> HIDE DEF u, now
  <2> QED BY <2>2, <2>3, <2>4, <2>5, <2>6, EntryStep
<1>4. ASSUME PopulateCheck
      PROVE  StoreInv' /\ AllGrow
  <2>1. PICK a \in Account, d \in Version :
          IF account_store[a] # None THEN BeginUpdate(Populate, a, d, "finalized")
          ELSE update' = [update EXCEPT ![Populate] =
                            [acc |-> a, data |-> d, level |-> "initialize"]]
    BY <1>4 DEF PopulateCheck
  <2>2. [acc |-> a, data |-> d, level |-> "initialize"] \in UpdateCall
    BY StoreAssumption DEF UpdateCall
  <2>3. update' \in [Task -> UpdateCall \cup {None}]
    BY <1>0, <1>1, <2>1, <2>2, StoreAssumption DEF Level
  <2> QED BY <1>4, <2>3, SameEntries DEF PopulateCheck
<1>5. ASSUME PopulateInsert
      PROVE  StoreInv'
  <2> DEFINE u == update[Populate]
  <2>1. u \in UpdateCall
    BY <1>0, <1>5 DEF PopulateInsert
  <2>2. u.acc \in Account /\ EntryOK(NewEntry(u.data, "finalized"))
    BY <2>1, NewEntryIsOK DEF UpdateCall
  <2> HIDE DEF u
  <2>3. account_store' = [account_store EXCEPT ![u.acc] = NewEntry(u.data, "finalized")]
    BY <1>5 DEF PopulateInsert, u
  <2>4. update' \in [Task -> UpdateCall \cup {None}] /\ block' \in SlotCall \cup {None}
    BY <1>5 DEF PopulateInsert
  <2> QED BY <2>2, <2>3, <2>4, EntryStep
<1>6. ASSUME ProcessSlotData
      PROVE  StoreInv' /\ AllGrow
  <2>1. block' \in SlotCall
    BY <1>6 DEF ProcessSlotData, SlotCall
  <2> QED BY <1>6, <2>1, SameEntries DEF ProcessSlotData
<1>7. ASSUME NEW a \in Account, PromoteAccount(a)
      PROVE  StoreInv' /\ AllGrow
  <2> DEFINE e == account_store[a]
             now == IF e = None THEN None ELSE Promoted(e, block.slot, block.level)
  <2>1. block \in SlotCall
    BY <1>7 DEF PromoteAccount
  <2>2. block.slot \in Nat
    BY <2>1, StoreAssumption DEF SlotCall
  <2>3. e # None => EntryOK(now) /\ Grows(e, now)
    BY <2>2, PromotedIsOK
  <2>4. e # None => now # None
    BY <2>3, StoreAssumption DEF EntryOK
  <2>5. account_store' = [account_store EXCEPT ![a] = now] /\ update' = update
    BY <1>7 DEF PromoteAccount
  <2>6. block' \in SlotCall
    <3> DEFINE prev == IF e = None THEN None ELSE GetAccountData(e, block.level)
               new == IF e = None THEN None ELSE GetAccountData(now, block.level)
               move == IF new # prev /\ prev # None /\ prev.owner # new.owner
                       THEN {[acc |-> a, from |-> prev.owner, to |-> new.owner]} ELSE {}
    <3>1. block' = [block EXCEPT !.todo = @ \ {a}, !.moved = @ \cup move]
      BY <1>7 DEF PromoteAccount
    <3>2. prev = None \/ prev.owner \in Owner
      BY <2>1 DEF GetAccountData, SlotCall, Entry, AnyVersion
    <3>3. e # None => now \in Entry
      BY <2>3 DEF EntryOK
    <3>4. new = None \/ new.owner \in Owner
      BY <2>1, <3>3 DEF GetAccountData, SlotCall, Entry, AnyVersion
    <3>5. prev # None => new # None
      <4> HIDE DEF now
      <4> QED BY <2>1, <2>3 DEF GetAccountData, SlotCall, Grows, NotOlder
    <3>6. move \in SUBSET [acc : Account, from : Owner, to : Owner]
      <4> HIDE DEF prev, new
      <4> QED BY <3>2, <3>4, <3>5
    <3> HIDE DEF move
    <3> QED BY <2>1, <3>1, <3>6 DEF SlotCall
  <2>7. now = None \/ EntryOK(now)
    BY <2>3
  <2> HIDE DEF now
  <2> QED BY <2>3, <2>4, <2>5, <2>6, <2>7, EntryStep
<1>8. ASSUME MoveOwner \/ SlotDataDone
      PROVE  StoreInv' /\ AllGrow
  <2>1. block' \in SlotCall \cup {None}
    BY <1>8 DEF MoveOwner, SlotDataDone, SlotCall
  <2> QED BY <1>8, <2>1, SameEntries DEF MoveOwner, SlotDataDone
<1>9. CASE UNCHANGED storeVars
  BY <1>9, SameEntries DEF storeVars
<1> QED
  BY <1>2, <1>3, <1>4, <1>5, <1>6, <1>7, <1>8, <1>9 DEF StoreNext

-----------------------------------------------------------------------------
LEMMA StoreInvInit == StoreInit => StoreInv
  BY DEF StoreInit, StoreInv

\* Whatever the tasks do in whatever order, a processed read of an account is at
\* least as new as a confirmed and as a finalized read of it.
THEOREM ProcessedReadIsNewest == StoreSpec => []ProcessedIsNewest
<1>1. StoreInv => ProcessedIsNewest
  BY DEF StoreInv, ProcessedIsNewest, EntryOK, Covered
<1> QED BY <1>1, StoreInvInit, StoreStep, PTL DEF StoreSpec

\* The confirmed and the finalized version of an account never go back to an older
\* slot, except by the insert of initilize_or_update_account.
THEOREM CommitmentsGrow == StoreSpec => CommittedOnlyGrows
<1>1. StoreInv /\ [StoreNext]_storeVars =>
        [PopulateInsert \/
         \A a \in Account : account_store[a] # None =>
           /\ account_store'[a] # None
           /\ NotOlder(account_store[a].confirmed, account_store'[a].confirmed)
           /\ NotOlder(account_store[a].finalized, account_store'[a].finalized)]_storeVars
  BY StoreStep DEF AllGrow, Grows
<1> QED BY <1>1, StoreInvInit, StoreStep, PTL DEF StoreSpec, CommittedOnlyGrows
=============================================================================
