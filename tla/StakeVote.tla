----------------------------- MODULE StakeVote ------------------------------
(* Stake and vote tracking (stake_vote/src): one loop owns the store of stake
   accounts and the store of vote accounts, and lends their content to tasks
   that run beside it: the bootstrap (which merges the accounts fetched from an
   RPC node), the calculation of a leader schedule at the end of an epoch, and
   getVoteAccounts.  While a content is lent (TakableMap.content = None) updates
   from geyser queue up; they are applied when it is merged back.  A task that
   finds a content taken waits for the Notify of the store.

   The content is in `content' wherever it is; holder names the task that has it.
   An account is its last update slot; the schedules, the stakes of an epoch
   and the files are the epoch they are for.                                   *)
EXTENDS Integers, SequencesExt

CONSTANTS
  StakeKey, VoteKey,   \* accounts of the two programs
  Request,             \* calls of getVoteAccounts
  SlotsInEpoch,
  StartEpoch,          \* the epoch the process starts in
  FilesAtStart,        \* what earlier processes may have left, <<current, next>>
  RpcAnswers,          \* whether an RPC node may answer at the start
  MaxSlot,             \* bound: last slot
  MaxUpdates,          \* bound: geyser updates
  None

Store == {"stakes", "votes"}
Key(n) == IF n = "stakes" THEN StakeKey ELSE VoteKey
Absent == -1
Torn == -2             \* a file that does not parse

EpochAt(slot) == slot \div SlotsInEpoch
LastSlot(epoch) == (epoch + 1) * SlotsInEpoch - 1
Epoch == StartEpoch + 1 .. EpochAt(MaxSlot + 1)   \* epochs that begin while it runs
Boot == <<"boot">>
Job(epoch) == <<"schedule", epoch>>
Rpc(r) == <<"rpc", r>>
Lost == <<"lost">>
Task == {Boot} \cup {Job(e) : e \in Epoch} \cup {Rpc(r) : r \in Request}

ASSUME StakeVoteAssumption ==
  SlotsInEpoch \in Nat \ {0} /\ StartEpoch \in Nat /\ MaxSlot \in Nat /\ MaxUpdates \in Nat

VARIABLES
  content,             \* account -> slot of its last update, for each store
  updates,             \* TakableMap.updates
  holder,              \* the task that has the content; Lost if it was dropped
  permit, need, polled,\* tokio Notify of each store, and what each waiter still awaits
  state,               \* how far each task is
  epoch_data,          \* ScheduleEpochData
  confirmed,           \* the confirmed slot of the data cache
  history,             \* epochs whose stake history was received
  boot_epoch,          \* the epoch the bootstrap loads
  bootstrap_done,
  leader_schedule,     \* data_cache.leader_schedule: epochs of current and next
  files,               \* current_vote_stakes.json and next_vote_stakes.json
  pending,             \* pending_rpc_request
  answered,            \* requests that were sent an answer
  alive,               \* the loop runs
  sent,                \* history variable: last geyser update of each account
  updateCount          \* updates so far

vars == <<content, updates, holder, permit, need, polled, state, epoch_data,
          confirmed, history, boot_epoch, bootstrap_done, leader_schedule, files, pending,
          answered, alive, sent, updateCount>>
storeVars == <<content, updates, holder, permit, need, polled>>
epochVars == <<epoch_data, confirmed, history>>
bootVars == <<boot_epoch, bootstrap_done>>
rpcVars == <<pending, answered>>
geyserVars == <<sent, updateCount>>

-----------------------------------------------------------------------------
\* process_stake_action (notify_stake, remove_stake): an older slot never replaces a
\* newer one
StakeApplied(map, u) ==
  IF u.remove
  THEN IF map[u.key] # Absent /\ map[u.key] <= u.slot THEN [map EXCEPT ![u.key] = Absent] ELSE map
  ELSE IF map[u.key] <= u.slot THEN [map EXCEPT ![u.key] = u.slot] ELSE map

\* process_vote_action (vote_map_insert_vote, remove_from_store)
VoteApplied(map, u) ==
  IF map[u.key] <= u.slot
  THEN [map EXCEPT ![u.key] = IF u.remove THEN Absent ELSE u.slot]
  ELSE map

\* TakableContent::add_value
Applied(n, map, u) == IF n = "stakes" THEN StakeApplied(map, u) ELSE VoteApplied(map, u)

\* the loop of merge over the updates added during extraction
AppliedAll(n) == FoldLeft(LAMBDA map, u : Applied(n, map, u), content[n], updates[n])

\* Tasks that notify_one of a store may wake
Waiters(n) == {t \in Task : polled[t] /\ n \in need[t]}

\* (faulty: nobody is told)
NotifyNone(S) == UNCHANGED <<need, permit>>

\* notify_one of the stores in S: one waiter of each, or a permit if there is none
NotifyOne(S) ==
  \E woken \in [S -> Task \cup {None}] :
    /\ \A n \in S : IF Waiters(n) = {} THEN woken[n] = None ELSE woken[n] \in Waiters(n)
    /\ need' = [t \in Task |-> {n \in need[t] : n \notin S \/ woken[n] # t}]
    /\ permit' = [n \in Store |-> permit[n] \/ (n \in S /\ woken[n] = None)]

\* take: t gets the contents of the stores in S if none is taken, else it spawns a
\* task that waits for the ones that are
Take(t, S) ==
  LET taken == {n \in S : holder[n] # None}
  IN  IF taken = {}
      THEN /\ holder' = [n \in Store |-> IF n \in S THEN t ELSE holder[n]]
           /\ state' = [state EXCEPT ![t] = "work"]
           /\ UNCHANGED <<need, polled>>
      ELSE /\ state' = [state EXCEPT ![t] = "wait"]
           /\ need' = [need EXCEPT ![t] = taken]
           /\ polled' = [polled EXCEPT ![t] = FALSE]
           /\ UNCHANGED holder

\* merge: the updates that came meanwhile are applied
Merge(S) ==
  /\ content' = [n \in Store |-> IF n \in S THEN AppliedAll(n)
                                            ELSE content[n]]
  /\ updates' = [n \in Store |-> IF n \in S THEN <<>> ELSE updates[n]]
  /\ holder' = [n \in Store |-> IF n \in S THEN None ELSE holder[n]]
  /\ NotifyOne(S)
  /\ UNCHANGED polled

\* (faulty: waits for the next notification though there is a permit)
PollNoPermit(t) ==
  /\ alive /\ state[t] = "wait" /\ ~polled[t]
  /\ polled' = [polled EXCEPT ![t] = TRUE]
  /\ UNCHANGED <<content, updates, holder, need, permit, state, epochVars, bootVars,
                 leader_schedule, files, rpcVars, alive, geyserVars>>

\* first poll of the futures of a waiting task: it takes permits that are there
Poll(t) ==
  /\ alive /\ state[t] = "wait" /\ ~polled[t]
  /\ polled' = [polled EXCEPT ![t] = TRUE]
  /\ need' = [need EXCEPT ![t] = {n \in need[t] : ~permit[n]}]
  /\ permit' = [n \in Store |-> permit[n] /\ n \notin need[t]]
  /\ UNCHANGED <<content, updates, holder, state, epochVars, bootVars,
                 leader_schedule, files, rpcVars, alive, geyserVars>>

Woken(t) == state[t] = "wait" /\ polled[t] /\ need[t] = {}
-----------------------------------------------------------------------------
\* bootstrap_schedule_epoch_data, ScheduleEpochData::new
EpochData(slot) == [epoch |-> EpochAt(slot), last |-> LastSlot(EpochAt(slot)), slot |-> slot,
                    history |-> None, change |-> None]

\* read_schedule_vote_stakes succeeds
Readable(file) == file \notin {None, Torn}

\* bootstrap_current_leader_schedule: both files are read, and the current one must
\* be of the epoch that is asked for.
ReadFiles(epoch_of_loading) ==
  IF Readable(files.current) /\ Readable(files.next) /\ files.current = epoch_of_loading
  THEN <<files.current, files.next>> ELSE None

\* bootstrap_leaderschedule_from_files: passes the number of slots as the epoch
FromFiles == ReadFiles(SlotsInEpoch)

\* bootstrat_literpc_leader_schedule, before the loop starts: from the files, else
\* from an RPC node, else nothing is loaded
Loaded(answers) == CASE FromFiles # None -> FromFiles
                     [] FromFiles = None /\ answers -> <<StartEpoch, StartEpoch + 1>>
                     [] OTHER -> <<None, None>>

\* The locals of start_stakes_and_votes_loop at its start
LoopStart ==
  [content |-> [n \in Store |-> [k \in Key(n) |-> Absent]],
   updates |-> [n \in Store |-> <<>>],
   holder |-> [n \in Store |-> None],
   permit |-> [n \in Store |-> FALSE],
   need |-> [t \in Task |-> {}],
   polled |-> [t \in Task |-> FALSE],
   state |-> [t \in Task |-> IF t = Boot THEN "fetch" ELSE "none"],
   epoch_data |-> EpochData(StartEpoch * SlotsInEpoch)]

Init ==
  /\ content = LoopStart.content /\ updates = LoopStart.updates /\ holder = LoopStart.holder
  /\ permit = LoopStart.permit /\ need = LoopStart.need /\ polled = LoopStart.polled
  /\ state = LoopStart.state /\ epoch_data = LoopStart.epoch_data
  /\ confirmed = StartEpoch * SlotsInEpoch
  /\ history = {}
  /\ boot_epoch = None /\ bootstrap_done = FALSE
  /\ \E <<c, n>> \in FilesAtStart : files = [current |-> c, next |-> n]
  /\ \E answers \in RpcAnswers : leader_schedule = Loaded(answers)
  /\ pending = {} /\ answered = {}
  /\ alive = TRUE
  /\ sent = [n \in Store |-> [k \in Key(n) |-> [slot |-> Absent, remove |-> FALSE]]]
  /\ updateCount = 0
-----------------------------------------------------------------------------
\* verify_epoch_change: the data of a new epoch once both its events have come
EpochChanged(d) == d.history # None /\ d.change # None
Verified(d) ==
  IF EpochChanged(d)
  THEN [d EXCEPT !.epoch = d.change, !.last = LastSlot(d.change), !.history = None, !.change = None]
  ELSE d

\* run_leader_schedule_events(Init): dropped while the bootstrap is on
ScheduleEvent(d) ==
  IF EpochChanged(d) /\ bootstrap_done
  THEN Take(Job(d.change), Store)
  ELSE UNCHANGED <<holder, state, need, polled>>

\* An epoch lasts days and a calculation minutes: the next change of epoch comes
\* after the calculation of the last one.
Calculating == \E e \in Epoch : state[Job(e)] \in {"wait", "work", "ready"}

\* process_new_confirmed_slot, manage_change_epoch
NewConfirmedSlot(slot) ==
  /\ alive /\ confirmed < slot /\ slot <= MaxSlot
  /\ slot >= epoch_data.last => ~Calculating
  /\ confirmed' = slot
  /\ LET d == [epoch_data EXCEPT !.slot = slot,
                 !.change = IF slot >= epoch_data.last THEN EpochAt(epoch_data.last + 1) ELSE @]
     IN  IF epoch_data.slot < slot
         THEN epoch_data' = Verified(d) /\ ScheduleEvent(d)
         ELSE UNCHANGED <<epoch_data, holder, state, need, polled>>
  /\ UNCHANGED <<content, updates, permit, history, bootVars, leader_schedule,
                 files, rpcVars, alive, geyserVars>>

\* set_epoch_stake_history, from the geyser stream of the sysvar.  The history of an
\* epoch is written in its first slot, which geyser may show before the block stream.
StakeHistory(epoch) ==
  /\ alive /\ epoch \notin history /\ epoch * SlotsInEpoch <= confirmed + 1
  /\ \A e \in history : e < epoch
  /\ ~Calculating
  /\ history' = history \cup {epoch}
  /\ LET d == [epoch_data EXCEPT !.history = epoch]
     IN  epoch_data' = Verified(d) /\ ScheduleEvent(d)
  /\ UNCHANGED <<content, updates, permit, confirmed, bootVars, leader_schedule,
                 files, rpcVars, alive, geyserVars>>


\* TakableMap::add_value: to the content, or to the updates if it is taken or if the
\* change is of a later epoch
AddValue(n, u) ==
  IF holder[n] # None \/ u.slot > epoch_data.last
  THEN updates' = [updates EXCEPT ![n] = Append(@, u)] /\ UNCHANGED content
  ELSE content' = [content EXCEPT ![n] = Applied(n, @, u)] /\ UNCHANGED updates

\* AccountPretty::new_from_geyser; an account without lamports was closed
GeyserUpdate(k, slot, closed) == [key |-> k, slot |-> slot, remove |-> closed]

\* A message of the geyser stream of accounts.  It sends the changes of an account in the
\* order of slots; an account that was closed is not opened in the same slot.
AccountChange(n, k, slot, closed) ==
  /\ alive
  /\ sent[n][k].slot < slot \/ (sent[n][k].slot = slot /\ ~sent[n][k].remove)
  /\ updateCount < MaxUpdates /\ updateCount' = updateCount + 1
  /\ sent' = [sent EXCEPT ![n][k] = [slot |-> slot, remove |-> closed]]
  /\ AddValue(n, GeyserUpdate(k, slot, closed))
  /\ UNCHANGED <<holder, permit, need, polled, state, epochVars, bootVars,
                 leader_schedule, files, rpcVars, alive>>

\* notify_stake_change, notify_vote_change (data that does not parse changes nothing)
StakeChange(k, slot, closed) == AccountChange("stakes", k, slot, closed)
VoteChange(k, slot, closed) == AccountChange("votes", k, slot, closed)

\* The loop ends: its locals are dropped, and with them the senders of the requests.
LoopEnds ==
  /\ alive /\ alive' = FALSE
  /\ content' = LoopStart.content /\ updates' = LoopStart.updates /\ holder' = LoopStart.holder
  /\ permit' = LoopStart.permit /\ need' = LoopStart.need /\ polled' = LoopStart.polled
  /\ state' = LoopStart.state /\ epoch_data' = LoopStart.epoch_data
  /\ boot_epoch' = None /\ bootstrap_done' = FALSE
  /\ pending' = {}
  /\ UNCHANGED <<confirmed, history, leader_schedule, files, answered, geyserVars>>

\* A geyser stream ends, and the loop breaks.
StreamEnds == LoopEnds
-----------------------------------------------------------------------------
\* bootstrap_accounts: every account of the two programs, and the stake history
Fetched(k) == [key |-> k, slot |-> 0, remove |-> FALSE]

\* InitBootstrap: a task fetches the accounts ...
BootFetch ==
  /\ alive /\ state[Boot] = "fetch"
  /\ state' = [state EXCEPT ![Boot] = "fetched"]
  /\ UNCHANGED <<storeVars, epochVars, bootVars, leader_schedule, files, rpcVars, alive, geyserVars>>

\* ... or fails, and the event Exit panics.
BootExit == state[Boot] = "fetch" /\ LoopEnds

\* BootstrapAccountsFetched, also when its wait is over
BootTake ==
  /\ alive /\ (state[Boot] = "fetched" \/ Woken(Boot))
  /\ Take(Boot, Store)
  /\ boot_epoch' = epoch_data.epoch
  /\ UNCHANGED <<content, updates, permit, epochVars, bootstrap_done,
                 leader_schedule, files, rpcVars, alive, geyserVars>>

\* StoreExtracted with a history that cannot be read: the error drops the contents.
BootTakeError ==
  /\ alive /\ (state[Boot] = "fetched" \/ Woken(Boot))
  /\ \A n \in Store : holder[n] = None
  /\ holder' = [n \in Store |-> Lost]
  /\ state' = [state EXCEPT ![Boot] = "failed"]
  /\ UNCHANGED <<content, updates, permit, need, polled, epochVars, bootVars,
                 leader_schedule, files, rpcVars, alive, geyserVars>>

\* merge_program_account_in_strake_map, in_vote_map: the slot of what the RPC node sent
\* is not known, it counts as 0
StakesMerged(map) == [k \in StakeKey |-> StakeApplied(map, Fetched(k))[k]]
VotesMerged(map) == [k \in VoteKey |-> VoteApplied(map, Fetched(k))[k]]

\* StoreExtracted: the blocking task
BootMerge ==
  /\ alive /\ state[Boot] = "work"
  /\ state' = [state EXCEPT ![Boot] = "ready"]
  /\ content' = [stakes |-> StakesMerged(content.stakes), votes |-> VotesMerged(content.votes)]
  /\ UNCHANGED <<updates, holder, permit, need, polled, epochVars, bootVars,
                 leader_schedule, files, rpcVars, alive, geyserVars>>

\* AccountsMerged: the bootstrap ends; the epoch data starts anew.  (A merge into a store
\* that has its content restarts the bootstrap; only the holder merges.)
BootEnd ==
  /\ alive /\ state[Boot] = "ready"
  /\ Merge(Store)
  /\ state' = [state EXCEPT ![Boot] = "done"]
  /\ leader_schedule' = IF ReadFiles(boot_epoch) = None THEN leader_schedule
                        ELSE ReadFiles(boot_epoch)
  /\ epoch_data' = EpochData(confirmed)
  /\ bootstrap_done' = TRUE
  /\ UNCHANGED <<confirmed, history, boot_epoch, files, rpcVars, alive, geyserVars>>
-----------------------------------------------------------------------------
\* LeaderScheduleEvent::Init again, when the wait is over
ScheduleTake(e) ==
  /\ alive /\ Woken(Job(e))
  /\ Take(Job(e), Store)
  /\ UNCHANGED <<content, updates, permit, epochVars, bootVars, leader_schedule,
                 files, rpcVars, alive, geyserVars>>

\* The next file becomes the current one; save_schedule_vote_stakes writes a new one
Saved(e) == [current |-> IF files.next = None THEN files.current ELSE files.next, next |-> e + 1]

\* The blocking task: stakes of the new epoch, schedule of the one after it, files
ScheduleCalculate(e) ==
  /\ alive /\ state[Job(e)] = "work"
  /\ state' = [state EXCEPT ![Job(e)] = "ready"]
  /\ files' = Saved(e)
  /\ UNCHANGED <<content, updates, holder, permit, need, polled, epochVars, bootVars,
                 leader_schedule, rpcVars, alive, geyserVars>>

\* (faulty: the new schedule replaces the current one)
ScheduleEndCurrent(e) ==
  /\ alive /\ state[Job(e)] = "ready"
  /\ Merge(Store)
  /\ state' = [state EXCEPT ![Job(e)] = "done"]
  /\ leader_schedule' = <<e + 1, leader_schedule[2]>>
  /\ UNCHANGED <<epochVars, bootVars, files, rpcVars, alive, geyserVars>>

\* MergeStoreAndSaveSchedule: the next schedule becomes the current one
ScheduleEnd(e) ==
  /\ alive /\ state[Job(e)] = "ready"
  /\ Merge(Store)
  /\ state' = [state EXCEPT ![Job(e)] = "done"]
  /\ leader_schedule' = <<leader_schedule[2], e + 1>>
  /\ UNCHANGED <<epochVars, bootVars, files, rpcVars, alive, geyserVars>>
-----------------------------------------------------------------------------
\* process_get_vote_accounts
GetVoteAccounts(r) ==
  /\ alive /\ state[Rpc(r)] = "none"
  /\ pending' = pending \cup {r}
  /\ Take(Rpc(r), {"votes"})
  /\ UNCHANGED <<content, updates, permit, epochVars, bootVars, leader_schedule,
                 files, answered, alive, geyserVars>>

\* take_vote_accounts_and_process, when the wait is over
RpcTake(r) ==
  /\ alive /\ Woken(Rpc(r))
  /\ Take(Rpc(r), {"votes"})
  /\ UNCHANGED <<content, updates, permit, epochVars, bootVars, leader_schedule,
                 files, rpcVars, alive, geyserVars>>

\* The blocking task: get_rpc_vote_accounts_info, or nothing for an epoch without stakes
RpcExec(r) ==
  /\ alive /\ state[Rpc(r)] = "work"
  /\ state' = [state EXCEPT ![Rpc(r)] = "ready"]
  /\ UNCHANGED <<storeVars, epochVars, bootVars, leader_schedule, files, rpcVars, alive, geyserVars>>

\* notify_end_rpc_get_vote_accounts: every pending request gets this answer
RpcEnd(r) ==
  /\ alive /\ state[Rpc(r)] = "ready"
  /\ Merge({"votes"})
  /\ state' = [state EXCEPT ![Rpc(r)] = "done"]
  /\ answered' = answered \cup pending
  /\ pending' = {}
  /\ UNCHANGED <<epochVars, bootVars, leader_schedule, files, alive, geyserVars>>
-----------------------------------------------------------------------------
Environment ==
  \/ \E slot \in confirmed + 1 .. confirmed + 2 : NewConfirmedSlot(slot)
  \/ \E e \in Epoch \cup {StartEpoch} : StakeHistory(e)
  \/ \E slot \in confirmed .. confirmed + 1, closed \in BOOLEAN :
       \/ \E k \in StakeKey : StakeChange(k, slot, closed)
       \/ \E k \in VoteKey : VoteChange(k, slot, closed)
  \/ \E r \in Request : GetVoteAccounts(r)
  \/ StreamEnds \/ BootExit \/ BootTakeError

Bootstrap == BootFetch \/ BootTake \/ BootMerge \/ BootEnd
LeaderSchedule(e) == ScheduleTake(e) \/ ScheduleCalculate(e) \/ ScheduleEnd(e)
VoteAccounts(r) == RpcTake(r) \/ RpcExec(r) \/ RpcEnd(r)

Next ==
  \/ Environment
  \/ Bootstrap
  \/ \E e \in Epoch : LeaderSchedule(e)
  \/ \E r \in Request : VoteAccounts(r)
  \/ \E t \in Task : Poll(t)

\* The loop's select! serves every ready branch in turn, and tokio runs every task.
Fairness ==
  /\ WF_vars(Bootstrap)
  /\ \A e \in Epoch : WF_vars(LeaderSchedule(e))
  /\ \A r \in Request : WF_vars(VoteAccounts(r))
  /\ \A t \in Task : WF_vars(Poll(t))

Spec == Init /\ [][Next]_vars /\ Fairness
-----------------------------------------------------------------------------

\* The schedule of the current epoch is older than the one of the next epoch: a
\* calculation that ends moves both forward (data_schedule.current = next.take()).
SchedulesInOrder ==
  leader_schedule[1] # None /\ leader_schedule[2] # None => leader_schedule[1] < leader_schedule[2]

\* Every call of getVoteAccounts is answered, unless the loop ended (its sender is dropped)
\* or the bootstrap dropped the stores after an unreadable stake history.
EveryRequestAnswered ==
  \A r \in Request : r \in pending ~> (r \in answered \/ ~alive \/ holder["votes"] = Lost)

\* A calculation that waits for the stores ends with a new schedule: merge wakes waiters
\* one at a time, and whoever is woken gives the contents back.
EveryScheduleEnds ==
  \A e \in Epoch : state[Job(e)] = "wait" ~> (state[Job(e)] = "done" \/ ~alive)

=============================================================================
