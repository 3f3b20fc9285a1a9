-------------------------- MODULE AccountsOnDemand --------------------------
(* Accounts on demand (accounts-on-demand/src/accounts_on_demand.rs): readers
   whose account or program is not in the store subscribe to it, fetch it from an
   RPC node and store it, while other readers of the same account wait for the
   fetch.  The store and its other tasks are AccountStore.

   accounts_in_loading is behind a mutex that is held for one step at a time.
   An account is loaded once, so its Notify is named by the account.             *)
EXTENDS AccountStore

CONSTANTS
  RetryFetching,  \* RETRY_FETCHING_ACCOUNT
  ReadLevel       \* the commitments readers ask for

CallRecord ==
  [of : Account \cup Owner, level : ReadLevel, tries : Nat, filters : SUBSET (Account \cup Owner),
   pc : {"lock", "found", "waiting", "woken", "refresh", "send", "fetch", "unlock", "notify",
         "push", "store"}]

ASSUME DemandAssumption ==
  /\ RetryFetching \in Nat \ {0} /\ ReadLevel \subseteq Level
  /\ Account \cap Owner = {}
  /\ None \notin CallRecord

VARIABLES
  call,                 \* what each reader is in, and how far
  accounts_in_loading,
  accounts_subscribed,
  program_filters,      \* owners with a program filter
  subscription,         \* the value of account_filter_watch
  loaded                \* history: the commitment an account was fetched at

demandVars == <<call, accounts_in_loading, accounts_subscribed, program_filters,
                subscription, loaded>>
vars == <<storeVars, demandVars>>

Init ==
  /\ StoreInit
  /\ call = [r \in Reader |-> None]
  /\ accounts_in_loading = {}
  /\ accounts_subscribed = {}
  /\ program_filters = {}
  /\ subscription = {}
  /\ loaded = [a \in Account |-> None]

At(r, pc) == call[r] # None /\ call[r].pc = pc
Goto(r, pc) == call' = [call EXCEPT ![r].pc = pc]
Return(r) == call' = [call EXCEPT ![r] = None]

-----------------------------------------------------------------------------
\* get_account of an account the store does not have at that commitment.  (One
\* that it has is answered at once, without a change of state.)
GetAccountMiss(r) ==
  /\ call[r] = None
  /\ \E a \in Account, c \in ReadLevel :
       /\ GetAccount(a, c) = None
       /\ call' = [call EXCEPT ![r] = [of |-> a, level |-> c, pc |-> "lock",
                                       tries |-> 0, filters |-> {}]]
  /\ UNCHANGED <<storeVars, accounts_in_loading, accounts_subscribed, program_filters,
                 subscription, loaded>>

\* (faulty: what was loaded before is not remembered)
LockLoadingForgetful(r) ==
  /\ At(r, "lock")
  /\ LET a == call[r].of
     IN  IF a \in accounts_in_loading
         THEN Goto(r, "found") /\ UNCHANGED <<accounts_in_loading, accounts_subscribed>>
         ELSE /\ accounts_in_loading' = accounts_in_loading \cup {a}
              /\ accounts_subscribed' = accounts_subscribed \cup {a}
              /\ Goto(r, "refresh")
  /\ UNCHANGED <<storeVars, program_filters, subscription, loaded>>

\* Under the mutex: wait for a load that is on, give up on an account that was
\* tried before, or start to load it.
LockLoading(r) ==
  /\ At(r, "lock")
  /\ LET a == call[r].of
     IN  CASE a \in accounts_in_loading ->
                Goto(r, "found") /\ UNCHANGED <<accounts_in_loading, accounts_subscribed>>
           [] a \notin accounts_in_loading /\ a \in accounts_subscribed ->
                Return(r) /\ UNCHANGED <<accounts_in_loading, accounts_subscribed>>
           [] OTHER ->
                /\ accounts_in_loading' = accounts_in_loading \cup {a}
                /\ accounts_subscribed' = accounts_subscribed \cup {a}
                /\ Goto(r, "refresh")
  /\ UNCHANGED <<storeVars, program_filters, subscription, loaded>>

\* The mutex is dropped before notified() is called.
WaitNotified(r) ==
  /\ At(r, "found") /\ Goto(r, "waiting")
  /\ UNCHANGED <<storeVars, accounts_in_loading, accounts_subscribed, program_filters,
                 subscription, loaded>>

\* get_account of the store once more, after the notification
ReadWoken(r) ==
  /\ At(r, "woken") /\ Return(r)
  /\ UNCHANGED <<storeVars, accounts_in_loading, accounts_subscribed, program_filters,
                 subscription, loaded>>

\* (faulty: waits for the notification only)
WaitNoTimeout(r) == FALSE

\* OperationTimeOut
WaitTimeout(r) ==
  /\ At(r, "waiting") /\ Return(r)
  /\ UNCHANGED <<storeVars, accounts_in_loading, accounts_subscribed, program_filters,
                 subscription, loaded>>

\* refresh_subscription: the filters are collected ...
CollectFilters(r) ==
  /\ At(r, "refresh")
  /\ call' = [call EXCEPT ![r].pc = "send",
                          ![r].filters = program_filters \cup accounts_subscribed]
  /\ UNCHANGED <<storeVars, accounts_in_loading, accounts_subscribed, program_filters,
                 subscription, loaded>>

\* ... and replace the value of the watch channel.
SendFilters(r) ==
  /\ At(r, "send")
  /\ subscription' = call[r].filters
  /\ call' = [call EXCEPT ![r].pc = "fetch", ![r].filters = {}]
  /\ UNCHANGED <<storeVars, accounts_in_loading, accounts_subscribed, program_filters,
                 loaded>>

MayRetry(tries) == tries + 1 < RetryFetching

\* get_account_with_commitment of the RPC node: a version is stored, an account
\* that does not exist ends the load, an error is tried again.
FetchAccount(r) ==
  /\ At(r, "fetch") /\ call[r].of \in Account
  /\ \/ /\ \E d \in Version : BeginUpdate(r, call[r].of, d, call[r].level)
        /\ loaded' = [loaded EXCEPT ![call[r].of] = call[r].level]
        /\ Goto(r, "unlock")
     \/ Goto(r, "unlock") /\ UNCHANGED <<update, loaded>>
     \/ /\ call' = [call EXCEPT ![r].tries = @ + 1,
                      ![r].pc = IF MayRetry(call[r].tries) THEN @ ELSE "unlock"]
        /\ UNCHANGED <<update, loaded>>
  /\ UNCHANGED <<account_store, confirmed_slots, accounts_by_owner, block, missed,
                 accounts_in_loading, accounts_subscribed, program_filters, subscription>>

\* (faulty: does not wait for the update of the store)
UnlockLoadingEarly(r) ==
  /\ At(r, "unlock")
  /\ accounts_in_loading' = accounts_in_loading \ {call[r].of}
  /\ Goto(r, "notify")
  /\ UNCHANGED <<storeVars, accounts_subscribed, program_filters, subscription, loaded>>

\* The load has ended, with the store updated or not: the account is not loading
\* any more, ...
UnlockLoading(r) ==
  /\ At(r, "unlock") /\ update[r] = None
  /\ accounts_in_loading' = accounts_in_loading \ {call[r].of}
  /\ Goto(r, "notify")
  /\ UNCHANGED <<storeVars, accounts_subscribed, program_filters, subscription, loaded>>

\* ... and those who wait by now are woken.
NotifyWaiters(r) ==
  /\ At(r, "notify")
  /\ call' = [w \in Reader |->
       CASE w = r -> None
         [] w # r /\ At(w, "waiting") /\ call[w].of = call[r].of ->
              [call[w] EXCEPT !.pc = "woken"]
         [] OTHER -> call[w]]
  /\ UNCHANGED <<storeVars, accounts_in_loading, accounts_subscribed, program_filters,
                 subscription, loaded>>

-----------------------------------------------------------------------------
\* get_program_accounts of a program the index does not have: nothing to do if
\* its filter is there.
GetProgramMiss(r) ==
  /\ call[r] = None
  /\ \E o \in Owner \ program_filters, c \in ReadLevel :
       /\ GetProgramAccounts(o, c) = None
       /\ call' = [call EXCEPT ![r] = [of |-> o, level |-> c, pc |-> "push",
                                       tries |-> 0, filters |-> {}]]
  /\ UNCHANGED <<storeVars, accounts_in_loading, accounts_subscribed, program_filters,
                 subscription, loaded>>

PushFilter(r) ==
  /\ At(r, "push")
  /\ program_filters' = program_filters \cup {call[r].of}
  /\ Goto(r, "refresh")
  /\ UNCHANGED <<storeVars, accounts_in_loading, accounts_subscribed, subscription, loaded>>

\* get_program_accounts_with_config of the RPC node: the accounts of the program,
\* to be stored one after the other, or an error
FetchProgram(r) ==
  /\ At(r, "fetch") /\ call[r].of \in Owner
  /\ \/ \E as \in SUBSET Account :
          call' = [call EXCEPT ![r].pc = "store", ![r].filters = as]
     \/ Return(r)
  /\ UNCHANGED <<storeVars, accounts_in_loading, accounts_subscribed, program_filters,
                 subscription, loaded>>

\* The response has no slot: the versions are stored under slot 0.
StoreProgram(r) ==
  /\ At(r, "store") /\ update[r] = None
  /\ IF call[r].filters = {} THEN Return(r) /\ UNCHANGED update
     ELSE \E a \in call[r].filters :
            /\ BeginUpdate(r, a, [slot |-> 0, owner |-> call[r].of], call[r].level)
            /\ call' = [call EXCEPT ![r].filters = @ \ {a}]
  /\ UNCHANGED <<account_store, confirmed_slots, accounts_by_owner, block, missed,
                 accounts_in_loading, accounts_subscribed, program_filters, subscription,
                 loaded>>

-----------------------------------------------------------------------------
Loader(r) ==
  CollectFilters(r) \/ SendFilters(r) \/ FetchAccount(r) \/ UnlockLoading(r)
  \/ NotifyWaiters(r)
Waiter(r) == LockLoading(r) \/ WaitNotified(r) \/ ReadWoken(r) \/ WaitTimeout(r)
Program(r) == PushFilter(r) \/ FetchProgram(r) \/ StoreProgram(r)

Next ==
  \/ StoreNext /\ UNCHANGED demandVars
  \/ \E r \in Reader :
       GetAccountMiss(r) \/ GetProgramMiss(r) \/ Waiter(r) \/ Loader(r) \/ Program(r)

Spec == Init /\ [][Next]_vars

\* A reader's task runs on, and so does its update of the store; the RPC client
\* answers or fails.  Nothing is assumed of streams, blocks or new calls.
FairSpec ==
  /\ Spec
  /\ \A r \in Reader : /\ WF_vars(Waiter(r) \/ Loader(r) \/ Program(r))
                       /\ WF_vars(UpdateEntry(r) /\ UNCHANGED demandVars)

-----------------------------------------------------------------------------
Loads(r, a) ==
  \E pc \in {"refresh", "send", "fetch", "unlock"} : At(r, pc) /\ call[r].of = a
Waits(r, a) == (At(r, "found") \/ At(r, "waiting")) /\ call[r].of = a

Flight == INSTANCE SingleFlight WITH
  Caller <- Reader, Key <- Account,
  phase <- [a \in Account |-> IF a \in accounts_in_loading THEN "loading"
                              ELSE IF a \in accounts_subscribed THEN "done" ELSE "new"],
  loading <- {p \in Reader \X Account : Loads(p[1], p[2])},
  waiting <- {p \in Reader \X Account : Waits(p[1], p[2])}

\* get_account implements the single flight: one reader loads an account, from the refresh of the
\* subscription to the end of the fetch, others wait only while it is in accounts_in_loading, and
\* an account that was subscribed is never loaded again, so that accounts that do not exist do
\* not reset the geyser subscription again and again.
LoadsLikeSingleFlight == Flight!FlightSpec

\* A reader woken by the loader finds the account, if it was fetched at the
\* reader's own commitment: the store is updated before the waiters are woken,
\* and nothing takes the version away again.
WokenReaderFinds ==
  \A r \in Reader : At(r, "woken") /\ loaded[call[r].of] = call[r].level
    => GetAccount(call[r].of, call[r].level) # None

\* Every get_account and get_program_accounts returns, even if the wake-up comes
\* between the reader's look at accounts_in_loading and its wait.
EveryReadReturns == \A r \in Reader : call[r] # None ~> call[r] = None
=============================================================================
