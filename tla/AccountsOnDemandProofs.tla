----------------------- MODULE AccountsOnDemandProofs -----------------------
(* get_account implements the single flight, for any readers, accounts, programs and number of
   retries, whatever the store, its streams and the RPC node do meanwhile.                   *)
EXTENDS AccountsOnDemand, TLAPS

LoadsIn(c, a) == c # None /\ c.pc \in {"refresh", "send", "fetch", "unlock"} /\ c.of = a
WaitsIn(c, a) == c # None /\ c.pc \in {"found", "waiting"} /\ c.of = a

(* The steps that get_account and get_program_accounts do not share are taken for an account
   and for a program.                                                                        *)
Placed(c) ==
  c # None =>
    /\ c.pc \in {"lock", "found", "waiting", "woken", "unlock", "notify"} => c.of \in Account
    /\ c.pc \in {"push", "store"} => c.of \in Owner

(* Whoever loads an account has it in accounts_in_loading, and is the only one.              *)
DemandInv ==
  /\ call \in [Reader -> CallRecord \cup {None}]
  /\ program_filters \subseteq Owner
  /\ accounts_in_loading \subseteq accounts_subscribed
  /\ accounts_subscribed \subseteq Account
  /\ \A r \in Reader : Placed(call[r])
  /\ \A r \in Reader, a \in Account : LoadsIn(call[r], a) => a \in accounts_in_loading
  /\ \A r, s \in Reader, a \in Account : LoadsIn(call[r], a) /\ LoadsIn(call[s], a) => r = s

(* A step that begins and ends no load, and after which no reader waits that did not before. *)
QuietStep ==
  /\ call' \in [Reader -> CallRecord \cup {None}]
  /\ program_filters' \subseteq Owner
  /\ UNCHANGED <<accounts_in_loading, accounts_subscribed>>
  /\ \A r \in Reader :
       /\ Placed(call'[r])
       /\ \A a \in Account : /\ LoadsIn(call'[r], a) <=> LoadsIn(call[r], a)
                             /\ WaitsIn(call'[r], a) => WaitsIn(call[r], a)

(* The state of the single flight                                                            *)
Phase ==
  [a \in Account |-> IF a \in accounts_in_loading THEN "loading"
                     ELSE IF a \in accounts_subscribed THEN "done" ELSE "new"]
Loading == {p \in Reader \X Account : Loads(p[1], p[2])}
Waiting == {p \in Reader \X Account : Waits(p[1], p[2])}

-----------------------------------------------------------------------------
\* Loads and Waits depend on the reader's own call only.
LEMMA LoadsWaits ==
  /\ \A r, a : Loads(r, a) <=> LoadsIn(call[r], a)
  /\ \A r, a : Waits(r, a) <=> WaitsIn(call[r], a)
BY DEF Loads, Waits, LoadsIn, WaitsIn, At

\* The same after the step
LEMMA LoadsWaitsNext ==
  /\ \A r, a : Loads(r, a)' <=> LoadsIn(call'[r], a)
  /\ \A r, a : Waits(r, a)' <=> WaitsIn(call'[r], a)
BY DEF Loads, Waits, LoadsIn, WaitsIn, At

\* A quiet step keeps the invariant, and at most lets readers go that waited.
LEMMA QuietStepLeaves ==
  ASSUME DemandInv, QuietStep
  PROVE  DemandInv' /\ Flight!Leave
<1>1. DemandInv'
  BY DEF DemandInv, QuietStep
<1>2. Flight!Leave
  BY LoadsWaits, LoadsWaitsNext DEF QuietStep, Flight!Leave
<1> QED BY <1>1, <1>2

-----------------------------------------------------------------------------
\* A reader in a step of a call has a call.
LEMMA InACall ==
  ASSUME DemandInv, NEW r \in Reader, NEW pc, At(r, pc)
  PROVE  call[r] \in CallRecord /\ call[r] # None /\ call[r].pc = pc
BY DEF DemandInv, At

\* A step of one reader is quiet if its own call begins no load, ends none and does not start
\* to wait.
LEMMA OwnStepIsQuiet ==
  ASSUME DemandInv, NEW r \in Reader, NEW c \in CallRecord \cup {None},
         call' = [call EXCEPT ![r] = c],
         UNCHANGED <<accounts_in_loading, accounts_subscribed>>,
         program_filters' \subseteq Owner,
         Placed(c),
         \A a \in Account : /\ LoadsIn(c, a) <=> LoadsIn(call[r], a)
                            /\ WaitsIn(c, a) => WaitsIn(call[r], a)
  PROVE  QuietStep
BY DEF DemandInv, QuietStep

\* A call that was answered neither loads nor waits.
LEMMA Answered ==
  Placed(None) /\ \A a : ~LoadsIn(None, a) /\ ~WaitsIn(None, a)
BY DEF Placed, LoadsIn, WaitsIn

\* A step in which a call moves on to a step of the same kind is quiet.
LEMMA MoveIsQuiet ==
  ASSUME DemandInv, NEW r \in Reader, NEW c \in CallRecord,
         call[r] \in CallRecord, c.of = call[r].of,
         call' = [call EXCEPT ![r] = c],
         UNCHANGED <<accounts_in_loading, accounts_subscribed>>,
         program_filters' \subseteq Owner,
         \/ call[r].pc = "found" /\ c.pc = "waiting"
         \/ /\ call[r].pc \in {"refresh", "send", "fetch"}
            /\ c.pc \in {"refresh", "send", "fetch"}
         \/ call[r].pc = "fetch" /\ c.of \in Account /\ c.pc = "unlock"
         \/ c.of \in Owner /\ c.pc \in {"refresh", "store"}
  PROVE  QuietStep
<1>1. c # None /\ call[r] # None
  BY DemandAssumption
<1>2. Placed(c)
  BY <1>1 DEF DemandInv, Placed
<1>3. \A a \in Account : a \notin Owner
  BY DemandAssumption
<1>4. ASSUME NEW a \in Account
      PROVE  (LoadsIn(c, a) <=> LoadsIn(call[r], a)) /\ (WaitsIn(c, a) => WaitsIn(call[r], a))
  BY <1>1, <1>3 DEF LoadsIn, WaitsIn
<1> QED BY <1>2, <1>4, OwnStepIsQuiet

\* A step that ends a call that does not load is quiet.
LEMMA ReturnIsQuiet ==
  ASSUME DemandInv, NEW r \in Reader, Return(r),
         UNCHANGED <<accounts_in_loading, accounts_subscribed, program_filters>>,
         \A a \in Account : ~LoadsIn(call[r], a)
  PROVE  QuietStep
<1>1. program_filters' \subseteq Owner
  BY DEF DemandInv
<1> QED BY <1>1, Answered, OwnStepIsQuiet DEF Return

\* The steps of a reader that waits are quiet.
LEMMA WaiterIsQuiet ==
  ASSUME DemandInv, NEW r \in Reader, WaitNotified(r) \/ ReadWoken(r) \/ WaitTimeout(r)
  PROVE  QuietStep
<1>1. CASE WaitNotified(r)
  <2> DEFINE c == [call[r] EXCEPT !.pc = "waiting"]
  <2>1. call[r] \in CallRecord /\ call[r].pc = "found"
    BY <1>1, InACall DEF WaitNotified
  <2>2. c \in CallRecord /\ c.pc = "waiting" /\ c.of = call[r].of
    BY <2>1 DEF CallRecord
  <2>3. call' = [call EXCEPT ![r] = c]
    BY <1>1 DEF WaitNotified, Goto
  <2>4. /\ UNCHANGED <<accounts_in_loading, accounts_subscribed>>
        /\ program_filters' \subseteq Owner
    BY <1>1 DEF WaitNotified, DemandInv
  <2> HIDE DEF c
  <2> QED BY <2>1, <2>2, <2>3, <2>4, MoveIsQuiet
<1>2. CASE ReadWoken(r) \/ WaitTimeout(r)
  <2>1. PICK pc \in {"woken", "waiting"} : At(r, pc)
    BY <1>2 DEF ReadWoken, WaitTimeout
  <2>2. \A a \in Account : ~LoadsIn(call[r], a)
    BY <2>1, InACall DEF LoadsIn
  <2>3. Return(r) /\ UNCHANGED <<accounts_in_loading, accounts_subscribed, program_filters>>
    BY <1>2 DEF ReadWoken, WaitTimeout
  <2> QED BY <2>2, <2>3, ReturnIsQuiet
<1> QED BY <1>1, <1>2

\* The refresh of the subscription is quiet: the load goes on.
LEMMA RefreshIsQuiet ==
  ASSUME DemandInv, NEW r \in Reader, CollectFilters(r) \/ SendFilters(r)
  PROVE  QuietStep
<1>1. PICK from \in {"refresh", "send"} : At(r, from)
  BY DEF CollectFilters, SendFilters
<1>2. call[r] \in CallRecord /\ call[r].pc \in {"refresh", "send"}
  BY <1>1, InACall
<1>3. /\ UNCHANGED <<accounts_in_loading, accounts_subscribed>>
      /\ program_filters' \subseteq Owner
  BY DEF CollectFilters, SendFilters, DemandInv
<1>4. CASE CollectFilters(r)
  <2> DEFINE c == [call[r] EXCEPT !.pc = "send",
                                  !.filters = program_filters \cup accounts_subscribed]
  <2>1. program_filters \cup accounts_subscribed \subseteq Account \cup Owner
    BY DEF DemandInv
  <2>2. c \in CallRecord /\ c.pc = "send" /\ c.of = call[r].of
    BY <1>2, <2>1 DEF CallRecord
  <2>3. call' = [call EXCEPT ![r] = c]
    BY <1>4 DEF CollectFilters
  <2> HIDE DEF c
  <2> QED BY <1>2, <1>3, <2>2, <2>3, MoveIsQuiet
<1>5. CASE SendFilters(r)
  <2> DEFINE c == [call[r] EXCEPT !.pc = "fetch", !.filters = {}]
  <2>1. c \in CallRecord /\ c.pc = "fetch" /\ c.of = call[r].of
    BY <1>2 DEF CallRecord
  <2>2. call' = [call EXCEPT ![r] = c]
    BY <1>5 DEF SendFilters
  <2> HIDE DEF c
  <2> QED BY <1>2, <1>3, <2>1, <2>2, MoveIsQuiet
<1> QED BY <1>4, <1>5

\* A fetch is quiet, whatever the RPC node answers: the load goes on, with the fetch or with
\* its end.
LEMMA FetchIsQuiet ==
  ASSUME DemandInv, NEW r \in Reader, FetchAccount(r)
  PROVE  QuietStep
<1>1. call[r] \in CallRecord /\ call[r].pc = "fetch" /\ call[r].of \in Account
  BY InACall DEF FetchAccount
<1>2. /\ UNCHANGED <<accounts_in_loading, accounts_subscribed>>
      /\ program_filters' \subseteq Owner
  BY DEF FetchAccount, DemandInv
<1>3. CASE Goto(r, "unlock")
  <2> DEFINE c == [call[r] EXCEPT !.pc = "unlock"]
  <2>1. c \in CallRecord /\ c.pc = "unlock" /\ c.of = call[r].of
    BY <1>1 DEF CallRecord
  <2>2. call' = [call EXCEPT ![r] = c]
    BY <1>3 DEF Goto
  <2> HIDE DEF c
  <2> QED BY <1>1, <1>2, <2>1, <2>2, MoveIsQuiet
<1>4. CASE call' = [call EXCEPT ![r].tries = @ + 1,
                      ![r].pc = IF MayRetry(call[r].tries) THEN @ ELSE "unlock"]
  <2>1. PICK n \in Nat, pc \in {"fetch", "unlock"} :
          call' = [call EXCEPT ![r].tries = n, ![r].pc = pc]
    <3>1. call[r].tries + 1 \in Nat
      BY <1>1 DEF CallRecord
    <3>2. (IF MayRetry(call[r].tries) THEN call[r].pc ELSE "unlock") \in {"fetch", "unlock"}
      BY <1>1
    <3> QED BY <1>4, <3>1, <3>2
  <2> DEFINE c == [call[r] EXCEPT !.tries = n, !.pc = pc]
  <2>2. c \in CallRecord /\ c.pc = pc /\ c.of = call[r].of
    BY <1>1 DEF CallRecord
  <2>3. call' = [call EXCEPT ![r] = c]
    BY <2>1
  <2> HIDE DEF c
  <2> QED BY <1>1, <1>2, <2>2, <2>3, MoveIsQuiet
<1> QED BY <1>3, <1>4 DEF FetchAccount

\* The wake-up is quiet: readers stop to wait, and the load is over already.
LEMMA NotifyIsQuiet ==
  ASSUME DemandInv, NEW r \in Reader, NotifyWaiters(r)
  PROVE  QuietStep
<1>1. call[r] \in CallRecord /\ call[r].pc = "notify"
  BY InACall DEF NotifyWaiters
<1>2. /\ UNCHANGED <<accounts_in_loading, accounts_subscribed>>
      /\ program_filters' \subseteq Owner
  BY DEF NotifyWaiters, DemandInv
<1>3. ASSUME NEW w \in Reader
      PROVE  /\ call'[w] \in CallRecord \cup {None}
             /\ Placed(call'[w])
             /\ \A a \in Account : /\ LoadsIn(call'[w], a) <=> LoadsIn(call[w], a)
                                   /\ WaitsIn(call'[w], a) => WaitsIn(call[w], a)
  <2>1. CASE w = r
    <3>1. call'[w] = None
      BY <2>1 DEF NotifyWaiters
    <3>2. \A a \in Account : ~LoadsIn(call[w], a)
      BY <1>1, <2>1 DEF LoadsIn
    <3> QED BY <3>1, <3>2, Answered
  <2>2. CASE w # r /\ At(w, "waiting") /\ call[w].of = call[r].of
    <3>1. call[w] \in CallRecord /\ call[w] # None /\ call[w].pc = "waiting"
      BY <2>2, InACall
    <3>2. call[w].of \in Account
      BY <3>1 DEF DemandInv, Placed
    <3>3. call'[w] = [call[w] EXCEPT !.pc = "woken"]
      BY <2>2 DEF NotifyWaiters
    <3>4. call'[w] \in CallRecord /\ call'[w].pc = "woken" /\ call'[w].of = call[w].of
      BY <3>1, <3>3 DEF CallRecord
    <3> QED BY <3>1, <3>2, <3>4 DEF Placed, LoadsIn, WaitsIn
  <2>3. CASE w # r /\ ~(At(w, "waiting") /\ call[w].of = call[r].of)
    <3>1. call'[w] = call[w]
      BY <2>3 DEF NotifyWaiters
    <3> QED BY <3>1 DEF DemandInv
  <2> QED BY <2>1, <2>2, <2>3
<1>4. call' \in [Reader -> CallRecord \cup {None}]
  <2>1. call' = [w \in Reader |-> call'[w]]
    BY DEF NotifyWaiters
  <2> QED BY <1>3, <2>1
<1> QED BY <1>2, <1>3, <1>4 DEF QuietStep

\* A call that begins is quiet: it neither loads nor waits yet.
LEMMA MissIsQuiet ==
  ASSUME DemandInv, NEW r \in Reader, GetAccountMiss(r) \/ GetProgramMiss(r)
  PROVE  QuietStep
<1>1. PICK x \in Account \cup Owner, l \in ReadLevel, pc \in {"lock", "push"} :
        /\ pc = "lock" => x \in Account
        /\ pc = "push" => x \in Owner
        /\ call' = [call EXCEPT ![r] = [of |-> x, level |-> l, pc |-> pc, tries |-> 0,
                                       filters |-> {}]]
  BY DEF GetAccountMiss, GetProgramMiss
<1> DEFINE c == [of |-> x, level |-> l, pc |-> pc, tries |-> 0, filters |-> {}]
<1>2. c \in CallRecord /\ c.pc = pc /\ c.of = x
  BY DEF CallRecord
<1>3. Placed(c) /\ \A a \in Account : ~LoadsIn(c, a) /\ ~WaitsIn(c, a)
  BY <1>1, <1>2 DEF Placed, LoadsIn, WaitsIn
<1>4. /\ UNCHANGED <<accounts_in_loading, accounts_subscribed>>
      /\ program_filters' \subseteq Owner
  BY DEF GetAccountMiss, GetProgramMiss, DemandInv
<1>5. \A a : ~LoadsIn(call[r], a)
  BY DEF GetAccountMiss, GetProgramMiss, LoadsIn
<1>6. call' = [call EXCEPT ![r] = c]
  BY <1>1
<1> HIDE DEF c
<1> QED BY <1>2, <1>3, <1>4, <1>5, <1>6, OwnStepIsQuiet

\* The steps of get_program_accounts are quiet: they are not about an account.
LEMMA ProgramIsQuiet ==
  ASSUME DemandInv, NEW r \in Reader, Program(r)
  PROVE  QuietStep
<1>1. UNCHANGED <<accounts_in_loading, accounts_subscribed>>
  BY DEF Program, PushFilter, FetchProgram, StoreProgram
<1>2. CASE PushFilter(r)
  <2> DEFINE c == [call[r] EXCEPT !.pc = "refresh"]
  <2>1. call[r] \in CallRecord /\ call[r] # None /\ call[r].pc = "push"
    BY <1>2, InACall DEF PushFilter
  <2>2. call[r].of \in Owner
    BY <2>1 DEF DemandInv, Placed
  <2>3. program_filters' \subseteq Owner
    BY <1>2, <2>2 DEF PushFilter, DemandInv
  <2>4. c \in CallRecord /\ c.pc = "refresh" /\ c.of = call[r].of
    BY <2>1 DEF CallRecord
  <2>5. call' = [call EXCEPT ![r] = c]
    BY <1>2 DEF PushFilter, Goto
  <2> HIDE DEF c
  <2> QED BY <1>1, <2>1, <2>2, <2>3, <2>4, <2>5, MoveIsQuiet
<1>3. CASE FetchProgram(r) \/ StoreProgram(r)
  <2>1. PICK pc \in {"fetch", "store"} : At(r, pc)
    BY <1>3 DEF FetchProgram, StoreProgram
  <2>2. call[r] \in CallRecord /\ call[r] # None
    BY <2>1, InACall
  <2>3. call[r].of \in Owner
    BY <1>3, <2>2 DEF FetchProgram, StoreProgram, At, DemandInv, Placed
  <2>4. \A a \in Account : ~LoadsIn(call[r], a)
    BY <2>3, DemandAssumption DEF LoadsIn
  <2>5. UNCHANGED program_filters /\ program_filters' \subseteq Owner
    BY <1>3 DEF FetchProgram, StoreProgram, DemandInv
  <2>6. CASE Return(r)
    BY <1>1, <2>4, <2>5, <2>6, ReturnIsQuiet
  <2>7. ASSUME NEW fs \in SUBSET (Account \cup Owner),
               call' = [call EXCEPT ![r] = [call[r] EXCEPT !.pc = "store", !.filters = fs]]
        PROVE  QuietStep
    <3> DEFINE c == [call[r] EXCEPT !.pc = "store", !.filters = fs]
    <3>1. c \in CallRecord /\ c.pc = "store" /\ c.of = call[r].of
      BY <2>2 DEF CallRecord
    <3>2. call' = [call EXCEPT ![r] = c]
      BY <2>7
    <3> HIDE DEF c
    <3> QED BY <1>1, <2>2, <2>3, <2>5, <3>1, <3>2, MoveIsQuiet
  <2>8. CASE FetchProgram(r) /\ ~Return(r)
    <3>1. PICK as \in SUBSET Account :
            call' = [call EXCEPT ![r].pc = "store", ![r].filters = as]
      BY <2>8 DEF FetchProgram
    <3>2. call' = [call EXCEPT ![r] = [call[r] EXCEPT !.pc = "store", !.filters = as]]
      BY <3>1
    <3> QED BY <2>7, <3>2
  <2>9. CASE StoreProgram(r) /\ ~Return(r)
    <3>1. PICK a \in call[r].filters : call' = [call EXCEPT ![r].filters = @ \ {a}]
      BY <2>9 DEF StoreProgram
    <3>2. call[r].pc = "store" /\ call[r].filters \ {a} \in SUBSET (Account \cup Owner)
      BY <2>2, <2>9 DEF StoreProgram, At, CallRecord
    <3>3. [call[r] EXCEPT !.filters = @ \ {a}]
            = [call[r] EXCEPT !.pc = "store", !.filters = call[r].filters \ {a}]
      BY <2>2, <3>2 DEF CallRecord
    <3>4. call' = [call EXCEPT ![r] = [call[r] EXCEPT !.filters = @ \ {a}]]
      BY <3>1
    <3> QED BY <2>7, <3>2, <3>3, <3>4
  <2> QED BY <1>3, <2>6, <2>8, <2>9
<1> QED BY <1>2, <1>3 DEF Program

\* Only the reader's own call changes when it takes the mutex or ends a load.
LEMMA OthersStay ==
  ASSUME DemandInv, NEW r \in Reader, NEW pc, At(r, pc), NEW to, Goto(r, to),
         to \in {"found", "refresh", "notify"}
  PROVE  /\ call' \in [Reader -> CallRecord \cup {None}]
         /\ \A s \in Reader \ {r} : call'[s] = call[s]
         /\ call'[r] \in CallRecord /\ call'[r] # None
         /\ call'[r].pc = to /\ call'[r].of = call[r].of
<1> DEFINE c == [call[r] EXCEPT !.pc = to]
<1>1. call[r] \in CallRecord
  BY InACall
<1>2. c \in CallRecord /\ c.pc = to /\ c.of = call[r].of
  BY <1>1 DEF CallRecord
<1>3. c # None
  BY <1>2, DemandAssumption
<1>4. call' = [call EXCEPT ![r] = c] /\ call \in [Reader -> CallRecord \cup {None}]
  BY DEF Goto, DemandInv
<1> HIDE DEF c
<1> QED BY <1>2, <1>3, <1>4

\* Under the mutex a reader joins the load of another one, gives up, or begins to load.
LEMMA LockLoadingFlies ==
  ASSUME DemandInv, NEW r \in Reader, LockLoading(r)
  PROVE  DemandInv' /\ Flight!FlightNext
<1>1. call[r] \in CallRecord /\ call[r] # None /\ call[r].pc = "lock" /\ At(r, "lock")
  BY InACall DEF LockLoading
<1>2. PICK a \in Account : call[r].of = a
  BY <1>1 DEF DemandInv, Placed
<1>3. \A b : ~LoadsIn(call[r], b) /\ ~WaitsIn(call[r], b)
  BY <1>1 DEF LoadsIn, WaitsIn
<1>4. program_filters' = program_filters
  BY DEF LockLoading
<1>5. Flight!Free(r)
  BY <1>3, LoadsWaits DEF Flight!Free
<1>6. CASE a \in accounts_in_loading
  <2>1. Goto(r, "found") /\ UNCHANGED <<accounts_in_loading, accounts_subscribed>>
    BY <1>2, <1>6 DEF LockLoading
  <2>2. /\ call' \in [Reader -> CallRecord \cup {None}]
        /\ \A s \in Reader \ {r} : call'[s] = call[s]
        /\ call'[r] # None /\ call'[r].pc = "found" /\ call'[r].of = a
    BY <1>1, <1>2, <2>1, OthersStay
  <2>3. \A b : ~LoadsIn(call'[r], b) /\ (WaitsIn(call'[r], b) <=> b = a)
    BY <2>2 DEF LoadsIn, WaitsIn
  <2>4. Placed(call'[r])
    BY <1>2, <2>2 DEF Placed
  <2>5. DemandInv'
    BY <1>4, <2>1, <2>2, <2>3, <2>4 DEF DemandInv
  <2>6. Flight!Join(r, a)
    BY <1>2, <1>3, <1>5, <1>6, <2>1, <2>2, <2>3, LoadsWaits, LoadsWaitsNext DEF Flight!Join
  <2> QED BY <1>2, <2>5, <2>6 DEF Flight!FlightNext
<1>7. CASE a \notin accounts_in_loading /\ a \in accounts_subscribed
  <2>1. Return(r) /\ UNCHANGED <<accounts_in_loading, accounts_subscribed, program_filters>>
    BY <1>2, <1>7 DEF LockLoading
  <2>2. QuietStep
    BY <1>3, <2>1, ReturnIsQuiet
  <2> QED BY <2>2, QuietStepLeaves DEF Flight!FlightNext
<1>8. CASE a \notin accounts_in_loading /\ a \notin accounts_subscribed
  <2>1. /\ Goto(r, "refresh")
        /\ accounts_in_loading' = accounts_in_loading \cup {a}
        /\ accounts_subscribed' = accounts_subscribed \cup {a}
    BY <1>2, <1>8 DEF LockLoading
  <2>2. /\ call' \in [Reader -> CallRecord \cup {None}]
        /\ \A s \in Reader \ {r} : call'[s] = call[s]
        /\ call'[r] # None /\ call'[r].pc = "refresh" /\ call'[r].of = a
    BY <1>1, <1>2, <2>1, OthersStay
  <2>3. \A b : ~WaitsIn(call'[r], b) /\ (LoadsIn(call'[r], b) <=> b = a)
    BY <2>2 DEF LoadsIn, WaitsIn
  <2>4. Placed(call'[r])
    BY <2>2 DEF Placed
  <2>5. DemandInv'
    BY <1>2, <1>4, <1>8, <2>1, <2>2, <2>3, <2>4 DEF DemandInv
  <2>6. Flight!Begin(r, a)
    <3>1. Phase[a] = "new" /\ Phase' = [Phase EXCEPT ![a] = "loading"]
      BY <1>2, <1>8, <2>1 DEF Phase
    <3>2. Loading' = Loading \cup {<<r, a>>}
      BY <1>3, <2>2, <2>3, LoadsWaits, LoadsWaitsNext DEF Loading
    <3>3. Waiting' = Waiting
      BY <1>3, <2>2, <2>3, LoadsWaits, LoadsWaitsNext DEF Waiting
    <3> QED BY <1>5, <3>1, <3>2, <3>3 DEF Flight!Begin, Phase, Loading, Waiting
  <2> QED BY <1>2, <2>5, <2>6 DEF Flight!FlightNext
<1> QED BY <1>6, <1>7, <1>8

\* The end of a load, with the store updated or not, ends it for good.
LEMMA UnlockLoadingFlies ==
  ASSUME DemandInv, NEW r \in Reader, UnlockLoading(r)
  PROVE  DemandInv' /\ Flight!FlightNext
<1>1. call[r] \in CallRecord /\ call[r] # None /\ call[r].pc = "unlock" /\ At(r, "unlock")
  BY InACall DEF UnlockLoading
<1>2. PICK a \in Account : call[r].of = a
  BY <1>1 DEF DemandInv, Placed
<1>3. \A b : ~WaitsIn(call[r], b) /\ (LoadsIn(call[r], b) <=> b = a)
  BY <1>1, <1>2 DEF LoadsIn, WaitsIn
<1>4. a \in accounts_in_loading /\ a \in accounts_subscribed
  BY <1>2, <1>3 DEF DemandInv
<1>5. /\ Goto(r, "notify")
      /\ accounts_in_loading' = accounts_in_loading \ {a}
      /\ UNCHANGED <<accounts_subscribed, program_filters>>
  BY <1>2 DEF UnlockLoading
<1>6. /\ call' \in [Reader -> CallRecord \cup {None}]
      /\ \A s \in Reader \ {r} : call'[s] = call[s]
      /\ call'[r] # None /\ call'[r].pc = "notify" /\ call'[r].of = a
  BY <1>1, <1>2, <1>5, OthersStay
<1>7. \A b : ~WaitsIn(call'[r], b) /\ ~LoadsIn(call'[r], b)
  BY <1>6 DEF LoadsIn, WaitsIn
<1>8. Placed(call'[r])
  BY <1>2, <1>6 DEF Placed
<1>9. DemandInv'
  BY <1>2, <1>3, <1>5, <1>6, <1>7, <1>8 DEF DemandInv
<1>10. Flight!Finish(r, a)
  <2>1. Phase[a] = "loading" /\ Phase' = [Phase EXCEPT ![a] = "done"]
    BY <1>2, <1>4, <1>5 DEF Phase
  <2>2. <<r, a>> \in Loading /\ Loading' = Loading \ {<<r, a>>}
    BY <1>3, <1>6, <1>7, LoadsWaits, LoadsWaitsNext DEF Loading
  <2>3. Waiting' = Waiting
    BY <1>3, <1>6, <1>7, LoadsWaits, LoadsWaitsNext DEF Waiting
  <2> QED BY <2>1, <2>2, <2>3 DEF Flight!Finish, Phase, Loading, Waiting
<1> QED BY <1>2, <1>9, <1>10 DEF Flight!FlightNext

\* Every step keeps the invariant and is a step of the single flight, or none.
LEMMA StepFlies ==
  ASSUME DemandInv, [Next]_vars
  PROVE  DemandInv' /\ [Flight!FlightNext]_Flight!flightVars
<1>1. CASE UNCHANGED demandVars
  <2>1. QuietStep
    BY <1>1 DEF demandVars, QuietStep, DemandInv
  <2> QED BY <2>1, QuietStepLeaves DEF Flight!FlightNext
<1>2. ASSUME NEW r \in Reader,
             GetAccountMiss(r) \/ GetProgramMiss(r) \/ Waiter(r) \/ Loader(r) \/ Program(r)
      PROVE  DemandInv' /\ Flight!FlightNext
  <2>1. CASE LockLoading(r)
    BY <2>1, LockLoadingFlies
  <2>2. CASE UnlockLoading(r)
    BY <2>2, UnlockLoadingFlies
  <2>3. CASE ~LockLoading(r) /\ ~UnlockLoading(r)
    <3>1. QuietStep
      BY <1>2, <2>3, MissIsQuiet, WaiterIsQuiet, RefreshIsQuiet, FetchIsQuiet, NotifyIsQuiet,
         ProgramIsQuiet DEF Waiter, Loader
    <3> QED BY <3>1, QuietStepLeaves DEF Flight!FlightNext
  <2> QED BY <2>1, <2>2, <2>3
<1> QED BY <1>1, <1>2 DEF Next, vars

\* Accounts on demand implement the single flight: of the readers that miss an account one
\* subscribes to it and fetches it, once and for all, and the others wait for it at most while
\* it is in accounts_in_loading.
THEOREM OnDemandIsSingleFlight == Spec => LoadsLikeSingleFlight
<1>1. Init => DemandInv /\ Flight!FlightInit
  <2> SUFFICES ASSUME Init PROVE DemandInv /\ Flight!FlightInit
    OBVIOUS
  <2>1. \A r \in Reader : call[r] = None
    BY DEF Init
  <2>2. DemandInv
    BY <2>1, Answered DEF Init, DemandInv
  <2>3. Flight!FlightInit
    BY <2>1, Answered, LoadsWaits DEF Init, Flight!FlightInit
  <2> QED BY <2>2, <2>3
<1>2. DemandInv /\ [Next]_vars => DemandInv' /\ [Flight!FlightNext]_Flight!flightVars
  BY StepFlies
<1> QED BY <1>1, <1>2, PTL DEF Spec, LoadsLikeSingleFlight, Flight!FlightSpec
=============================================================================
