--------------------------- MODULE AccountStreams ----------------------------
(* Account streams from geyser: the tasks that subscribe (grpc_accounts_streaming.rs), one for
   each source, under one of two supervisors: create_grpc_account_streaming, for the filters the
   process was started with, and the one of the accounts on demand (subscription_manager.rs),
   which starts the tasks of new filters before it ends those of the old ones.               *)
EXTENDS Naturals

CONSTANTS Source, MaxFilters, None    \* bound: times that the filters are updated

VARIABLES
  supervisor,        \* "static" or "on demand"
  filters,           \* account_filter_watch: number of the newest filters
  seen,              \* the newest filters the receiver has seen
  at,                \* where the supervisor is
  current, fresh,    \* current_tasks and new_tasks
  gave_up            \* history variable: filters whose tasks did not start in time

streamVars == <<supervisor, filters, seen, at, current, fresh, gave_up>>

\* A group of streaming tasks, one for each source; has_started once a message came
Group(version) == [filters |-> version, task |-> [s \in Source |-> "connect"], has_started |-> FALSE]

Streams(group) == group # None /\ \E s \in Source : group.task[s] = "stream"

StreamInit ==
  /\ supervisor \in {"static", "on demand"} /\ filters = 0 /\ seen = 0 /\ gave_up = {} /\ fresh = None
  /\ IF supervisor = "static" THEN at = "supervise" /\ current = Group(0)
     ELSE at = "first" /\ current = None

\* start_account_streaming_tasks of one source: connects, or ends with an error and is gone;
\* a message marks the group as started; a broken stream is connected again.
TaskStep(group, s) ==
  CASE group.task[s] = "connect" -> {[group EXCEPT !.task[s] = "stream"], [group EXCEPT !.task[s] = "ended"]}
    [] group.task[s] = "stream" -> {[group EXCEPT !.task[s] = "connect"], [group EXCEPT !.has_started = TRUE]}
    [] OTHER -> {}

OfCurrent(s) ==
  /\ current # None /\ current' \in TaskStep(current, s)
  /\ UNCHANGED <<supervisor, filters, seen, at, fresh, gave_up>>
OfFresh(s) ==
  /\ fresh # None /\ fresh' \in TaskStep(fresh, s)
  /\ UNCHANGED <<supervisor, filters, seen, at, current, gave_up>>

\* (faulty: only a lagging receiver makes the supervisor start again)
SilentLagging == Streams(current)

\* No data for a minute (or the receiver lagged)
Silent == TRUE

\* create_grpc_account_streaming: abort all tasks and start again
RestartStreams ==
  /\ at = "supervise" /\ Silent
  /\ current' = Group(0)
  /\ UNCHANGED <<supervisor, filters, seen, at, fresh, gave_up>>
-----------------------------------------------------------------------------
\* update_subscriptions
UpdateSubscriptions ==
  /\ supervisor = "on demand" /\ filters < MaxFilters
  /\ filters' = filters + 1
  /\ UNCHANGED <<supervisor, seen, at, current, fresh, gave_up>>

FirstFilters ==
  /\ at = "first" /\ seen < filters
  /\ seen' = filters /\ current' = Group(filters) /\ at' = "changed"
  /\ UNCHANGED <<supervisor, filters, fresh, gave_up>>

\* changed() returns, and the supervisor waits for a second
FiltersChanged ==
  /\ at = "changed" /\ seen < filters
  /\ seen' = filters /\ at' = "sleep"
  /\ UNCHANGED <<supervisor, filters, current, fresh, gave_up>>


\* borrow_and_update
FiltersNow == filters

StartNewTasks ==
  /\ at = "sleep"
  /\ fresh' = Group(FiltersNow) /\ seen' = filters /\ at' = "starting"
  /\ UNCHANGED <<supervisor, filters, current, gave_up>>

\* has_started.notified(): the previous tasks are aborted
SwitchTasks ==
  /\ at = "starting" /\ fresh.has_started
  /\ current' = fresh /\ fresh' = None /\ at' = "changed"
  /\ UNCHANGED <<supervisor, filters, seen, gave_up>>

\* No message for a minute: the new tasks are aborted, and nothing tries these filters again
StartTimeout ==
  /\ at = "starting" /\ ~fresh.has_started
  /\ gave_up' = gave_up \cup {fresh.filters} /\ fresh' = None /\ at' = "changed"
  /\ UNCHANGED <<supervisor, filters, seen, current>>
-----------------------------------------------------------------------------
Supervise == RestartStreams \/ FirstFilters \/ FiltersChanged \/ StartNewTasks \/ SwitchTasks \/ StartTimeout

StreamNext ==
  \/ UpdateSubscriptions \/ Supervise
  \/ \E s \in Source : OfCurrent(s) \/ OfFresh(s)

\* The supervisor's timers fire; of sources that are tried again and again one connects at some time.
StreamFairness ==
  /\ WF_streamVars(RestartStreams /\ ~Streams(current))
  /\ WF_streamVars(FirstFilters \/ FiltersChanged \/ StartNewTasks \/ SwitchTasks \/ StartTimeout)
  /\ SF_streamVars(\E s \in Source : OfCurrent(s) /\ current'.task[s] = "stream")

StreamSpec == StreamInit /\ [][StreamNext]_streamVars /\ StreamFairness
-----------------------------------------------------------------------------
\* Whatever breaks, and although a task that cannot connect ends for good, the accounts of the
\* process's filters are streamed again: the supervisor's restart after a minute of silence.
StreamRecovers == supervisor = "static" => []<>Streams(current)

=============================================================================
