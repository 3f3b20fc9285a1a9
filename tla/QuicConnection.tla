--------------------------- MODULE QuicConnection ---------------------------
(***************************************************************************)
(* One QuicConnection (services/src/quic_connection.rs) shared by the      *)
(* tasks that send transactions over it.  The connection lives in an       *)
(* RwLock<Option<Connection>>; a task that meets an error records the      *)
(* stable id of the connection it used in last_stable_id, and the next     *)
(* task that finds this id in the cell replaces the connection under the   *)
(* write lock.  A stable id is the address of the quinn connection, so an  *)
(* id may come back once nobody holds the old connection any more.         *)
(***************************************************************************)
EXTENDS Naturals, FiniteSets

CONSTANTS
  Task,          \* send tasks; a task that returned may be spawned again
  StableId,      \* addresses quinn connections can have
  NoConn         \* Option::None, and the 0 that last_stable_id starts with

ASSUME QuicAssumption == NoConn \notin StableId

VARIABLES
  connection,          \* the content of the RwLock
  writer,              \* the tasks holding the write lock
  last_stable_id,      \* AtomicU64: the id last reported as problematic
  has_connected_once,  \* AtomicBool
  open,                \* ids of connections quinn has not closed
  task,                \* task[t]: its program counter and locals
  spawned,             \* a task was spawned on this connection
  exited,              \* the exit broadcast was sent
  reported             \* history: the ids ever stored in last_stable_id

quicVars == <<connection, writer, last_stable_id, has_connected_once, open, task,
          spawned, exited, reported>>

\* seen: last_stable_id as loaded; id: the connection the task holds;
\* warm: the task only calls get_connection; exit: an exit message is pending.
Idle == [pc |-> "idle", seen |-> NoConn, id |-> NoConn, warm |-> FALSE, exit |-> FALSE]

Locking == {"connecting", "reconnecting"}

\* A task that waits for the lock, connects, opens a stream or writes keeps
\* a clone of the connection, so that its address is not used again.
Held == {connection} \cup
        {task[t].id : t \in {u \in Task : task[u].pc # "report"}}

QuicInit ==
  /\ connection = NoConn
  /\ writer = {}
  /\ last_stable_id = NoConn
  /\ has_connected_once = FALSE
  /\ open = {}
  /\ task = [t \in Task |-> Idle]
  /\ spawned = FALSE
  /\ exited = FALSE
  /\ reported = {}

Return(t) == task' = [task EXCEPT ![t] = Idle]

Goto(t, pc) == task' = [task EXCEPT ![t].pc = pc]

\* get_connection returns Some(id): a warm-up task is done, a sender opens a stream.
Got(t, id) ==
  IF task[t].warm THEN Return(t)
  ELSE task' = [task EXCEPT ![t].pc = "open_uni", ![t].id = id, ![t].seen = NoConn]

\* A send task, or first of all the warm-up task of listen, starts with
\* get_connection, which loads last_stable_id before it takes the read lock.
Start(t, warm) ==
  /\ task[t].pc = "idle"
  /\ warm => ~spawned
  /\ spawned' = TRUE
  /\ task' = [task EXCEPT ![t] = [pc |-> "read", seen |-> last_stable_id,
                                  id |-> NoConn, warm |-> warm, exit |-> FALSE]]
  /\ UNCHANGED <<connection, writer, last_stable_id, has_connected_once, open,
                 exited, reported>>

\* The read lock is free as soon as nobody holds the write lock.
ReadConnection(t) ==
  /\ task[t].pc = "read"
  /\ writer = {}
  /\ IF connection = NoConn THEN Goto(t, "lock_none")
     ELSE IF connection = task[t].seen
          THEN task' = [task EXCEPT ![t].pc = "lock_bad", ![t].id = connection]
          ELSE Got(t, connection)
  /\ UNCHANGED <<connection, writer, last_stable_id, has_connected_once, open,
                 spawned, exited, reported>>

\* The write lock is taken and what the lock protects is looked at again.
Lock(t, pc, alreadyDone, next) ==
  /\ task[t].pc = pc
  /\ writer = {}
  /\ IF alreadyDone
     THEN Got(t, connection) /\ UNCHANGED writer
     ELSE Goto(t, next) /\ writer' = {t}
  /\ UNCHANGED <<connection, last_stable_id, has_connected_once, open, spawned, exited, reported>>

\* (faulty: "may be already written by another thread" is not checked)
LockBadUnchecked(t) == Lock(t, "lock_bad", FALSE, "reconnecting")

\* "check may be already written by another thread"
LockBad(t) == Lock(t, "lock_bad", connection # task[t].id, "reconnecting")

\* "connection has recently been established/ just use it"
LockNone(t) == Lock(t, "lock_none", connection # NoConn, "connecting")

\* QuicConnectionUtils::connect returned a connection.
ConnectOk(t) ==
  /\ task[t].pc \in Locking
  /\ \E id \in StableId \ Held :
       /\ connection' = id
       /\ open' = open \cup {id}
       /\ Got(t, id)
  /\ writer' = writer \ {t}
  /\ has_connected_once' = (has_connected_once \/ task[t].pc = "connecting")
  /\ UNCHANGED <<last_stable_id, spawned, exited, reported>>

\* Every attempt failed or the exit message came: None, and a problematic
\* connection is left where it is.
ConnectFail(t) ==
  /\ task[t].pc \in Locking
  /\ connection' = IF task[t].pc = "connecting" THEN NoConn ELSE connection
  /\ has_connected_once' = (has_connected_once \/ task[t].pc = "connecting")
  /\ writer' = writer \ {t}
  /\ Return(t)
  /\ UNCHANGED <<last_stable_id, open, spawned, exited, reported>>

\* (faulty: the stream is asked for again until the connection gives one)
OpenUniRetries(t) ==
  /\ task[t].pc = "open_uni"
  /\ IF task[t].id \in open THEN Goto(t, "write") ELSE UNCHANGED task
  /\ UNCHANGED <<connection, writer, last_stable_id, has_connected_once, open,
                 spawned, exited, reported>>

\* (faulty: the error of a closed connection is not reported)
OpenUniSilent(t) ==
  /\ task[t].pc = "open_uni"
  /\ IF task[t].id \in open THEN Goto(t, "write") ELSE Return(t)
  /\ UNCHANGED <<connection, writer, last_stable_id, has_connected_once, open,
                 spawned, exited, reported>>

\* open_unistream: on a closed connection it fails; on an open one the stream
\* opens, fails, or times out (which reports nothing).
OpenUni(t) ==
  /\ task[t].pc = "open_uni"
  /\ \/ task[t].id \in open /\ (Goto(t, "write") \/ Return(t))
     \/ Goto(t, "report")
  /\ UNCHANGED <<connection, writer, last_stable_id, has_connected_once, open,
                 spawned, exited, reported>>

\* write_all: sent, timed out or finish failed (nothing to report), or a write error.
WriteAll(t) ==
  /\ task[t].pc = "write"
  /\ Return(t) \/ Goto(t, "report")
  /\ UNCHANGED <<connection, writer, last_stable_id, has_connected_once, open,
                 spawned, exited, reported>>

\* do_retry: the id is stored, and the loop is left all the same.
Report(t) ==
  /\ task[t].pc = "report"
  /\ last_stable_id' = task[t].id
  /\ reported' = reported \cup {task[t].id}
  /\ Return(t)
  /\ UNCHANGED <<connection, writer, has_connected_once, open, spawned, exited>>

\* The select! of send_transaction drops the future it waits for, and with it
\* the lock, when the exit message arrives.
Cancel(t) ==
  /\ task[t].exit
  /\ ~task[t].warm
  /\ task[t].pc \notin {"idle", "report"}
  /\ writer' = writer \ {t}
  /\ Return(t)
  /\ UNCHANGED <<connection, last_stable_id, has_connected_once, open, spawned, exited, reported>>

\* The connection manager sends exit: tasks spawned later do not see it.
ExitSent ==
  /\ ~exited
  /\ exited' = TRUE
  /\ task' = [t \in Task |-> [task[t] EXCEPT !.exit = (task[t].pc # "idle")]]
  /\ UNCHANGED <<connection, writer, last_stable_id, has_connected_once, open, spawned, reported>>

\* close(), called by close_all once listen has left its loop.
Close ==
  /\ exited
  /\ writer = {}
  /\ connection \in open
  /\ open' = open \ {connection}
  /\ UNCHANGED <<connection, writer, last_stable_id, has_connected_once, task,
                 spawned, exited, reported>>

\* The peer or a timeout closes a connection.
ConnectionLost(id) ==
  /\ id \in open
  /\ open' = open \ {id}
  /\ UNCHANGED <<connection, writer, last_stable_id, has_connected_once, task,
                 spawned, exited, reported>>

Step(t) ==
  \/ ReadConnection(t) \/ LockBad(t) \/ LockNone(t) \/ ConnectOk(t)
  \/ ConnectFail(t) \/ OpenUni(t) \/ WriteAll(t) \/ Report(t) \/ Cancel(t)

QuicNext ==
  \/ \E t \in Task : Step(t) \/ Start(t, TRUE) \/ Start(t, FALSE)
  \/ ExitSent
  \/ Close
  \/ \E id \in StableId : ConnectionLost(id)

QuicSpec == QuicInit /\ [][QuicNext]_quicVars

\* Every await of a task ends: locks are handed out in order, and connecting,
\* opening and writing have timeouts.
QuicFairness ==
  \A t \in Task :
    /\ WF_quicVars(Step(t))
    /\ SF_quicVars(ReadConnection(t) \/ LockBad(t) \/ LockNone(t))

QuicFairSpec == QuicSpec /\ QuicFairness

-----------------------------------------------------------------------------
TaskRecord ==
  [pc : {"idle", "read", "lock_bad", "lock_none", "connecting", "reconnecting",
         "open_uni", "write", "report"},
   seen : StableId \cup {NoConn}, id : StableId \cup {NoConn},
   warm : BOOLEAN, exit : BOOLEAN]

\* The state has the shape the declarations say.
QuicTypeOK ==
  /\ connection \in StableId \cup {NoConn}
  /\ writer \subseteq Task
  /\ last_stable_id \in StableId \cup {NoConn}
  /\ has_connected_once \in BOOLEAN
  /\ open \subseteq StableId
  /\ task \in [Task -> TaskRecord]
  /\ spawned \in BOOLEAN
  /\ exited \in BOOLEAN
  /\ reported \subseteq StableId

\* "so that only one instance is connecting" (get_connection): no two tasks
\* connect or reconnect at the same time, whatever is cancelled in between.
OneTaskConnects ==
  \A t, u \in Task :
    task[t].pc \in Locking /\ task[u].pc \in Locking => t = u

\* "Connection cannot be None here": the expect of get_connection never
\* panics.  A task waits for the write lock with a problematic connection in
\* its hand while others connect, fail to connect, or are cancelled.
NeverNoneAgain ==
  \A t \in Task : task[t].pc \in {"lock_bad", "reconnecting"} => connection # NoConn

\* While a task reconnects, the connection it found problematic is still the
\* one in the lock: nobody replaced it in between, so none is replaced twice.
ReconnectsWhatItSaw ==
  \A t \in Task : task[t].pc = "reconnecting" => connection = task[t].id

\* get_connection replaces an established connection only if a task reported
\* its id, and never drops one without a replacement.
ReplacedOnlyIfReported ==
  [][ connection # NoConn /\ connection' # connection
        => connection \in reported /\ connection' \in open' ]_quicVars

\* A send task returns, and so gives back its permit, whatever happens to the
\* connection.
SendEnds == \A t \in Task : task[t].pc # "idle" ~> task[t].pc = "idle"

\* As long as transactions are sent, a connection that was closed is replaced,
\* or a task at least tries to; reports of older connections that arrive late
\* overwrite last_stable_id but cannot hide it for good.
DeadConnectionReplaced ==
  (connection # NoConn /\ connection \notin open)
    ~> (connection \in open \/ \E t \in Task : task[t].pc = "reconnecting")
=============================================================================
