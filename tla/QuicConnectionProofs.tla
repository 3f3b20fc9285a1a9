------------------------ MODULE QuicConnectionProofs ------------------------
(* The locking protocol of get_connection, for any number of tasks and of
   connections.                                                             *)
EXTENDS QuicConnection, TLAPS

(* Exactly the tasks that connect hold the write lock, and only one can; a task
   connects only in place of None, and reconnects only in place of the
   connection it holds, which some task has reported.                        *)
QuicInv ==
  /\ QuicTypeOK
  /\ \A t \in Task : t \in writer <=> task[t].pc \in Locking
  /\ \A t, u \in writer : t = u
  /\ last_stable_id \in reported \cup {NoConn}
  /\ \A t \in Task :
       /\ task[t].seen \in reported \cup {NoConn}
       /\ task[t].pc = "connecting" => connection = NoConn
       /\ task[t].pc = "lock_bad" => connection # NoConn /\ task[t].id \in reported
       /\ task[t].pc = "reconnecting" => connection = task[t].id /\ task[t].id \in reported
       /\ task[t].pc \in {"open_uni", "write", "report"} => task[t].id \in StableId

\* What the runs check follows from the invariant.
LEMMA QuicInvImplies ==
  QuicInv => QuicTypeOK /\ OneTaskConnects /\ NeverNoneAgain /\ ReconnectsWhatItSaw
  BY QuicAssumption
  DEF QuicInv, QuicTypeOK, OneTaskConnects, NeverNoneAgain, ReconnectsWhatItSaw

\* A connection that nobody has used yet.
LEMMA QuicInvInit == QuicInit => QuicInv
<1> SUFFICES ASSUME QuicInit PROVE QuicInv
  OBVIOUS
<1>1. Idle \in TaskRecord /\ Idle.pc = "idle" /\ Idle.seen = NoConn
  BY DEF Idle, TaskRecord
<1>2. \A t \in Task : task[t] = Idle
  BY DEF QuicInit
<1>3. task \in [Task -> TaskRecord]
  BY <1>1 DEF QuicInit
<1> QED BY QuicAssumption, <1>1, <1>2, <1>3 DEF QuicInit, QuicInv, QuicTypeOK, Locking

\* A step that only changes one task's record, to a record r that satisfies the
\* invariant and does not hold the write lock, keeps the invariant.
LEMMA QuicInvTask ==
  ASSUME QuicInv, NEW t \in Task, NEW r \in TaskRecord, task' = [task EXCEPT ![t] = r],
         UNCHANGED <<connection, last_stable_id, has_connected_once, open, exited, reported>>,
         spawned' \in BOOLEAN,
         writer' = writer \ {t},
         r.pc \notin Locking, r.seen \in reported \cup {NoConn},
         r.pc = "lock_bad" => connection # NoConn /\ r.id \in reported,
         r.pc \in {"open_uni", "write", "report"} => r.id \in StableId
  PROVE  QuicInv'
<1>1. task \in [Task -> TaskRecord] /\ writer \subseteq Task
  BY DEF QuicInv, QuicTypeOK
<1>2. /\ task' \in [Task -> TaskRecord] /\ task'[t] = r
      /\ \A u \in Task : u # t => task'[u] = task[u]
  BY <1>1
<1>3. QuicTypeOK'
  BY <1>2 DEF QuicInv, QuicTypeOK
<1>4. \A u \in Task : u \in writer' <=> task'[u].pc \in Locking
  BY <1>2 DEF QuicInv, Locking
<1>5. \A u \in Task :
       /\ task'[u].seen \in reported \cup {NoConn}
       /\ task'[u].pc = "connecting" => connection = NoConn
       /\ task'[u].pc = "lock_bad" => connection # NoConn /\ task'[u].id \in reported
       /\ task'[u].pc = "reconnecting" => connection = task'[u].id /\ task'[u].id \in reported
       /\ task'[u].pc \in {"open_uni", "write", "report"} => task'[u].id \in StableId
  <2> TAKE u \in Task
  <2>1. CASE u = t
    BY <1>2, <2>1 DEF Locking
  <2>2. CASE u # t
    BY <1>2, <2>2 DEF QuicInv
  <2> QED BY <2>1, <2>2
<1>6. \A u, v \in writer' : u = v
  BY DEF QuicInv
<1>7. last_stable_id' \in reported' \cup {NoConn}
  BY DEF QuicInv
<1> QED BY <1>3, <1>4, <1>5, <1>6, <1>7 DEF QuicInv

\* The records Return, Goto and Got give to a task.
LEMMA TaskMoves ==
  ASSUME QuicInv, NEW t \in Task
  PROVE  /\ Return(t) => task' = [task EXCEPT ![t] = Idle]
         /\ \A pc : Goto(t, pc) => task' = [task EXCEPT ![t] = [task[t] EXCEPT !.pc = pc]]
         /\ \A id : Got(t, id) => \/ task' = [task EXCEPT ![t] = Idle]
                                  \/ task' = [task EXCEPT ![t] =
                                       [task[t] EXCEPT !.pc = "open_uni", !.id = id, !.seen = NoConn]]
         /\ Idle \in TaskRecord /\ Idle.pc = "idle" /\ Idle.seen = NoConn
         /\ task[t] \in TaskRecord
  BY DEF QuicInv, QuicTypeOK, TaskRecord, Return, Goto, Got, Idle

\* Every step keeps the invariant.
LEMMA QuicInvStep == QuicInv /\ [QuicNext]_quicVars => QuicInv'
<1> SUFFICES ASSUME QuicInv, [QuicNext]_quicVars PROVE QuicInv'
  OBVIOUS
<1> USE QuicAssumption
<1>a. \A t \in Task : task[t].pc \notin Locking => writer = writer \ {t}
  BY DEF QuicInv
<1>b. /\ task \in [Task -> TaskRecord] /\ writer \subseteq Task
      /\ connection \in StableId \cup {NoConn} /\ reported \subseteq StableId
  BY DEF QuicInv, QuicTypeOK
<1>1. ASSUME NEW t \in Task, NEW warm \in BOOLEAN, Start(t, warm) PROVE QuicInv'
  <2> DEFINE r == [pc |-> "read", seen |-> last_stable_id, id |-> NoConn,
                   warm |-> warm, exit |-> FALSE]
  <2>1. r \in TaskRecord
    BY DEF QuicInv, QuicTypeOK, TaskRecord
  <2>2. r.pc = "read" /\ r.seen \in reported \cup {NoConn}
    BY DEF QuicInv
  <2>3. task' = [task EXCEPT ![t] = r] /\ writer' = writer \ {t}
    BY <1>1, <1>a DEF Start, Locking
  <2> HIDE DEF r
  <2> QED BY <1>1, <2>1, <2>2, <2>3, QuicInvTask DEF Start, Locking
<1>2. ASSUME NEW t \in Task, ReadConnection(t) PROVE QuicInv'
  <2>1. writer' = writer \ {t}
    BY <1>2, <1>a DEF ReadConnection, Locking
  <2>2. spawned' \in BOOLEAN
    BY <1>2 DEF ReadConnection, QuicInv, QuicTypeOK
  <2>3. CASE connection = NoConn
    <3> DEFINE r == [task[t] EXCEPT !.pc = "lock_none"]
    <3>1. task' = [task EXCEPT ![t] = r]
      BY <1>2, <2>3, TaskMoves DEF ReadConnection
    <3>2. r \in TaskRecord /\ r.pc = "lock_none" /\ r.seen \in reported \cup {NoConn}
      BY <1>b DEF TaskRecord, QuicInv
    <3> HIDE DEF r
    <3> QED BY <1>2, <2>1, <2>2, <3>1, <3>2, QuicInvTask DEF ReadConnection, Locking
  <2>4. CASE connection # NoConn /\ connection = task[t].seen
    <3> DEFINE r == [task[t] EXCEPT !.pc = "lock_bad", !.id = connection]
    <3>1. task' = [task EXCEPT ![t] = r]
      BY <1>2, <2>4, <1>b DEF ReadConnection, TaskRecord
    <3>2. /\ r \in TaskRecord /\ r.pc = "lock_bad" /\ r.seen \in reported \cup {NoConn}
          /\ r.id \in reported
      <4>1. task[t].seen \in reported \cup {NoConn} /\ task[t] \in TaskRecord
        BY <1>b DEF QuicInv
      <4>2. connection \in reported /\ connection \in StableId
        BY <1>b, <2>4, <4>1
      <4> QED BY <4>1, <4>2 DEF TaskRecord
    <3> HIDE DEF r
    <3> QED BY <1>2, <2>1, <2>2, <2>4, <3>1, <3>2, QuicInvTask DEF ReadConnection, Locking
  <2>5. CASE connection # NoConn /\ connection # task[t].seen
    <3> DEFINE r == [task[t] EXCEPT !.pc = "open_uni", !.id = connection, !.seen = NoConn]
    <3>1. task' = [task EXCEPT ![t] = r] \/ task' = [task EXCEPT ![t] = Idle]
      BY <1>2, <2>5, TaskMoves DEF ReadConnection
    <3>2. /\ r \in TaskRecord /\ r.pc = "open_uni" /\ r.seen = NoConn
          /\ r.id \in StableId
      BY <1>b, <2>5 DEF TaskRecord
    <3> HIDE DEF r
    <3> QED BY <1>2, <2>1, <2>2, <3>1, <3>2, QuicInvTask, TaskMoves DEF ReadConnection, Locking
  <2> QED BY <2>3, <2>4, <2>5
<1>3. ASSUME NEW t \in Task, NEW pc \in {"lock_bad", "lock_none"}, NEW done \in BOOLEAN,
             Lock(t, pc, done, IF pc = "lock_bad" THEN "reconnecting" ELSE "connecting"),
             pc = "lock_bad" => done = (connection # task[t].id),
             pc = "lock_none" => done = (connection # NoConn)
      PROVE  QuicInv'
  <2>1. CASE done
    <3>1. connection \in StableId
      BY <1>3, <1>b, <2>1 DEF Lock, QuicInv
    <3> DEFINE r == [task[t] EXCEPT !.pc = "open_uni", !.id = connection, !.seen = NoConn]
    <3>2. task' = [task EXCEPT ![t] = r] \/ task' = [task EXCEPT ![t] = Idle]
      BY <1>3, <2>1, TaskMoves DEF Lock
    <3>3. /\ r \in TaskRecord /\ r.pc = "open_uni" /\ r.seen = NoConn
          /\ r.id \in StableId
      BY <1>b, <3>1 DEF TaskRecord
    <3>4. writer' = writer \ {t} /\ spawned' \in BOOLEAN
      BY <1>3, <1>a, <2>1 DEF Lock, Locking, QuicInv, QuicTypeOK
    <3> HIDE DEF r
    <3> QED BY <1>3, <3>2, <3>3, <3>4, QuicInvTask, TaskMoves DEF Lock, Locking
  <2>2. CASE ~done
    <3> DEFINE next == IF pc = "lock_bad" THEN "reconnecting" ELSE "connecting"
               r == [task[t] EXCEPT !.pc = next]
    <3>1. task' = [task EXCEPT ![t] = r] /\ writer' = {t} /\ writer = {}
      BY <1>3, <2>2, TaskMoves DEF Lock
    <3>2. /\ r \in TaskRecord /\ r.pc = next /\ r.seen = task[t].seen /\ r.id = task[t].id
      BY <1>b DEF TaskRecord
    <3>3. /\ task' \in [Task -> TaskRecord] /\ task'[t] = r
          /\ \A u \in Task : u # t => task'[u] = task[u] /\ task[u].pc \notin Locking
      BY <1>b, <3>1, <3>2 DEF QuicInv
    <3>4. UNCHANGED <<connection, last_stable_id, has_connected_once, open, spawned, exited,
                      reported>>
      BY <1>3 DEF Lock
    <3>5. QuicTypeOK'
      BY <3>1, <3>3, <3>4 DEF QuicInv, QuicTypeOK
    <3>6. /\ task[t].pc = pc
          /\ pc = "lock_bad" => connection = task[t].id /\ task[t].id \in reported
          /\ pc = "lock_none" => connection = NoConn
      BY <1>3, <2>2 DEF Lock, QuicInv
    <3>7. \A u \in Task :
           /\ task'[u].seen \in reported \cup {NoConn}
           /\ task'[u].pc = "connecting" => connection = NoConn
           /\ task'[u].pc = "lock_bad" => connection # NoConn /\ task'[u].id \in reported
           /\ task'[u].pc = "reconnecting" => connection = task'[u].id /\ task'[u].id \in reported
           /\ task'[u].pc \in {"open_uni", "write", "report"} => task'[u].id \in StableId
      <4> TAKE u \in Task
      <4> HIDE DEF r
      <4>1. CASE u = t
        BY <3>2, <3>3, <3>6, <4>1 DEF QuicInv
      <4>2. CASE u # t
        BY <3>3, <4>2 DEF QuicInv
      <4> QED BY <4>1, <4>2
    <3>8. \A u \in Task : u \in writer' <=> task'[u].pc \in Locking
      <4> HIDE DEF r
      <4> QED BY <3>1, <3>2, <3>3 DEF Locking
    <3>9. /\ \A u, v \in writer' : u = v
          /\ last_stable_id' \in reported' \cup {NoConn}
      BY <3>1, <3>4 DEF QuicInv
    <3> QED BY <3>4, <3>5, <3>7, <3>8, <3>9 DEF QuicInv
  <2> QED BY <2>1, <2>2
<1>4. ASSUME NEW t \in Task, LockBad(t) \/ LockNone(t) PROVE QuicInv'
  BY <1>3, <1>4 DEF LockBad, LockNone
<1>5. ASSUME NEW t \in Task, ConnectOk(t) PROVE QuicInv'
  <2>1. PICK id \in StableId : connection' = id /\ open' = open \cup {id} /\ Got(t, id)
    BY <1>5 DEF ConnectOk
  <2>2. \A u \in Task : u # t => task[u].pc \notin Locking
    BY <1>5 DEF ConnectOk, QuicInv
  <2> DEFINE r == [task[t] EXCEPT !.pc = "open_uni", !.id = id, !.seen = NoConn]
  <2>3. task' = [task EXCEPT ![t] = r] \/ task' = [task EXCEPT ![t] = Idle]
    BY <2>1, TaskMoves
  <2>4. /\ r \in TaskRecord /\ r.pc = "open_uni" /\ r.seen = NoConn
        /\ r.id \in StableId
    BY <1>b, <2>1 DEF TaskRecord
  <2> HIDE DEF r
  <2>5. /\ task' \in [Task -> TaskRecord]
        /\ task'[t].pc \in {"open_uni", "idle"} /\ task'[t].seen = NoConn
        /\ task'[t].pc = "open_uni" => task'[t].id \in StableId
        /\ \A u \in Task : u # t => task'[u] = task[u]
    BY <1>b, <2>3, <2>4, TaskMoves
  <2>6. writer' = {} /\ has_connected_once' \in BOOLEAN
    BY <1>5, <1>b, <2>2 DEF ConnectOk, QuicInv, QuicTypeOK
  <2>7. QuicTypeOK'
    BY <1>5, <2>1, <2>5, <2>6 DEF ConnectOk, QuicInv, QuicTypeOK
  <2>8. \A u \in Task :
         /\ task'[u].seen \in reported \cup {NoConn}
         /\ task'[u].pc \notin Locking
         /\ task'[u].pc = "lock_bad" => connection' # NoConn /\ task'[u].id \in reported
         /\ task'[u].pc \in {"open_uni", "write", "report"} => task'[u].id \in StableId
    <3> TAKE u \in Task
    <3>1. CASE u = t
      BY <2>5, <3>1 DEF Locking
    <3>2. CASE u # t
      BY <2>1, <2>2, <2>5, <3>2 DEF QuicInv
    <3> QED BY <3>1, <3>2
  <2> QED BY <1>5, <2>6, <2>7, <2>8 DEF ConnectOk, QuicInv, Locking
<1>6. ASSUME NEW t \in Task, ConnectFail(t) PROVE QuicInv'
  <2>1. connection' = connection
    BY <1>6 DEF ConnectFail, QuicInv
  <2>2. /\ task' \in [Task -> TaskRecord]
        /\ task'[t].pc = "idle" /\ task'[t].seen = NoConn
        /\ \A u \in Task : u # t => task'[u] = task[u]
    BY <1>6, <1>b, TaskMoves DEF ConnectFail
  <2>3. QuicTypeOK'
    BY <1>6, <2>1, <2>2 DEF ConnectFail, QuicInv, QuicTypeOK
  <2>4. \A u \in Task :
         /\ task'[u].seen \in reported \cup {NoConn}
         /\ u \in writer' <=> task'[u].pc \in Locking
         /\ task'[u].pc = "connecting" => connection = NoConn
         /\ task'[u].pc = "lock_bad" => connection # NoConn /\ task'[u].id \in reported
         /\ task'[u].pc = "reconnecting" => connection = task'[u].id /\ task'[u].id \in reported
         /\ task'[u].pc \in {"open_uni", "write", "report"} => task'[u].id \in StableId
    <3> TAKE u \in Task
    <3>1. CASE u = t
      BY <1>6, <2>2, <3>1 DEF ConnectFail, Locking
    <3>2. CASE u # t
      BY <1>6, <2>2, <3>2 DEF ConnectFail, QuicInv
    <3> QED BY <3>1, <3>2
  <2> QED BY <1>6, <2>1, <2>3, <2>4 DEF ConnectFail, QuicInv
<1>7. ASSUME NEW t \in Task, OpenUni(t) \/ WriteAll(t) PROVE QuicInv'
  <2> DEFINE r(pc) == [task[t] EXCEPT !.pc = pc]
  <2>1. \/ task' = [task EXCEPT ![t] = Idle]
        \/ \E pc \in {"write", "report"} : task' = [task EXCEPT ![t] = r(pc)]
    BY <1>7, TaskMoves DEF OpenUni, WriteAll
  <2>2. \A pc \in {"write", "report"} :
          /\ r(pc) \in TaskRecord /\ r(pc).pc = pc
          /\ r(pc).seen \in reported \cup {NoConn} /\ r(pc).id \in StableId
    BY <1>7, <1>b DEF OpenUni, WriteAll, TaskRecord, QuicInv
  <2> HIDE DEF r
  <2>3. /\ writer' = writer \ {t} /\ spawned' \in BOOLEAN
        /\ UNCHANGED <<connection, last_stable_id, has_connected_once, open, exited, reported>>
    BY <1>7, <1>a DEF OpenUni, WriteAll, Locking, QuicInv, QuicTypeOK
  <2>4. CASE task' = [task EXCEPT ![t] = Idle]
    BY <2>3, <2>4, QuicInvTask, TaskMoves DEF Locking
  <2>5. CASE \E pc \in {"write", "report"} : task' = [task EXCEPT ![t] = r(pc)]
    BY <2>2, <2>3, <2>5, QuicInvTask DEF Locking
  <2> QED BY <2>1, <2>4, <2>5
<1>8. ASSUME NEW t \in Task, Report(t) PROVE QuicInv'
  <2>1. /\ task' \in [Task -> TaskRecord]
        /\ task'[t].pc = "idle" /\ task'[t].seen = NoConn
        /\ \A u \in Task : u # t => task'[u] = task[u]
    BY <1>8, <1>b, TaskMoves DEF Report
  <2>2. task[t].id \in StableId /\ t \notin writer
    BY <1>8 DEF Report, QuicInv, Locking
  <2>3. QuicTypeOK'
    BY <1>8, <2>1, <2>2 DEF Report, QuicInv, QuicTypeOK
  <2>4. \A u \in Task :
         /\ task'[u].seen \in reported' \cup {NoConn}
         /\ u \in writer' <=> task'[u].pc \in Locking
         /\ task'[u].pc = "connecting" => connection = NoConn
         /\ task'[u].pc = "lock_bad" => connection # NoConn /\ task'[u].id \in reported'
         /\ task'[u].pc = "reconnecting" => connection = task'[u].id /\ task'[u].id \in reported'
         /\ task'[u].pc \in {"open_uni", "write", "report"} => task'[u].id \in StableId
    <3> TAKE u \in Task
    <3>1. CASE u = t
      BY <1>8, <2>1, <2>2, <3>1 DEF Report, Locking
    <3>2. CASE u # t
      BY <1>8, <2>1, <3>2 DEF Report, QuicInv
    <3> QED BY <3>1, <3>2
  <2> QED BY <1>8, <2>3, <2>4 DEF Report, QuicInv
<1>9. ASSUME NEW t \in Task, Cancel(t) PROVE QuicInv'
  <2>1. /\ task' = [task EXCEPT ![t] = Idle] /\ writer' = writer \ {t} /\ spawned' \in BOOLEAN
        /\ UNCHANGED <<connection, last_stable_id, has_connected_once, open, exited, reported>>
    BY <1>9, TaskMoves DEF Cancel, QuicInv, QuicTypeOK
  <2> QED BY <2>1, QuicInvTask, TaskMoves DEF Locking
<1>10. CASE ExitSent
  <2>1. \A t \in Task : task'[t] = [task[t] EXCEPT !.exit = (task[t].pc # "idle")]
    BY <1>10 DEF ExitSent
  <2>2. \A t \in Task : /\ task'[t] \in TaskRecord /\ task'[t].pc = task[t].pc
                        /\ task'[t].seen = task[t].seen /\ task'[t].id = task[t].id
    <3> TAKE t \in Task
    <3>1. (task[t].pc # "idle") \in BOOLEAN /\ task[t] \in TaskRecord
      BY <1>b
    <3>2. ASSUME NEW r \in TaskRecord, NEW e \in BOOLEAN
          PROVE  /\ [r EXCEPT !.exit = e] \in TaskRecord /\ [r EXCEPT !.exit = e].pc = r.pc
                 /\ [r EXCEPT !.exit = e].seen = r.seen /\ [r EXCEPT !.exit = e].id = r.id
      BY DEF TaskRecord
    <3> QED BY <2>1, <3>1, <3>2
  <2>3. task' \in [Task -> TaskRecord]
    BY <1>10, <2>2 DEF ExitSent
  <2>4. QuicTypeOK'
    BY <1>10, <2>3 DEF ExitSent, QuicInv, QuicTypeOK
  <2> QED BY <1>10, <2>2, <2>4 DEF ExitSent, QuicInv
<1>11. CASE Close \/ \E id \in StableId : ConnectionLost(id)
  BY <1>11 DEF Close, ConnectionLost, QuicInv, QuicTypeOK
<1>12. CASE UNCHANGED quicVars
  BY <1>12 DEF quicVars, QuicInv, QuicTypeOK
<1> QED
  BY <1>1, <1>2, <1>4, <1>5, <1>6, <1>7, <1>8, <1>9, <1>10, <1>11, <1>12
  DEF QuicNext, Step

\* get_connection (services/src/quic_connection.rs): only one task connects at a
\* time, the expect on the connection behind the write lock never panics, and a
\* connection is not replaced twice for the same error.
THEOREM QuicLocking ==
  QuicSpec => [](QuicTypeOK /\ OneTaskConnects /\ NeverNoneAgain /\ ReconnectsWhatItSaw)
<1>1. QuicSpec => []QuicInv
  BY QuicInvInit, QuicInvStep, PTL DEF QuicSpec
<1> QED BY <1>1, QuicInvImplies, PTL

\* get_connection gives an established connection up only for a new one, and
\* only when a task met an error on it.
THEOREM QuicReplaces == QuicSpec => ReplacedOnlyIfReported
<1>1. QuicSpec => []QuicInv
  BY QuicInvInit, QuicInvStep, PTL DEF QuicSpec
<1>2. QuicInv /\ [QuicNext]_quicVars =>
        [connection # NoConn /\ connection' # connection
           => connection \in reported /\ connection' \in open']_quicVars
  <2> SUFFICES ASSUME QuicInv, QuicNext, connection # NoConn, connection' # connection
               PROVE  connection \in reported /\ connection' \in open'
    BY DEF quicVars
  <2>1. PICK t \in Task : ConnectOk(t) \/ ConnectFail(t)
    BY DEF QuicNext, Step, Start, ReadConnection, LockBad, LockNone, Lock, OpenUni, WriteAll,
           Report, Cancel, ExitSent, Close, ConnectionLost
  <2>2. task[t].pc = "reconnecting"
    BY <2>1 DEF ConnectOk, ConnectFail, QuicInv, Locking
  <2>3. connection \in reported
    BY <2>2 DEF QuicInv
  <2>4. connection' \in open'
    BY <2>1, <2>2 DEF ConnectOk, ConnectFail
  <2> QED BY <2>3, <2>4
<1> QED BY <1>1, <1>2, PTL DEF QuicSpec, ReplacedOnlyIfReported
=============================================================================
