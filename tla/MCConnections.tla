--------------------------- MODULE MCConnections ----------------------------
(* Small instances of what is between the TPU service and the wire: the priority heap
   beside its reference, one ActiveConnection and one QuicConnection.  They share no state
   here (ActiveConnection sees of a send task only that it ends), so a behaviour is one of
   the three.
   Three transactions on two fees, valid to three heights, two of which are confirmed at
   times; a heap of two, a channel of one, one permit.
   Two tasks share the QuicConnection, with one id more than they can hold. *)
EXTENDS ActiveConnection, PrioFeeHeapRef, QuicConnection

CONSTANTS a, b, c

MCFee == a :> 1 @@ b :> 1 @@ c :> 2
MCLvbh == a :> 2 @@ b :> 0 @@ c :> 1

VARIABLE part          \* what runs: "heap", "listen" or "quic"
all == <<connVars, refVars, quicVars, part>>

MCInit == ConnInit /\ RefInit /\ QuicInit /\ part \in {"heap", "listen", "quic"}
MCNext ==
  \/ part = "heap" /\ RefNext /\ UNCHANGED <<connVars, quicVars, part>>
  \/ part = "listen" /\ ConnNext /\ c \notin confirmed' /\ UNCHANGED <<refVars, quicVars, part>>
  \/ part = "quic" /\ QuicNext /\ UNCHANGED <<connVars, refVars, part>>

\* The fairness of each module, for the part that runs.
MCFairness ==
  /\ WF_connVars(part = "listen" /\ Filler)
  /\ WF_connVars(part = "listen" /\ Main)
  /\ WF_connVars(part = "listen" /\ SendTaskDone)
  /\ \A t \in Task :
       /\ WF_quicVars(part = "quic" /\ Step(t))
       /\ SF_quicVars(part = "quic" /\ (ReadConnection(t) \/ LockBad(t) \/ LockNone(t)))
  /\ WF_quicVars(part = "quic" /\ \E t \in Task : Start(t, FALSE))

MCSpec == MCInit /\ [][MCNext]_all /\ MCFairness

\* One listener alone
ListenSpec ==
  ConnInit /\ RefInit /\ QuicInit /\ part = "listen" /\ [][MCNext]_all /\ MCFairness
=============================================================================
