--------------------------- MODULE AutoReconnect -----------------------------
(* A connection that is opened again on use (quinn_auto_reconnect.rs, of the QUIC forward
   proxy and, without the shutdown, of lite-rpc).  The state changes under a write
   lock, so a refresh is one step.                                              *)
EXTENDS Naturals

CONSTANT MAX_RETRY_ATTEMPTS
ASSUME RetryAssumption == MAX_RETRY_ATTEMPTS \in Nat \ {0}

NotConnected == <<"NotConnected">>
Connection == <<"Connection">>
PermanentError == <<"PermanentError">>
FailedAttempt(n) == <<"FailedAttempt", n>>
ShuttingDown == <<"ShuttingDown">>

\* What a connection that cannot be established leads to
AfterFailure(state) ==
  IF state[1] # "FailedAttempt" THEN FailedAttempt(1)
  ELSE IF state[2] < MAX_RETRY_ATTEMPTS THEN FailedAttempt(state[2] + 1) ELSE PermanentError

\* refresh: the states it may leave.  A connection may have been closed by the peer since
\* it was used (close_reason), then it is replaced.
Refreshed(state) ==
  IF state \in {PermanentError, ShuttingDown} THEN {state} ELSE {Connection, AfterFailure(state)}
=============================================================================
