---------------------------- MODULE SingleFlight -----------------------------
(* What accounts on demand promise to their readers and to the cluster: a key is loaded by one
   caller and only once, whoever asks for it meanwhile waits for that load at most, and none
   asks for it again afterwards.                                                              *)
CONSTANTS Caller, Key

VARIABLES
  phase,     \* of a key: "new", "loading" or "done"
  loading,   \* <<caller, key>>: the caller loads the key
  waiting    \* <<caller, key>>: the caller waits for the load of another one

flightVars == <<phase, loading, waiting>>

FlightInit == phase = [k \in Key |-> "new"] /\ loading = {} /\ waiting = {}

Free(c) == \A k \in Key : <<c, k>> \notin loading /\ <<c, k>> \notin waiting

Begin(c, k) ==
  /\ Free(c) /\ phase[k] = "new"
  /\ phase' = [phase EXCEPT ![k] = "loading"]
  /\ loading' = loading \cup {<<c, k>>}
  /\ UNCHANGED waiting

Join(c, k) ==
  /\ Free(c) /\ phase[k] = "loading"
  /\ waiting' = waiting \cup {<<c, k>>}
  /\ UNCHANGED <<phase, loading>>

\* The load ends, with or without a result
Finish(c, k) ==
  /\ <<c, k>> \in loading /\ phase[k] = "loading"
  /\ phase' = [phase EXCEPT ![k] = "done"]
  /\ loading' = loading \ {<<c, k>>}
  /\ UNCHANGED waiting

\* Callers are woken, or do not want to wait any longer
Leave == waiting' \subseteq waiting /\ UNCHANGED <<phase, loading>>

FlightNext == Leave \/ \E c \in Caller, k \in Key : Begin(c, k) \/ Join(c, k) \/ Finish(c, k)

FlightSpec == FlightInit /\ [][FlightNext]_flightVars
=============================================================================
