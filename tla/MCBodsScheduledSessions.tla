---------------------- MODULE MCBodsScheduledSessions ----------------------
(* BodsScheduledSessions with a window of three snapshots, in which refusals *)
(* may be in a row or not, and one that is too small for a measurement.      *)
EXTENDS BodsScheduledSessions

MCSnapshots == [w \in Windows |-> IF w = 0 THEN 3 ELSE 1]

\* What follows a race for the pid file is not explored: of the invariants only
\* MarkerAccounts says anything there, and that one is proved for every state.
\* The liveness properties are checked for the behaviours without a race.
Unraced == ~ raced
=============================================================================
