--------------------------- MODULE MCSnmpEngine ---------------------------
(* Model values and symmetry for SnmpEngine, and sessions whose requests   *)
(* are all completed before they are destroyed.                            *)
EXTENDS SnmpEngine, TLC

Symmetry == Permutations(Sessions) \cup Permutations(Requests)

LiveNext == Work \/ \E s \in Sessions : Own(s) = {} /\ Destroy(s)
LiveSpec == Init /\ [][LiveNext]_vars /\ Fairness
=============================================================================
