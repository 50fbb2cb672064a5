-------------------------- MODULE MCFetchExecutor --------------------------
(***************************************************************************)
(* Small instances of FetchExecutor for TLC.                               *)
(***************************************************************************)
EXTENDS FetchExecutor, TLC

CONSTANTS n1, n2, t1, t2, r1, r2, leg

MCMode == [t \in Targets |-> IF t = t1 THEN "css" ELSE "csv"]

Symmetry == Permutations(Nominations)
=============================================================================
