----------------------------- MODULE MCPromote ------------------------------
(***************************************************************************)
(* Small instances for TLC of the passes over assertions, Promote, and of  *)
(* the history the panel shows of them, BoundedHistory.  The two share no  *)
(* state, so a behaviour is one of the one or one of the other.            *)
(***************************************************************************)
EXTENDS Promote, ShownHistory, TLC

CONSTANTS A, B, c1, usgs, reuters

Ev(plan, c, who, k) == [plan |-> plan, claim |-> c, claimant |-> who, n |-> k]

\* In plan A two claimants make c1, one of them twice; plan B holds c1 again.
Documents ==
  {Ev(A, c1, usgs, 1), Ev(A, c1, usgs, 2), Ev(A, c1, reuters, 1), Ev(B, c1, usgs, 1)}

Entry(who, cs, q) == [claimant |-> who, claims |-> cs, consensus_quorum |-> q]

\* The bar for what reuters claims is lowered; usgs is an authority, or not.
TwoRegistries ==
  {{Entry(reuters, {c1}, 2)}, {Entry(usgs, {c1}, 0), Entry(reuters, {c1}, 2)}}

VARIABLE part  \* "passes" or "history"

history == <<clock, entries, disk, ring, history_call, recent, history_faults>>

ASSUME HistoryIsAsProved == History!HistoryAssumption

PromotionInit == part \in {"passes", "history"} /\ Init /\ History!Init

PromotionNext ==
  \/ part = "passes" /\ Next /\ UNCHANGED <<part, history>>
  \/ part = "history" /\ History!Next /\ UNCHANGED <<part, vars>>

PromotionSpec == PromotionInit /\ [][PromotionNext]_<<part, vars, history>>

Interchangeable == Permutations(Passes)
=============================================================================
