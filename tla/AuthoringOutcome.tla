-------------------------- MODULE AuthoringOutcome --------------------------
(***************************************************************************)
(* The promise author_for_nomination makes to load_or_author_recipes: the  *)
(* future of each nomination resolves at most once, to one of the results  *)
(* of AuthoringContract or to an error.                                    *)
(***************************************************************************)
EXTENDS AuthoringContract

CONSTANTS Nominations

VARIABLE outcome

Pending == [state |-> "pending", value |-> {}]
Failed  == [state |-> "err", value |-> {}]

Init == outcome = [n \in Nominations |-> Pending]

resolve(n) ==
  /\ outcome[n] = Pending
  /\ \/ \E res \in AuthoredResult :
          outcome' = [outcome EXCEPT ![n] = [state |-> "ok", value |-> {res}]]
     \/ outcome' = [outcome EXCEPT ![n] = Failed]

Next == \E n \in Nominations : resolve(n)

Spec == Init /\ [][Next]_outcome
=============================================================================
