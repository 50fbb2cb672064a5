--------------------------- MODULE MCPlanEntities ---------------------------
(***************************************************************************)
(* Small instances for TLC of what a decision on a plan does, in the       *)
(* tables of entities and relations (PlanEntities) and in the panel it is  *)
(* taken in (PlanPanel).  A behaviour is one of one of them.               *)
(***************************************************************************)
EXTENDS PlanEntities, ShownPlans, TLC

CONSTANTS p1, p2, e1, e2

VARIABLE part  \* "entities" or "panel"

panel == <<rows, selected, dialog, statusFilter, list, panels, reads, panel_call, clicks, panel_errors, panel_doubt>>

\* A plan of each status, the rejected one with a note.
EarlierPlans ==
  <<[status |-> "accepted", note |-> NoReason, reclassified_from |-> 0],
    [status |-> "pending", note |-> NoReason, reclassified_from |-> 0],
    [status |-> "rejected", note |-> CHOOSE n \in Reasons : TRUE, reclassified_from |-> 0]>>

ASSUME PanelIsAsProved == Panel!PanelAssumption

\* Both plans name e1 as an exemplar; p2 names e2 too, p1 only as the end of a triple.
SharedExemplars == p1 :> <<e1>> @@ p2 :> <<e1, e2>>
SharedTriples == p1 :> << <<e1, e2>> >> @@ p2 :> << >>
Order == p1 :> 1 @@ p2 :> 2

PlansInit == part \in {"entities", "panel"} /\ Init /\ Panel!Init

PlansNext ==
  \/ part = "entities" /\ Next /\ UNCHANGED <<part, panel>>
  \/ part = "panel" /\ Panel!Next /\ UNCHANGED <<part, vars>>

PlansSpec == PlansInit /\ [][PlansNext]_<<part, vars, panel>>

Symmetry == Permutations(Calls)
=============================================================================
