------------------------- MODULE MCDocumentExtraction -------------------------
(***************************************************************************)
(* Small instances of DocumentExtraction for TLC: a plan that declares one *)
(* kind of relation and one of entity, nothing for events and              *)
(* observations, and leaves attributes open.                               *)
(***************************************************************************)
EXTENDS DocumentExtraction

SomeDeclared ==
  [e \in {"assertions", "events", "observations", "attributes", "entities"} |->
     IF e \in {"assertions", "entities"} THEN {"known"} ELSE {}]
=============================================================================
