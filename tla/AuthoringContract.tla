------------------------- MODULE AuthoringContract -------------------------
(***************************************************************************)
(* What authoring the recipes of one nomination may come to.  FetchExecutor*)
(* takes these results for granted; AuthorNomination produces them.        *)
(***************************************************************************)

CONSTANTS
  Targets,  \* the expectations author_for_nomination authors for
  Whole     \* the target of a decline that is about the whole nomination

(***************************************************************************)
(* Some targets authored and every other one declined, with a nomination-  *)
(* level reason as well only if some target is left; or nothing authored   *)
(* and the nomination-level reason alone.                                  *)
(***************************************************************************)
AuthoredResult ==
  {res \in [authored : SUBSET Targets, declined : SUBSET (Targets \cup {Whole})] :
     IF res.authored = {}
       THEN res.declined = {Whole}
       ELSE /\ res.declined \ {Whole} = Targets \ res.authored
            /\ Whole \in res.declined => res.authored # Targets}
=============================================================================
