------------------------ MODULE MCAuthorNomination -------------------------
(***************************************************************************)
(* Small instances of AuthorNomination for TLC.                            *)
(***************************************************************************)
EXTENDS AuthorNomination, TLC

CONSTANTS n1, n2, t1, t2, h1, h2

OneTarget == <<t1>>
TwoTargets == <<t1, t2>>

Symmetry == Permutations(Nominations) \cup Permutations(Hosts)
=============================================================================
