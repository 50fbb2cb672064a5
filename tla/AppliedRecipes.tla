--------------------------- MODULE AppliedRecipes ---------------------------
(***************************************************************************)
(* RecipeApplication among the other things that happen to recipes.        *)
(***************************************************************************)
CONSTANTS Drafts, Expectations, Pages, LaterPages, MaxRecords, MaxBindings

VARIABLES draft, status, seen, page, result

Application == INSTANCE RecipeApplication

\* Where the validation of a recipe against bytes and its application agree.
ValidatorAgrees == Application!ValidatorAgrees

\* A saved recipe meets no error that its rules exclude.
StaticErrorsCaught == Application!StaticErrorsCaught

\* What was saved applies to the page it was saved for.
ValidatorCannotDisagree == Application!ValidatorCannotDisagree
=============================================================================
