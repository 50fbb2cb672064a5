--------------------------- MODULE MCHostBackoff ----------------------------
(***************************************************************************)
(* A small instance of HostBackoff for TLC.                                *)
(***************************************************************************)
EXTENDS HostBackoff, TLC

\* A wait that is retried inline, and one above both ceilings, which is surfaced.
ShortAndLong == {1, 5}
=============================================================================
