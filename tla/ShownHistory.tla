---------------------------- MODULE ShownHistory ----------------------------
(***************************************************************************)
(* BoundedHistory among the other parts of the panel: its calls, their     *)
(* locals and its faults have names of their own.                          *)
(***************************************************************************)
CONSTANTS HistoryCalls, Cap, MaxEntries, MaxFaults

VARIABLES clock, entries, disk, ring, history_call, recent, history_faults

History ==
  INSTANCE BoundedHistory WITH Calls <- HistoryCalls, call <- history_call, faults <- history_faults

\* The ring and the table of the history hold the entries recorded last.
NewestKeptTwice == History!NewestKeptTwice
=============================================================================
