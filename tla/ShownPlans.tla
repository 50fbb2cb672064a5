----------------------------- MODULE ShownPlans -----------------------------
(***************************************************************************)
(* PlanPanel among the other parts of the panel: what a plan is rejected   *)
(* for, the list and what breaks off have names of their own.              *)
(***************************************************************************)
CONSTANTS Reasons, NoReason, PanelCalls, Earlier, MaxPlans, Filters, MaxClicks, MaxPanelErrors

VARIABLES
  rows, selected, dialog, statusFilter, list, panels, reads, panel_call, clicks,
  panel_errors, panel_doubt

Panel ==
  INSTANCE PlanPanel WITH Notes <- Reasons, NoNote <- NoReason, MaxErrors <- MaxPanelErrors,
    recent <- list, call <- panel_call, errors <- panel_errors, doubt <- panel_doubt

\* List, selected plan and panels are those of the tables.
PanelTruthful == Panel!PanelTruthful
=============================================================================
