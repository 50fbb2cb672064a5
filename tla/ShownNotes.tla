----------------------------- MODULE ShownNotes -----------------------------
(***************************************************************************)
(* RecipeFeedback among the other parts of the panel: its calls and their  *)
(* locals have names of their own.                                         *)
(***************************************************************************)
CONSTANTS Sources, Notes, NoNote, FeedbackCalls, MaxErrors

VARIABLES table, shown, feedback_call, errors, doubt

Feedback == INSTANCE RecipeFeedback WITH Calls <- FeedbackCalls, call <- feedback_call

\* The panel shows the note that the table of recipe_feedback holds.
PanelShowsTable == Feedback!PanelShowsTable
=============================================================================
