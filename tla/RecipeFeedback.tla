---------------------------- MODULE RecipeFeedback ----------------------------
(***************************************************************************)
(* The operator's notes on the recipes of one plan: the table              *)
(* recipe_feedback, the command set_recipe_feedback, which writes and then *)
(* reads back under a lock each, and the map in the panel, which shows a   *)
(* note before it is stored and takes it back when the command fails       *)
(* (plans.svelte.ts).                                                      *)
(***************************************************************************)
EXTENDS Integers

CONSTANTS
  Sources,    \* source_id of the recipes
  Notes,
  NoNote,     \* no row, nothing shown
  Calls,      \* calls that may be made, each once
  MaxErrors   \* bound on store errors

FeedbackAssumption == NoNote \notin Notes /\ MaxErrors \in Nat

VARIABLES
  table,    \* recipe_feedback
  shown,    \* plans.recipeFeedback
  call,     \* the locals of each call, in the panel and in the command
  errors,   \* store errors so far
  doubt     \* sources whose calls met each other, or an error after the write

vars == <<table, shown, call, errors, doubt>>

Idle == [pc |-> "idle", sources |-> {}, note |-> NoNote, previous |-> NoNote]
Done == [Idle EXCEPT !.pc = "done"]

Init ==
  /\ table = [s \in Sources |-> NoNote]
  /\ shown = table
  /\ call = [c \in Calls |-> Idle]
  /\ errors = 0
  /\ doubt = {}

Become(c, r) == call' = [call EXCEPT ![c] = r]

InFlight(s) == {c \in Calls : s \in call[c].sources}

Starts(c, r) ==
  /\ call[c].pc = "idle"
  /\ Become(c, r)
  /\ doubt' = doubt \cup {s \in r.sources : InFlight(s) # {}}

-----------------------------------------------------------------------------
(***************************************************************************)
(* The panel: the note is shown, or taken away, and the command called.    *)
(***************************************************************************)
flagRecipe(c) ==
  \E s \in Sources, n \in Notes :
    /\ Starts(c, [pc |-> "set", sources |-> {s}, note |-> n, previous |-> shown[s]])
    /\ shown' = [shown EXCEPT ![s] = n]
    /\ UNCHANGED <<table, errors>>

clearRecipeFeedback(c) ==
  \E s \in Sources :
    /\ Starts(c, [pc |-> "clear", sources |-> {s}, note |-> NoNote, previous |-> shown[s]])
    /\ shown' = [shown EXCEPT ![s] = NoNote]
    /\ UNCHANGED <<table, errors>>

The(c) == CHOOSE s \in Sources : call[c].sources = {s}

(***************************************************************************)
(* The command: an upsert and a read, or a delete.                         *)
(***************************************************************************)
set_recipe_feedback(c) ==
  /\ call[c].pc = "set"
  /\ table' = [table EXCEPT ![The(c)] = call[c].note]
  /\ Become(c, [call[c] EXCEPT !.pc = "read"])
  /\ UNCHANGED <<shown, errors, doubt>>

\* A row that is gone is NotFound, which the panel takes for a failure.
recipe_feedback_for_source(c) ==
  /\ call[c].pc = "read"
  /\ Become(c, [call[c] EXCEPT !.pc = IF table[The(c)] = NoNote THEN "failed" ELSE "answered",
                               !.note = table[The(c)]])
  /\ UNCHANGED <<table, shown, errors, doubt>>

\* Mutant: an empty note is stored, not deleted.
clear_keeps_row(c) ==
  /\ call[c].pc = "clear"
  /\ Become(c, Done)
  /\ UNCHANGED <<table, shown, errors, doubt>>

\* The panel has nothing to do when it hears of it.
clear_recipe_feedback(c) ==
  /\ call[c].pc = "clear"
  /\ table' = [table EXCEPT ![The(c)] = NoNote]
  /\ Become(c, Done)
  /\ UNCHANGED <<shown, errors, doubt>>

\* The answer arrives: what is stored is shown, or what was shown before; a note
\* that was not there before is not taken away again by a clear that failed.
answered(c) ==
  /\ call[c].pc \in {"answered", "failed", "clear_failed"}
  /\ shown' = [shown EXCEPT ![The(c)] =
                 IF call[c].pc = "answered" THEN call[c].note
                 ELSE IF call[c].pc = "clear_failed" /\ call[c].previous = NoNote THEN @
                 ELSE call[c].previous]
  /\ Become(c, Done)
  /\ UNCHANGED <<table, errors, doubt>>

\* A store call fails; after the write, panel and table differ.
StoreError(c) ==
  /\ call[c].pc \in {"set", "read", "clear"} /\ errors < MaxErrors
  /\ errors' = errors + 1
  /\ Become(c, [call[c] EXCEPT !.pc = IF @ = "clear" THEN "clear_failed" ELSE "failed"])
  /\ doubt' = IF call[c].pc = "read" THEN doubt \cup call[c].sources ELSE doubt
  /\ UNCHANGED <<table, shown>>

(***************************************************************************)
(* The whole list is read when a plan is opened, and put in place of the   *)
(* map; a list that cannot be read changes nothing.                        *)
(***************************************************************************)
list_recipe_feedback_for_plan(c) ==
  /\ Starts(c, [Idle EXCEPT !.pc = "listed", !.sources = Sources, !.note = table])
  /\ UNCHANGED <<table, shown, errors>>

refreshRecipeFeedback(c) ==
  /\ call[c].pc = "listed"
  /\ shown' = call[c].note
  /\ Become(c, Done)
  /\ doubt' = {s \in Sources : InFlight(s) # {c}} \cup
              {s \in doubt : table[s] # call[c].note[s]}
  /\ UNCHANGED <<table, errors>>

Step(c) ==
  \/ flagRecipe(c) \/ clearRecipeFeedback(c)
  \/ set_recipe_feedback(c) \/ recipe_feedback_for_source(c) \/ clear_recipe_feedback(c)
  \/ answered(c) \/ StoreError(c)
  \/ list_recipe_feedback_for_plan(c) \/ refreshRecipeFeedback(c)

Next == \E c \in Calls : Step(c)

Spec == Init /\ [][Next]_vars

-----------------------------------------------------------------------------
\* plans.svelte.ts and commands.rs: "the wire response always reflects what's
\* actually in the database".  When no call is under way for a recipe, the panel
\* shows the note the table holds, also after a command that failed before its
\* write, unless calls for it met each other or the read after the write failed;
\* a reload of the list repairs that.
PanelShowsTable ==
  \A s \in Sources \ doubt : InFlight(s) = {} => shown[s] = table[s]
=============================================================================
