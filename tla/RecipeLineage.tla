---------------------------- MODULE RecipeLineage ----------------------------
(***************************************************************************)
(* The recipes of one plan over time: runs of the executor author them and *)
(* apply them, and the operator has failing ones authored again            *)
(* (reauthor_recipe in commands.rs and recipe_author.rs), which adds a row *)
(* of the same dedup_key that points to the row it came from.  Runs follow *)
(* one another here (FetchExecutor has those that overlap); re-authorings  *)
(* overlap with each other and with the run.  Rows are never changed or    *)
(* deleted, so what a call has read of a row stays true; what it knows of  *)
(* the table does not.                                                     *)
(***************************************************************************)
EXTENDS Integers, Sequences, FiniteSets

CONSTANTS
  Keys,         \* the dedup keys the plan calls for
  Calls,        \* windows in which reauthor_recipe may be called, one call at a time
  MaxDepth,     \* MAX_RECIPE_LINEAGE_DEPTH
  MaxRecipes,   \* bound on rows
  MaxRuns,      \* bound on runs
  MaxFaults     \* bound on store errors and kills

ASSUME LineageAssumption ==
  /\ MaxDepth \in Nat \ {0} /\ MaxRecipes \in Nat /\ MaxRuns \in Nat /\ MaxFaults \in Nat

VARIABLES
  recipes,    \* the rows of the table, in the order of their inserts; an id is a position
  attempts,   \* recipe_fetch_attempts
  runs,       \* runs started so far
  run,        \* the locals of the run under way
  call,       \* the locals of each re-authoring
  faults,     \* store errors and kills so far
  crossed     \* keys re-authored from an old row, or twice at once

vars == <<recipes, attempts, runs, run, call, faults, crossed>>

None == 0

NoRun  == [pc |-> "idle", keys |-> {}, todo |-> {}]
NoCall == [pc |-> "idle", prior |-> None, override |-> FALSE]

Init ==
  /\ recipes = << >>
  /\ attempts = {}
  /\ runs = 0
  /\ run = NoRun
  /\ call = [c \in Calls |-> NoCall]
  /\ faults = 0
  /\ crossed = {}

Become(c, r) == call' = [call EXCEPT ![c] = r]

NewestOf(ids) == {i \in ids : \A j \in ids : j <= i}

RowsOf(k) == {i \in DOMAIN recipes : recipes[i].key = k}

-----------------------------------------------------------------------------
(***************************************************************************)
(* A run takes all the rows there are, newest first, or authors one recipe *)
(* per key, with any number of failures, when there are none.              *)
(***************************************************************************)

load_or_author_recipes ==
  /\ run.pc = "idle" /\ runs < MaxRuns
  /\ runs' = runs + 1
  /\ run' = IF recipes = << >> THEN [pc |-> "author", keys |-> Keys, todo |-> {}]
            ELSE [pc |-> "apply", keys |-> {}, todo |-> DOMAIN recipes]
  /\ UNCHANGED <<recipes, attempts, call, faults, crossed>>

\* An authored recipe is saved as it resolves; a key may be declined or fail.
author_recipe ==
  /\ run.pc = "author"
  /\ \E k \in run.keys :
       LET rest == run.keys \ {k}
           pc   == IF rest = {} THEN "apply" ELSE "author"
       IN  \/ /\ run' = [run EXCEPT !.pc = pc, !.keys = rest]
              /\ UNCHANGED recipes
           \/ /\ Len(recipes) < MaxRecipes
              /\ recipes' = Append(recipes, [key |-> k, version |-> 1, prior |-> None])
              /\ run' = [run EXCEPT !.pc = pc, !.keys = rest, !.todo = @ \cup {Len(recipes) + 1}]
  /\ UNCHANGED <<attempts, runs, call, faults, crossed>>

(***************************************************************************)
(* Of what a recipe may come to, only a failing application leaves a row   *)
(* among the attempts (record_apply_failure_attempt); a failing insert of  *)
(* that row is logged.  A recipe that could not be fetched leaves nothing. *)
(***************************************************************************)
apply_failed(id) ==
  \/ /\ attempts' = attempts \cup {[recipe |-> id, run |-> runs, succeeded |-> FALSE]}
     /\ UNCHANGED faults
  \/ /\ faults < MaxFaults
     /\ faults' = faults + 1
     /\ UNCHANGED attempts

run_one_recipe ==
  /\ run.pc = "apply" /\ run.todo # {}
  /\ \E id \in NewestOf(run.todo) :
       /\ run' = [run EXCEPT !.todo = @ \ {id}]
       /\ UNCHANGED <<attempts, faults>> \/ apply_failed(id)
  /\ UNCHANGED <<recipes, runs, call, crossed>>

close_run ==
  /\ run.pc = "apply" /\ run.todo = {}
  /\ run' = NoRun
  /\ UNCHANGED <<recipes, attempts, runs, call, faults, crossed>>

-----------------------------------------------------------------------------
(***************************************************************************)
(* reauthor_recipe.  The panel lists the rows of every version, and offers *)
(* to author any of them again.                                            *)
(***************************************************************************)
InFlight(k) == {c \in Calls : call[c].pc # "idle" /\ recipes[call[c].prior].key = k}

\* The recipe and its plan are read; the failure message may come with the call.
load_recipe(c) ==
  /\ call[c].pc = "idle"
  /\ \E id \in DOMAIN recipes, override \in BOOLEAN :
       LET k == recipes[id].key
       IN  /\ Become(c, [pc |-> "evidence", prior |-> id, override |-> override])
           /\ crossed' = IF id \in NewestOf(RowsOf(k)) /\ InFlight(k) = {} THEN crossed
                         ELSE crossed \cup {k}
  /\ UNCHANGED <<recipes, attempts, runs, run, faults>>

AttemptsOf(id) == {a \in attempts : a.recipe = id}

\* ORDER BY attempted_at DESC LIMIT 1
Latest(id) == CHOOSE a \in AttemptsOf(id) : \A b \in AttemptsOf(id) : b.run <= a.run

\* What is captured wins over what the call brings; without either the call is refused.
latest_attempt_for_recipe(c) ==
  LET id == call[c].prior
  IN  /\ call[c].pc = "evidence"
      /\ \/ /\ AttemptsOf(id) # {} /\ ~Latest(id).succeeded
            /\ Become(c, [call[c] EXCEPT !.pc = "llm"])
         \/ /\ AttemptsOf(id) = {} /\ call[c].override
            /\ Become(c, [call[c] EXCEPT !.pc = "llm"])
         \/ /\ AttemptsOf(id) # {} /\ Latest(id).succeeded
            /\ Become(c, NoCall)
         \/ /\ AttemptsOf(id) = {} /\ ~call[c].override
            /\ Become(c, NoCall)
      /\ UNCHANGED <<recipes, attempts, runs, run, faults, crossed>>

\* The LLM gives a recipe, declines, or fails; the last two end the call.
reauthor_recipe(c) ==
  /\ call[c].pc = "llm"
  /\ \/ Become(c, [call[c] EXCEPT !.pc = "save"])
     \/ Become(c, NoCall)
  /\ UNCHANGED <<recipes, attempts, runs, run, faults, crossed>>

\* Mutant: the version of the recipe that was read is kept.
save_same_version(c) ==
  /\ call[c].pc = "save" /\ Len(recipes) < MaxRecipes
  /\ recipes' = Append(recipes, [recipes[call[c].prior] EXCEPT !.prior = call[c].prior])
  /\ Become(c, NoCall)
  /\ UNCHANGED <<attempts, runs, run, faults, crossed>>

\* Mutant: the new row points to where its prior points.
save_inherits_prior(c) ==
  /\ call[c].pc = "save" /\ Len(recipes) < MaxRecipes
  /\ recipes' = Append(recipes, [recipes[call[c].prior] EXCEPT !.version = @ + 1])
  /\ Become(c, NoCall)
  /\ UNCHANGED <<attempts, runs, run, faults, crossed>>

\* A plain INSERT of a row made from the one that was read, then read back.
save_recipe(c) ==
  /\ call[c].pc = "save" /\ Len(recipes) < MaxRecipes
  /\ recipes' = Append(recipes, [recipes[call[c].prior] EXCEPT !.version = @ + 1,
                                                              !.prior = call[c].prior])
  /\ Become(c, NoCall)
  /\ UNCHANGED <<attempts, runs, run, faults, crossed>>

\* A failing store call ends a re-authoring.
StoreError(c) ==
  /\ call[c].pc \in {"evidence", "save"} /\ faults < MaxFaults
  /\ faults' = faults + 1
  /\ Become(c, NoCall)
  /\ UNCHANGED <<recipes, attempts, runs, run, crossed>>

Kill ==
  /\ faults < MaxFaults
  /\ run.pc # "idle" \/ \E c \in Calls : call[c].pc # "idle"
  /\ faults' = faults + 1
  /\ run' = NoRun
  /\ call' = [c \in Calls |-> NoCall]
  /\ UNCHANGED <<recipes, attempts, runs, crossed>>

Next ==
  \/ load_or_author_recipes \/ author_recipe \/ run_one_recipe \/ close_run
  \/ \E c \in Calls :
       \/ load_recipe(c) \/ latest_attempt_for_recipe(c) \/ reauthor_recipe(c)
       \/ save_recipe(c) \/ StoreError(c)
  \/ Kill

Spec == Init /\ [][Next]_vars

-----------------------------------------------------------------------------
(***************************************************************************)
(* What is read of the tables.                                             *)
(***************************************************************************)

\* The walk of recipe_lineage: the row, then its prior, up to the cap.
cursor(id) ==
  LET at[n \in 0..MaxDepth] ==
        IF n = 0 THEN id ELSE IF at[n - 1] = None THEN None ELSE recipes[at[n - 1]].prior
  IN  at

TooDeep == << None >>

recipe_lineage(id) ==
  LET at == cursor(id)
  IN  IF at[MaxDepth] # None THEN TooDeep
      ELSE LET length == Cardinality({n \in 0..MaxDepth : at[n] # None})
           IN  [n \in 1..length |-> at[n - 1]]

\* ORDER BY version DESC LIMIT 1
get_recipe_by_dedup_key(k) ==
  {i \in RowsOf(k) : \A j \in RowsOf(k) : recipes[j].version <= recipes[i].version}

-----------------------------------------------------------------------------
(***************************************************************************)
(* Properties                                                              *)
(***************************************************************************)
Ids == DOMAIN recipes

\* The tables and locals have their types, and no id in them is without its row.
TypeOK ==
  /\ recipes \in Seq([key : Keys, version : Nat \ {0}, prior : Nat])
  /\ attempts \subseteq [recipe : Ids, run : 0..runs, succeeded : BOOLEAN]
  /\ runs \in 0..MaxRuns
  /\ run \in [pc : {"idle", "author", "apply"}, keys : SUBSET Keys, todo : SUBSET Ids]
  /\ call \in [Calls -> [pc : {"idle", "evidence", "llm", "save"}, prior : Nat, override : BOOLEAN]]
  /\ \A c \in Calls : call[c].pc # "idle" => call[c].prior \in Ids
  /\ faults \in 0..MaxFaults
  /\ crossed \subseteq Keys

\* recipes.rs and recipe_author.rs: whatever the order in which re-authorings
\* are saved, the chain of any row leads, one version at a time and within one
\* dedup_key, to a first version, and the walk finds it unless it passes the cap.
LineageReadable ==
  \A id \in Ids :
    LET chain == recipe_lineage(id)
    IN  IF recipes[id].version > MaxDepth THEN chain = TooDeep
        ELSE /\ Len(chain) = recipes[id].version
             /\ \A n \in DOMAIN chain :
                  /\ recipes[chain[n]].key = recipes[id].key
                  /\ recipes[chain[n]].version = recipes[id].version + 1 - n

\* commands.rs: "The new row becomes the highest-version recipe for the same
\* dedup_key", as long as only the newest row of a key is authored again and one
\* re-authoring of it ends before the next begins: then the row of the highest
\* version is one row, and the one inserted last.
NewestIsHighestInTurn ==
  \A k \in Keys \ crossed :
    get_recipe_by_dedup_key(k) = NewestOf(RowsOf(k))
=============================================================================
