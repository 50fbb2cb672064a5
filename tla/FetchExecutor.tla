--------------------------- MODULE FetchExecutor ---------------------------
(***************************************************************************)
(* The fetch executor (crates/pipeline/src/fetch_executor.rs) working on   *)
(* one research plan.  A run is one call of run_fetch_for_plan: it opens a *)
(* fetch_runs row, checks that the plan is accepted, loads the plan's      *)
(* recipes or authors them, runs every recipe, writes one outcome row per  *)
(* recipe or decline and closes the run row.  Runs share nothing but the   *)
(* store; each store call is one action, so that another run, an operator  *)
(* decision, a failing store or a killed process can come between any two. *)
(***************************************************************************)
EXTENDS Naturals, FiniteSets, FiniteSetsExt, AuthoringContract

CONSTANTS
  Nominations,  \* DocumentSourceEntry::Nomination entries of the plan
  LegacyIds,    \* preferred_source_ids of its DocumentSourceEntry::Legacy entries
  Mode,         \* the extraction mode of a recipe for a target
  NoRecipe,     \* "no recipe is being run"
  Runs,         \* ids of the runs that may be started
  MaxRecords,   \* bound: most records one recipe extracts
  MaxFaults,    \* bound: most store calls that fail
  Overlap       \* may a run start while another one is in progress?

Modes == {"csv", "json", "css", "regex", "pdf"}

ASSUME ConstantsAssumption ==
  /\ Mode \in [Targets -> Modes]
  /\ Whole \notin Targets
  /\ IsFiniteSet(Nominations) /\ IsFiniteSet(LegacyIds)
  /\ IsFiniteSet(Targets) /\ IsFiniteSet(Runs)
  /\ MaxRecords \in Nat
  /\ MaxFaults \in Nat
  /\ Overlap \in BOOLEAN

(***************************************************************************)
(* Recipe rows.  The id of a row is fresh, so rows that two runs author    *)
(* for the same nomination and target differ; their dedup_key does not.    *)
(***************************************************************************)
Recipe == [nom : Nominations, tgt : Targets, by : Runs]

ASSUME NoRecipeAssumption == NoRecipe \notin Recipe

ASSUME LegacyAssumption == LegacyIds \cap [nom : Nominations, tgt : Targets \cup {Whole}] = {}

dedup_key(r) == <<r.nom, r.tgt>>

Decline == [nom : Nominations, tgt : Targets \cup {Whole}] \cup LegacyIds

Kinds == {"succeeded", "fetch", "apply", "index_page_detected", "insert", "rate_limited"}

RecipeOutcome == [rec : Recipe, kind : Kinds, records : Nat]

FetchRunRow == [state : {"absent", "open", "closed"}, error : BOOLEAN,
                attempted : Nat, succeeded : Nat, records : Nat]

Absent == [state |-> "absent", error |-> FALSE,
           attempted |-> 0, succeeded |-> 0, records |-> 0]

Phases == {"idle", "opened", "prepared", "authoring", "running", "fetched",
           "inserting", "persisting", "closing", "erring", "done", "failed", "killed"}

VARIABLES
  status,       \* research_plans.status of the plan
  recipes,      \* recipes table, the rows of the plan
  fetch_runs,   \* fetch_runs table
  outcome_rows, \* fetch_run_outcomes table: what each run persisted
  stored,       \* number of records each run has inserted
  documents,    \* recipes each run stored a Document for
  attempts,     \* recipe_fetch_attempts table: <<run, recipe>> of failed applies
  asked,        \* history: <<nomination, run>> for which authoring called the LLM
  sanctioned,   \* history: runs under way at some moment at which the plan was accepted
  faults,       \* store calls that have failed so far
  ex            \* the executing call of each run, lost when the process dies

db   == <<status, recipes, fetch_runs, outcome_rows, stored, documents, attempts>>
vars == <<db, asked, sanctioned, faults, ex>>

(***************************************************************************)
(* The local variables of run_fetch_for_plan and of the helpers it awaits. *)
(***************************************************************************)
Idle == [pc        |-> "idle",
         futures   |-> {},        \* nominations still being authored
         saving    |-> {},        \* recipes of a finished nomination not yet saved
         hardErr   |-> {},        \* nominations whose authoring ended in Err
         work      |-> {},        \* `recipes`: what this run will attempt
         todo      |-> {},        \* the part of `work` not run yet
         declines  |-> {},
         outcomes  |-> {},
         current   |-> NoRecipe,  \* the recipe run_one_recipe is working on
         extracted |-> 0,         \* records apply returned for it
         inserted  |-> 0,         \* those already inserted
         succeeded |-> 0,         \* recipes_succeeded
         records   |-> 0,         \* records_produced_total
         unsaved   |-> {}]        \* outcomes persist_run_outcomes has yet to write

Active(r) == ex[r].pc \notin {"idle", "done", "failed", "killed"}

Init ==
  /\ status = "pending"
  /\ recipes = {}
  /\ fetch_runs = [r \in Runs |-> Absent]
  /\ outcome_rows = [r \in Runs |-> {}]
  /\ stored = [r \in Runs |-> 0]
  /\ documents = [r \in Runs |-> {}]
  /\ attempts = {}
  /\ asked = {}
  /\ sanctioned = {}
  /\ faults = 0
  /\ ex = [r \in Runs |-> Idle]

(***************************************************************************)
(* A store call either succeeds or returns an error.                       *)
(***************************************************************************)
StoreOk == UNCHANGED faults
StoreErr == faults < MaxFaults /\ faults' = faults + 1

Become(r, rr) == ex' = [ex EXCEPT ![r] = rr]

Goto(r, phase) == Become(r, [ex[r] EXCEPT !.pc = phase])

(***************************************************************************)
(* A wholesale failure drops whatever the run was doing; the hard errors   *)
(* are kept, as the log keeps them.                                        *)
(***************************************************************************)
Abort(r, phase) ==
  Become(r, [Idle EXCEPT !.pc = phase, !.hardErr = ex[r].hardErr])

(***************************************************************************)
(* The operator's decision.  Both commands write the status whatever it    *)
(* was: a rejected plan may be accepted, and an accepted one rejected while*)
(* a run of it is under way or after it has left its rows.                 *)
(***************************************************************************)
accept_plan ==
  /\ status' = "accepted"
  /\ sanctioned' = sanctioned \cup {r \in Runs : Active(r)}
  /\ UNCHANGED <<recipes, fetch_runs, outcome_rows, stored, documents, attempts,
                 asked, faults, ex>>

reject_plan ==
  /\ status' = "rejected"
  /\ UNCHANGED <<recipes, fetch_runs, outcome_rows, stored, documents, attempts,
                 asked, sanctioned, faults, ex>>

Decide == accept_plan \/ reject_plan

(***************************************************************************)
(* run_fetch_for_plan: the run row is opened first.  A second run cannot   *)
(* be started from the same window while plans.fetching is set (Overlap is *)
(* FALSE); a reloaded window has forgotten that flag (Overlap is TRUE).    *)
(***************************************************************************)
insert_fetch_run(r) ==
  /\ ex[r].pc = "idle"
  /\ Overlap \/ \A s \in Runs : ~Active(s)
  /\ \/ /\ StoreOk
        /\ fetch_runs' = [fetch_runs EXCEPT ![r].state = "open"]
        /\ Goto(r, "opened")
        /\ sanctioned' = IF status = "accepted" THEN sanctioned \cup {r} ELSE sanctioned
     \/ /\ StoreErr
        /\ Abort(r, "failed")
        /\ UNCHANGED <<fetch_runs, sanctioned>>
  /\ UNCHANGED <<status, recipes, outcome_rows, stored, documents, attempts, asked>>

\* Mutant: the executor only refuses a rejected plan.
prepare_plan_unless_rejected(r) ==
  /\ ex[r].pc = "opened"
  /\ \/ StoreOk /\ status # "rejected" /\ Goto(r, "prepared")
     \/ StoreOk /\ status = "rejected" /\ Abort(r, "erring")
     \/ StoreErr /\ Abort(r, "erring")
  /\ UNCHANGED <<db, asked, sanctioned>>

\* Mutant: the early return for a plan that is not accepted skips the closing.
prepare_plan_leaves_row_open(r) ==
  /\ ex[r].pc = "opened"
  /\ \/ StoreOk /\ status = "accepted" /\ Goto(r, "prepared")
     \/ StoreOk /\ status # "accepted" /\ Abort(r, "failed")
     \/ StoreErr /\ Abort(r, "erring")
  /\ UNCHANGED <<db, asked, sanctioned>>

(***************************************************************************)
(* The status is read here and never again.                                *)
(***************************************************************************)
prepare_plan(r) ==
  /\ ex[r].pc = "opened"
  /\ \/ StoreOk /\ status = "accepted" /\ Goto(r, "prepared")
     \/ StoreOk /\ status # "accepted" /\ Abort(r, "erring")
     \/ StoreErr /\ Abort(r, "erring")
  /\ UNCHANGED <<db, asked, sanctioned>>

(***************************************************************************)
(* After a wholesale failure the row is closed with an error_summary, or   *)
(* stays open when that write fails too; the call returns Err either way.  *)
(***************************************************************************)
close_run_with_error(r) ==
  /\ ex[r].pc = "erring"
  /\ \/ /\ StoreOk
        /\ fetch_runs' = [fetch_runs EXCEPT ![r].state = "closed", ![r].error = TRUE]
     \/ /\ StoreErr
        /\ UNCHANGED fetch_runs
  /\ Goto(r, "failed")
  /\ UNCHANGED <<status, recipes, outcome_rows, stored, documents, attempts, asked, sanctioned>>

\* Mutant: recipes of earlier runs are not looked for.
load_recipes_ignores_rows(r) ==
  /\ ex[r].pc = "prepared"
  /\ StoreOk
  /\ Become(r, [ex[r] EXCEPT !.pc = "authoring", !.futures = Nominations,
                             !.declines = LegacyIds])
  /\ asked' = asked \cup (Nominations \X {r})
  /\ UNCHANGED <<db, sanctioned>>

(***************************************************************************)
(* load_or_author_recipes: recipes of any earlier run are reused as they   *)
(* are; only when there is none does every nomination get a future.        *)
(***************************************************************************)
load_recipes(r) ==
  /\ ex[r].pc = "prepared"
  /\ \/ /\ StoreOk
        /\ recipes # {}
        /\ Become(r, [ex[r] EXCEPT !.pc = "running", !.work = recipes, !.todo = recipes])
        /\ UNCHANGED asked
     \/ /\ StoreOk
        /\ recipes = {}
        /\ Become(r, [ex[r] EXCEPT !.pc = "authoring", !.futures = Nominations,
                                   !.declines = LegacyIds])
        /\ asked' = IF Targets = {} THEN asked ELSE asked \cup (Nominations \X {r})
     \/ /\ StoreErr
        /\ Abort(r, "erring")
        /\ UNCHANGED asked
  /\ UNCHANGED <<db, sanctioned>>

\* Mutant: the declines of a nomination with a recipe are dropped.
nomination_done_drops_declines(r, n) ==
  /\ ex[r].pc = "authoring"
  /\ ex[r].saving = {}
  /\ n \in ex[r].futures
  /\ \/ \E res \in AuthoredResult :
          Become(r, [ex[r] EXCEPT !.futures  = @ \ {n},
                                  !.saving   = [nom : {n}, tgt : res.authored, by : {r}],
                                  !.declines = @ \cup
                                    [nom : {n},
                                     tgt : IF res.authored = {} THEN res.declined ELSE {}]])
     \/ Become(r, [ex[r] EXCEPT !.futures = @ \ {n}, !.hardErr = @ \cup {n}])
  /\ UNCHANGED <<db, asked, sanctioned, faults>>

(***************************************************************************)
(* A nomination's future resolves, to a result that AuthoringContract      *)
(* allows (AuthorNomination shows it is always one of them) or to an error.*)
(***************************************************************************)
nomination_done(r, n) ==
  /\ ex[r].pc = "authoring"
  /\ ex[r].saving = {}
  /\ n \in ex[r].futures
  /\ \/ \E res \in AuthoredResult :
          Become(r, [ex[r] EXCEPT !.futures  = @ \ {n},
                                  !.saving   = [nom : {n}, tgt : res.authored, by : {r}],
                                  !.declines = @ \cup [nom : {n}, tgt : res.declined]])
     \/ Become(r, [ex[r] EXCEPT !.futures = @ \ {n}, !.hardErr = @ \cup {n}])
  /\ UNCHANGED <<db, asked, sanctioned, faults>>

(***************************************************************************)
(* The recipes of a finished nomination are saved one by one; the first    *)
(* error leaves the loop with `?`, which drops every other future and all  *)
(* the declines while the recipes already saved stay.                      *)
(***************************************************************************)
save_recipe(r, rec) ==
  /\ ex[r].pc = "authoring"
  /\ rec \in ex[r].saving
  /\ \/ /\ StoreOk
        /\ recipes' = recipes \cup {rec}
        /\ Become(r, [ex[r] EXCEPT !.saving = @ \ {rec}, !.work = @ \cup {rec}])
     \/ /\ StoreErr
        /\ Abort(r, "erring")
        /\ UNCHANGED recipes
  /\ UNCHANGED <<status, fetch_runs, outcome_rows, stored, documents, attempts, asked, sanctioned>>

authoring_done(r) ==
  /\ ex[r].pc = "authoring"
  /\ ex[r].futures = {}
  /\ ex[r].saving = {}
  /\ Become(r, [ex[r] EXCEPT !.pc = "running", !.todo = ex[r].work])
  /\ UNCHANGED <<db, asked, sanctioned, faults>>

(***************************************************************************)
(* run_one_recipe, one recipe at a time.  The runner of the recipe's mode  *)
(* fetches its bytes first; a failed fetch or a rate limit is its outcome. *)
(***************************************************************************)
Finish(r, rec, kind, n) ==
  [ex[r] EXCEPT !.pc = "running", !.todo = @ \ {rec}, !.current = NoRecipe,
                !.extracted = 0, !.inserted = 0,
                !.outcomes = @ \cup {[rec |-> rec, kind |-> kind, records |-> n]}]

fetch_recipe_bytes(r, rec) ==
  /\ ex[r].pc = "running"
  /\ rec \in ex[r].todo
  /\ \/ \E kind \in {"fetch", "rate_limited"} :
          /\ Become(r, Finish(r, rec, kind, 0))
          /\ StoreOk /\ UNCHANGED documents
     \/ /\ Become(r, [ex[r] EXCEPT !.pc = "fetched", !.current = rec])
        /\ \/ /\ StoreOk
              /\ documents' = [documents EXCEPT ![r] = @ \cup {rec}]
           \/ /\ StoreErr
              /\ UNCHANGED documents
  /\ UNCHANGED <<status, recipes, fetch_runs, outcome_rows, stored, attempts, asked, sanctioned>>

\* Mutant: the CSS runner reports a stage that FailureStage does not have.
run_css_recipe_unknown_stage == {"index_page_detected", "parse"}

(***************************************************************************)
(* The stages at which a runner can fail once it has the bytes; the CSS    *)
(* runner alone looks for an index page before it applies the recipe.      *)
(***************************************************************************)
run_csv_recipe   == {"apply"}
run_json_recipe  == {"apply"}
run_css_recipe   == {"index_page_detected", "apply"}
run_regex_recipe == {"apply"}
run_pdf_recipe   == {"apply"}

run_one_recipe(rec) ==
  CASE Mode[rec.tgt] = "csv"   -> run_csv_recipe
    [] Mode[rec.tgt] = "json"  -> run_json_recipe
    [] Mode[rec.tgt] = "css"   -> run_css_recipe
    [] Mode[rec.tgt] = "regex" -> run_regex_recipe
    [] Mode[rec.tgt] = "pdf"   -> run_pdf_recipe

record_apply_failure_attempt(r, rec) ==
  \/ StoreOk /\ attempts' = attempts \cup {<<r, rec>>}
  \/ StoreErr /\ UNCHANGED attempts

apply(r) ==
  /\ ex[r].pc = "fetched"
  /\ LET rec == ex[r].current IN
       \/ \E stage \in run_one_recipe(rec) :
            /\ record_apply_failure_attempt(r, rec)
            /\ Become(r, Finish(r, rec, stage, 0))
       \/ \E n \in 0..MaxRecords :
            /\ Become(r, [ex[r] EXCEPT !.pc = "inserting", !.extracted = n])
            /\ StoreOk /\ UNCHANGED attempts
  /\ UNCHANGED <<status, recipes, fetch_runs, outcome_rows, stored, documents, asked, sanctioned>>

\* Mutant: a failed insert is logged and skipped.
insert_record_skips_failures(r) ==
  /\ ex[r].pc = "inserting"
  /\ ex[r].inserted < ex[r].extracted
  /\ \/ /\ StoreOk
        /\ stored' = [stored EXCEPT ![r] = @ + 1]
     \/ /\ StoreErr
        /\ UNCHANGED stored
  /\ Become(r, [ex[r] EXCEPT !.inserted = @ + 1])
  /\ UNCHANGED <<status, recipes, fetch_runs, outcome_rows, documents, attempts, asked, sanctioned>>

\* Mutant: the early return after a failed insert reports nothing.
insert_record_reports_nothing(r) ==
  /\ ex[r].pc = "inserting"
  /\ ex[r].inserted < ex[r].extracted
  /\ \/ /\ StoreOk
        /\ stored' = [stored EXCEPT ![r] = @ + 1]
        /\ Become(r, [ex[r] EXCEPT !.inserted = @ + 1])
     \/ /\ StoreErr
        /\ Become(r, [Finish(r, ex[r].current, "insert", 0) EXCEPT
                                   !.outcomes = ex[r].outcomes])
        /\ UNCHANGED stored
  /\ UNCHANGED <<status, recipes, fetch_runs, outcome_rows, documents, attempts, asked, sanctioned>>

\* Mutant: records_produced_total is counted insert by insert.
insert_record_counts_early(r) ==
  /\ ex[r].pc = "inserting"
  /\ ex[r].inserted < ex[r].extracted
  /\ \/ /\ StoreOk
        /\ stored' = [stored EXCEPT ![r] = @ + 1]
        /\ Become(r, [ex[r] EXCEPT !.inserted = @ + 1, !.records = @ + 1])
     \/ /\ StoreErr
        /\ Become(r, Finish(r, ex[r].current, "insert", 0))
        /\ UNCHANGED stored
  /\ UNCHANGED <<status, recipes, fetch_runs, outcome_rows, documents, attempts, asked, sanctioned>>

(***************************************************************************)
(* The records are inserted one by one.  The first failing insert ends the *)
(* recipe as failed; what was inserted before it stays, uncounted.         *)
(***************************************************************************)
insert_record(r) ==
  /\ ex[r].pc = "inserting"
  /\ ex[r].inserted < ex[r].extracted
  /\ \/ /\ StoreOk
        /\ stored' = [stored EXCEPT ![r] = @ + 1]
        /\ Become(r, [ex[r] EXCEPT !.inserted = @ + 1])
     \/ /\ StoreErr
        /\ Become(r, Finish(r, ex[r].current, "insert", 0))
        /\ UNCHANGED stored
  /\ UNCHANGED <<status, recipes, fetch_runs, outcome_rows, documents, attempts, asked, sanctioned>>

recipe_succeeded(r) ==
  /\ ex[r].pc = "inserting"
  /\ ex[r].inserted = ex[r].extracted
  /\ Become(r, [Finish(r, ex[r].current, "succeeded", ex[r].extracted) EXCEPT
                             !.succeeded = @ + 1, !.records = @ + ex[r].extracted])
  /\ UNCHANGED <<db, asked, sanctioned, faults>>

\* Mutant: only the outcomes of recipes are persisted.
recipes_done_forgets_declines(r) ==
  /\ ex[r].pc = "running"
  /\ ex[r].todo = {}
  /\ Become(r, [ex[r] EXCEPT !.pc = "persisting", !.unsaved = ex[r].outcomes])
  /\ UNCHANGED <<db, asked, sanctioned, faults>>

(***************************************************************************)
(* persist_run_outcomes writes one row per outcome, in turn; a failed      *)
(* write loses that row only.  Then the run row is closed.                 *)
(***************************************************************************)
recipes_done(r) ==
  /\ ex[r].pc = "running"
  /\ ex[r].todo = {}
  /\ Become(r, [ex[r] EXCEPT !.pc = "persisting",
                             !.unsaved = ex[r].declines \cup ex[r].outcomes])
  /\ UNCHANGED <<db, asked, sanctioned, faults>>

persist_run_outcomes(r) ==
  /\ ex[r].pc = "persisting"
  /\ IF ex[r].unsaved = {}
       THEN /\ Goto(r, "closing")
            /\ StoreOk /\ UNCHANGED outcome_rows
       ELSE \E o \in ex[r].unsaved :
              /\ Become(r, [ex[r] EXCEPT !.unsaved = @ \ {o}])
              /\ \/ /\ StoreOk
                    /\ outcome_rows' = [outcome_rows EXCEPT ![r] = @ \cup {o}]
                 \/ /\ StoreErr
                    /\ UNCHANGED outcome_rows
  /\ UNCHANGED <<status, recipes, fetch_runs, stored, documents, attempts, asked, sanctioned>>

update_fetch_run(r) ==
  /\ ex[r].pc = "closing"
  /\ \/ /\ StoreOk
        /\ fetch_runs' = [fetch_runs EXCEPT ![r] =
              [state |-> "closed", error |-> FALSE,
               attempted |-> Cardinality(ex[r].work),
               succeeded |-> ex[r].succeeded, records |-> ex[r].records]]
     \/ /\ StoreErr
        /\ UNCHANGED fetch_runs
  /\ Goto(r, "done")
  /\ UNCHANGED <<status, recipes, outcome_rows, stored, documents, attempts, asked, sanctioned>>

(***************************************************************************)
(* The process dies: every call in progress is gone, committed rows stay.  *)
(***************************************************************************)
Kill ==
  /\ \E r \in Runs : Active(r)
  /\ ex' = [r \in Runs |-> IF Active(r) THEN [Idle EXCEPT !.pc = "killed"] ELSE ex[r]]
  /\ UNCHANGED <<db, asked, sanctioned, faults>>

RunStep(r) ==
  \/ prepare_plan(r)
  \/ close_run_with_error(r)
  \/ load_recipes(r)
  \/ \E n \in Nominations : nomination_done(r, n)
  \/ \E rec \in Recipe : save_recipe(r, rec)
  \/ authoring_done(r)
  \/ \E rec \in Recipe : fetch_recipe_bytes(r, rec)
  \/ apply(r)
  \/ insert_record(r)
  \/ recipe_succeeded(r)
  \/ recipes_done(r)
  \/ persist_run_outcomes(r)
  \/ update_fetch_run(r)

Next ==
  \/ Decide
  \/ Kill
  \/ \E r \in Runs : insert_fetch_run(r) \/ RunStep(r)

Spec == Init /\ [][Next]_vars

(***************************************************************************)
(* The runtime keeps polling a run that was started, and every LLM call    *)
(* and fetch it awaits returns within the client's total timeout.  Nobody  *)
(* has to decide on a plan or to start a run, and nothing forces a crash.  *)
(***************************************************************************)
FairSpec == Spec /\ \A r \in Runs : WF_vars(RunStep(r))

-----------------------------------------------------------------------------
(***************************************************************************)
(* Properties                                                              *)
(***************************************************************************)
RunRecord ==
  [pc : Phases, futures : SUBSET Nominations, saving : SUBSET Recipe,
   hardErr : SUBSET Nominations, work : SUBSET Recipe, todo : SUBSET Recipe,
   declines : SUBSET Decline, outcomes : SUBSET RecipeOutcome,
   current : Recipe \cup {NoRecipe}, extracted : Nat, inserted : Nat,
   succeeded : Nat, records : Nat, unsaved : SUBSET (Decline \cup RecipeOutcome)]

\* Every table and every local variable holds what its Rust type allows.
TypeOK ==
  /\ status \in {"pending", "accepted", "rejected"}
  /\ recipes \subseteq Recipe
  /\ fetch_runs \in [Runs -> FetchRunRow]
  /\ outcome_rows \in [Runs -> SUBSET (Decline \cup RecipeOutcome)]
  /\ stored \in [Runs -> Nat]
  /\ documents \in [Runs -> SUBSET Recipe]
  /\ attempts \subseteq Runs \X Recipe
  /\ asked \subseteq Nominations \X Runs
  /\ sanctioned \subseteq Runs
  /\ faults \in 0..MaxFaults
  /\ ex \in [Runs -> RunRecord]

\* "Every recipe that was considered shows up exactly once in outcomes"
\* (FetchReport): of the recipes a run works on, those it has left behind have
\* one outcome each and the others none, whatever failed on the way.
EachRecipeReportedOnce ==
  \A r \in Runs : Active(r) \/ ex[r].pc = "done" =>
    \A rec \in ex[r].work :
      Cardinality({o \in ex[r].outcomes : o.rec = rec}) =
        IF ex[r].pc = "authoring" \/ rec \in ex[r].todo THEN 0 ELSE 1

Succeeded(r) == {o \in ex[r].outcomes : o.kind = "succeeded"}

\* "The aggregate counters are derived from the outcomes" (FetchReport): a run
\* row that was closed without an error carries the number of recipes the run
\* attempted, of outcomes that succeeded, and of records in those outcomes.
RowMatchesReport ==
  \A r \in Runs : fetch_runs[r].state = "closed" /\ ~fetch_runs[r].error =>
    /\ fetch_runs[r].attempted = Cardinality({o.rec : o \in ex[r].outcomes})
    /\ fetch_runs[r].succeeded = Cardinality(Succeeded(r))
    /\ fetch_runs[r].records = MapThenSumSet(LAMBDA o : o.records, Succeeded(r))

\* A run never reports a record the store does not hold: what is reported, plus
\* what the current recipe has inserted, is at most what the run stored, and it
\* is all of it unless some recipe failed in the middle of its inserts.
ReportedRecordsAreStored ==
  \A r \in Runs : ex[r].pc # "killed" =>
    /\ ex[r].records + ex[r].inserted <= stored[r]
    /\ (\A o \in ex[r].outcomes : o.kind # "insert") =>
         ex[r].records + ex[r].inserted = stored[r]

\* Accepting is what permits authoring and fetching (ADR 0011), and the status
\* is read once: whatever is decided before, during and after it, a run at no
\* moment of which the plan was accepted asks no LLM and adds no recipe, record,
\* Document, attempt or outcome, and closes its row with an error if at all.
OnlySanctionedRunsLeaveTraces ==
  \A r \in Runs \ sanctioned :
    /\ \A rec \in recipes : rec.by # r
    /\ \A n \in Nominations : <<n, r>> \notin asked
    /\ \A rec \in Recipe : <<r, rec>> \notin attempts
    /\ stored[r] = 0 /\ documents[r] = {} /\ outcome_rows[r] = {}
    /\ fetch_runs[r].state = "closed" => fetch_runs[r].error

\* When authoring is over each nomination has ended in one way: its authoring
\* failed, or every target has a recipe or a decline, or the nomination has one
\* decline of its own.  Nothing is both authored and declined.
NominationsAccountedFor ==
  \A r \in Runs, n \in Nominations :
    <<n, r>> \in asked /\ ex[r].pc \in {"running", "persisting", "closing", "done"} =>
      LET authored == {rec.tgt : rec \in {x \in ex[r].work : x.nom = n}}
          declined == {d.tgt : d \in {x \in ex[r].declines \ LegacyIds : x.nom = n}}
      IN  /\ authored \cap declined = {}
          /\ IF n \in ex[r].hardErr THEN authored \cup declined = {}
             ELSE \/ Targets \subseteq authored \cup declined
                  \/ authored = {} /\ declined = {Whole}

\* persist_run_outcomes keeps the report's history: a run closed without an
\* error has a row for each of its outcomes but those whose write failed.
OutcomeRowsCoverReport ==
  \A r \in Runs : fetch_runs[r].state = "closed" /\ ~fetch_runs[r].error =>
    LET reported == ex[r].declines \cup ex[r].outcomes IN
      /\ outcome_rows[r] \subseteq reported
      /\ Cardinality(reported \ outcome_rows[r]) <= faults

\* Recipes are authored once per plan and (nomination, target): no two rows of
\* the plan share a dedup_key, over any sequence of runs, aborts and crashes.
UniqueDedupKeys ==
  \A x, y \in recipes : dedup_key(x) = dedup_key(y) => x = y

\* Closing the row is the last thing a run does to the store: once it is
\* closed the run adds no record, Document, attempt or outcome row.
ClosingIsLast ==
  [][\A r \in Runs : fetch_runs[r].state = "closed" =>
       /\ fetch_runs'[r] = fetch_runs[r]
       /\ stored'[r] = stored[r]
       /\ documents'[r] = documents[r]
       /\ outcome_rows'[r] = outcome_rows[r]
       /\ \A rec \in Recipe : <<r, rec>> \in attempts' => <<r, rec>> \in attempts]_vars

\* A run row does not stay "in flight": an opened row is eventually closed,
\* unless the process is killed or the store refuses the very write that closes it.
OpenRowsAreClosed ==
  \A r \in Runs :
    fetch_runs[r].state = "open" ~>
      \/ fetch_runs[r].state = "closed"
      \/ ex[r].pc = "killed"
      \/ ex[r].pc \in {"done", "failed"} /\ faults > 0
=============================================================================
