------------------------ MODULE FetchExecutorProofs ------------------------
(***************************************************************************)
(* Proofs about FetchExecutor for every plan, every number of runs and     *)
(* every bound.                                                            *)
(***************************************************************************)
EXTENDS FetchExecutor, FiniteSetTheorems, NaturalsInduction, WellFoundedInduction, TLAPS

-----------------------------------------------------------------------------
(***************************************************************************)
(* Type correctness                                                        *)
(***************************************************************************)

\* A plan can only ever have finitely many recipe rows.
LEMMA RecipeFinite == IsFiniteSet(Recipe)
<1> DEFINE Trip == (Nominations \X Targets) \X Runs
           f == [p \in Trip |-> [nom |-> p[1][1], tgt |-> p[1][2], by |-> p[2]]]
<1>1. IsFiniteSet(Trip)
  <2>1. IsFiniteSet(Nominations \X Targets)
    BY FS_Product, ConstantsAssumption
  <2> QED  BY <2>1, FS_Product, ConstantsAssumption
<1>2. f \in Surjection(Trip, Recipe)
  <2>1. f \in [Trip -> Recipe]
    BY DEF Recipe
  <2>2. ASSUME NEW rec \in Recipe
        PROVE  \E p \in Trip : f[p] = rec
    <3>1. <<<<rec.nom, rec.tgt>>, rec.by>> \in Trip
      BY DEF Recipe
    <3>2. f[<<<<rec.nom, rec.tgt>>, rec.by>>] = rec
      BY <3>1 DEF Recipe
    <3> QED  BY <3>1, <3>2
  <2> QED  BY <2>1, <2>2 DEF Surjection
<1> QED  BY <1>1, <1>2, FS_Surjection

\* Writing a well-typed record for one run keeps `ex` well typed.
LEMMA BecomeType ==
  ASSUME TypeOK, NEW r \in Runs, NEW rr \in RunRecord, Become(r, rr)
  PROVE  ex' \in [Runs -> RunRecord]
BY DEF TypeOK, Become

LEMMA IdleType == Idle \in RunRecord
BY DEF Idle, RunRecord, Phases

LEMMA InitType == Init => TypeOK
<1>1. Absent \in FetchRunRow
  BY DEF Absent, FetchRunRow
<1>2. 0 \in 0..MaxFaults
  BY ConstantsAssumption
<1>3. ASSUME Init
      PROVE  /\ fetch_runs \in [Runs -> FetchRunRow]
             /\ outcome_rows \in [Runs -> SUBSET (Decline \cup RecipeOutcome)]
             /\ documents \in [Runs -> SUBSET Recipe]
             /\ ex \in [Runs -> RunRecord]
  BY <1>1, <1>3, IdleType DEF Init
<1>4. ASSUME Init
      PROVE  /\ status \in {"pending", "accepted", "rejected"} /\ recipes \subseteq Recipe
             /\ stored \in [Runs -> Nat] /\ attempts \subseteq Runs \X Recipe
             /\ asked \subseteq Nominations \X Runs /\ faults \in 0..MaxFaults
             /\ sanctioned \subseteq Runs
  <2>1. /\ status = "pending" /\ recipes = {} /\ attempts = {} /\ asked = {} /\ faults = 0
        /\ sanctioned = {}
        /\ stored = [r \in Runs |-> 0]
    BY <1>4 DEF Init
  <2>2. stored \in [Runs -> Nat]
    BY <2>1
  <2>3. attempts \subseteq Runs \X Recipe /\ asked \subseteq Nominations \X Runs
    BY <2>1, Zenon
  <2> QED  BY <1>2, <2>1, <2>2, <2>3
<1> QED  BY <1>3, <1>4 DEF TypeOK

LEMMA FaultsType ==
  ASSUME TypeOK, StoreOk \/ StoreErr
  PROVE  faults' \in 0..MaxFaults
BY ConstantsAssumption DEF TypeOK, StoreOk, StoreErr

LEMMA GotoType ==
  ASSUME TypeOK, NEW r \in Runs, NEW phase \in Phases, Goto(r, phase)
  PROVE  ex' \in [Runs -> RunRecord]
<1>1. ex[r] \in RunRecord
  BY DEF TypeOK
<1>2. [ex[r] EXCEPT !.pc = phase] \in RunRecord
  BY <1>1 DEF RunRecord
<1> QED  BY <1>2, BecomeType DEF Goto

LEMMA AbortType ==
  ASSUME TypeOK, NEW r \in Runs, NEW phase \in Phases, Abort(r, phase)
  PROVE  ex' \in [Runs -> RunRecord]
<1>1. ex[r] \in RunRecord
  BY DEF TypeOK
<1>2. [Idle EXCEPT !.pc = phase, !.hardErr = ex[r].hardErr] \in RunRecord
  BY <1>1, IdleType DEF RunRecord
<1> QED  BY <1>2, BecomeType DEF Abort

LEMMA FinishType ==
  ASSUME TypeOK, NEW r \in Runs, NEW rec \in Recipe, NEW kind \in Kinds, NEW n \in Nat
  PROVE  Finish(r, rec, kind, n) \in RunRecord
<1>1. ex[r] \in RunRecord
  BY DEF TypeOK
<1>2. [rec |-> rec, kind |-> kind, records |-> n] \in RecipeOutcome
  BY DEF RecipeOutcome
<1>3. NoRecipe \in Recipe \cup {NoRecipe} /\ "running" \in Phases
  BY DEF Phases
<1> QED  BY <1>1, <1>2, <1>3 DEF Finish, RunRecord

\* The actions that open, check and close the run row.
LEMMA RowActionsType ==
  ASSUME TypeOK, NEW r \in Runs,
         insert_fetch_run(r) \/ prepare_plan(r) \/ close_run_with_error(r)
  PROVE  TypeOK'
<1>1. faults' \in 0..MaxFaults
  BY FaultsType DEF insert_fetch_run, prepare_plan, close_run_with_error
<1>2. ex' \in [Runs -> RunRecord]
  <2> {"opened", "prepared", "erring", "failed"} \subseteq Phases
    BY DEF Phases
  <2> QED  BY GotoType, AbortType DEF insert_fetch_run, prepare_plan, close_run_with_error
<1>3. fetch_runs' \in [Runs -> FetchRunRow]
  BY DEF insert_fetch_run, prepare_plan, close_run_with_error, db, TypeOK, FetchRunRow
<1> QED
  BY <1>1, <1>2, <1>3
  DEF insert_fetch_run, prepare_plan, close_run_with_error, db, TypeOK

LEMMA LoadRecipesType ==
  ASSUME TypeOK, NEW r \in Runs, load_recipes(r)
  PROVE  TypeOK'
<1>1. faults' \in 0..MaxFaults
  BY FaultsType DEF load_recipes
<1>2. asked' \subseteq Nominations \X Runs
  BY DEF load_recipes, TypeOK
<1>3. ex' \in [Runs -> RunRecord]
  <2> DEFINE loaded == [ex[r] EXCEPT !.pc = "running", !.work = recipes, !.todo = recipes]
             asking == [ex[r] EXCEPT !.pc = "authoring", !.futures = Nominations,
                                     !.declines = LegacyIds]
  <2> /\ ex[r] \in RunRecord
      /\ recipes \in SUBSET Recipe
    BY DEF TypeOK
  <2>3. {"running", "authoring", "erring"} \subseteq Phases
    BY DEF Phases
  <2>1. loaded \in RunRecord
    BY <2>3 DEF RunRecord
  <2>2. asking \in RunRecord
    <3>1. LegacyIds \in SUBSET Decline
      BY DEF Decline
    <3> QED  BY <2>3, <3>1 DEF RunRecord
  <2>4. Become(r, loaded) \/ Become(r, asking) \/ Abort(r, "erring")
    BY DEF load_recipes
  <2> QED  BY <2>1, <2>2, <2>3, <2>4, BecomeType, AbortType
<1> QED  BY <1>1, <1>2, <1>3 DEF load_recipes, db, TypeOK

\* Writing the fields of authoring keeps a run's record well typed.
LEMMA AuthoringRecord ==
  ASSUME NEW e \in RunRecord, NEW f \in SUBSET Nominations, NEW s \in SUBSET Recipe
  PROVE  /\ \A h \in SUBSET Nominations : [e EXCEPT !.futures = f, !.hardErr = h] \in RunRecord
         /\ \A d \in SUBSET Decline :
              [e EXCEPT !.futures = f, !.saving = s, !.declines = d] \in RunRecord
         /\ \A w \in SUBSET Recipe : [e EXCEPT !.saving = s, !.work = w] \in RunRecord
<1>1. ASSUME NEW h \in SUBSET Nominations
      PROVE  [e EXCEPT !.futures = f, !.hardErr = h] \in RunRecord
  BY DEF RunRecord
<1>2. ASSUME NEW d \in SUBSET Decline
      PROVE  [e EXCEPT !.futures = f, !.saving = s, !.declines = d] \in RunRecord
  BY DEF RunRecord
<1>3. ASSUME NEW w \in SUBSET Recipe
      PROVE  [e EXCEPT !.saving = s, !.work = w] \in RunRecord
  BY DEF RunRecord
<1> QED  BY <1>1, <1>2, <1>3

\* The fields of a well-typed record that authoring reads.
LEMMA AuthoringFields ==
  ASSUME TypeOK, NEW r \in Runs
  PROVE  /\ ex[r] \in RunRecord
         /\ ex[r].futures \in SUBSET Nominations /\ ex[r].hardErr \in SUBSET Nominations
         /\ ex[r].saving \in SUBSET Recipe /\ ex[r].work \in SUBSET Recipe
         /\ ex[r].declines \in SUBSET Decline
<1>1. ex[r] \in RunRecord
  BY DEF TypeOK
<1> QED  BY <1>1 DEF RunRecord

LEMMA NominationDoneType ==
  ASSUME TypeOK, NEW r \in Runs, NEW n \in Nominations, nomination_done(r, n)
  PROVE  TypeOK'
<1>1. ex' \in [Runs -> RunRecord]
  <2>1. CASE Become(r, [ex[r] EXCEPT !.futures = @ \ {n}, !.hardErr = @ \cup {n}])
    <3> DEFINE f == ex[r].futures \ {n}
               h == ex[r].hardErr \cup {n}
    <3>1. f \in SUBSET Nominations /\ h \in SUBSET Nominations
      BY AuthoringFields
    <3>2. Become(r, [ex[r] EXCEPT !.futures = f, !.hardErr = h])
      BY <2>1
    <3> HIDE DEF f, h
    <3>3. [ex[r] EXCEPT !.futures = f, !.hardErr = h] \in RunRecord
      BY <3>1, AuthoringFields, AuthoringRecord
    <3> QED  BY <3>2, <3>3, BecomeType
  <2>2. ASSUME NEW res \in AuthoredResult,
               Become(r, [ex[r] EXCEPT
                            !.futures  = @ \ {n},
                            !.saving   = [nom : {n}, tgt : res.authored, by : {r}],
                            !.declines = @ \cup [nom : {n}, tgt : res.declined]])
        PROVE  ex' \in [Runs -> RunRecord]
    <3> DEFINE f == ex[r].futures \ {n}
               sv == [nom : {n}, tgt : res.authored, by : {r}]
               d == ex[r].declines \cup [nom : {n}, tgt : res.declined]
    <3>1. sv \in SUBSET Recipe
      BY DEF AuthoredResult, Recipe
    <3>2. [nom : {n}, tgt : res.declined] \subseteq Decline
      BY DEF AuthoredResult, Decline
    <3>3. f \in SUBSET Nominations /\ d \in SUBSET Decline
      BY <3>2, AuthoringFields
    <3>4. Become(r, [ex[r] EXCEPT !.futures = f, !.saving = sv, !.declines = d])
      BY <2>2
    <3> HIDE DEF f, sv, d
    <3>5. [ex[r] EXCEPT !.futures = f, !.saving = sv, !.declines = d] \in RunRecord
      BY <3>1, <3>3, AuthoringFields, AuthoringRecord
    <3> QED  BY <3>4, <3>5, BecomeType
  <2> QED  BY <2>1, <2>2 DEF nomination_done
<1> QED  BY <1>1 DEF nomination_done, db, TypeOK

LEMMA SaveRecipeType ==
  ASSUME TypeOK, NEW r \in Runs, NEW rec \in Recipe, save_recipe(r, rec)
  PROVE  TypeOK'
<1>1. faults' \in 0..MaxFaults
  BY FaultsType DEF save_recipe
<1>2. recipes' \subseteq Recipe
  BY DEF save_recipe, TypeOK
<1>3. ex' \in [Runs -> RunRecord]
  <2>1. CASE Abort(r, "erring")
    BY <2>1, AbortType DEF Phases
  <2>2. CASE Become(r, [ex[r] EXCEPT !.saving = @ \ {rec}, !.work = @ \cup {rec}])
    <3> DEFINE sv == ex[r].saving \ {rec}
               w == ex[r].work \cup {rec}
    <3>1. sv \in SUBSET Recipe /\ w \in SUBSET Recipe /\ ex[r].futures \in SUBSET Nominations
      BY AuthoringFields
    <3>2. Become(r, [ex[r] EXCEPT !.saving = sv, !.work = w])
      BY <2>2
    <3> HIDE DEF sv, w
    <3>3. [ex[r] EXCEPT !.saving = sv, !.work = w] \in RunRecord
      BY <3>1, AuthoringFields, AuthoringRecord
    <3> QED  BY <3>2, <3>3, BecomeType
  <2> QED  BY <2>1, <2>2 DEF save_recipe
<1> QED  BY <1>1, <1>2, <1>3 DEF save_recipe, TypeOK

LEMMA AuthoringDoneType ==
  ASSUME TypeOK, NEW r \in Runs, authoring_done(r)
  PROVE  TypeOK'
<1>1. ex[r] \in RunRecord /\ ex[r].work \in SUBSET Recipe
  BY DEF TypeOK, RunRecord
<1>2. [ex[r] EXCEPT !.pc = "running", !.todo = ex[r].work] \in RunRecord
  BY <1>1 DEF RunRecord, Phases
<1>3. ex' \in [Runs -> RunRecord]
  BY <1>2, BecomeType DEF authoring_done
<1> QED  BY <1>3 DEF authoring_done, db, TypeOK

LEMMA FetchType ==
  ASSUME TypeOK, NEW r \in Runs, NEW rec \in Recipe, fetch_recipe_bytes(r, rec)
  PROVE  TypeOK'
<1>1. faults' \in 0..MaxFaults
  BY FaultsType DEF fetch_recipe_bytes
<1>2. documents' \in [Runs -> SUBSET Recipe]
  BY DEF fetch_recipe_bytes, TypeOK
<1>3. ex' \in [Runs -> RunRecord]
  <2>1. CASE Become(r, [ex[r] EXCEPT !.pc = "fetched", !.current = rec])
    <3>2. ex[r] \in RunRecord /\ "fetched" \in Phases
      BY DEF TypeOK, Phases
    <3>1. [ex[r] EXCEPT !.pc = "fetched", !.current = rec] \in RunRecord
      BY <3>2 DEF RunRecord
    <3> QED  BY <2>1, <3>1, BecomeType
  <2>2. ASSUME NEW kind \in {"fetch", "rate_limited"}, Become(r, Finish(r, rec, kind, 0))
        PROVE  ex' \in [Runs -> RunRecord]
    <3>1. kind \in Kinds /\ 0 \in Nat
      BY DEF Kinds
    <3> QED  BY <2>2, <3>1, FinishType, BecomeType
  <2> QED  BY <2>1, <2>2 DEF fetch_recipe_bytes
<1> QED  BY <1>1, <1>2, <1>3 DEF fetch_recipe_bytes, TypeOK

\* Each runner fails at a stage that FailureStage has.
LEMMA StageIsAKind ==
  ASSUME NEW rec \in Recipe
  PROVE  run_one_recipe(rec) \subseteq Kinds
<1>1. Mode[rec.tgt] \in Modes
  BY ConstantsAssumption DEF Recipe
<1> QED
  BY <1>1
  DEF Modes, Kinds, run_one_recipe, run_csv_recipe, run_json_recipe, run_css_recipe,
      run_regex_recipe, run_pdf_recipe

\* While a run is applying a recipe or inserting its records, it has a recipe.
WorkingOnOne ==
  \A r \in Runs : ex[r].pc \in {"fetched", "inserting"} => ex[r].current \in Recipe

LEMMA ApplyType ==
  ASSUME TypeOK, WorkingOnOne, NEW r \in Runs, apply(r)
  PROVE  TypeOK'
<1> DEFINE rec == ex[r].current
<1>0. rec \in Recipe
  BY DEF apply, WorkingOnOne
<1>1. faults' \in 0..MaxFaults
  BY FaultsType DEF apply, record_apply_failure_attempt
<1>2. attempts' \subseteq Runs \X Recipe
  <2>1. record_apply_failure_attempt(r, rec) \/ UNCHANGED attempts
    BY DEF apply
  <2> QED  BY <1>0, <2>1 DEF record_apply_failure_attempt, TypeOK
<1>3. ex' \in [Runs -> RunRecord]
  <2>1. ASSUME NEW stage \in run_one_recipe(rec), Become(r, Finish(r, rec, stage, 0))
        PROVE  ex' \in [Runs -> RunRecord]
    <3>1. stage \in Kinds /\ 0 \in Nat
      BY <1>0, StageIsAKind
    <3> QED  BY <1>0, <2>1, <3>1, FinishType, BecomeType
  <2>2. ASSUME NEW n \in 0..MaxRecords,
               Become(r, [ex[r] EXCEPT !.pc = "inserting", !.extracted = n])
        PROVE  ex' \in [Runs -> RunRecord]
    <3>1. ex[r] \in RunRecord /\ "inserting" \in Phases /\ n \in Nat
      BY ConstantsAssumption DEF TypeOK, Phases
    <3>2. [ex[r] EXCEPT !.pc = "inserting", !.extracted = n] \in RunRecord
      BY <3>1 DEF RunRecord
    <3> QED  BY <2>2, <3>2, BecomeType
  <2> QED  BY <2>1, <2>2 DEF apply
<1> QED  BY <1>1, <1>2, <1>3 DEF apply, TypeOK

LEMMA InsertRecordType ==
  ASSUME TypeOK, WorkingOnOne, NEW r \in Runs, insert_record(r)
  PROVE  TypeOK'
<1>0. ex[r].current \in Recipe
  BY DEF insert_record, WorkingOnOne
<1>1. faults' \in 0..MaxFaults
  BY FaultsType DEF insert_record
<1>2. stored' \in [Runs -> Nat]
  BY DEF insert_record, TypeOK
<1>3. ex' \in [Runs -> RunRecord]
  <2>1. CASE Become(r, [ex[r] EXCEPT !.inserted = @ + 1])
    <3>2. ex[r] \in RunRecord /\ ex[r].inserted + 1 \in Nat
      BY DEF TypeOK, RunRecord
    <3>1. [ex[r] EXCEPT !.inserted = @ + 1] \in RunRecord
      BY <3>2 DEF RunRecord
    <3> QED  BY <2>1, <3>1, BecomeType
  <2>2. CASE Become(r, Finish(r, ex[r].current, "insert", 0))
    <3>1. "insert" \in Kinds /\ 0 \in Nat
      BY DEF Kinds
    <3> QED  BY <1>0, <2>2, <3>1, FinishType, BecomeType
  <2> QED  BY <2>1, <2>2 DEF insert_record
<1> QED  BY <1>1, <1>2, <1>3 DEF insert_record, TypeOK

LEMMA RecipeSucceededType ==
  ASSUME TypeOK, WorkingOnOne, NEW r \in Runs, recipe_succeeded(r)
  PROVE  TypeOK'
<1> DEFINE fin == Finish(r, ex[r].current, "succeeded", ex[r].extracted)
           rr == [fin EXCEPT !.succeeded = @ + 1, !.records = @ + ex[r].extracted]
<1>0. ex[r].current \in Recipe
  BY DEF recipe_succeeded, WorkingOnOne
<1>1. ex[r].extracted \in Nat
  BY DEF TypeOK, RunRecord
<1>2. fin \in RunRecord
  BY <1>0, <1>1, FinishType DEF Kinds
<1>3. rr \in RunRecord
  <2> HIDE DEF fin
  <2>1. fin.succeeded + 1 \in Nat /\ fin.records + ex[r].extracted \in Nat
    BY <1>1, <1>2 DEF RunRecord
  <2> QED  BY <1>2, <2>1 DEF RunRecord
<1>4. ex' \in [Runs -> RunRecord]
  BY <1>3, BecomeType DEF recipe_succeeded
<1> QED  BY <1>4 DEF recipe_succeeded, db, TypeOK

LEMMA RecipesDoneType ==
  ASSUME TypeOK, NEW r \in Runs, recipes_done(r)
  PROVE  TypeOK'
<1> DEFINE reported == ex[r].declines \cup ex[r].outcomes
<1>1. ex[r] \in RunRecord /\ reported \in SUBSET (Decline \cup RecipeOutcome)
  BY DEF TypeOK, RunRecord
<1>2. [ex[r] EXCEPT !.pc = "persisting", !.unsaved = reported] \in RunRecord
  <2> HIDE DEF reported
  <2> QED  BY <1>1 DEF RunRecord, Phases
<1>3. ex' \in [Runs -> RunRecord]
  BY <1>2, BecomeType DEF recipes_done
<1> QED  BY <1>3 DEF recipes_done, db, TypeOK

LEMMA PersistType ==
  ASSUME TypeOK, NEW r \in Runs, persist_run_outcomes(r)
  PROVE  TypeOK'
<1>1. faults' \in 0..MaxFaults
  BY FaultsType DEF persist_run_outcomes
<1>2. ex[r] \in RunRecord
  BY DEF TypeOK
<1>3. ex[r].unsaved \subseteq Decline \cup RecipeOutcome
  BY <1>2 DEF RunRecord
<1>4. outcome_rows' \in [Runs -> SUBSET (Decline \cup RecipeOutcome)]
  <2>1. \/ UNCHANGED outcome_rows
        \/ \E o \in ex[r].unsaved : outcome_rows' = [outcome_rows EXCEPT ![r] = @ \cup {o}]
    BY DEF persist_run_outcomes
  <2> QED  BY <1>3, <2>1 DEF TypeOK
<1>5. ex' \in [Runs -> RunRecord]
  <2>1. CASE Goto(r, "closing")
    BY <2>1, GotoType DEF Phases
  <2>2. ASSUME NEW o, Become(r, [ex[r] EXCEPT !.unsaved = @ \ {o}])
        PROVE  ex' \in [Runs -> RunRecord]
    <3>1. [ex[r] EXCEPT !.unsaved = @ \ {o}] \in RunRecord
      BY <1>2 DEF RunRecord
    <3> QED  BY <2>2, <3>1, BecomeType
  <2> QED  BY <2>1, <2>2 DEF persist_run_outcomes
<1> QED  BY <1>1, <1>4, <1>5 DEF persist_run_outcomes, TypeOK

LEMMA UpdateFetchRunType ==
  ASSUME TypeOK, NEW r \in Runs, update_fetch_run(r)
  PROVE  TypeOK'
<1>1. faults' \in 0..MaxFaults
  BY FaultsType DEF update_fetch_run
<1>2. ex' \in [Runs -> RunRecord]
  BY GotoType DEF update_fetch_run, Phases
<1>3. ex[r] \in RunRecord
  BY DEF TypeOK
<1>4. Cardinality(ex[r].work) \in Nat
  <2>1. ex[r].work \in SUBSET Recipe
    BY <1>3 DEF RunRecord
  <2> QED  BY <2>1, RecipeFinite, FS_Subset, FS_CardinalityType
<1>5. [state |-> "closed", error |-> FALSE, attempted |-> Cardinality(ex[r].work),
       succeeded |-> ex[r].succeeded, records |-> ex[r].records] \in FetchRunRow
  BY <1>3, <1>4 DEF RunRecord, FetchRunRow
<1>6. fetch_runs' \in [Runs -> FetchRunRow]
  BY <1>5 DEF update_fetch_run, TypeOK
<1> QED  BY <1>1, <1>2, <1>6 DEF update_fetch_run, TypeOK

LEMMA KillType == TypeOK /\ Kill => TypeOK'
<1> SUFFICES ASSUME TypeOK, Kill  PROVE TypeOK'
  OBVIOUS
<1>1. [Idle EXCEPT !.pc = "killed"] \in RunRecord
  BY IdleType DEF RunRecord, Phases
<1>2. ex' \in [Runs -> RunRecord]
  BY <1>1 DEF Kill, TypeOK
<1> QED  BY <1>2 DEF Kill, db, TypeOK

LEMMA DecideType == TypeOK /\ Decide => TypeOK'
BY DEF TypeOK, Decide, accept_plan, reject_plan

LEMMA RunStepType ==
  ASSUME TypeOK, WorkingOnOne, NEW r \in Runs, insert_fetch_run(r) \/ RunStep(r)
  PROVE  TypeOK'
BY RowActionsType, LoadRecipesType, NominationDoneType, SaveRecipeType, AuthoringDoneType,
   FetchType, ApplyType, InsertRecordType, RecipeSucceededType, RecipesDoneType,
   PersistType, UpdateFetchRunType
DEF RunStep

LEMMA StutterType == TypeOK /\ UNCHANGED vars => TypeOK'
BY DEF TypeOK, vars, db

-----------------------------------------------------------------------------
(***************************************************************************)
(* The shape of a step of one run                                          *)
(***************************************************************************)

\* A step of a run touches no row, table slice or variable of another run, and
\* it takes the run from one phase to one of a few others.
StepOf(r) ==
  /\ \A s \in Runs \ {r} :
       /\ ex'[s] = ex[s]
       /\ fetch_runs'[s] = fetch_runs[s]
       /\ outcome_rows'[s] = outcome_rows[s]
       /\ stored'[s] = stored[s]
       /\ documents'[s] = documents[s]
  /\ status' = status
  /\ Active(r) \/ ex[r].pc = "idle"

LEMMA RunStepShape ==
  ASSUME TypeOK, NEW r \in Runs, insert_fetch_run(r) \/ RunStep(r)
  PROVE  StepOf(r)
<1> USE DEF TypeOK, StepOf, Active, Become, Goto, Abort, db
<1>1. CASE insert_fetch_run(r)
  BY <1>1 DEF insert_fetch_run
<1>2. CASE prepare_plan(r)
  BY <1>2 DEF prepare_plan
<1>3. CASE close_run_with_error(r)
  BY <1>3 DEF close_run_with_error
<1>4. CASE load_recipes(r)
  BY <1>4 DEF load_recipes
<1>5. CASE \E n \in Nominations : nomination_done(r, n)
  BY <1>5 DEF nomination_done
<1>6. CASE \E rec \in Recipe : save_recipe(r, rec)
  BY <1>6 DEF save_recipe
<1>7. CASE authoring_done(r)
  BY <1>7 DEF authoring_done
<1>8. CASE \E rec \in Recipe : fetch_recipe_bytes(r, rec)
  BY <1>8 DEF fetch_recipe_bytes
<1>9. CASE apply(r)
  BY <1>9 DEF apply
<1>10. CASE insert_record(r)
  BY <1>10 DEF insert_record
<1>11. CASE recipe_succeeded(r)
  BY <1>11 DEF recipe_succeeded
<1>12. CASE recipes_done(r)
  BY <1>12 DEF recipes_done
<1>13. CASE persist_run_outcomes(r)
  BY <1>13 DEF persist_run_outcomes
<1>14. CASE update_fetch_run(r)
  BY <1>14 DEF update_fetch_run
<1> QED
  BY <1>1, <1>2, <1>3, <1>4, <1>5, <1>6, <1>7, <1>8, <1>9, <1>10, <1>11, <1>12,
     <1>13, <1>14
  DEF RunStep

\* What the ways of writing ex[r] leave in the fields the proofs below look at.
LEMMA Written ==
  ASSUME TypeOK, NEW r \in Runs
  PROVE  /\ \A rr : Become(r, rr) => ex'[r] = rr
         /\ \A phase : Goto(r, phase) =>
              /\ ex'[r].pc = phase
              /\ ex'[r].saving = ex[r].saving
              /\ ex'[r].work = ex[r].work
              /\ ex'[r].current = ex[r].current
         /\ \A phase : Abort(r, phase) =>
              /\ ex'[r].pc = phase
              /\ ex'[r].saving = {}
         /\ \A rec, kind, n : Finish(r, rec, kind, n).pc = "running"
         /\ \A rec, kind, n : Finish(r, rec, kind, n).saving = ex[r].saving
<1>1. ex[r] \in RunRecord /\ ex \in [Runs -> RunRecord]
  BY DEF TypeOK
<1>2. \A rr : Become(r, rr) => ex'[r] = rr
  BY <1>1 DEF Become
<1>3. ASSUME NEW phase, Goto(r, phase)
      PROVE  /\ ex'[r].pc = phase
             /\ ex'[r].saving = ex[r].saving
             /\ ex'[r].work = ex[r].work
             /\ ex'[r].current = ex[r].current
  BY <1>1, <1>2, <1>3 DEF Goto, RunRecord
<1>4. ASSUME NEW phase, Abort(r, phase)
      PROVE  ex'[r].pc = phase /\ ex'[r].saving = {}
  BY <1>2, <1>4 DEF Abort, Idle
<1>5. \A rec, kind, n : /\ Finish(r, rec, kind, n).pc = "running"
                        /\ Finish(r, rec, kind, n).saving = ex[r].saving
  BY <1>1 DEF Finish, RunRecord
<1> QED  BY <1>2, <1>3, <1>4, <1>5

LEMMA NominationFailedWritten ==
  ASSUME TypeOK, NEW r \in Runs, NEW f, NEW h,
         Become(r, [ex[r] EXCEPT !.futures = f, !.hardErr = h])
  PROVE  ex'[r].pc = ex[r].pc /\ ex'[r].saving = ex[r].saving
<1>1. ex[r] \in RunRecord
  BY DEF TypeOK
<1>2. ex'[r] = [ex[r] EXCEPT !.futures = f, !.hardErr = h]
  BY Written
<1> QED  BY <1>1, <1>2 DEF RunRecord

LEMMA NominationWritten ==
  ASSUME TypeOK, NEW r \in Runs, NEW f, NEW s, NEW d,
         Become(r, [ex[r] EXCEPT !.futures = f, !.saving = s, !.declines = d])
  PROVE  ex'[r].pc = ex[r].pc /\ ex'[r].saving = s
<1>1. ex[r] \in RunRecord
  BY DEF TypeOK
<1>2. ex'[r] = [ex[r] EXCEPT !.futures = f, !.saving = s, !.declines = d]
  BY Written
<1> QED  BY <1>1, <1>2 DEF RunRecord

\* The phases each action leads to, with what it leaves in `current` and `saving`.
LEMMA RowPhases ==
  ASSUME TypeOK, NEW r \in Runs,
         \/ insert_fetch_run(r) \/ prepare_plan(r) \/ close_run_with_error(r)
         \/ update_fetch_run(r)
  PROVE  /\ ex'[r].pc \in {"opened", "prepared", "erring", "failed", "done"}
         /\ ex'[r].saving = {} \/ ex'[r].saving = ex[r].saving
BY Written DEF insert_fetch_run, prepare_plan, close_run_with_error, update_fetch_run

LEMMA AuthoringPhases ==
  ASSUME TypeOK, NEW r \in Runs,
         \/ load_recipes(r)
         \/ \E n \in Nominations : nomination_done(r, n)
         \/ \E rec \in Recipe : save_recipe(r, rec)
         \/ authoring_done(r)
  PROVE  ex'[r].pc \in {"running", "authoring", "erring"}
<1>1. ex[r] \in RunRecord
  BY DEF TypeOK
<1>2. CASE load_recipes(r)
  <2>1. \/ ex'[r] = [ex[r] EXCEPT !.pc = "running", !.work = recipes, !.todo = recipes]
        \/ ex'[r] = [ex[r] EXCEPT !.pc = "authoring", !.futures = Nominations,
                                  !.declines = LegacyIds]
        \/ Abort(r, "erring")
    BY <1>2, Written DEF load_recipes
  <2> QED  BY <1>1, <2>1, Written DEF RunRecord
<1>3. CASE \E n \in Nominations : nomination_done(r, n)
  <2>1. \/ \E f, s, d : Become(r, [ex[r] EXCEPT !.futures = f, !.saving = s, !.declines = d])
        \/ \E f, h : Become(r, [ex[r] EXCEPT !.futures = f, !.hardErr = h])
    BY <1>3, Zenon DEF nomination_done
  <2>2. ex[r].pc = "authoring"
    BY <1>3 DEF nomination_done
  <2>3. ASSUME NEW f, NEW s, NEW d,
               Become(r, [ex[r] EXCEPT !.futures = f, !.saving = s, !.declines = d])
        PROVE  ex'[r].pc = "authoring"
    BY <2>2, <2>3, NominationWritten
  <2>4. ASSUME NEW f, NEW h, Become(r, [ex[r] EXCEPT !.futures = f, !.hardErr = h])
        PROVE  ex'[r].pc = "authoring"
    BY <1>1, <2>2, <2>4, Written DEF RunRecord
  <2> QED  BY <2>1, <2>3, <2>4
<1>4. CASE \E rec \in Recipe : save_recipe(r, rec)
  <2>1. PICK rec \in Recipe : save_recipe(r, rec)
    BY <1>4
  <2>2. \/ ex'[r] = [ex[r] EXCEPT !.saving = @ \ {rec}, !.work = @ \cup {rec}]
        \/ Abort(r, "erring")
    BY <2>1, Written DEF save_recipe
  <2>3. ex[r].pc = "authoring"
    BY <2>1 DEF save_recipe
  <2> QED  BY <1>1, <2>2, <2>3, Written DEF RunRecord
<1>5. CASE authoring_done(r)
  BY <1>1, <1>5, Written DEF authoring_done, RunRecord
<1> QED  BY <1>2, <1>3, <1>4, <1>5

LEMMA RecipePhases ==
  ASSUME TypeOK, WorkingOnOne, NEW r \in Runs,
         \/ \E rec \in Recipe : fetch_recipe_bytes(r, rec)
         \/ apply(r) \/ insert_record(r) \/ recipe_succeeded(r)
         \/ recipes_done(r) \/ persist_run_outcomes(r)
  PROVE  /\ ex'[r].pc \in {"running", "fetched", "inserting", "persisting", "closing"}
         /\ ex'[r].pc \in {"fetched", "inserting"} => ex'[r].current \in Recipe
         /\ ex'[r].saving = ex[r].saving
<1>1. ex[r] \in RunRecord
  BY DEF TypeOK
<1>2. ASSUME NEW rec \in Recipe, fetch_recipe_bytes(r, rec)
      PROVE  /\ ex'[r].pc \in {"running", "fetched"}
             /\ ex'[r].pc = "fetched" => ex'[r].current \in Recipe
             /\ ex'[r].saving = ex[r].saving
  <2>1. \/ \E kind : ex'[r] = Finish(r, rec, kind, 0)
        \/ ex'[r] = [ex[r] EXCEPT !.pc = "fetched", !.current = rec]
    BY <1>2, Written DEF fetch_recipe_bytes
  <2>2. CASE \E kind : ex'[r] = Finish(r, rec, kind, 0)
    BY <2>2, Written
  <2>3. CASE ex'[r] = [ex[r] EXCEPT !.pc = "fetched", !.current = rec]
    BY <1>1, <2>3 DEF RunRecord
  <2> QED  BY <2>1, <2>2, <2>3
<1>3. CASE apply(r)
  <2>1. \/ \E stage : ex'[r] = Finish(r, ex[r].current, stage, 0)
        \/ \E n : ex'[r] = [ex[r] EXCEPT !.pc = "inserting", !.extracted = n]
    BY <1>3, Written DEF apply
  <2>2. CASE \E stage : ex'[r] = Finish(r, ex[r].current, stage, 0)
    BY <2>2, Written
  <2>3. CASE \E n : ex'[r] = [ex[r] EXCEPT !.pc = "inserting", !.extracted = n]
    BY <1>1, <1>3, <2>3 DEF RunRecord, apply, WorkingOnOne
  <2> QED  BY <2>1, <2>2, <2>3
<1>4. CASE insert_record(r)
  <2>1. \/ ex'[r] = Finish(r, ex[r].current, "insert", 0)
        \/ ex'[r] = [ex[r] EXCEPT !.inserted = @ + 1]
    BY <1>4, Written DEF insert_record
  <2>2. CASE ex'[r] = Finish(r, ex[r].current, "insert", 0)
    BY <2>2, Written
  <2>3. CASE ex'[r] = [ex[r] EXCEPT !.inserted = @ + 1]
    BY <1>1, <1>4, <2>3 DEF RunRecord, insert_record, WorkingOnOne
  <2> QED  BY <2>1, <2>2, <2>3
<1>5. CASE recipe_succeeded(r)
  <2> DEFINE fin == Finish(r, ex[r].current, "succeeded", ex[r].extracted)
  <2>1. ex'[r] = [fin EXCEPT !.succeeded = @ + 1, !.records = @ + ex[r].extracted]
    BY <1>5, Written DEF recipe_succeeded
  <2>2. fin \in RunRecord
    BY <1>1, <1>5, FinishType DEF recipe_succeeded, WorkingOnOne, Kinds, RunRecord
  <2>3. fin.pc = "running" /\ fin.saving = ex[r].saving
    BY Written
  <2> HIDE DEF fin
  <2> QED  BY <2>1, <2>2, <2>3 DEF RunRecord
<1>6. CASE recipes_done(r)
  <2> DEFINE reported == ex[r].declines \cup ex[r].outcomes
  <2>1. ex'[r] = [ex[r] EXCEPT !.pc = "persisting", !.unsaved = reported]
    BY <1>6, Written DEF recipes_done
  <2> HIDE DEF reported
  <2> QED  BY <1>1, <2>1 DEF RunRecord
<1>7. CASE persist_run_outcomes(r)
  <2>1. Goto(r, "closing") \/ \E o : ex'[r] = [ex[r] EXCEPT !.unsaved = @ \ {o}]
    BY <1>7, Written DEF persist_run_outcomes
  <2>2. CASE Goto(r, "closing")
    BY <2>2, Written
  <2>3. CASE \E o : ex'[r] = [ex[r] EXCEPT !.unsaved = @ \ {o}]
    BY <1>1, <1>7, <2>3 DEF RunRecord, persist_run_outcomes
  <2> QED  BY <2>1, <2>2, <2>3
<1> QED  BY <1>2, <1>3, <1>4, <1>5, <1>6, <1>7

LEMMA WorkingStep ==
  ASSUME TypeOK, WorkingOnOne, NEW r \in Runs, insert_fetch_run(r) \/ RunStep(r)
  PROVE  WorkingOnOne'
<1>1. StepOf(r)
  BY RunStepShape
<1>2. ex'[r].pc \in {"fetched", "inserting"} => ex'[r].current \in Recipe
  BY RowPhases, AuthoringPhases, RecipePhases DEF RunStep
<1> QED  BY <1>1, <1>2 DEF StepOf, WorkingOnOne

LEMMA WorkingNext == TypeOK /\ WorkingOnOne /\ [Next]_vars => WorkingOnOne'
<1> SUFFICES ASSUME TypeOK, WorkingOnOne, [Next]_vars  PROVE WorkingOnOne'
  OBVIOUS
<1>1. CASE Decide \/ UNCHANGED vars
  BY <1>1 DEF WorkingOnOne, Decide, accept_plan, reject_plan, vars
<1>2. CASE Kill
  <2>1. ASSUME NEW r \in Runs, ex'[r].pc \in {"fetched", "inserting"}
        PROVE  ex'[r] = ex[r]
    BY <1>2, <2>1 DEF Kill, Idle
  <2> QED  BY <2>1 DEF WorkingOnOne
<1>3. ASSUME NEW r \in Runs, insert_fetch_run(r) \/ RunStep(r)  PROVE WorkingOnOne'
  BY <1>3, WorkingStep
<1> QED  BY <1>1, <1>2, <1>3 DEF Next

LEMMA TypeNext == TypeOK /\ WorkingOnOne /\ [Next]_vars => TypeOK'
BY RunStepType, DecideType, KillType, StutterType DEF Next

\* Type correctness: every table and every local variable of every run holds what
\* its Rust type allows, whatever the plan and the number of runs.
THEOREM TypeCorrect == Spec => [](TypeOK /\ WorkingOnOne)
<1>1. Init => TypeOK /\ WorkingOnOne
  BY InitType DEF Init, WorkingOnOne, Idle
<1>2. TypeOK /\ WorkingOnOne /\ [Next]_vars => TypeOK' /\ WorkingOnOne'
  BY TypeNext, WorkingNext
<1> QED  BY <1>1, <1>2, PTL DEF Spec

-----------------------------------------------------------------------------
(***************************************************************************)
(* Closing the row is the last thing a run does                            *)
(***************************************************************************)

\* A run whose row is closed has ended, so none of its actions is enabled.
ClosedHasEnded ==
  \A r \in Runs : fetch_runs[r].state = "closed" => ex[r].pc \in {"done", "failed"}

LEMMA ClosedStep ==
  ASSUME TypeOK, WorkingOnOne, ClosedHasEnded,
         NEW r \in Runs, insert_fetch_run(r) \/ RunStep(r)
  PROVE  ClosedHasEnded'
<1>1. StepOf(r)
  BY RunStepShape
<1>2. fetch_runs[r].state # "closed"
  BY <1>1 DEF StepOf, Active, ClosedHasEnded
<1>3. fetch_runs'[r].state = "closed" => ex'[r].pc \in {"done", "failed"}
  <2>1. CASE close_run_with_error(r) \/ update_fetch_run(r)
    BY <2>1, Written DEF close_run_with_error, update_fetch_run
  <2>2. CASE insert_fetch_run(r)
    <3>1. fetch_runs'[r].state # "closed"
      BY <1>2, <2>2 DEF insert_fetch_run, TypeOK, FetchRunRow
    <3> QED  BY <3>1
  <2>3. CASE ~(close_run_with_error(r) \/ update_fetch_run(r) \/ insert_fetch_run(r))
    <3>1. UNCHANGED fetch_runs
      BY <2>3
      DEF RunStep, db, prepare_plan, load_recipes, nomination_done, save_recipe,
          authoring_done, fetch_recipe_bytes, apply, insert_record, recipe_succeeded,
          recipes_done, persist_run_outcomes
    <3> QED  BY <1>2, <3>1
  <2> QED  BY <2>1, <2>2, <2>3
<1> QED  BY <1>1, <1>3 DEF StepOf, ClosedHasEnded

LEMMA ClosedNext == TypeOK /\ WorkingOnOne /\ ClosedHasEnded /\ [Next]_vars => ClosedHasEnded'
<1> SUFFICES ASSUME TypeOK, WorkingOnOne, ClosedHasEnded, [Next]_vars  PROVE ClosedHasEnded'
  OBVIOUS
<1>1. CASE Decide \/ UNCHANGED vars
  BY <1>1 DEF ClosedHasEnded, Decide, accept_plan, reject_plan, vars, db
<1>2. CASE Kill
  BY <1>2 DEF ClosedHasEnded, Kill, Active, db
<1>3. ASSUME NEW r \in Runs, insert_fetch_run(r) \/ RunStep(r)  PROVE ClosedHasEnded'
  BY <1>3, ClosedStep
<1> QED  BY <1>1, <1>2, <1>3 DEF Next

\* Once its row is closed a run adds no record, Document, attempt or outcome row,
\* however many runs overlap and wherever the process dies.
THEOREM ClosedIsFinal == Spec => ClosingIsLast
<1> DEFINE I == TypeOK /\ WorkingOnOne /\ ClosedHasEnded
           Frozen(r) ==
             /\ fetch_runs'[r] = fetch_runs[r]
             /\ stored'[r] = stored[r]
             /\ documents'[r] = documents[r]
             /\ outcome_rows'[r] = outcome_rows[r]
             /\ \A rec \in Recipe : <<r, rec>> \in attempts' => <<r, rec>> \in attempts
           A == \A r \in Runs : fetch_runs[r].state = "closed" => Frozen(r)
<1>1. Init => I
  BY InitType DEF Init, WorkingOnOne, ClosedHasEnded, Idle, Absent
<1>2. I /\ [Next]_vars => I'
  BY TypeNext, WorkingNext, ClosedNext
<1>3. I /\ [Next]_vars => A
  <2> SUFFICES ASSUME I, [Next]_vars, NEW r \in Runs, fetch_runs[r].state = "closed"
               PROVE  Frozen(r)
    OBVIOUS
  <2>1. CASE Decide \/ Kill \/ UNCHANGED vars
    BY <2>1 DEF Decide, accept_plan, reject_plan, Kill, vars, db
  <2>2. ASSUME NEW s \in Runs, insert_fetch_run(s) \/ RunStep(s)
        PROVE  Frozen(r)
    <3>1. StepOf(s)
      BY <2>2, RunStepShape
    <3>2. s # r
      BY <3>1 DEF StepOf, Active, ClosedHasEnded
    <3>3. ASSUME NEW rec \in Recipe, <<r, rec>> \in attempts'
          PROVE  <<r, rec>> \in attempts
      <4>1. \/ UNCHANGED attempts
            \/ \E x : attempts' = attempts \cup {<<s, x>>}
        BY <2>2
        DEF RunStep, db, insert_fetch_run, prepare_plan, close_run_with_error, load_recipes,
            nomination_done, save_recipe, authoring_done, fetch_recipe_bytes, apply,
            record_apply_failure_attempt, insert_record, recipe_succeeded, recipes_done,
            persist_run_outcomes, update_fetch_run
      <4> QED  BY <3>2, <3>3, <4>1
    <3> QED  BY <3>1, <3>2, <3>3 DEF StepOf
  <2> QED  BY <2>1, <2>2 DEF Next
<1>4. I /\ [Next]_vars => [A]_vars
  BY <1>3
<1> HIDE DEF A, I
<1>5. Spec => [][A]_vars
  BY <1>1, <1>2, <1>4, PTL DEF Spec
<1> QED  BY <1>5 DEF ClosingIsLast, A

-----------------------------------------------------------------------------
(***************************************************************************)
(* Runs that do not overlap author a recipe once                           *)
(***************************************************************************)

\* Without overlap at most one run is active, and while it is authoring every
\* recipe there is, saved or about to be, is its own.
OneActive == \A r, s \in Runs : Active(r) /\ Active(s) => r = s

OneAuthor ==
  \A r \in Runs :
    IF ex[r].pc = "authoring"
      THEN \A x \in recipes \cup ex[r].saving : x.by = r
      ELSE ex[r].saving = {}

SameAuthor == \A x, y \in recipes : x.by = y.by

LEMMA SameAuthorSuffices == TypeOK /\ SameAuthor => UniqueDedupKeys
BY DEF TypeOK, SameAuthor, UniqueDedupKeys, Recipe, dedup_key

SerialInv == OneActive /\ OneAuthor /\ SameAuthor

LEMMA SerialStep ==
  ASSUME ~Overlap, TypeOK, WorkingOnOne, SerialInv,
         NEW r \in Runs, insert_fetch_run(r) \/ RunStep(r)
  PROVE  SerialInv'
<1> USE DEF SerialInv
<1>1. StepOf(r)
  BY RunStepShape
<1>2. \A s \in Runs \ {r} : ~Active(s)
  BY <1>1 DEF StepOf, OneActive, insert_fetch_run, RunStep, load_recipes, nomination_done,
     save_recipe, authoring_done, fetch_recipe_bytes, apply, insert_record, recipe_succeeded,
     recipes_done, persist_run_outcomes, update_fetch_run, prepare_plan,
     close_run_with_error, Active
<1>3. OneActive'
  BY <1>1, <1>2 DEF OneActive, StepOf, Active
<1>4. \A s \in Runs \ {r} : ex'[s].pc # "authoring" /\ ex'[s].saving = {}
  BY <1>1, <1>2 DEF StepOf, Active, OneAuthor
<1>5. CASE \E rec \in Recipe : save_recipe(r, rec)
  <2>1. PICK rec \in Recipe : save_recipe(r, rec)
    BY <1>5
  <2>2. /\ ex[r].pc = "authoring"
        /\ rec \in ex[r].saving
        /\ \A x \in recipes \cup ex[r].saving : x.by = r
    BY <2>1 DEF save_recipe, OneAuthor
  <2>3. recipes' \subseteq recipes \cup {rec}
    BY <2>1 DEF save_recipe
  <2>4. \/ ex'[r].pc = "authoring" /\ ex'[r].saving \subseteq ex[r].saving
        \/ ex'[r].pc = "erring" /\ ex'[r].saving = {}
    <3>1. ex[r] \in RunRecord
      BY DEF TypeOK
    <3>2. CASE ex'[r] = [ex[r] EXCEPT !.saving = @ \ {rec}, !.work = @ \cup {rec}]
      BY <2>2, <3>1, <3>2 DEF RunRecord
    <3>3. CASE Abort(r, "erring")
      BY <3>3, Written
    <3> QED  BY <2>1, <3>2, <3>3, Written DEF save_recipe
  <2> QED  BY <1>3, <1>4, <2>2, <2>3, <2>4 DEF OneAuthor, SameAuthor
<1>6. CASE ~\E rec \in Recipe : save_recipe(r, rec)
  <2>1. recipes' = recipes
    BY <1>6 DEF RunStep, db, insert_fetch_run, prepare_plan, close_run_with_error,
       load_recipes, nomination_done, authoring_done, fetch_recipe_bytes, apply,
       insert_record, recipe_succeeded, recipes_done, persist_run_outcomes, update_fetch_run
  <2>2. IF ex'[r].pc = "authoring"
          THEN \A x \in recipes \cup ex'[r].saving : x.by = r
          ELSE ex'[r].saving = {}
    <3>0. ex[r] \in RunRecord
      BY DEF TypeOK
    <3>1. CASE load_recipes(r)
      <4>1. ex[r].saving = {}
        BY <3>1 DEF load_recipes, OneAuthor
      <4>2. CASE ex'[r] = [ex[r] EXCEPT !.pc = "running", !.work = recipes, !.todo = recipes]
        BY <3>0, <4>1, <4>2 DEF RunRecord
      <4>3. CASE /\ recipes = {}
                 /\ ex'[r] = [ex[r] EXCEPT !.pc = "authoring", !.futures = Nominations,
                                           !.declines = LegacyIds]
        BY <3>0, <4>1, <4>3 DEF RunRecord
      <4>4. CASE Abort(r, "erring")
        BY <4>4, Written
      <4> QED  BY <3>1, <4>2, <4>3, <4>4, Written DEF load_recipes
    <3>2. CASE \E n \in Nominations : nomination_done(r, n)
      <4>1. PICK n \in Nominations : nomination_done(r, n)
        BY <3>2
      <4>2. ex[r].pc = "authoring" /\ \A x \in recipes \cup ex[r].saving : x.by = r
        BY <4>1 DEF nomination_done, OneAuthor
      <4>3. ASSUME NEW res \in AuthoredResult,
                   Become(r, [ex[r] EXCEPT
                                !.futures  = @ \ {n},
                                !.saving   = [nom : {n}, tgt : res.authored, by : {r}],
                                !.declines = @ \cup [nom : {n}, tgt : res.declined]])
            PROVE  /\ ex'[r].pc = "authoring"
                   /\ ex'[r].saving = [nom : {n}, tgt : res.authored, by : {r}]
        <5> DEFINE f == ex[r].futures \ {n}
                   sv == [nom : {n}, tgt : res.authored, by : {r}]
                   d == ex[r].declines \cup [nom : {n}, tgt : res.declined]
        <5>1. Become(r, [ex[r] EXCEPT !.futures = f, !.saving = sv, !.declines = d])
          BY <4>3
        <5> HIDE DEF f, sv, d
        <5>2. ex'[r].pc = ex[r].pc /\ ex'[r].saving = sv
          BY <5>1, NominationWritten
        <5> QED  BY <4>2, <5>2 DEF sv
      <4>4. CASE Become(r, [ex[r] EXCEPT !.futures = @ \ {n}, !.hardErr = @ \cup {n}])
        <5> DEFINE f == ex[r].futures \ {n}
                   h == ex[r].hardErr \cup {n}
        <5>1. Become(r, [ex[r] EXCEPT !.futures = f, !.hardErr = h])
          BY <4>4
        <5> HIDE DEF f, h
        <5>2. ex'[r].pc = ex[r].pc /\ ex'[r].saving = ex[r].saving
          BY <5>1, NominationFailedWritten
        <5>3. ex[r].saving = {}
          BY <4>1 DEF nomination_done
        <5> QED  BY <4>2, <5>2, <5>3
      <4>5. ASSUME NEW res \in AuthoredResult,
                   ex'[r].saving = [nom : {n}, tgt : res.authored, by : {r}]
            PROVE  \A x \in ex'[r].saving : x.by = r
        BY <4>5
      <4>6. \/ \E res \in AuthoredResult :
                 Become(r, [ex[r] EXCEPT
                              !.futures  = @ \ {n},
                              !.saving   = [nom : {n}, tgt : res.authored, by : {r}],
                              !.declines = @ \cup [nom : {n}, tgt : res.declined]])
            \/ Become(r, [ex[r] EXCEPT !.futures = @ \ {n}, !.hardErr = @ \cup {n}])
        BY <4>1, Zenon DEF nomination_done
      <4> QED  BY <4>2, <4>3, <4>4, <4>5, <4>6
    <3>3. CASE authoring_done(r)
      <4>1. ex'[r] = [ex[r] EXCEPT !.pc = "running", !.todo = ex[r].work]
        BY <3>3, Written DEF authoring_done
      <4> QED  BY <3>0, <3>3, <4>1 DEF RunRecord, authoring_done
    <3>4. CASE \/ insert_fetch_run(r) \/ prepare_plan(r) \/ close_run_with_error(r)
               \/ update_fetch_run(r)
      <4>1. ex[r].saving = {}
        BY <3>4
        DEF OneAuthor, insert_fetch_run, prepare_plan, close_run_with_error, update_fetch_run
      <4> QED  BY <3>4, <4>1, RowPhases
    <3>5. CASE \/ \E rec \in Recipe : fetch_recipe_bytes(r, rec)
               \/ apply(r) \/ insert_record(r) \/ recipe_succeeded(r)
               \/ recipes_done(r) \/ persist_run_outcomes(r)
      <4>1. ex[r].saving = {}
        BY <3>5
        DEF OneAuthor, fetch_recipe_bytes, apply, insert_record, recipe_succeeded,
            recipes_done, persist_run_outcomes
      <4> QED  BY <3>5, <4>1, RecipePhases
    <3> QED  BY <1>6, <3>1, <3>2, <3>3, <3>4, <3>5 DEF RunStep
  <2> QED  BY <1>3, <1>4, <2>1, <2>2 DEF OneAuthor, SameAuthor
<1> QED  BY <1>5, <1>6

\* Runs that never overlap author each recipe of the plan once, over any number of
\* runs, failing store calls and crashes.
THEOREM SerialRunsAuthorOnce ==
  ASSUME ~Overlap  PROVE Spec => []UniqueDedupKeys
<1>1. Init => SerialInv
  BY DEF Init, SerialInv, OneActive, OneAuthor, SameAuthor, Active, Idle
<1>2. TypeOK /\ WorkingOnOne /\ SerialInv /\ [Next]_vars => SerialInv'
  <2> SUFFICES ASSUME TypeOK, WorkingOnOne, SerialInv, [Next]_vars  PROVE SerialInv'
    OBVIOUS
  <2>1. CASE Decide \/ UNCHANGED vars
    BY <2>1
    DEF SerialInv, OneActive, OneAuthor, SameAuthor, Active, Decide, accept_plan,
        reject_plan, vars, db
  <2>2. CASE Kill
    <3>1. \A r \in Runs : ex'[r].pc # "authoring" /\ ex'[r].saving = {} /\ ~Active(r)'
      BY <2>2 DEF Kill, SerialInv, OneAuthor, Active, Idle
    <3> QED  BY <2>2, <3>1 DEF SerialInv, OneActive, OneAuthor, SameAuthor, Kill, db
  <2>3. ASSUME NEW r \in Runs, insert_fetch_run(r) \/ RunStep(r)  PROVE SerialInv'
    BY <2>3, SerialStep
  <2> QED  BY <2>1, <2>2, <2>3 DEF Next
<1>3. TypeOK /\ SerialInv => UniqueDedupKeys
  BY SameAuthorSuffices DEF SerialInv
<1> QED  BY <1>1, <1>2, <1>3, TypeCorrect, PTL DEF Spec

-----------------------------------------------------------------------------
(***************************************************************************)
(* What each action does to the locals of its run, field by field.         *)
(***************************************************************************)
SameAuthoring(a, b) ==
  /\ b.futures = a.futures /\ b.saving = a.saving /\ b.hardErr = a.hardErr
  /\ b.work = a.work /\ b.declines = a.declines

SameReport(a, b) ==
  /\ b.todo = a.todo /\ b.outcomes = a.outcomes
  /\ b.succeeded = a.succeeded /\ b.records = a.records

SameCurrent(a, b) ==
  b.current = a.current /\ b.extracted = a.extracted /\ b.inserted = a.inserted

\* The run goes to another phase and changes nothing else.
Moves(a, b, phase) ==
  /\ b.pc = phase /\ b.unsaved = a.unsaved
  /\ SameAuthoring(a, b) /\ SameReport(a, b) /\ SameCurrent(a, b)

\* The run gives up; what it had is gone.
GivesUp(b, phase) ==
  /\ b.pc = phase /\ b.futures = {} /\ b.saving = {} /\ b.work = {} /\ b.todo = {}
  /\ b.declines = {} /\ b.outcomes = {} /\ b.inserted = 0 /\ b.succeeded = 0 /\ b.records = 0
  /\ b.unsaved = {}

\* The recipe is done with, and its outcome is on the list.
Reports(a, b, rec, kind, n) ==
  /\ b.pc = "running" /\ b.unsaved = a.unsaved /\ SameAuthoring(a, b)
  /\ b.todo = a.todo \ {rec} /\ b.inserted = 0
  /\ b.outcomes = a.outcomes \cup {[rec |-> rec, kind |-> kind, records |-> n]}

LEMMA GotoMoves ==
  ASSUME TypeOK, NEW r \in Runs, NEW phase, Goto(r, phase)
  PROVE  Moves(ex[r], ex'[r], phase)
<1>1. ex[r] \in RunRecord /\ ex'[r] = [ex[r] EXCEPT !.pc = phase]
  BY Written DEF TypeOK, Goto
<1> QED  BY <1>1 DEF RunRecord, Moves, SameAuthoring, SameReport, SameCurrent

LEMMA AbortGivesUp ==
  ASSUME TypeOK, NEW r \in Runs, NEW phase, Abort(r, phase)
  PROVE  GivesUp(ex'[r], phase)
<1>1. ex'[r] = [Idle EXCEPT !.pc = phase, !.hardErr = ex[r].hardErr]
  BY Written DEF Abort
<1> QED  BY <1>1 DEF Idle, GivesUp

LEMMA FinishReports ==
  ASSUME TypeOK, NEW r \in Runs, NEW rec, NEW kind, NEW n
  PROVE  /\ Reports(ex[r], Finish(r, rec, kind, n), rec, kind, n)
         /\ Finish(r, rec, kind, n).succeeded = ex[r].succeeded
         /\ Finish(r, rec, kind, n).records = ex[r].records
<1>1. ex[r] \in RunRecord
  BY DEF TypeOK
<1> QED  BY <1>1 DEF RunRecord, Finish, Reports, SameAuthoring

LEMMA FinishMoves ==
  ASSUME TypeOK, NEW r \in Runs, NEW rec, NEW kind, NEW n, Become(r, Finish(r, rec, kind, n))
  PROVE  /\ Reports(ex[r], ex'[r], rec, kind, n)
         /\ ex'[r].succeeded = ex[r].succeeded /\ ex'[r].records = ex[r].records
<1>1. ex'[r] = Finish(r, rec, kind, n)
  BY Written
<1> QED  BY <1>1, FinishReports

LEMMA RowMoves ==
  ASSUME TypeOK, NEW r \in Runs
  PROVE  /\ insert_fetch_run(r) =>
              /\ ex[r].pc = "idle"
              /\ Moves(ex[r], ex'[r], "opened") \/ GivesUp(ex'[r], "failed")
         /\ prepare_plan(r) =>
              /\ ex[r].pc = "opened"
              /\ Moves(ex[r], ex'[r], "prepared") \/ GivesUp(ex'[r], "erring")
         /\ close_run_with_error(r) => ex[r].pc = "erring" /\ Moves(ex[r], ex'[r], "failed")
         /\ update_fetch_run(r) => ex[r].pc = "closing" /\ Moves(ex[r], ex'[r], "done")
  BY GotoMoves, AbortGivesUp
  DEF insert_fetch_run, prepare_plan, close_run_with_error, update_fetch_run

LEMMA LoadMoves ==
  ASSUME TypeOK, NEW r \in Runs, load_recipes(r)
  PROVE  LET a == ex[r]
             b == ex'[r]
         IN  /\ a.pc = "prepared"
             /\ \/ /\ b.pc = "running" /\ b.work = recipes /\ b.todo = recipes /\ asked' = asked
                   /\ b.saving = a.saving /\ b.outcomes = a.outcomes /\ b.inserted = a.inserted
                   /\ b.succeeded = a.succeeded /\ b.records = a.records /\ b.unsaved = a.unsaved
                \/ /\ b.pc = "authoring" /\ b.futures = Nominations /\ b.declines = LegacyIds
                   /\ b.work = a.work /\ b.saving = a.saving /\ b.hardErr = a.hardErr
                   /\ SameReport(a, b) /\ b.inserted = a.inserted /\ b.unsaved = a.unsaved
                \/ GivesUp(b, "erring") /\ asked' = asked
<1>1. ex[r] \in RunRecord
  BY DEF TypeOK
<1>2. ex[r].pc = "prepared"
  BY DEF load_recipes
<1>3. CASE ex'[r] = [ex[r] EXCEPT !.pc = "running", !.work = recipes, !.todo = recipes] /\ asked' = asked
  BY <1>1, <1>2, <1>3 DEF RunRecord
<1>4. CASE ex'[r] = [ex[r] EXCEPT !.pc = "authoring", !.futures = Nominations, !.declines = LegacyIds]
  BY <1>1, <1>2, <1>4 DEF RunRecord, SameReport
<1>5. CASE Abort(r, "erring") /\ asked' = asked
  BY <1>2, <1>5, AbortGivesUp
<1> QED  BY <1>3, <1>4, <1>5, Written DEF load_recipes

LEMMA NominationMoves ==
  ASSUME TypeOK, NEW r \in Runs, NEW n, nomination_done(r, n)
  PROVE  LET a == ex[r]
             b == ex'[r]
         IN  /\ a.pc = "authoring" /\ a.saving = {} /\ n \in a.futures
             /\ b.pc = "authoring" /\ b.futures = a.futures \ {n} /\ b.work = a.work
             /\ SameReport(a, b) /\ b.inserted = a.inserted /\ b.unsaved = a.unsaved
             /\ \/ \E res \in AuthoredResult :
                     /\ b.saving = [nom : {n}, tgt : res.authored, by : {r}]
                     /\ b.declines = a.declines \cup [nom : {n}, tgt : res.declined]
                     /\ b.hardErr = a.hardErr
                \/ b.saving = {} /\ b.declines = a.declines /\ b.hardErr = a.hardErr \cup {n}
<1>1. ex[r] \in RunRecord
  BY DEF TypeOK
<1>2. ex[r].pc = "authoring" /\ ex[r].saving = {} /\ n \in ex[r].futures
  BY DEF nomination_done
<1>3. ASSUME NEW f, NEW s, NEW d, Become(r, [ex[r] EXCEPT !.futures = f, !.saving = s, !.declines = d])
      PROVE  LET a == ex[r]
                 b == ex'[r]
             IN  /\ b.pc = a.pc /\ b.futures = f /\ b.saving = s /\ b.declines = d /\ b.work = a.work
                 /\ b.hardErr = a.hardErr
                 /\ SameReport(a, b) /\ b.inserted = a.inserted /\ b.unsaved = a.unsaved
  <2>1. ex'[r] = [ex[r] EXCEPT !.futures = f, !.saving = s, !.declines = d]
    BY <1>3, Written
  <2> QED  BY <1>1, <2>1 DEF RunRecord, SameReport
<1>4. ASSUME NEW f, NEW h, Become(r, [ex[r] EXCEPT !.futures = f, !.hardErr = h])
      PROVE  LET a == ex[r]
                 b == ex'[r]
             IN  /\ b.pc = a.pc /\ b.futures = f /\ b.hardErr = h /\ b.saving = a.saving
                 /\ b.declines = a.declines /\ b.work = a.work
                 /\ SameReport(a, b) /\ b.inserted = a.inserted /\ b.unsaved = a.unsaved
  <2>1. ex'[r] = [ex[r] EXCEPT !.futures = f, !.hardErr = h]
    BY <1>4, Written
  <2> QED  BY <1>1, <2>1 DEF RunRecord, SameReport
<1>5. ASSUME NEW res \in AuthoredResult,
             Become(r, [ex[r] EXCEPT !.futures  = @ \ {n},
                                     !.saving   = [nom : {n}, tgt : res.authored, by : {r}],
                                     !.declines = @ \cup [nom : {n}, tgt : res.declined]])
      PROVE  LET a == ex[r]
                 b == ex'[r]
             IN  /\ b.pc = "authoring" /\ b.futures = a.futures \ {n} /\ b.work = a.work
                 /\ SameReport(a, b) /\ b.inserted = a.inserted /\ b.unsaved = a.unsaved
                 /\ b.saving = [nom : {n}, tgt : res.authored, by : {r}]
                 /\ b.declines = a.declines \cup [nom : {n}, tgt : res.declined]
                 /\ b.hardErr = a.hardErr
  <2> DEFINE f == ex[r].futures \ {n}
             s == [nom : {n}, tgt : res.authored, by : {r}]
             d == ex[r].declines \cup [nom : {n}, tgt : res.declined]
  <2>1. Become(r, [ex[r] EXCEPT !.futures = f, !.saving = s, !.declines = d])
    BY <1>5
  <2> HIDE DEF f, s, d
  <2>2. /\ ex'[r].pc = ex[r].pc /\ ex'[r].futures = f /\ ex'[r].saving = s /\ ex'[r].declines = d
        /\ ex'[r].work = ex[r].work /\ ex'[r].hardErr = ex[r].hardErr
        /\ SameReport(ex[r], ex'[r]) /\ ex'[r].inserted = ex[r].inserted /\ ex'[r].unsaved = ex[r].unsaved
    BY <1>3, <2>1
  <2> QED  BY <1>2, <2>2 DEF f, s, d
<1>6. CASE Become(r, [ex[r] EXCEPT !.futures = @ \ {n}, !.hardErr = @ \cup {n}])
  <2> DEFINE f == ex[r].futures \ {n}
             h == ex[r].hardErr \cup {n}
  <2>1. Become(r, [ex[r] EXCEPT !.futures = f, !.hardErr = h])
    BY <1>6
  <2> HIDE DEF f, h
  <2>2. /\ ex'[r].pc = ex[r].pc /\ ex'[r].futures = f /\ ex'[r].hardErr = h
        /\ ex'[r].saving = ex[r].saving /\ ex'[r].declines = ex[r].declines /\ ex'[r].work = ex[r].work
        /\ SameReport(ex[r], ex'[r]) /\ ex'[r].inserted = ex[r].inserted /\ ex'[r].unsaved = ex[r].unsaved
    BY <1>4, <2>1
  <2> QED  BY <1>2, <2>2 DEF f, h
<1>7. \/ \E res \in AuthoredResult :
           Become(r, [ex[r] EXCEPT !.futures  = @ \ {n},
                                   !.saving   = [nom : {n}, tgt : res.authored, by : {r}],
                                   !.declines = @ \cup [nom : {n}, tgt : res.declined]])
      \/ Become(r, [ex[r] EXCEPT !.futures = @ \ {n}, !.hardErr = @ \cup {n}])
  BY Zenon DEF nomination_done
<1>8. CASE \E res \in AuthoredResult :
           Become(r, [ex[r] EXCEPT !.futures  = @ \ {n},
                                   !.saving   = [nom : {n}, tgt : res.authored, by : {r}],
                                   !.declines = @ \cup [nom : {n}, tgt : res.declined]])
  <2>1. PICK res \in AuthoredResult :
           Become(r, [ex[r] EXCEPT !.futures  = @ \ {n},
                                   !.saving   = [nom : {n}, tgt : res.authored, by : {r}],
                                   !.declines = @ \cup [nom : {n}, tgt : res.declined]])
    BY <1>8
  <2> QED  BY <1>2, <1>5, <2>1
<1> QED  BY <1>2, <1>6, <1>7, <1>8

LEMMA SaveMoves ==
  ASSUME TypeOK, NEW r \in Runs, NEW rec, save_recipe(r, rec)
  PROVE  LET a == ex[r]
             b == ex'[r]
         IN  /\ a.pc = "authoring" /\ rec \in a.saving
             /\ \/ /\ b.pc = "authoring" /\ b.saving = a.saving \ {rec} /\ b.work = a.work \cup {rec}
                   /\ b.futures = a.futures /\ b.declines = a.declines /\ b.hardErr = a.hardErr
                   /\ SameReport(a, b) /\ b.inserted = a.inserted /\ b.unsaved = a.unsaved
                \/ GivesUp(b, "erring")
<1>1. ex[r] \in RunRecord
  BY DEF TypeOK
<1>2. ex[r].pc = "authoring" /\ rec \in ex[r].saving
  BY DEF save_recipe
<1>3. CASE ex'[r] = [ex[r] EXCEPT !.saving = @ \ {rec}, !.work = @ \cup {rec}]
  BY <1>1, <1>2, <1>3 DEF RunRecord, SameReport
<1>4. CASE Abort(r, "erring")
  BY <1>2, <1>4, AbortGivesUp
<1> QED  BY <1>3, <1>4, Written DEF save_recipe

LEMMA AuthoringDoneMoves ==
  ASSUME TypeOK, NEW r \in Runs, authoring_done(r)
  PROVE  LET a == ex[r]
             b == ex'[r]
         IN  /\ a.pc = "authoring" /\ a.futures = {} /\ a.saving = {}
             /\ b.pc = "running" /\ b.todo = a.work /\ SameAuthoring(a, b)
             /\ b.outcomes = a.outcomes /\ b.inserted = a.inserted
             /\ b.succeeded = a.succeeded /\ b.records = a.records /\ b.unsaved = a.unsaved
<1>1. ex[r] \in RunRecord
  BY DEF TypeOK
<1>2. ex'[r] = [ex[r] EXCEPT !.pc = "running", !.todo = ex[r].work]
  BY Written DEF authoring_done
<1> QED  BY <1>1, <1>2 DEF RunRecord, SameAuthoring, authoring_done

LEMMA FetchMoves ==
  ASSUME TypeOK, NEW r \in Runs, NEW rec, fetch_recipe_bytes(r, rec)
  PROVE  LET a == ex[r]
             b == ex'[r]
         IN  /\ a.pc = "running" /\ rec \in a.todo
             /\ \/ \E kind \in {"fetch", "rate_limited"} :
                     Reports(a, b, rec, kind, 0) /\ b.succeeded = a.succeeded /\ b.records = a.records
                \/ /\ b.pc = "fetched" /\ b.current = rec /\ b.extracted = a.extracted
                   /\ b.inserted = a.inserted /\ b.unsaved = a.unsaved
                   /\ SameAuthoring(a, b) /\ SameReport(a, b)
<1>1. ex[r] \in RunRecord
  BY DEF TypeOK
<1>2. ex[r].pc = "running" /\ rec \in ex[r].todo
  BY DEF fetch_recipe_bytes
<1>3. CASE \E kind \in {"fetch", "rate_limited"} : Become(r, Finish(r, rec, kind, 0))
  BY <1>2, <1>3, FinishMoves
<1>4. CASE Become(r, [ex[r] EXCEPT !.pc = "fetched", !.current = rec])
  <2>1. ex'[r] = [ex[r] EXCEPT !.pc = "fetched", !.current = rec]
    BY <1>4, Written
  <2> QED  BY <1>1, <1>2, <2>1 DEF RunRecord, SameAuthoring, SameReport
<1> QED  BY <1>3, <1>4 DEF fetch_recipe_bytes

LEMMA ApplyMoves ==
  ASSUME TypeOK, WorkingOnOne, NEW r \in Runs, apply(r)
  PROVE  LET a == ex[r]
             b == ex'[r]
         IN  /\ a.pc = "fetched"
             /\ \/ \E kind \in {"index_page_detected", "apply"} :
                     /\ Reports(a, b, a.current, kind, 0)
                     /\ b.succeeded = a.succeeded /\ b.records = a.records
                \/ \E n \in Nat :
                     /\ b.pc = "inserting" /\ b.extracted = n /\ b.current = a.current
                     /\ b.inserted = a.inserted /\ b.unsaved = a.unsaved
                     /\ SameAuthoring(a, b) /\ SameReport(a, b)
<1>1. ex[r] \in RunRecord
  BY DEF TypeOK
<1>2. ex[r].pc = "fetched" /\ ex[r].current \in Recipe
  BY DEF apply, WorkingOnOne
<1>3. CASE \E stage \in run_one_recipe(ex[r].current) : Become(r, Finish(r, ex[r].current, stage, 0))
  <2>1. run_one_recipe(ex[r].current) \subseteq {"index_page_detected", "apply"}
    <3>1. Mode[ex[r].current.tgt] \in Modes
      BY <1>2, ConstantsAssumption DEF Recipe
    <3> QED
      BY <3>1 DEF Modes, run_one_recipe, run_csv_recipe, run_json_recipe, run_css_recipe,
                  run_regex_recipe, run_pdf_recipe
  <2> QED  BY <1>2, <1>3, <2>1, FinishMoves
<1>4. ASSUME NEW n \in 0..MaxRecords, Become(r, [ex[r] EXCEPT !.pc = "inserting", !.extracted = n])
      PROVE  LET a == ex[r]
                 b == ex'[r]
             IN  /\ n \in Nat /\ b.pc = "inserting" /\ b.extracted = n /\ b.current = a.current
                 /\ b.inserted = a.inserted /\ b.unsaved = a.unsaved
                 /\ SameAuthoring(a, b) /\ SameReport(a, b)
  <2>1. ex'[r] = [ex[r] EXCEPT !.pc = "inserting", !.extracted = n]
    BY <1>4, Written
  <2> QED  BY <1>1, <1>4, <2>1 DEF RunRecord, SameAuthoring, SameReport
<1> QED  BY <1>2, <1>3, <1>4 DEF apply

LEMMA InsertMoves ==
  ASSUME TypeOK, NEW r \in Runs, insert_record(r)
  PROVE  LET a == ex[r]
             b == ex'[r]
         IN  /\ a.pc = "inserting" /\ a.inserted < a.extracted
             /\ \/ /\ b.pc = "inserting" /\ b.inserted = a.inserted + 1 /\ b.extracted = a.extracted
                   /\ b.current = a.current /\ b.unsaved = a.unsaved
                   /\ SameAuthoring(a, b) /\ SameReport(a, b)
                   /\ stored'[r] = stored[r] + 1
                \/ /\ Reports(a, b, a.current, "insert", 0)
                   /\ b.succeeded = a.succeeded /\ b.records = a.records
                   /\ stored'[r] = stored[r]
<1>1. ex[r] \in RunRecord /\ stored \in [Runs -> Nat]
  BY DEF TypeOK
<1>2. ex[r].pc = "inserting" /\ ex[r].inserted < ex[r].extracted
  BY DEF insert_record
<1>3. CASE Become(r, [ex[r] EXCEPT !.inserted = @ + 1]) /\ stored' = [stored EXCEPT ![r] = @ + 1]
  <2>1. ex'[r] = [ex[r] EXCEPT !.inserted = @ + 1]
    BY <1>3, Written
  <2>2. stored'[r] = stored[r] + 1
    BY <1>1, <1>3
  <2> QED  BY <1>1, <1>2, <2>1, <2>2 DEF RunRecord, SameAuthoring, SameReport
<1>4. CASE Become(r, Finish(r, ex[r].current, "insert", 0)) /\ UNCHANGED stored
  BY <1>2, <1>4, FinishMoves
<1> QED  BY <1>3, <1>4 DEF insert_record

LEMMA SucceededMoves ==
  ASSUME TypeOK, NEW r \in Runs, recipe_succeeded(r)
  PROVE  LET a == ex[r]
             b == ex'[r]
         IN  /\ a.pc = "inserting" /\ a.inserted = a.extracted
             /\ Reports(a, b, a.current, "succeeded", a.extracted)
             /\ b.succeeded = a.succeeded + 1 /\ b.records = a.records + a.extracted
<1> DEFINE a == ex[r]
           fin == Finish(r, a.current, "succeeded", a.extracted)
<1>1. a \in RunRecord
  BY DEF TypeOK
<1>2. a.pc = "inserting" /\ a.inserted = a.extracted
  BY DEF recipe_succeeded
<1>3. ex'[r] = [fin EXCEPT !.succeeded = @ + 1, !.records = @ + a.extracted]
  BY Written DEF recipe_succeeded
<1>4. /\ Reports(a, fin, a.current, "succeeded", a.extracted)
      /\ fin.succeeded = a.succeeded /\ fin.records = a.records
  BY FinishReports
<1>5. DOMAIN fin = DOMAIN a /\ fin = [f \in DOMAIN fin |-> fin[f]]
  BY <1>1 DEF RunRecord, Finish
<1>6. {"pc", "unsaved", "futures", "saving", "hardErr", "work", "declines", "todo", "inserted",
       "outcomes", "succeeded", "records"} \subseteq DOMAIN fin
  BY <1>1, <1>5 DEF RunRecord
<1> HIDE DEF a, fin
<1> QED  BY <1>2, <1>3, <1>4, <1>5, <1>6 DEF Reports, SameAuthoring, a

LEMMA RecipesDoneMoves ==
  ASSUME TypeOK, NEW r \in Runs, recipes_done(r)
  PROVE  LET a == ex[r]
             b == ex'[r]
         IN  /\ a.pc = "running" /\ a.todo = {} /\ b.pc = "persisting"
             /\ b.unsaved = a.declines \cup a.outcomes
             /\ SameAuthoring(a, b) /\ SameReport(a, b) /\ SameCurrent(a, b)
<1>1. ex[r] \in RunRecord
  BY DEF TypeOK
<1> DEFINE u == ex[r].declines \cup ex[r].outcomes
<1>2. ex'[r] = [ex[r] EXCEPT !.pc = "persisting", !.unsaved = u]
  BY Written DEF recipes_done
<1>3. ex[r].pc = "running" /\ ex[r].todo = {}
  BY DEF recipes_done
<1> HIDE DEF u
<1>4. /\ ex'[r].pc = "persisting" /\ ex'[r].unsaved = u
      /\ SameAuthoring(ex[r], ex'[r]) /\ SameReport(ex[r], ex'[r]) /\ SameCurrent(ex[r], ex'[r])
  BY <1>1, <1>2 DEF RunRecord, SameAuthoring, SameReport, SameCurrent
<1> QED  BY <1>3, <1>4 DEF u

LEMMA PersistMoves ==
  ASSUME TypeOK, NEW r \in Runs, persist_run_outcomes(r)
  PROVE  LET a == ex[r]
             b == ex'[r]
         IN  /\ a.pc = "persisting"
             /\ \/ a.unsaved = {} /\ Moves(a, b, "closing") /\ UNCHANGED <<outcome_rows, faults>>
                \/ \E o \in a.unsaved :
                     /\ b.pc = "persisting" /\ b.unsaved = a.unsaved \ {o}
                     /\ SameAuthoring(a, b) /\ SameReport(a, b) /\ SameCurrent(a, b)
                     /\ \/ outcome_rows'[r] = outcome_rows[r] \cup {o} /\ UNCHANGED faults
                        \/ outcome_rows'[r] = outcome_rows[r] /\ faults' = faults + 1
<1>1. ex[r] \in RunRecord /\ outcome_rows \in [Runs -> SUBSET (Decline \cup RecipeOutcome)]
  BY DEF TypeOK
<1>2. ex[r].pc = "persisting"
  BY DEF persist_run_outcomes
<1>3. CASE ex[r].unsaved = {}
  BY <1>2, <1>3, GotoMoves DEF persist_run_outcomes, StoreOk
<1>4. CASE ex[r].unsaved # {}
  <2>1. PICK o \in ex[r].unsaved :
          /\ Become(r, [ex[r] EXCEPT !.unsaved = @ \ {o}])
          /\ \/ StoreOk /\ outcome_rows' = [outcome_rows EXCEPT ![r] = @ \cup {o}]
             \/ StoreErr /\ UNCHANGED outcome_rows
    BY <1>4 DEF persist_run_outcomes
  <2>2. ex'[r] = [ex[r] EXCEPT !.unsaved = @ \ {o}]
    BY <2>1, Written
  <2>3. /\ ex'[r].pc = "persisting" /\ ex'[r].unsaved = ex[r].unsaved \ {o}
        /\ SameAuthoring(ex[r], ex'[r]) /\ SameReport(ex[r], ex'[r]) /\ SameCurrent(ex[r], ex'[r])
    BY <1>1, <1>2, <2>2 DEF RunRecord, SameAuthoring, SameReport, SameCurrent
  <2>4. \/ outcome_rows'[r] = outcome_rows[r] \cup {o} /\ UNCHANGED faults
        \/ outcome_rows'[r] = outcome_rows[r] /\ faults' = faults + 1
    BY <1>1, <2>1 DEF StoreOk, StoreErr
  <2> QED  BY <1>2, <2>3, <2>4
<1> QED  BY <1>3, <1>4

-----------------------------------------------------------------------------
(***************************************************************************)
(* Only a run of an accepted plan leaves traces                            *)
(***************************************************************************)

\* The status is read once, by prepare_plan, and may change at any moment.  What
\* stays true of a run past that check is that the plan was accepted at some
\* moment of it: when it began, or when a decision came in between.
PastCheck == {"prepared", "authoring", "running", "fetched", "inserting",
              "persisting", "closing", "done"}

PastCheckIsSanctioned == \A r \in Runs : ex[r].pc \in PastCheck => r \in sanctioned

AcceptedIsSanctioned ==
  status = "accepted" => \A r \in Runs : Active(r) => r \in sanctioned

SavesItsOwn == \A r \in Runs : \A x \in ex[r].saving : x.by = r

SanctionedInv ==
  PastCheckIsSanctioned /\ AcceptedIsSanctioned /\ SavesItsOwn /\ OnlySanctionedRunsLeaveTraces

LEMMA SavingStep ==
  ASSUME TypeOK, WorkingOnOne, SavesItsOwn, NEW r \in Runs, insert_fetch_run(r) \/ RunStep(r)
  PROVE  \A x \in ex'[r].saving : x.by = r
<1>1. ASSUME ex'[r].saving \subseteq ex[r].saving  PROVE \A x \in ex'[r].saving : x.by = r
  BY <1>1 DEF SavesItsOwn
<1>2. CASE insert_fetch_run(r) \/ prepare_plan(r) \/ close_run_with_error(r) \/ update_fetch_run(r)
  BY <1>1, <1>2, RowMoves DEF Moves, GivesUp, SameAuthoring
<1>3. CASE load_recipes(r)
  BY <1>1, <1>3, LoadMoves DEF GivesUp
<1>4. CASE \E n \in Nominations : nomination_done(r, n)
  <2> DEFINE a == ex[r]
             b == ex'[r]
  <2>1. PICK n \in Nominations : nomination_done(r, n)
    BY <1>4
  <2>2. CASE \E res \in AuthoredResult :
               /\ b.saving = [nom : {n}, tgt : res.authored, by : {r}]
               /\ b.declines = a.declines \cup [nom : {n}, tgt : res.declined]
               /\ b.hardErr = a.hardErr
    BY <2>2
  <2>3. CASE b.saving = {} /\ b.declines = a.declines /\ b.hardErr = a.hardErr \cup {n}
    BY <2>3
  <2> QED  BY <2>1, <2>2, <2>3, NominationMoves
<1>5. CASE \E rec \in Recipe : save_recipe(r, rec)
  BY <1>1, <1>5, SaveMoves DEF GivesUp
<1>6. CASE authoring_done(r) \/ recipes_done(r) \/ persist_run_outcomes(r)
  BY <1>1, <1>6, AuthoringDoneMoves, RecipesDoneMoves, PersistMoves DEF Moves, SameAuthoring
<1>7. CASE \E rec \in Recipe : fetch_recipe_bytes(r, rec)
  BY <1>1, <1>7, FetchMoves DEF Reports, SameAuthoring
<1>8. CASE apply(r) \/ insert_record(r) \/ recipe_succeeded(r)
  BY <1>1, <1>8, ApplyMoves, InsertMoves, SucceededMoves DEF Reports, SameAuthoring
<1> QED  BY <1>2, <1>3, <1>4, <1>5, <1>6, <1>7, <1>8 DEF RunStep

\* What a step of one run adds to the tables that runs share carries its id.
LEMMA AddsItsOwn ==
  ASSUME SavesItsOwn, NEW r \in Runs, NEW s \in Runs, s # r, insert_fetch_run(r) \/ RunStep(r)
  PROVE  /\ \A rec \in recipes' : rec.by = s => rec \in recipes
         /\ \A n : <<n, s>> \in asked' => <<n, s>> \in asked
         /\ \A rec : <<s, rec>> \in attempts' => <<s, rec>> \in attempts
<1> USE DEF db, RunStep
<1>1. \/ UNCHANGED recipes
      \/ \E rec \in ex[r].saving : recipes' = recipes \cup {rec}
  BY DEF insert_fetch_run, prepare_plan, close_run_with_error, load_recipes, nomination_done,
         save_recipe, authoring_done, fetch_recipe_bytes, apply, insert_record,
         recipe_succeeded, recipes_done, persist_run_outcomes, update_fetch_run
<1>2. UNCHANGED asked \/ asked' = asked \cup (Nominations \X {r})
  BY DEF insert_fetch_run, prepare_plan, close_run_with_error, load_recipes, nomination_done,
         save_recipe, authoring_done, fetch_recipe_bytes, apply, insert_record,
         recipe_succeeded, recipes_done, persist_run_outcomes, update_fetch_run
<1>3. UNCHANGED attempts \/ \E rec : attempts' = attempts \cup {<<r, rec>>}
  BY DEF insert_fetch_run, prepare_plan, close_run_with_error, load_recipes, nomination_done,
         save_recipe, authoring_done, fetch_recipe_bytes, apply, record_apply_failure_attempt,
         insert_record, recipe_succeeded, recipes_done, persist_run_outcomes, update_fetch_run
<1>4. \A rec \in recipes' : rec.by = s => rec \in recipes
  BY <1>1 DEF SavesItsOwn
<1>5. \A n : <<n, s>> \in asked' => <<n, s>> \in asked
  BY <1>2
<1>6. \A rec : <<s, rec>> \in attempts' => <<s, rec>> \in attempts
  BY <1>3
<1> QED  BY <1>4, <1>5, <1>6

\* Up to the check of the status a run touches nothing but its row.
LEMMA ChecksFirst ==
  ASSUME TypeOK, NEW r \in Runs,
         insert_fetch_run(r) \/ prepare_plan(r) \/ close_run_with_error(r)
  PROVE  /\ UNCHANGED <<recipes, asked, attempts, stored, documents, outcome_rows>>
         /\ fetch_runs'[r].state = "closed" =>
              fetch_runs'[r].error \/ fetch_runs'[r] = fetch_runs[r]
         /\ ex'[r].pc \in PastCheck => status = "accepted" /\ ex[r].pc = "opened"
         /\ sanctioned \subseteq sanctioned'
         /\ status = "accepted" /\ Active(r)' => r \in sanctioned' \/ Active(r)
<1>1. CASE insert_fetch_run(r)
  BY <1>1, Written DEF insert_fetch_run, TypeOK, FetchRunRow, PastCheck, Active
<1>2. CASE prepare_plan(r)
  BY <1>2, Written DEF prepare_plan, db, PastCheck, Active
<1>3. CASE close_run_with_error(r)
  BY <1>3, Written DEF close_run_with_error, TypeOK, FetchRunRow, PastCheck, Active
<1> QED  BY <1>1, <1>2, <1>3

LEMMA SanctionedStep ==
  ASSUME TypeOK, WorkingOnOne, SanctionedInv, NEW r \in Runs, insert_fetch_run(r) \/ RunStep(r)
  PROVE  SanctionedInv'
<1> USE DEF SanctionedInv
<1>1. StepOf(r)
  BY RunStepShape
<1>2. SavesItsOwn'
  BY <1>1, SavingStep DEF StepOf, SavesItsOwn
<1>3. /\ sanctioned \subseteq sanctioned'
      /\ ex'[r].pc \in PastCheck => r \in sanctioned'
      /\ status = "accepted" /\ Active(r)' => r \in sanctioned'
      /\ r \notin sanctioned' =>
           /\ UNCHANGED <<recipes, asked, attempts, stored, documents, outcome_rows>>
           /\ fetch_runs'[r].state = "closed" =>
                fetch_runs'[r].error \/ fetch_runs'[r] = fetch_runs[r]
  <2>1. CASE insert_fetch_run(r) \/ prepare_plan(r) \/ close_run_with_error(r)
    <3>1. ex[r].pc = "opened" /\ status = "accepted" => r \in sanctioned
      BY DEF AcceptedIsSanctioned, Active
    <3>2. Active(r) /\ status = "accepted" => r \in sanctioned
      BY DEF AcceptedIsSanctioned
    <3> QED  BY <2>1, <3>1, <3>2, ChecksFirst
  <2>2. CASE ~(insert_fetch_run(r) \/ prepare_plan(r) \/ close_run_with_error(r))
    <3>1. ex[r].pc \in PastCheck
      BY <2>2
      DEF RunStep, PastCheck, load_recipes, nomination_done, save_recipe, authoring_done,
          fetch_recipe_bytes, apply, insert_record, recipe_succeeded, recipes_done,
          persist_run_outcomes, update_fetch_run
    <3>2. UNCHANGED sanctioned
      BY <2>2
      DEF RunStep, load_recipes, nomination_done, save_recipe, authoring_done,
          fetch_recipe_bytes, apply, insert_record, recipe_succeeded, recipes_done,
          persist_run_outcomes, update_fetch_run
    <3> QED  BY <3>1, <3>2 DEF PastCheckIsSanctioned
  <2> QED  BY <2>1, <2>2
<1>4. PastCheckIsSanctioned'
  BY <1>1, <1>3 DEF StepOf, PastCheckIsSanctioned
<1>5. AcceptedIsSanctioned'
  BY <1>1, <1>3 DEF StepOf, AcceptedIsSanctioned, Active
<1>6. ASSUME NEW s \in Runs \ sanctioned'
      PROVE  /\ \A rec \in recipes' : rec.by # s
             /\ \A n \in Nominations : <<n, s>> \notin asked'
             /\ \A rec \in Recipe : <<s, rec>> \notin attempts'
             /\ stored'[s] = 0 /\ documents'[s] = {} /\ outcome_rows'[s] = {}
             /\ fetch_runs'[s].state = "closed" => fetch_runs'[s].error
  <2>1. s \in Runs \ sanctioned
    BY <1>3
  <2>2. CASE s = r
    BY <1>3, <2>1, <2>2 DEF OnlySanctionedRunsLeaveTraces
  <2>3. CASE s # r
    BY <1>1, <2>1, <2>3, AddsItsOwn DEF StepOf, OnlySanctionedRunsLeaveTraces
  <2> QED  BY <2>2, <2>3
<1> QED  BY <1>2, <1>4, <1>5, <1>6 DEF OnlySanctionedRunsLeaveTraces

\* Accepting a plan is what permits authoring and fetching: however often it is
\* accepted and rejected, a run at no moment of which it was accepted asks no LLM,
\* adds no row but its own, and closes that one with an error if at all.
THEOREM OnlySanctioned == Spec => []OnlySanctionedRunsLeaveTraces
<1>1. Init => SanctionedInv
  BY DEF Init, Idle, Absent, Active, SanctionedInv, PastCheckIsSanctioned, PastCheck,
         AcceptedIsSanctioned, SavesItsOwn, OnlySanctionedRunsLeaveTraces
<1>2. TypeOK /\ WorkingOnOne /\ SanctionedInv /\ [Next]_vars => SanctionedInv'
  <2> SUFFICES ASSUME TypeOK, WorkingOnOne, SanctionedInv, [Next]_vars  PROVE SanctionedInv'
    OBVIOUS
  <2>0. ASSUME Kill, NEW r \in Runs
        PROVE  \/ ex'[r] = ex[r]
               \/ ex'[r].pc = "killed" /\ ex'[r].saving = {}
    BY <2>0 DEF Kill, Idle
  <2> USE DEF SanctionedInv, PastCheckIsSanctioned, AcceptedIsSanctioned, SavesItsOwn,
              OnlySanctionedRunsLeaveTraces
  <2>1. CASE accept_plan
    BY <2>1 DEF accept_plan, Active, TypeOK
  <2>2. CASE reject_plan \/ UNCHANGED vars
    BY <2>2 DEF reject_plan, vars, db, Active
  <2>3. CASE Kill
    <3>1. UNCHANGED <<db, asked, sanctioned>>
      BY <2>3 DEF Kill
    <3>2. PastCheckIsSanctioned' /\ AcceptedIsSanctioned' /\ SavesItsOwn'
      BY <2>0, <2>3, <3>1 DEF db, Active, PastCheck
    <3>3. OnlySanctionedRunsLeaveTraces'
      BY <3>1 DEF db
    <3> QED  BY <3>2, <3>3
  <2>4. ASSUME NEW r \in Runs, insert_fetch_run(r) \/ RunStep(r)  PROVE SanctionedInv'
    BY <2>4, SanctionedStep
  <2> QED  BY <2>1, <2>2, <2>3, <2>4 DEF Next, Decide
<1>3. SanctionedInv => OnlySanctionedRunsLeaveTraces
  BY DEF SanctionedInv
<1> QED  BY <1>1, <1>2, <1>3, TypeCorrect, PTL DEF Spec

-----------------------------------------------------------------------------
(***************************************************************************)
(* The report of a run: what it says of recipes, records and nominations.  *)
(***************************************************************************)
NotAsked == {"idle", "opened", "prepared"}
Quiet    == NotAsked \cup {"erring", "failed"}
Writing  == {"persisting", "closing", "done"}
AtWork   == {"running", "fetched", "inserting"} \cup Writing

\* The recipes a run has left behind are those of its outcomes, one each.
ReportOK(r) ==
  LET a == ex[r]
  IN  /\ a.pc \in Quiet => a.work = {} /\ a.saving = {} /\ a.declines = {}
      /\ a.pc \in Quiet \cup {"authoring"} => /\ a.outcomes = {} /\ a.todo = {}
                                              /\ a.succeeded = 0 /\ a.records = 0
      /\ a.pc \in AtWork => /\ a.todo \subseteq a.work
                            /\ {o.rec : o \in a.outcomes} = a.work \ a.todo
                            /\ \A o, q \in a.outcomes : o.rec = q.rec => o = q
      /\ a.pc \in {"fetched", "inserting"} => a.current \in a.todo
      /\ a.pc \in Writing => a.todo = {}
      /\ a.pc # "killed" => IsFiniteSet(a.outcomes) /\ a.succeeded = Cardinality(Succeeded(r))

\* The counters of the run row are those of the run that closed it.
RowOK(r) ==
  fetch_runs[r].state = "closed" /\ ~fetch_runs[r].error =>
    /\ ex[r].pc = "done"
    /\ fetch_runs[r].attempted = Cardinality(ex[r].work)
    /\ fetch_runs[r].succeeded = ex[r].succeeded /\ fetch_runs[r].records = ex[r].records

\* The records of a run: those reported and those of the recipe it is at.
StoredOK(r) ==
  LET a == ex[r]
  IN  /\ a.pc # "inserting" /\ a.pc # "killed" => a.inserted = 0
      /\ a.pc # "killed" => /\ a.records + a.inserted <= stored[r]
                            /\ (\A o \in a.outcomes : o.kind # "insert") =>
                                 a.records + a.inserted = stored[r]

\* What the report has and the table lacks is still to be written or failed to be.
PersistOK(r) ==
  LET a        == ex[r]
      reported == a.declines \cup a.outcomes
      lost     == reported \ (outcome_rows[r] \cup a.unsaved)
  IN  /\ a.pc \notin Writing \cup {"killed"} => outcome_rows[r] = {}
      /\ a.pc \in Writing => /\ outcome_rows[r] \subseteq reported /\ a.unsaved \subseteq reported
                             /\ IsFiniteSet(lost) /\ Cardinality(lost) <= faults
      /\ a.pc \in {"closing", "done"} => a.unsaved = {}

AuthoredOf(r, n) == {rec.tgt : rec \in {x \in ex[r].work \cup ex[r].saving : x.nom = n}}
DeclinedOf(r, n) == {d.tgt : d \in {x \in ex[r].declines \ LegacyIds : x.nom = n}}

Untouched(r, n) == AuthoredOf(r, n) = {} /\ DeclinedOf(r, n) = {} /\ n \notin ex[r].hardErr

Settled(r, n) ==
  /\ AuthoredOf(r, n) \cap DeclinedOf(r, n) = {}
  /\ IF n \in ex[r].hardErr THEN AuthoredOf(r, n) \cup DeclinedOf(r, n) = {}
     ELSE \/ Targets \subseteq AuthoredOf(r, n) \cup DeclinedOf(r, n)
          \/ AuthoredOf(r, n) = {} /\ DeclinedOf(r, n) = {Whole}

\* A nomination is settled when its future is done, and stays so.
SettledOK(r) ==
  /\ ex[r].pc \in NotAsked => ex[r].hardErr = {} /\ \A n \in Nominations : <<n, r>> \notin asked
  /\ ex[r].pc = "authoring" =>
       \A n \in Nominations : IF n \in ex[r].futures THEN Untouched(r, n) ELSE Settled(r, n)
  /\ ex[r].pc \in AtWork =>
       ex[r].saving = {} /\ \A n \in Nominations : <<n, r>> \in asked => Settled(r, n)

RunOK(r) == ReportOK(r) /\ RowOK(r) /\ StoredOK(r) /\ PersistOK(r) /\ SettledOK(r)
RunsOK   == \A r \in Runs : RunOK(r)

\* The tables that an action of r does not write.
LEMMA TablesKept ==
  ASSUME NEW r \in Runs, insert_fetch_run(r) \/ RunStep(r)
  PROVE  /\ persist_run_outcomes(r) \/ UNCHANGED outcome_rows
         /\ insert_record(r) \/ UNCHANGED stored
         /\ insert_fetch_run(r) \/ close_run_with_error(r) \/ update_fetch_run(r) \/ UNCHANGED fetch_runs
         /\ load_recipes(r) \/ UNCHANGED asked
         /\ faults' = faults \/ faults' = faults + 1
<1> USE DEF StoreOk, StoreErr, db
<1>1. CASE insert_fetch_run(r) \/ prepare_plan(r) \/ close_run_with_error(r) \/ update_fetch_run(r)
  BY <1>1 DEF insert_fetch_run, prepare_plan, close_run_with_error, update_fetch_run
<1>2. CASE \/ load_recipes(r) \/ authoring_done(r)
           \/ \E n \in Nominations : nomination_done(r, n)
           \/ \E rec \in Recipe : save_recipe(r, rec)
  BY <1>2 DEF load_recipes, nomination_done, save_recipe, authoring_done
<1>3. CASE \/ \E rec \in Recipe : fetch_recipe_bytes(r, rec)
           \/ apply(r) \/ insert_record(r) \/ recipe_succeeded(r)
  BY <1>3 DEF fetch_recipe_bytes, apply, record_apply_failure_attempt, insert_record, recipe_succeeded
<1>4. CASE recipes_done(r) \/ persist_run_outcomes(r)
  BY <1>4 DEF recipes_done, persist_run_outcomes
<1> QED  BY <1>1, <1>2, <1>3, <1>4 DEF RunStep

LEMMA ReportMoved ==
  ASSUME NEW r \in Runs, ReportOK(r), NEW phase, Moves(ex[r], ex'[r], phase),
         phase \in Quiet => ex[r].pc \in Quiet, phase \in Writing => ex[r].pc \in Writing,
         phase \in Quiet \cup Writing
  PROVE  ReportOK(r)'
<1>1. Succeeded(r)' = Succeeded(r)
  BY DEF Succeeded, Moves, SameReport
<1> QED
  BY <1>1 DEF ReportOK, Moves, SameAuthoring, SameReport, NotAsked, Quiet, Writing, AtWork

LEMMA ReportGone ==
  ASSUME NEW r \in Runs, NEW phase \in Quiet, GivesUp(ex'[r], phase)
  PROVE  ReportOK(r)'
<1>1. Succeeded(r)' = {}
  BY DEF Succeeded, GivesUp
<1> QED  BY <1>1, FS_EmptySet DEF ReportOK, GivesUp, NotAsked, Quiet, Writing, AtWork

\* One more outcome, of a recipe that had none.
LEMMA ReportNew ==
  ASSUME TypeOK, NEW r \in Runs, ReportOK(r), ex[r].pc \in {"running", "fetched", "inserting"},
         NEW rec \in ex[r].todo, NEW kind, NEW n, Reports(ex[r], ex'[r], rec, kind, n),
         ex'[r].succeeded = IF kind = "succeeded" THEN ex[r].succeeded + 1 ELSE ex[r].succeeded
  PROVE  ReportOK(r)'
<1> DEFINE a == ex[r]
           b == ex'[r]
           new == [rec |-> rec, kind |-> kind, records |-> n]
<1>1. /\ a.todo \subseteq a.work /\ {o.rec : o \in a.outcomes} = a.work \ a.todo
      /\ \A o, q \in a.outcomes : o.rec = q.rec => o = q
      /\ IsFiniteSet(a.outcomes) /\ a.succeeded = Cardinality(Succeeded(r))
  BY DEF ReportOK, AtWork
<1>2. /\ b.pc = "running" /\ b.work = a.work /\ b.todo = a.todo \ {rec}
      /\ b.outcomes = a.outcomes \cup {new}
  BY DEF Reports, SameAuthoring
<1>3. new.rec = rec /\ new.kind = kind
  OBVIOUS
<1> HIDE DEF a, b, new
<1>4. rec \in a.todo /\ \A o \in a.outcomes : o.rec # rec
  BY <1>1 DEF a
<1>5. {o.rec : o \in b.outcomes} = b.work \ b.todo
  BY <1>1, <1>2, <1>3, <1>4
<1>6. \A o, q \in b.outcomes : o.rec = q.rec => o = q
  BY <1>1, <1>2, <1>3, <1>4
<1>7. IsFiniteSet(b.outcomes)
  BY <1>1, <1>2, FS_AddElement
<1>8. b.succeeded = Cardinality(Succeeded(r)')
  <2>1. Succeeded(r)' = IF kind = "succeeded" THEN Succeeded(r) \cup {new} ELSE Succeeded(r)
    BY <1>2, <1>3 DEF Succeeded, a, b
  <2>2. IsFiniteSet(Succeeded(r)) /\ new \notin Succeeded(r)
    BY <1>1, <1>3, <1>4, FS_Subset DEF Succeeded, a
  <2>3. Cardinality(Succeeded(r) \cup {new}) = Cardinality(Succeeded(r)) + 1
    BY <2>2, FS_AddElement
  <2>4. b.succeeded = IF kind = "succeeded" THEN a.succeeded + 1 ELSE a.succeeded
    BY DEF a, b
  <2> QED  BY <1>1, <2>1, <2>3, <2>4
<1> QED
  BY <1>1, <1>2, <1>5, <1>6, <1>7, <1>8 DEF ReportOK, NotAsked, Quiet, Writing, AtWork, a, b

LEMMA ReportStep ==
  ASSUME TypeOK, WorkingOnOne, NEW r \in Runs, insert_fetch_run(r) \/ RunStep(r), ReportOK(r)
  PROVE  ReportOK(r)'
<1> DEFINE a == ex[r]
           b == ex'[r]
<1>1. CASE insert_fetch_run(r) \/ prepare_plan(r) \/ close_run_with_error(r) \/ update_fetch_run(r)
  BY <1>1, RowMoves, ReportMoved, ReportGone DEF NotAsked, Quiet, Writing
<1>2. CASE load_recipes(r)
  <2>1. /\ a.pc = "prepared" /\ a.work = {} /\ a.saving = {} /\ a.declines = {} /\ a.outcomes = {}
        /\ a.todo = {} /\ a.succeeded = 0 /\ a.records = 0 /\ a.succeeded = Cardinality(Succeeded(r))
    BY <1>2, LoadMoves DEF ReportOK, NotAsked, Quiet
  <2>2. CASE GivesUp(b, "erring")
    BY <2>2, ReportGone DEF Quiet
  <2>3. CASE b.outcomes = {} /\ b.succeeded = 0 /\ b.records = 0 /\ b.work = b.todo /\ b.pc = "running"
    <3>1. Succeeded(r)' = {}
      BY <2>3 DEF Succeeded
    <3> QED  BY <2>3, <3>1, FS_EmptySet DEF ReportOK, NotAsked, Quiet, Writing, AtWork
  <2>4. CASE /\ b.outcomes = {} /\ b.succeeded = 0 /\ b.records = 0 /\ b.todo = {}
             /\ b.pc = "authoring"
    <3>1. Succeeded(r)' = {}
      BY <2>4 DEF Succeeded
    <3> QED  BY <2>4, <3>1, FS_EmptySet DEF ReportOK, NotAsked, Quiet, Writing, AtWork
  <2> QED  BY <1>2, <2>1, <2>2, <2>3, <2>4, LoadMoves DEF SameReport
<1>3. CASE \/ \E n \in Nominations : nomination_done(r, n)
           \/ \E rec \in Recipe : save_recipe(r, rec)
           \/ authoring_done(r)
  <2>1. /\ a.pc = "authoring"
        /\ GivesUp(b, "erring")
           \/ /\ b.outcomes = a.outcomes /\ b.succeeded = a.succeeded /\ b.records = a.records
              /\ \/ b.pc = "authoring" /\ b.todo = a.todo
                 \/ b.pc = "running" /\ b.todo = b.work
    BY <1>3, NominationMoves, SaveMoves, AuthoringDoneMoves DEF SameReport, SameAuthoring
  <2>2. /\ a.outcomes = {} /\ a.todo = {} /\ a.succeeded = 0 /\ a.records = 0
    BY <2>1 DEF ReportOK
  <2>3. CASE GivesUp(b, "erring")
    BY <2>3, ReportGone DEF Quiet
  <2>4. CASE ~GivesUp(b, "erring")
    <3>1. Succeeded(r)' = {}
      BY <2>1, <2>2, <2>4 DEF Succeeded
    <3> QED
      BY <2>1, <2>2, <2>4, <3>1, FS_EmptySet DEF ReportOK, NotAsked, Quiet, Writing, AtWork
  <2> QED  BY <2>3, <2>4
<1>4. CASE \E rec \in Recipe : fetch_recipe_bytes(r, rec)
  <2>1. PICK rec \in Recipe : fetch_recipe_bytes(r, rec)
    BY <1>4
  <2>2. a.pc = "running" /\ rec \in a.todo
    BY <2>1, FetchMoves
  <2>3. CASE \E kind \in {"fetch", "rate_limited"} :
               Reports(a, b, rec, kind, 0) /\ b.succeeded = a.succeeded
    BY <2>2, <2>3, ReportNew
  <2>4. CASE b.pc = "fetched" /\ b.current = rec /\ SameAuthoring(a, b) /\ SameReport(a, b)
    <3>1. Succeeded(r)' = Succeeded(r)
      BY <2>4 DEF Succeeded, SameReport
    <3> QED
      BY <2>2, <2>4, <3>1 DEF ReportOK, SameAuthoring, SameReport, NotAsked, Quiet, Writing, AtWork
  <2> QED  BY <2>1, <2>3, <2>4, FetchMoves
<1>5. CASE apply(r) \/ insert_record(r)
  <2>1. a.pc \in {"fetched", "inserting"} /\ a.current \in a.todo
    BY <1>5, ApplyMoves, InsertMoves DEF ReportOK
  <2>2. CASE \E kind \in {"index_page_detected", "apply", "insert"} :
               Reports(a, b, a.current, kind, 0) /\ b.succeeded = a.succeeded
    BY <2>1, <2>2, ReportNew
  <2>3. CASE b.pc = "inserting" /\ b.current = a.current /\ SameAuthoring(a, b) /\ SameReport(a, b)
    <3>1. Succeeded(r)' = Succeeded(r)
      BY <2>3 DEF Succeeded, SameReport
    <3> QED
      BY <2>1, <2>3, <3>1 DEF ReportOK, SameAuthoring, SameReport, NotAsked, Quiet, Writing, AtWork
  <2> QED  BY <1>5, <2>2, <2>3, ApplyMoves, InsertMoves
<1>6. CASE recipe_succeeded(r)
  <2>1. a.pc = "inserting" /\ a.current \in a.todo
    BY <1>6, SucceededMoves DEF ReportOK
  <2> QED  BY <1>6, <2>1, SucceededMoves, ReportNew
<1>7. CASE recipes_done(r) \/ persist_run_outcomes(r)
  <2>1. /\ a.pc \in {"running", "persisting"} /\ b.pc \in {"persisting", "closing"} /\ a.todo = {}
        /\ SameAuthoring(a, b) /\ SameReport(a, b)
    BY <1>7, RecipesDoneMoves, PersistMoves DEF Moves, ReportOK, Writing
  <2>2. Succeeded(r)' = Succeeded(r)
    BY <2>1 DEF Succeeded, SameReport
  <2> QED
    BY <2>1, <2>2 DEF ReportOK, SameAuthoring, SameReport, NotAsked, Quiet, Writing, AtWork
<1> QED  BY <1>1, <1>2, <1>3, <1>4, <1>5, <1>6, <1>7 DEF RunStep

\* A row that is closed without an error was closed by update_fetch_run, last of all.
LEMMA RowStep ==
  ASSUME TypeOK, NEW r \in Runs, insert_fetch_run(r) \/ RunStep(r), RowOK(r)
  PROVE  RowOK(r)'
<1>1. ex[r].pc # "done"
  BY RunStepShape DEF StepOf, Active
<1>2. ~(fetch_runs[r].state = "closed" /\ ~fetch_runs[r].error)
  BY <1>1 DEF RowOK
<1>3. fetch_runs \in [Runs -> FetchRunRow] /\ fetch_runs[r] \in FetchRunRow
  BY DEF TypeOK
<1>4. CASE insert_fetch_run(r)
  <2>1. CASE UNCHANGED fetch_runs
    BY <1>2, <2>1 DEF RowOK
  <2>2. CASE fetch_runs' = [fetch_runs EXCEPT ![r].state = "open"]
    <3>1. fetch_runs'[r].state = "open"
      BY <1>3, <2>2 DEF FetchRunRow
    <3> QED  BY <3>1 DEF RowOK
  <2> QED  BY <1>4, <2>1, <2>2 DEF insert_fetch_run
<1>5. CASE close_run_with_error(r)
  <2>1. CASE UNCHANGED fetch_runs
    BY <1>2, <2>1 DEF RowOK
  <2>2. CASE fetch_runs' = [fetch_runs EXCEPT ![r].state = "closed", ![r].error = TRUE]
    <3>1. fetch_runs'[r].error = TRUE
      BY <1>3, <2>2 DEF FetchRunRow
    <3> QED  BY <3>1 DEF RowOK
  <2> QED  BY <1>5, <2>1, <2>2 DEF close_run_with_error
<1>6. CASE update_fetch_run(r)
  <2>1. CASE UNCHANGED fetch_runs
    BY <1>2, <2>1 DEF RowOK
  <2>2. CASE fetch_runs' = [fetch_runs EXCEPT ![r] =
               [state |-> "closed", error |-> FALSE, attempted |-> Cardinality(ex[r].work),
                succeeded |-> ex[r].succeeded, records |-> ex[r].records]]
    <3>1. /\ fetch_runs'[r].attempted = Cardinality(ex[r].work)
          /\ fetch_runs'[r].succeeded = ex[r].succeeded /\ fetch_runs'[r].records = ex[r].records
      BY <1>3, <2>2
    <3>2. /\ ex'[r].pc = "done" /\ ex'[r].work = ex[r].work
          /\ ex'[r].succeeded = ex[r].succeeded /\ ex'[r].records = ex[r].records
      BY <1>6, RowMoves DEF Moves, SameAuthoring, SameReport
    <3> QED  BY <3>1, <3>2 DEF RowOK
  <2> QED  BY <1>6, <2>1, <2>2 DEF update_fetch_run
<1>7. CASE UNCHANGED fetch_runs
  BY <1>2, <1>7 DEF RowOK
<1> QED  BY <1>4, <1>5, <1>6, <1>7, TablesKept

LEMMA StoredStep ==
  ASSUME TypeOK, WorkingOnOne, NEW r \in Runs, insert_fetch_run(r) \/ RunStep(r),
         ReportOK(r), StoredOK(r)
  PROVE  StoredOK(r)'
<1> DEFINE a == ex[r]
           b == ex'[r]
<1>1. /\ a.records \in Nat /\ a.inserted \in Nat /\ a.extracted \in Nat /\ stored[r] \in Nat
      /\ a.pc # "killed"
  <2>1. a \in RunRecord /\ stored[r] \in Nat
    BY DEF TypeOK
  <2>2. a.pc # "killed"
    BY RunStepShape DEF StepOf, Active
  <2> QED  BY <2>1, <2>2 DEF RunRecord
<1>2. /\ a.pc # "inserting" => a.inserted = 0
      /\ a.records + a.inserted <= stored[r]
      /\ (\A o \in a.outcomes : o.kind # "insert") => a.records + a.inserted = stored[r]
  BY <1>1 DEF StoredOK
<1>3. CASE insert_record(r)
  <2>1. CASE /\ b.pc = "inserting" /\ b.inserted = a.inserted + 1 /\ SameReport(a, b)
             /\ stored'[r] = stored[r] + 1
    <3>1. b.records = a.records /\ b.outcomes = a.outcomes
      BY <2>1 DEF SameReport
    <3> HIDE DEF a
    <3> QED  BY <1>1, <1>2, <2>1, <3>1 DEF StoredOK
  <2>2. CASE /\ Reports(a, b, a.current, "insert", 0) /\ b.records = a.records
             /\ stored'[r] = stored[r]
    <3> DEFINE new == [rec |-> a.current, kind |-> "insert", records |-> 0]
    <3>1. b.pc = "running" /\ b.inserted = 0 /\ new \in b.outcomes /\ new.kind = "insert"
      BY <2>2 DEF Reports
    <3> HIDE DEF a, new
    <3> QED  BY <1>1, <1>2, <2>2, <3>1 DEF StoredOK
  <2> QED  BY <1>3, <2>1, <2>2, InsertMoves
<1>4. CASE recipe_succeeded(r)
  <2>1. stored'[r] = stored[r]
    BY <1>4 DEF recipe_succeeded, db
  <2>2. /\ b.pc = "running" /\ b.inserted = 0 /\ b.records = a.records + a.inserted
        /\ a.outcomes \subseteq b.outcomes
    BY <1>4, SucceededMoves DEF Reports
  <2> HIDE DEF a
  <2> QED  BY <1>1, <1>2, <2>1, <2>2 DEF StoredOK
<1>5. CASE \/ insert_fetch_run(r) \/ prepare_plan(r) \/ close_run_with_error(r) \/ update_fetch_run(r)
           \/ load_recipes(r) \/ authoring_done(r) \/ recipes_done(r) \/ persist_run_outcomes(r)
           \/ \E n \in Nominations : nomination_done(r, n)
           \/ \E rec \in Recipe : save_recipe(r, rec) \/ fetch_recipe_bytes(r, rec)
           \/ apply(r)
  <2>1. stored'[r] = stored[r]
    BY <1>5 DEF insert_fetch_run, prepare_plan, close_run_with_error, update_fetch_run, load_recipes,
       authoring_done, recipes_done, persist_run_outcomes, nomination_done, save_recipe,
       fetch_recipe_bytes, apply, db
  <2>2. \/ /\ b.records = a.records /\ a.outcomes \subseteq b.outcomes
           /\ b.inserted = a.inserted \/ (b.pc = "running" /\ b.inserted = 0)
           /\ a.pc # "inserting"
        \/ /\ b.records = 0 /\ b.inserted = 0 /\ b.outcomes = {}
           /\ a.pc \in {"idle", "opened", "prepared", "authoring"}
    <3>1. CASE insert_fetch_run(r) \/ prepare_plan(r) \/ close_run_with_error(r) \/ update_fetch_run(r)
      BY <3>1, RowMoves DEF Moves, GivesUp, SameReport, SameCurrent
    <3>2. CASE load_recipes(r)
      BY <3>2, LoadMoves DEF GivesUp, SameReport
    <3>3. CASE authoring_done(r)
      BY <3>3, AuthoringDoneMoves
    <3>4. CASE recipes_done(r) \/ persist_run_outcomes(r)
      BY <3>4, RecipesDoneMoves, PersistMoves DEF Moves, SameReport, SameCurrent
    <3>5. CASE \E n \in Nominations : nomination_done(r, n)
      BY <3>5, NominationMoves DEF SameReport
    <3>6. CASE \E rec \in Recipe : save_recipe(r, rec)
      BY <3>6, SaveMoves DEF SameReport, GivesUp
    <3>7. CASE \E rec \in Recipe : fetch_recipe_bytes(r, rec)
      BY <3>7, FetchMoves DEF SameReport, Reports
    <3>8. CASE apply(r)
      BY <3>8, ApplyMoves DEF SameReport, Reports
    <3> QED  BY <1>5, <3>1, <3>2, <3>3, <3>4, <3>5, <3>6, <3>7, <3>8
  <2>3. CASE /\ b.records = a.records /\ a.outcomes \subseteq b.outcomes
             /\ b.inserted = a.inserted \/ (b.pc = "running" /\ b.inserted = 0)
             /\ a.pc # "inserting"
    <3> HIDE DEF a
    <3> QED  BY <1>1, <1>2, <2>1, <2>3 DEF StoredOK
  <2>4. CASE /\ b.records = 0 /\ b.inserted = 0 /\ b.outcomes = {}
             /\ a.pc \in {"idle", "opened", "prepared", "authoring"}
    <3>1. a.outcomes = {} /\ a.records = 0
      BY <2>4 DEF ReportOK, Quiet, NotAsked
    <3> HIDE DEF a
    <3> QED  BY <1>1, <1>2, <2>1, <2>4, <3>1 DEF StoredOK
  <2> QED  BY <2>2, <2>3, <2>4
<1> QED  BY <1>3, <1>4, <1>5 DEF RunStep

LEMMA PersistStep ==
  ASSUME TypeOK, WorkingOnOne, NEW r \in Runs, insert_fetch_run(r) \/ RunStep(r), PersistOK(r)
  PROVE  PersistOK(r)'
<1> DEFINE a == ex[r]
           b == ex'[r]
           reported == a.declines \cup a.outcomes
           lost == reported \ (outcome_rows[r] \cup a.unsaved)
<1>1. a.pc # "killed" /\ faults \in Nat
  BY RunStepShape DEF StepOf, Active, TypeOK
<1>2. CASE persist_run_outcomes(r)
  <2>1. /\ a.pc = "persisting" /\ outcome_rows[r] \subseteq reported /\ a.unsaved \subseteq reported
        /\ IsFiniteSet(lost) /\ Cardinality(lost) <= faults
    BY <1>2, PersistMoves DEF PersistOK, Writing
  <2>2. b.declines \cup b.outcomes = reported
    BY <1>2, PersistMoves DEF Moves, SameAuthoring, SameReport
  <2> DEFINE lostb == reported \ (outcome_rows'[r] \cup b.unsaved)
  <2> HIDE DEF reported
  <2>3. CASE a.unsaved = {} /\ Moves(a, b, "closing") /\ UNCHANGED <<outcome_rows, faults>>
    <3>1. b.pc = "closing" /\ b.unsaved = {} /\ lostb = lost
      BY <2>3 DEF Moves
    <3> HIDE DEF a, lost
    <3> QED  BY <2>1, <2>2, <2>3, <3>1 DEF PersistOK, Writing
  <2>4. CASE \E o \in a.unsaved :
               /\ b.pc = "persisting" /\ b.unsaved = a.unsaved \ {o}
               /\ \/ outcome_rows'[r] = outcome_rows[r] \cup {o} /\ UNCHANGED faults
                  \/ outcome_rows'[r] = outcome_rows[r] /\ faults' = faults + 1
    <3>1. PICK o \in a.unsaved :
            /\ b.pc = "persisting" /\ b.unsaved = a.unsaved \ {o}
            /\ \/ outcome_rows'[r] = outcome_rows[r] \cup {o} /\ UNCHANGED faults
               \/ outcome_rows'[r] = outcome_rows[r] /\ faults' = faults + 1
      BY <2>4
    <3>2. outcome_rows'[r] \subseteq reported /\ b.unsaved \subseteq reported
      BY <2>1, <3>1
    <3>3. IsFiniteSet(lostb) /\ Cardinality(lostb) <= faults'
      <4>1. CASE outcome_rows'[r] = outcome_rows[r] \cup {o} /\ UNCHANGED faults
        <5>1. lostb \subseteq lost
          BY <3>1, <4>1
        <5>2. Cardinality(lost) \in Nat /\ IsFiniteSet(lostb) /\ Cardinality(lostb) <= Cardinality(lost)
              /\ Cardinality(lostb) \in Nat
          BY <2>1, <5>1, FS_Subset, FS_CardinalityType
        <5> QED  BY <1>1, <2>1, <4>1, <5>2
      <4>2. CASE outcome_rows'[r] = outcome_rows[r] /\ faults' = faults + 1
        <5>1. lostb \subseteq lost \cup {o}
          BY <3>1, <4>2
        <5>2. /\ IsFiniteSet(lost \cup {o}) /\ Cardinality(lost \cup {o}) <= Cardinality(lost) + 1
              /\ Cardinality(lost) \in Nat
          <6>1. Cardinality(lost) \in Nat
            BY <2>1, FS_CardinalityType
          <6>2. /\ IsFiniteSet(lost \cup {o})
                /\ Cardinality(lost \cup {o}) = IF o \in lost THEN Cardinality(lost) ELSE Cardinality(lost) + 1
            BY <2>1, FS_AddElement
          <6> QED  BY <6>1, <6>2
        <5>3. /\ Cardinality(lost \cup {o}) \in Nat /\ IsFiniteSet(lostb)
              /\ Cardinality(lostb) <= Cardinality(lost \cup {o}) /\ Cardinality(lostb) \in Nat
          BY <5>1, <5>2, FS_Subset, FS_CardinalityType
        <5> QED  BY <1>1, <2>1, <4>2, <5>2, <5>3
      <4> QED  BY <3>1, <4>1, <4>2
    <3> QED  BY <2>2, <3>1, <3>2, <3>3 DEF PersistOK, Writing
  <2> QED  BY <1>2, <2>3, <2>4, PersistMoves
<1>3. CASE recipes_done(r)
  <2>1. /\ a.pc = "running" /\ b.pc = "persisting" /\ b.unsaved = b.declines \cup b.outcomes
    BY <1>3, RecipesDoneMoves DEF SameAuthoring, SameReport
  <2>2. outcome_rows'[r] = {}
    BY <1>3, <2>1 DEF PersistOK, Writing, recipes_done, db
  <2>3. faults' = faults
    BY <1>3 DEF recipes_done
  <2>4. (b.declines \cup b.outcomes) \ (outcome_rows'[r] \cup b.unsaved) = {}
    BY <2>1
  <2> QED  BY <1>1, <2>1, <2>2, <2>3, <2>4, FS_EmptySet DEF PersistOK, Writing
<1>4. CASE update_fetch_run(r)
  <2>1. a.pc = "closing" /\ Moves(a, b, "done") /\ outcome_rows'[r] = outcome_rows[r]
    BY <1>4, RowMoves DEF update_fetch_run
  <2>2. faults' = faults \/ faults' = faults + 1
    BY TablesKept
  <2>3. IsFiniteSet(lost) /\ Cardinality(lost) <= faults
    BY <2>1 DEF PersistOK, Writing
  <2>4. Cardinality(lost) <= faults'
    BY <1>1, <2>2, <2>3, FS_CardinalityType
  <2>5. /\ b.pc = "done" /\ b.unsaved = a.unsaved /\ b.declines = a.declines /\ b.outcomes = a.outcomes
    BY <2>1 DEF Moves, SameAuthoring, SameReport
  <2> QED  BY <2>1, <2>3, <2>4, <2>5 DEF PersistOK, Writing
<1>5. CASE ~(persist_run_outcomes(r) \/ recipes_done(r) \/ update_fetch_run(r))
  <2>1. outcome_rows'[r] = outcome_rows[r]
    BY <1>5, TablesKept
  <2>2. a.pc \notin Writing /\ b.pc \notin Writing
    <3>1. CASE insert_fetch_run(r) \/ prepare_plan(r) \/ close_run_with_error(r)
      BY <3>1, RowMoves DEF Moves, GivesUp, Writing
    <3>2. CASE load_recipes(r)
      BY <3>2, LoadMoves DEF GivesUp, Writing
    <3>3. CASE authoring_done(r) \/ \E n \in Nominations : nomination_done(r, n)
      BY <3>3, AuthoringDoneMoves, NominationMoves DEF Writing
    <3>4. CASE \E rec \in Recipe : save_recipe(r, rec)
      BY <3>4, SaveMoves DEF GivesUp, Writing
    <3>5. CASE \E rec \in Recipe : fetch_recipe_bytes(r, rec)
      BY <3>5, FetchMoves DEF Reports, Writing
    <3>6. CASE apply(r)
      BY <3>6, ApplyMoves DEF Reports, Writing
    <3>7. CASE insert_record(r) \/ recipe_succeeded(r)
      BY <3>7, InsertMoves, SucceededMoves DEF Reports, Writing
    <3> QED  BY <1>5, <3>1, <3>2, <3>3, <3>4, <3>5, <3>6, <3>7 DEF RunStep
  <2> QED  BY <1>1, <2>1, <2>2 DEF PersistOK, Writing
<1> QED  BY <1>2, <1>3, <1>4, <1>5

\* What a nomination has come to depends on four fields.
LEMMA SettledSame ==
  ASSUME NEW r \in Runs, NEW n,
         ex'[r].work \cup ex'[r].saving = ex[r].work \cup ex[r].saving,
         ex'[r].declines = ex[r].declines, ex'[r].hardErr = ex[r].hardErr
  PROVE  /\ Settled(r, n)' <=> Settled(r, n)
         /\ Untouched(r, n)' <=> Untouched(r, n)
<1>1. AuthoredOf(r, n)' = AuthoredOf(r, n) /\ DeclinedOf(r, n)' = DeclinedOf(r, n)
  BY DEF AuthoredOf, DeclinedOf
<1> QED  BY <1>1 DEF Settled, Untouched

\* The future of a nomination leaves nothing of it open.
LEMMA NominationSettles ==
  ASSUME TypeOK, NEW r \in Runs, NEW n \in Nominations, nomination_done(r, n), SettledOK(r)
  PROVE  \A m \in Nominations : IF m \in ex'[r].futures THEN Untouched(r, m)' ELSE Settled(r, m)'
<1> DEFINE a == ex[r]
           b == ex'[r]
<1>1. /\ a.saving = {} /\ n \in a.futures /\ b.futures = a.futures \ {n} /\ b.work = a.work
      /\ \A m \in Nominations : IF m \in a.futures THEN Untouched(r, m) ELSE Settled(r, m)
  BY NominationMoves DEF SettledOK
<1>2. Untouched(r, n)
  BY <1>1
<1>3. CASE \E res \in AuthoredResult :
             /\ b.saving = [nom : {n}, tgt : res.authored, by : {r}]
             /\ b.declines = a.declines \cup [nom : {n}, tgt : res.declined]
             /\ b.hardErr = a.hardErr
  <2>1. PICK res \in AuthoredResult :
             /\ b.saving = [nom : {n}, tgt : res.authored, by : {r}]
             /\ b.declines = a.declines \cup [nom : {n}, tgt : res.declined]
             /\ b.hardErr = a.hardErr
    BY <1>3
  <2> DEFINE sv == [nom : {n}, tgt : res.authored, by : {r}]
             dc == [nom : {n}, tgt : res.declined]
  <2>2. \A x \in sv : x.nom = n /\ x.tgt \in res.authored
    OBVIOUS
  <2>3. \A t \in res.authored : \E x \in sv : x.tgt = t
    <3>1. ASSUME NEW t \in res.authored PROVE \E x \in sv : x.tgt = t
      <4>1. [nom |-> n, tgt |-> t, by |-> r] \in sv
        OBVIOUS
      <4> QED  BY <4>1
    <3> QED  BY <3>1
  <2>4. \A x \in dc : x.nom = n /\ x.tgt \in res.declined
    OBVIOUS
  <2>5. \A t \in res.declined : \E x \in dc : x.tgt = t
    <3>1. ASSUME NEW t \in res.declined PROVE \E x \in dc : x.tgt = t
      <4>1. [nom |-> n, tgt |-> t] \in dc
        OBVIOUS
      <4> QED  BY <4>1
    <3> QED  BY <3>1
  <2>6. dc \cap LegacyIds = {}
    <3>1. res.declined \subseteq Targets \cup {Whole}
      BY DEF AuthoredResult
    <3>2. dc \subseteq [nom : Nominations, tgt : Targets \cup {Whole}]
      BY <3>1
    <3> QED  BY <3>2, LegacyAssumption
  <2> HIDE DEF sv, dc
  <2>7. b.saving = sv /\ b.declines = a.declines \cup dc
    BY <2>1 DEF sv, dc
  <2> HIDE DEF a, b
  <2>8. AuthoredOf(r, n)' = res.authored
    <3>1. \A x \in a.work : x.nom # n
      BY <1>2 DEF Untouched, AuthoredOf, a
    <3> QED  BY <1>1, <2>2, <2>3, <2>7, <3>1 DEF AuthoredOf, b
  <2>9. DeclinedOf(r, n)' = res.declined
    <3>1. \A x \in a.declines \ LegacyIds : x.nom # n
      BY <1>2 DEF Untouched, DeclinedOf, a
    <3> QED  BY <2>4, <2>5, <2>6, <2>7, <3>1 DEF DeclinedOf, b
  <2>10. n \notin b.hardErr
    BY <1>2, <2>1 DEF Untouched, a
  <2>11. Settled(r, n)'
    <3>1. /\ res.authored \subseteq Targets
          /\ IF res.authored = {} THEN res.declined = {Whole}
             ELSE res.declined \ {Whole} = Targets \ res.authored
      BY DEF AuthoredResult
    <3>2. Whole \notin Targets
      BY ConstantsAssumption
    <3>3. res.authored \cap res.declined = {}
      BY <3>1, <3>2
    <3>4. \/ Targets \subseteq res.authored \cup res.declined
          \/ res.authored = {} /\ res.declined = {Whole}
      <4>1. CASE res.authored = {}
        BY <3>1, <4>1
      <4>2. CASE res.authored # {}
        <5>1. res.declined \ {Whole} = Targets \ res.authored
          BY <3>1, <4>2
        <5> QED  BY <5>1
      <4> QED  BY <4>1, <4>2
    <3> QED  BY <2>8, <2>9, <2>10, <3>3, <3>4 DEF Settled, b
  <2>12. ASSUME NEW m \in Nominations, m # n
         PROVE  /\ Settled(r, m)' <=> Settled(r, m)
                /\ Untouched(r, m)' <=> Untouched(r, m)
    <3>1. AuthoredOf(r, m)' = AuthoredOf(r, m)
      BY <1>1, <2>2, <2>7, <2>12 DEF AuthoredOf, a, b
    <3>2. DeclinedOf(r, m)' = DeclinedOf(r, m)
      BY <2>4, <2>7, <2>12 DEF DeclinedOf, a, b
    <3>3. b.hardErr = a.hardErr
      BY <2>1
    <3> QED  BY <3>1, <3>2, <3>3 DEF Settled, Untouched, a, b
  <2> QED  BY <1>1, <2>11, <2>12 DEF b
<1>4. CASE b.saving = {} /\ b.declines = a.declines /\ b.hardErr = a.hardErr \cup {n}
  <2>1. \A m : AuthoredOf(r, m)' = AuthoredOf(r, m) /\ DeclinedOf(r, m)' = DeclinedOf(r, m)
    BY <1>1, <1>4 DEF AuthoredOf, DeclinedOf
  <2>2. Settled(r, n)'
    BY <1>2, <1>4, <2>1 DEF Settled, Untouched
  <2>3. \A m \in Nominations \ {n} : /\ Settled(r, m)' <=> Settled(r, m)
                                     /\ Untouched(r, m)' <=> Untouched(r, m)
    BY <1>4, <2>1 DEF Settled, Untouched
  <2> QED  BY <1>1, <2>2, <2>3
<1> QED  BY <1>3, <1>4, NominationMoves

LEMMA SettledStep ==
  ASSUME TypeOK, WorkingOnOne, NEW r \in Runs, insert_fetch_run(r) \/ RunStep(r),
         ReportOK(r), SettledOK(r)
  PROVE  SettledOK(r)'
<1> DEFINE a == ex[r]
           b == ex'[r]
<1>1. CASE load_recipes(r)
  <2>1. /\ a.pc = "prepared" /\ a.work = {} /\ a.saving = {} /\ a.hardErr = {}
        /\ \A n \in Nominations : <<n, r>> \notin asked
    BY <1>1, LoadMoves DEF ReportOK, SettledOK, Quiet, NotAsked
  <2>2. CASE GivesUp(b, "erring")
    BY <2>2 DEF GivesUp, SettledOK, NotAsked, AtWork, Writing
  <2>3. CASE b.pc = "running" /\ b.saving = a.saving /\ asked' = asked
    BY <2>1, <2>3 DEF SettledOK, NotAsked, AtWork, Writing
  <2>4. CASE /\ b.pc = "authoring" /\ b.futures = Nominations /\ b.declines = LegacyIds
             /\ b.work = a.work /\ b.saving = a.saving /\ b.hardErr = a.hardErr
    <3>1. \A n : Untouched(r, n)'
      BY <2>1, <2>4 DEF Untouched, AuthoredOf, DeclinedOf
    <3> QED  BY <2>4, <3>1 DEF SettledOK, NotAsked, AtWork, Writing
  <2> QED  BY <1>1, <2>2, <2>3, <2>4, LoadMoves
<1>2. CASE ~load_recipes(r)
  <2>0. asked' = asked
    BY <1>2, TablesKept
  <2>1. CASE \E n \in Nominations : nomination_done(r, n)
    <3>1. b.pc = "authoring"
      BY <2>1, NominationMoves
    <3>2. \A m \in Nominations : IF m \in b.futures THEN Untouched(r, m)' ELSE Settled(r, m)'
      BY <2>1, NominationSettles
    <3> QED  BY <3>1, <3>2 DEF SettledOK, NotAsked, AtWork, Writing
  <2>2. CASE \E rec \in Recipe : save_recipe(r, rec)
    <3>1. PICK rec \in Recipe : save_recipe(r, rec)
      BY <2>2
    <3>2. CASE GivesUp(b, "erring")
      BY <3>2 DEF GivesUp, SettledOK, NotAsked, AtWork, Writing
    <3>3. CASE /\ b.pc = "authoring" /\ b.saving = a.saving \ {rec} /\ b.work = a.work \cup {rec}
               /\ b.futures = a.futures /\ b.declines = a.declines /\ b.hardErr = a.hardErr
      <4>1. b.work \cup b.saving = a.work \cup a.saving
        BY <3>1, <3>3, SaveMoves
      <4>2. \A m \in Nominations : /\ Settled(r, m)' <=> Settled(r, m)
                                   /\ Untouched(r, m)' <=> Untouched(r, m)
        BY <3>3, <4>1, SettledSame
      <4>3. a.pc = "authoring"
        BY <3>1, SaveMoves
      <4> QED  BY <3>3, <4>2, <4>3 DEF SettledOK, NotAsked, AtWork, Writing
    <3> QED  BY <3>1, <3>2, <3>3, SaveMoves
  <2>3. CASE authoring_done(r)
    <3>1. /\ a.pc = "authoring" /\ b.pc = "running" /\ a.futures = {} /\ a.saving = {}
          /\ SameAuthoring(a, b)
      BY <2>3, AuthoringDoneMoves
    <3>2. \A m \in Nominations : Settled(r, m)' <=> Settled(r, m)
      BY <3>1, SettledSame DEF SameAuthoring
    <3> QED  BY <3>1, <3>2 DEF SettledOK, SameAuthoring, NotAsked, AtWork, Writing
  <2>4. CASE /\ ~\E n \in Nominations : nomination_done(r, n)
             /\ ~\E rec \in Recipe : save_recipe(r, rec)
             /\ ~authoring_done(r)
    <3>1. \/ /\ SameAuthoring(a, b)
             /\ b.pc \in NotAsked => a.pc \in NotAsked
             /\ b.pc # "authoring" /\ (b.pc \in AtWork => a.pc \in AtWork)
          \/ b.pc \in {"erring", "failed"}
      <4> USE DEF NotAsked, AtWork, Writing, Moves, GivesUp, Reports
      <4>1. CASE \/ insert_fetch_run(r) \/ prepare_plan(r) \/ close_run_with_error(r)
                 \/ update_fetch_run(r)
        BY <4>1, RowMoves
      <4>2. CASE \E rec \in Recipe : fetch_recipe_bytes(r, rec)
        BY <4>2, FetchMoves
      <4>3. CASE apply(r)
        BY <4>3, ApplyMoves
      <4>4. CASE insert_record(r) \/ recipe_succeeded(r)
        BY <4>4, InsertMoves, SucceededMoves
      <4>5. CASE recipes_done(r) \/ persist_run_outcomes(r)
        BY <4>5, RecipesDoneMoves, PersistMoves
      <4> QED  BY <1>2, <2>4, <4>1, <4>2, <4>3, <4>4, <4>5 DEF RunStep
    <3>2. CASE b.pc \in {"erring", "failed"}
      BY <3>2 DEF SettledOK, NotAsked, AtWork, Writing
    <3>3. CASE /\ SameAuthoring(a, b)
               /\ b.pc \in NotAsked => a.pc \in NotAsked
               /\ b.pc # "authoring" /\ (b.pc \in AtWork => a.pc \in AtWork)
      <4>1. \A m \in Nominations : Settled(r, m)' <=> Settled(r, m)
        BY <3>3, SettledSame DEF SameAuthoring
      <4>2. b.hardErr = a.hardErr /\ b.saving = a.saving
        BY <3>3 DEF SameAuthoring
      <4> QED  BY <2>0, <3>3, <4>1, <4>2 DEF SettledOK
    <3> QED  BY <3>1, <3>2, <3>3
  <2> QED  BY <2>1, <2>2, <2>3, <2>4
<1> QED  BY <1>1, <1>2

\* A run is not disturbed by a step of another one.
LEMMA OtherRuns ==
  ASSUME TypeOK, NEW r \in Runs, insert_fetch_run(r) \/ RunStep(r), NEW s \in Runs, s # r, RunOK(s)
  PROVE  RunOK(s)'
<1>1. /\ ex'[s] = ex[s] /\ fetch_runs'[s] = fetch_runs[s]
      /\ outcome_rows'[s] = outcome_rows[s] /\ stored'[s] = stored[s]
  BY RunStepShape DEF StepOf
<1>2. ReportOK(s)' /\ RowOK(s)' /\ StoredOK(s)'
  BY <1>1 DEF RunOK, ReportOK, Succeeded, RowOK, StoredOK
<1>3. PersistOK(s)'
  <2> DEFINE lost == (ex[s].declines \cup ex[s].outcomes) \ (outcome_rows[s] \cup ex[s].unsaved)
  <2>1. faults \in Nat /\ (faults' = faults \/ faults' = faults + 1)
    BY TablesKept DEF TypeOK
  <2>2. IsFiniteSet(lost) /\ Cardinality(lost) <= faults => Cardinality(lost) <= faults'
    BY <2>1, FS_CardinalityType
  <2> QED  BY <1>1, <2>2 DEF RunOK, PersistOK
<1>4. SettledOK(s)'
  <2>1. \A n \in Nominations : <<n, s>> \in asked' <=> <<n, s>> \in asked
    <3>1. asked' = asked \/ asked' = asked \cup (Nominations \X {r})
      BY TablesKept DEF load_recipes
    <3> QED  BY <3>1
  <2>2. \A n \in Nominations : /\ Settled(s, n)' <=> Settled(s, n)
                               /\ Untouched(s, n)' <=> Untouched(s, n)
    BY <1>1, SettledSame
  <2> QED  BY <1>1, <2>1, <2>2 DEF RunOK, SettledOK
<1> QED  BY <1>2, <1>3, <1>4 DEF RunOK

LEMMA RunsNext == TypeOK /\ WorkingOnOne /\ RunsOK /\ [Next]_vars => RunsOK'
<1> SUFFICES ASSUME TypeOK, WorkingOnOne, RunsOK, [Next]_vars, NEW s \in Runs  PROVE RunOK(s)'
  BY DEF RunsOK
<1>0. RunOK(s)
  BY DEF RunsOK
<1>1. CASE \/ UNCHANGED <<ex, fetch_runs, outcome_rows, stored, asked, faults>>
           \/ Kill /\ ~Active(s)
  <2>1. /\ ex'[s] = ex[s] /\ fetch_runs'[s] = fetch_runs[s] /\ faults' = faults /\ asked' = asked
        /\ outcome_rows'[s] = outcome_rows[s] /\ stored'[s] = stored[s]
    BY <1>1 DEF Kill, db
  <2>2. \A n \in Nominations : /\ Settled(s, n)' <=> Settled(s, n)
                               /\ Untouched(s, n)' <=> Untouched(s, n)
    BY <2>1, SettledSame
  <2>3. ReportOK(s)' /\ RowOK(s)' /\ StoredOK(s)' /\ PersistOK(s)'
    BY <1>0, <2>1 DEF RunOK, ReportOK, Succeeded, RowOK, StoredOK, PersistOK
  <2>4. SettledOK(s)'
    BY <1>0, <2>1, <2>2 DEF RunOK, SettledOK
  <2> QED  BY <2>3, <2>4 DEF RunOK
<1>2. CASE Kill /\ Active(s)
  <2>1. ex'[s] = [Idle EXCEPT !.pc = "killed"] /\ fetch_runs'[s] = fetch_runs[s]
    BY <1>2 DEF Kill, db
  <2>2. ex'[s].pc = "killed"
    BY <2>1 DEF Idle
  <2>3. ~(fetch_runs[s].state = "closed" /\ ~fetch_runs[s].error)
    BY <1>0, <1>2 DEF RunOK, RowOK, Active
  <2> QED
    BY <2>1, <2>2, <2>3
    DEF RunOK, ReportOK, RowOK, StoredOK, PersistOK, SettledOK, NotAsked, Quiet, AtWork, Writing
<1>3. ASSUME NEW r \in Runs, insert_fetch_run(r) \/ RunStep(r)  PROVE RunOK(s)'
  <2>1. CASE s = r
    BY <1>0, <1>3, <2>1, ReportStep, RowStep, StoredStep, PersistStep, SettledStep DEF RunOK
  <2>2. CASE s # r
    BY <1>0, <1>3, <2>2, OtherRuns
  <2> QED  BY <2>1, <2>2
<1>4. CASE Decide \/ UNCHANGED vars
  <2>1. UNCHANGED <<ex, fetch_runs, outcome_rows, stored, asked, faults>>
    BY <1>4 DEF Decide, accept_plan, reject_plan, vars, db
  <2> QED  BY <1>1, <2>1
<1> QED  BY <1>1, <1>2, <1>3, <1>4 DEF Next

LEMMA RunsInit == Init => RunsOK
<1> SUFFICES ASSUME Init, NEW r \in Runs  PROVE RunOK(r)
  BY DEF RunsOK
<1>1. /\ ex[r] = Idle /\ stored[r] = 0 /\ outcome_rows[r] = {} /\ asked = {}
      /\ fetch_runs[r].state = "absent"
  BY DEF Init, Absent
<1>2. /\ Idle.pc = "idle" /\ Idle.work = {} /\ Idle.saving = {} /\ Idle.declines = {}
      /\ Idle.outcomes = {} /\ Idle.todo = {} /\ Idle.succeeded = 0 /\ Idle.records = 0
      /\ Idle.inserted = 0 /\ Idle.hardErr = {}
  BY DEF Idle
<1>3. Succeeded(r) = {} /\ IsFiniteSet({}) /\ Cardinality({}) = 0
  BY <1>1, <1>2, FS_EmptySet DEF Succeeded
<1> QED
  BY <1>1, <1>2, <1>3
  DEF RunOK, ReportOK, RowOK, StoredOK, PersistOK, SettledOK, NotAsked, Quiet, AtWork, Writing

LEMMA RunsCorrect == Spec => [](TypeOK /\ RunsOK)
<1>1. Init => RunsOK
  BY RunsInit
<1>2. TypeOK /\ WorkingOnOne /\ RunsOK /\ [Next]_vars => RunsOK'
  BY RunsNext
<1> QED  BY <1>1, <1>2, TypeCorrect, PTL DEF Spec

\* "Every recipe that was considered shows up exactly once in outcomes": through
\* failed fetches, applies and inserts, in any order of any number of runs.
THEOREM RecipesReportedOnce == Spec => []EachRecipeReportedOnce
<1>1. TypeOK /\ RunsOK => EachRecipeReportedOnce
  <2> SUFFICES ASSUME TypeOK, RunsOK, NEW r \in Runs, Active(r) \/ ex[r].pc = "done",
                      NEW rec \in ex[r].work
               PROVE  Cardinality({o \in ex[r].outcomes : o.rec = rec}) =
                        IF ex[r].pc = "authoring" \/ rec \in ex[r].todo THEN 0 ELSE 1
    BY DEF EachRecipeReportedOnce
  <2> DEFINE S == {o \in ex[r].outcomes : o.rec = rec}
  <2>1. ReportOK(r) /\ ex[r].pc \in Phases
    BY DEF RunsOK, RunOK, TypeOK, RunRecord
  <2>2. ex[r].pc \in AtWork \/ ex[r].pc = "authoring"
    BY <2>1 DEF ReportOK, Active, Phases, Quiet, NotAsked, AtWork, Writing
  <2>3. CASE ex[r].pc = "authoring" \/ rec \in ex[r].todo
    <3>1. S = {}
      BY <2>1, <2>2, <2>3 DEF ReportOK
    <3> QED  BY <2>3, <3>1, FS_EmptySet
  <2>4. CASE ~(ex[r].pc = "authoring" \/ rec \in ex[r].todo)
    <3>1. PICK o \in ex[r].outcomes : o.rec = rec
      BY <2>1, <2>2, <2>4 DEF ReportOK
    <3>2. S = {o}
      BY <2>1, <2>2, <2>4, <3>1 DEF ReportOK
    <3>3. Cardinality({o}) = 1
      BY FS_Singleton
    <3> QED  BY <2>4, <3>2, <3>3
  <2> QED  BY <2>3, <2>4
<1> QED  BY <1>1, RunsCorrect, PTL

-----------------------------------------------------------------------------
(***************************************************************************)
(* The sum of the records of a finite set of outcomes.  MapThenSumSet is a *)
(* recursive function on the subsets, which takes elements in an order of  *)
(* its own; what follows about it is shown by the smallest set of which it *)
(* would not hold.                                                         *)
(***************************************************************************)
Total(S) == MapThenSumSet(LAMBDA o : o.records, S)

First(S) == CHOOSE o \in S : TRUE

\* g is the function by which the sum over S is defined.
Sums(S, g) ==
  g = [s \in SUBSET S |-> IF s = {} THEN 0 ELSE First(s).records + g[s \ {First(s)}]]

LEMMA TotalSums == ASSUME NEW S PROVE Total(S) = (CHOOSE g : Sums(S, g))[S]
BY DEF Total, MapThenSumSet, MapThenFoldSet, Sums, First

LEMMA SmallestSet ==
  ASSUME NEW Bad, Bad # {}, \A s \in Bad : IsFiniteSet(s)
  PROVE  \E s \in Bad : \A u \in Bad : Cardinality(s) <= Cardinality(u)
<1>. DEFINE Sizes  == {Cardinality(s) : s \in Bad}
            Before == {ss \in Nat \X Nat : ss[1] < ss[2]}
<1>0. \A s \in Bad : Cardinality(s) \in Nat
  BY FS_CardinalityType
<1>1. Sizes \subseteq Nat /\ Sizes # {}
  BY <1>0
<1>2. IsWellFoundedOn(Before, Nat)
  BY NatLessThanWellFounded, Zenon DEF OpToRel
<1>. HIDE DEF Before
<1>3. PICK n \in Sizes : \A m \in Sizes : ~(<<m, n>> \in Before)
  BY <1>1, <1>2, WFMin, Zenon
<1>4. \A m \in Sizes : n <= m
  <2>. TAKE m \in Sizes
  <2>1. <<m, n>> \notin Before /\ m \in Nat /\ n \in Nat
    BY <1>1, <1>3
  <2>. QED
    BY <2>1 DEF Before
<1>. QED
  BY <1>4

LEMMA FirstIn == ASSUME NEW S, S # {} PROVE First(S) \in S
BY DEF First

LEMMA Without ==
  ASSUME NEW S, IsFiniteSet(S), NEW o \in S
  PROVE  /\ IsFiniteSet(S \ {o}) /\ Cardinality(S \ {o}) \in Nat
         /\ Cardinality(S) \in Nat /\ Cardinality(S \ {o}) < Cardinality(S)
<1>1. IsFiniteSet(S \ {o}) /\ Cardinality(S \ {o}) = Cardinality(S) - 1
  BY FS_RemoveElement
<1>. QED
  BY <1>1, FS_CardinalityType

\* Two such functions agree where both are defined.
LEMMA SumsAgree ==
  ASSUME NEW S, NEW U, IsFiniteSet(S), U \subseteq S, NEW f, Sums(S, f), NEW g, Sums(U, g)
  PROVE  \A s \in SUBSET U : f[s] = g[s]
<1>. DEFINE Bad == {s \in SUBSET U : f[s] # g[s]}
<1>. SUFFICES ASSUME Bad # {} PROVE FALSE
  OBVIOUS
<1>1. \A s \in SUBSET U : IsFiniteSet(s)
  BY FS_Subset
<1>2. PICK s \in Bad : \A u \in Bad : Cardinality(s) <= Cardinality(u)
  <2>1. \A u \in Bad : IsFiniteSet(u)
    BY <1>1
  <2>. HIDE DEF Bad
  <2>. QED
    BY <2>1, SmallestSet
<1>3. /\ f[s] = IF s = {} THEN 0 ELSE First(s).records + f[s \ {First(s)}]
      /\ g[s] = IF s = {} THEN 0 ELSE First(s).records + g[s \ {First(s)}]
  <2>1. s \in SUBSET S /\ s \in SUBSET U
    BY <1>2
  <2>. QED
    BY <2>1 DEF Sums
<1>4. s # {}
  BY <1>2, <1>3
<1>5. s \ {First(s)} \in SUBSET U /\ s \ {First(s)} \notin Bad
  <2>1. First(s) \in s /\ IsFiniteSet(s)
    BY <1>1, <1>2, <1>4, FirstIn
  <2>2. ~(Cardinality(s) <= Cardinality(s \ {First(s)}))
    BY <2>1, Without
  <2>. QED
    BY <1>2, <2>2
<1>. QED
  BY <1>2, <1>3, <1>4, <1>5

LEMMA SumsExist == ASSUME NEW S, IsFiniteSet(S) PROVE \E g : Sums(S, g)
<1>. DEFINE Bad == {s \in SUBSET S : ~\E g : Sums(s, g)}
            Fun(s) == CHOOSE g : Sums(s, g)
<1>. SUFFICES ASSUME Bad # {} PROVE FALSE
  OBVIOUS
<1>1. \A s \in SUBSET S : IsFiniteSet(s)
  BY FS_Subset
<1>2. PICK W \in Bad : \A u \in Bad : Cardinality(W) <= Cardinality(u)
  <2>1. \A u \in Bad : IsFiniteSet(u)
    BY <1>1
  <2>. HIDE DEF Bad
  <2>. QED
    BY <2>1, SmallestSet
<1>3. W \in SUBSET S /\ ~\E g : Sums(W, g)
  BY <1>2
<1>4. ASSUME NEW s \in SUBSET W, NEW o \in W, o \notin s PROVE Sums(s, Fun(s))
  <2>1. s \subseteq W \ {o} /\ IsFiniteSet(W) /\ s \in SUBSET S
    BY <1>1, <1>3, <1>4
  <2>2. IsFiniteSet(W \ {o}) /\ Cardinality(W \ {o}) < Cardinality(W)
        /\ Cardinality(W \ {o}) \in Nat /\ Cardinality(W) \in Nat
    BY <2>1, Without
  <2>3. Cardinality(s) <= Cardinality(W \ {o}) /\ Cardinality(s) \in Nat
    BY <2>1, <2>2, FS_Subset, FS_CardinalityType
  <2>4. ~(Cardinality(W) <= Cardinality(s))
    BY <2>2, <2>3
  <2>5. s \notin Bad
    BY <1>2, <2>4
  <2>6. \E g : Sums(s, g)
    BY <2>1, <2>5
  <2>. QED
    BY <2>6, Zenon
<1>. DEFINE Val(s) == Fun(s)[s]
            g == [s \in SUBSET W |-> IF s = {} THEN 0 ELSE First(s).records + Val(s \ {First(s)})]
<1>5. ASSUME NEW s \in SUBSET W, s # {} PROVE Val(s \ {First(s)}) = g[s \ {First(s)}]
  <2>. DEFINE t == s \ {First(s)}
              u == t \ {First(t)}
  <2>1. First(s) \in W /\ First(s) \notin t /\ t \in SUBSET W
    BY <1>5, FirstIn
  <2>2. Sums(t, Fun(t))
    BY <1>4, <2>1
  <2>3. Val(t) = IF t = {} THEN 0 ELSE First(t).records + Fun(t)[u]
    <3>. HIDE DEF Fun, t
    <3>. QED
      BY <2>2 DEF Sums
  <2>4. ASSUME t # {} PROVE Fun(t)[u] = Val(u)
    <3>1. u \in SUBSET W /\ First(s) \notin u /\ u \subseteq t
      BY <2>1
    <3>2. Sums(u, Fun(u))
      BY <1>4, <2>1, <3>1
    <3>3. IsFiniteSet(t)
      BY <1>1, <1>3, <2>1
    <3>. HIDE DEF Fun, t, u
    <3>. QED
      BY <2>2, <3>1, <3>2, <3>3, SumsAgree
  <2>5. g[t] = IF t = {} THEN 0 ELSE First(t).records + Val(u)
    <3>. HIDE DEF Val
    <3>. QED
      BY <2>1
  <2>. HIDE DEF Val, Fun, g
  <2>. QED
    BY <2>3, <2>4, <2>5
<1>6. Sums(W, g)
  <2>. HIDE DEF Val
  <2>. QED
    BY <1>5 DEF Sums
<1>. QED
  BY <1>3, <1>6

\* The sum is taken of an element, and then of the rest.
LEMMA TotalUnfolds ==
  ASSUME NEW S, IsFiniteSet(S)
  PROVE  Total(S) = IF S = {} THEN 0 ELSE First(S).records + Total(S \ {First(S)})
<1>. DEFINE f == CHOOSE g : Sums(S, g)
            T == S \ {First(S)}
            h == CHOOSE g : Sums(T, g)
<1>1. IsFiniteSet(T)
  BY FS_Subset
<1>2. Sums(S, f) /\ Sums(T, h)
  <2>1. Sums(S, f)
    BY SumsExist, Zenon
  <2>2. Sums(T, h)
    <3>. HIDE DEF T
    <3>. QED
      BY <1>1, SumsExist, Zenon
  <2>. QED
    BY <2>1, <2>2
<1>3. Total(S) = f[S] /\ Total(T) = h[T]
  BY TotalSums
<1>. HIDE DEF f, h
<1>4. f[T] = h[T]
  <2>1. T \subseteq S /\ T \in SUBSET T
    OBVIOUS
  <2>. HIDE DEF T
  <2>. QED
    BY <1>2, <2>1, SumsAgree
<1>5. f[S] = IF S = {} THEN 0 ELSE First(S).records + f[T]
  BY <1>2 DEF Sums
<1>. QED
  BY <1>3, <1>4, <1>5

\* It is a number, and the same whichever element is taken first.
LEMMA TotalTakes ==
  ASSUME NEW S, IsFiniteSet(S), \A o \in S : o.records \in Nat
  PROVE  Total(S) \in Nat /\ \A o \in S : Total(S) = o.records + Total(S \ {o})
<1>. DEFINE Takes(s) == Total(s) \in Nat /\ \A o \in s : Total(s) = o.records + Total(s \ {o})
            Bad == {s \in SUBSET S : ~Takes(s)}
<1>. SUFFICES ASSUME Bad # {} PROVE FALSE
  OBVIOUS
<1>1. \A s \in SUBSET S : IsFiniteSet(s)
  BY FS_Subset
<1>. HIDE DEF Takes
<1>2. PICK s \in Bad : \A u \in Bad : Cardinality(s) <= Cardinality(u)
  <2>1. \A u \in Bad : IsFiniteSet(u)
    BY <1>1
  <2>. HIDE DEF Bad
  <2>. QED
    BY <2>1, SmallestSet
<1>3. s \in SUBSET S /\ IsFiniteSet(s) /\ ~Takes(s)
  BY <1>1, <1>2
<1>4. ASSUME NEW o \in s PROVE Takes(s \ {o})
  <2>1. ~(Cardinality(s) <= Cardinality(s \ {o}))
    BY <1>3, Without
  <2>. QED
    BY <1>2, <1>3, <2>1
<1>5. CASE s = {}
  BY <1>3, <1>5, TotalUnfolds DEF Takes
<1>6. CASE s # {}
  <2>. DEFINE c == First(s)
  <2>1. c \in s /\ Total(s) = c.records + Total(s \ {c}) /\ c.records \in Nat
    BY <1>3, <1>6, FirstIn, TotalUnfolds
  <2>. HIDE DEF c
  <2>2. Total(s \ {c}) \in Nat /\ Total(s) \in Nat
    BY <1>4, <2>1 DEF Takes
  <2>3. ASSUME NEW o \in s, o # c PROVE Total(s) = o.records + Total(s \ {o})
    <3>1. o.records \in Nat /\ c \in s \ {o} /\ o \in s \ {c}
      BY <1>3, <2>1, <2>3
    <3>2. /\ Total(s \ {c}) = o.records + Total((s \ {c}) \ {o})
          /\ Total(s \ {o}) = c.records + Total((s \ {o}) \ {c})
      BY <1>4, <2>1, <3>1 DEF Takes
    <3>3. (s \ {c}) \ {o} = (s \ {o}) \ {c} /\ Total((s \ {o}) \ {c}) \in Nat
      <4>1. c \in s \ {o} /\ IsFiniteSet((s \ {o}) \ {c})
        BY <1>3, <3>1, FS_Subset
      <4>2. (s \ {o}) \ {c} \in SUBSET S /\ (s \ {o}) \ {c} \notin Bad
        <5>1. IsFiniteSet(s \ {o}) /\ Cardinality(s \ {o}) < Cardinality(s)
              /\ Cardinality(s \ {o}) \in Nat /\ Cardinality(s) \in Nat
          BY <1>3, Without
        <5>2. Cardinality((s \ {o}) \ {c}) < Cardinality(s \ {o}) /\ Cardinality((s \ {o}) \ {c}) \in Nat
          BY <3>1, <5>1, Without
        <5>3. ~(Cardinality(s) <= Cardinality((s \ {o}) \ {c}))
          BY <5>1, <5>2
        <5>. QED
          BY <1>2, <1>3, <5>3
      <4>. QED
        BY <4>2 DEF Takes
    <3>4. Total((s \ {c}) \ {o}) = Total((s \ {o}) \ {c})
      BY <3>3
    <3>. QED
      BY <2>1, <3>1, <3>2, <3>3, <3>4
  <2>4. Takes(s)
    BY <2>1, <2>2, <2>3 DEF Takes
  <2>. QED
    BY <1>3, <2>4
<1>. QED
  BY <1>5, <1>6

LEMMA TotalAdds ==
  ASSUME NEW S, IsFiniteSet(S), \A o \in S : o.records \in Nat, NEW o, o \notin S, o.records \in Nat
  PROVE  Total(S \cup {o}) = Total(S) + o.records /\ Total(S) \in Nat
<1>1. IsFiniteSet(S \cup {o}) /\ (S \cup {o}) \ {o} = S /\ \A q \in S \cup {o} : q.records \in Nat
  BY FS_AddElement
<1>2. Total(S) \in Nat
  BY TotalTakes
<1>3. Total(S \cup {o}) = o.records + Total((S \cup {o}) \ {o})
  BY <1>1, TotalTakes
<1>4. Total((S \cup {o}) \ {o}) = Total(S)
  BY <1>1
<1>. QED
  BY <1>2, <1>3, <1>4

-----------------------------------------------------------------------------
\* The records a run counts are those of the outcomes that succeeded.
SumOK(r) == ex[r].pc # "killed" => ex[r].records = Total(Succeeded(r))

LEMMA TotalOfNone == Total({}) = 0
BY TotalUnfolds, FS_EmptySet

LEMMA SumStep ==
  ASSUME TypeOK, WorkingOnOne, NEW r \in Runs, insert_fetch_run(r) \/ RunStep(r),
         ReportOK(r), SumOK(r)
  PROVE  SumOK(r)'
<1> DEFINE a == ex[r]
           b == ex'[r]
<1>1. /\ a.records = Total(Succeeded(r)) /\ a.extracted \in Nat
      /\ IsFiniteSet(a.outcomes) /\ \A o \in a.outcomes : o.records \in Nat
  <2>1. a \in RunRecord
    BY DEF TypeOK
  <2>2. a.pc # "killed"
    BY RunStepShape DEF StepOf, Active
  <2>3. a.extracted \in Nat /\ a.outcomes \subseteq RecipeOutcome
    BY <2>1 DEF RunRecord
  <2> QED  BY <2>2, <2>3 DEF SumOK, ReportOK, RecipeOutcome
<1>2. CASE recipe_succeeded(r)
  <2> DEFINE new == [rec |-> a.current, kind |-> "succeeded", records |-> a.extracted]
  <2>1. /\ b.outcomes = a.outcomes \cup {new} /\ b.records = a.records + a.extracted
        /\ a.pc = "inserting"
    BY <1>2, SucceededMoves DEF Reports
  <2>2. \A o \in a.outcomes : o.rec # a.current
    BY <2>1 DEF ReportOK, AtWork
  <2>3. Succeeded(r)' = Succeeded(r) \cup {new}
    BY <2>1 DEF Succeeded
  <2>4. /\ IsFiniteSet(Succeeded(r)) /\ new \notin Succeeded(r)
        /\ new.records = a.extracted /\ \A o \in Succeeded(r) : o.records \in Nat
    BY <1>1, <2>2, FS_Subset DEF Succeeded
  <2> HIDE DEF new
  <2>5. Total(Succeeded(r) \cup {new}) = Total(Succeeded(r)) + a.extracted
    BY <1>1, <2>4, TotalAdds
  <2>6. Total(Succeeded(r)') = a.records + a.extracted
    BY <1>1, <2>3, <2>5
  <2> QED  BY <2>1, <2>6 DEF SumOK
<1>3. CASE \/ insert_fetch_run(r) \/ prepare_plan(r) \/ close_run_with_error(r) \/ update_fetch_run(r)
           \/ load_recipes(r) \/ authoring_done(r) \/ recipes_done(r) \/ persist_run_outcomes(r)
           \/ \E n \in Nominations : nomination_done(r, n)
           \/ \E rec \in Recipe : save_recipe(r, rec) \/ fetch_recipe_bytes(r, rec)
           \/ apply(r) \/ insert_record(r)
  <2>1. \/ b.records = a.records /\ b.outcomes = a.outcomes
        \/ b.records = 0 /\ b.outcomes = {}
        \/ \E rec, kind : kind # "succeeded" /\ Reports(a, b, rec, kind, 0) /\ b.records = a.records
    <3>1. CASE insert_fetch_run(r) \/ prepare_plan(r) \/ close_run_with_error(r) \/ update_fetch_run(r)
      BY <3>1, RowMoves DEF Moves, GivesUp, SameReport
    <3>2. CASE load_recipes(r)
      BY <3>2, LoadMoves DEF GivesUp, SameReport
    <3>3. CASE authoring_done(r)
      BY <3>3, AuthoringDoneMoves
    <3>4. CASE recipes_done(r) \/ persist_run_outcomes(r)
      BY <3>4, RecipesDoneMoves, PersistMoves DEF Moves, SameReport
    <3>5. CASE \E n \in Nominations : nomination_done(r, n)
      BY <3>5, NominationMoves DEF SameReport
    <3>6. CASE \E rec \in Recipe : save_recipe(r, rec)
      BY <3>6, SaveMoves DEF SameReport, GivesUp
    <3>7. CASE \E rec \in Recipe : fetch_recipe_bytes(r, rec)
      BY <3>7, FetchMoves DEF SameReport
    <3>8. CASE apply(r)
      BY <3>8, ApplyMoves DEF SameReport
    <3>9. CASE insert_record(r)
      BY <3>9, InsertMoves DEF SameReport
    <3> QED  BY <1>3, <3>1, <3>2, <3>3, <3>4, <3>5, <3>6, <3>7, <3>8, <3>9
  <2>2. CASE b.records = 0 /\ b.outcomes = {}
    <3>1. Succeeded(r)' = {}
      BY <2>2 DEF Succeeded
    <3> QED  BY <2>2, <3>1, TotalOfNone DEF SumOK
  <2>3. CASE \/ b.records = a.records /\ b.outcomes = a.outcomes
             \/ \E rec, kind : kind # "succeeded" /\ Reports(a, b, rec, kind, 0) /\ b.records = a.records
    <3>1. Succeeded(r)' = Succeeded(r) /\ b.records = a.records
      BY <2>3 DEF Succeeded, Reports
    <3> QED  BY <1>1, <3>1 DEF SumOK
  <2> QED  BY <2>1, <2>2, <2>3
<1> QED  BY <1>2, <1>3 DEF RunStep

LEMMA SumsNext ==
  TypeOK /\ WorkingOnOne /\ RunsOK /\ (\A r \in Runs : SumOK(r)) /\ [Next]_vars
    => (\A r \in Runs : SumOK(r))'
<1> SUFFICES ASSUME TypeOK, WorkingOnOne, RunsOK, \A r \in Runs : SumOK(r), [Next]_vars, NEW s \in Runs
             PROVE  SumOK(s)'
  OBVIOUS
<1>1. CASE UNCHANGED ex \/ Kill
  <2>1. ex'[s] = ex[s] \/ ex'[s].pc = "killed"
    BY <1>1 DEF Kill, Idle
  <2> QED  BY <2>1 DEF SumOK, Succeeded
<1>2. ASSUME NEW r \in Runs, insert_fetch_run(r) \/ RunStep(r)  PROVE SumOK(s)'
  <2>1. CASE s = r
    BY <1>2, <2>1, SumStep DEF RunsOK, RunOK
  <2>2. CASE s # r
    <3>1. ex'[s] = ex[s]
      BY <1>2, <2>2, RunStepShape DEF StepOf
    <3> QED  BY <3>1 DEF SumOK, Succeeded
  <2> QED  BY <2>1, <2>2
<1>3. CASE Decide \/ UNCHANGED vars
  BY <1>1, <1>3 DEF Decide, accept_plan, reject_plan, vars
<1> QED  BY <1>1, <1>2, <1>3 DEF Next

\* FetchReport: the three counters of a row that was closed without an error are the
\* number of recipes that the run attempted, each with an outcome, the number of those
\* that succeeded, and the sum of their records.
THEOREM RowCountsReport == Spec => []RowMatchesReport
<1>1. RunsOK /\ (\A r \in Runs : SumOK(r)) => RowMatchesReport
  <2> SUFFICES ASSUME RunsOK, \A r \in Runs : SumOK(r), NEW r \in Runs,
                      fetch_runs[r].state = "closed", ~fetch_runs[r].error
               PROVE  /\ fetch_runs[r].attempted = Cardinality({o.rec : o \in ex[r].outcomes})
                      /\ fetch_runs[r].succeeded = Cardinality(Succeeded(r))
                      /\ fetch_runs[r].records = Total(Succeeded(r))
    BY DEF RowMatchesReport, Total
  <2>1. ReportOK(r) /\ RowOK(r) /\ SumOK(r)
    BY DEF RunsOK, RunOK
  <2>2. ex[r].pc = "done"
    BY <2>1 DEF RowOK
  <2>3. {o.rec : o \in ex[r].outcomes} = ex[r].work
    BY <2>1, <2>2 DEF ReportOK, AtWork, Writing
  <2> QED  BY <2>1, <2>2, <2>3 DEF RowOK, ReportOK, SumOK
<1>2. Init => \A r \in Runs : SumOK(r)
  <2> SUFFICES ASSUME Init, NEW r \in Runs  PROVE ex[r].records = Total(Succeeded(r))
    BY DEF SumOK
  <2>1. ex[r].records = 0 /\ Succeeded(r) = {}
    BY DEF Init, Idle, Succeeded
  <2> QED  BY <2>1, TotalOfNone
<1> QED  BY <1>1, <1>2, SumsNext, TypeCorrect, RunsCorrect, PTL DEF Spec

\* A run never reports a record the store does not hold, and but for a recipe that
\* failed in the middle of its inserts it reports all of them.
THEOREM ReportedAreStored == Spec => []ReportedRecordsAreStored
<1>1. RunsOK => ReportedRecordsAreStored
  BY DEF RunsOK, RunOK, StoredOK, ReportedRecordsAreStored
<1> QED  BY <1>1, RunsCorrect, PTL

\* persist_run_outcomes: what a closed run reported is in the table, but for at most
\* one outcome for each store call that failed.
THEOREM ReportIsPersisted == Spec => []OutcomeRowsCoverReport
<1>1. TypeOK /\ RunsOK => OutcomeRowsCoverReport
  <2> SUFFICES ASSUME TypeOK, RunsOK, NEW r \in Runs,
                      fetch_runs[r].state = "closed", ~fetch_runs[r].error
               PROVE  LET reported == ex[r].declines \cup ex[r].outcomes
                      IN  /\ outcome_rows[r] \subseteq reported
                          /\ Cardinality(reported \ outcome_rows[r]) <= faults
    BY DEF OutcomeRowsCoverReport
  <2>1. RowOK(r) /\ PersistOK(r)
    BY DEF RunsOK, RunOK
  <2>2. ex[r].pc = "done"
    BY <2>1 DEF RowOK
  <2>3. ex[r].unsaved = {}
    BY <2>1, <2>2 DEF PersistOK
  <2>4. outcome_rows[r] \cup ex[r].unsaved = outcome_rows[r]
    BY <2>3
  <2> QED  BY <2>1, <2>2, <2>4 DEF PersistOK, Writing
<1> QED  BY <1>1, RunsCorrect, PTL

\* When authoring is over every nomination that was asked about has failed, or has a
\* recipe or a decline for each target, or one decline of its own, and never both.
THEOREM NominationsSettled == Spec => []NominationsAccountedFor
<1>1. RunsOK => NominationsAccountedFor
  <2> SUFFICES ASSUME RunsOK, NEW r \in Runs, NEW n \in Nominations, <<n, r>> \in asked,
                      ex[r].pc \in {"running", "persisting", "closing", "done"}
               PROVE  LET authored == {rec.tgt : rec \in {x \in ex[r].work : x.nom = n}}
                          declined == {d.tgt : d \in {x \in ex[r].declines \ LegacyIds : x.nom = n}}
                      IN  /\ authored \cap declined = {}
                          /\ IF n \in ex[r].hardErr THEN authored \cup declined = {}
                             ELSE \/ Targets \subseteq authored \cup declined
                                  \/ authored = {} /\ declined = {Whole}
    BY DEF NominationsAccountedFor
  <2>1. ex[r].saving = {} /\ Settled(r, n)
    BY DEF RunsOK, RunOK, SettledOK, AtWork, Writing
  <2>2. AuthoredOf(r, n) = {rec.tgt : rec \in {x \in ex[r].work : x.nom = n}}
    BY <2>1 DEF AuthoredOf
  <2> QED  BY <2>1, <2>2 DEF Settled, DeclinedOf
<1> QED  BY <1>1, RunsCorrect, PTL

=============================================================================
