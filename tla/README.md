# Verification of situation_room

TLA+ models of the parts of situation_room that keep state, interleave and
fail, with TLC runs on small instances and TLAPS proofs. Paths below are
relative to the root of the repository; `FE` stands for
`crates/pipeline/src/fetch_executor.rs`.

    tlc  -config MCFetchExecutor.cfg MCFetchExecutor.tla     # a run
    tlapm FetchExecutorProofs.tla                            # proofs

`PROJECT.json` lists the components, the runs, the source lines every
definition models, the hazards, the findings and the theorems.

## 1. The system

A research plan, proposed by a classifier, waits for an operator. Accepting it
permits fetching: a *run* authors one recipe per nominated source and target
with the help of an LLM (or reuses the recipes there are), downloads the bytes
of each recipe through a fetcher that backs off per host, applies the recipe,
stores the records and a document, lets five extractors look at the document
and closes a row that reports what happened. A *promotion pass* then turns
assertions into promoted records, by authority or by consensus. Everything
persistent is in one DuckDB file behind one connection in one mutex. A panel
(Svelte) calls the commands (Rust) over an asynchronous bridge; commands run
beside each other.

    panel --classify, accept, reject, reclassify--> plans, entities, triples
      |                                               |
      | run_fetch_for_plan                            v
      +----------------> fetch executor --author_for_nomination--> LLM (semaphore)
      |                      |    |  \--fetch_with_backoff--> HTTP (per-host map)
      | reauthor, note       v    v
      +------------------> recipes  records, documents --extract--> assertions, ...
      | re-extract, cull, promote              |                        |
      +----------------------------------------+--> promotion <-- authority registry
                                                       v
                                             promoted records, history

### Components

**Fetch executor** (`FE`, `fetch_runs.rs`, `fetch_run_outcomes.rs`). State: the
tables of plans, recipes, runs, outcomes, records, documents and attempts, and
the locals of each call of `run_fetch_for_plan`. Operations: open the run row,
check the plan, load or author recipes, run each recipe (five modes), persist
outcomes, close the row. Hard: the call is a long sequence of store calls and
awaits, any of which can fail; each error path has to close the row; the
process can die between any two; two calls for one plan share the tables.
Correct when: nothing happens for a plan that was not accepted, the report and
the tables agree, each recipe and nomination is accounted for once, each
recipe is authored once, a row does not stay open.

**Target fairness** (`build_target_expectations`, FE, ADR 0018). A round-robin
over the four record-typed buckets of a plan, under a cap. Correct when the
targets are distinct, the cap is used and no bucket starves.

**Per-nomination authoring** (`author_for_nomination`, FE). State:
the locals of one future per nomination (attempt, filled targets, tentative
declines, prior attempts) and a semaphore shared by all LLM calls. Hard: up to
three attempts with partial success, a deadline, seven exits, concurrent calls
inside one attempt. Correct when: each future resolves once to a result its
caller can tell apart; no target is authored twice, lost, or both authored and
declined; permits are given back; the proposer hears of every earlier attempt.

**Recipe application** (`recipe_author.rs`, `recipe_apply.rs`). An answer of
the LLM becomes a recipe under rules; a pre-fetched page validates its shape;
each fetch applies it to the page of the day, node by node with an iterator.
Hard: four places find errors, each in an order of its own, and the validation
looks at one node where the application looks at all. Correct when both agree
and what no page can cure does not get past authoring.

**Recipe lineage and feedback** (`recipe_author.rs`, `recipes.rs`,
`recipe_feedback.rs`, `commands.rs`, `plans.svelte.ts`). State: the rows of
recipes with version and prior, the attempts, the operator's notes and what the
panel shows of them. Hard: a re-authoring stamps the version after an LLM call,
from a row read before it; the panel shows a note before it is stored. Correct
when a lineage can be walked, the newest version wins, the panel tells the truth.

**Document extraction** (`extract.rs`, `document_synth.rs`, `reextract.rs`,
`cull.rs`). State: documents, what the extractors stored of them, the locals of
the run, of re-extractions and of a clean-up. Hard: drafts are inserted one by
one and each can fail; re-extraction and clean-up work on lists read earlier.
Correct when rows come from pages and kinds their extractor takes, reports
count what is stored, no document is passed over, and the clean-up takes the
assertions of listings, all and only.

**Host backoff** (`fetch_backoff.rs`). State: a map from hosts to the instant
before which no request may fire and a failure count. Operations:
`before_request`, the three `record_*`, the inline retry of
`fetch_with_backoff`. Hard: the map is read, then slept on, then written, by
fetches that overlap. Correct when: no request fires at a blocked host, a
host's demand is not shortened, a fetch ends.

**Promotion** (`promote.rs`, `authoritative.rs`, `authoritative_live.rs`).
State: assertions, promoted rows, the authority registry, the locals of a pass.
Operations: the authoritative pass, the consensus pass, the existence check,
the insert. Hard: a check and an insert that are two critical sections, copies
of the assertions and the registry that go stale, failing inserts, passes that
overlap, process death. Correct when: a claim is promoted once, with the
backing its pathway asks for, no claim that should be promoted is missed, and
the report counts what was inserted.

**Promote history and refresh log** (`promote_history.rs`,
`entity_refresh_log.rs`, `entities.rs`, `commands.rs`). Each is a ring in memory
and a table, both cut to a cap, written one after the other. Correct when both
hold the newest entries and a restart shows what was shown.

**Plan decisions and their entities** (`commands.rs`, `entity_synth.rs`,
`relation_synth.rs`, `orphan_cleanup.rs`, `entities.rs`). State: the status of
plans, the rows of entities with their tier and source, the triples, the locals
of each call. Operations: accept a plan and materialise its exemplars and
triples, reject one and clean up (rewire or delete its entities), upsert an
entity by provenance tier. Hard: an upsert reads under two locks and writes
under a third; acceptance is many upserts, each of which may fail; calls
overlap with each other and with runs that store entities. Correct when: an
accepted plan has its exemplars, no entity is left without a cause, the richer
tier wins, a triple is stored once.

**Plan lifecycle and panel** (`commands.rs`, `research_plans.rs`,
`plans.svelte.ts`, `PlanReview.svelte`). State: the rows of plans, and in the
panel the selection, the filter, the listing, the panels of the selected plan
and the dialogs. Operations: classify, reclassify with a note, accept, reject,
open, list, fetch. Hard: the panel changes before a command answers and again
when it does, whatever was clicked in between; commands break off half-way.
Correct when the panel shows what the tables hold.

**Live registries** (`authoritative_live.rs`, `apps_common`). A watcher replaces
the registry in memory. Here: the registry changes at any moment.

**Storage** (`connection.rs`): a call is one critical section that succeeds or
fails. **HTTP fetching**, **LLM providers**, **URL guard**, **classifier**: what
they answer is a choice of the models that call them.

Not modelled: **LLM cache and cost ledger** (one map behind one lock, a ring
like those of `BoundedHistory`; a truncated answer is asked for once more with
twice the tokens), the prompt and validation of **the classifier**, **core
schema**, **DTOs** and **security helpers** (pure functions of text and types,
where a model would repeat the code), **evaluation harness** and **command
line** (drivers of the same pipeline), the start-up, dashboards, drawers and
polling of the **desktop application**. **Record synthesis** rewrites text and
units; of it the models keep that it refuses nothing and that a document's body
has no tags. Prompts, string work and tests are most of the lines that no
definition is mapped to.

### How the components meet

The executor awaits the futures of `author_for_nomination` and takes their
results in the order they resolve; it reads and writes only the store
otherwise. Each result is one that `AuthoringContract` allows, which
`FetchExecutor` takes for granted and `AuthorNomination` is shown to honour.
Pre-fetches and recipe fetches go through one `HostBackoff`; to the other two
its answers are choices (bytes, failure, rate limit). Promotion meets the
executor in the store (assertions it extracts) and after a run, which starts a
pass; `Promote` starts passes at any moment, and `BoundedHistory` records their
ends in any overlap. Accepting and rejecting meet the executor in the status
(`FetchExecutor`) and in the entities that runs store (`PlanEntities`), and the
panel in the commands (`PlanPanel`). Re-authoring meets the executor in the
table of recipes (`RecipeLineage`); `DocumentExtraction` has a run, which saves
recipes and documents, beside re-extractions and a clean-up.

### Hazards

`PROJECT.json` lists them with lines. In short: (a) two store calls that the
code thinks of as one, with another actor or a crash in between (recipes
authored twice, claims promoted twice, a half-written batch, entities, lists
read under two locks); (b) error paths that leave something open, unreported or
shown and not true; (c) copies used after the original changed (backoff map,
registry, plan status, recipe version, the clean-up's lists, the selected
plan); (d) attempts that succeed in part; (e) permits, sleeps and queues that
have to come to an end; (f) caps, in memory and on disk.

## 2. Modules

| module | models |
|---|---|
| `FetchExecutor`, `FetchExecutorProofs` | `run_fetch_for_plan`, two or more calls over one store |
| `TargetFairness` | `build_target_expectations` |
| `AuthoringContract` | the results of authoring one nomination |
| `AuthoringOutcome` | the abstract promise: each future resolves once, to such a result |
| `AuthorNomination`, `AuthorNominationProofs` | `author_for_nomination` for all nominations, with the semaphore; implements `AuthoringOutcome` |
| `RecipeApplication` | `build_validated_recipe`, the shape validation, `apply_recipe` |
| `RecipeLineage` | `reauthor_recipe` beside runs, `recipe_lineage` |
| `RecipeFeedback` | notes on recipes, in the table and in the panel |
| `DocumentExtraction`, `DocumentExtractionProofs` | the documents of a run, five extractors, re-extraction, clean-up |
| `HostBackoff`, `HostBackoffProofs` | `fetch_with_backoff` and the per-host map |
| `Promote`, `PromoteProofs` | `promote_consensus_for_plan`, passes over one store |
| `BoundedHistory` | the promote history and the refresh log, in memory and on disk |
| `PlanEntities`, `PlanEntitiesProofs` | `accept_plan`, `reject_plan` and what they do to entities and triples, with the upserts of runs |
| `PlanPanel` | the commands on plans and the store of the panel |
| `AppliedRecipes`, `ShownNotes`, `ShownHistory`, `ShownPlans` | instances of `RecipeApplication`, `RecipeFeedback`, `BoundedHistory` and `PlanPanel` under names that let them stand beside other modules, and their properties; extended by the MC modules and by the proofs |
| `RecipesProofs` | theorems about `RecipeLineage`, `TargetFairness` and `RecipeApplication` |
| `PanelProofs` | theorems about `RecipeFeedback`, `BoundedHistory` and `PlanPanel` |
| `MC*` | instances for TLC |

An MC module may hold parts that share no state; its variable `part` says
which of them a behaviour is of, so that one run has a share for each:
`MCRecipes` (`RecipeLineage`, `RecipeFeedback`, `RecipeApplication`,
`TargetFairness`), `MCPromote` (`Promote`, `BoundedHistory`), `MCPlanEntities`
(`PlanEntities`, `PlanPanel`).

Every operation with a critical section of its own is an action, named after
the function. Definitions that start with the name of a model's definition and
follow the comment "Mutant" are wrong versions of it; no specification uses
them, and they show that each property can fail: with the mutant in place of
the definition TLC finds the property violated. Where a property is about calls
that follow one another, or excuses those that met an error, a ghost variable
remembers what met (`overlapped`, `crossed`, `recent`, `doubt`, `undisturbed`,
`faulty`); no guard of the code's actions reads it.

### FetchExecutor

One plan. The tables are variables (`status`, `recipes`, `fetch_runs`,
`outcome_rows`, `stored`, `documents`, `attempts`); `ex[r]` holds the locals of
call `r` with a `pc`, and disappears (`Kill`) when the process dies, while the
tables stay. Each store call is one action with a disjunct for success and one
for an error (`StoreOk`, `StoreErr`), followed by the reaction of the code: `?`
leads to `close_run_with_error`, a `warn!` goes on. `faults` counts the errors
(bound `MaxFaults`), `asked` remembers for which nominations a run called the
LLM, and `sanctioned` which runs were under way at a moment at which the plan
was accepted. A recipe is a record of nomination, target and authoring run, so the
rows of two runs differ while their `dedup_key` is the same. Records are
counted, not represented. The bytes, the selectors and the URL are data; the
five runners differ in the stages at which they can fail (`run_one_recipe`).
A nomination's result is any that `AuthoringContract` allows, or an error that
the executor logs and passes over. `accept_plan` and `reject_plan` write the
status whatever it was, at any moment: `prepare_plan` reads it once, so a run goes
on when its plan is rejected meanwhile, and a plan that is rejected after a run
keeps the recipes and records of it. What is promised is therefore said of runs
(`OnlySanctionedRunsLeaveTraces`), not of the status. The panel offers a run of a
plan while none is in progress; a window that is reloaded has forgotten that, so
`Overlap` is a constant.

### TargetFairness

The loop of `build_target_expectations`, one bucket a step: a `while` round
with its early exit, the inner loop, the index of each bucket, the cap that is
looked at inside the round too. Buckets are their sizes, a target is a bucket
and an index.

### AuthorNomination

All futures run on one task (`FuturesUnordered`) and are suspended at four
points only: waiting for a permit, in an LLM call, in the pre-fetch, and in
`join_all`. What lies between two such points is one action: `start` and
`next_attempt` (head of the loop, the only place that looks at the deadline),
`propose_source_url` (returning a permit), `prefetch_excerpt` (which asks for
one permit per unfilled target), `author_recipe` (one result of the join),
`attempt_done` (bookkeeping, the exits). `queue` and `held` are tokio's
semaphore, which is fair. `Outcome` maps a future to its state in
`AuthoringOutcome`.

### RecipeApplication

A draft is a mode, an iterator, and bindings that say where each field comes
from: the main cell, an inner one, a literal, or the plan, where the pointer
may lead nowhere. A page is what the selector selects of it: nodes with cells
that are absent, unusable, text or a number. Selectors, units, dates and the
builders of other record types are abstracted to that; two fields stand for
those a record cannot be without. `build` holds the draft to the rules that
need no page, in their order; `author_recipe` validates its shape on the page
that was pre-fetched, which looks at the first node that has what it samples;
`run_recipe` applies it to the page there is then. Each is a sequence of steps
of which the first to fail decides (`FirstError`).

### RecipeLineage and RecipeFeedback

`recipes` holds rows in the order of their inserts, and no row is ever changed,
so an id is a position. A run loads all rows of the plan, or authors a first
version of each key when there are none; `reauthor_recipe` loads a row, looks
at its latest attempt (the evidence it needs, or brings), calls the LLM and
saves `version + 1` with the row as its prior. Runs follow one another here,
re-authorings overlap with each other and with the run. `crossed` holds keys
re-authored from a row that was not the newest, or twice at once.
`recipe_lineage` is the walk with its cap, as a recursive function.

`RecipeFeedback` has the table and the panel's map. The panel shows a note, or
its absence, when it calls; the command writes under one lock and reads back
under another; the answer, or the failure, sets the map again, and a reload of
the list replaces all of it. `doubt` holds the sources whose calls met, or whose
command failed after its write.

### DocumentExtraction

A fetch of a recipe gives a capture (any page the recipe may meet), which is
inserted as a document, and an insert that fails is passed over; then the
extractors that take such a page are called in order. The model's answer is a
set of kinds, validated against what the plan declares, and each draft is
inserted with a lock of its own. A re-extraction reads the recipes, the ids
again, and the documents, and goes through them, newest first, with the
assertion extractor; one document alone may be asked for. The clean-up reads
the ids and the rows and judges each assertion by the latest document of its
recipe. A recipe stands for its source_id. Records by the recipe itself are the
executor's. `undisturbed` remembers whether anything was stored since the
clean-up read its lists.

### HostBackoff

`blocked[h]` is the number of seconds until `next_allowed_at`; `Tick` counts it
and all sleeping timers down together, so that time needs no bound. A fetch
goes through pre-flight, a sleep, the request, and once more after a short
`Retry-After`. Each `record_*` is one critical section with its read and write
of the map; `u32` saturation of the failure count is `MaxFailures` and the
shift bound is `MaxShift`. The server's answer is any of success, 429 with or
without a hint, timeout, other failure. `SerialHosts` are hosts whose fetches
follow one another, as in the runtime stage of a run; on the others they
overlap, as pre-fetches of concurrent nominations do. The properties about what
a host asks for are of the former, beside whatever happens to the latter.

### Promote

A pass takes a copy of the registry and of the plan's assertions in its first
step, tries what an authority asserted, groups what is left and tries the
groups that meet their quorum. The existence check and the insert are two
actions. A failed check counts as "not promoted" in the code; `blind` remembers
for which claims that happened. `overlapped` remembers whether a pass ever
started while another was under way. A claim is what a `GroupKey` stands for;
the rows of all shapes are one set. A restart ends all passes
(`ProcessDies`); extraction and registry reloads happen at any moment.

### BoundedHistory

An entry takes its time, is inserted and the table cut (one lock, two
statements, of which the second may fail), and is pushed on the ring, which is
cut. The clock may read the same twice. `Restart` ends all calls and fills the
ring from the table, where rows of one instant come in any order; if the read
fails the ring is empty. `recent` holds the entries recorded one after the
other since calls last overlapped or an insert failed. The two histories differ
in their names and caps.

### PlanEntities

`call[c]` holds the locals of one call: an acceptance, a rejection, or the
upsert of an entity that a recipe (`ingest`) or a document (`extract`) gives.
The status is written in the first step, with the call. Each lock of the
connection afterwards is one action: the load of the plan, the look-up of an id
(`find`), the read of its row (`get`), the insert, the update (`refresh`), the
look for a triple, its insert, and the clean-up, which is one transaction. A
row keeps `id`, `entity_id`, `tier`, `source` (the plan that its source_id
names, or `Fetched`) and `born`, the source it was inserted with, which the
properties compare. `entity_id` is unique in the schema, so the second of two
inserts fails, which ends that upsert. `Named` is the search of the clean-up
for an id in the text of the expectations, which finds the ends of triples
too. `faulty` remembers plans whose call met an error or a restart, and
`overlapped` whether a call ever began during another. The commands take a
plan in any status, and so does the model; the panel offers both for pending
plans, while the texts of the migrations 0021 and 0022 speak of plans that
were accepted first.

### PlanPanel

`rows` is `research_plans`; `selected`, `statusFilter`, `recent` and `panels` are
fields of the store in `plans.svelte.ts`, `panels` holding of which plan the
fetch report, the recipes with their runs, and the records are; `dialog` is
that of `PlanReview`, which covers the window. A click changes the panel and
starts a call (`call[c]` with its locals in the panel and in the command); each
lock of the command is one action, after which the answer is shown, the listing
read and, for those that show a plan, background reads are started (`reads`, a
set, as two of one panel and plan cannot be told apart). `mutating`,
`classifying` and `fetching` are derived from the calls under way, which is
what the flags say. `BreakOff` fails a call at any of its steps; what it wrote
stays. The model's plan is any plan or a failure; the 50 rows a listing is cut
to, notes on recipes and panels that are of no plan are left out. `doubt` holds
what calls that met, or one that failed after its write, may have set wrongly,
until a call that meets no other sets it again.

## 3. Runs

CHECK_DEADLOCK is FALSE where the system really stops: all runs, nominations,
passes or calls have ended. `HostBackoff` never stops, and its run checks
deadlock.

| run | instance | checks |
|---|---|---|
| `executor_two_runs` | two consecutive runs, two nominations of one target, a legacy source, up to 2 records a recipe, 1 store error, kills | types; a run under which the plan was never accepted leaves nothing; outcome rows cover the report; one recipe row per dedup key; the run row matches the report; reported records are stored |
| `executor_partial_authoring` | one run, two nominations of two targets, fair | each recipe reported once; each nomination accounted for; open rows are closed |
| `author_nominations` | two nominations of two targets, 3 attempts, 2 permits, fair | a target filled once; latest decline wins; the proposer knows the history; permits belong to calls somebody awaits; every nomination returns; refinement of `AuthoringOutcome` |
| `backoff` | two fetches of two hosts, one host's in turn, the other's overlapping, fair | no request while blocked; a demand is not shortened; a blocking host has failures on record; every fetch ends |
| `promote_overlapping` | two passes, in turn or overlapping, two plans, four assertions of one claim, two registries, quorum 2 or 3, failing reads, checks and inserts, kills; history: two calls, five entries, cap 2, two errors or restarts | promoted once by passes in turn; nothing missed; the report matches the store and accounts for all that was tried; rows have their backing; the newest entries are kept twice |
| `plan_entities` | four calls in any overlap, two plans that share an exemplar, one naming the other's in a triple, one error or restart; panel: three plans, one of each status, up to four, three clicks, two calls at a time, one that breaks off | accepted plans have their exemplars; left-over entities have a cause; in turn, triples once and no poorer tier; the panel tells the truth |
| `recipes` | lineage: two keys, two re-authorings at a time, two runs, four rows, one error or kill; feedback: three calls, two sources, two notes, one error; application: every one-binding draft and some of two, every page of up to two nodes; targets: four buckets of up to three, caps up to six | lineages can be walked; the newest version wins in turn; the panel shows the notes of the table; validation and application agree; static errors are caught; fair shares |
| `documents` | an article and a listing, two fetches, a re-extraction, a clean-up, one extracted row, one error or kill | rows come from pages and kinds their extractor takes; reports count rows; documents there before are read; the clean-up spares prose and is final |

Four runs end in a violation of one property each, a sentence of the source
that the code does not keep (section 5): `executor_overlap`,
`cleanup_takes_fetched_rows`, `validator_and_runtime`, `cull_misses_link_pages`.

Each component with a state that is more than a flag has a type invariant. That
of `FetchExecutor` is checked by a run and proved; those of `AuthorNomination`,
`DocumentExtraction`, `HostBackoff`, `Promote`, `PlanEntities`, `RecipeLineage`
and `BoundedHistory` are proved; what the state of `RecipeFeedback`,
`RecipeApplication` and `PlanPanel` may be is part of their inductive invariants
(section 4).

### Bounds, and why they are enough

* Two runs: the properties relate a run to the tables and to one other run; a
  third meets the same tables as the second. Two records: the smallest batch
  with a first and a second insert. One store error: an error either ends the
  run (`?`) or is local to its row, so that a second meets no new code; where
  it is the bound of a property (`OutcomeRowsCoverReport`) the property counts
  it. Two targets: some authored, some not.
* Three attempts are the code's own constant. Two permits for up to four calls
  make calls queue.
* `Retry-After` 1 lies below the ceiling of the inline retry (2) and 5 above
  the exponential maximum (3), so that each branch and each order of the three
  occurs; the counter saturates at 4, after the schedule has reached its
  maximum (1, 2, 3).
* Two passes overlap in every way two can; a third adds no new pair. The four
  assertions have a claimant that repeats itself, a second claimant and a
  second plan; the registries lower the bar to two for a claim whose general
  quorum is three, with and without an authority. Five entries pass a cap of
  two twice, with two that share an instant.
* Four calls: a row that a run stored, an acceptance and a rejection that meet
  it, and one call beside them. One exemplar is shared by both plans, one
  belongs to one plan and is mentioned by the other. One error or restart per
  behaviour leaves one plan half decided; the other shows what it owes to it.
* Three clicks: a call, one that meets it, and one that meets neither and sets
  right, or not, what they left; a plan of each status gives each button
  something to act on, and a fourth plan is one newly classified.
* Four rows of recipes: a lineage of three (past the cap of two) beside a
  second key, or a fork of two branches. Two attempts with different ends, from
  two runs.
* A page of two nodes has one that is sampled and one that is not; three alike
  pass the cap of records. Every combination of two fields and their sources,
  in one binding, meets every page; of two bindings those that read inner
  cells, or are of one expectation.
* A listing and an article, of which the second may answer with a feed, which
  is an entity's page only; two fetches let one recipe have an old and a new
  document; one row is inserted, counted or lost while the clean-up and the
  re-extraction are anywhere.
* Symmetry (nominations, passes, calls, keys) is used in runs of safety
  properties only, never with liveness.

### Fairness

`WF(RunStep(r))`: tokio polls a task that can go on, and each await ends: LLM
and HTTP clients have total timeouts, store calls return. It does not promise
that a run is started, that an operator decides, that a nomination is authored
or that a request succeeds, and a kill can come at any moment. `WF` of each
future's step and of `acquire`: `FuturesUnordered` polls every woken future and
tokio's semaphore is first come first served. `WF(Tick)`: time passes. No
property assumes strong fairness.

## 4. Theorems

TLC decides the instances above; the theorems hold for every value of the
constants: any finite set of runs, nominations and targets, any bound on
attempts, permits, faults and records, any hosts and hints, any passes, claims
and registries, any keys and re-authorings, any documents, kinds and extractors,
any buckets and caps, any drafts and pages, any plans, notes and clicks. TLC
looked for counterexamples to the inductive invariants on the instances of
section 3 while they were worked out.

| theorem | says | argument |
|---|---|---|
| `FetchExecutorProofs!TypeCorrect` | `[]TypeOK` | not inductive alone: `apply`, `insert_record` and `recipe_succeeded` make an outcome of `current`, which may be `NoRecipe` by its type; `WorkingOnOne` says that in the phases that use it, it is a recipe |
| `OnlySanctioned` | a run under which the plan was accepted at no moment authors, fetches and stores nothing | `PastCheckIsSanctioned`: a run past its status check is in `sanctioned`; `AcceptedIsSanctioned`: so is a run under way while the status is accepted, which is what the check looks at; a run leaves its traces past the check only, and a rejection takes none from `sanctioned` |
| `ClosedIsFinal` | after its row is closed a run writes nothing | `ClosedHasEnded`: a run whose row is closed is in no phase that writes |
| `SerialRunsAuthorOnce` | without overlap, one recipe row per dedup key | `OneActive` (at most one run under way), `OneAuthor` (while a run authors, all rows are its own), `SameAuthor` (all rows are by one run); rows of one run with one key are one row |
| `RecipesReportedOnce` | each recipe has one outcome, in any overlap and with any failures | `ReportOK`: the outcomes are of the recipes worked on and no longer to do, one each, and the recipe in hand is still to do |
| `RowCountsReport` | the counters of a closed row (attempted, succeeded, records) are those of the outcomes | `ReportOK` with the cardinality of the successes, `RowOK`, and `SumOK` for the records. The sum is a fold, that is a recursive function on sets: it is shown to exist (`SumsExist`), to unfold (`TotalUnfolds`) and not to depend on the order in which it takes elements (`TotalTakes`), each by the smallest set of which it would not hold; a success then adds its records (`TotalAdds`) |
| `ReportedAreStored` | reported records are stored; all of them unless an insert failed half-way | `StoredOK`: reported plus inserted for the recipe in hand is at most, or exactly, what the store got |
| `ReportIsPersisted` | at most one reported outcome per failed store call is missing in the table | `PersistOK`: what is in the report but neither in the table nor still to be written is at most `faults` |
| `NominationsSettled` | a nomination asked about failed, or has a recipe or decline for each target, or one decline of its own | `SettledOK`: it is untouched while its future is pending, and settled when it resolved; uses what `AuthoringContract` allows, which `AuthoringKeepsPromise` shows to be kept |
| `AuthorNominationProofs!TargetsFilledOnce`, `LastDeclineCounts`, `HistoryIsTold` | a target has one recipe at most and no decline beside it; the pending decline is of the last attempt with bytes; the proposer hears of each attempt once | `FutureOK`, for one future: what is filled, pending and prior agree in every phase (`Accounts`, `LoopInv`), and each answer of an attempt is in exactly one of its two piles (`AfterAttempt`) |
| `AuthoringKeepsPromise` | `AuthorNomination` implements `AuthoringOutcome` | every step is a stutter or resolves one future; `Valid`: a result returned as ok is one of `AuthoringContract`. The step and the initial state are proved; the fairness of the abstract module is not part of its specification |
| `PermitsFollowCalls` | at most `Permits` calls in flight, and those waiting or in flight are those awaited | `SemaphoreInv`: nothing occurs twice in the queue, queue and permits are disjoint and together are what the futures await; rests on lemmas about what joining, taking and appending do to sequences without repetition |
| `AuthoringTypes` | `[]TypeOK` | from the two invariants |
| `HostBackoffProofs!BackoffTypes` | `[]TypeOK`; no third request | not inductive alone: `TriesOK` says that a fetch that sleeps before its retry has sent one request |
| `SerialFiresUnblocked`, `SerialNeverShortened`, `SerialBlockedMeansFailing` | for hosts whose fetches follow one another, whatever those of other hosts do: no request while blocked, no demand shortened, a blocking host has failures on record | `OnePerHost`, `SleepCoversBlock` (a sleeping fetch's timer is at least what its host still blocks), `RequestsUnblocked` (a host with a request under way does not block) |
| `PromoteProofs!PromoteTypes` | `[]TypeOK`, with the agreement of a pass's locals with what it read | one lemma per action |
| `SerialPromotedOnce` | as long as no pass started during another, a claim is promoted once | `Alone` (one pass under way), `StillMissing` (a pass about to insert still finds no row of its claim, unless its check failed); once `overlapped`, nothing is promised |
| `RowsBacked` | a row has the backing its pathway asks for, whatever is reloaded; no assertion counts twice | `BackedOK` with `AuthOK` and `GroupsOK`: what a pass has in hand, has made and has left are disjoint. The lowest bar of a set of claimants is in it by well-founded induction (`LowestBar`) |
| `ReportIsTrue` | the counters of a pass are its rows, each assertion of an authority and each group with its quorum is counted once, and those without a row are no more than the failed inserts | `CountOK` for the rows; `AccountOK`: tried, in hand and still to try make up what is due in the stage, an assertion that was not left to consensus is still to be tried or has a row, and the assertions given back and groups without a row are at most the failures; rows of other passes only help |
| `PassLeavesNothing` | a pass without a failed insert leaves nothing it should promote | `CompleteOK`: what an authority asserted is to do or done, a group with its quorum is among the groups or done; other passes only add rows |
| `PlanEntitiesProofs!PlanEntitiesTypes` | `[]TypeOK`; no entity without a source | `Sound` says what a call's locals mean in each phase; `HeirClaims`: among the plans that claim an entity there is an earliest, by well-founded induction on `created_at` |
| `AcceptedPlansHaveExemplars` | an accepted plan whose calls met no error has a row for each exemplar once its acceptances ended, however calls overlap | `AllCovered`: each exemplar of an accepted plan has a row or is still ahead of an acceptance; needs that an id found belongs to the entity looked up (`Ids`, `Found`) and that a clean-up leaves entities that an accepted plan names (`CleanupRows`) |
| `OrphansHaveReasons`, `TriplesStayOnce`, `TiersStay` | as long as calls follow one another: a row of a plan not accepted has a cause, a triple is stored once, no step lowers a tier | `TurnInv`: `OneRow` always (an id names one row), and until two calls overlap `OneCall`, `StillTrue` (what the call read still holds when it writes), `Explained`, `TriplesOnce` |
| `DocumentExtractionProofs!ExtractionTypes` | `[]TypeOK` | part of `Inv` |
| `StoredRowsGrounded` | a row comes from a page its extractor takes, with a kind the plan declares | `WorkOK`: the drafts in hand are of kinds that were validated, of a page that is there; `StoreInv` |
| `ReportsCount` | the counters of a re-extraction agree with the store | `CountOK`: what it stored, also what was culled since, is finite and counted; a draft still to be inserted is not stored, so that an insert adds one |
| `PassReadsEarlier` | a re-extraction takes up all documents stored before it began | `ReadOK`: it reads recipes, ids and documents in this order, each list covers what the one before needs |
| `ProseIsSpared`, `CleanUpIsFinal` | the clean-up takes rows of listings only, and all of them when undisturbed | `CullInv`: what it read is part of what is there, a row not to do scores as prose as long as nothing was stored; `Grows`: pages and documents stay |
| `RecipesProofs!TargetsAreShared` | the targets are distinct, fill the cap unless the plan has fewer, and no bucket has two more than another that is not drained | inside a round buckets already served are one ahead of the rest unless drained (`InTurn`, `Drained`), a round without progress means that all are drained (`RoundOver`), the targets are the indices taken (`Taken`) |
| `LineageTypes` | `[]TypeOK`; no id without its row | with the invariant below |
| `LineageNeverLoops` | every row is a first version, or one more than an earlier row of its key that it points to, in any order of re-authorings | `Linked`: a row is appended, and its prior is there already; the run authors first versions only while no key has a row (`Unauthored`) |
| `NewestWins` | for keys re-authored from their newest row, one call after the other, the highest version is the row inserted last | `Rising` (versions of such a key rise with their rows), `HoldsNewest` (a call under way holds the newest row of its key) |
| `ChainsAreWalked` | the walk of `recipe_lineage` finds the whole chain of any row, or says that it passes the cap | the recursive function is shown to exist (`WalksExist`) and so to be what its definition says (`CursorFollows`), then to meet one version after the other (`CursorDescends`), each by the least step at which it would fail; from `Linked` |
| `StaticErrorsAreCaught` | applying a saved recipe meets no error its rules exclude, on any page | `Authored`: what is built or saved obeys the rules (`Ruled`), and a binding that obeys them builds a record or fails for what the page holds, of any node |
| `ValidatorAlwaysAgrees` | a recipe that the validation against bytes declined does not apply to them; one that was saved does, with an iterator when the nodes are alike and no key is from the plan | `Authored` also says what the validation found. It looks at one node in its own order of steps: if its record builds there, so does the one of the application, and the other way round (`Foremost` gives the first step to fail); without iterator both look at one node, with one the nodes are alike |
| `PanelProofs!NotesAreShown` | the panel shows the note in the table unless calls for the recipe met or a read failed after a write | `FeedbackInv`: a call for a recipe not in doubt is alone (`Alone`), and what it knows of the table and of the panel in each phase (`Known`) makes its next step right |
| `HistoryTypesHold` | `[]TypeOK` of the histories | part of `HistoryInv` |
| `NewestIsKeptTwice` | the entries last recorded in turn are at the head of the ring and the newest rows | `HistoryInv`: `Ordered` (what was recorded in turn falls in number and time), `InTurn` (a call under way in turn is the only one, and its entry is newer than all), `DiskInv` and `RingInv` (the table, and the ring between calls, hold them, those being inserted or pushed apart). Pruning keeps the rows with fewer than `Cap` newer ones, an argument about cardinalities |
| `PanelTellsTheTruth` | list, selected plan and panels are those of the tables, where no calls met and none broke off after its write | `PanelInv`: for each of the three, while it is not in doubt, at most one call is to set it, and either it is true or that call holds what makes it so (`ListInv`, `SelectionInv`, `PanelsInv`); at most one classification at a time (`OneClassifies`); a lemma per step of a call |

The invariants of the runs of the executor are one, `RunsOK`, and so are those
of the passes (`PassesOK`, and `AccountsOK` on top of it): each is a conjunction
of named parts per run or pass, preserved by an action of that run or pass (a lemma for each action) and
by those of all others, of which only what they may do to the shared tables
matters. The action properties (`ClosingIsLast`, `FiresUnblocked`,
`BlockNeverShortened`, `TierKeptInTurn`) follow from the invariants step by step.

Assumptions: `ConstantsAssumption` (finite sets, natural bounds, a mode per
target, `Whole` is no target), `NoRecipeAssumption`, `LegacyAssumption` (the
declines of legacy sources, which carry an id of their own, are told from those
of nominations), `AuthoringAssumption` (a list of targets, some host, finite
sets, at least one attempt and permit), `ExtractionAssumption` (a finite
vocabulary of kinds, extractors that declare kinds of it, natural bounds),
`BackoffAssumption`, `PowersAssumption` (2^e is a positive number for the
exponents of the schedule, which the provers do not know), `PromoteAssumption`,
`PlanEntitiesAssumption` (lists of exemplars and triples, `Fetched` and
`Nothing` are no plans), `LineageAssumption` (natural bounds, a cap of at least
one), `FairnessAssumption` and `HistoryAssumption` (natural bounds, a cap of at
least one), `FeedbackAssumption` (no note is no note), `ApplicationAssumption`
(drafts are of the shape an answer is parsed into, nodes that are null have no
content), `PanelAssumption` (the rows there are at first are rows of plans). TLC
evaluates all of them: those of a module that is extended as its `ASSUME`, those
of the modules that are instantiated in the MC modules, for the
instances they make.

Model-checked only:

* liveness (`OpenRowsAreClosed`, `EveryNominationReturns`, `EveryFetchEnds`):
  fairness and ENABLED are beyond the prover.

Every invariant and action property of a passing run is the property of a
theorem. What remains with the runs besides liveness: the four sentences of
section 5, which are false, and that each property can fail, with its mutant.

## 5. Where code and documentation disagree

Shown by a run:

1. `executor_overlap`. FE:724 says "the executor's authoring step is idempotent
   through the recipe dedup_key on persistence"; `save_recipe` is a plain
   INSERT and the key has no unique index, so two overlapping runs author the
   list twice.
2. `cleanup_takes_fetched_rows`. `orphan_cleanup.rs`:70 speaks of rows "that this
   rejected plan created"; acceptance writes its own source_id into rows that a
   recipe created (`entities.rs`:361), and the clean-up goes by source_id.
3. `validator_and_runtime`. `recipe_author.rs`:467 says "by construction the
   validator and the runtime cannot disagree about whether a recipe applies";
   with an iterator the validation looks at one node (`recipe_apply.rs`:2780),
   the application fails as soon as any node does (`recipe_apply.rs`:705).
4. `cull_misses_link_pages`. `commands_records.rs`:547 says that the clean-up
   deletes every assertion whose document "scores `Index` under the apply-time
   detector"; the stored body has no tags left, so a page that is mostly links
   scores as a listing when it is fetched and as prose when it is cleaned up.

Seen while reading, not stated as properties:

* FE:1208 says the loop stops once the deadline has passed; it is looked at only
  before an attempt (FE:1547), so a call may run past it.
* FE:1268 says one `source_id` is shared across siblings; each attempt stamps its
  own host.
* ADR 0011:103 says the LLM is called exactly once per plan and source; only a
  plan without recipes is authored (FE:712), so it is once per run that finds
  none, and attempts and targets multiply the calls.
* FE:2030 says hard errors bubble up so the run is marked failed; FE:904 logs them
  and goes on. FE:2041 says to treat a bad URL "as a decline on this attempt
  rather than a hard failure"; FE:1642 leaves the function with `?`.
* FE:4473 says "we don't half-write a recipe's batch"; the inserts before the
  failing one stay.
* `fetch_backoff.rs`:285 says the Retry-After is "honored verbatim" and :335 calls
  the stored instant the earliest at which a request may fire; with overlapping
  fetches a later answer overwrites it with an earlier instant (:441), and one
  that slept on an older instant fires (:552).
* `recipe_author.rs` and `recipes_store.rs`:78 speak of the latest version of a
  recipe; the executor loads all versions (FE:712).
* ADR 0013 sends an operator's note into the next authoring; the executor looks it
  up under the nomination's id (FE:1339), the panel stores it under the source_id
  of a recipe or a decline (`nom:` and the id), so it is not found.
* `sources_memory.rs`:7 says that "every URL the operator has actually fetched
  against successfully appears here"; only `record_apply_failure_attempt` writes
  attempts, always as failures.
* A `dedup_key_field` that takes its value from the plan is "legal but unusual"
  (`recipe_apply.rs`:1105), passes authoring and fails at every fetch. Two
  passages of `recipe_author.rs` contradict each other on iterators of CSV modes
  (1433 and 1582).
* `cull.rs`:13 says that assertions of listings are no longer written; the
  extractors run before `check_index_page` (FE:4773-4880). The clean-up has no
  exception for recipes with an iterator, which that check has, and judges all
  assertions of a source by its latest document.
* `promote.rs`:37 says the stage is safe to run many times; check and insert
  are two critical sections, so two overlapping passes promote a claim twice.
* `entity_synth.rs`:217 says "Lever A's prose name never gets clobbered by a
  humanised slug"; the tier is compared before the lock of the update
  (`entities.rs`:342) and not again.
* `orphan_cleanup.rs`: the head says that the module does not rewire (it does)
  and that only exemplar rows are at issue (the relations of `relation_synth`
  stay); the doc of the function says ids occur only in exemplars (triples hold
  them too, and claim an entity that no exemplar names).
* `commands.rs`, at a failed clean-up, counts on the migrations 0021 and 0022 at
  the next start; `migrate.rs` applies a migration once.
* `promote.rs`: the arm of `classify_insert_error` for a duplicate key cannot be
  taken, as no table has a unique one. A dedup key holds no plan, so a claim
  promoted for one plan is skipped for every other (the trade-off of ADR 0021).
* `plans.svelte.ts`:546 says that after a failed reclassification "the rejected
  predecessor remains the selection"; `plans.selected` was emptied before the
  call and stays empty. "Roll back ... the selection now matches what's on disk
  again" (:627) fails when the command broke off after its write. :310 says "the
  filter and the data must move together"; two listings may be answered in the
  wrong order. The fetch report is cleared on selection (:97); an answer that
  comes later sets it to that of the plan that was left.
* `research_plans.rs`:50 says that a pending or accepted plan has no rejection
  reason; `set_plan_status` leaves it. `PlanReview.svelte`:24 says that a decision
  cannot be reversed from the panel; a reject dialog stays open when a late
  answer selects an accepted plan, and the commands look at no status. The doc
  of `accept_plan` calls a second acceptance a no-op; it materialises again.
* `relation_vocab.rs`:44 says that the extractor honours an empty vocabulary "by not
  calling the LLM"; `extract.rs`:173 calls with an open one, which its own comment
  says.
* `recipe_apply.rs`:2533 says that a recipe with too many records is persisted and
  "the runtime caps it on apply", and :2571 that "the runtime tolerates a per-card
  miss as a per-record extraction error and continues"; both make all of the
  application fail (:691, :705).
* `cost_ledger.rs`:5 speaks of every call; of a truncated answer that is asked for
  again only the second is recorded.

## 6. Plan

Next, in this order:

1. `RunHistory`: an abstract history of runs (opened, then closed once with a
   report) that `FetchExecutor` implements.
2. `PlanPanel`: that decisions stand, which a rejection from a dialog that
   outlived its plan breaks.
3. Composition of `AuthorNomination` with `HostBackoff` through the pre-fetches.
4. Theorems about those. All invariants there are now are proved; the lemmas on
   calls that are alone (`Only`, `Alone`) serve for the composition as well.
