-------------------------- MODULE DocumentExtraction --------------------------
(***************************************************************************)
(* What the pages of one accepted plan leave in the store beside the       *)
(* records of its recipes: the document of each fetch and what five        *)
(* extractors find in it (run_css_recipe up to its apply, document_synth.rs*)
(* and extract.rs), the operator's re-extraction of stored documents       *)
(* (reextract.rs) and the clean-up of assertions taken from listings       *)
(* (cull.rs).  One run, some re-extractions and a clean-up go on at once;  *)
(* every store call takes the one connection for itself, and the model     *)
(* answers what it likes, or not at all.                                   *)
(***************************************************************************)
EXTENDS Naturals, Sequences, FiniteSets

CONSTANTS
  Recipes,
  ListingUrls,   \* recipes whose source_url has one of INDEX_PATH_TOKENS
  Iterators,     \* recipes with an iterator
  Kinds,         \* what a model may name: kinds of relations, events, metrics, entities, keys
  Declared,      \* extractor -> the kinds the plan declares for it
  Run,           \* the run of the executor
  Passes,        \* re-extractions, each once
  Pages,         \* the pages that may come, see below
  MaxRows,       \* bound on what the answers of the model bring about
  MaxCaptures,   \* bound on fetches
  MaxFaults      \* bound on store errors

Extractors == <<"assertions", "events", "observations", "attributes", "entities">>

ASSUME ExtractionAssumption ==
  /\ ListingUrls \subseteq Recipes /\ Iterators \subseteq Recipes
  /\ \A e \in DOMAIN Extractors : Declared[Extractors[e]] \subseteq Kinds
  /\ IsFiniteSet(Kinds)
  /\ Run \notin Passes
  /\ Pages \subseteq {"article", "links", "feed"}
  /\ MaxRows \in Nat /\ MaxCaptures \in Nat /\ MaxFaults \in Nat

VARIABLES
  recipes,    \* the recipes saved so far
  captures,   \* the pages fetched so far
  documents,  \* those among them that have a row
  rows,       \* what the extractors stored
  actor,      \* the locals of the run and of each re-extraction
  cull,       \* the locals of the clean-up
  faults      \* store errors so far

vars == <<recipes, captures, documents, rows, actor, cull, faults>>

None == 0

NoReport == [considered |-> {}, unrouted |-> {}, extracted |-> 0, persisted |-> 0, failed |-> 0]

Idle == [pc |-> "idle", known |-> {}, ids |-> {}, docs |-> {}, capture |-> None, todo |-> {},
         left |-> {}, before |-> {}, report |-> NoReport]

NoCull == [pc |-> "idle", ids |-> {}, todo |-> {}, docs |-> {}, culled |-> {}, failed |-> 0,
           undisturbed |-> FALSE]

Init ==
  /\ recipes = {}
  /\ captures = << >>
  /\ documents = {}
  /\ rows = {}
  /\ actor = [p \in {Run} \cup Passes |-> Idle]
  /\ cull = NoCull
  /\ faults = 0

Become(p, a) == actor' = [actor EXCEPT ![p] = a]

Least(S)  == CHOOSE n \in S : \A m \in S : n <= m
Newest(S) == CHOOSE n \in S : \A m \in S : m <= n

\* A store call fails.
Fault == faults < MaxFaults /\ faults' = faults + 1

Disturbed == [cull EXCEPT !.undisturbed = FALSE]

-----------------------------------------------------------------------------
(***************************************************************************)
(* Pages.  Two kinds of html, of which one is mostly links, and JSON; of   *)
(* any other page the store has a document and no extractor takes it.      *)
(***************************************************************************)
IsHtml(page) == page \in {"article", "links"}

\* should_extract_from and should_extract_entities_from
ShouldExtract(e, page) == IsHtml(page) \/ (Extractors[e] = "entities" /\ page = "feed")

\* The detector on the bytes of a response: a path that says so, or links to speak of.
classify_fetched_bytes(r, page) == IsHtml(page) /\ (r \in ListingUrls \/ page = "links")

\* The detector on the body of a document, of which the tags are gone.
classify_document(r, page) == IsHtml(page) /\ r \in ListingUrls

check_index_page(r, page) == r \notin Iterators /\ classify_fetched_bytes(r, page)

-----------------------------------------------------------------------------
(***************************************************************************)
(* One extraction.  Without declared kinds the assertion and attribute     *)
(* extractors take any, and the other three are not called.                *)
(***************************************************************************)
OpenVocabulary(e) == Declared[e] = {} /\ e \in {"assertions", "attributes"}

Called(e, page) == ShouldExtract(e, page) /\ (Declared[Extractors[e]] # {} \/ OpenVocabulary(Extractors[e]))

\* Mutant: what the model names is taken as it is.
validate_nothing(e, kinds) == kinds

validate(e, kinds) == IF OpenVocabulary(e) THEN kinds ELSE kinds \cap Declared[e]

\* The extractors called for a page, by a run and by a re-extraction.
Calls(p, page) == {e \in IF p = Run THEN DOMAIN Extractors ELSE {1} : Called(e, page)}

extract_from_document(p) ==
  /\ actor[p].pc = "extract" /\ actor[p].left = {} /\ actor[p].todo # {}
  /\ LET a == actor[p]
         e == Least(a.todo)
     IN  \/ \E kinds \in SUBSET Kinds :
              /\ Cardinality(rows \cup cull.culled) + Cardinality(kinds) <= MaxRows
              /\ LET drafts == validate(Extractors[e], kinds)
                 IN  Become(p, [a EXCEPT !.left = drafts,
                                         !.todo = IF drafts = {} THEN @ \ {e} ELSE @,
                                         !.report.extracted = @ + Cardinality(drafts)])
         \/ Become(p, [a EXCEPT !.todo = @ \ {e}])
  /\ UNCHANGED <<recipes, captures, documents, rows, cull, faults>>

Draft(p) == CHOOSE k \in actor[p].left : TRUE

Row(p) ==
  [capture |-> actor[p].capture, by |-> p, table |-> Extractors[Least(actor[p].todo)], kind |-> Draft(p)]

Without(a, k) ==
  [a EXCEPT !.left = @ \ {k}, !.todo = IF a.left = {k} THEN @ \ {Least(a.todo)} ELSE @]

\* Mutant: a draft counts as persisted before its insert.
insert_counts_first(p) ==
  /\ actor[p].pc = "extract" /\ actor[p].left # {}
  /\ LET next == [Without(actor[p], Draft(p)) EXCEPT !.report.persisted = @ + 1]
     IN  \/ /\ Become(p, next)
            /\ rows' = rows \cup {Row(p)}
            /\ cull' = Disturbed
            /\ UNCHANGED faults
         \/ /\ Fault
            /\ Become(p, [next EXCEPT !.report.failed = @ + 1])
            /\ UNCHANGED <<rows, cull>>
  /\ UNCHANGED <<recipes, captures, documents>>

\* The drafts are inserted one by one; one that fails is counted and passed over.
insert(p) ==
  /\ actor[p].pc = "extract" /\ actor[p].left # {}
  /\ LET next == Without(actor[p], Draft(p))
     IN  \/ /\ Become(p, [next EXCEPT !.report.persisted = @ + 1])
            /\ rows' = rows \cup {Row(p)}
            /\ cull' = Disturbed
            /\ UNCHANGED faults
         \/ /\ Fault
            /\ Become(p, [next EXCEPT !.report.failed = @ + 1])
            /\ UNCHANGED <<rows, cull>>
  /\ UNCHANGED <<recipes, captures, documents>>

-----------------------------------------------------------------------------
(***************************************************************************)
(* The run: recipes are saved as they are authored, and fetched one after  *)
(* the other.  A document that cannot be stored is missed by nobody, and   *)
(* the extractors come before the check for listings.                      *)
(***************************************************************************)
author_recipe ==
  /\ \E r \in Recipes \ recipes : recipes' = recipes \cup {r}
  /\ UNCHANGED <<captures, documents, rows, actor, cull, faults>>

insert_fetch_document ==
  /\ actor[Run].pc = "idle" /\ Len(captures) < MaxCaptures
  /\ \E r \in recipes, page \in Pages :
       LET n == Len(captures) + 1
       IN  /\ captures' = Append(captures, [recipe |-> r, page |-> page, listing |-> FALSE])
           /\ Become(Run, [Idle EXCEPT !.pc = "extract", !.capture = n, !.todo = Calls(Run, page)])
           /\ \/ documents' = documents \cup {n} /\ cull' = Disturbed /\ UNCHANGED faults
              \/ Fault /\ UNCHANGED <<documents, cull>>
  /\ UNCHANGED <<recipes, rows>>

\* What is left of the recipe: the check for a listing, and the apply that FetchExecutor has.
run_css_recipe ==
  /\ actor[Run].pc = "extract" /\ actor[Run].todo = {}
  /\ LET n == actor[Run].capture
     IN  captures' = [captures EXCEPT ![n].listing = check_index_page(captures[n].recipe, captures[n].page)]
  /\ Become(Run, Idle)
  /\ UNCHANGED <<recipes, documents, rows, cull, faults>>

-----------------------------------------------------------------------------
(***************************************************************************)
(* Re-extraction, of the documents of the plan or of one of them: the      *)
(* recipes are read, and then records_for_plan reads them again before the *)
(* records, under a lock each.                                             *)
(***************************************************************************)
Routed(n, known) == captures[n].recipe \in known

HtmlDocuments(ids) == {n \in documents : Routed(n, ids) /\ IsHtml(captures[n].page)}

load_recipes_for_plan(p) ==
  /\ actor[p].pc = "idle"
  /\ Become(p, [Idle EXCEPT !.pc = "ids", !.known = recipes, !.before = HtmlDocuments(Recipes)])
  /\ UNCHANGED <<recipes, captures, documents, rows, cull, faults>>

recipes_for_plan(p) ==
  /\ actor[p].pc = "ids"
  /\ Become(p, [actor[p] EXCEPT !.pc = "records", !.ids = recipes])
  /\ UNCHANGED <<recipes, captures, documents, rows, cull, faults>>

records_for_plan(p) ==
  /\ actor[p].pc = "records"
  /\ LET html == HtmlDocuments(actor[p].ids)
         a    == [actor[p] EXCEPT !.pc = "next", !.ids = {}]
     IN  \/ Become(p, [a EXCEPT !.docs = html])
         \/ \E n \in documents : Become(p, [a EXCEPT !.docs = html \cap {n}, !.before = @ \cap {n}])
  /\ UNCHANGED <<recipes, captures, documents, rows, cull, faults>>

\* Mutant: a document without its recipe ends the loop.
next_document_stops(p) ==
  /\ actor[p].pc = "next" /\ actor[p].docs # {}
  /\ LET a == actor[p]
         n == Newest(a.docs)
         b == [a EXCEPT !.docs = @ \ {n}, !.report.considered = @ \cup {n}]
     IN  Become(p, IF Routed(n, a.known)
                     THEN [b EXCEPT !.pc = "extract", !.capture = n, !.todo = Calls(p, captures[n].page)]
                     ELSE [b EXCEPT !.docs = {}, !.report.unrouted = @ \cup {n}])
  /\ UNCHANGED <<recipes, captures, documents, rows, cull, faults>>

\* ORDER BY observed_at DESC; a document whose recipe came too late is passed over.
next_document(p) ==
  /\ actor[p].pc = "next" /\ actor[p].docs # {}
  /\ LET a == actor[p]
         n == Newest(a.docs)
         b == [a EXCEPT !.docs = @ \ {n}, !.report.considered = @ \cup {n}]
     IN  Become(p, IF Routed(n, a.known)
                     THEN [b EXCEPT !.pc = "extract", !.capture = n, !.todo = Calls(p, captures[n].page)]
                     ELSE [b EXCEPT !.report.unrouted = @ \cup {n}])
  /\ UNCHANGED <<recipes, captures, documents, rows, cull, faults>>

document_done(p) ==
  /\ actor[p].pc = "extract" /\ actor[p].todo = {}
  /\ Become(p, [actor[p] EXCEPT !.pc = "next", !.capture = None])
  /\ UNCHANGED <<recipes, captures, documents, rows, cull, faults>>

reextract_done(p) ==
  /\ actor[p].pc = "next" /\ actor[p].docs = {}
  /\ Become(p, [Idle EXCEPT !.pc = "done", !.before = actor[p].before, !.report = actor[p].report])
  /\ UNCHANGED <<recipes, captures, documents, rows, cull, faults>>

\* A list that cannot be read ends the pass, with the report of one that found nothing.
reextract_fails(p) ==
  /\ actor[p].pc \in {"ids", "records"}
  /\ Fault
  /\ Become(p, [Idle EXCEPT !.pc = "failed"])
  /\ UNCHANGED <<recipes, captures, documents, rows, cull>>

-----------------------------------------------------------------------------
(***************************************************************************)
(* The clean-up: the assertions and documents of the plan are read, and of *)
(* the documents of one recipe the latest speaks for all its assertions.   *)
(***************************************************************************)
Assertions == {row \in rows : row.table \in {"assertions", "attributes"}}

cull_recipes_for_plan ==
  /\ cull.pc = "idle"
  /\ cull' = [NoCull EXCEPT !.pc = "records", !.ids = recipes, !.undisturbed = TRUE]
  /\ UNCHANGED <<recipes, captures, documents, rows, actor, faults>>

cull_records_for_plan ==
  /\ cull.pc = "records"
  /\ cull' = [cull EXCEPT !.pc = "scan", !.ids = {}, !.todo = {row \in Assertions : Routed(row.capture, cull.ids)},
                          !.docs = {n \in documents : Routed(n, cull.ids)}]
  /\ UNCHANGED <<recipes, captures, documents, rows, actor, faults>>

cull_fails ==
  /\ cull.pc = "records"
  /\ Fault
  /\ cull' = [NoCull EXCEPT !.pc = "failed"]
  /\ UNCHANGED <<recipes, captures, documents, rows, actor>>

latest_document_per_source_id(docs, r) ==
  {n \in docs : captures[n].recipe = r /\ \A m \in docs : captures[m].recipe = r => m <= n}

\* Mutant: the latest document of the plan speaks for all its assertions.
ScoresIndex_any_source(docs, row) ==
  \E n \in docs : (\A m \in docs : m <= n) /\ classify_document(captures[n].recipe, captures[n].page)

ScoresIndex(docs, row) ==
  \E n \in latest_document_per_source_id(docs, captures[row.capture].recipe) :
    classify_document(captures[n].recipe, captures[n].page)

\* Mutant: a failing delete ends the loop without a word.
cull_next_gives_up ==
  /\ cull.pc = "scan" /\ cull.todo # {}
  /\ LET row  == CHOOSE x \in cull.todo : TRUE
         next == [cull EXCEPT !.todo = @ \ {row}]
     IN  \/ /\ ~ScoresIndex(cull.docs, row)
            /\ cull' = next
            /\ UNCHANGED <<rows, faults>>
         \/ /\ ScoresIndex(cull.docs, row)
            /\ \/ /\ rows' = rows \ {row}
                  /\ cull' = [next EXCEPT !.culled = @ \cup {row}]
                  /\ UNCHANGED faults
               \/ /\ Fault
                  /\ cull' = [next EXCEPT !.todo = {}]
                  /\ UNCHANGED rows
  /\ UNCHANGED <<recipes, captures, documents, actor>>

\* A row is deleted or kept; one that is gone already counts as deleted.
cull_next ==
  /\ cull.pc = "scan" /\ cull.todo # {}
  /\ LET row  == CHOOSE x \in cull.todo : TRUE
         next == [cull EXCEPT !.todo = @ \ {row}]
     IN  \/ /\ ~ScoresIndex(cull.docs, row)
            /\ cull' = next
            /\ UNCHANGED <<rows, faults>>
         \/ /\ ScoresIndex(cull.docs, row)
            /\ \/ /\ rows' = rows \ {row}
                  /\ cull' = [next EXCEPT !.culled = @ \cup {row}]
                  /\ UNCHANGED faults
               \/ /\ Fault
                  /\ cull' = [next EXCEPT !.failed = @ + 1]
                  /\ UNCHANGED rows
  /\ UNCHANGED <<recipes, captures, documents, actor>>

cull_done ==
  /\ cull.pc = "scan" /\ cull.todo = {}
  /\ cull' = [cull EXCEPT !.pc = "done", !.docs = {}]
  /\ UNCHANGED <<recipes, captures, documents, rows, actor, faults>>

\* The process dies, and with it whatever is under way.
Kill ==
  /\ Fault
  /\ actor' = [p \in {Run} \cup Passes |->
                 IF p \in Passes /\ actor[p].pc # "idle" THEN [Idle EXCEPT !.pc = "failed"] ELSE Idle]
  /\ cull' = IF cull.pc = "idle" THEN cull ELSE [NoCull EXCEPT !.pc = "failed", !.culled = cull.culled]
  /\ UNCHANGED <<recipes, captures, documents, rows>>

Next ==
  \/ author_recipe \/ insert_fetch_document \/ run_css_recipe
  \/ \E p \in {Run} \cup Passes : extract_from_document(p) \/ insert(p)
  \/ \E p \in Passes :
       \/ load_recipes_for_plan(p) \/ recipes_for_plan(p) \/ records_for_plan(p)
       \/ next_document(p) \/ document_done(p) \/ reextract_done(p) \/ reextract_fails(p)
  \/ cull_recipes_for_plan \/ cull_records_for_plan \/ cull_fails \/ cull_next \/ cull_done
  \/ Kill

Spec == Init /\ [][Next]_vars

-----------------------------------------------------------------------------
(***************************************************************************)
(* Properties                                                              *)
(***************************************************************************)
Captures == DOMAIN captures

StoredRow == [capture : Nat, by : {Run} \cup Passes, table : {Extractors[e] : e \in DOMAIN Extractors},
         kind : Kinds]

Report == [considered : SUBSET Nat, unrouted : SUBSET Nat, extracted : Nat, persisted : Nat,
           failed : Nat]

Actor ==
  [pc : {"idle", "ids", "records", "next", "extract", "done", "failed"},
   known : SUBSET Recipes, ids : SUBSET Recipes, docs : SUBSET Nat, capture : Nat,
   todo : SUBSET DOMAIN Extractors, left : SUBSET Kinds, before : SUBSET Nat, report : Report]

Cull ==
  [pc : {"idle", "records", "scan", "done", "failed"}, ids : SUBSET Recipes, todo : SUBSET StoredRow,
   docs : SUBSET Nat, culled : SUBSET StoredRow, failed : Nat, undisturbed : BOOLEAN]

\* The tables and the locals of everything under way hold what their types allow.
TypeOK ==
  /\ recipes \subseteq Recipes
  /\ captures \in Seq([recipe : Recipes, page : Pages, listing : BOOLEAN])
  /\ documents \subseteq Captures
  /\ rows \subseteq StoredRow
  /\ actor \in [{Run} \cup Passes -> Actor]
  /\ cull \in Cull
  /\ faults \in 0..MaxFaults

\* extract.rs and reextract.rs: a stored row comes from a page its extractor
\* takes, has a kind the plan declares if that extractor asks for one, and, but
\* for a store error, its page is on record; that of a re-extracted row always is.
RowsGrounded ==
  \A row \in rows :
    /\ \E e \in DOMAIN Extractors :
         /\ row.table = Extractors[e]
         /\ ShouldExtract(e, captures[row.capture].page)
         /\ row.kind \in Declared[row.table] \/ OpenVocabulary(row.table)
    /\ row.by \in Passes \/ faults = 0 => row.capture \in documents

\* ExtractionReport and ReextractReport: while a re-extraction works, what it
\* extracted is stored, counted as failed or still to be inserted, and it counts as
\* persisted what the store got from it, also what the clean-up took since.
ReportCountsRows ==
  \A p \in Passes :
    LET a == actor[p]
    IN  a.pc # "failed" =>
          /\ a.report.extracted = a.report.persisted + a.report.failed + Cardinality(a.left)
          /\ a.report.persisted = Cardinality({row \in rows \cup cull.culled : row.by = p})

\* reextract.rs: "iterates a plan's article-kind Documents": a re-extraction that
\* ends has taken up every html document that was stored when it began, and did
\* not find one of them without its recipe, whatever a run saved meanwhile.
EarlierDocumentsRead ==
  \A p \in Passes :
    actor[p].pc = "done" =>
      /\ actor[p].before \subseteq actor[p].report.considered
      /\ actor[p].before \cap actor[p].report.unrouted = {}

\* cull.rs: an assertion is deleted only if its recipe reads a page whose path
\* says it is a listing, whatever was fetched since the clean-up read its lists.
CullSparesProse == \A row \in cull.culled : captures[row.capture].recipe \in ListingUrls

\* cull.rs: "Re-running after a successful pass is a no-op": as long as nothing
\* was stored since it read its lists, a clean-up without failures leaves no row
\* that the next would delete.
CullIsFinal ==
  cull.pc = "done" /\ cull.undisturbed /\ cull.failed = 0 =>
    \A row \in Assertions : ~ScoresIndex(documents, row)

\* commands_records.rs: the clean-up "Deletes every Assertion in the plan whose
\* source Document scores `Index` under the apply-time detector".
CullFindsWhatRunsFlag ==
  cull.pc = "done" /\ cull.undisturbed /\ cull.failed = 0 =>
    \A row \in Assertions : row.capture \in documents => ~captures[row.capture].listing
=============================================================================
