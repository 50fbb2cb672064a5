-------------------------- MODULE RecipeApplication --------------------------
(***************************************************************************)
(* What a recipe makes of a page, and what is checked of it before it is   *)
(* saved: build_validated_recipe and the shape validation in               *)
(* recipe_author.rs, and recipe_apply.rs.  A page is what the recipe's     *)
(* selector (its iterator, when it has one) selects of it, in order: nodes *)
(* with a cell for the main selector and one for each inner selector.      *)
(* Records are observations with the two fields an observation cannot be   *)
(* without that differ in type, `metric`, a string, and `value`, a number. *)
(***************************************************************************)
EXTENDS Integers, Sequences

CONSTANTS
  Drafts,        \* what the LLM may answer
  Expectations,  \* those of the plan
  Pages,         \* what the page may be that is prefetched
  LaterPages,    \* what it may have become when it is fetched
  MaxRecords,    \* MAX_RECORDS_PER_RECIPE
  MaxBindings    \* MAX_BINDINGS

VARIABLES
  draft,    \* the answer, or the recipe once it is validated
  status,   \* "none", "built", "invalid", "declined" or "saved"
  seen,     \* the page that was prefetched
  page,     \* the page fetched last
  result    \* what the application to it came to

vars == <<draft, status, seen, page, result>>

Paths == {"metric", "value"}

\* pdf_table and regex_capture, which select one cell, are "cell".
Modes    == {"css_select", "json_path", "csv_cell", "cell"}
Iterated == {"css_select", "json_path"}
NoMode   == "none"
NoDraft  == [declines |-> TRUE, mode |-> NoMode, iterator |-> NoMode, produces |-> << >>]

\* Where a field comes from: the main cell, an inner one (of the recipe's mode or
\* another), a literal, or the plan, where the pointer may lead nowhere.
InnerSources == {"inner", "inner_other_mode"}
PlanSources  == {"from_plan", "dangling"}
ValueSources == {"extracted", "literal_text", "literal_number"} \cup InnerSources \cup PlanSources

Fields == UNION {[ps -> ValueSources] : ps \in SUBSET Paths}

\* A cell is not there, or cannot be used (empty, over the bound), or has a content.
Contents == {"text", "number"}
Cells    == {"absent", "unusable"} \cup Contents

\* The shape an answer is parsed into, whose bindings may name any of names.
BindingShape(names) == [expectation : names, fields : Fields, dedup_key_field : STRING]
Answers(names) ==
  [declines : BOOLEAN, mode : Modes, iterator : Modes \cup {NoMode}, produces : Seq(BindingShape(names))]

\* Nothing is extracted from a null.
NodeShape == [null : BOOLEAN, main : Cells, leaf : [Paths -> Cells]]
PageShape == Seq({node \in NodeShape : node.null => node.main = "absent"})

ApplicationAssumption(names) ==
  /\ Drafts \subseteq Answers(names)
  /\ Pages \cup LaterPages \subseteq PageShape
  /\ MaxRecords \in Nat

Init ==
  /\ draft = NoDraft
  /\ status = "none"
  /\ seen = << >> /\ page = << >>
  /\ result = "none"

\* Steps are taken in order and the first to fail decides.
FirstError(s) ==
  IF \A i \in DOMAIN s : s[i] = "ok" THEN "ok"
  ELSE s[CHOOSE i \in DOMAIN s : s[i] # "ok" /\ \A j \in 1..(i - 1) : s[j] = "ok"]

ForEach(bs, Outcome(_)) == FirstError([i \in DOMAIN bs |-> Outcome(bs[i])])

-----------------------------------------------------------------------------
(***************************************************************************)
(* recipe_author.rs: the rules a draft is held to before any page is.      *)
(***************************************************************************)
Uses(b, sources) == {p \in DOMAIN b.fields : b.fields[p] \in sources}

\* The rules of ADR 0019: one mode, one shape, something extracted, a mode that has scopes.
InnerRules(d, b) ==
  LET extracted == Uses(b, {"extracted"})  inner == Uses(b, InnerSources)
  IN  /\ Uses(b, {"inner_other_mode"}) = {}
      /\ extracted = {} \/ inner = {}
      /\ extracted # {} \/ inner # {}
      /\ inner # {} => d.mode \in Iterated

\* Mutant: the field that gives the key need not be one of the record.
IteratorRules_any_key(d) ==
  \/ d.iterator = NoMode
  \/ d.iterator = d.mode /\ d.iterator # "csv_cell"

\* An empty column is refused when the selector is converted, one that is not empty here.
IteratorRules(d) ==
  \/ d.iterator = NoMode
  \/ /\ d.iterator = d.mode
     /\ d.iterator # "csv_cell"
     /\ \A i \in DOMAIN d.produces : d.produces[i].dedup_key_field \in DOMAIN d.produces[i].fields

convert_binding(b) == DOMAIN b.fields # {} /\ b.expectation \in Expectations

\* `targets` is the one expectation of the call, or all of them when it names none.
TargetRules(d, targets) ==
  /\ \A i \in DOMAIN d.produces : d.produces[i].expectation \in targets
  /\ \A i, j \in DOMAIN d.produces :
       i # j => d.produces[i].expectation # d.produces[j].expectation

build_validated_recipe(d, targets) ==
  IF d.declines THEN "declined"
  ELSE IF /\ Len(d.produces) \in 1..MaxBindings
          /\ \A i \in DOMAIN d.produces : convert_binding(d.produces[i]) /\ InnerRules(d, d.produces[i])
          /\ TargetRules(d, targets)
          /\ IteratorRules(d)
       THEN "built" ELSE "invalid"

-----------------------------------------------------------------------------
(***************************************************************************)
(* recipe_apply.rs: one cell, one binding, one record.                     *)
(***************************************************************************)
Extracted(cell) == IF cell \in Contents THEN "ok" ELSE "extraction"

\* The node a recipe without iterator reads: the first one, in JSON the first that
\* is not null, in CSV the one row the filter leaves.
Selected(mode, nodes) ==
  {i \in DOMAIN nodes :
     CASE mode = "json_path" -> ~nodes[i].null /\ \A j \in 1..(i - 1) : nodes[j].null
       [] mode = "csv_cell"  -> Len(nodes) = 1
       [] OTHER              -> i = 1}

Scope(mode, nodes) == nodes[CHOOSE i \in Selected(mode, nodes) : TRUE]

extract(mode, nodes) ==
  IF Selected(mode, nodes) = {} THEN "extraction" ELSE Extracted(Scope(mode, nodes).main)

compute_inner_extractions(b, node) ==
  IF Uses(b, {"inner_other_mode"}) # {} THEN "not_implemented"
  ELSE IF \E p \in Uses(b, InnerSources) : Extracted(node.leaf[p]) # "ok" THEN "extraction"
  ELSE "ok"

compute_dedup_key(b) ==
  IF b.dedup_key_field \notin DOMAIN b.fields THEN "missing_key"
  ELSE IF b.fields[b.dedup_key_field] \in PlanSources THEN "plan_key"
  ELSE "ok"

\* What a field holds that could be resolved.
resolve_field_value(source, cell, leaf) ==
  CASE source = "extracted"      -> cell
    [] source \in InnerSources   -> leaf
    [] source = "literal_number" -> "number"
    [] OTHER                     -> "text"

\* A number becomes a string where a string is expected, never the reverse;
\* finalize, which follows, refuses nothing.
build_record(b, node) ==
  IF Uses(b, {"dangling"}) # {} THEN "binding"
  ELSE IF /\ DOMAIN b.fields = Paths
          /\ resolve_field_value(b.fields["value"], node.main, node.leaf["value"]) = "number"
       THEN "ok" ELSE "content_assembly"

\* One binding for one node.
scoped_record(b, node, keyed) ==
  FirstError(<<compute_inner_extractions(b, node),
               IF keyed THEN compute_dedup_key(b) ELSE "ok",
               build_record(b, node)>>)

-----------------------------------------------------------------------------
(***************************************************************************)
(* recipe_apply.rs: apply.                                                 *)
(***************************************************************************)
AnyInner(r) == \E i \in DOMAIN r.produces : Uses(r.produces[i], InnerSources) # {}

\* The inner cells of all bindings come before the first record.
apply_scalar(r, nodes) ==
  IF extract(r.mode, nodes) # "ok" THEN "extraction"
  ELSE LET node == Scope(r.mode, nodes)
           Inner(b) == compute_inner_extractions(b, node)
           Build(b) == build_record(b, node)
       IN  FirstError(<<IF AnyInner(r) /\ r.mode \notin Iterated THEN "not_implemented" ELSE "ok",
                        ForEach(r.produces, Inner), ForEach(r.produces, Build)>>)

\* One node that fails is the end of all.
apply_iterator(r, nodes) ==
  LET Item(node) ==
        LET Record(b) == scoped_record(b, node, TRUE)
        IN  FirstError(<<Extracted(node.main), ForEach(r.produces, Record)>>)
  IN  IF r.mode \notin Iterated \/ r.iterator # r.mode THEN "not_implemented"
      ELSE IF nodes = << >> THEN "extraction"
      ELSE IF Len(nodes) > MaxRecords THEN "over_cap"
      ELSE ForEach(nodes, Item)

apply(r, nodes) ==
  IF r.iterator = NoMode THEN apply_scalar(r, nodes) ELSE apply_iterator(r, nodes)

-----------------------------------------------------------------------------
(***************************************************************************)
(* recipe_apply.rs: the validation of a recipe against the bytes the LLM   *)
(* saw, of what it extracts and then of the records it makes of one node.  *)
(***************************************************************************)
Hits(nodes) == {i \in DOMAIN nodes : nodes[i].main # "absent"}

validate_recipe_against_bytes(r, nodes) ==
  IF r.iterator = NoMode THEN extract(r.mode, nodes)
  ELSE IF r.mode \notin Iterated \/ r.iterator # r.mode THEN "not_implemented"
  ELSE IF Hits(nodes) = {} THEN "extraction"
  ELSE "ok"

\* The node of which records are made: with an iterator, the first in which the
\* main selector finds something, in JSON the first that is not null.
Sampled(r, nodes) ==
  IF r.iterator = NoMode \/ r.mode = "json_path" THEN Scope(r.mode, nodes)
  ELSE nodes[CHOOSE i \in Hits(nodes) : \A j \in Hits(nodes) : i <= j]

\* Mutant: what is extracted is looked at, what is made of it is not.
validate_extraction_only(r, nodes) == validate_recipe_against_bytes(r, nodes)

validate_recipe_shape_against_bytes(r, nodes) ==
  IF validate_recipe_against_bytes(r, nodes) # "ok" THEN validate_recipe_against_bytes(r, nodes)
  ELSE LET node == Sampled(r, nodes)
           Record(b) == scoped_record(b, node, FALSE)
       IN  FirstError(<<Extracted(node.main),
                        IF AnyInner(r) /\ r.mode \notin Iterated THEN "binding" ELSE "ok",
                        ForEach(r.produces, Record)>>)

-----------------------------------------------------------------------------
(***************************************************************************)
(* author_recipe, in its two halves, and the fetches of the saved recipe.  *)
(***************************************************************************)
build ==
  /\ status = "none"
  /\ \E d \in Drafts, targets \in {{e} : e \in Expectations} \cup {Expectations} :
       /\ draft' = d
       /\ status' = build_validated_recipe(d, targets)
  /\ UNCHANGED <<seen, page, result>>

author_recipe ==
  /\ status = "built"
  /\ seen' \in Pages
  /\ status' = IF validate_recipe_shape_against_bytes(draft, seen') = "ok" THEN "saved" ELSE "declined"
  /\ UNCHANGED <<draft, page, result>>

run_recipe ==
  /\ status = "saved"
  /\ page' \in {seen} \cup LaterPages
  /\ result' = apply(draft, page')
  /\ UNCHANGED <<draft, status, seen>>

Next == build \/ author_recipe \/ run_recipe

Spec == Init /\ [][Next]_vars

-----------------------------------------------------------------------------
(***************************************************************************)
(* Properties                                                              *)
(***************************************************************************)
Applies == apply(draft, seen) = "ok"

Alike == \A i, j \in DOMAIN seen : seen[i] = seen[j]

KeyFromPlan == \E i \in DOMAIN draft.produces : compute_dedup_key(draft.produces[i]) = "plan_key"

\* recipe_apply.rs: "a recipe that fails this preflight would fail at apply", and,
\* of the records of a page, "if one record builds, all do".  Validation looks at
\* one node in its own order of steps, the application at all; on the page that was
\* prefetched they agree for a recipe without iterator, and with one when the nodes
\* are alike, no more than the cap, and no record takes its key from the plan.
ValidatorAgrees ==
  /\ status = "declined" /\ ~draft.declines => ~Applies
  /\ /\ status = "saved"
     /\ draft.iterator # NoMode => Alike /\ Len(seen) <= MaxRecords /\ ~KeyFromPlan
     => Applies

\* recipe_apply.rs: "The validator should have rejected this at authoring time": on
\* no later page, whatever it has become, does a saved recipe meet a mode that is
\* not implemented, a key that is missing or a field of the plan that is not there.
StaticErrorsCaught == result \notin {"not_implemented", "missing_key", "binding"}

\* recipe_author.rs: "by construction the validator and the runtime cannot disagree
\* about whether a recipe applies": what was saved applies to the page it was saved for.
ValidatorCannotDisagree == status = "saved" /\ page = seen => result \in {"none", "ok"}
=============================================================================
