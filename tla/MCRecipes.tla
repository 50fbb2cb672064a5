------------------------------ MODULE MCRecipes ------------------------------
(***************************************************************************)
(* Small instances for TLC of what happens to the recipes of a plan, from  *)
(* the targets they are authored for to the notes on them: TargetFairness, *)
(* RecipeApplication, RecipeLineage and RecipeFeedback.  They share no     *)
(* state, so a behaviour is one of one of them.                            *)
(***************************************************************************)
EXTENDS RecipeLineage, TargetFairness, AppliedRecipes, ShownNotes, TLC

CONSTANT MaxNodes

VARIABLE part  \* the one of them that takes steps

feedback    == <<table, shown, feedback_call, errors, doubt>>
application == <<draft, status, seen, page, result>>

-----------------------------------------------------------------------------
FieldSources ==
  {"extracted", "inner", "inner_other_mode", "literal_text", "literal_number", "from_plan", "dangling"}

Binding(e, fs, key) == [expectation |-> e, fields |-> fs, dedup_key_field |-> key]

Bindings(es) ==
  {Binding(e, fs, key) : e \in es, key \in {"none", "metric", "value"},
                         fs \in UNION {[ps -> FieldSources] : ps \in SUBSET {"metric", "value"}}}

Draft(mode, iterator, bs) == [declines |-> FALSE, mode |-> mode, iterator |-> iterator, produces |-> bs]

Whole(metric, value) == [metric |-> metric, value |-> value]

\* One binding of every kind; two, of which one or both read inner cells, or have one expectation.
MCDrafts ==
  LET modes == {"css_select", "json_path", "csv_cell", "cell"}
      one   == {<<b>> : b \in Bindings({1})}
      plain == Binding(1, Whole("literal_text", "extracted"), "value")
      inner == Binding(2, Whole("inner", "inner"), "metric")
      twice == {<<plain, inner>>, <<inner, [plain EXCEPT !.expectation = 3]>>, <<inner, inner>>, << >>}
  IN  {Draft(m, i, bs) : m \in modes, i \in modes \cup {"none"}, bs \in one \cup twice}
        \cup {[Draft("css_select", "none", << >>) EXCEPT !.declines = TRUE]}

Node(m, metric, value) == [null |-> FALSE, main |-> m, leaf |-> Whole(metric, value)]
Null == [Node("absent", "absent", "absent") EXCEPT !.null = TRUE]

Nodes ==
  {Null} \cup
  {Node(m, metric, value) : m \in {"absent", "unusable", "text", "number"},
                            metric \in {"absent", "text"}, value \in {"absent", "text", "number"}}

\* Any nodes up to a number of them, and one more of one kind.
MCPages == UNION {[1..n -> Nodes] : n \in 0..MaxNodes} \cup {[i \in 1..MaxNodes + 1 |-> node] : node \in Nodes}

MCLaterPages == {<< >>, <<Node("number", "text", "number")>>, <<Null, Node("text", "text", "text")>>}

\* The theorems are about what is of these shapes.
ASSUME AsProved ==
  Feedback!FeedbackAssumption /\ FairnessAssumption /\ Application!ApplicationAssumption({1, 2, 3})

-----------------------------------------------------------------------------
RecipesInit ==
  /\ part \in {"lineage", "feedback", "application", "targets"}
  /\ Init /\ Feedback!Init /\ Application!Init
  /\ IF part = "targets" THEN TargetsInit
     ELSE /\ sizes = << >> /\ max = 0 /\ out = << >> /\ indices = << >>
          /\ bucket = 1 /\ any_progress = TRUE /\ pc = "while"

RecipesNext ==
  \/ part = "lineage" /\ Next /\ UNCHANGED <<part, feedback, application, targets>>
  \/ part = "feedback" /\ Feedback!Next /\ UNCHANGED <<part, vars, application, targets>>
  \/ part = "application" /\ Application!Next /\ UNCHANGED <<part, vars, feedback, targets>>
  \/ part = "targets" /\ TargetsNext /\ UNCHANGED <<part, vars, feedback, application>>

RecipesSpec == RecipesInit /\ [][RecipesNext]_<<part, vars, feedback, application, targets>>

Symmetry == Permutations(Calls) \cup Permutations(Keys)
=============================================================================
