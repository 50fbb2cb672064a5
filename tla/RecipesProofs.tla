---------------------------- MODULE RecipesProofs ----------------------------
(***************************************************************************)
(* Theorems about the recipes of a plan.  RecipeLineage: the types, the    *)
(* links between rows, and that re-authorings in turn leave the row        *)
(* inserted last with the highest version.  TargetFairness: the targets    *)
(* are shared out evenly.  RecipeApplication: what the validation of a     *)
(* recipe catches and where it agrees with the application, for any drafts *)
(* and pages.                                                              *)
(***************************************************************************)
EXTENDS RecipeLineage, TargetFairness, AppliedRecipes,
        FiniteSetTheorems, NaturalsInduction, WellFoundedInduction, TLAPS

CONSTANT Names  \* what a binding may name for its expectation

-----------------------------------------------------------------------------
(***************************************************************************)
(* RecipeLineage.                                                          *)
(***************************************************************************)
Row == [key : Keys, version : Nat \ {0}, prior : Nat]

\* A row is a first version, or one more than the earlier row of its key it points to.
LinkedRow(i) ==
  \/ recipes[i].prior = None /\ recipes[i].version = 1
  \/ /\ recipes[i].prior \in 1..(i - 1)
     /\ recipes[i].key = recipes[recipes[i].prior].key
     /\ recipes[i].version = recipes[recipes[i].prior].version + 1

Linked == \A i \in DOMAIN recipes : LinkedRow(i)

\* A run that authors has no row yet of the keys that are left to it.
Unauthored ==
  run.pc = "author" => \A k \in run.keys : \A i \in DOMAIN recipes : recipes[i].key # k

\* The versions of a key rise with the inserts, unless it is crossed.
Rising ==
  \A i, j \in DOMAIN recipes :
    recipes[i].key = recipes[j].key /\ recipes[i].key \notin crossed /\ i < j
      => recipes[i].version < recipes[j].version

\* A call on a key that is not crossed holds its newest row, alone.
HoldsNewest ==
  \A c \in Calls : call[c].pc # "idle" /\ recipes[call[c].prior].key \notin crossed =>
    /\ \A j \in DOMAIN recipes : recipes[j].key = recipes[call[c].prior].key => j <= call[c].prior
    /\ \A d \in Calls : call[d].pc # "idle" /\ recipes[call[d].prior].key = recipes[call[c].prior].key => d = c

IInv == TypeOK /\ Linked /\ Unauthored /\ Rising /\ HoldsNewest

-----------------------------------------------------------------------------
\* Types, one step after the other.
LEMMA RowTyped == ASSUME TypeOK PROVE
  /\ Len(recipes) \in Nat /\ DOMAIN recipes = 1..Len(recipes)
  /\ \A i \in DOMAIN recipes : recipes[i] \in Row
<1>1. recipes \in Seq(Row) BY DEF TypeOK, Row
<1> QED BY <1>1

\* What an insert leaves of the table.
LEMMA Appended == ASSUME TypeOK, NEW r \in Row, recipes' = Append(recipes, r)
  PROVE /\ recipes' \in Seq(Row)
        /\ DOMAIN recipes' = 1..(Len(recipes) + 1) /\ DOMAIN recipes \subseteq DOMAIN recipes'
        /\ \A i \in DOMAIN recipes : recipes'[i] = recipes[i]
        /\ recipes'[Len(recipes) + 1] = r
<1>1. recipes \in Seq(Row) BY DEF TypeOK, Row
<1> QED BY <1>1

LEMMA InitIInv == ASSUME LineageAssumption, Init PROVE IInv
<1>1. TypeOK BY DEF Init, LineageAssumption, TypeOK, NoRun, NoCall, None, Ids
<1> QED BY <1>1 DEF Init, IInv, Linked, Unauthored, Rising, HoldsNewest, NoRun, NoCall

\* Steps that leave the rows, the calls and the crossed keys alone.
LEMMA RunStepKeeps ==
  ASSUME LineageAssumption, IInv, load_or_author_recipes \/ run_one_recipe \/ close_run
  PROVE  IInv'
<1>1. UNCHANGED <<recipes, call, crossed>> BY DEF load_or_author_recipes, run_one_recipe, close_run
<1>2. TypeOK'
  <2>1. CASE load_or_author_recipes
    <3>1. run' \in [pc : {"idle", "author", "apply"}, keys : SUBSET Keys, todo : SUBSET Ids]
      BY <2>1 DEF load_or_author_recipes, Ids
    <3>2. runs \in Nat /\ runs' = runs + 1 /\ runs' \in 0..MaxRuns /\ UNCHANGED <<attempts, faults>>
      BY <2>1 DEF load_or_author_recipes, IInv, TypeOK, LineageAssumption
    <3>3. \A a \in attempts : a \in [recipe : Ids, run : 0..runs', succeeded : BOOLEAN]
      <4> TAKE a \in attempts
      <4>1. a \in [recipe : Ids, run : 0..runs, succeeded : BOOLEAN] BY DEF IInv, TypeOK
      <4> QED BY <3>2, <4>1
    <3> QED BY <1>1, <3>1, <3>2, <3>3 DEF IInv, TypeOK, Ids
  <2>2. CASE run_one_recipe
    <3>1. PICK id \in NewestOf(run.todo) :
            /\ run' = [run EXCEPT !.todo = @ \ {id}]
            /\ UNCHANGED <<attempts, faults>> \/ apply_failed(id)
      BY <2>2 DEF run_one_recipe
    <3>2. id \in Ids BY <3>1 DEF NewestOf, IInv, TypeOK
    <3>3. run' \in [pc : {"idle", "author", "apply"}, keys : SUBSET Keys, todo : SUBSET Ids]
      BY <3>1 DEF IInv, TypeOK
    <3>4. attempts' \subseteq [recipe : Ids, run : 0..runs, succeeded : BOOLEAN]
      <4> DEFINE a == [recipe |-> id, run |-> runs, succeeded |-> FALSE]
      <4>1. runs \in 0..runs BY DEF IInv, TypeOK, LineageAssumption
      <4>2. a \in [recipe : Ids, run : 0..runs, succeeded : BOOLEAN] BY <3>2, <4>1
      <4>3. attempts' = attempts \/ attempts' = attempts \cup {a} BY <3>1 DEF apply_failed
      <4> HIDE DEF a
      <4> QED BY <4>2, <4>3 DEF IInv, TypeOK
    <3>5. faults' \in 0..MaxFaults BY <3>1 DEF IInv, TypeOK, apply_failed, LineageAssumption
    <3>6. UNCHANGED <<recipes, runs, call, crossed>> BY <2>2 DEF run_one_recipe
    <3> QED BY <3>3, <3>4, <3>5, <3>6 DEF IInv, TypeOK, Ids
  <2>3. CASE close_run
    BY <1>1, <2>3 DEF IInv, TypeOK, close_run, NoRun, Ids
  <2> QED BY <2>1, <2>2, <2>3
<1>3. (Linked /\ Rising /\ HoldsNewest)'
  BY <1>1 DEF IInv, Linked, LinkedRow, Rising, HoldsNewest
<1>4. Unauthored'
  BY <1>1 DEF IInv, TypeOK, Unauthored, load_or_author_recipes, run_one_recipe, close_run, NoRun
<1> QED BY <1>2, <1>3, <1>4 DEF IInv

\* What an insert must be for the links and the order of versions to stay.
LEMMA AppendKeeps ==
  ASSUME IInv, NEW r \in Row, recipes' = Append(recipes, r), UNCHANGED crossed,
         \/ r.prior = None /\ r.version = 1
         \/ /\ r.prior \in DOMAIN recipes
            /\ r.key = recipes[r.prior].key
            /\ r.version = recipes[r.prior].version + 1,
         r.key \notin crossed =>
           \A i \in DOMAIN recipes : recipes[i].key = r.key => recipes[i].version < r.version
  PROVE  Linked' /\ Rising'
<1>1. TypeOK BY DEF IInv
<1>2. /\ DOMAIN recipes = 1..Len(recipes) /\ Len(recipes) \in Nat
      /\ \A i \in DOMAIN recipes : recipes[i] \in Row
  BY <1>1, RowTyped
<1>3. /\ DOMAIN recipes' = 1..(Len(recipes) + 1)
      /\ \A i \in DOMAIN recipes : recipes'[i] = recipes[i]
      /\ recipes'[Len(recipes) + 1] = r
  BY <1>1, Appended
<1>4. Linked'
  <2> SUFFICES ASSUME NEW i \in DOMAIN recipes' PROVE LinkedRow(i)'
    BY DEF Linked
  <2>1. CASE i \in DOMAIN recipes
    <3>1. LinkedRow(i) BY <2>1 DEF IInv, Linked
    <3>2. recipes[i].prior \in 1..(i - 1) => recipes[i].prior \in DOMAIN recipes
      BY <2>1, <1>2
    <3> QED BY <2>1, <1>3, <3>1, <3>2 DEF LinkedRow
  <2>2. CASE i = Len(recipes) + 1
    <3>1. r.prior \in DOMAIN recipes => r.prior \in 1..(i - 1) BY <2>2, <1>2
    <3> QED BY <2>2, <1>3, <3>1 DEF LinkedRow
  <2> QED BY <1>2, <1>3, <2>1, <2>2
<1>5. Rising'
  <2> SUFFICES ASSUME NEW i \in DOMAIN recipes', NEW j \in DOMAIN recipes',
                      recipes'[i].key = recipes'[j].key, recipes'[i].key \notin crossed, i < j
               PROVE  recipes'[i].version < recipes'[j].version
    BY DEF Rising
  <2>1. i \in DOMAIN recipes BY <1>2, <1>3
  <2>2. CASE j \in DOMAIN recipes
    BY <2>1, <2>2, <1>3 DEF IInv, Rising
  <2>3. CASE j = Len(recipes) + 1
    BY <2>1, <2>3, <1>3
  <2> QED BY <1>2, <1>3, <2>2, <2>3
<1> QED BY <1>4, <1>5

\* The run authors a first version of a key that has no row.
LEMMA AuthorKeeps == ASSUME LineageAssumption, IInv, author_recipe PROVE IInv'
<1>1. TypeOK BY DEF IInv
<1>2. PICK k \in run.keys :
        \/ /\ run' = [run EXCEPT !.pc = IF run.keys \ {k} = {} THEN "apply" ELSE "author",
                                 !.keys = run.keys \ {k}]
           /\ UNCHANGED recipes
        \/ /\ Len(recipes) < MaxRecipes
           /\ recipes' = Append(recipes, [key |-> k, version |-> 1, prior |-> None])
           /\ run' = [run EXCEPT !.pc = IF run.keys \ {k} = {} THEN "apply" ELSE "author",
                                 !.keys = run.keys \ {k}, !.todo = @ \cup {Len(recipes) + 1}]
  BY DEF author_recipe
<1>3. UNCHANGED <<attempts, runs, call, faults, crossed>> /\ run.pc = "author"
  BY DEF author_recipe
<1>4. k \in Keys /\ \A i \in DOMAIN recipes : recipes[i].key # k
  BY <1>1, <1>2, <1>3 DEF TypeOK, IInv, Unauthored
<1>5. CASE UNCHANGED recipes /\ run' = [run EXCEPT !.pc = IF run.keys \ {k} = {} THEN "apply" ELSE "author",
                                 !.keys = run.keys \ {k}]
  <2>1. TypeOK' BY <1>1, <1>3, <1>5 DEF TypeOK, Ids
  <2>2. (Linked /\ Rising /\ HoldsNewest)'
    BY <1>3, <1>5 DEF IInv, Linked, LinkedRow, Rising, HoldsNewest
  <2>3. Unauthored' BY <1>1, <1>3, <1>5 DEF IInv, Unauthored, TypeOK
  <2> QED BY <2>1, <2>2, <2>3 DEF IInv
<1>6. CASE /\ recipes' = Append(recipes, [key |-> k, version |-> 1, prior |-> None])
           /\ run' = [run EXCEPT !.pc = IF run.keys \ {k} = {} THEN "apply" ELSE "author",
                                 !.keys = run.keys \ {k}, !.todo = @ \cup {Len(recipes) + 1}]
  <2> DEFINE r == [key |-> k, version |-> 1, prior |-> None]
  <2>1. r \in Row BY <1>4 DEF Row, None
  <2>2. /\ recipes' \in Seq(Row)
        /\ DOMAIN recipes' = 1..(Len(recipes) + 1) /\ DOMAIN recipes \subseteq DOMAIN recipes'
        /\ \A i \in DOMAIN recipes : recipes'[i] = recipes[i]
        /\ recipes'[Len(recipes) + 1] = r
    BY <1>1, <1>6, <2>1, Appended
  <2>3. DOMAIN recipes = 1..Len(recipes) /\ Len(recipes) \in Nat BY <1>1, RowTyped
  <2>4. Linked' /\ Rising' BY <1>3, <1>4, <1>6, <2>1, AppendKeeps
  <2>5. TypeOK'
    <3>1. run' \in [pc : {"idle", "author", "apply"}, keys : SUBSET Keys, todo : SUBSET Ids']
      <4>1. run.todo \cup {Len(recipes) + 1} \in SUBSET Ids' BY <1>1, <2>2, <2>3 DEF TypeOK, Ids
      <4>2. run.keys \ {k} \in SUBSET Keys BY <1>1 DEF TypeOK
      <4>3. (IF run.keys \ {k} = {} THEN "apply" ELSE "author") \in {"idle", "author", "apply"} OBVIOUS
      <4> DEFINE to == IF run.keys \ {k} = {} THEN "apply" ELSE "author"
      <4> DEFINE todo == run.todo \cup {Len(recipes) + 1}
      <4>4. run' = [run EXCEPT !.pc = to, !.keys = run.keys \ {k}, !.todo = todo] BY <1>6
      <4>5. run \in [pc : {"idle", "author", "apply"}, keys : SUBSET Keys, todo : SUBSET Ids]
        BY <1>1 DEF TypeOK
      <4>6. to \in {"idle", "author", "apply"} /\ todo \in SUBSET Ids' BY <4>1, <4>3
      <4> HIDE DEF to, todo
      <4> QED BY <4>2, <4>4, <4>5, <4>6
    <3>2. attempts \subseteq [recipe : Ids', run : 0..runs, succeeded : BOOLEAN]
      <4> SUFFICES ASSUME NEW a \in attempts PROVE a \in [recipe : Ids', run : 0..runs, succeeded : BOOLEAN]
        OBVIOUS
      <4>1. a \in [recipe : Ids, run : 0..runs, succeeded : BOOLEAN] BY <1>1 DEF TypeOK
      <4> QED BY <4>1, <2>2 DEF Ids
    <3>3. \A c \in Calls : call[c].pc # "idle" => call[c].prior \in Ids'
      BY <1>1, <2>2 DEF TypeOK, Ids
    <3> QED BY <1>1, <1>3, <2>2, <3>1, <3>2, <3>3 DEF TypeOK, Row
  <2>6. Unauthored'
    <3> SUFFICES ASSUME NEW l \in run.keys \ {k}, NEW i \in DOMAIN recipes' PROVE recipes'[i].key # l
      BY <1>1, <1>6 DEF Unauthored, TypeOK
    <3>1. CASE i \in DOMAIN recipes BY <1>3, <2>2, <3>1 DEF IInv, Unauthored
    <3>2. CASE i = Len(recipes) + 1 BY <2>2, <3>2
    <3> QED BY <2>2, <2>3, <3>1, <3>2
  <2>7. HoldsNewest'
    <3> SUFFICES ASSUME NEW c \in Calls, call[c].pc # "idle", recipes'[call[c].prior].key \notin crossed
                 PROVE  /\ \A j \in DOMAIN recipes' :
                             recipes'[j].key = recipes'[call[c].prior].key => j <= call[c].prior
                        /\ \A d \in Calls :
                             call[d].pc # "idle" /\ recipes'[call[d].prior].key = recipes'[call[c].prior].key
                               => d = c
      BY <1>3 DEF HoldsNewest
    <3>1. \A d \in Calls : call[d].pc # "idle" =>
            call[d].prior \in DOMAIN recipes /\ recipes'[call[d].prior] = recipes[call[d].prior]
      BY <1>1, <2>2 DEF TypeOK, Ids
    <3>2. recipes'[call[c].prior].key # k BY <1>4, <3>1
    <3>3. \A j \in DOMAIN recipes' :
            recipes'[j].key = recipes'[call[c].prior].key => j <= call[c].prior
      <4> SUFFICES ASSUME NEW j \in DOMAIN recipes', recipes'[j].key = recipes'[call[c].prior].key
                   PROVE  j <= call[c].prior
        OBVIOUS
      <4>1. j # Len(recipes) + 1 BY <2>2, <3>2
      <4>2. j \in DOMAIN recipes BY <4>1, <2>2, <2>3
      <4> QED BY <4>2, <2>2, <3>1 DEF IInv, HoldsNewest
    <3> QED BY <3>1, <3>3 DEF IInv, HoldsNewest
  <2> QED BY <2>4, <2>5, <2>6, <2>7 DEF IInv
<1> QED BY <1>2, <1>5, <1>6

-----------------------------------------------------------------------------
\* A step that leaves the tables alone and sets the locals of one call: to
\* those of a call that ended, or of one that goes on with the recipe it has.
LEMMA BecomeKeeps ==
  ASSUME LineageAssumption, IInv, NEW c \in Calls, NEW r,
         Become(c, r), UNCHANGED <<recipes, attempts, runs, run, crossed>>,
         faults' \in 0..MaxFaults,
         r \in [pc : {"idle", "evidence", "llm", "save"}, prior : Nat, override : BOOLEAN],
         r.pc # "idle" => call[c].pc # "idle" /\ r.prior = call[c].prior
  PROVE  IInv'
<1>1. TypeOK BY DEF IInv
<1>2. /\ call' \in [Calls -> [pc : {"idle", "evidence", "llm", "save"}, prior : Nat, override : BOOLEAN]]
      /\ call'[c] = r /\ \A d \in Calls \ {c} : call'[d] = call[d]
  BY <1>1 DEF Become, TypeOK
<1>3. \A d \in Calls : call'[d].pc # "idle" => call[d].pc # "idle" /\ call'[d].prior = call[d].prior
  <2> SUFFICES ASSUME NEW d \in Calls, call'[d].pc # "idle"
               PROVE  call[d].pc # "idle" /\ call'[d].prior = call[d].prior
    OBVIOUS
  <2>1. CASE d = c BY <1>2, <2>1
  <2>2. CASE d # c BY <1>2, <2>2
  <2> QED BY <2>1, <2>2
<1>4. TypeOK' BY <1>1, <1>2, <1>3 DEF TypeOK, Ids
<1>5. (Linked /\ Unauthored /\ Rising)' BY DEF IInv, Linked, LinkedRow, Unauthored, Rising
<1>6. HoldsNewest' BY <1>3 DEF IInv, HoldsNewest
<1> QED BY <1>4, <1>5, <1>6 DEF IInv

\* A call takes a recipe: its key is crossed unless the recipe is the newest and alone.
LEMMA LoadKeeps == ASSUME LineageAssumption, IInv, NEW c \in Calls, load_recipe(c) PROVE IInv'
<1>1. TypeOK BY DEF IInv
<1>2. call[c].pc = "idle" /\ UNCHANGED <<recipes, attempts, runs, run, faults>> BY DEF load_recipe
<1>3. PICK id \in DOMAIN recipes, override \in BOOLEAN :
        /\ Become(c, [pc |-> "evidence", prior |-> id, override |-> override])
        /\ crossed' = IF id \in NewestOf(RowsOf(recipes[id].key)) /\ InFlight(recipes[id].key) = {} THEN crossed
                      ELSE crossed \cup {recipes[id].key}
  BY DEF load_recipe
<1> DEFINE r == [pc |-> "evidence", prior |-> id, override |-> override]
<1> DEFINE k == recipes[id].key
<1>4. DOMAIN recipes = 1..Len(recipes) /\ Len(recipes) \in Nat /\ k \in Keys
  BY <1>1, RowTyped DEF Row
<1>5. r \in [pc : {"idle", "evidence", "llm", "save"}, prior : Nat, override : BOOLEAN]
  <2>1. id \in Nat BY <1>4
  <2> QED BY <2>1
<1>6. r.pc = "evidence" /\ r.prior = id OBVIOUS
<1>7. call' = [call EXCEPT ![c] = r] BY <1>3 DEF Become
<1> HIDE DEF r
<1>8. /\ call' \in [Calls -> [pc : {"idle", "evidence", "llm", "save"}, prior : Nat, override : BOOLEAN]]
      /\ call'[c] = r /\ \A d \in Calls \ {c} : call'[d] = call[d]
  BY <1>1, <1>5, <1>7 DEF TypeOK
<1>9. crossed \subseteq crossed' /\ crossed' \subseteq Keys BY <1>1, <1>3, <1>4 DEF TypeOK
<1>10. TypeOK'
  <2>1. \A d \in Calls : call'[d].pc # "idle" => call'[d].prior \in Ids
    <3> SUFFICES ASSUME NEW d \in Calls, call'[d].pc # "idle" PROVE call'[d].prior \in Ids
      OBVIOUS
    <3>1. CASE d = c BY <1>6, <1>8, <3>1 DEF Ids
    <3>2. CASE d # c BY <1>1, <1>8, <3>2 DEF TypeOK
    <3> QED BY <3>1, <3>2
  <2> QED BY <1>1, <1>2, <1>8, <1>9, <2>1 DEF TypeOK, Ids
<1>11. (Linked /\ Unauthored /\ Rising)'
  BY <1>2, <1>9 DEF IInv, Linked, LinkedRow, Unauthored, Rising
<1>12. HoldsNewest'
  <2> SUFFICES ASSUME NEW b \in Calls, call'[b].pc # "idle", recipes[call'[b].prior].key \notin crossed'
               PROVE  /\ \A j \in DOMAIN recipes :
                           recipes[j].key = recipes[call'[b].prior].key => j <= call'[b].prior
                      /\ \A d \in Calls :
                           call'[d].pc # "idle" /\ recipes[call'[d].prior].key = recipes[call'[b].prior].key
                             => d = b
    BY <1>2 DEF HoldsNewest
  <2>1. CASE b = c
    <3>1. k \notin crossed' BY <1>6, <1>8, <2>1
    <3>2. id \in NewestOf(RowsOf(k)) /\ InFlight(k) = {} BY <1>3, <3>1
    <3>3. \A j \in DOMAIN recipes : recipes[j].key = k => j <= id BY <3>2 DEF NewestOf, RowsOf
    <3>4. \A d \in Calls \ {c} : call'[d].pc # "idle" => recipes[call'[d].prior].key # k
      BY <1>8, <3>2 DEF InFlight
    <3> QED BY <1>6, <1>8, <2>1, <3>3, <3>4
  <2>2. CASE b # c
    <3>1. /\ call'[b] = call[b] /\ call[b].pc # "idle" /\ recipes[call[b].prior].key \notin crossed
      BY <1>8, <1>9, <2>2
    <3>2. /\ \A j \in DOMAIN recipes : recipes[j].key = recipes[call[b].prior].key => j <= call[b].prior
          /\ \A d \in Calls :
               call[d].pc # "idle" /\ recipes[call[d].prior].key = recipes[call[b].prior].key => d = b
      BY <3>1 DEF IInv, HoldsNewest
    <3>3. ASSUME k = recipes[call[b].prior].key PROVE FALSE
      <4>1. k \notin crossed' BY <3>1, <3>3
      <4>2. InFlight(k) = {} BY <1>3, <4>1
      <4> QED BY <3>1, <3>3, <4>2 DEF InFlight
    <3>4. \A d \in Calls :
            call'[d].pc # "idle" /\ recipes[call'[d].prior].key = recipes[call'[b].prior].key => d = b
      <4> SUFFICES ASSUME NEW d \in Calls, call'[d].pc # "idle",
                          recipes[call'[d].prior].key = recipes[call'[b].prior].key
                   PROVE  d = b
        OBVIOUS
      <4>1. CASE d = c BY <1>6, <1>8, <3>1, <3>3, <4>1
      <4>2. CASE d # c BY <1>8, <3>1, <3>2, <4>2
      <4> QED BY <4>1, <4>2
    <3> QED BY <3>1, <3>2, <3>4
  <2> QED BY <2>1, <2>2
<1> QED BY <1>10, <1>11, <1>12 DEF IInv

\* The calls of the store, of the LLM, and their ends.
LEMMA CallStepKeeps ==
  ASSUME LineageAssumption, IInv, NEW c \in Calls,
         latest_attempt_for_recipe(c) \/ reauthor_recipe(c) \/ StoreError(c)
  PROVE  IInv'
<1>1. TypeOK BY DEF IInv
<1> DEFINE T == [pc : {"idle", "evidence", "llm", "save"}, prior : Nat, override : BOOLEAN]
<1>2. call[c] \in T /\ faults \in 0..MaxFaults BY <1>1 DEF TypeOK
<1>3. NoCall \in T /\ NoCall.pc = "idle" BY DEF NoCall, None
<1>4. ASSUME NEW next \in {"llm", "save"}
      PROVE  LET r == [call[c] EXCEPT !.pc = next] IN r \in T /\ r.prior = call[c].prior
  BY <1>2
<1>5. /\ UNCHANGED <<recipes, attempts, runs, run, crossed>> /\ call[c].pc # "idle"
      /\ \/ Become(c, NoCall)
         \/ Become(c, [call[c] EXCEPT !.pc = "llm"])
         \/ Become(c, [call[c] EXCEPT !.pc = "save"])
  BY DEF latest_attempt_for_recipe, reauthor_recipe, StoreError
<1>6. faults' \in 0..MaxFaults
  BY <1>2 DEF latest_attempt_for_recipe, reauthor_recipe, StoreError, LineageAssumption
<1>7. CASE Become(c, NoCall) BY <1>3, <1>5, <1>6, <1>7, BecomeKeeps
<1>8. CASE Become(c, [call[c] EXCEPT !.pc = "llm"])
  <2> DEFINE r == [call[c] EXCEPT !.pc = "llm"]
  <2>1. r \in T /\ r.prior = call[c].prior /\ Become(c, r) BY <1>4, <1>8
  <2> HIDE DEF r
  <2> QED BY <1>5, <1>6, <2>1, BecomeKeeps
<1>9. CASE Become(c, [call[c] EXCEPT !.pc = "save"])
  <2> DEFINE r == [call[c] EXCEPT !.pc = "save"]
  <2>1. r \in T /\ r.prior = call[c].prior /\ Become(c, r) BY <1>4, <1>9
  <2> HIDE DEF r
  <2> QED BY <1>5, <1>6, <2>1, BecomeKeeps
<1> QED BY <1>5, <1>7, <1>8, <1>9

\* A re-authoring is saved: the call that held the recipe ends with it.
LEMMA SaveKeeps == ASSUME LineageAssumption, IInv, NEW c \in Calls, save_recipe(c) PROVE IInv'
<1>1. TypeOK BY DEF IInv
<1> DEFINE p == call[c].prior
<1> DEFINE r == [recipes[p] EXCEPT !.version = @ + 1, !.prior = p]
<1>2. /\ call[c].pc = "save" /\ recipes' = Append(recipes, r) /\ call' = [call EXCEPT ![c] = NoCall]
      /\ UNCHANGED <<attempts, runs, run, faults, crossed>>
  BY DEF save_recipe, Become
<1>3. /\ DOMAIN recipes = 1..Len(recipes) /\ Len(recipes) \in Nat
      /\ \A i \in DOMAIN recipes : recipes[i] \in Row
  BY <1>1, RowTyped
<1>4. p \in DOMAIN recipes /\ p \in Nat BY <1>1, <1>2, <1>3 DEF TypeOK, Ids
<1>5. /\ r \in Row /\ r.key = recipes[p].key /\ r.prior = p /\ r.version = recipes[p].version + 1
      /\ recipes[p].version \in Nat
  <2> DEFINE row == recipes[p]
  <2>1. row \in Row BY <1>3, <1>4
  <2>2. r = [row EXCEPT !.version = row.version + 1, !.prior = p] OBVIOUS
  <2> HIDE DEF row, r
  <2>3. p \in Nat BY <1>4
  <2> HIDE DEF p
  <2>4. /\ row.version \in Nat /\ row.version + 1 \in Nat \ {0} /\ row.key \in Keys
        /\ row = [key |-> row.key, version |-> row.version, prior |-> row.prior]
    BY <2>1 DEF Row
  <2>5. r = [key |-> row.key, version |-> row.version + 1, prior |-> p] BY <2>2, <2>4
  <2>6. /\ r \in Row /\ r.key = row.key /\ r.prior = p /\ r.version = row.version + 1
    BY <2>3, <2>4, <2>5 DEF Row
  <2> QED BY <2>4, <2>6 DEF row
<1> HIDE DEF r
<1>6. /\ recipes' \in Seq(Row)
      /\ DOMAIN recipes' = 1..(Len(recipes) + 1) /\ DOMAIN recipes \subseteq DOMAIN recipes'
      /\ \A i \in DOMAIN recipes : recipes'[i] = recipes[i]
      /\ recipes'[Len(recipes) + 1] = r
  BY <1>1, <1>2, <1>5, Appended
<1>7. /\ call' \in [Calls -> [pc : {"idle", "evidence", "llm", "save"}, prior : Nat, override : BOOLEAN]]
      /\ call'[c].pc = "idle" /\ \A d \in Calls \ {c} : call'[d] = call[d]
  BY <1>1, <1>2 DEF TypeOK, NoCall, None
<1>8. \A d \in Calls : call'[d].pc # "idle" =>
        /\ d # c /\ call[d].pc # "idle" /\ call'[d] = call[d]
        /\ call'[d].prior \in DOMAIN recipes /\ recipes'[call'[d].prior] = recipes[call[d].prior]
  BY <1>1, <1>6, <1>7 DEF TypeOK, Ids
<1>9. Linked' /\ Rising'
  <2>1. ASSUME r.key \notin crossed, NEW i \in DOMAIN recipes, recipes[i].key = r.key
        PROVE  recipes[i].version < r.version
    <3>1. i <= p BY <1>2, <1>5, <2>1 DEF IInv, HoldsNewest
    <3>2. i = p \/ i < p BY <1>3, <1>4, <3>1
    <3>3. i < p => recipes[i].version < recipes[p].version BY <1>4, <1>5, <2>1 DEF IInv, Rising
    <3>4. recipes[i].version \in Nat BY <1>3 DEF Row
    <3> QED BY <1>5, <3>2, <3>3, <3>4
  <2> QED BY <1>2, <1>4, <1>5, <2>1, AppendKeeps
<1>10. TypeOK'
  <2>1. run \in [pc : {"idle", "author", "apply"}, keys : SUBSET Keys, todo : SUBSET Ids']
    <3>1. Ids \subseteq Ids' BY <1>6 DEF Ids
    <3> QED BY <1>1, <3>1 DEF TypeOK
  <2>2. attempts \subseteq [recipe : Ids', run : 0..runs, succeeded : BOOLEAN]
    <3> SUFFICES ASSUME NEW a \in attempts PROVE a \in [recipe : Ids', run : 0..runs, succeeded : BOOLEAN]
      OBVIOUS
    <3>1. a \in [recipe : Ids, run : 0..runs, succeeded : BOOLEAN] BY <1>1 DEF TypeOK
    <3> QED BY <3>1, <1>6 DEF Ids
  <2>3. \A d \in Calls : call'[d].pc # "idle" => call'[d].prior \in Ids' BY <1>6, <1>8 DEF Ids
  <2> QED BY <1>1, <1>2, <1>6, <1>7, <2>1, <2>2, <2>3 DEF TypeOK, Row
<1>11. Unauthored'
  <2> SUFFICES ASSUME run.pc = "author", NEW l \in run.keys, NEW i \in DOMAIN recipes'
               PROVE  recipes'[i].key # l
    BY <1>2 DEF Unauthored
  <2>1. \A j \in DOMAIN recipes : recipes[j].key # l BY DEF IInv, Unauthored
  <2>2. CASE i \in DOMAIN recipes BY <1>6, <2>1, <2>2
  <2>3. CASE i = Len(recipes) + 1 BY <1>4, <1>5, <1>6, <2>1, <2>3
  <2> QED BY <1>3, <1>6, <2>2, <2>3
<1>12. HoldsNewest'
  <2> SUFFICES ASSUME NEW b \in Calls, call'[b].pc # "idle", recipes'[call'[b].prior].key \notin crossed
               PROVE  /\ \A j \in DOMAIN recipes' :
                           recipes'[j].key = recipes'[call'[b].prior].key => j <= call'[b].prior
                      /\ \A d \in Calls :
                           call'[d].pc # "idle" /\ recipes'[call'[d].prior].key = recipes'[call'[b].prior].key
                             => d = b
    BY <1>2 DEF HoldsNewest
  <2>1. /\ b # c /\ call[b].pc # "idle" /\ call'[b] = call[b]
        /\ recipes'[call'[b].prior] = recipes[call[b].prior]
    BY <1>8
  <2>2. /\ \A j \in DOMAIN recipes : recipes[j].key = recipes[call[b].prior].key => j <= call[b].prior
        /\ \A d \in Calls :
             call[d].pc # "idle" /\ recipes[call[d].prior].key = recipes[call[b].prior].key => d = b
    BY <2>1 DEF IInv, HoldsNewest
  <2>3. r.key # recipes[call[b].prior].key BY <1>2, <1>5, <2>1, <2>2
  <2>4. \A j \in DOMAIN recipes' :
          recipes'[j].key = recipes'[call'[b].prior].key => j <= call'[b].prior
    <3> SUFFICES ASSUME NEW j \in DOMAIN recipes', recipes'[j].key = recipes'[call'[b].prior].key
                 PROVE  j <= call'[b].prior
      OBVIOUS
    <3>1. j # Len(recipes) + 1 BY <1>6, <2>1, <2>3
    <3>2. j \in DOMAIN recipes BY <1>3, <1>6, <3>1
    <3> QED BY <1>6, <2>1, <2>2, <3>2
  <2>5. \A d \in Calls :
          call'[d].pc # "idle" /\ recipes'[call'[d].prior].key = recipes'[call'[b].prior].key => d = b
    <3> SUFFICES ASSUME NEW d \in Calls, call'[d].pc # "idle",
                        recipes'[call'[d].prior].key = recipes'[call'[b].prior].key
                 PROVE  d = b
      OBVIOUS
    <3>1. call[d].pc # "idle" /\ recipes[call[d].prior].key = recipes[call[b].prior].key
      BY <1>8, <2>1
    <3> QED BY <2>2, <3>1
  <2> QED BY <2>4, <2>5
<1> QED BY <1>9, <1>10, <1>11, <1>12 DEF IInv

\* A kill ends the run and every call.
LEMMA KillKeeps == ASSUME LineageAssumption, IInv, Kill PROVE IInv'
<1>1. TypeOK BY DEF IInv
<1>2. /\ UNCHANGED <<recipes, attempts, runs, crossed>> /\ run' = NoRun
      /\ call' = [c \in Calls |-> NoCall] /\ faults < MaxFaults /\ faults' = faults + 1
  BY DEF Kill
<1>3. run' \in [pc : {"idle", "author", "apply"}, keys : SUBSET Keys, todo : SUBSET Ids]
  BY <1>2 DEF NoRun
<1>4. call' \in [Calls -> [pc : {"idle", "evidence", "llm", "save"}, prior : Nat, override : BOOLEAN]]
  BY <1>2 DEF NoCall, None
<1>5. \A c \in Calls : call'[c].pc = "idle" BY <1>2 DEF NoCall
<1>6. faults' \in 0..MaxFaults BY <1>1, <1>2 DEF TypeOK, LineageAssumption
<1>7. TypeOK' BY <1>1, <1>2, <1>3, <1>4, <1>5, <1>6 DEF TypeOK, Ids
<1>8. (Linked /\ Rising)' BY <1>2 DEF IInv, Linked, LinkedRow, Rising
<1>9. Unauthored' BY <1>2 DEF Unauthored, NoRun
<1>10. HoldsNewest' BY <1>5 DEF HoldsNewest
<1> QED BY <1>7, <1>8, <1>9, <1>10 DEF IInv

LEMMA StutterKeeps == ASSUME IInv, UNCHANGED vars PROVE IInv'
BY DEF vars, IInv, TypeOK, Ids, Linked, LinkedRow, Unauthored, Rising, HoldsNewest

LEMMA Inductive == ASSUME LineageAssumption PROVE Spec => []IInv
<1>1. Init => IInv BY InitIInv
<1>2. IInv /\ [Next]_vars => IInv'
  <2> SUFFICES ASSUME IInv, [Next]_vars PROVE IInv' OBVIOUS
  <2>1. CASE load_or_author_recipes \/ run_one_recipe \/ close_run BY <2>1, RunStepKeeps
  <2>2. CASE author_recipe BY <2>2, AuthorKeeps
  <2>3. ASSUME NEW c \in Calls, load_recipe(c) PROVE IInv' BY <2>3, LoadKeeps
  <2>4. ASSUME NEW c \in Calls, latest_attempt_for_recipe(c) \/ reauthor_recipe(c) \/ StoreError(c) PROVE IInv'
    BY <2>4, CallStepKeeps
  <2>5. ASSUME NEW c \in Calls, save_recipe(c) PROVE IInv' BY <2>5, SaveKeeps
  <2>6. CASE Kill BY <2>6, KillKeeps
  <2>7. CASE UNCHANGED vars BY <2>7, StutterKeeps
  <2> QED BY <2>1, <2>2, <2>3, <2>4, <2>5, <2>6, <2>7 DEF Next
<1> QED BY <1>1, <1>2, PTL DEF Spec

-----------------------------------------------------------------------------
\* The tables and the locals keep their types, and every id has its row.
THEOREM LineageTypes == ASSUME LineageAssumption PROVE Spec => []TypeOK
<1>1. IInv => TypeOK BY DEF IInv
<1> QED BY <1>1, Inductive, PTL

\* recipes.rs: the row save_recipe adds points to an earlier row of its own key,
\* one version below it, whatever the order of the re-authorings: no walk of the
\* priors goes round, and each ends at a first version.
THEOREM LineageNeverLoops == ASSUME LineageAssumption PROVE Spec => []Linked
<1>1. IInv => Linked BY DEF IInv
<1> QED BY <1>1, Inductive, PTL

\* commands.rs: for a key whose re-authorings start from its newest row and end
\* one before the next, the row of the highest version is the one inserted last,
\* for any number of keys, calls, rows, runs and faults.
THEOREM NewestWins == ASSUME LineageAssumption PROVE Spec => []NewestIsHighestInTurn
<1>1. IInv => NewestIsHighestInTurn
  <2> SUFFICES ASSUME IInv, NEW k \in Keys \ crossed
               PROVE  get_recipe_by_dedup_key(k) = NewestOf(RowsOf(k))
    BY DEF NewestIsHighestInTurn
  <2>1. /\ DOMAIN recipes = 1..Len(recipes) /\ Len(recipes) \in Nat
        /\ \A i \in DOMAIN recipes : recipes[i] \in Row
    BY RowTyped DEF IInv
  <2>2. \A i \in RowsOf(k) : i \in DOMAIN recipes /\ i \in Nat /\ recipes[i].key = k /\ recipes[i].version \in Nat
    BY <2>1 DEF RowsOf, Row
  <2>3. \A i, j \in RowsOf(k) : i < j => recipes[i].version < recipes[j].version
    BY <2>2 DEF IInv, Rising
  <2>4. \A i, j \in RowsOf(k) : recipes[j].version <= recipes[i].version <=> j <= i
    <3> SUFFICES ASSUME NEW i \in RowsOf(k), NEW j \in RowsOf(k)
                 PROVE  recipes[j].version <= recipes[i].version <=> j <= i
      OBVIOUS
    <3>1. i < j \/ j < i \/ i = j BY <2>2
    <3> QED BY <2>2, <2>3, <3>1
  <2> QED BY <2>4 DEF get_recipe_by_dedup_key, NewestOf
<1> QED BY <1>1, Inductive, PTL

-----------------------------------------------------------------------------
(***************************************************************************)
(* The walk of recipe_lineage.  It is a recursive function, so it is first *)
(* shown to be what its definition says, and then what it meets, both by   *)
(* the least step at which that would fail.                                *)
(***************************************************************************)
LEMMA LeastOf ==
  ASSUME NEW S, S \subseteq Nat, S # {}
  PROVE  \E t \in S : \A u \in S : t <= u
<1>. DEFINE Before == {ss \in Nat \X Nat : ss[1] < ss[2]}
<1>1. IsWellFoundedOn(Before, Nat)
  BY NatLessThanWellFounded, Zenon DEF OpToRel
<1>. HIDE DEF Before
<1>2. PICK t \in S : \A u \in S : ~(<<u, t>> \in Before)
  BY <1>1, WFMin, Zenon
<1>3. ASSUME NEW u \in S PROVE t <= u
  <2>1. <<u, t>> \notin Before
    BY <1>2
  <2>. QED
    BY <2>1 DEF Before
<1>. QED
  BY <1>3

\* The row a step of the walk leads to.
PriorOf(i) == IF i = None THEN None ELSE recipes[i].prior

\* f follows the priors from id for n steps.
Follows(f, id, n) ==
  /\ f \in [0..n -> Nat] /\ f[0] = id
  /\ \A m \in 1..n : f[m] = PriorOf(f[m - 1])

\* A row's prior is a row or none.
LEMMA PriorsAreRows ==
  ASSUME TypeOK, Linked, NEW i \in {None} \cup DOMAIN recipes
  PROVE  PriorOf(i) \in {None} \cup DOMAIN recipes
BY RowTyped DEF Linked, LinkedRow, PriorOf, None

\* From every row there is a walk of every length.
LEMMA WalksExist ==
  ASSUME TypeOK, Linked, NEW id \in DOMAIN recipes, NEW N \in Nat
  PROVE  \E f : Follows(f, id, N) /\ \A m \in 0..N : f[m] \in {None} \cup DOMAIN recipes
<1>. DEFINE R == {None} \cup DOMAIN recipes
            Walk(f, n) == Follows(f, id, n) /\ \A m \in 0..n : f[m] \in R
            Bad == {n \in Nat : ~\E f : Walk(f, n)}
<1>1. R \subseteq Nat
  BY RowTyped DEF None
<1>2. Walk([m \in 0..0 |-> id], 0)
  <2>1. id \in Nat /\ id \in R
    BY <1>1
  <2>. QED
    BY <2>1 DEF Follows
<1>3. ASSUME NEW n \in Nat, NEW f, Walk(f, n)
      PROVE  Walk([m \in 0..(n + 1) |-> IF m <= n THEN f[m] ELSE PriorOf(f[n])], n + 1)
  <2>. DEFINE g == [m \in 0..(n + 1) |-> IF m <= n THEN f[m] ELSE PriorOf(f[n])]
  <2>1. \A m \in 0..n : g[m] = f[m] /\ f[m] \in R
    BY <1>3
  <2>2. g[n + 1] = PriorOf(f[n]) /\ g[n + 1] \in R
    <3>0. n \in 0..n
      OBVIOUS
    <3>1. f[n] \in R
      BY <1>3, <3>0
    <3>2. PriorOf(f[n]) \in R
      BY <3>1, PriorsAreRows
    <3>. QED
      BY <3>2
  <2>3. \A m \in 0..(n + 1) : g[m] \in R
    BY <2>1, <2>2
  <2>4. g \in [0..(n + 1) -> Nat]
    BY <2>3, <1>1
  <2>5. g[0] = id
    BY <1>3, <2>1 DEF Follows
  <2>6. ASSUME NEW m \in 1..(n + 1) PROVE g[m] = PriorOf(g[m - 1])
    <3>1. CASE m = n + 1
      BY <3>1, <2>1, <2>2
    <3>2. CASE m # n + 1
      <4>1. m \in 1..n /\ m \in 0..n /\ m - 1 \in 0..n
        BY <3>2
      <4>. QED
        BY <4>1, <2>1, <1>3 DEF Follows
    <3>. QED
      BY <3>1, <3>2
  <2>. QED
    BY <2>3, <2>4, <2>5, <2>6 DEF Follows
<1>. HIDE DEF Walk
<1>4. Bad = {}
  <2>. SUFFICES ASSUME Bad # {} PROVE FALSE
    OBVIOUS
  <2>1. PICK t \in Bad : \A u \in Bad : t <= u
    BY LeastOf
  <2>2. t # 0
    BY <1>2
  <2>3. t - 1 \in Nat /\ t - 1 \notin Bad
    BY <2>1, <2>2
  <2>4. PICK f : Walk(f, t - 1)
    BY <2>3
  <2>5. \E g : Walk(g, (t - 1) + 1)
    BY <1>3, <2>3, <2>4
  <2>. QED
    BY <2>5, <2>1
<1>5. \E f : Walk(f, N)
  BY <1>4
<1>. QED
  BY <1>5 DEF Walk

\* So the walk is what its definition says it is.
LEMMA CursorFollows ==
  ASSUME LineageAssumption, TypeOK, Linked, NEW id \in DOMAIN recipes
  PROVE  Follows(cursor(id), id, MaxDepth)
<1>. DEFINE Rule(at) == at = [n \in 0..MaxDepth |->
                                IF n = 0 THEN id
                                ELSE IF at[n - 1] = None THEN None ELSE recipes[at[n - 1]].prior]
<1>0. MaxDepth \in Nat
  BY DEF LineageAssumption
<1>1. PICK f : Follows(f, id, MaxDepth)
  BY <1>0, WalksExist
<1>2. Rule(f)
  <2>1. ASSUME NEW n \in 0..MaxDepth
        PROVE  f[n] = IF n = 0 THEN id
                      ELSE IF f[n - 1] = None THEN None ELSE recipes[f[n - 1]].prior
    <3>1. CASE n = 0
      BY <3>1, <1>1 DEF Follows
    <3>2. CASE n # 0
      <4>1. n \in 1..MaxDepth
        BY <1>0, <3>2
      <4>. QED
        BY <4>1, <3>2, <1>1 DEF Follows, PriorOf
    <3>. QED
      BY <3>1, <3>2
  <2>. QED
    BY <2>1, <1>1 DEF Follows
<1>3. cursor(id) = CHOOSE at : Rule(at)
  BY DEF cursor
<1>4. Rule(cursor(id))
  <2>. HIDE DEF Rule
  <2>. QED
    BY <1>2, <1>3, Zenon
<1>. DEFINE at == cursor(id)
<1>5. at = [n \in 0..MaxDepth |-> at[n]] /\ f = [n \in 0..MaxDepth |-> f[n]]
  BY <1>1, <1>4 DEF Follows
<1>. HIDE DEF at
<1>6. ASSUME NEW n \in 0..MaxDepth, n # 0, at[n - 1] = f[n - 1] PROVE at[n] = f[n]
  BY <1>2, <1>4, <1>6 DEF at
<1>7. at[0] = f[0]
  BY <1>0, <1>2, <1>4 DEF at
<1>. HIDE DEF Rule
<1>. DEFINE Bad == {n \in 0..MaxDepth : at[n] # f[n]}
<1>8. Bad = {}
  <2>. SUFFICES ASSUME Bad # {} PROVE FALSE
    OBVIOUS
  <2>1. PICK t \in Bad : \A u \in Bad : t <= u
    <3>1. Bad \subseteq Nat
      BY <1>0
    <3>. QED
      BY <3>1, LeastOf
  <2>2. t # 0 /\ t \in 0..MaxDepth
    BY <1>7, <2>1
  <2>3. t - 1 \in 0..MaxDepth /\ t - 1 \notin Bad
    BY <1>0, <2>1, <2>2
  <2>. QED
    BY <1>6, <2>1, <2>2, <2>3
<1>9. at = f
  BY <1>5, <1>8
<1>. QED
  BY <1>1, <1>9 DEF at

\* The walk meets one version after the other down to the first, then nothing.
LEMMA CursorDescends ==
  ASSUME LineageAssumption, TypeOK, Linked, NEW id \in DOMAIN recipes, NEW n \in 0..MaxDepth
  PROVE  IF n < recipes[id].version
         THEN /\ cursor(id)[n] \in DOMAIN recipes
              /\ recipes[cursor(id)[n]].key = recipes[id].key
              /\ recipes[cursor(id)[n]].version = recipes[id].version - n
         ELSE cursor(id)[n] = None
<1>. DEFINE v == recipes[id].version
            at == cursor(id)
            Good(m) == IF m < v
                       THEN /\ at[m] \in DOMAIN recipes
                            /\ recipes[at[m]].key = recipes[id].key
                            /\ recipes[at[m]].version = v - m
                       ELSE at[m] = None
            Bad == {m \in 0..MaxDepth : ~Good(m)}
<1>0. MaxDepth \in Nat
  BY DEF LineageAssumption
<1>1. /\ DOMAIN recipes = 1..Len(recipes) /\ Len(recipes) \in Nat
      /\ \A i \in DOMAIN recipes : recipes[i].version \in Nat \ {0}
  BY RowTyped DEF Row
<1>2. at[0] = id /\ \A m \in 1..MaxDepth : at[m] = PriorOf(at[m - 1])
  BY CursorFollows DEF Follows
<1>3. Good(0)
  BY <1>1, <1>2
<1>. HIDE DEF at
<1>4. ASSUME NEW m \in 0..MaxDepth, m # 0, Good(m - 1) PROVE Good(m)
  <2>1. at[m] = PriorOf(at[m - 1]) /\ v \in Nat \ {0} /\ m \in Nat
    BY <1>0, <1>1, <1>2, <1>4
  <2>2. CASE ~(m - 1 < v)
    <3>1. at[m] = None /\ ~(m < v)
      BY <1>4, <2>1, <2>2 DEF PriorOf
    <3>. QED
      BY <3>1
  <2>3. CASE m - 1 < v
    <3>. DEFINE i == at[m - 1]
    <3>1. /\ i \in DOMAIN recipes /\ i # None /\ LinkedRow(i)
          /\ recipes[i].key = recipes[id].key /\ recipes[i].version = v - (m - 1)
      BY <1>1, <1>4, <2>3 DEF Linked, None
    <3>2. at[m] = recipes[i].prior
      BY <2>1, <3>1 DEF PriorOf
    <3>. HIDE DEF i, v
    <3>3. CASE m < v
      <4>1. recipes[i].version # 1
        BY <2>1, <3>1, <3>3
      <4>2. /\ recipes[i].prior \in 1..(i - 1)
            /\ recipes[i].key = recipes[recipes[i].prior].key
            /\ recipes[i].version = recipes[recipes[i].prior].version + 1
        BY <3>1, <4>1 DEF LinkedRow
      <4>3. recipes[i].prior \in DOMAIN recipes
        BY <1>1, <3>1, <4>2
      <4>4. recipes[recipes[i].prior].version = v - m
        <5>1. recipes[recipes[i].prior].version \in Nat
          BY <1>1, <4>3
        <5>2. recipes[recipes[i].prior].version + 1 = v - (m - 1)
          BY <3>1, <4>2
        <5>. HIDE <3>1, <4>2
        <5>. QED
          BY <2>1, <5>1, <5>2
      <4>. QED
        BY <3>1, <3>2, <3>3, <4>2, <4>3, <4>4
    <3>4. CASE ~(m < v)
      <4>1. recipes[i].version = 1
        BY <2>1, <2>3, <3>1, <3>4 DEF v
      <4>2. recipes[i].prior = None
        <5>1. ASSUME recipes[i].prior \in 1..(i - 1) PROVE recipes[i].version # recipes[recipes[i].prior].version + 1
          <6>1. recipes[recipes[i].prior].version \in Nat \ {0}
            BY <1>1, <3>1, <5>1
          <6>. QED
            BY <4>1, <6>1
        <5>. QED
          BY <3>1, <5>1 DEF LinkedRow
      <4>. QED
        BY <3>2, <3>4, <4>2
    <3>. QED
      BY <3>3, <3>4
  <2>. QED
    BY <2>2, <2>3
<1>. HIDE DEF Good
<1>5. Bad = {}
  <2>. SUFFICES ASSUME Bad # {} PROVE FALSE
    OBVIOUS
  <2>1. PICK t \in Bad : \A u \in Bad : t <= u
    <3>1. Bad \subseteq Nat
      BY <1>0
    <3>. QED
      BY <3>1, LeastOf
  <2>2. t # 0 /\ t \in 0..MaxDepth
    BY <1>3, <2>1
  <2>3. t - 1 \in 0..MaxDepth /\ t - 1 \notin Bad
    BY <1>0, <2>1, <2>2
  <2>. QED
    BY <1>4, <2>1, <2>2, <2>3
<1>6. Good(n)
  BY <1>5
<1>. QED
  BY <1>6 DEF Good, at

(***************************************************************************)
(* recipes.rs: whatever the order in which re-authorings are saved, a walk *)
(* of the priors finds the whole chain of a row, one version at a time     *)
(* down to the first, unless the chain passes the cap.                     *)
(***************************************************************************)
THEOREM ChainsAreWalked == ASSUME LineageAssumption PROVE Spec => []LineageReadable
<1>1. IInv => LineageReadable
  <2>. SUFFICES ASSUME IInv, NEW id \in DOMAIN recipes
                PROVE  LET chain == recipe_lineage(id)
                       IN  IF recipes[id].version > MaxDepth THEN chain = TooDeep
                           ELSE /\ Len(chain) = recipes[id].version
                                /\ \A n \in DOMAIN chain :
                                     /\ recipes[chain[n]].key = recipes[id].key
                                     /\ recipes[chain[n]].version = recipes[id].version + 1 - n
    BY DEF LineageReadable, Ids
  <2>. DEFINE at == cursor(id)
              v  == recipes[id].version
              chain == recipe_lineage(id)
              length == Cardinality({n \in 0..MaxDepth : at[n] # None})
  <2>0. MaxDepth \in Nat \ {0} /\ TypeOK /\ Linked
    BY DEF LineageAssumption, IInv
  <2>1. v \in Nat \ {0} /\ DOMAIN recipes = 1..Len(recipes) /\ Len(recipes) \in Nat
    BY <2>0, RowTyped DEF Row
  <2>2. ASSUME NEW n \in 0..MaxDepth
        PROVE  IF n < v THEN /\ at[n] \in DOMAIN recipes
                             /\ recipes[at[n]].key = recipes[id].key
                             /\ recipes[at[n]].version = v - n
               ELSE at[n] = None
    BY <2>0, CursorDescends
  <2>3. chain = IF at[MaxDepth] # None THEN TooDeep ELSE [n \in 1..length |-> at[n - 1]]
    BY DEF recipe_lineage
  <2>. HIDE DEF at, v, chain, length
  <2>4. \A n \in 0..MaxDepth : at[n] # None <=> n < v
    BY <2>1, <2>2 DEF None
  <2>5. CASE v > MaxDepth
    <3>1. at[MaxDepth] # None
      BY <2>0, <2>1, <2>4, <2>5
    <3>. QED
      BY <2>3, <2>5, <3>1 DEF v, chain
  <2>6. CASE ~(v > MaxDepth)
    <3>1. at[MaxDepth] = None
      BY <2>0, <2>1, <2>4, <2>6
    <3>2. {n \in 0..MaxDepth : at[n] # None} = 0..(v - 1)
      BY <2>0, <2>1, <2>4, <2>6
    <3>3. length = v
      <4>1. length = Cardinality(0..(v - 1))
        BY <3>2 DEF length
      <4>2. Cardinality(0..(v - 1)) = IF 0 > v - 1 THEN 0 ELSE (v - 1) - 0 + 1
        BY <2>1, FS_Interval
      <4>. QED
        BY <2>1, <4>1, <4>2
    <3>4. chain = [n \in 1..v |-> at[n - 1]]
      BY <2>3, <3>1, <3>3
    <3>5. ASSUME NEW n \in 1..v
          PROVE  /\ chain[n] \in DOMAIN recipes
                 /\ recipes[chain[n]].key = recipes[id].key
                 /\ recipes[chain[n]].version = v + 1 - n
      <4>1. n - 1 \in 0..MaxDepth /\ n - 1 < v
        BY <2>0, <2>1, <2>6
      <4>2. v - (n - 1) = v + 1 - n
        BY <2>1
      <4>. QED
        BY <2>2, <3>4, <4>1, <4>2
    <3>6. DOMAIN chain = 1..v /\ Len(chain) = v
      <4>1. chain \in Seq(DOMAIN recipes)
        BY <2>1, <3>4, <3>5
      <4>. QED
        BY <2>1, <3>4, <4>1
    <3>. QED
      BY <2>6, <3>5, <3>6 DEF v, chain
  <2>. QED
    BY <2>5, <2>6
<1>. QED
  BY <1>1, Inductive, PTL

-----------------------------------------------------------------------------
(***************************************************************************)
(* TargetFairness: FairShare, for any buckets and any cap.                 *)
(***************************************************************************)
\* Within a round the buckets before `bucket` have had their turn, the others not.
InTurn ==
  \A b, c \in 1..Buckets :
    indices[c] < sizes[c] =>
      /\ indices[b] <= indices[c] + (IF b < bucket /\ bucket <= c THEN 1 ELSE 0)
      /\ c < bucket /\ bucket <= b => indices[b] < indices[c]

Drained ==
  \/ any_progress = TRUE \/ Len(out) >= max
  \/ \A c \in 1..Buckets : c < bucket => indices[c] = sizes[c]

RoundOver == pc # "for" => bucket = Buckets + 1 \/ Len(out) >= max

Taken ==
  /\ Len(out) <= max
  /\ \A b \in 1..Buckets : indices[b] <= sizes[b]
  /\ \A i \in DOMAIN out : out[i].index < indices[out[i].bucket]
  /\ \A i, j \in DOMAIN out : out[i] = out[j] => i = j

Over == pc = "done" => Len(out) >= max \/ any_progress = FALSE

FairInv == TargetsTypeOK /\ InTurn /\ Drained /\ RoundOver /\ Taken /\ Over

\* The types and the invariant hold of a plan before the first round.
LEMMA FairInit == ASSUME FairnessAssumption, TargetsInit PROVE FairInv
BY DEF FairnessAssumption, TargetsInit, FairInv, TargetsTypeOK, InTurn, Drained, RoundOver, Taken, Over

\* A round starts with no bucket served.
LEMMA StartFair == ASSUME FairnessAssumption, FairInv, start_round PROVE FairInv'
<1> USE DEF FairnessAssumption
<1>1. TargetsTypeOK'
  <2>1. any_progress' \in BOOLEAN BY Zenon DEF start_round
  <2>2. bucket' \in 1..(Buckets + 1) BY DEF start_round
  <2> QED BY <2>1, <2>2 DEF FairInv, TargetsTypeOK, start_round
<1>2. InTurn'
  <2>1. bucket = Buckets + 1 BY DEF FairInv, TargetsTypeOK, RoundOver, start_round
  <2> QED BY <2>1 DEF FairInv, TargetsTypeOK, InTurn, start_round
<1>3. (Drained /\ RoundOver /\ Over)' BY DEF FairInv, TargetsTypeOK, Drained, RoundOver, Over, start_round
<1>4. Taken' BY DEF FairInv, TargetsTypeOK, Taken, start_round
<1> QED BY <1>1, <1>2, <1>3, <1>4 DEF FairInv

\* A target is a bucket and an index.
LEMMA TargetTyped ==
  ASSUME TargetsTypeOK PROVE \A i \in DOMAIN out : out[i].bucket \in 1..Buckets /\ out[i].index \in Nat
<1> DEFINE Target == [bucket : 1..Buckets, index : Nat]
<1>1. out \in Seq(Target) BY DEF TargetsTypeOK
<1> HIDE DEF Target
<1>2. \A i \in DOMAIN out : out[i] \in Target BY <1>1
<1> QED BY <1>2 DEF Target

\* The turn of one bucket.
LEMMA TakeFair == ASSUME FairnessAssumption, FairInv, take PROVE FairInv'
<1> USE DEF FairnessAssumption
<1>0. bucket \in 1..Buckets /\ Len(out) \in Nat BY DEF FairInv, TargetsTypeOK, take
<1>1. CASE indices[bucket] < sizes[bucket]
  <2> DEFINE e == [bucket |-> bucket, index |-> indices[bucket]]
  <2>1. /\ out' = Append(out, e) /\ any_progress' = TRUE /\ bucket' = bucket + 1
        /\ indices' = [indices EXCEPT ![bucket] = @ + 1]
        /\ UNCHANGED <<sizes, max, pc>> /\ pc = "for" /\ Len(out) < max
    BY <1>1 DEF take
  <2>2. e \in [bucket : 1..Buckets, index : Nat] BY <1>0 DEF FairInv, TargetsTypeOK
  <2>3. TargetsTypeOK'
    <3>1. any_progress' \in BOOLEAN BY <2>1, Zenon
    <3>2. out' \in Seq([bucket : 1..Buckets, index : Nat]) BY <2>1, <2>2 DEF FairInv, TargetsTypeOK
    <3>3. indices' \in [1..Buckets -> Nat] BY <1>0, <2>1 DEF FairInv, TargetsTypeOK
    <3>4. bucket' \in 1..(Buckets + 1) BY <1>0, <2>1
    <3> QED BY <2>1, <3>1, <3>2, <3>3, <3>4 DEF FairInv, TargetsTypeOK
  <2>4. InTurn'
    <3>1. \A c \in 1..Buckets :
            /\ indices[c] \in Nat /\ sizes[c] \in Nat
            /\ indices'[c] = IF c = bucket THEN indices[c] + 1 ELSE indices[c]
            /\ sizes'[c] = sizes[c]
      BY <2>1 DEF FairInv, TargetsTypeOK
    <3>2. \A b, c \in 1..Buckets :
            indices'[c] < sizes[c] =>
              /\ indices'[b] <= indices'[c] + (IF b < bucket + 1 /\ bucket + 1 <= c THEN 1 ELSE 0)
              /\ c < bucket + 1 /\ bucket + 1 <= b => indices'[b] < indices'[c]
      <4> TAKE b, c \in 1..Buckets
      <4>1. indices[c] < sizes[c] =>
              /\ indices[b] <= indices[c] + (IF b < bucket /\ bucket <= c THEN 1 ELSE 0)
              /\ c < bucket /\ bucket <= b => indices[b] < indices[c]
        BY DEF FairInv, InTurn
      <4> HIDE DEF FairInv, InTurn
      <4> QED BY <1>0, <3>1, <4>1
    <3> QED BY <2>1, <3>1, <3>2 DEF InTurn
  <2>5. (Drained /\ RoundOver /\ Over)' BY <2>1 DEF Drained, RoundOver, Over
  <2>6. Taken'
    <3>1. Len(out') = Len(out) + 1 /\ \A i \in DOMAIN out' : out'[i] = IF i <= Len(out) THEN out[i] ELSE e
      BY <2>1, <2>2, <1>0 DEF FairInv, TargetsTypeOK
    <3>2. DOMAIN out = 1..Len(out) /\ DOMAIN out' = 1..(Len(out) + 1)
      BY <3>1, <2>3 DEF FairInv, TargetsTypeOK
    <3>3. \A i \in DOMAIN out : out[i] # e BY <1>0 DEF FairInv, TargetsTypeOK, Taken
    <3>4. \A i \in DOMAIN out' : out'[i].index < indices'[out'[i].bucket]
      <4>1. \A i \in DOMAIN out : out[i].bucket \in 1..Buckets /\ out[i].index \in Nat
        BY TargetTyped DEF FairInv
      <4>2. \A b \in 1..Buckets : indices[b] \in Nat /\ indices'[b] \in Nat /\ indices[b] <= indices'[b]
        BY <2>1, <1>0 DEF FairInv, TargetsTypeOK
      <4>3. \A i \in DOMAIN out : out[i].index < indices[out[i].bucket] BY DEF FairInv, Taken
      <4>4. indices[bucket] < indices'[bucket] BY <1>0, <2>1 DEF FairInv, TargetsTypeOK
      <4>5. \A i \in DOMAIN out : out[i].index < indices'[out[i].bucket] BY <4>1, <4>2, <4>3
      <4> QED BY <1>0, <3>1, <3>2, <4>4, <4>5
    <3>5. \A i, j \in DOMAIN out' : out'[i] = out'[j] => i = j
      BY <3>1, <3>2, <3>3, <1>0 DEF FairInv, Taken
    <3>6. \A b \in 1..Buckets : indices'[b] <= sizes'[b] BY <1>0, <1>1, <2>1 DEF FairInv, TargetsTypeOK, Taken
    <3>7. Len(out') <= max' BY <2>1, <3>1, <1>0 DEF FairInv, TargetsTypeOK
    <3> QED BY <3>4, <3>5, <3>6, <3>7 DEF Taken
  <2> QED BY <2>3, <2>4, <2>5, <2>6 DEF FairInv
<1>2. CASE ~(indices[bucket] < sizes[bucket])
  <2>1. UNCHANGED <<out, indices, any_progress, sizes, max, pc>> /\ bucket' = bucket + 1 /\ pc = "for"
        /\ Len(out) < max
    BY <1>2 DEF take
  <2>2. indices[bucket] = sizes[bucket] BY <1>0, <1>2 DEF FairInv, TargetsTypeOK, Taken
  <2>3. TargetsTypeOK' BY <1>0, <2>1 DEF FairInv, TargetsTypeOK
  <2>4. InTurn' BY <1>0, <2>1, <2>2 DEF FairInv, TargetsTypeOK, InTurn
  <2>5. Drained' BY <1>0, <2>1, <2>2 DEF FairInv, TargetsTypeOK, Drained
  <2>6. (RoundOver /\ Over)' BY <2>1 DEF RoundOver, Over
  <2>7. Taken' BY <2>1 DEF FairInv, Taken
  <2> QED BY <2>3, <2>4, <2>5, <2>6, <2>7 DEF FairInv
<1> QED BY <1>1, <1>2

LEMMA EndFair == ASSUME FairnessAssumption, FairInv, end_round \/ return PROVE FairInv'
<1> USE DEF FairnessAssumption
<1>1. UNCHANGED <<sizes, max, out, indices, bucket, any_progress>> BY DEF end_round, return
<1>2. (TargetsTypeOK /\ InTurn /\ Drained /\ Taken)'
  BY <1>1 DEF FairInv, TargetsTypeOK, InTurn, Drained, Taken, end_round, return
<1>3. (RoundOver /\ Over)'
  BY <1>1 DEF FairInv, TargetsTypeOK, RoundOver, Over, end_round, return
<1> QED BY <1>2, <1>3 DEF FairInv

LEMMA FairStutter == ASSUME FairInv, UNCHANGED targets PROVE FairInv'
BY DEF FairInv, TargetsTypeOK, InTurn, Drained, RoundOver, Taken, Over, targets

LEMMA FairHolds == ASSUME FairnessAssumption, FairInv PROVE FairShare
<1> USE DEF FairnessAssumption
<1> SUFFICES ASSUME pc = "done" PROVE FairShare BY DEF FairShare
<1>0. Len(out) \in Nat /\ max \in Nat BY DEF FairInv, TargetsTypeOK
<1>1. Len(out) < max => indices = sizes
  <2> SUFFICES ASSUME Len(out) < max PROVE indices = sizes OBVIOUS
  <2>1. bucket = Buckets + 1 /\ any_progress = FALSE BY <1>0 DEF FairInv, RoundOver, Over
  <2>2. \A c \in 1..Buckets : indices[c] = sizes[c] BY <1>0, <2>1 DEF FairInv, Drained
  <2> QED BY <2>2 DEF FairInv, TargetsTypeOK
<1>2. \A b, c \in 1..Buckets : indices[c] < sizes[c] => indices[b] <= indices[c] + 1
  BY DEF FairInv, TargetsTypeOK, InTurn
<1>3. \A i \in DOMAIN out : out[i].bucket \in 1..Buckets /\ out[i].index \in Nat
  BY TargetTyped DEF FairInv
<1>4. \A i \in DOMAIN out : out[i].index < indices[out[i].bucket] /\ out[i].index < sizes[out[i].bucket]
  <2>1. \A b \in 1..Buckets : indices[b] \in Nat /\ sizes[b] \in Int /\ indices[b] <= sizes[b]
    BY DEF FairInv, TargetsTypeOK, Taken
  <2>2. \A i \in DOMAIN out : out[i].index < indices[out[i].bucket] BY DEF FairInv, Taken
  <2> QED BY <1>3, <2>1, <2>2
<1> QED BY <1>1, <1>2, <1>4 DEF FairShare, FairInv, Taken

\* Whatever the sizes of the buckets and the cap, the targets that
\* build_target_expectations returns are distinct, fill the cap unless the plan has
\* fewer, and are shared out evenly.
THEOREM TargetsAreShared == ASSUME FairnessAssumption PROVE TargetsSpec => []FairShare
<1>1. TargetsInit => FairInv BY FairInit
<1>2. FairInv /\ [TargetsNext]_targets => FairInv'
  BY StartFair, TakeFair, EndFair, FairStutter DEF TargetsNext
<1>3. FairInv => FairShare BY FairHolds
<1> QED BY <1>1, <1>2, <1>3, PTL DEF TargetsSpec

-----------------------------------------------------------------------------
(***************************************************************************)
(* RecipeApplication.                                                      *)
(***************************************************************************)
Answer == Application!Answers(Names)
Page   == Application!PageShape

\* The drafts and the pages are of these shapes.
InShape == Application!ApplicationAssumption(Names)

LEMMA Foremost ==
  ASSUME NEW S, S \subseteq Nat, S # {}
  PROVE  \E m \in S : \A k \in S : m <= k
<1> DEFINE Less == {ss \in Nat \X Nat : ss[1] < ss[2]}
<1>1. IsWellFoundedOn(Less, Nat) BY NatLessThanWellFounded, Zenon DEF OpToRel
<1> HIDE DEF Less
<1>2. PICK m \in S : \A k \in S : ~(<<k, m>> \in Less) BY <1>1, WFMin, Zenon
<1>3. ASSUME NEW k \in S PROVE m <= k
  <2>1. <<k, m>> \notin Less BY <1>2
  <2> QED BY <2>1 DEF Less
<1> QED BY <1>3

\* The first step to fail decides.
LEMMA FirstErrorIs ==
  ASSUME NEW n \in Nat, NEW s, DOMAIN s = 1..n
  PROVE  /\ Application!FirstError(s) = "ok" <=> \A i \in 1..n : s[i] = "ok"
         /\ Application!FirstError(s) # "ok" => \E i \in 1..n : Application!FirstError(s) = s[i]
<1>1. CASE \A i \in 1..n : s[i] = "ok" BY <1>1 DEF Application!FirstError
<1>2. CASE ~(\A i \in 1..n : s[i] = "ok")
  <2> DEFINE S == {i \in 1..n : s[i] # "ok"}
             First(i) == s[i] # "ok" /\ \A j \in 1..(i - 1) : s[j] = "ok"
             f == CHOOSE i \in DOMAIN s : First(i)
  <2>1. S \subseteq Nat /\ S # {} BY <1>2
  <2>2. PICK m \in S : \A k \in S : m <= k
    <3> HIDE DEF S
    <3> QED BY <2>1, Foremost
  <2>3. m \in DOMAIN s /\ First(m) BY <2>2
  <2>4. f \in DOMAIN s /\ First(f) BY <2>3, Zenon
  <2>5. Application!FirstError(s) = s[f] BY <1>2 DEF Application!FirstError
  <2> QED BY <1>2, <2>4, <2>5
<1> QED BY <1>1, <1>2

LEMMA TwoSteps ==
  ASSUME NEW a, NEW b
  PROVE  /\ Application!FirstError(<<a, b>>) = "ok" <=> (a = "ok" /\ b = "ok")
         /\ Application!FirstError(<<a, b>>) \in {"ok", a, b}
<1> DEFINE s == <<a, b>>
<1>1. DOMAIN s = 1..2 /\ s[1] = a /\ s[2] = b OBVIOUS
<1> HIDE DEF s
<1>2. /\ Application!FirstError(s) = "ok" <=> \A i \in 1..2 : s[i] = "ok"
      /\ Application!FirstError(s) # "ok" => \E i \in 1..2 : Application!FirstError(s) = s[i]
  BY <1>1, FirstErrorIs
<1>3. \A i \in 1..2 : i = 1 \/ i = 2 OBVIOUS
<1>4. /\ Application!FirstError(s) = "ok" <=> (a = "ok" /\ b = "ok")
      /\ Application!FirstError(s) \in {"ok", a, b}
  BY <1>1, <1>2, <1>3
<1> QED BY <1>4 DEF s

LEMMA ThreeSteps ==
  ASSUME NEW a, NEW b, NEW c
  PROVE  /\ Application!FirstError(<<a, b, c>>) = "ok" <=> (a = "ok" /\ b = "ok" /\ c = "ok")
         /\ Application!FirstError(<<a, b, c>>) \in {"ok", a, b, c}
<1> DEFINE s == <<a, b, c>>
<1>1. DOMAIN s = 1..3 /\ s[1] = a /\ s[2] = b /\ s[3] = c OBVIOUS
<1> HIDE DEF s
<1>2. /\ Application!FirstError(s) = "ok" <=> \A i \in 1..3 : s[i] = "ok"
      /\ Application!FirstError(s) # "ok" => \E i \in 1..3 : Application!FirstError(s) = s[i]
  BY <1>1, FirstErrorIs
<1>3. \A i \in 1..3 : i = 1 \/ i = 2 \/ i = 3 OBVIOUS
<1>4. /\ Application!FirstError(s) = "ok" <=> (a = "ok" /\ b = "ok" /\ c = "ok")
      /\ Application!FirstError(s) \in {"ok", a, b, c}
  BY <1>1, <1>2, <1>3
<1> QED BY <1>4 DEF s

\* One binding for one node.
LEMMA ScopedIs ==
  ASSUME NEW b, NEW node, NEW keyed \in BOOLEAN
  PROVE  /\ Application!scoped_record(b, node, keyed) = "ok" <=>
              (/\ Application!compute_inner_extractions(b, node) = "ok"
               /\ keyed => Application!compute_dedup_key(b) = "ok"
               /\ Application!build_record(b, node) = "ok")
         /\ Application!scoped_record(b, node, keyed) \in
              {"ok", Application!compute_inner_extractions(b, node), Application!build_record(b, node)}
                \cup (IF keyed THEN {Application!compute_dedup_key(b)} ELSE {})
<1>1. CASE keyed BY <1>1, ThreeSteps DEF Application!scoped_record
<1>2. CASE ~keyed BY <1>2, ThreeSteps DEF Application!scoped_record
<1> QED BY <1>1, <1>2

\* The records of one node, in the order of the bindings.
Records(r, node, keyed) ==
  Application!FirstError([i \in DOMAIN r.produces |-> Application!scoped_record(r.produces[i], node, keyed)])

LEMMA RecordsAre ==
  ASSUME NEW r \in Answer, NEW node, NEW keyed
  PROVE  /\ Records(r, node, keyed) = "ok" <=>
              \A i \in DOMAIN r.produces : Application!scoped_record(r.produces[i], node, keyed) = "ok"
         /\ Records(r, node, keyed) # "ok" =>
              \E i \in DOMAIN r.produces :
                Records(r, node, keyed) = Application!scoped_record(r.produces[i], node, keyed)
<1> DEFINE s == [i \in DOMAIN r.produces |-> Application!scoped_record(r.produces[i], node, keyed)]
<1>1. PICK n \in Nat : DOMAIN r.produces = 1..n BY DEF Answer, Application!Answers
<1>2. DOMAIN s = 1..n /\ \A i \in 1..n : s[i] = Application!scoped_record(r.produces[i], node, keyed) BY <1>1
<1>3. Records(r, node, keyed) = Application!FirstError(s) BY DEF Records
<1> HIDE DEF s
<1> QED BY <1>1, <1>2, <1>3, FirstErrorIs

-----------------------------------------------------------------------------
(***************************************************************************)
(* apply.                                                                  *)
(***************************************************************************)
LEMMA ScalarIs ==
  ASSUME NEW r \in Answer, NEW nodes, NEW node, node = Application!Scope(r.mode, nodes)
  PROVE  /\ Application!apply_scalar(r, nodes) = "ok" <=>
              (/\ Application!extract(r.mode, nodes) = "ok"
               /\ Application!AnyInner(r) => r.mode \in Application!Iterated
               /\ \A i \in DOMAIN r.produces :
                    /\ Application!compute_inner_extractions(r.produces[i], node) = "ok"
                    /\ Application!build_record(r.produces[i], node) = "ok")
         /\ \/ Application!apply_scalar(r, nodes) \in {"ok", "extraction"}
            \/ /\ Application!apply_scalar(r, nodes) = "not_implemented"
               /\ Application!AnyInner(r) /\ r.mode \notin Application!Iterated
            \/ \E i \in DOMAIN r.produces :
                 Application!apply_scalar(r, nodes) \in
                   {Application!compute_inner_extractions(r.produces[i], node),
                    Application!build_record(r.produces[i], node)}
<1> DEFINE s == [i \in DOMAIN r.produces |-> Application!compute_inner_extractions(r.produces[i], node)]
           t == [i \in DOMAIN r.produces |-> Application!build_record(r.produces[i], node)]
           u == IF Application!AnyInner(r) /\ r.mode \notin Application!Iterated THEN "not_implemented" ELSE "ok"
<1>1. PICK n \in Nat : DOMAIN r.produces = 1..n BY DEF Answer, Application!Answers
<1>2. /\ DOMAIN s = 1..n /\ \A i \in 1..n : s[i] = Application!compute_inner_extractions(r.produces[i], node)
      /\ DOMAIN t = 1..n /\ \A i \in 1..n : t[i] = Application!build_record(r.produces[i], node)
  BY <1>1
<1>3. CASE Application!extract(r.mode, nodes) # "ok" BY <1>3 DEF Application!apply_scalar
<1>4. CASE Application!extract(r.mode, nodes) = "ok"
  <2>1. Application!apply_scalar(r, nodes)
          = Application!FirstError(<<u, Application!FirstError(s), Application!FirstError(t)>>)
    BY <1>4 DEF Application!apply_scalar, Application!ForEach
  <2> HIDE DEF s, t
  <2>2. /\ Application!FirstError(s) = "ok" <=> \A i \in 1..n : s[i] = "ok"
        /\ Application!FirstError(s) # "ok" => \E i \in 1..n : Application!FirstError(s) = s[i]
        /\ Application!FirstError(t) = "ok" <=> \A i \in 1..n : t[i] = "ok"
        /\ Application!FirstError(t) # "ok" => \E i \in 1..n : Application!FirstError(t) = t[i]
    BY <1>2, FirstErrorIs
  <2> DEFINE x == Application!FirstError(s)  y == Application!FirstError(t)
  <2>3. /\ Application!apply_scalar(r, nodes) = "ok" <=> (u = "ok" /\ x = "ok" /\ y = "ok")
        /\ Application!apply_scalar(r, nodes) \in {"ok", u, x, y}
    <3> HIDE DEF u, x, y
    <3>1. Application!apply_scalar(r, nodes) = Application!FirstError(<<u, x, y>>) BY <2>1 DEF x, y
    <3> QED BY <3>1, ThreeSteps
  <2> HIDE DEF x, y
  <2>4. /\ x = "ok" <=> \A i \in 1..n : s[i] = "ok"
        /\ x # "ok" => \E i \in 1..n : x = s[i]
        /\ y = "ok" <=> \A i \in 1..n : t[i] = "ok"
        /\ y # "ok" => \E i \in 1..n : y = t[i]
    BY <2>2 DEF x, y
  <2> QED BY <1>1, <1>2, <1>4, <2>3, <2>4
<1> QED BY <1>3, <1>4

\* What the application makes of one node of several.
Fine(r, node) ==
  /\ Application!Extracted(node.main) = "ok"
  /\ \A i \in DOMAIN r.produces : Application!scoped_record(r.produces[i], node, TRUE) = "ok"

Item(r, node) == Application!FirstError(<<Application!Extracted(node.main), Records(r, node, TRUE)>>)

LEMMA IteratorIs ==
  ASSUME NEW r \in Answer, NEW nodes \in Page, r.mode \in Application!Iterated, r.iterator = r.mode
  PROVE  /\ Application!apply_iterator(r, nodes) = "ok" <=>
              (/\ nodes # << >> /\ ~(Len(nodes) > MaxRecords)
               /\ \A k \in DOMAIN nodes : Fine(r, nodes[k]))
         /\ \/ Application!apply_iterator(r, nodes) \in {"ok", "extraction", "over_cap"}
            \/ \E k \in DOMAIN nodes, i \in DOMAIN r.produces :
                 Application!apply_iterator(r, nodes) = Application!scoped_record(r.produces[i], nodes[k], TRUE)
<1> DEFINE s == [k \in DOMAIN nodes |-> Item(r, nodes[k])]
<1>1. CASE nodes = << >> \/ Len(nodes) > MaxRecords BY <1>1 DEF Application!apply_iterator
<1>2. CASE nodes # << >> /\ ~(Len(nodes) > MaxRecords)
  <2>1. Application!apply_iterator(r, nodes) = Application!FirstError(s)
    BY <1>2 DEF Application!apply_iterator, Application!ForEach, Item, Records
  <2>2. PICK n \in Nat : DOMAIN nodes = 1..n BY DEF Page, Application!PageShape
  <2>3. DOMAIN s = 1..n /\ \A k \in 1..n : s[k] = Item(r, nodes[k]) BY <2>2
  <2> HIDE DEF s
  <2>4. /\ Application!FirstError(s) = "ok" <=> \A k \in 1..n : s[k] = "ok"
        /\ Application!FirstError(s) # "ok" => \E k \in 1..n : Application!FirstError(s) = s[k]
    BY <2>3, FirstErrorIs
  <2>5. ASSUME NEW k \in 1..n
        PROVE  /\ s[k] = "ok" <=> Fine(r, nodes[k])
               /\ \/ s[k] \in {"ok", "extraction"}
                  \/ \E i \in DOMAIN r.produces :
                       s[k] = Application!scoped_record(r.produces[i], nodes[k], TRUE)
    <3> DEFINE node == nodes[k]  e == Application!Extracted(node.main)  f == Records(r, node, TRUE)
    <3>1. s[k] = Application!FirstError(<<e, f>>) BY <2>3 DEF Item
    <3>2. e \in {"ok", "extraction"} BY DEF Application!Extracted
    <3>3. /\ f = "ok" <=> \A i \in DOMAIN r.produces : Application!scoped_record(r.produces[i], node, TRUE) = "ok"
          /\ f # "ok" => \E i \in DOMAIN r.produces : f = Application!scoped_record(r.produces[i], node, TRUE)
      BY RecordsAre
    <3>4. (s[k] = "ok" <=> (e = "ok" /\ f = "ok")) /\ s[k] \in {"ok", e, f}
      <4> HIDE DEF e, f
      <4> QED BY <3>1, TwoSteps
    <3> HIDE DEF f
    <3>5. s[k] = "ok" <=> Fine(r, nodes[k]) BY <3>3, <3>4 DEF Fine
    <3>6. \/ s[k] \in {"ok", "extraction"}
          \/ \E i \in DOMAIN r.produces : s[k] = Application!scoped_record(r.produces[i], nodes[k], TRUE)
      BY <3>2, <3>3, <3>4
    <3> QED BY <3>5, <3>6
  <2> QED BY <1>2, <2>1, <2>2, <2>4, <2>5
<1> QED BY <1>1, <1>2

-----------------------------------------------------------------------------
(***************************************************************************)
(* The validation.                                                         *)
(***************************************************************************)
LEMMA ShapeIs ==
  ASSUME NEW r \in Answer, NEW nodes
  PROVE  Application!validate_recipe_shape_against_bytes(r, nodes) = "ok" <=>
           (/\ Application!validate_recipe_against_bytes(r, nodes) = "ok"
            /\ Application!Extracted(Application!Sampled(r, nodes).main) = "ok"
            /\ Application!AnyInner(r) => r.mode \in Application!Iterated
            /\ \A i \in DOMAIN r.produces :
                 Application!scoped_record(r.produces[i], Application!Sampled(r, nodes), FALSE) = "ok")
<1> DEFINE node == Application!Sampled(r, nodes)
           e == Application!Extracted(node.main)
           u == IF Application!AnyInner(r) /\ r.mode \notin Application!Iterated THEN "binding" ELSE "ok"
           f == Records(r, node, FALSE)
<1>1. CASE Application!validate_recipe_against_bytes(r, nodes) # "ok"
  BY <1>1 DEF Application!validate_recipe_shape_against_bytes
<1>2. CASE Application!validate_recipe_against_bytes(r, nodes) = "ok"
  <2>1. Application!validate_recipe_shape_against_bytes(r, nodes) = Application!FirstError(<<e, u, f>>)
    BY <1>2 DEF Application!validate_recipe_shape_against_bytes, Application!ForEach, Records
  <2>2. f = "ok" <=> \A i \in DOMAIN r.produces : Application!scoped_record(r.produces[i], node, FALSE) = "ok"
    BY RecordsAre
  <2>3. Application!validate_recipe_shape_against_bytes(r, nodes) = "ok" <=> (e = "ok" /\ u = "ok" /\ f = "ok")
    <3> HIDE DEF e, u, f
    <3> QED BY <2>1, ThreeSteps
  <2> HIDE DEF e, f, node
  <2>4. u = "ok" <=> (Application!AnyInner(r) => r.mode \in Application!Iterated) OBVIOUS
  <2> HIDE DEF u
  <2> QED BY <1>2, <2>2, <2>3, <2>4 DEF e, node
<1> QED BY <1>1, <1>2

\* The node of which records are made is one of the page.
LEMMA SampledIs ==
  ASSUME NEW r \in Answer, NEW nodes \in Page, r.iterator # Application!NoMode, Application!Hits(nodes) # {}
  PROVE  \E k \in DOMAIN nodes : Application!Sampled(r, nodes) = nodes[k]
<1>1. PICK n \in Nat : DOMAIN nodes = 1..n BY DEF Page, Application!PageShape
<1>2. Application!Hits(nodes) \subseteq Nat BY <1>1 DEF Application!Hits
<1>3. CASE r.mode = "json_path"
  <2> DEFINE S == {i \in DOMAIN nodes : ~nodes[i].null}
  <2>1. S \subseteq Nat BY <1>1
  <2>2. S # {}
    <3>1. PICK i \in DOMAIN nodes : nodes[i].main # "absent" BY DEF Application!Hits
    <3>2. nodes[i].null => nodes[i].main = "absent" BY DEF Page, Application!PageShape
    <3> QED BY <3>1, <3>2
  <2> HIDE DEF S
  <2>3. PICK m \in S : \A k \in S : m <= k BY <2>1, <2>2, Foremost
  <2>4. m \in 1..n /\ ~nodes[m].null /\ \A j \in 1..(m - 1) : nodes[j].null
    <3>1. m \in 1..n /\ ~nodes[m].null BY <1>1, <2>3 DEF S
    <3>2. ASSUME NEW j \in 1..(m - 1), ~nodes[j].null PROVE FALSE
      <4>1. j \in S BY <1>1, <3>1, <3>2 DEF S
      <4> QED BY <2>3, <3>1, <3>2, <4>1
    <3> QED BY <3>1, <3>2
  <2>5. m \in Application!Selected(r.mode, nodes) BY <1>1, <1>3, <2>4 DEF Application!Selected
  <2>6. (CHOOSE i \in Application!Selected(r.mode, nodes) : TRUE) \in Application!Selected(r.mode, nodes) BY <2>5, Zenon
  <2>7. Application!Selected(r.mode, nodes) \subseteq DOMAIN nodes BY DEF Application!Selected
  <2> QED BY <1>3, <2>6, <2>7 DEF Application!Sampled, Application!Scope
<1>4. CASE r.mode # "json_path"
  <2> DEFINE First(i) == \A j \in Application!Hits(nodes) : i <= j
             f == CHOOSE i \in Application!Hits(nodes) : First(i)
  <2>1. \E m \in Application!Hits(nodes) : First(m) BY <1>2, Foremost
  <2>2. f \in Application!Hits(nodes) BY <2>1, Zenon
  <2>3. Application!Sampled(r, nodes) = nodes[f] BY <1>4 DEF Application!Sampled
  <2> HIDE DEF f
  <2> QED BY <2>2, <2>3 DEF Application!Hits
<1> QED BY <1>3, <1>4

\* Without an iterator validation and application agree.
LEMMA ScalarAgrees ==
  ASSUME NEW r \in Answer, NEW nodes, r.iterator = Application!NoMode
  PROVE  Application!validate_recipe_shape_against_bytes(r, nodes) = "ok" <=> Application!apply(r, nodes) = "ok"
<1> DEFINE node == Application!Scope(r.mode, nodes)
<1>1. Application!Sampled(r, nodes) = node BY DEF Application!Sampled
<1>2. Application!validate_recipe_against_bytes(r, nodes) = Application!extract(r.mode, nodes)
  BY DEF Application!validate_recipe_against_bytes
<1>3. Application!extract(r.mode, nodes) = "ok" => Application!Extracted(node.main) = "ok" BY DEF Application!extract
<1>4. Application!apply(r, nodes) = Application!apply_scalar(r, nodes) BY DEF Application!apply
<1> HIDE DEF node
<1>5. \A i \in DOMAIN r.produces :
        Application!scoped_record(r.produces[i], node, FALSE) = "ok" <=>
          (/\ Application!compute_inner_extractions(r.produces[i], node) = "ok"
           /\ Application!build_record(r.produces[i], node) = "ok")
  BY ScopedIs
<1>6. Application!apply_scalar(r, nodes) = "ok" <=>
        (/\ Application!extract(r.mode, nodes) = "ok"
         /\ Application!AnyInner(r) => r.mode \in Application!Iterated
         /\ \A i \in DOMAIN r.produces :
              /\ Application!compute_inner_extractions(r.produces[i], node) = "ok"
              /\ Application!build_record(r.produces[i], node) = "ok")
  BY ScalarIs DEF node
<1>7. Application!validate_recipe_shape_against_bytes(r, nodes) = "ok" <=>
        (/\ Application!extract(r.mode, nodes) = "ok"
         /\ Application!Extracted(node.main) = "ok"
         /\ Application!AnyInner(r) => r.mode \in Application!Iterated
         /\ \A i \in DOMAIN r.produces : Application!scoped_record(r.produces[i], node, FALSE) = "ok")
  BY <1>1, <1>2, ShapeIs
<1> QED BY <1>3, <1>4, <1>5, <1>6, <1>7

\* With an iterator a recipe that applies is valid.
LEMMA IteratorValid ==
  ASSUME NEW r \in Answer, NEW nodes \in Page, r.iterator # Application!NoMode,
         Application!apply(r, nodes) = "ok"
  PROVE  Application!validate_recipe_shape_against_bytes(r, nodes) = "ok"
<1>1. Application!apply_iterator(r, nodes) = "ok" BY DEF Application!apply
<1>2. r.mode \in Application!Iterated /\ r.iterator = r.mode BY <1>1 DEF Application!apply_iterator
<1>3. nodes # << >> /\ \A k \in DOMAIN nodes : Fine(r, nodes[k])
  BY <1>1, <1>2, IteratorIs
<1>4. 1 \in DOMAIN nodes BY <1>3 DEF Page, Application!PageShape
<1>5. Application!Hits(nodes) # {}
  <2>1. nodes[1].main \in Application!Contents BY <1>3, <1>4 DEF Fine, Application!Extracted
  <2> QED BY <1>4, <2>1 DEF Application!Hits, Application!Contents
<1>6. Application!validate_recipe_against_bytes(r, nodes) = "ok"
  BY <1>2, <1>5 DEF Application!validate_recipe_against_bytes
<1>7. PICK k \in DOMAIN nodes : Application!Sampled(r, nodes) = nodes[k] BY <1>5, SampledIs
<1>8. \A i \in DOMAIN r.produces : Application!scoped_record(r.produces[i], nodes[k], FALSE) = "ok"
  BY <1>3, ScopedIs DEF Fine
<1> QED BY <1>2, <1>3, <1>6, <1>7, <1>8, ShapeIs DEF Fine

\* With an iterator a valid recipe applies when what is true of one node is true of all.
LEMMA IteratorApplies ==
  ASSUME NEW r \in Answer, NEW nodes \in Page, r.iterator # Application!NoMode,
         Application!validate_recipe_shape_against_bytes(r, nodes) = "ok",
         \A i, j \in DOMAIN nodes : nodes[i] = nodes[j], Len(nodes) <= MaxRecords, MaxRecords \in Nat,
         \A i \in DOMAIN r.produces : Application!compute_dedup_key(r.produces[i]) = "ok"
  PROVE  Application!apply(r, nodes) = "ok"
<1>1. /\ Application!validate_recipe_against_bytes(r, nodes) = "ok"
      /\ Application!Extracted(Application!Sampled(r, nodes).main) = "ok"
      /\ \A i \in DOMAIN r.produces :
           Application!scoped_record(r.produces[i], Application!Sampled(r, nodes), FALSE) = "ok"
  BY ShapeIs
<1>2. r.mode \in Application!Iterated /\ r.iterator = r.mode /\ Application!Hits(nodes) # {}
  BY <1>1 DEF Application!validate_recipe_against_bytes
<1>3. PICK h \in DOMAIN nodes : Application!Sampled(r, nodes) = nodes[h] BY <1>2, SampledIs
<1>4. nodes # << >> BY <1>3
<1>5. Len(nodes) \in Nat BY DEF Page, Application!PageShape
<1>6. ASSUME NEW k \in DOMAIN nodes PROVE Fine(r, nodes[k])
  <2>1. nodes[k] = nodes[h] OBVIOUS
  <2>2. \A i \in DOMAIN r.produces : Application!scoped_record(r.produces[i], nodes[h], TRUE) = "ok"
    BY <1>1, <1>3, ScopedIs
  <2> QED BY <1>1, <1>3, <2>1, <2>2 DEF Fine
<1>7. ~(Len(nodes) > MaxRecords) BY <1>5
<1>8. Application!apply_iterator(r, nodes) = "ok" BY <1>2, <1>4, <1>6, <1>7, IteratorIs
<1> QED BY <1>8 DEF Application!apply

-----------------------------------------------------------------------------
(***************************************************************************)
(* What a draft that passed the rules, and then the validation, never      *)
(* meets.                                                                  *)
(***************************************************************************)
Ruled(r) ==
  /\ r.declines = FALSE
  /\ \A i \in DOMAIN r.produces : Application!InnerRules(r, r.produces[i])
  /\ Application!IteratorRules(r)

LEMMA RulesHeld ==
  ASSUME NEW d \in Answer, NEW named, Application!build_validated_recipe(d, named) = "built"
  PROVE  Ruled(d)
BY DEF Application!build_validated_recipe, Ruled, Answer, Application!Answers

\* The errors of one record of such a recipe, on any node.
LEMMA RecordErrors ==
  ASSUME NEW r \in Answer, Ruled(r), NEW i \in DOMAIN r.produces, NEW node,
         Application!Uses(r.produces[i], {"dangling"}) = {}
  PROVE  /\ Application!compute_inner_extractions(r.produces[i], node) \in {"ok", "extraction"}
         /\ Application!build_record(r.produces[i], node) \in {"ok", "content_assembly"}
         /\ r.iterator # Application!NoMode => Application!compute_dedup_key(r.produces[i]) \in {"ok", "plan_key"}
<1>1. Application!Uses(r.produces[i], {"inner_other_mode"}) = {} BY DEF Ruled, Application!InnerRules
<1>2. Application!compute_inner_extractions(r.produces[i], node) \in {"ok", "extraction"}
  BY <1>1 DEF Application!compute_inner_extractions
<1>3. Application!build_record(r.produces[i], node) \in {"ok", "content_assembly"} BY DEF Application!build_record
<1>4. r.iterator # Application!NoMode => Application!compute_dedup_key(r.produces[i]) \in {"ok", "plan_key"}
  BY DEF Ruled, Application!IteratorRules, Application!compute_dedup_key
<1> QED BY <1>2, <1>3, <1>4

LEMMA ValidHasNone ==
  ASSUME NEW r \in Answer, NEW nodes, Application!validate_recipe_shape_against_bytes(r, nodes) = "ok"
  PROVE  /\ \A i \in DOMAIN r.produces : Application!Uses(r.produces[i], {"dangling"}) = {}
         /\ Application!AnyInner(r) => r.mode \in Application!Iterated
         /\ r.iterator # Application!NoMode => (r.mode \in Application!Iterated /\ r.iterator = r.mode)
<1>1. /\ Application!validate_recipe_against_bytes(r, nodes) = "ok"
      /\ Application!AnyInner(r) => r.mode \in Application!Iterated
      /\ \A i \in DOMAIN r.produces :
           Application!scoped_record(r.produces[i], Application!Sampled(r, nodes), FALSE) = "ok"
  BY ShapeIs
<1>2. \A i \in DOMAIN r.produces : Application!build_record(r.produces[i], Application!Sampled(r, nodes)) = "ok"
  BY <1>1, ScopedIs
<1>3. \A i \in DOMAIN r.produces : Application!Uses(r.produces[i], {"dangling"}) = {}
  BY <1>2 DEF Application!build_record
<1>4. r.iterator # Application!NoMode => (r.mode \in Application!Iterated /\ r.iterator = r.mode)
  BY <1>1 DEF Application!validate_recipe_against_bytes
<1> QED BY <1>1, <1>3, <1>4

Static == {"not_implemented", "missing_key", "binding"}

LEMMA NoStaticError ==
  ASSUME NEW r \in Answer, Ruled(r), NEW before, Application!validate_recipe_shape_against_bytes(r, before) = "ok",
         NEW nodes \in Page
  PROVE  Application!apply(r, nodes) \notin Static
<1>1. /\ \A i \in DOMAIN r.produces : Application!Uses(r.produces[i], {"dangling"}) = {}
      /\ Application!AnyInner(r) => r.mode \in Application!Iterated
      /\ r.iterator # Application!NoMode => (r.mode \in Application!Iterated /\ r.iterator = r.mode)
  BY ValidHasNone
<1>2. CASE r.iterator = Application!NoMode
  <2>1. Application!apply(r, nodes) = Application!apply_scalar(r, nodes) BY <1>2 DEF Application!apply
  <2>2. \/ Application!apply_scalar(r, nodes) \in {"ok", "extraction"}
        \/ \E i \in DOMAIN r.produces :
             Application!apply_scalar(r, nodes) \in
               {Application!compute_inner_extractions(r.produces[i], Application!Scope(r.mode, nodes)),
                Application!build_record(r.produces[i], Application!Scope(r.mode, nodes))}
    BY <1>1, ScalarIs
  <2>3. Application!apply_scalar(r, nodes) \in {"ok", "extraction", "content_assembly"}
    BY <1>1, <2>2, RecordErrors
  <2> QED BY <2>1, <2>3 DEF Static
<1>3. CASE r.iterator # Application!NoMode
  <2>1. Application!apply(r, nodes) = Application!apply_iterator(r, nodes) BY <1>3 DEF Application!apply
  <2>2. \/ Application!apply_iterator(r, nodes) \in {"ok", "extraction", "over_cap"}
        \/ \E k \in DOMAIN nodes, i \in DOMAIN r.produces :
             Application!apply_iterator(r, nodes) = Application!scoped_record(r.produces[i], nodes[k], TRUE)
    BY <1>1, <1>3, IteratorIs
  <2>3. ASSUME NEW k \in DOMAIN nodes, NEW i \in DOMAIN r.produces
        PROVE  Application!scoped_record(r.produces[i], nodes[k], TRUE)
                 \in {"ok", "extraction", "content_assembly", "plan_key"}
    <3>1. Application!scoped_record(r.produces[i], nodes[k], TRUE) \in
            {"ok", Application!compute_inner_extractions(r.produces[i], nodes[k]),
             Application!build_record(r.produces[i], nodes[k]), Application!compute_dedup_key(r.produces[i])}
      BY ScopedIs
    <3> QED BY <1>1, <1>3, <3>1, RecordErrors
  <2> QED BY <2>1, <2>2, <2>3 DEF Static
<1> QED BY <1>2, <1>3

-----------------------------------------------------------------------------
(***************************************************************************)
(* The inductive invariant: what has been found of the draft so far.       *)
(***************************************************************************)
Authored ==
  /\ status \in {"none", "built", "invalid", "declined", "saved"}
  /\ status # "none" => draft \in Drafts
  /\ status \in {"built", "saved"} => Ruled(draft)
  /\ status = "saved" =>
       seen \in Pages /\ Application!validate_recipe_shape_against_bytes(draft, seen) = "ok"
  /\ status = "declined" /\ draft.declines = FALSE =>
       seen \in Pages /\ Application!validate_recipe_shape_against_bytes(draft, seen) # "ok"
  /\ result # "none" => status = "saved" /\ result \notin Static

LEMMA AuthoredInit == ASSUME Application!Init PROVE Authored
BY DEF Application!Init, Authored

LEMMA AuthoredBuild ==
  ASSUME InShape, Authored, Application!build PROVE Authored'
<1>1. PICK d \in Drafts, named \in {{e} : e \in Expectations} \cup {Expectations} :
        /\ draft' = d /\ status' = Application!build_validated_recipe(d, named)
        /\ status = "none" /\ UNCHANGED <<seen, page, result>>
  BY DEF Application!build
<1>2. d \in Answer BY DEF InShape, Application!ApplicationAssumption, Answer
<1>3. status' \in {"declined", "built", "invalid"} BY <1>1 DEF Application!build_validated_recipe
<1>4. status' = "declined" => d.declines = TRUE
  BY <1>1, <1>2 DEF Application!build_validated_recipe, Answer, Application!Answers
<1>5. status' = "built" => Ruled(d) BY <1>1, <1>2, RulesHeld
<1>6. result' = "none" BY <1>1 DEF Authored
<1>7. Ruled(draft)' <=> Ruled(d) BY <1>1
<1> QED BY <1>1, <1>3, <1>4, <1>5, <1>6, <1>7 DEF Authored

LEMMA AuthoredValidate ==
  ASSUME InShape, Authored, Application!author_recipe PROVE Authored'
<1>1. /\ status = "built" /\ seen' \in Pages /\ UNCHANGED <<draft, page, result>>
      /\ status' = IF Application!validate_recipe_shape_against_bytes(draft, seen') = "ok" THEN "saved" ELSE "declined"
  BY DEF Application!author_recipe
<1>2. Ruled(draft) /\ draft \in Drafts /\ result = "none" BY <1>1 DEF Authored
<1>3. Ruled(draft)' BY <1>1, <1>2
<1>4. Application!validate_recipe_shape_against_bytes(draft', seen')
        = Application!validate_recipe_shape_against_bytes(draft, seen')
  BY <1>1
<1> QED BY <1>1, <1>2, <1>3, <1>4 DEF Authored

LEMMA AuthoredRun ==
  ASSUME InShape, Authored, Application!run_recipe PROVE Authored'
<1>1. /\ status = "saved" /\ page' \in {seen} \cup LaterPages /\ result' = Application!apply(draft, page')
      /\ UNCHANGED <<draft, status, seen>>
  BY DEF Application!run_recipe
<1>2. /\ draft \in Answer /\ Ruled(draft) /\ seen \in Pages
      /\ Application!validate_recipe_shape_against_bytes(draft, seen) = "ok"
  BY <1>1 DEF Authored, InShape, Application!ApplicationAssumption, Answer
<1>3. page' \in Page
  BY <1>1, <1>2 DEF InShape, Application!ApplicationAssumption, Page, Application!PageShape
<1>4. result' \notin Static BY <1>1, <1>2, <1>3, NoStaticError
<1>5. Application!validate_recipe_shape_against_bytes(draft, seen)' = Application!validate_recipe_shape_against_bytes(draft, seen)
  BY <1>1
<1>6. Ruled(draft)' BY <1>1, <1>2
<1> QED BY <1>1, <1>2, <1>4, <1>5, <1>6 DEF Authored

LEMMA AuthoredStutter == ASSUME Authored, UNCHANGED Application!vars PROVE Authored'
<1>1. UNCHANGED <<draft, status, seen, page, result>> BY DEF Application!vars
<1>2. (Ruled(draft)' <=> Ruled(draft)) /\ Static' = Static BY <1>1
<1>3. Application!validate_recipe_shape_against_bytes(draft, seen)' = Application!validate_recipe_shape_against_bytes(draft, seen)
  BY <1>1
<1> QED BY <1>1, <1>2, <1>3 DEF Authored

LEMMA AuthoredAlways == ASSUME InShape PROVE Application!Spec => []Authored
<1>1. Application!Init => Authored BY AuthoredInit
<1>2. Authored /\ [Application!Next]_Application!vars => Authored'
  BY AuthoredBuild, AuthoredValidate, AuthoredRun, AuthoredStutter DEF Application!Next
<1> QED BY <1>1, <1>2, PTL DEF Application!Spec

LEMMA ValidatorAgreed == ASSUME InShape, Authored PROVE Application!ValidatorAgrees
<1>1. ASSUME status = "declined", ~draft.declines, Application!Applies PROVE FALSE
  <2>1. draft \in Answer /\ draft.declines = FALSE
    BY <1>1 DEF Authored, InShape, Application!ApplicationAssumption, Answer, Application!Answers
  <2>2. seen \in Page /\ Application!validate_recipe_shape_against_bytes(draft, seen) # "ok"
    BY <1>1, <2>1 DEF Authored, InShape, Application!ApplicationAssumption, Page, Application!PageShape
  <2> QED BY <1>1, <2>1, <2>2, ScalarAgrees, IteratorValid DEF Application!Applies
<1>2. ASSUME status = "saved",
             draft.iterator # Application!NoMode =>
               Application!Alike /\ Len(seen) <= MaxRecords /\ ~Application!KeyFromPlan
      PROVE  Application!Applies
  <2>1. /\ draft \in Answer /\ Ruled(draft) /\ seen \in Page
        /\ Application!validate_recipe_shape_against_bytes(draft, seen) = "ok"
    BY <1>2 DEF Authored, InShape, Application!ApplicationAssumption, Page, Application!PageShape, Answer
  <2>2. CASE draft.iterator = Application!NoMode BY <2>1, <2>2, ScalarAgrees DEF Application!Applies
  <2>3. CASE draft.iterator # Application!NoMode
    <3>1. \A i \in DOMAIN draft.produces : Application!Uses(draft.produces[i], {"dangling"}) = {}
      BY <2>1, ValidHasNone
    <3>2. \A i \in DOMAIN draft.produces : Application!compute_dedup_key(draft.produces[i]) \in {"ok", "plan_key"}
      BY <2>1, <2>3, <3>1, RecordErrors
    <3>3. \A i \in DOMAIN draft.produces : Application!compute_dedup_key(draft.produces[i]) = "ok"
      BY <1>2, <2>3, <3>2 DEF Application!KeyFromPlan
    <3>4. \A i, j \in DOMAIN seen : seen[i] = seen[j] BY <1>2, <2>3 DEF Application!Alike
    <3> QED BY <1>2, <2>1, <2>3, <3>3, <3>4, IteratorApplies
      DEF Application!Applies, InShape, Application!ApplicationAssumption
  <2> QED BY <2>2, <2>3
<1> QED BY <1>1, <1>2 DEF Application!ValidatorAgrees

\* A saved recipe never meets, on any page it is ever applied to, a mode that is not
\* implemented, a key that is missing or a field of the plan that is not there, whatever
\* the LLM answers and whatever the pages are: build_validated_recipe and
\* validate_recipe_shape_against_bytes catch all of recipe_apply.rs's static errors.
THEOREM StaticErrorsAreCaught == ASSUME InShape PROVE Application!Spec => []StaticErrorsCaught
<1>1. Authored => StaticErrorsCaught BY DEF Authored, StaticErrorsCaught, Application!StaticErrorsCaught, Static
<1> QED BY <1>1, AuthoredAlways, PTL

\* On the page a recipe was authored from the validation of recipe_apply.rs and the
\* application agree where ValidatorAgrees says they do, for every draft and page, of
\* any number of bindings and nodes.
THEOREM ValidatorAlwaysAgrees == ASSUME InShape PROVE Application!Spec => []ValidatorAgrees
<1>1. InShape /\ Authored => ValidatorAgrees BY ValidatorAgreed DEF ValidatorAgrees
<1> QED BY <1>1, AuthoredAlways, PTL
=============================================================================
