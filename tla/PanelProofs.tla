----------------------------- MODULE PanelProofs -----------------------------
(***************************************************************************)
(* Theorems about what is shown and what the tables hold.  RecipeFeedback: *)
(* PanelShowsTable, for any recipes, notes and calls.  BoundedHistory:     *)
(* its types and NewestKeptTwice, for any cap and any calls and faults.    *)
(* PlanPanel: PanelTruthful, for any plans, filters, clicks and calls.     *)
(***************************************************************************)
EXTENDS ShownNotes, ShownHistory, ShownPlans,
        Integers, Sequences, FiniteSets, FiniteSetTheorems, SequenceTheorems, TLAPS

-----------------------------------------------------------------------------
(***************************************************************************)
(* RecipeFeedback.                                                         *)
(***************************************************************************)
Stored == Notes \cup {NoNote}

\* A call is of one recipe, or of all when it lists, and has no recipe before and after.
FeedbackTypes ==
  /\ table \in [Sources -> Stored] /\ shown \in [Sources -> Stored]
  /\ feedback_call = [c \in FeedbackCalls |-> feedback_call[c]]
  /\ doubt \subseteq Sources
  /\ errors \in Nat

CallTyped(l) ==
  /\ l = [pc |-> l.pc, sources |-> l.sources, note |-> l.note, previous |-> l.previous]
  /\ \/ l.pc \in {"idle", "done"} /\ l.sources = {}
     \/ /\ l.pc \in {"set", "read", "answered", "failed", "clear", "clear_failed"}
        /\ \E s \in Sources : l.sources = {s}
        /\ l.note \in Stored /\ l.previous \in Stored
     \/ l.pc = "listed" /\ l.sources = Sources /\ l.note \in [Sources -> Stored]

CallTypes == \A c \in FeedbackCalls : CallTyped(feedback_call[c])

\* FeedbackCalls for one recipe that is not in doubt did not meet.
Alone ==
  \A s \in Sources \ doubt : \A c, d \in FeedbackCalls :
    s \in feedback_call[c].sources /\ s \in feedback_call[d].sources => c = d

\* What a call that is alone on s knows of the table and the panel.
Knows(c, s) ==
  LET l == feedback_call[c]
  IN  /\ l.pc = "set" => l.note # NoNote /\ shown[s] = l.note /\ l.previous = table[s]
      /\ l.pc = "read" => l.note # NoNote /\ table[s] = l.note /\ shown[s] = l.note
      /\ l.pc = "answered" => l.note = table[s]
      /\ l.pc = "failed" => l.previous = table[s]
      /\ l.pc = "clear" => shown[s] = NoNote /\ l.previous = table[s]
      /\ l.pc = "clear_failed" => shown[s] = NoNote /\ l.previous = table[s]
      /\ l.pc = "listed" => l.note[s] = table[s] /\ shown[s] = table[s]

Known ==
  \A s \in Sources \ doubt : \A c \in FeedbackCalls : s \in feedback_call[c].sources => Knows(c, s)

FeedbackInv == FeedbackTypes /\ CallTypes /\ Alone /\ Known /\ Feedback!PanelShowsTable

\* Nothing is shown and nothing under way at first.
LEMMA FeedbackInit == ASSUME Feedback!FeedbackAssumption, Feedback!Init PROVE FeedbackInv
BY DEF Feedback!FeedbackAssumption, Feedback!Init, Feedback!Idle, FeedbackInv, FeedbackTypes, CallTypes, CallTyped,
   Alone, Known, Stored,
   Feedback!PanelShowsTable, Feedback!InFlight

\* The locals of one call change.
LEMMA BecomeTyped ==
  ASSUME FeedbackInv, NEW c \in FeedbackCalls, NEW r, Feedback!Become(c, r), CallTyped(r)
  PROVE  /\ feedback_call' = [d \in FeedbackCalls |-> feedback_call'[d]] /\ feedback_call'[c] = r
         /\ \A d \in FeedbackCalls \ {c} : feedback_call'[d] = feedback_call[d]
         /\ CallTypes'
<1>1. /\ feedback_call' = [d \in FeedbackCalls |-> feedback_call'[d]] /\ feedback_call'[c] = r
      /\ \A d \in FeedbackCalls \ {c} : feedback_call'[d] = feedback_call[d]
  BY DEF FeedbackInv, FeedbackTypes, Feedback!Become
<1>2. CallTypes'
  <2> SUFFICES ASSUME NEW d \in FeedbackCalls PROVE CallTyped(feedback_call'[d])
    BY DEF CallTypes, CallTyped
  <2> QED BY <1>1 DEF FeedbackInv, CallTypes
<1> QED BY <1>1, <1>2

\* A call that is under way for a recipe that is not in doubt has it to itself.
LEMMA HasToItself ==
  ASSUME FeedbackInv, NEW c \in FeedbackCalls, NEW s \in Sources, s \in feedback_call[c].sources, s \notin doubt
  PROVE  Knows(c, s) /\ Feedback!InFlight(s) = {c}
BY DEF FeedbackInv, Alone, Known, Feedback!InFlight

\* A call that has s to itself keeps what the others know, and need not know more itself.
LEMMA OthersKnow ==
  ASSUME FeedbackInv, NEW c \in FeedbackCalls, NEW s \in Sources,
         \A t \in Sources \ {s} : table'[t] = table[t] /\ shown'[t] = shown[t],
         \A d \in FeedbackCalls \ {c} : feedback_call'[d] = feedback_call[d],
         feedback_call[c].sources \subseteq {s}, feedback_call'[c].sources \subseteq {s}, doubt \subseteq doubt',
         s \notin doubt' =>
           /\ Feedback!InFlight(s) \subseteq {c}
           /\ IF feedback_call'[c].sources = {} THEN shown'[s] = table'[s] ELSE Knows(c, s)'
  PROVE  (Alone /\ Known /\ Feedback!PanelShowsTable)'
<1>1. \A t \in Sources \ doubt', d \in FeedbackCalls : t \in feedback_call'[d].sources => d = c \/ (t # s /\ t \in feedback_call[d].sources)
  BY DEF Feedback!InFlight
<1>2. Alone'
  <2> SUFFICES ASSUME NEW t \in Sources \ doubt', NEW d \in FeedbackCalls, NEW e \in FeedbackCalls,
                      t \in feedback_call'[d].sources, t \in feedback_call'[e].sources, d # e
               PROVE  FALSE
    BY DEF Alone
  <2>1. t # s \/ (d = c /\ e = c) BY <1>1
  <2>2. t \in feedback_call[d].sources /\ t \in feedback_call[e].sources BY <1>1, <2>1
  <2> QED BY <2>2 DEF FeedbackInv, Alone
<1>3. Known'
  <2> SUFFICES ASSUME NEW t \in Sources, t \notin doubt', NEW d \in FeedbackCalls, t \in feedback_call'[d].sources
               PROVE  Knows(d, t)'
    BY DEF Known
  <2>1. CASE d = c BY <2>1 DEF Knows
  <2>2. CASE d # c
    <3>1. t # s /\ t \in feedback_call[d].sources BY <1>1, <2>2
    <3>2. Knows(d, t) BY <3>1 DEF FeedbackInv, Known
    <3> QED BY <2>2, <3>1, <3>2 DEF Knows
  <2> QED BY <2>1, <2>2
<1>4. Feedback!PanelShowsTable'
  <2> SUFFICES ASSUME NEW t \in Sources, t \notin doubt', (Feedback!InFlight(t) = {})'
               PROVE  shown'[t] = table'[t]
    BY DEF Feedback!PanelShowsTable
  <2>1. CASE t = s
    <3>1. s \notin feedback_call'[c].sources BY <2>1 DEF Feedback!InFlight
    <3> QED BY <2>1, <3>1
  <2>2. CASE t # s
    <3>1. Feedback!InFlight(t) = {} BY <2>2 DEF Feedback!InFlight
    <3> QED BY <2>2, <3>1 DEF FeedbackInv, Feedback!PanelShowsTable
  <2> QED BY <2>1, <2>2
<1> QED BY <1>2, <1>3, <1>4

\* The upsert.
LEMMA SetKeeps ==
  ASSUME Feedback!FeedbackAssumption, FeedbackInv, NEW c \in FeedbackCalls, Feedback!set_recipe_feedback(c)
  PROVE  FeedbackInv'
<1> DEFINE l == feedback_call[c]  r == [l EXCEPT !.pc = "read"]
<1>0. CallTyped(l) BY DEF FeedbackInv, CallTypes
<1>1. PICK s \in Sources : l.sources = {s} BY <1>0 DEF CallTyped, Feedback!set_recipe_feedback
<1>2. Feedback!The(c) = s BY <1>1 DEF Feedback!The
<1>3. /\ l.pc = "set" /\ table' = [table EXCEPT ![s] = l.note]
      /\ Feedback!Become(c, r) /\ UNCHANGED <<shown, errors, doubt>>
  BY <1>2 DEF Feedback!set_recipe_feedback
<1>4. l.note \in Stored /\ (s \notin doubt => Knows(c, s) /\ Feedback!InFlight(s) = {c})
  BY <1>0, <1>1, <1>3, HasToItself DEF CallTyped
<1>5. r.pc = "read" /\ r.sources = {s} /\ r.note = l.note /\ CallTyped(r) BY <1>0, <1>1, <1>3 DEF CallTyped
<1> HIDE DEF r
<1>6. /\ feedback_call' = [d \in FeedbackCalls |-> feedback_call'[d]] /\ feedback_call'[c] = r /\ CallTypes'
      /\ \A d \in FeedbackCalls \ {c} : feedback_call'[d] = feedback_call[d]
  BY <1>3, <1>5, BecomeTyped
<1>7. FeedbackTypes' BY <1>3, <1>4, <1>6 DEF FeedbackInv, FeedbackTypes
<1>8. s \notin doubt' => Knows(c, s)'
  BY <1>3, <1>4, <1>5, <1>6 DEF FeedbackInv, FeedbackTypes, Knows
<1>9. \A t \in Sources \ {s} : table'[t] = table[t] /\ shown'[t] = shown[t] BY <1>3 DEF FeedbackInv, FeedbackTypes
<1>10. (Alone /\ Known /\ Feedback!PanelShowsTable)' BY <1>1, <1>3, <1>4, <1>5, <1>6, <1>8, <1>9, OthersKnow
<1> QED BY <1>6, <1>7, <1>10 DEF FeedbackInv

\* A call starts whose recipe s is shown as n from now on.
LEMMA StartKeeps ==
  ASSUME Feedback!FeedbackAssumption, FeedbackInv, NEW c \in FeedbackCalls, NEW s \in Sources, NEW n \in Stored, NEW r,
         \/ n # NoNote /\ r = [pc |-> "set", sources |-> {s}, note |-> n, previous |-> shown[s]]
         \/ n = NoNote /\ r = [pc |-> "clear", sources |-> {s}, note |-> n, previous |-> shown[s]],
         Feedback!Starts(c, r), shown' = [shown EXCEPT ![s] = n], UNCHANGED <<table, errors>>
  PROVE  FeedbackInv'
<1>1. /\ feedback_call[c].pc = "idle" /\ Feedback!Become(c, r)
      /\ doubt' = doubt \cup {t \in {s} : Feedback!InFlight(t) # {}}
  BY DEF Feedback!Starts
<1>2. feedback_call[c].sources = {} BY <1>1 DEF FeedbackInv, CallTypes, CallTyped
<1>3. r.sources = {s} /\ CallTyped(r) BY DEF FeedbackInv, FeedbackTypes, CallTyped
<1>4. /\ feedback_call' = [d \in FeedbackCalls |-> feedback_call'[d]] /\ feedback_call'[c] = r /\ CallTypes'
      /\ \A d \in FeedbackCalls \ {c} : feedback_call'[d] = feedback_call[d]
  BY <1>1, <1>3, BecomeTyped
<1>5. FeedbackTypes' BY <1>1, <1>4 DEF FeedbackInv, FeedbackTypes
<1>6. s \notin doubt' => Feedback!InFlight(s) = {} /\ shown[s] = table[s]
  BY <1>1 DEF FeedbackInv, Feedback!PanelShowsTable
<1>7. s \notin doubt' => Knows(c, s)'
  BY <1>4, <1>6 DEF FeedbackInv, FeedbackTypes, Knows
<1>8. \A t \in Sources \ {s} : table'[t] = table[t] /\ shown'[t] = shown[t] BY DEF FeedbackInv, FeedbackTypes
<1>9. (Alone /\ Known /\ Feedback!PanelShowsTable)' BY <1>1, <1>2, <1>3, <1>4, <1>6, <1>7, <1>8, OthersKnow
<1> QED BY <1>4, <1>5, <1>9 DEF FeedbackInv

LEMMA FlagKeeps ==
  ASSUME Feedback!FeedbackAssumption, FeedbackInv, NEW c \in FeedbackCalls, Feedback!flagRecipe(c) PROVE FeedbackInv'
<1>1. PICK s \in Sources, n \in Notes :
        /\ Feedback!Starts(c, [pc |-> "set", sources |-> {s}, note |-> n, previous |-> shown[s]])
        /\ shown' = [shown EXCEPT ![s] = n]
        /\ UNCHANGED <<table, errors>>
  BY DEF Feedback!flagRecipe
<1>2. n \in Stored /\ n # NoNote BY DEF Stored, Feedback!FeedbackAssumption
<1> QED BY <1>1, <1>2, StartKeeps

LEMMA ClearStartKeeps ==
  ASSUME Feedback!FeedbackAssumption, FeedbackInv, NEW c \in FeedbackCalls, Feedback!clearRecipeFeedback(c) PROVE FeedbackInv'
<1>1. PICK s \in Sources :
        /\ Feedback!Starts(c, [pc |-> "clear", sources |-> {s}, note |-> NoNote, previous |-> shown[s]])
        /\ shown' = [shown EXCEPT ![s] = NoNote]
        /\ UNCHANGED <<table, errors>>
  BY DEF Feedback!clearRecipeFeedback
<1>2. NoNote \in Stored BY DEF Stored
<1> QED BY <1>1, <1>2, StartKeeps

\* The read after the upsert.
LEMMA ReadKeeps ==
  ASSUME Feedback!FeedbackAssumption, FeedbackInv, NEW c \in FeedbackCalls, Feedback!recipe_feedback_for_source(c)
  PROVE  FeedbackInv'
<1> DEFINE l == feedback_call[c]
<1>0. CallTyped(l) BY DEF FeedbackInv, CallTypes
<1>1. PICK s \in Sources : l.sources = {s} BY <1>0 DEF CallTyped, Feedback!recipe_feedback_for_source
<1>2. Feedback!The(c) = s BY <1>1 DEF Feedback!The
<1> DEFINE r == [l EXCEPT !.pc = IF table[s] = NoNote THEN "failed" ELSE "answered", !.note = table[s]]
<1>3. l.pc = "read" /\ Feedback!Become(c, r) /\ UNCHANGED <<table, shown, errors, doubt>>
  BY <1>2 DEF Feedback!recipe_feedback_for_source
<1>4. /\ l.note \in Stored /\ table[s] \in Stored
      /\ s \notin doubt => Knows(c, s) /\ Feedback!InFlight(s) = {c}
  BY <1>0, <1>1, <1>3, HasToItself DEF CallTyped, FeedbackInv, FeedbackTypes
<1>5. /\ r.pc = IF table[s] = NoNote THEN "failed" ELSE "answered"
      /\ r.sources = {s} /\ r.note = table[s] /\ CallTyped(r)
  <2> DEFINE k == IF table[s] = NoNote THEN "failed" ELSE "answered"
             m == [l EXCEPT !.pc = k]
  <2>0. k \in {"failed", "answered"} OBVIOUS
  <2> HIDE DEF k
  <2>1. r = [pc |-> k, sources |-> {s}, note |-> table[s], previous |-> l.previous]
    <3>1. m = [pc |-> k, sources |-> {s}, note |-> l.note, previous |-> l.previous]
      BY <1>0, <1>1 DEF CallTyped
    <3>2. r = [m EXCEPT !.note = table[s]] BY DEF k
    <3> HIDE DEF m, r
    <3> QED BY <3>1, <3>2
  <2>2. l.previous \in Stored BY <1>0, <1>3 DEF CallTyped
  <2>3. r.pc = k /\ r.sources = {s} /\ r.note = table[s] BY <2>1
  <2> HIDE DEF r
  <2>4. CallTyped(r) BY <1>4, <2>0, <2>1, <2>2 DEF CallTyped
  <2> QED BY <2>3, <2>4 DEF k
<1> HIDE DEF r
<1>6. /\ feedback_call' = [d \in FeedbackCalls |-> feedback_call'[d]] /\ feedback_call'[c] = r /\ CallTypes'
      /\ \A d \in FeedbackCalls \ {c} : feedback_call'[d] = feedback_call[d]
  BY <1>3, <1>5, BecomeTyped
<1>7. FeedbackTypes' BY <1>3, <1>6 DEF FeedbackInv, FeedbackTypes
<1>8. s \notin doubt' => Knows(c, s)' BY <1>3, <1>4, <1>5, <1>6 DEF Knows
<1>9. \A t \in Sources \ {s} : table'[t] = table[t] /\ shown'[t] = shown[t] BY <1>3
<1>10. (Alone /\ Known /\ Feedback!PanelShowsTable)' BY <1>1, <1>3, <1>4, <1>5, <1>6, <1>8, <1>9, OthersKnow
<1> QED BY <1>6, <1>7, <1>10 DEF FeedbackInv

LEMMA DoneTyped == CallTyped(Feedback!Done) /\ Feedback!Done.sources = {}
BY DEF Feedback!Done, Feedback!Idle, CallTyped

\* The delete.
LEMMA ClearKeeps ==
  ASSUME Feedback!FeedbackAssumption, FeedbackInv, NEW c \in FeedbackCalls, Feedback!clear_recipe_feedback(c)
  PROVE  FeedbackInv'
<1> DEFINE l == feedback_call[c]
<1>0. CallTyped(l) BY DEF FeedbackInv, CallTypes
<1>1. PICK s \in Sources : l.sources = {s} BY <1>0 DEF CallTyped, Feedback!clear_recipe_feedback
<1>2. Feedback!The(c) = s BY <1>1 DEF Feedback!The
<1>3. /\ l.pc = "clear" /\ table' = [table EXCEPT ![s] = NoNote]
      /\ Feedback!Become(c, Feedback!Done) /\ UNCHANGED <<shown, errors, doubt>>
  BY <1>2 DEF Feedback!clear_recipe_feedback
<1>4. s \notin doubt => Knows(c, s) /\ Feedback!InFlight(s) = {c} BY <1>1, HasToItself
<1>6. /\ feedback_call' = [d \in FeedbackCalls |-> feedback_call'[d]] /\ feedback_call'[c] = Feedback!Done /\ CallTypes'
      /\ \A d \in FeedbackCalls \ {c} : feedback_call'[d] = feedback_call[d]
  BY <1>3, DoneTyped, BecomeTyped
<1>7. FeedbackTypes' BY <1>3, <1>6 DEF FeedbackInv, FeedbackTypes, Stored
<1>8. s \notin doubt' => shown'[s] = table'[s] BY <1>3, <1>4 DEF Knows, FeedbackInv, FeedbackTypes
<1>9. \A t \in Sources \ {s} : table'[t] = table[t] /\ shown'[t] = shown[t] BY <1>3 DEF FeedbackInv, FeedbackTypes
<1>10. (Alone /\ Known /\ Feedback!PanelShowsTable)' BY <1>1, <1>3, <1>4, <1>6, <1>8, <1>9, DoneTyped, OthersKnow
<1> QED BY <1>6, <1>7, <1>10 DEF FeedbackInv

\* The answer, or that there was an error.
LEMMA AnsweredKeeps ==
  ASSUME Feedback!FeedbackAssumption, FeedbackInv, NEW c \in FeedbackCalls, Feedback!answered(c)
  PROVE  FeedbackInv'
<1> DEFINE l == feedback_call[c]
<1>0. CallTyped(l) BY DEF FeedbackInv, CallTypes
<1>1. PICK s \in Sources : l.sources = {s} BY <1>0 DEF CallTyped, Feedback!answered
<1>2. Feedback!The(c) = s BY <1>1 DEF Feedback!The
<1> DEFINE n == IF l.pc = "answered" THEN l.note
                ELSE IF l.pc = "clear_failed" /\ l.previous = NoNote THEN shown[s] ELSE l.previous
<1>3. /\ l.pc \in {"answered", "failed", "clear_failed"} /\ shown' = [shown EXCEPT ![s] = n]
      /\ Feedback!Become(c, Feedback!Done) /\ UNCHANGED <<table, errors, doubt>>
  BY <1>2 DEF Feedback!answered
<1>4. s \notin doubt => Knows(c, s) /\ Feedback!InFlight(s) = {c} BY <1>1, HasToItself
<1>5. n \in Stored BY <1>0, <1>3 DEF CallTyped, FeedbackInv, FeedbackTypes
<1>6. /\ feedback_call' = [d \in FeedbackCalls |-> feedback_call'[d]] /\ feedback_call'[c] = Feedback!Done /\ CallTypes'
      /\ \A d \in FeedbackCalls \ {c} : feedback_call'[d] = feedback_call[d]
  BY <1>3, DoneTyped, BecomeTyped
<1>7. FeedbackTypes' BY <1>3, <1>5, <1>6 DEF FeedbackInv, FeedbackTypes
<1>8. s \notin doubt' => shown'[s] = table'[s] BY <1>3, <1>4 DEF Knows, FeedbackInv, FeedbackTypes
<1>9. \A t \in Sources \ {s} : table'[t] = table[t] /\ shown'[t] = shown[t] BY <1>3 DEF FeedbackInv, FeedbackTypes
<1>10. (Alone /\ Known /\ Feedback!PanelShowsTable)' BY <1>1, <1>3, <1>4, <1>6, <1>8, <1>9, DoneTyped, OthersKnow
<1> QED BY <1>6, <1>7, <1>10 DEF FeedbackInv

\* An error of the store; after the write it puts the recipe in doubt.
LEMMA ErrorKeeps ==
  ASSUME Feedback!FeedbackAssumption, FeedbackInv, NEW c \in FeedbackCalls, Feedback!StoreError(c)
  PROVE  FeedbackInv'
<1> DEFINE l == feedback_call[c]  r == [l EXCEPT !.pc = IF @ = "clear" THEN "clear_failed" ELSE "failed"]
<1>0. CallTyped(l) BY DEF FeedbackInv, CallTypes
<1>1. PICK s \in Sources : l.sources = {s} BY <1>0 DEF CallTyped, Feedback!StoreError
<1>3. /\ l.pc \in {"set", "read", "clear"} /\ errors' = errors + 1
      /\ Feedback!Become(c, r) /\ UNCHANGED <<table, shown>>
      /\ doubt' = IF l.pc = "read" THEN doubt \cup {s} ELSE doubt
  BY <1>1 DEF Feedback!StoreError
<1>4. s \notin doubt => Knows(c, s) /\ Feedback!InFlight(s) = {c} BY <1>1, HasToItself
<1>5. /\ r.pc = IF l.pc = "clear" THEN "clear_failed" ELSE "failed"
      /\ r.sources = {s} /\ r.previous = l.previous /\ CallTyped(r)
  BY <1>0, <1>1, <1>3 DEF CallTyped
<1> HIDE DEF r
<1>6. /\ feedback_call' = [d \in FeedbackCalls |-> feedback_call'[d]] /\ feedback_call'[c] = r /\ CallTypes'
      /\ \A d \in FeedbackCalls \ {c} : feedback_call'[d] = feedback_call[d]
  BY <1>3, <1>5, BecomeTyped
<1>7. FeedbackTypes' BY <1>3, <1>6 DEF FeedbackInv, FeedbackTypes
<1>8. s \notin doubt' => Knows(c, s)' BY <1>3, <1>4, <1>5, <1>6 DEF Knows
<1>9. \A t \in Sources \ {s} : table'[t] = table[t] /\ shown'[t] = shown[t] BY <1>3
<1>10. (Alone /\ Known /\ Feedback!PanelShowsTable)' BY <1>1, <1>3, <1>4, <1>5, <1>6, <1>8, <1>9, OthersKnow
<1> QED BY <1>6, <1>7, <1>10 DEF FeedbackInv

LEMMA ListedLocals ==
  ASSUME NEW t
  PROVE  [Feedback!Idle EXCEPT !.pc = "listed", !.sources = Sources, !.note = t]
           = [pc |-> "listed", sources |-> Sources, note |-> t, previous |-> NoNote]
<1> DEFINE k == [Feedback!Idle EXCEPT !.pc = "listed"]  m == [k EXCEPT !.sources = Sources]
<1>1. k = [pc |-> "listed", sources |-> {}, note |-> NoNote, previous |-> NoNote] BY DEF Feedback!Idle
<1>2. [Feedback!Idle EXCEPT !.pc = "listed", !.sources = Sources, !.note = t] = [m EXCEPT !.note = t] OBVIOUS
<1> HIDE DEF k
<1>3. m = [pc |-> "listed", sources |-> Sources, note |-> NoNote, previous |-> NoNote] BY <1>1
<1> HIDE DEF m
<1>4. [m EXCEPT !.note = t] = [pc |-> "listed", sources |-> Sources, note |-> t, previous |-> NoNote] BY <1>3
<1> QED BY <1>2, <1>4, Zenon

\* The whole list is read: it is a call for every recipe.
LEMMA ListKeeps ==
  ASSUME Feedback!FeedbackAssumption, FeedbackInv, NEW c \in FeedbackCalls, Feedback!list_recipe_feedback_for_plan(c)
  PROVE  FeedbackInv'
<1> DEFINE r == [Feedback!Idle EXCEPT !.pc = "listed", !.sources = Sources, !.note = table]
<1>1. /\ feedback_call[c].pc = "idle" /\ Feedback!Become(c, r) /\ UNCHANGED <<table, shown, errors>>
      /\ doubt' = doubt \cup {s \in r.sources : Feedback!InFlight(s) # {}}
  BY DEF Feedback!list_recipe_feedback_for_plan, Feedback!Starts
<1>2. r.pc = "listed" /\ r.sources = Sources /\ r.note = table /\ CallTyped(r)
  <2>1. r = [pc |-> "listed", sources |-> Sources, note |-> table, previous |-> NoNote] BY ListedLocals
  <2> HIDE DEF r
  <2> QED BY <2>1 DEF CallTyped, FeedbackInv, FeedbackTypes
<1> HIDE DEF r
<1>3. /\ feedback_call' = [d \in FeedbackCalls |-> feedback_call'[d]] /\ feedback_call'[c] = r /\ CallTypes'
      /\ \A d \in FeedbackCalls \ {c} : feedback_call'[d] = feedback_call[d]
  BY <1>1, <1>2, BecomeTyped
<1>4. FeedbackTypes' BY <1>1, <1>2, <1>3 DEF FeedbackInv, FeedbackTypes
<1>5. \A s \in Sources \ doubt' : shown[s] = table[s] /\ \A d \in FeedbackCalls : s \in feedback_call'[d].sources => d = c
  BY <1>1, <1>2, <1>3 DEF FeedbackInv, Feedback!PanelShowsTable, Feedback!InFlight
<1>6. Alone' BY <1>5 DEF Alone
<1>7. Known' BY <1>1, <1>2, <1>3, <1>5 DEF Known, Knows
<1>8. Feedback!PanelShowsTable' BY <1>1, <1>5 DEF Feedback!PanelShowsTable
<1> QED BY <1>3, <1>4, <1>6, <1>7, <1>8 DEF FeedbackInv

\* The list is put in place of the map: what no other call is under way for is out of doubt,
\* if the table has not changed since.
LEMMA RefreshKeeps ==
  ASSUME Feedback!FeedbackAssumption, FeedbackInv, NEW c \in FeedbackCalls, Feedback!refreshRecipeFeedback(c)
  PROVE  FeedbackInv'
<1> DEFINE l == feedback_call[c]
<1>0. CallTyped(l) BY DEF FeedbackInv, CallTypes
<1>1. /\ l.pc = "listed" /\ shown' = l.note /\ Feedback!Become(c, Feedback!Done)
      /\ doubt' = {s \in Sources : Feedback!InFlight(s) # {c}} \cup {s \in doubt : table[s] # l.note[s]}
      /\ UNCHANGED <<table, errors>>
  BY DEF Feedback!refreshRecipeFeedback
<1>2. l.sources = Sources /\ l.note \in [Sources -> Stored] BY <1>0, <1>1 DEF CallTyped
<1>3. /\ feedback_call' = [d \in FeedbackCalls |-> feedback_call'[d]] /\ feedback_call'[c] = Feedback!Done /\ CallTypes'
      /\ \A d \in FeedbackCalls \ {c} : feedback_call'[d] = feedback_call[d]
  BY <1>1, DoneTyped, BecomeTyped
<1>4. FeedbackTypes' BY <1>1, <1>2, <1>3 DEF FeedbackInv, FeedbackTypes
<1>5. \A s \in Sources \ doubt', d \in FeedbackCalls : s \notin feedback_call'[d].sources
  BY <1>1, <1>3, DoneTyped DEF Feedback!InFlight
<1>6. \A s \in Sources \ doubt' : shown'[s] = table'[s]
  <2> SUFFICES ASSUME NEW s \in Sources \ doubt' PROVE l.note[s] = table[s]
    BY <1>1
  <2>1. CASE s \in doubt BY <1>1, <2>1
  <2>2. CASE s \notin doubt
    <3>1. Knows(c, s) BY <1>2, <2>2 DEF FeedbackInv, Known
    <3> QED BY <1>1, <3>1 DEF Knows
  <2> QED BY <2>1, <2>2
<1>7. (Alone /\ Known)' BY <1>5 DEF Alone, Known
<1>8. Feedback!PanelShowsTable' BY <1>6 DEF Feedback!PanelShowsTable
<1> QED BY <1>3, <1>4, <1>7, <1>8 DEF FeedbackInv

\* A step of any call.
LEMMA FeedbackNext == ASSUME Feedback!FeedbackAssumption, FeedbackInv, [Feedback!Next]_Feedback!vars PROVE FeedbackInv'
<1>1. CASE UNCHANGED Feedback!vars
  <2>1. UNCHANGED <<table, shown, feedback_call, errors, doubt>> BY <1>1 DEF Feedback!vars
  <2>2. (FeedbackTypes /\ CallTypes)' BY <2>1 DEF FeedbackInv, FeedbackTypes, CallTypes, CallTyped
  <2>3. (Alone /\ Known)' BY <2>1 DEF FeedbackInv, Alone, Known, Knows
  <2>4. Feedback!PanelShowsTable' BY <2>1 DEF FeedbackInv, Feedback!PanelShowsTable, Feedback!InFlight
  <2> QED BY <2>2, <2>3, <2>4 DEF FeedbackInv
<1>2. CASE Feedback!Next
  <2>1. PICK c \in FeedbackCalls : Feedback!Step(c) BY <1>2 DEF Feedback!Next
  <2> QED BY <2>1, FlagKeeps, ClearStartKeeps, SetKeeps, ReadKeeps, ClearKeeps, AnsweredKeeps, ErrorKeeps,
             ListKeeps, RefreshKeeps DEF Feedback!Step
<1> QED BY <1>1, <1>2

\* plans.svelte.ts: a note is shown before it is stored.  For any recipes, notes and number
\* of calls: when none is under way for a recipe the panel shows what the table holds,
\* unless calls for it met each other or the read after the write failed.
THEOREM NotesAreShown == ASSUME Feedback!FeedbackAssumption PROVE Feedback!Spec => []PanelShowsTable
<1>1. Feedback!Init => FeedbackInv BY FeedbackInit
<1>2. FeedbackInv /\ [Feedback!Next]_Feedback!vars => FeedbackInv' BY FeedbackNext
<1>3. FeedbackInv => PanelShowsTable BY DEF FeedbackInv, PanelShowsTable
<1> QED BY <1>1, <1>2, <1>3, PTL DEF Feedback!Spec

-----------------------------------------------------------------------------
(***************************************************************************)
(* BoundedHistory: the inductive invariant.                                *)
(***************************************************************************)
Entry == [id : 1..entries, at : 0..clock]

Newer(rs, at) == {r \in rs : r.at > at}

\* Entries that were recorded one after the other.
Ordered(s) ==
  /\ Len(s) <= Cap
  /\ \A i, j \in 1..Len(s) : i < j => s[i].id > s[j].id /\ s[i].at >= s[j].at

\* They are the newest of the rows.
Newest(rs, s) == \A i \in 1..Len(s) : s[i] \in rs /\ Cardinality(Newer(rs, s[i].at)) < i

InRing(r, s) == \A i \in 1..Len(s) : i <= Len(r) /\ r[i].at = s[i].at

Busy(c) == history_call[c].pc # "idle"

InTurn ==
  \A c \in HistoryCalls : Busy(c) =>
    /\ history_call[c].entry.id >= 1
    /\ history_call[c].in_turn =>
         /\ \A d \in HistoryCalls \ {c} : ~Busy(d)
         /\ history_call[c].entry.at = clock
         /\ \A i \in 1..Len(recent) : recent[i].id < history_call[c].entry.id

\* One of several calls has put its entry among the newest rows.
Overlapped ==
  \E c \in HistoryCalls : /\ history_call[c].pc = "push" /\ ~history_call[c].in_turn
                   /\ history_call[c].entry \in History!Pruned(disk)

\* A call that has the history to itself has put its entry there.
Inserted(c) == history_call[c].pc = "push" /\ history_call[c].in_turn

Pushed(c) == History!First(<<history_call[c].entry>> \o recent)

DiskInv ==
  ~Overlapped =>
    /\ \A c \in HistoryCalls : Inserted(c) => Newest(disk, Pushed(c))
    /\ (\A c \in HistoryCalls : ~Inserted(c)) => Newest(disk, recent)

RingInv == (\A c \in HistoryCalls : Busy(c) => history_call[c].in_turn) => InRing(ring, recent)

HistoryInv ==
  /\ History!TypeOK /\ IsFiniteSet(disk)
  /\ Ordered(recent) /\ InTurn /\ DiskInv /\ RingInv

-----------------------------------------------------------------------------
\* The head of a list that an entry is pushed on.
LEMMA FirstOf ==
  ASSUME Cap \in Nat \ {0}, NEW S, NEW e \in S, NEW s \in Seq(S), NEW t, t = History!First(<<e>> \o s)
  PROVE  /\ t \in Seq(S) /\ Len(t) = (IF Len(s) + 1 <= Cap THEN Len(s) + 1 ELSE Cap)
         /\ t[1] = e /\ \A i \in 2..Len(t) : t[i] = s[i - 1]
<1> DEFINE u == <<e>> \o s
<1>1. u \in Seq(S) /\ Len(u) = Len(s) + 1 /\ u[1] = e /\ \A i \in 2..Len(u) : u[i] = s[i - 1] OBVIOUS
<1> HIDE DEF u
<1>2. CASE Len(u) <= Cap
  <2>1. t = u BY <1>2 DEF History!First, u
  <2> QED BY <1>1, <1>2, <2>1
<1>3. CASE ~(Len(u) <= Cap)
  <2>1. t = SubSeq(u, 1, Cap) BY <1>3 DEF History!First, u
  <2>2. Len(u) \in Nat BY <1>1
  <2>3. 1 <= Cap /\ Cap < Len(u) /\ \A i \in 1..Cap : u[i] \in S BY <1>1, <1>3, <2>2
  <2>4. Len(t) = Cap /\ t \in Seq(S) /\ \A i \in 1..Cap : t[i] = u[i]
    <3>1. /\ t \in Seq(S) /\ Len(t) = IF 1 <= Cap THEN Cap - 1 + 1 ELSE 0
          /\ \A i \in 1..(Cap - 1 + 1) : t[i] = u[1 + i - 1]
      BY <2>1, <2>3, SubSeqProperties
    <3>2. Cap - 1 + 1 = Cap /\ \A i \in 1..Cap : 1 + i - 1 = i OBVIOUS
    <3> QED BY <2>3, <3>1, <3>2
  <2>6. Len(s) + 1 = Len(u) /\ ~(Len(s) + 1 <= Cap) BY <1>1, <1>3
  <2>7. t[1] = e BY <1>1, <2>3, <2>4
  <2>8. ASSUME NEW i \in 2..Len(t) PROVE t[i] = s[i - 1]
    <3>1. i \in 1..Cap /\ i \in 2..Len(u) BY <2>2, <2>3, <2>4
    <3> QED BY <1>1, <2>4, <3>1
  <2> QED BY <2>4, <2>6, <2>7, <2>8
<1> QED BY <1>2, <1>3

\* Entries and instants there were stay ones.
LEMMA SeqGrows == ASSUME NEW S, NEW T, S \subseteq T, NEW s \in Seq(S) PROVE s \in Seq(T)
OBVIOUS

LEMMA NewerCounts ==
  ASSUME NEW rs, IsFiniteSet(rs), NEW at
  PROVE  IsFiniteSet(Newer(rs, at)) /\ Cardinality(Newer(rs, at)) \in Nat
<1>1. Newer(rs, at) \subseteq rs BY DEF Newer
<1> QED BY <1>1, FS_Subset, FS_CardinalityType

LEMMA NewerGrows ==
  ASSUME NEW rs, NEW more, IsFiniteSet(more), NEW at, NEW bar, Newer(rs, at) \subseteq Newer(more, bar)
  PROVE  Cardinality(Newer(rs, at)) <= Cardinality(Newer(more, bar))
BY NewerCounts, FS_Subset

LEMMA NewerAdded ==
  ASSUME NEW rs, IsFiniteSet(rs), NEW at, NEW e
  PROVE  Cardinality(Newer(rs \cup {e}, at)) <= Cardinality(Newer(rs, at)) + 1
<1>1. IsFiniteSet(Newer(rs, at)) /\ Cardinality(Newer(rs, at)) \in Nat BY NewerCounts
<1>2. /\ IsFiniteSet(Newer(rs, at) \cup {e})
      /\ Cardinality(Newer(rs, at) \cup {e}) \in {Cardinality(Newer(rs, at)), Cardinality(Newer(rs, at)) + 1}
  BY <1>1, FS_AddElement
<1>3. Newer(rs \cup {e}, at) \subseteq Newer(rs, at) \cup {e} BY DEF Newer
<1>4. /\ Cardinality(Newer(rs \cup {e}, at)) <= Cardinality(Newer(rs, at) \cup {e})
      /\ Cardinality(Newer(rs \cup {e}, at)) \in Nat
  BY <1>2, <1>3, FS_Subset, FS_CardinalityType
<1> QED BY <1>1, <1>2, <1>4

LEMMA SameCount == ASSUME NEW S PROVE History!Cardinality(S) = Cardinality(S)
BY Zenon DEF History!Cardinality, Cardinality

\* The rows that stay are those with fewer than Cap newer ones.
LEMMA PrunedRow ==
  ASSUME NEW rs, NEW r \in rs
  PROVE  r \in History!Pruned(rs) <=> Cardinality(Newer(rs, r.at)) < Cap
<1> DEFINE above == {s \in rs : s.at > r.at}
<1>1. above = Newer(rs, r.at) BY DEF Newer
<1>2. r \in History!Pruned(rs) <=> History!Cardinality(above) < Cap BY Zenon DEF History!Pruned
<1> QED BY <1>1, <1>2, SameCount, Zenon

LEMMA PrunedRows ==
  ASSUME NEW rs, IsFiniteSet(rs), Cap \in Nat
  PROVE  /\ History!Pruned(rs) \subseteq rs /\ IsFiniteSet(History!Pruned(rs))
         /\ History!Pruned(History!Pruned(rs)) = History!Pruned(rs)
<1>1. History!Pruned(rs) \subseteq rs BY DEF History!Pruned
<1>2. IsFiniteSet(History!Pruned(rs)) BY <1>1, FS_Subset
<1>4. ASSUME NEW r \in History!Pruned(rs) PROVE r \in History!Pruned(History!Pruned(rs))
  <2>1. Cardinality(Newer(rs, r.at)) < Cap /\ Cardinality(Newer(rs, r.at)) \in Nat BY <1>1, PrunedRow, NewerCounts
  <2>2. Newer(History!Pruned(rs), r.at) \subseteq Newer(rs, r.at) BY <1>1 DEF Newer
  <2>3. Cardinality(Newer(History!Pruned(rs), r.at)) <= Cardinality(Newer(rs, r.at)) BY <2>2, NewerGrows
  <2>4. Cardinality(Newer(History!Pruned(rs), r.at)) \in Nat BY <1>2, NewerCounts
  <2>5. Cardinality(Newer(History!Pruned(rs), r.at)) < Cap BY <2>1, <2>3, <2>4
  <2> QED BY <2>5, PrunedRow
<1>5. History!Pruned(History!Pruned(rs)) \subseteq History!Pruned(rs) BY DEF History!Pruned
<1> QED BY <1>1, <1>2, <1>4, <1>5

\* No row that is to be kept is pruned.
LEMMA NewestStay ==
  ASSUME Cap \in Nat, NEW rs, IsFiniteSet(rs), NEW s, Len(s) \in Nat, Len(s) <= Cap, Newest(rs, s)
  PROVE  Newest(History!Pruned(rs), s)
<1> SUFFICES ASSUME NEW i \in 1..Len(s)
             PROVE  s[i] \in History!Pruned(rs) /\ Cardinality(Newer(History!Pruned(rs), s[i].at)) < i
  BY DEF Newest
<1>1. s[i] \in rs /\ Cardinality(Newer(rs, s[i].at)) < i BY DEF Newest
<1>2. IsFiniteSet(Newer(rs, s[i].at)) /\ Cardinality(Newer(rs, s[i].at)) \in Nat BY NewerCounts
<1>3. s[i] \in History!Pruned(rs) BY <1>1, <1>2, PrunedRow
<1>4. Newer(History!Pruned(rs), s[i].at) \subseteq Newer(rs, s[i].at) BY PrunedRows DEF Newer
<1>5. Cardinality(Newer(History!Pruned(rs), s[i].at)) <= Cardinality(Newer(rs, s[i].at)) BY <1>4, NewerGrows
<1>6. Cardinality(Newer(History!Pruned(rs), s[i].at)) \in Nat BY PrunedRows, NewerCounts
<1> QED BY <1>1, <1>2, <1>3, <1>5, <1>6

\* A row that is itself pruned makes no difference to the newest.
LEMMA OlderAdded ==
  ASSUME Cap \in Nat, NEW rs, IsFiniteSet(rs), NEW e, \A r \in rs \cup {e} : r.at \in Int,
         e \notin History!Pruned(rs \cup {e}), NEW s, Len(s) \in Nat, Len(s) <= Cap, Newest(rs, s)
  PROVE  Newest(rs \cup {e}, s)
<1> DEFINE grown == rs \cup {e}
<1> SUFFICES ASSUME NEW i \in 1..Len(s)
             PROVE  s[i] \in grown /\ Cardinality(Newer(grown, s[i].at)) < i
  BY DEF Newest
<1>1. s[i] \in rs /\ Cardinality(Newer(rs, s[i].at)) < i BY DEF Newest
<1>2. IsFiniteSet(grown) BY FS_AddElement
<1>3. ~(Cardinality(Newer(grown, e.at)) < Cap) BY PrunedRow
<1>4. /\ Cardinality(Newer(grown, e.at)) \in Nat /\ Cardinality(Newer(rs, s[i].at)) \in Nat
  BY <1>2, NewerCounts
<1>5. CASE e.at > s[i].at
  <2>1. Newer(grown, e.at) \subseteq Newer(rs, s[i].at)
    <3> SUFFICES ASSUME NEW r \in grown, r.at > e.at PROVE r \in rs /\ r.at > s[i].at
      BY DEF Newer
    <3>1. r.at \in Int /\ e.at \in Int /\ s[i].at \in Int BY <1>1
    <3>2. r # e BY <3>1
    <3> QED BY <1>5, <3>1, <3>2
  <2>2. Cardinality(Newer(grown, e.at)) <= Cardinality(Newer(rs, s[i].at)) BY <2>1, NewerGrows
  <2> QED BY <1>1, <1>3, <1>4, <2>2
<1>6. CASE ~(e.at > s[i].at)
  <2>1. Newer(grown, s[i].at) = Newer(rs, s[i].at) BY <1>6 DEF Newer
  <2> QED BY <1>1, <2>1
<1> QED BY <1>5, <1>6

\* Where a row that stayed no longer does, the one that was added does.
LEMMA OneStays ==
  ASSUME Cap \in Nat, NEW rs, IsFiniteSet(rs), NEW e, \A r \in rs \cup {e} : r.at \in Int,
         NEW f \in History!Pruned(rs)
  PROVE  f \in History!Pruned(rs \cup {e}) \/ e \in History!Pruned(rs \cup {e})
<1> DEFINE grown == rs \cup {e}
<1>1. f \in rs /\ Cardinality(Newer(rs, f.at)) < Cap BY PrunedRow, PrunedRows
<1>2. IsFiniteSet(grown) BY FS_AddElement
<1>4. /\ Cardinality(Newer(grown, e.at)) \in Nat /\ Cardinality(Newer(rs, f.at)) \in Nat
  BY <1>2, NewerCounts
<1>5. CASE e.at > f.at
  <2>1. Newer(grown, e.at) \subseteq Newer(rs, f.at)
    <3> SUFFICES ASSUME NEW r \in grown, r.at > e.at PROVE r \in rs /\ r.at > f.at
      BY DEF Newer
    <3>1. r.at \in Int /\ e.at \in Int /\ f.at \in Int BY <1>1
    <3>2. r # e BY <3>1
    <3> QED BY <1>5, <3>1, <3>2
  <2>2. Cardinality(Newer(grown, e.at)) <= Cardinality(Newer(rs, f.at)) BY <2>1, NewerGrows
  <2>3. Cardinality(Newer(grown, e.at)) < Cap BY <1>1, <1>4, <2>2
  <2>4. e \in grown OBVIOUS
  <2> QED BY <2>3, <2>4, PrunedRow
<1>6. CASE ~(e.at > f.at)
  <2>1. Newer(grown, f.at) = Newer(rs, f.at) BY <1>6 DEF Newer
  <2>2. f \in grown /\ Cardinality(Newer(grown, f.at)) < Cap BY <1>1, <2>1
  <2> QED BY <2>2, PrunedRow
<1> QED BY <1>5, <1>6

\* The newest entry is added to the table and to the newest.
LEMMA NewestAdded ==
  ASSUME Cap \in Nat \ {0}, NEW rs, IsFiniteSet(rs), NEW S, NEW e \in S, NEW s \in Seq(S),
         \A r \in rs \cup {e} : r.at \in Int /\ r.at <= e.at,
         Newest(rs, s), NEW t, t = History!First(<<e>> \o s)
  PROVE  Newest(rs \cup {e}, t)
<1> DEFINE grown == rs \cup {e}
<1>1. /\ Len(t) \in Nat /\ Len(s) \in Nat /\ Len(t) <= Len(s) + 1
      /\ t[1] = e /\ \A i \in 2..Len(t) : t[i] = s[i - 1]
  <2>1. /\ t \in Seq(S) /\ Len(t) = (IF Len(s) + 1 <= Cap THEN Len(s) + 1 ELSE Cap)
        /\ t[1] = e /\ \A i \in 2..Len(t) : t[i] = s[i - 1]
    BY FirstOf
  <2>2. Len(s) \in Nat OBVIOUS
  <2> QED BY <2>1, <2>2
<1> SUFFICES ASSUME NEW i \in 1..Len(t)
             PROVE  t[i] \in grown /\ Cardinality(Newer(grown, t[i].at)) < i
  BY DEF Newest
<1>2. CASE i = 1
  <2>1. Newer(grown, e.at) = {} BY DEF Newer
  <2>2. Cardinality(Newer(grown, e.at)) = 0 BY <2>1, FS_EmptySet
  <2>3. t[i] = e /\ e \in grown BY <1>1, <1>2
  <2> QED BY <1>2, <2>2, <2>3
<1>3. CASE i # 1
  <2>1. i \in 2..Len(t) /\ i - 1 \in 1..Len(s) BY <1>1, <1>3
  <2>2. t[i] = s[i - 1] BY <1>1, <2>1
  <2>3. s[i - 1] \in rs /\ Cardinality(Newer(rs, s[i - 1].at)) < i - 1 BY <2>1 DEF Newest
  <2>4. Cardinality(Newer(grown, s[i - 1].at)) <= Cardinality(Newer(rs, s[i - 1].at)) + 1 BY NewerAdded
  <2>5. IsFiniteSet(grown) BY FS_AddElement
  <2>6. Cardinality(Newer(grown, s[i - 1].at)) \in Nat /\ Cardinality(Newer(rs, s[i - 1].at)) \in Nat
    BY <2>5, NewerCounts
  <2> QED BY <2>1, <2>2, <2>3, <2>4, <2>6
<1> QED BY <1>2, <1>3

\* A later entry is recorded after the others.
LEMMA OrderedAdded ==
  ASSUME Cap \in Nat \ {0}, NEW S, NEW e \in S, NEW s \in Seq(S), \A r \in S : r.at \in Int /\ r.id \in Int,
         \A i \in 1..Len(s) : s[i].id < e.id /\ s[i].at <= e.at,
         Ordered(s), NEW t, t = History!First(<<e>> \o s)
  PROVE  Ordered(t)
<1>1. /\ Len(t) \in Nat /\ Len(s) \in Nat /\ Len(t) <= Len(s) + 1 /\ Len(t) <= Cap
      /\ t[1] = e /\ \A i \in 2..Len(t) : t[i] = s[i - 1]
  <2>1. /\ t \in Seq(S) /\ Len(t) = (IF Len(s) + 1 <= Cap THEN Len(s) + 1 ELSE Cap)
        /\ t[1] = e /\ \A i \in 2..Len(t) : t[i] = s[i - 1]
    BY FirstOf
  <2>2. Len(s) \in Nat OBVIOUS
  <2> QED BY <2>1, <2>2
<1>2. ASSUME NEW i \in 1..Len(t), NEW j \in 1..Len(t), i < j PROVE t[i].id > t[j].id /\ t[i].at >= t[j].at
  <2>0. j \in 2..Len(t) BY <1>1, <1>2
  <2>1. j - 1 \in 1..Len(s) /\ t[j] = s[j - 1] BY <1>1, <2>0
  <2>2. CASE i = 1
    <3>1. t[i] = e /\ s[j - 1] \in S BY <1>1, <2>1, <2>2
    <3> QED BY <2>1, <3>1
  <2>3. CASE i # 1
    <3>0. i \in 2..Len(t) BY <2>3
    <3>1. i - 1 \in 1..Len(s) /\ t[i] = s[i - 1] /\ i - 1 < j - 1 BY <1>1, <1>2, <3>0
    <3> QED BY <2>1, <3>1 DEF Ordered
  <2> QED BY <2>2, <2>3
<1> QED BY <1>1, <1>2 DEF Ordered

\* The ring shows what is recorded one after the other.
LEMMA RingAdded ==
  ASSUME Cap \in Nat \ {0}, NEW S, NEW e \in S, NEW r \in Seq(S), NEW s \in Seq(S), InRing(r, s)
  PROVE  InRing(History!First(<<e>> \o r), History!First(<<e>> \o s))
<1> DEFINE q == History!First(<<e>> \o r)  t == History!First(<<e>> \o s)
<1>1. /\ Len(t) = (IF Len(s) + 1 <= Cap THEN Len(s) + 1 ELSE Cap)
      /\ t[1] = e /\ \A i \in 2..Len(t) : t[i] = s[i - 1]
  BY FirstOf
<1>2. /\ Len(q) = (IF Len(r) + 1 <= Cap THEN Len(r) + 1 ELSE Cap)
      /\ q[1] = e /\ \A i \in 2..Len(q) : q[i] = r[i - 1]
  BY FirstOf
<1>3. Len(s) \in Nat /\ Len(r) \in Nat OBVIOUS
<1> HIDE DEF q, t
<1>4. ASSUME NEW i \in 1..Len(t) PROVE i <= Len(q) /\ q[i].at = t[i].at
  <2>1. CASE i = 1 BY <1>1, <1>2, <1>3, <2>1
  <2>2. CASE i # 1
    <3>1. i \in 2..Len(t) /\ i - 1 \in 1..Len(s) BY <1>1, <1>3, <2>2
    <3>2. i - 1 <= Len(r) /\ r[i - 1].at = s[i - 1].at BY <3>1 DEF InRing
    <3>3. i \in 2..Len(q) BY <1>1, <1>2, <1>3, <3>1, <3>2
    <3> QED BY <1>1, <1>2, <3>1, <3>2, <3>3
  <2> QED BY <2>1, <2>2
<1> QED BY <1>4 DEF InRing, q, t

-----------------------------------------------------------------------------
(***************************************************************************)
(* The ring filled from the table.                                         *)
(***************************************************************************)
\* So many distinct rows are not more than there are.
LEMMA DistinctFit ==
  ASSUME NEW S, IsFiniteSet(S), NEW n \in Nat, NEW f \in [1..n -> S],
         \A i, j \in 1..n : i < j => f[i] # f[j]
  PROVE  n <= Cardinality(S)
<1>1. f \in Injection(1..n, S)
  <2>1. \A i, j \in 1..n : f[i] = f[j] => i = j OBVIOUS
  <2> QED BY <2>1 DEF Injection, IsInjective
<1>2. Cardinality(1..n) <= Cardinality(S) BY <1>1, FS_Injection
<1>3. Cardinality(1..n) = n BY FS_Interval
<1> QED BY <1>2, <1>3

\* What is loaded: the newest rows, by their time.
LEMMA LoadsNewest ==
  ASSUME Cap \in Nat \ {0}, NEW rs, IsFiniteSet(rs), \A r \in rs : r.at \in Int /\ r.id \in Int,
         NEW f \in History!Loads(rs), NEW s, Len(s) \in Nat, Ordered(s), Newest(rs, s)
  PROVE  InRing(f, s)
<1> DEFINE n == IF Cardinality(rs) < Cap THEN Cardinality(rs) ELSE Cap
<1>1. /\ f \in [1..n -> rs]
      /\ \A i, j \in 1..n : i < j => f[i] # f[j] /\ f[i].at >= f[j].at
      /\ \A r \in rs : (\A i \in 1..n : f[i] # r) => \A i \in 1..n : f[i].at >= r.at
  BY SameCount DEF History!Loads
<1>2. Cardinality(rs) \in Nat /\ n \in Nat BY FS_CardinalityType
<1>3. Len(f) = n BY <1>1, <1>2
<1>4. \A i \in 1..Len(s) : s[i] \in rs BY DEF Newest
<1>5. \A i, j \in 1..Len(s) : i < j => s[i] # s[j] /\ s[i].at >= s[j].at
  <2> SUFFICES ASSUME NEW i \in 1..Len(s), NEW j \in 1..Len(s), i < j
               PROVE  s[i] # s[j] /\ s[i].at >= s[j].at
    OBVIOUS
  <2>1. s[i].id \in Int /\ s[j].id \in Int BY <1>4
  <2> QED BY <2>1 DEF Ordered
<1> HIDE DEF n
<1> SUFFICES ASSUME NEW i \in 1..Len(s) PROVE i <= n /\ f[i].at = s[i].at
  BY <1>3 DEF InRing
<1>6. i <= n
  <2> DEFINE g == [k \in 1..i |-> s[k]]
  <2>1. g \in [1..i -> rs] /\ \A k, m \in 1..i : k < m => g[k] # g[m] BY <1>4, <1>5
  <2> HIDE DEF g
  <2>2. i <= Cardinality(rs) BY <2>1, DistinctFit
  <2>3. i <= Cap BY DEF Ordered
  <2> QED BY <2>2, <2>3 DEF n
<1>7. f[i] \in rs /\ f[i].at \in Int /\ s[i].at \in Int BY <1>1, <1>4, <1>6
<1>8. ~(f[i].at > s[i].at)
  <2> SUFFICES ASSUME f[i].at > s[i].at PROVE FALSE OBVIOUS
  <2> DEFINE above == Newer(rs, s[i].at)
             g == [k \in 1..i |-> f[k]]
  <2>1. IsFiniteSet(above) /\ Cardinality(above) \in Nat BY NewerCounts
  <2>2. ASSUME NEW k \in 1..i PROVE f[k] \in above
    <3>1. f[k] \in rs /\ f[k].at >= f[i].at BY <1>1, <1>2, <1>6, <1>7
    <3>2. f[k].at \in Int BY <3>1
    <3> QED BY <1>7, <3>1, <3>2 DEF Newer
  <2>3. g \in [1..i -> above] /\ \A k, m \in 1..i : k < m => g[k] # g[m] BY <1>1, <1>2, <1>6, <2>2
  <2> HIDE DEF g
  <2>4. i <= Cardinality(above) BY <2>1, <2>3, DistinctFit
  <2> QED BY <2>1, <2>4 DEF Newest
<1>9. ~(s[i].at > f[i].at)
  <2> SUFFICES ASSUME s[i].at > f[i].at PROVE FALSE OBVIOUS
  <2>1. ASSUME NEW k \in 1..i PROVE \E j \in 1..(i - 1) : f[j] = s[k]
    <3>0. k \in 1..Len(s) /\ (k < i \/ k = i) OBVIOUS
    <3>1. s[k] \in rs /\ s[k].at >= s[i].at /\ s[k].at \in Int
      <4>1. s[k] \in rs /\ s[k].at \in Int BY <1>4, <3>0
      <4> QED BY <1>5, <1>7, <3>0, <4>1
    <3>2. \E j \in 1..n : f[j] = s[k]
      <4> SUFFICES ASSUME \A j \in 1..n : f[j] # s[k] PROVE FALSE OBVIOUS
      <4>1. f[i].at >= s[k].at BY <1>1, <1>2, <1>6, <3>1
      <4> QED BY <1>7, <3>1, <4>1
    <3>3. PICK j \in 1..n : f[j] = s[k] BY <3>2
    <3>4. ~(i < j) /\ i # j BY <1>1, <1>2, <1>6, <1>7, <3>1, <3>3
    <3> QED BY <1>2, <3>3, <3>4
  <2> DEFINE g == [k \in 1..i |-> CHOOSE j \in 1..(i - 1) : f[j] = s[k]]
  <2>2. ASSUME NEW k \in 1..i PROVE g[k] \in 1..(i - 1) /\ f[g[k]] = s[k]
    <3>1. \E j \in 1..(i - 1) : f[j] = s[k] BY <2>1
    <3>2. g[k] = CHOOSE j \in 1..(i - 1) : f[j] = s[k] OBVIOUS
    <3> HIDE DEF g
    <3> QED BY <3>1, <3>2, Zenon
  <2>3. g \in [1..i -> 1..(i - 1)] BY <2>2
  <2> HIDE DEF g
  <2>4. ASSUME NEW k \in 1..i, NEW m \in 1..i, k < m PROVE g[k] # g[m]
    <3>1. k \in 1..Len(s) /\ m \in 1..Len(s) OBVIOUS
    <3>2. s[k] # s[m] BY <1>5, <2>4, <3>1
    <3> QED BY <2>2, <3>2
  <2>5. i \in Nat \ {0} /\ i - 1 \in Nat OBVIOUS
  <2>6. \A k, j \in 1..i : k < j => g[k] # g[j] BY <2>4
  <2> DEFINE m == i - 1
  <2>7. m \in Nat /\ i = m + 1 BY <2>5
  <2>8. g \in [1..i -> 1..m] BY <2>3
  <2> HIDE DEF m
  <2>9. IsFiniteSet(1..m) BY <2>7, FS_Interval
  <2>11. Cardinality(1..m) = IF 1 > m THEN 0 ELSE m - 1 + 1 BY <2>7, FS_Interval
  <2>10. i <= Cardinality(1..m) BY <2>5, <2>6, <2>8, <2>9, DistinctFit
  <2> QED BY <2>7, <2>10, <2>11
<1> QED BY <1>6, <1>7, <1>8, <1>9

-----------------------------------------------------------------------------
(***************************************************************************)
(* The steps.                                                              *)
(***************************************************************************)
LEMMA HistoryInit == ASSUME History!HistoryAssumption, History!Init PROVE HistoryInv
<1>1. IsFiniteSet(disk) BY FS_EmptySet DEF History!Init
<1>2. History!TypeOK BY DEF History!HistoryAssumption, History!Init, History!TypeOK, History!NoCall, History!NoEntry
<1>3. Len(recent) = 0 /\ \A c \in HistoryCalls : ~Busy(c) BY DEF History!Init, History!NoCall, Busy
<1>4. Ordered(recent) /\ Newest(disk, recent) /\ InRing(ring, recent)
  BY <1>3 DEF Ordered, Newest, InRing, History!HistoryAssumption
<1>5. \A c \in HistoryCalls : ~Inserted(c) BY <1>3 DEF Busy, Inserted
<1> QED BY <1>1, <1>2, <1>3, <1>4, <1>5 DEF HistoryInv, InTurn, DiskInv, RingInv

\* What the types say of the numbers.
LEMMA HistoryTypes ==
  ASSUME History!HistoryAssumption, History!TypeOK
  PROVE  /\ Cap \in Nat \ {0} /\ MaxEntries \in Nat /\ MaxFaults \in Nat
         /\ clock \in Nat /\ entries \in Nat
         /\ disk \subseteq Entry /\ ring \in Seq(Entry) /\ recent \in Seq(Entry) /\ Len(recent) \in Nat
         /\ \A r \in Entry : r.id \in 1..entries /\ r.at \in 0..clock
         /\ \A i \in 1..Len(recent) : recent[i] \in Entry
         /\ history_call = [c \in HistoryCalls |-> history_call[c]]
         /\ \A c \in HistoryCalls :
              /\ history_call[c].pc \in {"idle", "persist", "push"}
              /\ history_call[c].in_turn \in BOOLEAN
              /\ history_call[c].entry \in [id : 0..entries, at : 0..clock]
              /\ history_call[c].entry.id >= 1 => history_call[c].entry \in Entry
<1>1. /\ Cap \in Nat \ {0} /\ MaxEntries \in Nat /\ MaxFaults \in Nat /\ clock \in Nat /\ entries \in Nat
      /\ disk \subseteq Entry /\ ring \in Seq(Entry) /\ recent \in Seq(Entry)
      /\ \A r \in Entry : r.id \in 1..entries /\ r.at \in 0..clock
      /\ history_call = [c \in HistoryCalls |-> history_call[c]]
  BY DEF History!HistoryAssumption, History!TypeOK, Entry
<1>2. Len(recent) \in Nat /\ \A i \in 1..Len(recent) : recent[i] \in Entry BY <1>1
<1>3. ASSUME NEW c \in HistoryCalls
      PROVE  /\ history_call[c].pc \in {"idle", "persist", "push"}
             /\ history_call[c].in_turn \in BOOLEAN
             /\ history_call[c].entry \in [id : 0..entries, at : 0..clock]
             /\ history_call[c].entry.id >= 1 => history_call[c].entry \in Entry
  <2>1. history_call[c] \in [pc : {"idle", "persist", "push"}, entry : [id : 0..entries, at : 0..clock],
                             in_turn : BOOLEAN]
    BY DEF History!TypeOK
  <2>2. /\ history_call[c].pc \in {"idle", "persist", "push"}
        /\ history_call[c].in_turn \in BOOLEAN
        /\ history_call[c].entry \in [id : 0..entries, at : 0..clock]
    BY <2>1
  <2>3. history_call[c].entry.id >= 1 => history_call[c].entry \in Entry BY <1>1, <2>2 DEF Entry
  <2> QED BY <2>2, <2>3
<1> QED BY <1>1, <1>2, <1>3

\* Entry is no smaller after a step.
LEMMA TypesKept ==
  ASSUME History!HistoryAssumption, clock \in Nat, entries \in Nat, clock' \in Nat, entries' \in 0..MaxEntries,
         clock <= clock', entries <= entries'
  PROVE  Entry \subseteq Entry' /\ [id : 0..entries, at : 0..clock] \subseteq [id : 0..entries', at : 0..clock']
BY DEF Entry, History!HistoryAssumption

\* An entry takes its time.
LEMMA RecordKeeps ==
  ASSUME History!HistoryAssumption, HistoryInv, NEW c \in HistoryCalls, History!record(c) PROVE HistoryInv'
<1> DEFINE lonely == \A d \in HistoryCalls : ~Busy(d)
<1>0. PICK now \in {clock, clock + 1} :
        /\ ~Busy(c) /\ entries < MaxEntries /\ entries' = entries + 1 /\ clock' = now
        /\ history_call' = [d \in HistoryCalls |->
             IF d = c THEN [pc |-> "persist", entry |-> [id |-> entries + 1, at |-> now], in_turn |-> History!Quiet]
             ELSE IF history_call[d].pc # "idle" THEN [history_call[d] EXCEPT !.in_turn = FALSE] ELSE history_call[d]]
        /\ UNCHANGED <<disk, ring, recent, history_faults>>
  BY DEF History!record, Busy
<1>1. /\ Cap \in Nat \ {0} /\ MaxEntries \in Nat /\ MaxFaults \in Nat /\ clock \in Nat /\ entries \in Nat
      /\ disk \subseteq Entry /\ ring \in Seq(Entry) /\ recent \in Seq(Entry)
      /\ \A i \in 1..Len(recent) : recent[i] \in Entry
      /\ \A r \in Entry : r.id \in 1..entries /\ r.at \in 0..clock
  BY HistoryTypes DEF HistoryInv
<1>2. clock' \in Nat /\ entries' \in 0..MaxEntries /\ clock <= clock' /\ entries' = entries + 1 BY <1>0, <1>1
<1>3. /\ Entry \subseteq Entry' /\ [id : 0..entries, at : 0..clock] \subseteq [id : 0..entries', at : 0..clock']
  BY <1>1, <1>2, TypesKept
<1>4. History!Quiet \in BOOLEAN /\ (History!Quiet <=> lonely) BY Zenon DEF History!Quiet, Busy
<1>5. /\ history_call'[c].pc = "persist" /\ history_call'[c].entry = [id |-> entries + 1, at |-> clock']
      /\ history_call'[c].in_turn = History!Quiet
      /\ history_call'[c] \in [pc : {"idle", "persist", "push"}, entry : [id : 0..entries', at : 0..clock'],
                               in_turn : BOOLEAN]
  <2>1. history_call'[c] = [pc |-> "persist", entry |-> [id |-> entries + 1, at |-> clock'], in_turn |-> History!Quiet]
    BY <1>0
  <2>2. [id |-> entries + 1, at |-> clock'] \in [id : 0..entries', at : 0..clock'] BY <1>1, <1>2
  <2> QED BY <1>4, <2>1, <2>2
<1>6. ASSUME NEW d \in HistoryCalls \ {c}
      PROVE  /\ history_call'[d].pc = history_call[d].pc /\ history_call'[d].entry = history_call[d].entry
             /\ history_call'[d].in_turn = IF Busy(d) THEN FALSE ELSE history_call[d].in_turn
             /\ history_call'[d] \in [pc : {"idle", "persist", "push"}, entry : [id : 0..entries', at : 0..clock'],
                                      in_turn : BOOLEAN]
  <2>1. history_call'[d] = IF Busy(d) THEN [history_call[d] EXCEPT !.in_turn = FALSE] ELSE history_call[d]
    BY <1>0 DEF Busy
  <2>2. history_call[d] \in [pc : {"idle", "persist", "push"}, entry : [id : 0..entries, at : 0..clock], in_turn : BOOLEAN]
    BY DEF HistoryInv, History!TypeOK
  <2> QED BY <1>3, <2>1, <2>2
<1>7. History!TypeOK'
  <2>1. disk' \subseteq Entry' /\ ring' \in Seq(Entry') /\ recent' \in Seq(Entry')
    BY <1>0, <1>1, <1>3, SeqGrows
  <2>2. history_call' \in [HistoryCalls -> [pc : {"idle", "persist", "push"}, entry : [id : 0..entries', at : 0..clock'],
                                     in_turn : BOOLEAN]]
    BY <1>0, <1>5, <1>6
  <2>3. history_faults' \in 0..MaxFaults BY <1>0 DEF HistoryInv, History!TypeOK
  <2> QED BY <1>2, <2>1, <2>2, <2>3 DEF History!TypeOK, Entry
<1>8. IsFiniteSet(disk') /\ Ordered(recent)' BY <1>0 DEF HistoryInv, Ordered
<1>9. InTurn'
  <2> SUFFICES ASSUME NEW d \in HistoryCalls, Busy(d)'
               PROVE  /\ history_call'[d].entry.id >= 1
                      /\ history_call'[d].in_turn =>
                           /\ \A e \in HistoryCalls \ {d} : ~Busy(e)'
                           /\ history_call'[d].entry.at = clock'
                           /\ \A i \in 1..Len(recent') : recent'[i].id < history_call'[d].entry.id
    BY DEF InTurn
  <2>1. CASE d = c
    <3>1. history_call'[d].entry.id = entries + 1 /\ history_call'[d].entry.at = clock' BY <1>5, <2>1
    <3>2. \A i \in 1..Len(recent') : recent'[i].id < entries + 1 BY <1>0, <1>1
    <3>3. history_call'[d].in_turn => \A e \in HistoryCalls \ {d} : ~Busy(e)' BY <1>4, <1>5, <1>6, <2>1 DEF Busy
    <3> QED BY <1>1, <3>1, <3>2, <3>3
  <2>2. CASE d # c
    <3>1. Busy(d) /\ history_call'[d].entry = history_call[d].entry /\ history_call'[d].in_turn = FALSE
      BY <1>6, <2>2 DEF Busy
    <3> QED BY <3>1 DEF HistoryInv, InTurn
  <2> QED BY <2>1, <2>2
<1>10. DiskInv'
  <2> SUFFICES ASSUME ~Overlapped' PROVE Newest(disk, recent) /\ \A d \in HistoryCalls : ~Inserted(d)'
    BY <1>0 DEF DiskInv, Newest, Newer
  <2>1. \A d \in HistoryCalls : ~Inserted(d)' BY <1>5, <1>6 DEF Inserted, Busy
  <2>2. ~Overlapped
    <3> SUFFICES ASSUME NEW d \in HistoryCalls, history_call[d].pc = "push", ~history_call[d].in_turn,
                        history_call[d].entry \in History!Pruned(disk)
                 PROVE  Overlapped'
      BY DEF Overlapped
    <3>1. d # c /\ Busy(d) BY <1>0 DEF Busy
    <3>2. history_call'[d].pc = "push" /\ ~history_call'[d].in_turn /\ history_call'[d].entry = history_call[d].entry
      BY <1>6, <3>1
    <3>3. History!Pruned(disk)' = History!Pruned(disk) BY <1>0 DEF History!Pruned
    <3> QED BY <3>2, <3>3 DEF Overlapped
  <2>3. ASSUME NEW d \in HistoryCalls, Inserted(d) PROVE FALSE
    <3>1. d # c /\ Busy(d) BY <1>0, <2>3 DEF Busy, Inserted
    <3>2. history_call'[d].pc = "push" /\ ~history_call'[d].in_turn /\ history_call'[d].entry = history_call[d].entry
      BY <1>6, <2>3, <3>1 DEF Inserted
    <3>3. Newest(disk, Pushed(d)) BY <2>2, <2>3 DEF HistoryInv, DiskInv
    <3>4. history_call[d].entry \in Entry BY <3>1, HistoryTypes DEF HistoryInv, InTurn
    <3>5. Len(Pushed(d)) = (IF Len(recent) + 1 <= Cap THEN Len(recent) + 1 ELSE Cap) /\ Pushed(d)[1] = history_call[d].entry
      BY <1>1, <3>4, FirstOf DEF Pushed
    <3>6. 1 \in 1..Len(Pushed(d)) BY <1>1, <3>5
    <3>7. history_call[d].entry \in disk /\ Cardinality(Newer(disk, history_call[d].entry.at)) < 1
      BY <3>3, <3>5, <3>6 DEF Newest
    <3>8. Cardinality(Newer(disk, history_call[d].entry.at)) \in Nat BY NewerCounts DEF HistoryInv
    <3>9. history_call[d].entry \in History!Pruned(disk) BY <1>1, <3>7, <3>8, PrunedRow
    <3>10. History!Pruned(disk)' = History!Pruned(disk) BY <1>0 DEF History!Pruned
    <3> QED BY <3>2, <3>9, <3>10 DEF Overlapped
  <2> QED BY <2>1, <2>2, <2>3 DEF HistoryInv, DiskInv
<1>11. RingInv'
  <2> SUFFICES ASSUME \A d \in HistoryCalls : Busy(d)' => history_call'[d].in_turn PROVE InRing(ring, recent)
    BY <1>0 DEF RingInv, InRing
  <2>1. \A d \in HistoryCalls : ~Busy(d) BY <1>0, <1>6 DEF Busy
  <2> QED BY <2>1 DEF HistoryInv, RingInv
<1> QED BY <1>7, <1>8, <1>9, <1>10, <1>11 DEF HistoryInv

\* What the locals of one call become.
LEMMA OneCall ==
  ASSUME History!HistoryAssumption, HistoryInv, NEW c \in HistoryCalls, NEW l,
         l \in [pc : {"idle", "persist", "push"}, entry : [id : 0..entries, at : 0..clock], in_turn : BOOLEAN],
         history_call' = [history_call EXCEPT ![c] = l]
  PROVE  /\ history_call'[c] = l /\ \A d \in HistoryCalls \ {c} : history_call'[d] = history_call[d]
         /\ history_call' \in [HistoryCalls -> [pc : {"idle", "persist", "push"}, entry : [id : 0..entries, at : 0..clock],
                                         in_turn : BOOLEAN]]
<1> DEFINE L == [pc : {"idle", "persist", "push"}, entry : [id : 0..entries, at : 0..clock], in_turn : BOOLEAN]
<1>1. history_call \in [HistoryCalls -> L] BY DEF HistoryInv, History!TypeOK
<1> HIDE DEF L
<1>2. l \in L BY DEF L
<1>3. /\ history_call'[c] = l /\ \A d \in HistoryCalls \ {c} : history_call'[d] = history_call[d]
      /\ history_call' \in [HistoryCalls -> L]
  BY <1>1, <1>2
<1> QED BY <1>3 DEF L

\* The entry is inserted and the table cut, or one of the two statements fails.
LEMMA InsertKeeps ==
  ASSUME History!HistoryAssumption, HistoryInv, NEW c \in HistoryCalls, History!insert_entry(c) PROVE HistoryInv'
<1> DEFINE l == history_call[c]
           grown == disk \cup {l.entry}
<1>1. /\ Cap \in Nat \ {0} /\ MaxEntries \in Nat /\ MaxFaults \in Nat /\ clock \in Nat /\ entries \in Nat
      /\ disk \subseteq Entry /\ ring \in Seq(Entry) /\ recent \in Seq(Entry) /\ Len(recent) \in Nat
      /\ \A i \in 1..Len(recent) : recent[i] \in Entry
      /\ \A r \in Entry : r.id \in 1..entries /\ r.at \in 0..clock
  BY HistoryTypes DEF HistoryInv
<1>2. l \in [pc : {"idle", "persist", "push"}, entry : [id : 0..entries, at : 0..clock], in_turn : BOOLEAN]
  BY DEF HistoryInv, History!TypeOK
<1>3. l.pc = "persist" /\ UNCHANGED <<clock, entries, ring, recent>> BY DEF History!insert_entry
<1>4. l.entry \in Entry BY <1>3, HistoryTypes DEF HistoryInv, InTurn, Busy
<1>5. PICK b \in BOOLEAN :
        /\ \/ b = l.in_turn /\ disk' \in {History!Pruned(grown), grown}
           \/ b = FALSE /\ disk' = disk
        /\ history_call' = [history_call EXCEPT ![c] = [pc |-> "push", entry |-> l.entry, in_turn |-> b]]
        /\ history_faults' \in {history_faults, history_faults + 1}
        /\ history_faults' # history_faults => history_faults < MaxFaults
  <2>1. l.in_turn \in BOOLEAN BY <1>2
  <2>2. [history_call EXCEPT ![c].pc = "push"]
          = [history_call EXCEPT ![c] = [pc |-> "push", entry |-> l.entry, in_turn |-> l.in_turn]]
    <3>1. [l EXCEPT !.pc = "push"] = [pc |-> "push", entry |-> l.entry, in_turn |-> l.in_turn] BY <1>2
    <3>2. [history_call EXCEPT ![c].pc = "push"] = [history_call EXCEPT ![c] = [l EXCEPT !.pc = "push"]] BY Zenon
    <3> QED BY <3>1, <3>2, Zenon
  <2>3. [history_call EXCEPT ![c].pc = "push", ![c].in_turn = FALSE]
          = [history_call EXCEPT ![c] = [pc |-> "push", entry |-> l.entry, in_turn |-> FALSE]]
    <3> DEFINE k == [pc |-> "push", entry |-> l.entry, in_turn |-> l.in_turn]
               h == [history_call EXCEPT ![c].pc = "push"]
    <3>1. h[c] = k /\ h = [history_call EXCEPT ![c] = k] BY <2>2 DEF HistoryInv, History!TypeOK
    <3>2. [k EXCEPT !.in_turn = FALSE] = [pc |-> "push", entry |-> l.entry, in_turn |-> FALSE]
      <4>1. /\ k \in [pc : {"idle", "persist", "push"}, entry : [id : 0..entries, at : 0..clock], in_turn : BOOLEAN]
            /\ k.pc = "push" /\ k.entry = l.entry
        BY <1>2
      <4> DEFINE r == [k EXCEPT !.in_turn = FALSE]
      <4> HIDE DEF k
      <4>2. /\ r \in [pc : {"idle", "persist", "push"}, entry : [id : 0..entries, at : 0..clock], in_turn : BOOLEAN]
            /\ r.pc = "push" /\ r.entry = l.entry
        BY <4>1
      <4>3. r.in_turn = FALSE BY <4>1
      <4> HIDE DEF r
      <4>4. r = [pc |-> "push", entry |-> l.entry, in_turn |-> FALSE] BY <4>2, <4>3
      <4> QED BY <4>4 DEF r
    <3>3. [history_call EXCEPT ![c].pc = "push", ![c].in_turn = FALSE] = [h EXCEPT ![c].in_turn = FALSE] OBVIOUS
    <3>4. [h EXCEPT ![c].in_turn = FALSE] = [h EXCEPT ![c] = [h[c] EXCEPT !.in_turn = FALSE]] BY Zenon
    <3> HIDE DEF h, k
    <3>5. [h EXCEPT ![c] = [h[c] EXCEPT !.in_turn = FALSE]]
            = [h EXCEPT ![c] = [pc |-> "push", entry |-> l.entry, in_turn |-> FALSE]]
      BY <3>1, <3>2, Zenon
    <3>6. \A r : [h EXCEPT ![c] = r] = [history_call EXCEPT ![c] = r] BY <3>1 DEF HistoryInv, History!TypeOK
    <3> QED BY <3>3, <3>4, <3>5, <3>6, Zenon
  <2>4. CASE disk' = History!Pruned(grown) /\ history_call' = [history_call EXCEPT ![c].pc = "push"] /\ UNCHANGED history_faults
    BY <2>1, <2>2, <2>4
  <2>5. CASE disk' = grown /\ history_call' = [history_call EXCEPT ![c].pc = "push"] /\ History!Fault
    BY <2>1, <2>2, <2>5 DEF History!Fault
  <2>6. CASE disk' = disk /\ history_call' = [history_call EXCEPT ![c].pc = "push", ![c].in_turn = FALSE] /\ History!Fault
    BY <2>3, <2>6 DEF History!Fault
  <2> QED BY <2>4, <2>5, <2>6 DEF History!insert_entry
<1> DEFINE m == [pc |-> "push", entry |-> l.entry, in_turn |-> b]
<1>6. /\ history_call'[c] = m /\ \A d \in HistoryCalls \ {c} : history_call'[d] = history_call[d]
      /\ history_call' \in [HistoryCalls -> [pc : {"idle", "persist", "push"}, entry : [id : 0..entries, at : 0..clock],
                                      in_turn : BOOLEAN]]
  <2>1. m \in [pc : {"idle", "persist", "push"}, entry : [id : 0..entries, at : 0..clock], in_turn : BOOLEAN]
    BY <1>2
  <2>2. history_call' = [history_call EXCEPT ![c] = m] BY <1>5
  <2> HIDE DEF m
  <2> QED BY <2>1, <2>2, OneCall
<1>7. /\ history_call'[c].pc = "push" /\ history_call'[c].entry = l.entry /\ history_call'[c].in_turn = b
      /\ \A d \in HistoryCalls \ {c} : history_call'[d] = history_call[d]
      /\ \A d \in HistoryCalls : Busy(d)' <=> Busy(d)
      /\ \A d \in HistoryCalls : history_call'[d].in_turn => history_call[d].in_turn
  BY <1>3, <1>5, <1>6 DEF Busy
<1>8. IsFiniteSet(grown) /\ grown \subseteq Entry BY <1>1, <1>4, FS_AddElement DEF HistoryInv
<1>9. disk' \subseteq Entry /\ IsFiniteSet(disk')
  <2>1. History!Pruned(grown) \subseteq grown /\ IsFiniteSet(History!Pruned(grown)) BY <1>1, <1>8, PrunedRows
  <2> QED BY <1>1, <1>5, <1>8, <2>1 DEF HistoryInv
<1>10. Entry' = Entry BY <1>3 DEF Entry
<1>11. History!TypeOK'
  <2>1. history_faults' \in 0..MaxFaults BY <1>1, <1>5 DEF HistoryInv, History!TypeOK
  <2> QED BY <1>3, <1>6, <1>9, <2>1 DEF HistoryInv, History!TypeOK, Entry
<1>12. Ordered(recent)' BY <1>3 DEF HistoryInv, Ordered
<1>13. InTurn'
  <2> SUFFICES ASSUME NEW d \in HistoryCalls, Busy(d)'
               PROVE  /\ history_call'[d].entry.id >= 1
                      /\ history_call'[d].in_turn =>
                           /\ \A e \in HistoryCalls \ {d} : ~Busy(e)'
                           /\ history_call'[d].entry.at = clock'
                           /\ \A i \in 1..Len(recent') : recent'[i].id < history_call'[d].entry.id
    BY DEF InTurn
  <2>1. Busy(d) /\ history_call'[d].entry = history_call[d].entry
    BY <1>6, <1>7
  <2> QED BY <1>3, <1>7, <2>1 DEF HistoryInv, InTurn
<1>14. RingInv' BY <1>3, <1>7 DEF HistoryInv, RingInv, InRing
<1>15. ASSUME NEW d \in HistoryCalls, d # c, Busy(d) PROVE ~history_call'[d].in_turn /\ ~history_call[d].in_turn
  <2>1. Busy(c) BY <1>3 DEF Busy
  <2> QED BY <1>7, <1>15, <2>1 DEF HistoryInv, InTurn
<1>16. \A r \in grown : r.at \in Int /\ r.at \in 0..clock BY <1>1, <1>8
<1>17. ~Overlapped' => ~Overlapped
  <2> SUFFICES ASSUME NEW d \in HistoryCalls, history_call[d].pc = "push", ~history_call[d].in_turn,
                      history_call[d].entry \in History!Pruned(disk)
               PROVE  Overlapped'
    BY DEF Overlapped
  <2>1. d # c /\ Busy(d) BY <1>3 DEF Busy
  <2>2. history_call'[d] = history_call[d] BY <1>7, <2>1
  <2>3. CASE disk' = disk
    <3>1. History!Pruned(disk)' = History!Pruned(disk) BY <2>3 DEF History!Pruned
    <3> QED BY <2>2, <3>1 DEF Overlapped
  <2>4. CASE disk' \in {History!Pruned(grown), grown}
    <3>1. History!Pruned(disk)' = History!Pruned(grown)
      <4>1. History!Pruned(disk') = History!Pruned(grown) BY <1>1, <1>8, <2>4, PrunedRows
      <4> QED BY <4>1 DEF History!Pruned
    <3>2. history_call[d].entry \in History!Pruned(grown) \/ l.entry \in History!Pruned(grown)
      BY <1>1, <1>16, OneStays DEF HistoryInv
    <3>3. Busy(c) BY <1>3 DEF Busy
    <3>4. history_call'[c].in_turn = FALSE BY <1>5, <1>7, <2>1, <3>3 DEF HistoryInv, InTurn
    <3> QED BY <1>7, <2>2, <3>1, <3>2, <3>4 DEF Overlapped
  <2> QED BY <1>5, <2>3, <2>4
<1>18. \A d \in HistoryCalls : ~Inserted(d) BY <1>3, <1>15 DEF Inserted, Busy
<1>19. \A d \in HistoryCalls \ {c} : ~Inserted(d)' BY <1>7, <1>15 DEF Inserted, Busy
<1>20. ~Overlapped' => Newest(disk, recent) BY <1>17, <1>18 DEF HistoryInv, DiskInv
<1>21. Len(recent) <= Cap BY DEF HistoryInv, Ordered
\* The rows there were among the newest, or the new one, are.
<1>22. DiskInv'
  <2> SUFFICES ASSUME ~Overlapped'
               PROVE  /\ b = FALSE => Newest(disk', recent)
                      /\ b = TRUE => Newest(disk', Pushed(c))
    <3>1. Pushed(c)' = Pushed(c) BY <1>3, <1>7 DEF Pushed, History!First
    <3>2. \A d \in HistoryCalls : Inserted(d)' <=> d = c /\ b BY <1>7, <1>19 DEF Inserted
    <3> QED BY <1>3, <3>1, <3>2 DEF DiskInv, Newest, Newer
  <2>1. Newest(disk, recent) BY <1>20
  <2>2. CASE disk' = disk /\ b = FALSE BY <2>1, <2>2
  <2>3. CASE disk' \in {History!Pruned(grown), grown} /\ b = FALSE
    <3>1. History!Pruned(disk)' = History!Pruned(grown)
      <4>1. History!Pruned(disk') = History!Pruned(grown) BY <1>1, <1>8, <2>3, PrunedRows
      <4> QED BY <4>1 DEF History!Pruned
    <3>2. l.entry \notin History!Pruned(grown) BY <1>7, <2>3, <3>1 DEF Overlapped
    <3>3. Newest(grown, recent) BY <1>1, <1>16, <1>21, <2>1, <3>2, OlderAdded DEF HistoryInv
    <3>4. Newest(History!Pruned(grown), recent) BY <1>1, <1>8, <1>21, <3>3, NewestStay
    <3> QED BY <2>3, <3>3, <3>4
  <2>4. CASE disk' \in {History!Pruned(grown), grown} /\ b = l.in_turn /\ b = TRUE
    <3>1. l.entry.at = clock BY <1>3, <2>4 DEF HistoryInv, InTurn, Busy
    <3>2. \A r \in grown : r.at \in Int /\ r.at <= l.entry.at BY <1>16, <3>1
    <3>3. Newest(grown, Pushed(c)) BY <1>1, <1>4, <2>1, <3>2, NewestAdded DEF HistoryInv, Pushed
    <3>4. Len(Pushed(c)) \in Nat /\ Len(Pushed(c)) <= Cap BY <1>1, <1>4, FirstOf DEF Pushed
    <3>5. Newest(History!Pruned(grown), Pushed(c)) BY <1>1, <1>8, <3>3, <3>4, NewestStay
    <3> QED BY <2>4, <3>3, <3>5
  <2> QED BY <1>5, <2>2, <2>3, <2>4
<1> QED BY <1>9, <1>11, <1>12, <1>13, <1>14, <1>22 DEF HistoryInv

\* What a call records when it ends with its entry in the table.
LEMMA RecordedKept ==
  ASSUME History!HistoryAssumption, HistoryInv, NEW c \in HistoryCalls, history_call[c].pc = "push",
         NEW t, t = History!Recorded(history_call[c])
  PROVE  /\ t \in Seq(Entry) /\ Ordered(t) /\ Newest(disk, t)
         /\ InRing(History!First(<<history_call[c].entry>> \o ring), t)
<1> DEFINE e == history_call[c].entry
<1>1. /\ Cap \in Nat \ {0} /\ clock \in Nat /\ entries \in Nat
      /\ disk \subseteq Entry /\ ring \in Seq(Entry) /\ recent \in Seq(Entry) /\ Len(recent) \in Nat
      /\ \A i \in 1..Len(recent) : recent[i] \in Entry
      /\ \A r \in Entry : r.id \in 1..entries /\ r.at \in 0..clock
  BY HistoryTypes DEF HistoryInv
<1>2. Busy(c) /\ history_call[c].in_turn \in BOOLEAN BY HistoryTypes DEF Busy, HistoryInv
<1>3. e \in Entry BY <1>2, HistoryTypes DEF HistoryInv, InTurn
<1>4. CASE history_call[c].in_turn
  <2>1. t = Pushed(c) /\ t = History!First(<<e>> \o recent) BY <1>4 DEF History!Recorded, Pushed
  <2>2. t \in Seq(Entry) BY <1>1, <1>3, <2>1, FirstOf
  <2>3. \A d \in HistoryCalls \ {c} : ~Busy(d) BY <1>2, <1>4 DEF HistoryInv, InTurn
  <2>4. e.at = clock /\ \A i \in 1..Len(recent) : recent[i].id < e.id /\ recent[i].at <= e.at
    <3>1. e.at = clock /\ \A i \in 1..Len(recent) : recent[i].id < e.id BY <1>2, <1>4 DEF HistoryInv, InTurn
    <3> QED BY <1>1, <3>1
  <2>5. Ordered(t)
    <3>1. \A r \in Entry : r.at \in Int /\ r.id \in Int BY <1>1
    <3>2. Ordered(recent) BY DEF HistoryInv
    <3> HIDE DEF e
    <3> QED BY <1>1, <1>3, <2>1, <2>4, <3>1, <3>2, OrderedAdded
  <2>6. ~Overlapped BY <1>4, <2>3 DEF Overlapped, Busy
  <2>7. Newest(disk, t) BY <1>4, <2>1, <2>6 DEF HistoryInv, DiskInv, Inserted
  <2>8. InRing(ring, recent) BY <1>4, <2>3 DEF HistoryInv, RingInv
  <2>9. InRing(History!First(<<e>> \o ring), t) BY <1>1, <1>3, <2>1, <2>8, RingAdded
  <2> QED BY <2>2, <2>5, <2>7, <2>9
<1>5. CASE ~history_call[c].in_turn
  <2>1. t = << >> BY <1>5 DEF History!Recorded
  <2>2. Len(t) = 0 /\ t \in Seq(Entry) BY <2>1
  <2> QED BY <1>1, <2>2 DEF Ordered, Newest, InRing
<1> QED BY <1>4, <1>5

\* The entry is pushed on the ring.
LEMMA PushKeeps ==
  ASSUME History!HistoryAssumption, HistoryInv, NEW c \in HistoryCalls, History!push(c) PROVE HistoryInv'
<1> DEFINE e == history_call[c].entry
<1>1. /\ Cap \in Nat \ {0} /\ ring \in Seq(Entry)
  BY HistoryTypes DEF HistoryInv
<1>2. /\ history_call[c].pc = "push"
      /\ ring' = History!First(<<e>> \o ring) /\ recent' = History!Recorded(history_call[c])
      /\ history_call' = [history_call EXCEPT ![c] = History!NoCall]
      /\ UNCHANGED <<clock, entries, disk, history_faults>>
  BY DEF History!push
<1>3. Busy(c) BY <1>2 DEF Busy
<1>4. e \in Entry BY <1>3, HistoryTypes DEF HistoryInv, InTurn
<1>5. ring' \in Seq(Entry) BY <1>1, <1>2, <1>4, FirstOf
<1>6. recent' \in Seq(Entry) /\ Ordered(recent') /\ Newest(disk, recent') /\ InRing(ring', recent')
  BY <1>2, RecordedKept
<1>7. /\ history_call'[c] = History!NoCall /\ \A d \in HistoryCalls \ {c} : history_call'[d] = history_call[d]
      /\ history_call' \in [HistoryCalls -> [pc : {"idle", "persist", "push"}, entry : [id : 0..entries, at : 0..clock],
                                      in_turn : BOOLEAN]]
  <2>1. History!NoCall \in [pc : {"idle", "persist", "push"}, entry : [id : 0..entries, at : 0..clock],
                            in_turn : BOOLEAN]
    BY HistoryTypes DEF History!NoCall, History!NoEntry, HistoryInv
  <2> QED BY <1>2, <2>1, OneCall
<1>8. /\ history_call'[c].pc = "idle" /\ \A d \in HistoryCalls \ {c} : history_call'[d] = history_call[d]
      /\ ~Busy(c)' /\ \A d \in HistoryCalls \ {c} : Busy(d)' <=> Busy(d)
  BY <1>7 DEF Busy, History!NoCall
<1>9. Entry' = Entry BY <1>2 DEF Entry
<1>10. History!TypeOK' /\ IsFiniteSet(disk')
  BY <1>2, <1>5, <1>6, <1>7 DEF HistoryInv, History!TypeOK, Entry
<1>11. Ordered(recent)' BY <1>6 DEF Ordered
<1>12. ASSUME NEW d \in HistoryCalls, Busy(d)' PROVE d # c /\ ~history_call'[d].in_turn /\ history_call'[d].entry.id >= 1
  <2>1. d # c /\ Busy(d) /\ history_call'[d] = history_call[d] BY <1>8, <1>12
  <2> QED BY <1>3, <2>1 DEF HistoryInv, InTurn
<1>13. InTurn' BY <1>12 DEF InTurn
<1>14. \A d \in HistoryCalls : ~Inserted(d)' BY <1>12 DEF Inserted, Busy
<1>15. Newest(disk, recent)' BY <1>2, <1>6 DEF Newest, Newer
<1>16. DiskInv' BY <1>14, <1>15 DEF DiskInv
<1>17. RingInv' BY <1>6 DEF RingInv, InRing
<1> QED BY <1>10, <1>11, <1>13, <1>16, <1>17 DEF HistoryInv

\* The newest rows are kept by what dies between its two steps.
LEMMA RestartRecent ==
  ASSUME History!HistoryAssumption, HistoryInv, NEW late,
         late = {c \in HistoryCalls : history_call[c].pc = "push" /\ history_call[c].entry \in disk},
         NEW t, t = IF late = {} THEN recent ELSE History!Recorded(history_call[CHOOSE c \in late : TRUE])
  PROVE  t \in Seq(Entry) /\ Ordered(t) /\ Newest(disk, t)
<1>1. /\ Cap \in Nat \ {0} /\ clock \in Nat /\ entries \in Nat
      /\ disk \subseteq Entry /\ recent \in Seq(Entry)
      /\ \A r \in Entry : r.id \in 1..entries /\ r.at \in 0..clock
  BY HistoryTypes DEF HistoryInv
<1>2. CASE late = {}
  <2>1. ASSUME NEW c \in HistoryCalls, Inserted(c) PROVE history_call[c].entry = Pushed(c)[1] /\ 1 \in 1..Len(Pushed(c))
    <3>1. Busy(c) BY <2>1 DEF Inserted, Busy
    <3>2. history_call[c].entry \in Entry BY <3>1, HistoryTypes DEF HistoryInv, InTurn
    <3>3. Len(recent) \in Nat BY <1>1
    <3> QED BY <1>1, <3>2, <3>3, FirstOf DEF Pushed
  <2>2. History!Pruned(disk) \subseteq disk BY DEF History!Pruned
  <2>3. ~Overlapped BY <1>2, <2>2 DEF Overlapped
  <2>4. ASSUME NEW c \in HistoryCalls, Inserted(c) PROVE FALSE
    <3>1. Newest(disk, Pushed(c)) BY <2>3, <2>4 DEF HistoryInv, DiskInv
    <3>2. Pushed(c)[1] \in disk BY <2>1, <2>4, <3>1 DEF Newest
    <3> QED BY <1>2, <2>1, <2>4, <3>2 DEF Inserted
  <2>5. Newest(disk, recent) BY <2>3, <2>4 DEF HistoryInv, DiskInv
  <2> QED BY <1>1, <1>2, <2>5 DEF HistoryInv
<1>3. CASE late # {}
  <2> DEFINE c == CHOOSE c \in late : TRUE
  <2>1. c \in HistoryCalls /\ history_call[c].pc = "push" BY <1>3
  <2>2. t = History!Recorded(history_call[c]) BY <1>3
  <2> HIDE DEF c
  <2> QED BY <2>1, <2>2, RecordedKept
<1> QED BY <1>2, <1>3

\* The process starts again.
LEMMA RestartKeeps ==
  ASSUME History!HistoryAssumption, HistoryInv, History!Restart PROVE HistoryInv'
<1>1. /\ Cap \in Nat \ {0} /\ clock \in Nat /\ entries \in Nat /\ MaxFaults \in Nat
      /\ disk \subseteq Entry /\ recent \in Seq(Entry)
      /\ \A r \in Entry : r.id \in 1..entries /\ r.at \in 0..clock
  BY HistoryTypes DEF HistoryInv
<1>2. PICK late :
        /\ late = {c \in HistoryCalls : history_call[c].pc = "push" /\ history_call[c].entry \in disk}
        /\ \/ /\ ring' \in History!Loads(disk) /\ history_faults' = history_faults + 1
              /\ recent' = IF late = {} THEN recent ELSE History!Recorded(history_call[CHOOSE c \in late : TRUE])
           \/ /\ history_faults + 1 < MaxFaults
              /\ ring' = << >> /\ recent' = << >> /\ history_faults' = history_faults + 2
  BY DEF History!Restart, History!hydrate
<1>3. /\ history_faults < MaxFaults /\ history_call' = [c \in HistoryCalls |-> History!NoCall]
      /\ UNCHANGED <<clock, entries, disk>>
  BY DEF History!Restart
<1>4. recent' \in Seq(Entry) /\ Ordered(recent') /\ Newest(disk, recent')
  <2>1. CASE recent' = << >>
    <3>1. Len(recent') = 0 /\ recent' \in Seq(Entry) BY <2>1
    <3> QED BY <1>1, <3>1 DEF Ordered, Newest
  <2>2. CASE recent' = IF late = {} THEN recent ELSE History!Recorded(history_call[CHOOSE c \in late : TRUE])
    BY <1>2, <2>2, RestartRecent
  <2> QED BY <1>2, <2>1, <2>2
<1>5. ring' \in Seq(Entry) /\ InRing(ring', recent')
  <2>1. CASE ring' = << >> /\ recent' = << >>
    <3>1. Len(recent') = 0 /\ ring' \in Seq(Entry) BY <2>1
    <3> QED BY <3>1 DEF InRing
  <2>2. CASE ring' \in History!Loads(disk)
    <3>1. PICK n \in Nat : ring' \in [1..n -> disk]
      <4>1. Cardinality(disk) \in Nat BY FS_CardinalityType DEF HistoryInv
      <4> QED BY <1>1, <2>2, <4>1, SameCount DEF History!Loads
    <3>2. ring' \in Seq(Entry) BY <1>1, <3>1
    <3>3. Len(recent') \in Nat /\ \A r \in disk : r.at \in Int /\ r.id \in Int BY <1>1, <1>4
    <3> QED BY <1>1, <1>4, <2>2, <3>2, <3>3, LoadsNewest DEF HistoryInv
  <2> QED BY <1>2, <2>1, <2>2
<1>6. history_faults' \in 0..MaxFaults
  <2>1. history_faults \in 0..MaxFaults BY DEF HistoryInv, History!TypeOK
  <2> QED BY <1>1, <1>2, <1>3, <2>1
<1>7. \A c \in HistoryCalls : history_call'[c].pc = "idle" BY <1>3 DEF History!NoCall
<1>8. Entry' = Entry BY <1>3 DEF Entry
<1>9. History!TypeOK' /\ IsFiniteSet(disk')
  <2>1. History!NoCall \in [pc : {"idle", "persist", "push"}, entry : [id : 0..entries, at : 0..clock],
                            in_turn : BOOLEAN]
    BY <1>1 DEF History!NoCall, History!NoEntry
  <2> HIDE DEF History!NoCall
  <2> QED BY <1>3, <1>4, <1>5, <1>6, <2>1 DEF HistoryInv, History!TypeOK, Entry
<1>10. Ordered(recent)' BY <1>4 DEF Ordered
<1>11. \A c \in HistoryCalls : ~Busy(c)' /\ ~Inserted(c)' BY <1>7 DEF Busy, Inserted
<1>12. Newest(disk, recent)' BY <1>3, <1>4 DEF Newest, Newer
<1>13. InRing(ring, recent)' BY <1>5 DEF InRing
<1> QED BY <1>9, <1>10, <1>11, <1>12, <1>13 DEF HistoryInv, InTurn, DiskInv, RingInv

LEMMA HistoryStutter == ASSUME HistoryInv, UNCHANGED History!vars PROVE HistoryInv'
<1>1. UNCHANGED <<clock, entries, disk, ring, history_call, recent, history_faults>> BY DEF History!vars
<1>2. History!TypeOK' /\ IsFiniteSet(disk') BY <1>1 DEF HistoryInv, History!TypeOK
<1>3. Ordered(recent)' BY <1>1 DEF HistoryInv, Ordered
<1>4. InTurn' BY <1>1 DEF HistoryInv, InTurn, Busy
<1>5. RingInv' BY <1>1 DEF HistoryInv, RingInv, Busy, InRing
<1>6. DiskInv'
  <2>1. ~Overlapped' => ~Overlapped BY <1>1 DEF Overlapped, History!Pruned
  <2>2. \A c \in HistoryCalls : Pushed(c)' = Pushed(c) /\ (Inserted(c)' <=> Inserted(c))
    BY <1>1 DEF Pushed, Inserted, History!First
  <2>3. \A s : Newest(disk, s) => Newest(disk', s) BY <1>1
  <2>4. recent' = recent BY <1>1
  <2> SUFFICES ASSUME ~Overlapped'
               PROVE  /\ \A c \in HistoryCalls : Inserted(c)' => Newest(disk', Pushed(c)')
                      /\ (\A c \in HistoryCalls : ~Inserted(c)') => Newest(disk', recent')
    BY DEF DiskInv, Newest, Newer
  <2> QED BY <2>1, <2>2, <2>3, <2>4 DEF HistoryInv, DiskInv
<1> QED BY <1>2, <1>3, <1>4, <1>5, <1>6 DEF HistoryInv

LEMMA HistoryNext == ASSUME History!HistoryAssumption, HistoryInv, [History!Next]_History!vars PROVE HistoryInv'
<1>1. CASE UNCHANGED History!vars BY <1>1, HistoryStutter
<1>2. CASE \E c \in HistoryCalls : History!record(c) BY <1>2, RecordKeeps
<1>3. CASE \E c \in HistoryCalls : History!insert_entry(c) BY <1>3, InsertKeeps
<1>4. CASE \E c \in HistoryCalls : History!push(c) BY <1>4, PushKeeps
<1>5. CASE History!Restart BY <1>5, RestartKeeps
<1> QED BY <1>1, <1>2, <1>3, <1>4, <1>5 DEF History!Next

LEMMA HistoryInvariant == ASSUME History!HistoryAssumption PROVE History!Spec => []HistoryInv
<1>1. History!Init => HistoryInv BY HistoryInit
<1>2. HistoryInv /\ [History!Next]_History!vars => HistoryInv' BY HistoryNext
<1> QED BY <1>1, <1>2, PTL DEF History!Spec

LEMMA HistoryKept == ASSUME History!HistoryAssumption, HistoryInv PROVE History!NewestKeptTwice
<1> SUFFICES ASSUME History!Quiet, NEW i \in DOMAIN recent
             PROVE  /\ i <= Len(ring) /\ ring[i].at = recent[i].at
                    /\ recent[i] \in disk
                    /\ Cardinality(Newer(disk, recent[i].at)) < i
  BY SameCount DEF History!NewestKeptTwice, Newer
<1>1. \A c \in HistoryCalls : ~Busy(c) /\ ~Inserted(c) BY DEF History!Quiet, Busy, Inserted
<1>2. ~Overlapped BY <1>1 DEF Overlapped, Busy
<1>3. InRing(ring, recent) BY <1>1 DEF HistoryInv, RingInv
<1>4. Newest(disk, recent) BY <1>1, <1>2 DEF HistoryInv, DiskInv
<1>5. i \in 1..Len(recent) BY DEF HistoryInv, History!TypeOK
<1> QED BY <1>3, <1>4, <1>5 DEF InRing, Newest

\* BoundedHistory's type invariant: the clock, the rows, the ring and the locals of
\* the calls of the two histories are of their types in every state.
THEOREM HistoryTypesHold == ASSUME History!HistoryAssumption PROVE History!Spec => []History!TypeOK
<1>1. HistoryInv => History!TypeOK BY DEF HistoryInv
<1> QED BY <1>1, HistoryInvariant, PTL

\* What was recorded one entry after the other, up to the cap, is at the head of the
\* ring and newest in the table whenever no call is under way, for every cap and any
\* number of calls, entries, store errors and kills: promote_history.rs,
\* entity_refresh_log.rs and the two functions that push on the rings.
THEOREM NewestIsKeptTwice == ASSUME History!HistoryAssumption PROVE History!Spec => []NewestKeptTwice
<1>1. HistoryInv => NewestKeptTwice BY HistoryKept DEF NewestKeptTwice
<1> QED BY <1>1, HistoryInvariant, PTL

-----------------------------------------------------------------------------
(***************************************************************************)
(* PlanPanel: the inductive invariant.  What the panel shows is true, or   *)
(* it is known which one call is to set it right and what that call holds; *)
(* what calls that met have touched is in doubt, and nothing is said of it.*)
(***************************************************************************)
Plans == DOMAIN rows

\* A plan as the panel shows one.
IsShown(s) == s = Panel!Shown(s.id, s.status, s.note)

\* A plan that is shown is one there is.
Exists(ps, s) == IsShown(s) /\ (s = Panel!Nobody \/ s.id \in ps)

Closing == {"list", "listed", "unlisted"}

\* Where the calls of each kind can be, and the plan they are for.
PanelCallTyped(ps, l) ==
  /\ l = [op |-> l.op, pc |-> l.pc, plan |-> l.plan, note |-> l.note, was |-> l.was, got |-> l.got,
          filter |-> l.filter, listed |-> l.listed, doubted |-> l.doubted]
  /\ \/ l.op = "none" /\ l.pc = "idle"
     \/ l.op = "get" /\ l.pc \in {"read", "answered", "failed"} /\ l.plan \in ps
     \/ l.op = "fetch" /\ l.pc \in {"prepare", "run", "answered", "failed"} /\ l.plan \in ps
     \/ l.op = "filter" /\ l.pc \in Closing /\ l.plan = 0
     \/ l.op \in {"accept", "reject"} /\ l.pc \in {"write", "read", "answered", "failed"} \cup Closing /\ l.plan \in ps
     \/ l.op = "classify" /\ l.pc \in {"insert", "answered", "failed"} \cup Closing /\ l.plan = 0
     \/ l.op = "reclassify" /\ l.pc \in {"check", "insert", "failed"} /\ l.plan = 0
     \/ l.op = "reclassify" /\ l.pc \in {"read", "answered", "failed"} \cup Closing /\ l.plan \in ps
  /\ l.pc = "answered" /\ l.op # "fetch" => l.got.id \in ps /\ (l.op # "classify" => l.got.id = l.plan)
  /\ l.note \in Reasons \cup {NoReason} /\ IsShown(l.was) /\ IsShown(l.got)
  /\ l.op \in {"accept", "reject"} /\ l.pc \notin Closing => l.was.id = l.plan
  /\ l.pc \in {"check", "insert"} /\ l.op = "reclassify" => l.was.id \in ps
  /\ l.pc = "listed" => DOMAIN l.listed \subseteq ps

PanelTypes ==
  /\ rows \in Seq(Panel!PlanRow)
  /\ Exists(Plans, selected)
  /\ dialog # "none" => selected # Panel!Nobody
  /\ DOMAIN list \subseteq Plans
  /\ panels \in [report : Nat, recipes : Nat, records : Nat]
  /\ \A r \in reads : r.plan \in Plans /\ r.panel \in {"recipes", "records"}
  /\ panel_call = [c \in PanelCalls |-> panel_call[c]]
  /\ \A c \in PanelCalls : PanelCallTyped(Plans, panel_call[c])
  /\ panels.records # 0 => panels.records \in Plans /\ rows[panels.records].status # "pending"

Classifying(l) == l.op \in {"classify", "reclassify"}

OneClassifies ==
  \A c, d \in PanelCalls : Classifying(panel_call[c]) /\ Classifying(panel_call[d]) => c = d

\* What the one call that lists knows of the list.
ListKnown(l) ==
  /\ l.pc \in {"write", "check", "insert", "failed"} /\ "recent" \notin l.doubted => list = Panel!Matching(statusFilter)
  /\ l.pc = "list" => l.filter = statusFilter
  /\ l.pc = "listed" => l.listed = Panel!Matching(statusFilter)
  /\ l.pc # "unlisted"

Lists(l) == l.op \in Panel!Listing

ListInv ==
  "recent" \notin panel_doubt =>
    /\ \A c, d \in PanelCalls : Lists(panel_call[c]) /\ Lists(panel_call[d]) => c = d
    /\ (\A c \in PanelCalls : ~Lists(panel_call[c])) => list = Panel!Matching(statusFilter)
    /\ \A c \in PanelCalls : Lists(panel_call[c]) => ListKnown(panel_call[c])

\* What is shown of a plan is what its row holds.
True(s) == s # Panel!Nobody => s = Panel!Dto(s.id)

\* What the one call that sets the selection knows of it.
SelectionKnown(l) ==
  /\ l.op = "get" /\ l.pc # "answered" /\ "selected" \notin l.doubted => True(selected)
  /\ l.op \in {"accept", "reject"} /\ l.pc \in {"write", "failed"} =>
       selected.id = l.was.id /\ ("selected" \notin l.doubted => True(l.was))
  /\ Classifying(l) /\ l.pc \notin Closing => selected = Panel!Nobody
  /\ l.pc = "answered" => True(l.got)
  /\ l.pc \in Closing => True(selected)

Selects(l) == l.op \in Panel!Selecting

SelectionInv ==
  "selected" \notin panel_doubt =>
    /\ \A c, d \in PanelCalls : Selects(panel_call[c]) /\ Selects(panel_call[d]) => c = d
    /\ (\A c \in PanelCalls : ~Selects(panel_call[c])) => True(selected)
    /\ \A c \in PanelCalls : Selects(panel_call[c]) => SelectionKnown(panel_call[c])

\* The plans that have something under way, and those that may fill a panel.
Fills(l) == l.op \in {"accept", "reject", "fetch"}

Filling == {panel_call[c].plan : c \in {d \in PanelCalls : Fills(panel_call[d])}} \cup {r.plan : r \in reads}

Shows == {panels.report, panels.recipes, panels.records} \ {0}

Clears(l) == l.op \in {"get", "classify", "reclassify"}

\* Every plan that is being opened was opened when the panels were those of the selected one.
Certain == \A c \in PanelCalls : panel_call[c].op = "get" => "panels" \notin panel_call[c].doubted

PanelsInv ==
  "panels" \notin panel_doubt =>
    /\ \A p, q \in Panel!Underway : p = q
    /\ \A c \in PanelCalls : Clears(panel_call[c]) => Shows \subseteq {panel_call[c].plan}
    /\ Certain => Filling \cup Shows \subseteq {selected.id}

PanelInv == PanelTypes /\ OneClassifies /\ ListInv /\ SelectionInv /\ PanelsInv

-----------------------------------------------------------------------------
(***************************************************************************)
(* What a step leaves alone.                                               *)
(***************************************************************************)
\* One call takes the step.
Only(c) ==
  /\ panel_call' = [d \in PanelCalls |-> panel_call'[d]]
  /\ \A d \in PanelCalls \ {c} : panel_call'[d] = panel_call[d]

\* A call has the fields of a call, and no others.
Whole(l) ==
  l = [op |-> l.op, pc |-> l.pc, plan |-> l.plan, note |-> l.note, was |-> l.was, got |-> l.got,
       filter |-> l.filter, listed |-> l.listed, doubted |-> l.doubted]

LEMMA Becomes ==
  ASSUME panel_call = [d \in PanelCalls |-> panel_call[d]], NEW c \in PanelCalls, NEW m,
         panel_call' = [panel_call EXCEPT ![c] = m]
  PROVE  Only(c) /\ panel_call'[c] = m
BY DEF Only

\* The call goes on, and all else it holds stays.
LEMMA GoesOn ==
  ASSUME PanelTypes, NEW c \in PanelCalls, NEW pc, Panel!Goes(c, pc)
  PROVE  /\ Only(c) /\ Whole(panel_call'[c]) /\ panel_call'[c].pc = pc
         /\ panel_call'[c].op = panel_call[c].op /\ panel_call'[c].plan = panel_call[c].plan
         /\ panel_call'[c].note = panel_call[c].note /\ panel_call'[c].was = panel_call[c].was
         /\ panel_call'[c].got = panel_call[c].got /\ panel_call'[c].filter = panel_call[c].filter
         /\ panel_call'[c].listed = panel_call[c].listed /\ panel_call'[c].doubted = panel_call[c].doubted
<1> DEFINE l == panel_call[c]  m == [l EXCEPT !.pc = pc]
<1>1. Whole(l) BY DEF PanelTypes, PanelCallTyped, Whole
<1>2. panel_call' = [panel_call EXCEPT ![c] = m] BY Zenon DEF Panel!Goes
<1>3. Only(c) /\ panel_call'[c] = m
  <2> HIDE DEF m
  <2> QED BY <1>2, Becomes DEF PanelTypes
<1> HIDE DEF l
<1>4. m = [op |-> l.op, pc |-> pc, plan |-> l.plan, note |-> l.note, was |-> l.was, got |-> l.got,
           filter |-> l.filter, listed |-> l.listed, doubted |-> l.doubted]
  BY <1>1 DEF Whole
<1> HIDE DEF m
<1>5. /\ Whole(m) /\ m.pc = pc /\ m.op = l.op /\ m.plan = l.plan /\ m.note = l.note /\ m.was = l.was
      /\ m.got = l.got /\ m.filter = l.filter /\ m.listed = l.listed /\ m.doubted = l.doubted
  BY <1>4 DEF Whole
<1> QED BY <1>3, <1>5 DEF l

\* The answer has come.
LEMMA GoesGot ==
  ASSUME PanelTypes, NEW c \in PanelCalls, NEW s,
         panel_call' = [panel_call EXCEPT ![c].pc = "answered", ![c].got = s]
  PROVE  /\ Only(c) /\ Whole(panel_call'[c]) /\ panel_call'[c].pc = "answered" /\ panel_call'[c].got = s
         /\ panel_call'[c].op = panel_call[c].op /\ panel_call'[c].plan = panel_call[c].plan
         /\ panel_call'[c].note = panel_call[c].note /\ panel_call'[c].was = panel_call[c].was
         /\ panel_call'[c].doubted = panel_call[c].doubted
<1> DEFINE l == panel_call[c]  k == [l EXCEPT !.pc = "answered"]  m == [k EXCEPT !.got = s]
           h == [panel_call EXCEPT ![c] = k]
<1>1. Whole(l) BY DEF PanelTypes, PanelCallTyped, Whole
<1>2. panel_call' = [panel_call EXCEPT ![c] = m]
  <2>1. panel_call' = [[panel_call EXCEPT ![c].pc = "answered"] EXCEPT ![c].got = s] OBVIOUS
  <2>2. [panel_call EXCEPT ![c].pc = "answered"] = h BY Zenon
  <2>3. panel_call' = [h EXCEPT ![c].got = s] BY <2>1, <2>2, Zenon
  <2>4. panel_call' = [h EXCEPT ![c] = [h[c] EXCEPT !.got = s]] BY <2>3, Zenon
  <2> HIDE DEF k
  <2>5. h[c] = k /\ \A x : [h EXCEPT ![c] = x] = [panel_call EXCEPT ![c] = x] BY DEF PanelTypes
  <2> HIDE DEF h
  <2> QED BY <2>4, <2>5, Zenon
<1>3. Only(c) /\ panel_call'[c] = m
  <2> HIDE DEF m
  <2> QED BY <1>2, Becomes DEF PanelTypes
<1> HIDE DEF l
<1>4. k = [op |-> l.op, pc |-> "answered", plan |-> l.plan, note |-> l.note, was |-> l.was, got |-> l.got,
           filter |-> l.filter, listed |-> l.listed, doubted |-> l.doubted]
  BY <1>1 DEF Whole
<1> HIDE DEF k
<1>5. m = [op |-> l.op, pc |-> "answered", plan |-> l.plan, note |-> l.note, was |-> l.was, got |-> s,
           filter |-> l.filter, listed |-> l.listed, doubted |-> l.doubted]
  BY <1>4
<1> HIDE DEF m
<1>6. /\ Whole(m) /\ m.pc = "answered" /\ m.got = s /\ m.op = l.op /\ m.plan = l.plan /\ m.was = l.was
      /\ m.note = l.note /\ m.doubted = l.doubted
  BY <1>5 DEF Whole
<1> QED BY <1>3, <1>6 DEF l

\* The list has been read.
LEMMA GoesListed ==
  ASSUME PanelTypes, NEW c \in PanelCalls, NEW s,
         panel_call' = [panel_call EXCEPT ![c].pc = "listed", ![c].listed = s]
  PROVE  /\ Only(c) /\ Whole(panel_call'[c]) /\ panel_call'[c].pc = "listed" /\ panel_call'[c].listed = s
         /\ panel_call'[c].op = panel_call[c].op /\ panel_call'[c].plan = panel_call[c].plan
         /\ panel_call'[c].note = panel_call[c].note /\ panel_call'[c].was = panel_call[c].was
         /\ panel_call'[c].got = panel_call[c].got /\ panel_call'[c].doubted = panel_call[c].doubted
<1> DEFINE l == panel_call[c]  k == [l EXCEPT !.pc = "listed"]  m == [k EXCEPT !.listed = s]
           h == [panel_call EXCEPT ![c] = k]
<1>1. Whole(l) BY DEF PanelTypes, PanelCallTyped, Whole
<1>2. panel_call' = [panel_call EXCEPT ![c] = m]
  <2>1. panel_call' = [[panel_call EXCEPT ![c].pc = "listed"] EXCEPT ![c].listed = s] OBVIOUS
  <2>2. [panel_call EXCEPT ![c].pc = "listed"] = h BY Zenon
  <2>3. panel_call' = [h EXCEPT ![c].listed = s] BY <2>1, <2>2, Zenon
  <2>4. panel_call' = [h EXCEPT ![c] = [h[c] EXCEPT !.listed = s]] BY <2>3, Zenon
  <2> HIDE DEF k
  <2>5. h[c] = k /\ \A x : [h EXCEPT ![c] = x] = [panel_call EXCEPT ![c] = x] BY DEF PanelTypes
  <2> HIDE DEF h
  <2> QED BY <2>4, <2>5, Zenon
<1>3. Only(c) /\ panel_call'[c] = m
  <2> HIDE DEF m
  <2> QED BY <1>2, Becomes DEF PanelTypes
<1> HIDE DEF l
<1>4. k = [op |-> l.op, pc |-> "listed", plan |-> l.plan, note |-> l.note, was |-> l.was, got |-> l.got,
           filter |-> l.filter, listed |-> l.listed, doubted |-> l.doubted]
  BY <1>1 DEF Whole
<1> HIDE DEF k
<1>5. m = [op |-> l.op, pc |-> "listed", plan |-> l.plan, note |-> l.note, was |-> l.was, got |-> l.got,
           filter |-> l.filter, listed |-> s, doubted |-> l.doubted]
  BY <1>4
<1> HIDE DEF m
<1>6. /\ Whole(m) /\ m.pc = "listed" /\ m.listed = s /\ m.op = l.op /\ m.plan = l.plan /\ m.was = l.was
      /\ m.note = l.note /\ m.got = l.got /\ m.doubted = l.doubted
  BY <1>5 DEF Whole
<1> QED BY <1>3, <1>6 DEF l

\* The new plan is there.
LEMMA GoesPlanned ==
  ASSUME PanelTypes, NEW c \in PanelCalls, NEW s,
         panel_call' = [panel_call EXCEPT ![c].pc = "read", ![c].plan = s]
  PROVE  /\ Only(c) /\ Whole(panel_call'[c]) /\ panel_call'[c].pc = "read" /\ panel_call'[c].plan = s
         /\ panel_call'[c].op = panel_call[c].op /\ panel_call'[c].got = panel_call[c].got
         /\ panel_call'[c].note = panel_call[c].note /\ panel_call'[c].was = panel_call[c].was
         /\ panel_call'[c].doubted = panel_call[c].doubted
<1> DEFINE l == panel_call[c]  k == [l EXCEPT !.pc = "read"]  m == [k EXCEPT !.plan = s]
           h == [panel_call EXCEPT ![c] = k]
<1>1. Whole(l) BY DEF PanelTypes, PanelCallTyped, Whole
<1>2. panel_call' = [panel_call EXCEPT ![c] = m]
  <2>1. panel_call' = [[panel_call EXCEPT ![c].pc = "read"] EXCEPT ![c].plan = s] OBVIOUS
  <2>2. [panel_call EXCEPT ![c].pc = "read"] = h BY Zenon
  <2>3. panel_call' = [h EXCEPT ![c].plan = s] BY <2>1, <2>2, Zenon
  <2>4. panel_call' = [h EXCEPT ![c] = [h[c] EXCEPT !.plan = s]] BY <2>3, Zenon
  <2> HIDE DEF k
  <2>5. h[c] = k /\ \A x : [h EXCEPT ![c] = x] = [panel_call EXCEPT ![c] = x] BY DEF PanelTypes
  <2> HIDE DEF h
  <2> QED BY <2>4, <2>5, Zenon
<1>3. Only(c) /\ panel_call'[c] = m
  <2> HIDE DEF m
  <2> QED BY <1>2, Becomes DEF PanelTypes
<1> HIDE DEF l
<1>4. k = [op |-> l.op, pc |-> "read", plan |-> l.plan, note |-> l.note, was |-> l.was, got |-> l.got,
           filter |-> l.filter, listed |-> l.listed, doubted |-> l.doubted]
  BY <1>1 DEF Whole
<1> HIDE DEF k
<1>5. m = [op |-> l.op, pc |-> "read", plan |-> s, note |-> l.note, was |-> l.was, got |-> l.got,
           filter |-> l.filter, listed |-> l.listed, doubted |-> l.doubted]
  BY <1>4
<1> HIDE DEF m
<1>6. /\ Whole(m) /\ m.pc = "read" /\ m.plan = s /\ m.op = l.op /\ m.got = l.got /\ m.was = l.was
      /\ m.note = l.note /\ m.doubted = l.doubted
  BY <1>5 DEF Whole
<1> QED BY <1>3, <1>6 DEF l

\* One field of a call is set.
LEMMA FieldSet ==
  ASSUME NEW l, Whole(l), NEW x
  PROVE  /\ [l EXCEPT !.op = x] =
           [op |-> x, pc |-> l.pc, plan |-> l.plan, note |-> l.note, was |-> l.was, got |-> l.got,
            filter |-> l.filter, listed |-> l.listed, doubted |-> l.doubted]
         /\ [l EXCEPT !.pc = x] =
           [op |-> l.op, pc |-> x, plan |-> l.plan, note |-> l.note, was |-> l.was, got |-> l.got,
            filter |-> l.filter, listed |-> l.listed, doubted |-> l.doubted]
         /\ [l EXCEPT !.plan = x] =
           [op |-> l.op, pc |-> l.pc, plan |-> x, note |-> l.note, was |-> l.was, got |-> l.got,
            filter |-> l.filter, listed |-> l.listed, doubted |-> l.doubted]
         /\ [l EXCEPT !.note = x] =
           [op |-> l.op, pc |-> l.pc, plan |-> l.plan, note |-> x, was |-> l.was, got |-> l.got,
            filter |-> l.filter, listed |-> l.listed, doubted |-> l.doubted]
         /\ [l EXCEPT !.was = x] =
           [op |-> l.op, pc |-> l.pc, plan |-> l.plan, note |-> l.note, was |-> x, got |-> l.got,
            filter |-> l.filter, listed |-> l.listed, doubted |-> l.doubted]
         /\ [l EXCEPT !.filter = x] =
           [op |-> l.op, pc |-> l.pc, plan |-> l.plan, note |-> l.note, was |-> l.was, got |-> l.got,
            filter |-> x, listed |-> l.listed, doubted |-> l.doubted]
         /\ [l EXCEPT !.doubted = x] =
           [op |-> l.op, pc |-> l.pc, plan |-> l.plan, note |-> l.note, was |-> l.was, got |-> l.got,
            filter |-> l.filter, listed |-> l.listed, doubted |-> x]
BY DEF Whole

\* A call as it starts.
PanelCall(op, pc, p) ==
  [op |-> op, pc |-> pc, plan |-> p, note |-> NoReason, was |-> Panel!Nobody,
   got |-> Panel!Nobody, filter |-> "all", listed |-> << >>, doubted |-> {}]

LEMMA CallFields ==
  ASSUME NEW op, NEW pc, NEW p
  PROVE  Panel!Call(op, pc, p) = PanelCall(op, pc, p)
<1> DEFINE i == Panel!Idle  a == [i EXCEPT !.op = op]  b == [a EXCEPT !.pc = pc]  d == [b EXCEPT !.plan = p]
<1>1. Panel!Call(op, pc, p) = d BY DEF Panel!Call
<1>2. /\ Whole(i) /\ i.plan = 0 /\ i.pc = "idle" /\ i.note = NoReason /\ i.was = Panel!Nobody /\ i.got = Panel!Nobody
      /\ i.filter = "all" /\ i.listed = << >> /\ i.doubted = {}
  BY DEF Whole, Panel!Idle
<1> HIDE DEF i
<1>3. /\ Whole(a) /\ a.op = op /\ a.plan = 0 /\ a.pc = "idle" /\ a.note = NoReason /\ a.was = Panel!Nobody /\ a.got = Panel!Nobody
      /\ a.filter = "all" /\ a.listed = << >> /\ a.doubted = {}
  <2>1. a = [op |-> op, pc |-> i.pc, plan |-> i.plan, note |-> i.note, was |-> i.was, got |-> i.got,
             filter |-> i.filter, listed |-> i.listed, doubted |-> i.doubted]
    BY <1>2, FieldSet
  <2> HIDE DEF a
  <2> QED BY <1>2, <2>1 DEF Whole
<1> HIDE DEF a
<1>4. /\ Whole(b) /\ b.op = op /\ b.plan = 0 /\ b.pc = pc /\ b.note = NoReason /\ b.was = Panel!Nobody /\ b.got = Panel!Nobody
      /\ b.filter = "all" /\ b.listed = << >> /\ b.doubted = {}
  <2>1. b = [op |-> a.op, pc |-> pc, plan |-> a.plan, note |-> a.note, was |-> a.was, got |-> a.got,
             filter |-> a.filter, listed |-> a.listed, doubted |-> a.doubted]
    BY <1>3, FieldSet
  <2> HIDE DEF b
  <2> QED BY <1>3, <2>1 DEF Whole
<1> HIDE DEF b
<1>5. d = [op |-> b.op, pc |-> b.pc, plan |-> p, note |-> b.note, was |-> b.was, got |-> b.got,
           filter |-> b.filter, listed |-> b.listed, doubted |-> b.doubted]
  BY <1>4, FieldSet
<1> QED BY <1>1, <1>4, <1>5 DEF PanelCall

-----------------------------------------------------------------------------
(***************************************************************************)
(* What keeps each part of the invariant.                                  *)
(***************************************************************************)
LEMMA TypesStep ==
  ASSUME PanelTypes, NEW c \in PanelCalls, Only(c), rows' \in Seq(Panel!PlanRow), Plans \subseteq DOMAIN rows',
         PanelCallTyped(DOMAIN rows', panel_call'[c]), Exists(DOMAIN rows', selected'),
         dialog' # "none" => selected' # Panel!Nobody, DOMAIN list' \subseteq DOMAIN rows',
         panels' \in [report : Nat, recipes : Nat, records : Nat],
         \A r \in reads' : r.plan \in DOMAIN rows' /\ r.panel \in {"recipes", "records"},
         panels'.records # 0 => panels'.records \in DOMAIN rows' /\ rows'[panels'.records].status # "pending"
  PROVE  PanelTypes'
<1> DEFINE ps == DOMAIN rows'
<1>1. ASSUME NEW d \in PanelCalls PROVE PanelCallTyped(ps, panel_call'[d])
  <2>1. CASE d = c BY <2>1
  <2>2. CASE d # c
    <3>1. PanelCallTyped(Plans, panel_call[d]) /\ panel_call'[d] = panel_call[d] BY <2>2 DEF PanelTypes, Only
    <3>2. Plans \subseteq ps OBVIOUS
    <3>3. PanelCallTyped(ps, panel_call[d])
      <4> HIDE DEF Plans, ps
      <4> DEFINE l == panel_call[d]
      <4>1. PanelCallTyped(Plans, l) BY <3>1
      <4> HIDE DEF l
      <4>2. PanelCallTyped(ps, l) BY <3>2, <4>1 DEF PanelCallTyped
      <4> QED BY <4>2 DEF l
    <3> QED BY <3>1, <3>3
  <2> QED BY <2>1, <2>2
<1>2. \A d \in PanelCalls : PanelCallTyped(Plans', panel_call'[d]) BY <1>1 DEF Plans
<1>3. panel_call' = [d \in PanelCalls |-> panel_call'[d]] BY DEF Only
<1> QED BY <1>2, <1>3 DEF PanelTypes, Plans, PanelCallTyped, Exists, Closing, Panel!Nobody

LEMMA ClassifyStep ==
  ASSUME OneClassifies, NEW c \in PanelCalls, Only(c),
         Classifying(panel_call'[c]) =>
           Classifying(panel_call[c]) \/ \A d \in PanelCalls : ~Classifying(panel_call[d])
  PROVE  OneClassifies'
<1> SUFFICES ASSUME NEW d \in PanelCalls, NEW e \in PanelCalls,
                    Classifying(panel_call'[d]), Classifying(panel_call'[e])
             PROVE  d = e
  BY DEF OneClassifies, Classifying
<1> QED BY DEF OneClassifies, Only

\* What is not in doubt now was not before.
DoubtKept(k) == k \notin panel_doubt' => k \notin panel_doubt

\* No call that lists takes the step.
LEMMA ListElsewhere ==
  ASSUME ListInv, DoubtKept("recent"), UNCHANGED <<rows, list, statusFilter>>,
         \A d \in PanelCalls : \/ panel_call'[d] = panel_call[d]
                               \/ ~Lists(panel_call[d]) /\ ~Lists(panel_call'[d])
  PROVE  ListInv'
<1> SUFFICES ASSUME "recent" \notin panel_doubt'
             PROVE  /\ \A c, d \in PanelCalls : Lists(panel_call'[c]) /\ Lists(panel_call'[d]) => c = d
                    /\ (\A c \in PanelCalls : ~Lists(panel_call'[c])) => list' = Panel!Matching(statusFilter)'
                    /\ \A c \in PanelCalls : Lists(panel_call'[c]) => ListKnown(panel_call[c])'
  BY DEF ListInv, Lists, Panel!Listing
<1>1. /\ \A c, d \in PanelCalls : Lists(panel_call[c]) /\ Lists(panel_call[d]) => c = d
      /\ (\A c \in PanelCalls : ~Lists(panel_call[c])) => list = Panel!Matching(statusFilter)
      /\ \A c \in PanelCalls : Lists(panel_call[c]) => ListKnown(panel_call[c])
  BY DEF ListInv, DoubtKept
<1>2. Panel!Matching(statusFilter)' = Panel!Matching(statusFilter) BY DEF Panel!Matching
<1>3. ASSUME NEW c \in PanelCalls, Lists(panel_call'[c]) PROVE ListKnown(panel_call[c])'
  <2>1. panel_call'[c] = panel_call[c] /\ ListKnown(panel_call[c]) BY <1>1, <1>3
  <2> QED BY <1>2, <2>1 DEF ListKnown
<1> QED BY <1>1, <1>2, <1>3

\* The one that lists takes it.
LEMMA ListMoves ==
  ASSUME ListInv, DoubtKept("recent"), NEW c \in PanelCalls, Only(c), Lists(panel_call[c]),
         "recent" \notin panel_doubt' /\ ListKnown(panel_call[c]) =>
           IF Lists(panel_call'[c]) THEN ListKnown(panel_call[c])' ELSE list' = Panel!Matching(statusFilter)'
  PROVE  ListInv'
<1> SUFFICES ASSUME "recent" \notin panel_doubt'
             PROVE  /\ \A d, e \in PanelCalls : Lists(panel_call'[d]) /\ Lists(panel_call'[e]) => d = e
                    /\ (\A d \in PanelCalls : ~Lists(panel_call'[d])) => list' = Panel!Matching(statusFilter)'
                    /\ \A d \in PanelCalls : Lists(panel_call'[d]) => ListKnown(panel_call[d])'
  BY DEF ListInv, Lists, Panel!Listing
<1>1. /\ \A d \in PanelCalls \ {c} : ~Lists(panel_call[d])
      /\ ListKnown(panel_call[c])
  BY DEF ListInv, DoubtKept
<1>2. \A d \in PanelCalls \ {c} : ~Lists(panel_call'[d]) BY <1>1 DEF Only
<1> QED BY <1>1, <1>2

\* One that lists starts, after all that did.
LEMMA ListStarts ==
  ASSUME ListInv, NEW c \in PanelCalls, Only(c), Lists(panel_call'[c]),
         "recent" \notin panel_doubt' =>
           /\ \A d \in PanelCalls : ~Lists(panel_call[d])
           /\ ("recent" \notin panel_doubt => list = Panel!Matching(statusFilter)) => ListKnown(panel_call[c])'
  PROVE  ListInv'
<1> SUFFICES ASSUME "recent" \notin panel_doubt'
             PROVE  /\ \A d, e \in PanelCalls : Lists(panel_call'[d]) /\ Lists(panel_call'[e]) => d = e
                    /\ (\A d \in PanelCalls : ~Lists(panel_call'[d])) => list' = Panel!Matching(statusFilter)'
                    /\ \A d \in PanelCalls : Lists(panel_call'[d]) => ListKnown(panel_call[d])'
  BY DEF ListInv, Lists, Panel!Listing
<1>1. \A d \in PanelCalls \ {c} : ~Lists(panel_call'[d]) BY DEF Only
<1>2. "recent" \notin panel_doubt => list = Panel!Matching(statusFilter) BY DEF ListInv
<1> QED BY <1>1, <1>2

\* No call that sets the selection takes the step.
LEMMA SelectionElsewhere ==
  ASSUME SelectionInv, DoubtKept("selected"), UNCHANGED <<rows, selected>>,
         \A d \in PanelCalls : \/ panel_call'[d] = panel_call[d]
                               \/ ~Selects(panel_call[d]) /\ ~Selects(panel_call'[d])
  PROVE  SelectionInv'
<1> SUFFICES ASSUME "selected" \notin panel_doubt'
             PROVE  /\ \A c, d \in PanelCalls : Selects(panel_call'[c]) /\ Selects(panel_call'[d]) => c = d
                    /\ (\A c \in PanelCalls : ~Selects(panel_call'[c])) => True(selected)'
                    /\ \A c \in PanelCalls : Selects(panel_call'[c]) => SelectionKnown(panel_call[c])'
  BY DEF SelectionInv, Selects, Panel!Selecting
<1>1. /\ \A c, d \in PanelCalls : Selects(panel_call[c]) /\ Selects(panel_call[d]) => c = d
      /\ (\A c \in PanelCalls : ~Selects(panel_call[c])) => True(selected)
      /\ \A c \in PanelCalls : Selects(panel_call[c]) => SelectionKnown(panel_call[c])
  BY DEF SelectionInv, DoubtKept
<1>2. True(selected)' <=> True(selected) BY DEF True, Panel!Dto, Panel!Shown, Panel!Nobody
<1>3. ASSUME NEW c \in PanelCalls, Selects(panel_call'[c]) PROVE SelectionKnown(panel_call[c])'
  <2>1. panel_call'[c] = panel_call[c] /\ SelectionKnown(panel_call[c]) BY <1>1, <1>3
  <2>2. /\ True(panel_call[c].was)' <=> True(panel_call[c].was)
        /\ True(panel_call[c].got)' <=> True(panel_call[c].got)
    BY <2>1 DEF True, Panel!Dto, Panel!Shown, Panel!Nobody
  <2> QED BY <1>2, <2>1, <2>2 DEF SelectionKnown, Classifying, Closing, Panel!Nobody
<1> QED BY <1>1, <1>2, <1>3

LEMMA SelectionMoves ==
  ASSUME SelectionInv, DoubtKept("selected"), NEW c \in PanelCalls, Only(c), Selects(panel_call[c]),
         "selected" \notin panel_doubt' /\ SelectionKnown(panel_call[c]) =>
           IF Selects(panel_call'[c]) THEN SelectionKnown(panel_call[c])' ELSE True(selected)'
  PROVE  SelectionInv'
<1> SUFFICES ASSUME "selected" \notin panel_doubt'
             PROVE  /\ \A d, e \in PanelCalls : Selects(panel_call'[d]) /\ Selects(panel_call'[e]) => d = e
                    /\ (\A d \in PanelCalls : ~Selects(panel_call'[d])) => True(selected)'
                    /\ \A d \in PanelCalls : Selects(panel_call'[d]) => SelectionKnown(panel_call[d])'
  BY DEF SelectionInv, Selects, Panel!Selecting
<1>1. /\ \A d \in PanelCalls \ {c} : ~Selects(panel_call[d])
      /\ SelectionKnown(panel_call[c])
  BY DEF SelectionInv, DoubtKept
<1>2. \A d \in PanelCalls \ {c} : ~Selects(panel_call'[d]) BY <1>1 DEF Only
<1> QED BY <1>1, <1>2

LEMMA SelectionStarts ==
  ASSUME SelectionInv, NEW c \in PanelCalls, Only(c), Selects(panel_call'[c]),
         "selected" \notin panel_doubt' =>
           /\ \A d \in PanelCalls : ~Selects(panel_call[d])
           /\ ("selected" \notin panel_doubt => True(selected)) => SelectionKnown(panel_call[c])'
  PROVE  SelectionInv'
<1> SUFFICES ASSUME "selected" \notin panel_doubt'
             PROVE  /\ \A d, e \in PanelCalls : Selects(panel_call'[d]) /\ Selects(panel_call'[e]) => d = e
                    /\ (\A d \in PanelCalls : ~Selects(panel_call'[d])) => True(selected)'
                    /\ \A d \in PanelCalls : Selects(panel_call'[d]) => SelectionKnown(panel_call[d])'
  BY DEF SelectionInv, Selects, Panel!Selecting
<1>1. \A d \in PanelCalls \ {c} : ~Selects(panel_call'[d]) BY DEF Only
<1>2. "selected" \notin panel_doubt => True(selected) BY DEF SelectionInv
<1> QED BY <1>1, <1>2

\* A call that counts as under way for its plan.
Works(l) == Selects(l) \/ l.op = "fetch"

LEMMA UnderwayIs ==
  Panel!Underway = {panel_call[c].plan : c \in {d \in PanelCalls : Works(panel_call[d])}} \cup {r.plan : r \in reads}
BY DEF Panel!Underway, Panel!InFlight, Works, Selects, Panel!Selecting

LEMMA UnderwayHas ==
  /\ \A c \in PanelCalls : Works(panel_call[c]) => panel_call[c].plan \in Panel!Underway
  /\ \A c \in PanelCalls : Clears(panel_call[c]) \/ Fills(panel_call[c]) => Works(panel_call[c])
  /\ \A r \in reads : r.plan \in Panel!Underway
  /\ Filling \subseteq Panel!Underway
<1>1. \A c \in PanelCalls : Clears(panel_call[c]) \/ Fills(panel_call[c]) => Works(panel_call[c])
  BY DEF Clears, Fills, Works, Selects, Panel!Selecting
<1>2. \A c \in PanelCalls : Works(panel_call[c]) => panel_call[c].plan \in Panel!Underway BY UnderwayIs
<1>3. \A r \in reads : r.plan \in Panel!Underway BY UnderwayIs
<1> QED BY <1>1, <1>2, <1>3 DEF Filling

\* What is under way comes from what was, and so do the panels.
LEMMA PanelsKept ==
  ASSUME PanelsInv, DoubtKept("panels"), Panel!Underway' \subseteq Panel!Underway,
         \A d \in PanelCalls : Clears(panel_call'[d]) =>
           Clears(panel_call[d]) /\ panel_call'[d].plan = panel_call[d].plan,
         Shows' \subseteq Shows \cup Panel!Underway,
         "panels" \notin panel_doubt' /\ Certain' => Filling' \cup Shows' \subseteq {selected'.id}
  PROVE  PanelsInv'
<1> SUFFICES ASSUME "panels" \notin panel_doubt'
             PROVE  /\ \A p, q \in Panel!Underway' : p = q
                    /\ \A d \in PanelCalls : Clears(panel_call'[d]) => Shows' \subseteq {panel_call'[d].plan}
  BY DEF PanelsInv, Clears
<1>1. /\ \A p, q \in Panel!Underway : p = q
      /\ \A d \in PanelCalls : Clears(panel_call[d]) => Shows \subseteq {panel_call[d].plan}
  BY DEF PanelsInv, DoubtKept
<1>2. ASSUME NEW d \in PanelCalls, Clears(panel_call'[d]) PROVE Shows' \subseteq {panel_call'[d].plan}
  <2>1. Clears(panel_call[d]) /\ panel_call'[d].plan = panel_call[d].plan BY <1>2
  <2>2. panel_call[d].plan \in Panel!Underway BY <2>1, UnderwayHas
  <2> QED BY <1>1, <2>1, <2>2
<1> QED BY <1>1, <1>2

\* Calls go on, and the plans they are for stay.
LEMMA PanelsSame ==
  ASSUME PanelsInv, DoubtKept("panels"), UNCHANGED <<panels, reads>>, selected'.id = selected.id,
         \A d \in PanelCalls : /\ panel_call'[d].op = panel_call[d].op /\ panel_call'[d].plan = panel_call[d].plan
                               /\ panel_call'[d].op = "get" => panel_call'[d].doubted = panel_call[d].doubted
  PROVE  PanelsInv'
<1>1. Panel!Underway' = Panel!Underway
  <2>1. Panel!InFlight(Panel!Selecting \cup {"fetch"})' = Panel!InFlight(Panel!Selecting \cup {"fetch"})
    BY DEF Panel!InFlight, Panel!Selecting
  <2>2. \A d \in Panel!InFlight(Panel!Selecting \cup {"fetch"}) : panel_call'[d].plan = panel_call[d].plan
    BY DEF Panel!InFlight
  <2> QED BY <2>1, <2>2 DEF Panel!Underway
<1>2. Filling' = Filling BY DEF Filling, Fills
<1>3. Shows' = Shows BY DEF Shows
<1>4. Certain' <=> Certain BY DEF Certain
<1>5. \A d \in PanelCalls : Clears(panel_call'[d]) <=> Clears(panel_call[d]) BY DEF Clears
<1>6. "panels" \notin panel_doubt' /\ Certain' => Filling' \cup Shows' \subseteq {selected'.id}
  BY <1>2, <1>3, <1>4 DEF PanelsInv, DoubtKept
<1> QED BY <1>1, <1>3, <1>5, <1>6, PanelsKept

\* The plans under way once a call has started.
LEMMA UnderwayStarts ==
  ASSUME NEW c \in PanelCalls, Only(c), reads' = reads
  PROVE  /\ Panel!Underway' \subseteq Panel!Underway \cup {panel_call'[c].plan}
         /\ Filling' \subseteq Filling \cup (IF Fills(panel_call'[c]) THEN {panel_call'[c].plan} ELSE {})
<1>1. Panel!Underway' \subseteq Panel!Underway \cup {panel_call'[c].plan}
  <2> DEFINE S == Panel!Selecting \cup {"fetch"}
  <2>1. Panel!InFlight(S)' \subseteq Panel!InFlight(S) \cup {c} BY DEF Panel!InFlight, Only, Panel!Selecting
  <2>2. \A d \in Panel!InFlight(S)' : d \in PanelCalls BY DEF Panel!InFlight
  <2>3. Panel!Underway' = {panel_call'[d].plan : d \in Panel!InFlight(S)'} \cup {r.plan : r \in reads'}
    BY DEF Panel!Underway, Panel!InFlight, Panel!Selecting
  <2>4. Panel!Underway = {panel_call[d].plan : d \in Panel!InFlight(S)} \cup {r.plan : r \in reads}
    BY DEF Panel!Underway
  <2> HIDE DEF S
  <2> QED BY <2>1, <2>2, <2>3, <2>4 DEF Only
<1>2. Filling' \subseteq Filling \cup (IF Fills(panel_call'[c]) THEN {panel_call'[c].plan} ELSE {})
  BY DEF Filling, Fills, Only
<1> QED BY <1>1, <1>2

\* A call starts that clears the panels.
LEMMA PanelsCleared ==
  ASSUME PanelsInv, NEW c \in PanelCalls, Only(c), reads' = reads, Clears(panel_call'[c]), Shows' = {},
         "panels" \notin panel_doubt' => Panel!Underway \subseteq {panel_call'[c].plan},
         "panels" \notin panel_doubt' /\ Certain' => Filling \subseteq {selected'.id}
  PROVE  PanelsInv'
<1>1. Filling' \subseteq Filling BY UnderwayStarts DEF Clears, Fills
<1>2. Panel!Underway' \subseteq Panel!Underway \cup {panel_call'[c].plan} BY UnderwayStarts
<1> QED BY <1>1, <1>2 DEF PanelsInv, Clears

\* A call starts for the selected plan.
LEMMA PanelsFill ==
  ASSUME PanelsInv, NEW c \in PanelCalls, Only(c), reads' = reads, panels' = panels, Fills(panel_call'[c]),
         DoubtKept("panels"), panel_call[c].op = "none",
         "panels" \notin panel_doubt' => Panel!Underway \subseteq {panel_call'[c].plan},
         panel_call'[c].plan = selected.id, selected'.id = selected.id
  PROVE  PanelsInv'
<1>1. Filling' \subseteq Filling \cup {selected.id} BY UnderwayStarts
<1>2. Panel!Underway' \subseteq Panel!Underway \cup {panel_call'[c].plan} BY UnderwayStarts
<1>3. Shows' = Shows BY DEF Shows
<1>4. Certain' => Certain BY DEF Certain, Only, Fills
<1>5. \A d \in PanelCalls : Clears(panel_call'[d]) => panel_call'[d] = panel_call[d]
  BY DEF Clears, Only, Fills
<1>6. ASSUME "panels" \notin panel_doubt'
      PROVE  /\ \A p, q \in Panel!Underway' : p = q
             /\ \A d \in PanelCalls : Clears(panel_call'[d]) => Shows' \subseteq {panel_call'[d].plan}
             /\ Certain' => Filling' \cup Shows' \subseteq {selected'.id}
  <2>1. "panels" \notin panel_doubt BY <1>6 DEF DoubtKept
  <2>2. \A p, q \in Panel!Underway' : p = q BY <1>2, <1>6
  <2>3. \A d \in PanelCalls : Clears(panel_call[d]) => Shows \subseteq {panel_call[d].plan} BY <2>1 DEF PanelsInv
  <2>4. Certain' => Filling' \cup Shows' \subseteq {selected'.id} BY <1>1, <1>3, <1>4, <2>1 DEF PanelsInv
  <2> QED BY <1>3, <1>5, <2>2, <2>3, <2>4
<1> QED BY <1>6 DEF PanelsInv, Clears

-----------------------------------------------------------------------------
(***************************************************************************)
(* Calls start.                                                            *)
(***************************************************************************)
\* What a call that starts puts in doubt, and what not any more.
LEMMA DoubtStarts ==
  ASSUME NEW op \in {"get", "fetch", "filter", "accept", "reject", "classify", "reclassify"}, NEW p,
         panel_doubt' = (panel_doubt \ Panel!Refreshes[op]) \cup Panel!Met(op, p)
  PROVE  /\ IF op \in Panel!Listing
            THEN "recent" \notin panel_doubt' => \A d \in PanelCalls : ~Lists(panel_call[d])
            ELSE DoubtKept("recent")
         /\ IF op \in Panel!Selecting
            THEN "selected" \notin panel_doubt' => \A d \in PanelCalls : ~Selects(panel_call[d])
            ELSE DoubtKept("selected")
         /\ op \notin {"get", "classify", "reclassify"} => DoubtKept("panels")
         /\ op # "filter" => ("panels" \notin panel_doubt' => Panel!Underway \subseteq {p})
<1>1. "recent" \in Panel!Met(op, p) <=> op \in Panel!Listing /\ Panel!InFlight(Panel!Listing) # {} BY DEF Panel!Met
<1>2. "selected" \in Panel!Met(op, p) <=> op \in Panel!Selecting /\ Panel!InFlight(Panel!Selecting) # {}
  BY DEF Panel!Met
<1>3. "panels" \in Panel!Met(op, p) <=> op # "filter" /\ Panel!Underway \ {p} # {} BY DEF Panel!Met
<1>4. /\ "recent" \in Panel!Refreshes[op] => op \in Panel!Listing
      /\ "selected" \in Panel!Refreshes[op] => op \in Panel!Selecting
      /\ "panels" \in Panel!Refreshes[op] => op \in {"get", "classify", "reclassify"}
  BY DEF Panel!Refreshes, Panel!Listing, Panel!Selecting
<1>5. Panel!InFlight(Panel!Listing) = {} => \A d \in PanelCalls : ~Lists(panel_call[d]) BY DEF Panel!InFlight, Lists
<1>6. Panel!InFlight(Panel!Selecting) = {} => \A d \in PanelCalls : ~Selects(panel_call[d])
  BY DEF Panel!InFlight, Selects
<1>7. IF op \in Panel!Listing
      THEN "recent" \notin panel_doubt' => \A d \in PanelCalls : ~Lists(panel_call[d])
      ELSE DoubtKept("recent")
  BY <1>1, <1>4, <1>5 DEF DoubtKept
<1>8. IF op \in Panel!Selecting
      THEN "selected" \notin panel_doubt' => \A d \in PanelCalls : ~Selects(panel_call[d])
      ELSE DoubtKept("selected")
  BY <1>2, <1>4, <1>6 DEF DoubtKept
<1>9. op \notin {"get", "classify", "reclassify"} => DoubtKept("panels") BY <1>4 DEF DoubtKept
<1>10. op # "filter" => ("panels" \notin panel_doubt' => Panel!Underway \subseteq {p}) BY <1>3
<1> QED BY <1>7, <1>8, <1>9, <1>10

LEMMA StartsWith ==
  ASSUME PanelTypes, NEW c \in PanelCalls, NEW r, Whole(r), Panel!Starts(c, r)
  PROVE  /\ panel_call[c].op = "none" /\ panel_call[c].pc = "idle"
         /\ Only(c) /\ Whole(panel_call'[c]) /\ panel_call'[c].doubted = panel_doubt
         /\ panel_call'[c].op = r.op /\ panel_call'[c].pc = r.pc /\ panel_call'[c].plan = r.plan
         /\ panel_call'[c].note = r.note /\ panel_call'[c].was = r.was /\ panel_call'[c].got = r.got
         /\ panel_call'[c].filter = r.filter
         /\ panel_doubt' = (panel_doubt \ Panel!Refreshes[r.op]) \cup Panel!Met(r.op, r.plan)
         /\ UNCHANGED <<rows, list, reads, panel_errors>>
<1> DEFINE m == [r EXCEPT !.doubted = panel_doubt]
<1>1. /\ panel_call[c] = Panel!Idle /\ panel_call' = [panel_call EXCEPT ![c] = m]
      /\ panel_doubt' = (panel_doubt \ Panel!Refreshes[r.op]) \cup Panel!Met(r.op, r.plan)
      /\ UNCHANGED <<rows, list, reads, panel_errors>>
  BY DEF Panel!Starts
<1>2. panel_call[c].op = "none" /\ panel_call[c].pc = "idle" BY <1>1 DEF Panel!Idle
<1>3. m = [op |-> r.op, pc |-> r.pc, plan |-> r.plan, note |-> r.note, was |-> r.was, got |-> r.got,
           filter |-> r.filter, listed |-> r.listed, doubted |-> panel_doubt]
  BY FieldSet
<1> HIDE DEF m
<1>4. Only(c) /\ panel_call'[c] = m BY <1>1, Becomes DEF PanelTypes
<1>5. /\ Whole(m) /\ m.doubted = panel_doubt /\ m.op = r.op /\ m.pc = r.pc /\ m.plan = r.plan
      /\ m.note = r.note /\ m.was = r.was /\ m.got = r.got /\ m.filter = r.filter
  BY <1>3 DEF Whole
<1> QED BY <1>1, <1>2, <1>4, <1>5

LEMMA ShownFields ==
  /\ \A p, status, note : LET s == Panel!Shown(p, status, note)
                         IN  IsShown(s) /\ s.id = p /\ s.status = status /\ s.note = note
  /\ IsShown(Panel!Nobody) /\ Panel!Nobody.id = 0 /\ Panel!Nobody.status = "none"
BY DEF Panel!Shown, IsShown, Panel!Nobody

\* Only a plan that there is has a number.
LEMMA PlanNumbers == ASSUME rows \in Seq(Panel!PlanRow) PROVE Plans \subseteq Nat \ {0} /\ Panel!Nobody.id = 0
BY DEF Plans, Panel!Nobody, Panel!Shown

\* The panels are emptied.
LEMMA ClearedTypes ==
  ASSUME panels' = Panel!Cleared
  PROVE  panels' \in [report : Nat, recipes : Nat, records : Nat] /\ panels'.records = 0 /\ Shows' = {}
BY DEF Panel!Cleared, Shows

LEMMA SelectPlanKeeps ==
  ASSUME PanelInv, NEW c \in PanelCalls, Panel!selectPlan(c) PROVE PanelInv'
<1>1. PICK p \in DOMAIN list :
        /\ panels' = Panel!Cleared /\ Panel!Starts(c, Panel!Call("get", "read", p))
        /\ UNCHANGED <<selected, dialog, statusFilter>>
  BY DEF Panel!selectPlan
<1> DEFINE r == Panel!Call("get", "read", p)
<1>2. /\ Whole(r) /\ r.op = "get" /\ r.pc = "read" /\ r.plan = p
      /\ r.note = NoReason /\ r.was = Panel!Nobody /\ r.got = Panel!Nobody
  BY CallFields DEF PanelCall, Whole
<1> HIDE DEF r
<1>3. Panel!Starts(c, r) BY <1>1 DEF r
<1>4. /\ panel_call[c].op = "none" /\ panel_call[c].pc = "idle"
      /\ Only(c) /\ Whole(panel_call'[c]) /\ panel_call'[c].doubted = panel_doubt
      /\ panel_call'[c].op = "get" /\ panel_call'[c].pc = "read" /\ panel_call'[c].plan = p
      /\ panel_call'[c].note = NoReason /\ panel_call'[c].was = Panel!Nobody /\ panel_call'[c].got = Panel!Nobody
      /\ panel_doubt' = (panel_doubt \ Panel!Refreshes["get"]) \cup Panel!Met("get", p)
      /\ UNCHANGED <<rows, list, reads, panel_errors>>
  BY <1>2, <1>3, StartsWith DEF PanelInv
<1>5. /\ DoubtKept("recent")
      /\ "selected" \notin panel_doubt' => \A d \in PanelCalls : ~Selects(panel_call[d])
      /\ "panels" \notin panel_doubt' => Panel!Underway \subseteq {p}
  BY <1>4, DoubtStarts DEF Panel!Listing, Panel!Selecting
<1>6. p \in Plans BY DEF PanelInv, PanelTypes
<1>7. PanelTypes'
  <2>1. PanelCallTyped(Plans, panel_call'[c]) BY <1>4, <1>6, ShownFields DEF PanelCallTyped, Whole
  <2> QED BY <1>1, <1>4, <2>1, ClearedTypes, TypesStep DEF PanelInv, PanelTypes, Plans
<1>8. OneClassifies' BY <1>4, ClassifyStep DEF PanelInv, Classifying
<1>9. ListInv' BY <1>1, <1>4, <1>5, ListElsewhere DEF PanelInv, Lists, Panel!Listing, Only
<1>10. SelectionInv'
  <2>1. Selects(panel_call'[c]) BY <1>4 DEF Selects, Panel!Selecting
  <2>2. ("selected" \notin panel_doubt => True(selected)) => SelectionKnown(panel_call[c])'
    <3>1. True(selected)' <=> True(selected) BY <1>1, <1>4 DEF True, Panel!Dto, Panel!Shown, Panel!Nobody
    <3> QED BY <1>4, <3>1 DEF SelectionKnown, Classifying, Closing
  <2> QED BY <1>4, <1>5, <2>1, <2>2, SelectionStarts DEF PanelInv
<1>11. PanelsInv'
  <2>1. Clears(panel_call'[c]) BY <1>4 DEF Clears
  <2>2. ASSUME "panels" \notin panel_doubt', Certain' PROVE Filling \subseteq {selected'.id}
    <3>1. "panels" \notin panel_doubt BY <1>4, <2>2 DEF Certain
    <3>2. Certain BY <1>4, <2>2 DEF Certain, Only
    <3> QED BY <1>1, <3>1, <3>2 DEF PanelInv, PanelsInv
  <2> QED BY <1>1, <1>4, <1>5, <2>1, <2>2, ClearedTypes, PanelsCleared DEF PanelInv
<1> QED BY <1>7, <1>8, <1>9, <1>10, <1>11 DEF PanelInv

\* A call that is for a filter, or that knows what was selected.
WithFilter(op, pc, p, f) == [Panel!Call(op, pc, p) EXCEPT !.filter = f]
WithWas(op, pc, p, s)    == [Panel!Call(op, pc, p) EXCEPT !.was = s]
WithNote(op, pc, p, n, s) == [Panel!Call(op, pc, p) EXCEPT !.note = n, !.was = s]

LEMMA CallWithFilter ==
  ASSUME NEW op, NEW pc, NEW p, NEW f, NEW r, r = WithFilter(op, pc, p, f)
  PROVE  /\ Whole(r) /\ r.op = op /\ r.pc = pc /\ r.plan = p /\ r.was = Panel!Nobody /\ r.got = Panel!Nobody
         /\ r.note = NoReason /\ r.filter = f /\ r.doubted = {}
<1> DEFINE i == Panel!Call(op, pc, p)
<1>1. i = PanelCall(op, pc, p) BY CallFields
<1> HIDE DEF i
<1>2. /\ Whole(i) /\ i.op = op /\ i.pc = pc /\ i.plan = p /\ i.was = Panel!Nobody /\ i.got = Panel!Nobody
      /\ i.note = NoReason /\ i.doubted = {}
  BY <1>1 DEF PanelCall, Whole
<1>3. r = [i EXCEPT !.filter = f] BY DEF i, WithFilter
<1>4. r = [op |-> i.op, pc |-> i.pc, plan |-> i.plan, note |-> i.note, was |-> i.was, got |-> i.got,
           filter |-> f, listed |-> i.listed, doubted |-> i.doubted]
  BY <1>2, <1>3, FieldSet
<1> QED BY <1>2, <1>4 DEF Whole

LEMMA CallWithWas ==
  ASSUME NEW op, NEW pc, NEW p, NEW s, NEW r, r = WithWas(op, pc, p, s)
  PROVE  r.note = NoReason /\ Whole(r) /\ r.op = op /\ r.pc = pc /\ r.plan = p /\ r.was = s /\ r.got = Panel!Nobody
<1> DEFINE i == Panel!Call(op, pc, p)
<1>1. i = PanelCall(op, pc, p) BY CallFields
<1> HIDE DEF i
<1>2. i.note = NoReason /\ Whole(i) /\ i.op = op /\ i.pc = pc /\ i.plan = p /\ i.got = Panel!Nobody BY <1>1 DEF PanelCall, Whole
<1>3. r = [i EXCEPT !.was = s] BY DEF i, WithWas
<1>4. r = [op |-> i.op, pc |-> i.pc, plan |-> i.plan, note |-> i.note, was |-> s, got |-> i.got,
           filter |-> i.filter, listed |-> i.listed, doubted |-> i.doubted]
  BY <1>2, <1>3, FieldSet
<1> QED BY <1>2, <1>4 DEF Whole

LEMMA CallWithNote ==
  ASSUME NEW op, NEW pc, NEW p, NEW n, NEW s, NEW r, r = WithNote(op, pc, p, n, s)
  PROVE  r.note = n /\ Whole(r) /\ r.op = op /\ r.pc = pc /\ r.plan = p /\ r.was = s /\ r.got = Panel!Nobody
<1> DEFINE i == Panel!Call(op, pc, p)  d == [i EXCEPT !.note = n]
<1>1. i = PanelCall(op, pc, p) BY CallFields
<1>2. r = [d EXCEPT !.was = s] BY DEF WithNote
<1> HIDE DEF i
<1>3. Whole(i) /\ i.op = op /\ i.pc = pc /\ i.plan = p /\ i.got = Panel!Nobody BY <1>1 DEF PanelCall, Whole
<1>4. d = [op |-> i.op, pc |-> i.pc, plan |-> i.plan, note |-> n, was |-> i.was, got |-> i.got,
           filter |-> i.filter, listed |-> i.listed, doubted |-> i.doubted]
  BY <1>3, FieldSet
<1> HIDE DEF d
<1>5. d.note = n /\ Whole(d) /\ d.op = op /\ d.pc = pc /\ d.plan = p /\ d.got = Panel!Nobody BY <1>3, <1>4 DEF Whole
<1>6. r = [op |-> d.op, pc |-> d.pc, plan |-> d.plan, note |-> d.note, was |-> s, got |-> d.got,
           filter |-> d.filter, listed |-> d.listed, doubted |-> d.doubted]
  BY <1>2, <1>5, FieldSet
<1> QED BY <1>5, <1>6 DEF Whole

\* A step of a call that has no plan's panels to fill or clear.
LEMMA PanelsElsewhere ==
  ASSUME PanelsInv, DoubtKept("panels"), UNCHANGED <<panels, reads>>, selected'.id = selected.id,
         \A d \in PanelCalls : \/ panel_call'[d] = panel_call[d]
                               \/ ~Works(panel_call[d]) /\ ~Works(panel_call'[d])
  PROVE  PanelsInv'
<1>1. Panel!Underway' = Panel!Underway
  <2>1. Panel!Underway' = {panel_call'[d].plan : d \in {e \in PanelCalls : Works(panel_call'[e])}} \cup {r.plan : r \in reads'}
    BY DEF Panel!Underway, Panel!InFlight, Works, Selects, Panel!Selecting
  <2> QED BY <2>1, UnderwayIs
<1>2. \A d \in PanelCalls : (Fills(panel_call'[d]) \/ Clears(panel_call'[d]) \/ Fills(panel_call[d]) \/ Clears(panel_call[d]))
                               => panel_call'[d] = panel_call[d]
  BY DEF Fills, Clears, Works, Selects, Panel!Selecting
<1>3. Filling' = Filling
  <2>1. {panel_call'[d].plan : d \in {e \in PanelCalls : Fills(panel_call'[e])}}
        = {panel_call[d].plan : d \in {e \in PanelCalls : Fills(panel_call[e])}}
    BY <1>2
  <2> QED BY <2>1 DEF Filling, Fills
<1>4. Shows' = Shows BY DEF Shows
<1>5. Certain' => Certain BY <1>2 DEF Certain, Clears
<1>6. "panels" \notin panel_doubt' /\ Certain' => Filling' \cup Shows' \subseteq {selected'.id}
  BY <1>3, <1>4, <1>5 DEF PanelsInv, DoubtKept
<1> QED BY <1>1, <1>2, <1>4, <1>6, PanelsKept

LEMMA SetStatusFilterKeeps ==
  ASSUME PanelInv, NEW c \in PanelCalls, Panel!setStatusFilter(c) PROVE PanelInv'
<1>1. PICK f \in Filters :
        /\ statusFilter' = f /\ Panel!Starts(c, [Panel!Call("filter", "list", 0) EXCEPT !.filter = f])
        /\ UNCHANGED <<selected, dialog, panels>>
  BY DEF Panel!setStatusFilter
<1>0. PICK r : r = WithFilter("filter", "list", 0, f) OBVIOUS
<1>2. /\ Whole(r) /\ r.op = "filter" /\ r.pc = "list" /\ r.plan = 0
      /\ r.note = NoReason /\ r.was = Panel!Nobody /\ r.got = Panel!Nobody /\ r.filter = f
  BY <1>0, CallWithFilter
<1>3. Panel!Starts(c, r) BY <1>0, <1>1 DEF WithFilter
<1>4. /\ panel_call[c].op = "none" /\ panel_call[c].pc = "idle"
      /\ Only(c) /\ Whole(panel_call'[c]) /\ panel_call'[c].doubted = panel_doubt
      /\ panel_call'[c].op = "filter" /\ panel_call'[c].pc = "list" /\ panel_call'[c].plan = 0
      /\ panel_call'[c].note = NoReason /\ panel_call'[c].was = Panel!Nobody /\ panel_call'[c].got = Panel!Nobody
      /\ panel_call'[c].filter = f
      /\ panel_doubt' = (panel_doubt \ Panel!Refreshes["filter"]) \cup Panel!Met("filter", 0)
      /\ UNCHANGED <<rows, list, reads, panel_errors>>
  BY <1>2, <1>3, StartsWith DEF PanelInv
<1>5. /\ "recent" \notin panel_doubt' => \A d \in PanelCalls : ~Lists(panel_call[d])
      /\ DoubtKept("selected") /\ DoubtKept("panels")
  BY <1>4, DoubtStarts DEF Panel!Listing, Panel!Selecting
<1>6. PanelTypes'
  <2>1. PanelCallTyped(Plans, panel_call'[c]) BY <1>4, ShownFields DEF PanelCallTyped, Whole, Closing
  <2> QED BY <1>1, <1>4, <2>1, TypesStep DEF PanelInv, PanelTypes, Plans
<1>7. OneClassifies' BY <1>4, ClassifyStep DEF PanelInv, Classifying
<1>8. ListInv'
  <2>1. Lists(panel_call'[c]) BY <1>4 DEF Lists, Panel!Listing
  <2>2. ListKnown(panel_call[c])' BY <1>1, <1>4 DEF ListKnown
  <2> QED BY <1>4, <1>5, <2>1, <2>2, ListStarts DEF PanelInv
<1>9. SelectionInv' BY <1>1, <1>4, <1>5, SelectionElsewhere DEF PanelInv, Selects, Panel!Selecting, Only
<1>10. PanelsInv'
  <2>1. ~Works(panel_call[c]) /\ ~Works(panel_call'[c]) BY <1>4 DEF Works, Selects, Panel!Selecting
  <2> QED BY <1>1, <1>4, <1>5, <2>1, PanelsElsewhere DEF PanelInv, Only
<1> QED BY <1>6, <1>7, <1>8, <1>9, <1>10 DEF PanelInv

\* The panels are emptied, and nothing is selected, until the new plan is there.
LEMMA ClassifyStarts ==
  ASSUME PanelInv, NEW c \in PanelCalls, NEW r, Whole(r), r.note \in Reasons \cup {NoReason},
         IsShown(r.was), r.got = Panel!Nobody, Panel!Starts(c, r),
         r.plan = 0, \/ r.op = "classify" /\ r.pc = "insert"
                     \/ r.op = "reclassify" /\ r.pc = "check" /\ r.was.id \in Plans,
         ~Panel!classifying, selected' = Panel!Nobody, dialog' = "none", panels' = Panel!Cleared,
         UNCHANGED statusFilter
  PROVE  PanelInv'
<1>1. /\ panel_call[c].op = "none" /\ panel_call[c].pc = "idle"
      /\ Only(c) /\ Whole(panel_call'[c]) /\ panel_call'[c].doubted = panel_doubt
      /\ panel_call'[c].op = r.op /\ panel_call'[c].pc = r.pc /\ panel_call'[c].plan = 0
      /\ panel_call'[c].note = r.note /\ panel_call'[c].was = r.was /\ panel_call'[c].got = Panel!Nobody
      /\ panel_doubt' = (panel_doubt \ Panel!Refreshes[r.op]) \cup Panel!Met(r.op, 0)
      /\ UNCHANGED <<rows, list, reads, panel_errors>>
  BY StartsWith DEF PanelInv
<1>2. /\ "recent" \notin panel_doubt' => \A d \in PanelCalls : ~Lists(panel_call[d])
      /\ "selected" \notin panel_doubt' => \A d \in PanelCalls : ~Selects(panel_call[d])
      /\ "panels" \notin panel_doubt' => Panel!Underway \subseteq {0}
  BY <1>1, DoubtStarts DEF Panel!Listing, Panel!Selecting
<1>3. PanelTypes'
  <2>1. PanelCallTyped(Plans, panel_call'[c]) BY <1>1, ShownFields DEF PanelCallTyped, Whole, Closing
  <2>2. Exists(Plans, selected') BY ShownFields DEF Exists
  <2> QED BY <1>1, <2>1, <2>2, ClearedTypes, TypesStep DEF PanelInv, PanelTypes, Plans
<1>4. OneClassifies'
  <2>1. \A d \in PanelCalls : ~Classifying(panel_call[d]) BY DEF Panel!classifying, Panel!InFlight, Classifying
  <2> QED BY <1>1, <2>1, ClassifyStep DEF PanelInv
<1>5. ListInv'
  <2>1. Lists(panel_call'[c]) BY <1>1 DEF Lists, Panel!Listing
  <2>2. ("recent" \notin panel_doubt => list = Panel!Matching(statusFilter)) => ListKnown(panel_call[c])'
    <3>1. Panel!Matching(statusFilter)' = Panel!Matching(statusFilter) BY <1>1 DEF Panel!Matching
    <3> QED BY <1>1, <3>1 DEF ListKnown
  <2> QED BY <1>1, <1>2, <2>1, <2>2, ListStarts DEF PanelInv
<1>6. SelectionInv'
  <2>1. Selects(panel_call'[c]) BY <1>1 DEF Selects, Panel!Selecting
  <2>2. SelectionKnown(panel_call[c])' BY <1>1 DEF SelectionKnown, Classifying, Closing, Panel!Nobody
  <2> QED BY <1>1, <1>2, <2>1, <2>2, SelectionStarts DEF PanelInv
<1>7. PanelsInv'
  <2>1. Clears(panel_call'[c]) BY <1>1 DEF Clears
  <2>2. "panels" \notin panel_doubt' => Filling \subseteq {selected'.id}
    BY <1>2, UnderwayHas, ShownFields
  <2> QED BY <1>1, <1>2, <2>1, <2>2, ClearedTypes, PanelsCleared DEF PanelInv
<1> QED BY <1>3, <1>4, <1>5, <1>6, <1>7 DEF PanelInv

LEMMA ClassifyTopicKeeps ==
  ASSUME PanelInv, NEW c \in PanelCalls, Panel!classifyTopic(c) PROVE PanelInv'
<1> DEFINE r == Panel!Call("classify", "insert", 0)
<1>1. /\ ~Panel!classifying /\ selected' = Panel!Nobody /\ dialog' = "none" /\ panels' = Panel!Cleared
      /\ Panel!Starts(c, r) /\ UNCHANGED statusFilter
  BY DEF Panel!classifyTopic
<1>2. /\ Whole(r) /\ r.op = "classify" /\ r.pc = "insert" /\ r.plan = 0
      /\ r.note = NoReason /\ r.was = Panel!Nobody /\ r.got = Panel!Nobody
  BY CallFields DEF PanelCall, Whole
<1> HIDE DEF r
<1> QED BY <1>1, <1>2, ShownFields, ClassifyStarts

LEMMA ReclassifySelectedKeeps ==
  ASSUME PanelInv, NEW c \in PanelCalls, Panel!reclassifySelected(c) PROVE PanelInv'
<1>1. PICK n \in Reasons \cup {NoReason} :
        /\ ~Panel!classifying /\ selected.status = "rejected"
        /\ selected' = Panel!Nobody /\ dialog' = "none" /\ panels' = Panel!Cleared
        /\ Panel!Starts(c, [Panel!Call("reclassify", "check", 0) EXCEPT !.note = n, !.was = selected])
        /\ UNCHANGED statusFilter
  BY DEF Panel!reclassifySelected
<1>0. PICK r : r = WithNote("reclassify", "check", 0, n, selected) OBVIOUS
<1>2. /\ Whole(r) /\ r.op = "reclassify" /\ r.pc = "check" /\ r.plan = 0
      /\ r.note = n /\ r.was = selected /\ r.got = Panel!Nobody
  BY <1>0, CallWithNote
<1>3. Panel!Starts(c, r) BY <1>0, <1>1 DEF WithNote
<1>4. IsShown(selected) /\ selected.id \in Plans BY <1>1, ShownFields DEF PanelInv, PanelTypes, Exists
<1> QED BY <1>1, <1>2, <1>3, <1>4, ClassifyStarts

\* What is selected is shown as it is going to be.
LEMMA TransitionStarts ==
  ASSUME PanelInv, NEW c \in PanelCalls, NEW r, Whole(r), r.note \in Reasons \cup {NoReason}, r.got = Panel!Nobody, Panel!Starts(c, r),
         r.op \in {"accept", "reject"}, r.pc = "write", r.plan = selected.id, r.was = selected,
         selected # Panel!Nobody, IsShown(selected'), selected'.id = selected.id,
         UNCHANGED <<dialog, statusFilter, panels>>
  PROVE  PanelInv'
<1>1. /\ panel_call[c].op = "none" /\ panel_call[c].pc = "idle"
      /\ Only(c) /\ Whole(panel_call'[c]) /\ panel_call'[c].doubted = panel_doubt
      /\ panel_call'[c].op = r.op /\ panel_call'[c].pc = "write" /\ panel_call'[c].plan = selected.id
      /\ panel_call'[c].note = r.note /\ panel_call'[c].was = selected /\ panel_call'[c].got = Panel!Nobody
      /\ panel_doubt' = (panel_doubt \ Panel!Refreshes[r.op]) \cup Panel!Met(r.op, selected.id)
      /\ UNCHANGED <<rows, list, reads, panel_errors>>
  BY StartsWith DEF PanelInv
<1>2. /\ "recent" \notin panel_doubt' => \A d \in PanelCalls : ~Lists(panel_call[d])
      /\ "selected" \notin panel_doubt' => \A d \in PanelCalls : ~Selects(panel_call[d])
      /\ DoubtKept("panels")
      /\ "panels" \notin panel_doubt' => Panel!Underway \subseteq {selected.id}
  BY <1>1, DoubtStarts DEF Panel!Listing, Panel!Selecting
<1>3. IsShown(selected) /\ selected.id \in Plans BY DEF PanelInv, PanelTypes, Exists
<1>4. PanelTypes'
  <2>1. PanelCallTyped(Plans, panel_call'[c]) BY <1>1, <1>3, ShownFields DEF PanelCallTyped, Whole, Closing
  <2>2. Exists(Plans, selected') BY <1>3 DEF Exists
  <2>3. selected' # Panel!Nobody BY <1>3, PlanNumbers DEF PanelInv, PanelTypes
  <2> QED BY <1>1, <2>1, <2>2, <2>3, TypesStep DEF PanelInv, PanelTypes, Plans
<1>5. OneClassifies' BY <1>1, ClassifyStep DEF PanelInv, Classifying
<1>6. ListInv'
  <2>1. Lists(panel_call'[c]) BY <1>1 DEF Lists, Panel!Listing
  <2>2. ("recent" \notin panel_doubt => list = Panel!Matching(statusFilter)) => ListKnown(panel_call[c])'
    <3>1. Panel!Matching(statusFilter)' = Panel!Matching(statusFilter) BY <1>1 DEF Panel!Matching
    <3> QED BY <1>1, <3>1 DEF ListKnown
  <2> QED BY <1>1, <1>2, <2>1, <2>2, ListStarts DEF PanelInv
<1>7. SelectionInv'
  <2>1. Selects(panel_call'[c]) BY <1>1 DEF Selects, Panel!Selecting
  <2>2. ("selected" \notin panel_doubt => True(selected)) => SelectionKnown(panel_call[c])'
    <3>1. True(selected) => True(panel_call[c].was)'
      BY <1>1 DEF True, Panel!Dto, Panel!Shown, Panel!Nobody
    <3> QED BY <1>1, <3>1 DEF SelectionKnown, Classifying, Closing
  <2> QED BY <1>1, <1>2, <2>1, <2>2, SelectionStarts DEF PanelInv
<1>8. PanelsInv'
  <2>1. Fills(panel_call'[c]) BY <1>1 DEF Fills
  <2> QED BY <1>1, <1>2, <2>1, PanelsFill DEF PanelInv
<1> QED BY <1>4, <1>5, <1>6, <1>7, <1>8 DEF PanelInv

LEMMA AcceptSelectedKeeps ==
  ASSUME PanelInv, NEW c \in PanelCalls, Panel!acceptSelected(c) PROVE PanelInv'
<1>1. /\ selected.status = "pending" /\ selected' = [selected EXCEPT !.status = "accepted"]
      /\ Panel!Starts(c, WithWas("accept", "write", selected.id, selected))
      /\ UNCHANGED <<dialog, statusFilter, panels>>
  BY DEF Panel!acceptSelected, WithWas
<1>2. PICK r : r = WithWas("accept", "write", selected.id, selected) OBVIOUS
<1>3. /\ Whole(r) /\ r.op = "accept" /\ r.pc = "write" /\ r.plan = selected.id /\ r.was = selected
      /\ r.note = NoReason /\ r.got = Panel!Nobody
  BY <1>2, CallWithWas
<1>4. selected # Panel!Nobody /\ IsShown(selected) BY <1>1, ShownFields DEF PanelInv, PanelTypes, Exists
<1>5. selected' = Panel!Shown(selected.id, "accepted", selected.note)
  BY <1>1, <1>4 DEF IsShown, Panel!Shown
<1>6. IsShown(selected') /\ selected'.id = selected.id BY <1>5, ShownFields
<1> QED BY <1>1, <1>2, <1>3, <1>4, <1>6, TransitionStarts

LEMMA RejectSelectedKeeps ==
  ASSUME PanelInv, NEW c \in PanelCalls, Panel!rejectSelected(c) PROVE PanelInv'
<1>1. PICK n \in Reasons \cup {NoReason} :
        /\ dialog = "reject" /\ selected' = Panel!Shown(selected.id, "rejected", n)
        /\ Panel!Starts(c, WithNote("reject", "write", selected.id, n, selected))
        /\ UNCHANGED <<dialog, statusFilter, panels>>
  BY DEF Panel!rejectSelected, WithNote
<1>2. PICK r : r = WithNote("reject", "write", selected.id, n, selected) OBVIOUS
<1>3. /\ Whole(r) /\ r.op = "reject" /\ r.pc = "write" /\ r.plan = selected.id /\ r.was = selected
      /\ r.note = n /\ r.got = Panel!Nobody
  BY <1>2, CallWithNote
<1>4. selected # Panel!Nobody BY <1>1 DEF PanelInv, PanelTypes
<1>5. IsShown(selected') /\ selected'.id = selected.id BY <1>1, ShownFields
<1> QED BY <1>1, <1>2, <1>3, <1>4, <1>5, TransitionStarts

LEMMA RunFetchKeeps ==
  ASSUME PanelInv, NEW c \in PanelCalls, Panel!runFetch(c) PROVE PanelInv'
<1> DEFINE r == Panel!Call("fetch", "prepare", selected.id)
<1>1. selected.status = "accepted" /\ Panel!Starts(c, r) /\ UNCHANGED <<selected, dialog, statusFilter, panels>>
  BY DEF Panel!runFetch
<1>2. /\ Whole(r) /\ r.op = "fetch" /\ r.pc = "prepare" /\ r.plan = selected.id
      /\ r.note = NoReason /\ r.was = Panel!Nobody /\ r.got = Panel!Nobody
  BY CallFields DEF PanelCall, Whole
<1> HIDE DEF r
<1>3. /\ panel_call[c].op = "none" /\ panel_call[c].pc = "idle"
      /\ Only(c) /\ Whole(panel_call'[c])
      /\ panel_call'[c].op = "fetch" /\ panel_call'[c].pc = "prepare" /\ panel_call'[c].plan = selected.id
      /\ panel_call'[c].note = NoReason /\ panel_call'[c].was = Panel!Nobody /\ panel_call'[c].got = Panel!Nobody
      /\ panel_doubt' = (panel_doubt \ Panel!Refreshes["fetch"]) \cup Panel!Met("fetch", selected.id)
      /\ UNCHANGED <<rows, list, reads, panel_errors>>
  BY <1>1, <1>2, StartsWith DEF PanelInv
<1>4. /\ DoubtKept("recent") /\ DoubtKept("selected") /\ DoubtKept("panels")
      /\ "panels" \notin panel_doubt' => Panel!Underway \subseteq {selected.id}
  BY <1>3, DoubtStarts DEF Panel!Listing, Panel!Selecting
<1>5. selected.id \in Plans BY <1>1, ShownFields DEF PanelInv, PanelTypes, Exists
<1>6. PanelTypes'
  <2>1. PanelCallTyped(Plans, panel_call'[c]) BY <1>3, <1>5, ShownFields DEF PanelCallTyped, Whole, Closing
  <2> QED BY <1>1, <1>3, <2>1, TypesStep DEF PanelInv, PanelTypes, Plans
<1>7. OneClassifies' BY <1>3, ClassifyStep DEF PanelInv, Classifying
<1>8. ListInv' BY <1>1, <1>3, <1>4, ListElsewhere DEF PanelInv, Lists, Panel!Listing, Only
<1>9. SelectionInv' BY <1>1, <1>3, <1>4, SelectionElsewhere DEF PanelInv, Selects, Panel!Selecting, Only
<1>10. PanelsInv'
  <2>1. Fills(panel_call'[c]) BY <1>3 DEF Fills
  <2> QED BY <1>1, <1>3, <1>4, <2>1, PanelsFill DEF PanelInv
<1> QED BY <1>6, <1>7, <1>8, <1>9, <1>10 DEF PanelInv

\* No call takes the step, and the table and the list stay as they are.
LEMMA NoCallSteps ==
  ASSUME PanelInv, UNCHANGED <<rows, selected, statusFilter, list, panel_call, panel_doubt>>,
         dialog' # "none" => selected # Panel!Nobody, panels' \in [report : Nat, recipes : Nat, records : Nat],
         \A r \in reads' : r.plan \in Plans /\ r.panel \in {"recipes", "records"},
         panels'.records # 0 => panels'.records \in Plans /\ rows[panels'.records].status # "pending",
         PanelsInv'
  PROVE  PanelInv'
<1>1. PanelTypes'
  BY DEF PanelInv, PanelTypes, PanelCallTyped, Exists, Closing, Panel!Nobody, Plans, IsShown, Panel!Shown
<1>2. OneClassifies' BY DEF PanelInv, OneClassifies
<1>3. DoubtKept("recent") /\ DoubtKept("selected") BY DEF DoubtKept
<1>4. ListInv' BY <1>3, ListElsewhere DEF PanelInv
<1>5. SelectionInv' BY <1>3, SelectionElsewhere DEF PanelInv
<1> QED BY <1>1, <1>2, <1>4, <1>5 DEF PanelInv

LEMMA DialogKeeps ==
  ASSUME PanelInv,
         \/ Panel!open_dialog \/ Panel!cancel_dialog
         \/ UNCHANGED <<rows, selected, dialog, statusFilter, list, panels, reads, panel_call, clicks, panel_errors,
                        panel_doubt>>
  PROVE  PanelInv'
<1>1. /\ UNCHANGED <<rows, selected, statusFilter, list, panels, reads, panel_call, panel_doubt>>
      /\ dialog' # "none" => selected # Panel!Nobody
  BY ShownFields DEF Panel!open_dialog, Panel!cancel_dialog, PanelInv, PanelTypes
<1>2. PanelsInv' BY <1>1, PanelsSame DEF PanelInv, DoubtKept
<1> QED BY <1>1, <1>2, NoCallSteps DEF PanelInv, PanelTypes

LEMMA BackgroundReadKeeps ==
  ASSUME PanelInv, NEW r \in reads, Panel!refresh(r) PROVE PanelInv'
<1>1. /\ UNCHANGED <<rows, selected, dialog, statusFilter, list, panel_call, panel_doubt>>
      /\ reads' = reads \ {r}
      /\ \/ panels' = panels
         \/ /\ ~(r.panel = "records" /\ rows[r.plan].status = "pending")
            /\ panels' = [panels EXCEPT ![r.panel] = r.plan]
  BY DEF Panel!refresh
<1>2. /\ panels \in [report : Nat, recipes : Nat, records : Nat] /\ r.plan \in Plans
      /\ r.panel \in {"recipes", "records"} /\ r.plan \in Nat
  BY PlanNumbers DEF PanelInv, PanelTypes
<1>3. /\ panels' \in [report : Nat, recipes : Nat, records : Nat]
      /\ panels'.records \in {panels.records, r.plan}
      /\ panels'.records # panels.records => rows[r.plan].status # "pending"
      /\ Shows' \subseteq Shows \cup {r.plan}
  BY <1>1, <1>2 DEF Shows
<1>4. PanelsInv'
  <2>1. Panel!Underway' \subseteq Panel!Underway
    <3>1. Panel!InFlight(Panel!Selecting \cup {"fetch"})' = Panel!InFlight(Panel!Selecting \cup {"fetch"})
      BY <1>1 DEF Panel!InFlight, Panel!Selecting
    <3> QED BY <1>1, <3>1 DEF Panel!Underway
  <2>2. Filling' \subseteq Filling /\ r.plan \in Filling BY <1>1 DEF Filling, Fills
  <2>3. Certain' <=> Certain BY <1>1 DEF Certain
  <2>4. "panels" \notin panel_doubt' /\ Certain' => Filling' \cup Shows' \subseteq {selected'.id}
    BY <1>1, <1>3, <2>2, <2>3 DEF PanelInv, PanelsInv
  <2>5. r.plan \in Panel!Underway BY UnderwayHas
  <2> QED BY <1>1, <1>3, <2>1, <2>4, <2>5, PanelsKept DEF PanelInv, DoubtKept, Clears
<1> QED BY <1>1, <1>2, <1>3, <1>4, NoCallSteps DEF PanelInv, PanelTypes

-----------------------------------------------------------------------------
(***************************************************************************)
(* Commands.                                                               *)
(***************************************************************************)
\* A call goes on, for the plan it is for; the panel does not know yet.
LEMMA CallMoves ==
  ASSUME PanelInv, NEW c \in PanelCalls, Only(c),
         UNCHANGED <<selected, dialog, statusFilter, list, panels, reads>>,
         DoubtKept("recent"), DoubtKept("selected"), DoubtKept("panels"),
         panel_call'[c].op = panel_call[c].op, panel_call'[c].plan = panel_call[c].plan,
         panel_call'[c].op = "get" => panel_call'[c].doubted = panel_call[c].doubted,
         rows' \in Seq(Panel!PlanRow), Plans \subseteq DOMAIN rows',
         panels.records # 0 => rows'[panels.records].status # "pending",
         PanelCallTyped(DOMAIN rows', panel_call'[c]),
         rows' = rows \/ (Lists(panel_call[c]) /\ Selects(panel_call[c])),
         Lists(panel_call[c]) /\ "recent" \notin panel_doubt' /\ ListKnown(panel_call[c]) => ListKnown(panel_call[c])',
         Selects(panel_call[c]) /\ "selected" \notin panel_doubt' /\ SelectionKnown(panel_call[c])
           => SelectionKnown(panel_call[c])'
  PROVE  PanelInv'
<1>1. PanelTypes'
  <2>1. Exists(DOMAIN rows', selected') BY DEF PanelInv, PanelTypes, Exists, Plans
  <2> QED BY <2>1, TypesStep DEF PanelInv, PanelTypes, Plans
<1>2. OneClassifies' BY ClassifyStep DEF PanelInv, Classifying
<1>3. Lists(panel_call'[c]) <=> Lists(panel_call[c]) BY DEF Lists
<1>4. Selects(panel_call'[c]) <=> Selects(panel_call[c]) BY DEF Selects
<1>5. ListInv'
  <2>1. CASE Lists(panel_call[c]) BY <1>3, <2>1, ListMoves DEF PanelInv
  <2>2. CASE ~Lists(panel_call[c]) BY <1>3, <2>2, ListElsewhere DEF PanelInv, Only
  <2> QED BY <2>1, <2>2
<1>6. SelectionInv'
  <2>1. CASE Selects(panel_call[c]) BY <1>4, <2>1, SelectionMoves DEF PanelInv
  <2>2. CASE ~Selects(panel_call[c]) BY <1>4, <2>2, SelectionElsewhere DEF PanelInv, Only
  <2> QED BY <2>1, <2>2
<1>7. PanelsInv' BY PanelsSame DEF PanelInv, Only
<1> QED BY <1>1, <1>2, <1>5, <1>6, <1>7 DEF PanelInv

\* A row gets another status, and a note.
SetStatus(ps, p, status) == [ps EXCEPT ![p].status = status]
SetNote(ps, p, n)        == [ps EXCEPT ![p].note = n]

LEMMA RowStatus ==
  ASSUME NEW ps \in Seq(Panel!PlanRow), NEW p \in DOMAIN ps, NEW status \in Panel!Statuses, NEW t,
         t = SetStatus(ps, p, status)
  PROVE  /\ t \in Seq(Panel!PlanRow) /\ DOMAIN t = DOMAIN ps
         /\ \A q \in DOMAIN ps : t[q].status = IF q = p THEN status ELSE ps[q].status
<1> DEFINE y == [ps[p] EXCEPT !.status = status]
<1>1. \A x \in Panel!PlanRow : [x EXCEPT !.status = status] \in Panel!PlanRow /\ [x EXCEPT !.status = status].status = status
  BY DEF Panel!PlanRow
<1>2. y \in Panel!PlanRow /\ y.status = status BY <1>1
<1>3. t = [ps EXCEPT ![p] = y] BY Zenon DEF SetStatus
<1> HIDE DEF y
<1> QED BY <1>2, <1>3

LEMMA RowNote ==
  ASSUME NEW ps \in Seq(Panel!PlanRow), NEW p \in DOMAIN ps, NEW n \in Reasons \cup {NoReason}, NEW t,
         t = SetNote(ps, p, n)
  PROVE  t \in Seq(Panel!PlanRow) /\ DOMAIN t = DOMAIN ps /\ \A q \in DOMAIN ps : t[q].status = ps[q].status
<1> DEFINE y == [ps[p] EXCEPT !.note = n]
<1>1. \A x \in Panel!PlanRow : [x EXCEPT !.note = n] \in Panel!PlanRow /\ [x EXCEPT !.note = n].status = x.status
  BY DEF Panel!PlanRow
<1>2. y \in Panel!PlanRow /\ y.status = ps[p].status BY <1>1
<1>3. t = [ps EXCEPT ![p] = y] BY Zenon DEF SetNote
<1> HIDE DEF y
<1> QED BY <1>2, <1>3

LEMMA SetPlanStatusKeeps ==
  ASSUME PanelInv, NEW c \in PanelCalls, Panel!set_plan_status(c) PROVE PanelInv'
<1> DEFINE l == panel_call[c]
<1>1. /\ l.op = "accept" /\ l.pc = "write" /\ rows' = SetStatus(rows, l.plan, "accepted")
      /\ UNCHANGED <<selected, dialog, statusFilter, list, panels, reads, panel_doubt>> /\ Panel!Goes(c, "read")
  BY DEF Panel!set_plan_status, Panel!Command, SetStatus
<1>2. /\ Only(c) /\ Whole(panel_call'[c]) /\ panel_call'[c].pc = "read" /\ panel_call'[c].op = "accept"
      /\ panel_call'[c].plan = l.plan /\ panel_call'[c].note = l.note /\ panel_call'[c].was = l.was
      /\ panel_call'[c].got = l.got
  BY <1>1, GoesOn DEF PanelInv
<1>3. PanelCallTyped(Plans, l) /\ l.plan \in Plans BY <1>1 DEF PanelInv, PanelTypes, PanelCallTyped
<1>4. /\ rows' \in Seq(Panel!PlanRow) /\ DOMAIN rows' = Plans
      /\ \A q \in Plans : rows'[q].status = IF q = l.plan THEN "accepted" ELSE rows[q].status
  <2> DEFINE p == l.plan
  <2>1. /\ rows \in Seq(Panel!PlanRow) /\ p \in DOMAIN rows /\ "accepted" \in Panel!Statuses
        /\ rows' = SetStatus(rows, p, "accepted")
    BY <1>1, <1>3 DEF PanelInv, PanelTypes, Panel!Statuses, Plans
  <2> HIDE DEF p
  <2>2. /\ rows' \in Seq(Panel!PlanRow) /\ DOMAIN rows' = DOMAIN rows
        /\ \A q \in DOMAIN rows : rows'[q].status = IF q = p THEN "accepted" ELSE rows[q].status
    BY <2>1, RowStatus
  <2> QED BY <2>2 DEF p, Plans
<1>5. PanelCallTyped(Plans, panel_call'[c]) BY <1>1, <1>2, <1>3 DEF PanelCallTyped, Whole, Closing
<1>6. panels.records # 0 => rows'[panels.records].status # "pending" BY <1>4 DEF PanelInv, PanelTypes
<1>7. Lists(panel_call[c]) /\ Selects(panel_call[c]) BY <1>1 DEF Lists, Selects, Panel!Listing, Panel!Selecting
<1>8. ListKnown(panel_call[c])' BY <1>2 DEF ListKnown
<1>9. SelectionKnown(panel_call[c])' BY <1>2 DEF SelectionKnown, Classifying, Closing
<1> QED BY <1>1, <1>2, <1>4, <1>5, <1>6, <1>7, <1>8, <1>9, CallMoves DEF DoubtKept

LEMMA SetPlanRejectionKeeps ==
  ASSUME PanelInv, NEW c \in PanelCalls, Panel!set_plan_rejection(c) PROVE PanelInv'
<1> DEFINE l == panel_call[c]
<1>1. /\ l.op = "reject" /\ l.pc = "write"
      /\ rows' = SetNote(SetStatus(rows, l.plan, "rejected"), l.plan, l.note)
      /\ UNCHANGED <<selected, dialog, statusFilter, list, panels, reads, panel_doubt>> /\ Panel!Goes(c, "read")
  BY DEF Panel!set_plan_rejection, Panel!Command, SetStatus, SetNote
<1>2. /\ Only(c) /\ Whole(panel_call'[c]) /\ panel_call'[c].pc = "read" /\ panel_call'[c].op = "reject"
      /\ panel_call'[c].plan = l.plan /\ panel_call'[c].note = l.note /\ panel_call'[c].was = l.was
      /\ panel_call'[c].got = l.got
  BY <1>1, GoesOn DEF PanelInv
<1>3. PanelCallTyped(Plans, l) /\ l.plan \in Plans /\ l.note \in Reasons \cup {NoReason}
  BY <1>1 DEF PanelInv, PanelTypes, PanelCallTyped
<1>4. /\ rows' \in Seq(Panel!PlanRow) /\ DOMAIN rows' = Plans
      /\ \A q \in Plans : rows'[q].status = IF q = l.plan THEN "rejected" ELSE rows[q].status
  <2> DEFINE p == l.plan  n == l.note
  <2>1. PICK t : t = SetStatus(rows, p, "rejected") OBVIOUS
  <2>2. /\ rows \in Seq(Panel!PlanRow) /\ p \in DOMAIN rows /\ "rejected" \in Panel!Statuses /\ n \in Reasons \cup {NoReason}
        /\ rows' = SetNote(t, p, n)
    BY <1>1, <1>3, <2>1 DEF PanelInv, PanelTypes, Panel!Statuses, Plans
  <2> HIDE DEF p, n
  <2>3. /\ t \in Seq(Panel!PlanRow) /\ DOMAIN t = DOMAIN rows
        /\ \A q \in DOMAIN rows : t[q].status = IF q = p THEN "rejected" ELSE rows[q].status
    BY <2>1, <2>2, RowStatus
  <2>4. /\ rows' \in Seq(Panel!PlanRow) /\ DOMAIN rows' = DOMAIN t
        /\ \A q \in DOMAIN t : rows'[q].status = t[q].status
    BY <2>2, <2>3, RowNote
  <2> QED BY <2>3, <2>4 DEF p, Plans
<1>5. PanelCallTyped(Plans, panel_call'[c]) BY <1>1, <1>2, <1>3 DEF PanelCallTyped, Whole, Closing
<1>6. panels.records # 0 => rows'[panels.records].status # "pending" BY <1>4 DEF PanelInv, PanelTypes
<1>7. Lists(panel_call[c]) /\ Selects(panel_call[c]) BY <1>1 DEF Lists, Selects, Panel!Listing, Panel!Selecting
<1>8. ListKnown(panel_call[c])' BY <1>2 DEF ListKnown
<1>9. SelectionKnown(panel_call[c])' BY <1>2 DEF SelectionKnown, Classifying, Closing
<1> QED BY <1>1, <1>2, <1>4, <1>5, <1>6, <1>7, <1>8, <1>9, CallMoves DEF DoubtKept

LEMMA GetResearchPlanKeeps ==
  ASSUME PanelInv, NEW c \in PanelCalls, Panel!get_research_plan(c) PROVE PanelInv'
<1> DEFINE l == panel_call[c]
<1>0. PICK s : s = Panel!Dto(l.plan) OBVIOUS
<1>1. /\ l.op \in Panel!Selecting /\ l.pc = "read" /\ UNCHANGED rows
      /\ UNCHANGED <<selected, dialog, statusFilter, list, panels, reads, panel_doubt>>
      /\ panel_call' = [panel_call EXCEPT ![c].pc = "answered", ![c].got = s]
  BY <1>0 DEF Panel!get_research_plan, Panel!Command
<1>2. IsShown(s) /\ s.id = l.plan BY <1>0, ShownFields DEF Panel!Dto
<1>3. /\ Only(c) /\ Whole(panel_call'[c]) /\ panel_call'[c].pc = "answered" /\ panel_call'[c].op = l.op
      /\ panel_call'[c].plan = l.plan /\ panel_call'[c].note = l.note /\ panel_call'[c].was = l.was
      /\ panel_call'[c].got = s /\ panel_call'[c].doubted = l.doubted
  BY <1>1, GoesGot DEF PanelInv
<1>4. PanelCallTyped(Plans, l) /\ l.plan \in Plans /\ l.op \in {"get", "accept", "reject", "reclassify"}
  BY <1>1 DEF PanelInv, PanelTypes, PanelCallTyped, Panel!Selecting, Closing
<1>5. True(s)' BY <1>0, <1>1, <1>2 DEF True, Panel!Dto
<1>6. PanelCallTyped(Plans, panel_call'[c]) BY <1>1, <1>2, <1>3, <1>4 DEF PanelCallTyped, Whole, Closing
<1>7. ListKnown(panel_call[c])' BY <1>3 DEF ListKnown
<1>8. SelectionKnown(panel_call[c]) => SelectionKnown(panel_call[c])'
  <2>1. True(panel_call[c].got)' BY <1>3, <1>5 DEF True
  <2> QED BY <1>1, <1>3, <2>1 DEF SelectionKnown, Classifying, Closing, Panel!Nobody
<1> QED BY <1>1, <1>3, <1>6, <1>7, <1>8, CallMoves DEF PanelInv, PanelTypes, DoubtKept, Plans

LEMMA ReclassifyPlanKeeps ==
  ASSUME PanelInv, NEW c \in PanelCalls, Panel!reclassify_plan(c) PROVE PanelInv'
<1> DEFINE l == panel_call[c]
<1>1. PICK to \in {"insert", "failed"} :
        /\ l.op = "reclassify" /\ l.pc = "check" /\ UNCHANGED rows
        /\ UNCHANGED <<selected, dialog, statusFilter, list, panels, reads, panel_doubt>> /\ Panel!Goes(c, to)
  BY DEF Panel!reclassify_plan, Panel!Command
<1>2. /\ Only(c) /\ Whole(panel_call'[c]) /\ panel_call'[c].pc = to /\ panel_call'[c].op = l.op
      /\ panel_call'[c].plan = l.plan /\ panel_call'[c].note = l.note /\ panel_call'[c].was = l.was
      /\ panel_call'[c].got = l.got /\ panel_call'[c].doubted = l.doubted
  BY <1>1, GoesOn DEF PanelInv
<1>3. PanelCallTyped(Plans, l) BY DEF PanelInv, PanelTypes
<1>4. PanelCallTyped(Plans, panel_call'[c]) BY <1>1, <1>2, <1>3 DEF PanelCallTyped, Whole, Closing
<1>5. ListKnown(l) => ListKnown(panel_call[c])'
  <2>1. Panel!Matching(statusFilter)' = Panel!Matching(statusFilter) BY <1>1 DEF Panel!Matching
  <2> QED BY <1>1, <1>2, <2>1 DEF ListKnown
<1>6. SelectionKnown(l) => SelectionKnown(panel_call[c])'
  BY <1>1, <1>2 DEF SelectionKnown, Classifying, Closing, Panel!Nobody
<1> QED BY <1>1, <1>2, <1>4, <1>5, <1>6, CallMoves DEF PanelInv, PanelTypes, DoubtKept, Plans

LEMMA FetchGoes ==
  ASSUME PanelInv, NEW c \in PanelCalls, Panel!prepare_plan(c) \/ Panel!run_fetch_for_plan(c) PROVE PanelInv'
<1> DEFINE l == panel_call[c]
<1>1. PICK to \in {"run", "answered", "failed"} :
        /\ l.op = "fetch" /\ l.pc \in {"prepare", "run"} /\ UNCHANGED rows
        /\ UNCHANGED <<selected, dialog, statusFilter, list, panels, reads, panel_doubt>> /\ Panel!Goes(c, to)
  BY DEF Panel!prepare_plan, Panel!run_fetch_for_plan, Panel!Command
<1>2. /\ Only(c) /\ Whole(panel_call'[c]) /\ panel_call'[c].pc = to /\ panel_call'[c].op = l.op
      /\ panel_call'[c].plan = l.plan /\ panel_call'[c].note = l.note /\ panel_call'[c].was = l.was
      /\ panel_call'[c].got = l.got /\ panel_call'[c].doubted = l.doubted
  BY <1>1, GoesOn DEF PanelInv
<1>3. PanelCallTyped(Plans, l) BY DEF PanelInv, PanelTypes
<1>4. PanelCallTyped(Plans, panel_call'[c]) BY <1>1, <1>2, <1>3 DEF PanelCallTyped, Whole, Closing
<1>5. ~Lists(l) /\ ~Selects(l) BY <1>1 DEF Lists, Selects, Panel!Listing, Panel!Selecting
<1> QED BY <1>1, <1>2, <1>4, <1>5, CallMoves DEF PanelInv, PanelTypes, DoubtKept, Plans

LEMMA BreakOffKeeps ==
  ASSUME PanelInv, NEW c \in PanelCalls, Panel!BreakOff(c) PROVE PanelInv'
<1> DEFINE l == panel_call[c]
<1>1. PICK to \in {"unlisted", "failed"} :
        /\ l.pc \in {"insert", "check", "write", "read", "prepare", "run", "list"}
        /\ to = "unlisted" <=> l.pc = "list"
        /\ l.pc = "list" => "recent" \in panel_doubt'
        /\ l.pc = "read" /\ l.op # "get" => "recent" \in panel_doubt' /\ "selected" \in panel_doubt'
        /\ panel_doubt \subseteq panel_doubt' /\ UNCHANGED rows
        /\ UNCHANGED <<selected, dialog, statusFilter, list, panels, reads>> /\ Panel!Goes(c, to)
  BY DEF Panel!BreakOff
<1>2. /\ Only(c) /\ Whole(panel_call'[c]) /\ panel_call'[c].pc = to /\ panel_call'[c].op = l.op
      /\ panel_call'[c].plan = l.plan /\ panel_call'[c].note = l.note /\ panel_call'[c].was = l.was
      /\ panel_call'[c].got = l.got /\ panel_call'[c].doubted = l.doubted
  BY <1>1, GoesOn DEF PanelInv
<1>3. PanelCallTyped(Plans, l) BY DEF PanelInv, PanelTypes
<1>4. PanelCallTyped(Plans, panel_call'[c]) BY <1>1, <1>2, <1>3 DEF PanelCallTyped, Whole, Closing
<1>5. DoubtKept("recent") /\ DoubtKept("selected") /\ DoubtKept("panels") BY <1>1 DEF DoubtKept
<1>6. Lists(l) /\ "recent" \notin panel_doubt' /\ ListKnown(l) => ListKnown(panel_call[c])'
  <2>1. Panel!Matching(statusFilter)' = Panel!Matching(statusFilter) BY <1>1 DEF Panel!Matching
  <2>2. Lists(l) /\ "recent" \notin panel_doubt' => l.pc \in {"insert", "check", "write"}
    BY <1>1, <1>3 DEF Lists, Panel!Listing, PanelCallTyped, Closing
  <2> QED BY <1>1, <1>2, <2>1, <2>2 DEF ListKnown
<1>7. Selects(l) /\ "selected" \notin panel_doubt' /\ SelectionKnown(l) => SelectionKnown(panel_call[c])'
  <2>1. /\ True(selected)' <=> True(selected)
        /\ True(panel_call[c].was)' <=> True(panel_call[c].was)
    BY <1>1, <1>2 DEF True, Panel!Dto, Panel!Shown, Panel!Nobody
  <2> QED BY <1>1, <1>2, <1>3, <2>1 DEF SelectionKnown, Classifying, Closing, Panel!Nobody, PanelCallTyped
<1> QED BY <1>1, <1>2, <1>4, <1>5, <1>6, <1>7, CallMoves DEF PanelInv, PanelTypes, Plans

LEMMA ListRecentPlansKeeps ==
  ASSUME PanelInv, NEW c \in PanelCalls, Panel!list_recent_plans(c) PROVE PanelInv'
<1> DEFINE l == panel_call[c]
<1>0. PICK m : m = Panel!Matching(l.filter) OBVIOUS
<1>1. /\ l.op \in Panel!Listing /\ l.pc = "list" /\ UNCHANGED rows
      /\ UNCHANGED <<selected, dialog, statusFilter, list, panels, reads, panel_doubt>>
      /\ panel_call' = [panel_call EXCEPT ![c].pc = "listed", ![c].listed = m]
  BY <1>0 DEF Panel!list_recent_plans, Panel!Command
<1>2. DOMAIN m \subseteq Plans BY <1>0 DEF Panel!Matching, Plans
<1>3. /\ Only(c) /\ Whole(panel_call'[c]) /\ panel_call'[c].pc = "listed" /\ panel_call'[c].op = l.op
      /\ panel_call'[c].plan = l.plan /\ panel_call'[c].note = l.note /\ panel_call'[c].was = l.was
      /\ panel_call'[c].listed = m /\ panel_call'[c].got = l.got /\ panel_call'[c].doubted = l.doubted
  BY <1>1, GoesListed DEF PanelInv
<1>4. PanelCallTyped(Plans, l) /\ l.op # "get" BY <1>1 DEF PanelInv, PanelTypes, Panel!Listing
<1>5. PanelCallTyped(Plans, panel_call'[c]) BY <1>1, <1>2, <1>3, <1>4 DEF PanelCallTyped, Whole, Closing
<1>6. ListKnown(l) => ListKnown(panel_call[c])'
  <2>1. Panel!Matching(statusFilter)' = Panel!Matching(statusFilter) BY <1>1 DEF Panel!Matching
  <2> QED BY <1>0, <1>1, <1>3, <2>1 DEF ListKnown
<1>7. SelectionKnown(l) => SelectionKnown(panel_call[c])'
  <2>1. True(selected)' <=> True(selected) BY <1>1 DEF True, Panel!Dto, Panel!Shown, Panel!Nobody
  <2> QED BY <1>1, <1>3, <1>4, <2>1 DEF SelectionKnown, Classifying, Closing
<1> QED BY <1>1, <1>3, <1>4, <1>5, <1>6, <1>7, CallMoves DEF PanelInv, PanelTypes, DoubtKept, Plans

\* The new plan comes after all the others.
LEMMA PlanAdded ==
  ASSUME PanelTypes, NEW from \in Nat, rows' = Append(rows, Panel!Row("pending", NoReason, from))
  PROVE  /\ rows' \in Seq(Panel!PlanRow) /\ Plans \subseteq DOMAIN rows' /\ Len(rows) + 1 \in DOMAIN rows'
         /\ rows'[Len(rows) + 1].status = "pending" /\ rows'[Len(rows) + 1].note = NoReason
         /\ \A q \in Plans : rows'[q] = rows[q]
<1> DEFINE r == Panel!Row("pending", NoReason, from)
<1>1. r \in Panel!PlanRow /\ r.status = "pending" /\ r.note = NoReason BY DEF Panel!Row, Panel!PlanRow, Panel!Statuses
<1> HIDE DEF r
<1>2. rows \in Seq(Panel!PlanRow) /\ rows' = Append(rows, r) BY DEF PanelTypes, r
<1> QED BY <1>1, <1>2 DEF Plans

LEMMA ClassifiedKeeps ==
  ASSUME PanelInv, NEW c \in PanelCalls, panel_call[c].op = "classify", panel_call[c].pc = "insert",
         rows' = Append(rows, Panel!Row("pending", NoReason, 0)),
         panel_call' = [panel_call EXCEPT ![c].pc = "answered",
                                          ![c].got = Panel!Shown(Len(rows) + 1, "pending", NoReason)],
         UNCHANGED <<selected, dialog, statusFilter, list, panels, reads, panel_doubt>>
  PROVE  PanelInv'
<1> DEFINE l == panel_call[c]  p == Len(rows) + 1
<1>0. PICK s : s = Panel!Shown(p, "pending", NoReason) OBVIOUS
<1>1. /\ rows' \in Seq(Panel!PlanRow) /\ Plans \subseteq DOMAIN rows' /\ p \in DOMAIN rows'
      /\ rows'[p].status = "pending" /\ rows'[p].note = NoReason
      /\ \A q \in Plans : rows'[q] = rows[q]
  BY PlanAdded DEF PanelInv
<1>2. IsShown(s) /\ s.id = p BY <1>0, ShownFields
<1>3. /\ Only(c) /\ Whole(panel_call'[c]) /\ panel_call'[c].pc = "answered" /\ panel_call'[c].op = l.op
      /\ panel_call'[c].plan = l.plan /\ panel_call'[c].note = l.note /\ panel_call'[c].was = l.was
      /\ panel_call'[c].got = s /\ panel_call'[c].doubted = l.doubted
  BY <1>0, GoesGot DEF PanelInv
<1>4. PanelCallTyped(Plans, l) BY DEF PanelInv, PanelTypes
<1>5. s = Panel!Shown(p, rows'[p].status, rows'[p].note) BY <1>0, <1>1
<1> HIDE DEF p
<1>6. PanelCallTyped(DOMAIN rows', panel_call'[c])
  BY <1>1, <1>2, <1>3, <1>4 DEF PanelCallTyped, Whole, Closing
<1>7. ListKnown(panel_call[c])' BY <1>3 DEF ListKnown
<1>8. SelectionKnown(l) => SelectionKnown(panel_call[c])'
  <2>1. True(panel_call[c].got)' BY <1>2, <1>3, <1>5 DEF True, Panel!Dto
  <2> QED BY <1>3, <2>1 DEF SelectionKnown, Classifying, Closing, Panel!Nobody
<1>9. Lists(l) /\ Selects(l) BY DEF Lists, Selects, Panel!Listing, Panel!Selecting
<1>10. panels.records # 0 => rows'[panels.records].status # "pending" BY <1>1 DEF PanelInv, PanelTypes
<1> QED BY <1>1, <1>3, <1>6, <1>7, <1>8, <1>9, <1>10, CallMoves DEF DoubtKept

LEMMA ReclassifiedKeeps ==
  ASSUME PanelInv, NEW c \in PanelCalls, panel_call[c].op = "reclassify", panel_call[c].pc = "insert",
         rows' = Append(rows, Panel!Row("pending", NoReason, panel_call[c].was.id)),
         panel_call' = [panel_call EXCEPT ![c].pc = "read", ![c].plan = Len(rows) + 1],
         UNCHANGED <<selected, dialog, statusFilter, list, panels, reads, panel_doubt>>
  PROVE  PanelInv'
<1> DEFINE l == panel_call[c]  p == Len(rows) + 1
<1>1. PanelCallTyped(Plans, l) /\ l.was.id \in Nat /\ l.plan = 0
  BY PlanNumbers DEF PanelInv, PanelTypes, PanelCallTyped, Closing
<1>2. /\ rows' \in Seq(Panel!PlanRow) /\ Plans \subseteq DOMAIN rows' /\ p \in DOMAIN rows'
      /\ \A q \in Plans : rows'[q] = rows[q]
  BY <1>1, PlanAdded DEF PanelInv
<1>3. /\ Only(c) /\ Whole(panel_call'[c]) /\ panel_call'[c].pc = "read" /\ panel_call'[c].op = "reclassify"
      /\ panel_call'[c].plan = p /\ panel_call'[c].note = l.note /\ panel_call'[c].was = l.was
      /\ panel_call'[c].got = l.got /\ panel_call'[c].doubted = l.doubted
  BY GoesPlanned DEF PanelInv
<1> HIDE DEF p
<1>4. PanelTypes'
  <2>1. PanelCallTyped(DOMAIN rows', panel_call'[c])
    BY <1>1, <1>2, <1>3 DEF PanelCallTyped, Whole, Closing
  <2>2. Exists(DOMAIN rows', selected') BY <1>2 DEF PanelInv, PanelTypes, Exists, Plans
  <2>3. panels.records # 0 => panels.records \in DOMAIN rows' /\ rows'[panels.records].status # "pending"
    BY <1>2 DEF PanelInv, PanelTypes
  <2> QED BY <1>2, <1>3, <2>1, <2>2, <2>3, TypesStep DEF PanelInv, PanelTypes, Plans
<1>5. OneClassifies' BY <1>3, ClassifyStep DEF PanelInv, Classifying
<1>6. Lists(l) /\ Selects(l) /\ Lists(panel_call'[c]) /\ Selects(panel_call'[c])
  BY <1>3 DEF Lists, Selects, Panel!Listing, Panel!Selecting
<1>7. ListInv'
  <2>1. ListKnown(panel_call[c])' BY <1>3 DEF ListKnown
  <2> QED BY <1>3, <1>6, <2>1, ListMoves DEF PanelInv, DoubtKept
<1>8. SelectionInv'
  <2>1. SelectionKnown(l) => SelectionKnown(panel_call[c])'
    BY <1>3 DEF SelectionKnown, Classifying, Closing, Panel!Nobody
  <2> QED BY <1>3, <1>6, <2>1, SelectionMoves DEF PanelInv, DoubtKept
<1>9. PanelsInv'
  <2>1. SUFFICES ASSUME "panels" \notin panel_doubt'
                 PROVE  /\ \A m, n \in Panel!Underway' : m = n
                        /\ \A d \in PanelCalls : Clears(panel_call'[d]) => Shows' \subseteq {panel_call'[d].plan}
                        /\ Filling' \cup Shows' \subseteq {selected'.id}
    BY DEF PanelsInv, Clears
  <2>2. Clears(l) /\ Works(l) BY DEF Clears, Works, Selects, Panel!Selecting
  <2>3. Panel!Underway = {0} /\ Shows = {}
    BY <1>1, <2>1, <2>2, UnderwayHas DEF PanelInv, PanelsInv, Shows
  <2>4. reads = {} /\ \A d \in PanelCalls : Works(panel_call[d]) => panel_call[d].plan = 0
    BY <2>3, UnderwayHas, PlanNumbers DEF PanelInv, PanelTypes
  <2>5. \A d \in PanelCalls \ {c} : ~Works(panel_call[d])
    <3>1. SUFFICES ASSUME NEW d \in PanelCalls \ {c}, Works(panel_call[d]) PROVE FALSE OBVIOUS
    <3>2. PanelCallTyped(Plans, panel_call[d]) /\ panel_call[d].plan \notin Plans
      BY <2>4, <3>1, PlanNumbers DEF PanelInv, PanelTypes
    <3>3. Classifying(panel_call[d])
      BY <3>1, <3>2 DEF PanelCallTyped, Works, Selects, Panel!Selecting, Classifying
    <3> QED BY <3>3 DEF PanelInv, OneClassifies, Classifying
  <2>6. \A d \in PanelCalls : Works(panel_call'[d]) => d = c BY <2>5 , <1>3 DEF Only
  <2>7. Panel!Underway' = {panel_call'[d].plan : d \in {e \in PanelCalls : Works(panel_call'[e])}} \cup {r.plan : r \in reads'}
    BY DEF Panel!Underway, Panel!InFlight, Works, Selects, Panel!Selecting
  <2>8. \A m \in Panel!Underway' : m = p BY <1>3, <2>4, <2>6, <2>7
  <2>9. \A d \in PanelCalls : Fills(panel_call'[d]) => Works(panel_call'[d]) /\ d # c
    BY <1>3 DEF Fills, Works, Selects, Panel!Selecting
  <2>10. Filling' = {}
    <3>1. {d \in PanelCalls : Fills(panel_call'[d])} = {} BY <2>6, <2>9
    <3>2. Filling' = {panel_call'[d].plan : d \in {e \in PanelCalls : Fills(panel_call'[e])}} \cup {r.plan : r \in reads'}
      BY DEF Filling, Fills
    <3> QED BY <2>4, <3>1, <3>2
  <2>11. Shows' = {} BY <2>3 DEF Shows
  <2> QED BY <2>8, <2>10, <2>11
<1> QED BY <1>4, <1>5, <1>7, <1>8, <1>9 DEF PanelInv

LEMMA SaveResearchPlanKeeps ==
  ASSUME PanelInv, NEW c \in PanelCalls, Panel!save_research_plan(c) PROVE PanelInv'
BY ClassifiedKeeps, ReclassifiedKeeps DEF Panel!save_research_plan, Panel!Command

-----------------------------------------------------------------------------
(***************************************************************************)
(* Answers.                                                                *)
(***************************************************************************)
\* A call is over.
LEMMA Ends ==
  ASSUME PanelTypes, NEW c \in PanelCalls, panel_call' = [panel_call EXCEPT ![c] = Panel!Idle]
  PROVE  /\ Only(c) /\ panel_call'[c].op = "none" /\ \A ps : PanelCallTyped(ps, panel_call'[c])
         /\ ~Classifying(panel_call'[c]) /\ ~Lists(panel_call'[c]) /\ ~Works(panel_call'[c])
         /\ ~Selects(panel_call'[c]) /\ ~Fills(panel_call'[c]) /\ ~Clears(panel_call'[c])
<1> DEFINE i == Panel!Idle
<1>1. /\ Whole(i) /\ i.op = "none" /\ i.pc = "idle" /\ i.note = NoReason /\ i.was = Panel!Nobody /\ i.got = Panel!Nobody
  BY DEF Panel!Idle, Whole
<1> HIDE DEF i
<1>2. Only(c) /\ panel_call'[c] = i BY Becomes DEF PanelTypes, i
<1>3. \A ps : PanelCallTyped(ps, i) BY <1>1, ShownFields DEF PanelCallTyped, Whole, Closing
<1> QED BY <1>1, <1>2, <1>3
        DEF Classifying, Lists, Works, Selects, Fills, Clears, Panel!Listing, Panel!Selecting

\* The plans under way once a call is over, and what it has read then.
LEMMA UnderwayEnds ==
  ASSUME PanelTypes, NEW c \in PanelCalls, Only(c), ~Works(panel_call'[c]), ~Fills(panel_call'[c]),
         Works(panel_call[c]), \A r \in reads' : r \in reads \/ r.plan = panel_call[c].plan
  PROVE  /\ Panel!Underway' \subseteq Panel!Underway
         /\ Fills(panel_call[c]) \/ reads' = reads => Filling' \subseteq Filling
<1>1. Panel!Underway' = {panel_call'[d].plan : d \in {e \in PanelCalls : Works(panel_call'[e])}} \cup {r.plan : r \in reads'}
  BY DEF Panel!Underway, Panel!InFlight, Works, Selects, Panel!Selecting
<1>2. \A d \in PanelCalls : Works(panel_call'[d]) => panel_call'[d] = panel_call[d] BY DEF Only
<1>3. Panel!Underway' \subseteq Panel!Underway BY <1>1, <1>2, UnderwayHas
<1>4. Filling' = {panel_call'[d].plan : d \in {e \in PanelCalls : Fills(panel_call'[e])}} \cup {r.plan : r \in reads'}
  BY DEF Filling, Fills
<1>5. \A d \in PanelCalls : Fills(panel_call'[d]) => panel_call'[d] = panel_call[d] BY DEF Only
<1>6. ASSUME Fills(panel_call[c]) \/ reads' = reads PROVE Filling' \subseteq Filling
  <2>1. \A r \in reads' : r.plan \in Filling BY <1>6 DEF Filling
  <2>2. \A d \in PanelCalls : Fills(panel_call[d]) => panel_call[d].plan \in Filling BY DEF Filling
  <2> QED BY <1>4, <1>5, <2>1, <2>2
<1> QED BY <1>3, <1>6

LEMMA ReadsOf == ASSUME NEW p, NEW ws PROVE \A r \in Panel!Reads(p, ws) : r.plan = p /\ r.panel \in ws
BY DEF Panel!Reads

LEMMA SelectPlanAnswered ==
  ASSUME PanelInv, NEW c \in PanelCalls, Panel!selectPlan_answered(c) PROVE PanelInv'
<1> DEFINE l == panel_call[c]
<1>1. PICK ws \in SUBSET {"recipes", "records"} :
        /\ l.op = "get" /\ l.pc = "answered" /\ UNCHANGED <<rows, list, panel_doubt>>
        /\ selected' = l.got /\ reads' = reads \cup Panel!Reads(l.got.id, ws)
        /\ panel_call' = [panel_call EXCEPT ![c] = Panel!Idle] /\ UNCHANGED <<dialog, statusFilter, panels>>
  BY DEF Panel!selectPlan_answered, Panel!Answer
<1>2. PanelCallTyped(Plans, l) BY DEF PanelInv, PanelTypes
<1>3. l.got.id \in Plans /\ l.got.id = l.plan /\ IsShown(l.got) BY <1>1, <1>2 DEF PanelCallTyped
<1>4. /\ Only(c) /\ panel_call'[c].op = "none" /\ PanelCallTyped(Plans, panel_call'[c])
      /\ ~Classifying(panel_call'[c]) /\ ~Lists(panel_call'[c]) /\ ~Works(panel_call'[c])
      /\ ~Selects(panel_call'[c]) /\ ~Fills(panel_call'[c]) /\ ~Clears(panel_call'[c])
  BY <1>1, Ends DEF PanelInv
<1>5. \A r \in reads' : r \in reads \/ (r.plan = l.plan /\ r.panel \in {"recipes", "records"})
  <2>1. \A r \in Panel!Reads(l.plan, ws) : r.plan = l.plan /\ r.panel \in ws BY ReadsOf
  <2> QED BY <1>1, <1>3, <2>1
<1>6. DoubtKept("recent") /\ DoubtKept("selected") /\ DoubtKept("panels") BY <1>1 DEF DoubtKept
<1>7. PanelTypes'
  <2>1. Exists(Plans, selected') BY <1>1, <1>3 DEF Exists
  <2>2. selected' # Panel!Nobody BY <1>1, <1>3, PlanNumbers DEF PanelInv, PanelTypes
  <2>3. \A r \in reads' : r.plan \in Plans /\ r.panel \in {"recipes", "records"}
    BY <1>3, <1>5 DEF PanelInv, PanelTypes
  <2> QED BY <1>1, <1>4, <2>1, <2>2, <2>3, TypesStep DEF PanelInv, PanelTypes, Plans
<1>8. OneClassifies' BY <1>4, ClassifyStep DEF PanelInv
<1>9. ListInv'
  <2>1. ~Lists(l) BY <1>1 DEF Lists, Panel!Listing
  <2> QED BY <1>1, <1>4, <1>6, <2>1, ListElsewhere DEF PanelInv, Only
<1>10. SelectionInv'
  <2>1. Selects(l) BY <1>1 DEF Selects, Panel!Selecting
  <2>2. SelectionKnown(l) => True(selected)'
    BY <1>1 DEF SelectionKnown, True, Panel!Dto, Panel!Shown, Panel!Nobody
  <2> QED BY <1>4, <1>6, <2>1, <2>2, SelectionMoves DEF PanelInv
<1>11. PanelsInv'
  <2>1. Clears(l) /\ Works(l) /\ l.plan \in Panel!Underway
    BY <1>1, UnderwayHas DEF Clears, Works, Selects, Panel!Selecting
  <2>2. Panel!Underway' \subseteq Panel!Underway BY <1>4, <1>5, <2>1, UnderwayEnds DEF PanelInv
  <2>3. Filling' \subseteq Panel!Underway'
    BY <2>1 DEF Filling, Fills, Panel!Underway, Panel!InFlight, Panel!Selecting
  <2>4. Shows' = Shows BY <1>1 DEF Shows
  <2>5. "panels" \notin panel_doubt' => Filling' \cup Shows' \subseteq {selected'.id}
    BY <1>1, <1>3, <1>6, <2>1, <2>2, <2>3, <2>4 DEF PanelInv, PanelsInv, DoubtKept
  <2>6. \A d \in PanelCalls : Clears(panel_call'[d]) =>
          Clears(panel_call[d]) /\ panel_call'[d].plan = panel_call[d].plan
    BY <1>4 DEF Only
  <2> QED BY <1>6, <2>2, <2>4, <2>5, <2>6, PanelsKept DEF PanelInv
<1> QED BY <1>7, <1>8, <1>9, <1>10, <1>11 DEF PanelInv

\* The call lists now, as the panel filters.
LEMMA ListsNow ==
  ASSUME PanelTypes, NEW c \in PanelCalls, NEW f, Panel!Lists(c, f)
  PROVE  /\ Only(c) /\ Whole(panel_call'[c]) /\ panel_call'[c].op = panel_call[c].op
         /\ panel_call'[c].pc = "list" /\ panel_call'[c].plan = panel_call[c].plan /\ panel_call'[c].filter = f
         /\ panel_call'[c].note = NoReason /\ panel_call'[c].was = Panel!Nobody
         /\ panel_call'[c].got = Panel!Nobody
<1> DEFINE l == panel_call[c]
<1>1. PICK r : r = WithFilter(l.op, "list", l.plan, f) OBVIOUS
<1>2. panel_call' = [panel_call EXCEPT ![c] = r] BY <1>1, Zenon DEF Panel!Lists, WithFilter
<1>3. /\ Whole(r) /\ r.op = l.op /\ r.pc = "list" /\ r.plan = l.plan /\ r.was = Panel!Nobody
      /\ r.got = Panel!Nobody /\ r.note = NoReason /\ r.filter = f
  BY <1>1, CallWithFilter
<1>4. Only(c) /\ panel_call'[c] = r BY <1>2, Becomes DEF PanelTypes
<1> QED BY <1>3, <1>4

\* The answer of a call that lists becomes the selection.
LEMMA AnswerShown ==
  ASSUME PanelInv, NEW c \in PanelCalls, NEW f, Panel!Lists(c, f),
         panel_call[c].op \in {"classify", "reclassify", "accept", "reject"}, panel_call[c].pc = "answered",
         selected' = panel_call[c].got, statusFilter' = f,
         UNCHANGED <<rows, list, dialog, panels, reads, panel_doubt>>
  PROVE  PanelInv'
<1> DEFINE l == panel_call[c]
<1>1. PanelCallTyped(Plans, l) BY DEF PanelInv, PanelTypes
<1>2. /\ l.got.id \in Plans /\ IsShown(l.got) /\ (l.op # "classify" => l.got.id = l.plan)
      /\ l.op = "classify" => l.plan = 0
  BY <1>1 DEF PanelCallTyped
<1>3. /\ Only(c) /\ Whole(panel_call'[c]) /\ panel_call'[c].op = l.op
      /\ panel_call'[c].pc = "list" /\ panel_call'[c].plan = l.plan /\ panel_call'[c].filter = f
      /\ panel_call'[c].note = NoReason /\ panel_call'[c].was = Panel!Nobody
      /\ panel_call'[c].got = Panel!Nobody
  BY ListsNow DEF PanelInv
<1>4. DoubtKept("recent") /\ DoubtKept("selected") /\ DoubtKept("panels") BY DEF DoubtKept
<1>5. PanelTypes'
  <2>1. PanelCallTyped(Plans, panel_call'[c])
    BY <1>1, <1>2, <1>3, ShownFields DEF PanelCallTyped, Whole, Closing
  <2>2. Exists(Plans, selected') BY <1>2 DEF Exists
  <2>3. selected' # Panel!Nobody BY <1>2, PlanNumbers DEF PanelInv, PanelTypes
  <2> QED BY <1>3, <2>1, <2>2, <2>3, TypesStep DEF PanelInv, PanelTypes, Plans
<1>6. OneClassifies' BY <1>3, ClassifyStep DEF PanelInv, Classifying
<1>7. Lists(l) /\ Selects(l) /\ Lists(panel_call'[c]) /\ Selects(panel_call'[c])
  BY <1>3 DEF Lists, Selects, Panel!Listing, Panel!Selecting
<1>8. ListInv'
  <2>1. ListKnown(panel_call[c])' BY <1>3 DEF ListKnown
  <2> QED BY <1>3, <1>4, <1>7, <2>1, ListMoves DEF PanelInv
<1>9. SelectionInv'
  <2>1. SelectionKnown(l) => True(selected)'
    BY DEF SelectionKnown, True, Panel!Dto, Panel!Shown, Panel!Nobody
  <2>2. True(selected)' => SelectionKnown(panel_call[c])'
    BY <1>3 DEF SelectionKnown, Classifying, Closing
  <2> QED BY <1>3, <1>4, <1>7, <2>1, <2>2, SelectionMoves DEF PanelInv
<1>10. PanelsInv'
  <2>1. \A d \in PanelCalls : panel_call'[d].op = panel_call[d].op /\ panel_call'[d].plan = panel_call[d].plan
    BY <1>3 DEF Only
  <2>2. Panel!Underway' = Panel!Underway
    <3>1. Panel!InFlight(Panel!Selecting \cup {"fetch"})' = Panel!InFlight(Panel!Selecting \cup {"fetch"})
      BY <2>1 DEF Panel!InFlight, Panel!Selecting
    <3>2. \A d \in Panel!InFlight(Panel!Selecting \cup {"fetch"}) : panel_call'[d].plan = panel_call[d].plan
      BY <2>1 DEF Panel!InFlight
    <3> QED BY <3>1, <3>2 DEF Panel!Underway
  <2>3. Filling' = Filling BY <2>1 DEF Filling, Fills
  <2>4. Shows' = Shows BY DEF Shows
  <2>5. Certain' => Certain BY <1>3 DEF Certain, Only
  <2>6. Works(l) /\ l.plan \in Panel!Underway BY <1>7, UnderwayHas DEF Works
  <2>7. ASSUME "panels" \notin panel_doubt', Certain' PROVE Filling \cup Shows \subseteq {selected'.id}
    <3>1. CASE Clears(l)
      <4>1. Shows \subseteq {l.plan} /\ Filling \subseteq {l.plan}
        BY <2>6, <2>7, <3>1, UnderwayHas DEF PanelInv, PanelsInv
      <4>2. 0 \notin Shows /\ 0 \notin Filling
        <5>1. \A d \in PanelCalls : Fills(panel_call[d]) => panel_call[d].plan \in Plans
          BY DEF PanelInv, PanelTypes, PanelCallTyped, Fills
        <5>2. Filling \subseteq Plans BY <5>1 DEF Filling, PanelInv, PanelTypes
        <5> QED BY <5>2, PlanNumbers DEF PanelInv, PanelTypes, Shows
      <4>3. l.plan = selected'.id \/ l.plan = 0 BY <1>2, <3>1
      <4> QED BY <4>1, <4>2, <4>3
    <3>2. CASE ~Clears(l)
      <4>1. Fills(l) BY <3>2 DEF Fills, Clears
      <4>2. l.plan \in Filling BY <4>1 DEF Filling
      <4>3. Filling \cup Shows \subseteq {selected.id} BY <2>5, <2>7 DEF PanelInv, PanelsInv
      <4>4. selected'.id = l.plan BY <1>2, <4>1 DEF Fills
      <4> QED BY <4>2, <4>3, <4>4
    <3> QED BY <3>1, <3>2
  <2>8. \A d \in PanelCalls : Clears(panel_call'[d]) => Clears(panel_call[d]) BY <2>1 DEF Clears
  <2> QED BY <1>4, <2>1, <2>2, <2>3, <2>4, <2>7, <2>8, PanelsKept DEF PanelInv
<1> QED BY <1>5, <1>6, <1>8, <1>9, <1>10 DEF PanelInv

LEMMA ClassifyAnswered ==
  ASSUME PanelInv, NEW c \in PanelCalls, Panel!classify_answered(c) PROVE PanelInv'
BY AnswerShown DEF Panel!classify_answered, Panel!Answer

LEMMA TransitionAnswered ==
  ASSUME PanelInv, NEW c \in PanelCalls, Panel!transition_answered(c) PROVE PanelInv'
BY AnswerShown DEF Panel!transition_answered, Panel!Answer

LEMMA RunFetchAnswered ==
  ASSUME PanelInv, NEW c \in PanelCalls, Panel!runFetch_answered(c) PROVE PanelInv'
<1> DEFINE l == panel_call[c]
<1>1. /\ l.op = "fetch" /\ l.pc = "answered" /\ UNCHANGED <<rows, list, panel_doubt>>
      /\ panels' = [panels EXCEPT !.report = l.plan]
      /\ reads' = reads \cup Panel!Reads(l.plan, {"recipes", "records"})
      /\ panel_call' = [panel_call EXCEPT ![c] = Panel!Idle] /\ UNCHANGED <<selected, dialog, statusFilter>>
  BY DEF Panel!runFetch_answered, Panel!Answer
<1>2. l.plan \in Plans /\ l.plan \in Nat
  BY <1>1, PlanNumbers DEF PanelInv, PanelTypes, PanelCallTyped
<1>3. /\ Only(c) /\ panel_call'[c].op = "none" /\ PanelCallTyped(Plans, panel_call'[c])
      /\ ~Classifying(panel_call'[c]) /\ ~Lists(panel_call'[c]) /\ ~Works(panel_call'[c])
      /\ ~Selects(panel_call'[c]) /\ ~Fills(panel_call'[c]) /\ ~Clears(panel_call'[c])
  BY <1>1, Ends DEF PanelInv
<1>4. \A r \in reads' : r \in reads \/ (r.plan = l.plan /\ r.panel \in {"recipes", "records"})
  <2>1. \A r \in Panel!Reads(l.plan, {"recipes", "records"}) : r.plan = l.plan /\ r.panel \in {"recipes", "records"}
    BY ReadsOf
  <2> QED BY <1>1, <2>1
<1>5. DoubtKept("recent") /\ DoubtKept("selected") /\ DoubtKept("panels") BY <1>1 DEF DoubtKept
<1>6. /\ panels' \in [report : Nat, recipes : Nat, records : Nat] /\ panels'.records = panels.records
      /\ Shows' \subseteq Shows \cup {l.plan}
  <2> DEFINE p == l.plan
  <2>1. panels \in [report : Nat, recipes : Nat, records : Nat] /\ p \in Nat /\ panels' = [panels EXCEPT !.report = p]
    BY <1>1, <1>2 DEF PanelInv, PanelTypes
  <2> HIDE DEF p
  <2> QED BY <2>1 DEF Shows, p
<1>7. PanelTypes'
  <2>1. \A r \in reads' : r.plan \in Plans /\ r.panel \in {"recipes", "records"}
    BY <1>2, <1>4 DEF PanelInv, PanelTypes
  <2> QED BY <1>1, <1>3, <1>6, <2>1, TypesStep DEF PanelInv, PanelTypes, Plans
<1>8. OneClassifies' BY <1>3, ClassifyStep DEF PanelInv
<1>9. ~Lists(l) /\ ~Selects(l) BY <1>1 DEF Lists, Selects, Panel!Listing, Panel!Selecting
<1>10. ListInv' BY <1>1, <1>3, <1>5, <1>9, ListElsewhere DEF PanelInv, Only
<1>11. SelectionInv' BY <1>1, <1>3, <1>5, <1>9, SelectionElsewhere DEF PanelInv, Only
<1>12. PanelsInv'
  <2>1. Fills(l) /\ Works(l) /\ l.plan \in Panel!Underway BY <1>1, UnderwayHas DEF Fills, Works
  <2>2. Panel!Underway' \subseteq Panel!Underway /\ Filling' \subseteq Filling
    BY <1>3, <1>4, <2>1, UnderwayEnds DEF PanelInv
  <2>3. l.plan \in Filling BY <2>1 DEF Filling
  <2>4. Certain' => Certain BY <1>1, <1>3 DEF Certain, Only
  <2>5. "panels" \notin panel_doubt' /\ Certain' => Filling' \cup Shows' \subseteq {selected'.id}
    BY <1>1, <1>5, <1>6, <2>2, <2>3, <2>4 DEF PanelInv, PanelsInv, DoubtKept
  <2>6. \A d \in PanelCalls : Clears(panel_call'[d]) =>
          Clears(panel_call[d]) /\ panel_call'[d].plan = panel_call[d].plan
    BY <1>3 DEF Only
  <2> QED BY <1>5, <1>6, <2>1, <2>2, <2>5, <2>6, PanelsKept DEF PanelInv
<1> QED BY <1>7, <1>8, <1>10, <1>11, <1>12 DEF PanelInv

LEMMA FailedKeeps ==
  ASSUME PanelInv, NEW c \in PanelCalls, Panel!failed(c) PROVE PanelInv'
<1> DEFINE l == panel_call[c]
<1>1. /\ l.pc = "failed"
      /\ selected' = IF l.op \in {"accept", "reject"} /\ selected.id = l.was.id THEN l.was ELSE selected
      /\ panel_call' = [panel_call EXCEPT ![c] = Panel!Idle]
      /\ panel_doubt' = panel_doubt \cup l.doubted
      /\ UNCHANGED <<rows, dialog, statusFilter, list, panels, reads>>
  BY DEF Panel!failed
<1>2. PanelCallTyped(Plans, l) BY DEF PanelInv, PanelTypes
<1>3. /\ Only(c) /\ panel_call'[c].op = "none" /\ PanelCallTyped(Plans, panel_call'[c])
      /\ ~Classifying(panel_call'[c]) /\ ~Lists(panel_call'[c]) /\ ~Works(panel_call'[c])
      /\ ~Selects(panel_call'[c]) /\ ~Fills(panel_call'[c]) /\ ~Clears(panel_call'[c])
  BY <1>1, Ends DEF PanelInv
<1>4. DoubtKept("recent") /\ DoubtKept("selected") /\ DoubtKept("panels") BY <1>1 DEF DoubtKept
<1>5. /\ selected'.id = selected.id
      /\ Exists(Plans, selected')
      /\ selected # Panel!Nobody => selected' # Panel!Nobody
  <2>1. CASE l.op \in {"accept", "reject"} /\ selected.id = l.was.id
    <3>1. selected' = l.was BY <1>1, <2>1
    <3>2. l.was.id = l.plan /\ l.plan \in Plans /\ IsShown(l.was) BY <1>1, <1>2, <2>1 DEF PanelCallTyped, Closing
    <3>3. l.was # Panel!Nobody BY <3>2, PlanNumbers DEF PanelInv, PanelTypes
    <3> QED BY <2>1, <3>1, <3>2, <3>3 DEF Exists
  <2>2. CASE ~(l.op \in {"accept", "reject"} /\ selected.id = l.was.id)
    BY <1>1, <2>2 DEF PanelInv, PanelTypes
  <2> QED BY <2>1, <2>2
<1>6. PanelTypes' BY <1>1, <1>3, <1>5, TypesStep DEF PanelInv, PanelTypes, Plans
<1>7. OneClassifies' BY <1>3, ClassifyStep DEF PanelInv
<1>8. ListInv'
  <2>1. CASE Lists(l)
    <3>1. "recent" \notin panel_doubt' /\ ListKnown(l) => list' = Panel!Matching(statusFilter)'
      BY <1>1 DEF ListKnown, Panel!Matching
    <3> QED BY <1>3, <1>4, <2>1, <3>1, ListMoves DEF PanelInv
  <2>2. CASE ~Lists(l) BY <1>1, <1>3, <1>4, <2>2, ListElsewhere DEF PanelInv, Only
  <2> QED BY <2>1, <2>2
<1>9. SelectionInv'
  <2>1. CASE Selects(l)
    <3>1. ASSUME "selected" \notin panel_doubt', SelectionKnown(l) PROVE True(selected)'
      <4>1. "selected" \notin l.doubted BY <1>1, <3>1
      <4>2. True(selected')
        BY <1>1, <2>1, <3>1, <4>1
           DEF SelectionKnown, Selects, Panel!Selecting, Classifying, Closing, True
      <4> QED BY <1>1, <4>2 DEF True, Panel!Dto, Panel!Shown, Panel!Nobody
    <3> QED BY <1>3, <1>4, <2>1, <3>1, SelectionMoves DEF PanelInv
  <2>2. CASE ~Selects(l)
    <3>1. selected' = selected BY <1>1, <2>2 DEF Selects, Panel!Selecting
    <3> QED BY <1>1, <1>3, <1>4, <2>2, <3>1, SelectionElsewhere DEF PanelInv, Only
  <2> QED BY <2>1, <2>2
<1>10. PanelsInv'
  <2>1. CASE Works(l)
    <3>1. Panel!Underway' \subseteq Panel!Underway /\ Filling' \subseteq Filling
      BY <1>1, <1>3, <2>1, UnderwayEnds DEF PanelInv
    <3>2. Shows' = Shows BY <1>1 DEF Shows
    <3>3. "panels" \notin panel_doubt' /\ Certain' => Certain BY <1>1, <1>3 DEF Certain, Only
    <3>4. "panels" \notin panel_doubt' /\ Certain' => Filling' \cup Shows' \subseteq {selected'.id}
      BY <1>4, <1>5, <3>1, <3>2, <3>3 DEF PanelInv, PanelsInv, DoubtKept
    <3>5. \A d \in PanelCalls : Clears(panel_call'[d]) =>
            Clears(panel_call[d]) /\ panel_call'[d].plan = panel_call[d].plan
      BY <1>3 DEF Only
    <3> QED BY <1>4, <3>1, <3>2, <3>4, <3>5, PanelsKept DEF PanelInv
  <2>2. CASE ~Works(l) BY <1>1, <1>3, <1>4, <1>5, <2>2, PanelsElsewhere DEF PanelInv, Only
  <2> QED BY <2>1, <2>2
<1> QED BY <1>6, <1>7, <1>8, <1>9, <1>10 DEF PanelInv

LEMMA RefreshRecentKeeps ==
  ASSUME PanelInv, NEW c \in PanelCalls, Panel!refreshRecent(c) PROVE PanelInv'
<1> DEFINE l == panel_call[c]
<1>1. /\ \/ l.pc = "listed" /\ list' = l.listed
         \/ l.pc = "unlisted" /\ list' = list
      /\ reads' = reads \cup (IF l.op = "accept" THEN Panel!Reads(l.plan, {"records"}) ELSE {})
      /\ dialog' = IF l.op = "reject" /\ dialog = "reject" THEN "none" ELSE dialog
      /\ panel_call' = [panel_call EXCEPT ![c] = Panel!Idle]
      /\ UNCHANGED <<rows, selected, statusFilter, panels, panel_doubt>>
  BY DEF Panel!refreshRecent
<1>2. PanelCallTyped(Plans, l) BY DEF PanelInv, PanelTypes
<1>3. /\ Only(c) /\ panel_call'[c].op = "none" /\ PanelCallTyped(Plans, panel_call'[c])
      /\ ~Classifying(panel_call'[c]) /\ ~Lists(panel_call'[c]) /\ ~Works(panel_call'[c])
      /\ ~Selects(panel_call'[c]) /\ ~Fills(panel_call'[c]) /\ ~Clears(panel_call'[c])
  BY <1>1, Ends DEF PanelInv
<1>4. Lists(l) /\ l.op # "get" BY <1>1, <1>2 DEF Lists, Panel!Listing, PanelCallTyped, Closing
<1>5. \A r \in reads' : r \in reads \/ (l.op = "accept" /\ r.plan = l.plan /\ r.panel = "records")
  <2>1. \A r \in Panel!Reads(l.plan, {"records"}) : r.plan = l.plan /\ r.panel \in {"records"} BY ReadsOf
  <2> QED BY <1>1, <2>1
<1>6. DoubtKept("recent") /\ DoubtKept("selected") /\ DoubtKept("panels") BY <1>1 DEF DoubtKept
<1>7. PanelTypes'
  <2>1. DOMAIN list' \subseteq Plans BY <1>1, <1>2 DEF PanelInv, PanelTypes, PanelCallTyped
  <2>2. l.op = "accept" => l.plan \in Plans BY <1>2 DEF PanelCallTyped
  <2>3. \A r \in reads' : r.plan \in Plans /\ r.panel \in {"recipes", "records"}
    BY <1>5, <2>2 DEF PanelInv, PanelTypes
  <2>4. dialog' # "none" => selected' # Panel!Nobody BY <1>1 DEF PanelInv, PanelTypes
  <2> QED BY <1>1, <1>3, <2>1, <2>3, <2>4, TypesStep DEF PanelInv, PanelTypes, Plans
<1>8. OneClassifies' BY <1>3, ClassifyStep DEF PanelInv
<1>9. ListInv'
  <2>1. ListKnown(l) => list' = Panel!Matching(statusFilter)' BY <1>1 DEF ListKnown, Panel!Matching
  <2> QED BY <1>3, <1>4, <1>6, <2>1, ListMoves DEF PanelInv
<1>10. SelectionInv'
  <2>1. CASE Selects(l)
    <3>1. SelectionKnown(l) => True(selected)'
      BY <1>1 DEF SelectionKnown, Closing, True, Panel!Dto, Panel!Shown, Panel!Nobody
    <3> QED BY <1>3, <1>6, <2>1, <3>1, SelectionMoves DEF PanelInv
  <2>2. CASE ~Selects(l) BY <1>1, <1>3, <1>6, <2>2, SelectionElsewhere DEF PanelInv, Only
  <2> QED BY <2>1, <2>2
<1>11. PanelsInv'
  <2>1. CASE Works(l)
    <3>1. Panel!Underway' \subseteq Panel!Underway BY <1>3, <1>5, <2>1, UnderwayEnds DEF PanelInv
    <3>2. Filling' \subseteq Filling
      <4>1. Fills(l) \/ reads' = reads BY <1>1 DEF Fills
      <4> QED BY <1>3, <1>5, <2>1, <4>1, UnderwayEnds DEF PanelInv
    <3>3. Shows' = Shows BY <1>1 DEF Shows
    <3>4. Certain' => Certain BY <1>3, <1>4 DEF Certain, Only
    <3>5. "panels" \notin panel_doubt' /\ Certain' => Filling' \cup Shows' \subseteq {selected'.id}
      BY <1>1, <1>6, <3>2, <3>3, <3>4 DEF PanelInv, PanelsInv, DoubtKept
    <3>6. \A d \in PanelCalls : Clears(panel_call'[d]) =>
            Clears(panel_call[d]) /\ panel_call'[d].plan = panel_call[d].plan
      BY <1>3 DEF Only
    <3> QED BY <1>6, <3>1, <3>3, <3>5, <3>6, PanelsKept DEF PanelInv
  <2>2. CASE ~Works(l)
    <3>1. reads' = reads BY <1>1, <2>2 DEF Works, Selects, Panel!Selecting
    <3> QED BY <1>1, <1>3, <1>6, <2>2, <3>1, PanelsElsewhere DEF PanelInv, Only
  <2> QED BY <2>1, <2>2
<1> QED BY <1>7, <1>8, <1>9, <1>10, <1>11 DEF PanelInv

-----------------------------------------------------------------------------
LEMMA PanelInit == ASSUME Panel!PanelAssumption, Panel!Init PROVE PanelInv
<1>1. /\ rows \in Seq(Panel!PlanRow) /\ selected = Panel!Nobody /\ dialog = "none" /\ statusFilter = "all"
      /\ list = Panel!Matching("all") /\ panels = Panel!Cleared /\ reads = {}
      /\ panel_call = [c \in PanelCalls |-> Panel!Idle]
  BY DEF Panel!PanelAssumption, Panel!Init
<1>2. panels \in [report : Nat, recipes : Nat, records : Nat] /\ panels.records = 0 /\ Shows = {}
  BY <1>1 DEF Panel!Cleared, Shows
<1>3. DOMAIN list \subseteq Plans BY <1>1 DEF Panel!Matching, Plans
<1>4. \A c \in PanelCalls : panel_call[c].op = "none" /\ PanelCallTyped(Plans, panel_call[c])
  <2> DEFINE i == Panel!Idle
  <2>1. /\ Whole(i) /\ i.op = "none" /\ i.pc = "idle" /\ i.note = NoReason /\ i.was = Panel!Nobody /\ i.got = Panel!Nobody
    BY DEF Panel!Idle, Whole
  <2> HIDE DEF i
  <2>2. PanelCallTyped(Plans, i) BY <2>1, ShownFields DEF PanelCallTyped, Whole, Closing
  <2> QED BY <1>1, <2>1, <2>2 DEF i
<1>5. PanelTypes
  <2>1. Exists(Plans, selected) BY <1>1, ShownFields DEF Exists
  <2> QED BY <1>1, <1>2, <1>3, <1>4, <2>1 DEF PanelTypes
<1>6. /\ OneClassifies
      /\ \A c \in PanelCalls : /\ ~Lists(panel_call[c]) /\ ~Selects(panel_call[c]) /\ ~Works(panel_call[c])
                               /\ ~Fills(panel_call[c]) /\ ~Clears(panel_call[c])
  BY <1>4 DEF OneClassifies, Classifying, Lists, Selects, Works, Fills, Clears, Panel!Listing, Panel!Selecting
<1>7. ListInv BY <1>1, <1>6 DEF ListInv
<1>8. SelectionInv BY <1>1, <1>6 DEF SelectionInv, True
<1>9. PanelsInv
  <2>1. Panel!Underway = {} BY <1>1, <1>6, UnderwayIs
  <2>2. Filling = {} BY <2>1, UnderwayHas
  <2> QED BY <1>2, <1>6, <2>1, <2>2 DEF PanelsInv
<1> QED BY <1>5, <1>6, <1>7, <1>8, <1>9 DEF PanelInv

LEMMA PanelNext == ASSUME PanelInv, [Panel!Next]_(Panel!vars) PROVE PanelInv'
<1>1. ASSUME NEW c \in PanelCalls, Panel!Step(c) PROVE PanelInv'
  BY <1>1, SelectPlanKeeps, SetStatusFilterKeeps, ClassifyTopicKeeps, AcceptSelectedKeeps, RejectSelectedKeeps,
     ReclassifySelectedKeeps, RunFetchKeeps, SetPlanStatusKeeps, SetPlanRejectionKeeps, GetResearchPlanKeeps,
     ReclassifyPlanKeeps, SaveResearchPlanKeeps, FetchGoes, ListRecentPlansKeeps, BreakOffKeeps,
     SelectPlanAnswered, ClassifyAnswered, TransitionAnswered, RunFetchAnswered, FailedKeeps, RefreshRecentKeeps
     DEF Panel!Step
<1>2. ASSUME NEW r \in reads, Panel!refresh(r) PROVE PanelInv' BY <1>2, BackgroundReadKeeps
<1>3. ASSUME Panel!open_dialog \/ Panel!cancel_dialog \/ UNCHANGED Panel!vars PROVE PanelInv'
  BY <1>3, DialogKeeps DEF Panel!vars
<1> QED BY <1>1, <1>2, <1>3 DEF Panel!Next

LEMMA PanelIsTruthful == ASSUME PanelInv PROVE Panel!PanelTruthful
<1>1. "recent" \notin panel_doubt /\ Panel!InFlight(Panel!Listing) = {} => list = Panel!Matching(statusFilter)
  BY DEF PanelInv, ListInv, Lists, Panel!InFlight
<1>2. "panels" \notin panel_doubt /\ Panel!InFlight({"get"}) = {} => Shows \subseteq {selected.id}
  BY DEF PanelInv, PanelsInv, Certain, Panel!InFlight
<1>3. DOMAIN panels = {"report", "recipes", "records"} /\ \A w \in DOMAIN panels : panels[w] \in Shows \cup {0}
  BY DEF PanelInv, PanelTypes, Shows
<1>4. ASSUME "selected" \notin panel_doubt, Panel!InFlight(Panel!Selecting) = {}, selected # Panel!Nobody
      PROVE  selected = Panel!Dto(selected.id)
  <2>1. \A c \in PanelCalls : ~Selects(panel_call[c]) BY <1>4 DEF Selects, Panel!InFlight
  <2> QED BY <1>4, <2>1 DEF PanelInv, SelectionInv, True
<1>5. ASSUME "selected" \notin panel_doubt, Panel!InFlight(Panel!Selecting) = {}, selected # Panel!Nobody,
             selected.status = "pending", "panels" \notin panel_doubt, panels.records # 0
      PROVE  FALSE
  <2>1. Panel!InFlight({"get"}) = {} BY <1>5 DEF Panel!InFlight, Panel!Selecting
  <2>2. panels.records = selected.id BY <1>2, <1>3, <1>5, <2>1 DEF Shows
  <2>3. rows[selected.id].status # "pending" BY <1>5, <2>2 DEF PanelInv, PanelTypes
  <2>4. selected = Panel!Dto(selected.id) BY <1>4, <1>5
  <2>5. selected.status = rows[selected.id].status BY <2>4, ShownFields DEF Panel!Dto
  <2> QED BY <1>5, <2>3, <2>5
<1> QED BY <1>1, <1>2, <1>3, <1>4, <1>5 DEF Panel!PanelTruthful

\* plans.svelte.ts:38-200: whatever is clicked in between, and in whatever order the commands
\* answer, the panel shows what the table holds once they have, unless two of them met or
\* one broke off after its write.
THEOREM PanelTellsTheTruth == ASSUME Panel!PanelAssumption PROVE Panel!Spec => []PanelTruthful
<1>1. Panel!Init => PanelInv BY PanelInit
<1>2. PanelInv /\ [Panel!Next]_(Panel!vars) => PanelInv' BY PanelNext
<1>3. PanelInv => PanelTruthful BY PanelIsTruthful DEF PanelTruthful
<1> QED BY <1>1, <1>2, <1>3, PTL DEF Panel!Spec
=============================================================================
