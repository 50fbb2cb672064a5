------------------------ MODULE AuthorNominationProofs ------------------------
(***************************************************************************)
(* Proofs about AuthorNomination for every set of nominations, targets and *)
(* hosts, every number of attempts and of permits.                         *)
(***************************************************************************)
EXTENDS AuthorNomination, FiniteSetTheorems, FunctionTheorems, SequenceTheorems, TLAPS

-----------------------------------------------------------------------------
(***************************************************************************)
(* The invariant of one future                                             *)
(***************************************************************************)
InLoop == {"attempting", "proposing", "prefetching", "authoring"}

\* The attempts of which the proposer was told that their bytes were of no use.
WithBytes(prior) == {k \in 1..Len(prior) : prior[k].class = "UrlShapeMismatch"}

\* What a result says to load_or_author_recipes.
Said(res) ==
  [authored |-> res.authored, declined |-> res.declines \cup (IF res.reason THEN {Whole} ELSE {})]

Valid(res) ==
  \/ res.tag \in {"llm_error", "bad_url"}
  \/ res.tag = "ok" /\ Said(res) \in Promise!AuthoredResult

\* Each target has one recipe at most, and either a recipe or a decline.
Accounts(a) ==
  /\ \A x, y \in a.recipes : x.tgt = y.tgt => x = y
  /\ TargetsOf(a.recipes) = a.filled
  /\ DOMAIN a.pending \cap a.filled = {}

\* In the loop some target is unfilled, the proposer was told of every attempt,
\* and what is declined was declined in the last attempt that had bytes.
LoopInv(a) ==
  /\ Len(a.prior) = a.attempt - 1
  /\ a.filled # Targets
  /\ a.recipes # {} => DOMAIN a.pending = Targets \ a.filled
  /\ \A t \in DOMAIN a.pending :
       a.pending[t] \in WithBytes(a.prior) /\ \A k \in WithBytes(a.prior) : k <= a.pending[t]

FutureOK(a) ==
  /\ a \in Future
  /\ Accounts(a)
  /\ a.pc = "start" => a.attempt = 1 /\ a.prior = <<>> /\ a.recipes = {} /\ DOMAIN a.pending = {}
  /\ a.pc \in InLoop => LoopInv(a)
  /\ IF a.pc = "returned" THEN Valid(a.result) ELSE a.result = NoResult

FuturesInv == au \in [Nominations -> Future] /\ \A n \in Nominations : FutureOK(au[n])

-----------------------------------------------------------------------------
(***************************************************************************)
(* Partial functions on the targets                                        *)
(***************************************************************************)
LEMMA PendingType ==
  ASSUME NEW f
  PROVE  f \in Pending <=> DOMAIN f \subseteq Targets /\ f \in [DOMAIN f -> 1..MaxAttempts]
<1>1. ASSUME f \in Pending PROVE DOMAIN f \subseteq Targets /\ f \in [DOMAIN f -> 1..MaxAttempts]
  <2>1. PICK S \in SUBSET Targets : f \in [S -> 1..MaxAttempts]
    BY <1>1 DEF Pending
  <2> QED  BY <2>1
<1>2. ASSUME DOMAIN f \subseteq Targets, f \in [DOMAIN f -> 1..MaxAttempts] PROVE f \in Pending
  BY <1>2 DEF Pending
<1> QED  BY <1>1, <1>2

LEMMA ResultsType ==
  ASSUME NEW f
  PROVE  f \in Results <=> DOMAIN f \subseteq Targets /\ f \in [DOMAIN f -> Answers]
<1>1. ASSUME f \in Results PROVE DOMAIN f \subseteq Targets /\ f \in [DOMAIN f -> Answers]
  <2>1. PICK S \in SUBSET Targets : f \in [S -> Answers]
    BY <1>1 DEF Results
  <2> QED  BY <2>1
<1>2. ASSUME DOMAIN f \subseteq Targets, f \in [DOMAIN f -> Answers] PROVE f \in Results
  BY <1>2 DEF Results
<1> QED  BY <1>1, <1>2

LEMMA FutureFields ==
  ASSUME NEW a \in Future
  PROVE  /\ a.pc \in Phases /\ a.attempt \in 1..MaxAttempts /\ a.expired \in BOOLEAN
         /\ a.host \in Hosts /\ a.filled \in SUBSET Targets /\ a.recipes \in SUBSET Recipe
         /\ a.pending \in Pending /\ a.results \in Results
         /\ a.prior \in Seq(PriorAttempt) /\ a.result \in Result
BY DEF Future

LEMMA AttemptArithmetic == MaxAttempts \in Nat /\ MaxAttempts >= 1 /\ 1..MaxAttempts \subseteq Nat
BY AuthoringAssumption

LEMMA NoResultType == NoResult \in Result
BY DEF NoResult, Result, Tags

-----------------------------------------------------------------------------
(***************************************************************************)
(* The ways a future returns                                               *)
(***************************************************************************)
LEMMA ReturnOK ==
  ASSUME NEW a \in Future, Accounts(a),
         NEW tag \in {"ok", "llm_error", "bad_url"}, NEW authored \in SUBSET Targets,
         NEW declines \in SUBSET Targets, NEW reason \in BOOLEAN,
         Valid([tag |-> tag, authored |-> authored, declines |-> declines, reason |-> reason])
  PROVE  FutureOK(Return(a, tag, authored, declines, reason))
<1> DEFINE res == [tag |-> tag, authored |-> authored, declines |-> declines, reason |-> reason]
           b == [a EXCEPT !.pc = "returned", !.result = res]
<1>1. res \in Result
  BY DEF Result, Tags
<1>2. Valid(res)
  OBVIOUS
<1>3. Return(a, tag, authored, declines, reason) = b
  BY DEF Return
<1> HIDE DEF res
<1>4. /\ b \in Future
      /\ b.recipes = a.recipes /\ b.filled = a.filled /\ b.pending = a.pending
      /\ b.pc = "returned" /\ b.result = res
  BY <1>1 DEF Future, Phases
<1> HIDE DEF b
<1>5. Accounts(b)
  BY <1>4 DEF Accounts
<1> QED  BY <1>2, <1>3, <1>4, <1>5 DEF FutureOK, InLoop

LEMMA ReturnErrOK ==
  ASSUME NEW a \in Future, Accounts(a), NEW tag \in {"llm_error", "bad_url"}
  PROVE  FutureOK(ReturnErr(a, tag))
<1>1. Valid([tag |-> tag, authored |-> {}, declines |-> {}, reason |-> FALSE])
  BY DEF Valid
<1>2. tag \in {"ok", "llm_error", "bad_url"} /\ {} \in SUBSET Targets /\ FALSE \in BOOLEAN
  OBVIOUS
<1> QED  BY <1>1, <1>2, ReturnOK DEF ReturnErr

\* A result that authors nothing says so for the nomination as a whole.
LEMMA NothingAuthored ==
  Valid([tag |-> "ok", authored |-> {}, declines |-> {}, reason |-> TRUE])
<1> DEFINE res == [tag |-> "ok", authored |-> {}, declines |-> {}, reason |-> TRUE]
<1>1. Said(res) = [authored |-> {}, declined |-> {Whole}]
  BY DEF Said
<1>2. [authored |-> {}, declined |-> {Whole}] \in Promise!AuthoredResult
  BY DEF Promise!AuthoredResult
<1> QED  BY <1>1, <1>2 DEF Valid

\* A result that authors some targets and declines the others is allowed, with a
\* reason for the nomination if some target is left.
LEMMA SomeAuthored ==
  ASSUME NEW authored \in SUBSET Targets, authored # {}, NEW reason \in BOOLEAN,
         reason => authored # Targets
  PROVE  Valid([tag |-> "ok", authored |-> authored, declines |-> Targets \ authored,
                reason |-> reason])
<1> DEFINE res == [tag |-> "ok", authored |-> authored, declines |-> Targets \ authored,
                   reason |-> reason]
           d == (Targets \ authored) \cup (IF reason THEN {Whole} ELSE {})
<1>1. Said(res) = [authored |-> authored, declined |-> d]
  BY DEF Said
<1>2. d \in SUBSET (Targets \cup {Whole})
  OBVIOUS
<1>3. d \ {Whole} = Targets \ authored /\ (Whole \in d => authored # Targets)
  BY AuthoringAssumption
<1> HIDE DEF d
<1>4. [authored |-> authored, declined |-> d] \in Promise!AuthoredResult
  BY <1>2, <1>3 DEF Promise!AuthoredResult
<1> QED  BY <1>1, <1>4 DEF Valid

LEMMA TargetsOfRecipes ==
  ASSUME NEW a \in Future, Accounts(a)
  PROVE  /\ TargetsOf(a.recipes) = a.filled /\ a.filled \in SUBSET Targets
         /\ a.recipes = {} <=> a.filled = {}
<1>1. TargetsOf(a.recipes) = a.filled
  BY DEF Accounts
<1>2. a.recipes = {} <=> TargetsOf(a.recipes) = {}
  BY DEF TargetsOf
<1> QED  BY <1>1, <1>2, FutureFields

LEMMA ReturnEarlyOK ==
  ASSUME NEW a \in Future, Accounts(a),
         a.recipes # {} => a.filled # Targets /\ DOMAIN a.pending = Targets \ a.filled
  PROVE  FutureOK(ReturnEarly(a))
<1>1. CASE a.recipes = {}
  <2>1. ReturnEarly(a) = Return(a, "ok", {}, {}, TRUE)
    BY <1>1 DEF ReturnEarly, TargetsOf
  <2> QED  BY <2>1, NothingAuthored, ReturnOK
<1>2. CASE a.recipes # {}
  <2>1. ReturnEarly(a) = Return(a, "ok", a.filled, Targets \ a.filled, TRUE)
    BY <1>2, TargetsOfRecipes DEF ReturnEarly
  <2>2. Valid([tag |-> "ok", authored |-> a.filled, declines |-> Targets \ a.filled,
               reason |-> TRUE])
    BY <1>2, TargetsOfRecipes, SomeAuthored
  <2>3. a.filled \in SUBSET Targets /\ Targets \ a.filled \in SUBSET Targets
    BY TargetsOfRecipes
  <2> QED  BY <2>1, <2>2, <2>3, ReturnOK
<1> QED  BY <1>1, <1>2

LEMMA LeaveLoopOK ==
  ASSUME NEW a \in Future, Accounts(a),
         a.recipes # {} => DOMAIN a.pending = Targets \ a.filled
  PROVE  FutureOK(LeaveLoop(a))
<1>1. CASE a.recipes = {}
  <2>1. LeaveLoop(a) = Return(a, "ok", {}, {}, TRUE)
    BY <1>1 DEF LeaveLoop
  <2> QED  BY <2>1, NothingAuthored, ReturnOK
<1>2. CASE a.recipes # {}
  <2>1. LeaveLoop(a) = Return(a, "ok", a.filled, Targets \ a.filled, FALSE)
    BY <1>2, TargetsOfRecipes DEF LeaveLoop
  <2>2. Valid([tag |-> "ok", authored |-> a.filled, declines |-> Targets \ a.filled,
               reason |-> FALSE])
    BY <1>2, TargetsOfRecipes, SomeAuthored
  <2>3. a.filled \in SUBSET Targets /\ Targets \ a.filled \in SUBSET Targets
    BY TargetsOfRecipes
  <2> QED  BY <2>1, <2>2, <2>3, ReturnOK
<1> QED  BY <1>1, <1>2

-----------------------------------------------------------------------------
(***************************************************************************)
(* The end of an attempt                                                   *)
(***************************************************************************)
LEMMA NextAttemptOK ==
  ASSUME NEW a \in Future, Accounts(a), NEW class \in {"prefetch", "UrlShapeMismatch"},
         Len(a.prior) = a.attempt - 1, a.filled # Targets, a.result = NoResult,
         a.recipes # {} => DOMAIN a.pending = Targets \ a.filled,
         IF class = "prefetch"
           THEN \A t \in DOMAIN a.pending :
                  /\ a.pending[t] \in WithBytes(a.prior)
                  /\ \A k \in WithBytes(a.prior) : k <= a.pending[t]
           ELSE \A t \in DOMAIN a.pending : a.pending[t] = a.attempt
  PROVE  FutureOK(NextAttempt(a, class))
<1> DEFINE p == Append(a.prior, [host |-> a.host, class |-> class])
           told == [a EXCEPT !.prior = p]
<1>1. /\ p \in Seq(PriorAttempt) /\ Len(p) = a.attempt
      /\ p[a.attempt].class = class
      /\ \A k \in 1..Len(a.prior) : p[k] = a.prior[k]
  <2>1. [host |-> a.host, class |-> class] \in PriorAttempt
    BY FutureFields DEF PriorAttempt
  <2>2. a.prior \in Seq(PriorAttempt) /\ a.attempt \in Nat
    BY FutureFields, AttemptArithmetic
  <2> QED  BY <2>1, <2>2, AppendProperties
<1>2. ASSUME NEW t \in DOMAIN a.pending
      PROVE  a.pending[t] \in WithBytes(p) /\ \A k \in WithBytes(p) : k <= a.pending[t]
  <2>1. a.attempt \in Nat /\ a.attempt >= 1 /\ Len(a.prior) \in Nat
    BY FutureFields, AttemptArithmetic, LenProperties
  <2>2. CASE class = "prefetch"
    <3>1. WithBytes(p) = WithBytes(a.prior)
      BY <1>1, <2>1, <2>2 DEF WithBytes
    <3> QED  BY <2>2, <3>1
  <2>3. CASE class = "UrlShapeMismatch"
    <3>1. a.pending[t] = a.attempt
      BY <2>3
    <3>2. a.attempt \in WithBytes(p)
      BY <1>1, <2>1, <2>3 DEF WithBytes
    <3>3. \A k \in WithBytes(p) : k <= a.attempt
      BY <1>1, <2>1 DEF WithBytes
    <3> QED  BY <3>1, <3>2, <3>3
  <2> QED  BY <2>2, <2>3
<1> HIDE DEF p
<1>3. /\ told \in Future /\ told.prior = p
      /\ told.recipes = a.recipes /\ told.filled = a.filled /\ told.pending = a.pending
      /\ told.attempt = a.attempt
  BY <1>1 DEF Future
<1>4. NextAttempt(a, class) = IF a.attempt = MaxAttempts THEN LeaveLoop(told)
                              ELSE [told EXCEPT !.pc = "attempting", !.attempt = a.attempt + 1]
  BY DEF NextAttempt, p, Future
<1> HIDE DEF told
<1>5. Accounts(told)
  BY <1>3 DEF Accounts
<1>6. CASE a.attempt = MaxAttempts
  BY <1>3, <1>4, <1>5, <1>6, LeaveLoopOK
<1>7. CASE a.attempt # MaxAttempts
  <2> DEFINE k == a.attempt + 1
             b == [told EXCEPT !.pc = "attempting", !.attempt = k]
  <2>1. k \in 1..MaxAttempts /\ k - 1 = a.attempt
    BY <1>7, FutureFields, AttemptArithmetic
  <2>2. NextAttempt(a, class) = b
    BY <1>4, <1>7
  <2> HIDE DEF k
  <2>3. /\ b \in Future /\ b.pc = "attempting" /\ b.attempt = k /\ b.prior = p
        /\ b.recipes = a.recipes /\ b.filled = a.filled /\ b.pending = a.pending
    BY <1>3, <2>1 DEF Future, Phases
  <2>4. b.result = a.result
    BY <1>3, <2>1 DEF Future, told
  <2> HIDE DEF b
  <2>5. Accounts(b)
    BY <2>3 DEF Accounts
  <2>6. LoopInv(b)
    BY <1>1, <1>2, <2>1, <2>3 DEF LoopInv
  <2> QED  BY <2>2, <2>3, <2>4, <2>5, <2>6 DEF FutureOK
<1> QED  BY <1>6, <1>7

-----------------------------------------------------------------------------
(***************************************************************************)
(* A step of a future leaves its locals right                              *)
(***************************************************************************)
Moved(n) ==
  \E b : FutureOK(b) /\ Become(n, b) /\ au[n].pc # "returned"

LEMMA StartMoves ==
  ASSUME FuturesInv, NEW n \in Nominations, start(n) \/ next_attempt(n)
  PROVE  Moved(n)
<1> DEFINE a == au[n]
           b == [a EXCEPT !.pc = "proposing"]
<1>1. a \in Future /\ FutureOK(a) /\ Accounts(a)
  BY DEF FuturesInv, FutureOK
<1>2. a.pc \in {"start", "attempting"} /\ (Become(n, ReturnEarly(a)) \/ Become(n, b))
  BY DEF start, next_attempt
<1>3. a.pc = "start" =>
        /\ a.attempt = 1 /\ a.prior = <<>> /\ a.recipes = {} /\ a.filled = {}
        /\ DOMAIN a.pending = {}
  BY <1>1, TargetsOfRecipes DEF FutureOK
<1>4. a.pc = "attempting" => LoopInv(a)
  BY <1>1 DEF FutureOK, InLoop
<1>5. CASE Become(n, ReturnEarly(a))
  <2>1. a.recipes # {} => a.filled # Targets /\ DOMAIN a.pending = Targets \ a.filled
    BY <1>2, <1>3, <1>4 DEF LoopInv
  <2> QED  BY <1>1, <1>2, <1>5, <2>1, ReturnEarlyOK DEF Moved
<1>6. CASE Become(n, b) /\ ~Become(n, ReturnEarly(a))
  <2>1. /\ b \in Future /\ b.pc = "proposing" /\ b.attempt = a.attempt /\ b.prior = a.prior
        /\ b.recipes = a.recipes /\ b.filled = a.filled /\ b.pending = a.pending
        /\ b.result = a.result
    BY <1>1 DEF Future, Phases
  <2>2. a.result = NoResult
    BY <1>1, <1>2 DEF FutureOK
  <2>3. a.pc = "start" => Targets # {}
    BY <1>6 DEF start, next_attempt
  <2> HIDE DEF b, a
  <2>4. LoopInv(b)
    <3>1. CASE a.pc = "start"
      BY <1>3, <2>1, <2>3, <3>1 DEF LoopInv
    <3>2. CASE a.pc = "attempting"
      BY <1>4, <2>1, <3>2 DEF LoopInv
    <3> QED  BY <1>2, <3>1, <3>2
  <2>5. Accounts(b)
    BY <1>1, <2>1 DEF Accounts
  <2>6. FutureOK(b)
    BY <2>1, <2>2, <2>4, <2>5 DEF FutureOK
  <2> QED  BY <1>2, <1>6, <2>6 DEF Moved, a
<1> QED  BY <1>2, <1>5, <1>6

\* Some fields of a future that is in the loop are written, its accounts are not.
LEMMA LoopMoves ==
  ASSUME NEW a, FutureOK(a), a.pc \in InLoop, NEW b \in Future, b.pc \in InLoop,
         b.attempt = a.attempt, b.prior = a.prior, b.recipes = a.recipes,
         b.filled = a.filled, b.pending = a.pending, b.result = a.result
  PROVE  FutureOK(b)
<1>1. Accounts(b)
  BY DEF FutureOK, Accounts
<1>2. LoopInv(b)
  BY DEF FutureOK, LoopInv
<1>3. b.pc # "start" /\ b.pc # "returned" /\ b.result = NoResult
  BY DEF FutureOK, InLoop
<1> QED  BY <1>1, <1>2, <1>3 DEF FutureOK

LEMMA ProposeMoves ==
  ASSUME FuturesInv, NEW n \in Nominations, propose_source_url(n)
  PROVE  Moved(n)
<1> DEFINE a == au[n]
<1>1. a \in Future /\ FutureOK(a) /\ Accounts(a) /\ a.pc = "proposing" /\ LoopInv(a)
  BY DEF FuturesInv, FutureOK, InLoop, propose_source_url
<1>2. ASSUME NEW h \in Hosts, Become(n, [a EXCEPT !.pc = "prefetching", !.host = h])
      PROVE  Moved(n)
  <2> DEFINE b == [a EXCEPT !.pc = "prefetching", !.host = h]
  <2>1. /\ b \in Future /\ b.pc = "prefetching" /\ b.attempt = a.attempt /\ b.prior = a.prior
        /\ b.recipes = a.recipes /\ b.filled = a.filled /\ b.pending = a.pending
        /\ b.result = a.result
    BY <1>1 DEF Future, Phases
  <2> HIDE DEF b
  <2>2. FutureOK(b)
    BY <1>1, <2>1, LoopMoves DEF InLoop
  <2> QED  BY <1>1, <1>2, <2>2 DEF Moved, b
<1>3. CASE Become(n, ReturnEarly(a))
  <2>1. a.recipes # {} => a.filled # Targets /\ DOMAIN a.pending = Targets \ a.filled
    BY <1>1 DEF LoopInv
  <2> QED  BY <1>1, <1>3, <2>1, ReturnEarlyOK DEF Moved
<1>4. ASSUME NEW tag \in {"llm_error", "bad_url"}, Become(n, ReturnErr(a, tag))
      PROVE  Moved(n)
  <2>1. FutureOK(ReturnErr(a, tag))
    BY <1>1, ReturnErrOK
  <2> QED  BY <1>1, <1>4, <2>1 DEF Moved
<1> QED  BY <1>2, <1>3, <1>4 DEF propose_source_url

LEMMA PrefetchMoves ==
  ASSUME FuturesInv, NEW n \in Nominations, prefetch_excerpt(n)
  PROVE  Moved(n)
<1> DEFINE a == au[n]
           none == [t \in {} |-> "ok"]
           b == [a EXCEPT !.pc = "authoring", !.results = none]
<1>1. a \in Future /\ FutureOK(a) /\ Accounts(a) /\ a.pc = "prefetching" /\ LoopInv(a)
  BY DEF FuturesInv, FutureOK, InLoop, prefetch_excerpt
<1>2. CASE Become(n, NextAttempt(a, "prefetch"))
  <2>1. a.result = NoResult
    BY <1>1 DEF FutureOK
  <2> HIDE DEF a
  <2>2. FutureOK(NextAttempt(a, "prefetch"))
    <3>1. "prefetch" \in {"prefetch", "UrlShapeMismatch"}
      OBVIOUS
    <3> QED  BY <1>1, <2>1, <3>1, NextAttemptOK DEF LoopInv
  <2> QED  BY <1>1, <1>2, <2>2 DEF Moved, a
<1>3. CASE Become(n, b)
  <2>1. none \in Results
    BY DEF Results
  <2> HIDE DEF none
  <2>2. /\ b \in Future /\ b.pc = "authoring" /\ b.attempt = a.attempt /\ b.prior = a.prior
        /\ b.recipes = a.recipes /\ b.filled = a.filled /\ b.pending = a.pending
        /\ b.result = a.result
    BY <1>1, <2>1 DEF Future, Phases
  <2> HIDE DEF b
  <2>3. FutureOK(b)
    BY <1>1, <2>2, LoopMoves DEF InLoop
  <2> QED  BY <1>1, <1>3, <2>3 DEF Moved
<1> QED  BY <1>2, <1>3 DEF prefetch_excerpt

LEMMA AuthorMoves ==
  ASSUME FuturesInv, NEW n \in Nominations, NEW t \in Targets, author_recipe(n, t)
  PROVE  Moved(n)
<1> DEFINE a == au[n]
<1>1. a \in Future /\ FutureOK(a) /\ a.pc = "authoring"
  BY DEF FuturesInv, FutureOK, author_recipe
<1>2. PICK res \in Answers :
        Become(n, [a EXCEPT !.results = [x \in DOMAIN a.results \cup {t} |->
                                           IF x = t THEN res ELSE a.results[x]]])
  BY DEF author_recipe
<1> DEFINE f == [x \in DOMAIN a.results \cup {t} |-> IF x = t THEN res ELSE a.results[x]]
           b == [a EXCEPT !.results = f]
<1>3. f \in Results
  <2>1. DOMAIN a.results \subseteq Targets /\ a.results \in [DOMAIN a.results -> Answers]
    BY <1>1, FutureFields, ResultsType
  <2> HIDE DEF a
  <2>2. DOMAIN f \subseteq Targets /\ f \in [DOMAIN f -> Answers]
    BY <2>1
  <2> QED  BY <2>2, ResultsType
<1>4. Become(n, b)
  BY <1>2
<1> HIDE DEF f
<1>5. /\ b \in Future /\ b.pc = "authoring" /\ b.attempt = a.attempt /\ b.prior = a.prior
      /\ b.recipes = a.recipes /\ b.filled = a.filled /\ b.pending = a.pending
      /\ b.result = a.result
  BY <1>1, <1>3 DEF Future
<1> HIDE DEF b
<1>6. FutureOK(b)
  BY <1>1, <1>5, LoopMoves DEF InLoop
<1> QED  BY <1>1, <1>4, <1>6 DEF Moved

LEMMA DeadlineMoves ==
  ASSUME FuturesInv, NEW n \in Nominations, DeadlinePasses(n)
  PROVE  Moved(n)
<1> DEFINE a == au[n]
           b == [a EXCEPT !.expired = TRUE]
<1>1. a \in Future /\ FutureOK(a) /\ a.pc \in InLoop
  BY DEF FuturesInv, FutureOK, DeadlinePasses, Future, Phases, InLoop
<1>2. /\ b \in Future /\ b.pc = a.pc /\ b.attempt = a.attempt /\ b.prior = a.prior
      /\ b.recipes = a.recipes /\ b.filled = a.filled /\ b.pending = a.pending
      /\ b.result = a.result
  BY <1>1 DEF Future
<1>3. Become(n, b)
  BY DEF DeadlinePasses
<1> HIDE DEF b
<1>4. FutureOK(b)
  BY <1>1, <1>2, LoopMoves
<1> QED  BY <1>1, <1>3, <1>4 DEF Moved, InLoop

-----------------------------------------------------------------------------
(***************************************************************************)
(* The answers of an attempt come in                                       *)
(***************************************************************************)
\* What attempt_done writes for an attempt whose answers are `ok` and `now`.
AfterAttempt(a, ok, now) ==
  [a EXCEPT !.filled  = @ \cup ok,
            !.recipes = @ \cup [tgt : ok, attempt : {a.attempt}, source_id : {a.host}],
            !.pending = [t \in (DOMAIN @ \cup now) \ ok |-> IF t \in now THEN a.attempt ELSE @[t]]]

LEMMA AfterAttemptOK ==
  ASSUME NEW a, FutureOK(a), a.pc = "authoring",
         NEW ok, NEW now, ok \cup now = Targets \ a.filled, ok \cap now = {}
  PROVE  LET b == AfterAttempt(a, ok, now)
         IN  /\ b \in Future /\ Accounts(b)
             /\ b.pc = a.pc /\ b.attempt = a.attempt /\ b.prior = a.prior
             /\ b.result = a.result /\ b.filled = a.filled \cup ok
             /\ DOMAIN b.pending = Targets \ b.filled
             /\ \A t \in DOMAIN b.pending : b.pending[t] = b.attempt
<1> DEFINE f == a.filled \cup ok
           r == a.recipes \cup [tgt : ok, attempt : {a.attempt}, source_id : {a.host}]
           p == [t \in (DOMAIN a.pending \cup now) \ ok |->
                   IF t \in now THEN a.attempt ELSE a.pending[t]]
           b == [a EXCEPT !.filled = f, !.recipes = r, !.pending = p]
<1>1. a \in Future /\ Accounts(a) /\ DOMAIN a.pending \subseteq Targets
  BY FutureFields, PendingType DEF FutureOK
<1>2. AfterAttempt(a, ok, now) = b
  BY <1>1 DEF AfterAttempt
<1>3. DOMAIN a.pending \subseteq Targets \ a.filled
  BY <1>1 DEF Accounts
<1>4. DOMAIN p = Targets \ f /\ DOMAIN p = now
  BY <1>3
<1>5. \A t \in DOMAIN p : p[t] = a.attempt
  BY <1>4
<1>6. p \in Pending
  <2>1. a.attempt \in 1..MaxAttempts
    BY <1>1, FutureFields
  <2>2. DOMAIN p \subseteq Targets
    BY <1>4
  <2>3. p \in [DOMAIN p -> 1..MaxAttempts]
    BY <1>4, <2>1
  <2> QED  BY <2>2, <2>3, PendingType
<1>7. f \in SUBSET Targets /\ r \in SUBSET Recipe
  <2>1. a.filled \in SUBSET Targets /\ a.recipes \in SUBSET Recipe /\ ok \in SUBSET Targets
        /\ a.attempt \in 1..MaxAttempts /\ a.host \in Hosts
    BY <1>1, FutureFields
  <2> QED  BY <2>1 DEF Recipe
<1>8. \A x, y \in r : x.tgt = y.tgt => x = y
  <2>1. ASSUME NEW x \in a.recipes PROVE x.tgt \in a.filled
    BY <1>1 DEF Accounts, TargetsOf
  <2>2. \A x, y \in a.recipes : x.tgt = y.tgt => x = y
    BY <1>1 DEF Accounts
  <2>3. ok \cap a.filled = {}
    OBVIOUS
  <2> HIDE DEF f, p
  <2> QED  BY <2>1, <2>2, <2>3
<1>9. TargetsOf(r) = f
  <2>1. TargetsOf(a.recipes) = a.filled
    BY <1>1 DEF Accounts
  <2>2. TargetsOf([tgt : ok, attempt : {a.attempt}, source_id : {a.host}]) = ok
    <3>1. ASSUME NEW t \in ok
          PROVE  t \in TargetsOf([tgt : ok, attempt : {a.attempt}, source_id : {a.host}])
      <4> DEFINE rec == [tgt |-> t, attempt |-> a.attempt, source_id |-> a.host]
                 new == [tgt : ok, attempt : {a.attempt}, source_id : {a.host}]
      <4>1. rec \in new /\ rec.tgt = t
        OBVIOUS
      <4> HIDE DEF rec, new
      <4>2. t \in TargetsOf(new)
        BY <4>1 DEF TargetsOf
      <4> QED  BY <4>2 DEF new
    <3> QED  BY <3>1 DEF TargetsOf
  <2> QED  BY <2>1, <2>2 DEF TargetsOf
<1> HIDE DEF f, r, p
<1>10. /\ b \in Future /\ b.pc = a.pc /\ b.attempt = a.attempt /\ b.prior = a.prior
       /\ b.result = a.result /\ b.filled = f /\ b.recipes = r /\ b.pending = p
  BY <1>1, <1>6, <1>7 DEF Future
<1> HIDE DEF b
<1>11. Accounts(b)
  BY <1>4, <1>8, <1>9, <1>10 DEF Accounts
<1> QED  BY <1>2, <1>4, <1>5, <1>10, <1>11 DEF f

\* Without an error each unfilled target is authored or declined.
LEMMA AnswersSplit ==
  ASSUME FuturesInv, NEW n \in Nominations, attempt_done(n), With(n, "err") = {}
  PROVE  /\ With(n, "ok") \cup With(n, "declined") = Targets \ au[n].filled
         /\ With(n, "ok") \cap With(n, "declined") = {}
<1>1. DOMAIN au[n].results = Targets \ au[n].filled
  BY DEF attempt_done, Unfilled
<1>2. au[n].results \in [DOMAIN au[n].results -> Answers]
  BY FutureFields, ResultsType DEF FuturesInv
<1> QED  BY <1>1, <1>2 DEF With, Answers

LEMMA AttemptMoves ==
  ASSUME FuturesInv, NEW n \in Nominations, attempt_done(n)
  PROVE  Moved(n)
<1> DEFINE a == au[n]
           ok == With(n, "ok")
           now == With(n, "declined")
           b == AfterAttempt(a, ok, now)
<1>1. a \in Future /\ FutureOK(a) /\ Accounts(a) /\ a.pc = "authoring" /\ LoopInv(a)
  BY DEF FuturesInv, FutureOK, InLoop, attempt_done
<1>2. Become(n, IF With(n, "err") # {} THEN ReturnErr(a, "llm_error")
                ELSE IF b.filled = Targets THEN LeaveLoop(b)
                ELSE NextAttempt(b, "UrlShapeMismatch"))
  BY DEF attempt_done, AfterAttempt
<1>3. CASE With(n, "err") # {}
  <2>1. Become(n, ReturnErr(a, "llm_error"))
    BY <1>2, <1>3
  <2>2. FutureOK(ReturnErr(a, "llm_error"))
    BY <1>1, ReturnErrOK
  <2> QED  BY <1>1, <2>1, <2>2 DEF Moved
<1>4. CASE With(n, "err") = {}
  <2>1. ok \cup now = Targets \ a.filled /\ ok \cap now = {}
    BY <1>4, AnswersSplit
  <2> HIDE DEF ok, now
  <2>2. /\ b \in Future /\ Accounts(b)
        /\ b.pc = a.pc /\ b.attempt = a.attempt /\ b.prior = a.prior
        /\ b.result = a.result /\ b.filled = a.filled \cup ok
        /\ DOMAIN b.pending = Targets \ b.filled
        /\ \A t \in DOMAIN b.pending : b.pending[t] = b.attempt
    BY <1>1, <2>1, AfterAttemptOK
  <2>3. Len(b.prior) = b.attempt - 1 /\ b.result = NoResult
    BY <1>1, <2>2 DEF LoopInv, FutureOK
  <2> HIDE DEF b
  <2>4. CASE b.filled = Targets
    <3>1. Become(n, LeaveLoop(b))
      BY <1>2, <1>4, <2>4
    <3>2. FutureOK(LeaveLoop(b))
      BY <2>2, LeaveLoopOK
    <3> QED  BY <1>1, <3>1, <3>2 DEF Moved
  <2>5. CASE b.filled # Targets
    <3>1. Become(n, NextAttempt(b, "UrlShapeMismatch"))
      BY <1>2, <1>4, <2>5
    <3>2. FutureOK(NextAttempt(b, "UrlShapeMismatch"))
      <4>1. "UrlShapeMismatch" \in {"prefetch", "UrlShapeMismatch"} /\ "UrlShapeMismatch" # "prefetch"
        OBVIOUS
      <4> QED  BY <2>2, <2>3, <2>5, <4>1, NextAttemptOK
    <3> QED  BY <1>1, <3>1, <3>2 DEF Moved
  <2> QED  BY <2>4, <2>5
<1> QED  BY <1>3, <1>4

LEMMA FuturesMove ==
  ASSUME FuturesInv, NEW n \in Nominations, FutureStep(n) \/ DeadlinePasses(n)
  PROVE  Moved(n)
BY StartMoves, ProposeMoves, PrefetchMoves, AuthorMoves, AttemptMoves, DeadlineMoves DEF FutureStep

LEMMA MovedInv ==
  ASSUME FuturesInv, NEW n \in Nominations, Moved(n)
  PROVE  FuturesInv'
<1>1. PICK b : FutureOK(b) /\ Become(n, b)
  BY DEF Moved
<1>2. b \in Future
  BY <1>1 DEF FutureOK
<1> QED  BY <1>1, <1>2 DEF FuturesInv, Become

LEMMA InitFutures == Init => FuturesInv
<1> DEFINE a == [pc |-> "start", attempt |-> 1, expired |-> FALSE,
                 host |-> CHOOSE h \in Hosts : TRUE, filled |-> {}, recipes |-> {},
                 pending |-> [t \in {} |-> 0], results |-> [t \in {} |-> "ok"],
                 prior |-> <<>>, result |-> NoResult]
<1>1. [t \in {} |-> 0] \in Pending /\ DOMAIN [t \in {} |-> 0] = {} /\ [t \in {} |-> "ok"] \in Results
  BY DEF Pending, Results
<1>2. (CHOOSE h \in Hosts : TRUE) \in Hosts
  BY AuthoringAssumption
<1>3. 1 \in 1..MaxAttempts
  BY AttemptArithmetic
<1>4. a \in Future
  BY <1>1, <1>2, <1>3, NoResultType DEF Future, Phases
<1>5. /\ a.pc = "start" /\ a.attempt = 1 /\ a.prior = <<>> /\ a.recipes = {} /\ a.filled = {}
      /\ DOMAIN a.pending = {} /\ a.result = NoResult
  BY <1>1
<1>6. ASSUME Init PROVE au = [n \in Nominations |-> a]
  BY <1>6 DEF Init
<1> HIDE DEF a
<1>7. Accounts(a)
  BY <1>5 DEF Accounts, TargetsOf
<1>8. FutureOK(a)
  BY <1>4, <1>5, <1>7 DEF FutureOK, InLoop
<1> QED  BY <1>4, <1>6, <1>8 DEF FuturesInv

LEMMA FuturesStep == FuturesInv /\ [Next]_vars => FuturesInv'
<1> SUFFICES ASSUME FuturesInv, [Next]_vars PROVE FuturesInv'
  OBVIOUS
<1>1. CASE \E n \in Nominations : FutureStep(n) \/ DeadlinePasses(n)
  BY <1>1, FuturesMove, MovedInv
<1>2. CASE acquire \/ UNCHANGED vars
  BY <1>2 DEF FuturesInv, acquire, vars
<1> QED  BY <1>1, <1>2 DEF Next

LEMMA FuturesCorrect == Spec => []FuturesInv
BY InitFutures, FuturesStep, PTL DEF Spec

\* No target is authored twice for a nomination, on whatever attempt and whatever
\* was declined before, and no tentative decline outlives the recipe of its target.
THEOREM TargetsFilledOnce == Spec => []FilledOnce
<1>1. FuturesInv => FilledOnce
  BY DEF FuturesInv, FutureOK, Accounts, FilledOnce
<1> QED  BY <1>1, FuturesCorrect, PTL

\* What is pending was declined in the last attempt that had bytes.
THEOREM LastDeclineCounts == Spec => []LatestDeclineWins
<1>1. FuturesInv => LatestDeclineWins
  BY DEF FuturesInv, FutureOK, LoopInv, InLoop, WithBytes, LatestDeclineWins
<1> QED  BY <1>1, FuturesCorrect, PTL

\* When the proposer is asked it is told of every earlier attempt, once each.
THEOREM HistoryIsTold == Spec => []ProposerKnowsHistory
<1>1. FuturesInv => ProposerKnowsHistory
  BY DEF FuturesInv, FutureOK, LoopInv, InLoop, ProposerKnowsHistory
<1> QED  BY <1>1, FuturesCorrect, PTL

-----------------------------------------------------------------------------
(***************************************************************************)
(* Refinement: a future resolves once, to what AuthoringContract allows    *)
(***************************************************************************)
OutcomeOf(res) ==
  CASE res.tag = "none" -> [state |-> "pending", value |-> {}]
    [] res.tag = "ok"   ->
         [state |-> "ok",
          value |-> {[authored |-> res.authored,
                      declined |-> res.declines \cup (IF res.reason THEN {Whole} ELSE {})]}]
    [] OTHER -> [state |-> "err", value |-> {}]

LEMMA OutcomeIs == Outcome = [n \in Nominations |-> OutcomeOf(au[n].result)]
BY DEF Outcome, OutcomeOf

LEMMA OutcomeCases ==
  /\ OutcomeOf(NoResult) = Promise!Pending
  /\ \A res : Valid(res) =>
       \/ OutcomeOf(res) = Promise!Failed
       \/ \E said \in Promise!AuthoredResult : OutcomeOf(res) = [state |-> "ok", value |-> {said}]
<1>1. OutcomeOf(NoResult) = Promise!Pending
  BY DEF OutcomeOf, NoResult, Promise!Pending
<1>2. ASSUME NEW res, res.tag \in {"llm_error", "bad_url"} PROVE OutcomeOf(res) = Promise!Failed
  BY <1>2 DEF OutcomeOf, Promise!Failed
<1>3. ASSUME NEW res, res.tag = "ok" PROVE OutcomeOf(res) = [state |-> "ok", value |-> {Said(res)}]
  BY <1>3 DEF OutcomeOf, Said
<1> QED  BY <1>1, <1>2, <1>3 DEF Valid

LEMMA InitRefines == Init => Promise!Init
<1> SUFFICES ASSUME Init PROVE Outcome = [n \in Nominations |-> Promise!Pending]
  BY DEF Promise!Init
<1>1. \A n \in Nominations : au[n].result = NoResult
  BY DEF Init
<1> QED  BY <1>1, OutcomeIs, OutcomeCases

\* A step of one future leaves the outcomes as they are or resolves its own.
LEMMA MovedRefines ==
  ASSUME FuturesInv, NEW n \in Nominations, Moved(n)
  PROVE  Promise!resolve(n) \/ UNCHANGED Outcome
<1>1. PICK b : FutureOK(b) /\ Become(n, b)
  BY DEF Moved
<1>2. au[n].result = NoResult
  BY DEF Moved, FuturesInv, FutureOK
<1>3. Outcome[n] = Promise!Pending
  BY <1>2, OutcomeIs, OutcomeCases
<1>4. Outcome' = [Outcome EXCEPT ![n] = OutcomeOf(b.result)]
  <2>1. au' = [au EXCEPT ![n] = b] /\ au \in [Nominations -> Future]
    BY <1>1 DEF Become, FuturesInv
  <2>2. Outcome' = [m \in Nominations |-> OutcomeOf(au'[m].result)]
    BY DEF Outcome, OutcomeOf
  <2> QED  BY <2>1, <2>2, OutcomeIs
<1>5. CASE b.pc # "returned"
  <2>1. b.result = NoResult
    BY <1>1, <1>5 DEF FutureOK
  <2> QED  BY <1>3, <1>4, <2>1, OutcomeIs, OutcomeCases
<1>6. CASE b.pc = "returned"
  <2>1. Valid(b.result)
    BY <1>1, <1>6 DEF FutureOK
  <2> QED  BY <1>3, <1>4, <2>1, OutcomeCases DEF Promise!resolve
<1> QED  BY <1>5, <1>6

LEMMA StepRefines == FuturesInv /\ [Next]_vars => [Promise!Next]_Outcome
<1> SUFFICES ASSUME FuturesInv, [Next]_vars PROVE [Promise!Next]_Outcome
  OBVIOUS
<1>1. CASE \E n \in Nominations : FutureStep(n) \/ DeadlinePasses(n)
  BY <1>1, FuturesMove, MovedRefines DEF Promise!Next
<1>2. CASE acquire \/ UNCHANGED vars
  <2>1. au' = au
    BY <1>2 DEF acquire, vars
  <2> QED  BY <2>1 DEF Outcome
<1> QED  BY <1>1, <1>2 DEF Next

\* The attempt loop of author_for_nomination, with all its early returns, partial
\* successes and interleavings with other nominations, keeps the promise that
\* load_or_author_recipes builds on.
THEOREM AuthoringKeepsPromise == Spec => ImplementsPromise
BY InitRefines, StepRefines, FuturesCorrect, PTL DEF Spec, ImplementsPromise, Promise!Spec

-----------------------------------------------------------------------------
(***************************************************************************)
(* The queue of the semaphore: sequences in which nothing occurs twice     *)
(***************************************************************************)
Once(q) == \A i, j \in 1..Len(q) : q[i] = q[j] => i = j

LEMMA OnceCardinality ==
  ASSUME NEW q \in Seq(Calls), Once(q)
  PROVE  Cardinality(Range(q)) = Len(q)
<1>1. Len(q) \in Nat /\ q \in [1..Len(q) -> Calls] /\ DOMAIN q = 1..Len(q)
  BY LenProperties
<1>2. q \in Injection(1..Len(q), Calls)
  BY <1>1 DEF Once, Injection, IsInjective
<1>3. q \in Bijection(1..Len(q), Range(q))
  BY <1>2, Fun_InjMeansBijImage
<1>4. IsFiniteSet(1..Len(q)) /\ Cardinality(1..Len(q)) = Len(q)
  BY <1>1, FS_Interval
<1>5. ExistsBijection(1..Len(q), Range(q))
  BY <1>3 DEF ExistsBijection
<1> QED  BY <1>4, <1>5, FS_Bijection

LEMMA RangeIs ==
  ASSUME NEW q \in Seq(Calls)
  PROVE  \A c : c \in Range(q) <=> \E i \in 1..Len(q) : c = q[i]
BY RangeEquality

\* A batch of calls is put behind the queue.
LEMMA Enqueue ==
  ASSUME NEW q \in Seq(Calls), Once(q), NEW batch \in Seq(Calls), Once(batch),
         Range(q) \cap Range(batch) = {}
  PROVE  /\ q \o batch \in Seq(Calls)
         /\ Range(q \o batch) = Range(q) \cup Range(batch)
         /\ Once(q \o batch)
<1> DEFINE r == q \o batch
<1>1. /\ r \in Seq(Calls) /\ Len(r) = Len(q) + Len(batch)
      /\ \A i \in 1..Len(r) : r[i] = IF i <= Len(q) THEN q[i] ELSE batch[i - Len(q)]
  BY ConcatProperties
<1>2. Range(r) = Range(q) \cup Range(batch)
  BY RangeConcatenation
<1> HIDE DEF r
<1>3. Len(q) \in Nat /\ Len(batch) \in Nat
  BY LenProperties
<1>4. ASSUME NEW i \in 1..Len(r), NEW j \in 1..Len(r), r[i] = r[j]
      PROVE  i = j
  <2>1. ASSUME NEW k \in 1..Len(q), NEW l \in 1..Len(batch) PROVE q[k] # batch[l]
    <3>1. q[k] \in Range(q) /\ batch[l] \in Range(batch)
      BY RangeIs
    <3> QED  BY <3>1
  <2>2. CASE i <= Len(q) /\ j <= Len(q)
    <3>1. i \in 1..Len(q) /\ j \in 1..Len(q) /\ q[i] = q[j]
      BY <1>1, <1>3, <1>4, <2>2
    <3> QED  BY <3>1 DEF Once
  <2>3. CASE i > Len(q) /\ j > Len(q)
    <3>1. /\ i - Len(q) \in 1..Len(batch) /\ j - Len(q) \in 1..Len(batch)
          /\ batch[i - Len(q)] = batch[j - Len(q)]
      BY <1>1, <1>3, <1>4, <2>3
    <3>2. i - Len(q) = j - Len(q)
      BY <3>1 DEF Once
    <3> QED  BY <1>1, <1>3, <3>2
  <2>4. CASE i <= Len(q) /\ j > Len(q)
    <3>1. i \in 1..Len(q) /\ j - Len(q) \in 1..Len(batch) /\ q[i] = batch[j - Len(q)]
      BY <1>1, <1>3, <1>4, <2>4
    <3> QED  BY <2>1, <3>1
  <2>5. CASE i > Len(q) /\ j <= Len(q)
    <3>1. j \in 1..Len(q) /\ i - Len(q) \in 1..Len(batch) /\ q[j] = batch[i - Len(q)]
      BY <1>1, <1>3, <1>4, <2>5
    <3> QED  BY <2>1, <3>1
  <2> QED  BY <1>1, <1>3, <2>2, <2>3, <2>4, <2>5
<1> QED  BY <1>1, <1>2, <1>4 DEF r, Once

LEMMA EnqueueOne ==
  ASSUME NEW q \in Seq(Calls), Once(q), NEW c \in Calls, c \notin Range(q)
  PROVE  /\ Append(q, c) \in Seq(Calls)
         /\ Range(Append(q, c)) = Range(q) \cup {c}
         /\ Once(Append(q, c))
<1> DEFINE one == <<c>>
<1>1. one \in Seq(Calls) /\ Len(one) = 1 /\ one[1] = c
  OBVIOUS
<1>2. Append(q, c) = q \o one
  BY AppendIsConcat
<1> HIDE DEF one
<1>3. 1..Len(one) = {1}
  BY <1>1
<1>4. Range(one) = {c}
  BY <1>1, <1>3, RangeIs
<1>5. Once(one)
  BY <1>3 DEF Once
<1> QED  BY <1>1, <1>2, <1>4, <1>5, Enqueue

LEMMA Dequeue ==
  ASSUME NEW q \in Seq(Calls), Once(q), q # <<>>
  PROVE  /\ Head(q) \in Calls /\ Head(q) \in Range(q)
         /\ Tail(q) \in Seq(Calls) /\ Once(Tail(q))
         /\ Range(Tail(q)) = Range(q) \ {Head(q)}
<1>1. /\ Head(q) \in Calls /\ Tail(q) \in Seq(Calls) /\ Len(Tail(q)) = Len(q) - 1
      /\ \A i \in 1..Len(Tail(q)) : Tail(q)[i] = q[i + 1]
  BY HeadTailProperties
<1>2. Len(q) \in Nat /\ Len(q) >= 1 /\ Head(q) = q[1]
  BY LenProperties, EmptySeq
<1>3. Head(q) \in Range(q)
  BY <1>2, RangeIs
<1>4. Once(Tail(q))
  BY <1>1, <1>2 DEF Once
<1>5. ASSUME NEW c \in Range(Tail(q)) PROVE c \in Range(q) /\ c # Head(q)
  <2>a. \E i \in 1..Len(Tail(q)) : c = Tail(q)[i]
    <3> DEFINE r == Tail(q)
    <3>1. r \in Seq(Calls) /\ c \in Range(r)
      BY <1>1
    <3> HIDE DEF r
    <3>2. \E i \in 1..Len(r) : c = r[i]
      BY <3>1, RangeIs
    <3> QED  BY <3>2 DEF r
  <2>1. PICK i \in 1..Len(Tail(q)) : c = Tail(q)[i]
    BY <2>a
  <2>2. i + 1 \in 1..Len(q) /\ c = q[i + 1] /\ i + 1 # 1
    BY <1>1, <1>2, <2>1
  <2>3. q[i + 1] # q[1]
    BY <1>2, <2>2 DEF Once
  <2> QED  BY <1>2, <2>2, <2>3, RangeIs
<1>6. ASSUME NEW c \in Range(q), c # Head(q) PROVE c \in Range(Tail(q))
  <2>1. PICK i \in 1..Len(q) : c = q[i]
    BY RangeIs
  <2>2. i - 1 \in 1..Len(Tail(q)) /\ Tail(q)[i - 1] = c
    BY <1>1, <1>2, <1>6, <2>1
  <2> QED  BY <1>1, <2>2, RangeIs
<1> QED  BY <1>1, <1>3, <1>4, <1>5, <1>6

\* The calls of an attempt: one for each unfilled target.
LEMMA BatchOfAttempt ==
  ASSUME NEW n \in Nominations, NEW S \in SUBSET Targets, NEW todo \in InOrder(S)
  PROVE  LET batch == [i \in DOMAIN todo |-> <<n, todo[i]>>]
         IN  batch \in Seq(Calls) /\ Once(batch) /\ Range(batch) = {n} \X S
<1> DEFINE k == Cardinality(S)
           batch == [i \in DOMAIN todo |-> <<n, todo[i]>>]
<1>1. IsFiniteSet(S) /\ k \in Nat
  BY AuthoringAssumption, FS_Subset, FS_CardinalityType
<1>2. todo \in [1..k -> S] /\ \A i, j \in 1..k : i < j => Position(todo[i]) < Position(todo[j])
  BY DEF InOrder
<1> HIDE DEF k
<1>3. ASSUME NEW t \in S PROVE Position(t) \in Nat
  <2>1. DOMAIN TargetList = 1..Len(TargetList) /\ Len(TargetList) \in Nat
    BY AuthoringAssumption, LenProperties
  <2>2. \E i \in DOMAIN TargetList : TargetList[i] = t
    BY DEF Targets, Range
  <2> QED  BY <2>1, <2>2 DEF Position
<1>4. ASSUME NEW i \in 1..k, NEW j \in 1..k, todo[i] = todo[j] PROVE i = j
  <2>1. i \in Nat /\ j \in Nat /\ todo[i] \in S
    BY <1>1, <1>2
  <2>2. ~(Position(todo[i]) < Position(todo[j]))
    BY <1>3, <1>4, <2>1
  <2>3. ~(Position(todo[j]) < Position(todo[i]))
    BY <1>3, <1>4, <2>1
  <2> QED  BY <1>2, <2>1, <2>2, <2>3
<1>5. todo \in Injection(1..k, S)
  BY <1>2, <1>4 DEF Injection, IsInjective
<1>6. \A t \in S : \E i \in 1..k : todo[i] = t
  <2>1. Cardinality(1..k) = k
    BY <1>1, FS_Interval
  <2>2. todo \in Surjection(1..k, S)
    BY <1>1, <1>5, <2>1, FS_Injection DEF k
  <2> QED  BY <2>2 DEF Surjection
<1>7. DOMAIN todo = 1..k
  BY <1>2
<1>8. \A i \in 1..k : <<n, todo[i]>> \in Calls
  BY <1>2 DEF Calls
<1>9. batch \in [1..k -> Calls]
  BY <1>7, <1>8
<1>10. batch \in Seq(Calls) /\ Len(batch) = k
  BY <1>1, <1>9
<1>11. \A i \in 1..k : batch[i] = <<n, todo[i]>>
  BY <1>7
<1> HIDE DEF batch
<1>12. Once(batch)
  BY <1>4, <1>10, <1>11 DEF Once
<1>13. Range(batch) = {n} \X S
  <2>1. ASSUME NEW c \in Range(batch) PROVE c \in {n} \X S
    <3>1. PICK i \in 1..k : c = batch[i]
      BY <1>10, RangeIs
    <3>2. c = <<n, todo[i]>> /\ todo[i] \in S
      BY <1>2, <1>11, <3>1
    <3> QED  BY <3>2
  <2>2. ASSUME NEW t \in S PROVE <<n, t>> \in Range(batch)
    <3>1. PICK i \in 1..k : todo[i] = t
      BY <1>6
    <3> QED  BY <1>10, <1>11, <3>1, RangeIs
  <2> QED  BY <2>1, <2>2
<1> QED  BY <1>10, <1>12, <1>13 DEF batch

-----------------------------------------------------------------------------
(***************************************************************************)
(* The semaphore                                                           *)
(***************************************************************************)
\* The targets, or the proposal, whose answer a future awaits.
Awaits(a) ==
  CASE a.pc = "proposing" -> {Propose}
    [] a.pc = "authoring" -> (Targets \ a.filled) \ DOMAIN a.results
    [] OTHER -> {}

Made(n, x) == <<n, x>> \in Waiting \cup held

SemaphoreInv ==
  /\ queue \in Seq(Calls) /\ Once(queue)
  /\ held \subseteq Calls /\ Cardinality(held) <= Permits
  /\ Waiting \cap held = {}
  /\ \A n \in Nominations : \A x : Made(n, x) <=> x \in Awaits(au[n])

LEMMA CallsFinite == \A S \in SUBSET Calls : IsFiniteSet(S)
<1>1. IsFiniteSet(Targets \cup {Propose})
  BY AuthoringAssumption, FS_AddElement
<1>2. IsFiniteSet(Calls)
  BY <1>1, AuthoringAssumption, FS_Product DEF Calls
<1> QED  BY <1>2, FS_Subset

\* A future that is done with an attempt, or with everything, awaits nothing.
LEMMA NothingAwaited ==
  ASSUME NEW a \in Future
  PROVE  /\ Awaits(ReturnEarly(a)) = {} /\ Awaits(LeaveLoop(a)) = {}
         /\ \A tag : Awaits(ReturnErr(a, tag)) = {}
         /\ \A class \in {"prefetch", "UrlShapeMismatch"} : Awaits(NextAttempt(a, class)) = {}
<1>1. ASSUME NEW b \in Future, NEW tag, NEW authored, NEW declines, NEW reason
      PROVE  Return(b, tag, authored, declines, reason).pc = "returned"
  BY DEF Return, Future
<1>2. ASSUME NEW b \in Future
      PROVE  /\ ReturnEarly(b).pc = "returned" /\ LeaveLoop(b).pc = "returned"
             /\ \A tag : ReturnErr(b, tag).pc = "returned"
  BY <1>1 DEF ReturnEarly, LeaveLoop, ReturnErr
<1>3. ASSUME NEW class \in {"prefetch", "UrlShapeMismatch"}
      PROVE  NextAttempt(a, class).pc \in {"attempting", "returned"}
  <2> DEFINE p == Append(a.prior, [host |-> a.host, class |-> class])
             told == [a EXCEPT !.prior = p]
  <2>1. [host |-> a.host, class |-> class] \in PriorAttempt
    BY FutureFields DEF PriorAttempt
  <2>2. p \in Seq(PriorAttempt)
    BY <2>1, FutureFields, AppendProperties
  <2>3. NextAttempt(a, class) = IF a.attempt = MaxAttempts THEN LeaveLoop(told)
                                ELSE [told EXCEPT !.pc = "attempting", !.attempt = @ + 1]
    BY DEF NextAttempt
  <2> HIDE DEF p
  <2>4. told \in Future
    BY <2>2 DEF Future
  <2> HIDE DEF told
  <2>5. [told EXCEPT !.pc = "attempting", !.attempt = @ + 1].pc = "attempting"
    BY <2>4 DEF Future
  <2> QED  BY <1>2, <2>3, <2>4, <2>5
<1>4. ASSUME NEW b, b.pc \in {"attempting", "returned"} PROVE Awaits(b) = {}
  BY <1>4 DEF Awaits
<1> QED  BY <1>2, <1>3, <1>4

\* A future moves from a to b: the calls in the queue or in flight are still the
\* awaited ones if its own are.
LEMMA CallsFollow ==
  ASSUME FuturesInv, SemaphoreInv, NEW n \in Nominations, NEW b, Become(n, b),
         \A m \in Nominations \ {n} : \A x : Made(m, x)' <=> Made(m, x),
         \A x : Made(n, x)' <=> x \in Awaits(b)
  PROVE  \A m \in Nominations : \A x : Made(m, x)' <=> x \in Awaits(au'[m])
<1>1. au' = [au EXCEPT ![n] = b] /\ au \in [Nominations -> Future]
  BY DEF Become, FuturesInv
<1>2. ASSUME NEW m \in Nominations \ {n} PROVE \A x : Made(m, x)' <=> x \in Awaits(au'[m])
  <2>1. au'[m] = au[m]
    BY <1>1
  <2>2. \A x : Made(m, x) <=> x \in Awaits(au[m])
    BY DEF SemaphoreInv
  <2> QED  BY <2>1, <2>2
<1>3. au'[n] = b
  BY <1>1
<1> QED  BY <1>2, <1>3

\* A step that leaves the semaphore alone.
LEMMA CallsStay ==
  ASSUME FuturesInv, SemaphoreInv, NEW n \in Nominations, NEW b, Become(n, b),
         Awaits(b) = Awaits(au[n]), UNCHANGED <<queue, held>>
  PROVE  SemaphoreInv'
<1>1. \A m, x : Made(m, x)' <=> Made(m, x)
  BY DEF Made, Waiting
<1>2. \A x : Made(n, x)' <=> x \in Awaits(b)
  BY <1>1 DEF SemaphoreInv
<1>3. \A m \in Nominations : \A x : Made(m, x)' <=> x \in Awaits(au'[m])
  BY <1>1, <1>2, CallsFollow
<1>4. /\ (queue \in Seq(Calls) /\ Once(queue))'
      /\ (held \subseteq Calls /\ Cardinality(held) <= Permits)'
      /\ (Waiting \cap held = {})'
  BY DEF SemaphoreInv, Once, Waiting
<1> QED  BY <1>3, <1>4 DEF SemaphoreInv

\* A future asks for permits it has not asked for.
LEMMA CallsQueued ==
  ASSUME FuturesInv, SemaphoreInv, NEW n \in Nominations, NEW b, Become(n, b),
         Awaits(au[n]) = {}, UNCHANGED held,
         NEW q \in Seq(Calls), Once(q), queue' = q,
         Range(q) = Waiting \cup {<<n, x>> : x \in Awaits(b)}
  PROVE  SemaphoreInv'
<1>1. \A x : <<n, x>> \notin Waiting \cup held
  BY DEF SemaphoreInv, Made
<1>2. \A m, x : Made(m, x)' <=> Made(m, x) \/ (m = n /\ x \in Awaits(b))
  BY DEF Made, Waiting
<1>3. \A m \in Nominations \ {n} : \A x : Made(m, x)' <=> Made(m, x)
  BY <1>2
<1>4. \A x : Made(n, x)' <=> x \in Awaits(b)
  BY <1>1, <1>2 DEF Made
<1>5. \A m \in Nominations : \A x : Made(m, x)' <=> x \in Awaits(au'[m])
  BY <1>3, <1>4, CallsFollow
<1>6. (Waiting \cap held = {})'
  BY <1>1 DEF SemaphoreInv, Waiting
<1> QED  BY <1>5, <1>6 DEF SemaphoreInv, Once

\* A call of a future in the loop ends and gives its permit back.
LEMMA CallEnds ==
  ASSUME FuturesInv, SemaphoreInv, NEW n \in Nominations, NEW b, Become(n, b),
         NEW x, <<n, x>> \in held, held' = held \ {<<n, x>>}, UNCHANGED queue,
         Awaits(b) = Awaits(au[n]) \ {x}
  PROVE  SemaphoreInv'
<1>1. <<n, x>> \notin Waiting
  BY DEF SemaphoreInv
<1>2. \A m, y : Made(m, y)' <=> Made(m, y) /\ ~(m = n /\ y = x)
  BY <1>1 DEF Made, Waiting
<1>3. \A m \in Nominations \ {n} : \A y : Made(m, y)' <=> Made(m, y)
  BY <1>2
<1>4. \A y : Made(n, y)' <=> y \in Awaits(b)
  BY <1>2 DEF SemaphoreInv
<1>5. \A m \in Nominations : \A y : Made(m, y)' <=> y \in Awaits(au'[m])
  BY <1>3, <1>4, CallsFollow
<1>6. held' \subseteq Calls /\ Cardinality(held') <= Permits
  <2>1. IsFiniteSet(held) /\ held' \in SUBSET held
    BY CallsFinite DEF SemaphoreInv
  <2>2. Cardinality(held) \in Nat /\ Cardinality(held') \in Nat /\ Cardinality(held') <= Cardinality(held)
    BY <2>1, FS_Subset, FS_CardinalityType
  <2> QED  BY <2>1, <2>2, AuthoringAssumption DEF SemaphoreInv
<1>7. (Waiting \cap held = {})' /\ (queue \in Seq(Calls) /\ Once(queue))'
  BY DEF SemaphoreInv, Waiting, Once
<1> QED  BY <1>5, <1>6, <1>7 DEF SemaphoreInv

LEMMA AcquireKeepsCalls ==
  ASSUME SemaphoreInv, acquire
  PROVE  SemaphoreInv'
<1> DEFINE c == Head(queue)
<1>1. /\ queue \in Seq(Calls) /\ Once(queue) /\ queue # <<>>
      /\ held \subseteq Calls /\ Cardinality(held) < Permits
      /\ held' = held \cup {c} /\ queue' = Tail(queue) /\ au' = au
  BY DEF SemaphoreInv, acquire
<1>2. /\ c \in Calls /\ c \in Waiting /\ Tail(queue) \in Seq(Calls) /\ Once(Tail(queue))
      /\ Range(Tail(queue)) = Waiting \ {c}
  BY <1>1, Dequeue DEF Waiting
<1> HIDE DEF c
<1>3. Waiting' = Waiting \ {c}
  BY <1>1, <1>2 DEF Waiting
<1>4. \A m, x : Made(m, x)' <=> Made(m, x)
  BY <1>1, <1>2, <1>3 DEF Made
<1>5. Cardinality(held') <= Permits
  <2>1. IsFiniteSet(held) /\ Cardinality(held) \in Nat
    BY <1>1, CallsFinite, FS_CardinalityType
  <2>2. Cardinality(held') = IF c \in held THEN Cardinality(held) ELSE Cardinality(held) + 1
    BY <1>1, <2>1, FS_AddElement
  <2> QED  BY <1>1, <2>1, <2>2, AuthoringAssumption
<1>6. (Waiting \cap held = {})'
  BY <1>1, <1>3 DEF SemaphoreInv
<1>7. Once(queue)' /\ held' \subseteq Calls
  BY <1>1, <1>2 DEF Once
<1> QED  BY <1>1, <1>2, <1>4, <1>5, <1>6, <1>7 DEF SemaphoreInv

LEMMA StartKeepsCalls ==
  ASSUME FuturesInv, SemaphoreInv, NEW n \in Nominations, start(n) \/ next_attempt(n)
  PROVE  SemaphoreInv'
<1> DEFINE a == au[n]
           b == [a EXCEPT !.pc = "proposing"]
           q == Append(queue, <<n, Propose>>)
<1>1. a \in Future /\ a.pc \in {"start", "attempting"} /\ UNCHANGED held
  BY DEF FuturesInv, start, next_attempt
<1>2. Awaits(a) = {}
  BY <1>1 DEF Awaits
<1>3. CASE Become(n, ReturnEarly(a)) /\ UNCHANGED queue
  <2>1. Awaits(ReturnEarly(a)) = {}
    BY <1>1, NothingAwaited
  <2> QED  BY <1>1, <1>2, <1>3, <2>1, CallsStay
<1>4. CASE Become(n, b) /\ queue' = q
  <2>1. b.pc = "proposing"
    BY <1>1 DEF Future
  <2> HIDE DEF b
  <2>2. Awaits(b) = {Propose}
    BY <2>1 DEF Awaits
  <2>3. <<n, Propose>> \notin Waiting /\ <<n, Propose>> \in Calls
    BY <1>2 DEF SemaphoreInv, Made, Calls
  <2>4. q \in Seq(Calls) /\ Once(q) /\ Range(q) = Waiting \cup {<<n, Propose>>}
    BY <2>3, EnqueueOne DEF SemaphoreInv, Waiting
  <2> HIDE DEF q
  <2>5. Range(q) = Waiting \cup {<<n, x>> : x \in Awaits(b)}
    BY <2>2, <2>4
  <2> QED  BY <1>1, <1>2, <1>4, <2>4, <2>5, CallsQueued
<1> QED  BY <1>3, <1>4 DEF start, next_attempt

LEMMA ProposeKeepsCalls ==
  ASSUME FuturesInv, SemaphoreInv, NEW n \in Nominations, propose_source_url(n)
  PROVE  SemaphoreInv'
<1> DEFINE a == au[n]
<1>1. /\ a \in Future /\ a.pc = "proposing" /\ <<n, Propose>> \in held
      /\ held' = held \ {<<n, Propose>>} /\ UNCHANGED queue
  BY DEF FuturesInv, propose_source_url
<1>2. Awaits(a) = {Propose}
  BY <1>1 DEF Awaits
<1>3. \E b : Become(n, b) /\ Awaits(b) = {}
  <2>1. ASSUME NEW h \in Hosts PROVE Awaits([a EXCEPT !.pc = "prefetching", !.host = h]) = {}
    <3> DEFINE b == [a EXCEPT !.pc = "prefetching", !.host = h]
    <3>1. b.pc = "prefetching"
      BY <1>1 DEF Future
    <3> HIDE DEF b
    <3>2. Awaits(b) = {}
      BY <3>1 DEF Awaits
    <3> QED  BY <3>2 DEF b
  <2>2. Awaits(ReturnEarly(a)) = {} /\ \A tag : Awaits(ReturnErr(a, tag)) = {}
    BY <1>1, NothingAwaited
  <2>3. \/ \E h \in Hosts : Become(n, [a EXCEPT !.pc = "prefetching", !.host = h])
        \/ Become(n, ReturnEarly(a))
        \/ \E tag \in {"llm_error", "bad_url"} : Become(n, ReturnErr(a, tag))
    BY DEF propose_source_url
  <2> QED  BY <2>1, <2>2, <2>3
<1>4. PICK b : Become(n, b) /\ Awaits(b) = {}
  BY <1>3
<1> QED  BY <1>1, <1>2, <1>4, CallEnds

LEMMA PrefetchKeepsCalls ==
  ASSUME FuturesInv, SemaphoreInv, NEW n \in Nominations, prefetch_excerpt(n)
  PROVE  SemaphoreInv'
<1> DEFINE a == au[n]
           b == [a EXCEPT !.pc = "authoring", !.results = [t \in {} |-> "ok"]]
<1>1. a \in Future /\ a.pc = "prefetching" /\ UNCHANGED held
  BY DEF FuturesInv, prefetch_excerpt
<1>2. Awaits(a) = {}
  BY <1>1 DEF Awaits
<1>3. CASE Become(n, NextAttempt(a, "prefetch")) /\ UNCHANGED queue
  <2>1. Awaits(NextAttempt(a, "prefetch")) = {}
    BY <1>1, NothingAwaited
  <2> QED  BY <1>1, <1>2, <1>3, <2>1, CallsStay
<1>4. ASSUME NEW todo \in InOrder(Unfilled(n)), Become(n, b),
             queue' = queue \o [i \in DOMAIN todo |-> <<n, todo[i]>>]
      PROVE  SemaphoreInv'
  <2> DEFINE batch == [i \in DOMAIN todo |-> <<n, todo[i]>>]
             q == queue \o batch
  <2>1. b.pc = "authoring" /\ b.filled = a.filled /\ DOMAIN b.results = {}
    BY <1>1 DEF Future
  <2> HIDE DEF b
  <2>2. Awaits(b) = Unfilled(n)
    BY <2>1 DEF Awaits, Unfilled
  <2>3. Unfilled(n) \in SUBSET Targets
    BY DEF Unfilled
  <2>4. batch \in Seq(Calls) /\ Once(batch) /\ Range(batch) = {n} \X Unfilled(n)
    BY <2>3, BatchOfAttempt
  <2>5. queue' = q
    BY <1>4
  <2> HIDE DEF batch
  <2>6. Range(queue) \cap Range(batch) = {}
    BY <1>2, <2>4 DEF SemaphoreInv, Made, Waiting
  <2>7. q \in Seq(Calls) /\ Once(q) /\ Range(q) = Waiting \cup Range(batch)
    BY <2>4, <2>6, Enqueue DEF SemaphoreInv, Waiting
  <2> HIDE DEF q
  <2>8. Range(q) = Waiting \cup {<<n, x>> : x \in Awaits(b)}
    BY <2>2, <2>4, <2>7
  <2> QED  BY <1>1, <1>2, <1>4, <2>5, <2>7, <2>8, CallsQueued
<1> QED  BY <1>3, <1>4 DEF prefetch_excerpt

LEMMA AuthorKeepsCalls ==
  ASSUME FuturesInv, SemaphoreInv, NEW n \in Nominations, NEW t \in Targets, author_recipe(n, t)
  PROVE  SemaphoreInv'
<1> DEFINE a == au[n]
<1>1. /\ a \in Future /\ a.pc = "authoring" /\ <<n, t>> \in held
      /\ held' = held \ {<<n, t>>} /\ UNCHANGED queue
  BY DEF FuturesInv, author_recipe
<1>2. PICK res \in Answers :
        Become(n, [a EXCEPT !.results = [x \in DOMAIN a.results \cup {t} |->
                                           IF x = t THEN res ELSE a.results[x]]])
  BY DEF author_recipe
<1> DEFINE f == [x \in DOMAIN a.results \cup {t} |-> IF x = t THEN res ELSE a.results[x]]
           b == [a EXCEPT !.results = f]
<1>3. DOMAIN f = DOMAIN a.results \cup {t}
  OBVIOUS
<1>4. Become(n, b)
  BY <1>2
<1> HIDE DEF f
<1>5. b.pc = "authoring" /\ b.filled = a.filled /\ b.results = f
  BY <1>1 DEF Future
<1> HIDE DEF b
<1>6. Awaits(b) = Awaits(a) \ {t}
  BY <1>1, <1>3, <1>5 DEF Awaits
<1> QED  BY <1>1, <1>4, <1>6, CallEnds

\* With the answers in, the future returns or goes to the head of the loop.
LEMMA AttemptEnds ==
  ASSUME FuturesInv, NEW n \in Nominations, attempt_done(n)
  PROVE  \E b : Become(n, b) /\ Awaits(b) = {}
<1> DEFINE a == au[n]
           b == AfterAttempt(a, With(n, "ok"), With(n, "declined"))
<1>1. a \in Future /\ FutureOK(a) /\ a.pc = "authoring"
  BY DEF FuturesInv, FutureOK, attempt_done
<1>2. Become(n, IF With(n, "err") # {} THEN ReturnErr(a, "llm_error")
                ELSE IF b.filled = Targets THEN LeaveLoop(b)
                ELSE NextAttempt(b, "UrlShapeMismatch"))
  BY DEF attempt_done, AfterAttempt
<1>3. CASE With(n, "err") # {}
  BY <1>1, <1>2, <1>3, NothingAwaited
<1>4. CASE With(n, "err") = {}
  <2>1. b \in Future
    BY <1>1, <1>4, AnswersSplit, AfterAttemptOK
  <2> HIDE DEF b
  <2> QED  BY <1>2, <1>4, <2>1, NothingAwaited
<1> QED  BY <1>3, <1>4

LEMMA AttemptKeepsCalls ==
  ASSUME FuturesInv, SemaphoreInv, NEW n \in Nominations, attempt_done(n)
  PROVE  SemaphoreInv'
<1> DEFINE a == au[n]
<1>1. a \in Future /\ a.pc = "authoring" /\ UNCHANGED <<queue, held>>
  BY DEF FuturesInv, attempt_done
<1>2. Awaits(a) = {}
  BY <1>1 DEF Awaits, attempt_done, Unfilled
<1>3. \E b : Become(n, b) /\ Awaits(b) = {}
  BY AttemptEnds
<1> QED  BY <1>1, <1>2, <1>3, CallsStay

LEMMA DeadlineKeepsCalls ==
  ASSUME FuturesInv, SemaphoreInv, NEW n \in Nominations, DeadlinePasses(n)
  PROVE  SemaphoreInv'
<1> DEFINE a == au[n]
           b == [a EXCEPT !.expired = TRUE]
<1>1. a \in Future /\ Become(n, b) /\ UNCHANGED <<queue, held>>
  BY DEF FuturesInv, DeadlinePasses
<1>2. b.pc = a.pc /\ b.filled = a.filled /\ b.results = a.results
  BY <1>1 DEF Future
<1> HIDE DEF b
<1>3. Awaits(b) = Awaits(a)
  BY <1>2 DEF Awaits
<1> QED  BY <1>1, <1>3, CallsStay

LEMMA InitCalls == Init => SemaphoreInv
<1> SUFFICES ASSUME Init PROVE SemaphoreInv
  OBVIOUS
<1>1. queue = <<>> /\ held = {} /\ \A n \in Nominations : au[n].pc = "start"
  BY DEF Init
<1>2. queue \in Seq(Calls) /\ Len(queue) = 0 /\ Once(queue)
  BY <1>1 DEF Once
<1>3. Waiting = {}
  <2>1. \A c : ~\E i \in 1..Len(queue) : c = queue[i]
    BY <1>2
  <2>2. \A c : c \notin Range(queue)
    BY <1>2, <2>1, RangeIs
  <2> QED  BY <2>2 DEF Waiting
<1>4. Cardinality(held) <= Permits
  BY <1>1, FS_EmptySet, AuthoringAssumption
<1>5. \A n \in Nominations : Awaits(au[n]) = {}
  BY <1>1 DEF Awaits
<1> QED  BY <1>1, <1>2, <1>3, <1>4, <1>5 DEF SemaphoreInv, Made

LEMMA CallsStep == FuturesInv /\ SemaphoreInv /\ [Next]_vars => SemaphoreInv'
<1> SUFFICES ASSUME FuturesInv, SemaphoreInv, [Next]_vars PROVE SemaphoreInv'
  OBVIOUS
<1>1. CASE \E n \in Nominations : FutureStep(n) \/ DeadlinePasses(n)
  BY <1>1, StartKeepsCalls, ProposeKeepsCalls, PrefetchKeepsCalls, AuthorKeepsCalls,
     AttemptKeepsCalls, DeadlineKeepsCalls DEF FutureStep
<1>2. CASE acquire
  BY <1>2, AcquireKeepsCalls
<1>3. CASE UNCHANGED vars
  BY <1>3 DEF vars, SemaphoreInv, Made, Waiting, Once
<1> QED  BY <1>1, <1>2, <1>3 DEF Next

LEMMA CallsCorrect == Spec => []SemaphoreInv
BY InitCalls, CallsStep, FuturesCorrect, PTL DEF Spec

\* Never more than Permits calls are in flight, and the calls that have or await a
\* permit are exactly those whose answer a future awaits, each of them once.
THEOREM PermitsFollowCalls == Spec => []PermitsAreForCalls
<1>1. SemaphoreInv => PermitsAreForCalls
  <2> SUFFICES ASSUME SemaphoreInv PROVE PermitsAreForCalls
    OBVIOUS
  <2>1. Cardinality(Waiting) = Len(queue)
    BY OnceCardinality DEF SemaphoreInv, Waiting
  <2>2. ASSUME NEW n \in Nominations
        PROVE  {c \in Waiting \cup held : c[1] = n} = {<<n, x>> : x \in Awaits(au[n])}
    <3>1. ASSUME NEW c \in Waiting \cup held PROVE \E m \in Nominations : \E x : c = <<m, x>>
      <4>1. Waiting \subseteq Calls /\ held \subseteq Calls
        BY RangeOfSeq DEF SemaphoreInv, Waiting
      <4> QED  BY <4>1 DEF Calls
    <3> QED  BY <3>1 DEF SemaphoreInv, Made
  <2>3. ASSUME NEW n \in Nominations
        PROVE  {<<n, x>> : x \in Awaits(au[n])} =
                 CASE au[n].pc = "proposing" -> {<<n, Propose>>}
                   [] au[n].pc = "authoring" -> {n} \X (Unfilled(n) \ DOMAIN au[n].results)
                   [] OTHER -> {}
    BY DEF Awaits, Unfilled
  <2> QED  BY <2>1, <2>2, <2>3 DEF SemaphoreInv, PermitsAreForCalls
<1> QED  BY <1>1, CallsCorrect, PTL

\* Every local variable of a future and the semaphore hold what their types allow.
THEOREM AuthoringTypes == Spec => []TypeOK
<1>1. FuturesInv /\ SemaphoreInv => TypeOK
  BY DEF FuturesInv, SemaphoreInv, TypeOK
<1> QED  BY <1>1, FuturesCorrect, CallsCorrect, PTL
=============================================================================
