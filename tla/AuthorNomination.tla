-------------------------- MODULE AuthorNomination --------------------------
(***************************************************************************)
(* author_for_nomination (crates/pipeline/src/fetch_executor.rs) for all   *)
(* the nominations of a plan at once: the futures run on one task, share   *)
(* the semaphore that bounds the LLM calls in flight and meet nowhere else.*)
(* A future is suspended only while it queues for a permit, while an LLM   *)
(* call or the pre-fetch is under way, and inside join_all; everything     *)
(* between two such points is one action.                                  *)
(***************************************************************************)
EXTENDS Naturals, Sequences, FiniteSets, Functions

CONSTANTS
  Nominations,
  TargetList,   \* build_target_expectations: the targets, in order
  Whole,        \* the target of a decline that is about the whole nomination
  Propose,      \* the propose_source_url call, beside those for the targets
  Hosts,        \* hosts the proposer can propose a URL on
  MaxAttempts,  \* MAX_AUTHORING_ATTEMPTS_PER_SOURCE
  Permits       \* SR_LLM_CONCURRENCY

Targets == Range(TargetList)

ASSUME AuthoringAssumption ==
  /\ TargetList \in Seq(Targets)
  /\ IsFiniteSet(Nominations) /\ IsFiniteSet(Targets) /\ Hosts # {}
  /\ Propose \notin Targets /\ Whole \notin Targets
  /\ MaxAttempts \in Nat \ {0}
  /\ Permits \in Nat \ {0}

Calls == Nominations \X (Targets \cup {Propose})

(***************************************************************************)
(* A recipe of a nomination: its target and the attempt it was authored in *)
(* with the host its source_id is derived from.                            *)
(***************************************************************************)
Recipe == [tgt : Targets, attempt : 1..MaxAttempts, source_id : Hosts]

PriorAttempt == [host : Hosts, class : {"prefetch", "UrlShapeMismatch"}]

Tags == {"none", "ok", "llm_error", "bad_url"}

Result == [tag : Tags, authored : SUBSET Targets,
           declines : SUBSET Targets, reason : BOOLEAN]

Answers == {"ok", "declined", "err"}

NoResult == [tag |-> "none", authored |-> {}, declines |-> {}, reason |-> FALSE]

VARIABLES
  au,     \* the local variables of each nomination's future
  queue,  \* calls waiting for a permit of llm_semaphore, first come first served
  held    \* calls that hold a permit, that is, LLM calls in flight

vars == <<au, queue, held>>

Init ==
  /\ au = [n \in Nominations |->
       [pc      |-> "start",
        attempt |-> 1,                              \* attempt_num
        expired |-> FALSE,                          \* Instant::now() >= deadline
        host    |-> CHOOSE h \in Hosts : TRUE,      \* of proposed_url
        filled  |-> {},                             \* filled_targets
        recipes |-> {},
        pending |-> [t \in {} |-> 0],               \* pending_declines: target -> attempt
        results |-> [t \in {} |-> "ok"],            \* auth_results so far
        prior   |-> <<>>,                           \* prior_attempts
        result  |-> NoResult]]
  /\ queue = <<>>
  /\ held = {}

Become(n, rr) == au' = [au EXCEPT ![n] = rr]

Unfilled(n) == Targets \ au[n].filled

(***************************************************************************)
(* Returning.  A future that stops before the attempts are used up (the    *)
(* deadline, a proposer that declines) returns what it has with a reason;  *)
(* one that leaves the loop gives a reason only if it has nothing.  An     *)
(* error drops the recipes of every attempt.                               *)
(***************************************************************************)
Return(rr, tag, authored, declines, reason) ==
  [rr EXCEPT !.pc = "returned",
             !.result = [tag |-> tag, authored |-> authored,
                         declines |-> declines, reason |-> reason]]

TargetsOf(recipes) == {rec.tgt : rec \in recipes}

\* Mutant: the reason alone, as before partial success existed.
ReturnEarly_reason_alone(rr) == Return(rr, "ok", TargetsOf(rr.recipes), {}, TRUE)

ReturnEarly(rr) ==
  Return(rr, "ok", TargetsOf(rr.recipes),
         IF rr.recipes = {} THEN {} ELSE DOMAIN rr.pending, TRUE)

LeaveLoop(rr) ==
  IF rr.recipes = {}
    THEN Return(rr, "ok", {}, {}, TRUE)
    ELSE Return(rr, "ok", TargetsOf(rr.recipes), DOMAIN rr.pending, FALSE)

ReturnErr(rr, tag) == Return(rr, tag, {}, {}, FALSE)

\* Mutant: only an attempt that authored nothing is recorded for the proposer.
NextAttempt_forgets_partial(rr, class) ==
  LET told == IF \E rec \in rr.recipes : rec.attempt = rr.attempt THEN rr
              ELSE [rr EXCEPT !.prior = Append(@, [host |-> rr.host, class |-> class])]
  IN  IF rr.attempt = MaxAttempts
        THEN LeaveLoop(told)
        ELSE [told EXCEPT !.pc = "attempting", !.attempt = @ + 1]

(***************************************************************************)
(* An attempt that leaves a target unfilled is recorded for the proposer;  *)
(* then the loop goes on or, after the last attempt, is left.              *)
(***************************************************************************)
NextAttempt(rr, class) ==
  LET told == [rr EXCEPT !.prior = Append(@, [host |-> rr.host, class |-> class])]
  IN  IF rr.attempt = MaxAttempts
        THEN LeaveLoop(told)
        ELSE [told EXCEPT !.pc = "attempting", !.attempt = @ + 1]

(***************************************************************************)
(* The first poll of the future: nothing to author for, or the loop.  The  *)
(* deadline starts here, so the first attempt always happens.              *)
(***************************************************************************)
start(n) ==
  /\ au[n].pc = "start"
  /\ IF Targets = {}
       THEN Become(n, ReturnEarly(au[n])) /\ UNCHANGED queue
       ELSE /\ Become(n, [au[n] EXCEPT !.pc = "proposing"])
            /\ queue' = Append(queue, <<n, Propose>>)
  /\ UNCHANGED held

(***************************************************************************)
(* The head of a later attempt: the deadline is looked at here and nowhere *)
(* else.                                                                   *)
(***************************************************************************)
next_attempt(n) ==
  /\ au[n].pc = "attempting"
  /\ IF au[n].expired
       THEN Become(n, ReturnEarly(au[n])) /\ UNCHANGED queue
       ELSE /\ Become(n, [au[n] EXCEPT !.pc = "proposing"])
            /\ queue' = Append(queue, <<n, Propose>>)
  /\ UNCHANGED held

DeadlinePasses(n) ==
  /\ au[n].pc \notin {"start", "returned"}
  /\ ~au[n].expired
  /\ Become(n, [au[n] EXCEPT !.expired = TRUE])
  /\ UNCHANGED <<queue, held>>

(***************************************************************************)
(* Semaphore::acquire of tokio: waiters are served in order.               *)
(***************************************************************************)
acquire ==
  /\ queue # <<>>
  /\ Cardinality(held) < Permits
  /\ held' = held \cup {Head(queue)}
  /\ queue' = Tail(queue)
  /\ UNCHANGED au

\* Mutant: the permit lives until the end of the attempt, not of the call.
propose_source_url_keeps_permit(n) ==
  /\ au[n].pc = "proposing"
  /\ <<n, Propose>> \in held
  /\ \/ \E h \in Hosts : Become(n, [au[n] EXCEPT !.pc = "prefetching", !.host = h])
     \/ Become(n, ReturnEarly(au[n]))
     \/ \E tag \in {"llm_error", "bad_url"} : Become(n, ReturnErr(au[n], tag))
  /\ UNCHANGED <<queue, held>>

(***************************************************************************)
(* propose_source_url: a URL, a decline, a failed LLM call or a URL the    *)
(* guard rejects.  The permit is given back first.                         *)
(***************************************************************************)
propose_source_url(n) ==
  /\ au[n].pc = "proposing"
  /\ <<n, Propose>> \in held
  /\ held' = held \ {<<n, Propose>>}
  /\ \/ \E h \in Hosts : Become(n, [au[n] EXCEPT !.pc = "prefetching", !.host = h])
     \/ Become(n, ReturnEarly(au[n]))
     \/ \E tag \in {"llm_error", "bad_url"} : Become(n, ReturnErr(au[n], tag))
  /\ UNCHANGED queue

\* Mutant: later attempts call author_recipe for every target again.
prefetch_excerpt_all_targets(n) ==
  /\ au[n].pc = "prefetching"
  /\ \/ /\ Become(n, NextAttempt(au[n], "prefetch"))
        /\ UNCHANGED queue
     \/ /\ Become(n, [au[n] EXCEPT !.pc = "authoring", !.results = [t \in {} |-> "ok"]])
        /\ queue' = queue \o [i \in DOMAIN TargetList |-> <<n, TargetList[i]>>]
  /\ UNCHANGED held

\* The targets of S in the order of TargetList.
Position(t) == CHOOSE i \in DOMAIN TargetList : TargetList[i] = t

InOrder(S) ==
  {s \in [1..Cardinality(S) -> S] : \A i, j \in DOMAIN s : i < j => Position(s[i]) < Position(s[j])}

(***************************************************************************)
(* prefetch_excerpt, without a permit.  With bytes in hand, join_all polls *)
(* one author_recipe call per unfilled target, and each asks for a permit. *)
(***************************************************************************)
prefetch_excerpt(n) ==
  /\ au[n].pc = "prefetching"
  /\ \/ /\ Become(n, NextAttempt(au[n], "prefetch"))
        /\ UNCHANGED queue
     \/ /\ Become(n, [au[n] EXCEPT !.pc = "authoring", !.results = [t \in {} |-> "ok"]])
        /\ \E todo \in InOrder(Unfilled(n)) :
             queue' = queue \o [i \in DOMAIN todo |-> <<n, todo[i]>>]
  /\ UNCHANGED held

author_recipe(n, t) ==
  /\ au[n].pc = "authoring"
  /\ <<n, t>> \in held
  /\ held' = held \ {<<n, t>>}
  /\ \E res \in Answers :
       Become(n, [au[n] EXCEPT !.results = [x \in DOMAIN @ \cup {t} |->
                                              IF x = t THEN res ELSE @[x]]])
  /\ UNCHANGED queue

With(n, res) == {t \in DOMAIN au[n].results : au[n].results[t] = res}

\* Mutant: a recipe does not erase the tentative decline of its target.
attempt_done_keeps_declines(n) ==
  /\ au[n].pc = "authoring"
  /\ DOMAIN au[n].results = Unfilled(n)
  /\ LET now == With(n, "declined")
         rr  == [au[n] EXCEPT
                   !.filled  = @ \cup With(n, "ok"),
                   !.recipes = @ \cup [tgt : With(n, "ok"), attempt : {au[n].attempt},
                                       source_id : {au[n].host}],
                   !.pending = [t \in DOMAIN @ \cup now |->
                                  IF t \in now THEN au[n].attempt ELSE @[t]]]
     IN  Become(n, IF With(n, "err") # {} THEN ReturnErr(au[n], "llm_error")
                   ELSE IF rr.filled = Targets THEN LeaveLoop(rr)
                   ELSE NextAttempt(rr, "UrlShapeMismatch"))
  /\ UNCHANGED <<queue, held>>

\* Mutant: the first decline reason of a target is kept.
attempt_done_first_reason(n) ==
  /\ au[n].pc = "authoring"
  /\ DOMAIN au[n].results = Unfilled(n)
  /\ LET now == With(n, "declined")
         rr  == [au[n] EXCEPT
                   !.filled  = @ \cup With(n, "ok"),
                   !.recipes = @ \cup [tgt : With(n, "ok"), attempt : {au[n].attempt},
                                       source_id : {au[n].host}],
                   !.pending = [t \in (DOMAIN @ \cup now) \ With(n, "ok") |->
                                  IF t \in DOMAIN @ THEN @[t] ELSE au[n].attempt]]
     IN  Become(n, IF With(n, "err") # {} THEN ReturnErr(au[n], "llm_error")
                   ELSE IF rr.filled = Targets THEN LeaveLoop(rr)
                   ELSE NextAttempt(rr, "UrlShapeMismatch"))
  /\ UNCHANGED <<queue, held>>

(***************************************************************************)
(* join_all is done.  One hard error discards everything; otherwise the    *)
(* authored targets are filled for good, and a decline stays tentative     *)
(* until a later attempt fills its target.                                 *)
(***************************************************************************)
attempt_done(n) ==
  /\ au[n].pc = "authoring"
  /\ DOMAIN au[n].results = Unfilled(n)
  /\ LET now == With(n, "declined")
         rr  == [au[n] EXCEPT
                   !.filled  = @ \cup With(n, "ok"),
                   !.recipes = @ \cup [tgt : With(n, "ok"), attempt : {au[n].attempt},
                                       source_id : {au[n].host}],
                   !.pending = [t \in (DOMAIN @ \cup now) \ With(n, "ok") |->
                                  IF t \in now THEN au[n].attempt ELSE @[t]]]
     IN  Become(n, IF With(n, "err") # {} THEN ReturnErr(au[n], "llm_error")
                   ELSE IF rr.filled = Targets THEN LeaveLoop(rr)
                   ELSE NextAttempt(rr, "UrlShapeMismatch"))
  /\ UNCHANGED <<queue, held>>

FutureStep(n) ==
  \/ start(n)
  \/ next_attempt(n)
  \/ propose_source_url(n)
  \/ prefetch_excerpt(n)
  \/ \E t \in Targets : author_recipe(n, t)
  \/ attempt_done(n)

Next ==
  \/ acquire
  \/ \E n \in Nominations : FutureStep(n) \/ DeadlinePasses(n)

Spec == Init /\ [][Next]_vars

(***************************************************************************)
(* FuturesUnordered polls every future that can go on, and each LLM call   *)
(* and fetch ends within its client's timeout, with an error at the latest.*)
(***************************************************************************)
FairSpec ==
  /\ Spec
  /\ WF_vars(acquire)
  /\ \A n \in Nominations : WF_vars(FutureStep(n))

-----------------------------------------------------------------------------
(***************************************************************************)
(* Properties                                                              *)
(***************************************************************************)
Phases == {"start", "attempting", "proposing", "prefetching", "authoring", "returned"}

Pending == UNION {[S -> 1..MaxAttempts] : S \in SUBSET Targets}
Results == UNION {[S -> Answers] : S \in SUBSET Targets}

Future ==
  [pc : Phases, attempt : 1..MaxAttempts, expired : BOOLEAN, host : Hosts,
   filled : SUBSET Targets, recipes : SUBSET Recipe, pending : Pending,
   results : Results, prior : Seq(PriorAttempt), result : Result]

\* Every local variable of a future and the semaphore hold what their types allow.
TypeOK ==
  /\ au \in [Nominations -> Future]
  /\ queue \in Seq(Calls)
  /\ held \subseteq Calls

\* The contract with load_or_author_recipes (the Returns section of the doc of
\* author_for_nomination): every future resolves once, to a result in which no
\* target is both authored and declined and none is forgotten.
Outcome ==
  [n \in Nominations |->
     LET res == au[n].result IN
       CASE res.tag = "none" -> [state |-> "pending", value |-> {}]
         [] res.tag = "ok"   ->
              [state |-> "ok",
               value |-> {[authored |-> res.authored,
                           declined |-> res.declines \cup
                                          (IF res.reason THEN {Whole} ELSE {})]}]
         [] OTHER -> [state |-> "err", value |-> {}]]

Promise == INSTANCE AuthoringOutcome WITH outcome <- Outcome

ImplementsPromise == Promise!Spec

\* A target is authored at most once per nomination, and a tentative decline
\* never survives the recipe that fills its target.
FilledOnce ==
  \A n \in Nominations :
    /\ \A x, y \in au[n].recipes : x.tgt = y.tgt => x = y
    /\ TargetsOf(au[n].recipes) = au[n].filled
    /\ DOMAIN au[n].pending \cap au[n].filled = {}

\* "pending_declines carries the LATEST decline reason per target": every target
\* that is still pending was declined in the last attempt that had any bytes.
LatestDeclineWins ==
  \A n \in Nominations : \A t \in DOMAIN au[n].pending :
    LET bytes == {k \in 1..Len(au[n].prior) : au[n].prior[k].class = "UrlShapeMismatch"}
    IN  au[n].pc \in {"attempting", "proposing", "prefetching"} =>
          au[n].pending[t] \in bytes /\ \A k \in bytes : k <= au[n].pending[t]

\* The proposer is told of every earlier attempt of the run: when it is asked,
\* prior_attempts has exactly one entry for each of them.
ProposerKnowsHistory ==
  \A n \in Nominations :
    au[n].pc \in {"attempting", "proposing", "prefetching", "authoring"} =>
      Len(au[n].prior) = au[n].attempt - 1

Waiting == Range(queue)

\* The semaphore: never more than Permits calls in flight, and exactly the calls
\* whose answer a future awaits have or await a permit, each of them once.
PermitsAreForCalls ==
  /\ Cardinality(held) <= Permits
  /\ Waiting \cap held = {}
  /\ Cardinality(Waiting) = Len(queue)
  /\ \A n \in Nominations :
       LET mine == {c \in Waiting \cup held : c[1] = n} IN
         mine = CASE au[n].pc = "proposing" -> {<<n, Propose>>}
                  [] au[n].pc = "authoring" ->
                       {n} \X (Unfilled(n) \ DOMAIN au[n].results)
                  [] OTHER -> {}

\* No nomination waits for ever, for a permit or for its turn.
EveryNominationReturns == <>(\A n \in Nominations : au[n].pc = "returned")
=============================================================================
