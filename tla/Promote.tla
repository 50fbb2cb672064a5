------------------------------ MODULE Promote ------------------------------
(***************************************************************************)
(* crates/pipeline/src/promote.rs: the promotion passes that turn the      *)
(* assertions of a plan into promoted records, by authority or by          *)
(* consensus, one store call at a time.  A pass works on the assertions    *)
(* and the registry it read when it started, while extraction adds         *)
(* assertions, the registry is reloaded and other passes run.              *)
(***************************************************************************)
EXTENDS Naturals, FiniteSets, FiniteSetsExt

CONSTANTS
  Passes,      \* calls of promote_consensus_for_plan
  Plans,
  Claims,      \* a content with its subjects, that is, a GroupKey
  Claimants,
  Evidence,    \* the assertions that extraction may store
  Registries,  \* the contents the authority registry may have
  Quorums      \* values of min_independent_claimants

(***************************************************************************)
(* n tells apart assertions of one claimant about one claim, from several  *)
(* documents.  A consensus_quorum of 0 stands for one that is not set.     *)
(***************************************************************************)
Assertion == [plan : Plans, claim : Claims, claimant : Claimants, n : Nat]

AuthorityEntry == [claimant : Claimants, claims : SUBSET Claims, consensus_quorum : Nat]

ASSUME PromoteAssumption ==
  /\ IsFiniteSet(Evidence) /\ Evidence \subseteq Assertion
  /\ Registries # {} /\ Registries \subseteq SUBSET AuthorityEntry
  /\ Quorums \subseteq Nat

VARIABLES
  assertions,  \* table assertions, as far as extraction fills it
  registry,    \* AppState.authoritative
  promoted,    \* the promoted rows of all per-shape tables
  blind,       \* claims for which an existence check ever failed (history)
  overlapped,  \* did a pass ever start while another was under way? (history)
  pass         \* the local state of each pass

vars == <<assertions, registry, promoted, blind, overlapped, pass>>

entry_matches_assertion(e, a) == e.claimant = a.claimant /\ a.claim \in e.claims

\* AuthorityRegistry::matches
Matches(r, a) ==
  \E e \in r : entry_matches_assertion(e, a) /\ e.consensus_quorum <= 1

\* The bars that quorum_override_for finds for the members of a group.
Overrides(r, group) ==
  {e.consensus_quorum : e \in {x \in r : /\ x.consensus_quorum >= 1
                                         /\ \E a \in group : entry_matches_assertion(x, a)}}

EffectiveQuorum(r, quorum, group) == Min({quorum} \cup Overrides(r, group))

GroupOf(as, c) == {a \in as : a.claim = c}

ClaimsOf(as) == {a.claim : a \in as}

\* Mutant: one claimant who repeats itself counts twice.
QuorumMet_counts_assertions(r, quorum, group) ==
  Cardinality(group) >= EffectiveQuorum(r, quorum, group)

QuorumMet(r, quorum, group) ==
  Cardinality({a.claimant : a \in group}) >= EffectiveQuorum(r, quorum, group)

NoReport == [authoritative_promoted |-> 0, groups_promoted |-> 0,
             skipped_already_promoted |-> 0, insert_failures |-> 0]

(***************************************************************************)
(* cand is the row the pass is about to insert, as a set of at most one.   *)
(***************************************************************************)
Idle == [pc |-> "idle", stage |-> "auth", quorum |-> 0, registry |-> {},
         snapshot |-> {}, todo |-> {}, remaining |-> {}, groups |-> {},
         cand |-> {}, report |-> NoReport]

Init ==
  /\ assertions = {}
  /\ registry \in Registries
  /\ promoted = {}
  /\ blind = {}
  /\ overlapped = FALSE
  /\ pass = [p \in Passes |-> Idle]

Become(p, pp) == pass' = [pass EXCEPT ![p] = pp]

Active(p) == pass[p].pc \in {"pick", "check", "insert"}

Row(p, c, path, supports) ==
  [pass |-> p, claim |-> c, path |-> path, supports |-> supports]

\* extract_and_persist_assertions stores one more while a run fetches documents.
extract(a) ==
  /\ a \notin assertions
  /\ assertions' = assertions \cup {a}
  /\ UNCHANGED <<registry, promoted, blind, overlapped, pass>>

\* The operator edits the registry; the watcher or a command installs it.
reload ==
  /\ registry' \in Registries \ {registry}
  /\ UNCHANGED <<assertions, promoted, blind, overlapped, pass>>

\* Mutant: whoever has an entry in the registry is left to the first pass.
promote_consensus_for_plan_all_entries(p) ==
  /\ pass[p].pc = "idle"
  /\ overlapped' = (overlapped \/ \E q \in Passes : Active(q))
  /\ \E plan \in Plans, quorum \in Quorums :
       LET mine == {a \in assertions : a.plan = plan} IN
       Become(p, [Idle EXCEPT !.pc = "pick", !.quorum = quorum, !.registry = registry,
                    !.snapshot = mine,
                    !.todo = {a \in mine : Matches(registry, a)},
                    !.remaining = {a \in mine : \A e \in registry : ~entry_matches_assertion(e, a)}])
  /\ UNCHANGED <<assertions, registry, promoted, blind>>

(***************************************************************************)
(* The command takes a snapshot of the registry and                        *)
(* promote_consensus_for_plan reads the assertions of the plan, here in    *)
(* one step; matches splits them.  A failed read ends the pass before it   *)
(* began.                                                                  *)
(***************************************************************************)
promote_consensus_for_plan(p) ==
  /\ pass[p].pc = "idle"
  /\ overlapped' = (overlapped \/ \E q \in Passes : Active(q))
  /\ \/ \E plan \in Plans, quorum \in Quorums :
          LET mine == {a \in assertions : a.plan = plan} IN
          Become(p, [Idle EXCEPT !.pc = "pick", !.quorum = quorum, !.registry = registry,
                       !.snapshot = mine,
                       !.todo = {a \in mine : Matches(registry, a)},
                       !.remaining = {a \in mine : ~Matches(registry, a)}])
     \/ Become(p, [Idle EXCEPT !.pc = "failed"])
  /\ UNCHANGED <<assertions, registry, promoted, blind>>

\* promote_authoritative_pass: the next assertion of an authority.
next_authoritative(p) ==
  /\ pass[p].pc = "pick" /\ pass[p].stage = "auth"
  /\ \E a \in pass[p].todo :
       Become(p, [pass[p] EXCEPT !.pc = "check", !.todo = @ \ {a},
                                 !.cand = {Row(p, a.claim, "auth", {a})}])
  /\ UNCHANGED <<assertions, registry, promoted, blind, overlapped>>

\* The consensus pass groups what is left and keeps the groups that meet quorum.
group_assertions_for_consensus(p) ==
  /\ pass[p].pc = "pick" /\ pass[p].stage = "auth" /\ pass[p].todo = {}
  /\ LET left == pass[p].remaining IN
     Become(p, [pass[p] EXCEPT !.stage = "consensus",
                  !.groups = {c \in ClaimsOf(left) :
                                QuorumMet(pass[p].registry, pass[p].quorum, GroupOf(left, c))}])
  /\ UNCHANGED <<assertions, registry, promoted, blind, overlapped>>

next_group(p) ==
  /\ pass[p].pc = "pick" /\ pass[p].stage = "consensus"
  /\ \E c \in pass[p].groups :
       Become(p, [pass[p] EXCEPT !.pc = "check", !.groups = @ \ {c},
                    !.cand = {Row(p, c, "consensus", GroupOf(pass[p].remaining, c))}])
  /\ UNCHANGED <<assertions, registry, promoted, blind, overlapped>>

\* Mutant: a row that the other pathway made does not count.
dedup_already_promoted_same_path(p) ==
  /\ pass[p].pc = "check"
  /\ \E row \in pass[p].cand :
       IF \E x \in promoted : x.claim = row.claim /\ x.path = row.path
         THEN Become(p, [pass[p] EXCEPT !.pc = "pick", !.cand = {},
                                        !.report.skipped_already_promoted = @ + 1])
         ELSE Become(p, [pass[p] EXCEPT !.pc = "insert"])
  /\ UNCHANGED <<assertions, registry, promoted, blind, overlapped>>

(***************************************************************************)
(* dedup_already_promoted: any row of the claim counts, whatever plan or   *)
(* pathway made it; a query that fails counts as none.                     *)
(***************************************************************************)
dedup_already_promoted(p) ==
  /\ pass[p].pc = "check"
  /\ \E row \in pass[p].cand :
       \/ /\ IF \E x \in promoted : x.claim = row.claim
               THEN Become(p, [pass[p] EXCEPT !.pc = "pick", !.cand = {},
                                              !.report.skipped_already_promoted = @ + 1])
               ELSE Become(p, [pass[p] EXCEPT !.pc = "insert"])
          /\ UNCHANGED blind
       \/ /\ blind' = blind \cup {row.claim}
          /\ Become(p, [pass[p] EXCEPT !.pc = "insert"])
  /\ UNCHANGED <<assertions, registry, promoted, overlapped>>

Inserted(p) ==
  IF pass[p].stage = "auth"
    THEN [pass[p] EXCEPT !.pc = "pick", !.cand = {}, !.report.authoritative_promoted = @ + 1]
    ELSE [pass[p] EXCEPT !.pc = "pick", !.cand = {}, !.report.groups_promoted = @ + 1]

\* Mutant: an assertion of an authority that could not be inserted is not given back.
insert_gives_nothing_back(p) ==
  /\ pass[p].pc = "insert"
  /\ \/ /\ promoted' = promoted \cup pass[p].cand
        /\ Become(p, Inserted(p))
     \/ /\ Become(p, [pass[p] EXCEPT !.pc = "pick", !.cand = {},
                                     !.report.insert_failures = @ + 1])
        /\ UNCHANGED promoted
  /\ UNCHANGED <<assertions, registry, blind, overlapped>>

(***************************************************************************)
(* insert_observation and its siblings: one transaction.  An assertion of  *)
(* an authority that could not be inserted gets its chance by consensus.   *)
(* No table has a unique dedup_key, so the arm of classify_insert_error    *)
(* that takes a failure for a duplicate has no step here.                  *)
(***************************************************************************)
insert(p) ==
  /\ pass[p].pc = "insert"
  /\ \/ /\ promoted' = promoted \cup pass[p].cand
        /\ Become(p, Inserted(p))
     \/ /\ Become(p, [pass[p] EXCEPT
                        !.pc = "pick", !.cand = {},
                        !.remaining = IF pass[p].stage = "auth"
                                        THEN @ \cup UNION {row.supports : row \in pass[p].cand}
                                        ELSE @,
                        !.report.insert_failures = @ + 1])
        /\ UNCHANGED promoted
  /\ UNCHANGED <<assertions, registry, blind, overlapped>>

\* The report is merged and returned.
merge_consensus_into(p) ==
  /\ pass[p].pc = "pick" /\ pass[p].stage = "consensus" /\ pass[p].groups = {}
  /\ Become(p, [pass[p] EXCEPT !.pc = "ended"])
  /\ UNCHANGED <<assertions, registry, promoted, blind, overlapped>>

\* The process dies: the passes under way are gone, what they inserted stays.
ProcessDies ==
  /\ \E p \in Passes : Active(p)
  /\ pass' = [p \in Passes |-> IF ~Active(p) THEN pass[p] ELSE
                [pass[p] EXCEPT !.pc = "dead", !.todo = {}, !.remaining = {},
                                !.groups = {}, !.cand = {}]]
  /\ UNCHANGED <<assertions, registry, promoted, blind, overlapped>>

PassStep(p) ==
  \/ next_authoritative(p) \/ group_assertions_for_consensus(p) \/ next_group(p)
  \/ dedup_already_promoted(p) \/ insert(p) \/ merge_consensus_into(p)

Next ==
  \/ \E a \in Evidence : extract(a)
  \/ reload
  \/ \E p \in Passes : promote_consensus_for_plan(p) \/ PassStep(p)
  \/ ProcessDies

Spec == Init /\ [][Next]_vars

-----------------------------------------------------------------------------
(***************************************************************************)
(* Properties                                                              *)
(***************************************************************************)
PromotedRow ==
  [pass : Passes, claim : Claims, path : {"auth", "consensus"}, supports : SUBSET Evidence]

Report == [authoritative_promoted : Nat, groups_promoted : Nat,
           skipped_already_promoted : Nat, insert_failures : Nat]

PassRecord ==
  [pc : {"idle", "pick", "check", "insert", "ended", "failed", "dead"},
   stage : {"auth", "consensus"}, quorum : Quorums \cup {0},
   registry : Registries \cup {{}}, snapshot : SUBSET Evidence,
   todo : SUBSET Evidence, remaining : SUBSET Evidence, groups : SUBSET Claims,
   cand : SUBSET PromotedRow, report : Report]

\* A pass works on assertions it read; what is still to be tried by authority is not
\* also left for consensus; a pass about to check or insert has one row in hand.
Consistent(p, r) ==
  /\ r.todo \cup r.remaining \subseteq r.snapshot
  /\ r.todo \cap r.remaining = {}
  /\ IF r.pc \in {"check", "insert"}
       THEN \E row \in PromotedRow : /\ r.cand = {row} /\ row.pass = p
                                    /\ row.supports \subseteq r.snapshot \ r.todo
       ELSE r.cand = {}

\* The tables and the local state of every pass have their types and agree.
TypeOK ==
  /\ assertions \subseteq Evidence
  /\ registry \in Registries
  /\ promoted \subseteq PromotedRow
  /\ blind \subseteq Claims
  /\ overlapped \in BOOLEAN
  /\ pass \in [Passes -> PassRecord]
  /\ \A p \in Passes : pass[p].snapshot \subseteq assertions /\ Consistent(p, pass[p])

\* Idempotency (module doc of promote.rs): a claim is promoted at most once, by
\* whatever pathway, for whatever plan and however often passes run, fail or die,
\* unless the existence check for it could not be made.
PromotedOnce ==
  \A x, y \in promoted : x.claim = y.claim /\ x.claim \notin blind => x = y

\* What the code gives of it: as long as no pass started while another was under way.
PromotedOnceInTurn == overlapped \/ PromotedOnce

\* A pass that ended without a failed insert left no claim behind: every claim of
\* its snapshot that an authority made, or that enough claimants made, is promoted.
CompletePass ==
  \A p \in Passes :
    pass[p].pc = "ended" /\ pass[p].report.insert_failures = 0 =>
      \A c \in ClaimsOf(pass[p].snapshot) :
        LET group == GroupOf(pass[p].snapshot, c) IN
          \/ \E a \in group : Matches(pass[p].registry, a)
          \/ QuorumMet(pass[p].registry, pass[p].quorum, group)
          => \E row \in promoted : row.claim = c

\* The report says what the pass did: at every step its counters of promotions are
\* the rows it inserted, and at the end each assertion of an authority and each
\* group of what was left that meets its quorum has been counted once.  What is
\* counted is there: an assertion that was not given back to the consensus pass
\* has a row of its claim, and so has a group, unless a failed insert is reported
\* for each that was given back and each group without a row.
ReportMatchesStore ==
  \A p \in Passes :
    LET rep == pass[p].report
        left == pass[p].remaining
        rows(path) == {x \in promoted : x.pass = p /\ x.path = path}
        matched == {a \in pass[p].snapshot : Matches(pass[p].registry, a)}
        quorate == {c \in ClaimsOf(left) :
                      QuorumMet(pass[p].registry, pass[p].quorum, GroupOf(left, c))}
        rowless == {c \in quorate : \A x \in promoted : x.claim # c}
    IN  /\ rep.authoritative_promoted = Cardinality(rows("auth"))
        /\ rep.groups_promoted = Cardinality(rows("consensus"))
        /\ pass[p].pc = "ended" =>
             /\ rep.authoritative_promoted + rep.groups_promoted
                  + rep.skipped_already_promoted + rep.insert_failures
                = Cardinality(matched) + Cardinality(quorate)
             /\ pass[p].snapshot \ matched \subseteq left
             /\ \A a \in matched \ left : \E x \in promoted : x.claim = a.claim
             /\ Cardinality(matched \cap left) + Cardinality(rowless) <= rep.insert_failures

\* A row rests on what its pathway asks for: an assertion of an authority, or as
\* many independent claimants as the lowest bar any of them has in the registry
\* the pass read; and what was promoted by authority does not count again.
QuorumBacked ==
  \A row \in promoted :
    LET p == row.pass IN
      /\ row.supports # {} /\ row.supports \subseteq GroupOf(pass[p].snapshot, row.claim)
      /\ IF row.path = "auth"
           THEN \A a \in row.supports : Matches(pass[p].registry, a)
           ELSE /\ \E q \in {pass[p].quorum} \cup Overrides(pass[p].registry, row.supports) :
                     Cardinality({a.claimant : a \in row.supports}) >= q
                /\ \A x \in promoted : x.pass = p /\ x.path = "auth" =>
                     x.supports \cap row.supports = {}
=============================================================================
