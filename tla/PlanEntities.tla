---------------------------- MODULE PlanEntities ----------------------------
(***************************************************************************)
(* What deciding about plans does to the entities and relations of the     *)
(* store: accept_plan materialises the exemplars of the plan               *)
(* (entity_synth.rs, relation_synth.rs), reject_plan cleans them up        *)
(* (orphan_cleanup.rs), and meanwhile runs store the entities they fetch   *)
(* (record_dispatch.rs, extract.rs).  Any number of these calls are under  *)
(* way at once; each lock of the connection is one step.                   *)
(***************************************************************************)
EXTENDS Integers, Sequences

CONSTANTS
  Plans,
  EntityIds,
  Exemplars,    \* entity_kinds[*].exemplars[*] of each plan, in order, of kinds with a name
  Triples,      \* exemplar_triples of each plan, in order: <<from, to>>
  CreatedAt,    \* created_at of each plan
  Fetched,      \* the source_id of a row that a recipe or a document gave
  Nothing,
  Calls,        \* calls that may be made, each once
  MaxFaults     \* bound on store errors and kills

ASSUME PlanEntitiesAssumption ==
  /\ Exemplars \in [Plans -> Seq(EntityIds)]
  /\ Triples \in [Plans -> Seq(EntityIds \X EntityIds)]
  /\ CreatedAt \in [Plans -> Nat]
  /\ Fetched \notin Plans
  /\ Nothing \notin Plans \cup {Fetched} /\ Nothing \notin EntityIds
  /\ MaxFaults \in Nat

VARIABLES
  status,      \* research_plans.status
  entities,    \* the rows of the table entities
  rows_made,   \* how many of its ids are used
  relations,   \* how often each exemplar triple of each plan is in relations
  call,        \* the local state of each call
  faults,      \* store errors and kills so far
  faulty,      \* plans that a call did not deal with to the end
  overlapped   \* was a call made while another was under way?

vars == <<status, entities, rows_made, relations, call, faults, faulty, overlapped>>

\* EntityProvenanceTier, in its order, by the call that stamps it.
Tier == [ingest |-> 1, accept |-> 2, extract |-> 3]

Idle == [pc |-> "idle", op |-> "none", plan |-> Nothing, entity |-> Nothing, i |-> 0, found |-> 0]
Done == [Idle EXCEPT !.pc = "done"]

Ended(c) == call[c].pc \in {"idle", "done"}

Init ==
  /\ status = [p \in Plans |-> "pending"]
  /\ entities = {}
  /\ rows_made = 0
  /\ relations = [p \in Plans |-> [i \in DOMAIN Triples[p] |-> 0]]
  /\ call = [c \in Calls |-> Idle]
  /\ faults = 0
  /\ faulty = {}
  /\ overlapped = FALSE

Become(c, r) == call' = [call EXCEPT ![c] = r]

Goto(c, pc) == Become(c, [call[c] EXCEPT !.pc = pc])

Starts(c, r) ==
  /\ call[c].pc = "idle"
  /\ Become(c, r)
  /\ overlapped' = (overlapped \/ \E d \in Calls : ~Ended(d))

-----------------------------------------------------------------------------
(***************************************************************************)
(* materialize_entity_exemplars goes through the exemplars, whatever       *)
(* becomes of each, then materialize_relation_exemplars through the        *)
(* triples.                                                                *)
(***************************************************************************)
TripleAt(r, i) ==
  IF i \in DOMAIN Triples[r.plan]
    THEN [r EXCEPT !.pc = "check_triple", !.entity = Nothing, !.i = i, !.found = 0]
    ELSE Done

ExemplarAt(r, i) ==
  IF i \in DOMAIN Exemplars[r.plan]
    THEN [r EXCEPT !.pc = "find", !.entity = Exemplars[r.plan][i], !.i = i, !.found = 0]
    ELSE TripleAt(r, 1)

AfterUpsert(r) == IF r.op = "accept" THEN ExemplarAt(r, r.i + 1) ELSE Done

accept_plan(c) ==
  \E p \in Plans :
    /\ Starts(c, [Idle EXCEPT !.pc = "load", !.op = "accept", !.plan = p])
    /\ status' = [status EXCEPT ![p] = "accepted"]
    /\ UNCHANGED <<entities, rows_made, relations, faults, faulty>>

get_research_plan(c) ==
  /\ call[c].pc = "load"
  /\ Become(c, ExemplarAt(call[c], 1))
  /\ UNCHANGED <<status, entities, rows_made, relations, faults, faulty, overlapped>>

\* A run stores an entity that a recipe or a document names.
insert_record(c) ==
  \E op \in {"ingest", "extract"}, e \in EntityIds :
    /\ Starts(c, [Idle EXCEPT !.pc = "find", !.op = op, !.entity = e])
    /\ UNCHANGED <<status, entities, rows_made, relations, faults, faulty>>

(***************************************************************************)
(* upsert_entity_with_tier: the id and the row are read under a lock each, *)
(* and what is then written depends on what was read.                      *)
(***************************************************************************)
RowsOf(e) == {r \in entities : r.entity_id = e}

get_entity_by_business_id(c) ==
  /\ call[c].pc = "find"
  /\ \/ /\ RowsOf(call[c].entity) = {}
        /\ Goto(c, "insert")
     \/ \E r \in RowsOf(call[c].entity) :
          Become(c, [call[c] EXCEPT !.pc = "get", !.found = r.id])
  /\ UNCHANGED <<status, entities, rows_made, relations, faults, faulty, overlapped>>

\* Mutant: the tiers are not compared.
get_entity_always_refreshes(c) ==
  /\ call[c].pc = "get"
  /\ Goto(c, IF \E r \in entities : r.id = call[c].found THEN "refresh" ELSE "insert")
  /\ UNCHANGED <<status, entities, rows_made, relations, faults, faulty, overlapped>>

get_entity(c) ==
  /\ call[c].pc = "get"
  /\ \/ /\ \A r \in entities : r.id # call[c].found
        /\ Goto(c, "insert")
     \/ \E r \in entities :
          /\ r.id = call[c].found
          /\ IF Tier[call[c].op] <= r.tier THEN Become(c, AfterUpsert(call[c]))
                                           ELSE Goto(c, "refresh")
  /\ UNCHANGED <<status, entities, rows_made, relations, faults, faulty, overlapped>>

source_id(r) == IF r.op = "accept" THEN r.plan ELSE Fetched

\* entity_id is unique: the second of two inserts is an error, which ends the upsert.
insert_entity(c) ==
  /\ call[c].pc = "insert"
  /\ IF RowsOf(call[c].entity) # {} THEN UNCHANGED <<entities, rows_made>>
     ELSE /\ rows_made' = rows_made + 1
          /\ entities' = entities \cup
               {[id |-> rows_made + 1, entity_id |-> call[c].entity, tier |-> Tier[call[c].op],
                 source |-> source_id(call[c]), born |-> source_id(call[c])]}
  /\ Become(c, AfterUpsert(call[c]))
  /\ UNCHANGED <<status, relations, faults, faulty, overlapped>>

\* UPDATE ... WHERE id: licence, which holds the tier, and source_id change, or no row does.
refresh(c) ==
  /\ call[c].pc = "refresh"
  /\ entities' = {IF r.id = call[c].found
                    THEN [r EXCEPT !.tier = Tier[call[c].op], !.source = source_id(call[c])]
                    ELSE r : r \in entities}
  /\ Become(c, AfterUpsert(call[c]))
  /\ UNCHANGED <<status, rows_made, relations, faults, faulty, overlapped>>

\* Mutant: the triple is inserted without a look.
relation_exists_never(c) ==
  /\ call[c].pc = "check_triple"
  /\ Goto(c, "insert_triple")
  /\ UNCHANGED <<status, entities, rows_made, relations, faults, faulty, overlapped>>

relation_exists_by_dedup_key(c) ==
  /\ call[c].pc = "check_triple"
  /\ IF relations[call[c].plan][call[c].i] > 0
       THEN Become(c, TripleAt(call[c], call[c].i + 1))
       ELSE Goto(c, "insert_triple")
  /\ UNCHANGED <<status, entities, rows_made, relations, faults, faulty, overlapped>>

insert_relation(c) ==
  /\ call[c].pc = "insert_triple"
  /\ relations' = [relations EXCEPT ![call[c].plan][call[c].i] = @ + 1]
  /\ Become(c, TripleAt(call[c], call[c].i + 1))
  /\ UNCHANGED <<status, entities, rows_made, faults, faulty, overlapped>>

-----------------------------------------------------------------------------
reject_plan(c) ==
  \E p \in Plans :
    /\ Starts(c, [Idle EXCEPT !.pc = "cleanup", !.op = "reject", !.plan = p])
    /\ status' = [status EXCEPT ![p] = "rejected"]
    /\ UNCHANGED <<entities, rows_made, relations, faults, faulty>>

(***************************************************************************)
(* The clean-up takes any mention of the id in the expectations of an      *)
(* accepted plan for a claim, so the ends of a triple count too.           *)
(***************************************************************************)
Named(p) ==
  {Exemplars[p][i] : i \in DOMAIN Exemplars[p]}
    \cup UNION {{Triples[p][i][1], Triples[p][i][2]} : i \in DOMAIN Triples[p]}

Claimers(e) == {p \in Plans : status[p] = "accepted" /\ e \in Named(p)}

Heir(e) == CHOOSE p \in Claimers(e) : \A q \in Claimers(e) : CreatedAt[p] <= CreatedAt[q]

OwnRows(p) == {r \in entities : r.source = p}

\* Mutant: the claims of other plans are not looked at.
cleanup_deletes_claimed(c) ==
  /\ call[c].pc = "cleanup"
  /\ entities' = entities \ OwnRows(call[c].plan)
  /\ Become(c, Done)
  /\ UNCHANGED <<status, rows_made, relations, faults, faulty, overlapped>>

\* Mutant: as it was before the rewire pass; a claimed row keeps its source.
cleanup_does_not_rewire(c) ==
  /\ call[c].pc = "cleanup"
  /\ entities' = {r \in entities : r.source # call[c].plan \/ Claimers(r.entity_id) # {}}
  /\ Become(c, Done)
  /\ UNCHANGED <<status, rows_made, relations, faults, faulty, overlapped>>

\* One transaction: claimed rows of the plan are rewired, the others deleted.
cleanup_orphan_entities_for_rejected_plan(c) ==
  /\ call[c].pc = "cleanup"
  /\ LET mine    == OwnRows(call[c].plan)
         claimed == {r \in mine : Claimers(r.entity_id) # {}}
     IN  entities' = (entities \ mine)
                       \cup {[r EXCEPT !.source = Heir(r.entity_id)] : r \in claimed}
  /\ Become(c, Done)
  /\ UNCHANGED <<status, rows_made, relations, faults, faulty, overlapped>>

-----------------------------------------------------------------------------
(***************************************************************************)
(* A failing read of the plan ends accept_plan, a failing exemplar or      *)
(* triple is passed over, a failing clean-up is logged.  The status has    *)
(* been written before any of it.                                          *)
(***************************************************************************)
StoreError(c) ==
  /\ faults < MaxFaults
  /\ ~Ended(c)
  /\ faults' = faults + 1
  /\ faulty' = faulty \cup ({call[c].plan} \ {Nothing})
  /\ Become(c, CASE call[c].pc \in {"find", "get", "insert", "refresh"} -> AfterUpsert(call[c])
                 [] call[c].pc \in {"check_triple", "insert_triple"} -> TripleAt(call[c], call[c].i + 1)
                 [] OTHER -> Done)
  /\ UNCHANGED <<status, entities, rows_made, relations, overlapped>>

(***************************************************************************)
(* The process ends and is started again.  migrate.rs applies a migration  *)
(* once; 0021 and 0022 ran on the first start and do not run again.        *)
(***************************************************************************)
Restart ==
  /\ faults < MaxFaults
  /\ \E c \in Calls : ~Ended(c)
  /\ faults' = faults + 1
  /\ faulty' = faulty \cup {p \in Plans : \E c \in Calls : ~Ended(c) /\ call[c].plan = p}
  /\ call' = [c \in Calls |-> IF Ended(c) THEN call[c] ELSE Done]
  /\ UNCHANGED <<status, entities, rows_made, relations, overlapped>>

Step(c) ==
  \/ accept_plan(c) \/ get_research_plan(c) \/ insert_record(c)
  \/ get_entity_by_business_id(c) \/ get_entity(c) \/ insert_entity(c) \/ refresh(c)
  \/ relation_exists_by_dedup_key(c) \/ insert_relation(c)
  \/ reject_plan(c) \/ cleanup_orphan_entities_for_rejected_plan(c)
  \/ StoreError(c)

Next == (\E c \in Calls : Step(c)) \/ Restart

Spec == Init /\ [][Next]_vars

-----------------------------------------------------------------------------
(***************************************************************************)
(* Properties                                                              *)
(***************************************************************************)
Row == [id : Nat, entity_id : EntityIds, tier : 1..3,
        source : Plans \cup {Fetched}, born : Plans \cup {Fetched}]

CallRecord ==
  [pc : {"idle", "load", "find", "get", "insert", "refresh", "check_triple", "insert_triple",
         "cleanup", "done"},
   op : {"none", "accept", "reject", "ingest", "extract"},
   plan : Plans \cup {Nothing}, entity : EntityIds \cup {Nothing},
   i : Nat, found : Nat]

\* The tables and the locals of the calls have their types: every row has a
\* source, and every index is one of its plan.
TypeOK ==
  /\ status \in [Plans -> {"pending", "accepted", "rejected"}]
  /\ rows_made \in Nat
  /\ entities \subseteq Row
  /\ DOMAIN relations = Plans
  /\ \A p \in Plans : relations[p] \in [DOMAIN Triples[p] -> Nat]
  /\ call \in [Calls -> CallRecord]
  /\ faults \in 0..MaxFaults
  /\ faulty \subseteq Plans
  /\ overlapped \in BOOLEAN

\* entity_synth and orphan_cleanup together: however accepting, rejecting and
\* fetching interleave, a plan that is accepted, and whose acceptance ended and
\* never met an error, has a row for each of its exemplars.
AcceptedExemplarsExist ==
  \A p \in Plans :
    /\ status[p] = "accepted" /\ p \notin faulty
    /\ \A c \in Calls : call[c].plan # p \/ call[c].op # "accept"
    => \A i \in DOMAIN Exemplars[p] : RowsOf(Exemplars[p][i]) # {}

\* A row that belongs to a plan not accepted is left over by a clean-up that
\* failed or was killed or is still to come, or by calls that overlapped.
OrphansExplained ==
  \A r \in entities :
    r.source \in Plans /\ status[r.source] # "accepted"
    => \/ overlapped
       \/ r.source \in faulty
       \/ \E c \in Calls : call[c].plan = r.source /\ call[c].pc = "cleanup"

TierKept == \A r \in entities, s \in entities' : r.id = s.id => r.tier <= s.tier

\* entities.rs: slugs "DON'T overwrite Lever A names later": as long as calls
\* follow one another, no row falls to a poorer tier.
TierKeptInTurn ==
  [][overlapped' \/ TierKept]_vars

\* relation_synth.rs: "re-accepting the same plan is a no-op", as long as calls
\* follow one another.
TripleOnceInTurn ==
  overlapped \/ \A p \in Plans : \A i \in DOMAIN Triples[p] : relations[p][i] <= 1

\* orphan_cleanup.rs: "Delete Entity rows that this rejected plan created", not
\* those a recipe or a document created.
DeletesOwnCreations ==
  [][\A r \in entities : (\A s \in entities' : s.id # r.id) => r.born \in Plans]_vars
=============================================================================
