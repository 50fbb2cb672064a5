------------------------- MODULE PlanEntitiesProofs -------------------------
(***************************************************************************)
(* Proofs about PlanEntities: the types of the tables and of every call,   *)
(* and that an accepted plan has its exemplars however calls interleave.   *)
(***************************************************************************)
EXTENDS PlanEntities, WellFoundedInduction, TLAPS

USE PlanEntitiesAssumption

(***************************************************************************)
(* A claimed entity has an heir: among created_at there is a least one.    *)
(***************************************************************************)
LEMMA HeirClaims ==
  ASSUME NEW e, Claimers(e) # {}
  PROVE  Heir(e) \in Claimers(e)
<1>. DEFINE Before == {ss \in Nat \X Nat : ss[1] < ss[2]}
            T == {CreatedAt[p] : p \in Claimers(e)}
<1>1. T \subseteq Nat /\ T # {}
  BY DEF Claimers
<1>2. IsWellFoundedOn(Before, Nat)
  BY NatLessThanWellFounded, Zenon DEF OpToRel
<1>. HIDE DEF Before
<1>3. PICK t \in T : \A u \in T : ~(<<u, t>> \in Before)
  BY <1>1, <1>2, WFMin, Zenon
<1>4. PICK p \in Claimers(e) : t = CreatedAt[p]
  OBVIOUS
<1>5. ASSUME NEW q \in Claimers(e) PROVE CreatedAt[p] <= CreatedAt[q]
  <2>1. CreatedAt[q] \in Nat /\ CreatedAt[p] \in Nat
    BY DEF Claimers
  <2>2. <<CreatedAt[q], CreatedAt[p]>> \notin Before
    BY <1>3, <1>4
  <2>. QED
    BY <2>1, <2>2 DEF Before
<1>. QED
  BY <1>5 DEF Heir

-----------------------------------------------------------------------------
(***************************************************************************)
(* What the locals of a call mean in each of its phases: TypeOK alone is   *)
(* not inductive, since it lets an upsert go on without an entity.         *)
(***************************************************************************)
Upserting == {"find", "get", "insert", "refresh"}
AtTriple == {"check_triple", "insert_triple"}

Sound(r) ==
  /\ r.pc \in Upserting =>
       /\ r.op \in {"accept", "ingest", "extract"}
       /\ r.entity \in EntityIds
       /\ r.op = "accept" => /\ r.plan \in Plans
                            /\ r.i \in DOMAIN Exemplars[r.plan]
                            /\ r.entity = Exemplars[r.plan][r.i]
  /\ r.pc \in AtTriple =>
       r.op = "accept" /\ r.plan \in Plans /\ r.i \in DOMAIN Triples[r.plan]
  /\ r.pc = "load" => r.op = "accept" /\ r.plan \in Plans
  /\ r.pc = "cleanup" => r.op = "reject" /\ r.plan \in Plans

SoundCalls == \A c \in Calls : Sound(call[c])

LEMMA Lists ==
  ASSUME NEW p \in Plans
  PROVE  /\ DOMAIN Exemplars[p] \subseteq Nat
         /\ \A i \in DOMAIN Exemplars[p] : Exemplars[p][i] \in EntityIds
         /\ DOMAIN Triples[p] \subseteq Nat
         /\ \A i \in DOMAIN Triples[p] : Triples[p][i] \in EntityIds \X EntityIds
<1>1. Exemplars[p] \in Seq(EntityIds) /\ Triples[p] \in Seq(EntityIds \X EntityIds)
  OBVIOUS
<1>. QED
  BY <1>1

LEMMA DoneSound == Done \in CallRecord /\ Sound(Done) /\ Done.pc = "done"
BY DEF Done, Idle, CallRecord, Sound, Upserting, AtTriple

LEMMA TripleAtSound ==
  ASSUME NEW r \in CallRecord, r.op = "accept", r.plan \in Plans, NEW i
  PROVE  TripleAt(r, i) \in CallRecord /\ Sound(TripleAt(r, i))
<1>1. CASE i \in DOMAIN Triples[r.plan]
  BY <1>1, Lists DEF TripleAt, CallRecord, Sound, Upserting, AtTriple
<1>2. CASE i \notin DOMAIN Triples[r.plan]
  BY <1>2, DoneSound DEF TripleAt
<1>. QED
  BY <1>1, <1>2

LEMMA ExemplarAtSound ==
  ASSUME NEW r \in CallRecord, r.op = "accept", r.plan \in Plans, NEW i
  PROVE  ExemplarAt(r, i) \in CallRecord /\ Sound(ExemplarAt(r, i))
<1>1. CASE i \in DOMAIN Exemplars[r.plan]
  BY <1>1, Lists DEF ExemplarAt, CallRecord, Sound, Upserting, AtTriple
<1>2. CASE i \notin DOMAIN Exemplars[r.plan]
  BY <1>2, TripleAtSound DEF ExemplarAt
<1>. QED
  BY <1>1, <1>2

LEMMA AfterUpsertSound ==
  ASSUME NEW r \in CallRecord, Sound(r), r.pc \in Upserting
  PROVE  AfterUpsert(r) \in CallRecord /\ Sound(AfterUpsert(r))
BY DoneSound, ExemplarAtSound DEF AfterUpsert, Sound

\* A call goes on to a sound state, and the others stay as they are.
LEMMA BecomeSound ==
  ASSUME TypeOK, SoundCalls, NEW c \in Calls, NEW r \in CallRecord, Sound(r), Become(c, r)
  PROVE  call' \in [Calls -> CallRecord] /\ SoundCalls'
BY DEF TypeOK, SoundCalls, Become

LEMMA GotoSound ==
  ASSUME TypeOK, SoundCalls, NEW c \in Calls, NEW pc, Goto(c, pc),
         \/ call[c].pc \in Upserting /\ pc \in Upserting
         \/ call[c].pc \in AtTriple /\ pc \in AtTriple
  PROVE  call' \in [Calls -> CallRecord] /\ SoundCalls'
<1>. DEFINE r == [call[c] EXCEPT !.pc = pc]
<1>1. call[c] \in CallRecord /\ Sound(call[c])
  BY DEF TypeOK, SoundCalls
<1>2. r \in CallRecord /\ Sound(r)
  BY <1>1 DEF CallRecord, Sound, Upserting, AtTriple
<1>3. Become(c, r)
  BY DEF Goto
<1>. HIDE DEF r
<1>. QED
  BY <1>2, <1>3, BecomeSound

LEMMA InitTypes == Init => TypeOK /\ SoundCalls
<1>. SUFFICES ASSUME Init PROVE TypeOK /\ SoundCalls
  OBVIOUS
<1>1. Idle \in CallRecord /\ Sound(Idle)
  BY DEF Idle, CallRecord, Sound, Upserting, AtTriple
<1>2. call \in [Calls -> CallRecord] /\ SoundCalls
  BY <1>1 DEF Init, SoundCalls
<1>3. DOMAIN relations = Plans /\ \A p \in Plans : relations[p] \in [DOMAIN Triples[p] -> Nat]
  BY DEF Init
<1>4. status \in [Plans -> {"pending", "accepted", "rejected"}]
  BY DEF Init
<1>5. /\ rows_made \in Nat /\ entities \subseteq Row
      /\ faults \in 0..MaxFaults /\ faulty \subseteq Plans
  BY DEF Init
<1>6. overlapped \in BOOLEAN
  BY Zenon DEF Init
<1>. QED
  BY <1>2, <1>3, <1>4, <1>5, <1>6, Zenon DEF TypeOK

\* Whether a call's arrival counts as an overlap does not disturb the types.
LEMMA StartsTypes ==
  ASSUME TypeOK, SoundCalls, NEW c \in Calls, NEW r \in CallRecord, Sound(r), Starts(c, r)
  PROVE  /\ call' \in [Calls -> CallRecord] /\ SoundCalls'
         /\ overlapped' \in BOOLEAN
<1>1. call' \in [Calls -> CallRecord] /\ SoundCalls'
  BY BecomeSound DEF Starts
<1>2. overlapped' \in BOOLEAN
  BY Zenon DEF Starts
<1>. QED
  BY <1>1, <1>2

LEMMA InsertTypes ==
  ASSUME TypeOK, SoundCalls, NEW c \in Calls, insert_entity(c)
  PROVE  entities' \subseteq Row /\ rows_made' \in Nat
<1>. DEFINE n == [id |-> rows_made + 1, entity_id |-> call[c].entity, tier |-> Tier[call[c].op],
                  source |-> source_id(call[c]), born |-> source_id(call[c])]
<1>1. call[c].op \in {"accept", "ingest", "extract"} /\ call[c].entity \in EntityIds
      /\ (call[c].op = "accept" => call[c].plan \in Plans)
  BY DEF insert_entity, SoundCalls, Sound, Upserting
<1>2. Tier[call[c].op] \in 1..3 /\ source_id(call[c]) \in Plans \cup {Fetched}
  BY <1>1 DEF Tier, source_id
<1>3. n \in Row
  BY <1>1, <1>2 DEF Row, TypeOK
<1>4. \/ UNCHANGED <<entities, rows_made>>
      \/ rows_made' = rows_made + 1 /\ entities' = entities \cup {n}
  BY DEF insert_entity
<1>. HIDE DEF n
<1>. QED
  BY <1>3, <1>4 DEF TypeOK

LEMMA RefreshTypes ==
  ASSUME TypeOK, SoundCalls, NEW c \in Calls, refresh(c)
  PROVE  entities' \subseteq Row
<1>. DEFINE t == Tier[call[c].op]
            s == source_id(call[c])
<1>1. call[c].op \in {"accept", "ingest", "extract"}
      /\ (call[c].op = "accept" => call[c].plan \in Plans)
  BY DEF refresh, SoundCalls, Sound, Upserting
<1>2. t \in 1..3 /\ s \in Plans \cup {Fetched}
  BY <1>1 DEF Tier, source_id
<1>3. entities' = {IF r.id = call[c].found THEN [r EXCEPT !.tier = t, !.source = s] ELSE r : r \in entities}
  BY DEF refresh
<1>. HIDE DEF t, s
<1>4. ASSUME NEW r \in Row PROVE [r EXCEPT !.tier = t, !.source = s] \in Row
  BY <1>2 DEF Row
<1>5. ASSUME NEW x \in entities' PROVE x \in Row
  <2>1. PICK r \in entities :
          x = IF r.id = call[c].found THEN [r EXCEPT !.tier = t, !.source = s] ELSE r
    BY <1>3
  <2>2. r \in Row
    BY DEF TypeOK
  <2>. QED
    BY <1>4, <2>1, <2>2, Zenon
<1>. QED
  BY <1>5

LEMMA CleanupTypes ==
  ASSUME TypeOK, NEW c \in Calls, cleanup_orphan_entities_for_rejected_plan(c)
  PROVE  entities' \subseteq Row
<1>. DEFINE mine == OwnRows(call[c].plan)
            claimed == {r \in mine : Claimers(r.entity_id) # {}}
<1>1. ASSUME NEW r \in claimed PROVE [r EXCEPT !.source = Heir(r.entity_id)] \in Row
  <2>1. r \in Row
    BY DEF OwnRows, TypeOK
  <2>2. Heir(r.entity_id) \in Plans
    BY HeirClaims DEF Claimers
  <2>. QED
    BY <2>1, <2>2 DEF Row
<1>2. entities' = (entities \ mine) \cup {[r EXCEPT !.source = Heir(r.entity_id)] : r \in claimed}
  BY DEF cleanup_orphan_entities_for_rejected_plan
<1>. HIDE DEF mine, claimed
<1>. QED
  BY <1>1, <1>2 DEF TypeOK

LEMMA TripleTypes ==
  ASSUME TypeOK, SoundCalls, NEW c \in Calls, insert_relation(c)
  PROVE  DOMAIN relations' = Plans /\ \A p \in Plans : relations'[p] \in [DOMAIN Triples[p] -> Nat]
<1>. DEFINE p == call[c].plan
            i == call[c].i
            f == [relations[p] EXCEPT ![i] = @ + 1]
<1>1. p \in Plans /\ i \in DOMAIN Triples[p]
  BY DEF insert_relation, SoundCalls, Sound, AtTriple
<1>2. relations' = [relations EXCEPT ![p] = f]
  BY DEF insert_relation
<1>. HIDE DEF p, i
<1>3. f \in [DOMAIN Triples[p] -> Nat]
  BY <1>1 DEF TypeOK
<1>. HIDE DEF f
<1>. QED
  BY <1>1, <1>2, <1>3 DEF TypeOK

(***************************************************************************)
(* One case per action; CallTypes is what every action has to show of the  *)
(* calls, RestTypes what those that leave the tables alone keep.           *)
(***************************************************************************)
CallTypes == call \in [Calls -> CallRecord] /\ SoundCalls

LEMMA NextTypes == TypeOK /\ SoundCalls /\ [Next]_vars => TypeOK' /\ SoundCalls'
<1>. SUFFICES ASSUME TypeOK, SoundCalls, [Next]_vars PROVE TypeOK' /\ SoundCalls'
  OBVIOUS
<1>0. \A c \in Calls : call[c] \in CallRecord /\ Sound(call[c])
  BY DEF TypeOK, SoundCalls
<1>1. ASSUME NEW c \in Calls, accept_plan(c) PROVE TypeOK' /\ SoundCalls'
  <2>1. PICK p \in Plans :
          /\ Starts(c, [Idle EXCEPT !.pc = "load", !.op = "accept", !.plan = p])
          /\ status' = [status EXCEPT ![p] = "accepted"]
    BY <1>1 DEF accept_plan
  <2>. DEFINE r == [Idle EXCEPT !.pc = "load", !.op = "accept", !.plan = p]
  <2>2. r \in CallRecord /\ Sound(r)
    BY DEF Idle, CallRecord, Sound, Upserting, AtTriple
  <2>. HIDE DEF r
  <2>3. CallTypes' /\ overlapped' \in BOOLEAN
    BY <2>1, <2>2, StartsTypes DEF r, CallTypes
  <2>4. status' \in [Plans -> {"pending", "accepted", "rejected"}]
    BY <2>1 DEF TypeOK
  <2>. QED
    BY <1>1, <2>3, <2>4 DEF accept_plan, TypeOK, CallTypes
<1>2. ASSUME NEW c \in Calls, get_research_plan(c) PROVE TypeOK' /\ SoundCalls'
  <2>1. ExemplarAt(call[c], 1) \in CallRecord /\ Sound(ExemplarAt(call[c], 1))
    BY <1>0, <1>2, ExemplarAtSound DEF get_research_plan, Sound
  <2>2. CallTypes'
    BY <1>2, <2>1, BecomeSound DEF get_research_plan, CallTypes
  <2>. QED
    BY <1>2, <2>2 DEF get_research_plan, TypeOK, CallTypes
<1>3. ASSUME NEW c \in Calls, insert_record(c) PROVE TypeOK' /\ SoundCalls'
  <2>1. PICK op \in {"ingest", "extract"}, e \in EntityIds :
          Starts(c, [Idle EXCEPT !.pc = "find", !.op = op, !.entity = e])
    BY <1>3 DEF insert_record
  <2>. DEFINE r == [Idle EXCEPT !.pc = "find", !.op = op, !.entity = e]
  <2>2. r \in CallRecord /\ Sound(r)
    BY DEF Idle, CallRecord, Sound, Upserting, AtTriple
  <2>. HIDE DEF r
  <2>3. CallTypes' /\ overlapped' \in BOOLEAN
    BY <2>1, <2>2, StartsTypes DEF r, CallTypes
  <2>. QED
    BY <1>3, <2>3 DEF insert_record, TypeOK, CallTypes
<1>4. ASSUME NEW c \in Calls, get_entity_by_business_id(c) PROVE TypeOK' /\ SoundCalls'
  <2>1. CASE Goto(c, "insert")
    <3>1. CallTypes'
      BY <1>4, <2>1, GotoSound DEF get_entity_by_business_id, Upserting, CallTypes
    <3>. QED
      BY <1>4, <3>1 DEF get_entity_by_business_id, TypeOK, CallTypes
  <2>2. ASSUME NEW r \in RowsOf(call[c].entity),
               Become(c, [call[c] EXCEPT !.pc = "get", !.found = r.id])
        PROVE  TypeOK' /\ SoundCalls'
    <3>. DEFINE rr == [call[c] EXCEPT !.pc = "get", !.found = r.id]
    <3>1. r.id \in Nat
      BY DEF RowsOf, TypeOK, Row
    <3>2. call[c] \in CallRecord /\ Sound(call[c]) /\ call[c].pc = "find"
      BY <1>0, <1>4 DEF get_entity_by_business_id
    <3>3. rr \in CallRecord
      BY <3>1, <3>2 DEF CallRecord
    <3>4. /\ rr.pc = "get" /\ rr.op = call[c].op /\ rr.plan = call[c].plan
          /\ rr.entity = call[c].entity /\ rr.i = call[c].i
      BY <3>2 DEF CallRecord
    <3>. HIDE DEF rr
    <3>5. Sound(rr)
      BY <3>2, <3>4 DEF Sound, Upserting, AtTriple
    <3>6. CallTypes'
      BY <2>2, <3>3, <3>5, BecomeSound DEF rr, CallTypes
    <3>. QED
      BY <1>4, <3>6 DEF get_entity_by_business_id, TypeOK, CallTypes
  <2>. QED
    BY <1>4, <2>1, <2>2 DEF get_entity_by_business_id
<1>5. ASSUME NEW c \in Calls, get_entity(c) PROVE TypeOK' /\ SoundCalls'
  <2>1. Goto(c, "insert") \/ Goto(c, "refresh") \/ Become(c, AfterUpsert(call[c]))
    BY <1>5 DEF get_entity
  <2>2. CallTypes'
    BY <1>0, <1>5, <2>1, GotoSound, AfterUpsertSound, BecomeSound
       DEF get_entity, Upserting, CallTypes
  <2>. QED
    BY <1>5, <2>2 DEF get_entity, TypeOK, CallTypes
<1>6. ASSUME NEW c \in Calls, insert_entity(c) PROVE TypeOK' /\ SoundCalls'
  <2>1. CallTypes'
    BY <1>0, <1>6, AfterUpsertSound, BecomeSound DEF insert_entity, Upserting, CallTypes
  <2>. QED
    BY <1>6, <2>1, InsertTypes DEF insert_entity, TypeOK, CallTypes
<1>7. ASSUME NEW c \in Calls, refresh(c) PROVE TypeOK' /\ SoundCalls'
  <2>1. CallTypes'
    BY <1>0, <1>7, AfterUpsertSound, BecomeSound DEF refresh, Upserting, CallTypes
  <2>. QED
    BY <1>7, <2>1, RefreshTypes DEF refresh, TypeOK, CallTypes
<1>8. ASSUME NEW c \in Calls, relation_exists_by_dedup_key(c) PROVE TypeOK' /\ SoundCalls'
  <2>1. Become(c, TripleAt(call[c], call[c].i + 1)) \/ Goto(c, "insert_triple")
    BY <1>8 DEF relation_exists_by_dedup_key
  <2>2. TripleAt(call[c], call[c].i + 1) \in CallRecord /\ Sound(TripleAt(call[c], call[c].i + 1))
    BY <1>0, <1>8, TripleAtSound DEF relation_exists_by_dedup_key, Sound, AtTriple
  <2>3. CallTypes'
    BY <1>8, <2>1, <2>2, GotoSound, BecomeSound
       DEF relation_exists_by_dedup_key, AtTriple, CallTypes
  <2>. QED
    BY <1>8, <2>3 DEF relation_exists_by_dedup_key, TypeOK, CallTypes
<1>9. ASSUME NEW c \in Calls, insert_relation(c) PROVE TypeOK' /\ SoundCalls'
  <2>1. TripleAt(call[c], call[c].i + 1) \in CallRecord /\ Sound(TripleAt(call[c], call[c].i + 1))
    BY <1>0, <1>9, TripleAtSound DEF insert_relation, Sound, AtTriple
  <2>2. CallTypes'
    BY <1>9, <2>1, BecomeSound DEF insert_relation, CallTypes
  <2>. QED
    BY <1>9, <2>2, TripleTypes DEF insert_relation, TypeOK, CallTypes
<1>10. ASSUME NEW c \in Calls, reject_plan(c) PROVE TypeOK' /\ SoundCalls'
  <2>1. PICK p \in Plans :
          /\ Starts(c, [Idle EXCEPT !.pc = "cleanup", !.op = "reject", !.plan = p])
          /\ status' = [status EXCEPT ![p] = "rejected"]
    BY <1>10 DEF reject_plan
  <2>. DEFINE r == [Idle EXCEPT !.pc = "cleanup", !.op = "reject", !.plan = p]
  <2>2. r \in CallRecord /\ Sound(r)
    BY DEF Idle, CallRecord, Sound, Upserting, AtTriple
  <2>. HIDE DEF r
  <2>3. CallTypes' /\ overlapped' \in BOOLEAN
    BY <2>1, <2>2, StartsTypes DEF r, CallTypes
  <2>4. status' \in [Plans -> {"pending", "accepted", "rejected"}]
    BY <2>1 DEF TypeOK
  <2>. QED
    BY <1>10, <2>3, <2>4 DEF reject_plan, TypeOK, CallTypes
<1>11. ASSUME NEW c \in Calls, cleanup_orphan_entities_for_rejected_plan(c)
       PROVE  TypeOK' /\ SoundCalls'
  <2>1. CallTypes'
    BY <1>11, DoneSound, BecomeSound DEF cleanup_orphan_entities_for_rejected_plan, CallTypes
  <2>. QED
    BY <1>11, <2>1, CleanupTypes DEF cleanup_orphan_entities_for_rejected_plan, TypeOK, CallTypes
<1>12. ASSUME NEW c \in Calls, StoreError(c) PROVE TypeOK' /\ SoundCalls'
  <2>1. \/ call[c].pc \in Upserting /\ Become(c, AfterUpsert(call[c]))
        \/ call[c].pc \in AtTriple /\ Become(c, TripleAt(call[c], call[c].i + 1))
        \/ Become(c, Done)
    BY <1>12 DEF StoreError, Upserting, AtTriple
  <2>2. CallTypes'
    BY <1>0, <2>1, AfterUpsertSound, TripleAtSound, DoneSound, BecomeSound
       DEF Sound, AtTriple, CallTypes
  <2>3. call[c].plan \in Plans \cup {Nothing} /\ faults' \in 0..MaxFaults
    BY <1>0, <1>12 DEF StoreError, CallRecord, TypeOK
  <2>. QED
    BY <1>12, <2>2, <2>3 DEF StoreError, TypeOK, CallTypes
<1>13. CASE Restart
  <2>1. CallTypes'
    BY <1>0, <1>13, DoneSound DEF Restart, CallTypes, SoundCalls
  <2>2. faults' \in 0..MaxFaults
    BY <1>13 DEF Restart, TypeOK
  <2>. QED
    BY <1>13, <2>1, <2>2 DEF Restart, TypeOK, CallTypes
<1>14. CASE UNCHANGED vars
  BY <1>14 DEF vars, TypeOK, SoundCalls
<1>. QED
  BY <1>1, <1>2, <1>3, <1>4, <1>5, <1>6, <1>7, <1>8, <1>9, <1>10, <1>11, <1>12, <1>13, <1>14
     DEF Next, Step

\* The tables and the locals of every call keep their types, for any plans,
\* expectations, calls and faults.
THEOREM PlanEntitiesTypes == Spec => []TypeOK
<1>1. Init => TypeOK /\ SoundCalls
  BY InitTypes
<1>2. (TypeOK /\ SoundCalls) /\ [Next]_vars => (TypeOK /\ SoundCalls)'
  BY NextTypes
<1>. QED
  BY <1>1, <1>2, PTL DEF Spec

-----------------------------------------------------------------------------
(***************************************************************************)
(* AcceptedExemplarsExist.  What an upsert has found is a row of its       *)
(* entity, since ids are never used again; and each exemplar of an         *)
(* accepted plan has a row, or is still ahead of a call that accepts the   *)
(* plan.                                                                   *)
(***************************************************************************)
Ids ==
  /\ \A r \in entities : r.id <= rows_made
  /\ \A r, s \in entities : r.id = s.id => r.entity_id = s.entity_id

Found ==
  \A c \in Calls : call[c].pc = "get" =>
    /\ call[c].found <= rows_made
    /\ \A r \in entities : r.id = call[c].found => r.entity_id = call[c].entity

\* The k-th exemplar of p is still to be upserted by the call r, or being so.
Ahead(r, p, k) ==
  /\ r.op = "accept" /\ r.plan = p
  /\ \/ r.pc = "load"
     \/ r.pc \in {"find", "get", "insert"} /\ r.i <= k
     \/ r.pc = "refresh" /\ r.i < k

Covered(p, k) ==
  RowsOf(Exemplars[p][k]) # {} \/ \E c \in Calls : Ahead(call[c], p, k)

AllCovered ==
  \A p \in Plans : status[p] = "accepted" /\ p \notin faulty
    => \A k \in DOMAIN Exemplars[p] : Covered(p, k)

ExistInv == TypeOK /\ SoundCalls /\ Ids /\ Found /\ AllCovered

\* The list of exemplars has no gap, so a call that is not past k gets to k.
LEMMA Positions ==
  ASSUME NEW p \in Plans, NEW k \in DOMAIN Exemplars[p]
  PROVE  k \in Nat /\ 1 <= k
<1>1. Exemplars[p] \in Seq(EntityIds)
  OBVIOUS
<1>. QED
  BY <1>1

LEMMA ExemplarAtAhead ==
  ASSUME NEW p \in Plans, NEW k \in DOMAIN Exemplars[p], NEW r \in CallRecord,
         r.op = "accept", r.plan = p, NEW i \in Nat, 1 <= i, i <= k
  PROVE  Ahead(ExemplarAt(r, i), p, k)
<1>1. Exemplars[p] \in Seq(EntityIds)
  OBVIOUS
<1>2. i \in DOMAIN Exemplars[p]
  BY <1>1
<1>. QED
  BY <1>2 DEF Ahead, ExemplarAt, CallRecord

LEMMA AfterUpsertAhead ==
  ASSUME NEW p \in Plans, NEW k \in DOMAIN Exemplars[p], NEW r \in CallRecord,
         r.op = "accept", r.plan = p, r.i < k
  PROVE  Ahead(AfterUpsert(r), p, k)
<1>1. k \in Nat /\ r.i \in Nat
  BY Lists DEF CallRecord
<1>2. r.i + 1 \in Nat /\ 1 <= r.i + 1 /\ r.i + 1 <= k
  BY <1>1
<1>. QED
  BY <1>2, ExemplarAtAhead DEF AfterUpsert

LEMMA BecomeCovered ==
  ASSUME TypeOK, NEW c \in Calls, NEW r, Become(c, r), NEW p \in Plans, NEW k,
         Covered(p, k),
         RowsOf(Exemplars[p][k]) # {} => RowsOf(Exemplars[p][k])' # {},
         Ahead(call[c], p, k) => Ahead(r, p, k) \/ RowsOf(Exemplars[p][k])' # {}
  PROVE  Covered(p, k)'
<1>1. call'[c] = r /\ \A d \in Calls \ {c} : call'[d] = call[d]
  BY DEF Become, TypeOK
<1>2. CASE RowsOf(Exemplars[p][k])' # {}
  BY <1>2 DEF Covered
<1>3. CASE \E d \in Calls : Ahead(call[d], p, k)
  <2>1. PICK d \in Calls : Ahead(call[d], p, k)
    BY <1>3
  <2>2. Ahead(call'[d], p, k) \/ RowsOf(Exemplars[p][k])' # {}
    BY <1>1, <2>1
  <2>. QED
    BY <1>2, <2>2 DEF Covered, Ahead
<1>. QED
  BY <1>2, <1>3 DEF Covered

\* The rows after a step that makes no row, or makes one with a fresh id.
Inherited(s) == \E r \in entities : s.id = r.id /\ s.entity_id = r.entity_id

RowsInherited == rows_made' = rows_made /\ \A s \in entities' : Inherited(s)

LEMMA IdsKept == ASSUME Ids, RowsInherited PROVE Ids'
BY DEF Ids, RowsInherited, Inherited

LEMMA FoundKept ==
  ASSUME TypeOK, Found, NEW c \in Calls, NEW r, Become(c, r), r.pc # "get",
         rows_made' \in {rows_made, rows_made + 1},
         \A s \in entities' : Inherited(s) \/ s.id = rows_made + 1
  PROVE  Found'
<1>1. SUFFICES ASSUME NEW d \in Calls, call'[d].pc = "get"
      PROVE /\ call'[d].found <= rows_made'
            /\ \A s \in entities' : s.id = call'[d].found => s.entity_id = call'[d].entity
  BY DEF Found
<1>2. call'[d] = call[d]
  BY <1>1 DEF Become, TypeOK
<1>3. call[d].found \in Nat /\ rows_made \in Nat
  BY DEF TypeOK, CallRecord
<1>4. call[d].found <= rows_made
  BY <1>1, <1>2 DEF Found
<1>5. ASSUME NEW s \in entities', s.id = call[d].found PROVE s.entity_id = call[d].entity
  <2>1. Inherited(s)
    BY <1>3, <1>4, <1>5
  <2>. QED
    BY <1>1, <1>2, <1>5, <2>1 DEF Inherited, Found
<1>. QED
  BY <1>2, <1>3, <1>4, <1>5

LEMMA NotGet ==
  /\ Done.pc # "get"
  /\ \A r \in CallRecord : \A i : TripleAt(r, i).pc # "get"
  /\ \A r \in CallRecord : \A i : ExemplarAt(r, i).pc # "get"
  /\ \A r \in CallRecord : AfterUpsert(r).pc # "get"
<1>1. Done.pc # "get"
  BY DEF Done, Idle
<1>2. ASSUME NEW r \in CallRecord, NEW i PROVE TripleAt(r, i).pc # "get"
  BY <1>1 DEF TripleAt, CallRecord
<1>3. ASSUME NEW r \in CallRecord, NEW i PROVE ExemplarAt(r, i).pc # "get"
  BY <1>2 DEF ExemplarAt, CallRecord
<1>4. ASSUME NEW r \in CallRecord PROVE AfterUpsert(r).pc # "get"
  BY <1>1, <1>3 DEF AfterUpsert
<1>. QED
  BY <1>1, <1>2, <1>3, <1>4

(***************************************************************************)
(* The steps that touch the rows.  None takes the last row of an entity    *)
(* that an accepted plan names.                                            *)
(***************************************************************************)
Stays(e) == RowsOf(e) # {} => RowsOf(e)' # {}

LEMMA RefreshRows ==
  ASSUME NEW c \in Calls, refresh(c), TypeOK
  PROVE  RowsInherited /\ \A e : Stays(e)
<1>. DEFINE g(r) == IF r.id = call[c].found
                      THEN [r EXCEPT !.tier = Tier[call[c].op], !.source = source_id(call[c])]
                      ELSE r
<1>1. entities' = {g(r) : r \in entities} /\ rows_made' = rows_made
  BY DEF refresh
<1>2. ASSUME NEW r \in entities PROVE g(r).id = r.id /\ g(r).entity_id = r.entity_id
  BY DEF TypeOK, Row
<1>. HIDE DEF g
<1>3. RowsInherited
  BY <1>1, <1>2 DEF RowsInherited, Inherited
<1>4. ASSUME NEW e, NEW r \in RowsOf(e) PROVE g(r) \in RowsOf(e)'
  BY <1>1, <1>2 DEF RowsOf
<1>. QED
  BY <1>3, <1>4 DEF Stays

LEMMA CleanupRows ==
  ASSUME NEW c \in Calls, cleanup_orphan_entities_for_rejected_plan(c), TypeOK
  PROVE  /\ RowsInherited
         /\ \A e : Claimers(e) # {} => Stays(e)
<1>. DEFINE mine == OwnRows(call[c].plan)
            claimed == {r \in mine : Claimers(r.entity_id) # {}}
            g(r) == [r EXCEPT !.source = Heir(r.entity_id)]
<1>1. entities' = (entities \ mine) \cup {g(r) : r \in claimed} /\ rows_made' = rows_made
  BY DEF cleanup_orphan_entities_for_rejected_plan
<1>2. ASSUME NEW r \in entities PROVE g(r).id = r.id /\ g(r).entity_id = r.entity_id
  BY DEF TypeOK, Row
<1>3. mine \subseteq entities
  BY DEF OwnRows
<1>. HIDE DEF g
<1>4. RowsInherited
  BY <1>1, <1>2, <1>3 DEF RowsInherited, Inherited
<1>5. ASSUME NEW e, Claimers(e) # {}, NEW r \in RowsOf(e) PROVE RowsOf(e)' # {}
  <2>1. r \in entities /\ r.entity_id = e
    BY DEF RowsOf
  <2>2. r \in entities' \/ g(r) \in entities'
    BY <1>1, <1>5, <2>1
  <2>. QED
    BY <1>2, <2>1, <2>2 DEF RowsOf
<1>. QED
  BY <1>4, <1>5 DEF Stays

LEMMA InsertRows ==
  ASSUME NEW c \in Calls, insert_entity(c), TypeOK, Ids
  PROVE  /\ Ids'
         /\ rows_made' \in {rows_made, rows_made + 1}
         /\ \A s \in entities' : Inherited(s) \/ s.id = rows_made + 1
         /\ \A e : Stays(e)
         /\ \E s \in entities' : s.entity_id = call[c].entity
<1>1. CASE RowsOf(call[c].entity) # {}
  <2>1. entities' = entities /\ rows_made' = rows_made
    BY <1>1 DEF insert_entity
  <2>2. Ids' /\ \A e : Stays(e)
    BY <2>1 DEF Ids, Stays, RowsOf
  <2>3. \A s \in entities' : Inherited(s)
    BY <2>1 DEF Inherited
  <2>4. \E s \in entities' : s.entity_id = call[c].entity
    BY <1>1, <2>1 DEF RowsOf
  <2>. QED
    BY <2>1, <2>2, <2>3, <2>4
<1>2. CASE RowsOf(call[c].entity) = {}
  <2>. DEFINE n == [id |-> rows_made + 1, entity_id |-> call[c].entity, tier |-> Tier[call[c].op],
                    source |-> source_id(call[c]), born |-> source_id(call[c])]
  <2>1. entities' = entities \cup {n} /\ rows_made' = rows_made + 1
    BY <1>2 DEF insert_entity
  <2>2. n.id = rows_made + 1 /\ n.entity_id = call[c].entity
    OBVIOUS
  <2>. HIDE DEF n
  <2>3. rows_made \in Nat /\ \A r \in entities : r.id \in Nat
    BY DEF TypeOK, Row
  <2>4. Ids'
    BY <2>1, <2>2, <2>3 DEF Ids
  <2>. QED
    BY <2>1, <2>2, <2>4 DEF Inherited, Stays, RowsOf
<1>. QED
  BY <1>1, <1>2

LEMMA SameRows ==
  ASSUME UNCHANGED <<entities, rows_made>> PROVE RowsInherited /\ \A e : Stays(e)
BY DEF RowsInherited, Inherited, Stays, RowsOf

(***************************************************************************)
(* A step of one call keeps AllCovered if no claimed entity loses its last *)
(* row and the call goes past no exemplar without a row.                   *)
(***************************************************************************)
Passes(c, r) ==
  \A p \in Plans : status'[p] = "accepted" /\ p \notin faulty'
    => /\ status[p] = "accepted"
       /\ \A k \in DOMAIN Exemplars[p] :
            /\ Stays(Exemplars[p][k])
            /\ Ahead(call[c], p, k) => Ahead(r, p, k) \/ RowsOf(Exemplars[p][k])' # {}

LEMMA CoveredKept ==
  ASSUME TypeOK, AllCovered, NEW c \in Calls, NEW r, Become(c, r), faulty \subseteq faulty',
         Passes(c, r)
  PROVE  AllCovered'
<1>1. SUFFICES ASSUME NEW p \in Plans, status'[p] = "accepted", p \notin faulty',
                      NEW k \in DOMAIN Exemplars[p]
               PROVE  Covered(p, k)'
  BY DEF AllCovered
<1>2. Covered(p, k) /\ Stays(Exemplars[p][k])
      /\ (Ahead(call[c], p, k) => Ahead(r, p, k) \/ RowsOf(Exemplars[p][k])' # {})
  BY <1>1 DEF AllCovered, Passes
<1>. QED
  BY <1>2, BecomeCovered DEF Stays

LEMMA ExistStep ==
  ASSUME ExistInv, NEW c \in Calls, Step(c)
  PROVE  Ids' /\ Found' /\ AllCovered'
<1>. USE DEF ExistInv
<1>0. call[c] \in CallRecord /\ Sound(call[c])
  BY DEF TypeOK, SoundCalls
\* The calls that begin: nothing was ahead of them.
<1>1. ASSUME NEW r, Starts(c, r), r.pc # "get", UNCHANGED <<entities, rows_made, faulty>>,
             \A p \in Plans : status'[p] = "accepted"
               => status[p] = "accepted" \/ (r.pc = "load" /\ r.op = "accept" /\ r.plan = p)
      PROVE  Ids' /\ Found' /\ AllCovered'
  <2>1. RowsInherited /\ \A e : Stays(e)
    BY <1>1, SameRows
  <2>2. Become(c, r) /\ call[c].pc = "idle"
    BY <1>1 DEF Starts
  <2>3. Ids' /\ Found'
    BY <1>1, <2>1, <2>2, IdsKept, FoundKept DEF RowsInherited
  <2>4. ASSUME NEW p \in Plans, status'[p] = "accepted", p \notin faulty',
               NEW k \in DOMAIN Exemplars[p]
        PROVE  Covered(p, k)'
    <3>1. CASE status[p] = "accepted"
      <4>1. Covered(p, k)
        BY <1>1, <2>4, <3>1 DEF AllCovered
      <4>2. ~Ahead(call[c], p, k)
        BY <2>2 DEF Ahead
      <4>. QED
        BY <2>1, <2>2, <4>1, <4>2, BecomeCovered DEF Stays
    <3>2. CASE r.pc = "load" /\ r.op = "accept" /\ r.plan = p
      <4>1. call'[c] = r
        BY <2>2 DEF Become, TypeOK
      <4>. QED
        BY <3>2, <4>1 DEF Covered, Ahead
    <3>. QED
      BY <1>1, <2>4, <3>1, <3>2
  <2>. QED
    BY <2>3, <2>4 DEF AllCovered
<1>2. CASE accept_plan(c)
  <2>1. PICK p \in Plans :
          /\ Starts(c, [Idle EXCEPT !.pc = "load", !.op = "accept", !.plan = p])
          /\ status' = [status EXCEPT ![p] = "accepted"]
    BY <1>2 DEF accept_plan
  <2>. DEFINE r == [Idle EXCEPT !.pc = "load", !.op = "accept", !.plan = p]
  <2>2. r.pc = "load" /\ r.op = "accept" /\ r.plan = p
    BY DEF Idle
  <2>3. \A q \in Plans : status'[q] = "accepted" => status[q] = "accepted" \/ r.plan = q
    BY <2>1, <2>2 DEF TypeOK
  <2>. HIDE DEF r
  <2>. QED
    BY <1>1, <1>2, <2>1, <2>2, <2>3 DEF r, accept_plan
<1>3. CASE insert_record(c)
  <2>1. PICK op \in {"ingest", "extract"}, e \in EntityIds :
          Starts(c, [Idle EXCEPT !.pc = "find", !.op = op, !.entity = e])
    BY <1>3 DEF insert_record
  <2>. DEFINE r == [Idle EXCEPT !.pc = "find", !.op = op, !.entity = e]
  <2>2. r.pc # "get"
    BY DEF Idle
  <2>. HIDE DEF r
  <2>. QED
    BY <1>1, <1>3, <2>1, <2>2 DEF r, insert_record
<1>4. CASE reject_plan(c)
  <2>1. PICK p \in Plans :
          /\ Starts(c, [Idle EXCEPT !.pc = "cleanup", !.op = "reject", !.plan = p])
          /\ status' = [status EXCEPT ![p] = "rejected"]
    BY <1>4 DEF reject_plan
  <2>. DEFINE r == [Idle EXCEPT !.pc = "cleanup", !.op = "reject", !.plan = p]
  <2>2. r.pc # "get"
    BY DEF Idle
  <2>3. \A q \in Plans : status'[q] = "accepted" => status[q] = "accepted"
    BY <2>1 DEF TypeOK
  <2>. HIDE DEF r
  <2>. QED
    BY <1>1, <1>4, <2>1, <2>2, <2>3 DEF r, reject_plan
\* The steps that leave the rows alone.
<1>5. ASSUME NEW r, Become(c, r), r.pc # "get", UNCHANGED <<status, entities, rows_made>>,
             faulty \subseteq faulty',
             \A p \in Plans : p \notin faulty' => \A k \in DOMAIN Exemplars[p] :
               Ahead(call[c], p, k) => Ahead(r, p, k) \/ RowsOf(Exemplars[p][k]) # {}
      PROVE  Ids' /\ Found' /\ AllCovered'
  <2>1. RowsInherited /\ \A e : Stays(e)
    BY <1>5, SameRows
  <2>2. Ids' /\ Found'
    BY <1>5, <2>1, IdsKept, FoundKept DEF RowsInherited
  <2>3. Passes(c, r)
    BY <1>5, <2>1 DEF Passes, Stays
  <2>. QED
    BY <1>5, <2>2, <2>3, CoveredKept
<1>6. CASE get_research_plan(c)
  <2>. DEFINE r == ExemplarAt(call[c], 1)
  <2>1. r.pc # "get"
    BY <1>0, NotGet
  <2>2. ASSUME NEW p \in Plans, NEW k \in DOMAIN Exemplars[p], Ahead(call[c], p, k)
        PROVE  Ahead(r, p, k)
    <3>1. 1 <= k
      BY Positions
    <3>2. call[c].op = "accept" /\ call[c].plan = p
      BY <2>2 DEF Ahead
    <3>3. k \in Nat /\ 1 \in Nat /\ 1 <= 1
      BY Positions
    <3>. QED
      BY <1>0, <3>1, <3>2, <3>3, ExemplarAtAhead
  <2>. HIDE DEF r
  <2>. QED
    BY <1>5, <1>6, <2>1, <2>2 DEF r, get_research_plan
<1>7. CASE get_entity_by_business_id(c)
  <2>1. CASE Goto(c, "insert")
    <3>. DEFINE r == [call[c] EXCEPT !.pc = "insert"]
    <3>1. r.pc = "insert" /\ r.op = call[c].op /\ r.plan = call[c].plan /\ r.i = call[c].i
      BY <1>0 DEF CallRecord
    <3>. HIDE DEF r
    <3>2. \A p \in Plans : \A k \in DOMAIN Exemplars[p] :
            Ahead(call[c], p, k) => Ahead(r, p, k)
      BY <1>7, <3>1 DEF get_entity_by_business_id, Ahead
    <3>. QED
      BY <1>5, <1>7, <2>1, <3>1, <3>2 DEF r, Goto, get_entity_by_business_id
  <2>2. ASSUME NEW x \in RowsOf(call[c].entity),
               Become(c, [call[c] EXCEPT !.pc = "get", !.found = x.id])
        PROVE  Ids' /\ Found' /\ AllCovered'
    <3>. DEFINE r == [call[c] EXCEPT !.pc = "get", !.found = x.id]
    <3>1. /\ r.pc = "get" /\ r.op = call[c].op /\ r.plan = call[c].plan /\ r.i = call[c].i
          /\ r.entity = call[c].entity /\ r.found = x.id
      BY <1>0 DEF CallRecord
    <3>. HIDE DEF r
    <3>2. Become(c, r) /\ UNCHANGED <<status, entities, rows_made, faulty>>
      BY <1>7, <2>2 DEF r, get_entity_by_business_id
    <3>3. RowsInherited /\ \A e : Stays(e)
      BY <3>2, SameRows
    <3>4. x \in entities /\ x.entity_id = call[c].entity
      BY DEF RowsOf
    <3>5. x.id <= rows_made /\ \A y \in entities : y.id = x.id => y.entity_id = call[c].entity
      BY <3>4 DEF Ids
    <3>6. Found'
      BY <3>1, <3>2, <3>5 DEF Found, Become, TypeOK
    <3>7. Passes(c, r)
      BY <1>7, <3>1, <3>2, <3>3 DEF Passes, Ahead, get_entity_by_business_id
    <3>. QED
      BY <3>2, <3>3, <3>6, <3>7, IdsKept, CoveredKept
  <2>. QED
    BY <1>7, <2>1, <2>2 DEF get_entity_by_business_id
<1>8. CASE get_entity(c)
  <2>1. CASE Goto(c, "insert")
    <3>. DEFINE r == [call[c] EXCEPT !.pc = "insert"]
    <3>1. r.pc = "insert" /\ r.op = call[c].op /\ r.plan = call[c].plan /\ r.i = call[c].i
      BY <1>0 DEF CallRecord
    <3>. HIDE DEF r
    <3>2. \A p \in Plans : \A k \in DOMAIN Exemplars[p] :
            Ahead(call[c], p, k) => Ahead(r, p, k)
      BY <1>8, <3>1 DEF get_entity, Ahead
    <3>. QED
      BY <1>5, <1>8, <2>1, <3>1, <3>2 DEF r, Goto, get_entity
  <2>2. ASSUME NEW x \in entities, x.id = call[c].found,
               NEW r, Become(c, r), r = [call[c] EXCEPT !.pc = "refresh"] \/ r = AfterUpsert(call[c])
        PROVE  Ids' /\ Found' /\ AllCovered'
    <3>1. r.pc # "get"
      BY <1>0, <2>2, NotGet DEF CallRecord
    <3>2. x.entity_id = call[c].entity
      BY <1>8, <2>2 DEF get_entity, Found
    <3>3. ASSUME NEW p \in Plans, NEW k \in DOMAIN Exemplars[p], Ahead(call[c], p, k)
          PROVE  Ahead(r, p, k) \/ RowsOf(Exemplars[p][k]) # {}
      <4>1. call[c].op = "accept" /\ call[c].plan = p /\ call[c].i <= k
            /\ call[c].entity = Exemplars[p][call[c].i]
        BY <1>0, <1>8, <3>3 DEF get_entity, Ahead, Sound, Upserting
      <4>2. CASE call[c].i = k
        BY <2>2, <3>2, <4>1, <4>2 DEF RowsOf
      <4>3. CASE call[c].i # k
        <5>1. call[c].i < k
          BY <1>0, <4>1, <4>3, Positions DEF CallRecord
        <5>2. Ahead(AfterUpsert(call[c]), p, k)
          BY <1>0, <4>1, <5>1, AfterUpsertAhead
        <5>3. Ahead([call[c] EXCEPT !.pc = "refresh"], p, k)
          BY <1>0, <4>1, <5>1 DEF Ahead, CallRecord
        <5>. QED
          BY <2>2, <5>2, <5>3
      <4>. QED
        BY <4>2, <4>3
    <3>. QED
      BY <1>5, <1>8, <2>2, <3>1, <3>3 DEF get_entity
  <2>3. \/ Goto(c, "insert")
        \/ \E x \in entities : x.id = call[c].found
             /\ (Become(c, AfterUpsert(call[c])) \/ Goto(c, "refresh"))
    BY <1>8 DEF get_entity
  <2>. QED
    BY <2>1, <2>2, <2>3 DEF Goto
\* Past an upsert that leaves a row of the entity, the later exemplars are ahead.
<1>9. ASSUME call[c].pc \in {"insert", "refresh"}, NEW p \in Plans, NEW k \in DOMAIN Exemplars[p],
             Ahead(call[c], p, k)
      PROVE  \/ Ahead(AfterUpsert(call[c]), p, k)
             \/ call[c].pc = "insert" /\ Exemplars[p][k] = call[c].entity
  <2>1. /\ call[c].op = "accept" /\ call[c].plan = p
        /\ call[c].i < k \/ (call[c].i <= k /\ call[c].pc = "insert")
        /\ call[c].entity = Exemplars[p][call[c].i]
    BY <1>0, <1>9 DEF Ahead, Sound, Upserting
  <2>2. CASE call[c].i < k
    BY <1>0, <2>1, <2>2, AfterUpsertAhead
  <2>3. CASE call[c].i = k /\ call[c].pc = "insert"
    BY <2>1, <2>3
  <2>. QED
    BY <1>0, <2>1, <2>2, <2>3, Positions DEF CallRecord
<1>10. CASE insert_entity(c)
  <2>. DEFINE r == AfterUpsert(call[c])
  <2>1. r.pc # "get"
    BY <1>0, NotGet
  <2>2. Become(c, r) /\ UNCHANGED <<status, faulty>> /\ call[c].pc = "insert"
    BY <1>10 DEF insert_entity
  <2>3. /\ Ids' /\ rows_made' \in {rows_made, rows_made + 1}
        /\ \A s \in entities' : Inherited(s) \/ s.id = rows_made + 1
        /\ \A e : Stays(e)
        /\ \E s \in entities' : s.entity_id = call[c].entity
    BY <1>10, InsertRows
  <2>4. ASSUME NEW p \in Plans, NEW k \in DOMAIN Exemplars[p], Ahead(call[c], p, k)
        PROVE  Ahead(r, p, k) \/ RowsOf(Exemplars[p][k])' # {}
    BY <1>9, <2>2, <2>3, <2>4 DEF RowsOf
  <2>. HIDE DEF r
  <2>5. Passes(c, r)
    BY <2>2, <2>3, <2>4 DEF Passes
  <2>. QED
    BY <2>1, <2>2, <2>3, <2>5, FoundKept, CoveredKept
<1>11. CASE refresh(c)
  <2>. DEFINE r == AfterUpsert(call[c])
  <2>1. r.pc # "get"
    BY <1>0, NotGet
  <2>2. Become(c, r) /\ UNCHANGED <<status, faulty>> /\ call[c].pc = "refresh"
    BY <1>11 DEF refresh
  <2>3. RowsInherited /\ \A e : Stays(e)
    BY <1>11, RefreshRows
  <2>4. ASSUME NEW p \in Plans, NEW k \in DOMAIN Exemplars[p], Ahead(call[c], p, k)
        PROVE  Ahead(r, p, k)
    BY <1>9, <2>2, <2>4
  <2>. HIDE DEF r
  <2>5. Passes(c, r)
    BY <2>2, <2>3, <2>4 DEF Passes
  <2>. QED
    BY <2>1, <2>2, <2>3, <2>5, IdsKept, FoundKept, CoveredKept DEF RowsInherited
<1>12. CASE relation_exists_by_dedup_key(c) \/ insert_relation(c)
  <2>1. call[c].pc \in AtTriple /\ UNCHANGED <<status, entities, rows_made, faulty>>
    BY <1>12 DEF relation_exists_by_dedup_key, insert_relation, AtTriple
  <2>2. \A p, k : ~Ahead(call[c], p, k)
    BY <2>1 DEF Ahead, AtTriple
  <2>3. PICK r : Become(c, r) /\ r.pc # "get"
    <3>. DEFINE r1 == TripleAt(call[c], call[c].i + 1)
                r2 == [call[c] EXCEPT !.pc = "insert_triple"]
    <3>1. r1.pc # "get" /\ r2.pc # "get"
      BY <1>0, NotGet DEF CallRecord
    <3>2. Become(c, r1) \/ Become(c, r2)
      BY <1>12 DEF relation_exists_by_dedup_key, insert_relation, Goto
    <3>. HIDE DEF r1, r2
    <3>. QED
      BY <3>1, <3>2
  <2>. QED
    BY <1>5, <2>1, <2>2, <2>3
<1>13. CASE cleanup_orphan_entities_for_rejected_plan(c)
  <2>1. /\ Become(c, Done) /\ UNCHANGED <<status, faulty>> /\ call[c].pc = "cleanup"
    BY <1>13 DEF cleanup_orphan_entities_for_rejected_plan
  <2>2. RowsInherited /\ \A e : Claimers(e) # {} => Stays(e)
    BY <1>13, CleanupRows
  <2>3. ASSUME NEW p \in Plans, status[p] = "accepted", NEW k \in DOMAIN Exemplars[p]
        PROVE  Stays(Exemplars[p][k])
    <3>1. p \in Claimers(Exemplars[p][k])
      BY <2>3 DEF Claimers, Named
    <3>. QED
      BY <2>2, <3>1
  <2>4. Passes(c, Done)
    BY <2>1, <2>3 DEF Passes, Ahead
  <2>5. Done.pc # "get"
    BY NotGet
  <2>. QED
    BY <2>1, <2>2, <2>4, <2>5, IdsKept, FoundKept, CoveredKept DEF RowsInherited
<1>14. CASE StoreError(c)
  <2>1. PICK r : Become(c, r) /\ r.pc # "get"
    <3>1. \/ Become(c, AfterUpsert(call[c]))
          \/ Become(c, TripleAt(call[c], call[c].i + 1))
          \/ Become(c, Done)
      BY <1>14 DEF StoreError
    <3>. QED
      BY <1>0, <3>1, NotGet, Zenon
  <2>2. faulty \subseteq faulty' /\ UNCHANGED <<status, entities, rows_made>>
    BY <1>14 DEF StoreError
  <2>3. ASSUME NEW p \in Plans, p \notin faulty', NEW k PROVE ~Ahead(call[c], p, k)
    BY <1>14, <2>3 DEF StoreError, Ahead
  <2>. QED
    BY <1>5, <2>1, <2>2, <2>3
<1>. QED
  BY <1>2, <1>3, <1>4, <1>6, <1>7, <1>8, <1>10, <1>11, <1>12, <1>13, <1>14 DEF Step

LEMMA ExistRestart ==
  ASSUME ExistInv, Restart
  PROVE  Ids' /\ Found' /\ AllCovered'
<1>. USE DEF ExistInv
<1>1. UNCHANGED <<status, entities, rows_made>> /\ faulty \subseteq faulty'
  BY DEF Restart
<1>2. Ids'
  BY <1>1 DEF Ids
<1>3. \A c \in Calls : call'[c].pc = "get" => call'[c] = call[c]
  BY NotGet DEF Restart
<1>4. Found'
  BY <1>1, <1>3 DEF Found
<1>5. ASSUME NEW p \in Plans, status[p] = "accepted", p \notin faulty', NEW k \in DOMAIN Exemplars[p]
      PROVE  RowsOf(Exemplars[p][k]) # {}
  <2>1. Covered(p, k)
    BY <1>1, <1>5 DEF AllCovered
  <2>2. ASSUME NEW c \in Calls PROVE ~Ahead(call[c], p, k)
    BY <1>5 DEF Restart, Ahead, Ended
  <2>. QED
    BY <2>1, <2>2 DEF Covered
<1>6. AllCovered'
  BY <1>1, <1>5 DEF AllCovered, Covered, RowsOf
<1>. QED
  BY <1>2, <1>4, <1>6

\* However accepting, rejecting and fetching interleave, and whatever fails, a
\* plan accepted without an error has all its exemplars once its calls ended.
THEOREM AcceptedPlansHaveExemplars == Spec => []AcceptedExemplarsExist
<1>1. Init => ExistInv
  <2>. SUFFICES ASSUME Init PROVE ExistInv
    OBVIOUS
  <2>1. Ids /\ Found /\ AllCovered
    BY DEF Init, Ids, Found, AllCovered, Idle
  <2>. QED
    BY <2>1, InitTypes DEF ExistInv
<1>2. ExistInv /\ [Next]_vars => ExistInv'
  <2>. SUFFICES ASSUME ExistInv, [Next]_vars PROVE ExistInv'
    OBVIOUS
  <2>1. TypeOK' /\ SoundCalls'
    BY NextTypes DEF ExistInv
  <2>2. CASE \E c \in Calls : Step(c)
    BY <2>1, <2>2, ExistStep DEF ExistInv
  <2>3. CASE Restart
    BY <2>1, <2>3, ExistRestart DEF ExistInv
  <2>4. CASE UNCHANGED vars
    <3>1. Ids' /\ Found'
      BY <2>4 DEF ExistInv, vars, Ids, Found
    <3>2. \A p, k : Covered(p, k) => Covered(p, k)'
      BY <2>4 DEF vars, Covered, RowsOf, Ahead
    <3>3. AllCovered'
      BY <2>4, <3>2 DEF ExistInv, vars, AllCovered
    <3>. QED
      BY <2>1, <3>1, <3>3 DEF ExistInv
  <2>. QED
    BY <2>2, <2>3, <2>4 DEF Next
<1>3. ExistInv => AcceptedExemplarsExist
  <2>. SUFFICES ASSUME AllCovered, NEW p \in Plans, status[p] = "accepted", p \notin faulty,
                       \A c \in Calls : call[c].plan # p \/ call[c].op # "accept",
                       NEW k \in DOMAIN Exemplars[p]
                PROVE  RowsOf(Exemplars[p][k]) # {}
    BY DEF ExistInv, AcceptedExemplarsExist
  <2>1. Covered(p, k)
    BY DEF AllCovered
  <2>2. \A c \in Calls : ~Ahead(call[c], p, k)
    BY DEF Ahead
  <2>. QED
    BY <2>1, <2>2 DEF Covered
<1>. QED
  BY <1>1, <1>2, <1>3, PTL DEF Spec

-----------------------------------------------------------------------------
(***************************************************************************)
(* Calls that follow one another.  Every property of them rests on what    *)
(* the one call under way may assume of its last look: its plan is still   *)
(* accepted, the row it found is still as poor, its triple still missing.  *)
(***************************************************************************)
OneRow ==
  /\ \A r \in entities : r.id <= rows_made
  /\ \A r, s \in entities : r.id = s.id => r = s

OneCall == \A c, d \in Calls : ~Ended(c) /\ ~Ended(d) => c = d

StillTrue(r) ==
  /\ r.op = "accept" /\ r.pc \notin {"idle", "done"} => status[r.plan] = "accepted"
  /\ r.pc = "refresh" => \A x \in entities : x.id = r.found => x.tier <= Tier[r.op]
  /\ r.pc = "insert_triple" => relations[r.plan][r.i] = 0

Explained(x) ==
  x.source \in Plans /\ status[x.source] # "accepted"
  => \/ x.source \in faulty
     \/ \E c \in Calls : call[c].plan = x.source /\ call[c].pc = "cleanup"

TriplesOnce == \A p \in Plans : \A i \in DOMAIN Triples[p] : relations[p][i] <= 1

InTurn ==
  /\ OneCall
  /\ \A c \in Calls : StillTrue(call[c])
  /\ \A x \in entities : Explained(x)
  /\ TriplesOnce

TurnInv == OneRow /\ (~overlapped => InTurn)

(***************************************************************************)
(* The rows keep their ids, in whatever order calls run.                   *)
(***************************************************************************)
LEMMA OneRowStep == TypeOK /\ OneRow /\ [Next]_vars => OneRow'
<1>. SUFFICES ASSUME TypeOK, OneRow, [Next]_vars PROVE OneRow'
  OBVIOUS
<1>0. rows_made \in Nat /\ \A r \in entities : r \in Row /\ r.id \in Nat
  BY DEF TypeOK, Row
<1>1. ASSUME NEW c \in Calls, insert_entity(c) PROVE OneRow'
  <2>1. CASE UNCHANGED <<entities, rows_made>>
    BY <2>1 DEF OneRow
  <2>2. CASE ~UNCHANGED <<entities, rows_made>>
    <3>1. PICK n : n.id = rows_made + 1 /\ rows_made' = rows_made + 1 /\ entities' = entities \cup {n}
      BY <1>1, <2>2 DEF insert_entity
    <3>. QED
      BY <1>0, <3>1 DEF OneRow
  <2>. QED
    BY <2>1, <2>2
<1>2. ASSUME NEW c \in Calls, refresh(c) PROVE OneRow'
  <2>. DEFINE g(r) == IF r.id = call[c].found
                        THEN [r EXCEPT !.tier = Tier[call[c].op], !.source = source_id(call[c])]
                        ELSE r
  <2>1. entities' = {g(r) : r \in entities} /\ rows_made' = rows_made
    BY <1>2 DEF refresh
  <2>2. \A r \in entities : g(r).id = r.id
    BY <1>0 DEF Row
  <2>. HIDE DEF g
  <2>. QED
    BY <2>1, <2>2 DEF OneRow
<1>3. ASSUME NEW c \in Calls, cleanup_orphan_entities_for_rejected_plan(c) PROVE OneRow'
  <2>. DEFINE mine == OwnRows(call[c].plan)
              claimed == {r \in mine : Claimers(r.entity_id) # {}}
              g(r) == [r EXCEPT !.source = Heir(r.entity_id)]
  <2>1. entities' = (entities \ mine) \cup {g(r) : r \in claimed} /\ rows_made' = rows_made
    BY <1>3 DEF cleanup_orphan_entities_for_rejected_plan
  <2>2. claimed \subseteq mine /\ mine \subseteq entities
    BY DEF OwnRows
  <2>3. \A r \in entities : g(r).id = r.id
    BY <1>0 DEF Row
  <2>. HIDE DEF g, mine, claimed
  <2>4. \A x \in entities' : \/ x \in entities /\ x \notin mine
                             \/ \E r \in claimed : x = g(r)
    BY <2>1
  <2>. QED
    BY <2>1, <2>2, <2>3, <2>4 DEF OneRow
<1>4. CASE UNCHANGED <<entities, rows_made>>
  BY <1>4 DEF OneRow
<1>. QED
  BY <1>1, <1>2, <1>3, <1>4
  DEF Next, Step, vars, accept_plan, get_research_plan, insert_record, get_entity_by_business_id,
      get_entity, relation_exists_by_dedup_key, insert_relation, reject_plan, StoreError, Restart

\* Where a call goes on to after an exemplar or a triple, it relies on no look yet.
Onward(r, x) ==
  /\ x.pc \notin {"refresh", "insert_triple", "cleanup"}
  /\ x.op = "accept" /\ x.pc \notin {"idle", "done"} => r.op = "accept" /\ x.plan = r.plan

LEMMA GoesOn ==
  ASSUME NEW r \in CallRecord, NEW i
  PROVE  /\ Onward(r, Done) /\ Onward(r, TripleAt(r, i)) /\ Onward(r, ExemplarAt(r, i))
         /\ Onward(r, AfterUpsert(r))
<1>1. Onward(r, Done)
  BY DEF Done, Idle, Onward
<1>2. \A j : Onward(r, TripleAt(r, j))
  BY <1>1 DEF TripleAt, CallRecord, Onward
<1>3. \A j : Onward(r, ExemplarAt(r, j))
  BY <1>2 DEF ExemplarAt, CallRecord, Onward
<1>. QED
  BY <1>1, <1>2, <1>3 DEF AfterUpsert

LEMMA OthersEnded ==
  ASSUME TypeOK, TurnInv, NEW c \in Calls, Step(c), ~overlapped'
  PROVE  /\ InTurn
         /\ \A d \in Calls : d # c => call'[d] = call[d] /\ Ended(d)
<1>1. \A d \in Calls : d # c => call'[d] = call[d]
  BY DEF TypeOK, Step, Starts, Become, Goto, accept_plan, get_research_plan, insert_record,
     get_entity_by_business_id, get_entity, insert_entity, refresh, relation_exists_by_dedup_key,
     insert_relation, reject_plan, cleanup_orphan_entities_for_rejected_plan, StoreError
<1>2. CASE \E r : Starts(c, r)
  BY <1>1, <1>2 DEF Starts, TurnInv
<1>3. CASE ~\E r : Starts(c, r)
  <2>1. ~Ended(c) /\ overlapped' = overlapped
    BY <1>3 DEF Step, Ended, accept_plan, get_research_plan, insert_record,
       get_entity_by_business_id, get_entity, insert_entity, refresh, relation_exists_by_dedup_key,
       insert_relation, reject_plan, cleanup_orphan_entities_for_rejected_plan, StoreError
  <2>. QED
    BY <1>1, <2>1 DEF TurnInv, InTurn, OneCall
<1>. QED
  BY <1>2, <1>3

\* What is left to show for a step of the one call under way.
LEMMA TurnKept ==
  ASSUME NEW c \in Calls, \A d \in Calls : d # c => call'[d] = call[d] /\ Ended(d),
         StillTrue(call[c])', \A x \in entities' : Explained(x)', TriplesOnce'
  PROVE  InTurn'
<1>1. OneCall'
  BY DEF OneCall, Ended
<1>2. (\A d \in Calls : StillTrue(call[d]))'
  <2>1. ASSUME NEW d \in Calls, d # c PROVE StillTrue(call[d])'
    BY <2>1 DEF Ended, StillTrue
  <2>. QED
    BY <2>1
<1>. QED
  BY <1>1, <1>2 DEF InTurn

\* While no clean-up is due, every row left over is one of a faulty plan.
LEMMA FaultyOrphans ==
  ASSUME InTurn, NEW c \in Calls, \A d \in Calls : d # c => Ended(d), call[c].pc # "cleanup",
         NEW x \in entities, x.source \in Plans, status[x.source] # "accepted"
  PROVE  x.source \in faulty
<1>1. \A d \in Calls : call[d].pc # "cleanup"
  BY DEF Ended
<1>. QED
  BY <1>1 DEF InTurn, Explained

LEMMA RowNumbers ==
  ASSUME TypeOK, NEW x \in entities
  PROVE  x.id \in Nat /\ x.tier \in Nat
<1>1. entities \subseteq Row
  BY DEF TypeOK
<1>2. x.id \in Nat /\ x.tier \in 1..3
  BY <1>1 DEF Row
<1>. QED
  BY <1>2

LEMMA RowsStill == ASSUME TypeOK, OneRow, UNCHANGED entities PROVE TierKept
<1>1. ASSUME NEW r \in entities, NEW s \in entities, r.id = s.id
      PROVE  r.tier <= s.tier
  <2>1. r = s /\ r.tier \in Nat
    BY <1>1, RowNumbers DEF OneRow
  <2>. QED
    BY <2>1
<1>. QED
  BY <1>1 DEF TierKept

\* A step that leaves the rows, the triples and the status alone.
LEMMA LookTurn ==
  ASSUME TypeOK, InTurn, OneRow, NEW c \in Calls,
         \A d \in Calls : d # c => call'[d] = call[d] /\ Ended(d),
         UNCHANGED <<status, entities, relations>>, faulty \subseteq faulty',
         call[c].pc # "cleanup" \/ call[c].plan \in faulty',
         StillTrue(call[c])'
  PROVE  InTurn' /\ TierKept
<1>1. ASSUME NEW x \in entities, x.source \in Plans, status[x.source] # "accepted"
      PROVE  x.source \in faulty'
  <2>1. CASE call[c].pc # "cleanup"
    BY <1>1, <2>1, FaultyOrphans
  <2>2. CASE call[c].pc = "cleanup"
    BY <1>1, <2>2 DEF InTurn, Explained, Ended
  <2>. QED
    BY <2>1, <2>2
<1>2. \A x \in entities' : Explained(x)'
  BY <1>1 DEF Explained
<1>3. TriplesOnce'
  BY DEF InTurn, TriplesOnce
<1>4. TierKept
  BY RowsStill
<1>. QED
  BY <1>2, <1>3, <1>4, TurnKept

LEMMA TurnStep ==
  ASSUME TypeOK, SoundCalls, TurnInv, NEW c \in Calls, Step(c), ~overlapped'
  PROVE  InTurn' /\ TierKept
<1>. USE DEF Onward
<1>0. /\ call[c] \in CallRecord /\ Sound(call[c]) /\ OneRow
      /\ InTurn /\ \A d \in Calls : d # c => call'[d] = call[d] /\ Ended(d)
      /\ StillTrue(call[c])
  BY OthersEnded DEF TypeOK, SoundCalls, TurnInv, InTurn
\* Past a look or a write the call relies on nothing it has seen.
<1>1. ASSUME NEW x, call'[c] = x, Onward(call[c], x), ~Ended(c), UNCHANGED status
      PROVE  StillTrue(call[c])'
  <2>1. x.op = "accept" /\ x.pc \notin {"idle", "done"} =>
          call[c].op = "accept" /\ x.plan = call[c].plan /\ call[c].pc \notin {"idle", "done"}
    BY <1>0, <1>1 DEF Ended
  <2>. QED
    BY <1>0, <1>1, <2>1 DEF StillTrue
<1>2. CASE accept_plan(c)
  <2>1. PICK p \in Plans :
          /\ Become(c, [Idle EXCEPT !.pc = "load", !.op = "accept", !.plan = p])
          /\ status' = [status EXCEPT ![p] = "accepted"]
          /\ call[c].pc = "idle"
    BY <1>2 DEF accept_plan, Starts
  <2>2. call'[c].pc = "load" /\ call'[c].plan = p
    BY <2>1 DEF Become, TypeOK, Idle
  <2>3. status'[p] = "accepted" /\ \A q \in Plans : status'[q] # "accepted" => status[q] # "accepted"
    BY <2>1 DEF TypeOK
  <2>4. UNCHANGED <<entities, relations, faulty>>
    BY <1>2 DEF accept_plan
  <2>5. StillTrue(call[c])'
    BY <2>2, <2>3 DEF StillTrue
  <2>6. \A x \in entities' : Explained(x)'
    BY <1>0, <2>1, <2>3, <2>4, FaultyOrphans DEF Explained
  <2>7. TriplesOnce' /\ TierKept
    BY <1>0, <2>4, RowsStill DEF InTurn, TriplesOnce
  <2>. QED
    BY <1>0, <2>5, <2>6, <2>7, TurnKept
<1>3. CASE reject_plan(c)
  <2>1. PICK p \in Plans :
          /\ Become(c, [Idle EXCEPT !.pc = "cleanup", !.op = "reject", !.plan = p])
          /\ status' = [status EXCEPT ![p] = "rejected"]
          /\ call[c].pc = "idle"
    BY <1>3 DEF reject_plan, Starts
  <2>2. call'[c].pc = "cleanup" /\ call'[c].op = "reject" /\ call'[c].plan = p
    BY <2>1 DEF Become, TypeOK, Idle
  <2>3. \A q \in Plans \ {p} : status'[q] = status[q]
    BY <2>1 DEF TypeOK
  <2>4. UNCHANGED <<entities, relations, faulty>>
    BY <1>3 DEF reject_plan
  <2>5. StillTrue(call[c])'
    BY <2>2 DEF StillTrue
  <2>6. \A x \in entities' : Explained(x)'
    BY <1>0, <2>1, <2>2, <2>3, <2>4, FaultyOrphans DEF Explained
  <2>7. TriplesOnce' /\ TierKept
    BY <1>0, <2>4, RowsStill DEF InTurn, TriplesOnce
  <2>. QED
    BY <1>0, <2>5, <2>6, <2>7, TurnKept
<1>4. CASE insert_record(c)
  <2>1. PICK op \in {"ingest", "extract"}, e \in EntityIds :
          /\ Become(c, [Idle EXCEPT !.pc = "find", !.op = op, !.entity = e])
          /\ call[c].pc = "idle"
    BY <1>4 DEF insert_record, Starts
  <2>2. call'[c].pc = "find" /\ call'[c].op # "accept"
    BY <2>1 DEF Become, TypeOK, Idle
  <2>. QED
    BY <1>0, <1>4, <2>1, <2>2, LookTurn DEF insert_record, StillTrue
<1>5. CASE get_research_plan(c)
  <2>1. call'[c] = ExemplarAt(call[c], 1) /\ ~Ended(c) /\ call[c].pc # "cleanup"
    BY <1>5 DEF get_research_plan, Become, TypeOK, Ended
  <2>2. StillTrue(call[c])'
    BY <1>0, <1>1, <1>5, <2>1, GoesOn DEF get_research_plan
  <2>. QED
    BY <1>0, <1>5, <2>1, <2>2, LookTurn DEF get_research_plan
<1>6. CASE get_entity_by_business_id(c)
  <2>1. /\ call'[c].pc \in {"insert", "get"} /\ call[c].pc = "find"
        /\ call'[c].op = call[c].op /\ call'[c].plan = call[c].plan
    <3>1. CASE Goto(c, "insert")
      BY <1>0, <1>6, <3>1 DEF get_entity_by_business_id, Goto, Become, TypeOK, CallRecord
    <3>2. CASE \E r \in RowsOf(call[c].entity) :
                 Become(c, [call[c] EXCEPT !.pc = "get", !.found = r.id])
      <4>1. PICK r \in RowsOf(call[c].entity) :
              Become(c, [call[c] EXCEPT !.pc = "get", !.found = r.id])
        BY <3>2
      <4>2. call'[c] = [call[c] EXCEPT !.pc = "get", !.found = r.id]
        BY <4>1 DEF Become, TypeOK
      <4>. QED
        BY <1>0, <1>6, <4>2 DEF get_entity_by_business_id, CallRecord
    <3>. QED
      BY <1>6, <3>1, <3>2 DEF get_entity_by_business_id
  <2>2. StillTrue(call[c])'
    BY <1>0, <1>6, <2>1 DEF get_entity_by_business_id, StillTrue
  <2>. QED
    BY <1>0, <1>6, <2>1, <2>2, LookTurn DEF get_entity_by_business_id
<1>7. CASE get_entity(c)
  <2>1. UNCHANGED <<status, entities, relations, faulty>> /\ call[c].pc = "get"
    BY <1>7 DEF get_entity
  <2>2. CASE Goto(c, "insert")
    <3>1. call'[c].pc = "insert" /\ call'[c].op = call[c].op /\ call'[c].plan = call[c].plan
      BY <1>0, <2>2 DEF Goto, Become, TypeOK, CallRecord
    <3>. QED
      BY <1>0, <2>1, <3>1, LookTurn DEF StillTrue
  <2>3. CASE Become(c, AfterUpsert(call[c]))
    <3>1. call'[c] = AfterUpsert(call[c]) /\ ~Ended(c)
      BY <2>1, <2>3 DEF Become, TypeOK, Ended
    <3>. QED
      BY <1>0, <1>1, <2>1, <3>1, GoesOn, LookTurn
  <2>4. CASE /\ Goto(c, "refresh")
             /\ \E r \in entities : r.id = call[c].found /\ ~(Tier[call[c].op] <= r.tier)
    <3>1. /\ call'[c].pc = "refresh" /\ call'[c].op = call[c].op /\ call'[c].plan = call[c].plan
          /\ call'[c].found = call[c].found
      BY <1>0, <2>4 DEF Goto, Become, TypeOK, CallRecord
    <3>2. Tier[call[c].op] \in 1..3
      BY <1>0, <2>1 DEF Sound, Upserting, Tier
    <3>3. \A x \in entities : x.id = call[c].found => x.tier <= Tier[call[c].op]
      <4>1. PICK r \in entities : r.id = call[c].found /\ ~(Tier[call[c].op] <= r.tier)
        BY <2>4
      <4>2. r.tier \in 1..3
        BY DEF TypeOK, Row
      <4>3. r.tier <= Tier[call[c].op]
        BY <3>2, <4>1, <4>2
      <4>. QED
        BY <1>0, <4>1, <4>3 DEF OneRow
    <3>4. StillTrue(call[c])'
      BY <1>0, <2>1, <3>1, <3>3 DEF StillTrue
    <3>. QED
      BY <1>0, <2>1, <3>4, LookTurn
  <2>. QED
    BY <1>7, <2>2, <2>3, <2>4 DEF get_entity
<1>8. CASE relation_exists_by_dedup_key(c)
  <2>1. UNCHANGED <<status, entities, relations, faulty>> /\ call[c].pc = "check_triple"
    BY <1>8 DEF relation_exists_by_dedup_key
  <2>2. CASE Become(c, TripleAt(call[c], call[c].i + 1))
    <3>1. call'[c] = TripleAt(call[c], call[c].i + 1) /\ ~Ended(c)
      BY <2>1, <2>2 DEF Become, TypeOK, Ended
    <3>. QED
      BY <1>0, <1>1, <2>1, <3>1, GoesOn, LookTurn
  <2>3. CASE Goto(c, "insert_triple") /\ ~(relations[call[c].plan][call[c].i] > 0)
    <3>1. /\ call'[c].pc = "insert_triple" /\ call'[c].op = call[c].op
          /\ call'[c].plan = call[c].plan /\ call'[c].i = call[c].i
      BY <1>0, <2>3 DEF Goto, Become, TypeOK, CallRecord
    <3>2. call[c].plan \in Plans /\ call[c].i \in DOMAIN Triples[call[c].plan]
      BY <1>0, <2>1 DEF Sound, AtTriple
    <3>3. relations[call[c].plan][call[c].i] \in Nat
      BY <3>2 DEF TypeOK
    <3>4. relations[call[c].plan][call[c].i] = 0
      BY <2>3, <3>3
    <3>5. StillTrue(call[c])'
      BY <1>0, <2>1, <3>1, <3>4 DEF StillTrue
    <3>. QED
      BY <1>0, <2>1, <3>5, LookTurn
  <2>. QED
    BY <1>8, <2>2, <2>3 DEF relation_exists_by_dedup_key
<1>9. CASE StoreError(c)
  <2>1. PICK x : Become(c, x) /\ Onward(call[c], x)
    <3>1. \/ Become(c, AfterUpsert(call[c]))
          \/ Become(c, TripleAt(call[c], call[c].i + 1))
          \/ Become(c, Done)
      BY <1>9 DEF StoreError
    <3>2. /\ Onward(call[c], AfterUpsert(call[c])) /\ Onward(call[c], Done)
          /\ Onward(call[c], TripleAt(call[c], call[c].i + 1))
      BY <1>0, GoesOn
    <3>. HIDE DEF Onward
    <3>. QED
      BY <3>1, <3>2
  <2>2. /\ UNCHANGED <<status, entities, relations>> /\ ~Ended(c)
        /\ faulty' = faulty \cup ({call[c].plan} \ {Nothing})
    BY <1>9 DEF StoreError
  <2>3. call[c].pc # "cleanup" \/ call[c].plan \in faulty'
    BY <1>0, <2>2 DEF Sound
  <2>4. call'[c] = x
    BY <2>1 DEF Become, TypeOK
  <2>5. StillTrue(call[c])'
    BY <1>1, <2>1, <2>2, <2>4
  <2>. QED
    BY <1>0, <2>2, <2>3, <2>5, LookTurn
<1>10. CASE insert_relation(c)
  <2>. DEFINE p == call[c].plan
              i == call[c].i
  <2>1. /\ UNCHANGED <<status, entities, faulty>> /\ call[c].pc = "insert_triple"
        /\ relations' = [relations EXCEPT ![p][i] = @ + 1]
        /\ call'[c] = TripleAt(call[c], i + 1)
    BY <1>10 DEF insert_relation, Become, TypeOK
  <2>2. p \in Plans /\ i \in DOMAIN Triples[p]
    BY <1>0, <2>1 DEF Sound, AtTriple
  <2>3. relations[p][i] = 0
    BY <1>0, <2>1 DEF StillTrue
  <2>4. StillTrue(call[c])'
    BY <1>0, <1>1, <2>1, GoesOn DEF Ended
  <2>5. \A x \in entities' : Explained(x)'
    BY <1>0, <2>1, FaultyOrphans DEF Explained
  <2>6. TierKept
    BY <1>0, <2>1, RowsStill
  <2>7. TriplesOnce'
    <3>1. ASSUME NEW q \in Plans, NEW k \in DOMAIN Triples[q] PROVE relations'[q][k] <= 1
      <4>0. relations[q] \in [DOMAIN Triples[q] -> Nat] /\ relations[q][k] <= 1
        BY <1>0 DEF TypeOK, InTurn, TriplesOnce
      <4>. HIDE DEF p, i
      <4>1. CASE q = p /\ k = i
        BY <2>1, <2>2, <2>3, <4>0, <4>1 DEF TypeOK
      <4>2. CASE ~(q = p /\ k = i)
        BY <2>1, <2>2, <4>0, <4>2 DEF TypeOK
      <4>. QED
        BY <4>1, <4>2
    <3>. QED
      BY <3>1 DEF TriplesOnce
  <2>. QED
    BY <1>0, <2>4, <2>5, <2>6, <2>7, TurnKept
<1>11. CASE insert_entity(c)
  <2>1. /\ UNCHANGED <<status, relations, faulty>> /\ call[c].pc = "insert"
        /\ call'[c] = AfterUpsert(call[c])
    BY <1>11 DEF insert_entity, Become, TypeOK
  <2>2. StillTrue(call[c])'
    BY <1>0, <1>1, <2>1, GoesOn DEF Ended
  <2>3. source_id(call[c]) \in Plans => status[source_id(call[c])] = "accepted"
    BY <1>0, <2>1 DEF source_id, StillTrue, Ended
  <2>. DEFINE n == [id |-> rows_made + 1, entity_id |-> call[c].entity, tier |-> Tier[call[c].op],
                    source |-> source_id(call[c]), born |-> source_id(call[c])]
  <2>4. /\ n.id = rows_made + 1 /\ n.source = source_id(call[c])
        /\ entities' = entities \/ entities' = entities \cup {n}
    BY <1>11 DEF insert_entity
  <2>. HIDE DEF n
  <2>5. \A x \in entities' : Explained(x)'
    BY <1>0, <2>1, <2>3, <2>4, FaultyOrphans DEF Explained
  <2>6. TierKept
    <3>1. \A x \in entities : x.id # n.id
      <4>1. rows_made \in Nat
        BY DEF TypeOK
      <4>. QED
        BY <1>0, <2>4, <4>1, RowNumbers DEF OneRow
    <3>2. \A x \in entities : x.tier \in Nat
      BY RowNumbers
    <3>. QED
      BY <1>0, <2>4, <3>1, <3>2 DEF TierKept, OneRow
  <2>7. TriplesOnce'
    BY <1>0, <2>1 DEF InTurn, TriplesOnce
  <2>. QED
    BY <1>0, <2>2, <2>5, <2>6, <2>7, TurnKept
<1>12. CASE refresh(c)
  <2>. DEFINE t == Tier[call[c].op]
              src == source_id(call[c])
              g(r) == IF r.id = call[c].found THEN [r EXCEPT !.tier = t, !.source = src] ELSE r
  <2>1. /\ UNCHANGED <<status, relations, faulty>> /\ call[c].pc = "refresh"
        /\ call'[c] = AfterUpsert(call[c]) /\ entities' = {g(r) : r \in entities}
    BY <1>12 DEF refresh, Become, TypeOK
  <2>2. StillTrue(call[c])'
    BY <1>0, <1>1, <2>1, GoesOn DEF Ended
  <2>3. src \in Plans => status[src] = "accepted"
    BY <1>0, <2>1 DEF source_id, StillTrue, Ended
  <2>4. ASSUME NEW r \in entities
        PROVE  /\ g(r).id = r.id /\ r.tier <= g(r).tier
               /\ g(r).source = r.source \/ g(r).source = src
    <3>1. r \in Row /\ r.tier \in Nat
      BY RowNumbers DEF TypeOK
    <3>2. r.id = call[c].found => r.tier <= t
      BY <1>0, <2>1 DEF StillTrue
    <3>. QED
      BY <3>1, <3>2 DEF Row
  <2>. HIDE DEF g, t, src
  <2>5. \A x \in entities' : Explained(x)'
    <3>. SUFFICES ASSUME NEW x \in entities', x.source \in Plans, status[x.source] # "accepted"
                  PROVE  x.source \in faulty'
      BY <2>1 DEF Explained
    <3>1. PICK r \in entities : x = g(r)
      BY <2>1
    <3>2. x.source = r.source
      BY <2>3, <2>4, <3>1
    <3>3. r.source \in faulty
      BY <1>0, <2>1, <3>2, FaultyOrphans
    <3>. QED
      BY <2>1, <3>2, <3>3
  <2>6. TierKept
    <3>. SUFFICES ASSUME NEW r \in entities, NEW s \in entities', r.id = s.id
                  PROVE  r.tier <= s.tier
      BY DEF TierKept
    <3>1. PICK q \in entities : s = g(q)
      BY <2>1
    <3>2. q = r
      BY <1>0, <2>4, <3>1 DEF OneRow
    <3>. QED
      BY <2>4, <3>1, <3>2
  <2>7. TriplesOnce'
    BY <1>0, <2>1 DEF InTurn, TriplesOnce
  <2>. QED
    BY <1>0, <2>2, <2>5, <2>6, <2>7, TurnKept
<1>13. CASE cleanup_orphan_entities_for_rejected_plan(c)
  <2>. DEFINE mine == OwnRows(call[c].plan)
              claimed == {r \in mine : Claimers(r.entity_id) # {}}
              g(r) == [r EXCEPT !.source = Heir(r.entity_id)]
  <2>1. /\ UNCHANGED <<status, relations, faulty>> /\ call[c].pc = "cleanup" /\ call'[c] = Done
        /\ entities' = (entities \ mine) \cup {g(r) : r \in claimed}
    BY <1>13 DEF cleanup_orphan_entities_for_rejected_plan, Become, TypeOK
  <2>2. StillTrue(call[c])'
    BY <1>0, <1>1, <2>1, GoesOn DEF Ended
  <2>3. claimed \subseteq mine /\ mine \subseteq entities
        /\ \A r \in entities \ mine : r.source # call[c].plan
    BY DEF OwnRows
  <2>4. ASSUME NEW r \in claimed
        PROVE  g(r).id = r.id /\ g(r).tier = r.tier /\ status[g(r).source] = "accepted"
    <3>1. r \in Row
      BY <2>3 DEF TypeOK
    <3>2. Heir(r.entity_id) \in Claimers(r.entity_id)
      BY HeirClaims
    <3>. QED
      BY <3>1, <3>2 DEF Row, Claimers
  <2>. HIDE DEF g, mine, claimed
  <2>5. ASSUME NEW x \in entities' PROVE Explained(x)'
    <3>1. CASE x \in entities /\ x \notin mine
      <4>1. Explained(x)
        BY <1>0, <3>1 DEF InTurn
      <4>2. \A d \in Calls : call[d].pc = "cleanup" => d = c
        BY <1>0 DEF Ended
      <4>3. x.source # call[c].plan
        BY <2>3, <3>1
      <4>. QED
        BY <2>1, <4>1, <4>2, <4>3 DEF Explained
    <3>2. CASE \E r \in claimed : x = g(r)
      BY <2>1, <2>4, <3>2 DEF Explained
    <3>. QED
      BY <2>1, <3>1, <3>2
  <2>6. TierKept
    <3>1. \A x \in entities : x.tier \in Nat
      BY RowNumbers
    <3>2. \A x \in entities' : \E r \in entities : x.id = r.id /\ x.tier = r.tier
      BY <2>1, <2>3, <2>4
    <3>. QED
      BY <1>0, <3>1, <3>2 DEF TierKept, OneRow
  <2>7. TriplesOnce'
    BY <1>0, <2>1 DEF InTurn, TriplesOnce
  <2>. QED
    BY <1>0, <2>2, <2>5, <2>6, <2>7, TurnKept
<1>. QED
  BY <1>2, <1>3, <1>4, <1>5, <1>6, <1>7, <1>8, <1>9, <1>10, <1>11, <1>12, <1>13 DEF Step

LEMMA TurnNext ==
  TypeOK /\ SoundCalls /\ TurnInv /\ [Next]_vars
    => TurnInv' /\ (~overlapped' /\ vars' # vars => TierKept)
<1>. SUFFICES ASSUME TypeOK, SoundCalls, TurnInv, [Next]_vars
              PROVE  TurnInv' /\ (~overlapped' /\ vars' # vars => TierKept)
  OBVIOUS
<1>1. OneRow'
  BY OneRowStep DEF TurnInv
<1>2. ASSUME NEW c \in Calls, Step(c), ~overlapped' PROVE InTurn' /\ TierKept
  BY <1>2, TurnStep
<1>3. CASE Restart
  <2>1. /\ UNCHANGED <<status, entities, relations, overlapped>> /\ faulty \subseteq faulty'
        /\ \A c \in Calls : call'[c] = IF Ended(c) THEN call[c] ELSE Done
        /\ \A p \in Plans : (\E c \in Calls : ~Ended(c) /\ call[c].plan = p) => p \in faulty'
    BY <1>3 DEF Restart
  <2>2. ASSUME ~overlapped PROVE InTurn'
    <3>1. \A c \in Calls : call'[c].pc \in {"idle", "done"}
      BY <2>1 DEF Ended, Done, Idle
    <3>2. OneCall' /\ (\A c \in Calls : StillTrue(call[c]))'
      BY <3>1 DEF OneCall, Ended, StillTrue
    <3>3. ASSUME NEW x \in entities, x.source \in Plans, status[x.source] # "accepted"
          PROVE  x.source \in faulty'
      BY <2>1, <2>2, <3>3 DEF TurnInv, InTurn, Explained, Ended
    <3>4. \A x \in entities' : Explained(x)'
      BY <2>1, <3>3 DEF Explained
    <3>5. TriplesOnce'
      BY <2>1, <2>2 DEF TurnInv, InTurn, TriplesOnce
    <3>. QED
      BY <3>2, <3>4, <3>5 DEF InTurn
  <2>. QED
    BY <1>1, <2>1, <2>2, RowsStill DEF TurnInv
<1>4. CASE vars' = vars
  BY <1>1, <1>4 DEF vars, TurnInv, InTurn, OneCall, Ended, StillTrue, Explained, TriplesOnce
<1>. QED
  BY <1>1, <1>2, <1>3, <1>4 DEF Next, TurnInv

LEMMA TurnsCorrect == Spec => [](TypeOK /\ SoundCalls /\ TurnInv)
<1>1. Init => TurnInv
  <2>. SUFFICES ASSUME Init PROVE OneRow /\ InTurn
    BY DEF TurnInv
  <2>1. \A c \in Calls : call[c].pc = "idle" /\ call[c].op = "none"
    BY DEF Init, Idle
  <2>2. OneCall /\ \A c \in Calls : StillTrue(call[c])
    BY <2>1 DEF OneCall, Ended, StillTrue
  <2>3. OneRow /\ \A x \in entities : Explained(x)
    BY DEF Init, OneRow
  <2>4. ASSUME NEW p \in Plans, NEW i \in DOMAIN Triples[p] PROVE relations[p][i] = 0
    BY DEF Init
  <2>5. TriplesOnce
    BY <2>4 DEF TriplesOnce
  <2>. QED
    BY <2>2, <2>3, <2>5 DEF InTurn
<1>. QED
  BY <1>1, InitTypes, NextTypes, TurnNext, PTL DEF Spec

\* As long as calls follow one another, a row of a plan that is not accepted is left
\* over by a clean-up that failed, was killed or is still to come.
THEOREM OrphansHaveReasons == Spec => []OrphansExplained
<1>1. TurnInv => OrphansExplained
  BY DEF TurnInv, InTurn, Explained, OrphansExplained
<1>. QED
  BY <1>1, TurnsCorrect, PTL

\* As long as calls follow one another, accepting a plan again adds none of its triples.
THEOREM TriplesStayOnce == Spec => []TripleOnceInTurn
<1>1. TurnInv => TripleOnceInTurn
  BY DEF TurnInv, InTurn, TriplesOnce, TripleOnceInTurn
<1>. QED
  BY <1>1, TurnsCorrect, PTL

\* As long as calls follow one another, no step makes a row poorer: what the upsert
\* compared before it writes still holds when it writes.
THEOREM TiersStay == Spec => TierKeptInTurn
<1>1. TypeOK /\ SoundCalls /\ TurnInv /\ [Next]_vars => [overlapped' \/ TierKept]_vars
  BY TurnNext
<1>. QED
  BY <1>1, TurnsCorrect, PTL DEF Spec, TierKeptInTurn
=============================================================================
