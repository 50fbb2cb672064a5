--------------------------- MODULE PromoteProofs ----------------------------
(***************************************************************************)
(* Proofs about Promote: the types, that a claim is promoted once as long  *)
(* as passes do not overlap, and, for passes that do, what the rows rest   *)
(* on, what a pass leaves behind and what its report accounts for.         *)
(***************************************************************************)
EXTENDS Promote, FiniteSetTheorems, NaturalsInduction, WellFoundedInduction, TLAPS

USE PromoteAssumption

(***************************************************************************)
(* A step of pass p leaves the other passes as they are.                   *)
(***************************************************************************)
LEMMA OnlyOne ==
  ASSUME pass \in [Passes -> PassRecord], NEW p \in Passes, NEW r \in PassRecord,
         Become(p, r)
  PROVE  /\ pass' \in [Passes -> PassRecord]
         /\ pass'[p] = r
         /\ \A q \in Passes \ {p} : pass'[q] = pass[q]
BY DEF Become

(***************************************************************************)
(* A step of pass p to a consistent record keeps the types, whatever rows  *)
(* it adds.                                                                *)
(***************************************************************************)
LEMMA BecomeTypes ==
  ASSUME TypeOK, NEW p \in Passes, NEW r \in PassRecord, Become(p, r),
         r.snapshot \subseteq assertions, Consistent(p, r),
         UNCHANGED <<assertions, registry>>, overlapped' \in {overlapped, TRUE},
         promoted' \subseteq PromotedRow, blind' \subseteq Claims
  PROVE  TypeOK'
<1>1. /\ pass' \in [Passes -> PassRecord]
      /\ pass'[p] = r
      /\ \A q \in Passes \ {p} : pass'[q] = pass[q]
  BY OnlyOne DEF TypeOK
<1>2. ASSUME NEW q \in Passes
      PROVE  pass'[q].snapshot \subseteq assertions' /\ Consistent(q, pass'[q])
  <2>1. CASE q = p
    BY <1>1, <2>1
  <2>2. CASE q # p
    BY <1>1, <2>2 DEF TypeOK
  <2>. QED
    BY <2>1, <2>2
<1>3. \A q \in Passes : pass'[q].snapshot \subseteq assertions' /\ Consistent(q, pass'[q])
  BY <1>2
<1>. QED
  BY <1>1, <1>3 DEF TypeOK, Consistent

LEMMA InitTypes == Init => TypeOK
<1>. SUFFICES ASSUME Init PROVE TypeOK
  OBVIOUS
<1>1. Idle \in PassRecord
  BY DEF Idle, PassRecord, NoReport, Report
<1>2. Idle.snapshot = {} /\ Idle.todo = {} /\ Idle.remaining = {} /\ Idle.cand = {} /\ Idle.pc = "idle"
  BY DEF Idle
<1>3. \A p \in Passes : pass[p] = Idle
  BY DEF Init
<1>4. pass \in [Passes -> PassRecord]
  BY <1>1 DEF Init
<1>. QED
  BY <1>2, <1>3, <1>4 DEF Init, TypeOK, Consistent

LEMMA StartTypes ==
  ASSUME TypeOK, NEW p \in Passes, promote_consensus_for_plan(p)
  PROVE  TypeOK'
<1>1. CASE Become(p, [Idle EXCEPT !.pc = "failed"])
  <2>. DEFINE r == [Idle EXCEPT !.pc = "failed"]
  <2>1. r \in PassRecord /\ r.snapshot = {} /\ Consistent(p, r)
    BY DEF PassRecord, Idle, NoReport, Report, Consistent
  <2>. QED
    BY <1>1, <2>1, BecomeTypes DEF promote_consensus_for_plan, TypeOK
<1>2. ASSUME NEW plan \in Plans, NEW quorum \in Quorums,
             Become(p, [Idle EXCEPT !.pc = "pick", !.quorum = quorum, !.registry = registry,
                          !.snapshot = {a \in assertions : a.plan = plan},
                          !.todo = {a \in {b \in assertions : b.plan = plan} : Matches(registry, a)},
                          !.remaining = {a \in {b \in assertions : b.plan = plan} : ~Matches(registry, a)}])
      PROVE  TypeOK'
  <2>. DEFINE mine == {a \in assertions : a.plan = plan}
              hits == {a \in mine : Matches(registry, a)}
              misses == {a \in mine : ~Matches(registry, a)}
              r == [Idle EXCEPT !.pc = "pick", !.quorum = quorum, !.registry = registry,
                                !.snapshot = mine, !.todo = hits, !.remaining = misses]
  <2>1. /\ mine \subseteq assertions /\ mine \subseteq Evidence
        /\ hits \cup misses \subseteq mine /\ hits \cap misses = {}
    BY DEF TypeOK
  <2>2. Become(p, r)
    BY <1>2
  <2>. HIDE DEF mine, hits, misses
  <2>3. r \in PassRecord
    BY <2>1 DEF PassRecord, Idle, NoReport, Report, TypeOK
  <2>4. r.snapshot \subseteq assertions /\ Consistent(p, r)
    BY <2>1 DEF Idle, Consistent
  <2>. HIDE DEF r
  <2>. QED
    BY <2>2, <2>3, <2>4, BecomeTypes DEF promote_consensus_for_plan, TypeOK
<1>. QED
  BY <1>1, <1>2 DEF promote_consensus_for_plan

LEMMA PickTypes ==
  ASSUME TypeOK, NEW p \in Passes,
         next_authoritative(p) \/ group_assertions_for_consensus(p) \/ next_group(p)
           \/ merge_consensus_into(p)
  PROVE  TypeOK'
<1>. /\ pass[p] \in PassRecord /\ pass[p].snapshot \subseteq assertions
     /\ pass[p].snapshot \subseteq Evidence /\ Consistent(p, pass[p])
     /\ promoted \subseteq PromotedRow /\ blind \subseteq Claims
  BY DEF TypeOK
<1>. assertions \subseteq Assertion /\ \A a \in assertions : a.claim \in Claims
  BY DEF TypeOK, Assertion
<1>1. CASE next_authoritative(p)
  <2>1. PICK a \in pass[p].todo :
          Become(p, [pass[p] EXCEPT !.pc = "check", !.todo = @ \ {a},
                                    !.cand = {Row(p, a.claim, "auth", {a})}])
    BY <1>1 DEF next_authoritative
  <2>. DEFINE row == Row(p, a.claim, "auth", {a})
              r == [pass[p] EXCEPT !.pc = "check", !.todo = pass[p].todo \ {a}, !.cand = {row}]
  <2>2. a \in pass[p].snapshot
    BY DEF Consistent
  <2>3. row \in PromotedRow /\ row.pass = p /\ row.supports = {a}
    BY <2>2 DEF Row, PromotedRow
  <2>. HIDE DEF row
  <2>4. r \in PassRecord
    BY <2>3 DEF PassRecord
  <2>5. r.snapshot \subseteq assertions /\ Consistent(p, r)
    BY <2>2, <2>3 DEF Consistent, PassRecord
  <2>6. Become(p, r)
    BY <2>1 DEF row
  <2>. HIDE DEF r
  <2>. QED
    BY <1>1, <2>4, <2>5, <2>6, BecomeTypes DEF next_authoritative
<1>2. CASE group_assertions_for_consensus(p)
  <2>. DEFINE left == pass[p].remaining
              quorate == {c \in ClaimsOf(left) :
                            QuorumMet(pass[p].registry, pass[p].quorum, GroupOf(left, c))}
              r == [pass[p] EXCEPT !.stage = "consensus", !.groups = quorate]
  <2>1. left \subseteq assertions
    BY DEF Consistent
  <2>2. quorate \subseteq Claims
    BY <2>1 DEF ClaimsOf
  <2>3. Become(p, r)
    BY <1>2 DEF group_assertions_for_consensus
  <2>. HIDE DEF quorate
  <2>4. r \in PassRecord /\ r.snapshot \subseteq assertions /\ Consistent(p, r)
    BY <2>2 DEF PassRecord, Consistent
  <2>. HIDE DEF r
  <2>. QED
    BY <1>2, <2>3, <2>4, BecomeTypes DEF group_assertions_for_consensus
<1>3. CASE next_group(p)
  <2>1. PICK c \in pass[p].groups :
          Become(p, [pass[p] EXCEPT !.pc = "check", !.groups = @ \ {c},
                       !.cand = {Row(p, c, "consensus", GroupOf(pass[p].remaining, c))}])
    BY <1>3 DEF next_group
  <2>. DEFINE row == Row(p, c, "consensus", GroupOf(pass[p].remaining, c))
              r == [pass[p] EXCEPT !.pc = "check", !.groups = pass[p].groups \ {c}, !.cand = {row}]
  <2>2. /\ GroupOf(pass[p].remaining, c) \subseteq pass[p].snapshot \ pass[p].todo
        /\ c \in Claims
    BY DEF Consistent, GroupOf, PassRecord
  <2>3. row \in PromotedRow /\ row.pass = p /\ row.supports \subseteq pass[p].snapshot \ pass[p].todo
    BY <2>2 DEF Row, PromotedRow
  <2>. HIDE DEF row
  <2>a. r \in PassRecord /\ r.snapshot \subseteq assertions
    BY <2>3 DEF PassRecord
  <2>4. r \in PassRecord /\ r.snapshot \subseteq assertions /\ Consistent(p, r)
    BY <2>3, <2>a DEF PassRecord, Consistent
  <2>5. Become(p, r)
    BY <2>1 DEF row
  <2>. HIDE DEF r
  <2>. QED
    BY <1>3, <2>4, <2>5, BecomeTypes DEF next_group
<1>4. CASE merge_consensus_into(p)
  <2>. DEFINE r == [pass[p] EXCEPT !.pc = "ended"]
  <2>1. r \in PassRecord /\ r.snapshot \subseteq assertions /\ Consistent(p, r)
    BY <1>4 DEF merge_consensus_into, PassRecord, Consistent
  <2>. QED
    BY <1>4, <2>1, BecomeTypes DEF merge_consensus_into
<1>. QED
  BY <1>1, <1>2, <1>3, <1>4

LEMMA Counted ==
  ASSUME NEW rep \in Report
  PROVE  /\ [rep EXCEPT !.skipped_already_promoted = @ + 1] \in Report
         /\ [rep EXCEPT !.insert_failures = @ + 1] \in Report
         /\ [rep EXCEPT !.authoritative_promoted = @ + 1] \in Report
         /\ [rep EXCEPT !.groups_promoted = @ + 1] \in Report
BY DEF Report

LEMMA CheckTypes ==
  ASSUME TypeOK, NEW p \in Passes, dedup_already_promoted(p)
  PROVE  TypeOK'
<1>. /\ pass[p] \in PassRecord /\ pass[p].snapshot \subseteq assertions
     /\ Consistent(p, pass[p])
     /\ promoted \subseteq PromotedRow /\ blind \subseteq Claims
  BY DEF TypeOK
<1>1. PICK row \in pass[p].cand :
        \/ /\ IF \E x \in promoted : x.claim = row.claim
                THEN Become(p, [pass[p] EXCEPT !.pc = "pick", !.cand = {},
                                               !.report.skipped_already_promoted = @ + 1])
                ELSE Become(p, [pass[p] EXCEPT !.pc = "insert"])
           /\ UNCHANGED blind
        \/ /\ blind' = blind \cup {row.claim}
           /\ Become(p, [pass[p] EXCEPT !.pc = "insert"])
  BY DEF dedup_already_promoted
<1>2. row \in PromotedRow /\ row.claim \in Claims
  BY DEF PassRecord, PromotedRow
<1>3. blind' \subseteq Claims
  BY <1>1, <1>2
<1>. DEFINE skip == [pass[p] EXCEPT !.pc = "pick", !.cand = {},
                                    !.report.skipped_already_promoted = @ + 1]
            go == [pass[p] EXCEPT !.pc = "insert"]
<1>4. skip \in PassRecord /\ skip.snapshot \subseteq assertions /\ Consistent(p, skip)
  <2>. DEFINE rep == [pass[p].report EXCEPT !.skipped_already_promoted = @ + 1]
              r == [pass[p] EXCEPT !.pc = "pick", !.cand = {}, !.report = rep]
  <2>1. rep \in Report
    BY Counted DEF PassRecord
  <2>2. skip = r
    BY DEF PassRecord
  <2>. HIDE DEF rep
  <2>3. r \in PassRecord
    BY <2>1 DEF PassRecord
  <2>4. r.snapshot \subseteq assertions /\ Consistent(p, r)
    BY DEF PassRecord, Consistent
  <2>. QED
    BY <2>2, <2>3, <2>4
<1>5. go \in PassRecord /\ go.snapshot \subseteq assertions /\ Consistent(p, go)
  BY DEF dedup_already_promoted, PassRecord, Consistent
<1>6. Become(p, skip) \/ Become(p, go)
  BY <1>1
<1>. HIDE DEF skip, go
<1>. QED
  BY <1>3, <1>4, <1>5, <1>6, BecomeTypes DEF dedup_already_promoted

LEMMA InsertTypes ==
  ASSUME TypeOK, NEW p \in Passes, insert(p)
  PROVE  TypeOK'
<1>. /\ pass[p] \in PassRecord /\ pass[p].snapshot \subseteq assertions
     /\ Consistent(p, pass[p])
     /\ promoted \subseteq PromotedRow /\ blind \subseteq Claims
  BY DEF TypeOK
<1>1. PICK row \in PromotedRow : /\ pass[p].cand = {row}
                                 /\ row.supports \subseteq pass[p].snapshot \ pass[p].todo
  BY DEF insert, Consistent
<1>2. promoted' \subseteq PromotedRow
  BY <1>1 DEF insert
<1>3. /\ Inserted(p) \in PassRecord /\ Inserted(p).snapshot \subseteq assertions
      /\ Consistent(p, Inserted(p))
  <2>1. PICK rep \in Report :
          Inserted(p) = [pass[p] EXCEPT !.pc = "pick", !.cand = {}, !.report = rep]
    BY Counted DEF Inserted, PassRecord
  <2>. DEFINE r == [pass[p] EXCEPT !.pc = "pick", !.cand = {}, !.report = rep]
  <2>2. r \in PassRecord
    BY DEF PassRecord
  <2>3. r.snapshot \subseteq assertions /\ Consistent(p, r)
    BY DEF PassRecord, Consistent
  <2>. QED
    BY <2>1, <2>2, <2>3
<1>. DEFINE rest == IF pass[p].stage = "auth"
                      THEN pass[p].remaining \cup UNION {x.supports : x \in pass[p].cand}
                      ELSE pass[p].remaining
            r == [pass[p] EXCEPT !.pc = "pick", !.cand = {}, !.remaining = rest,
                                 !.report.insert_failures = @ + 1]
<1>4. /\ rest \subseteq pass[p].snapshot /\ rest \cap pass[p].todo = {}
      /\ rest \in SUBSET Evidence
  <2>1. UNION {x.supports : x \in pass[p].cand} = row.supports
    BY <1>1
  <2>. QED
    BY <1>1, <2>1 DEF Consistent, PassRecord
<1>5. Become(p, Inserted(p)) \/ Become(p, r)
  BY DEF insert
<1>. HIDE DEF rest
<1>6. r \in PassRecord /\ r.snapshot \subseteq assertions /\ Consistent(p, r)
  <2>. DEFINE rep == [pass[p].report EXCEPT !.insert_failures = @ + 1]
              rr == [pass[p] EXCEPT !.pc = "pick", !.cand = {}, !.remaining = rest,
                                    !.report = rep]
  <2>1. rep \in Report
    BY Counted DEF PassRecord
  <2>2. r = rr
    BY DEF PassRecord
  <2>. HIDE DEF rep, r
  <2>3. rr \in PassRecord
    BY <1>4, <2>1 DEF PassRecord
  <2>4. rr.snapshot \subseteq assertions /\ Consistent(p, rr)
    BY <1>4 DEF PassRecord, Consistent
  <2>. QED
    BY <2>2, <2>3, <2>4
<1>. HIDE DEF r
<1>. QED
  BY <1>2, <1>3, <1>5, <1>6, BecomeTypes DEF insert

LEMMA DiesTypes ==
  ASSUME TypeOK, ProcessDies
  PROVE  TypeOK'
<1>1. ASSUME NEW p \in Passes
      PROVE  /\ pass'[p] \in PassRecord /\ pass'[p].snapshot \subseteq assertions
             /\ Consistent(p, pass'[p])
  <2>. pass[p] \in PassRecord /\ pass[p].snapshot \subseteq assertions /\ Consistent(p, pass[p])
    BY DEF TypeOK
  <2>1. CASE ~Active(p)
    BY <2>1 DEF ProcessDies
  <2>2. CASE Active(p)
    <3>. DEFINE r == [pass[p] EXCEPT !.pc = "dead", !.todo = {}, !.remaining = {},
                                     !.groups = {}, !.cand = {}]
    <3>1. r \in PassRecord /\ r.snapshot \subseteq assertions /\ Consistent(p, r)
      BY DEF PassRecord, Consistent
    <3>2. pass'[p] = r
      BY <2>2 DEF ProcessDies
    <3>. QED
      BY <3>1, <3>2
  <2>. QED
    BY <2>1, <2>2
<1>2. \A p \in Passes : /\ pass'[p] \in PassRecord /\ pass'[p].snapshot \subseteq assertions
                        /\ Consistent(p, pass'[p])
  BY <1>1
<1>3. pass' \in [Passes -> PassRecord]
  BY <1>2 DEF ProcessDies
<1>. QED
  BY <1>2, <1>3 DEF ProcessDies, TypeOK, Consistent

LEMMA StepTypes == TypeOK /\ [Next]_vars => TypeOK'
<1>. SUFFICES ASSUME TypeOK, [Next]_vars PROVE TypeOK'
  OBVIOUS
<1>1. ASSUME NEW a \in Evidence, extract(a) PROVE TypeOK'
  BY <1>1 DEF extract, TypeOK, Consistent
<1>2. CASE reload
  BY <1>2 DEF reload, TypeOK, Consistent
<1>3. ASSUME NEW p \in Passes, promote_consensus_for_plan(p) \/ PassStep(p) PROVE TypeOK'
  BY <1>3, StartTypes, PickTypes, CheckTypes, InsertTypes DEF PassStep
<1>4. CASE ProcessDies
  BY <1>4, DiesTypes
<1>5. CASE UNCHANGED vars
  BY <1>5 DEF vars, TypeOK, Consistent
<1>. QED
  BY <1>1, <1>2, <1>3, <1>4, <1>5 DEF Next

(***************************************************************************)
(* The types hold with any number of passes, overlapping or not: every     *)
(* pass works on assertions it read, and what it inserts rests on them.    *)
(***************************************************************************)
THEOREM PromoteTypes == Spec => []TypeOK
<1>. QED
  BY InitTypes, StepTypes, PTL DEF Spec

-----------------------------------------------------------------------------
(***************************************************************************)
(* Passes that follow one another.  PromotedOnce is not inductive: between *)
(* its check and its insert a pass relies on no row of its claim having    *)
(* come in meanwhile, and for that it has to be alone.                     *)
(***************************************************************************)
Alone == \A p, q \in Passes : Active(p) /\ Active(q) => p = q

StillMissing(p) ==
  pass[p].pc = "insert" =>
    \A row \in pass[p].cand, x \in promoted : x.claim = row.claim => row.claim \in blind

SerialInv ==
  /\ TypeOK
  /\ Alone
  /\ \A p \in Passes : StillMissing(p)
  /\ PromotedOnce

\* What a step of p that adds no row has to leave true.
LEMMA NoNewRow ==
  ASSUME SerialInv, TypeOK', NEW p \in Passes,
         \A q \in Passes \ {p} : pass'[q] = pass[q],
         Active(p) \/ \A q \in Passes : ~Active(q),
         UNCHANGED promoted, blind \subseteq blind', StillMissing(p)'
  PROVE  SerialInv'
<1>1. Alone'
  BY DEF SerialInv, Alone, Active
<1>2. ASSUME NEW q \in Passes PROVE StillMissing(q)'
  <2>1. CASE q = p
    BY <2>1
  <2>2. CASE q # p
    BY <2>2 DEF SerialInv, StillMissing
  <2>. QED
    BY <2>1, <2>2
<1>3. PromotedOnce'
  BY DEF SerialInv, PromotedOnce
<1>. QED
  BY <1>1, <1>2, <1>3 DEF SerialInv

LEMMA SerialPassStep ==
  ASSUME SerialInv, TypeOK', NEW p \in Passes, PassStep(p)
  PROVE  SerialInv'
<1>. pass \in [Passes -> PassRecord] /\ pass[p] \in PassRecord /\ Consistent(p, pass[p])
  BY DEF SerialInv, TypeOK
<1>0. Active(p) /\ \A q \in Passes \ {p} : pass'[q] = pass[q]
  BY DEF PassStep, next_authoritative, group_assertions_for_consensus, next_group,
         dedup_already_promoted, insert, merge_consensus_into, Become, Active
<1>1. CASE next_authoritative(p)
  <2>1. pass'[p].pc = "check" /\ UNCHANGED <<promoted, blind>>
    BY <1>1 DEF next_authoritative, Become, PassRecord
  <2>. QED
    BY <1>0, <2>1, NoNewRow DEF StillMissing
<1>2. CASE group_assertions_for_consensus(p)
  <2>1. pass'[p].pc = "pick" /\ UNCHANGED <<promoted, blind>>
    BY <1>2 DEF group_assertions_for_consensus, Become, PassRecord
  <2>. QED
    BY <1>0, <2>1, NoNewRow DEF StillMissing
<1>3. CASE next_group(p)
  <2>1. pass'[p].pc = "check" /\ UNCHANGED <<promoted, blind>>
    BY <1>3 DEF next_group, Become, PassRecord
  <2>. QED
    BY <1>0, <2>1, NoNewRow DEF StillMissing
<1>4. CASE merge_consensus_into(p)
  <2>1. pass'[p].pc = "ended" /\ UNCHANGED <<promoted, blind>>
    BY <1>4 DEF merge_consensus_into, Become, PassRecord
  <2>. QED
    BY <1>0, <2>1, NoNewRow DEF StillMissing
<1>5. CASE dedup_already_promoted(p)
  <2>1. PICK row \in pass[p].cand :
          \/ /\ IF \E x \in promoted : x.claim = row.claim
                  THEN Become(p, [pass[p] EXCEPT !.pc = "pick", !.cand = {},
                                                 !.report.skipped_already_promoted = @ + 1])
                  ELSE Become(p, [pass[p] EXCEPT !.pc = "insert"])
             /\ UNCHANGED blind
          \/ /\ blind' = blind \cup {row.claim}
             /\ Become(p, [pass[p] EXCEPT !.pc = "insert"])
    BY <1>5 DEF dedup_already_promoted
  <2>2. pass[p].cand = {row}
    BY <1>5 DEF dedup_already_promoted, Consistent
  <2>3. UNCHANGED promoted /\ blind \subseteq blind'
    BY <1>5, <2>1 DEF dedup_already_promoted
  <2>4. \/ pass'[p].pc = "pick"
        \/ /\ pass'[p].cand = {row}
           /\ (\A x \in promoted : x.claim # row.claim) \/ row.claim \in blind'
    <3>. DEFINE skip == [pass[p] EXCEPT !.pc = "pick", !.cand = {},
                                        !.report.skipped_already_promoted = @ + 1]
                go == [pass[p] EXCEPT !.pc = "insert"]
    <3>1. skip.pc = "pick" /\ go.cand = {row}
      BY <2>2 DEF PassRecord
    <3>2. \/ Become(p, skip)
          \/ /\ Become(p, go)
             /\ (\A x \in promoted : x.claim # row.claim) \/ row.claim \in blind'
      BY <2>1
    <3>. HIDE DEF skip, go
    <3>. QED
      BY <3>1, <3>2 DEF Become
  <2>5. StillMissing(p)'
    BY <2>3, <2>4 DEF StillMissing
  <2>. QED
    BY <1>0, <2>3, <2>5, NoNewRow
<1>6. CASE insert(p)
  <2>1. PICK row \in PromotedRow : pass[p].cand = {row}
    BY <1>6 DEF insert, Consistent
  <2>2. pass[p].pc = "insert" /\ UNCHANGED blind
    BY <1>6 DEF insert
  <2>3. pass'[p].pc = "pick"
    <3>. DEFINE failed(rest) ==
                  [pass[p] EXCEPT !.pc = "pick", !.cand = {}, !.remaining = rest,
                                  !.report.insert_failures = @ + 1]
    <3>1. Inserted(p).pc = "pick" /\ \A rest : failed(rest).pc = "pick"
      BY DEF Inserted, PassRecord
    <3>2. Become(p, Inserted(p)) \/ \E rest : Become(p, failed(rest))
      BY <1>6 DEF insert
    <3>. HIDE DEF failed
    <3>. QED
      BY <3>1, <3>2 DEF Become
  <2>4. CASE promoted' = promoted
    BY <1>0, <2>2, <2>3, <2>4, NoNewRow DEF StillMissing
  <2>5. CASE promoted' = promoted \cup {row}
    <3>1. Alone'
      BY <1>0 DEF SerialInv, Alone, Active
    <3>2. \A q \in Passes : pass'[q].pc # "insert"
      BY <1>0, <2>3 DEF SerialInv, Alone, Active
    <3>3. \A x \in promoted : x.claim = row.claim => row.claim \in blind
      BY <2>1, <2>2 DEF SerialInv, StillMissing
    <3>4. PromotedOnce'
      BY <2>2, <2>5, <3>3 DEF SerialInv, PromotedOnce
    <3>. QED
      BY <3>1, <3>2, <3>4 DEF SerialInv, StillMissing
  <2>. QED
    BY <1>6, <2>1, <2>4, <2>5 DEF insert
<1>. QED
  BY <1>1, <1>2, <1>3, <1>4, <1>5, <1>6 DEF PassStep

LEMMA SerialStep ==
  ASSUME SerialInv, [Next]_vars, ~overlapped'
  PROVE  SerialInv'
<1>1. TypeOK'
  BY StepTypes DEF SerialInv
<1>2. ASSUME NEW a \in Evidence, extract(a) PROVE SerialInv'
  BY <1>1, <1>2 DEF extract, SerialInv, Alone, Active, StillMissing, PromotedOnce
<1>3. CASE reload
  BY <1>1, <1>3 DEF reload, SerialInv, Alone, Active, StillMissing, PromotedOnce
<1>4. ASSUME NEW p \in Passes, promote_consensus_for_plan(p) PROVE SerialInv'
  <2>. pass \in [Passes -> PassRecord]
    BY DEF SerialInv, TypeOK
  <2>1. \A q \in Passes : ~Active(q)
    BY <1>4 DEF promote_consensus_for_plan
  <2>2. pass'[p].pc # "insert"
    <3>. DEFINE start(quorum, mine, hits, misses) ==
                  [Idle EXCEPT !.pc = "pick", !.quorum = quorum, !.registry = registry,
                               !.snapshot = mine, !.todo = hits, !.remaining = misses]
                fail == [Idle EXCEPT !.pc = "failed"]
    <3>1. Become(p, fail) \/ \E quorum, mine, hits, misses : Become(p, start(quorum, mine, hits, misses))
      BY <1>4 DEF promote_consensus_for_plan
    <3>2. fail.pc = "failed" /\ \A quorum, mine, hits, misses : start(quorum, mine, hits, misses).pc = "pick"
      BY DEF Idle
    <3>. HIDE DEF start, fail
    <3>. QED
      BY <3>1, <3>2 DEF Become
  <2>3. (\A q \in Passes \ {p} : pass'[q] = pass[q]) /\ UNCHANGED <<promoted, blind>>
    BY <1>4 DEF promote_consensus_for_plan, Become
  <2>. QED
    BY <1>1, <2>1, <2>2, <2>3, NoNewRow DEF StillMissing
<1>5. ASSUME NEW p \in Passes, PassStep(p) PROVE SerialInv'
  BY <1>1, <1>5, SerialPassStep
<1>6. CASE ProcessDies
  <2>1. ASSUME NEW p \in Passes PROVE ~Active(p)'
    <3>. pass[p] \in PassRecord
      BY DEF SerialInv, TypeOK
    <3>1. CASE Active(p)
      <4>1. pass'[p].pc = "dead"
        BY <1>6, <3>1 DEF ProcessDies, PassRecord
      <4>. QED
        BY <4>1 DEF Active
    <3>2. CASE ~Active(p)
      BY <1>6, <3>2 DEF ProcessDies, Active
    <3>. QED
      BY <3>1, <3>2
  <2>. QED
    BY <1>1, <1>6, <2>1 DEF ProcessDies, SerialInv, Alone, Active, StillMissing, PromotedOnce
<1>7. CASE UNCHANGED vars
  BY <1>1, <1>7 DEF vars, SerialInv, Alone, Active, StillMissing, PromotedOnce
<1>. QED
  BY <1>2, <1>3, <1>4, <1>5, <1>6, <1>7 DEF Next

\* Once passes have overlapped nothing is promised any more.
InTurn == TypeOK /\ (~overlapped => SerialInv)

LEMMA InTurnStep == InTurn /\ [Next]_vars => InTurn'
<1>. SUFFICES ASSUME InTurn, [Next]_vars PROVE InTurn'
  OBVIOUS
<1>1. TypeOK'
  BY StepTypes DEF InTurn
<1>2. overlapped => overlapped'
  BY DEF InTurn, TypeOK, Next, vars, extract, reload, promote_consensus_for_plan, PassStep,
         next_authoritative, group_assertions_for_consensus, next_group,
         dedup_already_promoted, insert, merge_consensus_into, ProcessDies
<1>. QED
  BY <1>1, <1>2, SerialStep DEF InTurn

LEMMA InTurnInit == Init => InTurn
BY InitTypes DEF Init, Idle, InTurn, SerialInv, Alone, Active, StillMissing, PromotedOnce

(***************************************************************************)
(* As long as no two passes are under way at once, a claim is promoted     *)
(* once, however many passes run, whatever pathway, plan, quorum and       *)
(* registry they use, and whether inserts fail or the process dies, unless *)
(* the existence check for that claim failed.                              *)
(***************************************************************************)
THEOREM SerialPromotedOnce == Spec => []PromotedOnceInTurn
<1>1. InTurn => PromotedOnceInTurn
  BY DEF InTurn, SerialInv, PromotedOnceInTurn
<1>. QED
  BY InTurnInit, InTurnStep, <1>1, PTL DEF Spec

-----------------------------------------------------------------------------
(***************************************************************************)
(* Passes that overlap.  What a pass inserts, counts and leaves behind     *)
(* rests on its own snapshot, so it holds in any order of any number of    *)
(* passes.  The invariant says, for each pass, on what the rows it made    *)
(* and the row in its hand rest, that the latter is new, and what becomes  *)
(* of each assertion an authority made and of each claim that meets its    *)
(* quorum.                                                                 *)
(***************************************************************************)
RowsOf(p, path) == {x \in promoted : x.pass = p /\ x.path = path}

Matched(r) == {a \in r.snapshot : Matches(r.registry, a)}

Held(r) == {row.claim : row \in r.cand}

Backed(r, row) ==
  /\ row.supports # {} /\ row.supports \subseteq GroupOf(r.snapshot, row.claim)
  /\ IF row.path = "auth" THEN \A a \in row.supports : Matches(r.registry, a)
                          ELSE QuorumMet(r.registry, r.quorum, row.supports)

\* What a pass in its first stage has in its hand, or has made, is tried no more.
AuthOK(p) ==
  /\ pass[p].todo \subseteq Matched(pass[p])
  /\ \A x \in RowsOf(p, "auth") : x.supports \cap (pass[p].todo \cup pass[p].remaining) = {}
  /\ pass[p].stage = "auth" =>
       /\ RowsOf(p, "consensus") = {}
       /\ \A row \in pass[p].cand :
            /\ row.supports \cap pass[p].remaining = {}
            /\ \E x : row.supports = {x}
            /\ \A x \in RowsOf(p, "auth") : x.supports \cap row.supports = {}

\* A group still to be promoted has its quorum, and no row of this pass.
GroupsOK(p) ==
  /\ pass[p].pc = "ended" => pass[p].stage = "consensus" /\ pass[p].groups = {}
  /\ pass[p].stage = "consensus" =>
       /\ pass[p].todo = {}
       /\ \A c \in pass[p].groups :
            LET group == GroupOf(pass[p].remaining, c)
            IN  group # {} /\ QuorumMet(pass[p].registry, pass[p].quorum, group)
       /\ \A row \in pass[p].cand :
            row.claim \notin pass[p].groups /\ row.supports \subseteq pass[p].remaining
       /\ \A x \in RowsOf(p, "consensus") : x.claim \notin pass[p].groups \cup Held(pass[p])

BackedOK(p) ==
  /\ pass[p].pc = "idle" => pass[p].report = NoReport /\ \A x \in promoted : x.pass # p
  /\ \A x \in promoted : x.pass = p => Backed(pass[p], x)
  /\ \A row \in pass[p].cand : Backed(pass[p], row) /\ row.path = pass[p].stage
  /\ \A x \in RowsOf(p, "auth"), y \in RowsOf(p, "consensus") : x.supports \cap y.supports = {}

CountOK(p) ==
  /\ IsFiniteSet(RowsOf(p, "auth")) /\ IsFiniteSet(RowsOf(p, "consensus"))
  /\ pass[p].report.authoritative_promoted = Cardinality(RowsOf(p, "auth"))
  /\ pass[p].report.groups_promoted = Cardinality(RowsOf(p, "consensus"))

Done(p, c) == c \in Held(pass[p]) \/ \E row \in promoted : row.claim = c

CompleteOK(p) ==
  pass[p].pc \in {"pick", "check", "insert", "ended"} /\ pass[p].report.insert_failures = 0 =>
    /\ pass[p].remaining = {a \in pass[p].snapshot : ~Matches(pass[p].registry, a)}
    /\ \A a \in Matched(pass[p]) : a \in pass[p].todo \/ Done(p, a.claim)
    /\ pass[p].stage = "consensus" =>
         \A c \in ClaimsOf(pass[p].remaining) :
           QuorumMet(pass[p].registry, pass[p].quorum, GroupOf(pass[p].remaining, c)) =>
             c \in pass[p].groups \/ Done(p, c)

PassOK(p) == BackedOK(p) /\ AuthOK(p) /\ GroupsOK(p) /\ CountOK(p) /\ CompleteOK(p)
PassesOK == \A p \in Passes : PassOK(p)

(***************************************************************************)
(* What each step does to the record of its pass, field by field.          *)
(***************************************************************************)
SameRead(a, b) ==
  b.snapshot = a.snapshot /\ b.registry = a.registry /\ b.quorum = a.quorum

SameWork(a, b) ==
  SameRead(a, b) /\ b.todo = a.todo /\ b.remaining = a.remaining /\ b.groups = a.groups

LEMMA StartMoves ==
  ASSUME TypeOK, NEW p \in Passes, promote_consensus_for_plan(p)
  PROVE  /\ pass[p].pc = "idle" /\ promoted' = promoted
         /\ pass'[p].stage = "auth" /\ pass'[p].report = NoReport /\ pass'[p].cand = {}
         /\ \/ pass'[p].pc = "failed" /\ pass'[p].todo = {} /\ pass'[p].remaining = {}
            \/ /\ pass'[p].pc = "pick" /\ pass'[p].todo = Matched(pass'[p])
               /\ pass'[p].remaining =
                    {a \in pass'[p].snapshot : ~Matches(pass'[p].registry, a)}
<1>. DEFINE fail == [Idle EXCEPT !.pc = "failed"]
            start(quorum, mine) ==
              [Idle EXCEPT !.pc = "pick", !.quorum = quorum, !.registry = registry,
                           !.snapshot = mine,
                           !.todo = {a \in mine : Matches(registry, a)},
                           !.remaining = {a \in mine : ~Matches(registry, a)}]
<1>1. /\ fail.pc = "failed" /\ fail.stage = "auth" /\ fail.report = NoReport /\ fail.cand = {}
      /\ fail.todo = {} /\ fail.remaining = {}
  BY DEF Idle
<1>2. ASSUME NEW quorum, NEW mine
      PROVE  LET r == start(quorum, mine) IN
               /\ r.pc = "pick" /\ r.stage = "auth" /\ r.report = NoReport /\ r.cand = {}
               /\ r.snapshot = mine /\ r.registry = registry
               /\ r.todo = {a \in mine : Matches(registry, a)}
               /\ r.remaining = {a \in mine : ~Matches(registry, a)}
  BY DEF Idle
<1>3. Become(p, fail) \/ \E quorum, mine : Become(p, start(quorum, mine))
  BY DEF promote_consensus_for_plan
<1>4. pass'[p] = fail \/ \E quorum, mine : pass'[p] = start(quorum, mine)
  <2>. HIDE DEF fail, start
  <2>. QED  BY <1>3 DEF Become, TypeOK
<1>5. pass[p].pc = "idle" /\ promoted' = promoted
  BY DEF promote_consensus_for_plan
<1>. HIDE DEF fail, start
<1>6. CASE pass'[p] = fail
  BY <1>1, <1>5, <1>6
<1>7. CASE \E quorum, mine : pass'[p] = start(quorum, mine)
  <2>1. PICK quorum, mine : pass'[p] = start(quorum, mine)
    BY <1>7
  <2>. QED  BY <1>2, <1>5, <2>1 DEF Matched
<1>. QED
  BY <1>4, <1>6, <1>7

LEMMA NextMoves ==
  ASSUME TypeOK, NEW p \in Passes, next_authoritative(p)
  PROVE  LET a == pass[p]
             b == pass'[p]
         IN
         \E x \in a.todo :
           /\ a.pc = "pick" /\ b.pc = "check" /\ a.stage = "auth" /\ b.stage = "auth"
           /\ b.todo = a.todo \ {x} /\ b.cand = {Row(p, x.claim, "auth", {x})}
           /\ SameRead(a, b) /\ b.remaining = a.remaining /\ b.groups = a.groups
           /\ b.report = a.report /\ promoted' = promoted
<1>1. pass \in [Passes -> PassRecord]
  BY DEF TypeOK
<1>2. PICK x \in pass[p].todo :
        pass'[p] = [pass[p] EXCEPT !.pc = "check", !.todo = @ \ {x},
                                   !.cand = {Row(p, x.claim, "auth", {x})}]
  BY <1>1 DEF next_authoritative, Become
<1>. QED
  BY <1>1, <1>2 DEF next_authoritative, SameRead, PassRecord

LEMMA GroupMoves ==
  ASSUME TypeOK, NEW p \in Passes, group_assertions_for_consensus(p)
  PROVE  LET a == pass[p]
             b == pass'[p]
         IN
         /\ a.pc = "pick" /\ b.pc = "pick" /\ a.stage = "auth" /\ b.stage = "consensus"
         /\ a.todo = {} /\ b.todo = {} /\ b.remaining = a.remaining
         /\ b.groups = {c \in ClaimsOf(b.remaining) :
                          QuorumMet(b.registry, b.quorum, GroupOf(b.remaining, c))}
         /\ SameRead(a, b) /\ b.cand = a.cand /\ b.report = a.report /\ promoted' = promoted
<1>. DEFINE quorate == {c \in ClaimsOf(pass[p].remaining) :
                          QuorumMet(pass[p].registry, pass[p].quorum, GroupOf(pass[p].remaining, c))}
<1>1. pass \in [Passes -> PassRecord]
  BY DEF TypeOK
<1>2. pass'[p] = [pass[p] EXCEPT !.stage = "consensus", !.groups = quorate]
  BY <1>1 DEF group_assertions_for_consensus, Become
<1>3. /\ pass[p].pc = "pick" /\ pass[p].stage = "auth" /\ pass[p].todo = {} /\ promoted' = promoted
  BY DEF group_assertions_for_consensus
<1>. HIDE DEF quorate
<1>4. /\ pass'[p].stage = "consensus" /\ pass'[p].groups = quorate
      /\ SameRead(pass[p], pass'[p]) /\ pass'[p].remaining = pass[p].remaining
      /\ pass'[p].pc = pass[p].pc /\ pass'[p].todo = pass[p].todo /\ pass'[p].cand = pass[p].cand
      /\ pass'[p].report = pass[p].report
  BY <1>1, <1>2 DEF SameRead, PassRecord
<1>5. pass'[p].groups = {c \in ClaimsOf(pass'[p].remaining) :
                           QuorumMet(pass'[p].registry, pass'[p].quorum, GroupOf(pass'[p].remaining, c))}
  BY <1>4 DEF SameRead, quorate
<1>. QED
  BY <1>3, <1>4, <1>5

LEMMA NextGroupMoves ==
  ASSUME TypeOK, NEW p \in Passes, next_group(p)
  PROVE  LET a == pass[p]
             b == pass'[p]
         IN
         \E c \in a.groups :
           /\ a.pc = "pick" /\ b.pc = "check" /\ a.stage = "consensus" /\ b.stage = "consensus"
           /\ b.groups = a.groups \ {c}
           /\ b.cand = {Row(p, c, "consensus", GroupOf(a.remaining, c))}
           /\ SameRead(a, b) /\ b.remaining = a.remaining /\ b.todo = a.todo
           /\ b.report = a.report /\ promoted' = promoted
<1>1. pass \in [Passes -> PassRecord]
  BY DEF TypeOK
<1>2. PICK c \in pass[p].groups :
        pass'[p] = [pass[p] EXCEPT !.pc = "check", !.groups = @ \ {c},
                      !.cand = {Row(p, c, "consensus", GroupOf(pass[p].remaining, c))}]
  BY <1>1 DEF next_group, Become
<1>. QED
  BY <1>1, <1>2 DEF next_group, SameRead, PassRecord

LEMMA MergeMoves ==
  ASSUME TypeOK, NEW p \in Passes, merge_consensus_into(p)
  PROVE  LET a == pass[p]
             b == pass'[p]
         IN
         /\ a.pc = "pick" /\ b.pc = "ended" /\ a.stage = "consensus" /\ b.stage = "consensus"
         /\ a.groups = {} /\ SameWork(a, b) /\ b.cand = a.cand
         /\ b.report = a.report /\ promoted' = promoted
<1>1. pass \in [Passes -> PassRecord] /\ pass[p] \in PassRecord
  BY DEF TypeOK
<1>2. /\ pass[p].pc = "pick" /\ pass[p].stage = "consensus" /\ pass[p].groups = {}
      /\ promoted' = promoted
  BY DEF merge_consensus_into
<1>3. pass'[p] = [pass[p] EXCEPT !.pc = "ended"]
  BY <1>1 DEF merge_consensus_into, Become
<1>. QED
  BY <1>1, <1>2, <1>3 DEF SameRead, SameWork, PassRecord

LEMMA DiesMoves ==
  ASSUME TypeOK, NEW p \in Passes, ProcessDies
  PROVE  LET a == pass[p]
             b == pass'[p]
         IN
         \/ b = a
         \/ /\ b.pc = "dead" /\ b.stage = a.stage /\ SameRead(a, b) /\ b.report = a.report
            /\ b.todo = {} /\ b.remaining = {} /\ b.groups = {} /\ b.cand = {}
<1>1. pass \in [Passes -> PassRecord] /\ pass[p] \in PassRecord
  BY DEF TypeOK
<1>2. \/ pass'[p] = pass[p]
      \/ pass'[p] = [pass[p] EXCEPT !.pc = "dead", !.todo = {}, !.remaining = {}, !.groups = {}, !.cand = {}]
  BY DEF ProcessDies
<1>. QED
  BY <1>1, <1>2 DEF SameRead, PassRecord

\* The four counters of a report, of which a step adds one to at most one.
Counters(rep, auth, groups, skipped, failed) ==
  /\ rep.authoritative_promoted = auth /\ rep.groups_promoted = groups
  /\ rep.skipped_already_promoted = skipped /\ rep.insert_failures = failed

LEMMA CheckMoves ==
  ASSUME TypeOK, NEW p \in Passes, dedup_already_promoted(p)
  PROVE  LET a == pass[p]
             b == pass'[p]
             rep == a.report
         IN
         \E row \in PromotedRow :
           /\ a.pc = "check" /\ a.cand = {row} /\ b.stage = a.stage
           /\ SameWork(a, b) /\ promoted' = promoted
           /\ \/ b.pc = "insert" /\ b.cand = {row} /\ b.report = rep
              \/ /\ b.pc = "pick" /\ b.cand = {} /\ \E x \in promoted : x.claim = row.claim
                 /\ Counters(b.report, rep.authoritative_promoted, rep.groups_promoted,
                             rep.skipped_already_promoted + 1, rep.insert_failures)
<1>. pass \in [Passes -> PassRecord] /\ pass[p].report \in Report /\ Consistent(p, pass[p])
  BY DEF TypeOK, PassRecord
<1>1. PICK row \in PromotedRow : pass[p].cand = {row}
  BY DEF dedup_already_promoted, Consistent
<1>. DEFINE skip == [pass[p] EXCEPT !.pc = "pick", !.cand = {},
                                    !.report.skipped_already_promoted = @ + 1]
            go == [pass[p] EXCEPT !.pc = "insert"]
<1>2. \/ Become(p, go)
      \/ Become(p, skip) /\ \E x \in promoted : x.claim = row.claim
  BY <1>1 DEF dedup_already_promoted
<1>3. /\ go.pc = "insert" /\ go.cand = {row} /\ go.stage = pass[p].stage /\ SameWork(pass[p], go)
      /\ go.report = pass[p].report
  BY <1>1 DEF PassRecord, SameWork, SameRead
<1>4. /\ skip.pc = "pick" /\ skip.cand = {} /\ skip.stage = pass[p].stage /\ SameWork(pass[p], skip)
      /\ skip.report = [pass[p].report EXCEPT !.skipped_already_promoted = @ + 1]
  BY DEF PassRecord, SameWork, SameRead
<1>5. Counters(skip.report, pass[p].report.authoritative_promoted, pass[p].report.groups_promoted,
               pass[p].report.skipped_already_promoted + 1, pass[p].report.insert_failures)
  BY <1>4 DEF Counters, Report
<1>6. pass[p].pc = "check" /\ promoted' = promoted
  BY DEF dedup_already_promoted
<1>. HIDE DEF skip, go
<1>7. CASE Become(p, go)
  <2>1. pass'[p] = go
    BY <1>7 DEF Become
  <2>. QED  BY <1>1, <1>3, <1>6, <2>1
<1>8. CASE Become(p, skip) /\ \E x \in promoted : x.claim = row.claim
  <2>1. pass'[p] = skip
    BY <1>8 DEF Become
  <2>. QED  BY <1>1, <1>4, <1>5, <1>6, <1>8, <2>1
<1>. QED
  BY <1>2, <1>7, <1>8

LEMMA InsertMoves ==
  ASSUME TypeOK, NEW p \in Passes, insert(p)
  PROVE  LET a == pass[p]
             b == pass'[p]
             rep == a.report
             auth == IF a.stage = "auth" THEN 1 ELSE 0
         IN
         \E row \in PromotedRow :
           /\ a.pc = "insert" /\ b.pc = "pick" /\ a.cand = {row} /\ b.cand = {}
           /\ row.pass = p /\ row.supports \cap a.todo = {}
           /\ b.stage = a.stage /\ SameRead(a, b) /\ b.todo = a.todo /\ b.groups = a.groups
           /\ \/ /\ promoted' = promoted \cup {row} /\ b.remaining = a.remaining
                 /\ Counters(b.report, rep.authoritative_promoted + auth,
                             rep.groups_promoted + (1 - auth),
                             rep.skipped_already_promoted, rep.insert_failures)
              \/ /\ promoted' = promoted
                 /\ b.remaining = IF a.stage = "auth" THEN a.remaining \cup row.supports
                                                      ELSE a.remaining
                 /\ Counters(b.report, rep.authoritative_promoted, rep.groups_promoted,
                             rep.skipped_already_promoted, rep.insert_failures + 1)
<1>. pass \in [Passes -> PassRecord] /\ pass[p].report \in Report /\ Consistent(p, pass[p])
  BY DEF TypeOK, PassRecord
<1>1. PICK row \in PromotedRow : /\ pass[p].cand = {row} /\ row.pass = p
                                 /\ row.supports \cap pass[p].todo = {}
  BY DEF insert, Consistent
<1>. DEFINE auth == IF pass[p].stage = "auth" THEN 1 ELSE 0
            rest == IF pass[p].stage = "auth" THEN pass[p].remaining \cup row.supports
                                              ELSE pass[p].remaining
            failed == [pass[p] EXCEPT !.pc = "pick", !.cand = {}, !.remaining = rest,
                                      !.report.insert_failures = @ + 1]
<1>2. \/ Become(p, Inserted(p)) /\ promoted' = promoted \cup {row}
      \/ Become(p, failed) /\ promoted' = promoted
  <2>1. UNION {x.supports : x \in pass[p].cand} = row.supports
    BY <1>1
  <2>. QED  BY <1>1, <2>1 DEF insert
<1>3. /\ Inserted(p).pc = "pick" /\ Inserted(p).cand = {} /\ Inserted(p).stage = pass[p].stage
      /\ SameWork(pass[p], Inserted(p))
      /\ Counters(Inserted(p).report, pass[p].report.authoritative_promoted + auth,
                  pass[p].report.groups_promoted + (1 - auth),
                  pass[p].report.skipped_already_promoted, pass[p].report.insert_failures)
  <2>1. CASE pass[p].stage = "auth"
    <3>1. Inserted(p) = [pass[p] EXCEPT !.pc = "pick", !.cand = {},
                           !.report = [pass[p].report EXCEPT !.authoritative_promoted = @ + 1]]
      BY <2>1 DEF Inserted, PassRecord
    <3>2. Inserted(p).report = [pass[p].report EXCEPT !.authoritative_promoted = @ + 1]
      BY <3>1 DEF PassRecord
    <3>3. /\ Inserted(p).pc = "pick" /\ Inserted(p).cand = {} /\ Inserted(p).stage = pass[p].stage
          /\ SameWork(pass[p], Inserted(p))
      BY <3>1 DEF PassRecord, SameWork, SameRead
    <3>. QED  BY <2>1, <3>2, <3>3 DEF Counters, Report
  <2>2. CASE pass[p].stage # "auth"
    <3>1. Inserted(p) = [pass[p] EXCEPT !.pc = "pick", !.cand = {},
                           !.report = [pass[p].report EXCEPT !.groups_promoted = @ + 1]]
      BY <2>2 DEF Inserted, PassRecord
    <3>2. Inserted(p).report = [pass[p].report EXCEPT !.groups_promoted = @ + 1]
      BY <3>1 DEF PassRecord
    <3>3. /\ Inserted(p).pc = "pick" /\ Inserted(p).cand = {} /\ Inserted(p).stage = pass[p].stage
          /\ SameWork(pass[p], Inserted(p))
      BY <3>1 DEF PassRecord, SameWork, SameRead
    <3>. QED  BY <2>2, <3>2, <3>3 DEF Counters, Report
  <2>. QED  BY <2>1, <2>2
<1>4. /\ failed.pc = "pick" /\ failed.cand = {} /\ failed.stage = pass[p].stage
      /\ SameRead(pass[p], failed) /\ failed.todo = pass[p].todo /\ failed.groups = pass[p].groups
      /\ failed.remaining = rest
      /\ failed.report = [pass[p].report EXCEPT !.insert_failures = @ + 1]
  <2>. HIDE DEF rest
  <2>. QED  BY DEF PassRecord, SameRead
<1>5. Counters(failed.report, pass[p].report.authoritative_promoted, pass[p].report.groups_promoted,
               pass[p].report.skipped_already_promoted, pass[p].report.insert_failures + 1)
  BY <1>4 DEF Counters, Report
<1>6. pass[p].pc = "insert"
  BY DEF insert
<1>. HIDE DEF failed
<1>7. CASE Become(p, Inserted(p)) /\ promoted' = promoted \cup {row}
  <2>1. pass'[p] = Inserted(p)
    BY <1>7 DEF Become
  <2>. QED  BY <1>1, <1>3, <1>6, <1>7, <2>1 DEF SameWork
<1>8. CASE Become(p, failed) /\ promoted' = promoted
  <2>1. pass'[p] = failed
    BY <1>8 DEF Become
  <2>. QED  BY <1>1, <1>4, <1>5, <1>6, <1>8, <2>1
<1>. QED
  BY <1>2, <1>7, <1>8

(***************************************************************************)
(* What stays: a row rests on what its pass read, which never changes, and *)
(* a claim that was promoted stays promoted.                               *)
(***************************************************************************)
LEMMA ReadSame ==
  ASSUME NEW a, NEW b, SameRead(a, b)
  PROVE  Matched(b) = Matched(a) /\ \A row : Backed(b, row) <=> Backed(a, row)
BY DEF SameRead, Matched, Backed

LEMMA RowsSame ==
  ASSUME NEW p, NEW r, promoted' = promoted
  PROVE  /\ RowsOf(p, "auth")' = RowsOf(p, "auth")
         /\ RowsOf(p, "consensus")' = RowsOf(p, "consensus")
         /\ \A x : (\E row \in promoted' : row.claim = x) <=> \E row \in promoted : row.claim = x
BY DEF RowsOf

LEMMA RowsKept ==
  ASSUME NEW p \in Passes, PassOK(p), promoted' = promoted, SameRead(pass[p], pass'[p]),
         pass'[p].pc # "idle",
         \A row \in pass'[p].cand : Backed(pass[p], row) /\ row.path = pass'[p].stage
  PROVE  BackedOK(p)'
<1>1. BackedOK(p)
  BY DEF PassOK
<1>2. \A row : Backed(pass'[p], row) <=> Backed(pass[p], row)
  BY ReadSame
<1>. QED
  BY <1>1, <1>2, RowsSame DEF BackedOK

LEMMA OtherPasses ==
  ASSUME NEW q \in Passes, PassOK(q), pass'[q] = pass[q],
         \/ promoted' = promoted
         \/ \E row : promoted' = promoted \cup {row} /\ row.pass # q
  PROVE  PassOK(q)'
<1>1. /\ RowsOf(q, "auth")' = RowsOf(q, "auth")
      /\ RowsOf(q, "consensus")' = RowsOf(q, "consensus")
      /\ \A x \in promoted' : x.pass = q => x \in promoted
      /\ promoted \subseteq promoted'
  BY DEF RowsOf
<1>2. BackedOK(q)'
  BY <1>1 DEF PassOK, BackedOK
<1>3. AuthOK(q)' /\ GroupsOK(q)' /\ CountOK(q)'
  BY <1>1 DEF PassOK, AuthOK, GroupsOK, CountOK
<1>4. CompleteOK(q)'
  <2>1. \A c : Done(q, c) => Done(q, c)'
    BY <1>1 DEF Done
  <2>2. CompleteOK(q)
    BY DEF PassOK
  <2>. QED  BY <2>1, <2>2 DEF CompleteOK
<1>. QED
  BY <1>2, <1>3, <1>4 DEF PassOK

LEMMA StartOK ==
  ASSUME TypeOK, TypeOK', NEW p \in Passes, PassOK(p), promote_consensus_for_plan(p)
  PROVE  PassOK(p)'
<1>. DEFINE b == pass'[p]
<1>1. /\ pass[p].pc = "idle" /\ promoted' = promoted
      /\ b.stage = "auth" /\ b.report = NoReport /\ b.cand = {}
      /\ \/ b.pc = "failed" /\ b.todo = {} /\ b.remaining = {}
         \/ /\ b.pc = "pick" /\ b.todo = Matched(b)
            /\ b.remaining = {a \in b.snapshot : ~Matches(b.registry, a)}
  BY StartMoves
<1>2. \A x \in promoted : x.pass # p
  BY <1>1 DEF PassOK, BackedOK
<1>3. RowsOf(p, "auth")' = {} /\ RowsOf(p, "consensus")' = {}
  BY <1>1, <1>2 DEF RowsOf
<1>4. BackedOK(p)' /\ AuthOK(p)' /\ GroupsOK(p)'
  <2>1. b.todo \subseteq Matched(b)
    BY <1>1
  <2>. QED  BY <1>1, <1>2, <1>3, <2>1 DEF BackedOK, AuthOK, GroupsOK
<1>5. CountOK(p)'
  <2>1. /\ NoReport.authoritative_promoted = 0 /\ NoReport.groups_promoted = 0
        /\ IsFiniteSet({}) /\ Cardinality({}) = 0
    BY FS_EmptySet DEF NoReport
  <2>. QED  BY <1>1, <1>3, <2>1 DEF CountOK
<1>6. CompleteOK(p)'
  BY <1>1 DEF CompleteOK
<1>. QED
  BY <1>4, <1>5, <1>6 DEF PassOK

LEMMA NextOK ==
  ASSUME TypeOK, NEW p \in Passes, PassOK(p), next_authoritative(p)
  PROVE  PassOK(p)'
<1>. DEFINE a == pass[p]
            b == pass'[p]
<1>1. PICK x \in a.todo :
        /\ a.pc = "pick" /\ b.pc = "check" /\ a.stage = "auth" /\ b.stage = "auth"
        /\ b.todo = a.todo \ {x} /\ b.cand = {Row(p, x.claim, "auth", {x})}
        /\ SameRead(a, b) /\ b.remaining = a.remaining /\ b.groups = a.groups
        /\ b.report = a.report /\ promoted' = promoted
  BY NextMoves
<1>. DEFINE row == Row(p, x.claim, "auth", {x})
<1>2. b.cand = {row} /\ row.claim = x.claim /\ row.path = "auth" /\ row.supports = {x}
  BY <1>1 DEF Row
<1>3. /\ x \in a.snapshot /\ x \notin a.remaining /\ a.cand = {}
      /\ a.todo \subseteq Evidence /\ a.report \in Report
  BY <1>1 DEF TypeOK, Consistent, PassRecord
<1>. HIDE DEF row, a, b
<1>4. AuthOK(p)
  BY DEF PassOK
<1>5. BackedOK(p)'
  <2>1. Matches(a.registry, x)
    BY <1>4 DEF AuthOK, Matched, a
  <2>2. Backed(a, row)
    BY <1>2, <1>3, <2>1 DEF Backed, GroupOf
  <2>. QED
    BY <1>1, <1>2, <2>2, RowsKept DEF a, b
<1>6. AuthOK(p)' /\ GroupsOK(p)'
  <2>1. b.todo \subseteq Matched(b)
    BY <1>1, <1>4, ReadSame DEF AuthOK, a
  <2>2. \A y \in RowsOf(p, "auth") : /\ y.supports \cap (b.todo \cup b.remaining) = {}
                                     /\ y.supports \cap row.supports = {}
    BY <1>1, <1>2, <1>4 DEF AuthOK, a
  <2>3. RowsOf(p, "consensus") = {} /\ row.supports \cap b.remaining = {}
    BY <1>1, <1>2, <1>3, <1>4 DEF AuthOK, a
  <2>4. /\ RowsOf(p, "auth")' = RowsOf(p, "auth")
        /\ RowsOf(p, "consensus")' = RowsOf(p, "consensus")
    BY <1>1, RowsSame
  <2>5. AuthOK(p)'
    BY <1>2, <2>1, <2>2, <2>3, <2>4 DEF AuthOK, b
  <2>6. GroupsOK(p)'
    BY <1>1 DEF GroupsOK, b
  <2>. QED  BY <2>5, <2>6
<1>7. CountOK(p)'
  BY <1>1, RowsSame DEF PassOK, CountOK, a, b
<1>8. CompleteOK(p)'
  <2>1. \A c : Done(p, c) => Done(p, c)'
    BY <1>1, <1>3 DEF Done, Held, a
  <2>2. Done(p, x.claim)'
    BY <1>2 DEF Done, Held, b
  <2>3. CompleteOK(p)
    BY DEF PassOK
  <2>4. Matched(b) = Matched(a)
    BY <1>1, ReadSame
  <2>. QED  BY <1>1, <2>1, <2>2, <2>3, <2>4 DEF CompleteOK, SameRead, a, b
<1>. QED  BY <1>5, <1>6, <1>7, <1>8 DEF PassOK

LEMMA GroupOK ==
  ASSUME TypeOK, NEW p \in Passes, PassOK(p), group_assertions_for_consensus(p)
  PROVE  PassOK(p)'
<1>. DEFINE a == pass[p]
            b == pass'[p]
<1>1. /\ a.pc = "pick" /\ b.pc = "pick" /\ a.stage = "auth" /\ b.stage = "consensus"
      /\ a.todo = {} /\ b.todo = {} /\ b.remaining = a.remaining
      /\ b.groups = {c \in ClaimsOf(b.remaining) :
                       QuorumMet(b.registry, b.quorum, GroupOf(b.remaining, c))}
      /\ SameRead(a, b) /\ b.cand = a.cand /\ b.report = a.report /\ promoted' = promoted
  BY GroupMoves
<1>2. a.cand = {} /\ b.cand = {}
  BY <1>1 DEF TypeOK, Consistent
<1>. HIDE DEF a, b
<1>3. BackedOK(p)'
  BY <1>1, <1>2, RowsKept DEF a, b
<1>4. AuthOK(p)'
  BY <1>1, ReadSame, RowsSame DEF PassOK, AuthOK, a, b
<1>5. GroupsOK(p)'
  <2>1. \A c \in b.groups : GroupOf(b.remaining, c) # {}
    BY <1>1 DEF ClaimsOf, GroupOf
  <2>2. RowsOf(p, "consensus")' = {}
    BY <1>1, RowsSame DEF PassOK, AuthOK, a
  <2>. QED  BY <1>1, <1>2, <2>1, <2>2 DEF GroupsOK, b
<1>6. CountOK(p)'
  BY <1>1, RowsSame DEF PassOK, CountOK, a, b
<1>7. CompleteOK(p)'
  <2>1. \A c : Done(p, c) => Done(p, c)'
    BY <1>1 DEF Done, Held, a, b
  <2>2. CompleteOK(p)
    BY DEF PassOK
  <2>3. Matched(b) = Matched(a)
    BY <1>1, ReadSame
  <2>. QED  BY <1>1, <2>1, <2>2, <2>3 DEF CompleteOK, SameRead, a, b
<1>. QED  BY <1>3, <1>4, <1>5, <1>6, <1>7 DEF PassOK

LEMMA NextGroupOK ==
  ASSUME TypeOK, NEW p \in Passes, PassOK(p), next_group(p)
  PROVE  PassOK(p)'
<1>. DEFINE a == pass[p]
            b == pass'[p]
<1>1. PICK c \in a.groups :
        /\ a.pc = "pick" /\ b.pc = "check" /\ a.stage = "consensus" /\ b.stage = "consensus"
        /\ b.groups = a.groups \ {c}
        /\ b.cand = {Row(p, c, "consensus", GroupOf(a.remaining, c))}
        /\ SameRead(a, b) /\ b.remaining = a.remaining /\ b.todo = a.todo
        /\ b.report = a.report /\ promoted' = promoted
  BY NextGroupMoves
<1>. DEFINE row == Row(p, c, "consensus", GroupOf(a.remaining, c))
<1>2. /\ b.cand = {row} /\ row.claim = c /\ row.path = "consensus"
      /\ row.supports = GroupOf(a.remaining, c)
  BY <1>1 DEF Row
<1>3. a.cand = {} /\ a.remaining \subseteq a.snapshot /\ a.report \in Report /\ a.todo \subseteq Evidence
  BY <1>1 DEF TypeOK, Consistent, PassRecord
<1>. HIDE DEF row, a, b
<1>4. GroupsOK(p)
  BY DEF PassOK
<1>5. BackedOK(p)'
  <2>1. row.supports # {} /\ QuorumMet(a.registry, a.quorum, row.supports)
    BY <1>1, <1>2, <1>4 DEF GroupsOK, a
  <2>2. Backed(a, row)
    BY <1>2, <1>3, <2>1 DEF Backed, GroupOf
  <2>. QED
    BY <1>1, <1>2, <2>2, RowsKept DEF a, b
<1>6. AuthOK(p)'
  BY <1>1, ReadSame, RowsSame DEF PassOK, AuthOK, a, b
<1>7. GroupsOK(p)'
  <2>1. row.supports \subseteq b.remaining
    BY <1>1, <1>2 DEF GroupOf
  <2>2. Held(b) = {c}
    BY <1>2 DEF Held
  <2>. QED  BY <1>1, <1>2, <1>4, <2>1, <2>2, RowsSame DEF GroupsOK, SameRead, a, b
<1>8. CountOK(p)'
  BY <1>1, RowsSame DEF PassOK, CountOK, a, b
<1>9. CompleteOK(p)'
  <2>1. \A d : Done(p, d) => Done(p, d)'
    BY <1>1, <1>3 DEF Done, Held, a
  <2>2. Done(p, c)'
    BY <1>2 DEF Done, Held, b
  <2>3. CompleteOK(p)
    BY DEF PassOK
  <2>4. Matched(b) = Matched(a)
    BY <1>1, ReadSame
  <2>. QED  BY <1>1, <2>1, <2>2, <2>3, <2>4 DEF CompleteOK, SameRead, a, b
<1>. QED  BY <1>5, <1>6, <1>7, <1>8, <1>9 DEF PassOK

LEMMA MergeOK ==
  ASSUME TypeOK, NEW p \in Passes, PassOK(p), merge_consensus_into(p)
  PROVE  PassOK(p)'
<1>. DEFINE a == pass[p]
            b == pass'[p]
<1>1. /\ a.pc = "pick" /\ b.pc = "ended" /\ a.stage = "consensus" /\ b.stage = "consensus"
      /\ a.groups = {} /\ SameWork(a, b) /\ b.cand = a.cand
      /\ b.report = a.report /\ promoted' = promoted
  BY MergeMoves
<1>2. a.cand = {} /\ b.cand = {} /\ SameRead(a, b)
  BY <1>1 DEF TypeOK, Consistent, SameWork
<1>. HIDE DEF a, b
<1>3. BackedOK(p)'
  BY <1>1, <1>2, RowsKept DEF a, b
<1>4. AuthOK(p)' /\ GroupsOK(p)'
  BY <1>1, <1>2, ReadSame, RowsSame DEF PassOK, AuthOK, GroupsOK, Held, SameWork, a, b
<1>5. CountOK(p)'
  BY <1>1, RowsSame DEF PassOK, CountOK, a, b
<1>6. CompleteOK(p)'
  <2>1. \A c : Done(p, c) => Done(p, c)'
    BY <1>1 DEF Done, Held, a, b
  <2>2. CompleteOK(p)
    BY DEF PassOK
  <2>3. Matched(b) = Matched(a)
    BY <1>2, ReadSame
  <2>. QED  BY <1>1, <2>1, <2>2, <2>3 DEF CompleteOK, SameWork, SameRead, a, b
<1>. QED  BY <1>3, <1>4, <1>5, <1>6 DEF PassOK

LEMMA DiesOK ==
  ASSUME TypeOK, NEW p \in Passes, PassOK(p), ProcessDies
  PROVE  PassOK(p)'
<1>. DEFINE a == pass[p]
            b == pass'[p]
<1>0. promoted' = promoted
  BY DEF ProcessDies
<1>1. CASE b = a
  BY <1>0, <1>1, OtherPasses
<1>2. CASE /\ b.pc = "dead" /\ b.stage = a.stage /\ SameRead(a, b) /\ b.report = a.report
           /\ b.todo = {} /\ b.remaining = {} /\ b.groups = {} /\ b.cand = {}
  <2>. HIDE DEF a, b
  <2>1. BackedOK(p)'
    BY <1>0, <1>2, RowsKept DEF a, b
  <2>2. AuthOK(p)' /\ GroupsOK(p)'
    BY <1>0, <1>2, RowsSame DEF PassOK, AuthOK, GroupsOK, Held, a, b
  <2>3. CountOK(p)'
    BY <1>0, <1>2, RowsSame DEF PassOK, CountOK, a, b
  <2>4. CompleteOK(p)'
    BY <1>2 DEF CompleteOK, b
  <2>. QED  BY <2>1, <2>2, <2>3, <2>4 DEF PassOK
<1>. QED  BY <1>1, <1>2, DiesMoves

LEMMA CheckOK ==
  ASSUME TypeOK, NEW p \in Passes, PassOK(p), dedup_already_promoted(p)
  PROVE  PassOK(p)'
<1>. DEFINE a == pass[p]
            b == pass'[p]
            rep == a.report
<1>1. PICK row \in PromotedRow :
        /\ a.pc = "check" /\ a.cand = {row} /\ b.stage = a.stage
        /\ SameWork(a, b) /\ promoted' = promoted
        /\ \/ b.pc = "insert" /\ b.cand = {row} /\ b.report = rep
           \/ /\ b.pc = "pick" /\ b.cand = {} /\ \E x \in promoted : x.claim = row.claim
              /\ Counters(b.report, rep.authoritative_promoted, rep.groups_promoted,
                          rep.skipped_already_promoted + 1, rep.insert_failures)
  BY CheckMoves
<1>2. /\ SameRead(a, b) /\ b.cand \subseteq a.cand /\ Held(b) \subseteq Held(a)
      /\ a.report \in Report /\ a.todo \subseteq Evidence
  BY <1>1 DEF SameWork, Held, TypeOK, PassRecord
<1>. HIDE DEF a, b
<1>3. BackedOK(p)'
  <2>1. \A x \in a.cand : Backed(a, x) /\ x.path = a.stage
    BY DEF PassOK, BackedOK, a
  <2>. QED  BY <1>1, <1>2, <2>1, RowsKept DEF a, b
<1>4. AuthOK(p)'
  BY <1>1, <1>2, ReadSame, RowsSame DEF PassOK, AuthOK, SameWork, a, b
<1>5. GroupsOK(p)'
  BY <1>1, <1>2, RowsSame DEF PassOK, GroupsOK, SameWork, SameRead, a, b
<1>6. CountOK(p)'
  <2>1. /\ b.report.authoritative_promoted = a.report.authoritative_promoted
        /\ b.report.groups_promoted = a.report.groups_promoted
    BY <1>1 DEF Counters
  <2>. QED  BY <1>1, <2>1, RowsSame DEF PassOK, CountOK, a, b
<1>7. CompleteOK(p)'
  <2>1. \A c : Done(p, c) => Done(p, c)'
    BY <1>1 DEF Done, Held, a, b
  <2>2. CompleteOK(p)
    BY DEF PassOK
  <2>3. Matched(b) = Matched(a) /\ b.report.insert_failures = a.report.insert_failures
    BY <1>1, <1>2, ReadSame DEF Counters
  <2>. QED  BY <1>1, <1>2, <2>1, <2>2, <2>3 DEF CompleteOK, SameWork, SameRead, a, b
<1>. QED  BY <1>3, <1>4, <1>5, <1>6, <1>7 DEF PassOK

LEMMA InsertedOK ==
  ASSUME TypeOK, NEW p \in Passes, PassOK(p), NEW row \in PromotedRow,
         pass[p].cand = {row}, row.pass = p, row.supports \cap pass[p].todo = {},
         pass[p].pc = "insert", pass'[p].pc = "pick", pass'[p].cand = {},
         pass'[p].stage = pass[p].stage, SameWork(pass[p], pass'[p]),
         promoted' = promoted \cup {row},
         LET rep == pass[p].report
             auth == IF pass[p].stage = "auth" THEN 1 ELSE 0
         IN Counters(pass'[p].report, rep.authoritative_promoted + auth,
                     rep.groups_promoted + (1 - auth),
                     rep.skipped_already_promoted, rep.insert_failures)
  PROVE  PassOK(p)'
<1>. DEFINE a == pass[p]
            b == pass'[p]
            rep == a.report
            auth == IF a.stage = "auth" THEN 1 ELSE 0
<1>1. /\ SameRead(a, b) /\ b.todo = a.todo /\ b.remaining = a.remaining /\ b.groups = a.groups
      /\ a.stage \in {"auth", "consensus"} /\ a.report \in Report /\ a.todo \subseteq Evidence
  BY DEF SameWork, TypeOK, PassRecord
<1>2. BackedOK(p) /\ AuthOK(p) /\ GroupsOK(p) /\ CountOK(p) /\ CompleteOK(p)
  BY DEF PassOK
<1>3. Backed(a, row) /\ row.path = a.stage
  BY <1>2 DEF BackedOK
<1>4. /\ Matched(b) = Matched(a)
      /\ \A x : Backed(b, x) <=> Backed(a, x)
  BY <1>1, ReadSame
<1>. DEFINE RowsCounted ==
              /\ IsFiniteSet(RowsOf(p, "auth")') /\ IsFiniteSet(RowsOf(p, "consensus")')
              /\ b.report.authoritative_promoted = Cardinality(RowsOf(p, "auth")')
              /\ b.report.groups_promoted = Cardinality(RowsOf(p, "consensus")')
<1>5. Held(b) = {} /\ Held(a) = {row.claim}
  BY DEF Held
<1>6. ASSUME a.stage = "auth"
      PROVE  BackedOK(p)' /\ AuthOK(p)' /\ GroupsOK(p)' /\ RowsCounted
  <2>1. /\ RowsOf(p, "auth")' = RowsOf(p, "auth") \cup {row}
        /\ RowsOf(p, "consensus")' = RowsOf(p, "consensus")
    BY <1>3, <1>6 DEF RowsOf
  <2>2. RowsOf(p, "consensus") = {}
    BY <1>2, <1>6 DEF AuthOK
  <2>3. row \notin RowsOf(p, "auth")
    BY <1>2, <1>3, <1>6 DEF AuthOK, Backed
  <2>. HIDE DEF a, b, RowsCounted
  <2>4. BackedOK(p)'
    BY <1>2, <1>3, <1>4, <2>1, <2>2 DEF BackedOK, a, b
  <2>5. AuthOK(p)' /\ GroupsOK(p)'
    <3>1. row.supports \cap (b.todo \cup b.remaining) = {}
      BY <1>1, <1>2, <1>6 DEF AuthOK, a
    <3>2. \A x \in RowsOf(p, "auth") : x.supports \cap (b.todo \cup b.remaining) = {}
      BY <1>1, <1>2 DEF AuthOK, a
    <3>3. b.todo \subseteq Matched(b)
      BY <1>1, <1>2, <1>4 DEF AuthOK, a
    <3>. QED  BY <1>6, <2>1, <2>2, <3>1, <3>2, <3>3 DEF AuthOK, GroupsOK, a, b
  <2>6. /\ IsFiniteSet(RowsOf(p, "auth")')
        /\ Cardinality(RowsOf(p, "auth")') = Cardinality(RowsOf(p, "auth")) + 1
    BY <1>2, <2>1, <2>3, FS_AddElement DEF CountOK
  <2>7. /\ b.report.authoritative_promoted = Cardinality(RowsOf(p, "auth")')
        /\ b.report.groups_promoted = Cardinality(RowsOf(p, "consensus")')
    BY <1>1, <1>2, <1>6, <2>1, <2>6 DEF CountOK, Counters, Report, a, b
  <2>. QED  BY <1>2, <2>1, <2>4, <2>5, <2>6, <2>7 DEF RowsCounted, CountOK, b
<1>7. ASSUME a.stage = "consensus"
      PROVE  BackedOK(p)' /\ AuthOK(p)' /\ GroupsOK(p)' /\ RowsCounted
  <2>1. /\ RowsOf(p, "consensus")' = RowsOf(p, "consensus") \cup {row}
        /\ RowsOf(p, "auth")' = RowsOf(p, "auth")
    BY <1>3, <1>7 DEF RowsOf
  <2>2. row \notin RowsOf(p, "consensus")
    BY <1>2, <1>5, <1>7 DEF GroupsOK
  <2>3. \A x \in RowsOf(p, "auth") : x.supports \cap row.supports = {}
    BY <1>2, <1>7 DEF GroupsOK, AuthOK
  <2>. HIDE DEF a, b, RowsCounted
  <2>4. BackedOK(p)'
    BY <1>2, <1>3, <1>4, <2>1, <2>3 DEF BackedOK, a, b
  <2>5. AuthOK(p)'
    BY <1>1, <1>2, <1>4, <1>7, <2>1 DEF AuthOK, a, b
  <2>6. GroupsOK(p)'
    <3>1. \A x \in RowsOf(p, "consensus")' : x.claim \notin b.groups
      BY <1>1, <1>2, <1>7, <2>1 DEF GroupsOK, a
    <3>. QED  BY <1>1, <1>2, <1>5, <1>7, <3>1 DEF GroupsOK, SameRead, a, b
  <2>7. /\ IsFiniteSet(RowsOf(p, "consensus")')
        /\ Cardinality(RowsOf(p, "consensus")') = Cardinality(RowsOf(p, "consensus")) + 1
    BY <1>2, <2>1, <2>2, FS_AddElement DEF CountOK
  <2>8. /\ b.report.authoritative_promoted = Cardinality(RowsOf(p, "auth")')
        /\ b.report.groups_promoted = Cardinality(RowsOf(p, "consensus")')
    BY <1>1, <1>2, <1>7, <2>1, <2>7 DEF CountOK, Counters, Report, a, b
  <2>. QED  BY <1>2, <2>1, <2>4, <2>5, <2>6, <2>7, <2>8 DEF RowsCounted, CountOK, b
<1>8. BackedOK(p)' /\ AuthOK(p)' /\ GroupsOK(p)' /\ RowsCounted
  BY <1>1, <1>6, <1>7
<1>9. CountOK(p)'
  BY <1>8 DEF CountOK
<1>10. CompleteOK(p)'
  <2>1. \A c : Done(p, c) => Done(p, c)'
    BY DEF Done, Held
  <2>2. b.report.insert_failures = a.report.insert_failures
    BY DEF Counters
  <2>. QED  BY <1>1, <1>2, <1>4, <2>1, <2>2 DEF CompleteOK, SameRead
<1>. QED  BY <1>8, <1>9, <1>10 DEF PassOK

LEMMA InsertFailedOK ==
  ASSUME TypeOK, NEW p \in Passes, PassOK(p), NEW row \in PromotedRow,
         pass[p].cand = {row}, row.pass = p, row.supports \cap pass[p].todo = {},
         pass[p].pc = "insert", pass'[p].pc = "pick", pass'[p].cand = {},
         pass'[p].stage = pass[p].stage, SameRead(pass[p], pass'[p]),
         pass'[p].todo = pass[p].todo, pass'[p].groups = pass[p].groups,
         pass'[p].remaining = IF pass[p].stage = "auth" THEN pass[p].remaining \cup row.supports
                                                         ELSE pass[p].remaining,
         promoted' = promoted,
         LET rep == pass[p].report
         IN Counters(pass'[p].report, rep.authoritative_promoted, rep.groups_promoted,
                     rep.skipped_already_promoted, rep.insert_failures + 1)
  PROVE  PassOK(p)'
<1>. DEFINE a == pass[p]
            b == pass'[p]
<1>1. a.stage \in {"auth", "consensus"} /\ a.report \in Report /\ a.todo \subseteq Evidence
  BY DEF TypeOK, PassRecord
<1>2. BackedOK(p) /\ AuthOK(p) /\ GroupsOK(p) /\ CountOK(p)
  BY DEF PassOK
<1>3. Matched(b) = Matched(a)
  BY ReadSame
<1>4. BackedOK(p)'
  BY RowsKept
<1>5. AuthOK(p)'
  <2>1. \A x \in RowsOf(p, "auth") : x.supports \cap (b.todo \cup b.remaining) = {}
    <3>1. CASE a.stage = "auth"
      BY <1>2, <3>1 DEF AuthOK
    <3>2. CASE a.stage # "auth"
      BY <1>2, <3>2 DEF AuthOK
    <3>. QED  BY <3>1, <3>2
  <2>2. b.todo \subseteq Matched(b)
    BY <1>2, <1>3 DEF AuthOK
  <2>3. a.stage = "auth" => RowsOf(p, "consensus") = {}
    BY <1>2 DEF AuthOK
  <2>. QED  BY <2>1, <2>2, <2>3, RowsSame DEF AuthOK
<1>6. GroupsOK(p)'
  BY <1>2, RowsSame DEF GroupsOK, Held, SameRead
<1>7. CountOK(p)'
  <2>1. /\ b.report.authoritative_promoted = a.report.authoritative_promoted
        /\ b.report.groups_promoted = a.report.groups_promoted
    BY DEF Counters
  <2>. QED  BY <1>2, <2>1, RowsSame DEF CountOK
<1>8. CompleteOK(p)'
  BY <1>1 DEF CompleteOK, Counters, Report
<1>. QED  BY <1>4, <1>5, <1>6, <1>7, <1>8 DEF PassOK

LEMMA InsertOK ==
  ASSUME TypeOK, NEW p \in Passes, PassOK(p), insert(p)
  PROVE  PassOK(p)'
<1>. DEFINE a == pass[p]
            b == pass'[p]
            rep == a.report
            auth == IF a.stage = "auth" THEN 1 ELSE 0
<1>1. PICK row \in PromotedRow :
        /\ a.pc = "insert" /\ b.pc = "pick" /\ a.cand = {row} /\ b.cand = {}
        /\ row.pass = p /\ row.supports \cap a.todo = {}
        /\ b.stage = a.stage /\ SameRead(a, b) /\ b.todo = a.todo /\ b.groups = a.groups
        /\ \/ /\ promoted' = promoted \cup {row} /\ b.remaining = a.remaining
              /\ Counters(b.report, rep.authoritative_promoted + auth,
                          rep.groups_promoted + (1 - auth),
                          rep.skipped_already_promoted, rep.insert_failures)
           \/ /\ promoted' = promoted
              /\ b.remaining = IF a.stage = "auth" THEN a.remaining \cup row.supports
                                                   ELSE a.remaining
              /\ Counters(b.report, rep.authoritative_promoted, rep.groups_promoted,
                          rep.skipped_already_promoted, rep.insert_failures + 1)
  BY InsertMoves
<1>2. CASE /\ promoted' = promoted \cup {row} /\ b.remaining = a.remaining
           /\ Counters(b.report, rep.authoritative_promoted + auth,
                       rep.groups_promoted + (1 - auth),
                       rep.skipped_already_promoted, rep.insert_failures)
  <2>1. SameWork(a, b)
    BY <1>1, <1>2 DEF SameWork
  <2>. QED  BY <1>1, <1>2, <2>1, InsertedOK
<1>3. CASE /\ promoted' = promoted
           /\ b.remaining = IF a.stage = "auth" THEN a.remaining \cup row.supports
                                                ELSE a.remaining
           /\ Counters(b.report, rep.authoritative_promoted, rep.groups_promoted,
                       rep.skipped_already_promoted, rep.insert_failures + 1)
  BY <1>1, <1>3, InsertFailedOK
<1>. QED  BY <1>1, <1>2, <1>3

LEMMA PassesStep == TypeOK /\ PassesOK /\ [Next]_vars => PassesOK'
<1>. SUFFICES ASSUME TypeOK, PassesOK, [Next]_vars, NEW q \in Passes  PROVE PassOK(q)'
  BY DEF PassesOK
<1>0. PassOK(q) /\ TypeOK'
  BY StepTypes DEF PassesOK
<1>1. CASE (\E a \in Evidence : extract(a)) \/ reload \/ UNCHANGED vars
  <2>1. pass' = pass /\ promoted' = promoted
    BY <1>1 DEF extract, reload, vars
  <2>. QED  BY <1>0, <2>1, OtherPasses
<1>2. ASSUME NEW p \in Passes, promote_consensus_for_plan(p) \/ PassStep(p)  PROVE PassOK(q)'
  <2>1. CASE p = q
    BY <1>0, <1>2, <2>1, StartOK, NextOK, GroupOK, NextGroupOK, CheckOK, InsertOK, MergeOK
    DEF PassStep
  <2>2. CASE p # q
    <3>1. pass'[q] = pass[q]
      BY <1>2, <2>2 DEF TypeOK, Become, promote_consensus_for_plan, PassStep, next_authoritative,
           group_assertions_for_consensus, next_group, dedup_already_promoted, insert,
           merge_consensus_into
    <3>2. \/ promoted' = promoted
          \/ \E row : promoted' = promoted \cup {row} /\ row.pass = p
      <4>1. CASE insert(p)
        <5>1. PICK row \in PromotedRow : pass[p].cand = {row} /\ row.pass = p
          BY <4>1 DEF insert, TypeOK, Consistent
        <5>2. promoted' = promoted \/ promoted' = promoted \cup {row}
          BY <4>1, <5>1 DEF insert
        <5>. QED  BY <5>1, <5>2
      <4>2. CASE ~insert(p)
        BY <1>2, <4>2 DEF promote_consensus_for_plan, PassStep, next_authoritative,
           group_assertions_for_consensus, next_group, dedup_already_promoted,
           merge_consensus_into
      <4>. QED  BY <4>1, <4>2
    <3>. QED  BY <1>0, <2>2, <3>1, <3>2, OtherPasses
  <2>. QED  BY <2>1, <2>2
<1>3. CASE ProcessDies
  BY <1>0, <1>3, DiesOK
<1>. QED  BY <1>1, <1>2, <1>3 DEF Next

LEMMA PassesInit == Init => PassesOK
<1>. SUFFICES ASSUME Init, NEW p \in Passes  PROVE PassOK(p)
  BY DEF PassesOK
<1>1. /\ pass[p].pc = "idle" /\ pass[p].stage = "auth" /\ pass[p].cand = {} /\ pass[p].todo = {}
      /\ pass[p].report = NoReport /\ promoted = {}
  BY DEF Init, Idle
<1>2. RowsOf(p, "auth") = {} /\ RowsOf(p, "consensus") = {}
  BY <1>1 DEF RowsOf
<1>3. /\ NoReport.authoritative_promoted = 0 /\ NoReport.groups_promoted = 0
      /\ IsFiniteSet({}) /\ Cardinality({}) = 0
  BY FS_EmptySet DEF NoReport
<1>4. BackedOK(p) /\ AuthOK(p) /\ GroupsOK(p) /\ CompleteOK(p)
  BY <1>1, <1>2 DEF BackedOK, AuthOK, GroupsOK, CompleteOK
<1>5. CountOK(p)
  BY <1>1, <1>2, <1>3 DEF CountOK
<1>. QED  BY <1>4, <1>5 DEF PassOK

LEMMA PassesCorrect == Spec => [](TypeOK /\ PassesOK)
BY InitTypes, StepTypes, PassesInit, PassesStep, PTL DEF Spec

-----------------------------------------------------------------------------
(***************************************************************************)
(* What a pass has to account for: the assertions of an authority it read, *)
(* and the groups that meet their quorum among the assertions it left to   *)
(* the consensus pass.  What it has tried, what it holds and what it still *)
(* has to try make them up at every step.  An assertion that was neither   *)
(* left nor is still to be tried has a row of its claim; what was given    *)
(* back, and the groups tried without a row to show, are failed inserts.   *)
(***************************************************************************)
Tries(r) == r.report.authoritative_promoted + r.report.groups_promoted
            + r.report.skipped_already_promoted + r.report.insert_failures

Live(r) == r.pc \in {"pick", "check", "insert", "ended"}

InHand(r) == IF r.pc \in {"check", "insert"} THEN 1 ELSE 0

Quorate(r) == {c \in ClaimsOf(r.remaining) :
                 QuorumMet(r.registry, r.quorum, GroupOf(r.remaining, c))}

Pending(r) == Cardinality(IF r.stage = "auth" THEN r.todo ELSE r.groups)

Due(r) == Cardinality(Matched(r)) + (IF r.stage = "auth" THEN 0 ELSE Cardinality(Quorate(r)))

HasRow(c) == \E x \in promoted : x.claim = c

GivenBack(r) == Matched(r) \cap r.remaining

Rowless(p) ==
  IF pass[p].stage = "auth" THEN {}
  ELSE {c \in Quorate(pass[p]) \ (pass[p].groups \cup Held(pass[p])) : ~HasRow(c)}

\* Still to be tried, in hand, or there.
Tried(p) ==
  \A a \in Matched(pass[p]) \ pass[p].remaining :
    \/ a \in pass[p].todo
    \/ \E row \in pass[p].cand : row.path = "auth" /\ a \in row.supports
    \/ HasRow(a.claim)

AccountOK(p) ==
  Live(pass[p]) =>
    /\ Tries(pass[p]) + Pending(pass[p]) + InHand(pass[p]) = Due(pass[p])
    /\ pass[p].snapshot \ Matched(pass[p]) \subseteq pass[p].remaining
    /\ Tried(p)
    /\ Cardinality(GivenBack(pass[p])) + Cardinality(Rowless(p)) <= pass[p].report.insert_failures

AccountsOK == \A p \in Passes : AccountOK(p)

LEMMA OneMore ==
  ASSUME NEW S, IsFiniteSet(S), NEW x
  PROVE  /\ IsFiniteSet(S \cup {x}) /\ Cardinality(S \cup {x}) \in Nat
         /\ Cardinality(S \cup {x}) <= Cardinality(S) + 1
<1>1. Cardinality(S) \in Nat
  BY FS_CardinalityType
<1>2. /\ IsFiniteSet(S \cup {x})
      /\ Cardinality(S \cup {x}) \in {Cardinality(S), Cardinality(S) + 1}
  BY FS_AddElement
<1>. QED  BY <1>1, <1>2

LEMMA ClaimsFinite == ASSUME NEW as, IsFiniteSet(as) PROVE IsFiniteSet(ClaimsOf(as))
<1>. DEFINE f == [a \in as |-> a.claim]
<1>1. f \in Surjection(as, ClaimsOf(as))
  BY DEF Surjection, ClaimsOf
<1>. QED  BY <1>1, FS_Surjection

\* All that is counted is finite.
LEMMA Countable ==
  ASSUME TypeOK, NEW p \in Passes, PassOK(p)
  PROVE  LET r == pass[p] IN
         /\ IsFiniteSet(r.todo) /\ IsFiniteSet(Matched(r)) /\ IsFiniteSet(Quorate(r))
         /\ IsFiniteSet(GivenBack(r)) /\ IsFiniteSet(Rowless(p))
         /\ r.stage = "consensus" => IsFiniteSet(r.groups)
         /\ Tries(r) \in Nat /\ r.report.insert_failures \in Nat
<1>. DEFINE r == pass[p]
<1>1. /\ r.todo \subseteq Evidence /\ r.remaining \subseteq Evidence /\ Matched(r) \subseteq Evidence
      /\ r.report \in Report
  BY DEF TypeOK, PassRecord, Matched
<1>2. IsFiniteSet(r.todo) /\ IsFiniteSet(r.remaining) /\ IsFiniteSet(Matched(r))
  BY <1>1, FS_Subset
<1>3. IsFiniteSet(ClaimsOf(r.remaining))
  BY <1>2, ClaimsFinite
<1>. HIDE DEF r
<1>4. IsFiniteSet(Quorate(r))
  BY <1>3, FS_Subset DEF Quorate
<1>5. IsFiniteSet(GivenBack(r))
  BY <1>2, FS_Subset DEF GivenBack
<1>6. IsFiniteSet(Rowless(p))
  BY <1>4, FS_Subset, FS_EmptySet DEF Rowless, r
<1>7. ASSUME r.stage = "consensus"  PROVE IsFiniteSet(r.groups)
  <2>1. \A c \in r.groups : GroupOf(r.remaining, c) # {}
    BY <1>7 DEF PassOK, GroupsOK, r
  <2>2. r.groups \subseteq ClaimsOf(r.remaining)
    BY <2>1 DEF GroupOf, ClaimsOf
  <2>. QED  BY <1>3, <2>2, FS_Subset
<1>8. Tries(r) \in Nat /\ r.report.insert_failures \in Nat
  BY <1>1 DEF Tries, Report
<1>. QED  BY <1>2, <1>4, <1>5, <1>6, <1>7, <1>8 DEF r

LEMMA LeftSame ==
  ASSUME NEW a, NEW b, SameRead(a, b), b.remaining = a.remaining
  PROVE  Quorate(b) = Quorate(a) /\ GivenBack(b) = GivenBack(a) /\ Matched(b) = Matched(a)
BY ReadSame DEF SameRead, Quorate, GivenBack

LEMMA StartAccount ==
  ASSUME TypeOK', NEW p \in Passes, promote_consensus_for_plan(p), TypeOK
  PROVE  AccountOK(p)'
<1>. DEFINE b == pass'[p]
<1>1. /\ b.stage = "auth" /\ b.report = NoReport /\ b.cand = {} /\ promoted' = promoted
      /\ \/ b.pc = "failed"
         \/ /\ b.pc = "pick" /\ b.todo = Matched(b)
            /\ b.remaining = {a \in b.snapshot : ~Matches(b.registry, a)}
  BY StartMoves
<1>2. Tries(b) = 0 /\ b.report.insert_failures = 0
  BY <1>1 DEF Tries, NoReport
<1>3. Cardinality(b.todo) \in Nat
  <2>1. b.todo \subseteq Evidence
    BY DEF TypeOK, PassRecord
  <2>. QED  BY <2>1, FS_Subset, FS_CardinalityType
<1>. HIDE DEF b
<1>4. CASE b.pc = "pick" /\ b.todo = Matched(b)
           /\ b.remaining = {a \in b.snapshot : ~Matches(b.registry, a)}
  <2>1. Tries(b) + Pending(b) + InHand(b) = Due(b)
    BY <1>1, <1>2, <1>3, <1>4 DEF Pending, InHand, Due
  <2>2. b.snapshot \ Matched(b) \subseteq b.remaining /\ GivenBack(b) = {}
    BY <1>4 DEF Matched, GivenBack
  <2>3. Tried(p)'
    BY <1>4 DEF Tried, b
  <2>4. Rowless(p)' = {}
    BY <1>1 DEF Rowless, b
  <2>5. Cardinality(GivenBack(b)) + Cardinality(Rowless(p)') <= b.report.insert_failures
    BY <1>2, <2>2, <2>4, FS_EmptySet
  <2>. QED  BY <2>1, <2>2, <2>3, <2>5 DEF AccountOK, b
<1>5. CASE b.pc = "failed"
  BY <1>5 DEF AccountOK, Live, b
<1>. QED  BY <1>1, <1>4, <1>5

LEMMA NextAccount ==
  ASSUME TypeOK, NEW p \in Passes, PassOK(p), AccountOK(p), next_authoritative(p)
  PROVE  AccountOK(p)'
<1>. DEFINE a == pass[p]
            b == pass'[p]
<1>1. PICK x \in a.todo :
        /\ a.pc = "pick" /\ b.pc = "check" /\ a.stage = "auth" /\ b.stage = "auth"
        /\ b.todo = a.todo \ {x} /\ b.cand = {Row(p, x.claim, "auth", {x})}
        /\ SameRead(a, b) /\ b.remaining = a.remaining /\ b.groups = a.groups
        /\ b.report = a.report /\ promoted' = promoted
  BY NextMoves
<1>. DEFINE row == Row(p, x.claim, "auth", {x})
<1>2. b.cand = {row} /\ row.path = "auth" /\ row.supports = {x} /\ a.cand = {}
  BY <1>1 DEF Row, TypeOK, Consistent
<1>3. IsFiniteSet(a.todo) /\ IsFiniteSet(Matched(a)) /\ Tries(a) \in Nat
  BY Countable
<1>4. /\ Quorate(b) = Quorate(a) /\ GivenBack(b) = GivenBack(a) /\ Matched(b) = Matched(a)
      /\ b.snapshot = a.snapshot
  BY <1>1, LeftSame DEF SameRead
<1>. HIDE DEF a, b, row
<1>5. /\ Tries(a) + Pending(a) + InHand(a) = Due(a)
      /\ a.snapshot \ Matched(a) \subseteq a.remaining /\ Tried(p)
      /\ Cardinality(GivenBack(a)) + Cardinality(Rowless(p)) <= a.report.insert_failures
  BY <1>1 DEF AccountOK, Live, a
<1>6. Tries(b) + Pending(b) + InHand(b) = Due(b)
  <2>1. Cardinality(b.todo) = Cardinality(a.todo) - 1 /\ Cardinality(a.todo) \in Nat
    BY <1>1, <1>3, FS_RemoveElement, FS_CardinalityType
  <2>2. Tries(b) = Tries(a)
    BY <1>1 DEF Tries
  <2>3. Due(b) = Due(a) /\ Pending(a) = Cardinality(a.todo) /\ Pending(b) = Cardinality(b.todo)
        /\ InHand(a) = 0 /\ InHand(b) = 1
    BY <1>1, <1>4 DEF Due, Pending, InHand
  <2>. QED  BY <1>3, <1>5, <2>1, <2>2, <2>3
<1>7. Tried(p)'
  BY <1>1, <1>2, <1>4, <1>5 DEF Tried, HasRow, a, b
<1>8. Rowless(p) = {} /\ Rowless(p)' = {}
  BY <1>1 DEF Rowless, a, b
<1>. QED  BY <1>1, <1>4, <1>5, <1>6, <1>7, <1>8 DEF AccountOK, a, b

LEMMA GroupAccount ==
  ASSUME TypeOK, NEW p \in Passes, PassOK(p), AccountOK(p), group_assertions_for_consensus(p)
  PROVE  AccountOK(p)'
<1>. DEFINE a == pass[p]
            b == pass'[p]
<1>1. /\ a.pc = "pick" /\ b.pc = "pick" /\ a.stage = "auth" /\ b.stage = "consensus"
      /\ a.todo = {} /\ b.todo = {} /\ b.remaining = a.remaining
      /\ b.groups = {c \in ClaimsOf(b.remaining) :
                       QuorumMet(b.registry, b.quorum, GroupOf(b.remaining, c))}
      /\ SameRead(a, b) /\ b.cand = a.cand /\ b.report = a.report /\ promoted' = promoted
  BY GroupMoves
<1>2. IsFiniteSet(Matched(a)) /\ IsFiniteSet(Quorate(a)) /\ Tries(a) \in Nat
  BY Countable
<1>3. /\ Quorate(b) = Quorate(a) /\ GivenBack(b) = GivenBack(a) /\ Matched(b) = Matched(a)
      /\ b.snapshot = a.snapshot /\ b.groups = Quorate(b)
  BY <1>1, LeftSame DEF SameRead, Quorate
<1>. HIDE DEF a, b
<1>4. /\ Tries(a) + Pending(a) + InHand(a) = Due(a)
      /\ a.snapshot \ Matched(a) \subseteq a.remaining /\ Tried(p)
      /\ Cardinality(GivenBack(a)) + Cardinality(Rowless(p)) <= a.report.insert_failures
  BY <1>1 DEF AccountOK, Live, a
<1>5. Tries(b) + Pending(b) + InHand(b) = Due(b)
  <2>1. Cardinality(Matched(a)) \in Nat /\ Cardinality(Quorate(a)) \in Nat /\ Cardinality({}) = 0
    BY <1>2, FS_CardinalityType, FS_EmptySet
  <2>2. Tries(b) = Tries(a) /\ InHand(b) = 0 /\ InHand(a) = 0
    BY <1>1 DEF Tries, InHand
  <2>3. /\ Due(a) = Cardinality(Matched(a)) + 0 /\ Pending(a) = 0
        /\ Due(b) = Cardinality(Matched(a)) + Cardinality(Quorate(a))
        /\ Pending(b) = Cardinality(Quorate(a))
    BY <1>1, <1>3, <2>1 DEF Due, Pending
  <2>. QED  BY <1>2, <1>4, <2>1, <2>2, <2>3
<1>6. Tried(p)'
  BY <1>1, <1>3, <1>4 DEF Tried, HasRow, a, b
<1>7. Rowless(p) = {} /\ Rowless(p)' = {}
  BY <1>1, <1>3 DEF Rowless, a, b
<1>. QED  BY <1>1, <1>3, <1>4, <1>5, <1>6, <1>7 DEF AccountOK, a, b

LEMMA NextGroupAccount ==
  ASSUME TypeOK, NEW p \in Passes, PassOK(p), AccountOK(p), next_group(p)
  PROVE  AccountOK(p)'
<1>. DEFINE a == pass[p]
            b == pass'[p]
<1>1. PICK c \in a.groups :
        /\ a.pc = "pick" /\ b.pc = "check" /\ a.stage = "consensus" /\ b.stage = "consensus"
        /\ b.groups = a.groups \ {c}
        /\ b.cand = {Row(p, c, "consensus", GroupOf(a.remaining, c))}
        /\ SameRead(a, b) /\ b.remaining = a.remaining /\ b.todo = a.todo
        /\ b.report = a.report /\ promoted' = promoted
  BY NextGroupMoves
<1>2. a.cand = {} /\ Held(a) = {} /\ Held(b) = {c}
  BY <1>1 DEF Row, Held, TypeOK, Consistent
<1>3. IsFiniteSet(a.groups) /\ Tries(a) \in Nat
  BY <1>1, Countable
<1>4. /\ Quorate(b) = Quorate(a) /\ GivenBack(b) = GivenBack(a) /\ Matched(b) = Matched(a)
      /\ b.snapshot = a.snapshot
  BY <1>1, LeftSame DEF SameRead
<1>. HIDE DEF a, b
<1>5. /\ Tries(a) + Pending(a) + InHand(a) = Due(a)
      /\ a.snapshot \ Matched(a) \subseteq a.remaining /\ Tried(p)
      /\ Cardinality(GivenBack(a)) + Cardinality(Rowless(p)) <= a.report.insert_failures
  BY <1>1 DEF AccountOK, Live, a
<1>6. Tries(b) + Pending(b) + InHand(b) = Due(b)
  <2>1. Cardinality(b.groups) = Cardinality(a.groups) - 1 /\ Cardinality(a.groups) \in Nat
    BY <1>1, <1>3, FS_RemoveElement, FS_CardinalityType
  <2>2. Tries(b) = Tries(a)
    BY <1>1 DEF Tries
  <2>3. Due(b) = Due(a) /\ Pending(a) = Cardinality(a.groups) /\ Pending(b) = Cardinality(b.groups)
        /\ InHand(a) = 0 /\ InHand(b) = 1
    BY <1>1, <1>4 DEF Due, Pending, InHand
  <2>. QED  BY <1>3, <1>5, <2>1, <2>2, <2>3
<1>7. Tried(p)'
  BY <1>1, <1>2, <1>4, <1>5 DEF Tried, HasRow, a, b
<1>8. Rowless(p)' = Rowless(p)
  <2>1. a.groups \cup Held(a) = b.groups \cup Held(b)
    BY <1>1, <1>2
  <2>. QED  BY <1>1, <1>4, <2>1 DEF Rowless, HasRow, a, b
<1>. QED  BY <1>1, <1>4, <1>5, <1>6, <1>7, <1>8 DEF AccountOK, a, b

LEMMA MergeAccount ==
  ASSUME TypeOK, NEW p \in Passes, PassOK(p), AccountOK(p), merge_consensus_into(p)
  PROVE  AccountOK(p)'
<1>. DEFINE a == pass[p]
            b == pass'[p]
<1>1. /\ a.pc = "pick" /\ b.pc = "ended" /\ a.stage = "consensus" /\ b.stage = "consensus"
      /\ a.groups = {} /\ SameWork(a, b) /\ b.cand = a.cand
      /\ b.report = a.report /\ promoted' = promoted
  BY MergeMoves
<1>2. /\ Quorate(b) = Quorate(a) /\ GivenBack(b) = GivenBack(a) /\ Matched(b) = Matched(a)
      /\ b.snapshot = a.snapshot /\ b.remaining = a.remaining
      /\ b.todo = a.todo /\ b.groups = a.groups
  BY <1>1, LeftSame DEF SameWork, SameRead
<1>. HIDE DEF a, b
<1>3. /\ Tries(a) + Pending(a) + InHand(a) = Due(a)
      /\ a.snapshot \ Matched(a) \subseteq a.remaining /\ Tried(p)
      /\ Cardinality(GivenBack(a)) + Cardinality(Rowless(p)) <= a.report.insert_failures
  BY <1>1 DEF AccountOK, Live, a
<1>4. Tries(b) + Pending(b) + InHand(b) = Due(b)
  BY <1>1, <1>2, <1>3 DEF Tries, Pending, InHand, Due
<1>5. Tried(p)' /\ Rowless(p)' = Rowless(p)
  BY <1>1, <1>2, <1>3 DEF Tried, Rowless, HasRow, Held, a, b
<1>. QED  BY <1>1, <1>2, <1>3, <1>4, <1>5 DEF AccountOK, a, b

\* A row in hand is either found to be there already, or tried next.
LEMMA CheckAccount ==
  ASSUME TypeOK, NEW p \in Passes, PassOK(p), AccountOK(p), dedup_already_promoted(p)
  PROVE  AccountOK(p)'
<1>. DEFINE a == pass[p]
            b == pass'[p]
            rep == a.report
<1>1. PICK row \in PromotedRow :
        /\ a.pc = "check" /\ a.cand = {row} /\ b.stage = a.stage
        /\ SameWork(a, b) /\ promoted' = promoted
        /\ \/ b.pc = "insert" /\ b.cand = {row} /\ b.report = rep
           \/ /\ b.pc = "pick" /\ b.cand = {} /\ \E x \in promoted : x.claim = row.claim
              /\ Counters(b.report, rep.authoritative_promoted, rep.groups_promoted,
                          rep.skipped_already_promoted + 1, rep.insert_failures)
  BY CheckMoves
<1>2. /\ Quorate(b) = Quorate(a) /\ GivenBack(b) = GivenBack(a) /\ Matched(b) = Matched(a)
      /\ b.snapshot = a.snapshot /\ b.remaining = a.remaining
      /\ b.todo = a.todo /\ b.groups = a.groups
  BY <1>1, LeftSame DEF SameWork, SameRead
<1>3. \A x \in row.supports : x.claim = row.claim
  BY <1>1 DEF PassOK, BackedOK, Backed, GroupOf
<1>4. a.report \in Report /\ Tries(a) \in Nat
  BY Countable DEF TypeOK, PassRecord
<1>5. IsFiniteSet(a.todo) /\ (a.stage = "consensus" => IsFiniteSet(a.groups))
      /\ a.stage \in {"auth", "consensus"}
  BY Countable DEF TypeOK, PassRecord
<1>. HIDE DEF a, b
<1>6. /\ Tries(a) + Pending(a) + InHand(a) = Due(a)
      /\ a.snapshot \ Matched(a) \subseteq a.remaining /\ Tried(p)
      /\ Cardinality(GivenBack(a)) + Cardinality(Rowless(p)) <= a.report.insert_failures
  BY <1>1 DEF AccountOK, Live, a
<1>7. Pending(b) = Pending(a) /\ Due(b) = Due(a) /\ Pending(a) \in Nat /\ InHand(a) = 1
  BY <1>1, <1>2, <1>5, FS_CardinalityType DEF Pending, Due, InHand
<1>8. CASE b.pc = "insert" /\ b.cand = {row} /\ b.report = a.report
  <2>1. Tries(b) = Tries(a) /\ InHand(b) = 1
    BY <1>8 DEF Tries, InHand
  <2>2. Tried(p)' /\ Rowless(p)' = Rowless(p)
    BY <1>1, <1>2, <1>6, <1>8 DEF Tried, Rowless, HasRow, Held, a, b
  <2>. QED  BY <1>2, <1>6, <1>7, <1>8, <2>1, <2>2 DEF AccountOK, a, b
<1>9. CASE /\ b.pc = "pick" /\ b.cand = {} /\ \E x \in promoted : x.claim = row.claim
           /\ Counters(b.report, a.report.authoritative_promoted, a.report.groups_promoted,
                       a.report.skipped_already_promoted + 1, a.report.insert_failures)
  <2>1. Tries(b) = Tries(a) + 1 /\ InHand(b) = 0
        /\ b.report.insert_failures = a.report.insert_failures
    BY <1>4, <1>9 DEF Tries, InHand, Counters, Report
  <2>2. Tries(b) + Pending(b) + InHand(b) = Due(b)
    BY <1>4, <1>6, <1>7, <2>1
  <2>3. Tried(p)'
    BY <1>1, <1>2, <1>3, <1>6, <1>9 DEF Tried, HasRow, a, b
  <2>4. Rowless(p)' = Rowless(p)
    <3>1. HasRow(row.claim) /\ Held(a) = {row.claim} /\ Held(b) = {}
      BY <1>1, <1>9 DEF HasRow, Held
    <3>. QED  BY <1>1, <1>2, <3>1 DEF Rowless, HasRow, a, b
  <2>. QED  BY <1>2, <1>6, <2>1, <2>2, <2>3, <2>4 DEF AccountOK, a, b
<1>. QED  BY <1>1, <1>8, <1>9

\* A row in hand is inserted, or given back, or a failure of the consensus pass.
LEMMA InsertAccount ==
  ASSUME TypeOK, NEW p \in Passes, PassOK(p), AccountOK(p), insert(p)
  PROVE  AccountOK(p)'
<1>. DEFINE a == pass[p]
            b == pass'[p]
            rep == a.report
            auth == IF a.stage = "auth" THEN 1 ELSE 0
<1>1. PICK row \in PromotedRow :
        /\ a.pc = "insert" /\ b.pc = "pick" /\ a.cand = {row} /\ b.cand = {}
        /\ row.pass = p /\ row.supports \cap a.todo = {}
        /\ b.stage = a.stage /\ SameRead(a, b) /\ b.todo = a.todo /\ b.groups = a.groups
        /\ \/ /\ promoted' = promoted \cup {row} /\ b.remaining = a.remaining
              /\ Counters(b.report, rep.authoritative_promoted + auth,
                          rep.groups_promoted + (1 - auth),
                          rep.skipped_already_promoted, rep.insert_failures)
           \/ /\ promoted' = promoted
              /\ b.remaining = IF a.stage = "auth" THEN a.remaining \cup row.supports
                                                   ELSE a.remaining
              /\ Counters(b.report, rep.authoritative_promoted, rep.groups_promoted,
                          rep.skipped_already_promoted, rep.insert_failures + 1)
  BY InsertMoves
<1>2. /\ \A x \in row.supports : x.claim = row.claim
      /\ row.path = a.stage /\ row.supports \subseteq a.snapshot
      /\ a.stage = "auth" => row.supports \subseteq Matched(a)
  BY <1>1 DEF PassOK, BackedOK, Backed, GroupOf, Matched
<1>3. /\ a.report \in Report /\ Tries(a) \in Nat /\ a.report.insert_failures \in Nat
      /\ IsFiniteSet(a.todo) /\ (a.stage = "consensus" => IsFiniteSet(a.groups))
      /\ a.stage \in {"auth", "consensus"} /\ IsFiniteSet(GivenBack(a)) /\ IsFiniteSet(Rowless(p))
  BY Countable DEF TypeOK, PassRecord
<1>4. Matched(b) = Matched(a) /\ b.snapshot = a.snapshot
  BY <1>1, ReadSame DEF SameRead
<1>. HIDE DEF a, b
<1>5. /\ Tries(a) + Pending(a) + InHand(a) = Due(a)
      /\ a.snapshot \ Matched(a) \subseteq a.remaining /\ Tried(p)
      /\ Cardinality(GivenBack(a)) + Cardinality(Rowless(p)) <= a.report.insert_failures
  BY <1>1 DEF AccountOK, Live, a
<1>6. /\ Cardinality(GivenBack(a)) \in Nat /\ Cardinality(Rowless(p)) \in Nat
      /\ Pending(b) = Pending(a) /\ Pending(a) \in Nat /\ InHand(a) = 1 /\ InHand(b) = 0
  BY <1>1, <1>3, FS_CardinalityType DEF Pending, InHand
<1>7. Held(a) = {row.claim} /\ Held(b) = {}
  BY <1>1 DEF Held
<1>8. ASSUME promoted' = promoted \cup {row}, b.remaining = a.remaining,
             Counters(b.report, rep.authoritative_promoted + auth, rep.groups_promoted + (1 - auth),
                      rep.skipped_already_promoted, rep.insert_failures)
      PROVE  AccountOK(p)'
  <2>1. Quorate(b) = Quorate(a) /\ GivenBack(b) = GivenBack(a)
    BY <1>1, <1>8, LeftSame
  <2>2. Tries(b) = Tries(a) + 1 /\ b.report.insert_failures = a.report.insert_failures
    BY <1>3, <1>8 DEF Tries, Counters, Report
  <2>3. Tries(b) + Pending(b) + InHand(b) = Due(b)
    <3>1. Due(b) = Due(a)
      BY <1>1, <1>4, <2>1 DEF Due
    <3>. QED  BY <1>3, <1>5, <1>6, <2>2, <3>1
  <2>4. Tried(p)'
    BY <1>1, <1>2, <1>4, <1>5, <1>8 DEF Tried, HasRow, a, b
  <2>5. Rowless(p)' \subseteq Rowless(p)
    BY <1>1, <1>7, <1>8, <2>1 DEF Rowless, HasRow, a, b
  <2>6. Cardinality(Rowless(p)') <= Cardinality(Rowless(p)) /\ Cardinality(Rowless(p)') \in Nat
    BY <1>3, <2>5, FS_Subset, FS_CardinalityType
  <2>7. Cardinality(GivenBack(b)) + Cardinality(Rowless(p)') <= b.report.insert_failures
    BY <1>3, <1>5, <1>6, <2>1, <2>2, <2>6
  <2>. QED  BY <1>4, <1>5, <1>8, <2>3, <2>4, <2>7 DEF AccountOK, a, b
<1>9. ASSUME promoted' = promoted, a.stage = "auth",
             b.remaining = a.remaining \cup row.supports,
             Counters(b.report, rep.authoritative_promoted, rep.groups_promoted,
                      rep.skipped_already_promoted, rep.insert_failures + 1)
      PROVE  AccountOK(p)'
  <2>1. Tries(b) = Tries(a) + 1 /\ b.report.insert_failures = a.report.insert_failures + 1
    BY <1>3, <1>9 DEF Tries, Counters, Report
  <2>2. Tries(b) + Pending(b) + InHand(b) = Due(b)
    <3>1. Due(b) = Due(a)
      BY <1>1, <1>4, <1>9 DEF Due
    <3>. QED  BY <1>3, <1>5, <1>6, <2>1, <3>1
  <2>3. Tried(p)'
    BY <1>1, <1>4, <1>5, <1>9 DEF Tried, HasRow, a, b
  <2>4. Rowless(p) = {} /\ Rowless(p)' = {}
    BY <1>1, <1>9 DEF Rowless, a, b
  <2>5. PICK x : row.supports = {x}
    BY <1>1, <1>9 DEF PassOK, AuthOK, a
  <2>6. GivenBack(b) \subseteq GivenBack(a) \cup {x}
    BY <1>4, <1>9, <2>5 DEF GivenBack
  <2>7. /\ Cardinality(GivenBack(b)) <= Cardinality(GivenBack(a)) + 1
        /\ Cardinality(GivenBack(b)) \in Nat
    <3>1. /\ IsFiniteSet(GivenBack(a) \cup {x})
          /\ Cardinality(GivenBack(a) \cup {x}) <= Cardinality(GivenBack(a)) + 1
          /\ Cardinality(GivenBack(a) \cup {x}) \in Nat
      BY <1>3, OneMore
    <3>2. /\ IsFiniteSet(GivenBack(b))
          /\ Cardinality(GivenBack(b)) <= Cardinality(GivenBack(a) \cup {x})
      BY <2>6, <3>1, FS_Subset
    <3>3. Cardinality(GivenBack(b)) \in Nat
      BY <3>2, FS_CardinalityType
    <3>. QED  BY <1>6, <3>1, <3>2, <3>3
  <2>8. Cardinality(GivenBack(b)) + Cardinality(Rowless(p)') <= b.report.insert_failures
    BY <1>3, <1>5, <1>6, <2>1, <2>4, <2>7
  <2>. QED  BY <1>4, <1>5, <1>9, <2>2, <2>3, <2>8 DEF AccountOK, a, b
<1>10. ASSUME promoted' = promoted, a.stage = "consensus", b.remaining = a.remaining,
              Counters(b.report, rep.authoritative_promoted, rep.groups_promoted,
                       rep.skipped_already_promoted, rep.insert_failures + 1)
       PROVE  AccountOK(p)'
  <2>1. Quorate(b) = Quorate(a) /\ GivenBack(b) = GivenBack(a)
    BY <1>1, <1>10, LeftSame
  <2>2. Tries(b) = Tries(a) + 1 /\ b.report.insert_failures = a.report.insert_failures + 1
    BY <1>3, <1>10 DEF Tries, Counters, Report
  <2>3. Tries(b) + Pending(b) + InHand(b) = Due(b)
    <3>1. Due(b) = Due(a)
      BY <1>1, <1>4, <2>1 DEF Due
    <3>. QED  BY <1>3, <1>5, <1>6, <2>2, <3>1
  <2>4. Tried(p)'
    BY <1>1, <1>2, <1>4, <1>5, <1>10 DEF Tried, HasRow, a, b
  <2>5. Rowless(p)' \subseteq Rowless(p) \cup {row.claim}
    BY <1>1, <1>7, <1>10, <2>1 DEF Rowless, HasRow, a, b
  <2>6. /\ Cardinality(Rowless(p)') <= Cardinality(Rowless(p)) + 1
        /\ Cardinality(Rowless(p)') \in Nat
    <3>1. /\ IsFiniteSet(Rowless(p) \cup {row.claim})
          /\ Cardinality(Rowless(p) \cup {row.claim}) <= Cardinality(Rowless(p)) + 1
          /\ Cardinality(Rowless(p) \cup {row.claim}) \in Nat
      BY <1>3, OneMore
    <3>2. /\ IsFiniteSet(Rowless(p)')
          /\ Cardinality(Rowless(p)') <= Cardinality(Rowless(p) \cup {row.claim})
      BY <2>5, <3>1, FS_Subset
    <3>3. Cardinality(Rowless(p)') \in Nat
      BY <3>2, FS_CardinalityType
    <3>. QED  BY <1>6, <3>1, <3>2, <3>3
  <2>7. Cardinality(GivenBack(b)) + Cardinality(Rowless(p)') <= b.report.insert_failures
    BY <1>3, <1>5, <1>6, <2>1, <2>2, <2>6
  <2>. QED  BY <1>4, <1>5, <1>10, <2>3, <2>4, <2>7 DEF AccountOK, a, b
<1>. QED  BY <1>1, <1>3, <1>8, <1>9, <1>10


LEMMA DiesAccount ==
  ASSUME TypeOK, NEW p \in Passes, AccountOK(p), ProcessDies
  PROVE  AccountOK(p)'
<1>1. promoted' = promoted
  BY DEF ProcessDies
<1>2. CASE pass'[p].pc = "dead"
  BY <1>2 DEF AccountOK, Live
<1>3. CASE pass'[p] = pass[p]
  BY <1>1, <1>3 DEF AccountOK, Tried, Rowless, HasRow
<1>. QED  BY <1>2, <1>3, DiesMoves

\* Rows of other passes are never a loss to a pass.
LEMMA OthersAccount ==
  ASSUME TypeOK, NEW q \in Passes, PassOK(q), AccountOK(q),
         pass'[q] = pass[q], promoted \subseteq promoted'
  PROVE  AccountOK(q)'
<1>. DEFINE r == pass[q]
<1>1. IsFiniteSet(GivenBack(r)) /\ IsFiniteSet(Rowless(q)) /\ r.report.insert_failures \in Nat
  BY Countable
<1>2. \A c : HasRow(c) => HasRow(c)'
  BY DEF HasRow
<1>3. Rowless(q)' \subseteq Rowless(q)
  BY <1>2 DEF Rowless
<1>4. Tried(q) => Tried(q)'
  BY <1>2 DEF Tried
<1>5. /\ Cardinality(Rowless(q)') <= Cardinality(Rowless(q))
      /\ Cardinality(Rowless(q)') \in Nat /\ Cardinality(Rowless(q)) \in Nat
      /\ Cardinality(GivenBack(r)) \in Nat
  BY <1>1, <1>3, FS_Subset, FS_CardinalityType
<1>6. ASSUME Live(r)
      PROVE  Cardinality(GivenBack(r)) + Cardinality(Rowless(q)') <= r.report.insert_failures
  BY <1>1, <1>5, <1>6 DEF AccountOK
<1>. QED  BY <1>4, <1>6 DEF AccountOK

LEMMA AccountsStep == TypeOK /\ PassesOK /\ AccountsOK /\ [Next]_vars => AccountsOK'
<1>. SUFFICES ASSUME TypeOK, PassesOK, AccountsOK, [Next]_vars, NEW q \in Passes
              PROVE  AccountOK(q)'
  BY DEF AccountsOK
<1>0. PassOK(q) /\ AccountOK(q) /\ TypeOK'
  BY StepTypes DEF PassesOK, AccountsOK
<1>1. CASE (\E a \in Evidence : extract(a)) \/ reload \/ UNCHANGED vars
  <2>1. pass' = pass /\ promoted' = promoted
    BY <1>1 DEF extract, reload, vars
  <2>. QED  BY <1>0, <2>1, OthersAccount
<1>2. ASSUME NEW p \in Passes, promote_consensus_for_plan(p) \/ PassStep(p)
      PROVE  AccountOK(q)'
  <2>1. CASE p = q
    BY <1>0, <1>2, <2>1, StartAccount, NextAccount, GroupAccount, NextGroupAccount,
       CheckAccount, InsertAccount, MergeAccount
    DEF PassStep
  <2>2. CASE p # q
    <3>1. pass'[q] = pass[q]
      BY <1>2, <2>2 DEF TypeOK, Become, promote_consensus_for_plan, PassStep, next_authoritative,
           group_assertions_for_consensus, next_group, dedup_already_promoted, insert,
           merge_consensus_into
    <3>2. promoted \subseteq promoted'
      BY <1>2 DEF promote_consensus_for_plan, PassStep, next_authoritative,
           group_assertions_for_consensus, next_group, dedup_already_promoted, insert,
           merge_consensus_into
    <3>. QED  BY <1>0, <3>1, <3>2, OthersAccount
  <2>. QED  BY <2>1, <2>2
<1>3. CASE ProcessDies
  BY <1>0, <1>3, DiesAccount
<1>. QED  BY <1>1, <1>2, <1>3 DEF Next

LEMMA AccountsInit == Init => AccountsOK
BY DEF Init, Idle, AccountsOK, AccountOK, Live

LEMMA AccountsCorrect == Spec => [](TypeOK /\ PassesOK /\ AccountsOK)
BY InitTypes, StepTypes, PassesInit, PassesStep, AccountsInit, AccountsStep, PTL DEF Spec

(***************************************************************************)
(* The report a pass returns is true of the tables, whatever other passes, *)
(* extraction and reloads do meanwhile: its counters of promotions are the *)
(* rows it made, at its end each assertion of an authority and each group  *)
(* that meets its quorum has been counted once, and those without a row of *)
(* their claim are no more than the failed inserts it reports.             *)
(***************************************************************************)
THEOREM ReportIsTrue == Spec => []ReportMatchesStore
<1>1. TypeOK /\ PassesOK /\ AccountsOK => ReportMatchesStore
  <2>. SUFFICES ASSUME TypeOK, PassesOK, AccountsOK, NEW p \in Passes
                PROVE
         LET rep == pass[p].report
             left == pass[p].remaining
             rows(path) == {x \in promoted : x.pass = p /\ x.path = path}
             matched == {a \in pass[p].snapshot : Matches(pass[p].registry, a)}
             quorate == {c \in ClaimsOf(left) :
                           QuorumMet(pass[p].registry, pass[p].quorum, GroupOf(left, c))}
             rowless == {c \in quorate : \A x \in promoted : x.claim # c}
         IN  /\ rep.authoritative_promoted = Cardinality(rows("auth"))
             /\ rep.groups_promoted = Cardinality(rows("consensus"))
             /\ pass[p].pc = "ended" =>
                  /\ rep.authoritative_promoted + rep.groups_promoted
                       + rep.skipped_already_promoted + rep.insert_failures
                     = Cardinality(matched) + Cardinality(quorate)
                  /\ pass[p].snapshot \ matched \subseteq left
                  /\ \A a \in matched \ left : \E x \in promoted : x.claim = a.claim
                  /\ Cardinality(matched \cap left) + Cardinality(rowless) <= rep.insert_failures
    BY DEF ReportMatchesStore
  <2>. DEFINE r == pass[p]
              without == {c \in Quorate(r) : \A x \in promoted : x.claim # c}
  <2>1. PassOK(p) /\ AccountOK(p)
    BY DEF PassesOK, AccountsOK
  <2>2. /\ r.report.authoritative_promoted = Cardinality(RowsOf(p, "auth"))
        /\ r.report.groups_promoted = Cardinality(RowsOf(p, "consensus"))
    BY <2>1 DEF PassOK, CountOK
  <2>3. ASSUME r.pc = "ended"
        PROVE  /\ Tries(r) = Cardinality(Matched(r)) + Cardinality(Quorate(r))
               /\ r.snapshot \ Matched(r) \subseteq r.remaining
               /\ \A a \in Matched(r) \ r.remaining : \E x \in promoted : x.claim = a.claim
               /\ Cardinality(GivenBack(r)) + Cardinality(without) <= r.report.insert_failures
    <3>1. r.stage = "consensus" /\ r.groups = {} /\ r.todo = {} /\ r.cand = {}
      BY <2>1, <2>3 DEF PassOK, GroupsOK, TypeOK, Consistent
    <3>2. /\ Tries(r) + Pending(r) + InHand(r) = Due(r)
          /\ r.snapshot \ Matched(r) \subseteq r.remaining /\ Tried(p)
          /\ Cardinality(GivenBack(r)) + Cardinality(Rowless(p)) <= r.report.insert_failures
      BY <2>1, <2>3 DEF AccountOK, Live
    <3>3. Pending(r) = 0 /\ InHand(r) = 0 /\ Tries(r) \in Nat
      BY <2>1, <2>3, <3>1, FS_EmptySet, Countable DEF Pending, InHand
    <3>4. Due(r) = Cardinality(Matched(r)) + Cardinality(Quorate(r))
      BY <3>1 DEF Due
    <3>5. Rowless(p) = without
      BY <3>1 DEF Rowless, Held, HasRow
    <3>6. \A a \in Matched(r) \ r.remaining : \E x \in promoted : x.claim = a.claim
      BY <3>1, <3>2 DEF Tried, HasRow
    <3>7. Tries(r) = Due(r)
      BY <3>2, <3>3
    <3>. QED  BY <3>2, <3>4, <3>5, <3>6, <3>7
  <2>. QED  BY <2>2, <2>3 DEF RowsOf, Tries, Matched, Quorate, GivenBack
<1>. QED  BY <1>1, AccountsCorrect, PTL

(***************************************************************************)
(* A pass that had no failed insert leaves nothing it read behind: what an *)
(* authority asserted, or enough claimants did, is promoted at its end, by *)
(* this pass or by another.                                                *)
(***************************************************************************)
THEOREM PassLeavesNothing == Spec => []CompletePass
<1>1. TypeOK /\ PassesOK => CompletePass
  <2>. SUFFICES ASSUME TypeOK, PassesOK, NEW p \in Passes,
                       pass[p].pc = "ended", pass[p].report.insert_failures = 0,
                       NEW c \in ClaimsOf(pass[p].snapshot),
                       \/ \E a \in GroupOf(pass[p].snapshot, c) : Matches(pass[p].registry, a)
                       \/ QuorumMet(pass[p].registry, pass[p].quorum, GroupOf(pass[p].snapshot, c))
                PROVE  \E row \in promoted : row.claim = c
    BY DEF CompletePass
  <2>1. CompleteOK(p) /\ GroupsOK(p)
    BY DEF PassesOK, PassOK
  <2>2. /\ pass[p].todo = {} /\ pass[p].groups = {} /\ pass[p].stage = "consensus"
        /\ Held(pass[p]) = {}
    BY <2>1 DEF GroupsOK, Held, TypeOK, Consistent
  <2>3. CASE \E a \in GroupOf(pass[p].snapshot, c) : Matches(pass[p].registry, a)
    <3>1. PICK a \in GroupOf(pass[p].snapshot, c) : Matches(pass[p].registry, a)
      BY <2>3
    <3>2. a \in Matched(pass[p]) /\ a.claim = c
      BY <3>1 DEF Matched, GroupOf
    <3>. QED  BY <2>1, <2>2, <3>2 DEF CompleteOK, Done
  <2>4. CASE /\ \A a \in GroupOf(pass[p].snapshot, c) : ~Matches(pass[p].registry, a)
             /\ QuorumMet(pass[p].registry, pass[p].quorum, GroupOf(pass[p].snapshot, c))
    <3>1. pass[p].remaining = {a \in pass[p].snapshot : ~Matches(pass[p].registry, a)}
      BY <2>1 DEF CompleteOK
    <3>2. GroupOf(pass[p].remaining, c) = GroupOf(pass[p].snapshot, c)
      BY <2>4, <3>1 DEF GroupOf
    <3>3. c \in ClaimsOf(pass[p].remaining)
      BY <2>4, <3>1 DEF GroupOf, ClaimsOf
    <3>. QED  BY <2>1, <2>2, <2>4, <3>2, <3>3 DEF CompleteOK, Done
  <2>. QED  BY <2>3, <2>4
<1>. QED  BY <1>1, PassesCorrect, PTL

\* Every non-empty set of numbers has a least one, so the bar of a group is one of
\* those its members have.
LEMMA LowestBar ==
  ASSUME NEW S, S \subseteq Nat, S # {}
  PROVE  Min(S) \in S
<1>. DEFINE Before == {ss \in Nat \X Nat : ss[1] < ss[2]}
<1>1. IsWellFoundedOn(Before, Nat)
  BY NatLessThanWellFounded, Zenon DEF OpToRel
<1>. HIDE DEF Before
<1>2. PICK t \in S : \A u \in S : ~(<<u, t>> \in Before)
  BY <1>1, WFMin, Zenon
<1>3. ASSUME NEW u \in S PROVE t <= u
  <2>1. <<u, t>> \notin Before
    BY <1>2
  <2>. QED
    BY <2>1 DEF Before
<1>. QED
  BY <1>3 DEF Min

(***************************************************************************)
(* A row rests on an authority, or on as many independent claimants as the *)
(* lowest bar that one of them has in the registry its pass read, although *)
(* the registry is reloaded meanwhile; and no assertion counts twice.      *)
(***************************************************************************)
THEOREM RowsBacked == Spec => []QuorumBacked
<1>1. TypeOK /\ PassesOK => QuorumBacked
  <2>. SUFFICES ASSUME TypeOK, PassesOK, NEW row \in promoted
                PROVE  LET p == row.pass IN
                  /\ row.supports # {} /\ row.supports \subseteq GroupOf(pass[p].snapshot, row.claim)
                  /\ IF row.path = "auth"
                       THEN \A a \in row.supports : Matches(pass[p].registry, a)
                       ELSE /\ \E q \in {pass[p].quorum} \cup Overrides(pass[p].registry, row.supports) :
                                 Cardinality({a.claimant : a \in row.supports}) >= q
                            /\ \A x \in promoted : x.pass = p /\ x.path = "auth" =>
                                 x.supports \cap row.supports = {}
    BY DEF QuorumBacked
  <2>. DEFINE p == row.pass
  <2>1. p \in Passes /\ row.path \in {"auth", "consensus"}
    BY DEF TypeOK, PromotedRow
  <2>2. BackedOK(p)
    BY <2>1 DEF PassesOK, PassOK
  <2>3. Backed(pass[p], row)
    BY <2>2 DEF BackedOK
  <2>4. ASSUME row.path # "auth"
        PROVE  \E q \in {pass[p].quorum} \cup Overrides(pass[p].registry, row.supports) :
                 Cardinality({a.claimant : a \in row.supports}) >= q
    <3>. DEFINE bars == {pass[p].quorum} \cup Overrides(pass[p].registry, row.supports)
    <3>1. pass[p].quorum \in Nat /\ pass[p].registry \subseteq AuthorityEntry
      <4>1. pass[p] \in PassRecord
        BY <2>1 DEF TypeOK
      <4>2. pass[p].quorum \in Quorums \cup {0} /\ pass[p].registry \in Registries \cup {{}}
        BY <4>1 DEF PassRecord
      <4>3. pass[p].quorum \in Nat
        <5>1. Quorums \cup {0} \subseteq Nat
          BY DEF PromoteAssumption
        <5>. QED  BY <4>2, <5>1, Zenon
      <4>4. pass[p].registry \subseteq AuthorityEntry
        <5>1. CASE pass[p].registry \in Registries
          BY <5>1
        <5>2. CASE pass[p].registry = {}
          BY <5>2
        <5>. QED  BY <4>2, <5>1, <5>2
      <4>. QED  BY <4>3, <4>4
    <3>2. Overrides(pass[p].registry, row.supports) \subseteq Nat
      BY <3>1 DEF Overrides, AuthorityEntry
    <3>3. Min(bars) \in bars
      BY <3>1, <3>2, LowestBar
    <3>4. Cardinality({a.claimant : a \in row.supports}) >= Min(bars)
      BY <2>3, <2>4 DEF Backed, QuorumMet, EffectiveQuorum
    <3>. QED  BY <3>3, <3>4
  <2>5. ASSUME row.path # "auth", NEW x \in promoted, x.pass = p, x.path = "auth"
        PROVE  x.supports \cap row.supports = {}
    BY <2>1, <2>2, <2>5 DEF BackedOK, RowsOf
  <2>. QED  BY <2>3, <2>4, <2>5 DEF Backed
<1>. QED  BY <1>1, PassesCorrect, PTL
=============================================================================
