--------------------------- MODULE TargetFairness ---------------------------
(***************************************************************************)
(* The expectations of a plan that every nomination is authored for:       *)
(* build_target_expectations in fetch_executor.rs draws them from its four *)
(* record-typed buckets in turn, up to a cap.                              *)
(***************************************************************************)
EXTENDS Integers, Sequences

CONSTANTS
  Buckets,  \* how many there are: observations, events, entities, relations
  MaxSize,  \* bound on the size of one
  MaxCap    \* bound on the cap

FairnessAssumption == Buckets \in Nat /\ MaxSize \in Nat /\ MaxCap \in Nat

VARIABLES
  sizes,         \* the entries of each bucket
  max,           \* MAX_TARGETS_PER_NOMINATION
  out,           \* the targets so far
  indices,       \* the entries taken of each bucket
  bucket,        \* the bucket the inner loop looks at
  any_progress,
  pc

targets == <<sizes, max, out, indices, bucket, any_progress, pc>>

TargetsInit ==
  /\ sizes \in [1..Buckets -> 0..MaxSize]
  /\ max \in 0..MaxCap
  /\ out = << >>
  /\ indices = [b \in 1..Buckets |-> 0]
  /\ bucket = Buckets + 1
  /\ any_progress = TRUE
  /\ pc = "while"

start_round ==
  /\ pc = "while" /\ Len(out) < max /\ any_progress = TRUE
  /\ any_progress' = FALSE
  /\ bucket' = 1
  /\ pc' = "for"
  /\ UNCHANGED <<sizes, max, out, indices>>

\* Mutant: a bucket is drained before the next one is looked at.
take_drains ==
  /\ pc = "for" /\ bucket <= Buckets /\ Len(out) < max
  /\ IF indices[bucket] < sizes[bucket]
     THEN /\ out' = Append(out, [bucket |-> bucket, index |-> indices[bucket]])
          /\ indices' = [indices EXCEPT ![bucket] = @ + 1]
          /\ any_progress' = TRUE
          /\ bucket' = bucket
     ELSE bucket' = bucket + 1 /\ UNCHANGED <<out, indices, any_progress>>
  /\ UNCHANGED <<sizes, max, pc>>

take ==
  /\ pc = "for" /\ bucket <= Buckets /\ Len(out) < max
  /\ IF indices[bucket] < sizes[bucket]
     THEN /\ out' = Append(out, [bucket |-> bucket, index |-> indices[bucket]])
          /\ indices' = [indices EXCEPT ![bucket] = @ + 1]
          /\ any_progress' = TRUE
     ELSE UNCHANGED <<out, indices, any_progress>>
  /\ bucket' = bucket + 1
  /\ UNCHANGED <<sizes, max, pc>>

end_round ==
  /\ pc = "for" /\ (bucket > Buckets \/ Len(out) >= max)
  /\ pc' = "while"
  /\ UNCHANGED <<sizes, max, out, indices, bucket, any_progress>>

return ==
  /\ pc = "while" /\ ~(Len(out) < max /\ any_progress = TRUE)
  /\ pc' = "done"
  /\ UNCHANGED <<sizes, max, out, indices, bucket, any_progress>>

TargetsNext == start_round \/ take \/ end_round \/ return

TargetsSpec == TargetsInit /\ [][TargetsNext]_targets

-----------------------------------------------------------------------------
(***************************************************************************)
(* Properties                                                              *)
(***************************************************************************)
TargetsTypeOK ==
  /\ sizes \in [1..Buckets -> 0..MaxSize]
  /\ max \in 0..MaxCap
  /\ out \in Seq([bucket : 1..Buckets, index : Nat])
  /\ indices \in [1..Buckets -> Nat]
  /\ bucket \in 1..(Buckets + 1)
  /\ any_progress \in BOOLEAN
  /\ pc \in {"while", "for", "done"}

\* ADR 0018, fetch_executor.rs: "every non-empty bucket gets at least one slot":
\* the targets returned are distinct, fill the cap unless the plan has fewer, and
\* no bucket has two more than another that is not drained.
FairShare ==
  pc = "done" =>
    /\ Len(out) <= max
    /\ Len(out) < max => indices = sizes
    /\ \A b, c \in 1..Buckets : indices[c] < sizes[c] => indices[b] <= indices[c] + 1
    /\ \A i \in DOMAIN out : out[i].index < indices[out[i].bucket] /\ out[i].index < sizes[out[i].bucket]
    /\ \A i, j \in DOMAIN out : out[i] = out[j] => i = j
=============================================================================
