------------------------- MODULE HostBackoffProofs --------------------------
(***************************************************************************)
(* Proofs about HostBackoff: the types, and what the per-host state        *)
(* guarantees as long as the fetches of one host follow one another.       *)
(***************************************************************************)
EXTENDS HostBackoff, TLAPS

USE BackoffAssumption

(***************************************************************************)
(* The schedule never waits less than a second after a failure.            *)
(***************************************************************************)
LEMMA ScheduleType ==
  ASSUME NEW n \in Nat \ {0}
  PROVE  exponential_backoff(n) \in Nat \ {0}
<1>1. Least(n - 1, MaxShift) \in 0..MaxShift
  BY DEF Least
<1>2. 2^Least(n - 1, MaxShift) \in Nat \ {0}
  BY <1>1, PowersAssumption
<1>. DEFINE p == 2^Least(n - 1, MaxShift)
<1>3. p \in Nat \ {0}
  BY <1>2
<1>. HIDE DEF p
<1>4. Least(p, HOST_BACKOFF_MAX_SECS) \in Nat \ {0}
  BY <1>3 DEF Least
<1>5. exponential_backoff(n) = Least(p, HOST_BACKOFF_MAX_SECS)
  BY DEF exponential_backoff, p
<1>. QED
  BY <1>4, <1>5

(***************************************************************************)
(* What a recorded failure does to the map, whoever records it.            *)
(***************************************************************************)
LEMMA RecordFailure ==
  ASSUME TypeOK, NEW h \in Hosts, NEW hint \in RetryAfters \cup {NoHint},
         record_failure(h, hint)
  PROVE  /\ blocked' \in [Hosts -> Nat]
         /\ failures' \in [Hosts -> 0..MaxFailures]
         /\ failures'[h] > 0
         /\ \A x \in Hosts \ {h} : blocked'[x] = blocked[x] /\ failures'[x] = failures[x]
<1>. DEFINE n == Least(failures[h] + 1, MaxFailures)
            wait == IF hint \in Nat THEN hint ELSE exponential_backoff(n)
<1>1. n \in 0..MaxFailures /\ n > 0
  BY DEF TypeOK, Least
<1>2. wait \in Nat
  BY <1>1, ScheduleType
<1>3. /\ failures' = [failures EXCEPT ![h] = n]
      /\ blocked' = [blocked EXCEPT ![h] = wait]
  BY DEF record_failure
<1>. HIDE DEF n, wait
<1>. QED
  BY <1>1, <1>2, <1>3 DEF TypeOK

\* A retry is only ever the second request of its fetch.
TriesOK == \A f \in Fetches : fetch[f].pc = "backing_off" => fetch[f].tries = 1

(***************************************************************************)
(* Types hold whether or not fetches overlap.                              *)
(***************************************************************************)
LEMMA InitTypes == Init => TypeOK /\ TriesOK
  BY DEF Init, TypeOK, TriesOK, FetchRecord, Idle, Phases

LEMMA BecomeTypes ==
  ASSUME TypeOK, TriesOK, NEW f \in Fetches, NEW ff \in FetchRecord,
         ff.pc = "backing_off" => ff.tries = 1, Become(f, ff)
  PROVE  fetch' \in [Fetches -> FetchRecord] /\ TriesOK'
  BY DEF TypeOK, TriesOK, Become

LEMMA NextTypes == TypeOK /\ TriesOK /\ [Next]_vars => TypeOK' /\ TriesOK'
<1>. SUFFICES ASSUME TypeOK, TriesOK, [Next]_vars PROVE TypeOK' /\ TriesOK'
  OBVIOUS
<1>0. Idle \in FetchRecord /\ Idle.pc = "idle"
  BY DEF Idle, FetchRecord, Phases
<1>. DEFINE MapTypes == blocked' \in [Hosts -> Nat] /\ failures' \in [Hosts -> 0..MaxFailures]
<1>a. UNCHANGED <<blocked, failures>> => MapTypes
  BY DEF TypeOK
<1>1. ASSUME NEW f \in Fetches, fetch_with_backoff(f) PROVE TypeOK' /\ TriesOK'
  <2>1. PICK h \in Hosts \cup {NoHost} :
          Become(f, [pc |-> "pre_flight", host |-> h, tries |-> 1, timer |-> 0])
    BY <1>1 DEF fetch_with_backoff
  <2>. DEFINE ff == [pc |-> "pre_flight", host |-> h, tries |-> 1, timer |-> 0]
  <2>2. ff \in FetchRecord /\ ff.pc = "pre_flight"
    BY DEF FetchRecord, Phases
  <2>. HIDE DEF ff
  <2>. QED
    BY <1>1, <1>a, <2>1, <2>2, BecomeTypes DEF fetch_with_backoff, TypeOK, ff
<1>2. ASSUME NEW f \in Fetches, before_request(f) PROVE TypeOK' /\ TriesOK'
  <2>. DEFINE wait == IF fetch[f].host \in Hosts THEN blocked[fetch[f].host] ELSE 0
              r == [fetch[f] EXCEPT !.pc = "requesting"]
              s == [fetch[f] EXCEPT !.pc = "sleeping", !.timer = wait]
  <2>1. wait \in Nat
    BY DEF TypeOK
  <2>2. Become(f, r) \/ Become(f, s)
    BY <1>2 DEF before_request, Goto
  <2>. HIDE DEF wait
  <2>3. r \in FetchRecord /\ r.pc = "requesting" /\ s \in FetchRecord /\ s.pc = "sleeping"
    BY <2>1 DEF TypeOK, FetchRecord, Phases
  <2>. HIDE DEF r, s
  <2>. QED
    BY <1>2, <1>a, <2>2, <2>3, BecomeTypes DEF before_request, TypeOK
<1>3. ASSUME NEW f \in Fetches, wake(f) PROVE TypeOK' /\ TriesOK'
  <2>. DEFINE r == [fetch[f] EXCEPT !.pc = "requesting"]
  <2>1. r \in FetchRecord /\ r.pc = "requesting"
    BY DEF TypeOK, FetchRecord, Phases
  <2>2. Become(f, r)
    BY <1>3 DEF wake, Goto
  <2>. HIDE DEF r
  <2>. QED
    BY <1>3, <1>a, <2>1, <2>2, BecomeTypes DEF wake, TypeOK
<1>4. ASSUME NEW f \in Fetches, retry(f) PROVE TypeOK' /\ TriesOK'
  <2>. DEFINE r == [fetch[f] EXCEPT !.pc = "pre_flight", !.tries = @ + 1]
  <2>1. fetch[f].tries = 1 /\ fetch[f] \in FetchRecord
    BY <1>4 DEF retry, TypeOK, TriesOK
  <2>a. fetch[f].tries + 1 \in 0..2
    BY <2>1
  <2>2. r \in FetchRecord /\ r.pc = "pre_flight"
    <3>. DEFINE k == fetch[f].tries + 1
    <3>. HIDE DEF k
    <3>1. k \in 0..2
      BY <2>a DEF k
    <3>2. "pre_flight" \in Phases
      BY DEF Phases
    <3>3. r = [fetch[f] EXCEPT !.pc = "pre_flight", !.tries = k]
      BY DEF k
    <3>. QED
      BY <2>1, <3>1, <3>2, <3>3, Zenon DEF FetchRecord
  <2>3. Become(f, r)
    BY <1>4 DEF retry
  <2>. HIDE DEF r
  <2>. QED
    BY <1>4, <1>a, <2>2, <2>3, BecomeTypes DEF retry, TypeOK
<1>5. ASSUME NEW f \in Fetches, succeeds(f) PROVE TypeOK' /\ TriesOK'
  <2>1. MapTypes
    BY <1>5 DEF succeeds, record_success, TypeOK
  <2>. QED
    BY <1>0, <1>5, <2>1, BecomeTypes DEF succeeds, TypeOK
<1>6. ASSUME NEW f \in Fetches, rate_limited(f) PROVE TypeOK' /\ TriesOK'
  <2>1. PICK hint \in RetryAfters \cup {NoHint} :
          /\ record_failure(fetch[f].host, hint)
          /\ IF hint \in Nat /\ hint <= SHORT_BACKOFF_CEILING_SECS /\ fetch[f].tries = 1
               THEN Become(f, [fetch[f] EXCEPT !.pc = "backing_off", !.timer = hint])
               ELSE Become(f, Idle)
    BY <1>6 DEF rate_limited
  <2>2. MapTypes
    BY <1>6, <2>1, RecordFailure DEF rate_limited
  <2>3. CASE hint \in Nat /\ hint <= SHORT_BACKOFF_CEILING_SECS /\ fetch[f].tries = 1
    <3>. DEFINE r == [fetch[f] EXCEPT !.pc = "backing_off", !.timer = hint]
    <3>a. fetch[f] \in FetchRecord /\ fetch[f].tries = 1 /\ hint \in Nat /\ "backing_off" \in Phases
      BY <2>3 DEF TypeOK, Phases
    <3>1. r \in FetchRecord /\ r.tries = 1
      BY <3>a DEF FetchRecord
    <3>2. Become(f, r)
      BY <2>1, <2>3
    <3>. HIDE DEF r
    <3>. QED
      BY <2>2, <3>1, <3>2, BecomeTypes DEF TypeOK
  <2>4. CASE ~(hint \in Nat /\ hint <= SHORT_BACKOFF_CEILING_SECS /\ fetch[f].tries = 1)
    BY <1>0, <2>1, <2>2, <2>4, BecomeTypes DEF TypeOK
  <2>. QED
    BY <2>3, <2>4
<1>7. ASSUME NEW f \in Fetches, times_out(f) PROVE TypeOK' /\ TriesOK'
  <2>1. MapTypes
    BY <1>7, RecordFailure DEF times_out
  <2>. QED
    BY <1>0, <1>7, <2>1, BecomeTypes DEF times_out, TypeOK
<1>8. ASSUME NEW f \in Fetches, fails(f) PROVE TypeOK' /\ TriesOK'
  BY <1>0, <1>8, <1>a, BecomeTypes DEF fails, TypeOK
<1>9. CASE Tick
  <2>1. ASSUME NEW f \in Fetches PROVE fetch'[f] \in FetchRecord /\ fetch'[f].pc = fetch[f].pc
                                       /\ fetch'[f].tries = fetch[f].tries
    <3>1. fetch'[f] = [fetch[f] EXCEPT !.timer = Before(@)] /\ fetch[f] \in FetchRecord
      BY <1>9 DEF Tick, TypeOK
    <3>2. Before(fetch[f].timer) \in Nat
      BY <3>1 DEF FetchRecord, Before
    <3>. QED
      BY <3>1, <3>2 DEF FetchRecord
  <2>2. blocked' \in [Hosts -> Nat]
    <3>1. \A h \in Hosts : Before(blocked[h]) \in Nat
      BY DEF TypeOK, Before
    <3>. QED
      BY <1>9, <3>1 DEF Tick
  <2>. QED
    BY <1>9, <2>1, <2>2 DEF Tick, TypeOK, TriesOK
<1>10. CASE UNCHANGED vars
  BY <1>10 DEF vars, TypeOK, TriesOK
<1>. QED
  BY <1>1, <1>2, <1>3, <1>4, <1>5, <1>6, <1>7, <1>8, <1>9, <1>10 DEF Next, FetchStep

\* The map and every fetch keep their types for any number of fetches, hosts and
\* hints; in particular handle_rate_limit never leads to a third request.
THEOREM BackoffTypes == Spec => []TypeOK
<1>1. Init => TypeOK /\ TriesOK
  BY InitTypes
<1>2. (TypeOK /\ TriesOK) /\ [Next]_vars => (TypeOK /\ TriesOK)'
  BY NextTypes
<1>. QED
  BY <1>1, <1>2, PTL DEF Spec

-----------------------------------------------------------------------------
(***************************************************************************)
(* Fetches of one host that follow one another.  At most one fetch per     *)
(* host is under way, so nobody extends a block while it sleeps on it and  *)
(* its request is only sent when the host is free.                         *)
(***************************************************************************)
OnePerHost ==
  \A f, g \in Fetches :
    /\ fetch[f].pc # "idle" /\ fetch[g].pc # "idle"
    /\ fetch[f].host = fetch[g].host /\ fetch[f].host \in SerialHosts
    => f = g

SleepCoversBlock ==
  \A f \in Fetches : \A h \in SerialHosts :
    fetch[f].host = h /\ fetch[f].pc = "sleeping" => blocked[h] <= fetch[f].timer

RequestsUnblocked ==
  \A f \in Fetches : \A h \in SerialHosts :
    fetch[f].host = h /\ fetch[f].pc = "requesting" => blocked[h] = 0

SerialInv ==
  OnePerHost /\ SleepCoversBlock /\ RequestsUnblocked /\ BlockedMeansFailing

(***************************************************************************)
(* One fetch goes on and leaves the map alone.                             *)
(***************************************************************************)
LEMMA MapUntouched ==
  ASSUME TypeOK, SerialInv, NEW f \in Fetches, NEW ff \in FetchRecord, Become(f, ff),
         UNCHANGED <<blocked, failures>>,
         ff.pc # "idle" => \A g \in Fetches \ {f} :
                             fetch[g].pc = "idle" \/ fetch[g].host # ff.host \/ ff.host \notin SerialHosts,
         \A h \in SerialHosts : ff.host = h /\ ff.pc = "sleeping" => blocked[h] <= ff.timer,
         \A h \in SerialHosts : ff.host = h /\ ff.pc = "requesting" => blocked[h] = 0
  PROVE  SerialInv'
<1>1. /\ fetch'[f] = ff
      /\ \A g \in Fetches \ {f} : fetch'[g] = fetch[g]
  BY DEF Become, TypeOK
<1>2. OnePerHost'
  BY <1>1 DEF SerialInv, OnePerHost
<1>3. SleepCoversBlock'
  BY <1>1 DEF SerialInv, SleepCoversBlock
<1>4. RequestsUnblocked'
  BY <1>1 DEF SerialInv, RequestsUnblocked
<1>5. BlockedMeansFailing'
  BY DEF SerialInv, BlockedMeansFailing
<1>. QED
  BY <1>2, <1>3, <1>4, <1>5 DEF SerialInv

(***************************************************************************)
(* An answer is recorded for the host of the only fetch under way to it.   *)
(***************************************************************************)
LEMMA AnswerRecorded ==
  ASSUME TypeOK, SerialInv, NEW f \in Fetches, NEW ff \in FetchRecord, Become(f, ff),
         fetch[f].pc = "requesting", fetch[f].host \in Hosts,
         ff.pc \notin {"sleeping", "requesting"},
         ff.pc # "idle" => ff.host = fetch[f].host,
         blocked' \in [Hosts -> Nat],
         \A x \in Hosts \ {fetch[f].host} : blocked'[x] = blocked[x] /\ failures'[x] = failures[x],
         fetch[f].host \in SerialHosts /\ blocked'[fetch[f].host] > 0 => failures'[fetch[f].host] > 0
  PROVE  SerialInv'
<1>1. /\ fetch'[f] = ff
      /\ \A g \in Fetches \ {f} : fetch'[g] = fetch[g]
  BY DEF Become, TypeOK
<1>2. \A g \in Fetches \ {f} : fetch[g].pc = "idle" \/ fetch[g].host # fetch[f].host
                                \/ fetch[f].host \notin SerialHosts
  BY DEF SerialInv, OnePerHost
<1>3. OnePerHost'
  BY <1>1, <1>2 DEF SerialInv, OnePerHost
<1>4. SleepCoversBlock'
  BY <1>1, <1>2 DEF SerialInv, SleepCoversBlock
<1>5. RequestsUnblocked'
  BY <1>1, <1>2 DEF SerialInv, RequestsUnblocked
<1>6. BlockedMeansFailing'
  BY DEF SerialInv, BlockedMeansFailing
<1>. QED
  BY <1>3, <1>4, <1>5, <1>6 DEF SerialInv

LEMMA InitSerial == Init => SerialInv
  BY DEF Init, Idle, SerialInv, OnePerHost, SleepCoversBlock, RequestsUnblocked, BlockedMeansFailing

LEMMA NextSerial ==
  ASSUME TypeOK, TypeOK', SerialInv, [Next]_vars
  PROVE  SerialInv'
<1>0. Idle \in FetchRecord /\ Idle.pc = "idle"
  BY DEF Idle, FetchRecord, Phases
<1>1. ASSUME NEW f \in Fetches, fetch_with_backoff(f) PROVE SerialInv'
  <2>1. PICK h \in Hosts \cup {NoHost} :
          /\ h \in SerialHosts => \A g \in Fetches : fetch[g].pc = "idle" \/ fetch[g].host # h
          /\ Become(f, [pc |-> "pre_flight", host |-> h, tries |-> 1, timer |-> 0])
    BY <1>1 DEF fetch_with_backoff
  <2>. DEFINE ff == [pc |-> "pre_flight", host |-> h, tries |-> 1, timer |-> 0]
  <2>2. ff \in FetchRecord /\ ff.pc = "pre_flight" /\ ff.host = h
    BY DEF FetchRecord, Phases
  <2>. HIDE DEF ff
  <2>. QED
    BY <1>1, <2>1, <2>2, MapUntouched DEF fetch_with_backoff, ff
<1>2. ASSUME NEW f \in Fetches, before_request(f) PROVE SerialInv'
  <2>. DEFINE wait == IF fetch[f].host \in Hosts THEN blocked[fetch[f].host] ELSE 0
              r == [fetch[f] EXCEPT !.pc = "requesting"]
              s == [fetch[f] EXCEPT !.pc = "sleeping", !.timer = wait]
  <2>1. wait \in Nat
    BY DEF TypeOK
  <2>2. (wait = 0 /\ Become(f, r)) \/ Become(f, s)
    BY <1>2 DEF before_request, Goto
  <2>3. \A h \in Hosts : fetch[f].host = h => wait = blocked[h]
    OBVIOUS
  <2>. HIDE DEF wait
  <2>a. fetch[f] \in FetchRecord /\ {"requesting", "sleeping"} \subseteq Phases
    BY DEF TypeOK, Phases
  <2>b. r \in FetchRecord /\ r.pc = "requesting" /\ r.host = fetch[f].host
    BY <2>a DEF FetchRecord
  <2>c. s \in FetchRecord /\ s.pc = "sleeping" /\ s.host = fetch[f].host /\ s.timer = wait
    BY <2>a, <2>1 DEF FetchRecord
  <2>4. /\ r \in FetchRecord /\ r.pc = "requesting" /\ r.host = fetch[f].host
        /\ s \in FetchRecord /\ s.pc = "sleeping" /\ s.host = fetch[f].host /\ s.timer = wait
    BY <2>b, <2>c
  <2>. HIDE DEF r, s
  <2>5. /\ UNCHANGED <<blocked, failures>>
        /\ \A g \in Fetches \ {f} : fetch[g].pc = "idle" \/ fetch[g].host # fetch[f].host
                                     \/ fetch[f].host \notin SerialHosts
    BY <1>2 DEF before_request, SerialInv, OnePerHost
  <2>6. CASE wait = 0 /\ Become(f, r)
    BY <2>3, <2>4, <2>5, <2>6, MapUntouched
  <2>7. CASE Become(f, s)
    BY <2>1, <2>3, <2>4, <2>5, <2>7, MapUntouched
  <2>. QED
    BY <2>2, <2>6, <2>7
<1>3. ASSUME NEW f \in Fetches, wake(f) PROVE SerialInv'
  <2>. DEFINE r == [fetch[f] EXCEPT !.pc = "requesting"]
  <2>1. r \in FetchRecord /\ r.pc = "requesting" /\ r.host = fetch[f].host
    BY DEF TypeOK, FetchRecord, Phases
  <2>2. Become(f, r) /\ UNCHANGED <<blocked, failures>>
    BY <1>3 DEF wake, Goto
  <2>. HIDE DEF r
  <2>3. \A h \in SerialHosts : fetch[f].host = h => blocked[h] = 0
    BY BackoffAssumption, <1>3 DEF wake, SerialInv, SleepCoversBlock, TypeOK
  <2>4. \A g \in Fetches \ {f} : fetch[g].pc = "idle" \/ fetch[g].host # fetch[f].host
                                 \/ fetch[f].host \notin SerialHosts
    BY <1>3 DEF wake, SerialInv, OnePerHost
  <2>. QED
    BY <2>1, <2>2, <2>3, <2>4, MapUntouched
<1>4. ASSUME NEW f \in Fetches, retry(f) PROVE SerialInv'
  <2>1. /\ Become(f, fetch'[f]) /\ UNCHANGED <<blocked, failures>>
        /\ fetch'[f].pc = "pre_flight" /\ fetch'[f].host = fetch[f].host
        /\ fetch'[f] \in FetchRecord
    BY <1>4 DEF retry, Become, TypeOK, FetchRecord
  <2>2. \A g \in Fetches \ {f} : fetch[g].pc = "idle" \/ fetch[g].host # fetch[f].host
                                 \/ fetch[f].host \notin SerialHosts
    BY <1>4 DEF retry, SerialInv, OnePerHost
  <2>. QED
    BY <2>1, <2>2, MapUntouched
<1>5. ASSUME NEW f \in Fetches, succeeds(f) PROVE SerialInv'
  <2>1. /\ fetch[f].host \in SerialHosts => blocked'[fetch[f].host] = 0
        /\ \A x \in Hosts \ {fetch[f].host} : blocked'[x] = blocked[x] /\ failures'[x] = failures[x]
    BY <1>5 DEF succeeds, record_success, TypeOK, SerialInv, RequestsUnblocked
  <2>. QED
    BY <1>0, <1>5, <2>1, AnswerRecorded DEF succeeds, TypeOK
<1>6. ASSUME NEW f \in Fetches, rate_limited(f) PROVE SerialInv'
  <2>1. PICK hint \in RetryAfters \cup {NoHint} :
          /\ record_failure(fetch[f].host, hint)
          /\ \/ Become(f, [fetch[f] EXCEPT !.pc = "backing_off", !.timer = hint])
             \/ Become(f, Idle)
    BY <1>6 DEF rate_limited
  <2>2. /\ failures'[fetch[f].host] > 0
        /\ \A x \in Hosts \ {fetch[f].host} : blocked'[x] = blocked[x] /\ failures'[x] = failures[x]
    BY <1>6, <2>1, RecordFailure DEF rate_limited
  <2>. DEFINE r == [fetch[f] EXCEPT !.pc = "backing_off", !.timer = hint]
  <2>3. Become(f, r) \/ Become(f, Idle)
    BY <2>1
  <2>4. r.pc = "backing_off" /\ r.host = fetch[f].host
    BY DEF TypeOK, FetchRecord
  <2>. HIDE DEF r
  <2>5. fetch'[f] \in FetchRecord
    BY DEF TypeOK
  <2>6. CASE Become(f, r)
    <3>1. r \in FetchRecord
      BY <2>5, <2>6 DEF Become, TypeOK
    <3>. QED
      BY <1>6, <2>2, <2>4, <2>6, <3>1, AnswerRecorded DEF rate_limited, TypeOK
  <2>7. CASE Become(f, Idle)
    BY <1>0, <1>6, <2>2, <2>7, AnswerRecorded DEF rate_limited, TypeOK
  <2>. QED
    BY <2>3, <2>6, <2>7
<1>7. ASSUME NEW f \in Fetches, times_out(f) PROVE SerialInv'
  <2>1. /\ failures'[fetch[f].host] > 0
        /\ \A x \in Hosts \ {fetch[f].host} : blocked'[x] = blocked[x] /\ failures'[x] = failures[x]
    BY <1>7, RecordFailure DEF times_out
  <2>. QED
    BY <1>0, <1>7, <2>1, AnswerRecorded DEF times_out, TypeOK
<1>8. ASSUME NEW f \in Fetches, fails(f) PROVE SerialInv'
  BY <1>0, <1>8, MapUntouched DEF fails
<1>9. CASE Tick
  <2>1. \A f \in Fetches : /\ fetch'[f].pc = fetch[f].pc
                           /\ fetch'[f].host = fetch[f].host
                           /\ fetch'[f].timer = Before(fetch[f].timer)
                           /\ fetch[f].timer \in Nat
    BY <1>9 DEF Tick, TypeOK, FetchRecord
  <2>2. \A h \in Hosts : /\ blocked[h] \in Nat /\ blocked'[h] = Before(blocked[h])
                         /\ failures'[h] = failures[h]
    BY <1>9 DEF Tick, TypeOK
  <2>3. OnePerHost'
    BY <2>1 DEF SerialInv, OnePerHost
  <2>4. SleepCoversBlock'
    BY <2>1, <2>2 DEF SerialInv, SleepCoversBlock, Before
  <2>5. RequestsUnblocked'
    BY <2>1, <2>2 DEF SerialInv, RequestsUnblocked, Before
  <2>6. BlockedMeansFailing'
    BY <2>2 DEF SerialInv, BlockedMeansFailing, Before
  <2>. QED
    BY <2>3, <2>4, <2>5, <2>6 DEF SerialInv
<1>10. CASE UNCHANGED vars
  BY <1>10 DEF vars, SerialInv, OnePerHost, SleepCoversBlock, RequestsUnblocked, BlockedMeansFailing
<1>. QED
  BY <1>1, <1>2, <1>3, <1>4, <1>5, <1>6, <1>7, <1>8, <1>9, <1>10 DEF Next, FetchStep

LEMMA Serial == Spec => [](TypeOK /\ SerialInv)
<1>1. Init => TypeOK /\ TriesOK /\ SerialInv
  BY InitTypes, InitSerial
<1>2. (TypeOK /\ TriesOK /\ SerialInv) /\ [Next]_vars => (TypeOK /\ TriesOK /\ SerialInv)'
  BY NextTypes, NextSerial
<1>. QED
  BY <1>1, <1>2, PTL DEF Spec

\* Where the fetches of a host follow one another, a host that still blocks has
\* failures on record.
THEOREM SerialBlockedMeansFailing == Spec => []BlockedMeansFailing
<1>1. SerialInv => BlockedMeansFailing
  BY DEF SerialInv
<1>. QED
  BY <1>1, Serial, PTL

(***************************************************************************)
(* What one step of a serial host may do.                                  *)
(***************************************************************************)
Fires ==
  \A f \in Fetches : \A h \in SerialHosts :
    /\ fetch[f].host = h /\ fetch[f].pc \in {"pre_flight", "sleeping"}
    /\ fetch'[f].pc = "requesting"
    => blocked[h] = 0

NotShortened == \A h \in SerialHosts : blocked'[h] >= Before(blocked[h])

\* Whoever takes the step, the other fetches stay where they are.
LEMMA OthersStay ==
  ASSUME TypeOK, NEW f \in Fetches, NEW g \in Fetches, g # f,
         fetch_with_backoff(g) \/ FetchStep(g)
  PROVE  fetch'[f] = fetch[f]
<1>1. \E gg : Become(g, gg)
  BY DEF fetch_with_backoff, FetchStep, before_request, wake, retry, succeeds, rate_limited,
         times_out, fails, Goto
<1>. QED
  BY <1>1 DEF Become, TypeOK

LEMMA FiresStep ==
  ASSUME TypeOK, RequestsUnblocked', [Next]_vars
  PROVE  Fires
<1>. SUFFICES ASSUME NEW f \in Fetches, NEW h \in SerialHosts,
                     fetch[f].host = h, fetch[f].pc \in {"pre_flight", "sleeping"},
                     fetch'[f].pc = "requesting"
              PROVE  blocked[h] = 0
  BY DEF Fires
<1>1. CASE before_request(f) \/ wake(f)
  <2>1. blocked' = blocked
    BY <1>1 DEF before_request, wake
  <2>2. PICK t : \/ Become(f, [fetch[f] EXCEPT !.pc = "requesting"])
                 \/ Become(f, [fetch[f] EXCEPT !.pc = "sleeping", !.timer = t])
    BY <1>1 DEF before_request, wake, Goto
  <2>a. fetch[f] \in FetchRecord /\ fetch \in [Fetches -> FetchRecord]
    BY DEF TypeOK
  <2>b. \/ fetch'[f] = [fetch[f] EXCEPT !.pc = "requesting"]
        \/ fetch'[f] = [fetch[f] EXCEPT !.pc = "sleeping", !.timer = t]
    BY <2>2, <2>a DEF Become
  <2>3. fetch'[f].host = h
    BY <2>a, <2>b DEF FetchRecord
  <2>. QED
    BY <2>1, <2>3 DEF RequestsUnblocked
<1>2. CASE retry(f)
  BY <1>2 DEF retry
<1>3. CASE fetch_with_backoff(f) \/ succeeds(f) \/ rate_limited(f) \/ times_out(f) \/ fails(f)
  BY <1>3 DEF fetch_with_backoff, succeeds, rate_limited, times_out, fails
<1>4. ASSUME NEW g \in Fetches, g # f, fetch_with_backoff(g) \/ FetchStep(g) PROVE FALSE
  BY <1>4, OthersStay
<1>5. CASE Tick
  BY <1>5 DEF Tick, TypeOK, FetchRecord
<1>6. CASE UNCHANGED vars
  BY <1>6 DEF vars
<1>. QED
  BY <1>1, <1>2, <1>3, <1>4, <1>5, <1>6 DEF Next, FetchStep

LEMMA NotShortenedStep ==
  ASSUME TypeOK, TypeOK', RequestsUnblocked, [Next]_vars
  PROVE  NotShortened
<1>. SUFFICES ASSUME NEW h \in SerialHosts PROVE blocked'[h] >= Before(blocked[h])
  BY DEF NotShortened
<1>0. h \in Hosts /\ blocked[h] \in Nat /\ blocked'[h] \in Nat
  BY BackoffAssumption DEF TypeOK
<1>1. CASE UNCHANGED blocked
  BY <1>0, <1>1 DEF Before
<1>2. ASSUME NEW f \in Fetches, rate_limited(f) \/ times_out(f)
      PROVE  blocked'[h] >= Before(blocked[h])
  <2>1. CASE fetch[f].host = h
    <3>1. blocked[h] = 0
      BY <1>2, <2>1 DEF rate_limited, times_out, RequestsUnblocked
    <3>. QED
      BY <1>0, <3>1 DEF Before
  <2>2. CASE fetch[f].host # h
    <3>1. blocked'[h] = blocked[h]
      BY <1>2, <2>2, RecordFailure DEF rate_limited, times_out
    <3>. QED
      BY <1>0, <3>1 DEF Before
  <2>. QED
    BY <2>1, <2>2
<1>3. CASE Tick
  BY <1>0, <1>3 DEF Tick
<1>4. ASSUME NEW f \in Fetches, fetch_with_backoff(f) \/ before_request(f) \/ wake(f)
                                \/ retry(f) \/ succeeds(f) \/ fails(f)
      PROVE  UNCHANGED blocked
  BY <1>4 DEF fetch_with_backoff, before_request, wake, retry, succeeds, record_success, fails
<1>. QED
  BY <1>1, <1>2, <1>3, <1>4 DEF Next, FetchStep, vars

\* Where the fetches of a host follow one another, no request is sent to a host
\* before its next_allowed_at.
THEOREM SerialFiresUnblocked == Spec => FiresUnblocked
<1>1. TypeOK /\ (TypeOK /\ SerialInv)' /\ [Next]_vars => [Fires]_vars
  BY FiresStep DEF SerialInv
<1>. QED
  BY <1>1, Serial, PTL DEF Spec, FiresUnblocked, Fires

\* Where the fetches of a host follow one another, no answer cuts short the time
\* a host asked for.
THEOREM SerialNeverShortened == Spec => BlockNeverShortened
<1>1. (TypeOK /\ SerialInv) /\ (TypeOK /\ SerialInv)' /\ [Next]_vars => [NotShortened]_vars
  BY NotShortenedStep DEF SerialInv
<1>. QED
  BY <1>1, Serial, PTL DEF Spec, BlockNeverShortened, NotShortened
=============================================================================
