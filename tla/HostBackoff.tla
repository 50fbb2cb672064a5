---------------------------- MODULE HostBackoff -----------------------------
(***************************************************************************)
(* crates/pipeline/src/fetch_backoff.rs: fetch_with_backoff on top of the  *)
(* BackoffFetcher, for any number of fetches that share one HostBackoff.   *)
(* The map is locked for the read before a request and for the write after *)
(* it, never in between; what the server answers is a choice.              *)
(* Instants are kept as the seconds left until them, which Tick counts     *)
(* down, so time itself needs no bound.                                    *)
(***************************************************************************)
EXTENDS Naturals

CONSTANTS
  Fetches,                     \* callers of fetch_with_backoff
  Hosts,
  NoHost,                      \* host_of a URL without a host
  RetryAfters,                 \* the hints servers give, in seconds
  NoHint,                      \* a 429 without Retry-After
  HOST_BACKOFF_MAX_SECS,
  SHORT_BACKOFF_CEILING_SECS,
  MaxShift,                    \* bound of the exponent of the schedule, 63
  MaxFailures,                 \* where the failure counter saturates, u32::MAX
  SerialHosts                  \* hosts whose fetches follow one another, as in the runtime stage

ASSUME BackoffAssumption ==
  /\ NoHost \notin Hosts
  /\ RetryAfters \subseteq Nat /\ NoHint \notin Nat
  /\ HOST_BACKOFF_MAX_SECS \in Nat \ {0}
  /\ SHORT_BACKOFF_CEILING_SECS \in Nat
  /\ MaxShift \in Nat
  /\ MaxFailures \in Nat \ {0}
  /\ SerialHosts \subseteq Hosts

\* A fact of arithmetic that the provers do not know.
ASSUME PowersAssumption == \A e \in 0..MaxShift : 2^e \in Nat \ {0}

VARIABLES
  fetch,    \* the local state of each fetch
  blocked,  \* seconds until next_allowed_at of each host, 0 once it is past
  failures  \* consecutive_failures of each host

vars == <<fetch, blocked, failures>>

Idle == [pc |-> "idle", host |-> NoHost, tries |-> 0, timer |-> 0]

Init ==
  /\ fetch = [f \in Fetches |-> Idle]
  /\ blocked = [h \in Hosts |-> 0]
  /\ failures = [h \in Hosts |-> 0]

Become(f, ff) == fetch' = [fetch EXCEPT ![f] = ff]

Goto(f, pc) == Become(f, [fetch[f] EXCEPT !.pc = pc])

Least(a, b) == IF a <= b THEN a ELSE b

exponential_backoff(n) ==
  IF n = 0 THEN 0 ELSE Least(2^Least(n - 1, MaxShift), HOST_BACKOFF_MAX_SECS)

(***************************************************************************)
(* record_success, record_rate_limited and record_timeout: one critical    *)
(* section each.  A URL without a host leaves no trace.                    *)
(***************************************************************************)
record_success(h) ==
  /\ failures' = IF h \in Hosts THEN [failures EXCEPT ![h] = 0] ELSE failures
  /\ UNCHANGED blocked

\* Mutant: the wait is computed from the old counter, and a 429 with a hint is not counted.
record_failure_late_count(h, hint) ==
  IF h \notin Hosts THEN UNCHANGED <<blocked, failures>>
  ELSE /\ blocked' = [blocked EXCEPT ![h] =
                        IF hint \in Nat THEN hint ELSE exponential_backoff(failures[h])]
       /\ failures' = [failures EXCEPT ![h] = IF hint \in Nat THEN @ ELSE Least(@ + 1, MaxFailures)]

record_failure(h, hint) ==
  IF h \notin Hosts THEN UNCHANGED <<blocked, failures>>
  ELSE LET n == Least(failures[h] + 1, MaxFailures) IN
       /\ failures' = [failures EXCEPT ![h] = n]
       /\ blocked' = [blocked EXCEPT ![h] =
                        IF hint \in Nat THEN hint ELSE exponential_backoff(n)]

fetch_with_backoff(f) ==
  /\ fetch[f].pc = "idle"
  /\ \E h \in Hosts \cup {NoHost} :
       /\ h \in SerialHosts => \A g \in Fetches : fetch[g].pc = "idle" \/ fetch[g].host # h
       /\ Become(f, [pc |-> "pre_flight", host |-> h, tries |-> 1, timer |-> 0])
  /\ UNCHANGED <<blocked, failures>>

\* Mutant: the pre-flight sleep is cut at the ceiling of the inline retry.
before_request_capped(f) ==
  /\ fetch[f].pc = "pre_flight"
  /\ LET wait == IF fetch[f].host \in Hosts THEN blocked[fetch[f].host] ELSE 0
     IN  IF wait = 0 THEN Goto(f, "requesting")
         ELSE Become(f, [fetch[f] EXCEPT !.pc = "sleeping",
                                         !.timer = Least(wait, SHORT_BACKOFF_CEILING_SECS)])
  /\ UNCHANGED <<blocked, failures>>

(***************************************************************************)
(* The map is read once, before the sleep, and not again after it.         *)
(***************************************************************************)
before_request(f) ==
  /\ fetch[f].pc = "pre_flight"
  /\ LET wait == IF fetch[f].host \in Hosts THEN blocked[fetch[f].host] ELSE 0
     IN  IF wait = 0 THEN Goto(f, "requesting")
                     ELSE Become(f, [fetch[f] EXCEPT !.pc = "sleeping", !.timer = wait])
  /\ UNCHANGED <<blocked, failures>>

\* Mutant: the map is read again after the sleep, however often it takes.
wake_reads_again(f) ==
  /\ fetch[f].pc = "sleeping" /\ fetch[f].timer = 0
  /\ Goto(f, "pre_flight")
  /\ UNCHANGED <<blocked, failures>>

wake(f) ==
  /\ fetch[f].pc = "sleeping" /\ fetch[f].timer = 0
  /\ Goto(f, "requesting")
  /\ UNCHANGED <<blocked, failures>>

succeeds(f) ==
  /\ fetch[f].pc = "requesting" /\ fetch[f].host \in Hosts
  /\ record_success(fetch[f].host)
  /\ Become(f, Idle)

(***************************************************************************)
(* A 429: recorded first; then handle_rate_limit sleeps on a short hint of *)
(* the first try, and surfaces anything else.                              *)
(***************************************************************************)
rate_limited(f) ==
  /\ fetch[f].pc = "requesting" /\ fetch[f].host \in Hosts
  /\ \E hint \in RetryAfters \cup {NoHint} :
       /\ record_failure(fetch[f].host, hint)
       /\ IF hint \in Nat /\ hint <= SHORT_BACKOFF_CEILING_SECS /\ fetch[f].tries = 1
            THEN Become(f, [fetch[f] EXCEPT !.pc = "backing_off", !.timer = hint])
            ELSE Become(f, Idle)

\* The one retry goes through the same BackoffFetcher.
retry(f) ==
  /\ fetch[f].pc = "backing_off" /\ fetch[f].timer = 0
  /\ Become(f, [fetch[f] EXCEPT !.pc = "pre_flight", !.tries = @ + 1])
  /\ UNCHANGED <<blocked, failures>>

times_out(f) ==
  /\ fetch[f].pc = "requesting" /\ fetch[f].host \in Hosts
  /\ record_failure(fetch[f].host, NoHint)
  /\ Become(f, Idle)

\* 4xx, 5xx, DNS, TLS, an invalid URL: no signal for the host.
fails(f) ==
  /\ fetch[f].pc = "requesting"
  /\ Become(f, Idle)
  /\ UNCHANGED <<blocked, failures>>

Before(n) == IF n = 0 THEN 0 ELSE n - 1

Tick ==
  /\ fetch' = [f \in Fetches |-> [fetch[f] EXCEPT !.timer = Before(@)]]
  /\ blocked' = [h \in Hosts |-> Before(blocked[h])]
  /\ UNCHANGED failures

FetchStep(f) ==
  \/ before_request(f) \/ wake(f) \/ retry(f)
  \/ succeeds(f) \/ rate_limited(f) \/ times_out(f) \/ fails(f)

Next ==
  \/ \E f \in Fetches : fetch_with_backoff(f) \/ FetchStep(f)
  \/ Tick

Spec == Init /\ [][Next]_vars

(***************************************************************************)
(* Time goes on, the runtime polls what is ready, and the client's timeout *)
(* ends every request.  Nothing obliges a server to answer with success.   *)
(***************************************************************************)
FairSpec ==
  /\ Spec
  /\ WF_vars(Tick)
  /\ \A f \in Fetches : WF_vars(FetchStep(f))

-----------------------------------------------------------------------------
(***************************************************************************)
(* Properties                                                              *)
(***************************************************************************)
Phases == {"idle", "pre_flight", "sleeping", "requesting", "backing_off"}

FetchRecord ==
  [pc : Phases, host : Hosts \cup {NoHost}, tries : 0..2, timer : Nat]

\* The type of the map and of every fetch, which sends at most two requests.
TypeOK ==
  /\ fetch \in [Fetches -> FetchRecord]
  /\ blocked \in [Hosts -> Nat]
  /\ failures \in [Hosts -> 0..MaxFailures]

\* HostState::next_allowed_at: "Earliest Instant at which a request to this host
\* may fire."  No request is sent to a host while it is blocked, if the fetches
\* of that host follow one another.
FiresUnblocked ==
  [][\A f \in Fetches : \A h \in SerialHosts :
       /\ fetch[f].host = h /\ fetch[f].pc \in {"pre_flight", "sleeping"}
       /\ fetch'[f].pc = "requesting"
       => blocked[h] = 0]_vars

\* "The Retry-After is honored verbatim": the time a host asked for is only ever
\* counted down, a later answer of a fetch in turn does not cut it short.
BlockNeverShortened ==
  [][\A h \in SerialHosts : blocked'[h] >= Before(blocked[h])]_vars

\* The counter tells a clean host from a recovering one: a host in turn that still
\* blocks has failures on record, so its next failure cannot restart the schedule.
BlockedMeansFailing == \A h \in SerialHosts : blocked[h] > 0 => failures[h] > 0

\* However often its host is rate limited meanwhile, a fetch ends.
EveryFetchEnds == \A f \in Fetches : fetch[f].pc # "idle" ~> fetch[f].pc = "idle"
=============================================================================
