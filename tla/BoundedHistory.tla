---------------------------- MODULE BoundedHistory ----------------------------
(***************************************************************************)
(* A history that keeps its newest entries twice, in a ring in memory and  *)
(* in a table: that of the promotion passes (record_last_promote_summary   *)
(* in commands.rs, promote_history.rs) and that of refreshed entities      *)
(* (push_entity_refresh_event in entities.rs, entity_refresh_log.rs).  An  *)
(* entry takes its time first, is inserted into the table, which is cut to *)
(* the cap, and is pushed on the ring, which is cut to the cap: three      *)
(* steps, of calls that overlap, in a process that may die and fills its   *)
(* ring from the table when it starts again.                               *)
(***************************************************************************)
EXTENDS Integers, Sequences, FiniteSets

CONSTANTS
  Calls,       \* calls that may be under way at once
  Cap,         \* PROMOTE_HISTORY_CAP, ENTITY_REFRESH_LOG_CAP
  MaxEntries,  \* bound on entries
  MaxFaults    \* bound on store errors and kills

HistoryAssumption ==
  /\ Cap \in Nat \ {0} /\ MaxEntries \in Nat /\ MaxFaults \in Nat

VARIABLES
  clock,    \* Utc::now(), which may read the same for two entries
  entries,  \* entries so far, which are numbered
  disk,     \* the rows of the table
  ring,     \* the ring, newest first
  call,     \* the locals of each call
  recent,   \* at most Cap of the entries recorded one after the other and without
            \* a failing insert, newest first, since this was last not so
  faults

vars == <<clock, entries, disk, ring, call, recent, faults>>

NoEntry == [id |-> 0, at |-> 0]
NoCall  == [pc |-> "idle", entry |-> NoEntry, in_turn |-> TRUE]

Init ==
  /\ clock = 0
  /\ entries = 0
  /\ disk = {}
  /\ ring = << >>
  /\ call = [c \in Calls |-> NoCall]
  /\ recent = << >>
  /\ faults = 0

First(s) == IF Len(s) <= Cap THEN s ELSE SubSeq(s, 1, Cap)

Fault == faults < MaxFaults /\ faults' = faults + 1

Quiet == \A c \in Calls : call[c].pc = "idle"

\* What becomes of `recent` when a call ends whose entry is in the table.
Recorded(l) == IF l.in_turn THEN First(<<l.entry>> \o recent) ELSE << >>

-----------------------------------------------------------------------------
\* Utc::now() at the head of the call.
record(c) ==
  /\ call[c].pc = "idle" /\ entries < MaxEntries
  /\ entries' = entries + 1
  /\ \E now \in {clock, clock + 1} :
       /\ clock' = now
       /\ call' = [d \in Calls |->
            IF d = c THEN [pc |-> "persist", entry |-> [id |-> entries + 1, at |-> now], in_turn |-> Quiet]
            ELSE IF call[d].pc # "idle" THEN [call[d] EXCEPT !.in_turn = FALSE] ELSE call[d]]
  /\ UNCHANGED <<disk, ring, recent, faults>>

\* Mutant: the row at the cap is taken for the last to stay below it.
Pruned_one_less(rows) ==
  {r \in rows : Cardinality({s \in rows : s.at > r.at}) < Cap - 1}

\* Rows older than the Cap-th newest go; rows of its instant stay.
Pruned(rows) == {r \in rows : Cardinality({s \in rows : s.at > r.at}) < Cap}

\* One lock, two statements: the second may fail after the first.
insert_entry(c) ==
  /\ call[c].pc = "persist"
  /\ LET grown == disk \cup {call[c].entry}
     IN  \/ /\ disk' = Pruned(grown)
            /\ call' = [call EXCEPT ![c].pc = "push"]
            /\ UNCHANGED faults
         \/ /\ Fault
            /\ disk' = grown
            /\ call' = [call EXCEPT ![c].pc = "push"]
         \/ /\ Fault
            /\ call' = [call EXCEPT ![c].pc = "push", ![c].in_turn = FALSE]
            /\ UNCHANGED disk
  /\ UNCHANGED <<clock, entries, ring, recent>>

push(c) ==
  /\ call[c].pc = "push"
  /\ ring' = First(<<call[c].entry>> \o ring)
  /\ recent' = Recorded(call[c])
  /\ call' = [call EXCEPT ![c] = NoCall]
  /\ UNCHANGED <<clock, entries, disk, faults>>

-----------------------------------------------------------------------------
\* ORDER BY recorded_at DESC LIMIT Cap, with equal instants in any order.
Loads(rows) ==
  LET n == IF Cardinality(rows) < Cap THEN Cardinality(rows) ELSE Cap
  IN  {s \in [1..n -> rows] :
         /\ \A i, j \in 1..n : i < j => s[i] # s[j] /\ s[i].at >= s[j].at
         /\ \A r \in rows : (\A i \in 1..n : s[i] # r) => \A i \in 1..n : s[i].at >= r.at}

hydrate(rows) == Loads(rows)

\* The process dies and starts again; a table that cannot be read leaves the ring empty.
Restart ==
  /\ faults < MaxFaults
  /\ call' = [c \in Calls |-> NoCall]
  /\ LET late == {c \in Calls : call[c].pc = "push" /\ call[c].entry \in disk}
         kept == IF late = {} THEN recent ELSE Recorded(call[CHOOSE c \in late : TRUE])
     IN  \/ ring' \in hydrate(disk) /\ recent' = kept /\ faults' = faults + 1
         \/ /\ faults + 1 < MaxFaults
            /\ ring' = << >> /\ recent' = << >> /\ faults' = faults + 2
  /\ UNCHANGED <<clock, entries, disk>>

Next ==
  \/ \E c \in Calls : record(c) \/ insert_entry(c) \/ push(c)
  \/ Restart

Spec == Init /\ [][Next]_vars

-----------------------------------------------------------------------------
(***************************************************************************)
(* Properties                                                              *)
(***************************************************************************)
TypeOK ==
  /\ clock \in Nat /\ entries \in 0..MaxEntries /\ faults \in 0..MaxFaults
  /\ disk \subseteq [id : 1..entries, at : 0..clock]
  /\ ring \in Seq([id : 1..entries, at : 0..clock])
  /\ recent \in Seq([id : 1..entries, at : 0..clock])
  /\ call \in [Calls -> [pc : {"idle", "persist", "push"},
                         entry : [id : 0..entries, at : 0..clock], in_turn : BOOLEAN]]

\* commands.rs: "The in-memory ring is authoritative for the current session;
\* persistence is recovery across binary restarts".  Whatever went wrong before, the
\* entries that were then recorded one after the other, up to the cap, are those at
\* the head of the ring, and no row of the table but them is as new: a restart
\* shows what was shown, by the time of the entries.
NewestKeptTwice ==
  Quiet =>
    \A i \in DOMAIN recent :
      /\ i <= Len(ring) /\ ring[i].at = recent[i].at
      /\ recent[i] \in disk
      /\ Cardinality({r \in disk : r.at > recent[i].at}) < i
=============================================================================
