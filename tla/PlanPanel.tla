------------------------------- MODULE PlanPanel -------------------------------
(***************************************************************************)
(* The plans of the workstation as its user works on them: the table       *)
(* research_plans, the commands on it (commands.rs), which run beside each *)
(* other and answer in any order, and the store of the panel               *)
(* (plans.svelte.ts), which changes what it shows before a command answers *)
(* and again when it does, whatever was clicked in between.                *)
(***************************************************************************)
EXTENDS Integers, Sequences

CONSTANTS
  Notes,      \* what a user says of a plan he rejects
  NoNote,
  PanelCalls, \* calls that may be under way together
  Earlier,    \* the rows of earlier sessions
  MaxPlans,   \* bound on the plans there are
  Filters,    \* the filters clicked
  MaxClicks,  \* bound on the calls that clicks start
  MaxErrors   \* bound on calls and reads that break off

Statuses == {"pending", "accepted", "rejected"}

\* A row of research_plans.
PlanRow == [status : Statuses, note : Notes \cup {NoNote}, reclassified_from : Nat]

PanelAssumption == Earlier \in Seq(PlanRow)

VARIABLES
  rows,          \* research_plans, in order of creation
  selected,      \* plans.selected
  dialog,        \* the dialog that is open over everything else
  statusFilter,
  recent,        \* plans.recent: the status of each plan listed
  panels,        \* whose fetch report, recipes and runs, and records are shown
  reads,         \* the background reads that fill those
  call,          \* the locals of each call, in the panel and in the command
  clicks,        \* calls started so far
  errors,        \* calls and reads that broke off so far
  doubt          \* what calls that met, or one that broke off half-way, have touched

vars == <<rows, selected, dialog, statusFilter, recent, panels, reads, call, clicks, errors, doubt>>

Row(status, note, from) == [status |-> status, note |-> note, reclassified_from |-> from]

\* ResearchPlanDto; no plan is plan 0.
Shown(p, status, note) == [id |-> p, status |-> status, note |-> note]
Nobody == Shown(0, "none", NoNote)
Dto(p) == Shown(p, rows[p].status, rows[p].note)

Cleared == [report |-> 0, recipes |-> 0, records |-> 0]

Idle == [op |-> "none", pc |-> "idle", plan |-> 0, note |-> NoNote, was |-> Nobody,
         got |-> Nobody, filter |-> "all", listed |-> << >>, doubted |-> {}]

Matching(f) == [p \in {q \in DOMAIN rows : f \in {"all", rows[q].status}} |-> rows[p].status]

\* The application has been started and has listed what there is.
Init ==
  /\ rows = Earlier
  /\ selected = Nobody
  /\ dialog = "none"
  /\ statusFilter = "all"
  /\ recent = Matching("all")
  /\ panels = Cleared
  /\ reads = {}
  /\ call = [c \in PanelCalls |-> Idle]
  /\ clicks = 0
  /\ errors = 0
  /\ doubt = {}

-----------------------------------------------------------------------------
(***************************************************************************)
(* What a call changes, and which calls meet: two that set the selection,  *)
(* two that list, or two of different plans, of which one is yet to fill   *)
(* the panels of its own.                                                  *)
(***************************************************************************)
Selecting == {"get", "classify", "reclassify", "accept", "reject"}
Listing   == {"filter", "classify", "reclassify", "accept", "reject"}

Refreshes ==
  [get |-> {"selected", "panels"}, fetch |-> {}, filter |-> {"recent"},
   accept |-> {"selected", "recent"}, reject |-> {"selected", "recent"},
   classify |-> {"selected", "panels", "recent"}, reclassify |-> {"selected", "panels", "recent"}]

InFlight(ops) == {c \in PanelCalls : call[c].op \in ops}
Underway == {call[c].plan : c \in InFlight(Selecting \cup {"fetch"})} \cup {r.plan : r \in reads}

mutating    == InFlight({"accept", "reject"}) # {}
classifying == InFlight({"classify", "reclassify"}) # {}
fetching    == InFlight({"fetch"}) # {}

Met(op, p) ==
  {f \in {"selected", "panels", "recent"} :
     CASE f = "selected" -> op \in Selecting /\ InFlight(Selecting) # {}
       [] f = "recent"   -> op \in Listing /\ InFlight(Listing) # {}
       [] f = "panels"   -> op # "filter" /\ Underway \ {p} # {}}

Call(op, pc, p) == [Idle EXCEPT !.op = op, !.pc = pc, !.plan = p]

Starts(c, r) ==
  /\ call[c] = Idle
  /\ clicks < MaxClicks /\ clicks' = clicks + 1
  /\ call' = [call EXCEPT ![c] = [r EXCEPT !.doubted = doubt]]
  /\ doubt' = (doubt \ Refreshes[r.op]) \cup Met(r.op, r.plan)
  /\ UNCHANGED <<rows, recent, reads, errors>>

\* What is left of a call once its answer is shown: it reads the list.
Lists(c, f) == call' = [call EXCEPT ![c] = [Call(@.op, "list", @.plan) EXCEPT !.filter = f]]

Goes(c, pc) == call' = [call EXCEPT ![c].pc = pc]

-----------------------------------------------------------------------------
(***************************************************************************)
(* The panel.  A dialog covers the rest of the window.                     *)
(***************************************************************************)
\* Mutant: the report of the plan shown before stays.
selectPlan_keeps_report(c) ==
  \E p \in DOMAIN recent :
    /\ dialog = "none"
    /\ panels' = [Cleared EXCEPT !.report = panels.report]
    /\ Starts(c, Call("get", "read", p))
    /\ UNCHANGED <<selected, dialog, statusFilter>>

selectPlan(c) ==
  \E p \in DOMAIN recent :
    /\ dialog = "none"
    /\ panels' = Cleared
    /\ Starts(c, Call("get", "read", p))
    /\ UNCHANGED <<selected, dialog, statusFilter>>

setStatusFilter(c) ==
  \E f \in Filters \ {statusFilter} :
    /\ dialog = "none"
    /\ statusFilter' = f
    /\ Starts(c, [Call("filter", "list", 0) EXCEPT !.filter = f])
    /\ UNCHANGED <<selected, dialog, panels>>

classifyTopic(c) ==
  /\ dialog = "none" /\ ~classifying /\ Len(rows) < MaxPlans
  /\ selected' = Nobody
  /\ panels' = Cleared
  /\ Starts(c, Call("classify", "insert", 0))
  /\ UNCHANGED <<dialog, statusFilter>>

acceptSelected(c) ==
  /\ dialog = "none" /\ selected.status = "pending" /\ ~mutating
  /\ selected' = [selected EXCEPT !.status = "accepted"]
  /\ Starts(c, [Call("accept", "write", selected.id) EXCEPT !.was = selected])
  /\ UNCHANGED <<dialog, statusFilter, panels>>

\* The buttons of a dialog are there for the plan that was selected when they were drawn;
\* the dialog stays when another plan takes its place, not when none does.
open_dialog ==
  /\ dialog = "none"
  /\ \/ selected.status = "pending" /\ ~mutating /\ dialog' = "reject"
     \/ selected.status = "rejected" /\ ~classifying /\ dialog' = "reclassify"
  /\ UNCHANGED <<rows, selected, statusFilter, recent, panels, reads, call, clicks, errors, doubt>>

cancel_dialog ==
  /\ dialog # "none" /\ dialog' = "none"
  /\ UNCHANGED <<rows, selected, statusFilter, recent, panels, reads, call, clicks, errors, doubt>>

rejectSelected(c) ==
  \E n \in Notes \cup {NoNote} :
    /\ dialog = "reject" /\ ~mutating
    /\ selected' = Shown(selected.id, "rejected", n)
    /\ Starts(c, [Call("reject", "write", selected.id) EXCEPT !.note = n, !.was = selected])
    /\ UNCHANGED <<dialog, statusFilter, panels>>

reclassifySelected(c) ==
  \E n \in Notes \cup {NoNote} :
    /\ dialog = "reclassify" /\ ~classifying /\ selected.status = "rejected" /\ Len(rows) < MaxPlans
    /\ selected' = Nobody
    /\ dialog' = "none"
    /\ panels' = Cleared
    /\ Starts(c, [Call("reclassify", "check", 0) EXCEPT !.note = n, !.was = selected])
    /\ UNCHANGED statusFilter

runFetch(c) ==
  /\ dialog = "none" /\ selected.status = "accepted" /\ ~fetching
  /\ Starts(c, Call("fetch", "prepare", selected.id))
  /\ UNCHANGED <<selected, dialog, statusFilter, panels>>

-----------------------------------------------------------------------------
(***************************************************************************)
(* The commands, one call of the store at a time.                          *)
(***************************************************************************)
Command(c, op, pc) ==
  /\ call[c].op = op /\ call[c].pc = pc
  /\ UNCHANGED <<selected, dialog, statusFilter, recent, panels, reads, clicks, errors, doubt>>

set_plan_status(c) ==
  /\ Command(c, "accept", "write")
  /\ rows' = [rows EXCEPT ![call[c].plan].status = "accepted"]
  /\ Goes(c, "read")

set_plan_rejection(c) ==
  /\ Command(c, "reject", "write")
  /\ rows' = [rows EXCEPT ![call[c].plan].status = "rejected", ![call[c].plan].note = call[c].note]
  /\ Goes(c, "read")

get_research_plan(c) ==
  \E op \in Selecting :
    /\ Command(c, op, "read")
    /\ call' = [call EXCEPT ![c].pc = "answered", ![c].got = Dto(call[c].plan)]
    /\ UNCHANGED rows

\* A plan is classified anew when it is rejected and there is a note to go by.
reclassify_plan(c) ==
  LET before == rows[call[c].was.id]
  IN  /\ Command(c, "reclassify", "check")
      /\ Goes(c, IF before.status = "rejected" /\ {call[c].note, before.note} # {NoNote}
                 THEN "insert" ELSE "failed")
      /\ UNCHANGED rows

\* The model has answered.  The new plan is answered with as it was made, or read back.
save_research_plan(c) ==
  LET p == Len(rows) + 1
  IN  \/ /\ Command(c, "classify", "insert")
         /\ rows' = Append(rows, Row("pending", NoNote, 0))
         /\ call' = [call EXCEPT ![c].pc = "answered", ![c].got = Shown(p, "pending", NoNote)]
      \/ /\ Command(c, "reclassify", "insert")
         /\ rows' = Append(rows, Row("pending", NoNote, call[c].was.id))
         /\ call' = [call EXCEPT ![c].pc = "read", ![c].plan = p]

prepare_plan(c) ==
  /\ Command(c, "fetch", "prepare")
  /\ Goes(c, IF rows[call[c].plan].status = "accepted" THEN "run" ELSE "failed")
  /\ UNCHANGED rows

run_fetch_for_plan(c) ==
  /\ Command(c, "fetch", "run")
  /\ Goes(c, "answered")
  /\ UNCHANGED rows

list_recent_plans(c) ==
  \E op \in Listing :
    /\ Command(c, op, "list")
    /\ call' = [call EXCEPT ![c].pc = "listed", ![c].listed = Matching(call[c].filter)]
    /\ UNCHANGED rows

\* The store or the model fails a call.  What was written before stays written.
BreakOff(c) ==
  /\ call[c].pc \in {"insert", "check", "write", "read", "prepare", "run", "list"}
  /\ errors < MaxErrors /\ errors' = errors + 1
  /\ Goes(c, IF call[c].pc = "list" THEN "unlisted" ELSE "failed")
  /\ doubt' = doubt \cup (IF call[c].pc = "list" THEN {"recent"}
                          ELSE IF call[c].pc = "read" /\ call[c].op # "get" THEN {"selected", "recent"} ELSE {})
  /\ UNCHANGED <<rows, selected, dialog, statusFilter, recent, panels, reads, clicks>>

-----------------------------------------------------------------------------
(***************************************************************************)
(* The panel when an answer has come.                                      *)
(***************************************************************************)
Answer(c, ops) ==
  /\ call[c].op \in ops /\ call[c].pc = "answered"
  /\ UNCHANGED <<rows, recent, clicks, errors, doubt>>

Reads(p, ws) == {[panel |-> w, plan |-> p] : w \in ws}

selectPlan_answered(c) ==
  LET plan == call[c].got
  IN  /\ Answer(c, {"get"})
      /\ selected' = plan
      /\ reads' = reads \cup Reads(plan.id, {"recipes"} \cup (IF plan.status = "pending" THEN {} ELSE {"records"}))
      /\ call' = [call EXCEPT ![c] = Idle]
      /\ UNCHANGED <<dialog, statusFilter, panels>>

\* The new plan is selected; a filter that would hide it is dropped.
classify_answered(c) ==
  LET f == IF statusFilter = "pending" THEN statusFilter ELSE "all"
  IN  /\ Answer(c, {"classify", "reclassify"})
      /\ selected' = call[c].got
      /\ statusFilter' = f
      /\ Lists(c, f)
      /\ UNCHANGED <<dialog, panels, reads>>

transition_answered(c) ==
  /\ Answer(c, {"accept", "reject"})
  /\ selected' = call[c].got
  /\ Lists(c, statusFilter)
  /\ UNCHANGED <<dialog, statusFilter, panels, reads>>

runFetch_answered(c) ==
  /\ Answer(c, {"fetch"})
  /\ panels' = [panels EXCEPT !.report = call[c].plan]
  /\ reads' = reads \cup Reads(call[c].plan, {"recipes", "records"})
  /\ call' = [call EXCEPT ![c] = Idle]
  /\ UNCHANGED <<selected, dialog, statusFilter>>

\* What was shown before its time is taken back, if the plan is still the one selected.
failed(c) ==
  /\ call[c].pc = "failed"
  /\ selected' = IF call[c].op \in {"accept", "reject"} /\ selected.id = call[c].was.id
                 THEN call[c].was ELSE selected
  /\ call' = [call EXCEPT ![c] = Idle]
  /\ doubt' = doubt \cup call[c].doubted
  /\ UNCHANGED <<rows, dialog, statusFilter, recent, panels, reads, clicks, errors>>

\* The last thing of a call that lists, and it goes on if that fails: one that accepted
\* asks for the records now, one that rejected closes its dialog.
refreshRecent(c) ==
  /\ \/ call[c].pc = "listed" /\ recent' = call[c].listed
     \/ call[c].pc = "unlisted" /\ UNCHANGED recent
  /\ reads' = reads \cup (IF call[c].op = "accept" THEN Reads(call[c].plan, {"records"}) ELSE {})
  /\ dialog' = IF call[c].op = "reject" /\ dialog = "reject" THEN "none" ELSE dialog
  /\ call' = [call EXCEPT ![c] = Idle]
  /\ UNCHANGED <<rows, selected, statusFilter, panels, clicks, errors, doubt>>

\* A read that fails, or is refused because the plan is pending, leaves what is shown.
refresh(r) ==
  /\ reads' = reads \ {r}
  /\ \/ /\ ~(r.panel = "records" /\ rows[r.plan].status = "pending")
        /\ panels' = [panels EXCEPT ![r.panel] = r.plan]
        /\ UNCHANGED errors
     \/ /\ r.panel = "records" /\ rows[r.plan].status = "pending"
        /\ UNCHANGED <<panels, errors>>
     \/ /\ errors < MaxErrors /\ errors' = errors + 1
        /\ UNCHANGED panels
  /\ UNCHANGED <<rows, selected, dialog, statusFilter, recent, call, clicks, doubt>>

Step(c) ==
  \/ selectPlan(c) \/ setStatusFilter(c) \/ classifyTopic(c) \/ acceptSelected(c)
  \/ rejectSelected(c) \/ reclassifySelected(c) \/ runFetch(c)
  \/ set_plan_status(c) \/ set_plan_rejection(c) \/ get_research_plan(c) \/ reclassify_plan(c)
  \/ save_research_plan(c) \/ prepare_plan(c) \/ run_fetch_for_plan(c) \/ list_recent_plans(c)
  \/ BreakOff(c)
  \/ selectPlan_answered(c) \/ classify_answered(c) \/ transition_answered(c)
  \/ runFetch_answered(c) \/ failed(c) \/ refreshRecent(c)

Next == (\E c \in PanelCalls : Step(c)) \/ open_dialog \/ cancel_dialog \/ (\E r \in reads : refresh(r))

Spec == Init /\ [][Next]_vars

-----------------------------------------------------------------------------
\* plans.svelte.ts:38-200: the panels are those of the selected plan, and what is shown
\* before its time "matches what's on disk again" when a command has failed.  Unless calls
\* met, or one broke off after its write: the selection is what the table holds when no
\* call that sets it is under way, the listing is that of its filter, no panel is of
\* another plan than the one selected, and a pending plan has no records shown.
PanelTruthful ==
  /\ "recent" \notin doubt /\ InFlight(Listing) = {} => recent = Matching(statusFilter)
  /\ "selected" \notin doubt /\ InFlight(Selecting) = {} /\ selected # Nobody
       => /\ selected = Dto(selected.id)
          /\ selected.status = "pending" /\ "panels" \notin doubt => panels.records = 0
  /\ "panels" \notin doubt /\ InFlight({"get"}) = {} => \A w \in DOMAIN panels : panels[w] \in {0, selected.id}
=============================================================================
