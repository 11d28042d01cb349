------------------------------ MODULE Browser ------------------------------
(***************************************************************************)
(* The disk browser: the loop that reads keys and polls its one job, and   *)
(* the job's thread that scans, views, or prepares, shows, waits for and   *)
(* executes a plan.  The loop and the thread meet in a cancellation flag   *)
(* and two channels of one place, for the plan and for the confirmation.   *)
(*                                                                         *)
(* Entries are files and directories of one scope, a version stands for    *)
(* the identity and size of an entry; rows, sorting and the cursor are     *)
(* abstracted to the choice of a row, the list of what is selected to the   *)
(* list, the help to Notice.                                               *)
(***************************************************************************)
EXTENDS Integers, FiniteSets

CONSTANTS
  Files, Dirs,   \* the entries of the scope
  Inside,        \* the files below each directory
  MaxSelected,   \* journal::MAX_ITEMS
  Lines,         \* lines of a plan, of which the terminal shows one at a time
  MaxScans, MaxPlans, MaxFaults

\* What the instances of the module assume of its parameters.
BrowserAssumption ==
  /\ Inside \in [Dirs -> SUBSET Files]
  /\ {MaxSelected, MaxScans, MaxPlans, MaxFaults} \subseteq Nat /\ Lines \in Nat \ {0}

VARIABLES
  disk,     \* the version of each file, 0 when it is gone
  app,      \* the state behind the screen
  job,      \* the one job, with its thread
  stage,    \* of the program: "run", "leaving" or "gone"
  code,     \* the exit code
  plans,    \* plans made
  agreed,   \* history: what the user confirmed
  moved,    \* history: files moved, with their version
  unseen,   \* history: a report of an execution that was not shown yet
  failed,   \* history: an execution did not move everything it was to move
  faults    \* steps that failed and files that others changed

vars == <<disk, app, job, stage, code, plans, agreed, moved, unseen, failed, faults>>

Entries == Files \cup Dirs
Nothing == [e \in {} |-> 0]   \* a snapshot or a plan of nothing
NoPlan == [id |-> 0, items |-> Nothing]

----------------------------------------------------------------------------
(* The application.                                                        *)

\* A preview remembers how far it was scrolled and read; drawn is a history
\* of the lines that were on the screen since they were last wrapped.
NewPreview(plan) == [plan |-> plan, scroll |-> 0, seen |-> 0, typed |-> FALSE, drawn |-> {}]
NoPreview == NewPreview(NoPlan)

NewApp ==
  [generation |-> 1, data |-> Nothing, selected |-> {}, excluded |-> {}, screen |-> "Browse",
   busy |-> TRUE, stale |-> FALSE, refresh |-> FALSE, preview |-> NoPreview, wide |-> TRUE, action |-> 0, result |-> 0]

\* What drawing the next frame does to the application.
Reviewed(p) ==
  [p EXCEPT !.seen = IF p.scroll <= @ /\ @ < p.scroll + 1 THEN p.scroll + 1 ELSE @, !.drawn = @ \cup {p.scroll + 1}]
Frame(a) ==
  IF a.screen = "Preview" /\ a.wide THEN [a EXCEPT !.preview = Reviewed(@)] ELSE a
Show(a) == app' = Frame(a)

StartScan(a) ==
  [a EXCEPT !.generation = @ + 1, !.selected = {}, !.excluded = {}, !.preview = NoPreview, !.data = Nothing,
            !.screen = "Browse", !.busy = TRUE, !.stale = FALSE]
AcceptScan(a, generation, data, status) ==
  IF generation # a.generation THEN a
  ELSE [a EXCEPT !.result = IF a.action # 0 THEN a.action ELSE status, !.data = data, !.busy = FALSE]
AcceptPlan(a, generation, plan) ==
  IF generation # a.generation THEN a ELSE [a EXCEPT !.preview = NewPreview(plan), !.screen = "Preview"]
AcceptExecution(a, c) ==
  LET sticky == IF c # 0 THEN (IF a.action = 1 THEN 1 ELSE c) ELSE a.action IN
  [a EXCEPT !.action = sticky, !.result = IF sticky # 0 THEN sticky ELSE c, !.screen = "Notice",
            !.stale = TRUE, !.selected = {}, !.preview = NoPreview]
Fail(a, c) ==
  [a EXCEPT !.action = IF a.screen = "Executing" /\ a.preview.plan.id # 0 THEN 1 ELSE @, !.stale = a.data # Nothing,
            !.screen = "Notice", !.preview = NoPreview, !.result = c]

----------------------------------------------------------------------------
(* The job.                                                                *)

\* A result is a value or one of the errors, with the code it leads to.
Value(kind, c) == [kind |-> kind, code |-> c, data |-> Nothing]
Error(kind) == Value(kind, IF kind = "input" THEN 2 ELSE 1)
Errors == {"input", "interrupted", "failed"}

Decision(state, generation, plan) == [state |-> state, generation |-> generation, plan |-> plan]
NewJob(kind, generation) ==
  [kind |-> kind, generation |-> generation, cancelled |-> FALSE, pc |-> "start", left |-> {}, selection |-> Nothing,
   excluded |-> {}, plan |-> NoPlan, offer |-> "none", decision |-> Decision("open", 0, 0), rows |-> {},
   result |-> Value("none", 0)]
NoJob == NewJob("none", 0)
Active == job.kind # "none"

\* Job::cancel: the flag, and both channels lose their end on this side.
Cancelled(j) ==
  [j EXCEPT !.cancelled = TRUE, !.decision.state = IF @ = "open" THEN "closed" ELSE @, !.offer = "closed"]
CancelJob == IF Active THEN Cancelled(job) ELSE job

Done(result) == job' = [job EXCEPT !.pc = "done", !.result = result]
Step(to) == job' = [job EXCEPT !.pc = to]
Fault == faults < MaxFaults /\ faults' = faults + 1

App == <<app, stage, code, agreed>>
History == <<moved, unseen, failed>>

\* A scan and its index: a snapshot of the scope, possibly partial.
ScanThread ==
  /\ job.kind = "scan" /\ job.pc = "start"
  /\ \/ job.cancelled /\ Done(Error("interrupted")) /\ UNCHANGED faults
     \/ Done([Value("scan", 0) EXCEPT !.data = disk]) /\ UNCHANGED faults
     \/ Fault /\ \/ Done([Value("scan", 3) EXCEPT !.data = disk])
                 \/ Done(Error("input"))
  /\ UNCHANGED <<disk, plans, History>>

\* The entry shown is still what was scanned; then the helper runs until it
\* ends, is cancelled or five minutes have passed.
ViewThread ==
  /\ job.kind = "view"
  /\ \/ job.pc = "start" /\ UNCHANGED faults
        /\ IF \E f \in DOMAIN job.selection : disk[f] # job.selection[f] THEN Done(Error("failed"))
           ELSE IF job.cancelled THEN Done(Value("viewer", 0)) ELSE Step("child")
     \/ job.pc = "child" /\ Done(Value("viewer", 0)) /\ UNCHANGED faults
     \/ job.pc = "child" /\ Fault /\ Done(Error("failed"))
  /\ UNCHANGED <<disk, plans, History>>

\* scan::verify_entry for one selected file after the other.
Verify ==
  /\ job.pc = "start"
  /\ IF job.left = {} THEN Step("plan")
     ELSE IF job.cancelled THEN Done(Value("cancelled", 0))
     ELSE \E f \in job.left :
            IF disk[f] # job.selection[f] THEN Done(Error("failed"))
            ELSE job' = [job EXCEPT !.left = @ \ {f}]
  /\ UNCHANGED <<disk, plans, faults, History>>

Excluded(f) == f \in job.excluded \/ \E d \in job.excluded \cap Dirs : f \in Inside[d]
Eligible(S) == {f \in DOMAIN job.selection : ~Excluded(f) /\ disk[f] # 0 /\ f \notin S}

\* validate_preview: the plan is of the objects that were selected.
ValidPreview(items) == \A f \in DOMAIN items : items[f] = job.selection[f]

\* TrashSession::prepare captures what is there now; S are the files it
\* refuses.
Prepare ==
  /\ job.pc = "plan"
  /\ \/ \E S \in SUBSET DOMAIN job.selection :
          LET items == [f \in Eligible(S) |-> disk[f]] IN
          /\ IF S = {} THEN UNCHANGED faults ELSE Fault
          /\ IF ValidPreview(items)
               THEN plans' = plans + 1 /\ job' = [job EXCEPT !.pc = "show", !.plan = [id |-> plans + 1, items |-> items]]
               ELSE Done(Error("failed")) /\ UNCHANGED plans
     \/ job.cancelled /\ Done(Error("interrupted")) /\ UNCHANGED <<plans, faults>>
     \/ Fault /\ Done(Error("failed")) /\ UNCHANGED plans
  /\ UNCHANGED <<disk, History>>

Offer ==
  /\ job.pc = "show"
  /\ IF job.cancelled \/ job.offer = "closed" THEN Done(Value("cancelled", 0))
     ELSE job' = [job EXCEPT !.pc = "wait", !.offer = "sent"]
  /\ UNCHANGED <<disk, plans, faults, History>>

\* One turn of the waiting loop: the flag, the deadline, the channel.
Matches(d) == d.generation = job.generation /\ d.plan = job.plan.id
Wait ==
  /\ job.pc = "wait"
  /\ \/ (job.cancelled \/ job.decision.state = "closed") /\ Done(Value("cancelled", 0)) /\ UNCHANGED failed
     \/ ~job.cancelled /\ Done(Error("failed")) /\ failed' = (failed \/ job.decision.state = "sent")
     \/ ~job.cancelled /\ job.decision.state = "sent" /\ UNCHANGED failed
        /\ IF Matches(job.decision) THEN Step("approve") ELSE Done(Error("input"))
  /\ UNCHANGED <<disk, plans, faults, moved, unseen>>

\* Approval and the store; an expired plan is refused here too.
Approve ==
  /\ job.pc = "approve"
  /\ \/ job.cancelled /\ Done(Value("cancelled", 0)) /\ UNCHANGED <<faults, failed>>
     \/ ~job.cancelled /\ job' = [job EXCEPT !.pc = "execute", !.left = DOMAIN job.plan.items]
        /\ UNCHANGED <<faults, failed>>
     \/ ~job.cancelled /\ Fault /\ (Done(Error("input")) \/ Done(Error("failed"))) /\ failed' = TRUE
  /\ UNCHANGED <<disk, plans, moved, unseen>>

\* ExecutionReport::exit_code.
ReportCode(rows) ==
  CASE "Unknown" \in rows -> 1
    [] rows \subseteq {"Succeeded"} -> 0
    [] "cancelled" \in rows -> 130
    [] OTHER -> 3

\* The batch, item after item: the flag, then the native boundary, which
\* moves only what was planned and may fail or end unclear.
Row(f, row) == job' = [job EXCEPT !.left = IF row = "Unknown" THEN {} ELSE @ \ {f}, !.rows = @ \cup {row}]
Execute ==
  /\ job.pc = "execute" /\ job.left # {}
  /\ \E f \in job.left :
       \/ job.cancelled /\ Row(f, "cancelled") /\ UNCHANGED <<disk, moved, faults>>
       \/ ~job.cancelled /\ disk[f] = job.plan.items[f] /\ Row(f, "Succeeded")
          /\ disk' = [disk EXCEPT ![f] = 0] /\ moved' = moved \cup {<<f, disk[f]>>} /\ UNCHANGED faults
       \/ ~job.cancelled /\ disk[f] # job.plan.items[f] /\ Row(f, "Failed") /\ UNCHANGED <<disk, moved, faults>>
       \/ ~job.cancelled /\ Fault /\ (Row(f, "Failed") \/ Row(f, "Unknown")) /\ UNCHANGED <<disk, moved>>
  /\ UNCHANGED <<plans, unseen, failed>>
Report ==
  /\ job.pc = "execute" /\ job.left = {}
  /\ Done(Value("executed", ReportCode(job.rows)))
  /\ unseen' = TRUE /\ failed' = (failed \/ ReportCode(job.rows) # 0)
  /\ UNCHANGED <<disk, plans, moved, faults>>

PlanThread == job.kind = "plan" /\ (Verify \/ Prepare \/ Offer \/ Wait \/ Approve \/ Execute \/ Report)

Thread == Active /\ (ScanThread \/ ViewThread \/ PlanThread) /\ UNCHANGED App

----------------------------------------------------------------------------
(* The loop.                                                               *)

Running == stage = "run"
Steady == UNCHANGED <<disk, code, plans, moved, faults>>
Quiet == UNCHANGED <<unseen, failed>>

\* A signal, Ctrl-C, the key q or an error end the loop and cancel the job;
\* the terminal is restored, then the job is joined.
Leave(c) ==
  /\ stage' = "leaving" /\ code' = c /\ job' = CancelJob /\ app' = NewApp
  /\ UNCHANGED <<disk, plans, agreed, moved, faults>> /\ Quiet
Signal == Running /\ Leave(130)

TakePlan ==
  /\ Running /\ Active /\ job.offer = "sent"
  /\ job' = [job EXCEPT !.offer = "taken"]
  /\ Show(AcceptPlan(app, job.generation, job.plan))
  /\ Steady /\ Quiet /\ UNCHANGED <<stage, agreed>>

\* The loop joins a finished job.  A refresh that waited for it drops what it
\* returned.
AfterJob(a) ==
  CASE job.result.kind = "scan" -> AcceptScan(a, job.generation, job.result.data, job.result.code)
    [] job.result.kind = "cancelled" -> [a EXCEPT !.screen = "Browse", !.preview = NoPreview]
    [] job.result.kind = "executed" -> AcceptExecution(a, job.result.code)
    [] job.result.kind = "viewer" -> [a EXCEPT !.screen = "Browse"]
    [] job.result.kind \in Errors -> Fail(a, job.result.code)
JoinJob ==
  /\ Running /\ Active /\ job.pc = "done"
  /\ LET idle == [app EXCEPT !.busy = FALSE] IN
     IF app.refresh
       THEN /\ app' = StartScan([idle EXCEPT !.refresh = FALSE])
            /\ job' = NewJob("scan", app'.generation)
            /\ UNCHANGED unseen
       ELSE /\ Show(AfterJob(idle))
            /\ job' = NoJob
            /\ unseen' = (unseen /\ job.result.kind # "executed")
  /\ Steady /\ UNCHANGED <<stage, agreed, failed>>

Key(a) == Running /\ Show(a) /\ Steady /\ Quiet /\ UNCHANGED <<job, stage, agreed>>
KeyToJob(a, j) == Running /\ Show(a) /\ job' = j /\ Steady /\ Quiet /\ UNCHANGED <<stage, agreed>>

Quit == Leave(IF Active THEN 130 ELSE app.result)
Cancel(a) == KeyToJob(a, CancelJob)
Refresh ==
  /\ app.generation < MaxScans
  /\ IF Active THEN KeyToJob([app EXCEPT !.refresh = TRUE], Cancelled(job))
     ELSE KeyToJob(StartScan(app), NewJob("scan", app.generation + 1))

\* The preview: every line has to be drawn before anything can be typed.
Read == app.wide /\ app.preview.seen = Lines
PreviewKeys ==
  /\ app.screen = "Preview"
  /\ \/ Cancel([app EXCEPT !.screen = IF Active THEN "Executing" ELSE @])
     \/ \E to \in {app.preview.scroll + 1, app.preview.scroll - 1, 0, Lines - 1} :
          to \in 0..(Lines - 1) /\ to # app.preview.scroll /\ Key([app EXCEPT !.preview.scroll = to])
     \/ Read /\ ~app.preview.typed /\ Key([app EXCEPT !.preview.typed = TRUE])
     \/ app.preview.typed /\ Key([app EXCEPT !.preview.typed = FALSE])

\* Enter: the plan on the screen goes to the job, once; a job that ended in
\* the meantime cannot take it, which ends the browser.
Confirm ==
  /\ Running /\ app.screen = "Preview" /\ Read /\ app.preview.typed /\ DOMAIN app.preview.plan.items # {}
  /\ IF ~Active \/ job.decision.state # "open" \/ job.pc = "done" THEN Leave(1)
     ELSE /\ job' = [job EXCEPT !.decision = Decision("sent", app.generation, app.preview.plan.id)]
          /\ app' = [app EXCEPT !.screen = "Executing"]
          /\ agreed' = agreed \cup {[items |-> app.preview.plan.items, data |-> app.data, read |-> app.preview.drawn]}
          /\ Steady /\ Quiet /\ UNCHANGED stage

ViewJob(f) ==
  [NewJob("view", app.generation) EXCEPT !.selection = [x \in {f} |-> app.data[x]]]
Rows == IF app.data = Nothing THEN {} ELSE Entries
View(f) ==
  KeyToJob([app EXCEPT !.busy = TRUE, !.screen = "Executing"], ViewJob(f))

OtherKeys ==
  \/ app.screen = "Executing" /\ Running /\ (Cancel(app) \/ Quit)
  \/ app.screen = "ExternalPrompt" /\ Running /\
       (Key([app EXCEPT !.screen = "Browse"]) \/ (app.wide /\ \E f \in Rows \cap Files : View(f)))
  \/ app.screen = "Notice" /\ Running /\ (Key([app EXCEPT !.screen = "Browse"]) \/ Quit)
  \/ app.screen = "Menu" /\ Running /\
       (Quit \/ (~app.busy /\ Refresh) \/ \E s \in {"Browse", "Notice"} : Key([app EXCEPT !.screen = s]))

\* The keys of the list; typing a filter changes only which rows are shown.
List == app.screen = "Browse" /\ Running
Acting == List /\ ~app.busy /\ ~app.stale
RefreshAllowed == ~app.busy \/ app.data = Nothing

Navigate ==
  \/ List /\ Quit
  \/ List /\ app.busy /\ Cancel(app)
  \/ List /\ \E s \in {"Menu", "Notice"} : Key([app EXCEPT !.screen = s])
  \/ List /\ RefreshAllowed /\ Refresh

Toggle(S, e) == IF e \in S THEN S \ {e} ELSE IF Cardinality(S) >= MaxSelected THEN S ELSE S \cup {e}
Choose ==
  /\ Acting
  /\ \E e \in Rows :
       \/ e \in Files /\ Key([app EXCEPT !.selected = Toggle(@, e)])
       \/ Key([app EXCEPT !.excluded = Toggle(@, e)])
       \/ View(e)
       \/ e \in Files /\ Key([app EXCEPT !.screen = "ExternalPrompt"])

PlanJob ==
  [NewJob("plan", app.generation) EXCEPT
     !.selection = [f \in app.selected |-> app.data[f]], !.left = app.selected, !.excluded = app.excluded]
MakePlan ==
  Acting /\ app.selected # {} /\ plans < MaxPlans /\ KeyToJob([app EXCEPT !.busy = TRUE], PlanJob)

\* The terminal is resized: the plan is wrapped again and has to be read again.
Resize ==
  /\ Running
  /\ \E w \in BOOLEAN :
       Key([app EXCEPT !.wide = w,
              !.preview = NewPreview(@.plan)])

\* After the loop: the job is joined, a report is printed.
Exit ==
  /\ stage = "leaving" /\ (Active => job.pc = "done")
  /\ stage' = "gone" /\ job' = NoJob
  /\ unseen' = (unseen /\ Active /\ job.result.kind # "executed")
  /\ code' = IF ~Active THEN code
             ELSE CASE job.result.kind = "executed" -> IF job.result.code = 1 THEN 1 ELSE code
                    [] job.result.kind \in Errors \ {"interrupted"} -> job.result.code
                    [] OTHER -> code
  /\ UNCHANGED <<disk, app, plans, agreed, moved, failed, faults>>

----------------------------------------------------------------------------
\* Another program replaces or removes a file.
Change ==
  /\ Fault
  /\ \E f \in Files : \E v \in {0, 2} : disk[f] # 0 /\ disk[f] # v /\ disk' = [disk EXCEPT ![f] = v]
  /\ UNCHANGED <<app, job, stage, code, plans, agreed, moved, unseen, failed>>

Init ==
  /\ disk = [e \in Entries |-> 1] /\ app = NewApp /\ job = NewJob("scan", 1) /\ stage = "run" /\ code = -1
  /\ plans = 0 /\ agreed = {} /\ moved = {} /\ unseen = FALSE /\ failed = FALSE /\ faults = 0

Poll == TakePlan \/ JoinJob \/ Exit
Keys == PreviewKeys \/ Confirm \/ OtherKeys \/ Navigate \/ Choose \/ MakePlan \/ Resize

Next == Thread \/ Poll \/ Keys \/ Signal \/ Change

Spec == Init /\ [][Next]_vars /\ WF_vars(Thread) /\ WF_vars(Poll)

----------------------------------------------------------------------------
(* Properties.                                                             *)

\* A file is moved only as part of a plan the user confirmed after every line
\* of it had been on the screen, and is the very object the scan had shown: no
\* key typed ahead, resize, replaced file, refresh or late plan makes it
\* another one (model.rs:437-491, jobs.rs:336-354).
MovedWasConfirmed ==
  \A m \in moved : \E a \in agreed :
    /\ m[1] \in DOMAIN a.items /\ a.items[m[1]] = m[2] /\ a.data[m[1]] = m[2]
    /\ a.read = 1..Lines

\* The outcome of an execution is never lost: its report is shown when its job
\* is joined, also by a refresh or on the way out, and a browser that
\* ends with 0 has no execution behind it that left something undone.
OutcomeIsShown ==
  /\ ~Active \/ job.kind # "plan" => ~unseen
  /\ stage = "gone" /\ code = 0 => ~failed

\* Leaving the browser ends it, whatever its job is doing.
LeavingEnds == stage = "leaving" ~> stage = "gone"
=============================================================================
