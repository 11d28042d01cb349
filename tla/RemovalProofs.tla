--------------------------- MODULE RemovalProofs ---------------------------
(***************************************************************************)
(* The operations that remove something keep their promises, for all       *)
(* inputs that InputsAreSound admits.                                      *)
(*                                                                         *)
(* SessionProofs has the invariants of the sessions, this module those of  *)
(* the browser and of the clean policy, and the results; the validation of *)
(* receipts has no invariant.                                              *)
(***************************************************************************)
EXTENDS SessionProofs

----------------------------------------------------------------------------
(* The browser.  A plan that is confirmed is the plan of the job, of the   *)
(* objects the scan showed, and all its lines were drawn; an execution     *)
(* that left something undone keeps the exit code from being 0.            *)

Pieces == UNION {[S -> Nat] : S \in SUBSET Browse!Entries}
Snapshots == {Browse!Nothing} \cup [Browse!Entries -> Nat]
Plans == [id : Nat, items : Pieces]
BrowserPreviews ==
  [plan : Plans, scroll : 0..(BrowserLines - 1), seen : 0..BrowserLines, typed : BOOLEAN, drawn : SUBSET (1..BrowserLines)]
BrowserApps ==
  [generation : Nat, data : Snapshots, selected : SUBSET Browse!Entries, excluded : SUBSET Browse!Entries,
   screen : {"Browse", "Menu", "Notice", "Preview", "Executing", "ExternalPrompt"},
   busy : BOOLEAN, stale : BOOLEAN, refresh : BOOLEAN, preview : BrowserPreviews, wide : BOOLEAN,
   action : Nat, result : Nat]
BrowserRows == {"cancelled", "Succeeded", "Failed", "Unknown"}
BrowserResults ==
  [kind : {"none", "scan", "viewer", "cancelled", "executed", "input", "interrupted", "failed"}, code : Nat, data : Snapshots]
Decisions == [state : {"open", "sent", "closed"}, generation : Nat, plan : Nat]
BrowserJobs ==
  [kind : {"none", "scan", "view", "plan"}, generation : Nat, cancelled : BOOLEAN,
   pc : {"start", "child", "plan", "show", "wait", "approve", "execute", "done"}, left : SUBSET Browse!Entries,
   selection : Pieces, excluded : SUBSET Browse!Entries, plan : Plans, offer : {"none", "sent", "taken", "closed"},
   decision : Decisions, rows : SUBSET BrowserRows, result : BrowserResults]

BrowserTypeOK ==
  /\ disk \in [Browse!Entries -> Nat] /\ app \in BrowserApps /\ job \in BrowserJobs
  /\ stage \in {"run", "leaving", "gone"} /\ code \in Int /\ plans \in Nat
  /\ unseen \in BOOLEAN /\ failed \in BOOLEAN

\* The lines read are lines that were drawn.
PagesDrawn(a) == 1..a.preview.seen \subseteq a.preview.drawn

\* The plan was confirmed, and it is of what the user had before him.
Agreed(plan_) ==
  \E c \in agreed :
    /\ c.items = plan_.items /\ c.read = 1..BrowserLines
    /\ \A f \in DOMAIN c.items : c.data[f] = c.items[f]
Sent(j) == j.decision.state = "sent"
ResultsOf(j) ==
  CASE j.kind = "scan" -> {"scan"} [] j.kind = "view" -> {"viewer"}
    [] j.kind = "plan" -> {"cancelled", "executed"} [] OTHER -> {}
JobStands(j) ==
  /\ \A f \in DOMAIN j.plan.items : f \in DOMAIN j.selection /\ j.plan.items[f] = j.selection[f]
  /\ j.kind = "plan" /\ j.pc \in {"start", "plan", "show"} => j.offer \in {"none", "closed"}
  /\ j.pc = "child" => j.kind = "view"
  /\ j.kind = "plan" /\ j.pc = "show" => j.plan.id # 0
  /\ j.offer \in {"sent", "taken"} => j.kind = "plan" /\ j.plan.id # 0
  /\ Sent(j) => j.kind = "plan" /\ j.offer \in {"taken", "closed"} /\ Agreed(j.plan)
  /\ Sent(j) => j.pc \in {"wait", "approve", "execute", "done"}
  /\ j.pc \in {"approve", "execute"} => Sent(j)
  /\ j.pc = "execute" => j.left \subseteq DOMAIN j.plan.items
  /\ j.pc = "done" => j.result.kind \in Browse!Errors \cup ResultsOf(j)
  /\ j.pc = "done" /\ j.result.kind \in Browse!Errors => j.result.code # 0
  /\ unseen => j.kind = "plan" /\ j.pc = "done" /\ j.result.kind = "executed"

\* The execution that failed is not joined yet.
Pending(j) ==
  /\ j.kind = "plan" /\ j.pc = "done" /\ Sent(j)
  /\ j.result.kind \in Browse!Errors \/ (j.result.kind = "executed" /\ j.result.code # 0)

\* What the loop shows of its job, and remembers of a failure.
LoopShows(a, j) ==
  /\ j.kind # "none" => a.busy
  /\ j.kind \in {"view", "plan"} \/ a.selected # {} => a.data # Browse!Nothing
  /\ j.kind = "scan" => a.selected = {}
  /\ a.refresh => j.kind = "scan"
  /\ a.screen = "ExternalPrompt" => j.kind = "none"
  /\ a.screen = "Preview" =>
       j.kind = "plan" /\ j.offer \in {"taken", "closed"} /\ a.preview.plan = j.plan /\ j.plan.id # 0
         /\ j.pc \in {"wait", "done"}
  /\ Sent(j) => a.screen = "Executing" /\ a.preview.plan.id # 0
  /\ j.kind = "plan" => \A f \in DOMAIN j.selection : j.selection[f] = a.data[f]
LoopStands(a, j) ==
  LoopShows(a, j) /\ (failed => Pending(j) \/ (a.action # 0 /\ a.result # 0))
BrowserLeft ==
  /\ stage # "run" /\ (job.kind # "none" \/ failed) => code # 0
  /\ stage = "gone" => job.kind = "none"

BrowserInv ==
  /\ BrowserTypeOK /\ PagesDrawn(app) /\ JobStands(job) /\ (stage = "run" => LoopStands(app, job))
  /\ BrowserLeft /\ Browse!MovedWasConfirmed

----------------------------------------------------------------------------

LEMMA PieceFacts ==
  /\ Browse!Nothing \in Pieces /\ DOMAIN Browse!Nothing = {}
  /\ \A S \in SUBSET Browse!Entries : [S -> Nat] \subseteq Pieces
<1>1. Browse!Nothing \in [{} -> Nat] /\ DOMAIN Browse!Nothing = {}
  BY DEF Browse!Nothing
<1> QED
  BY <1>1 DEF Pieces

LEMMA NewPreviewRead ==
  ASSUME Browse!BrowserAssumption, NEW plan_ \in Plans
  PROVE  /\ Browse!NewPreview(plan_) \in BrowserPreviews /\ Browse!NewPreview(plan_).plan = plan_
         /\ Browse!NewPreview(plan_).seen = 0
<1>1. 0 \in 0..(BrowserLines - 1) /\ 0 \in 0..BrowserLines
  BY DEF Browse!BrowserAssumption
<1> QED
  BY <1>1 DEF Browse!NewPreview, BrowserPreviews

LEMMA NoPreviewRead ==
  ASSUME Browse!BrowserAssumption
  PROVE  Browse!NoPreview \in BrowserPreviews /\ Browse!NoPreview.seen = 0 /\ Browse!NoPreview.plan = Browse!NoPlan
<1>1. Browse!NoPlan \in Plans
  BY PieceFacts DEF Browse!NoPlan, Plans
<1> QED
  BY <1>1, NewPreviewRead DEF Browse!NoPreview

LEMMA BrowserInitInv == ASSUME Browse!BrowserAssumption, Browse!Init PROVE BrowserInv
<1> USE DEF Browse!Init, Browse!NewApp, Browse!NoPreview, Browse!NewPreview, Browse!NoPlan, Browse!NewJob, Browse!Decision, Browse!Value
<1>1. disk \in [Browse!Entries -> Nat]
  OBVIOUS
<1>2. app \in BrowserApps
  <2>1. app.preview \in BrowserPreviews
    BY PieceFacts DEF Browse!BrowserAssumption, BrowserPreviews, Plans
  <2> QED
    BY <2>1 DEF BrowserApps, Snapshots
<1>3. job \in BrowserJobs
  BY PieceFacts DEF BrowserJobs, Decisions, BrowserResults, Plans, Snapshots
<1>4. PagesDrawn(app) /\ LoopStands(app, job)
  BY PieceFacts DEF PagesDrawn, LoopStands, LoopShows, Sent
<1>5. JobStands(job)
  BY PieceFacts DEF JobStands, Sent
<1>6. BrowserTypeOK
  <2>1. stage \in {"run", "leaving", "gone"} /\ plans \in Nat /\ unseen \in BOOLEAN /\ failed \in BOOLEAN
    OBVIOUS
  <2>2. code \in Int
    BY SMT
  <2> QED
    BY <1>1, <1>2, <1>3, <2>1, <2>2 DEF BrowserTypeOK
<1>7. BrowserLeft /\ Browse!MovedWasConfirmed
  BY DEF BrowserLeft, Browse!MovedWasConfirmed
<1> QED
  BY <1>4, <1>5, <1>6, <1>7 DEF BrowserInv

\* Drawing a frame reads one more line at most.
LEMMA FrameReads ==
  ASSUME Browse!BrowserAssumption, NEW a \in BrowserApps, PagesDrawn(a)
  PROVE  /\ Browse!Frame(a) \in BrowserApps /\ PagesDrawn(Browse!Frame(a))
         /\ Browse!Frame(a).preview.plan = a.preview.plan
         /\ \A f \in {"generation", "data", "selected", "excluded", "screen", "busy", "stale", "refresh",
                      "wide", "action", "result"} : Browse!Frame(a)[f] = a[f]
<1>1. CASE ~(a.screen = "Preview" /\ a.wide)
  BY <1>1 DEF Browse!Frame
<1>2. CASE a.screen = "Preview" /\ a.wide
  <2> DEFINE p == a.preview
             q == Browse!Reviewed(p)
  <2>1. p \in BrowserPreviews /\ BrowserLines \in Nat \ {0}
    BY DEF BrowserApps, Browse!BrowserAssumption
  <2>2. /\ q \in BrowserPreviews /\ q.plan = p.plan /\ q.drawn = p.drawn \cup {p.scroll + 1}
        /\ q.seen = p.seen \/ (q.seen = p.scroll + 1 /\ p.scroll = p.seen)
    <3>1. p.scroll \in 0..(BrowserLines - 1) /\ p.scroll \in Int /\ p.scroll + 1 \in 1..BrowserLines
      BY <2>1 DEF BrowserPreviews
    <3>2. p.seen \in 0..BrowserLines /\ p.seen \in Int /\ p.drawn \in SUBSET (1..BrowserLines)
      BY <2>1 DEF BrowserPreviews
    <3>3. DOMAIN p = {"plan", "scroll", "seen", "typed", "drawn"}
      BY <2>1 DEF BrowserPreviews
    <3>4. q.seen = IF p.scroll <= p.seen /\ p.seen < p.scroll + 1 THEN p.scroll + 1 ELSE p.seen
      BY <3>3 DEF Browse!Reviewed
    <3>5. q.seen = p.seen \/ (q.seen = p.scroll + 1 /\ p.scroll = p.seen)
      BY <3>1, <3>2, <3>4
    <3>6. q.plan = p.plan /\ q.scroll = p.scroll /\ q.typed = p.typed /\ q.drawn = p.drawn \cup {p.scroll + 1}
      BY <3>3 DEF Browse!Reviewed
    <3>7. q.seen \in 0..BrowserLines /\ q.drawn \in SUBSET (1..BrowserLines)
      BY <3>1, <3>2, <3>5, <3>6
    <3>8. \A v \in 0..BrowserLines, D \in SUBSET (1..BrowserLines) : [p EXCEPT !.seen = v, !.drawn = D] \in BrowserPreviews
      BY <2>1 DEF BrowserPreviews
    <3>9. q \in BrowserPreviews
      BY <3>4, <3>6, <3>7, <3>8 DEF Browse!Reviewed
    <3> QED
      BY <3>5, <3>6, <3>9
  <2>3. 1..q.seen \subseteq q.drawn
    BY <2>1, <2>2 DEF PagesDrawn, BrowserPreviews
  <2>4. Browse!Frame(a) = [a EXCEPT !.preview = q]
    BY <1>2 DEF Browse!Frame, BrowserApps
  <2> HIDE DEF p, q
  <2> QED
    BY <2>2, <2>3, <2>4 DEF BrowserApps, PagesDrawn, p
<1> QED
  BY <1>1, <1>2

\* What the loop shows does not depend on what was drawn.
LEMMA FrameStands ==
  ASSUME Browse!BrowserAssumption, NEW a \in BrowserApps, PagesDrawn(a), NEW j, LoopStands(a, j)
  PROVE  LoopStands(Browse!Frame(a), j)
BY FrameReads DEF LoopStands, LoopShows

LEMMA CancelledStands ==
  ASSUME NEW j \in BrowserJobs, JobStands(j)
  PROVE  /\ Browse!Cancelled(j) \in BrowserJobs /\ JobStands(Browse!Cancelled(j))
         /\ Browse!Cancelled(j).kind = j.kind
         /\ \A a : LoopStands(a, j) => LoopStands(a, Browse!Cancelled(j))
<1> DEFINE k == Browse!Cancelled(j)
<1>1. /\ k \in BrowserJobs /\ k.offer = "closed" /\ (Sent(k) <=> Sent(j))
      /\ \A f \in {"kind", "generation", "pc", "left", "selection", "excluded", "plan", "rows", "result"} : k[f] = j[f]
  BY DEF Browse!Cancelled, BrowserJobs, Decisions, Sent
<1> HIDE DEF k
<1>2. JobStands(k)
  BY <1>1 DEF JobStands, ResultsOf
<1>3. \A a : LoopStands(a, j) => LoopStands(a, k)
  BY <1>1 DEF LoopStands, LoopShows, Pending
<1> QED
  BY <1>1, <1>2, <1>3 DEF k

\* A key: the loop shows something else, of the same job or another.
LEMMA KeyToJobKeeps ==
  ASSUME Browse!BrowserAssumption, BrowserInv, NEW a \in BrowserApps, PagesDrawn(a), NEW j \in BrowserJobs,
         JobStands(j), LoopStands(a, j), Browse!KeyToJob(a, j)
  PROVE  BrowserInv'
<1>1. /\ stage = "run" /\ UNCHANGED <<disk, stage, code, plans, agreed, moved, unseen, failed>>
      /\ app' = Browse!Frame(a) /\ job' = j
  BY DEF Browse!KeyToJob, Browse!Running, Browse!Show, Browse!Steady, Browse!Quiet
<1>2. app' \in BrowserApps /\ PagesDrawn(app') /\ LoopStands(app', job')
  BY <1>1, FrameReads, FrameStands
<1>3. BrowserTypeOK' /\ PagesDrawn(app)'
  BY <1>1, <1>2 DEF BrowserInv, BrowserTypeOK, PagesDrawn
<1>4. JobStands(job)' /\ LoopStands(app, job)'
  BY <1>1, <1>2 DEF JobStands, LoopStands, LoopShows, Agreed, Sent, Pending, ResultsOf
<1>5. BrowserLeft' /\ Browse!MovedWasConfirmed'
  BY <1>1 DEF BrowserInv, BrowserLeft, Browse!MovedWasConfirmed
<1> QED
  BY <1>3, <1>4, <1>5 DEF BrowserInv

LEMMA KeyKeeps ==
  ASSUME Browse!BrowserAssumption, BrowserInv, NEW a \in BrowserApps, PagesDrawn(a), LoopStands(a, job), Browse!Key(a)
  PROVE  BrowserInv'
<1>1. Browse!KeyToJob(a, job)
  BY DEF Browse!Key, Browse!KeyToJob
<1> QED
  BY <1>1, KeyToJobKeeps DEF BrowserInv, BrowserTypeOK

LEMMA CancelKeeps ==
  ASSUME Browse!BrowserAssumption, BrowserInv, NEW a \in BrowserApps, PagesDrawn(a), LoopStands(a, job), Browse!Cancel(a)
  PROVE  BrowserInv'
<1>1. Browse!CancelJob \in BrowserJobs /\ JobStands(Browse!CancelJob) /\ LoopStands(a, Browse!CancelJob)
  BY CancelledStands DEF Browse!CancelJob, BrowserInv, BrowserTypeOK
<1> QED
  BY <1>1, KeyToJobKeeps DEF Browse!Cancel

LEMMA LeaveKeeps ==
  ASSUME Browse!BrowserAssumption, BrowserInv, stage = "run", NEW c \in Int, Browse!Leave(c),
         job.kind # "none" \/ failed => c # 0
  PROVE  BrowserInv'
<1>1. /\ UNCHANGED <<disk, plans, agreed, moved, unseen, failed>> /\ stage' = "leaving" /\ code' = c
      /\ app' = Browse!NewApp /\ job' = Browse!CancelJob
  BY DEF Browse!Leave, Browse!Quiet
<1>2. job' \in BrowserJobs /\ JobStands(job') /\ job'.kind = job.kind
  BY <1>1, CancelledStands DEF Browse!CancelJob, BrowserInv, BrowserTypeOK
<1>3. app' \in BrowserApps /\ PagesDrawn(app')
  BY <1>1, PieceFacts DEF Browse!NewApp, Browse!NoPreview, Browse!NewPreview, Browse!NoPlan, BrowserApps, BrowserPreviews,
     Plans, Snapshots, PagesDrawn, Browse!BrowserAssumption
<1>4. BrowserTypeOK' /\ PagesDrawn(app)'
  BY <1>1, <1>2, <1>3 DEF BrowserInv, BrowserTypeOK, PagesDrawn
<1>5. JobStands(job)'
  BY <1>1, <1>2 DEF JobStands, Agreed, Sent, ResultsOf
<1>6. BrowserLeft' /\ Browse!MovedWasConfirmed'
  BY <1>1, <1>2 DEF BrowserLeft, BrowserInv, Browse!MovedWasConfirmed
<1> QED
  BY <1>1, <1>4, <1>5, <1>6 DEF BrowserInv

\* The keys.
LEMMA PreviewKeysKeep == ASSUME Browse!BrowserAssumption, BrowserInv, Browse!PreviewKeys PROVE BrowserInv'
<1> USE DEF Browse!PreviewKeys
<1>1. stage = "run" /\ app.screen = "Preview" /\ LoopStands(app, job) /\ app \in BrowserApps /\ PagesDrawn(app)
  BY DEF Browse!Cancel, Browse!KeyToJob, Browse!Key, Browse!Running, BrowserInv, BrowserTypeOK
<1>2. ASSUME Browse!Cancel([app EXCEPT !.screen = IF Browse!Active THEN "Executing" ELSE @]) PROVE BrowserInv'
  <2> DEFINE a == [app EXCEPT !.screen = IF Browse!Active THEN "Executing" ELSE @]
  <2>1. a \in BrowserApps /\ PagesDrawn(a) /\ LoopStands(a, job)
    BY <1>1 DEF BrowserApps, PagesDrawn, LoopStands, LoopShows, Browse!Active
  <2> HIDE DEF a
  <2> QED
    BY <1>2, <2>1, CancelKeeps DEF a
<1>3. ASSUME NEW to \in 0..(BrowserLines - 1), Browse!Key([app EXCEPT !.preview.scroll = to]) PROVE BrowserInv'
  <2> DEFINE a == [app EXCEPT !.preview.scroll = to]
  <2>1. a \in BrowserApps /\ PagesDrawn(a) /\ LoopStands(a, job)
    BY <1>1 DEF BrowserApps, BrowserPreviews, PagesDrawn, LoopStands, LoopShows
  <2> HIDE DEF a
  <2> QED
    BY <1>3, <2>1, KeyKeeps DEF a
<1>4. ASSUME NEW b \in BOOLEAN, Browse!Key([app EXCEPT !.preview.typed = b]) PROVE BrowserInv'
  <2> DEFINE a == [app EXCEPT !.preview.typed = b]
  <2>1. a \in BrowserApps /\ PagesDrawn(a) /\ LoopStands(a, job)
    BY <1>1 DEF BrowserApps, BrowserPreviews, PagesDrawn, LoopStands, LoopShows
  <2> HIDE DEF a
  <2> QED
    BY <1>4, <2>1, KeyKeeps DEF a
<1> QED
  BY <1>2, <1>3, <1>4

\* A key that changes the screen or what is selected, while the plan is not
\* confirmed.
LEMMA ScreenKeeps ==
  ASSUME Browse!BrowserAssumption, BrowserInv, app.screen # "Executing",
         NEW s \in {"Browse", "Menu", "Notice", "ExternalPrompt"}, s = "ExternalPrompt" => job.kind = "none", Browse!Key([app EXCEPT !.screen = s])
  PROVE  BrowserInv'
<1> DEFINE a == [app EXCEPT !.screen = s]
<1>1. stage = "run" /\ LoopStands(app, job) /\ app \in BrowserApps /\ PagesDrawn(app)
  BY DEF Browse!Key, Browse!Running, BrowserInv, BrowserTypeOK
<1>2. a \in BrowserApps /\ PagesDrawn(a) /\ LoopStands(a, job)
  BY <1>1 DEF BrowserApps, PagesDrawn, LoopStands, LoopShows
<1> HIDE DEF a
<1> QED
  BY <1>2, KeyKeeps DEF a

\* A job that begins has no plan, no offer and no result yet.
LEMMA NewJobBegins ==
  ASSUME NEW kind \in {"scan", "view", "plan", "none"}, NEW generation \in Nat
  PROVE  LET b == Browse!NewJob(kind, generation) IN
         /\ b \in BrowserJobs /\ b.plan = Browse!NoPlan /\ b.offer = "none" /\ b.pc = "start" /\ b.kind = kind
         /\ ~Sent(b)
<1>1. Browse!NoPlan \in Plans /\ Browse!Nothing \in Pieces
  BY PieceFacts DEF Browse!NoPlan, Plans
<1>2. Browse!Decision("open", 0, 0) \in Decisions /\ Browse!Decision("open", 0, 0).state = "open"
  BY DEF Browse!Decision, Decisions
<1>3. Browse!Value("none", 0) \in BrowserResults
  BY DEF Browse!Value, BrowserResults, Snapshots
<1> QED
  BY <1>1, <1>2, <1>3 DEF Browse!NewJob, BrowserJobs, Sent

LEMMA BeginningStands ==
  ASSUME ~unseen, NEW j \in BrowserJobs, j.plan = Browse!NoPlan, j.offer = "none", j.pc = "start", ~Sent(j)
  PROVE  JobStands(j)
<1>1. DOMAIN Browse!NoPlan.items = {}
  BY PieceFacts DEF Browse!NoPlan
<1> QED
  BY <1>1 DEF JobStands

\* Without a job, or with a scan, no report waits.
LEMMA NothingUnseen == ASSUME BrowserInv, job.kind # "plan" PROVE ~unseen
BY DEF BrowserInv, JobStands

\* A scan that starts forgets what was shown and selected.
LEMMA StartScanStands ==
  ASSUME Browse!BrowserAssumption, NEW a \in BrowserApps
  PROVE  LET b == Browse!StartScan(a) IN
         /\ b \in BrowserApps /\ PagesDrawn(b) /\ b.generation = a.generation + 1
         /\ b.busy /\ b.selected = {} /\ b.screen = "Browse" /\ b.action = a.action /\ b.result = a.result
         /\ b.refresh = a.refresh
<1> DEFINE b == Browse!StartScan(a)
<1>1. /\ DOMAIN a = DOMAIN b /\ b.preview = Browse!NoPreview /\ b.generation = a.generation + 1 /\ b.data = Browse!Nothing
      /\ b.busy /\ b.selected = {} /\ b.screen = "Browse" /\ b.action = a.action /\ b.result = a.result
      /\ b.refresh = a.refresh
  BY DEF Browse!StartScan, BrowserApps
<1>2. PagesDrawn(b)
  BY <1>1, NoPreviewRead DEF PagesDrawn
<1>3. Browse!NoPreview \in BrowserPreviews /\ Browse!Nothing \in Snapshots
  BY NoPreviewRead DEF Snapshots
<1>4. b \in BrowserApps
  <2>1. \A g \in Nat, v \in BrowserPreviews, d \in Snapshots :
          [a EXCEPT !.generation = g, !.selected = {}, !.excluded = {}, !.preview = v, !.data = d,
                    !.screen = "Browse", !.busy = TRUE, !.stale = FALSE] \in BrowserApps
    BY DEF BrowserApps
  <2>2. a.generation + 1 \in Nat
    BY DEF BrowserApps
  <2> QED
    BY <1>3, <2>1, <2>2 DEF Browse!StartScan
<1> QED
  BY <1>1, <1>2, <1>4

LEMMA RefreshKeeps ==
  ASSUME Browse!BrowserAssumption, BrowserInv, stage = "run",
         job.kind \in {"none", "scan"}, Browse!Refresh
  PROVE  BrowserInv'
<1>1. LoopStands(app, job) /\ app \in BrowserApps /\ PagesDrawn(app) /\ job \in BrowserJobs /\ JobStands(job)
  BY DEF BrowserInv, BrowserTypeOK
<1>2. CASE Browse!Active
  <2> DEFINE a == [app EXCEPT !.refresh = TRUE]
  <2>1. a \in BrowserApps /\ PagesDrawn(a) /\ LoopStands(a, job)
    BY <1>1, <1>2 DEF BrowserApps, PagesDrawn, LoopStands, LoopShows, Browse!Active
  <2>2. Browse!Cancelled(job) \in BrowserJobs /\ JobStands(Browse!Cancelled(job)) /\ LoopStands(a, Browse!Cancelled(job))
    BY <1>1, <2>1, CancelledStands
  <2>3. Browse!KeyToJob(a, Browse!Cancelled(job))
    BY <1>2 DEF Browse!Refresh
  <2> HIDE DEF a
  <2> QED
    BY <2>1, <2>2, <2>3, KeyToJobKeeps
<1>3. CASE ~Browse!Active
  <2> DEFINE a == Browse!StartScan(app)
             j == Browse!NewJob("scan", app.generation + 1)
  <2>1. job.kind = "none" /\ app.generation + 1 \in Nat
    BY <1>1, <1>3 DEF Browse!Active, BrowserApps
  <2>2. a \in BrowserApps /\ PagesDrawn(a)
    BY <1>1, StartScanStands
  <2>4. j \in BrowserJobs /\ JobStands(j) /\ j.kind = "scan" /\ ~Sent(j)
    BY <2>1, NewJobBegins, BeginningStands, NothingUnseen
  <2>5. ~app.refresh /\ (failed => app.action # 0 /\ app.result # 0)
    BY <1>1, <2>1 DEF LoopStands, LoopShows, Pending
  <2>6. /\ a.busy /\ a.selected = {} /\ a.screen = "Browse" /\ a.action = app.action /\ a.result = app.result
        /\ a.refresh = app.refresh
    BY <1>1, StartScanStands
  <2>7. Browse!KeyToJob(a, j)
    BY <1>3 DEF Browse!Refresh
  <2> HIDE DEF a, j
  <2>8. LoopStands(a, j)
    BY <2>4, <2>5, <2>6 DEF LoopStands, LoopShows
  <2> QED
    BY <2>2, <2>4, <2>7, <2>8, KeyToJobKeeps
<1> QED
  BY <1>2, <1>3

LEMMA ViewKeeps ==
  ASSUME Browse!BrowserAssumption, BrowserInv, stage = "run", job.kind = "none",
         NEW f \in Browse!Rows, Browse!View(f)
  PROVE  BrowserInv'
<1> DEFINE a == [app EXCEPT !.busy = TRUE, !.screen = "Executing"]
           part == [x \in {f} |-> app.data[x]]
           j == Browse!ViewJob(f)
<1>1. LoopStands(app, job) /\ app \in BrowserApps /\ PagesDrawn(app)
  BY DEF BrowserInv, BrowserTypeOK
<1>2. app.data # Browse!Nothing /\ app.data \in [Browse!Entries -> Nat] /\ f \in Browse!Entries /\ app.generation \in Nat
  BY <1>1 DEF Browse!Rows, BrowserApps, Snapshots
<1>3. part \in Pieces
  <2>1. part \in [{f} -> Nat] /\ {f} \in SUBSET Browse!Entries
    BY <1>2
  <2> QED
    BY <2>1, PieceFacts
<1>5. j \in BrowserJobs /\ JobStands(j) /\ j.kind = "view" /\ ~Sent(j)
  <2> DEFINE b == Browse!NewJob("view", app.generation)
  <2>1. b \in BrowserJobs /\ b.plan = Browse!NoPlan /\ b.offer = "none" /\ b.pc = "start" /\ b.kind = "view" /\ ~Sent(b)
    BY <1>2, NewJobBegins
  <2>2. j = [b EXCEPT !.selection = part]
    BY DEF Browse!ViewJob
  <2> HIDE DEF b, j, part
  <2>3. /\ j \in BrowserJobs /\ j.plan = Browse!NoPlan /\ j.offer = "none" /\ j.pc = "start" /\ j.kind = "view"
        /\ j.decision = b.decision
    BY <1>3, <2>1, <2>2 DEF BrowserJobs
  <2> QED
    BY <2>1, <2>3, BeginningStands, NothingUnseen DEF Sent
<1>6. a \in BrowserApps /\ PagesDrawn(a)
  BY <1>1 DEF BrowserApps, PagesDrawn
<1>7. a.busy /\ a.data # Browse!Nothing /\ a.screen = "Executing" /\ ~a.refresh /\ (failed => a.action # 0 /\ a.result # 0)
  BY <1>1, <1>2 DEF BrowserApps, LoopStands, LoopShows, Pending
<1> HIDE DEF a, part, j
<1>8. LoopStands(a, j)
  BY <1>5, <1>7 DEF LoopStands, LoopShows
<1> QED
  BY <1>5, <1>6, <1>8, KeyToJobKeeps DEF Browse!View, a, j

LEMMA MakePlanKeeps == ASSUME Browse!BrowserAssumption, BrowserInv, Browse!MakePlan PROVE BrowserInv'
<1> DEFINE a == [app EXCEPT !.busy = TRUE]
           part == [f \in app.selected |-> app.data[f]]
           j == Browse!PlanJob
<1>1. stage = "run" /\ LoopStands(app, job) /\ app \in BrowserApps /\ PagesDrawn(app) /\ ~app.busy /\ app.screen = "Browse"
      /\ app.selected # {}
  BY DEF BrowserInv, BrowserTypeOK, Browse!MakePlan, Browse!Acting, Browse!List, Browse!Running
<1>2. /\ app.data # Browse!Nothing /\ app.data \in [Browse!Entries -> Nat] /\ app.generation \in Nat /\ job.kind = "none"
      /\ app.selected \in SUBSET Browse!Entries /\ app.excluded \in SUBSET Browse!Entries
  BY <1>1 DEF LoopStands, LoopShows, BrowserApps, Snapshots
<1>3. part \in Pieces
  <2>1. part \in [app.selected -> Nat]
    BY <1>2
  <2> QED
    BY <1>2, <2>1, PieceFacts
<1>5. j \in BrowserJobs /\ JobStands(j) /\ j.kind = "plan" /\ ~Sent(j) /\ j.selection = part
  <2> DEFINE b == Browse!NewJob("plan", app.generation)
  <2>1. b \in BrowserJobs /\ b.plan = Browse!NoPlan /\ b.offer = "none" /\ b.pc = "start" /\ b.kind = "plan" /\ ~Sent(b)
    BY <1>2, NewJobBegins
  <2>2. j = [b EXCEPT !.selection = part, !.left = app.selected, !.excluded = app.excluded]
    BY DEF Browse!PlanJob
  <2> HIDE DEF b, j, part
  <2>3. /\ j \in BrowserJobs /\ j.plan = Browse!NoPlan /\ j.offer = "none" /\ j.pc = "start" /\ j.kind = "plan"
        /\ j.decision = b.decision /\ j.selection = part
    BY <1>2, <1>3, <2>1, <2>2 DEF BrowserJobs
  <2> QED
    BY <1>2, <2>1, <2>3, BeginningStands, NothingUnseen DEF Sent
<1>6. a \in BrowserApps /\ PagesDrawn(a) /\ a.data = app.data
  BY <1>1 DEF BrowserApps, PagesDrawn
<1>7. a.busy /\ a.data # Browse!Nothing /\ a.screen = "Browse" /\ ~a.refresh /\ (failed => a.action # 0 /\ a.result # 0)
  BY <1>1, <1>2 DEF BrowserApps, LoopStands, LoopShows, Pending
<1>8. \A f \in DOMAIN part : part[f] = app.data[f]
  OBVIOUS
<1>9. Browse!KeyToJob(a, j)
  BY DEF Browse!MakePlan
<1> HIDE DEF a, part, j
<1>10. LoopStands(a, j)
  BY <1>5, <1>6, <1>7, <1>8, PieceFacts DEF LoopStands, LoopShows
<1> QED
  BY <1>5, <1>6, <1>9, <1>10, KeyToJobKeeps

LEMMA QuitKeeps == ASSUME Browse!BrowserAssumption, BrowserInv, stage = "run", Browse!Quit PROVE BrowserInv'
<1>1. LoopStands(app, job) /\ app.result \in Nat
  BY DEF BrowserInv, BrowserTypeOK, BrowserApps
<1>2. CASE Browse!Active
  BY <1>2, LeaveKeeps DEF Browse!Quit
<1>3. CASE ~Browse!Active
  BY <1>1, <1>3, LeaveKeeps DEF Browse!Quit, Browse!Active, LoopStands, LoopShows, Pending
<1> QED
  BY <1>2, <1>3

LEMMA OtherKeysKeep == ASSUME Browse!BrowserAssumption, BrowserInv, Browse!OtherKeys PROVE BrowserInv'
<1> USE DEF Browse!OtherKeys
<1>1. stage = "run" /\ LoopStands(app, job) /\ app \in BrowserApps /\ PagesDrawn(app)
  BY DEF Browse!Running, BrowserInv, BrowserTypeOK
<1>2. ASSUME Browse!Cancel(app) PROVE BrowserInv'
  BY <1>1, <1>2, CancelKeeps
<1>3. ASSUME app.screen = "ExternalPrompt", NEW f \in Browse!Rows, Browse!View(f) PROVE BrowserInv'
  BY <1>1, <1>3, ViewKeeps DEF LoopStands, LoopShows
<1>4. ASSUME app.screen = "Menu", ~app.busy, Browse!Refresh PROVE BrowserInv'
  <2>1. job.kind = "none"
    BY <1>1, <1>4 DEF LoopStands, LoopShows
  <2> QED
    BY <1>1, <1>4, <2>1, RefreshKeeps
<1> QED
  BY <1>1, <1>2, <1>3, <1>4, QuitKeeps, ScreenKeeps

LEMMA NavigateKeeps == ASSUME Browse!BrowserAssumption, BrowserInv, Browse!Navigate PROVE BrowserInv'
<1>1. stage = "run" /\ LoopStands(app, job) /\ app \in BrowserApps /\ PagesDrawn(app) /\ job \in BrowserJobs /\ app.screen = "Browse"
  BY DEF Browse!Navigate, Browse!List, Browse!Running, BrowserInv, BrowserTypeOK
<1>2. ASSUME Browse!Cancel(app) PROVE BrowserInv'
  BY <1>1, <1>2, CancelKeeps
<1>3. ASSUME Browse!RefreshAllowed, Browse!Refresh PROVE BrowserInv'
  <2>1. job.kind \in {"none", "scan"}
    BY <1>1, <1>3 DEF LoopStands, LoopShows, Browse!RefreshAllowed, BrowserJobs
  <2> QED
    BY <1>1, <1>3, <2>1, RefreshKeeps
<1> QED
  BY <1>1, <1>2, <1>3, QuitKeeps, ScreenKeeps DEF Browse!Navigate

LEMMA ChooseKeeps == ASSUME Browse!BrowserAssumption, BrowserInv, Browse!Choose PROVE BrowserInv'
<1>1. stage = "run" /\ LoopStands(app, job) /\ app \in BrowserApps /\ PagesDrawn(app) /\ ~app.busy /\ app.screen = "Browse" /\ job.kind = "none"
  BY DEF Browse!Choose, Browse!Acting, Browse!List, Browse!Running, BrowserInv, BrowserTypeOK, LoopStands, LoopShows
<1>2. PICK e \in Browse!Rows :
        \/ Browse!Key([app EXCEPT !.selected = Browse!Toggle(@, e)])
        \/ Browse!Key([app EXCEPT !.excluded = Browse!Toggle(@, e)])
        \/ Browse!View(e)
        \/ Browse!Key([app EXCEPT !.screen = "ExternalPrompt"])
  BY DEF Browse!Choose
<1>3. e \in Browse!Entries /\ app.data # Browse!Nothing
  BY <1>2 DEF Browse!Rows
<1>4. \A S \in SUBSET Browse!Entries : Browse!Toggle(S, e) \in SUBSET Browse!Entries
  BY <1>3 DEF Browse!Toggle
<1>5. ASSUME Browse!Key([app EXCEPT !.selected = Browse!Toggle(@, e)]) PROVE BrowserInv'
  <2> DEFINE a == [app EXCEPT !.selected = Browse!Toggle(@, e)]
  <2>1. a \in BrowserApps /\ PagesDrawn(a) /\ LoopStands(a, job)
    BY <1>1, <1>3, <1>4 DEF BrowserApps, PagesDrawn, LoopStands, LoopShows
  <2> HIDE DEF a
  <2> QED
    BY <1>5, <2>1, KeyKeeps DEF a
<1>6. ASSUME Browse!Key([app EXCEPT !.excluded = Browse!Toggle(@, e)]) PROVE BrowserInv'
  <2> DEFINE a == [app EXCEPT !.excluded = Browse!Toggle(@, e)]
  <2>1. a \in BrowserApps /\ PagesDrawn(a) /\ LoopStands(a, job)
    BY <1>1, <1>4 DEF BrowserApps, PagesDrawn, LoopStands, LoopShows
  <2> HIDE DEF a
  <2> QED
    BY <1>6, <2>1, KeyKeeps DEF a
<1> QED
  BY <1>1, <1>2, <1>5, <1>6, ViewKeeps, ScreenKeeps

LEMMA ResizeKeeps == ASSUME Browse!BrowserAssumption, BrowserInv, Browse!Resize PROVE BrowserInv'
<1>1. PICK w \in BOOLEAN : Browse!Key([app EXCEPT !.wide = w, !.preview = Browse!NewPreview(@.plan)])
  BY DEF Browse!Resize
<1> DEFINE a == [app EXCEPT !.wide = w, !.preview = Browse!NewPreview(@.plan)]
<1>2. stage = "run" /\ LoopStands(app, job) /\ app \in BrowserApps
  BY DEF Browse!Resize, Browse!Running, BrowserInv, BrowserTypeOK
<1>3. a \in BrowserApps /\ PagesDrawn(a) /\ LoopStands(a, job)
  <2>1. app.preview.plan \in Plans
    BY <1>2 DEF BrowserApps, BrowserPreviews
  <2>2. a \in BrowserApps /\ a.preview = Browse!NewPreview(app.preview.plan)
    BY <1>2, <2>1, NewPreviewRead DEF BrowserApps
  <2>3. \A f \in {"data", "selected", "screen", "busy", "refresh", "action", "result"} : a[f] = app[f]
    BY <1>2 DEF BrowserApps
  <2> HIDE DEF a
  <2>4. PagesDrawn(a)
    BY <2>1, <2>2, NewPreviewRead DEF PagesDrawn
  <2> QED
    BY <1>2, <2>1, <2>2, <2>3, <2>4, NewPreviewRead DEF LoopStands, LoopShows
<1> HIDE DEF a
<1> QED
  BY <1>1, <1>3, KeyKeeps DEF a

\* Enter on a plan that was read to its end: what is sent is agreed.
LEMMA ConfirmKeeps == ASSUME Browse!BrowserAssumption, BrowserInv, Browse!Confirm PROVE BrowserInv'
<1>1. /\ stage = "run" /\ LoopStands(app, job) /\ app \in BrowserApps /\ PagesDrawn(app) /\ job \in BrowserJobs /\ JobStands(job)
      /\ app.screen = "Preview"
  BY DEF Browse!Confirm, Browse!Running, BrowserInv, BrowserTypeOK
<1>2. CASE ~Browse!Active \/ job.decision.state # "open" \/ job.pc = "done"
  BY <1>1, <1>2, LeaveKeeps DEF Browse!Confirm
<1>3. CASE ~(~Browse!Active \/ job.decision.state # "open" \/ job.pc = "done")
  <2> DEFINE d == Browse!Decision("sent", app.generation, app.preview.plan.id)
             c == [items |-> app.preview.plan.items, data |-> app.data, read |-> app.preview.drawn]
  <2>1. /\ UNCHANGED <<disk, code, plans, moved, unseen, failed, stage>> /\ agreed' = agreed \cup {c}
        /\ job' = [job EXCEPT !.decision = d] /\ app' = [app EXCEPT !.screen = "Executing"]
        /\ app.preview.seen = BrowserLines
    BY <1>3 DEF Browse!Confirm, Browse!Steady, Browse!Quiet, Browse!Read
  <2>2. /\ job.kind = "plan" /\ job.offer \in {"taken", "closed"} /\ app.preview.plan = job.plan /\ job.plan.id # 0
        /\ job.pc = "wait"
    BY <1>1, <1>3 DEF LoopStands, LoopShows
  <2>3. d \in Decisions /\ d.state = "sent"
    BY <1>1 DEF Browse!Decision, Decisions, BrowserApps, BrowserPreviews, Plans
  <2>4. /\ job' \in BrowserJobs /\ job'.decision.state = "sent"
        /\ \A f \in {"kind", "generation", "pc", "left", "selection", "excluded", "plan", "offer", "rows", "result"} : job'[f] = job[f]
    BY <1>1, <2>1, <2>3 DEF BrowserJobs
  <2>5. /\ app' \in BrowserApps /\ app'.screen = "Executing"
        /\ \A f \in {"data", "selected", "busy", "refresh", "preview", "action", "result"} : app'[f] = app[f]
    BY <1>1, <2>1 DEF BrowserApps
  <2>6. Agreed(job.plan)'
    <3>1. c.items = job.plan.items /\ c.data = app.data
      BY <2>2
    <3>2. c.read = 1..BrowserLines
      BY <1>1, <2>1 DEF PagesDrawn, BrowserApps, BrowserPreviews
    <3>3. \A f \in DOMAIN job.plan.items : app.data[f] = job.plan.items[f]
      BY <1>1, <2>2 DEF JobStands, LoopStands, LoopShows
    <3> HIDE DEF c, d
    <3> QED
      BY <2>1, <2>4, <3>1, <3>2, <3>3 DEF Agreed
  <2> HIDE DEF c, d
  <2>7. JobStands(job)'
    BY <1>1, <2>1, <2>2, <2>4, <2>6 DEF JobStands, Sent, ResultsOf
  <2>8. LoopStands(app, job)'
    BY <1>1, <2>1, <2>2, <2>4, <2>5 DEF LoopStands, LoopShows, Sent, Pending
  <2>9. BrowserTypeOK' /\ PagesDrawn(app)'
    BY <1>1, <2>1, <2>4, <2>5 DEF BrowserInv, BrowserTypeOK, PagesDrawn
  <2>10. BrowserLeft' /\ Browse!MovedWasConfirmed'
    BY <1>1, <2>1 DEF BrowserInv, BrowserLeft, Browse!MovedWasConfirmed
  <2> QED
    BY <2>7, <2>8, <2>9, <2>10 DEF BrowserInv
<1> QED
  BY <1>2, <1>3

LEMMA SignalKeeps == ASSUME Browse!BrowserAssumption, BrowserInv, Browse!Signal PROVE BrowserInv'
BY LeaveKeeps DEF Browse!Signal, Browse!Running

\* The plan that is offered appears on the screen.
LEMMA TakePlanKeeps == ASSUME Browse!BrowserAssumption, BrowserInv, Browse!TakePlan PROVE BrowserInv'
<1> DEFINE a == Browse!AcceptPlan(app, job.generation, job.plan)
<1>1. /\ stage = "run" /\ LoopStands(app, job) /\ app \in BrowserApps /\ PagesDrawn(app) /\ job \in BrowserJobs /\ JobStands(job)
      /\ job.offer = "sent" /\ job' = [job EXCEPT !.offer = "taken"] /\ app' = Browse!Frame(a)
      /\ UNCHANGED <<disk, code, plans, moved, unseen, failed, stage, agreed>>
  BY DEF Browse!TakePlan, Browse!Running, BrowserInv, BrowserTypeOK, Browse!Show, Browse!Steady, Browse!Quiet
<1>2. job.kind = "plan" /\ job.plan.id # 0 /\ ~Sent(job) /\ job.pc \notin {"start", "plan", "show"}
  BY <1>1 DEF JobStands
<1>3. /\ job' \in BrowserJobs /\ job'.offer = "taken"
      /\ \A f \in {"kind", "generation", "pc", "left", "selection", "excluded", "plan", "decision", "rows", "result"} : job'[f] = job[f]
  BY <1>1 DEF BrowserJobs
<1>4. JobStands(job)'
  BY <1>1, <1>2, <1>3 DEF JobStands, Sent, ResultsOf
<1>5. job.pc \in {"wait", "done"}
  BY <1>1, <1>2 DEF JobStands, BrowserJobs
<1>6. a \in BrowserApps /\ PagesDrawn(a) /\ LoopStands(a, job')
  <2>1. CASE job.generation # app.generation
    BY <1>1, <1>2, <1>3, <2>1 DEF Browse!AcceptPlan, LoopStands, LoopShows, Sent, Pending
  <2>2. CASE job.generation = app.generation
    <3>1. job.plan \in Plans
      BY <1>1 DEF BrowserJobs
    <3>2. /\ a \in BrowserApps /\ a.preview = Browse!NewPreview(job.plan) /\ a.screen = "Preview"
          /\ \A f \in {"data", "selected", "busy", "refresh", "action", "result"} : a[f] = app[f]
      BY <1>1, <2>2, <3>1, NewPreviewRead DEF Browse!AcceptPlan, BrowserApps
    <3> HIDE DEF a
    <3>3. PagesDrawn(a) /\ a.preview.plan = job.plan
      BY <3>1, <3>2, NewPreviewRead DEF PagesDrawn
    <3> QED
      BY <1>1, <1>2, <1>3, <1>5, <3>2, <3>3 DEF LoopStands, LoopShows, Sent, Pending
  <2> QED
    BY <2>1, <2>2
<1> HIDE DEF a
<1>7. app' \in BrowserApps /\ PagesDrawn(app') /\ LoopStands(app', job')
  BY <1>1, <1>6, FrameReads, FrameStands
<1>8. BrowserTypeOK' /\ PagesDrawn(app)' /\ LoopStands(app, job)'
  BY <1>1, <1>3, <1>7 DEF BrowserInv, BrowserTypeOK, PagesDrawn, LoopStands, LoopShows, Sent, Pending
<1>9. BrowserLeft' /\ Browse!MovedWasConfirmed'
  BY <1>1 DEF BrowserInv, BrowserLeft, Browse!MovedWasConfirmed
<1> QED
  BY <1>4, <1>8, <1>9 DEF BrowserInv

\* What the loop shows when its job has ended.
LEMMA AfterJobShows ==
  ASSUME Browse!BrowserAssumption, NEW a \in BrowserApps, PagesDrawn(a), job \in BrowserJobs, JobStands(job),
         job.pc = "done", job.kind # "none", a.screen \notin {"ExternalPrompt"},
         a.screen = "Preview" => job.kind = "plan", ~a.refresh,
         a.selected # {} => a.data # Browse!Nothing /\ job.kind # "scan",
         Sent(job) => a.screen = "Executing" /\ a.preview.plan.id # 0,
         failed => Pending(job) \/ (a.action # 0 /\ a.result # 0)
  PROVE  LET b == Browse!AfterJob(a) IN
           /\ b \in BrowserApps /\ PagesDrawn(b) /\ ~b.refresh
           /\ b.screen \notin {"Preview", "ExternalPrompt"}
           /\ b.selected # {} => b.data # Browse!Nothing
           /\ failed => b.action # 0 /\ b.result # 0
<1> DEFINE b == Browse!AfterJob(a)
           r == job.result
<1>1. /\ r \in BrowserResults /\ r.kind \in Browse!Errors \cup ResultsOf(job) /\ (r.kind \in Browse!Errors => r.code # 0)
      /\ r.code \in Nat /\ r.data \in Snapshots /\ job.kind \in {"scan", "view", "plan"}
  BY DEF BrowserJobs, BrowserResults, JobStands
<1>2. CASE r.kind = "scan"
  <2>1. b = Browse!AcceptScan(a, job.generation, r.data, r.code)
    BY <1>2 DEF Browse!AfterJob, Browse!Errors
  <2>2. job.kind = "scan" /\ ~Pending(job)
    BY <1>1, <1>2 DEF ResultsOf, Browse!Errors, Pending
  <2>3. b \in BrowserApps
    BY <1>1, <2>1 DEF Browse!AcceptScan, BrowserApps
  <2>4. /\ \A f \in {"selected", "screen", "refresh", "preview", "action"} : b[f] = a[f]
        /\ b.result = a.result \/ b.result = (IF a.action # 0 THEN a.action ELSE r.code)
    BY <1>1, <2>1 DEF Browse!AcceptScan, BrowserApps
  <2> HIDE DEF b
  <2> QED
    BY <2>2, <2>3, <2>4 DEF b, PagesDrawn, BrowserApps
<1>3. CASE r.kind = "cancelled"
  <2>1. b = [a EXCEPT !.screen = "Browse", !.preview = Browse!NoPreview]
    BY <1>3 DEF Browse!AfterJob, Browse!Errors
  <2>2. b \in BrowserApps /\ b.preview = Browse!NoPreview /\ b.screen = "Browse"
        /\ \A f \in {"selected", "data", "refresh", "action", "result"} : b[f] = a[f]
    BY <2>1, NoPreviewRead DEF BrowserApps
  <2>3. ~Pending(job)
    BY <1>3 DEF Pending, Browse!Errors
  <2>4. PagesDrawn(b)
    BY <2>2, NoPreviewRead DEF PagesDrawn
  <2>5. job.kind # "scan"
    BY <1>1, <1>3 DEF ResultsOf, Browse!Errors
  <2> HIDE DEF b
  <2> QED
    BY <2>2, <2>3, <2>4, <2>5 DEF b
<1>4. CASE r.kind = "executed"
  <2>1. b = Browse!AcceptExecution(a, r.code)
    BY <1>4 DEF Browse!AfterJob, Browse!Errors
  <2> DEFINE sticky == IF r.code # 0 THEN (IF a.action = 1 THEN 1 ELSE r.code) ELSE a.action
  <2>2. sticky \in Nat /\ (failed => sticky # 0)
    BY <1>1, <1>4 DEF Pending, BrowserApps, Browse!Errors
  <2>3. b = [a EXCEPT !.action = sticky, !.result = IF sticky # 0 THEN sticky ELSE r.code, !.screen = "Notice",
                      !.stale = TRUE, !.selected = {}, !.preview = Browse!NoPreview]
    BY <2>1 DEF Browse!AcceptExecution
  <2> HIDE DEF sticky
  <2>4. b \in BrowserApps /\ b.preview = Browse!NoPreview /\ b.screen = "Notice" /\ b.refresh = a.refresh /\ b.selected = {}
        /\ b.action = sticky /\ b.result = IF sticky # 0 THEN sticky ELSE r.code
    BY <1>1, <2>2, <2>3, NoPreviewRead DEF BrowserApps
  <2>5. PagesDrawn(b)
    BY <2>4, NoPreviewRead DEF PagesDrawn
  <2> HIDE DEF b
  <2> QED
    BY <2>2, <2>4, <2>5 DEF b
<1>5. CASE r.kind = "viewer"
  <2>1. b = [a EXCEPT !.screen = "Browse"]
    BY <1>5 DEF Browse!AfterJob, Browse!Errors
  <2>2. b \in BrowserApps /\ b.screen = "Browse"
        /\ \A f \in {"selected", "data", "refresh", "action", "result", "preview"} : b[f] = a[f]
    BY <2>1 DEF BrowserApps
  <2>3. ~Pending(job)
    BY <1>5 DEF Pending, Browse!Errors
  <2> HIDE DEF b
  <2> QED
    BY <2>2, <2>3 DEF b, PagesDrawn
<1>6. CASE r.kind \in Browse!Errors
  <2>1. b = Browse!Fail(a, r.code)
    BY <1>6 DEF Browse!AfterJob, Browse!Errors
  <2>2. b \in BrowserApps /\ b.preview = Browse!NoPreview /\ b.screen = "Notice" /\ b.refresh = a.refresh
        /\ b.selected = a.selected /\ b.data = a.data /\ b.result = r.code
        /\ b.action = IF a.screen = "Executing" /\ a.preview.plan.id # 0 THEN 1 ELSE a.action
    <3> DEFINE v == IF a.screen = "Executing" /\ a.preview.plan.id # 0 THEN 1 ELSE a.action
               t == (a.data # Browse!Nothing)
    <3>1. v \in Nat /\ t \in BOOLEAN
      BY DEF BrowserApps
    <3>2. b = [a EXCEPT !.action = v, !.stale = t, !.screen = "Notice", !.preview = Browse!NoPreview, !.result = r.code]
      BY <2>1 DEF Browse!Fail
    <3> HIDE DEF v, t, b
    <3>3. b \in BrowserApps /\ b.preview = Browse!NoPreview /\ b.screen = "Notice" /\ b.refresh = a.refresh
          /\ b.selected = a.selected /\ b.data = a.data /\ b.result = r.code /\ b.action = v
      BY <1>1, <3>1, <3>2, NoPreviewRead DEF BrowserApps
    <3> QED
      BY <3>3 DEF v
  <2>3. failed => b.action # 0
    BY <2>2 DEF Pending
  <2>4. PagesDrawn(b)
    BY <2>2, NoPreviewRead DEF PagesDrawn
  <2> HIDE DEF b
  <2> QED
    BY <1>1, <1>6, <2>2, <2>3, <2>4 DEF b
<1> QED
  BY <1>1, <1>2, <1>3, <1>4, <1>5, <1>6 DEF ResultsOf

LEMMA JoinJobKeeps == ASSUME Browse!BrowserAssumption, BrowserInv, Browse!JoinJob PROVE BrowserInv'
<1> DEFINE a == [app EXCEPT !.busy = FALSE]
<1>1. /\ stage = "run" /\ LoopStands(app, job) /\ app \in BrowserApps /\ PagesDrawn(app) /\ job \in BrowserJobs /\ JobStands(job)
      /\ job.kind # "none" /\ job.pc = "done" /\ UNCHANGED <<disk, code, plans, moved, failed, stage, agreed>>
  BY DEF Browse!JoinJob, Browse!Running, Browse!Active, BrowserInv, BrowserTypeOK, Browse!Steady
<1>2. a \in BrowserApps /\ \A f \in {"screen", "selected", "data", "refresh", "action", "result", "preview", "generation"} : a[f] = app[f]
  BY <1>1 DEF BrowserApps
<1>3. BrowserLeft' /\ Browse!MovedWasConfirmed'
  BY <1>1 DEF BrowserInv, BrowserLeft, Browse!MovedWasConfirmed
<1>4. CASE app.refresh
  <2> DEFINE b == [a EXCEPT !.refresh = FALSE]
  <2>1. app' = Browse!StartScan(b) /\ job' = Browse!NewJob("scan", app'.generation) /\ unseen' = unseen
    BY <1>4 DEF Browse!JoinJob
  <2>2. b \in BrowserApps /\ ~b.refresh /\ b.action = app.action /\ b.result = app.result
    BY <1>2 DEF BrowserApps
  <2> HIDE DEF b
  <2>3. /\ app' \in BrowserApps /\ PagesDrawn(app') /\ app'.busy /\ app'.selected = {} /\ app'.screen = "Browse"
        /\ app'.action = app.action /\ app'.result = app.result /\ ~app'.refresh /\ app'.generation \in Nat
    BY <2>1, <2>2, StartScanStands DEF BrowserApps
  <2>4. job.kind = "scan" /\ ~unseen /\ ~Pending(job)
    BY <1>1, <1>4, NothingUnseen DEF LoopStands, LoopShows, Pending
  <2>5. job' \in BrowserJobs /\ JobStands(job') /\ job'.kind = "scan" /\ ~Sent(job')
    BY <2>1, <2>3, <2>4, NewJobBegins, BeginningStands
  <2>6. LoopStands(app, job)'
    BY <1>1, <2>3, <2>4, <2>5 DEF LoopStands, LoopShows, Sent
  <2>7. JobStands(job)'
    BY <1>1, <2>1, <2>5 DEF JobStands, Sent, Agreed, ResultsOf
  <2>8. BrowserTypeOK' /\ PagesDrawn(app)'
    BY <1>1, <2>1, <2>3, <2>5 DEF BrowserInv, BrowserTypeOK, PagesDrawn
  <2> QED
    BY <1>3, <2>6, <2>7, <2>8 DEF BrowserInv
<1>5. CASE ~app.refresh
  <2> DEFINE b == Browse!AfterJob(a)
  <2>1. app' = Browse!Frame(b) /\ job' = Browse!NoJob /\ unseen' = FALSE
    BY <1>1, <1>5 DEF Browse!JoinJob, Browse!Show, JobStands, BrowserInv, BrowserTypeOK
  <2>2. /\ b \in BrowserApps /\ PagesDrawn(b) /\ ~b.refresh
        /\ b.screen \notin {"Preview", "ExternalPrompt"}
        /\ b.selected # {} => b.data # Browse!Nothing
        /\ failed => b.action # 0 /\ b.result # 0
    <3>1. /\ a \in BrowserApps /\ PagesDrawn(a) /\ a.screen \notin {"ExternalPrompt"} /\ ~a.refresh
          /\ a.screen = "Preview" => job.kind = "plan"
          /\ a.selected # {} => a.data # Browse!Nothing /\ job.kind # "scan"
          /\ Sent(job) => a.screen = "Executing" /\ a.preview.plan.id # 0
          /\ failed => Pending(job) \/ (a.action # 0 /\ a.result # 0)
      BY <1>1, <1>2, <1>5 DEF PagesDrawn, LoopStands, LoopShows
    <3> HIDE DEF a
    <3> QED
      BY <1>1, <3>1, AfterJobShows
  <2>3. job' \in BrowserJobs /\ job'.kind = "none" /\ ~Sent(job') /\ job'.plan = Browse!NoPlan /\ job'.offer = "none" /\ job'.pc = "start"
    BY <2>1, NewJobBegins DEF Browse!NoJob
  <2> HIDE DEF b
  <2>4. LoopStands(b, job')
    BY <2>2, <2>3 DEF LoopStands, LoopShows
  <2>5. app' \in BrowserApps /\ PagesDrawn(app') /\ LoopStands(app', job')
    BY <2>1, <2>2, <2>4, FrameReads, FrameStands
  <2>6. DOMAIN Browse!NoPlan.items = {}
    BY PieceFacts DEF Browse!NoPlan
  <2>7. JobStands(job)'
    BY <2>1, <2>3, <2>6 DEF JobStands, Sent
  <2>8. LoopStands(app, job)'
    BY <1>1, <2>5 DEF LoopStands, LoopShows, Sent, Pending
  <2>9. BrowserTypeOK' /\ PagesDrawn(app)'
    BY <1>1, <2>1, <2>3, <2>5 DEF BrowserInv, BrowserTypeOK, PagesDrawn
  <2> QED
    BY <1>3, <2>7, <2>8, <2>9 DEF BrowserInv
<1> QED
  BY <1>4, <1>5

\* The program ends: what was left undone is in its exit code.
LEMMA ExitKeeps == ASSUME Browse!BrowserAssumption, BrowserInv, Browse!Exit PROVE BrowserInv'
<1>1. /\ stage = "leaving" /\ stage' = "gone" /\ job' = Browse!NoJob /\ UNCHANGED <<disk, app, plans, agreed, moved, failed>>
      /\ job.kind # "none" => job.pc = "done"
      /\ unseen' = (unseen /\ job.kind # "none" /\ job.result.kind # "executed")
  BY DEF Browse!Exit, Browse!Active
<1>2. job \in BrowserJobs /\ JobStands(job) /\ unseen' = FALSE
  BY <1>1 DEF BrowserInv, BrowserTypeOK, JobStands
<1>3. code' \in Int /\ (failed => code' # 0)
  <2>1. job.result.code \in Nat /\ code \in Int /\ (failed => code # 0)
    BY <1>1, <1>2 DEF BrowserInv, BrowserTypeOK, BrowserLeft, BrowserJobs, BrowserResults
  <2>2. CASE job.kind = "none"
    BY <2>1, <2>2 DEF Browse!Exit, Browse!Active
  <2>3. CASE job.kind # "none"
    <3>1. job.result.kind \in Browse!Errors => job.result.code # 0
      BY <1>1, <1>2, <2>3 DEF JobStands
    <3> QED
      BY <2>1, <2>3, <3>1 DEF Browse!Exit, Browse!Active
  <2> QED
    BY <2>2, <2>3
<1>4. job' \in BrowserJobs /\ job'.kind = "none" /\ ~Sent(job') /\ job'.plan = Browse!NoPlan /\ job'.offer = "none" /\ job'.pc = "start"
  BY <1>1, NewJobBegins DEF Browse!NoJob
<1>5. DOMAIN Browse!NoPlan.items = {}
  BY PieceFacts DEF Browse!NoPlan
<1>6. JobStands(job)'
  BY <1>2, <1>4, <1>5 DEF JobStands, Sent
<1>7. BrowserTypeOK' /\ PagesDrawn(app)'
  BY <1>1, <1>2, <1>3, <1>4 DEF BrowserInv, BrowserTypeOK, PagesDrawn
<1>8. BrowserLeft' /\ Browse!MovedWasConfirmed'
  BY <1>1, <1>3, <1>4 DEF BrowserInv, BrowserLeft, Browse!MovedWasConfirmed
<1> QED
  BY <1>1, <1>6, <1>7, <1>8 DEF BrowserInv

LEMMA ChangeKeeps == ASSUME Browse!BrowserAssumption, BrowserInv, Browse!Change PROVE BrowserInv'
<1>1. /\ UNCHANGED <<app, job, stage, code, plans, agreed, moved, unseen, failed>>
  BY DEF Browse!Change
<1>11. disk' \in [Browse!Entries -> Nat]
  <2>1. disk \in [Browse!Entries -> Nat]
    BY DEF BrowserInv, BrowserTypeOK
  <2>2. \E f \in Browse!Entries : disk' = [disk EXCEPT ![f] = 0] \/ disk' = [disk EXCEPT ![f] = 2]
    BY DEF Browse!Change, Browse!Entries
  <2> QED
    BY <2>1, <2>2
<1>2. BrowserTypeOK' /\ PagesDrawn(app)' /\ BrowserLeft' /\ Browse!MovedWasConfirmed'
  BY <1>1, <1>11 DEF BrowserInv, BrowserTypeOK, PagesDrawn, BrowserLeft, Browse!MovedWasConfirmed
<1>3. JobStands(job)' /\ (stage = "run" => LoopStands(app, job))'
  BY <1>1 DEF BrowserInv, JobStands, Sent, Agreed, ResultsOf, LoopStands, LoopShows, Pending
<1> QED
  BY <1>2, <1>3 DEF BrowserInv

\* A step of the job's thread leaves the loop alone.
LEMMA ThreadStands ==
  ASSUME BrowserInv, UNCHANGED <<app, stage, code, agreed>>, job.kind # "none", job.pc # "done", job'.kind = job.kind,
         disk' \in [Browse!Entries -> Nat], job' \in BrowserJobs, plans' \in Nat, unseen' \in BOOLEAN, failed' \in BOOLEAN,
         JobStands(job)', LoopShows(app, job) => LoopShows(app, job'), failed' => failed \/ Pending(job'),
         Browse!MovedWasConfirmed'
  PROVE  BrowserInv'
<1>1. BrowserTypeOK' /\ PagesDrawn(app)'
  BY DEF BrowserInv, BrowserTypeOK, PagesDrawn
<1>2. (stage = "run" => LoopStands(app, job))'
  BY DEF BrowserInv, LoopStands, LoopShows, Pending, Sent
<1>3. BrowserLeft'
  BY DEF BrowserInv, BrowserLeft
<1> QED
  BY <1>1, <1>2, <1>3 DEF BrowserInv

LEMMA ResultFacts ==
  /\ \A kind \in Browse!Errors :
       Browse!Error(kind) \in BrowserResults /\ Browse!Error(kind).kind = kind /\ Browse!Error(kind).code # 0
  /\ \A kind \in {"scan", "viewer", "cancelled", "executed"}, c \in Nat :
       Browse!Value(kind, c) \in BrowserResults /\ Browse!Value(kind, c).kind = kind /\ Browse!Value(kind, c).code = c
BY DEF Browse!Error, Browse!Value, Browse!Errors, BrowserResults, Snapshots

\* The thread ends with a result.
LEMMA DoneStands ==
  ASSUME BrowserInv, job.kind # "none", job.pc # "done", NEW r \in BrowserResults,
         r.kind \in Browse!Errors \cup ResultsOf(job), r.kind \in Browse!Errors => r.code # 0,
         UNCHANGED agreed, Browse!Done(r),
         unseen' => job.kind = "plan" /\ r.kind = "executed"
  PROVE  /\ job' \in BrowserJobs /\ job'.kind = job.kind /\ job'.pc = "done" /\ job'.result = r /\ (Sent(job') <=> Sent(job))
         /\ JobStands(job)' /\ (LoopShows(app, job) => LoopShows(app, job'))
<1>1. job \in BrowserJobs /\ JobStands(job) /\ job' = [job EXCEPT !.pc = "done", !.result = r]
  BY DEF BrowserInv, BrowserTypeOK, Browse!Done
<1>2. /\ job' \in BrowserJobs /\ job'.pc = "done" /\ job'.result = r
      /\ \A f \in {"kind", "generation", "left", "selection", "excluded", "plan", "offer", "rows", "decision"} : job'[f] = job[f]
  BY <1>1 DEF BrowserJobs
<1>3. ResultsOf(job') = ResultsOf(job) /\ (Sent(job') <=> Sent(job))
  BY <1>2 DEF ResultsOf, Sent
<1>4. JobStands(job)'
  BY <1>1, <1>2, <1>3 DEF JobStands, Sent, Agreed, ResultsOf
<1>5. LoopShows(app, job) => LoopShows(app, job')
  BY <1>2, <1>3 DEF LoopShows
<1> QED
  BY <1>2, <1>3, <1>4, <1>5

\* An end without a history of its own.
LEMMA PlainDone ==
  ASSUME BrowserInv, UNCHANGED <<app, stage, code, agreed, disk, moved, unseen>>, plans' \in Nat, failed' \in BOOLEAN,
         job.kind # "none", job.pc # "done", NEW r \in BrowserResults,
         r.kind \in Browse!Errors \cup ResultsOf(job), r.kind \in Browse!Errors => r.code # 0, Browse!Done(r),
         failed' => failed \/ (job.kind = "plan" /\ Sent(job) /\ r.kind \in Browse!Errors)
  PROVE  BrowserInv'
<1>1. ~unseen /\ unseen' = FALSE
  BY DEF BrowserInv, BrowserTypeOK, JobStands
<1>2. /\ job' \in BrowserJobs /\ job'.kind = job.kind /\ job'.pc = "done" /\ job'.result = r /\ (Sent(job') <=> Sent(job))
      /\ JobStands(job)' /\ (LoopShows(app, job) => LoopShows(app, job'))
  BY <1>1, DoneStands
<1>3. Browse!MovedWasConfirmed'
  BY DEF BrowserInv, Browse!MovedWasConfirmed
<1>4. failed' => failed \/ Pending(job')
  BY <1>2 DEF Pending
<1>5. disk' \in [Browse!Entries -> Nat]
  BY DEF BrowserInv, BrowserTypeOK
<1> QED
  BY <1>1, <1>2, <1>3, <1>4, <1>5, ThreadStands

\* A step on the way: what changes besides where the thread is.
LEMMA StepStands ==
  ASSUME BrowserInv, UNCHANGED <<app, stage, code, agreed, disk, moved, unseen, failed>>, plans' \in Nat,
         job.kind # "none", job.pc # "done", job' \in BrowserJobs, job'.kind = job.kind,
         JobStands(job'), LoopShows(app, job) => LoopShows(app, job')
  PROVE  BrowserInv'
<1>1. Browse!MovedWasConfirmed'
  BY DEF BrowserInv, Browse!MovedWasConfirmed
<1>2. JobStands(job)'
  BY DEF JobStands, Sent, Agreed, ResultsOf
<1>3. disk' \in [Browse!Entries -> Nat] /\ unseen' \in BOOLEAN /\ failed' \in BOOLEAN
  BY DEF BrowserInv, BrowserTypeOK
<1> QED
  BY <1>1, <1>2, <1>3, ThreadStands

\* The threads of a scan and of a view.
LEMMA ScanThreadKeeps ==
  ASSUME BrowserInv, Browse!Active, Browse!ScanThread, UNCHANGED Browse!App PROVE BrowserInv'
<1>1. /\ job.kind = "scan" /\ job.pc = "start" /\ UNCHANGED <<app, stage, code, agreed, disk, moved, unseen, failed, plans>>
      /\ disk \in [Browse!Entries -> Nat] /\ plans \in Nat /\ failed \in BOOLEAN
  BY DEF Browse!ScanThread, Browse!App, Browse!History, BrowserInv, BrowserTypeOK
<1>2. PICK r \in {Browse!Error("interrupted"), Browse!Error("input"), [Browse!Value("scan", 0) EXCEPT !.data = disk],
                  [Browse!Value("scan", 3) EXCEPT !.data = disk]} : Browse!Done(r)
  BY DEF Browse!ScanThread
<1>3. r \in BrowserResults /\ r.kind \in Browse!Errors \cup ResultsOf(job) /\ (r.kind \in Browse!Errors => r.code # 0)
  <2>1. CASE r \in {Browse!Error("interrupted"), Browse!Error("input")}
    BY <2>1, ResultFacts DEF Browse!Errors
  <2>2. CASE r \in {[Browse!Value("scan", 0) EXCEPT !.data = disk], [Browse!Value("scan", 3) EXCEPT !.data = disk]}
    <3>1. r \in BrowserResults /\ r.kind = "scan"
      BY <1>1, <2>2 DEF Browse!Value, BrowserResults, Snapshots
    <3> QED
      BY <1>1, <3>1 DEF ResultsOf, Browse!Errors
  <2> QED
    BY <2>1, <2>2
<1> QED
  BY <1>1, <1>2, <1>3, PlainDone

LEMMA ViewThreadKeeps ==
  ASSUME BrowserInv, Browse!Active, Browse!ViewThread, UNCHANGED Browse!App PROVE BrowserInv'
<1>1. /\ job.kind = "view" /\ job.pc # "done" /\ UNCHANGED <<app, stage, code, agreed, disk, moved, unseen, failed, plans>>
      /\ plans \in Nat /\ failed \in BOOLEAN /\ job \in BrowserJobs /\ JobStands(job)
  BY DEF Browse!ViewThread, Browse!App, Browse!History, BrowserInv, BrowserTypeOK
<1>2. ASSUME NEW r \in {Browse!Error("failed"), Browse!Value("viewer", 0)}, Browse!Done(r) PROVE BrowserInv'
  <2>1. r \in BrowserResults /\ r.kind \in Browse!Errors \cup ResultsOf(job) /\ (r.kind \in Browse!Errors => r.code # 0)
    BY <1>1, <1>2, ResultFacts DEF Browse!Errors, ResultsOf
  <2> QED
    BY <1>1, <1>2, <2>1, PlainDone
<1>3. ASSUME Browse!Step("child") PROVE BrowserInv'
  <2>1. /\ job' \in BrowserJobs /\ job'.pc = "child"
        /\ \A f \in {"kind", "generation", "left", "selection", "excluded", "plan", "offer", "rows", "decision", "result"} : job'[f] = job[f]
    BY <1>1, <1>3 DEF BrowserJobs, Browse!Step
  <2>2. ~unseen /\ ~Sent(job)
    BY <1>1 DEF JobStands
  <2>3. JobStands(job') /\ (LoopShows(app, job) => LoopShows(app, job'))
    BY <1>1, <2>1, <2>2 DEF JobStands, LoopShows, Sent
  <2> QED
    BY <1>1, <2>1, <2>3, StepStands
<1> QED
  BY <1>2, <1>3 DEF Browse!ViewThread

\* What a step of the thread of a plan starts from.
LEMMA PlanFacts ==
  ASSUME BrowserInv, job.kind = "plan", UNCHANGED Browse!App
  PROVE  /\ UNCHANGED <<app, stage, code, agreed>> /\ job.kind # "none" /\ job \in BrowserJobs /\ JobStands(job)
         /\ disk \in [Browse!Entries -> Nat] /\ plans \in Nat /\ failed \in BOOLEAN /\ unseen \in BOOLEAN
         /\ {"cancelled", "executed"} \subseteq ResultsOf(job) /\ (job.pc # "done" => ~unseen)
BY DEF Browse!App, BrowserInv, BrowserTypeOK, JobStands, ResultsOf

\* The verification of the entries selected.
LEMMA VerifyKeeps ==
  ASSUME BrowserInv, job.kind = "plan", Browse!Verify, UNCHANGED Browse!App PROVE BrowserInv'
<1>1. /\ UNCHANGED <<app, stage, code, agreed>> /\ job.kind # "none" /\ job \in BrowserJobs /\ JobStands(job)
      /\ plans \in Nat /\ failed \in BOOLEAN
      /\ {"cancelled", "executed"} \subseteq ResultsOf(job) /\ (job.pc # "done" => ~unseen)
  BY PlanFacts
<1>2. job.pc = "start" /\ UNCHANGED <<disk, moved, unseen, failed, plans>>
  BY DEF Browse!Verify, Browse!History
<1>3. ASSUME NEW r \in {Browse!Error("failed"), Browse!Value("cancelled", 0)}, Browse!Done(r) PROVE BrowserInv'
  <2>1. r \in BrowserResults /\ r.kind \in Browse!Errors \cup ResultsOf(job) /\ (r.kind \in Browse!Errors => r.code # 0)
    BY <1>1, <1>3, ResultFacts DEF Browse!Errors
  <2> QED
    BY <1>1, <1>2, <1>3, <2>1, PlainDone
<1>4. ASSUME NEW f, Browse!Step("plan") \/ job' = [job EXCEPT !.left = @ \ {f}] PROVE BrowserInv'
  <2>1. /\ job' \in BrowserJobs /\ job'.pc \in {"start", "plan"}
        /\ \A g \in {"kind", "generation", "selection", "excluded", "plan", "offer", "rows", "decision", "result"} : job'[g] = job[g]
    BY <1>1, <1>2, <1>4 DEF BrowserJobs, Browse!Step
  <2>2. ~Sent(job)
    BY <1>1, <1>2 DEF JobStands
  <2>3. JobStands(job') /\ (LoopShows(app, job) => LoopShows(app, job'))
    BY <1>1, <1>2, <2>1, <2>2 DEF JobStands, LoopShows, Sent
  <2> QED
    BY <1>1, <1>2, <2>1, <2>3, StepStands
<1> QED
  BY <1>3, <1>4 DEF Browse!Verify

\* The preparation of a plan.
LEMMA PrepareKeeps ==
  ASSUME BrowserInv, job.kind = "plan", Browse!Prepare, UNCHANGED Browse!App PROVE BrowserInv'
<1>1. /\ UNCHANGED <<app, stage, code, agreed>> /\ job.kind # "none" /\ job \in BrowserJobs /\ JobStands(job)
      /\ plans \in Nat /\ failed \in BOOLEAN /\ disk \in [Browse!Entries -> Nat]
      /\ {"cancelled", "executed"} \subseteq ResultsOf(job) /\ (job.pc # "done" => ~unseen)
  BY PlanFacts
<1>2. job.pc = "plan" /\ UNCHANGED <<disk, moved, unseen, failed>>
  BY DEF Browse!Prepare, Browse!History
<1>3. ASSUME NEW r \in {Browse!Error("failed"), Browse!Error("interrupted")}, Browse!Done(r), UNCHANGED plans PROVE BrowserInv'
  <2>1. r \in BrowserResults /\ r.kind \in Browse!Errors \cup ResultsOf(job) /\ (r.kind \in Browse!Errors => r.code # 0)
    BY <1>1, <1>3, ResultFacts DEF Browse!Errors
  <2> QED
    BY <1>1, <1>2, <1>3, <2>1, PlainDone
<1>4. ASSUME NEW S, Browse!ValidPreview([f \in Browse!Eligible(S) |-> disk[f]]), plans' = plans + 1,
             job' = [job EXCEPT !.pc = "show", !.plan = [id |-> plans + 1, items |-> [f \in Browse!Eligible(S) |-> disk[f]]]]
      PROVE  BrowserInv'
  <2> DEFINE items == [f \in Browse!Eligible(S) |-> disk[f]]
             p == [id |-> plans + 1, items |-> items]
  <2>1. job.selection \in Pieces /\ DOMAIN job.selection \subseteq Browse!Entries
    BY <1>1, PieceFacts DEF BrowserJobs, Pieces
  <2>2. Browse!Eligible(S) \subseteq DOMAIN job.selection
    BY DEF Browse!Eligible
  <2>3. items \in [Browse!Eligible(S) -> Nat] /\ Browse!Eligible(S) \in SUBSET Browse!Entries
    BY <1>1, <2>1, <2>2
  <2>4. items \in Pieces
    BY <2>3 DEF Pieces
  <2>5. \A f \in DOMAIN items : f \in DOMAIN job.selection /\ items[f] = job.selection[f]
    BY <1>4, <2>2 DEF Browse!ValidPreview
  <2> HIDE DEF items
  <2>6. p \in Plans /\ p.id # 0 /\ p.items = items
    BY <1>1, <2>4 DEF Plans
  <2>7. job' = [job EXCEPT !.pc = "show", !.plan = p]
    BY <1>4 DEF items
  <2> HIDE DEF p
  <2>8. /\ job' \in BrowserJobs /\ job'.pc = "show" /\ job'.plan = p
        /\ \A g \in {"kind", "generation", "selection", "excluded", "left", "offer", "rows", "decision", "result"} : job'[g] = job[g]
    BY <1>1, <1>2, <2>6, <2>7 DEF BrowserJobs
  <2>9. ~Sent(job) /\ job.offer \in {"none", "closed"}
    BY <1>1, <1>2 DEF JobStands
  <2>10. JobStands(job') /\ (LoopShows(app, job) => LoopShows(app, job'))
    <3>1. JobStands(job')
      BY <1>1, <1>2, <2>5, <2>6, <2>8, <2>9 DEF JobStands, Sent
    <3>2. LoopShows(app, job) => LoopShows(app, job')
      BY <1>2, <2>8, <2>9 DEF LoopShows, Sent
    <3> QED
      BY <3>1, <3>2
  <2>11. plans' \in Nat
    BY <1>1, <1>4
  <2> QED
    BY <1>1, <1>2, <2>8, <2>10, <2>11, StepStands
<1> QED
  BY <1>3, <1>4 DEF Browse!Prepare

\* The plan is offered to the loop.
LEMMA OfferKeeps ==
  ASSUME BrowserInv, job.kind = "plan", Browse!Offer, UNCHANGED Browse!App PROVE BrowserInv'
<1>1. /\ UNCHANGED <<app, stage, code, agreed>> /\ job.kind # "none" /\ job \in BrowserJobs /\ JobStands(job)
      /\ plans \in Nat /\ failed \in BOOLEAN
      /\ {"cancelled", "executed"} \subseteq ResultsOf(job) /\ (job.pc # "done" => ~unseen)
  BY PlanFacts
<1>2. job.pc = "show" /\ UNCHANGED <<disk, moved, unseen, failed, plans>>
  BY DEF Browse!Offer, Browse!History
<1>3. ASSUME Browse!Done(Browse!Value("cancelled", 0)) PROVE BrowserInv'
  <2> DEFINE r == Browse!Value("cancelled", 0)
  <2>1. r \in BrowserResults /\ r.kind \in Browse!Errors \cup ResultsOf(job) /\ (r.kind \in Browse!Errors => r.code # 0)
    BY <1>1, ResultFacts DEF Browse!Errors
  <2> QED
    BY <1>1, <1>2, <1>3, <2>1, PlainDone
<1>4. ASSUME job' = [job EXCEPT !.pc = "wait", !.offer = "sent"] PROVE BrowserInv'
  <2>1. /\ job' \in BrowserJobs /\ job'.pc = "wait" /\ job'.offer = "sent"
        /\ \A g \in {"kind", "generation", "selection", "excluded", "left", "plan", "rows", "decision", "result"} : job'[g] = job[g]
    BY <1>1, <1>4 DEF BrowserJobs
  <2>2. ~Sent(job) /\ job.offer \in {"none", "closed"} /\ job.plan.id # 0
    BY <1>1, <1>2 DEF JobStands
  <2>3. JobStands(job')
    BY <1>1, <1>2, <2>1, <2>2 DEF JobStands, Sent
  <2>4. LoopShows(app, job) => LoopShows(app, job')
    BY <1>2, <2>1, <2>2 DEF LoopShows, Sent
  <2> QED
    BY <1>1, <1>2, <2>1, <2>3, <2>4, StepStands
<1> QED
  BY <1>3, <1>4 DEF Browse!Offer

\* The wait for the confirmation.
LEMMA WaitKeeps ==
  ASSUME BrowserInv, job.kind = "plan", Browse!Wait, UNCHANGED Browse!App PROVE BrowserInv'
<1>1. /\ UNCHANGED <<app, stage, code, agreed>> /\ job.kind # "none" /\ job \in BrowserJobs /\ JobStands(job)
      /\ plans \in Nat /\ failed \in BOOLEAN
      /\ {"cancelled", "executed"} \subseteq ResultsOf(job) /\ (job.pc # "done" => ~unseen)
  BY PlanFacts
<1>2. job.pc = "wait" /\ UNCHANGED <<disk, moved, unseen, plans>>
  BY DEF Browse!Wait
<1>3. ASSUME NEW r \in {Browse!Value("cancelled", 0), Browse!Error("failed"), Browse!Error("input")}, Browse!Done(r),
             failed' \in BOOLEAN, failed' => failed \/ (Sent(job) /\ r.kind \in Browse!Errors)
      PROVE  BrowserInv'
  <2>1. r \in BrowserResults /\ r.kind \in Browse!Errors \cup ResultsOf(job) /\ (r.kind \in Browse!Errors => r.code # 0)
    BY <1>1, <1>3, ResultFacts DEF Browse!Errors
  <2> QED
    BY <1>1, <1>2, <1>3, <2>1, PlainDone
<1>4. ASSUME Sent(job), UNCHANGED failed, Browse!Step("approve") PROVE BrowserInv'
  <2>1. /\ job' \in BrowserJobs /\ job'.pc = "approve"
        /\ \A g \in {"kind", "generation", "selection", "excluded", "left", "plan", "offer", "rows", "decision", "result"} : job'[g] = job[g]
    BY <1>1, <1>4 DEF BrowserJobs, Browse!Step
  <2>2. JobStands(job')
    BY <1>1, <1>2, <1>4, <2>1 DEF JobStands, Sent, Agreed, ResultsOf
  <2>3. LoopShows(app, job) => LoopShows(app, job')
    BY <1>2, <1>4, <2>1 DEF LoopShows, Sent
  <2> QED
    BY <1>1, <1>2, <1>4, <2>1, <2>2, <2>3, StepStands
<1>5. CASE (job.cancelled \/ job.decision.state = "closed") /\ Browse!Done(Browse!Value("cancelled", 0)) /\ UNCHANGED failed
  BY <1>1, <1>3, <1>5
<1>6. CASE ~job.cancelled /\ Browse!Done(Browse!Error("failed")) /\ failed' = (failed \/ job.decision.state = "sent")
  <2>1. Browse!Error("failed").kind \in Browse!Errors
    BY ResultFacts DEF Browse!Errors
  <2> QED
    BY <1>1, <1>3, <1>6, <2>1 DEF Sent
<1>7. CASE job.decision.state = "sent" /\ UNCHANGED failed /\ (Browse!Step("approve") \/ Browse!Done(Browse!Error("input")))
  BY <1>1, <1>3, <1>4, <1>7 DEF Sent
<1> QED
  BY <1>5, <1>6, <1>7 DEF Browse!Wait

\* The approval.
LEMMA ApproveKeeps ==
  ASSUME BrowserInv, job.kind = "plan", Browse!Approve, UNCHANGED Browse!App PROVE BrowserInv'
<1>1. /\ UNCHANGED <<app, stage, code, agreed>> /\ job.kind # "none" /\ job \in BrowserJobs /\ JobStands(job)
      /\ plans \in Nat /\ failed \in BOOLEAN
      /\ {"cancelled", "executed"} \subseteq ResultsOf(job) /\ (job.pc # "done" => ~unseen)
  BY PlanFacts
<1>2. job.pc = "approve" /\ UNCHANGED <<disk, moved, unseen, plans>> /\ Sent(job)
  BY <1>1 DEF Browse!Approve, JobStands
<1>3. ASSUME NEW r \in {Browse!Value("cancelled", 0), Browse!Error("failed"), Browse!Error("input")}, Browse!Done(r),
             failed' \in BOOLEAN, failed' => failed \/ r.kind \in Browse!Errors
      PROVE  BrowserInv'
  <2>1. r \in BrowserResults /\ r.kind \in Browse!Errors \cup ResultsOf(job) /\ (r.kind \in Browse!Errors => r.code # 0)
    BY <1>1, <1>3, ResultFacts DEF Browse!Errors
  <2> QED
    BY <1>1, <1>2, <1>3, <2>1, PlainDone
<1>4. ASSUME UNCHANGED failed, job' = [job EXCEPT !.pc = "execute", !.left = DOMAIN job.plan.items] PROVE BrowserInv'
  <2>1. DOMAIN job.plan.items \subseteq Browse!Entries
    BY <1>1 DEF BrowserJobs, Plans, Pieces
  <2>2. /\ job' \in BrowserJobs /\ job'.pc = "execute" /\ job'.left = DOMAIN job.plan.items
        /\ \A g \in {"kind", "generation", "selection", "excluded", "plan", "offer", "rows", "decision", "result"} : job'[g] = job[g]
    BY <1>1, <1>4, <2>1 DEF BrowserJobs
  <2>3. JobStands(job')
    BY <1>1, <1>2, <2>2 DEF JobStands, Sent, Agreed, ResultsOf
  <2>4. LoopShows(app, job) => LoopShows(app, job')
    BY <1>2, <2>2 DEF LoopShows, Sent
  <2> QED
    BY <1>1, <1>2, <1>4, <2>2, <2>3, <2>4, StepStands
<1>5. CASE Browse!Done(Browse!Value("cancelled", 0)) /\ UNCHANGED failed
  BY <1>1, <1>3, <1>5
<1>6. CASE (Browse!Done(Browse!Error("input")) \/ Browse!Done(Browse!Error("failed"))) /\ failed' = TRUE
  <2>1. Browse!Error("failed").kind \in Browse!Errors /\ Browse!Error("input").kind \in Browse!Errors
    BY ResultFacts DEF Browse!Errors
  <2> QED
    BY <1>3, <1>6, <2>1
<1> QED
  BY <1>4, <1>5, <1>6 DEF Browse!Approve

\* One item of the batch: what is moved is what the plan confirmed names.
LEMMA ExecuteKeeps ==
  ASSUME BrowserInv, job.kind = "plan", Browse!Execute, UNCHANGED Browse!App PROVE BrowserInv'
<1>1. /\ UNCHANGED <<app, stage, code, agreed>> /\ job.kind # "none" /\ job \in BrowserJobs /\ JobStands(job)
      /\ plans \in Nat /\ failed \in BOOLEAN /\ unseen \in BOOLEAN /\ disk \in [Browse!Entries -> Nat]
      /\ (job.pc # "done" => ~unseen)
  BY PlanFacts
<1>2. job.pc = "execute" /\ UNCHANGED <<plans, unseen, failed>> /\ Sent(job) /\ job.left \subseteq DOMAIN job.plan.items
  BY <1>1 DEF Browse!Execute, JobStands
<1>3. PICK f \in job.left, mark \in BrowserRows :
        /\ Browse!Row(f, mark)
        /\ \/ UNCHANGED <<disk, moved>>
           \/ /\ disk[f] = job.plan.items[f]
              /\ disk' = [disk EXCEPT ![f] = 0] /\ moved' = moved \cup {<<f, disk[f]>>}
  BY DEF Browse!Execute, BrowserRows
<1>4. PICK rest \in SUBSET job.left : job' = [job EXCEPT !.left = rest, !.rows = @ \cup {mark}]
  BY <1>3 DEF Browse!Row
<1>5. /\ job' \in BrowserJobs /\ job'.left = rest
      /\ \A g \in {"kind", "pc", "generation", "selection", "excluded", "plan", "offer", "decision", "result"} : job'[g] = job[g]
  BY <1>1, <1>3, <1>4 DEF BrowserJobs
<1>6. JobStands(job)'
  BY <1>1, <1>2, <1>4, <1>5 DEF JobStands, Sent, Agreed, ResultsOf
<1>7. LoopShows(app, job) => LoopShows(app, job')
  BY <1>2, <1>5 DEF LoopShows, Sent
<1>8. Browse!MovedWasConfirmed'
  <2>1. Browse!MovedWasConfirmed /\ Agreed(job.plan)
    BY <1>1, <1>2 DEF BrowserInv, JobStands
  <2>2. PICK c \in agreed : /\ c.items = job.plan.items /\ c.read = 1..BrowserLines
                            /\ \A g \in DOMAIN c.items : c.data[g] = c.items[g]
    BY <2>1 DEF Agreed
  <2>3. ASSUME NEW m \in moved'
        PROVE  \E a \in agreed : m[1] \in DOMAIN a.items /\ a.items[m[1]] = m[2] /\ a.data[m[1]] = m[2] /\ a.read = 1..BrowserLines
    <3>1. CASE m \in moved
      BY <2>1, <3>1 DEF Browse!MovedWasConfirmed
    <3>2. CASE m \notin moved
      <4>1. m = <<f, disk[f]>> /\ disk[f] = c.items[f] /\ f \in DOMAIN c.items
        BY <1>2, <1>3, <2>2, <3>2
      <4> QED
        BY <2>2, <4>1
    <3> QED
      BY <3>1, <3>2
  <2> QED
    BY <1>1, <2>3 DEF Browse!MovedWasConfirmed
<1>9. disk' \in [Browse!Entries -> Nat]
  BY <1>1, <1>3
<1>10. job.pc # "done" /\ job'.kind = job.kind /\ plans' \in Nat /\ unseen' \in BOOLEAN /\ failed' \in BOOLEAN /\ (failed' => failed)
  BY <1>1, <1>2, <1>5
<1> QED
  BY <1>1, <1>5, <1>6, <1>7, <1>8, <1>9, <1>10, ThreadStands

\* The report of the batch.
LEMMA BatchReportKeeps ==
  ASSUME BrowserInv, job.kind = "plan", Browse!Report, UNCHANGED Browse!App PROVE BrowserInv'
<1>1. /\ UNCHANGED <<app, stage, code, agreed>> /\ job.kind # "none" /\ job \in BrowserJobs /\ JobStands(job)
      /\ plans \in Nat /\ failed \in BOOLEAN /\ disk \in [Browse!Entries -> Nat]
      /\ {"cancelled", "executed"} \subseteq ResultsOf(job)
  BY PlanFacts
<1> DEFINE n == Browse!ReportCode(job.rows)
           r == Browse!Value("executed", n)
<1>2. job.pc = "execute" /\ Sent(job) /\ Browse!Done(r) /\ unseen' = TRUE /\ failed' = (failed \/ n # 0) /\ UNCHANGED <<disk, plans, moved>>
  BY <1>1 DEF Browse!Report, JobStands
<1>3. n \in Nat
  BY DEF Browse!ReportCode
<1> HIDE DEF n
<1>4. r \in BrowserResults /\ r.kind = "executed" /\ r.code = n
  BY <1>3, ResultFacts
<1> HIDE DEF r
<1>5. r.kind \in Browse!Errors \cup ResultsOf(job) /\ (r.kind \in Browse!Errors => r.code # 0)
  BY <1>1, <1>4 DEF Browse!Errors
<1>6. /\ job' \in BrowserJobs /\ job'.kind = job.kind /\ job'.pc = "done" /\ job'.result = r /\ (Sent(job') <=> Sent(job))
      /\ JobStands(job)' /\ (LoopShows(app, job) => LoopShows(app, job'))
  BY <1>1, <1>2, <1>4, <1>5, DoneStands
<1>7. failed' => failed \/ Pending(job')
  BY <1>2, <1>4, <1>6 DEF Pending
<1>8. Browse!MovedWasConfirmed'
  BY <1>1, <1>2 DEF BrowserInv, Browse!MovedWasConfirmed
<1>9. disk' \in [Browse!Entries -> Nat] /\ plans' \in Nat /\ unseen' \in BOOLEAN /\ failed' \in BOOLEAN /\ job.pc # "done"
  BY <1>1, <1>2
<1> QED
  BY <1>1, <1>6, <1>7, <1>8, <1>9, ThreadStands

LEMMA ThreadKeeps == ASSUME BrowserInv, Browse!Thread PROVE BrowserInv'
<1>1. Browse!Active /\ UNCHANGED Browse!App
  BY DEF Browse!Thread
<1>2. CASE Browse!PlanThread
  BY <1>1, <1>2, VerifyKeeps, PrepareKeeps, OfferKeeps, WaitKeeps, ApproveKeeps, ExecuteKeeps, BatchReportKeeps DEF Browse!PlanThread
<1> QED
  BY <1>1, <1>2, ScanThreadKeeps, ViewThreadKeeps DEF Browse!Thread

LEMMA BrowserNextInv == ASSUME Browse!BrowserAssumption, BrowserInv, Browse!Next PROVE BrowserInv'
<1>1. CASE Browse!Poll
  BY <1>1, TakePlanKeeps, JoinJobKeeps, ExitKeeps DEF Browse!Poll
<1>2. CASE Browse!Keys
  BY <1>2, PreviewKeysKeep, ConfirmKeeps, OtherKeysKeep, NavigateKeeps, ChooseKeeps, MakePlanKeeps, ResizeKeeps DEF Browse!Keys
<1> QED
  BY <1>1, <1>2, ThreadKeeps, SignalKeeps, ChangeKeeps DEF Browse!Next

LEMMA BrowserInvImplies == ASSUME BrowserInv PROVE Browse!MovedWasConfirmed /\ Browse!OutcomeIsShown
<1>1. ~Browse!Active \/ job.kind # "plan" => ~unseen
  BY DEF BrowserInv, JobStands, Browse!Active
<1>2. stage = "gone" /\ code = 0 => ~failed
  BY DEF BrowserInv, BrowserLeft
<1> QED
  BY <1>1, <1>2 DEF BrowserInv, Browse!OutcomeIsShown

LEMMA BrowserStutters == ASSUME BrowserInv, UNCHANGED vars PROVE BrowserInv'
<1>1. UNCHANGED <<disk, app, job, stage, code, plans, unseen, failed, agreed, moved>>
  BY DEF vars
<1>2. BrowserTypeOK' /\ BrowserLeft' /\ PagesDrawn(app)'
  BY <1>1 DEF BrowserInv, BrowserTypeOK, BrowserLeft, PagesDrawn
<1>3. JobStands(job)'
  BY <1>1 DEF BrowserInv, JobStands, Agreed, Sent
<1>4. (stage = "run" => LoopStands(app, job))'
  BY <1>1 DEF BrowserInv, LoopStands, LoopShows, Pending, Sent
<1>5. Browse!MovedWasConfirmed'
  BY <1>1 DEF BrowserInv, Browse!MovedWasConfirmed
<1> QED
  BY <1>2, <1>3, <1>4, <1>5 DEF BrowserInv

----------------------------------------------------------------------------
(* The clean policy.  An update holds the lock from its reading to its     *)
(* publishing, and what it read is still the file when it publishes.  A    *)
(* file that bears the stamp a preview saw has the roots that preview      *)
(* read; so what is in force at the last look was evaluated by the preview.*)

PolicyHolding == {"load", "update", "stage", "check", "publish", "readback"}

\* What an update may take from the file and must leave on it.
WithdrawnBy(j) ==
  {x \in Policy!Entries(j.read.roots) :
     /\ \E r \in j.read.roots : r.dir = x.dir /\ r.path = j.asked.root
     /\ (j.asked.op = "removeRoot" \/ (j.asked.op = "remove" /\ x.name \in j.asked.entries))}
ConfirmedBy(j) == {[dir |-> j.asked.dir, name |-> n] : n \in IF j.asked.op = "add" THEN j.asked.entries ELSE {}}
Keeps(j) == (Policy!Entries(j.read.roots) \ WithdrawnBy(j)) \cup ConfirmedBy(j) \subseteq Policy!Entries(j.next)

UpdateStands(s, j) ==
  /\ {"asked", "read", "next", "result"} \subseteq DOMAIN j
  /\ s \notin {"idle", "ended"} => j.asked.op \in {"add", "remove", "removeRoot"}
  /\ s \in {"stage", "check", "publish"} => Keeps(j)
  /\ s \in {"stage", "check", "publish", "readback"} => Policy!ValidPolicy(j.next)
PolicyUpdates ==
  /\ DOMAIN up = PolicyUpdaters /\ DOMAIN job = PolicyUpdaters
  /\ \A u \in PolicyUpdaters :
       /\ UpdateStands(up[u], job[u])
       /\ up[u] \in PolicyHolding => lock = u
       /\ up[u] = "publish" => owed \subseteq Policy!Entries(job[u].read.roots)

\* A snapshot s of the file was taken when it had the stamp s.stamp.
Stamped(s) == s.stamp \in Nat /\ s.stamp < fresh
AsRead(s) == s.state = "present" /\ file.stamp = s.stamp => file.roots = s.roots
InForceIn(roots, d) ==
  \A n \in inForce : \E r \in roots : (clean.kind = "root" => r.dir = d) /\ \E e \in r.entries : e.name = n

LookStands ==
  /\ {"stat", "root", "seen"} \subseteq DOMAIN look /\ {"state", "ino", "stamp", "roots", "parent"} \subseteq DOMAIN look.stat
  /\ Stamped(look.stat) /\ Stamped(look.seen)
  /\ step \in {"read", "evaluate"} => look.stat.state \in {"absent", "present", Policy!Error}
  /\ step \in {"read", "evaluate"} /\ look.stat.state # Policy!Error => InForceIn(look.stat.roots, look.root)
  /\ step \in {"read", "evaluate"} /\ phase # "preview" /\ look.stat.state = "present" /\ shown.file.state = "present"
       /\ look.stat.stamp = shown.file.stamp => look.stat.roots = shown.file.roots
  /\ step = "evaluate" =>
       /\ look.stat.state \in {"absent", "present"} /\ look.seen.state = look.stat.state /\ look.seen.stamp = look.stat.stamp
       /\ look.stat.state = "absent" => look.seen.roots = look.stat.roots
       /\ AsRead(look.seen)
ShownStands ==
  /\ Stamped(shown.file)
  /\ phase # "preview" => shown.attention = {} /\ ~Policy!Covered(shown.effective) /\ AsRead(shown.file)
PolicyGuards ==
  /\ fresh \in Nat /\ file.stamp \in Nat /\ file.stamp < fresh
  /\ LookStands /\ ShownStands
  /\ step = "move" => ~Policy!Covered(inForce)
  /\ moved = "moved" => step = "ended" /\ ~Policy!Covered(inForce)

PolicyInv == PolicyUpdates /\ Policy!NoUpdateIsLost /\ PolicyGuards

LEMMA EntryFacts ==
  \A roots, x : x \in Policy!Entries(roots) <=> \E r \in roots : \E e \in r.entries : x = [dir |-> r.dir, name |-> e.name]
BY DEF Policy!Entries

LEMMA WithdrawnFacts ==
  ASSUME NEW u \in PolicyUpdaters
  PROVE  Policy!Withdrawn(u) = WithdrawnBy(job[u]) /\ Policy!Confirmed(u) = ConfirmedBy(job[u])
BY DEF Policy!Withdrawn, Policy!Confirmed, WithdrawnBy, ConfirmedBy, Policy!Read, Policy!Asked

\* What an update is to write keeps every entry it read that it does not
\* withdraw, and has what it adds.
LEMMA UpdatedKeeps ==
  ASSUME NEW j, j.asked.op \in {"add", "remove", "removeRoot"}, ~Policy!UpdateRefused(j.read.roots, j.asked),
         j.next = Policy!Updated(j.read.roots, j.asked)
  PROVE  Keeps(j)
<1> DEFINE roots == j.read.roots
           r == j.asked
           next == Policy!Updated(roots, r)
<1>1. CASE r.op = "add"
  <2> DEFINE old == Policy!RootRecord(roots, r)
             added == Policy!Added(old, r)
  <2>1. next = {x \in roots : x.dir # r.dir} \cup {added}
    BY <1>1 DEF Policy!Updated
  <2>2. /\ old.dir = r.dir /\ DOMAIN old = {"path", "dir", "entries"}
        /\ \A x \in roots : x.dir = r.dir => x.entries \subseteq old.entries
    BY DEF Policy!RootRecord
  <2> HIDE DEF old
  <2>3. added.dir = r.dir /\ old.entries \subseteq added.entries
    BY <2>2 DEF Policy!Added
  <2>4. ASSUME NEW n \in r.entries PROVE \E e \in added.entries : e.name = n
    <3>1. CASE \E e \in old.entries : e.name = n
      BY <2>3, <3>1
    <3>2. CASE \A e \in old.entries : e.name # n
      <4> DEFINE new == [name |-> n, identity |-> Policy!IdentityOf(inside[at[r.root]][n])]
      <4>1. new \in added.entries
        BY <2>2, <2>4, <3>2 DEF Policy!Added
      <4> QED
        BY <4>1
    <3> QED
      BY <3>1, <3>2
  <2> HIDE DEF added
  <2>5. ASSUME NEW x \in Policy!Entries(roots) PROVE x \in Policy!Entries(next)
    <3>0. PICK s \in roots : \E e \in s.entries : x = [dir |-> s.dir, name |-> e.name]
      BY <2>5, EntryFacts
    <3>1. PICK e \in s.entries : x = [dir |-> s.dir, name |-> e.name]
      BY <3>0
    <3>2. \E t \in next : t.dir = s.dir /\ e \in t.entries
      BY <2>1, <2>2, <2>3
    <3> HIDE DEF next
    <3> QED
      BY <3>1, <3>2, EntryFacts
  <2>6. ASSUME NEW x \in ConfirmedBy(j) PROVE x \in Policy!Entries(next)
    <3>1. PICK n \in r.entries : x = [dir |-> r.dir, name |-> n]
      BY <1>1, <2>6 DEF ConfirmedBy
    <3>2. added \in next /\ \E e \in added.entries : e.name = n
      BY <2>1, <2>4
    <3> HIDE DEF next
    <3> QED
      BY <2>3, <3>1, <3>2, EntryFacts
  <2> HIDE DEF next
  <2> QED
    BY <2>5, <2>6 DEF Keeps, next
<1>2. CASE r.op # "add"
  <2>1. ConfirmedBy(j) = {}
    BY <1>2 DEF ConfirmedBy
  <2>2. ASSUME NEW x \in Policy!Entries(roots) \ WithdrawnBy(j) PROVE x \in Policy!Entries(next)
    <3>0. PICK s \in roots : \E e \in s.entries : x = [dir |-> s.dir, name |-> e.name]
      BY <2>2, EntryFacts
    <3>1. PICK e \in s.entries : x = [dir |-> s.dir, name |-> e.name]
      BY <3>0
    <3>2. \A t \in roots : t.dir = x.dir /\ t.path = r.root => ~(r.op = "removeRoot" \/ (r.op = "remove" /\ x.name \in r.entries))
      BY <2>2 DEF WithdrawnBy
    <3>3. \E t \in next : t.dir = s.dir /\ e \in t.entries
      <4>1. CASE r.op = "remove"
        <5> DEFINE t == [path |-> s.path, dir |-> s.dir,
                         entries |-> IF s.path = r.root THEN {z \in s.entries : z.name \notin r.entries} ELSE s.entries]
        <5>1. t \in next
          BY <4>1 DEF Policy!Updated
        <5>2. s.path = r.root => e.name \notin r.entries
          BY <3>1, <3>2, <4>1
        <5>3. t.dir = s.dir /\ e \in t.entries
          BY <5>2
        <5> QED
          BY <5>1, <5>3
      <4>2. CASE r.op = "removeRoot"
        <5>1. s.path # r.root
          BY <3>1, <3>2, <4>2
        <5>2. next = {z \in roots : z.path # r.root}
          BY <4>2 DEF Policy!Updated
        <5> QED
          BY <5>1, <5>2
      <4> QED
        BY <1>2, <4>1, <4>2
    <3> HIDE DEF next
    <3> QED
      BY <3>1, <3>3, EntryFacts
  <2> HIDE DEF next
  <2> QED
    BY <2>1, <2>2 DEF Keeps, next
<1> QED
  BY <1>1, <1>2

LEMMA PolicyInitInv == ASSUME Policy!PolicyAssumption, Policy!Init PROVE PolicyInv
<1>1. PolicyUpdates
  BY DEF Policy!Init, PolicyUpdates, UpdateStands, Policy!NoJob, PolicyHolding
<1>2. Policy!NoUpdateIsLost
  BY DEF Policy!Init, Policy!NoUpdateIsLost
<1>3. PolicyGuards
  <2>1. fresh \in Nat /\ file.stamp \in Nat /\ file.stamp < fresh /\ step \notin {"read", "evaluate", "move"} /\ phase = "preview" /\ moved # "moved"
    BY DEF Policy!Init, Policy!None
  <2>2. LookStands
    BY <2>1 DEF Policy!Init, LookStands, Policy!NoLook, Policy!NoPolicy, Stamped
  <2>3. ShownStands
    BY <2>1 DEF Policy!Init, ShownStands, Policy!NotShown, Policy!NoPolicy, Stamped
  <2> QED
    BY <2>1, <2>2, <2>3 DEF PolicyGuards
<1> QED
  BY <1>1, <1>2, <1>3 DEF PolicyInv

\* A step that is not the cleaning's leaves it alone; a file written has a
\* stamp no look has seen.
LEMMA CleaningStands ==
  ASSUME PolicyGuards, UNCHANGED <<clean, step, phase, look, shown, moved, inForce>>,
         UNCHANGED <<file, fresh>> \/ (file'.stamp = fresh /\ fresh' = fresh + 1)
  PROVE  PolicyGuards'
<1>1. fresh' \in Nat /\ file'.stamp \in Nat /\ file'.stamp < fresh' /\ fresh <= fresh'
  BY DEF PolicyGuards
<1>2. LookStands'
  <2>1. Stamped(look.stat)' /\ Stamped(look.seen)'
    BY <1>1 DEF PolicyGuards, LookStands, Stamped
  <2>2. (step \in {"read", "evaluate"} /\ look.stat.state # Policy!Error => InForceIn(look.stat.roots, look.root))'
    BY DEF PolicyGuards, LookStands, InForceIn
  <2>3. step = "evaluate" => AsRead(look.seen)'
    BY DEF PolicyGuards, LookStands, AsRead, Stamped
  <2> QED
    BY <2>1, <2>2, <2>3 DEF PolicyGuards, LookStands
<1>3. ShownStands'
  <2>1. Stamped(shown.file)'
    BY <1>1 DEF PolicyGuards, ShownStands, Stamped
  <2>2. phase # "preview" => AsRead(shown.file)'
    BY DEF PolicyGuards, ShownStands, AsRead, Stamped
  <2>3. (phase # "preview" => shown.attention = {} /\ ~Policy!Covered(shown.effective))'
    BY DEF PolicyGuards, ShownStands, Policy!Covered
  <2> QED
    BY <2>1, <2>2, <2>3 DEF ShownStands
<1> QED
  BY <1>1, <1>2, <1>3 DEF PolicyGuards, Policy!Covered

\* One update takes a step.
LEMMA UpdatesStand ==
  ASSUME Policy!PolicyAssumption, PolicyUpdates, NEW u \in PolicyUpdaters,
         DOMAIN up' = PolicyUpdaters, DOMAIN job' = PolicyUpdaters,
         \A v \in PolicyUpdaters \ {u} : up'[v] = up[v] /\ job'[v] = job[v],
         UpdateStands(up'[u], job'[u]),
         \/ UNCHANGED lock
         \/ lock = Policy!None
         \/ lock = u,
         UNCHANGED owed \/ lock = u,
         up'[u] \in PolicyHolding => lock' = u,
         up'[u] = "publish" => owed' \subseteq Policy!Entries(job'[u].read.roots)
  PROVE  PolicyUpdates'
<1>1. ASSUME NEW v \in PolicyUpdaters
      PROVE  /\ UpdateStands(up'[v], job'[v])
             /\ up'[v] \in PolicyHolding => lock' = v
             /\ up'[v] = "publish" => owed' \subseteq Policy!Entries(job'[v].read.roots)
  <2>1. CASE v = u
    BY <2>1
  <2>2. CASE v # u
    <3>1. up'[v] = up[v] /\ job'[v] = job[v] /\ v # Policy!None
      BY <2>2 DEF Policy!PolicyAssumption
    <3>2. /\ UpdateStands(up[v], job[v]) /\ (up[v] \in PolicyHolding => lock = v)
          /\ up[v] = "publish" => owed \subseteq Policy!Entries(job[v].read.roots)
      BY DEF PolicyUpdates
    <3>3. "publish" \in PolicyHolding
      BY DEF PolicyHolding
    <3> QED
      BY <2>2, <3>1, <3>2, <3>3
  <2> QED
    BY <2>1, <2>2
<1> QED
  BY <1>1 DEF PolicyUpdates

\* A step of one update that leaves the file alone.
LEMMA UpdateKeeps ==
  ASSUME Policy!PolicyAssumption, PolicyInv, NEW u \in PolicyUpdaters, NEW s, NEW j,
         up' = [up EXCEPT ![u] = s], job' = [job EXCEPT ![u] = j] \/ (UNCHANGED job /\ j = job[u]),
         UNCHANGED <<file, fresh, owed, clean, step, phase, look, shown, moved, inForce>>,
         UpdateStands(s, j),
         \/ UNCHANGED lock
         \/ lock = Policy!None
         \/ lock = u,
         s \in PolicyHolding => lock' = u,
         s = "publish" => owed \subseteq Policy!Entries(j.read.roots)
  PROVE  PolicyInv'
<1>1. PolicyUpdates /\ PolicyGuards /\ Policy!NoUpdateIsLost
  BY DEF PolicyInv
<1>2. DOMAIN up = PolicyUpdaters /\ DOMAIN job = PolicyUpdaters
  BY <1>1 DEF PolicyUpdates
<1>3. /\ DOMAIN up' = PolicyUpdaters /\ DOMAIN job' = PolicyUpdaters /\ up'[u] = s /\ job'[u] = j
      /\ \A v \in PolicyUpdaters \ {u} : up'[v] = up[v] /\ job'[v] = job[v]
  BY <1>2
<1>4. PolicyUpdates'
  BY <1>1, <1>3, UpdatesStand
<1>5. PolicyGuards' /\ Policy!NoUpdateIsLost'
  BY <1>1, CleaningStands DEF Policy!NoUpdateIsLost
<1> QED
  BY <1>4, <1>5 DEF PolicyInv

LEMMA UpdateEnds ==
  ASSUME Policy!PolicyAssumption, PolicyInv, NEW u \in PolicyUpdaters, NEW outcome, Policy!Ends(u, outcome),
         UNCHANGED <<file, fresh, owed, clean, step, phase, look, shown, moved, inForce>>
  PROVE  PolicyInv'
<1> DEFINE j == [Policy!NoJob EXCEPT !.result = outcome]
<1>1. up' = [up EXCEPT ![u] = "ended"] /\ job' = [job EXCEPT ![u] = j] /\ (UNCHANGED lock \/ lock = u)
  BY DEF Policy!Ends, Policy!UGoto
<1>2. UpdateStands("ended", j)
  BY DEF UpdateStands, Policy!NoJob
<1> HIDE DEF j
<1>3. "ended" \notin PolicyHolding
  BY DEF PolicyHolding
<1> QED
  BY <1>1, <1>2, <1>3, UpdateKeeps

LEMMA AskKeeps == ASSUME Policy!PolicyAssumption, PolicyInv, NEW u \in PolicyUpdaters, Policy!Ask(u) PROVE PolicyInv'
<1>1. UNCHANGED <<file, fresh, owed, clean, step, phase, look, shown, moved, inForce>> /\ UpdateStands(up[u], job[u])
  BY DEF Policy!Ask, Policy!cleaning, PolicyInv, PolicyUpdates
<1>2. CASE Policy!Ends(u, "refused")
  BY <1>1, <1>2, UpdateEnds
<1>3. ASSUME NEW r \in PolicyAsked,
             job' = [job EXCEPT ![u].asked = [op |-> r.op, root |-> r.root, entries |-> r.entries, dir |-> at[r.root]]],
             Policy!UGoto(u, "dir"), UNCHANGED lock
      PROVE  PolicyInv'
  <2> DEFINE q == [op |-> r.op, root |-> r.root, entries |-> r.entries, dir |-> at[r.root]]
             j == [job[u] EXCEPT !.asked = q]
  <2>1. q.op \in {"add", "remove", "removeRoot"}
    BY DEF Policy!PolicyAssumption
  <2> HIDE DEF q
  <2>2. UpdateStands("dir", j)
    BY <1>1, <2>1 DEF UpdateStands
  <2>3. up' = [up EXCEPT ![u] = "dir"] /\ job' = [job EXCEPT ![u] = j] /\ "dir" \notin PolicyHolding
    BY <1>3 DEF Policy!UGoto, PolicyHolding, q
  <2> HIDE DEF j
  <2> QED
    BY <1>1, <1>3, <2>2, <2>3, UpdateKeeps
<1> QED
  BY <1>2, <1>3 DEF Policy!Ask

\* The steps that change only where an update is.
LEMMA UpdateGoes ==
  ASSUME Policy!PolicyAssumption, PolicyInv, NEW u \in PolicyUpdaters, NEW s, Policy!UGoto(u, s), UNCHANGED job,
         UNCHANGED <<file, fresh, owed, clean, step, phase, look, shown, moved, inForce>>,
         \/ s \in {"chmod", "lock"} /\ UNCHANGED lock
         \/ s = "load" /\ lock = Policy!None /\ lock' = u
         \/ s \in {"check", "publish"} /\ up[u] \in {"stage", "check"} /\ UNCHANGED lock,
         up[u] \notin {"idle", "ended"}, s = "publish" => owed \subseteq Policy!Entries(job[u].read.roots)
  PROVE  PolicyInv'
<1>1. UpdateStands(up[u], job[u]) /\ (up[u] \in PolicyHolding => lock = u)
  BY DEF PolicyInv, PolicyUpdates
<1>2. UpdateStands(s, job[u])
  BY <1>1 DEF UpdateStands
<1>3. s \in PolicyHolding => lock' = u
  BY <1>1 DEF PolicyHolding
<1>4. up' = [up EXCEPT ![u] = s]
  BY DEF Policy!UGoto
<1> QED
  BY <1>2, <1>3, <1>4, UpdateKeeps

LEMMA DirKeeps ==
  ASSUME Policy!PolicyAssumption, PolicyInv, NEW u \in PolicyUpdaters,
         Policy!EnsureDir(u) \/ Policy!CloseDir(u) \/ Policy!AcquireLock(u)
  PROVE  PolicyInv'
<1>1. UNCHANGED <<file, fresh, owed, clean, step, phase, look, shown, moved, inForce>> /\ up[u] \notin {"idle", "ended"}
  BY DEF Policy!EnsureDir, Policy!CloseDir, Policy!AcquireLock, Policy!cleaning, Policy!Is
<1>2. CASE Policy!EnsureDir(u)
  BY <1>1, <1>2, UpdateEnds, UpdateGoes DEF Policy!EnsureDir, Policy!Keep
<1>3. CASE Policy!CloseDir(u)
  BY <1>1, <1>3, UpdateGoes DEF Policy!CloseDir
<1>4. CASE Policy!AcquireLock(u)
  BY <1>1, <1>4, UpdateEnds, UpdateGoes DEF Policy!AcquireLock
<1> QED
  BY <1>2, <1>3, <1>4

LEMMA LoadKeeps == ASSUME Policy!PolicyAssumption, PolicyInv, NEW u \in PolicyUpdaters, Policy!Load(u) PROVE PolicyInv'
<1>1. /\ UNCHANGED <<file, fresh, owed, clean, step, phase, look, shown, moved, inForce>> /\ up[u] = "load"
      /\ UpdateStands(up[u], job[u]) /\ lock = u
  BY DEF Policy!Load, Policy!cleaning, Policy!Is, PolicyInv, PolicyUpdates, PolicyHolding
<1>2. CASE Policy!Ends(u, "refused")
  BY <1>1, <1>2, UpdateEnds
<1>3. CASE job' = [job EXCEPT ![u].read = Policy!Loaded] /\ Policy!UGoto(u, "update") /\ UNCHANGED lock
  <2> DEFINE j == [job[u] EXCEPT !.read = Policy!Loaded]
  <2>1. UpdateStands("update", j)
    BY <1>1 DEF UpdateStands
  <2>2. up' = [up EXCEPT ![u] = "update"] /\ job' = [job EXCEPT ![u] = j]
    BY <1>3 DEF Policy!UGoto
  <2> HIDE DEF j
  <2> QED
    BY <1>1, <1>3, <2>1, <2>2, UpdateKeeps
<1> QED
  BY <1>2, <1>3 DEF Policy!Load

LEMMA UpdateItselfKeeps == ASSUME Policy!PolicyAssumption, PolicyInv, NEW u \in PolicyUpdaters, Policy!Update(u) PROVE PolicyInv'
<1>1. /\ UNCHANGED <<file, fresh, owed, clean, step, phase, look, shown, moved, inForce>> /\ up[u] = "update"
      /\ UpdateStands(up[u], job[u]) /\ lock = u
  BY DEF Policy!Update, Policy!cleaning, Policy!Is, PolicyInv, PolicyUpdates, PolicyHolding
<1>2. CASE Policy!Ends(u, "refused")
  BY <1>1, <1>2, UpdateEnds
<1>3. ASSUME NEW roots, ~Policy!UpdateRefused(job[u].read.roots, job[u].asked),
             roots = Policy!Updated(job[u].read.roots, job[u].asked), Policy!ValidPolicy(roots),
             job' = [job EXCEPT ![u].next = roots], Policy!UGoto(u, "stage"), UNCHANGED lock
      PROVE  PolicyInv'
  <2> DEFINE j == [job[u] EXCEPT !.next = roots]
  <2>1. j.asked = job[u].asked /\ j.read = job[u].read /\ j.next = roots /\ {"asked", "read", "next", "result"} \subseteq DOMAIN j
    BY <1>1 DEF UpdateStands
  <2>2. up' = [up EXCEPT ![u] = "stage"] /\ job' = [job EXCEPT ![u] = j]
    BY <1>3 DEF Policy!UGoto
  <2> HIDE DEF j
  <2>3. Keeps(j)
    BY <1>1, <1>3, <2>1, UpdatedKeeps DEF UpdateStands
  <2>4. UpdateStands("stage", j)
    BY <1>1, <1>3, <2>1, <2>3 DEF UpdateStands
  <2> QED
    BY <1>1, <1>3, <2>2, <2>4, UpdateKeeps
<1> QED
  BY <1>2, <1>3 DEF Policy!Update, Policy!Checked, Policy!Read, Policy!Asked

LEMMA StageKeeps ==
  ASSUME Policy!PolicyAssumption, PolicyInv, NEW u \in PolicyUpdaters, Policy!Stage(u) \/ Policy!Check(u) PROVE PolicyInv'
<1>1. UNCHANGED <<file, fresh, owed, clean, step, phase, look, shown, moved, inForce>> /\ up[u] \in {"stage", "check"}
  BY DEF Policy!Stage, Policy!Check, Policy!cleaning, Policy!Is
<1>2. CASE Policy!Stage(u)
  BY <1>1, <1>2, UpdateEnds, UpdateGoes DEF Policy!Stage, Policy!Keep
<1>3. CASE Policy!Check(u)
  <2>1. Policy!AsObserved(u) => owed \subseteq Policy!Entries(job[u].read.roots)
    BY DEF Policy!AsObserved, Policy!Read, PolicyInv, Policy!NoUpdateIsLost
  <2> QED
    BY <1>1, <1>3, <2>1, UpdateEnds, UpdateGoes DEF Policy!Check, Policy!Keep
<1> QED
  BY <1>2, <1>3

\* The file is replaced by what the update has staged.
LEMMA PublishKeeps == ASSUME Policy!PolicyAssumption, PolicyInv, NEW u \in PolicyUpdaters, Policy!Publish(u) PROVE PolicyInv'
<1>1. /\ UNCHANGED <<lock, job, clean, step, phase, look, shown, moved, inForce>> /\ up[u] = "publish"
      /\ up' = [up EXCEPT ![u] = "readback"]
      /\ file' = [state |-> "private", ino |-> fresh, stamp |-> fresh, roots |-> job[u].next] /\ fresh' = fresh + 1
      /\ owed' = (owed \ WithdrawnBy(job[u])) \cup ConfirmedBy(job[u])
  BY WithdrawnFacts DEF Policy!Publish, Policy!cleaning, Policy!Is, Policy!UGoto, Policy!NextRoots
<1>2. PolicyUpdates /\ PolicyGuards
  BY DEF PolicyInv
<1>3. UpdateStands("publish", job[u]) /\ lock = u /\ owed \subseteq Policy!Entries(job[u].read.roots)
  BY <1>1, <1>2 DEF PolicyUpdates, PolicyHolding
<1>4. owed' \subseteq Policy!Entries(job[u].next)
  BY <1>1, <1>3 DEF UpdateStands, Keeps
<1>5. Policy!NoUpdateIsLost'
  BY <1>1, <1>4 DEF Policy!NoUpdateIsLost
<1>6. UpdateStands("readback", job[u])
  BY <1>3 DEF UpdateStands
<1>7. DOMAIN up = PolicyUpdaters /\ DOMAIN job = PolicyUpdaters
  BY <1>2 DEF PolicyUpdates
<1>8. /\ DOMAIN up' = PolicyUpdaters /\ DOMAIN job' = PolicyUpdaters /\ up'[u] = "readback" /\ job'[u] = job[u]
      /\ \A v \in PolicyUpdaters \ {u} : up'[v] = up[v] /\ job'[v] = job[v]
  BY <1>1, <1>7
<1>9. PolicyUpdates'
  BY <1>1, <1>2, <1>3, <1>6, <1>8, UpdatesStand
<1>10. PolicyGuards'
  BY <1>1, <1>2, CleaningStands
<1> QED
  BY <1>5, <1>9, <1>10 DEF PolicyInv

LEMMA UpdaterEndKeeps ==
  ASSUME Policy!PolicyAssumption, PolicyInv, NEW u \in PolicyUpdaters, Policy!ReadBack(u) \/ Policy!Crash(u) PROVE PolicyInv'
<1>1. UNCHANGED <<file, fresh, owed, clean, step, phase, look, shown, moved, inForce>>
  BY DEF Policy!ReadBack, Policy!Crash, Policy!cleaning
<1>2. \E outcome : Policy!Ends(u, outcome)
  BY DEF Policy!ReadBack, Policy!Crash
<1> QED
  BY <1>1, <1>2, UpdateEnds

\* People.
LEMMA PeopleKeep ==
  ASSUME PolicyInv, Policy!Edit \/ Policy!MoveRoots \/ Policy!ReplaceEntry PROVE PolicyInv'
<1>1. UNCHANGED <<lock, up, job, clean, step, phase, look, shown, moved, inForce>>
  BY DEF Policy!Edit, Policy!MoveRoots, Policy!ReplaceEntry, Policy!cleaning, Policy!updating, Policy!config
<1>2. PolicyUpdates /\ PolicyGuards /\ Policy!NoUpdateIsLost
  BY DEF PolicyInv
<1>3. CASE Policy!Edit
  <2>1. PICK f \in PolicyWritten, inPlace \in BOOLEAN :
          /\ file' = [state |-> f.state, ino |-> IF inPlace THEN file.ino ELSE fresh, stamp |-> fresh, roots |-> f.roots]
          /\ owed' = IF f.state # "private" \/ \E u \in PolicyUpdaters : Policy!Is(u, "publish") THEN {} ELSE Policy!Entries(f.roots)
    BY <1>3 DEF Policy!Edit
  <2>2. PolicyGuards'
    BY <1>1, <1>2, <1>3, <2>1, CleaningStands DEF Policy!Edit
  <2>3. Policy!NoUpdateIsLost'
    BY <2>1 DEF Policy!NoUpdateIsLost
  <2>4. \A u \in PolicyUpdaters : up[u] = "publish" => owed' = {}
    BY <2>1 DEF Policy!Is
  <2>5. PolicyUpdates'
    BY <1>1, <1>2, <2>4 DEF PolicyUpdates
  <2> QED
    BY <2>2, <2>3, <2>5 DEF PolicyInv
<1>4. CASE Policy!MoveRoots \/ Policy!ReplaceEntry
  <2>1. UNCHANGED <<file, fresh, owed>>
    BY <1>4 DEF Policy!MoveRoots, Policy!ReplaceEntry, Policy!config
  <2>2. PolicyGuards'
    BY <1>1, <1>2, <2>1, CleaningStands
  <2>3. PolicyUpdates' /\ Policy!NoUpdateIsLost'
    BY <1>1, <1>2, <2>1 DEF PolicyUpdates, Policy!NoUpdateIsLost
  <2> QED
    BY <2>2, <2>3 DEF PolicyInv
<1> QED
  BY <1>3, <1>4

\* What an update and the file know is not a matter of the cleaning.
LEMMA UpdatesIgnoreCleaning ==
  ASSUME PolicyInv, UNCHANGED <<lock, up, job, file, owed>>, PolicyGuards' PROVE PolicyInv'
BY DEF PolicyInv, PolicyUpdates, Policy!NoUpdateIsLost

LEMMA CleaningStops ==
  ASSUME PolicyGuards, UNCHANGED <<file, fresh, clean, phase>>, NEW outcome, Policy!Stops(outcome),
         outcome = "moved" => ~Policy!Covered(inForce) /\ UNCHANGED inForce
  PROVE  PolicyGuards'
<1>1. /\ step' = "ended" /\ moved' = outcome /\ look' = Policy!NoLook /\ shown' = Policy!NotShown
      /\ fresh \in Nat /\ file.stamp \in Nat /\ file.stamp < fresh
  BY DEF Policy!Stops, Policy!Goto, PolicyGuards
<1>2. LookStands'
  BY <1>1 DEF LookStands, Policy!NoLook, Policy!NoPolicy, Stamped
<1>3. ShownStands'
  BY <1>1 DEF ShownStands, Policy!NotShown, Policy!NoPolicy, Stamped, AsRead, Policy!Covered, Policy!None
<1>4. (moved = "moved" => step = "ended" /\ ~Policy!Covered(inForce))'
  BY <1>1 DEF Policy!Covered
<1> QED
  BY <1>1, <1>2, <1>3, <1>4 DEF PolicyGuards

LEMMA LoadedFacts ==
  ASSUME PolicyGuards
  PROVE  /\ DOMAIN Policy!Loaded = {"state", "ino", "stamp", "roots", "parent"}
         /\ Stamped(Policy!Loaded) /\ Policy!Loaded.state \in {"absent", "present", Policy!Error}
         /\ Policy!Loaded.state = "absent" <=> file.state = "absent"
         /\ Policy!Loaded.state = "absent" => Policy!Loaded.roots = {}
         /\ Policy!Loaded.state = "present" => file.state = "private" /\ Policy!Loaded.stamp = file.stamp /\ Policy!Loaded.roots = file.roots
<1>1. fresh \in Nat /\ file.stamp \in Nat /\ file.stamp < fresh
  BY DEF PolicyGuards
<1>2. /\ DOMAIN Policy!Absent = {"state", "ino", "stamp", "roots", "parent"}
      /\ Policy!Absent.state = "absent" /\ Policy!Absent.stamp = 0 /\ Policy!Absent.roots = {}
  BY DEF Policy!Absent
<1>3. CASE file.state = "absent"
  BY <1>1, <1>2, <1>3 DEF Policy!Loaded, Stamped
<1>4. CASE file.state = "private" /\ Policy!Size(file.roots) <= PolicyMaxBytes
  BY <1>1, <1>4 DEF Policy!Loaded, Stamped
<1>5. CASE file.state # "absent" /\ ~(file.state = "private" /\ Policy!Size(file.roots) <= PolicyMaxBytes)
  <2>1. Policy!Loaded = [Policy!Absent EXCEPT !.state = Policy!Error]
    BY <1>5 DEF Policy!Loaded
  <2> QED
    BY <1>1, <1>2, <1>5, <2>1 DEF Stamped, Policy!Error
<1> QED
  BY <1>3, <1>4, <1>5

LEMMA LookKeeps == ASSUME PolicyInv, Policy!LookAtFile PROVE PolicyInv'
<1>1. UNCHANGED <<lock, up, job, file, owed, fresh, clean, phase>> /\ step = "look" /\ PolicyGuards
  BY DEF Policy!LookAtFile, Policy!config, Policy!updating, PolicyInv
<1>2. CASE Policy!Stops("refused")
  BY <1>1, <1>2, CleaningStops, UpdatesIgnoreCleaning
<1>3. CASE look' = [Policy!NoLook EXCEPT !.stat = Policy!Loaded, !.root = at[clean.root]] /\ Policy!Goto("read") /\ UNCHANGED <<moved, shown>>
  <2> DEFINE l == Policy!Loaded
  <2>1. /\ DOMAIN l = {"state", "ino", "stamp", "roots", "parent"}
        /\ Stamped(l) /\ l.state \in {"absent", "present", Policy!Error}
        /\ l.state = "absent" <=> file.state = "absent"
        /\ l.state = "absent" => l.roots = {}
        /\ l.state = "present" => file.state = "private" /\ l.stamp = file.stamp /\ l.roots = file.roots
    BY <1>1, LoadedFacts
  <2> HIDE DEF l
  <2>2. /\ {"stat", "root", "seen"} \subseteq DOMAIN look' /\ look'.stat = l /\ look'.root = at[clean.root]
        /\ look'.seen = Policy!NoPolicy /\ step' = "read"
    BY <1>3 DEF Policy!NoLook, Policy!Goto, l
  <2>3. l.state # Policy!Error => (InForceIn(look.stat.roots, look.root))'
    <3>1. inForce' =
            IF file.state # "private" THEN {}
            ELSE UNION {Policy!Effective(r, r.dir) : r \in {x \in file.roots : IF clean.kind = "root" THEN x.dir = at[clean.root] ELSE at[x.path] = x.dir}}
      BY DEF Policy!LookAtFile
    <3>2. ASSUME l.state # Policy!Error, NEW n \in inForce'
          PROVE  \E r \in l.roots : (clean.kind = "root" => r.dir = at[clean.root]) /\ \E e \in r.entries : e.name = n
      <4>1. file.state = "private" /\ l.roots = file.roots
        BY <2>1, <3>1, <3>2
      <4>2. PICK r \in file.roots : n \in Policy!Effective(r, r.dir) /\ (clean.kind = "root" => r.dir = at[clean.root])
        BY <3>1, <3>2, <4>1
      <4>3. \E e \in r.entries : e.name = n
        BY <4>2 DEF Policy!Effective
      <4> QED
        BY <4>1, <4>2, <4>3
    <3> QED
      BY <1>1, <2>2, <3>2 DEF InForceIn
  <2>4. LookStands'
    <3>1. Stamped(look.stat)' /\ Stamped(look.seen)'
      BY <1>1, <2>1, <2>2 DEF Stamped, Policy!NoPolicy, PolicyGuards
    <3>2. (phase # "preview" /\ look.stat.state = "present" /\ shown.file.state = "present"
              /\ look.stat.stamp = shown.file.stamp => look.stat.roots = shown.file.roots)'
      BY <1>1, <1>3, <2>1, <2>2 DEF PolicyGuards, ShownStands, AsRead
    <3> QED
      BY <2>1, <2>2, <2>3, <3>1, <3>2 DEF LookStands
  <2>5. ShownStands' /\ moved' # "moved"
    BY <1>1, <1>3 DEF PolicyGuards, ShownStands, Stamped, AsRead, Policy!Covered
  <2>6. PolicyGuards'
    BY <1>1, <2>2, <2>4, <2>5 DEF PolicyGuards
  <2> QED
    BY <1>1, <2>6, UpdatesIgnoreCleaning
<1> QED
  BY <1>2, <1>3 DEF Policy!LookAtFile

LEMMA ReadKeeps == ASSUME PolicyInv, Policy!ReadFile PROVE PolicyInv'
<1>1. UNCHANGED <<lock, up, job, file, owed, fresh, clean, phase, inForce>> /\ step = "read" /\ PolicyGuards
  BY DEF Policy!ReadFile, Policy!config, Policy!updating, PolicyInv
<1>2. CASE Policy!Stops("refused")
  BY <1>1, <1>2, CleaningStops, UpdatesIgnoreCleaning
<1>3. ASSUME NEW seen_, look' = [look EXCEPT !.seen = seen_], Policy!Goto("evaluate"), UNCHANGED <<moved, shown>>,
             look.stat.state \in {"absent", "present"}, seen_.state = look.stat.state, seen_.stamp = look.stat.stamp,
             look.stat.state = "absent" => seen_.roots = look.stat.roots,
             look.stat.state = "present" => seen_.roots = file.roots
      PROVE  PolicyInv'
  <2>1. /\ {"stat", "root", "seen"} \subseteq DOMAIN look' /\ look'.stat = look.stat /\ look'.root = look.root
        /\ look'.seen = seen_ /\ step' = "evaluate" /\ LookStands
    BY <1>1, <1>3 DEF PolicyGuards, LookStands, Policy!Goto
  <2>2. Stamped(look.stat)' /\ Stamped(look.seen)'
    BY <1>1, <1>3, <2>1 DEF LookStands, Stamped
  <2>3. (look.stat.state # Policy!Error => InForceIn(look.stat.roots, look.root))'
    BY <1>1, <2>1 DEF LookStands, InForceIn
  <2>4. AsRead(look.seen)'
    BY <1>1, <1>3, <2>1 DEF AsRead
  <2>5. LookStands'
    BY <1>1, <1>3, <2>1, <2>2, <2>3, <2>4 DEF LookStands
  <2>6. ShownStands' /\ moved' # "moved"
    BY <1>1, <1>3 DEF PolicyGuards, ShownStands, Stamped, AsRead, Policy!Covered
  <2>7. PolicyGuards'
    BY <1>1, <2>1, <2>5, <2>6 DEF PolicyGuards
  <2> QED
    BY <1>1, <2>7, UpdatesIgnoreCleaning
<1>4. CASE look.stat.state = "absent" /\ look' = [look EXCEPT !.seen = look.stat] /\ Policy!Goto("evaluate") /\ UNCHANGED <<moved, shown>>
  BY <1>3, <1>4
<1>5. CASE /\ look.stat.state # Policy!Error /\ look.stat.state # "absent" /\ Policy!Loaded.state = "present"
           /\ look' = [look EXCEPT !.seen = [look.stat EXCEPT !.roots = file.roots]] /\ Policy!Goto("evaluate") /\ UNCHANGED <<moved, shown>>
  <2> DEFINE seen_ == [look.stat EXCEPT !.roots = file.roots]
  <2>1. seen_.state = look.stat.state /\ seen_.stamp = look.stat.stamp /\ seen_.roots = file.roots
    BY <1>1 DEF PolicyGuards, LookStands
  <2>2. look.stat.state \in {"absent", "present"}
    BY <1>1, <1>5 DEF PolicyGuards, LookStands
  <2> HIDE DEF seen_
  <2> QED
    BY <1>3, <1>5, <2>1, <2>2 DEF seen_
<1> QED
  BY <1>2, <1>4, <1>5 DEF Policy!ReadFile

\* A preview covers or reports every name of the records it evaluates.
LEMMA SnapshotNames ==
  ASSUME NEW r \in Policy!RecordsOf, NEW e \in r.entries
  PROVE  e.name \in Policy!Snapshot.effective \cup Policy!Snapshot.attention
<1> DEFINE d == Policy!NowAt(r)
<1>1. r \in {x \in Policy!RecordsOf : x.entries # {}}
  OBVIOUS
<1>2. e.name \in Policy!Effective(r, d) \/ e.name \in Policy!NeedsAttention(r, d)
  BY DEF Policy!NeedsAttention
<1> HIDE DEF d
<1>3. /\ Policy!Snapshot.effective = UNION {Policy!Effective(x, Policy!NowAt(x)) : x \in {y \in Policy!RecordsOf : y.entries # {}}}
      /\ Policy!Snapshot.attention = UNION {Policy!NeedsAttention(x, Policy!NowAt(x)) : x \in {y \in Policy!RecordsOf : y.entries # {}}}
  BY DEF Policy!Snapshot
<1> QED
  BY <1>1, <1>2, <1>3 DEF d

LEMMA EvaluateKeeps == ASSUME PolicyInv, Policy!Evaluate PROVE PolicyInv'
<1>1. /\ UNCHANGED <<lock, up, job, file, owed, fresh, clean, inForce>> /\ step = "evaluate"
      /\ PolicyGuards /\ LookStands /\ ShownStands
  BY DEF Policy!Evaluate, Policy!config, Policy!updating, PolicyInv, PolicyGuards
<1>2. CASE Policy!Stops("refused") /\ UNCHANGED phase
  BY <1>1, <1>2, CleaningStops, UpdatesIgnoreCleaning
<1>3. CASE /\ ~(phase = "preview" /\ Policy!PreviewRefused(Policy!Snapshot)) /\ ~(phase # "preview" /\ ~Policy!GuardHolds(Policy!Snapshot))
           /\ shown' = (IF phase = "preview" THEN Policy!Snapshot ELSE shown)
           /\ phase' = Policy!After(phase) /\ look' = Policy!NoLook /\ UNCHANGED moved
           /\ Policy!Goto(IF phase = "lastNative" THEN "move" ELSE "look")
  <2> DEFINE s == Policy!Snapshot
  <2>1. s.file = look.seen
    BY DEF Policy!Snapshot
  <2>2. Stamped(s.file) /\ AsRead(s.file)
    BY <1>1, <2>1 DEF LookStands
  <2>3. shown' = s
    BY <1>3 DEF Policy!GuardHolds
  <2>4. s.attention = {} /\ ~Policy!Covered(s.effective)
    BY <1>1, <1>3 DEF Policy!PreviewRefused, Policy!GuardHolds, ShownStands
  <2>5. step' = "move" => ~Policy!Covered(inForce)
    <3>1. SUFFICES ASSUME phase = "lastNative" PROVE ~Policy!Covered(inForce)
      BY <1>3 DEF Policy!Goto
    <3>2. look.seen = shown.file
      BY <1>3, <2>1, <3>1 DEF Policy!GuardHolds
    <3>3. look.stat.roots = look.seen.roots
      BY <1>1, <3>1, <3>2 DEF LookStands
    <3>4. ASSUME NEW n \in inForce PROVE n \in s.effective
      <4>1. PICK r \in look.seen.roots : (clean.kind = "root" => r.dir = look.root) /\ \E e \in r.entries : e.name = n
        BY <1>1, <3>3 DEF LookStands, InForceIn, Policy!Error
      <4>2. r \in Policy!RecordsOf
        BY <4>1 DEF Policy!RecordsOf, Policy!Selected
      <4>3. n \in s.effective \cup s.attention
        BY <4>1, <4>2, SnapshotNames
      <4> HIDE DEF s
      <4> QED
        BY <2>4, <4>3
    <3> HIDE DEF s
    <3> QED
      BY <2>4, <3>4 DEF Policy!Covered
  <2> HIDE DEF s
  <2>6. LookStands'
    BY <1>1, <1>3 DEF LookStands, Policy!NoLook, Policy!NoPolicy, Stamped, PolicyGuards, Policy!Goto
  <2>7. ShownStands'
    BY <1>1, <2>2, <2>3, <2>4 DEF ShownStands, Stamped, AsRead, Policy!Covered
  <2>8. moved' # "moved"
    BY <1>1, <1>3 DEF PolicyGuards
  <2>9. PolicyGuards'
    BY <1>1, <2>5, <2>6, <2>7, <2>8 DEF PolicyGuards, Policy!Covered
  <2> QED
    BY <1>1, <2>9, UpdatesIgnoreCleaning
<1> QED
  BY <1>2, <1>3 DEF Policy!Evaluate

LEMMA MoveKeeps == ASSUME PolicyInv, Policy!Move PROVE PolicyInv'
<1>1. /\ UNCHANGED <<lock, up, job, file, owed, fresh, clean, phase, inForce>> /\ PolicyGuards
      /\ Policy!Stops("moved") /\ ~Policy!Covered(inForce)
  BY DEF Policy!Move, Policy!config, Policy!updating, PolicyInv, PolicyGuards
<1> QED
  BY <1>1, CleaningStops, UpdatesIgnoreCleaning

LEMMA PolicyNextInv == ASSUME Policy!PolicyAssumption, PolicyInv, Policy!Next PROVE PolicyInv'
<1>1. CASE \E u \in PolicyUpdaters :
             Policy!Ask(u) \/ Policy!EnsureDir(u) \/ Policy!CloseDir(u) \/ Policy!AcquireLock(u) \/ Policy!Load(u) \/ Policy!Update(u)
               \/ Policy!Stage(u) \/ Policy!Check(u) \/ Policy!Publish(u) \/ Policy!ReadBack(u) \/ Policy!Crash(u)
  BY <1>1, AskKeeps, DirKeeps, LoadKeeps, UpdateItselfKeeps, StageKeeps, PublishKeeps, UpdaterEndKeeps
<1>2. CASE Policy!LookAtFile \/ Policy!ReadFile \/ Policy!Evaluate \/ Policy!Move
  BY <1>2, LookKeeps, ReadKeeps, EvaluateKeeps, MoveKeeps
<1>3. CASE Policy!Edit \/ Policy!MoveRoots \/ Policy!ReplaceEntry
  BY <1>3, PeopleKeep
<1> QED
  BY <1>1, <1>2, <1>3 DEF Policy!Next

LEMMA PolicyInvImplies ==
  ASSUME PolicyInv PROVE Policy!NoUpdateIsLost /\ Policy!PublishedIsValid /\ Policy!ExclusionsAreHonoured
<1>1. Policy!PublishedIsValid
  BY DEF PolicyInv, PolicyUpdates, UpdateStands, Policy!PublishedIsValid, Policy!Is, Policy!NextRoots
<1> QED
  BY <1>1 DEF PolicyInv, PolicyGuards, Policy!ExclusionsAreHonoured

LEMMA PolicyStutters == ASSUME PolicyInv, UNCHANGED vars PROVE PolicyInv'
<1>1. UNCHANGED <<file, owed, up, job, lock, look, shown, step, phase, clean, inForce, moved, fresh, inside>>
  BY DEF vars
<1>2. PolicyUpdates'
  BY <1>1 DEF PolicyInv, PolicyUpdates, UpdateStands
<1>3. Policy!NoUpdateIsLost'
  BY <1>1 DEF PolicyInv, Policy!NoUpdateIsLost
<1>4. LookStands' /\ ShownStands'
  BY <1>1 DEF PolicyInv, PolicyGuards, LookStands, ShownStands, AsRead, Stamped, InForceIn, Policy!Covered
<1>5. PolicyGuards'
  BY <1>1, <1>4 DEF PolicyInv, PolicyGuards, Policy!Covered
<1> QED
  BY <1>2, <1>3, <1>5 DEF PolicyInv

----------------------------------------------------------------------------
(* All of them.  A step of one component leaves `which' alone, and the     *)
(* state the others would run in is not theirs.                            *)

RemovalInv ==
  /\ which = "tools" => ToolInv
  /\ which = "bundle" => BundleInv
  /\ which = "orphans" => OrphanInv
  /\ which = "policy" => PolicyInv
  /\ which = "browser" => BrowserInv
  /\ which \in {"tools", "bundle", "orphans", "policy", "schema", "browser"}

LEMMA RemovalInitInv == ASSUME Init PROVE RemovalInv
<1>1. CASE which = "tools" /\ Tools!Init
  BY <1>1, InputsAreSound, ToolInitInv DEF RemovalInv
<1>2. CASE which = "bundle" /\ Bundle!Init
  BY <1>2, InputsAreSound, BundleInitInv DEF RemovalInv
<1>3. CASE which = "orphans" /\ Orphans!Init
  BY <1>3, OrphanInitInv DEF RemovalInv
<1>4. CASE which = "policy" /\ Policy!Init
  BY <1>4, InputsAreSound, PolicyInitInv DEF RemovalInv
<1>5. CASE which = "schema"
  BY <1>5 DEF RemovalInv
<1>6. CASE which = "browser" /\ Browse!Init
  BY <1>6, InputsAreSound, BrowserInitInv DEF RemovalInv
<1> QED
  BY <1>1, <1>2, <1>3, <1>4, <1>5, <1>6 DEF Init

LEMMA RemovalNextInv == ASSUME RemovalInv, [Next]_vars PROVE RemovalInv'
<1>1. CASE ToolsStep
  BY <1>1, InputsAreSound, ToolNextInv DEF ToolsStep, ToolsTurn, ToolsIdle, RemovalInv
<1>2. CASE BundleStep
  BY <1>2, InputsAreSound, BundleNextInv DEF BundleStep, BundleTurn, BundleIdle, RemovalInv
<1>3. CASE OrphansStep
  BY <1>3, InputsAreSound, OrphanNextInv DEF OrphansStep, OrphansTurn, OrphansIdle, RemovalInv
<1>4. CASE PolicyStep
  BY <1>4, InputsAreSound, PolicyNextInv DEF PolicyStep, PolicyTurn, PolicyIdle, RemovalInv
<1>5. CASE SchemaStep
  BY <1>5 DEF SchemaStep, SchemaTurn, SchemaIdle, RemovalInv
<1>6. CASE BrowseStep
  BY <1>6, InputsAreSound, BrowserNextInv DEF BrowseStep, BrowseTurn, BrowseIdle, RemovalInv
<1>7. CASE UNCHANGED vars
  <2>1. which' = which
    BY <1>7 DEF vars
  <2> QED
    BY <1>7, <2>1, ToolStutters, BundleStutters, OrphanStutters, PolicyStutters, BrowserStutters DEF RemovalInv
<1> QED
  BY <1>1, <1>2, <1>3, <1>4, <1>5, <1>6, <1>7 DEF Next

----------------------------------------------------------------------------
(* The results.                                                            *)

\* From any inputs InputsAreSound admits, a leftovers batch, an uninstall, a
\* simulator or runtime deletion, the browser and the updates of the clean
\* policy keep the inductive invariants above in every step.
THEOREM RemovalInvariance == Spec => []RemovalInv
<1>1. Init => RemovalInv
  BY RemovalInitInv
<1>2. RemovalInv /\ [Next]_vars => RemovalInv'
  BY RemovalNextInv
<1> QED
  BY <1>1, <1>2, PTL DEF Spec

\* What a receipt says of an object is what happened to it, or "unknown", also
\* when simctl's service acts late and when a crash comes between two linked
\* records; and the browser shows every report.  Not claimed is the one case
\* in which a receipt denies an effect: Finder moves the bundle after an error or
\* no answer was recorded as failed.  Code: a row is durably
\* "started" before its call or move, classify and settle_runtime look at the
\* machine again before a row says what came of it, and the browser's run_loop
\* joins a finished job and shows its report, also on the way out.
THEOREM ReceiptsAreTrueSaveLateMovesAlways == Spec => []ReceiptsAreTrueSaveLateMoves
<1>1. RemovalInv => ReceiptsAreTrueSaveLateMoves
  BY ToolInvImplies, BundleInvImplies, OrphanInvImplies, BrowserInvImplies DEF RemovalInv, ReceiptsAreTrueSaveLateMoves
<1> QED
  BY <1>1, RemovalInvariance, PTL

\* A leftovers batch that nobody disturbs moves and records all it was approved
\* for.  Code: OrphanOperation::execute observes everything again before each
\* move, with what the batch itself moved taken into account.
THEOREM QuietBatchCompletesAlways == Spec => []QuietBatchCompletes
<1>1. RemovalInv => QuietBatchCompletes
  BY OrphanInvImplies DEF RemovalInv, QuietBatchCompletes
<1> QED
  BY <1>1, RemovalInvariance, PTL

\* No update of the exclusions loses one that another process published, and
\* what is published can be read again.  Code: update_policy reads, changes and
\* publishes under one lock, compares the file with what it read before it
\* replaces it, and validates what it is about to write.
THEOREM PolicyIsKeptAlways == Spec => []PolicyIsKept
<1>1. RemovalInv => PolicyIsKept
  BY PolicyInvImplies DEF RemovalInv, PolicyIsKept
<1> QED
  BY <1>1, RemovalInvariance, PTL

\* No effect escapes its guard: no call of simctl follows an unclear one, parts
\* a pair or deletes an image before its devices; an uninstall handle executes
\* once; what an exclusion in force covers is not moved; and the browser moves
\* only what was shown and confirmed.  Code: execute_with stops after an unclear
\* call, ensure_idle covers both versions of the interface, guard_snapshot reads
\* the policy right before the native call, and a plan is confirmed only when
\* every line of it was on the screen.
THEOREM EffectsAreGuardedAlways == Spec => []EffectsAreGuarded
<1>1. RemovalInv => EffectsAreGuarded
  BY ToolInvImplies, BundleInvImplies, PolicyInvImplies, BrowserInvImplies DEF RemovalInv, EffectsAreGuarded
<1> QED
  BY <1>1, RemovalInvariance, PTL

=============================================================================
