--------------------------------- MODULE MCReturns ---------------------------------
(***************************************************************************)
(* The calls that must return, each alone and under the fairness of its    *)
(* threads: the walk, the size scan, the scan task, the project preview,   *)
(* the cache preview and the browser.  As in MCInspection the initial      *)
(* state picks the component that runs; the inputs are the smaller ones of *)
(* MCData, enough for every thread to stop, wait and be lost.              *)
(***************************************************************************)
EXTENDS MCData, SequencesExt, FiniteSetsExt

BrowserInside == [d \in {} |-> {}]

VARIABLES
  which,  \* the component that runs
  active, agreed, app, budget, call, cancel, cancelled, cands, case, changed, channel, code,
  complete, completed, counted, deferred, deferredSlots, directories, disk, errors, event,
  exhausted, expired, failed, faults, finished, found, hand, held, host, inventory, issues,
  items, job, jobs, linked, local, moved, next, outcome, pc, pending, phase, plans, pos,
  prepared, producerDone, project, queue, report, result, retained, roots, sequence, sized,
  snapshot, spare, spawnFailed, stack, stage, status, stop, stopped, then, timedOut, totals,
  tree, unseen, unspawned, visited, walk, worker

Walk == INSTANCE ScanWalk WITH
  Walks <- WalkSome, Dirs <- WalkDirs, Files <- {"f", "g"}, Workers <- {1, 2}, MaxErrors <- 1
Size == INSTANCE ParallelScan WITH
  Scans <- SizeSome, Root <- "r", Files <- {"f", "g"}, Workers <- 2, QueueCapacity <- 1,
  MaxOpenDirs <- 4, DeferLimit <- 2, MaxEntries <- 3, MaxDepth <- 4, Budget <- 3, MaxChanges <-
  0, MaxErrors <- 0, MaxFailures <- 1
Task == INSTANCE ScanTask WITH
  MaxSequence <- 3
Project == INSTANCE ProjectPreview WITH
  Cases <- ProjectSome, Requested <- 3, SizeWorkers <- 4, MaxLease <- 1, MaxEntries <- 3,
  Channel <- 2, MaxFaults <- 1
Cache == INSTANCE CachePreview WITH
  Previews <- {"p1", "p2"}, Cases <- CacheSome, Capacity <- 1, MaxCandidates <- 3, MaxIssues <-
  2, MaxFaults <- 0
Browse == INSTANCE Browser WITH
  Files <- {"f", "g"}, Dirs <- {}, Inside <- BrowserInside, MaxSelected <- 2, Lines <- 1,
  MaxScans <- 2, MaxPlans <- 1, MaxFaults <- 0

\* The inputs above are what the components assume of them.
ASSUME InputsAreSound ==
  /\ Walk!WalkAssumption
  /\ Size!ParallelScanAssumption
  /\ Project!ProjectPreviewAssumption
  /\ Cache!CachePreviewAssumption
  /\ Browse!BrowserAssumption

vars ==
  <<which,
    active, agreed, app, budget, call, cancel, cancelled, cands, case, changed, channel, code,
    complete, completed, counted, deferred, deferredSlots, directories, disk, errors, event,
    exhausted, expired, failed, faults, finished, found, hand, held, host, inventory, issues,
    items, job, jobs, linked, local, moved, next, outcome, pc, pending, phase, plans, pos,
    prepared, producerDone, project, queue, report, result, retained, roots, sequence, sized,
    snapshot, spare, spawnFailed, stack, stage, status, stop, stopped, then, timedOut, totals,
    tree, unseen, unspawned, visited, walk, worker>>

\* The variables of the other components.
Off == "off"
Init ==
  \/ /\ which = "walk" /\ Walk!Init
     /\ agreed = Off /\ app = Off /\ budget = Off /\ call = Off /\ cancelled = Off
     /\ cands = Off /\ case = Off /\ changed = Off /\ code = Off /\ complete = Off
     /\ completed = Off /\ counted = Off /\ deferred = Off /\ deferredSlots = Off
     /\ directories = Off /\ disk = Off /\ exhausted = Off /\ faults = Off /\ found = Off
     /\ hand = Off /\ host = Off /\ inventory = Off /\ issues = Off /\ items = Off /\ job = Off
     /\ linked = Off /\ local = Off /\ moved = Off /\ next = Off /\ outcome = Off /\ phase = Off
     /\ plans = Off /\ pos = Off /\ prepared = Off /\ producerDone = Off /\ project = Off
     /\ queue = Off /\ retained = Off /\ sequence = Off /\ sized = Off /\ snapshot = Off
     /\ spare = Off /\ stage = Off /\ status = Off /\ stopped = Off /\ totals = Off
     /\ tree = Off /\ unseen = Off /\ worker = Off
  \/ /\ which = "size" /\ Size!Init
     /\ agreed = Off /\ app = Off /\ budget = Off /\ call = Off /\ cancelled = Off
     /\ cands = Off /\ case = Off /\ channel = Off /\ code = Off /\ complete = Off
     /\ completed = Off /\ counted = Off /\ disk = Off /\ event = Off /\ exhausted = Off
     /\ expired = Off /\ faults = Off /\ finished = Off /\ found = Off /\ held = Off
     /\ host = Off /\ inventory = Off /\ issues = Off /\ items = Off /\ job = Off /\ moved = Off
     /\ next = Off /\ outcome = Off /\ pending = Off /\ phase = Off /\ plans = Off /\ pos = Off
     /\ prepared = Off /\ queue = Off /\ report = Off /\ roots = Off /\ sequence = Off
     /\ sized = Off /\ snapshot = Off /\ spare = Off /\ spawnFailed = Off /\ stage = Off
     /\ status = Off /\ stop = Off /\ then = Off /\ timedOut = Off /\ unseen = Off
     /\ unspawned = Off /\ walk = Off /\ worker = Off
  \/ /\ which = "task" /\ Task!Init
     /\ active = Off /\ agreed = Off /\ app = Off /\ budget = Off /\ call = Off /\ cancel = Off
     /\ cands = Off /\ case = Off /\ changed = Off /\ channel = Off /\ code = Off
     /\ complete = Off /\ completed = Off /\ counted = Off /\ deferred = Off
     /\ deferredSlots = Off /\ directories = Off /\ disk = Off /\ errors = Off /\ event = Off
     /\ expired = Off /\ failed = Off /\ faults = Off /\ finished = Off /\ found = Off
     /\ hand = Off /\ held = Off /\ inventory = Off /\ issues = Off /\ items = Off /\ job = Off
     /\ jobs = Off /\ linked = Off /\ local = Off /\ moved = Off /\ next = Off /\ pc = Off
     /\ pending = Off /\ phase = Off /\ plans = Off /\ pos = Off /\ producerDone = Off
     /\ project = Off /\ queue = Off /\ report = Off /\ retained = Off /\ roots = Off
     /\ sized = Off /\ spare = Off /\ spawnFailed = Off /\ stack = Off /\ stage = Off
     /\ status = Off /\ stop = Off /\ stopped = Off /\ then = Off /\ timedOut = Off
     /\ totals = Off /\ tree = Off /\ unseen = Off /\ unspawned = Off /\ visited = Off
     /\ walk = Off
  \/ /\ which = "project" /\ Project!Init
     /\ active = Off /\ agreed = Off /\ app = Off /\ budget = Off /\ call = Off
     /\ cancelled = Off /\ cands = Off /\ case = Off /\ changed = Off /\ channel = Off
     /\ code = Off /\ deferred = Off /\ deferredSlots = Off /\ directories = Off /\ disk = Off
     /\ errors = Off /\ event = Off /\ exhausted = Off /\ failed = Off /\ finished = Off
     /\ hand = Off /\ held = Off /\ host = Off /\ inventory = Off /\ issues = Off /\ job = Off
     /\ jobs = Off /\ linked = Off /\ local = Off /\ moved = Off /\ pc = Off /\ pending = Off
     /\ plans = Off /\ pos = Off /\ prepared = Off /\ producerDone = Off /\ project = Off
     /\ report = Off /\ result = Off /\ retained = Off /\ roots = Off /\ sequence = Off
     /\ sized = Off /\ snapshot = Off /\ spawnFailed = Off /\ stack = Off /\ stage = Off
     /\ stop = Off /\ stopped = Off /\ then = Off /\ timedOut = Off /\ totals = Off
     /\ unseen = Off /\ unspawned = Off /\ walk = Off
  \/ /\ which = "cache" /\ Cache!Init
     /\ agreed = Off /\ app = Off /\ cancelled = Off /\ changed = Off /\ channel = Off
     /\ code = Off /\ completed = Off /\ counted = Off /\ deferred = Off /\ deferredSlots = Off
     /\ directories = Off /\ disk = Off /\ errors = Off /\ event = Off /\ exhausted = Off
     /\ failed = Off /\ finished = Off /\ found = Off /\ hand = Off /\ held = Off /\ host = Off
     /\ items = Off /\ job = Off /\ jobs = Off /\ linked = Off /\ local = Off /\ moved = Off
     /\ next = Off /\ outcome = Off /\ pc = Off /\ pending = Off /\ plans = Off
     /\ prepared = Off /\ producerDone = Off /\ project = Off /\ queue = Off /\ report = Off
     /\ result = Off /\ retained = Off /\ roots = Off /\ sequence = Off /\ snapshot = Off
     /\ spare = Off /\ spawnFailed = Off /\ stack = Off /\ stage = Off /\ stop = Off
     /\ stopped = Off /\ then = Off /\ timedOut = Off /\ totals = Off /\ tree = Off
     /\ unseen = Off /\ unspawned = Off /\ visited = Off /\ walk = Off /\ worker = Off
  \/ /\ which = "browser" /\ Browse!Init
     /\ active = Off /\ budget = Off /\ call = Off /\ cancel = Off /\ cancelled = Off
     /\ cands = Off /\ case = Off /\ changed = Off /\ channel = Off /\ complete = Off
     /\ completed = Off /\ counted = Off /\ deferred = Off /\ deferredSlots = Off
     /\ directories = Off /\ errors = Off /\ event = Off /\ exhausted = Off /\ expired = Off
     /\ finished = Off /\ found = Off /\ hand = Off /\ held = Off /\ host = Off
     /\ inventory = Off /\ issues = Off /\ items = Off /\ jobs = Off /\ linked = Off
     /\ local = Off /\ next = Off /\ outcome = Off /\ pc = Off /\ pending = Off /\ phase = Off
     /\ pos = Off /\ prepared = Off /\ producerDone = Off /\ project = Off /\ queue = Off
     /\ report = Off /\ result = Off /\ retained = Off /\ roots = Off /\ sequence = Off
     /\ sized = Off /\ snapshot = Off /\ spare = Off /\ spawnFailed = Off /\ stack = Off
     /\ status = Off /\ stop = Off /\ stopped = Off /\ then = Off /\ timedOut = Off
     /\ totals = Off /\ tree = Off /\ unspawned = Off /\ visited = Off /\ walk = Off
     /\ worker = Off

WalkIdle ==
  <<which, agreed, app, budget, call, cancelled, cands, case, changed, code, complete,
  completed, counted, deferred, deferredSlots, directories, disk, exhausted, faults, found,
  hand, host, inventory, issues, items, job, linked, local, moved, next, outcome, phase, plans,
  pos, prepared, producerDone, project, queue, retained, sequence, sized, snapshot, spare,
  stage, status, stopped, totals, tree, unseen, worker>>
SizeIdle ==
  <<which, agreed, app, budget, call, cancelled, cands, case, channel, code, complete,
  completed, counted, disk, event, exhausted, expired, faults, finished, found, held, host,
  inventory, issues, items, job, moved, next, outcome, pending, phase, plans, pos, prepared,
  queue, report, roots, sequence, sized, snapshot, spare, spawnFailed, stage, status, stop,
  then, timedOut, unseen, unspawned, walk, worker>>
TaskIdle ==
  <<which, active, agreed, app, budget, call, cancel, cands, case, changed, channel, code,
  complete, completed, counted, deferred, deferredSlots, directories, disk, errors, event,
  expired, failed, faults, finished, found, hand, held, inventory, issues, items, job, jobs,
  linked, local, moved, next, pc, pending, phase, plans, pos, producerDone, project, queue,
  report, retained, roots, sized, spare, spawnFailed, stack, stage, status, stop, stopped, then,
  timedOut, totals, tree, unseen, unspawned, visited, walk>>
ProjectIdle ==
  <<which, active, agreed, app, budget, call, cancelled, cands, case, changed, channel, code,
  deferred, deferredSlots, directories, disk, errors, event, exhausted, failed, finished, hand,
  held, host, inventory, issues, job, jobs, linked, local, moved, pc, pending, plans, pos,
  prepared, producerDone, project, report, result, retained, roots, sequence, sized, snapshot,
  spawnFailed, stack, stage, stop, stopped, then, timedOut, totals, unseen, unspawned, walk>>
CacheIdle ==
  <<which, agreed, app, cancelled, changed, channel, code, completed, counted, deferred,
  deferredSlots, directories, disk, errors, event, exhausted, failed, finished, found, hand,
  held, host, items, job, jobs, linked, local, moved, next, outcome, pc, pending, plans,
  prepared, producerDone, project, queue, report, result, retained, roots, sequence, snapshot,
  spare, spawnFailed, stack, stage, stop, stopped, then, timedOut, totals, tree, unseen,
  unspawned, visited, walk, worker>>
BrowseIdle ==
  <<which, active, budget, call, cancel, cancelled, cands, case, changed, channel, complete,
  completed, counted, deferred, deferredSlots, directories, errors, event, exhausted, expired,
  finished, found, hand, held, host, inventory, issues, items, jobs, linked, local, next,
  outcome, pc, pending, phase, pos, prepared, producerDone, project, queue, report, result,
  retained, roots, sequence, sized, snapshot, spare, spawnFailed, stack, status, stop, stopped,
  then, timedOut, totals, tree, unspawned, visited, walk, worker>>

WalkTurn == which = "walk" /\ UNCHANGED WalkIdle
SizeTurn == which = "size" /\ UNCHANGED SizeIdle
TaskTurn == which = "task" /\ UNCHANGED TaskIdle
ProjectTurn == which = "project" /\ UNCHANGED ProjectIdle
CacheTurn == which = "cache" /\ UNCHANGED CacheIdle
BrowseTurn == which = "browser" /\ UNCHANGED BrowseIdle

WalkStep == WalkTurn /\ Walk!Next
SizeStep == SizeTurn /\ Size!Next
TaskStep == TaskTurn /\ Task!Next
ProjectStep == ProjectTurn /\ Project!Next
CacheStep == CacheTurn /\ Cache!Next
BrowseStep == BrowseTurn /\ Browse!Next

Next == WalkStep \/ SizeStep \/ TaskStep \/ ProjectStep \/ CacheStep \/ BrowseStep

\* The threads of the component that runs, by number: the caller and its
\* workers; of a scan task its worker, the scan that is asked to stop and the
\* join; of two cache previews the previews and their budgets; of the browser
\* the job's thread and the loop.
Thread(t) ==
  \/ WalkTurn /\ (IF t = 0 THEN Walk!CallerStep ELSE t < 3 /\ Walk!WorkerStep(t))
  \/ SizeTurn /\ (IF t = 0 THEN Size!CallerStep ELSE t < 3 /\ Size!WorkerStep(t))
  \/ ProjectTurn /\ (IF t = 0 THEN Project!Caller ELSE Project!WorkerStep(t))
  \/ TaskTurn /\ CASE t = 0 -> Task!Worker [] t = 1 -> Task!ScanStops [] t = 2 -> Task!Join [] OTHER -> FALSE
  \/ CacheTurn /\ CASE t = 0 -> Cache!Step("p1") [] t = 1 -> Cache!Step("p2")
                    [] t = 2 -> Cache!BudgetPasses("p1") [] t = 3 -> Cache!BudgetPasses("p2")
  \/ BrowseTurn /\ CASE t = 0 -> Browse!Thread [] t = 1 -> Browse!Poll [] OTHER -> FALSE

\* Every thread keeps running: what the components' own specifications assume.
Spec == Init /\ [][Next]_vars /\ \A t \in 0..3 : WF_vars(Thread(t))

-----------------------------------------------------------------------------
(* Properties. *)

\* Every call returns.  A walk and a size scan end although workers stop,
\* queues and the event channel are full and places are deferred; a project
\* preview ends although a sizing worker is lost; a cache preview ends at
\* its budget although the process listing hangs; dropping a scan task ends
\* its worker, and leaving the browser ends it whatever its job is doing.
CallsReturn ==
  ((which = "task" => host = "dropping") /\ (which = "browser" => stage = "leaving")) ~>
    (\/ which \in {"walk", "size"} /\ result # "none"
     \/ which = "task" /\ host = "gone"
     \/ which = "project" /\ phase = "done"
     \/ which = "cache" /\ \A p \in {"p1", "p2"} : Cache!Ended(p)
     \/ which = "browser" /\ stage = "gone")

\* What a finished scan task says does not change under the host, and an index
\* is taken only from a task whose result is a report.
FinishedIsFinal == which = "task" => Task!FinishedIsFinal
=============================================================================
