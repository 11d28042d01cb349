------------------------------ MODULE ScanWalk ------------------------------
(***************************************************************************)
(* The general directory walk (crates/engine/src/scan/walk.rs over the     *)
(* cursors of scan/macos.rs), used by disk scans, project discovery and    *)
(* cache discovery.                                                        *)
(*                                                                         *)
(* The calling thread admits the roots, starts the workers and collects    *)
(* their events from a bounded channel.  A worker takes a directory from   *)
(* the shared queue and walks it depth first; a subdirectory goes to the   *)
(* queue, or on the worker's own stack when the queue is full.  A step is  *)
(* one critical section or one atomic operation.  A wait with a timeout    *)
(* that only looks again is a step that is not enabled yet.                *)
(*                                                                         *)
(* A directory's path and its identity are one model value; a directory    *)
(* with two parents was moved during the scan, a root given twice is one   *)
(* under another spelling.  An entry is [kind, id].  Byte sizes are        *)
(* abstracted to how often a file was counted, both retention budgets to   *)
(* one number of entries.                                                  *)
(***************************************************************************)
EXTENDS Naturals, Sequences, FiniteSets, FiniteSetsExt, SequencesExt

CONSTANTS
  Walks,          \* calls: what is found and the limits, see MCData
  Dirs, Files,    \* identities
  Workers,        \* numbers of the threads a scan may start
  MaxErrors       \* bound on system calls that fail and on panics

\* ScanLimits::validate and normalize_roots refuse anything else.
Valid(w) ==
  /\ w.limits.workers \in 1..Cardinality(Workers)
  /\ \A k \in {"queue", "events", "depth", "entries"} : w.limits[k] >= 1
  /\ w.limits.openDirs >= w.limits.workers + 2
  /\ Len(w.roots) \in 1..w.limits.queue

\* What the instances of the module assume of its parameters.
WalkAssumption ==
  /\ Workers \subseteq Nat \ {0} /\ IsFiniteSet(Workers)
  /\ MaxErrors \in Nat
  /\ \A w \in Walks : Valid(w)

Caller == 0
Threads == Workers \cup {Caller}
None == [type |-> "none", dir |-> "none", at |-> 0]

VARIABLES
  walk,                     \* the call
  pc, stack, held,          \* a thread's frames, and its other directory permits
  event, then,              \* the event a worker sends and where it goes on
  jobs, active, finished,   \* Queue
  visited, stop, timedOut,  \* the rest of Shared
  pending,                  \* Counters.pending_events
  channel,                  \* the sync_channel
  roots, unspawned, spawnFailed,
  report,                   \* [listed, vcs, counted, signed, complete, accepted]
  failed, errors, cancel, expired, result

queue == <<jobs, active, finished>>
shared == <<visited, stop, timedOut>>
admission == <<roots, unspawned, spawnFailed>>
env == <<walk, cancel, expired>>
vars == <<walk, pc, stack, held, event, then, queue, shared, pending, channel, admission,
          report, failed, errors, cancel, expired, result>>

Limit == walk.limits
At(t, p) == pc[t] = p
Goto(t, p) == pc' = [pc EXCEPT ![t] = p]
Top(w) == Last(stack[w])
Frame(d, n) == [dir |-> d, next |-> 1, depth |-> n, checked |-> FALSE]

\* Counters.open: one permit per open directory.
Open == MapThenSumSet(LAMBDA t : Len(stack[t]) + held[t], Threads) + Len(jobs)

\* should_stop
Stops == stop \/ cancel \/ expired
ShouldStop == stop' = Stops /\ timedOut' = (timedOut \/ expired)

MayFail == errors < MaxErrors /\ errors' = errors + 1

----------------------------------------------------------------------------
(* Sending an event: send.                                                 *)

Ev(type, w) == [type |-> type, dir |-> Top(w).dir, at |-> Top(w).next]

\* The event is built; next is where the worker goes on: it walks, leaves the
\* directory ("pop") or looks at the subdirectory just reported ("descend").
Send(w, e, next) ==
  /\ event' = [event EXCEPT ![w] = e]
  /\ then' = [then EXCEPT ![w] = next]
  /\ Goto(w, "send")

\* send returns: directories opened on the way are closed.
Resume(w, sent) ==
  /\ Goto(w, IF sent /\ then[w] = "descend" THEN "descend" ELSE "walk")
  /\ stack' = IF then[w] = "pop" THEN [stack EXCEPT ![w] = Front(@)] ELSE stack
  /\ held' = [held EXCEPT ![w] = 0]
  /\ event' = [event EXCEPT ![w] = None]
  /\ then' = [then EXCEPT ![w] = "none"]

\* The scan stops: the event is dropped.
SendStops(w) ==
  /\ At(w, "send") /\ Stops
  /\ ShouldStop
  /\ Resume(w, FALSE)
  /\ UNCHANGED <<queue, visited, pending, channel, admission, report, failed, errors, env, result>>

\* A place is reserved before the channel is touched.
Reserve(w) ==
  /\ At(w, "send") /\ ~Stops
  /\ pending < Limit.events
  /\ pending' = pending + 1
  /\ Goto(w, "put")
  /\ UNCHANGED <<stack, held, event, then, queue, shared, channel, admission, report, failed, errors, env, result>>

\* try_send; a full channel returns the place.
Put(w) ==
  /\ At(w, "put")
  /\ IF Len(channel) < Limit.events
       THEN channel' = Append(channel, event[w]) /\ Resume(w, TRUE) /\ UNCHANGED pending
       ELSE /\ pending' = pending - 1 /\ Goto(w, "send")
            /\ UNCHANGED <<channel, stack, held, event, then>>
  /\ UNCHANGED <<queue, shared, admission, report, failed, errors, env, result>>

----------------------------------------------------------------------------
(* A worker: worker, next_job, Active.                                     *)

EnterThread(w) ==
  /\ At(w, "enter")
  /\ \/ Goto(w, "next") /\ UNCHANGED <<failed, errors>>
     \/ Goto(w, "exit") /\ MayFail /\ failed' = failed \cup {w}
  /\ UNCHANGED <<stack, held, event, then, queue, shared, pending, channel, admission, report, env, result>>

TakeJob(w) ==
  /\ At(w, "next") /\ ~Stops /\ ~finished
  /\ jobs # <<>>
  /\ stack' = [stack EXCEPT ![w] = <<Head(jobs)>>]
  /\ jobs' = Tail(jobs)
  /\ active' = active + 1
  /\ Goto(w, "walk")
  /\ UNCHANGED <<held, event, then, finished, shared, pending, channel, admission, report, failed, errors, env, result>>

\* Nothing is queued and nobody walks, or the scan stops.
NoMoreJobs(w) ==
  /\ At(w, "next")
  /\ ShouldStop
  /\ Stops \/ finished \/ (jobs = <<>> /\ active = 0)
  /\ finished' = (finished \/ (~Stops /\ jobs = <<>> /\ active = 0))
  /\ Goto(w, "restore")
  /\ UNCHANGED <<stack, held, event, then, jobs, active, visited, pending, channel, admission, report, failed, errors, env, result>>

\* Active::drop
ActiveDrop ==
  /\ active' = active - 1
  /\ finished' = (finished \/ (active = 1 /\ jobs = <<>>))

\* The stack is empty or the scan stops.
EndJob(w) ==
  /\ At(w, "walk")
  /\ stack[w] = <<>> \/ Stops
  /\ IF stack[w] = <<>> THEN UNCHANGED <<stop, timedOut>> ELSE ShouldStop
  /\ stack' = [stack EXCEPT ![w] = <<>>]
  /\ ActiveDrop
  /\ Goto(w, "next")
  /\ UNCHANGED <<held, event, then, jobs, visited, pending, channel, admission, report, failed, errors, env, result>>

Walking(w) == At(w, "walk") /\ stack[w] # <<>> /\ ~Stops

\* A system call panics; the guards are dropped.
Panic(w) ==
  /\ Walking(w)
  /\ MayFail
  /\ stack' = [stack EXCEPT ![w] = <<>>]
  /\ ActiveDrop
  /\ failed' = failed \cup {w}
  /\ Goto(w, "exit")
  /\ UNCHANGED <<held, event, then, jobs, shared, pending, channel, admission, report, env, result>>

RestoreThread(w) ==
  /\ At(w, "restore")
  /\ \/ UNCHANGED <<failed, errors>>
     \/ MayFail /\ failed' = failed \cup {w}
  /\ Goto(w, "exit")
  /\ UNCHANGED <<stack, held, event, then, queue, shared, pending, channel, admission, report, env, result>>

\* The signature of a project directory: two more permits for the probe.  A
\* signed directory is reported and not entered.
Probe(w) ==
  /\ Walking(w)
  /\ walk.project /\ ~Top(w).checked
  /\ IF Open + 2 > Limit.openDirs
       THEN /\ held' = [held EXCEPT ![w] = Limit.openDirs - Open]
            /\ Send(w, Ev("gap", w), "pop") /\ UNCHANGED errors
       ELSE \/ /\ Top(w).dir \in walk.signed
               /\ held' = [held EXCEPT ![w] = 2]
               /\ Send(w, Ev("signature", w), "pop") /\ UNCHANGED errors
            \/ /\ Top(w).dir \notin walk.signed
               /\ UNCHANGED <<held, event, then, pc, errors>>
            \/ MayFail /\ held' = [held EXCEPT ![w] = 2] /\ Send(w, Ev("gap", w), "pop")
  /\ stack' = [stack EXCEPT ![w][Len(stack[w])].checked = TRUE]
  /\ UNCHANGED <<queue, shared, pending, channel, admission, report, failed, env, result>>

Reading(w) == Walking(w) /\ (walk.project => Top(w).checked)
Entries(w) == walk.tree[Top(w).dir]

\* unchanged() after the last entry; the directory is closed first.
EndOfDirectory(w) ==
  /\ Reading(w) /\ Top(w).next > Len(Entries(w))
  /\ stack' = [stack EXCEPT ![w] = Front(@)]
  /\ \/ UNCHANGED <<pc, event, then, errors>>
     \/ MayFail /\ Send(w, Ev("gap", w), "walk")
  /\ UNCHANGED <<held, queue, shared, pending, channel, admission, report, failed, env, result>>

ReadError(w) ==
  /\ Reading(w)
  /\ MayFail
  /\ Send(w, Ev("gap", w), "pop")
  /\ UNCHANGED <<stack, held, queue, shared, pending, channel, admission, report, failed, env, result>>

\* What is sent for an entry: nothing for one outside the policy's scope, an
\* issue for a bad name, an overlong path, unreadable metadata or another
\* device ("odd"), the path alone for Git metadata of a project.
ReadEntry(w) ==
  /\ Reading(w) /\ Top(w).next <= Len(Entries(w))
  /\ stack' = [stack EXCEPT ![w][Len(stack[w])].next = @ + 1]
  /\ LET kind == Entries(w)[Top(w).next].kind IN
       CASE kind = "skip" -> UNCHANGED <<pc, event, then>>
         [] kind = "odd" -> Send(w, Ev("gap", w), "walk")
         [] kind = "vcs" /\ walk.project -> Send(w, Ev("vcs", w), "walk")
         [] OTHER -> Send(w, Ev("entry", w), "descend")
  /\ UNCHANGED <<held, queue, shared, pending, channel, admission, report, failed, errors, env, result>>

----------------------------------------------------------------------------
(* A subdirectory.                                                         *)

\* The entry that was reported last.
Entry(w) == Entries(w)[Top(w).next - 1]
IsDirectory(e) == e.kind \in {"dir", "vcs", "cloud", "leaf"}
Report(w, type) == [Ev(type, w) EXCEPT !.at = @ - 1]

\* A link is an issue only in cache discovery; "leaf" is a directory the policy does not descend (should_descend_directory,
\* a bound artifact), "cloud" one whose contents are not local.
Descend(w) ==
  /\ At(w, "descend")
  /\ LET e == Entry(w) IN
       CASE e.kind \in {"file", "hard", "leaf"} ->
              Goto(w, "walk") /\ UNCHANGED <<held, event, then>>
         [] (e.kind = "link" /\ ~walk.cache) \/ (e.kind \in {"dir", "vcs"} /\ e.id \in visited) ->
              Send(w, Report(w, "note"), "walk") /\ UNCHANGED held
         [] e.kind \in {"link", "cloud"} \/ (e.kind \in {"dir", "vcs"} /\ e.id \notin visited
              /\ (Top(w).depth >= Limit.depth \/ Open >= Limit.openDirs)) ->
              Send(w, Report(w, "gap"), "walk") /\ UNCHANGED held
         [] OTHER -> /\ held' = [held EXCEPT ![w] = 1] /\ Goto(w, "open")
                     /\ UNCHANGED <<event, then>>
  /\ UNCHANGED <<stack, queue, shared, pending, channel, admission, report, failed, errors, env, result>>

OpenStops(w) ==
  /\ At(w, "open") /\ Stops
  /\ ShouldStop
  /\ held' = [held EXCEPT ![w] = 0]
  /\ Goto(w, "walk")
  /\ UNCHANGED <<stack, event, then, queue, visited, pending, channel, admission, report, failed, errors, env, result>>

\* It cannot be opened, was replaced, or is a bare repository.
OpenRefused(w) ==
  /\ At(w, "open") /\ ~Stops
  /\ \/ MayFail /\ Send(w, Report(w, "gap"), "walk")
     \/ /\ walk.project /\ Entry(w).id \in walk.bare
        /\ Send(w, Report(w, "vcs"), "walk") /\ UNCHANGED errors
  /\ UNCHANGED <<stack, held, queue, shared, pending, channel, admission, report, failed, env, result>>

\* Mutant: the first look at the visited identities is trusted.
EnqueueUnchecked(w) ==
  /\ At(w, "open") /\ ~Stops
  /\ ~(walk.project /\ Entry(w).id \in walk.bare)
  /\ LET e == Entry(w) f == Frame(e.id, Top(w).depth + 1) IN
       /\ held' = [held EXCEPT ![w] = 0] /\ Goto(w, "walk")
       /\ visited' = visited \cup {e.id}
       /\ jobs' = IF Len(jobs) < Limit.queue THEN Append(jobs, f) ELSE jobs
       /\ stack' = IF Len(jobs) < Limit.queue THEN stack ELSE [stack EXCEPT ![w] = Append(@, f)]
  /\ UNCHANGED <<event, then, active, finished, stop, timedOut, pending, channel, admission, report, failed, errors, env, result>>

\* Its identity is inserted if nobody was faster; then it goes to the queue, or
\* on the worker's own stack when the queue is full.
Enqueue(w) ==
  /\ At(w, "open") /\ ~Stops
  /\ ~(walk.project /\ Entry(w).id \in walk.bare)
  /\ LET e == Entry(w) f == Frame(e.id, Top(w).depth + 1) IN
       CASE Cardinality(visited) >= Limit.entries ->
              Send(w, Report(w, "gap"), "walk") /\ UNCHANGED <<held, visited, jobs, stack>>
         [] Cardinality(visited) < Limit.entries /\ e.id \in visited ->
              Send(w, Report(w, "note"), "walk") /\ UNCHANGED <<held, visited, jobs, stack>>
         [] OTHER ->
              /\ visited' = visited \cup {e.id}
              /\ held' = [held EXCEPT ![w] = 0] /\ Goto(w, "walk")
              /\ jobs' = IF Len(jobs) < Limit.queue THEN Append(jobs, f) ELSE jobs
              /\ stack' = IF Len(jobs) < Limit.queue THEN stack
                          ELSE [stack EXCEPT ![w] = Append(@, f)]
              /\ UNCHANGED <<event, then>>
  /\ UNCHANGED <<active, finished, stop, timedOut, pending, channel, admission, report, failed, errors, env, result>>

WorkerStep(w) ==
  \/ SendStops(w) \/ Reserve(w) \/ Put(w) \/ EnterThread(w) \/ TakeJob(w) \/ NoMoreJobs(w)
  \/ EndJob(w) \/ Panic(w) \/ RestoreThread(w) \/ Probe(w) \/ EndOfDirectory(w)
  \/ ReadError(w) \/ ReadEntry(w) \/ Descend(w) \/ OpenStops(w) \/ OpenRefused(w) \/ Enqueue(w)

----------------------------------------------------------------------------
(* What the caller retains: record_entry, record_vcs_metadata, add_issue.  *)

Retained(r) == MapThenSumSet(LAMBDA p : r.listed[p], DOMAIN r.listed) + Cardinality(r.vcs)
Full(r) == Retained(r) >= Limit.entries
Gap(r) == [r EXCEPT !.complete = FALSE]

\* A path is a directory and a position in it, 0 for the directory itself.
Self(d) == <<d, 0>>

\* A directory is listed once, by its identity.
ListDirectory(r, d) == IF r.listed[Self(d)] > 0 THEN r ELSE [r EXCEPT !.listed[Self(d)] = 1]

\* A file with several links is counted where it is met first.
ListFile(r, p, f) ==
  [r EXCEPT !.listed[p] = @ + 1, !.counted[f] = IF @ = 0 THEN 1 ELSE @]

ListEntry(r, e, p) ==
  CASE IsDirectory(e) -> ListDirectory(r, e.id)
    [] e.kind \in {"file", "hard"} -> ListFile(r, p, e.id)
    [] OTHER -> [r EXCEPT !.listed[p] = @ + 1]

\* [report, stop] after the caller handled e; nothing is retained once the scan
\* stops.
Handled(r, e) ==
  LET p == <<e.dir, e.at>>
      x == walk.tree[e.dir][e.at] IN
  CASE e.type = "gap" -> <<Gap(r), stop>>
    [] e.type = "note" -> <<r, stop>>
    [] e.type = "signature" -> <<[r EXCEPT !.signed = @ \cup {e.dir}], stop>>
    [] stop -> <<r, stop>>
    [] e.type = "entry" /\ IsDirectory(x) /\ r.listed[Self(x.id)] > 0 -> <<r, stop>>
    [] Full(r) -> <<Gap(r), TRUE>>
    [] e.type = "vcs" -> <<[r EXCEPT !.vcs = @ \cup {p}], stop>>
    [] OTHER -> <<ListEntry(r, x, p), stop>>

----------------------------------------------------------------------------
(* The calling thread: run_with_policy.                                    *)

\* validate, normalize_roots or the thread's own policy refuses.
ScanRefused ==
  /\ At(Caller, "admit") /\ roots = walk.roots
  /\ MayFail
  /\ result' = "err" /\ Goto(Caller, "returned")
  /\ UNCHANGED <<stack, held, event, then, queue, shared, pending, channel, admission, report, failed, env>>

Root == Head(roots)
Admitting == At(Caller, "admit") /\ roots # <<>>
NextRoot == roots' = Tail(roots)
IsMetadata == walk.project /\ Root \in walk.bare

\* A root that is Git metadata itself is only listed.
RootMetadata ==
  /\ Admitting /\ IsMetadata
  /\ IF Full(report)
       THEN report' = Gap(report) /\ stop' = TRUE /\ roots' = <<>>
       ELSE report' = [report EXCEPT !.vcs = @ \cup {Self(Root)}] /\ NextRoot /\ UNCHANGED stop
  /\ UNCHANGED <<pc, stack, held, event, then, queue, visited, timedOut, pending, channel, unspawned, spawnFailed, failed, errors, env, result>>

RootStops ==
  /\ Admitting /\ ~IsMetadata /\ Stops
  /\ ShouldStop
  /\ roots' = <<>>
  /\ UNCHANGED <<pc, stack, held, event, then, queue, visited, pending, channel, unspawned, spawnFailed, report, failed, errors, env, result>>

\* No permit, or open_root fails, also for its volume or a dataless root.
RootRefused ==
  /\ Admitting /\ ~IsMetadata /\ ~Stops
  /\ \/ Open >= Limit.openDirs /\ UNCHANGED errors
     \/ Open < Limit.openDirs /\ MayFail
  /\ report' = Gap(report)
  /\ NextRoot
  /\ UNCHANGED <<pc, stack, held, event, then, queue, shared, pending, channel, unspawned, spawnFailed, failed, env, result>>

\* A new identity is listed and, if the policy descends it (a root may itself be
\* an application bundle or a package), queued; a second root with it is passed
\* over.
RootAdmitted ==
  /\ Admitting /\ ~IsMetadata /\ ~Stops
  /\ Open < Limit.openDirs
  /\ visited' = visited \cup {Root}
  /\ CASE Root \in visited -> NextRoot /\ UNCHANGED <<report, stop, jobs>>
       [] Root \notin visited /\ Full(report) ->
            report' = Gap(report) /\ stop' = TRUE /\ roots' = <<>> /\ UNCHANGED jobs
       [] OTHER ->
            /\ report' = [ListDirectory(report, Root) EXCEPT !.accepted = @ + 1]
            /\ jobs' = IF Root \in walk.leaves THEN jobs ELSE Append(jobs, Frame(Root, 0))
            /\ NextRoot /\ UNCHANGED stop
  /\ UNCHANGED <<pc, stack, held, event, then, active, finished, timedOut, pending, channel, unspawned, spawnFailed, failed, errors, env, result>>

\* should_spawn
StartWorkers ==
  /\ At(Caller, "admit") /\ roots = <<>>
  /\ unspawned' = IF jobs # <<>> /\ ~stop THEN 1..Limit.workers ELSE {}
  /\ Goto(Caller, "spawn")
  /\ UNCHANGED <<stack, held, event, then, queue, shared, pending, channel, roots, spawnFailed, report, failed, errors, env, result>>

SpawnWorker ==
  /\ At(Caller, "spawn") /\ unspawned # {}
  /\ LET w == Min(unspawned) IN
       \/ pc' = [pc EXCEPT ![w] = "enter"] /\ unspawned' = unspawned \ {w}
          /\ UNCHANGED <<spawnFailed, stop, errors>>
       \/ MayFail /\ spawnFailed' = TRUE /\ unspawned' = {} /\ stop' = TRUE /\ UNCHANGED pc
  /\ UNCHANGED <<stack, held, event, then, queue, visited, timedOut, pending, channel, roots, report, failed, env, result>>

\* The progress callback runs on this thread; a panic in it stops the workers.
StartCollecting ==
  /\ At(Caller, "spawn") /\ unspawned = {}
  /\ \/ Goto(Caller, "collect") /\ UNCHANGED <<stop, errors>>
     \/ MayFail /\ Goto(Caller, "unwind") /\ stop' = TRUE
  /\ UNCHANGED <<stack, held, event, then, queue, visited, timedOut, pending, channel, admission, report, failed, env, result>>

Running == {w \in Workers : pc[w] \notin {"unspawned", "exit"}}

\* The caller looks at the clock and the cancellation every ten milliseconds.
CollectStops ==
  /\ At(Caller, "collect") /\ Stops /\ ~stop
  /\ ShouldStop
  /\ UNCHANGED <<pc, stack, held, event, then, queue, visited, pending, channel, admission, report, failed, errors, env, result>>

Receive ==
  /\ At(Caller, "collect") /\ channel # <<>>
  /\ event' = [event EXCEPT ![Caller] = Head(channel)]
  /\ channel' = Tail(channel)
  /\ Goto(Caller, "handle")
  /\ UNCHANGED <<stack, held, then, queue, shared, pending, admission, report, failed, errors, env, result>>

\* Mutant: the place of an issue is not given back.
HandleKeepingPlace ==
  /\ At(Caller, "handle")
  /\ pending' = IF event[Caller].type = "gap" THEN pending ELSE pending - 1
  /\ LET h == Handled(report, event[Caller]) IN report' = h[1] /\ stop' = h[2]
  /\ event' = [event EXCEPT ![Caller] = None]
  /\ Goto(Caller, "collect")
  /\ UNCHANGED <<stack, held, then, queue, visited, timedOut, channel, admission, failed, errors, env, result>>

\* The place is given back, the event recorded and progress reported.
Handle ==
  /\ At(Caller, "handle")
  /\ pending' = pending - 1
  /\ LET h == Handled(report, event[Caller]) IN report' = h[1] /\ stop' = h[2]
  /\ event' = [event EXCEPT ![Caller] = None]
  /\ Goto(Caller, "collect")
  /\ UNCHANGED <<stack, held, then, queue, visited, timedOut, channel, admission, failed, errors, env, result>>

\* Every sender is gone: the workers are joined, a failure is a gap, and the
\* queued directories are closed.
Join ==
  /\ At(Caller, "collect") /\ channel = <<>> /\ Running = {}
  /\ report' = IF failed = {} THEN report ELSE Gap(report)
  /\ jobs' = <<>>
  /\ Goto(Caller, "end")
  /\ UNCHANGED <<stack, held, event, then, active, finished, shared, pending, channel, admission, failed, errors, env, result>>

Unwind ==
  /\ At(Caller, "unwind") /\ Running = {}
  /\ jobs' = <<>>
  /\ result' = "panic"
  /\ Goto(Caller, "returned")
  /\ UNCHANGED <<stack, held, event, then, active, finished, shared, pending, channel, admission, report, failed, errors, env>>

\* The status is settled; restoring the caller's policy may fail.
Finish ==
  /\ At(Caller, "end")
  /\ LET ok == ~cancel /\ ~timedOut /\ (report.accepted > 0 \/ report.vcs # {}) IN
       report' = IF ok THEN report ELSE Gap(report)
  /\ \/ result' = (IF spawnFailed THEN "err" ELSE "ok") /\ UNCHANGED errors
     \/ MayFail /\ result' = "err"
  /\ Goto(Caller, "returned")
  /\ UNCHANGED <<stack, held, event, then, queue, shared, pending, channel, admission, failed, env>>

CallerStep ==
  \/ ScanRefused \/ RootMetadata \/ RootStops \/ RootRefused \/ RootAdmitted
  \/ StartWorkers \/ SpawnWorker \/ StartCollecting \/ CollectStops \/ Receive \/ Handle
  \/ Join \/ Unwind \/ Finish

----------------------------------------------------------------------------
Cancel ==
  /\ ~cancel /\ result = "none"
  /\ cancel' = TRUE
  /\ UNCHANGED <<walk, pc, stack, held, event, then, queue, shared, pending, channel, admission, report, failed, errors, expired, result>>

\* The time budget runs out.
Expire ==
  /\ ~expired /\ result = "none"
  /\ expired' = TRUE
  /\ UNCHANGED <<walk, pc, stack, held, event, then, queue, shared, pending, channel, admission, report, failed, errors, cancel, result>>

Returned == At(Caller, "returned") /\ UNCHANGED vars

Paths == UNION {{d} \X (0..Len(walk.tree[d])) : d \in Dirs}

Init ==
  /\ walk \in Walks
  /\ pc = [t \in Threads |-> IF t = Caller THEN "admit" ELSE "unspawned"]
  /\ stack = [t \in Threads |-> <<>>] /\ held = [t \in Threads |-> 0]
  /\ event = [t \in Threads |-> None] /\ then = [t \in Threads |-> "none"]
  /\ jobs = <<>> /\ active = 0 /\ finished = FALSE
  /\ visited = {} /\ stop = FALSE /\ timedOut = FALSE
  /\ pending = 0 /\ channel = <<>>
  /\ roots = walk.roots /\ unspawned = {} /\ spawnFailed = FALSE
  /\ report = [listed |-> [p \in Paths |-> 0], vcs |-> {}, counted |-> [f \in Files |-> 0],
               signed |-> {}, complete |-> TRUE, accepted |-> 0]
  /\ failed = {} /\ errors = 0 /\ cancel = FALSE /\ expired = FALSE /\ result = "none"

Next ==
  \/ CallerStep
  \/ \E w \in Workers : WorkerStep(w)
  \/ Cancel
  \/ Expire
  \/ Returned

Spec == Init /\ [][Next]_vars

\* Every thread that can run is scheduled; every system call returns.
FairSpec == Spec /\ WF_vars(CallerStep) /\ \A w \in Workers : WF_vars(WorkerStep(w))

----------------------------------------------------------------------------
(* Properties.                                                             *)

\* Directories a complete scan must have entered, read off the tree.
Entered == visited \ (walk.leaves \cup IF walk.project THEN walk.signed ELSE {})
Unlisted(e) == e.kind \in {"skip", "odd"} \/ (walk.project /\ e.kind = "vcs")
\* A scan that claims to be complete has listed every entry of every directory
\* it should enter exactly once and counted every file once, however roots
\* overlap and whichever worker met a directory first: nothing that was queued,
\* sent or dropped on the way is missing.
WalkIsExact ==
  result = "ok" /\ report.complete =>
    /\ \A d \in Entered : \A i \in 1..Len(walk.tree[d]) :
         LET e == walk.tree[d][i] p == IF IsDirectory(e) THEN Self(e.id) ELSE <<d, i>> IN
         /\ e.kind # "odd"
         /\ ~Unlisted(e) => report.listed[p] = 1
         /\ e.kind = "dir" => e.id \in visited \/ <<d, i>> \in report.vcs
    /\ \A f \in Files : report.counted[f] =
         IF \E d \in Entered : \E e \in ToSet(walk.tree[d]) : e.kind \in {"file", "hard"} /\ e.id = f
           THEN 1 ELSE 0
    /\ walk.project => report.signed = visited \cap walk.signed

\* A worker that reserved a place never finds the channel full, places are
\* neither lost nor given back twice, directory descriptors (probes included)
\* and queued directories stay within their limits, and nothing stays open or
\* reserved after the call ("no queued handles may survive").
WalkPlacesAddUp ==
  /\ \A w \in Workers : At(w, "put") => Len(channel) < Limit.events
  /\ pending = Len(channel) + Cardinality({w \in Workers : At(w, "put")})
               + (IF event[Caller] = None THEN 0 ELSE 1)
  /\ Open <= Limit.openDirs /\ Len(jobs) <= Limit.queue
  /\ At(Caller, "returned") => Open = 0

=============================================================================
