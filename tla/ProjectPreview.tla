--------------------------- MODULE ProjectPreview ---------------------------
(***************************************************************************)
(* The preview of rebuildable project directories: the classification of   *)
(* one scanned tree (crates/engine/src/purge_preview.rs), the phases of    *)
(* the preview task (purge_preview/task.rs), Git and build observations    *)
(* (project_git.rs, project_activity.rs) and the pool of workers that      *)
(* sizes the artifacts (purge_preview/task/projects.rs).                   *)
(*                                                                         *)
(* Cancellation and the deadline may come between any two steps.           *)
(***************************************************************************)
EXTENDS Naturals, Sequences, FiniteSets, FiniteSetsExt, SequencesExt

CONSTANTS
  Cases,       \* scanned trees, see TreeShape
  Requested,   \* the caller's worker limit
  SizeWorkers, \* SizeLimits::workers
  MaxLease,    \* subtree workers one scan may borrow (open directories)
  MaxEntries,  \* the shared entry budget of all sizing scans
  Channel,     \* capacity of the event channel
  MaxFaults

\* What the instances of the module assume of its parameters.
ProjectPreviewAssumption ==
  /\ Requested \in Nat \ {0} /\ SizeWorkers \in Nat \ {0} /\ Channel \in Nat \ {0}
  /\ MaxLease \in Nat /\ MaxEntries \in Nat /\ MaxFaults \in Nat

VARIABLES
  tree, phase, cancel, expired, outcome,   \* the task
  items,                                   \* artifact -> what the preview says of it
  complete, status,                        \* the preview as a whole
  found,                                   \* what discovery had covered
  next, spare, worker, queue, completed, visited,  \* the sizing pool
  counted, faults

task == <<tree, phase, cancel, expired, outcome>>
pool == <<next, spare, worker, queue, completed, visited, counted>>
vars == <<task, items, complete, status, found, pool, faults>>

Goto(p) == phase' = p
Fault == faults < MaxFaults /\ faults' = faults + 1
Stopped == cancel \/ expired

----------------------------------------------------------------------------
(* The scanned tree: the directories, the parent of each, the marker files *)
(* beside its children, its name and the evidence found inside it.         *)

None == [rule |-> "none", root |-> "none"]

\* ProjectMarker::artifacts
ArtifactNames(marker) ==
  CASE marker = "cargo" -> {"target"}
    [] marker = "node" -> {"node_modules", "dist"}
    [] marker = "python" -> {"dist", "build"}
    [] marker = "swift" -> {".build"}

RECURSIVE Above(_)
\* The directory and all its ancestors.
Above(d) == IF d = "none" THEN {} ELSE {d} \cup Above(tree.parent[d])

\* path.starts_with(prefix)
Inside(d, prefix) == prefix \in Above(d)

----------------------------------------------------------------------------
(* project_purge_preview                                                   *)

\* is_metadata_path: nothing below a .git directory is looked at.
Directories == {d \in tree.dirs : \A a \in Above(d) : tree.name[a] # ".git"}

Bound(d) == IF tree.parent[d] = "none" THEN {}
            ELSE {m \in tree.markers[tree.parent[d]] : tree.name[d] \in ArtifactNames(m)}

\* First pass: directories bound by a marker beside them, and directories with
\* evidence of their own whose project lies under the scanned roots.
ByMarker == {d \in Directories : tree.sig[d] = None /\ Bound(d) # {}}
BySignature == {d \in Directories : /\ tree.sig[d] # None
                                    /\ tree.sig[d].rule # "xcode" => tree.sig[d].root \in tree.dirs}
Artifacts == ByMarker \cup BySignature

ProjectRoot(d) == IF tree.sig[d] # None /\ tree.sig[d].rule # "xcode"
                    THEN tree.sig[d].root ELSE tree.parent[d]

\* Second pass: what lies inside another artifact belongs to that artifact.
SecondPass(d) ==
  /\ \A a \in Artifacts : ~Inside(ProjectRoot(d), a)
  /\ \A a \in Artifacts \ {d} : ~Inside(d, a)
  /\ d \notin tree.dataless

Listed == {d \in Artifacts : SecondPass(d)}

\* The scan saw version control metadata inside the artifact.
SeenMetadata(d) == \E g \in tree.dirs : Inside(g, d) /\ tree.name[g] = ".git"

\* ScanTree::summary of the artifact: its part of the scan is complete.
Candidate(d) ==
  [git |-> IF SeenMetadata(d) THEN "metadata" ELSE "unknown", ignored |-> FALSE,
   running |-> "unknown", complete |-> d \in found, sized |-> d \in found]

----------------------------------------------------------------------------
(* What the preview offers for execution.                                  *)

\* GitObservation::permits_cleanup
GitPermits(item) == item.git \in {"untracked", "none"}

\* ArtifactSignature::permits_cleanup
SignaturePermits(d, item) ==
  CASE tree.sig[d].rule = "tag" -> FALSE
    [] tree.sig[d].rule = "pods" -> item.ignored
    [] OTHER -> TRUE

\* PurgeArtifact::execution_supported
ExecutionSupported(d) ==
  LET item == items[d]
  IN /\ d \notin tree.managed
     /\ item.complete /\ item.sized /\ GitPermits(item)
     /\ item.running = "idle"
     /\ SignaturePermits(d, item)

----------------------------------------------------------------------------
(* scan_preview                                                            *)

\* scan_with_policy(ProjectDiscovery): a cancelled or cut-off scan still
\* reports what it has; a fault leaves a part of the tree uncovered.
Discover ==
  /\ phase = "discover"
  /\ \/ /\ ~Stopped /\ found' = tree.dirs /\ status' = "complete" /\ UNCHANGED faults
     \/ /\ \E gap \in tree.dirs :
             found' = {d \in tree.dirs : ~Inside(gap, d)}
        /\ \/ Stopped /\ status' = (IF cancel THEN "cancelled" ELSE "partial") /\ UNCHANGED faults
           \/ ~Stopped /\ Fault /\ status' = "partial"
  /\ complete' = (status' = "complete")
  /\ Goto("classify")
  /\ UNCHANGED <<tree, cancel, expired, outcome, items, pool>>

\* ScanTree::build, purge_preview and the check after it.
Classify ==
  /\ phase = "classify"
  /\ IF cancel THEN outcome' = "cancelled" /\ Goto("done") /\ UNCHANGED items
               ELSE /\ items' = [d \in Listed |-> Candidate(d)]
                    /\ Goto("git") /\ UNCHANGED outcome
  /\ UNCHANGED <<tree, cancel, expired, complete, status, found, pool, faults>>

\* inspect_before: a stopped or failed query leaves the state unknown, and what
\* the scan saw is kept.
Git ==
  /\ phase = "git"
  /\ LET seen(d, git, ignored) ==
           IF items[d].git = "metadata" THEN items[d] ELSE [items[d] EXCEPT !.git = git, !.ignored = ignored]
     IN \/ ~Stopped /\ items' = [d \in DOMAIN items |-> seen(d, tree.git[d], d \in tree.ignored)] /\ UNCHANGED faults
        \/ Stopped /\ items' = [d \in DOMAIN items |-> seen(d, "unknown", FALSE)] /\ UNCHANGED faults
        \/ ~Stopped /\ Fault /\ items' = [d \in DOMAIN items |->
             seen(d, IF tree.git[d] = "none" THEN "none" ELSE "unknown", FALSE)]
  /\ Goto("activity")
  /\ UNCHANGED <<tree, cancel, expired, outcome, complete, status, found, pool>>

\* combine: processes and lock files must both be seen quiet.
Combine(process, lock) ==
  CASE process = "busy" \/ lock = "busy" -> "busy"
    [] process = "idle" /\ lock = "idle" -> "idle"
    [] OTHER -> "unknown"

\* project_activity::observe
Activity ==
  /\ phase = "activity"
  /\ items' = [d \in DOMAIN items |-> [items[d] EXCEPT !.running =
       IF Stopped THEN "unknown" ELSE Combine(tree.builds[ProjectRoot(d)], tree.locks[ProjectRoot(d)])]]
  /\ Goto("measure")
  /\ UNCHANGED <<tree, cancel, expired, outcome, complete, status, found, pool, faults>>

----------------------------------------------------------------------------
(* projects::measure                                                       *)

Jobs == IF items = <<>> THEN <<>> ELSE SetToSeq(DOMAIN items)
ActiveWorkers == Min({SizeWorkers, Requested, Len(Jobs)})
Workers == 1 .. Min({SizeWorkers, Requested})

Idle == [at |-> "off", job |-> 0, lease |-> 0, left |-> 0, admitted |-> TRUE]
At(w) == worker[w].at
Job(w) == Jobs[worker[w].job]

\* Mutant: the flags of the discovery survive until a result replaces them.
UnmeasuredKept(item) == item

\* No artifact counts as measured before its own result arrives.
Unmeasured(item) == [item EXCEPT !.complete = FALSE, !.sized = FALSE]

\* A worker whose thread cannot be started leaves the preview incomplete.
StartMeasure ==
  /\ phase = "measure"
  /\ items' = [d \in DOMAIN items |-> Unmeasured(items[d])]
  /\ next' = 1
  /\ spare' = Min({SizeWorkers, Requested}) - ActiveWorkers
  /\ \/ /\ worker' = [w \in Workers |-> IF w <= ActiveWorkers THEN [Idle EXCEPT !.at = "next"] ELSE Idle]
        /\ UNCHANGED <<complete, faults>>
     \/ /\ Fault /\ ActiveWorkers > 0
        /\ worker' = [w \in Workers |-> IF w < ActiveWorkers THEN [Idle EXCEPT !.at = "next"] ELSE Idle]
        /\ complete' = FALSE
  /\ Goto("sizing")
  /\ UNCHANGED <<tree, cancel, expired, outcome, status, found, queue, completed, visited, counted>>

Put(w, state) == worker' = [worker EXCEPT ![w] = state]
Event(kind, d, d_ok, stopped) == [kind |-> kind, job |-> d, ok |-> d_ok, cancelled |-> stopped]
Send(e) == Len(queue) < Channel /\ queue' = Append(queue, e)

\* SpareWorkers::take
Lease(n) == spare' = spare - n

\* next.fetch_add and the checks before a scan.
TakeJob(w) ==
  /\ phase = "sizing" /\ At(w) = "next"
  /\ IF next > Len(Jobs)
       THEN Put(w, Idle) /\ UNCHANGED <<next, spare>>
       ELSE /\ next' = next + 1
            /\ IF Stopped \/ visited >= MaxEntries
                 THEN Put(w, [Idle EXCEPT !.at = "error", !.job = next]) /\ UNCHANGED spare
                 ELSE /\ Put(w, [Idle EXCEPT !.at = "scan", !.job = next, !.lease = Min({spare, MaxLease}),
                                             !.left = tree.size[Jobs[next]]])
                      /\ Lease(Min({spare, MaxLease}))
  /\ UNCHANGED <<task, items, complete, status, found, queue, completed, visited, counted, faults>>

\* One entry of the artifact: ProjectSizeBudget::admit, and a progress event.
Visit(w) ==
  /\ phase = "sizing" /\ At(w) = "scan" /\ worker[w].left > 0 /\ worker[w].admitted
  /\ IF ~Stopped /\ visited < MaxEntries
       THEN /\ visited' = visited + 1
            /\ counted' = [counted EXCEPT ![Job(w)] = @ + 1]
            /\ Put(w, [worker[w] EXCEPT !.left = @ - 1])
            /\ Send(Event("progress", worker[w].job, TRUE, FALSE))
       ELSE Put(w, [worker[w] EXCEPT !.admitted = FALSE]) /\ UNCHANGED <<visited, counted, queue>>
  /\ UNCHANGED <<task, items, complete, status, found, next, spare, completed, faults>>

\* scan_project returns its summary and the lease goes back; a refused entry,
\* an unreadable one or a changed root make it incomplete.
ScanEnds(w) ==
  /\ phase = "sizing" /\ At(w) = "scan" /\ (worker[w].left = 0 \/ ~worker[w].admitted)
  /\ \/ Send(Event("result", worker[w].job, worker[w].admitted, cancel)) /\ UNCHANGED faults
     \/ Fault /\ Send(Event("result", worker[w].job, FALSE, cancel))
  /\ spare' = spare + worker[w].lease
  /\ Put(w, [Idle EXCEPT !.at = "next"])
  /\ UNCHANGED <<task, items, complete, status, found, next, completed, visited, counted>>

\* A job that was never scanned still answers.
JobRefused(w) ==
  /\ phase = "sizing" /\ At(w) = "error"
  /\ Send(Event("error", worker[w].job, FALSE, cancel))
  /\ Put(w, [Idle EXCEPT !.at = "next"])
  /\ UNCHANGED <<task, items, complete, status, found, next, spare, completed, visited, counted, faults>>

\* Metadata met while sizing revokes the Git permission; on its own it does
\* not make the preview incomplete.
Apply(d, e) ==
  [items[d] EXCEPT !.sized = e.ok /\ d \notin tree.hidden,
                   !.complete = d \in found /\ e.ok /\ d \notin tree.hidden,
                   !.git = IF d \in tree.hidden THEN "metadata" ELSE @]

\* An unfinished scan or a refused job makes the whole preview incomplete.
StillComplete(e) == complete /\ e.ok

\* The caller's thread takes events until every worker has gone.
Receive ==
  /\ phase = "sizing" /\ queue # <<>>
  /\ LET e == Head(queue)
         d == Jobs[e.job]
     IN /\ queue' = Tail(queue)
        /\ IF e.kind = "progress" THEN UNCHANGED <<items, complete, status, completed>>
           ELSE /\ completed' = completed + 1
                /\ IF e.kind = "result" THEN items' = [items EXCEPT ![d] = Apply(d, e)] ELSE UNCHANGED items
                /\ complete' = StillComplete(e)
                /\ status' = IF e.cancelled THEN "cancelled" ELSE status
  /\ UNCHANGED <<task, found, next, spare, worker, visited, counted, faults>>

AllAnswered == completed = Len(Jobs)

\* The channel closes when its last sender is gone.
Drained == queue = <<>> /\ \A w \in Workers : At(w) = "off"

EndMeasure ==
  /\ phase = "sizing" /\ Drained
  /\ LET whole == complete /\ AllAnswered /\ ~cancel
     IN /\ complete' = whole
        /\ status' = CASE cancel -> "cancelled"
                       [] ~whole /\ status = "complete" -> "partial"
                       [] OTHER -> status
  /\ outcome' = "preview" /\ Goto("done")
  /\ UNCHANGED <<tree, cancel, expired, items, found, pool, faults>>

----------------------------------------------------------------------------
\* PurgePreviewTask::cancel
Cancel ==
  /\ phase # "done" /\ ~cancel /\ cancel' = TRUE
  /\ UNCHANGED <<tree, phase, expired, outcome, items, complete, status, found, pool, faults>>

\* The preview's time budget passes.
Expire ==
  /\ phase # "done" /\ ~expired /\ expired' = TRUE
  /\ UNCHANGED <<tree, phase, cancel, outcome, items, complete, status, found, pool, faults>>

Init ==
  /\ tree \in Cases
  /\ phase = "discover" /\ cancel = FALSE /\ expired = FALSE /\ outcome = "running"
  /\ items = <<>> /\ complete = FALSE /\ status = "partial" /\ found = {}
  /\ next = 1 /\ spare = 0 /\ worker = [w \in Workers |-> Idle] /\ queue = <<>>
  /\ completed = 0 /\ visited = 0 /\ counted = [d \in tree.dirs |-> 0] /\ faults = 0

WorkerStep(w) == TakeJob(w) \/ Visit(w) \/ ScanEnds(w) \/ JobRefused(w)
Caller == Discover \/ Classify \/ Git \/ Activity \/ StartMeasure \/ Receive \/ EndMeasure
Done == phase = "done" /\ UNCHANGED vars

Next == Caller \/ (\E w \in Workers : WorkerStep(w)) \/ Cancel \/ Expire \/ Done

\* Every thread of the preview keeps running.
Spec == Init /\ [][Next]_vars /\ WF_vars(Caller) /\ \A w \in Workers : WF_vars(WorkerStep(w))

----------------------------------------------------------------------------
(* Properties.                                                             *)

\* An artifact the finished preview supports for execution was scanned to its
\* last entry, holds no repository, has no build running, and neither contains
\* nor lies inside another one that is supported (execution_supported over
\* everything the phases left behind).
OffersAreEarned ==
  phase = "done" /\ outcome = "preview" =>
    \A d \in DOMAIN items : ExecutionSupported(d) =>
      /\ counted[d] = tree.size[d] /\ d \in found
      /\ d \notin tree.hidden /\ ~SeenMetadata(d) /\ tree.git[d] \in {"untracked", "none"}
      /\ tree.builds[ProjectRoot(d)] = "idle" /\ tree.locks[ProjectRoot(d)] = "idle"
      /\ \A e \in DOMAIN items \ {d} : ~Inside(d, e)

\* A preview called complete has an answer for every artifact, was not
\* cancelled, and its status says the same.
CompleteMeansMeasured ==
  phase = "done" /\ outcome = "preview" =>
    /\ complete = (status = "complete")
    /\ complete => /\ ~cancel /\ found = tree.dirs
                   /\ \A d \in DOMAIN items : items[d].sized \/ d \in tree.hidden

\* Artifact workers and the subtree workers they borrowed never exceed the
\* caller's limit.
WithinRequest ==
  phase = "sizing" =>
    Cardinality({w \in Workers : At(w) # "off"}) +
      MapThenSumSet(LAMBDA w : worker[w].lease, Workers) <= Requested

=============================================================================
