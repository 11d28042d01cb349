---------------------------- MODULE ParallelScan ----------------------------
(***************************************************************************)
(* The parallel sizing of one cache or project root                        *)
(* (crates/engine/src/scan/cache/parallel.rs).                             *)
(*                                                                         *)
(* Thread 0 is the caller: it spawns the workers, walks the root and       *)
(* submits the root's subdirectories to a bounded queue.  A worker walks a *)
(* job depth first and lends subdirectories to peers that wait.  A step is *)
(* one critical section; a blocked condition variable is pc "waiting" and  *)
(* notify_all moves every waiter to "woken".                               *)
(*                                                                         *)
(* A frame is an open directory [dir, next, depth, above, deferred]: next  *)
(* is the entry to be read and above the directories it lies in.  Sizes    *)
(* are abstracted to how often each file was counted; a symbolic link is a *)
(* file that is counted, and every entry that is only reported (another    *)
(* device, dataless, unreadable metadata, unsupported kind) is "odd".      *)
(***************************************************************************)
EXTENDS Naturals, Sequences, FiniteSets, SequencesExt

CONSTANTS
  Scans,         \* the calls: [tree, project], the tree found and whether a project budget is given
  Root,          \* the root directory
  Files,         \* identities of files
  Workers,       \* limits.workers
  QueueCapacity, \* limits.queue_capacity
  MaxOpenDirs,   \* limits.max_open_dirs
  DeferLimit,    \* (max_open_dirs / 8).min(16), free here: small instances lend too
  MaxEntries,    \* limits.max_entries
  MaxDepth,      \* limits.max_depth
  Budget,        \* ProjectSizeBudget.max_entries
  MaxChanges,    \* bound on directory modifications by other programs
  MaxErrors,     \* bound on I/O errors
  MaxFailures    \* bound on failing threads (overflow, panic, spawn failure)

\* What the instances of the module assume of its parameters.
ParallelScanAssumption ==
  /\ Workers \in Nat \ {0} /\ QueueCapacity \in Nat \ {0} /\ MaxOpenDirs \in Nat \ {0}
  /\ DeferLimit \in Nat /\ MaxEntries \in Nat \ {0} /\ MaxDepth \in Nat \ {0}
  /\ \A s \in Scans : s.project \in BOOLEAN
  /\ Budget \in Nat
  /\ MaxChanges \in Nat /\ MaxErrors \in Nat /\ MaxFailures \in Nat

VARIABLES
  project,     \* whether this call has a project budget
  tree,        \* entries of each directory: a sequence of [kind, id]
  pc,          \* what each thread is doing
  stack,       \* WalkStack of each thread
  hand,        \* the opened child a thread is about to place, as a sequence
  local,       \* the summary each thread has not flushed
  jobs, producerDone, active, deferredSlots,      \* Queue
  stopped, directories, linked, deferred, totals, \* Shared
  visited,     \* ProjectSizeBudget.visited
  retained,    \* the root frame the caller keeps for the last check
  failed,      \* threads whose closure returned an error or panicked
  cancel,      \* cancellation requested or time budget exhausted
  changed,     \* directories modified while their subtree was being walked
  errors, result

queue == <<jobs, producerDone, active, deferredSlots>>
shared == <<stopped, directories, linked, deferred, totals, visited, retained>>
env == <<project, tree, cancel, changed>>
vars == <<pc, stack, hand, local, queue, shared, env, failed, errors, result>>

Caller == 0
WorkerCount == IF project THEN Workers - 1 ELSE Min({Workers, 8})
Peers == 1..WorkerCount
Threads == 0..Min({Workers, 8})  \* those beyond WorkerCount are never spawned
\* With no spare slot the caller walks the tree by itself.
Inline == project /\ Workers = 1
Producer(t) == t = Caller /\ ~Inline

Capacity == Min({QueueCapacity, Workers, IF project THEN 4 ELSE 8})

NoCount == [f \in Files |-> 0]
Plus(a, b) == [f \in Files |-> a[f] + b[f]]
Top(t) == Last(stack[t])
Frame(d, above, depth) ==
  [dir |-> d, next |-> 1, depth |-> depth, above |-> above, deferred |-> FALSE]

\* The frames that are still being walked, or will be.
Live == UNION {ToSet(stack[t]) \cup ToSet(hand[t]) : t \in Threads} \cup ToSet(jobs)
\* Every frame that holds a permit.
Open ==
  LET held(t) == Len(stack[t]) + Len(hand[t])
      count[T \in SUBSET Threads] ==
        IF T = {} THEN 0 ELSE LET t == CHOOSE x \in T : TRUE IN held(t) + count[T \ {t}]
  IN count[Threads] + Len(jobs) + Cardinality(deferred) + Len(retained)

\* check_unchanged finds the frame's directory modified since it was opened.
Changed(f) == f.dir \in changed

Wake(p) == [t \in Threads |-> IF p[t] = "waiting" THEN "woken" ELSE p[t]]
Goto(t, l) == pc' = [pc EXCEPT ![t] = l]
GotoWake(t, l) == pc' = [Wake(pc) EXCEPT ![t] = l]
Issue == totals' = [totals EXCEPT !.complete = FALSE]
At(t, l) == pc[t] = l

\* flush: the local summary is added to the shared one.
Flushed(t) == [totals EXCEPT !.files = Plus(@, local[t])]
Flush(t) == totals' = Flushed(t) /\ local' = [local EXCEPT ![t] = NoCount]

\* interrupted() when the cancellation or the deadline is seen first here.
Interrupt(t, l) ==
  /\ stopped' = TRUE
  /\ totals' = [totals EXCEPT !.complete = FALSE]
  /\ GotoWake(t, l)

----------------------------------------------------------------------------
(* The queue.                                                              *)

Take(w) ==
  /\ pc[w] \in {"take", "woken"}
  /\ \/ stopped /\ Goto(w, "exit") /\ UNCHANGED <<stack, queue>>
     \/ /\ ~stopped /\ jobs # <<>>
        /\ jobs' = Tail(jobs) /\ active' = active + 1
        /\ stack' = [stack EXCEPT ![w] = <<Head(jobs)>>]
        /\ GotoWake(w, "walk")
        /\ UNCHANGED <<producerDone, deferredSlots>>
     \/ /\ ~stopped /\ jobs = <<>> /\ producerDone /\ active = 0
        /\ Goto(w, "exit") /\ UNCHANGED <<stack, queue>>
     \/ /\ ~stopped /\ jobs = <<>> /\ ~(producerDone /\ active = 0)
        /\ Goto(w, "waiting") /\ UNCHANGED <<stack, queue>>
  /\ UNCHANGED <<hand, local, shared, env, failed, errors, result>>

JobFinished(w) ==
  /\ At(w, "finished")
  /\ active' = active - 1
  /\ GotoWake(w, "take")
  /\ UNCHANGED <<stack, hand, local, jobs, producerDone, deferredSlots, shared, env, failed, errors, result>>

Needed(t) == Cardinality({i \in DOMAIN stack[t] : ~stack[t][i].deferred})

CanLend(w) ==
  /\ ~project /\ ~stopped
  /\ \E p \in Peers : pc[p] \in {"waiting", "woken"}
  /\ Len(jobs) < Capacity
  /\ deferredSlots + Needed(w) <= DeferLimit

\* Mutant: the lending ancestors are not marked.
LendUnmarked(w) ==
  /\ At(w, "place") /\ ~Producer(w)
  /\ CanLend(w)
  /\ deferredSlots' = deferredSlots + Needed(w)
  /\ jobs' = Append(jobs, hand[w][1])
  /\ hand' = [hand EXCEPT ![w] = <<>>]
  /\ GotoWake(w, "walk")
  /\ UNCHANGED <<stack, local, producerDone, active, shared, env, failed, errors, result>>

\* lend: the child goes to a waiting peer and all its ancestors stay open.
Lend(w) ==
  /\ At(w, "place") /\ ~Producer(w)
  /\ CanLend(w)
  /\ deferredSlots' = deferredSlots + Needed(w)
  /\ stack' = [stack EXCEPT ![w] = [i \in DOMAIN @ |-> [@[i] EXCEPT !.deferred = TRUE]]]
  /\ jobs' = Append(jobs, hand[w][1])
  /\ hand' = [hand EXCEPT ![w] = <<>>]
  /\ GotoWake(w, "walk")
  /\ UNCHANGED <<local, producerDone, active, shared, env, failed, errors, result>>

Descend(w) ==
  /\ At(w, "place") /\ ~Producer(w)
  /\ ~CanLend(w)
  /\ stack' = [stack EXCEPT ![w] = Append(@, hand[w][1])]
  /\ hand' = [hand EXCEPT ![w] = <<>>]
  /\ Goto(w, "walk")
  /\ UNCHANGED <<local, queue, shared, env, failed, errors, result>>

\* submit: the caller waits, in slices, for room in the queue.
FlushAndSubmit ==
  /\ At(Caller, "place") /\ Producer(Caller)
  /\ Flush(Caller)
  /\ Goto(Caller, "submit")
  /\ UNCHANGED <<stack, hand, queue, stopped, directories, linked, deferred, visited, retained, env, failed, errors, result>>

SubmitInterrupted ==
  /\ At(Caller, "submit")
  /\ ~stopped /\ Len(jobs) >= Capacity /\ cancel
  /\ Interrupt(Caller, "submit")
  /\ UNCHANGED <<stack, hand, local, queue, directories, linked, deferred, visited, retained, env, failed, errors, result>>

Submit ==
  /\ At(Caller, "submit")
  /\ \/ stopped /\ Goto(Caller, "walk") /\ UNCHANGED jobs
     \/ /\ ~stopped /\ Len(jobs) < Capacity
        /\ jobs' = Append(jobs, hand[Caller][1])
        /\ GotoWake(Caller, "walk")
  /\ hand' = [hand EXCEPT ![Caller] = <<>>]
  /\ UNCHANGED <<stack, local, producerDone, active, deferredSlots, shared, env, failed, errors, result>>

----------------------------------------------------------------------------
(* walk                                                                    *)

Walking(t) == At(t, "walk") /\ stack[t] # <<>> /\ ~stopped /\ ~cancel

\* interrupted() ends the loop.
WalkInterrupted(t) ==
  /\ At(t, "walk") /\ stack[t] # <<>>
  /\ \/ stopped /\ Goto(t, "unwind") /\ UNCHANGED <<stopped, totals>>
     \/ ~stopped /\ cancel /\ Interrupt(t, "unwind")
  /\ UNCHANGED <<stack, hand, local, queue, directories, linked, deferred, visited, retained, env, failed, errors, result>>

Pop(t) == stack' = [stack EXCEPT ![t] = Front(@)]

\* finish_frame: a lending ancestor is kept, any other frame checked.
EndOfFrame(t) ==
  /\ Walking(t) /\ ~Producer(t)
  /\ Top(t).next > Len(tree[Top(t).dir])
  /\ Pop(t)
  /\ IF Top(t).deferred
       THEN deferred' = deferred \cup {Top(t)} /\ UNCHANGED totals
       ELSE /\ IF Changed(Top(t)) THEN Issue ELSE UNCHANGED totals
            /\ UNCHANGED deferred
  /\ UNCHANGED <<pc, hand, local, queue, stopped, directories, linked, visited, retained, env, failed, errors, result>>

\* The producer keeps the root for the last check.
EndOfRoot ==
  /\ Walking(Caller) /\ Producer(Caller)
  /\ Top(Caller).next > Len(tree[Root])
  /\ Flush(Caller)
  /\ retained' = stack[Caller]
  /\ stack' = [stack EXCEPT ![Caller] = <<>>]
  /\ Goto(Caller, "produced")
  /\ UNCHANGED <<hand, queue, stopped, directories, linked, deferred, visited, env, failed, errors, result>>

ReadError(t) ==
  /\ Walking(t)
  /\ errors < MaxErrors /\ errors' = errors + 1
  /\ Issue
  /\ Pop(t)
  /\ deferred' = IF Top(t).deferred THEN deferred \cup {Top(t)} ELSE deferred
  /\ UNCHANGED <<pc, hand, local, queue, stopped, directories, linked, visited, retained, env, failed, result>>

\* The loop ends because the stack is empty.
WalkEnds(t) ==
  /\ At(t, "walk") /\ stack[t] = <<>>
  /\ Goto(t, "flush")
  /\ UNCHANGED <<stack, hand, local, queue, shared, env, failed, errors, result>>

Reads(t) == Walking(t) /\ Top(t).next <= Len(tree[Top(t).dir])
Entry(t) == tree[Top(t).dir][Top(t).next]
Advance(t) == stack' = [stack EXCEPT ![t][Len(stack[t])].next = @ + 1]
IsDirectory(t) == Entry(t).kind \in IF project THEN {"dir"} ELSE {"dir", "vcs"}
Admits == project => visited < Budget
Admit == visited' = IF project THEN visited + 1 ELSE visited

Exhausted(t) ==
  \/ ~Admits
  \/ Entry(t).kind = "hard" /\ Entry(t).id \notin linked /\ Cardinality(linked) >= MaxEntries
  \/ IsDirectory(t) /\ Entry(t).id \notin directories /\ Cardinality(directories) >= MaxEntries

\* An identity table or the shared budget is full: everything stops.
LimitReached(t) ==
  /\ Reads(t)
  /\ Exhausted(t)
  /\ IF Admits THEN Admit ELSE UNCHANGED visited
  /\ Advance(t)
  /\ Issue
  /\ stopped' = TRUE
  /\ GotoWake(t, "unwind")
  /\ UNCHANGED <<hand, local, queue, directories, linked, deferred, retained, env, failed, errors, result>>

\* An entry that is only reported: odd, version control metadata of a
\* project, or a directory that was seen before.
Report(t) ==
  /\ Reads(t) /\ Admits /\ Admit
  /\ \/ Entry(t).kind = "odd"
     \/ Entry(t).kind = "vcs" /\ project
     \/ IsDirectory(t) /\ Entry(t).id \in directories
  /\ Advance(t)
  /\ Issue
  /\ UNCHANGED <<pc, hand, local, queue, stopped, directories, linked, deferred, retained, env, failed, errors, result>>

\* A file; one with several links is counted where it is met first.
Count(t) ==
  /\ Reads(t) /\ Admits /\ Admit
  /\ \/ Entry(t).kind = "file" /\ UNCHANGED linked
     \/ /\ Entry(t).kind = "hard" /\ Entry(t).id \notin linked
        /\ Cardinality(linked) < MaxEntries
        /\ linked' = linked \cup {Entry(t).id}
  /\ Advance(t)
  /\ local' = [local EXCEPT ![t][Entry(t).id] = @ + 1]
  /\ UNCHANGED <<pc, hand, queue, stopped, directories, deferred, totals, retained, env, failed, errors, result>>

\* Another name of a counted file; its sizes may have changed meanwhile.
SeeLinkAgain(t) ==
  /\ Reads(t) /\ Admits /\ Admit
  /\ Entry(t).kind = "hard" /\ Entry(t).id \in linked
  /\ Advance(t)
  /\ \/ UNCHANGED <<totals, errors>>
     \/ errors < MaxErrors /\ errors' = errors + 1 /\ Issue
  /\ UNCHANGED <<pc, hand, local, queue, stopped, directories, linked, deferred, retained, env, failed, result>>

\* A new directory is remembered, and refused when it lies too deep, when
\* there is no permit or when opening it fails.
Admissible(t) ==
  /\ Reads(t) /\ Admits /\ Admit
  /\ IsDirectory(t)
  /\ Entry(t).id \notin directories /\ Cardinality(directories) < MaxEntries
  /\ directories' = directories \cup {Entry(t).id}
  /\ Advance(t)

HasRoom(t) == Top(t).depth < MaxDepth /\ Open < MaxOpenDirs

RefuseDirectory(t) ==
  /\ Admissible(t)
  /\ \/ ~HasRoom(t) /\ UNCHANGED errors
     \/ HasRoom(t) /\ errors < MaxErrors /\ errors' = errors + 1
  /\ Issue
  /\ UNCHANGED <<pc, hand, local, queue, stopped, linked, deferred, retained, env, failed, result>>

OpenDirectory(t) ==
  /\ Admissible(t)
  /\ HasRoom(t)
  /\ hand' = [hand EXCEPT ![t] =
       <<Frame(Entry(t).id, Top(t).above \cup {Top(t).dir}, Top(t).depth + 1)>>]
  /\ Goto(t, "place")
  /\ UNCHANGED <<local, queue, stopped, linked, deferred, totals, retained, env, failed, errors, result>>

\* WalkStack::drop keeps the lending ancestors.
Unwind(t) ==
  /\ At(t, "unwind")
  /\ deferred' = deferred \cup {f \in ToSet(stack[t]) : f.deferred}
  /\ stack' = [stack EXCEPT ![t] = <<>>]
  /\ Goto(t, "flush")
  /\ UNCHANGED <<hand, local, queue, stopped, directories, linked, totals, visited, retained, env, failed, errors, result>>

WalkReturns(t) ==
  /\ At(t, "flush")
  /\ Flush(t)
  /\ Goto(t, IF t = Caller THEN "produced" ELSE "finished")
  /\ UNCHANGED <<stack, hand, queue, stopped, directories, linked, deferred, visited, retained, env, failed, errors, result>>

----------------------------------------------------------------------------
(* Failing threads.                                                        *)

\* An accounting error or a panic leaves the walk; StopOnFailure stops all.
Fail(t) ==
  /\ pc[t] \in {"walk", "place"}
  /\ Cardinality(failed) < MaxFailures
  /\ failed' = failed \cup {t}
  /\ deferred' = deferred \cup {f \in ToSet(stack[t]) : f.deferred}
  /\ stack' = [stack EXCEPT ![t] = <<>>] /\ hand' = [hand EXCEPT ![t] = <<>>]
  /\ Goto(t, "failing")
  /\ UNCHANGED <<local, queue, stopped, directories, linked, totals, visited, retained, env, errors, result>>

StopOnFailure(t) ==
  /\ At(t, "failing")
  /\ stopped' = TRUE
  /\ GotoWake(t, IF t = Caller THEN "produced" ELSE "exit")
  /\ UNCHANGED <<stack, hand, local, queue, directories, linked, deferred, totals, visited, retained, env, failed, errors, result>>

----------------------------------------------------------------------------
(* The caller.                                                             *)

Unspawned == {w \in Peers : At(w, "unspawned")}

Spawn(w) ==
  /\ At(Caller, "spawn")
  /\ Unspawned # {} /\ w = CHOOSE x \in Unspawned : \A y \in Unspawned : x <= y
  /\ pc' = [pc EXCEPT ![w] = "take"]
  /\ UNCHANGED <<stack, hand, local, queue, shared, env, failed, errors, result>>

\* The remaining workers are not started, nothing is walked.
SpawnFails ==
  /\ At(Caller, "spawn") /\ Unspawned # {}
  /\ Cardinality(failed) < MaxFailures
  /\ failed' = failed \cup {Caller}
  /\ stopped' = TRUE
  /\ pc' = [t \in Threads |-> CASE t = Caller -> "produced"
                                [] t \in Unspawned -> "exit"
                                [] OTHER -> Wake(pc)[t]]
  /\ stack' = [stack EXCEPT ![Caller] = <<>>]
  /\ UNCHANGED <<hand, local, queue, directories, linked, deferred, totals, visited, retained, env, errors, result>>

StartWalk ==
  /\ At(Caller, "spawn") /\ Unspawned = {}
  /\ Goto(Caller, "walk")
  /\ UNCHANGED <<stack, hand, local, queue, shared, env, failed, errors, result>>

ProducerDone ==
  /\ At(Caller, "produced")
  /\ producerDone' = TRUE
  /\ GotoWake(Caller, "await")
  /\ UNCHANGED <<stack, hand, local, jobs, active, deferredSlots, shared, env, failed, errors, result>>

\* The coordinator looks for cancellation while workers run.
AwaitInterrupted ==
  /\ At(Caller, "await")
  /\ ~stopped /\ cancel
  /\ Interrupt(Caller, "await")
  /\ UNCHANGED <<stack, hand, local, queue, directories, linked, deferred, visited, retained, env, failed, errors, result>>

\* All workers are joined, then every lending ancestor and the root checked.
FinalChecks ==
  /\ At(Caller, "await")
  /\ \A w \in Peers : At(w, "exit")
  /\ IF \E f \in deferred \cup ToSet(retained) : Changed(f) THEN Issue ELSE UNCHANGED totals
  /\ deferred' = {} /\ retained' = <<>>
  /\ Goto(Caller, "end")
  /\ UNCHANGED <<stack, hand, local, queue, stopped, directories, linked, visited, env, failed, errors, result>>

\* interrupted() once more, and the summary or the failure is returned.
Finish ==
  /\ At(Caller, "end")
  /\ result' = IF failed # {} THEN "err" ELSE "ok"
  /\ IF cancel /\ ~stopped THEN Interrupt(Caller, "returned")
     ELSE Goto(Caller, "returned") /\ UNCHANGED <<stopped, totals>>
  /\ UNCHANGED <<stack, hand, local, queue, directories, linked, deferred, visited, retained, env, failed, errors>>

----------------------------------------------------------------------------
(* The environment.                                                        *)

Cancel ==
  /\ ~cancel /\ result = "none"
  /\ cancel' = TRUE
  /\ UNCHANGED <<pc, stack, hand, local, queue, shared, project, tree, changed, failed, errors, result>>

\* Another program modifies a directory whose subtree is being walked.
Change(d) ==
  /\ Cardinality(changed) < MaxChanges
  /\ \E f \in Live : d \in f.above \cup {f.dir}
  /\ changed' = changed \cup {d}
  /\ UNCHANGED <<pc, stack, hand, local, queue, shared, project, tree, cancel, failed, errors, result>>

----------------------------------------------------------------------------
Init ==
  /\ \E s \in Scans : project = s.project /\ tree = s.tree
  /\ pc = [t \in Threads |-> IF t = Caller THEN "spawn" ELSE "unspawned"]
  /\ stack = [t \in Threads |-> IF t = Caller THEN <<Frame(Root, {}, 1)>> ELSE <<>>]
  /\ hand = [t \in Threads |-> <<>>]
  /\ local = [t \in Threads |-> NoCount]
  /\ jobs = <<>> /\ producerDone = FALSE /\ active = 0 /\ deferredSlots = 0
  /\ stopped = FALSE /\ directories = {Root} /\ linked = {} /\ deferred = {}
  /\ totals = [files |-> NoCount, complete |-> TRUE]
  /\ visited = 0 /\ retained = <<>> /\ failed = {}
  /\ cancel = FALSE /\ changed = {} /\ errors = 0 /\ result = "none"

WalkStep(t) ==
  \/ WalkInterrupted(t) \/ EndOfFrame(t) \/ ReadError(t) \/ WalkEnds(t)
  \/ LimitReached(t) \/ Report(t) \/ Count(t) \/ SeeLinkAgain(t)
  \/ RefuseDirectory(t) \/ OpenDirectory(t) \/ Lend(t) \/ Descend(t)
  \/ Unwind(t) \/ WalkReturns(t) \/ Fail(t) \/ StopOnFailure(t)

WorkerStep(w) == WalkStep(w) \/ Take(w) \/ JobFinished(w)

CallerStep ==
  \/ WalkStep(Caller) \/ EndOfRoot \/ FlushAndSubmit \/ SubmitInterrupted \/ Submit
  \/ \E w \in Peers : Spawn(w)
  \/ SpawnFails \/ StartWalk \/ ProducerDone \/ AwaitInterrupted \/ FinalChecks \/ Finish

Returned == At(Caller, "returned") /\ UNCHANGED vars

Next ==
  \/ CallerStep
  \/ \E w \in Threads \ {Caller} : WorkerStep(w)
  \/ Cancel
  \/ \E d \in directories : Change(d)
  \/ Returned

Spec == Init /\ [][Next]_vars

\* Every thread that can run is scheduled, and every system call returns.
FairSpec ==
  Spec /\ WF_vars(CallerStep) /\ \A w \in Threads \ {Caller} : WF_vars(WorkerStep(w))

----------------------------------------------------------------------------
(* Properties.                                                             *)

\* Directories below the root, by the entries that are directories.
Below(d) == {e.id : e \in {x \in ToSet(tree[d]) : x.kind \in {"dir", "vcs"}}}
FilesOf(d) == {e.id : e \in {x \in ToSet(tree[d]) : x.kind \in {"file", "hard"}}}

\* Code: a summary that claims to be complete has counted every file exactly
\* once, however the subtrees were submitted, lent and taken.
CompleteIsExact ==
  result = "ok" /\ totals.complete =>
    /\ \A d \in directories : Below(d) \subseteq directories
    /\ \A f \in Files : totals.files[f] = IF \E d \in directories : f \in FilesOf(d) THEN 1 ELSE 0

\* Code: "All lending ancestors stay open until every worker finishes, so
\* change checks cover their descendants": a directory modified while any of
\* its subtree was being walked makes the summary incomplete.
ChangesAreSeen == result = "ok" /\ totals.complete => changed = {}

\* Code: a cancellation requested at any time before the last look is never
\* answered by a complete summary.
CancelledIsIncomplete == result = "ok" /\ cancel => ~totals.complete

=============================================================================
