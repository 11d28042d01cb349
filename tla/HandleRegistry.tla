--------------------------- MODULE HandleRegistry ---------------------------
(***************************************************************************)
(* The task handles of the native interface (crates/bindings/src/lib.rs    *)
(* and its siblings), called by any threads of a host at any time.         *)
(*                                                                         *)
(* Three kinds of handle stand for the nine maps of the registry: a "task" *)
(* (scan, installer: ReadOnlyTask behind one mutex, a selection may be     *)
(* derived from it), a "device" session (simulators, picked files: the     *)
(* cancellation flag lies outside the mutex and a preview may be executed) *)
(* and a "runtime" session, which differs in what allocate_handle counts.  *)
(* A critical section of the registry's own mutex is one step; the mutex   *)
(* of a job is only ever tried, never waited for.                          *)
(***************************************************************************)
EXTENDS Naturals, FiniteSets

CONSTANTS
  Threads,     \* threads of the host
  Kinds,       \* kinds of handle, see above
  MaxTasks,    \* MAX_TASKS
  MaxHandles   \* bound on handles ever allocated

Handles == 1..MaxHandles
Free == "free"

ASSUME RegistryAssumption ==
  /\ Kinds \subseteq {"task", "device", "runtime"}
  /\ MaxTasks \in Nat \ {0} /\ MaxHandles \in Nat
  /\ Free \notin Threads

Idle == [op |-> "idle", h |-> 0, at |-> "host", warned |-> FALSE]

VARIABLES
  next,        \* Registry.next_handle
  kind,        \* the map a handle was inserted into
  registered,  \* handles the registry holds
  slot,        \* the thread that holds a job's mutex
  poisoned,    \* a call panicked while it held the mutex
  closed, cancel,
  worker,      \* the owned thread: none, or what it was spawned for
  finished,    \* JoinHandle::is_finished
  outcome,     \* none, data, preview, or the bytes of a terminal result
  call,        \* the call each thread is in; warned is history: the handle
               \* was already cancelled when the call was made
  runs         \* history: executions begun

job == <<slot, poisoned, closed, cancel, worker, finished, outcome>>
vars == <<next, kind, registered, job, call, runs>>

----------------------------------------------------------------------------
(* Starting a task or a preview.                                           *)

\* allocate_handle adds up every map but the one of the runtimes.
HasCapacity == Cardinality({h \in registered : kind[h] # "runtime"}) < MaxTasks

\* The handle is allocated, its worker spawned and the job inserted while the
\* registry is locked.
Insert(k) ==
  /\ HasCapacity /\ next <= MaxHandles
  /\ next' = next + 1
  /\ kind' = [kind EXCEPT ![next] = k]
  /\ registered' = registered \cup {next}
  /\ worker' = [worker EXCEPT ![next] = IF k = "task" THEN "read" ELSE "prepare"]

Start(t, k) ==
  /\ call[t] = Idle
  /\ Insert(k)
  /\ UNCHANGED <<slot, poisoned, closed, cancel, finished, outcome, call, runs>>

\* The worker cannot be spawned: the number is spent, nothing is inserted.
StartFails(t) ==
  /\ call[t] = Idle
  /\ HasCapacity /\ next <= MaxHandles
  /\ next' = next + 1
  /\ UNCHANGED <<kind, registered, job, call, runs>>

----------------------------------------------------------------------------
(* Calls on a handle.                                                      *)

Op(t) == call[t].op
H(t) == call[t].h
At(t, p) == call[t] # Idle /\ call[t].at = p
Goto(t, p) == call' = [call EXCEPT ![t].at = p]
Return(t) == call' = [call EXCEPT ![t] = Idle]
\* The guard is dropped and the call returns.
Leave(t) == slot' = [slot EXCEPT ![H(t)] = Free] /\ Return(t)

\* get: the slot is cloned out of the registry, which is unlocked again.
Invoke(t, op, h) ==
  /\ call[t] = Idle
  /\ h \in registered
  /\ op = "select" => kind[h] = "task"
  /\ op = "execute" => kind[h] # "task"
  /\ call' = [call EXCEPT ![t] =
       [op |-> op, h |-> h, warned |-> op = "execute" /\ cancel[h],
        at |-> IF kind[h] # "task" /\ op \in {"cancel", "release"} THEN "flag" ELSE "slot"]]
  /\ UNCHANGED <<next, kind, registered, job, runs>>

\* A session is cancelled without its mutex, by release as well.
Flag(t) ==
  /\ At(t, "flag")
  /\ cancel' = [cancel EXCEPT ![H(t)] = TRUE]
  /\ IF Op(t) = "cancel" THEN Return(t) ELSE Goto(t, "slot")
  /\ UNCHANGED <<next, kind, registered, slot, poisoned, closed, worker, finished,
                 outcome, runs>>

\* lock_job: BUSY if the mutex is held, INTERNAL_ERROR if it is poisoned; only
\* release goes on with a poisoned one.
TryLock(t) ==
  /\ At(t, "slot")
  /\ IF slot[H(t)] # Free \/ (poisoned[H(t)] /\ Op(t) # "release")
       THEN Return(t) /\ UNCHANGED slot
       ELSE Goto(t, "body") /\ slot' = [slot EXCEPT ![H(t)] = t]
  /\ UNCHANGED <<next, kind, registered, poisoned, closed, cancel, worker, finished,
                 outcome, runs>>

Body(t, op) == At(t, "body") /\ Op(t) = op

\* ensure_open, and collect's first test: a call that found the slot before
\* its release finds it closed.
FindsClosed(t) ==
  /\ At(t, "body")
  /\ closed[H(t)]
  /\ Leave(t)
  /\ UNCHANGED <<next, kind, registered, poisoned, closed, cancel, worker, finished,
                 outcome, runs>>

Results(w) == CASE w = "read" -> {"data", "bytes"}
                [] w = "prepare" -> {"preview", "bytes"}
                [] OTHER -> {"bytes"}

Finished(h) == worker[h] # "none" /\ finished[h]
Running(h) == worker[h] # "none" /\ ~finished[h]

\* collect, collect_finished: a call that needs the result first joins a worker
\* that has finished and keeps what it returned.
Collect(t) ==
  /\ At(t, "body") /\ Op(t) \in {"look", "select", "execute"}
  /\ ~closed[H(t)] /\ Finished(H(t))
  /\ \E r \in Results(worker[H(t)]) : outcome' = [outcome EXCEPT ![H(t)] = r]
  /\ worker' = [worker EXCEPT ![H(t)] = "none"]
  /\ finished' = [finished EXCEPT ![H(t)] = FALSE]
  /\ UNCHANGED <<next, kind, registered, slot, poisoned, closed, cancel, call, runs>>

\* poll and result; select and execute when they are refused.
Look(t) ==
  /\ At(t, "body") /\ Op(t) \in {"look", "select", "execute"}
  /\ ~closed[H(t)] /\ ~Finished(H(t))
  /\ Leave(t)
  /\ UNCHANGED <<next, kind, registered, poisoned, closed, cancel, worker, finished,
                 outcome, runs>>

CancelTask(t) ==
  /\ Body(t, "cancel")
  /\ ~closed[H(t)]
  /\ cancel' = [cancel EXCEPT ![H(t)] = TRUE]
  /\ Leave(t)
  /\ UNCHANGED <<next, kind, registered, poisoned, closed, worker, finished, outcome,
                 runs>>

\* Serializing a result panics; the boundary answers PANIC.
Panic(t) ==
  /\ At(t, "body") /\ Op(t) \in {"look", "select", "execute"}
  /\ ~closed[H(t)] /\ ~Finished(H(t))
  /\ poisoned' = [poisoned EXCEPT ![H(t)] = TRUE]
  /\ Leave(t)
  /\ UNCHANGED <<next, kind, registered, closed, cancel, worker, finished, outcome,
                 runs>>

\* A selection is started from a discovery that the call keeps locked.
Select(t) ==
  /\ Body(t, "select")
  /\ ~closed[H(t)] /\ outcome[H(t)] = "data"
  /\ Insert("task")
  /\ Leave(t)
  /\ UNCHANGED <<poisoned, closed, cancel, finished, outcome, runs>>

\* execute's checks: a preview, not cancelled, the exact approval.
Approve(t) ==
  /\ Body(t, "execute")
  /\ ~closed[H(t)] /\ worker[H(t)] = "none" /\ outcome[H(t)] = "preview"
  /\ ~cancel[H(t)]
  /\ Goto(t, "spawn")
  /\ UNCHANGED <<next, kind, registered, job, runs>>

\* Mutant: the preview is put back for another execution.
SpawnKeeping(t) ==
  /\ At(t, "spawn")
  /\ worker' = [worker EXCEPT ![H(t)] = "prepare"]
  /\ outcome' = [outcome EXCEPT ![H(t)] = "none"]
  /\ runs' = [runs EXCEPT ![H(t)] = @ + 1]
  /\ runs[H(t)] < 2
  /\ Leave(t)
  /\ UNCHANGED <<next, kind, registered, poisoned, closed, cancel, finished>>

\* The preview is taken and moved into the execution's thread.
Spawn(t) ==
  /\ At(t, "spawn")
  /\ worker' = [worker EXCEPT ![H(t)] = "execute"]
  /\ outcome' = [outcome EXCEPT ![H(t)] = "none"]
  /\ runs' = [runs EXCEPT ![H(t)] = @ + 1]
  /\ Leave(t)
  /\ UNCHANGED <<next, kind, registered, poisoned, closed, cancel, finished>>

SpawnFails(t) ==
  /\ At(t, "spawn")
  /\ outcome' = [outcome EXCEPT ![H(t)] = "bytes"]
  /\ Leave(t)
  /\ UNCHANGED <<next, kind, registered, poisoned, closed, cancel, worker, finished,
                 runs>>

----------------------------------------------------------------------------
(* Release.                                                                *)

\* Mutant: the slot is marked closed although the call answers BUSY.
ReleaseBusyClosing(t) ==
  /\ Body(t, "release")
  /\ ~closed[H(t)] /\ Running(H(t))
  /\ closed' = [closed EXCEPT ![H(t)] = TRUE]
  /\ cancel' = [cancel EXCEPT ![H(t)] = TRUE]
  /\ Leave(t)
  /\ UNCHANGED <<next, kind, registered, poisoned, worker, finished, outcome, runs>>

\* Work is still running: it is cancelled and the host is told to retry.
ReleaseBusy(t) ==
  /\ Body(t, "release")
  /\ ~closed[H(t)] /\ Running(H(t))
  /\ cancel' = [cancel EXCEPT ![H(t)] = TRUE]
  /\ Leave(t)
  /\ UNCHANGED <<next, kind, registered, poisoned, closed, worker, finished, outcome,
                 runs>>

\* Mutant: the worker is not looked at.
CloseDetaching(t) ==
  /\ Body(t, "release")
  /\ ~closed[H(t)]
  /\ closed' = [closed EXCEPT ![H(t)] = TRUE]
  /\ Goto(t, "remove")
  /\ UNCHANGED <<next, kind, registered, slot, poisoned, cancel, worker, finished,
                 outcome, runs>>

\* The worker has finished or was joined before: it is joined, its result is
\* dropped and the slot is closed, all under the job's mutex.
Close(t) ==
  /\ Body(t, "release")
  /\ ~closed[H(t)] /\ ~Running(H(t))
  /\ worker' = [worker EXCEPT ![H(t)] = "none"]
  /\ finished' = [finished EXCEPT ![H(t)] = FALSE]
  /\ outcome' = [outcome EXCEPT ![H(t)] = "none"]
  /\ closed' = [closed EXCEPT ![H(t)] = TRUE]
  /\ Goto(t, "remove")
  /\ UNCHANGED <<next, kind, registered, slot, poisoned, cancel, runs>>

\* The registry is locked while the job still is.
Remove(t) ==
  /\ At(t, "remove")
  /\ registered' = registered \ {H(t)}
  /\ Leave(t)
  /\ UNCHANGED <<next, kind, poisoned, closed, cancel, worker, finished, outcome,
                 runs>>

----------------------------------------------------------------------------

\* The owned thread returns: a read-only one when it is done or sees the
\* flag, an execution after the batch that is running.
WorkerFinish(h) ==
  /\ worker[h] # "none" /\ ~finished[h]
  /\ finished' = [finished EXCEPT ![h] = TRUE]
  /\ UNCHANGED <<next, kind, registered, slot, poisoned, closed, cancel, worker,
                 outcome, call, runs>>

Init ==
  /\ next = 1 /\ registered = {}
  /\ kind = [h \in Handles |-> "task"]
  /\ slot = [h \in Handles |-> Free]
  /\ poisoned = [h \in Handles |-> FALSE]
  /\ closed = [h \in Handles |-> FALSE]
  /\ cancel = [h \in Handles |-> FALSE]
  /\ worker = [h \in Handles |-> "none"]
  /\ finished = [h \in Handles |-> FALSE]
  /\ outcome = [h \in Handles |-> "none"]
  /\ call = [t \in Threads |-> Idle]
  /\ runs = [h \in Handles |-> 0]

\* The steps of a call that has been made; none of them waits.
Proceed(t) ==
  \/ Flag(t) \/ TryLock(t) \/ FindsClosed(t) \/ Collect(t) \/ Look(t) \/ CancelTask(t)
  \/ Panic(t) \/ Select(t) \/ Approve(t) \/ Spawn(t) \/ SpawnFails(t)
  \/ ReleaseBusy(t) \/ Close(t) \/ Remove(t)

Ops == {"look", "cancel", "select", "execute", "release"}

Next ==
  \/ \E t \in Threads :
       \/ \E k \in Kinds : Start(t, k)
       \/ StartFails(t)
       \/ \E op \in Ops, h \in Handles : Invoke(t, op, h)
       \/ Proceed(t)
  \/ \E h \in Handles : WorkerFinish(h)

Spec == Init /\ [][Next]_vars

\* A call never waits, and cancelled work ends.
FairSpec ==
  /\ Spec
  /\ \A t \in Threads : WF_vars(Proceed(t))
  /\ \A h \in Handles : WF_vars(cancel[h] /\ WorkerFinish(h))

----------------------------------------------------------------------------
(* Properties.                                                             *)

\* Code: "Never unload the library with live handles": a handle is forgotten
\* only after its worker was joined, so no thread of the library runs that no
\* handle can cancel or join, also when calls race with the release.
NoWorkIsLost == \A h \in Handles : h \notin registered => worker[h] = "none"

\* Code: "the handle retains the sealed preview until a single execution":
\* however many threads approve one preview, it is executed at most once.  And
\* "Monotonic. Before execution it makes the preview unusable": an execute that
\* is called after a cancellation or a release attempt never gets as far as its
\* thread, although the flag is set without the job's mutex.
OneExecution ==
  /\ \A h \in Handles : runs[h] <= 1
  /\ \A t \in Threads : At(t, "spawn") => ~call[t].warned

\* Header: BUSY means "retain handle and retry later".  A host that makes no
\* other call on the handle does not retry its release for ever, also after a
\* panic: it is answered.
ReleaseSucceeds ==
  \A h \in Handles :
    <>[](\A t \in Threads : H(t) = h => Op(t) = "release")
      => <>[](\A t \in Threads : H(t) # h)

\* Docs: "All handle kinds share the same four-slot cap".
KindsShareTheCap == Cardinality(registered) <= MaxTasks

=============================================================================
