--------------------------- MODULE RegistryProofs ---------------------------
(***************************************************************************)
(* The registry keeps its promises for any number of host threads, any cap *)
(* and any number of handles.                                              *)
(*                                                                         *)
(* What NoWorkIsLost and OneExecution say of the jobs is not inductive:    *)
(* a call works on a job it looked up earlier, perhaps before the release  *)
(* that removed it.  The invariant says who holds a job's mutex, that a    *)
(* job a call can still reach is registered or was closed, that a closed   *)
(* one has nothing left, and where a preview that was executed can be.     *)
(***************************************************************************)
EXTENDS HandleRegistry, FiniteSetTheorems, TLAPS

Places == {"flag", "slot", "body", "spawn", "remove"}
Call == [op : Ops, h : Handles, at : Places, warned : BOOLEAN]

TypeOK ==
  /\ next \in 1..(MaxHandles + 1)
  /\ kind \in [Handles -> {"task", "device", "runtime"}]
  /\ registered \subseteq Handles
  /\ slot \in [Handles -> Threads \cup {Free}]
  /\ poisoned \in [Handles -> BOOLEAN] /\ closed \in [Handles -> BOOLEAN]
  /\ cancel \in [Handles -> BOOLEAN] /\ finished \in [Handles -> BOOLEAN]
  /\ worker \in [Handles -> {"none", "read", "prepare", "execute"}]
  /\ outcome \in [Handles -> {"none", "data", "preview", "bytes"}]
  /\ call \in [Threads -> Call \cup {Idle}]
  /\ runs \in [Handles -> Nat]

\* Nothing is known of a handle that was not allocated.
FreshIsClean == \A h \in Handles : h >= next => h \notin registered /\ runs[h] = 0 /\ ~closed[h]

\* A call beyond its try_lock holds the mutex of its job.
GuardsAreHeld ==
  \A t \in Threads : \A p \in {"body", "spawn", "remove"} : At(t, p) => slot[H(t)] = t

\* A job that a call reaches is registered, or its release has closed it.
CallsReachJobs ==
  \A t \in Threads : call[t] # Idle => H(t) \in registered \/ closed[H(t)]

\* A closed job has nothing left, and only a closed job is removed.
ClosedIsEmpty ==
  /\ \A h \in Handles : closed[h] => worker[h] = "none" /\ outcome[h] = "none"
  /\ \A t \in Threads : At(t, "remove") => closed[H(t)]

\* A job that prepares or holds a preview has executed nothing, and the call
\* about to spawn holds the preview.
PreviewsAreUnspent ==
  /\ \A h \in Handles : /\ runs[h] <= 1
                        /\ worker[h] \in {"read", "prepare"} => runs[h] = 0
                        /\ outcome[h] = "preview" => runs[h] = 0
  /\ \A t \in Threads : At(t, "spawn") => outcome[H(t)] = "preview" /\ ~call[t].warned

\* A cancellation that a call was made after has not gone away.
WarningsHold == \A t \in Threads : call[t] # Idle /\ call[t].warned => cancel[H(t)]

IInv ==
  /\ TypeOK
  /\ FreshIsClean
  /\ GuardsAreHeld
  /\ CallsReachJobs
  /\ ClosedIsEmpty
  /\ PreviewsAreUnspent
  /\ WarningsHold
  /\ NoWorkIsLost

\* The sessions allocate_handle counts.
Counted == {h \in registered : kind[h] # "runtime"}
CountedWithinCap == Cardinality(Counted) <= MaxTasks

----------------------------------------------------------------------------
(* What a step does to the calls.                                          *)

LEMMA CallFacts ==
  ASSUME TypeOK, NEW t \in Threads, call[t] # Idle
  PROVE  /\ call[t] \in Call /\ H(t) \in Handles /\ H(t) # 0
         /\ slot[H(t)] \in Threads \cup {Free}
  BY RegistryAssumption DEF TypeOK, Call, H, Handles

LEMMA ReturnCalls ==
  ASSUME TypeOK, NEW t \in Threads, Return(t)
  PROVE  /\ call' \in [Threads -> Call \cup {Idle}]
         /\ call'[t] = Idle
         /\ \A u \in Threads \ {t} : call'[u] = call[u]
  BY DEF TypeOK, Return

LEMMA GotoCalls ==
  ASSUME TypeOK, NEW t \in Threads, call[t] # Idle, NEW p \in Places, Goto(t, p)
  PROVE  /\ call' \in [Threads -> Call \cup {Idle}]
         /\ call'[t] # Idle /\ call'[t].at = p
         /\ call'[t].h = call[t].h /\ call'[t].op = call[t].op /\ call'[t].warned = call[t].warned
         /\ \A u \in Threads \ {t} : call'[u] = call[u]
<1>1. call[t] \in Call
  BY CallFacts
<1>2. call'[t] = [call[t] EXCEPT !.at = p]
  BY DEF TypeOK, Goto
<1>3. call'[t] \in Call /\ call'[t].h # 0
  BY <1>1, <1>2, RegistryAssumption DEF Call, Handles
<1>4. call' \in [Threads -> Call \cup {Idle}]
  BY <1>3 DEF TypeOK, Goto
<1>5. call'[t] # Idle
  BY <1>3 DEF Idle
<1> QED
  BY <1>1, <1>2, <1>4, <1>5 DEF TypeOK, Goto, Call

\* Two calls beyond their try_lock are on different jobs.
LEMMA OneHolder ==
  ASSUME TypeOK, GuardsAreHeld, NEW t \in Threads, NEW u \in Threads,
         NEW p \in {"body", "spawn", "remove"}, NEW q \in {"body", "spawn", "remove"},
         At(t, p), At(u, q), t # u
  PROVE  H(t) # H(u)
  BY DEF GuardsAreHeld

\* A thread of the host waits for no mutex: the one that leaves frees its own.
LEMMA LeaveFrees ==
  ASSUME TypeOK, GuardsAreHeld, NEW t \in Threads, NEW p \in {"body", "spawn", "remove"},
         At(t, p), Leave(t)
  PROVE  /\ slot' \in [Handles -> Threads \cup {Free}]
         /\ GuardsAreHeld'
<1>1. /\ call' \in [Threads -> Call \cup {Idle}] /\ call'[t] = Idle
      /\ \A u \in Threads \ {t} : call'[u] = call[u]
  BY ReturnCalls DEF Leave
<1>2. H(t) \in Handles
  BY CallFacts DEF At
<1>3. slot' \in [Handles -> Threads \cup {Free}]
  BY DEF TypeOK, Leave
<1>4. ASSUME NEW u \in Threads, NEW q \in {"body", "spawn", "remove"}, At(u, q)'
      PROVE  slot'[H(u)'] = u
  <2>1. u # t /\ call'[u] = call[u] /\ At(u, q) /\ H(u)' = H(u)
    BY <1>1, <1>4 DEF At, H
  <2>2. H(u) \in Handles /\ H(u) # H(t)
    BY <2>1, CallFacts, OneHolder DEF At
  <2> QED
    BY <2>1, <2>2 DEF GuardsAreHeld, TypeOK, Leave
<1> QED
  BY <1>3, <1>4 DEF GuardsAreHeld

----------------------------------------------------------------------------
(* Every step keeps the invariant.                                         *)

\* A step that leaves the jobs alone, but for a cancellation.
LEMMA QuietStep ==
  ASSUME IInv, TypeOK', GuardsAreHeld', NoWorkIsLost',
         next' = next, registered' = registered, closed' = closed, worker' = worker,
         outcome' = outcome, runs' = runs,
         \A h \in Handles : cancel[h] => cancel'[h],
         \A u \in Threads :
           \/ call'[u] \in {call[u], Idle}
           \/ /\ call[u] # Idle /\ call'[u].at \notin {"spawn", "remove"}
              /\ call'[u].h = call[u].h /\ call'[u].warned = call[u].warned
  PROVE  IInv'
<1>1. FreshIsClean'
  BY DEF IInv, FreshIsClean
<1>2. \A u \in Threads : call'[u] # Idle =>
         /\ call[u] # Idle /\ H(u) \in Handles
         /\ H(u)' = H(u) /\ call'[u].warned = call[u].warned
         /\ call'[u] = call[u] \/ call'[u].at \notin {"spawn", "remove"}
  BY CallFacts DEF IInv, H
<1>3. CallsReachJobs'
  BY <1>2 DEF IInv, CallsReachJobs
<1>4. ClosedIsEmpty'
  BY <1>2 DEF IInv, ClosedIsEmpty, At
<1>5. PreviewsAreUnspent'
  BY <1>2 DEF IInv, PreviewsAreUnspent, At
<1>6. WarningsHold'
  BY <1>2 DEF IInv, WarningsHold
<1> QED
  BY <1>1, <1>3, <1>4, <1>5, <1>6 DEF IInv

\* poll, result and the refusals: the guard is dropped and the call returns.
LEMMA QuietLeave ==
  ASSUME IInv, NEW t \in Threads,
         FindsClosed(t) \/ Look(t) \/ CancelTask(t) \/ Panic(t) \/ ReleaseBusy(t)
  PROVE  IInv'
<1>1. /\ At(t, "body") /\ Leave(t)
      /\ UNCHANGED <<next, kind, registered, closed, worker, finished, outcome, runs>>
      /\ cancel' = cancel \/ cancel' = [cancel EXCEPT ![H(t)] = TRUE]
      /\ poisoned' = poisoned \/ poisoned' = [poisoned EXCEPT ![H(t)] = TRUE]
  BY DEF FindsClosed, Look, CancelTask, Panic, ReleaseBusy, Body
<1>2. slot' \in [Handles -> Threads \cup {Free}] /\ GuardsAreHeld'
  BY <1>1, LeaveFrees DEF IInv
<1>3. /\ call' \in [Threads -> Call \cup {Idle}] /\ call'[t] = Idle
      /\ \A u \in Threads \ {t} : call'[u] = call[u]
  BY <1>1, ReturnCalls DEF Leave, IInv
<1>4. cancel' \in [Handles -> BOOLEAN] /\ poisoned' \in [Handles -> BOOLEAN]
  BY <1>1 DEF IInv, TypeOK
<1>5. TypeOK'
  BY <1>1, <1>2, <1>3, <1>4 DEF IInv, TypeOK
<1>6. \A h \in Handles : cancel[h] => cancel'[h]
  BY <1>1 DEF IInv, TypeOK
<1>7. NoWorkIsLost'
  BY <1>1 DEF IInv, NoWorkIsLost
<1> QED
  BY <1>1, <1>2, <1>3, <1>5, <1>6, <1>7, QuietStep

LEMMA FlagInv == ASSUME IInv, NEW t \in Threads, Flag(t) PROVE IInv'
<1>1. call[t] # Idle /\ call[t].at = "flag" /\ H(t) \in Handles
  BY CallFacts DEF Flag, At, IInv
<1>2. /\ call' \in [Threads -> Call \cup {Idle}]
      /\ call'[t] = Idle \/ /\ call'[t].at = "slot"
                            /\ call'[t].h = call[t].h /\ call'[t].warned = call[t].warned
      /\ \A u \in Threads \ {t} : call'[u] = call[u]
  <2>1. Return(t) \/ Goto(t, "slot")
    BY DEF Flag
  <2> QED
    BY <1>1, <2>1, ReturnCalls, GotoCalls DEF IInv, Places
<1>3. UNCHANGED <<next, kind, registered, slot, poisoned, closed, worker, finished, outcome, runs>>
  BY DEF Flag
<1>4. cancel' \in [Handles -> BOOLEAN] /\ \A h \in Handles : cancel[h] => cancel'[h]
  BY <1>1 DEF Flag, IInv, TypeOK
<1>5. TypeOK' /\ NoWorkIsLost'
  BY <1>2, <1>3, <1>4 DEF IInv, TypeOK, NoWorkIsLost
<1>6. GuardsAreHeld'
  BY <1>2, <1>3 DEF IInv, GuardsAreHeld, At, H
<1> QED
  BY <1>1, <1>2, <1>3, <1>4, <1>5, <1>6, QuietStep

LEMMA TryLockInv == ASSUME IInv, NEW t \in Threads, TryLock(t) PROVE IInv'
<1>1. call[t] # Idle /\ call[t].at = "slot" /\ H(t) \in Handles
  BY CallFacts DEF TryLock, At, IInv
<1>2. UNCHANGED <<next, kind, registered, poisoned, closed, cancel, worker, finished, outcome, runs>>
  BY DEF TryLock
<1>3. CASE Return(t) /\ UNCHANGED slot
  <2>1. /\ call' \in [Threads -> Call \cup {Idle}] /\ call'[t] = Idle
        /\ \A u \in Threads \ {t} : call'[u] = call[u]
    BY <1>3, ReturnCalls DEF IInv
  <2>2. TypeOK' /\ NoWorkIsLost' /\ GuardsAreHeld'
    BY <1>2, <1>3, <2>1 DEF IInv, TypeOK, NoWorkIsLost, GuardsAreHeld, At, H
  <2> QED
    BY <1>2, <2>1, <2>2, QuietStep
<1>4. CASE slot[H(t)] = Free /\ Goto(t, "body") /\ slot' = [slot EXCEPT ![H(t)] = t]
  <2>1. /\ call' \in [Threads -> Call \cup {Idle}]
        /\ call'[t].at = "body" /\ call'[t].h = call[t].h /\ call'[t].warned = call[t].warned
        /\ \A u \in Threads \ {t} : call'[u] = call[u]
    BY <1>1, <1>4, GotoCalls DEF IInv, Places
  <2>2. TypeOK' /\ NoWorkIsLost'
    BY <1>2, <1>4, <2>1 DEF IInv, TypeOK, NoWorkIsLost
  <2>3. ASSUME NEW u \in Threads, NEW p \in {"body", "spawn", "remove"}, At(u, p)'
        PROVE  slot'[H(u)'] = u
    <3>1. CASE u = t
      BY <1>1, <1>4, <2>1, <3>1 DEF IInv, TypeOK, H
    <3>2. CASE u # t
      <4>1. At(u, p) /\ H(u)' = H(u) /\ H(u) \in Handles /\ slot[H(u)] = u
        BY <2>1, <2>3, <3>2, CallFacts DEF At, H, IInv, GuardsAreHeld
      <4>2. H(u) # H(t)
        BY <1>4, <4>1, RegistryAssumption
      <4> QED
        BY <1>4, <4>1, <4>2 DEF IInv, TypeOK
    <3> QED
      BY <3>1, <3>2
  <2>4. GuardsAreHeld'
    BY <2>3 DEF GuardsAreHeld
  <2> QED
    BY <1>1, <1>2, <2>1, <2>2, <2>4, QuietStep
<1> QED
  BY <1>3, <1>4 DEF TryLock

\* allocate_handle spends a number that no call knows yet.
LEMMA InsertInv ==
  ASSUME IInv, NEW k \in {"task", "device", "runtime"}, Insert(k),
         slot' \in [Handles -> Threads \cup {Free}], GuardsAreHeld',
         call' \in [Threads -> Call \cup {Idle}],
         \A u \in Threads : call'[u] \in {call[u], Idle},
         UNCHANGED <<poisoned, closed, cancel, finished, outcome, runs>>
  PROVE  IInv'
<1>1. /\ next \in Handles /\ next' = next + 1 /\ next \notin registered /\ runs[next] = 0
      /\ registered' = registered \cup {next} /\ ~closed[next]
  BY RegistryAssumption DEF Insert, IInv, TypeOK, FreshIsClean, Handles
<1>2. /\ worker' \in [Handles -> {"none", "read", "prepare", "execute"}]
      /\ worker'[next] \in {"read", "prepare"}
      /\ \A h \in Handles \ {next} : worker'[h] = worker[h]
  BY <1>1 DEF Insert, IInv, TypeOK
<1>3. TypeOK'
  BY <1>1, <1>2, RegistryAssumption DEF Insert, IInv, TypeOK, Handles
<1>4. FreshIsClean'
  BY <1>1 DEF IInv, FreshIsClean, TypeOK, Handles
<1>5. \A u \in Threads : call'[u] # Idle => call'[u] = call[u] /\ H(u) \in Handles /\ H(u)' = H(u)
  BY CallFacts DEF IInv, H
<1>6. CallsReachJobs'
  BY <1>1, <1>5 DEF IInv, CallsReachJobs
<1>7. ClosedIsEmpty'
  BY <1>1, <1>2, <1>5 DEF IInv, ClosedIsEmpty, At
<1>8. PreviewsAreUnspent'
  BY <1>1, <1>2, <1>5 DEF IInv, PreviewsAreUnspent, At
<1>9. WarningsHold'
  BY <1>5 DEF IInv, WarningsHold
<1>10. NoWorkIsLost'
  BY <1>1, <1>2 DEF IInv, NoWorkIsLost
<1> QED
  BY <1>3, <1>4, <1>6, <1>7, <1>8, <1>9, <1>10 DEF IInv

LEMMA StartInv ==
  ASSUME IInv, NEW t \in Threads, \/ \E k \in Kinds : Start(t, k)
                                  \/ StartFails(t)
                                  \/ Select(t)
  PROVE  IInv'
<1>1. CASE \E k \in Kinds : Start(t, k)
  <2>1. PICK k \in Kinds : Start(t, k)
    BY <1>1
  <2>2. call' = call /\ slot' = slot /\ Insert(k) /\ k \in {"task", "device", "runtime"}
        /\ UNCHANGED <<poisoned, closed, cancel, finished, outcome, runs>>
    BY <2>1, RegistryAssumption DEF Start
  <2>3. GuardsAreHeld'
    BY <2>2 DEF IInv, GuardsAreHeld, At, H
  <2> QED
    BY <2>2, <2>3, InsertInv DEF IInv, TypeOK
<1>2. CASE Select(t)
  <2>1. /\ At(t, "body") /\ Leave(t) /\ Insert("task")
        /\ UNCHANGED <<poisoned, closed, cancel, finished, outcome, runs>>
    BY <1>2 DEF Select, Body
  <2>2. /\ call' \in [Threads -> Call \cup {Idle}]
        /\ \A u \in Threads : call'[u] \in {call[u], Idle}
    BY <2>1, ReturnCalls DEF Leave, IInv
  <2>3. slot' \in [Handles -> Threads \cup {Free}] /\ GuardsAreHeld'
    BY <2>1, LeaveFrees DEF IInv
  <2> QED
    BY <2>1, <2>2, <2>3, InsertInv
<1>3. CASE StartFails(t)
  <2>1. /\ next' = next + 1 /\ next <= MaxHandles
        /\ UNCHANGED <<kind, registered, slot, poisoned, closed, cancel, worker, finished, outcome>>
        /\ call' = call /\ runs' = runs
    BY <1>3 DEF StartFails, job
  <2>2. TypeOK'
    BY <2>1, RegistryAssumption DEF IInv, TypeOK
  <2>3. FreshIsClean'
    BY <2>1 DEF IInv, FreshIsClean, TypeOK, Handles
  <2>4. GuardsAreHeld' /\ CallsReachJobs' /\ ClosedIsEmpty'
    BY <2>1 DEF IInv, GuardsAreHeld, CallsReachJobs, ClosedIsEmpty, At, H
  <2>5. PreviewsAreUnspent' /\ WarningsHold' /\ NoWorkIsLost'
    BY <2>1 DEF IInv, PreviewsAreUnspent, WarningsHold, NoWorkIsLost, At, H
  <2> QED
    BY <2>2, <2>3, <2>4, <2>5 DEF IInv
<1> QED
  BY <1>1, <1>2, <1>3

LEMMA InvokeInv ==
  ASSUME IInv, NEW t \in Threads, NEW o \in Ops, NEW h \in Handles, Invoke(t, o, h)
  PROVE  IInv'
<1>1. /\ h \in registered
      /\ UNCHANGED <<next, kind, registered, slot, poisoned, closed, cancel, worker, finished, outcome, runs>>
  BY DEF Invoke, job
<1>2. /\ call'[t] \in Call /\ call'[t].h = h /\ call'[t].at \in {"flag", "slot"}
      /\ call'[t].warned => cancel[h]
      /\ \A u \in Threads \ {t} : call'[u] = call[u]
  <2>1. (o = "execute" /\ cancel[h]) \in BOOLEAN
    OBVIOUS
  <2> QED
    BY <2>1 DEF Invoke, IInv, TypeOK, Call, Places
<1>3. call' \in [Threads -> Call \cup {Idle}]
  BY <1>2 DEF Invoke, IInv, TypeOK
<1>4. TypeOK'
  BY <1>1, <1>3 DEF IInv, TypeOK
<1>5. FreshIsClean' /\ NoWorkIsLost'
  BY <1>1 DEF IInv, FreshIsClean, NoWorkIsLost
<1>6. GuardsAreHeld'
  BY <1>1, <1>2 DEF IInv, GuardsAreHeld, At, H
<1>7. CallsReachJobs' /\ ClosedIsEmpty'
  BY <1>1, <1>2 DEF IInv, CallsReachJobs, ClosedIsEmpty, At, H
<1>8. PreviewsAreUnspent'
  BY <1>1, <1>2 DEF IInv, PreviewsAreUnspent, At, H
<1>9. WarningsHold'
  BY <1>1, <1>2 DEF IInv, WarningsHold, H
<1> QED
  BY <1>4, <1>5, <1>6, <1>7, <1>8, <1>9 DEF IInv

LEMMA WorkerFinishInv == ASSUME IInv, NEW h \in Handles, WorkerFinish(h) PROVE IInv'
<1>1. /\ UNCHANGED <<next, kind, registered, slot, poisoned, closed, cancel, worker, outcome, runs>>
      /\ call' = call /\ finished' \in [Handles -> BOOLEAN]
  BY DEF WorkerFinish, IInv, TypeOK
<1>2. TypeOK' /\ NoWorkIsLost' /\ GuardsAreHeld'
  BY <1>1 DEF IInv, TypeOK, NoWorkIsLost, GuardsAreHeld, At, H
<1> QED
  BY <1>1, <1>2, QuietStep

\* A call that holds the mutex of its job changes that job and no other.
LEMMA HolderStep ==
  ASSUME IInv, NEW t \in Threads, NEW p \in {"body", "spawn", "remove"}, At(t, p),
         NEW h, h = H(t), TypeOK', GuardsAreHeld', next' = next, cancel' = cancel,
         \A x \in Handles \ {h} : /\ worker'[x] = worker[x] /\ outcome'[x] = outcome[x]
                                  /\ closed'[x] = closed[x] /\ runs'[x] = runs[x],
         \A u \in Threads \ {t} : call'[u] = call[u],
         call'[t] = Idle \/ /\ call'[t].h = h /\ call'[t].warned = call[t].warned
                            /\ call'[t].at = "spawn" => outcome'[h] = "preview" /\ ~call[t].warned
                            /\ call'[t].at = "remove" => closed'[h],
         closed[h] => closed'[h],
         closed'[h] => worker'[h] = "none" /\ outcome'[h] = "none",
         runs'[h] <= 1,
         worker'[h] \in {"read", "prepare"} \/ outcome'[h] = "preview" => runs'[h] = 0,
         \/ registered' = registered /\ (h \in registered \/ worker'[h] = "none")
         \/ registered' = registered \ {h} /\ closed'[h],
         h \in registered \/ (runs'[h] = runs[h] /\ closed'[h] = closed[h])
  PROVE  IInv'
<1>1. h \in Handles /\ call[t] # Idle
  BY CallFacts DEF IInv, At
<1>2. FreshIsClean'
  BY <1>1 DEF IInv, FreshIsClean
<1>3. ASSUME NEW u \in Threads, call'[u] # Idle
      PROVE  /\ call[u] # Idle /\ H(u) \in Handles /\ H(u)' = H(u)
             /\ call'[u].warned = call[u].warned
             /\ u # t => call'[u] = call[u]
             /\ u # t /\ At(u, "remove") => H(u) # h
             /\ u # t /\ At(u, "spawn") => H(u) # h
  BY <1>1, <1>3, CallFacts, OneHolder DEF IInv, H
<1>4. CallsReachJobs'
  <2> SUFFICES ASSUME NEW u \in Threads, call'[u] # Idle
               PROVE  H(u)' \in registered' \/ closed'[H(u)']
    BY DEF CallsReachJobs
  <2>1. H(u) \in registered \/ closed[H(u)]
    BY <1>3 DEF IInv, CallsReachJobs
  <2>2. CASE H(u) = h
    BY <1>3, <2>1, <2>2
  <2>3. CASE H(u) # h
    BY <1>3, <2>1, <2>3
  <2> QED
    BY <2>2, <2>3
<1>5. ClosedIsEmpty'
  <2>1. \A x \in Handles : closed'[x] => worker'[x] = "none" /\ outcome'[x] = "none"
    BY <1>1 DEF IInv, ClosedIsEmpty
  <2>2. ASSUME NEW u \in Threads, At(u, "remove")'
        PROVE  closed'[H(u)']
    <3>1. call'[u] # Idle /\ call'[u].at = "remove"
      BY <2>2 DEF At
    <3>2. CASE u = t
      BY <1>3, <3>1, <3>2
    <3>3. CASE u # t
      <4>1. At(u, "remove") /\ H(u) # h /\ H(u)' = H(u) /\ H(u) \in Handles
        BY <1>3, <3>1, <3>3 DEF At
      <4> QED
        BY <4>1 DEF IInv, ClosedIsEmpty
    <3> QED
      BY <3>2, <3>3
  <2> QED
    BY <2>1, <2>2 DEF ClosedIsEmpty
<1>6. PreviewsAreUnspent'
  <2>1. \A x \in Handles : /\ runs'[x] <= 1
                           /\ worker'[x] \in {"read", "prepare"} => runs'[x] = 0
                           /\ outcome'[x] = "preview" => runs'[x] = 0
    BY <1>1 DEF IInv, PreviewsAreUnspent
  <2>2. ASSUME NEW u \in Threads, At(u, "spawn")'
        PROVE  outcome'[H(u)'] = "preview" /\ ~call'[u].warned
    <3>1. call'[u] # Idle /\ call'[u].at = "spawn"
      BY <2>2 DEF At
    <3>2. CASE u = t
      BY <1>3, <3>1, <3>2
    <3>3. CASE u # t
      <4>1. At(u, "spawn") /\ H(u) # h /\ H(u)' = H(u) /\ H(u) \in Handles /\ call'[u] = call[u]
        BY <1>3, <3>1, <3>3 DEF At
      <4> QED
        BY <4>1 DEF IInv, PreviewsAreUnspent
    <3> QED
      BY <3>2, <3>3
  <2> QED
    BY <2>1, <2>2 DEF PreviewsAreUnspent
<1>7. WarningsHold'
  BY <1>3 DEF IInv, WarningsHold
<1>8. NoWorkIsLost'
  BY <1>1 DEF IInv, NoWorkIsLost
<1> QED
  BY <1>2, <1>4, <1>5, <1>6, <1>7, <1>8 DEF IInv

LEMMA CollectInv == ASSUME IInv, NEW t \in Threads, Collect(t) PROVE IInv'
<1> DEFINE h == H(t)
<1>1. /\ At(t, "body") /\ h \in Handles /\ ~closed[h] /\ worker[h] # "none" /\ h \in registered
      /\ UNCHANGED <<next, kind, registered, slot, poisoned, closed, cancel, runs>>
      /\ call' = call /\ call[t] # Idle /\ call[t].at = "body"
  BY CallFacts DEF Collect, Finished, IInv, At, CallsReachJobs
<1>2. /\ worker' = [worker EXCEPT ![h] = "none"] /\ finished' = [finished EXCEPT ![h] = FALSE]
      /\ \E r \in Results(worker[h]) : outcome' = [outcome EXCEPT ![h] = r]
  BY DEF Collect
<1>3. PICK r \in Results(worker[h]) : outcome' = [outcome EXCEPT ![h] = r]
  BY <1>2
<1>4. r \in {"data", "preview", "bytes"} /\ (r = "preview" => worker[h] = "prepare")
  BY <1>1, <1>3 DEF Results, IInv, TypeOK
<1>5. TypeOK' /\ GuardsAreHeld'
  BY <1>1, <1>2, <1>3, <1>4 DEF IInv, TypeOK, GuardsAreHeld, At, H
<1>6. /\ worker'[h] = "none" /\ (outcome'[h] = "preview" => runs[h] = 0) /\ runs[h] <= 1
      /\ \A x \in Handles \ {h} : worker'[x] = worker[x] /\ outcome'[x] = outcome[x]
  BY <1>1, <1>2, <1>3, <1>4 DEF IInv, TypeOK, PreviewsAreUnspent
<1> QED
  BY <1>1, <1>5, <1>6, HolderStep DEF H

\* What a call that leaves after its work has done to its job.
LEMMA HolderLeaves ==
  ASSUME IInv, NEW t \in Threads, NEW p \in {"body", "spawn", "remove"}, At(t, p), Leave(t)
  PROVE  /\ H(t) \in Handles /\ slot' \in [Handles -> Threads \cup {Free}] /\ GuardsAreHeld'
         /\ call' \in [Threads -> Call \cup {Idle}] /\ call'[t] = Idle
         /\ \A u \in Threads \ {t} : call'[u] = call[u]
<1>1. call[t] # Idle
  BY DEF At
<1> QED
  BY <1>1, CallFacts, LeaveFrees, ReturnCalls DEF Leave, IInv

LEMMA SpawnInv ==
  ASSUME IInv, NEW t \in Threads, Spawn(t) \/ SpawnFails(t)
  PROVE  IInv'
<1> DEFINE h == H(t)
<1>1. At(t, "spawn") /\ Leave(t) /\ UNCHANGED <<next, kind, registered, poisoned, closed, cancel, finished>>
  BY DEF Spawn, SpawnFails
<1>2. /\ h \in Handles /\ slot' \in [Handles -> Threads \cup {Free}] /\ GuardsAreHeld'
      /\ call' \in [Threads -> Call \cup {Idle}] /\ call'[t] = Idle
      /\ \A u \in Threads \ {t} : call'[u] = call[u]
  BY <1>1, HolderLeaves
<1>3. outcome[h] = "preview" /\ runs[h] = 0 /\ ~closed[h]
  BY <1>1, <1>2 DEF IInv, PreviewsAreUnspent, ClosedIsEmpty
<1>4. h \in registered
  BY <1>1, <1>3 DEF IInv, CallsReachJobs, At
<1>5. CASE Spawn(t)
  <2>1. /\ worker' = [worker EXCEPT ![h] = "execute"] /\ outcome' = [outcome EXCEPT ![h] = "none"]
        /\ runs' = [runs EXCEPT ![h] = @ + 1]
    BY <1>5 DEF Spawn
  <2>2. TypeOK'
    BY <1>1, <1>2, <2>1 DEF IInv, TypeOK
  <2>3. /\ worker'[h] = "execute" /\ outcome'[h] = "none" /\ runs'[h] = 1
        /\ \A x \in Handles \ {h} : worker'[x] = worker[x] /\ outcome'[x] = outcome[x] /\ runs'[x] = runs[x]
    BY <1>2, <1>3, <2>1 DEF IInv, TypeOK
  <2> QED
    BY <1>1, <1>2, <1>3, <1>4, <2>2, <2>3, HolderStep
<1>6. CASE SpawnFails(t)
  <2>1. outcome' = [outcome EXCEPT ![h] = "bytes"] /\ UNCHANGED <<worker, runs>>
    BY <1>6 DEF SpawnFails
  <2>2. TypeOK'
    BY <1>1, <1>2, <2>1 DEF IInv, TypeOK
  <2>3. /\ outcome'[h] = "bytes"
        /\ \A x \in Handles \ {h} : outcome'[x] = outcome[x]
    BY <1>2, <2>1 DEF IInv, TypeOK
  <2> QED
    BY <1>1, <1>2, <1>3, <1>4, <2>1, <2>2, <2>3, HolderStep
<1> QED
  BY <1>5, <1>6

LEMMA ApproveInv == ASSUME IInv, NEW t \in Threads, Approve(t) PROVE IInv'
<1> DEFINE h == H(t)
<1>1. /\ At(t, "body") /\ h \in Handles /\ ~closed[h] /\ outcome[h] = "preview" /\ ~cancel[h]
      /\ UNCHANGED <<next, kind, registered, slot, poisoned, closed, cancel, worker, finished, outcome, runs>>
      /\ Goto(t, "spawn") /\ call[t] # Idle
  BY CallFacts DEF Approve, Body, At, IInv, job
<1>2. /\ call' \in [Threads -> Call \cup {Idle}]
      /\ call'[t] # Idle /\ call'[t].at = "spawn" /\ call'[t].h = call[t].h
      /\ call'[t].warned = call[t].warned
      /\ \A u \in Threads \ {t} : call'[u] = call[u]
  BY <1>1, GotoCalls DEF IInv, Places
<1>3. h \in registered /\ ~call[t].warned
  BY <1>1 DEF IInv, CallsReachJobs, WarningsHold
<1>4. TypeOK'
  BY <1>1, <1>2 DEF IInv, TypeOK
<1>5. GuardsAreHeld'
  BY <1>1, <1>2 DEF IInv, GuardsAreHeld, At, H
<1>6. runs[h] = 0
  BY <1>1 DEF IInv, PreviewsAreUnspent
<1> QED
  BY <1>1, <1>2, <1>3, <1>4, <1>5, <1>6, HolderStep DEF H

LEMMA CloseInv == ASSUME IInv, NEW t \in Threads, Close(t) PROVE IInv'
<1> DEFINE h == H(t)
<1>1. /\ At(t, "body") /\ h \in Handles /\ ~closed[h] /\ Goto(t, "remove") /\ call[t] # Idle
      /\ UNCHANGED <<next, kind, registered, slot, poisoned, cancel, runs>>
      /\ worker' = [worker EXCEPT ![h] = "none"] /\ finished' = [finished EXCEPT ![h] = FALSE]
      /\ outcome' = [outcome EXCEPT ![h] = "none"] /\ closed' = [closed EXCEPT ![h] = TRUE]
  BY CallFacts DEF Close, Body, At, IInv
<1>2. /\ call' \in [Threads -> Call \cup {Idle}]
      /\ call'[t] # Idle /\ call'[t].at = "remove" /\ call'[t].h = call[t].h
      /\ call'[t].warned = call[t].warned
      /\ \A u \in Threads \ {t} : call'[u] = call[u]
  BY <1>1, GotoCalls DEF IInv, Places
<1>3. h \in registered /\ runs[h] <= 1
  BY <1>1 DEF IInv, CallsReachJobs, PreviewsAreUnspent
<1>4. TypeOK'
  BY <1>1, <1>2 DEF IInv, TypeOK
<1>5. GuardsAreHeld'
  BY <1>1, <1>2 DEF IInv, GuardsAreHeld, At, H
<1>6. /\ worker'[h] = "none" /\ outcome'[h] = "none" /\ closed'[h]
      /\ \A x \in Handles \ {h} : worker'[x] = worker[x] /\ outcome'[x] = outcome[x] /\ closed'[x] = closed[x]
  BY <1>1 DEF IInv, TypeOK
<1> QED
  BY <1>1, <1>2, <1>3, <1>4, <1>5, <1>6, HolderStep DEF H

LEMMA RemoveInv == ASSUME IInv, NEW t \in Threads, Remove(t) PROVE IInv'
<1> DEFINE h == H(t)
<1>1. /\ At(t, "remove") /\ Leave(t) /\ registered' = registered \ {h}
      /\ UNCHANGED <<next, kind, poisoned, closed, cancel, worker, finished, outcome, runs>>
  BY DEF Remove
<1>2. /\ h \in Handles /\ slot' \in [Handles -> Threads \cup {Free}] /\ GuardsAreHeld'
      /\ call' \in [Threads -> Call \cup {Idle}] /\ call'[t] = Idle
      /\ \A u \in Threads \ {t} : call'[u] = call[u]
  BY <1>1, HolderLeaves
<1>3. closed[h] /\ worker[h] = "none" /\ outcome[h] = "none" /\ runs[h] <= 1
  BY <1>1, <1>2 DEF IInv, ClosedIsEmpty, PreviewsAreUnspent
<1>4. TypeOK'
  BY <1>1, <1>2 DEF IInv, TypeOK
<1> QED
  BY <1>1, <1>2, <1>3, <1>4, HolderStep

LEMMA InitIInv == Init => IInv
<1> SUFFICES ASSUME Init PROVE IInv
  OBVIOUS
<1>1. TypeOK
  BY RegistryAssumption DEF Init, TypeOK
<1>2. \A t \in Threads : call[t] = Idle
  BY DEF Init
<1>3. GuardsAreHeld /\ CallsReachJobs /\ WarningsHold
  BY <1>2 DEF GuardsAreHeld, CallsReachJobs, WarningsHold, At
<1>4. FreshIsClean /\ ClosedIsEmpty /\ PreviewsAreUnspent /\ NoWorkIsLost
  BY <1>2 DEF Init, FreshIsClean, ClosedIsEmpty, PreviewsAreUnspent, NoWorkIsLost, At
<1> QED
  BY <1>1, <1>3, <1>4 DEF IInv

LEMMA NextIInv == IInv /\ [Next]_vars => IInv'
<1> SUFFICES ASSUME IInv, [Next]_vars PROVE IInv'
  OBVIOUS
<1>1. ASSUME NEW t \in Threads,
             (\E k \in Kinds : Start(t, k)) \/ StartFails(t)
               \/ (\E o \in Ops, h \in Handles : Invoke(t, o, h)) \/ Proceed(t)
      PROVE  IInv'
  BY <1>1, StartInv, InvokeInv, FlagInv, TryLockInv, QuietLeave, CollectInv, ApproveInv,
     SpawnInv, CloseInv, RemoveInv DEF Proceed
<1>2. ASSUME NEW h \in Handles, WorkerFinish(h) PROVE IInv'
  BY <1>2, WorkerFinishInv
<1>3. CASE UNCHANGED vars
  <2>1. /\ UNCHANGED <<next, kind, registered, slot, poisoned, closed, cancel, worker, finished, outcome, runs>>
        /\ call' = call
    BY <1>3 DEF vars, job
  <2>2. TypeOK' /\ NoWorkIsLost' /\ GuardsAreHeld'
    BY <2>1 DEF IInv, TypeOK, NoWorkIsLost, GuardsAreHeld, At, H
  <2> QED
    BY <2>1, <2>2, QuietStep
<1> QED
  BY <1>1, <1>2, <1>3 DEF Next

\* The invariant of the registry holds in every state.
THEOREM RegistryInvariance == Spec => []IInv
  BY InitIInv, NextIInv, PTL DEF Spec

\* Code: "Never unload the library with live handles".  Whatever threads call
\* and release one handle at once, the registry forgets it only after release
\* has joined its worker.
THEOREM NoWorkIsLostAlways == Spec => []NoWorkIsLost
<1>1. IInv => NoWorkIsLost
  BY DEF IInv
<1> QED
  BY <1>1, RegistryInvariance, PTL

\* Code: "the handle retains the sealed preview until a single execution": one
\* preview is executed once at most, and never by an execute that was called
\* after the handle was cancelled.
THEOREM OneExecutionAlways == Spec => []OneExecution
<1>1. IInv => OneExecution
  BY DEF IInv, PreviewsAreUnspent, OneExecution
<1> QED
  BY <1>1, RegistryInvariance, PTL

----------------------------------------------------------------------------
(* The cap.                                                                *)

LEMMA CountedFinite ==
  ASSUME IInv, MaxHandles \in Nat
  PROVE  IsFiniteSet(Counted) /\ Cardinality(Counted) \in Nat
<1>1. IsFiniteSet(1..MaxHandles)
  BY FS_Interval
<1>2. Counted \subseteq 1..MaxHandles
  BY DEF IInv, TypeOK, Handles, Counted
<1>3. IsFiniteSet(Counted)
  BY <1>1, <1>2, FS_Subset
<1> QED
  BY <1>3, FS_CardinalityType

LEMMA CapStep == IInv /\ CountedWithinCap /\ [Next]_vars => CountedWithinCap'
<1> SUFFICES ASSUME IInv, CountedWithinCap, [Next]_vars PROVE CountedWithinCap'
  OBVIOUS
<1>1. IsFiniteSet(Counted) /\ Cardinality(Counted) \in Nat /\ MaxTasks \in Nat
  BY CountedFinite, RegistryAssumption
<1>2. CASE \E k \in {"task", "device", "runtime"} : Insert(k)
  <2>1. PICK k \in {"task", "device", "runtime"} : Insert(k)
    BY <1>2
  <2>2. next \in Handles /\ next \notin registered
    BY <2>1, RegistryAssumption DEF Insert, IInv, TypeOK, FreshIsClean, Handles
  <2>3. registered' = registered \cup {next} /\ \A h \in Handles \ {next} : kind'[h] = kind[h]
    BY <2>1, <2>2 DEF Insert, IInv, TypeOK
  <2>4. Counted' \subseteq Counted \cup {next}
    BY <2>2, <2>3 DEF Counted, IInv, TypeOK
  <2>5. next \notin Counted
    BY <2>2 DEF Counted
  <2>6. Cardinality(Counted \cup {next}) = Cardinality(Counted) + 1 /\ IsFiniteSet(Counted \cup {next})
    BY <1>1, <2>5, FS_AddElement
  <2>7. Cardinality(Counted') <= Cardinality(Counted \cup {next}) /\ IsFiniteSet(Counted')
    BY <2>4, <2>6, FS_Subset
  <2>8. Cardinality(Counted) < MaxTasks
    BY <2>1 DEF Insert, HasCapacity, Counted
  <2>9. Cardinality(Counted') \in Nat
    BY <2>7, FS_CardinalityType
  <2> QED
    BY <1>1, <2>6, <2>7, <2>8, <2>9 DEF CountedWithinCap
<1>3. CASE kind' = kind /\ registered' \subseteq registered
  <2>1. Counted' \subseteq Counted
    BY <1>3 DEF Counted
  <2>2. Cardinality(Counted') <= Cardinality(Counted) /\ IsFiniteSet(Counted')
    BY <1>1, <2>1, FS_Subset
  <2>3. Cardinality(Counted') \in Nat
    BY <2>2, FS_CardinalityType
  <2> QED
    BY <1>1, <2>2, <2>3 DEF CountedWithinCap
<1>4. CASE \E t \in Threads : Select(t) \/ \E k \in Kinds : Start(t, k)
  BY <1>2, <1>4, RegistryAssumption DEF Select, Start
<1>5. CASE \E t \in Threads : Remove(t)
  BY <1>3, <1>5 DEF Remove
<1>6. CASE \/ UNCHANGED vars
           \/ \E h \in Handles : WorkerFinish(h)
           \/ \E t \in Threads :
                \/ StartFails(t) \/ Flag(t) \/ TryLock(t) \/ FindsClosed(t) \/ Collect(t) \/ Look(t)
                \/ CancelTask(t) \/ Panic(t) \/ Approve(t) \/ Spawn(t) \/ SpawnFails(t)
                \/ ReleaseBusy(t) \/ Close(t)
                \/ \E o \in Ops, h \in Handles : Invoke(t, o, h)
  <2>1. kind' = kind /\ registered' = registered
    BY <1>6 DEF vars, WorkerFinish, StartFails, Flag, TryLock, FindsClosed, Collect, Look,
         CancelTask, Panic, Approve, Spawn, SpawnFails, ReleaseBusy, Close, Invoke
  <2> QED
    BY <1>3, <2>1
<1> QED
  BY <1>4, <1>5, <1>6 DEF Next, Proceed

\* Code: allocate_handle answers CAPACITY at MAX_TASKS: the handles it counts,
\* those of every kind but the runtimes, are never more, also while calls race.
THEOREM CountedWithinCapAlways == Spec => []CountedWithinCap
<1>1. Init => CountedWithinCap
  <2> SUFFICES ASSUME Init PROVE CountedWithinCap
    OBVIOUS
  <2>1. Counted = {}
    BY DEF Init, Counted
  <2>2. Cardinality(Counted) = 0
    BY <2>1, FS_EmptySet
  <2> QED
    BY <2>2, RegistryAssumption DEF CountedWithinCap
<1> QED
  BY <1>1, CapStep, RegistryInvariance, PTL DEF Spec

=============================================================================
