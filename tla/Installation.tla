---------------------------- MODULE Installation ----------------------------
(***************************************************************************)
(* Local install, update, recover and remove of a dedicated prefix         *)
(* (crates/engine/src/installation/macos.rs).                              *)
(*                                                                         *)
(* Files.  A package is a directory that holds an executable, an ownership *)
(* manifest, a lock and, during an update, a guard.  Beside the prefix lie *)
(* the lifecycle record, its ".next" staging name and the staged files of  *)
(* an update.  A file is [ino, ver, state]: ino is the operation that      *)
(* created it and ver the image it holds or describes; a manifest names    *)
(* the executable of the same ino.                                         *)
(*                                                                         *)
(* Durability.  dirty and cached keep the older values of each name: fsync *)
(* of a directory hands its dirty names to the drive's cache, F_FULLFSYNC  *)
(* flushes the cache.  A power failure restores any mixture.               *)
(*                                                                         *)
(* An error, a cancellation and a process death all stop an operation      *)
(* without any cleanup, so one action, Stop, stands for the three.         *)
(***************************************************************************)
EXTENDS Integers, FiniteSets, FiniteSetsExt

CONSTANTS
  Procs,      \* processes that run operations
  Versions,   \* images an operation may be given
  MaxOps,     \* bound on the operations that are started
  MaxStops,   \* bound on stopped operations
  MaxPower    \* bound on power failures

ASSUME InstallationAssumption ==
  /\ Versions \subseteq Nat \ {0} /\ Versions # {}
  /\ MaxOps \in Nat /\ MaxStops \in Nat /\ MaxPower \in Nat
  /\ "free" \notin Procs

VARIABLES
  disk, dirty, cached,
  lock,    \* flock on each package's lock file: a process or "free"
  local,   \* what each process is doing
  started, stops, powers,
  promise, \* history: the image (or absence) a successful result vouched for, or 0
  overrun  \* history: a pending record was replaced by another operation's

files == <<disk, dirty, cached>>
vars == <<files, lock, local, started, stops, powers, promise, overrun>>

OpIds == 1..MaxOps

\* promise after a successful removal
RemovedImage == -1

Prefix == <<"prefix", 0>>
Rec    == <<"rec", 0>>
NextRec == <<"next", 0>>
Exe(i)   == <<"exe", i>>
Man(i)   == <<"man", i>>
Guard(i) == <<"guard", i>>
SExe(i)  == <<"sexe", i>>
SMan(i)  == <<"sman", i>>

Parent  == {Prefix, Rec, NextRec} \cup {SExe(i) : i \in OpIds} \cup {SMan(i) : i \in OpIds}
Root(i) == {Man(i), Guard(i)}
Bin(i)  == {Exe(i)}
Slots   == Parent \cup UNION {Root(i) \cup Bin(i) : i \in OpIds}

Absent == [ino |-> 0, ver |-> 0, state |-> "absent"]
File(i, v, s) == [ino |-> i, ver |-> v, state |-> s]
NoRecord == [state |-> "absent", stage |-> 0, by |-> 0, pkg |-> 0, cur |-> 0,
             cand |-> 0, outcome |-> "none"]

Installed == disk[Prefix].ino
Present(s) == disk[s].state # "absent"
Whole(s) == disk[s].state \in {"written", "synced"}

----------------------------------------------------------------------------
(* File operations.                                                        *)

Put(d, s, v) == [d EXCEPT ![s] = v]
Forgets(s) == [dirty EXCEPT ![s] = @ \cup {disk[s]}]

Write(s, v) == disk' = Put(disk, s, v) /\ dirty' = Forgets(s) /\ UNCHANGED cached

Move(a, b) ==
  /\ disk' = [disk EXCEPT ![b] = disk[a], ![a] = IF a = NextRec THEN NoRecord ELSE Absent]
  /\ dirty' = [dirty EXCEPT ![a] = @ \cup {disk[a]}, ![b] = @ \cup {disk[b]}]
  /\ UNCHANGED cached

Fsync(D) ==
  /\ cached' = [s \in Slots |-> IF s \in D THEN cached[s] \cup dirty[s] ELSE cached[s]]
  /\ dirty' = [s \in Slots |-> IF s \in D THEN {} ELSE dirty[s]]
  /\ UNCHANGED disk

\* full_sync of the files S: their data is durable, and so is everything the
\* drive had cached.
FullSync(S) ==
  /\ disk' = [s \in Slots |-> IF s \in S THEN [disk[s] EXCEPT !.state = "synced"] ELSE disk[s]]
  /\ cached' = [s \in Slots |-> {}]
  /\ dirty' = [s \in Slots |-> IF s \in S THEN {v \in dirty[s] : v.state = "absent"} ELSE dirty[s]]

\* Mutant: the final barrier is left out.
SyncPublishedShort(i) ==
  /\ disk' = [s \in Slots |-> IF s \in {Exe(i), Man(i)} THEN [disk[s] EXCEPT !.state = "synced"] ELSE disk[s]]
  /\ cached' = [s \in Slots |-> IF s \in Parent \cup Root(i) \cup Bin(i) THEN dirty[s] ELSE {}]
  /\ dirty' = [s \in Slots |-> IF s \in Parent \cup Root(i) \cup Bin(i) THEN {} ELSE dirty[s]]

\* Package::sync_published: the files, then bin, root and parent, then a
\* final full sync.
SyncPublished(i) ==
  /\ disk' = [s \in Slots |-> IF s \in {Exe(i), Man(i)} THEN [disk[s] EXCEPT !.state = "synced"] ELSE disk[s]]
  /\ cached' = [s \in Slots |-> {}]
  /\ dirty' = [s \in Slots |-> IF s \in Parent \cup Root(i) \cup Bin(i) THEN {} ELSE dirty[s]]

----------------------------------------------------------------------------
(* Reading a package and the lifecycle record.                             *)

\* Package::open; open_relaxed does not compare the executable.
Relaxed(i) == i # 0 /\ Whole(Man(i)) /\ Present(Exe(i))
Strict(i) == Relaxed(i) /\ Whole(Exe(i)) /\ disk[Exe(i)].ino = disk[Man(i)].ino

Lockable(i) == i # 0 /\ lock[i] = "free"

\* validate_recorded_guard, validate_staged_file
GuardState(i, r) ==
  IF ~Present(Guard(i)) THEN "Missing"
  ELSE IF disk[Guard(i)].ino = r.by THEN "Present" ELSE "Error"
StagedState(s) == IF ~Present(s) THEN "Missing" ELSE IF Whole(s) THEN "Present" ELSE "Error"

IntentRecorded == 1
StagedRecorded == 2
BinaryCommitted == 3
ManifestCommitted == 4
OutcomeRecorded == 5

\* Mutant: any readable record is taken for a finished one.
GateLenient(i) == ~Present(NextRec) /\ disk[Rec].state # "torn"

\* lifecycle_gate_decision returns None (i = 0: the prefix is absent).
Gate(i) ==
  LET r == disk[Rec] IN
    /\ ~Present(NextRec)
    /\ \/ r.state = "absent" /\ (i # 0 => ~Present(Guard(i)))
       \/ /\ r.state \in {"written", "synced"} /\ r.stage = OutcomeRecorded
          /\ i # 0 => GuardState(i, r) = "Missing"

\* Mutant: a consumed staged manifest is not recognised.
ClassifyOnlyStaged(i, nextExists) ==
  LET r == disk[Rec] IN
    IF nextExists \/ r.state = "torn" \/ r.stage \in {0, 1, 4, 5} THEN "Manual"
    ELSE IF StagedState(SMan(r.by)) = "Present"
      THEN (IF disk[Exe(i)].ver = r.cand THEN "Finalize" ELSE "Abandon")
      ELSE "Manual"

\* Recover::classify; "Manual" also where it returns an error.
Classify(i, nextExists) ==
  LET r == disk[Rec]
      old == disk[Man(i)].ver = r.cur
      new == disk[Man(i)].ver = r.cand
      exeNew == Whole(Exe(i)) /\ disk[Exe(i)].ver = r.cand
      exeOld == Whole(Exe(i)) /\ disk[Exe(i)].ver = r.cur
      staged == r.stage >= StagedRecorded
      sexe == IF staged THEN StagedState(SExe(r.by)) ELSE "Missing"
      sman == IF staged THEN StagedState(SMan(r.by)) ELSE "Missing"
      guard == GuardState(i, r)
      at(stage) == r.stage = stage
  IN
    IF nextExists \/ r.state = "torn" THEN "Manual"
    ELSE IF r.state = "absent" THEN (IF Present(Guard(i)) THEN "Manual" ELSE "None")
    ELSE IF "Error" \in {sexe, sman, guard} THEN "Manual"
    ELSE IF r.pkg # i
      THEN (IF at(OutcomeRecorded) /\ {sexe, sman, guard} = {"Missing"} THEN "None" ELSE "Manual")
    ELSE CASE at(StagedRecorded) /\ old /\ exeOld /\ sman = "Present" /\ guard = "Present" -> "Abandon"
           [] at(StagedRecorded) /\ old /\ exeOld /\ sexe = "Missing" /\ sman = "Missing"
                /\ guard = "Present" -> "Confirm"
           [] at(StagedRecorded) /\ old /\ exeNew /\ sexe = "Missing" /\ sman = "Present"
                /\ guard = "Present" -> "Finalize"
           [] at(StagedRecorded) /\ new /\ exeNew /\ sexe = "Missing" /\ sman = "Missing"
                /\ guard = "Present" -> "Confirm"
           [] at(BinaryCommitted) /\ exeNew /\ (old \/ new) /\ guard = "Present"
                /\ (sman = "Present" \/ (new /\ sman = "Missing"))
                -> (IF old THEN "Finalize" ELSE "Confirm")
           [] at(ManifestCommitted) /\ new /\ exeNew /\ sman = "Missing"
                /\ guard = "Present" -> "Confirm"
           [] at(OutcomeRecorded) /\ r.outcome = "Abandoned" /\ old /\ exeOld
                /\ sexe = "Missing" /\ sman = "Missing"
                -> (IF guard = "Missing" THEN "None" ELSE "Confirm")
           [] at(OutcomeRecorded) /\ r.outcome = "Published" /\ new /\ exeNew
                -> (IF guard = "Missing" THEN "None" ELSE "Confirm")
           [] OTHER -> "Manual"

----------------------------------------------------------------------------
(* Processes.                                                              *)

NoOp == [pc |-> "idle", id |-> 0, pkg |-> 0, cand |-> 0, rec |-> NoRecord,
         then |-> "idle", mode |-> "None", next |-> FALSE]

Set(p, l) == local' = [local EXCEPT ![p] = l]
Goto(p, pc) == Set(p, [local[p] EXCEPT !.pc = pc])
Acquire(p, i) == lock' = [lock EXCEPT ![i] = p]
Release(p) == lock' = [i \in OpIds |-> IF lock[i] = p THEN "free" ELSE lock[i]]
Me(p) == local[p]
At(p, pc) == local[p].pc = pc

\* The operation ends, and everything it holds is dropped.
Finish(p) == Set(p, NoOp) /\ Release(p)

Begin(p) == At(p, "idle") /\ started < MaxOps /\ started' = started + 1
Op(p) == started + 1

counters == <<started, stops, powers>>
history == <<promise, overrun>>

\* write_lifecycle(record) and then continue at pc.
WriteRecord(p, r, pc) == Set(p, [Me(p) EXCEPT !.pc = "create", !.rec = r, !.then = pc])

CreateNext(p) ==
  /\ At(p, "create")
  /\ ~Present(NextRec)
  /\ Write(NextRec, [Me(p).rec EXCEPT !.state = "torn"])
  /\ Goto(p, "fill")
  /\ UNCHANGED <<lock, counters, history>>

FillNext(p) ==
  /\ At(p, "fill")
  /\ FullSync({NextRec})
  /\ Goto(p, "rename")
  /\ UNCHANGED <<lock, counters, history>>

RenameNext(p) ==
  /\ At(p, "rename")
  /\ Move(NextRec, Rec)
  /\ overrun' = (overrun \/ (/\ disk[Rec].stage \in IntentRecorded..ManifestCommitted
                             /\ disk[Rec].by # disk[NextRec].by))
  /\ Goto(p, "recsync")
  /\ UNCHANGED <<lock, counters, promise>>

FsyncRecord(p) ==
  /\ At(p, "recsync")
  /\ Fsync(Parent)
  /\ Goto(p, Me(p).then)
  /\ UNCHANGED <<lock, counters, history>>

\* sync_published and the verification after it, then continue at pc.
SyncThen(p, pc) ==
  /\ Strict(Me(p).pkg)
  /\ SyncPublished(Me(p).pkg)
  /\ Goto(p, pc)
  /\ UNCHANGED <<lock, counters, history>>

\* A success that vouches for the installed image.
Succeed(p) == Finish(p) /\ promise' = disk[Exe(Me(p).pkg)].ver

----------------------------------------------------------------------------
(* install                                                                 *)

InstallNew(p, v) ==
  /\ Begin(p)
  /\ Installed = 0 /\ Gate(0)
  /\ Set(p, [NoOp EXCEPT !.pc = "i_stage", !.id = Op(p), !.pkg = Op(p), !.cand = v])
  /\ UNCHANGED <<files, lock, stops, powers, history>>

\* The prefix already holds this image: only the barriers are repeated.
InstallSame(p) ==
  /\ Begin(p)
  /\ Strict(Installed) /\ Lockable(Installed) /\ Gate(Installed)
  /\ Acquire(p, Installed)
  /\ Set(p, [NoOp EXCEPT !.pc = "same", !.id = Op(p), !.pkg = Installed])
  /\ UNCHANGED <<files, stops, powers, history>>

SyncSame(p) == At(p, "same") /\ SyncThen(p, "same_done")

SameDone(p) ==
  /\ At(p, "same_done")
  /\ Succeed(p)
  /\ UNCHANGED <<files, counters, overrun>>

\* The package is built and synchronized under a private staging name, its
\* lock held.
StagePackage(p) ==
  /\ At(p, "i_stage") /\ Gate(0)
  /\ LET me == Me(p) IN
       /\ disk' = [disk EXCEPT ![Exe(me.pkg)] = File(me.id, me.cand, "synced"),
                               ![Man(me.pkg)] = File(me.id, me.cand, "synced")]
       /\ cached' = [cached EXCEPT ![Exe(me.pkg)] = {Absent}, ![Man(me.pkg)] = {Absent}]
       /\ Acquire(p, me.pkg)
  /\ Goto(p, "i_publish")
  /\ UNCHANGED <<dirty, counters, history>>

\* renameat with NOREPLACE.
PublishPackage(p) ==
  /\ At(p, "i_publish")
  /\ Installed = 0
  /\ Write(Prefix, File(Me(p).pkg, 0, "synced"))
  /\ promise' = 0
  /\ Goto(p, "same")
  /\ UNCHANGED <<lock, counters, overrun>>

----------------------------------------------------------------------------
(* update                                                                  *)

UpdatePrepare(p, v) ==
  /\ Begin(p)
  /\ Strict(Installed) /\ Lockable(Installed) /\ Gate(Installed)
  /\ Acquire(p, Installed)
  /\ Set(p, [NoOp EXCEPT !.id = Op(p), !.pkg = Installed, !.cand = v, !.mode = "Update",
                         !.pc = IF v = disk[Man(Installed)].ver THEN "same" ELSE "u_guard"])
  /\ UNCHANGED <<files, stops, powers, history>>

CreateGuard(p) ==
  /\ At(p, "u_guard") /\ Strict(Me(p).pkg) /\ Gate(Me(p).pkg)
  /\ ~Present(Guard(Me(p).pkg))
  /\ Write(Guard(Me(p).pkg), File(Me(p).id, 0, "written"))
  /\ Goto(p, "u_guardsync")
  /\ UNCHANGED <<lock, counters, history>>

\* Mutant: the guard's directory is not synchronized.
SyncGuardUnsynced(p) ==
  /\ At(p, "u_guardsync")
  /\ LET me == Me(p) IN
       /\ FullSync({Guard(me.pkg)})
       /\ WriteRecord(p, [NoRecord EXCEPT
            !.stage = IntentRecorded, !.by = me.id, !.pkg = me.pkg,
            !.cur = disk[Man(me.pkg)].ver, !.cand = me.cand], "u_stage")
  /\ UNCHANGED <<lock, counters, history>>

\* full_sync of the guard, fsync of the root.
SyncGuard(p) ==
  /\ At(p, "u_guardsync")
  /\ LET me == Me(p) IN
       /\ disk' = [disk EXCEPT ![Guard(me.pkg)].state = "synced"]
       /\ cached' = [s \in Slots |-> IF s \in Root(me.pkg) THEN dirty[s] ELSE {}]
       /\ dirty' = [s \in Slots |-> IF s \in Root(me.pkg) THEN {} ELSE dirty[s]]
       /\ WriteRecord(p, [NoRecord EXCEPT
            !.stage = IntentRecorded, !.by = me.id, !.pkg = me.pkg,
            !.cur = disk[Man(me.pkg)].ver, !.cand = me.cand], "u_stage")
  /\ UNCHANGED <<lock, counters, history>>

StageFiles(p) ==
  /\ At(p, "u_stage")
  /\ LET me == Me(p) IN
       /\ disk' = [disk EXCEPT ![SExe(me.id)] = File(me.id, me.cand, "written"),
                               ![SMan(me.id)] = File(me.id, me.cand, "written")]
       /\ dirty' = [dirty EXCEPT ![SExe(me.id)] = @ \cup {Absent}, ![SMan(me.id)] = @ \cup {Absent}]
  /\ Goto(p, "u_sync")
  /\ UNCHANGED <<cached, lock, counters, history>>

SyncStaged(p) ==
  /\ At(p, "u_sync")
  /\ LET me == Me(p) IN
       /\ disk' = [disk EXCEPT ![SExe(me.id)].state = "synced", ![SMan(me.id)].state = "synced"]
       /\ cached' = [s \in Slots |-> IF s \in Parent THEN dirty[s] ELSE {}]
       /\ dirty' = [s \in Slots |-> IF s \in Parent THEN {} ELSE dirty[s]]
       /\ WriteRecord(p, [me.rec EXCEPT !.stage = StagedRecorded], "u_bin")
  /\ UNCHANGED <<lock, counters, history>>

RenameBinary(p) ==
  /\ At(p, "u_bin") /\ Strict(Me(p).pkg)
  /\ Move(SExe(Me(p).id), Exe(Me(p).pkg))
  /\ promise' = 0
  /\ Goto(p, "u_binsync")
  /\ UNCHANGED <<lock, counters, overrun>>

SyncBinary(p) ==
  /\ At(p, "u_binsync")
  /\ Fsync(Bin(Me(p).pkg))
  /\ WriteRecord(p, [Me(p).rec EXCEPT !.stage = BinaryCommitted], "u_man")
  /\ UNCHANGED <<lock, counters, history>>

RenameManifest(p) ==
  /\ At(p, "u_man")
  /\ Move(SMan(Me(p).id), Man(Me(p).pkg))
  /\ Goto(p, "u_mansync")
  /\ UNCHANGED <<lock, counters, history>>

SyncManifest(p) ==
  /\ At(p, "u_mansync")
  /\ Fsync(Root(Me(p).pkg))
  /\ WriteRecord(p, [Me(p).rec EXCEPT !.stage = ManifestCommitted], "drop")
  /\ UNCHANGED <<lock, counters, history>>

\* drop(package): the lock is given up before the package is opened again.
DropPackage(p) ==
  /\ At(p, "drop")
  /\ Release(p)
  /\ Goto(p, "reopen")
  /\ UNCHANGED <<files, counters, history>>

Reopen(p) ==
  /\ At(p, "reopen")
  /\ Strict(Installed) /\ Lockable(Installed)
  /\ Acquire(p, Installed)
  /\ Set(p, [Me(p) EXCEPT !.pkg = Installed, !.pc = "resync"])
  /\ UNCHANGED <<files, counters, history>>

Resync(p) == At(p, "resync") /\ SyncThen(p, "outcome")

\* decide_outcome
DecideOutcome(r, v) == IF v = r.cand THEN "Published" ELSE "Abandoned"

\* An update publishes; a recovery records what the package holds, unless the
\* outcome is recorded already or there is no record.
RecordOutcome(p) ==
  /\ At(p, "outcome")
  /\ LET me == Me(p)
         v == disk[Man(me.pkg)].ver
         r == [me.rec EXCEPT !.stage = OutcomeRecorded,
                             !.outcome = IF me.mode = "Update" THEN "Published"
                                         ELSE DecideOutcome(me.rec, v)]
     IN IF me.rec.stage # OutcomeRecorded
          THEN /\ me.mode # "Update" => v \in {me.rec.cand, me.rec.cur}
               /\ WriteRecord(p, r, "guard")
          ELSE Goto(p, "guard")
  /\ UNCHANGED <<files, lock, counters, history>>

RemoveGuard(p) ==
  /\ At(p, "guard")
  /\ GuardState(Me(p).pkg, Me(p).rec) = "Present"
  /\ Write(Guard(Me(p).pkg), Absent)
  /\ Goto(p, "guardsync")
  /\ UNCHANGED <<lock, counters, history>>

GuardIsGone(p) ==
  /\ At(p, "guard")
  /\ GuardState(Me(p).pkg, Me(p).rec) = "Missing"
  /\ Succeed(p)
  /\ UNCHANGED <<files, counters, overrun>>

SyncGuardRemoval(p) ==
  /\ At(p, "guardsync")
  /\ Fsync(Root(Me(p).pkg))
  /\ Succeed(p)
  /\ UNCHANGED <<counters, overrun>>

----------------------------------------------------------------------------
(* recover                                                                 *)

\* prepare: the package is locked, classified and unlocked; execute then
\* looks for the staging name before it takes the lock.
RecoverPrepare(p) ==
  /\ Begin(p)
  /\ Relaxed(Installed) /\ Lockable(Installed)
  /\ Classify(Installed, Present(NextRec)) # "Manual"
  /\ Set(p, [NoOp EXCEPT !.pc = "r_stat", !.id = Op(p)])
  /\ UNCHANGED <<files, lock, stops, powers, history>>

RecoverStat(p) ==
  /\ At(p, "r_stat")
  /\ Set(p, [Me(p) EXCEPT !.next = Present(NextRec), !.pc = "r_open"])
  /\ UNCHANGED <<files, lock, counters, history>>

RecoverOpen(p) ==
  /\ At(p, "r_open")
  /\ Relaxed(Installed) /\ Lockable(Installed)
  /\ LET mode == Classify(Installed, Me(p).next) IN
       /\ mode # "Manual"
       /\ \/ /\ mode = "None" /\ ~Present(Rec)
             /\ Strict(Installed)
             /\ Finish(p)
          \/ /\ Present(Rec)
             /\ Acquire(p, Installed)
             /\ Set(p, [Me(p) EXCEPT !.pkg = Installed, !.mode = mode, !.rec = disk[Rec],
                  !.pc = CASE mode = "Abandon" -> "r_exe"
                           [] mode = "Finalize" -> "r_man"
                           [] OTHER -> "drop"])
  /\ UNCHANGED <<files, counters, history>>

AbandonExecutable(p) ==
  /\ At(p, "r_exe")
  /\ \/ ~Present(SExe(Me(p).rec.by)) /\ UNCHANGED files
     \/ Whole(SExe(Me(p).rec.by)) /\ Write(SExe(Me(p).rec.by), Absent)
  /\ Goto(p, "r_sman")
  /\ UNCHANGED <<lock, counters, history>>

AbandonManifest(p) ==
  /\ At(p, "r_sman")
  /\ Whole(SMan(Me(p).rec.by))
  /\ Write(SMan(Me(p).rec.by), Absent)
  /\ Goto(p, "drop")
  /\ UNCHANGED <<lock, counters, history>>

FinalizeManifest(p) ==
  /\ At(p, "r_man")
  /\ Whole(SMan(Me(p).rec.by))
  /\ Whole(Exe(Me(p).pkg)) /\ disk[Exe(Me(p).pkg)].ver = Me(p).rec.cand
  /\ Move(SMan(Me(p).rec.by), Man(Me(p).pkg))
  /\ promise' = 0
  /\ Goto(p, "r_mansync")
  /\ UNCHANGED <<lock, counters, overrun>>

SyncFinalized(p) ==
  /\ At(p, "r_mansync")
  /\ Fsync(Root(Me(p).pkg))
  /\ Goto(p, "drop")
  /\ UNCHANGED <<lock, counters, history>>

----------------------------------------------------------------------------
(* remove                                                                  *)

RemovePrepare(p) ==
  /\ Begin(p)
  /\ Strict(Installed) /\ Lockable(Installed) /\ Gate(Installed)
  /\ Acquire(p, Installed)
  /\ Set(p, [NoOp EXCEPT !.pc = "detach", !.id = Op(p), !.pkg = Installed])
  /\ UNCHANGED <<files, stops, powers, history>>

\* The verified package is renamed away before anything in it is deleted.
Detach(p) ==
  /\ At(p, "detach")
  /\ Strict(Me(p).pkg) /\ Gate(Me(p).pkg)
  /\ Write(Prefix, Absent)
  /\ promise' = 0
  /\ Goto(p, "detached")
  /\ UNCHANGED <<lock, counters, overrun>>

SyncDetached(p) ==
  /\ At(p, "detached")
  /\ Fsync(Parent)
  /\ Goto(p, "payload")
  /\ UNCHANGED <<lock, counters, history>>

\* A name is unlinked and its directory D synchronized.
Unlink(s, D) ==
  /\ disk' = Put(disk, s, Absent)
  /\ cached' = [t \in Slots |-> IF t \in D THEN cached[t] \cup Forgets(s)[t] ELSE cached[t]]
  /\ dirty' = [t \in Slots |-> IF t \in D THEN {} ELSE dirty[t]]

RemovePayload(p) ==
  /\ At(p, "payload") /\ Strict(Me(p).pkg)
  /\ Unlink(Exe(Me(p).pkg), Bin(Me(p).pkg))
  /\ Goto(p, "manifest")
  /\ UNCHANGED <<lock, counters, history>>

\* bin and the lock file hold nothing the model keeps; the manifest is next.
RemoveManifest(p) ==
  /\ At(p, "manifest")
  /\ Unlink(Man(Me(p).pkg), Root(Me(p).pkg))
  /\ Goto(p, "root")
  /\ UNCHANGED <<lock, counters, history>>

\* The root goes, the parent is synchronized, and a last full sync is made.
RemoveRoot(p) ==
  /\ At(p, "root")
  /\ dirty' = [s \in Slots |-> IF s \in Parent THEN {} ELSE dirty[s]]
  /\ cached' = [s \in Slots |-> {}]
  /\ promise' = IF Installed = 0 THEN RemovedImage ELSE promise
  /\ Finish(p)
  /\ UNCHANGED <<disk, counters, overrun>>

----------------------------------------------------------------------------
(* Failures.                                                               *)

Stop(p) ==
  /\ ~At(p, "idle")
  /\ stops < MaxStops
  /\ stops' = stops + 1
  /\ Finish(p)
  /\ UNCHANGED <<files, started, powers, history>>

\* Whether the checks before an operation's next step succeed.
Able(p) ==
  LET me == Me(p)
      pc == me.pc
  IN CASE pc = "create" -> ~Present(NextRec)
       [] pc = "i_stage" -> Gate(0)
       [] pc = "i_publish" -> Installed = 0
       [] pc \in {"same", "resync", "u_bin", "payload"} -> Strict(me.pkg)
       [] pc \in {"u_guard", "detach"} ->
            /\ Strict(me.pkg) /\ Gate(me.pkg)
            /\ pc = "u_guard" => ~Present(Guard(me.pkg))
       [] pc = "reopen" -> Strict(Installed) /\ Lockable(Installed)
       [] pc = "r_open" -> /\ Relaxed(Installed) /\ Lockable(Installed)
                           /\ Classify(Installed, me.next) # "Manual"
                           /\ Present(Rec) \/ Strict(Installed)
       [] pc = "r_exe" -> StagedState(SExe(me.rec.by)) # "Error"
       [] pc = "r_sman" -> StagedState(SMan(me.rec.by)) = "Present"
       [] pc = "r_man" -> /\ StagedState(SMan(me.rec.by)) = "Present"
                          /\ Whole(Exe(me.pkg)) /\ disk[Exe(me.pkg)].ver = me.rec.cand
       [] pc = "outcome" -> \/ me.mode = "Update" \/ me.rec.stage = OutcomeRecorded
                            \/ disk[Man(me.pkg)].ver \in {me.rec.cand, me.rec.cur}
       [] pc = "guard" -> GuardState(me.pkg, me.rec) # "Error"
       [] OTHER -> TRUE

\* A check fails and the operation returns without cleaning up.
Refuse(p) ==
  /\ ~At(p, "idle") /\ ~Able(p)
  /\ Finish(p)
  /\ UNCHANGED <<files, counters, history>>

\* What a name may hold after a power failure; unsynchronized data is torn.
Survivors(s) ==
  LET all == {disk[s]} \cup dirty[s] \cup cached[s]
  IN all \cup {[v EXCEPT !.state = "torn"] : v \in {x \in all : x.state = "written"}}

\* The disk with the names in doubt set in every way, one name after another.
Mixtures ==
  LET unsure == {s \in Slots : Survivors(s) # {disk[s]}}
      choose(s, D) == {Put(d, s, v) : d \in D, v \in Survivors(s)}
  IN FoldSet(choose, {disk}, unsure)

\* Every directory that may be found after a power failure: each name holds one
\* of its survivors.
Recoverable ==
  {d \in Mixtures : /\ d \in [Slots -> UNION {Survivors(s) : s \in Slots}]
                    /\ \A s \in Slots : d[s] \in Survivors(s)}

PowerFailure ==
  /\ powers < MaxPower
  /\ powers' = powers + 1
  /\ disk' \in Recoverable
  /\ dirty' = [s \in Slots |-> {}] /\ cached' = [s \in Slots |-> {}]
  /\ local' = [p \in Procs |-> NoOp]
  /\ lock' = [i \in OpIds |-> "free"]
  /\ UNCHANGED <<started, stops, history>>

----------------------------------------------------------------------------
Init ==
  /\ disk = [s \in Slots |-> IF s \in {Rec, NextRec} THEN NoRecord ELSE Absent]
  /\ dirty = [s \in Slots |-> {}] /\ cached = [s \in Slots |-> {}]
  /\ lock = [i \in OpIds |-> "free"]
  /\ local = [p \in Procs |-> NoOp]
  /\ started = 0 /\ stops = 0 /\ powers = 0
  /\ promise = 0 /\ overrun = FALSE

UpdateStep(p) ==
  \/ CreateGuard(p) \/ SyncGuard(p) \/ StageFiles(p) \/ SyncStaged(p)
  \/ RenameBinary(p) \/ SyncBinary(p) \/ RenameManifest(p) \/ SyncManifest(p)

CommonStep(p) ==
  \/ CreateNext(p) \/ FillNext(p) \/ RenameNext(p) \/ FsyncRecord(p)
  \/ SyncSame(p) \/ SameDone(p) \/ DropPackage(p) \/ Reopen(p) \/ Resync(p)
  \/ RecordOutcome(p) \/ RemoveGuard(p) \/ GuardIsGone(p)
  \/ SyncGuardRemoval(p)

Next ==
  \/ \E p \in Procs :
       \/ \E v \in Versions : InstallNew(p, v) \/ UpdatePrepare(p, v)
       \/ InstallSame(p) \/ StagePackage(p) \/ PublishPackage(p)
       \/ RecoverPrepare(p) \/ RecoverStat(p) \/ RecoverOpen(p)
       \/ AbandonExecutable(p) \/ AbandonManifest(p) \/ FinalizeManifest(p)
       \/ SyncFinalized(p)
       \/ RemovePrepare(p) \/ Detach(p) \/ SyncDetached(p) \/ RemovePayload(p)
       \/ RemoveManifest(p) \/ RemoveRoot(p)
       \/ UpdateStep(p) \/ CommonStep(p)
       \/ Refuse(p) \/ Stop(p)
  \/ PowerFailure

Spec == Init /\ [][Next]_vars
----------------------------------------------------------------------------
(* Properties.                                                             *)

Idle == \A p \in Procs : At(p, "idle")

Pending ==
  \/ Present(NextRec) \/ disk[Rec].state = "torn"
  \/ disk[Rec].stage \in IntentRecorded..ManifestCommitted

\* Code: an executable that its manifest does not describe is an update
\* between two renames; there is always recovery evidence beside it.
MixtureIsFlagged ==
  LET i == Installed IN
    i # 0 /\ Whole(Exe(i)) /\ Whole(Man(i)) /\ disk[Exe(i)].ino # disk[Man(i)].ino =>
      Pending /\ Present(Guard(i))

\* Code: Installed, AlreadyInstalled, Updated, Removed and (from a record)
\* Recovered are reported only after the last barrier: until the next
\* replacement begins, a power failure cannot undo or tear what they said.
PromiseSurvives ==
  /\ promise # 0 => Survivors(Prefix) = {disk[Prefix]}
  /\ promise = RemovedImage => Installed = 0
  /\ promise \in Versions =>
       /\ Strict(Installed) /\ disk[Exe(Installed)].ver = promise
       /\ \A s \in {Exe(Installed), Man(Installed)} : Survivors(s) = {disk[s]}

\* Code: a recorded outcome agrees with the package it is about, also when it
\* was recovery that recorded it.
OutcomeIsTrue ==
  LET r == disk[Rec]
      i == Installed
  IN r.state = "synced" /\ r.stage = OutcomeRecorded /\ i # 0 /\ r.pkg = i =>
       \A s \in {Exe(i), Man(i)} :
         Whole(s) => disk[s].ver = IF r.outcome = "Published" THEN r.cand ELSE r.cur

\* Code: the gates of install, update and remove keep pending evidence until
\* recovery has resolved it: no operation replaces another one's record.
EvidenceIsKept == ~overrun

\* Code: wherever an update or a recovery stops (without a power failure, which
\* can separate the two names of a rename), recovery recognizes the state and
\* can finish, but for the windows that it refuses on purpose: a record
\* being published, staged files without recorded identities, and a guard
\* that no record describes.
RecoveryRecognizes ==
  powers = 0 /\ Idle /\ Relaxed(Installed) /\ Classify(Installed, Present(NextRec)) = "Manual" =>
    \/ Present(NextRec)
    \/ disk[Rec].stage = IntentRecorded
    \/ Present(Guard(Installed)) /\ disk[Guard(Installed)].ino # disk[Rec].by

\* Docs: "`recover` is explicit and lock-preserving".  From its classification
\* to its last effect no other process holds the package's lock.
RecoverIsLockPreserving ==
  \A p \in Procs :
    local[p].mode \in {"Abandon", "Finalize", "Confirm"} =>
      lock[local[p].pkg] \in {p, "free"}

=============================================================================
