---------------------------- MODULE JournalStore ----------------------------
(***************************************************************************)
(* The durable receipt store (crates/engine/src/journal/store.rs).          *)
(*                                                                         *)
(* An operation owns three names in the state directory: <id>.json (the    *)
(* committed receipt), <id>.pending (the marker: a conservative receipt    *)
(* kept while a publication is under way) and <id>.next (the staged        *)
(* receipt that a rename turns into <id>.json).  publish_with is modelled   *)
(* one system call at a time, because a process may die and power may fail *)
(* between any two of them.                                                *)
(*                                                                         *)
(* Durability.  disk is what the running system sees.  stale and fresh say *)
(* what each name may hold after a power failure: fresh collects the       *)
(* values since the last fsync of the directory, stale the older values    *)
(* that fsync has only handed to the drive's cache.  F_FULLFSYNC           *)
(* (platform-macos full_sync) flushes that cache, so stale becomes empty.  *)
(* Names recover independently of each other, which assumes nothing about  *)
(* the order in which the file system writes directory entries.            *)
(*                                                                         *)
(* The receipt of an operation is reduced to the state of each of its      *)
(* items (crates/engine/src/journal.rs, ItemState and Record).  Paths,     *)
(* sizes, timestamps and reasons do not influence control and are left out.*)
(***************************************************************************)
EXTENDS Integers, FiniteSets

CONSTANTS
  N,            \* number of items of an operation
  MaxOps,       \* bound on the operations a behaviour starts
  MaxRecords    \* MAX_RECORDS, the receipts a store may hold

ASSUME NAssumption == N \in Nat \ {0}
ASSUME StoreAssumption == MaxOps \in Nat \ {0} /\ MaxRecords \in Nat

VARIABLES
  disk,      \* disk[o][e]: what name o.e holds now
  stale,     \* stale[o][e]: older values a power failure may bring back
  fresh,     \* fresh[o][e]: values since the last directory fsync
  op,        \* the operation being executed or executed last (0: none yet)
  record,    \* the record of op in the caller's memory
  fallback,  \* the conservative version of record that publish_with computed
  stage,     \* the next system call of publish_with, or "idle"
  result     \* how the last publish ended

disks     == <<disk, stale, fresh>>
storeVars == <<disk, stale, fresh, op, record, fallback, stage, result>>

-----------------------------------------------------------------------------
(* The receipt of one operation.                                           *)

Items == 1..N

ItemState == {"Planned", "Started", "Succeeded", "Skipped", "Failed", "Unknown"}

\* A state that claims to know what the native call did.
Outcome == {"Succeeded", "Failed"}

Record == [Items -> ItemState]

\* The record new_id's caller builds: every item Planned.  It also stands for
\* "no previous receipt": Fallback demotes the same items in both cases.
AllPlanned == [i \in Items |-> "Planned"]

\* Mutant: the marker repeats the record, outcomes included.
FallbackKeepsOutcome(rec, previous) == rec

\* The conservative receipt that names a publication in progress: an outcome
\* that the previous receipt does not already hold is demoted to Unknown.
Fallback(rec, previous) ==
  [i \in Items |-> IF rec[i] \in Outcome /\ previous[i] # rec[i]
                     THEN "Unknown" ELSE rec[i]]

\* What a reader makes of an item that nobody will finish any more.
ReconciledState(s) ==
  CASE s = "Started" -> "Unknown"
    [] s = "Planned" -> "Skipped"
    [] OTHER -> s

Reconciled(rec) == [i \in Items |-> ReconciledState(rec[i])]

-----------------------------------------------------------------------------
(* The store.                                                              *)

Ops  == 1..MaxOps
Exts == {"json", "pending", "next"}

Kinds  == {"absent", "torn", "written", "synced"}
Slots  == [kind : Kinds, rec : Record]
Absent == [kind |-> "absent", rec |-> AllPlanned]
Torn   == [kind |-> "torn", rec |-> AllPlanned]

FileOf(kind, rec) == [kind |-> kind, rec |-> rec]
Written(rec) == FileOf("written", rec)
Synced(rec)  == FileOf("synced", rec)

\* read_record parses and validates: only a completely written file is read.
Readable(slot) == slot.kind \in {"written", "synced"}

Possible(o, e) == stale[o][e] \cup fresh[o][e]

\* What a power failure may leave under a name: data that was not synced may
\* be torn.
AfterPower(o, e) ==
  Possible(o, e) \cup (IF \E s \in Possible(o, e) : s.kind = "written"
                         THEN {Torn} ELSE {})

Recoverable(o) ==
  [json    : AfterPower(o, "json"),
   pending : AfterPower(o, "pending"),
   next    : AfterPower(o, "next")]

----------------------------------------------------------------------------
(* Reading: Store::records.                                                *)

Exists(d) == \E e \in Exts : d[e] # Absent

\* The name whose content stands for the operation: the marker if there is
\* one, whatever the committed file says.
Source(d) == IF d["pending"] # Absent THEN "pending" ELSE "json"

\* The entry is readable: not a staging file alone, and its source parses.
EntryReadable(d) == Readable(d[Source(d)])

Reading(d) == Reconciled(d[Source(d)].rec)

Known     == {o \in Ops : Exists(disk[o])}
RecordsOk == Cardinality(Known) <= MaxRecords /\ \A o \in Known : EntryReadable(disk[o])
Uncommitted == \E o \in Known : disk[o]["pending"] # Absent \/ disk[o]["next"] # Absent

\* new_id hands out a fresh identifier only over a store that reads back
\* completely, has no publication left open and has room for one more record.
NewIdOk == RecordsOk /\ ~Uncommitted /\ Cardinality(Known) < MaxRecords

----------------------------------------------------------------------------
(* The system calls, on the names of the current operation.                *)

\* A directory change: name e of the current operation now holds slot s.
Put(e, s) ==
  /\ disk'  = [disk EXCEPT ![op][e] = s]
  /\ fresh' = [fresh EXCEPT ![op][e] = @ \cup {s}]

\* The file under name e changes in place, wherever that file may recover.
Become(e, s) ==
  /\ disk'  = [disk EXCEPT ![op][e] = s]
  /\ fresh' = [fresh EXCEPT ![op][e] = (@ \ {disk[op][e]}) \cup {s}]

Nothing == [o \in Ops |-> [e \in Exts |-> {}]]

\* fsync of the directory (also the last thing Store::open does).
FsyncDir ==
  /\ stale' = [o \in Ops |-> [e \in Exts |-> stale[o][e] \cup fresh[o][e]]]
  /\ fresh' = [o \in Ops |-> [e \in Exts |-> {disk[o][e]}]]
  /\ UNCHANGED disk

\* F_FULLFSYNC of the file under name e.
FullSync(e) ==
  /\ Become(e, Synced(disk[op][e].rec))
  /\ stale' = Nothing

----------------------------------------------------------------------------
(* publish_with, one system call per action.                               *)

Stages == {"idle", "marker_create", "marker_write", "marker_sync",
           "marker_dirsync", "marker_fullsync", "next_create", "next_write",
           "next_sync", "rename", "rename_dirsync", "final_fullsync",
           "unlink", "unlink_dirsync"}

Results == {"none", "ok", "cleanup_error", "err"}

Goto(s) == stage' = s /\ UNCHANGED <<op, record, fallback, result>>

Finish(r) ==
  /\ stage' = "idle"
  /\ result' = r
  /\ UNCHANGED <<op, record, fallback>>

\* Entry of publish_with: the previous receipt is read back from the store,
\* not taken from memory.  The caller has just set record'.
Begin(initial) ==
  /\ stage = "idle"
  /\ IF initial THEN disk[op']["json"] = Absent ELSE Readable(disk[op']["json"])
  /\ fallback' = Fallback(record',
                          IF initial THEN AllPlanned ELSE disk[op']["json"].rec)
  /\ stage' = "marker_create"
  /\ result' = "none"
  /\ UNCHANGED disks

\* write_snapshot: O_EXCL creation, then the bytes, then their full sync.
CreateMarker ==
  /\ stage = "marker_create"
  /\ disk[op]["pending"] = Absent
  /\ Put("pending", Torn)
  /\ UNCHANGED stale
  /\ Goto("marker_write")

WriteMarker ==
  /\ stage = "marker_write"
  /\ Become("pending", Written(fallback))
  /\ UNCHANGED stale
  /\ Goto("marker_sync")

SyncMarker ==
  /\ stage = "marker_sync"
  /\ FullSync("pending")
  /\ Goto("marker_dirsync")

FsyncMarkerName ==
  /\ stage = "marker_dirsync"
  /\ FsyncDir
  /\ Goto("marker_fullsync")

FullSyncMarker ==
  /\ stage = "marker_fullsync"
  /\ FullSync("pending")
  /\ Goto("next_create")

CreateNext ==
  /\ stage = "next_create"
  /\ disk[op]["next"] = Absent
  /\ Put("next", Torn)
  /\ UNCHANGED stale
  /\ Goto("next_write")

WriteNext ==
  /\ stage = "next_write"
  /\ Become("next", Written(record))
  /\ UNCHANGED stale
  /\ Goto("next_sync")

\* Mutant: the staged receipt is renamed without having been synced.
SyncNextSkipped == stage = "next_sync" /\ UNCHANGED disks /\ Goto("rename")

SyncNext ==
  /\ stage = "next_sync"
  /\ FullSync("next")
  /\ Goto("rename")

RenameNext ==
  /\ stage = "rename"
  /\ disk'  = [disk EXCEPT ![op]["json"] = disk[op]["next"], ![op]["next"] = Absent]
  /\ fresh' = [fresh EXCEPT ![op]["json"] = @ \cup {disk[op]["next"]},
                            ![op]["next"] = @ \cup {Absent}]
  /\ UNCHANGED stale
  /\ Goto("rename_dirsync")

FsyncRename ==
  /\ stage = "rename_dirsync"
  /\ FsyncDir
  /\ Goto("final_fullsync")

\* Mutant: the marker is removed while the rename is still in the cache.
FullSyncFinalSkipped == stage = "final_fullsync" /\ UNCHANGED disks /\ Goto("unlink")

\* The receipt is durable once this full sync returns.
FullSyncFinal ==
  /\ stage = "final_fullsync"
  /\ FullSync("json")
  /\ Goto("unlink")

UnlinkMarker ==
  /\ stage = "unlink"
  /\ Put("pending", Absent)
  /\ UNCHANGED stale
  /\ Goto("unlink_dirsync")

FsyncUnlink ==
  /\ stage = "unlink_dirsync"
  /\ FsyncDir
  /\ Finish("ok")

\* Any call may fail.  Up to the final full sync that is an error; later the
\* receipt is durable and only the clean-up has failed.
PublishError ==
  /\ stage # "idle"
  /\ Finish(IF stage \in {"unlink", "unlink_dirsync"} THEN "cleanup_error" ELSE "err")
  /\ UNCHANGED disks

PublishStep ==
  \/ CreateMarker \/ WriteMarker \/ SyncMarker \/ FsyncMarkerName
  \/ FullSyncMarker \/ CreateNext \/ WriteNext \/ SyncNext \/ RenameNext
  \/ FsyncRename \/ FullSyncFinal \/ UnlinkMarker \/ FsyncUnlink

----------------------------------------------------------------------------
(* Failures of the machine around the store.                               *)

\* Power fails: each name comes back with one of the values it may hold.
PowerFailure ==
  /\ \E d \in [Ops -> UNION {Recoverable(o) : o \in Ops}] :
       /\ \A o \in Ops : d[o] \in Recoverable(o)
       /\ disk'  = d
       /\ fresh' = [o \in Ops |-> [e \in Exts |-> {d[o][e]}]]
  /\ stale' = Nothing
  /\ stage' = "idle"
  /\ result' = "none"
  /\ UNCHANGED <<op, record, fallback>>

\* The process dies; the kernel keeps what it has been told.
ProcessExit ==
  /\ stage' = "idle"
  /\ result' = "none"
  /\ UNCHANGED <<disk, stale, fresh, op, record, fallback>>

StoreInit ==
  /\ disk  = [o \in Ops |-> [e \in Exts |-> Absent]]
  /\ stale = Nothing
  /\ fresh = [o \in Ops |-> [e \in Exts |-> {Absent}]]
  /\ op = 0
  /\ record = AllPlanned
  /\ fallback = AllPlanned
  /\ stage = "idle"
  /\ result = "none"

StoreTypeOK ==
  /\ disk \in [Ops -> [Exts -> Slots]]
  /\ stale \in [Ops -> [Exts -> SUBSET Slots]]
  /\ fresh \in [Ops -> [Exts -> SUBSET Slots]]
  /\ op \in 0..MaxOps
  /\ record \in Record
  /\ fallback \in Record
  /\ stage \in Stages
  /\ result \in Results

----------------------------------------------------------------------------
(* Properties of the store, whatever its caller publishes.                 *)

\* Code: the marker is removed only after the final full sync, so records()
\* never shows an outcome that a power failure could still take back: if any
\* recoverable directory reads an item as Succeeded or Failed, the committed
\* file says so in every recoverable directory.
ConfirmedMeansDurable ==
  \A o \in Ops : \A d \in Recoverable(o) :
    (Exists(d) /\ EntryReadable(d)) =>
      \A i \in Items : Reading(d)[i] \in Outcome =>
        \A s \in Possible(o, "json") : s.kind = "synced" /\ s.rec[i] = d[Source(d)].rec[i]

\* Code: <id>.next is created after the marker is durable and renamed away
\* before the marker is removed; records() therefore never meets the
\* "orphaned journal staging snapshot" it refuses to read.
NoOrphanStage ==
  \A o \in Ops : \A d \in Recoverable(o) :
    d["next"] # Absent => d["pending"] # Absent

\* Code: the rename publishes only a fully synced file, so a committed
\* receipt is never torn; only a marker can be unreadable.
CommittedNeverTorn ==
  \A o \in Ops : \A s \in Possible(o, "json") : s.kind \in {"absent", "synced"}

\* Code: new_id's record limit is exclusive.  However many publications were
\* left half-way, the store stays within the limit that records() accepts.
WithinRecordLimit ==
  Cardinality({o \in Ops : \E d \in Recoverable(o) : Exists(d)}) <= MaxRecords

\* publish_with has told its caller that the receipt is durable.
ReceiptConfirmed == stage = "idle" /\ result \in {"ok", "cleanup_error"}

\* Code: records() refuses the whole store, and with it new_id every further
\* operation, for one operation it cannot read, and v1 has no repair.  One way
\* there is left open: a death, a failing call or a power failure between the
\* creation of a marker and its full sync leaves an empty or torn .pending
\* (read_record, store.rs:312).  It is the only one.  Whatever may recover is
\* refused for the marker of the last operation, and only while its publication
\* is unconfirmed: the committed receipts, the one beneath that marker too, are
\* whole, no stage is orphaned, and there are never more records than records()
\* reads.
OnlyATornMarkerRefuses ==
  /\ NoOrphanStage
  /\ CommittedNeverTorn
  /\ WithinRecordLimit
  /\ \A o \in Ops : \A d \in Recoverable(o) :
       (Exists(d) /\ ~EntryReadable(d)) =>
         o = op /\ ~ReceiptConfirmed /\ d["pending"] = Torn /\ d["next"] = Absent

=============================================================================
