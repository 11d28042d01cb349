------------------------- MODULE InstallationProofs -------------------------
(***************************************************************************)
(* Proofs about Installation, for any processes, images and number of      *)
(* operations, stops and power failures: a success survives, and an        *)
(* executable that its manifest does not describe is always flagged.       *)
(***************************************************************************)
EXTENDS Installation, TLAPS

\* Values a name may recover with, apart from torn ones, and the older ones.
Older(s) == dirty[s] \cup cached[s]
Vals(s) == {disk[s]} \cup Older(s)

FileStates == {"absent", "torn", "written", "synced"}
Files == [ino : 0..MaxOps, ver : Nat, state : FileStates]
Records == [state : FileStates, stage : 0..5, by : 0..MaxOps, pkg : 0..MaxOps,
            cur : Nat, cand : Nat, outcome : {"none", "Published", "Abandoned"}]
Values == Files \cup Records
ValuesOf(s) == IF s \in {Rec, NextRec} THEN Records ELSE Files

RecordPcs == {"create", "fill", "rename", "recsync"}
UpdatePcs == {"u_guard", "u_guardsync", "u_stage", "u_sync", "u_bin", "u_binsync", "u_man",
              "u_mansync"}
RecoverPcs == {"r_exe", "r_sman", "r_man", "r_mansync"}
EndPcs == {"drop", "resync", "outcome", "guard", "guardsync"}
InstPcs == RecordPcs \cup UpdatePcs \cup RecoverPcs \cup EndPcs \cup {"same", "same_done", "detach"}
GonePcs == {"detached", "payload", "manifest", "root"}
HoldPcs == InstPcs \cup GonePcs \cup {"i_publish"}
Pcs == HoldPcs \cup {"idle", "i_stage", "reopen", "r_stat", "r_open"}

Locals == [pc : Pcs, id : 0..MaxOps, pkg : 0..MaxOps, cand : Nat, rec : Records,
           then : {"idle", "u_stage", "u_bin", "u_man", "drop", "guard"},
           mode : {"None", "Update", "Abandon", "Finalize", "Confirm"}, next : BOOLEAN]

FilesOK ==
  /\ disk \in [Slots -> Values]
  /\ dirty \in [Slots -> SUBSET Values] /\ cached \in [Slots -> SUBSET Values]

TypeOK ==
  /\ FilesOK
  /\ \A s \in Slots : Vals(s) \subseteq ValuesOf(s)
  /\ lock \in [OpIds -> Procs \cup {"free"}]
  /\ local \in [Procs -> Locals]
  /\ started \in 0..MaxOps
  /\ promise \in Int

----------------------------------------------------------------------------
(* The invariant: what a process relies on.                                *)

\* A process l (its local state) is at one of the places S, or will be once a
\* record is written.
Heading(l, S) == l.pc \in S \/ (l.pc \in RecordPcs /\ l.then \in S)

\* Whoever works on a package holds its lock; the package is the installed one,
\* or has been detached, or was not published yet.
HoldsLock(p, l) ==
  /\ l.pkg <= started /\ (l.pc # "idle" => l.id \in 1..started)
  /\ l.pc \in HoldPcs => l.pkg \in OpIds /\ lock[l.pkg] = p
  /\ l.pc \in InstPcs => Installed = l.pkg
  /\ l.pc \in GonePcs \cup {"i_stage", "i_publish"} => Installed # l.pkg
  /\ l.pc \in {"i_stage", "i_publish"} => l.pkg = l.id

\* The installed package i is as durable as sync_published makes it.
Settled(i) ==
  /\ i \in OpIds /\ Older(Prefix) \subseteq {disk[Prefix]}
  /\ disk[Exe(i)].state = "synced" /\ Older(Exe(i)) \subseteq {disk[Exe(i)]}
  /\ disk[Man(i)].state = "synced" /\ Older(Man(i)) \subseteq {disk[Man(i)]}
  /\ disk[Exe(i)].ino = disk[Man(i)].ino

\* What was synchronized stays so until the operation answers, and while an
\* update is between its renames nothing is promised.
Earned(l) ==
  /\ Heading(l, {"same_done", "outcome", "guard", "guardsync"}) => Settled(l.pkg)
  /\ Heading(l, {"u_binsync", "u_man"}) => promise = 0

\* A record names an operation and two different images.
Proper(r) == r.stage # 0 => r.by \in OpIds /\ r.cur # r.cand

CarryPcs == (RecordPcs \cup RecoverPcs \cup EndPcs \cup UpdatePcs \cup {"reopen"})
              \ {"u_guard", "u_guardsync"}

Carries(l) ==
  /\ l.pc \in CarryPcs => l.rec.stage # 0 /\ Proper(l.rec)
  /\ l.pc \in {"u_guard", "u_guardsync"} => l.cand # disk[Man(l.pkg)].ver

\* Until it stages its files, an operation has created none.
ImageSlots == UNION {{Exe(i), Man(i), SExe(i), SMan(i)} : i \in OpIds}
Images == UNION {Vals(s) : s \in ImageSlots}
Empty(i) == \A f \in Vals(Exe(i)) \cup Vals(Man(i)) : f.state = "absent"

Stages(l) ==
  /\ Heading(l, {"i_stage", "u_guard", "u_guardsync", "u_stage"}) =>
       \A f \in Images : f.ino # l.id
  /\ l.pc = "i_stage" => Empty(l.pkg)

IsWhole(f) == f.state \in {"written", "synced"}
IsPending(r) == r.state = "torn" \/ r.stage \in 1..4

\* Whatever fails, package i stays installed, with its guard and a pending record.
Flagged(i) ==
  /\ Installed = i /\ Older(Prefix) \subseteq {disk[Prefix]}
  /\ \A g \in Vals(Guard(i)) : g.state # "absent"
  /\ \A r \in Vals(Rec) : IsPending(r)

\* How an update comes to be flagged: the guard, then the first record, both
\* durable before the first rename.
Flags(l) ==
  /\ Heading(l, {"u_guardsync", "u_stage", "u_sync"}) => Present(Guard(l.pkg))
  /\ Heading(l, {"u_stage", "u_sync"}) => dirty[Guard(l.pkg)] = {}
  /\ Heading(l, {"u_stage", "u_sync"}) /\ l.pc \notin {"create", "fill"} =>
       cached[Guard(l.pkg)] = {}
  /\ Heading(l, {"u_bin", "u_binsync", "u_man", "r_man"}) => Flagged(l.pkg)

Lays(l) ==
  /\ l.pc \in RecordPcs => /\ l.then # "idle"
                           /\ l.then # "guard" => l.rec.stage \in 1..4
  /\ l.pc \in {"fill", "rename"} =>
       Present(NextRec) /\ disk[NextRec] = [l.rec EXCEPT !.state = disk[NextRec].state]
  /\ l.pc = "recsync" /\ l.then = "u_stage" => disk[Rec].stage \in 1..4
  /\ l.pc \in {"u_stage", "u_sync"} =>
       disk[Rec].stage \in 1..4 /\ dirty[Prefix] = {} /\ dirty[Rec] = {}

Works(p, l) == HoldsLock(p, l) /\ Earned(l) /\ Carries(l) /\ Stages(l) /\ Flags(l) /\ Lays(l)
Own(p) == Works(p, Me(p))

----------------------------------------------------------------------------
(* The invariant: what holds of the files.                                 *)

\* Operations have numbers of their own, and a package that is not published
\* is known to one of them only.
Separate ==
  \A p, q \in Procs : p # q =>
    /\ ~At(p, "idle") /\ ~At(q, "idle") => Me(p).id # Me(q).id
    /\ Me(p).pc \in {"i_stage", "i_publish"} => Me(q).pkg # Me(p).pkg

PrefixIsWhole == \A f \in Vals(Prefix) : f.ino <= started /\ f.state # "written"

PromiseIsBacked ==
  /\ promise # 0 => Older(Prefix) \subseteq {disk[Prefix]}
  /\ promise = RemovedImage => Installed = 0
  /\ promise \in Versions => Settled(Installed) /\ disk[Exe(Installed)].ver = promise

RecordsAreProper == \A r \in Vals(Rec) \cup Vals(NextRec) : Proper(r)

\* The operation that created a file determines what it holds.
ImagesAreOfOneKind ==
  /\ \A f, g \in Images : f.ino = g.ino => f.ver = g.ver
  /\ \A f \in Images : f.ino <= started /\ (f.ino = 0 => f.ver = 0)

UnstartedIsEmpty == \A i \in OpIds : i > started => Empty(i)

\* A power failure may leave an executable and a manifest that do not match.
Mixed(i) == \E f \in Vals(Exe(i)), g \in Vals(Man(i)) : IsWhole(f) /\ IsWhole(g) /\ f.ino # g.ino

MixturesAreFlagged == \A i \in OpIds : Mixed(i) => Flagged(i)

IInv ==
  /\ TypeOK
  /\ Separate
  /\ PrefixIsWhole
  /\ PromiseIsBacked
  /\ RecordsAreProper
  /\ ImagesAreOfOneKind
  /\ UnstartedIsEmpty
  /\ MixturesAreFlagged
  /\ \A p \in Procs : Own(p)

----------------------------------------------------------------------------
(* Names and what the file operations do to them.                          *)

LEMMA SlotNames ==
  /\ Prefix[1] = "prefix" /\ Rec[1] = "rec" /\ NextRec[1] = "next"
  /\ \A i : /\ Exe(i)[1] = "exe" /\ Exe(i)[2] = i
            /\ Man(i)[1] = "man" /\ Man(i)[2] = i
            /\ Guard(i)[1] = "guard" /\ Guard(i)[2] = i
            /\ SExe(i)[1] = "sexe" /\ SExe(i)[2] = i
            /\ SMan(i)[1] = "sman" /\ SMan(i)[2] = i
  BY DEF Prefix, Rec, NextRec, Exe, Man, Guard, SExe, SMan

LEMMA SlotSets ==
  /\ Prefix \in Slots /\ Rec \in Slots /\ NextRec \in Slots
  /\ Prefix \in Parent /\ Rec \in Parent /\ NextRec \in Parent
  /\ \A i \in OpIds : /\ Exe(i) \in Slots /\ Man(i) \in Slots /\ Guard(i) \in Slots
                      /\ SExe(i) \in Slots /\ SMan(i) \in Slots
                      /\ SExe(i) \in Parent /\ SMan(i) \in Parent
                      /\ Exe(i) \in Bin(i) /\ Man(i) \in Root(i) /\ Guard(i) \in Root(i)
  /\ \A s \in Slots : \/ s \in {Prefix, Rec, NextRec}
                      \/ \E i \in OpIds : s \in {Exe(i), Man(i), Guard(i), SExe(i), SMan(i)}
  /\ \A i \in OpIds : Exe(i) \notin Parent /\ Man(i) \notin Parent /\ Guard(i) \notin Parent
<1>1. \A i \in OpIds : Exe(i) \notin Parent /\ Man(i) \notin Parent /\ Guard(i) \notin Parent
  BY SlotNames DEF Parent
<1>2. /\ Prefix \in Parent /\ Rec \in Parent /\ NextRec \in Parent
      /\ \A i \in OpIds : SExe(i) \in Parent /\ SMan(i) \in Parent
      /\ \A i \in OpIds : Exe(i) \in Bin(i) /\ Man(i) \in Root(i) /\ Guard(i) \in Root(i)
  BY DEF Parent, Bin, Root
<1>3. \A s \in Slots : \/ s \in {Prefix, Rec, NextRec}
                       \/ \E i \in OpIds : s \in {Exe(i), Man(i), Guard(i), SExe(i), SMan(i)}
  BY DEF Slots, Parent, Bin, Root
<1>4. Parent \subseteq Slots /\ \A i \in OpIds : Root(i) \subseteq Slots /\ Bin(i) \subseteq Slots
  BY DEF Slots
<1> QED
  BY <1>1, <1>2, <1>3, <1>4

\* A step leaves name s alone: what the running system sees stays, and no older
\* value appears.
Quiet(s) == disk'[s] = disk[s] /\ dirty'[s] \subseteq dirty[s] /\ cached'[s] \subseteq Older(s)

\* The values of s after a step, which are old ones or in N.
NewVals(s) == {disk'[s]} \cup dirty'[s] \cup cached'[s]
Grows(s, N) == \A f \in NewVals(s) : f \in Vals(s) \/ f \in N

LEMMA WriteEffect ==
  ASSUME FilesOK, NEW s \in Slots, NEW v \in Values, Write(s, v)
  PROVE  /\ FilesOK'
         /\ \A t \in Slots : t # s => Quiet(t)
         /\ disk'[s] = v /\ dirty'[s] = dirty[s] \cup {disk[s]} /\ cached'[s] = cached[s]
         /\ Grows(s, {v})
<1>1. /\ disk' = [disk EXCEPT ![s] = v] /\ dirty' = [dirty EXCEPT ![s] = dirty[s] \cup {disk[s]}]
      /\ cached' = cached
  BY DEF Write, Put, Forgets
<1> QED
  BY <1>1 DEF FilesOK, Quiet, Grows, NewVals, Vals, Older

LEMMA MoveEffect ==
  ASSUME FilesOK, NEW a \in Slots, NEW b \in Slots, a # b, Move(a, b)
  PROVE  /\ FilesOK'
         /\ \A t \in Slots : t \notin {a, b} => Quiet(t)
         /\ disk'[b] = disk[a] /\ disk'[a] = IF a = NextRec THEN NoRecord ELSE Absent
         /\ Grows(a, {disk'[a]}) /\ Grows(b, {disk[a]})
<1> DEFINE gone == IF a = NextRec THEN NoRecord ELSE Absent
<1>1. gone \in Values
  BY InstallationAssumption DEF Values, NoRecord, Absent, Files, Records, FileStates
<1>2. /\ disk' = [disk EXCEPT ![b] = disk[a], ![a] = gone]
      /\ dirty' = [dirty EXCEPT ![a] = dirty[a] \cup {disk[a]}, ![b] = dirty[b] \cup {disk[b]}]
      /\ cached' = cached
  BY DEF Move
<1> HIDE DEF gone
<1>3. /\ FilesOK' /\ \A t \in Slots : t \notin {a, b} => Quiet(t)
      /\ disk'[b] = disk[a] /\ disk'[a] = gone /\ Grows(a, {gone}) /\ Grows(b, {disk[a]})
  BY <1>1, <1>2 DEF FilesOK, Quiet, Grows, NewVals, Vals, Older
<1> QED
  BY <1>3 DEF gone

LEMMA FsyncEffect ==
  ASSUME FilesOK, NEW D, Fsync(D)
  PROVE  /\ FilesOK' /\ \A t \in Slots : Quiet(t) /\ NewVals(t) = Vals(t)
         /\ \A t \in Slots : t \in D => dirty'[t] = {}
  BY DEF FilesOK, Fsync, Quiet, NewVals, Vals, Older

LEMMA SyncedValue ==
  ASSUME NEW v \in Values
  PROVE  [v EXCEPT !.state = "synced"] \in Values
  BY DEF Values, Files, Records, FileStates

LEMMA FullSyncEffect ==
  ASSUME FilesOK, NEW s \in Slots, FullSync({s})
  PROVE  /\ FilesOK' /\ \A t \in Slots : t # s => Quiet(t)
         /\ \A t \in Slots : cached'[t] = {} /\ dirty'[t] \subseteq dirty[t]
         /\ disk'[s] = [disk[s] EXCEPT !.state = "synced"]
         /\ Grows(s, {[disk[s] EXCEPT !.state = "synced"]})
<1>1. /\ disk' = [t \in Slots |-> IF t \in {s} THEN [disk[t] EXCEPT !.state = "synced"] ELSE disk[t]]
      /\ cached' = [t \in Slots |-> {}]
      /\ dirty' = [t \in Slots |-> IF t \in {s} THEN {v \in dirty[t] : v.state = "absent"} ELSE dirty[t]]
  BY DEF FullSync
<1>2. [disk[s] EXCEPT !.state = "synced"] \in Values
  BY SyncedValue DEF FilesOK
<1> QED
  BY <1>1, <1>2 DEF FilesOK, Quiet, Grows, NewVals, Vals, Older

LEMMA SyncPublishedEffect ==
  ASSUME FilesOK, NEW i \in OpIds, SyncPublished(i)
  PROVE  /\ FilesOK' /\ \A t \in Slots : t \notin {Exe(i), Man(i)} => Quiet(t)
         /\ \A t \in Slots : cached'[t] = {} /\ dirty'[t] \subseteq dirty[t]
         /\ dirty'[Prefix] = {} /\ dirty'[Exe(i)] = {} /\ dirty'[Man(i)] = {}
         /\ disk'[Exe(i)] = [disk[Exe(i)] EXCEPT !.state = "synced"]
         /\ disk'[Man(i)] = [disk[Man(i)] EXCEPT !.state = "synced"]
<1>1. /\ disk' = [t \in Slots |-> IF t \in {Exe(i), Man(i)} THEN [disk[t] EXCEPT !.state = "synced"] ELSE disk[t]]
      /\ cached' = [t \in Slots |-> {}]
      /\ dirty' = [t \in Slots |-> IF t \in Parent \cup Root(i) \cup Bin(i) THEN {} ELSE dirty[t]]
  BY DEF SyncPublished
<1>2. \A s \in Slots : [disk[s] EXCEPT !.state = "synced"] \in Values
  BY SyncedValue DEF FilesOK
<1> QED
  BY <1>1, <1>2, SlotSets DEF FilesOK, Quiet, Vals, Older

LEMMA UnlinkEffect ==
  ASSUME FilesOK, NEW s \in Slots, NEW D, Unlink(s, D)
  PROVE  /\ FilesOK' /\ \A t \in Slots : t # s => Quiet(t)
         /\ disk'[s] = Absent /\ Grows(s, {Absent})
<1>1. Absent \in Values
  BY InstallationAssumption DEF Values, Absent, Files, FileStates
<1>2. /\ disk' = [disk EXCEPT ![s] = Absent]
      /\ cached' = [t \in Slots |-> IF t \in D THEN cached[t] \cup [dirty EXCEPT ![s] = dirty[s] \cup {disk[s]}][t]
                                      ELSE cached[t]]
      /\ dirty' = [t \in Slots |-> IF t \in D THEN {} ELSE dirty[t]]
  BY DEF Unlink, Put, Forgets
<1> QED
  BY <1>1, <1>2 DEF FilesOK, Quiet, Grows, NewVals, Vals, Older

----------------------------------------------------------------------------
(* What a step of a process does to the files, in one fact for all steps.  *)

Step(p) ==
  \/ \E v \in Versions : InstallNew(p, v) \/ UpdatePrepare(p, v)
  \/ InstallSame(p) \/ StagePackage(p) \/ PublishPackage(p)
  \/ RecoverPrepare(p) \/ RecoverStat(p) \/ RecoverOpen(p)
  \/ AbandonExecutable(p) \/ AbandonManifest(p) \/ FinalizeManifest(p)
  \/ SyncFinalized(p)
  \/ RemovePrepare(p) \/ Detach(p) \/ SyncDetached(p) \/ RemovePayload(p)
  \/ RemoveManifest(p) \/ RemoveRoot(p)
  \/ UpdateStep(p) \/ CommonStep(p)
  \/ Refuse(p) \/ Stop(p)

AsSynced(s) == [disk[s] EXCEPT !.state = "synced"]

TouchRecord(p, s) ==
  \/ s = NextRec /\ At(p, "create") /\ Grows(s, {[Me(p).rec EXCEPT !.state = "torn"]})
  \/ s = NextRec /\ At(p, "fill") /\ Grows(s, {AsSynced(s)})
  \/ s = NextRec /\ At(p, "rename") /\ Grows(s, {NoRecord})
  \/ s = Rec /\ At(p, "rename") /\ Grows(s, {disk[NextRec]})

TouchPrefix(p, s) ==
  \/ /\ s = Prefix /\ At(p, "i_publish") /\ Installed = 0
     /\ Grows(s, {File(Me(p).pkg, 0, "synced")}) /\ disk'[s] = File(Me(p).pkg, 0, "synced")
  \/ s = Prefix /\ At(p, "detach") /\ Grows(s, {Absent}) /\ disk'[s] = Absent

TouchGuard(p, s) ==
  /\ s = Guard(Me(p).pkg)
  /\ \/ At(p, "u_guard") /\ ~Present(s) /\ Grows(s, {File(Me(p).id, 0, "written")})
     \/ At(p, "u_guardsync") /\ Grows(s, {AsSynced(s)})
     \/ At(p, "guard") /\ Grows(s, {Absent})

TouchPackage(p, s) ==
  \/ /\ s \in {Exe(Me(p).pkg), Man(Me(p).pkg)}
     /\ \/ /\ At(p, "i_stage") /\ Grows(s, {File(Me(p).id, Me(p).cand, "synced"), Absent})
        \/ /\ Me(p).pc \in {"same", "resync"} /\ Strict(Me(p).pkg) /\ NewVals(s) = {AsSynced(s)}
  \/ /\ s = Exe(Me(p).pkg)
     /\ \/ At(p, "u_bin") /\ Grows(s, {disk[SExe(Me(p).id)]})
        \/ At(p, "payload") /\ Grows(s, {Absent})
  \/ /\ s = Man(Me(p).pkg)
     /\ \/ At(p, "u_man") /\ Grows(s, {disk[SMan(Me(p).id)]})
        \/ At(p, "r_man") /\ Grows(s, {disk[SMan(Me(p).rec.by)]})
        \/ At(p, "manifest") /\ Grows(s, {Absent})

TouchStaged(p, s) ==
  \E i \in OpIds :
    /\ s \in {SExe(i), SMan(i)}
    /\ \/ At(p, "u_stage") /\ Grows(s, {File(Me(p).id, Me(p).cand, "written"), Absent})
       \/ At(p, "u_sync") /\ Grows(s, {AsSynced(s)})
       \/ Me(p).pc \in {"u_bin", "u_man", "r_exe", "r_sman", "r_man"} /\ Grows(s, {Absent})

Touch(p, s) ==
  TouchRecord(p, s) \/ TouchPrefix(p, s) \/ TouchGuard(p, s) \/ TouchPackage(p, s) \/ TouchStaged(p, s)

Effects(p) == FilesOK' /\ \A s \in Slots : Quiet(s) \/ Touch(p, s)

\* The facts about a process that its file operations need.
LEMMA ProcFacts ==
  ASSUME IInv, NEW p \in Procs
  PROVE  /\ FilesOK /\ Me(p) \in Locals
         /\ Me(p).pc \in HoldPcs \cup {"i_stage"} => Me(p).pkg \in OpIds
         /\ ~At(p, "idle") => Me(p).id \in OpIds
         /\ Me(p).pc \in CarryPcs => Me(p).rec.by \in OpIds
         /\ \A i \in OpIds : \A v \in Nat : \A s \in FileStates : File(i, v, s) \in Values
         /\ Absent \in Values
         /\ \A st \in FileStates : [Me(p).rec EXCEPT !.state = st] \in Values
<1>1. Own(p) /\ TypeOK
  BY DEF IInv
<1>2. Me(p) \in Locals /\ FilesOK /\ started \in 0..MaxOps
  BY <1>1 DEF TypeOK, Me
<1>3. MaxOps \in Nat
  BY InstallationAssumption
<1>4. ~At(p, "idle") => Me(p).id \in OpIds
  BY <1>1, <1>2, <1>3 DEF Own, Works, HoldsLock, OpIds, Locals, At, Me
<1>5. Me(p).pc \in HoldPcs \cup {"i_stage"} => Me(p).pkg \in OpIds
  BY <1>1, <1>4 DEF Own, Works, HoldsLock, At, Me
<1>6. Me(p).pc \in CarryPcs => Me(p).rec.by \in OpIds
  BY <1>1 DEF Own, Works, Carries, Proper
<1>7. /\ \A i \in OpIds : \A v \in Nat : \A s \in FileStates : File(i, v, s) \in Values
      /\ Absent \in Values
  BY <1>3 DEF Values, Files, File, OpIds, Absent, FileStates
<1>8. \A st \in FileStates : [Me(p).rec EXCEPT !.state = st] \in Values
  BY <1>2 DEF Locals, Records, Values
<1> QED
  BY <1>2, <1>4, <1>5, <1>6, <1>7, <1>8

LEMMA NoEffect ==
  ASSUME FilesOK, NEW p, UNCHANGED files
  PROVE  Effects(p)
  BY DEF files, Effects, FilesOK, Quiet, Older

LEMMA FsyncEffects ==
  ASSUME FilesOK, NEW p, NEW D, Fsync(D)
  PROVE  Effects(p)
  BY FsyncEffect DEF Effects

LEMMA RecordEffects ==
  ASSUME IInv, NEW p \in Procs, CreateNext(p) \/ FillNext(p) \/ RenameNext(p) \/ FsyncRecord(p)
  PROVE  Effects(p)
<1>1. CASE CreateNext(p)
  <2>1. At(p, "create") /\ Write(NextRec, [Me(p).rec EXCEPT !.state = "torn"])
    BY <1>1 DEF CreateNext
  <2> QED
    BY <2>1, ProcFacts, SlotSets, WriteEffect DEF Effects, Touch, TouchRecord, FileStates
<1>2. CASE FillNext(p)
  <2>1. At(p, "fill") /\ FullSync({NextRec})
    BY <1>2 DEF FillNext
  <2> QED
    BY <2>1, ProcFacts, SlotSets, FullSyncEffect DEF Effects, Touch, TouchRecord, AsSynced
<1>3. CASE RenameNext(p)
  <2>1. At(p, "rename") /\ Move(NextRec, Rec) /\ NextRec # Rec
    BY <1>3, SlotNames DEF RenameNext
  <2>2. FilesOK' /\ (\A t \in Slots : t \notin {NextRec, Rec} => Quiet(t))
        /\ Grows(NextRec, {NoRecord}) /\ Grows(Rec, {disk[NextRec]})
    BY <2>1, ProcFacts, SlotSets, MoveEffect
  <2> QED
    BY <2>1, <2>2 DEF Effects, Touch, TouchRecord
<1>4. CASE FsyncRecord(p)
  BY <1>4, ProcFacts, FsyncEffects DEF FsyncRecord
<1> QED
  BY <1>1, <1>2, <1>3, <1>4

LEMMA SyncThenEffects ==
  ASSUME IInv, NEW p \in Procs, Me(p).pc \in {"same", "resync"}, NEW pc, SyncThen(p, pc)
  PROVE  Effects(p)
<1>1. Me(p).pkg \in OpIds /\ FilesOK /\ Strict(Me(p).pkg) /\ SyncPublished(Me(p).pkg)
  BY ProcFacts DEF SyncThen, HoldPcs, InstPcs, EndPcs
<1> DEFINE i == Me(p).pkg
<1>2. /\ FilesOK' /\ \A t \in Slots : t \notin {Exe(i), Man(i)} => Quiet(t)
      /\ NewVals(Exe(i)) = {AsSynced(Exe(i))} /\ NewVals(Man(i)) = {AsSynced(Man(i))}
  BY <1>1, SlotSets, SyncPublishedEffect DEF NewVals, AsSynced
<1> QED
  BY <1>1, <1>2 DEF Effects, Touch, TouchPackage

LEMMA StagePackageEffects ==
  ASSUME IInv, NEW p \in Procs, StagePackage(p)
  PROVE  Effects(p)
<1> DEFINE i == Me(p).pkg
           f == File(Me(p).id, Me(p).cand, "synced")
<1>1. i \in OpIds /\ Me(p).id \in OpIds /\ FilesOK /\ At(p, "i_stage") /\ f \in Values /\ Absent \in Values
  BY ProcFacts DEF StagePackage, At, Me, Locals, FileStates
<1>2. /\ disk' = [disk EXCEPT ![Exe(i)] = f, ![Man(i)] = f]
      /\ cached' = [cached EXCEPT ![Exe(i)] = {Absent}, ![Man(i)] = {Absent}]
      /\ dirty' = dirty
  BY DEF StagePackage
<1>3. Exe(i) # Man(i) /\ Exe(i) \in Slots /\ Man(i) \in Slots
  BY <1>1, SlotNames, SlotSets
<1> HIDE DEF i, f
<1>4. FilesOK' /\ (\A t \in Slots : t \notin {Exe(i), Man(i)} => Quiet(t))
  BY <1>1, <1>2, <1>3 DEF FilesOK, Quiet, Older
<1>5. Grows(Exe(i), {f, Absent}) /\ Grows(Man(i), {f, Absent})
  BY <1>1, <1>2, <1>3 DEF FilesOK, Grows, NewVals, Vals, Older
<1> QED
  BY <1>1, <1>4, <1>5 DEF Effects, Touch, TouchPackage, i, f

LEMMA PublishRemoveEffects ==
  ASSUME IInv, NEW p \in Procs,
         \/ PublishPackage(p) \/ Detach(p) \/ SyncDetached(p) \/ RemovePayload(p)
         \/ RemoveManifest(p) \/ RemoveRoot(p)
  PROVE  Effects(p)
<1>1. CASE PublishPackage(p)
  <2>1. /\ At(p, "i_publish") /\ Installed = 0 /\ Write(Prefix, File(Me(p).pkg, 0, "synced"))
        /\ File(Me(p).pkg, 0, "synced") \in Values
    BY <1>1, ProcFacts DEF PublishPackage, At, Me, HoldPcs, FileStates
  <2> QED
    BY <2>1, ProcFacts, SlotSets, WriteEffect DEF Effects, Touch, TouchPrefix
<1>2. CASE Detach(p)
  <2>1. At(p, "detach") /\ Write(Prefix, Absent)
    BY <1>2 DEF Detach
  <2> QED
    BY <2>1, ProcFacts, SlotSets, WriteEffect DEF Effects, Touch, TouchPrefix
<1>3. CASE SyncDetached(p)
  BY <1>3, ProcFacts, FsyncEffects DEF SyncDetached
<1>4. CASE RemovePayload(p)
  <2>1. At(p, "payload") /\ Unlink(Exe(Me(p).pkg), Bin(Me(p).pkg)) /\ Me(p).pkg \in OpIds
    BY <1>4, ProcFacts DEF RemovePayload, At, Me, HoldPcs, GonePcs
  <2> QED
    BY <2>1, ProcFacts, SlotSets, UnlinkEffect DEF Effects, Touch, TouchPackage
<1>5. CASE RemoveManifest(p)
  <2>1. At(p, "manifest") /\ Unlink(Man(Me(p).pkg), Root(Me(p).pkg)) /\ Me(p).pkg \in OpIds
    BY <1>5, ProcFacts DEF RemoveManifest, At, Me, HoldPcs, GonePcs
  <2> QED
    BY <2>1, ProcFacts, SlotSets, UnlinkEffect DEF Effects, Touch, TouchPackage
<1>6. CASE RemoveRoot(p)
  BY <1>6, ProcFacts DEF RemoveRoot, FilesOK, Effects, Quiet, Older
<1> QED
  BY <1>1, <1>2, <1>3, <1>4, <1>5, <1>6

LEMMA UpdateEffects ==
  ASSUME IInv, NEW p \in Procs, UpdateStep(p)
  PROVE  Effects(p)
<1> DEFINE me == Me(p)
<1>0. /\ FilesOK /\ Absent \in Values /\ (me.pc \in HoldPcs => me.pkg \in OpIds)
      /\ (~At(p, "idle") => me.id \in OpIds) /\ me.cand \in Nat
      /\ \A i \in OpIds : \A v \in Nat : \A s \in FileStates : File(i, v, s) \in Values
  BY ProcFacts DEF Locals
<1>1. CASE CreateGuard(p)
  <2>1. /\ At(p, "u_guard") /\ Write(Guard(me.pkg), File(me.id, 0, "written")) /\ ~Present(Guard(me.pkg))
        /\ me.pkg \in OpIds /\ File(me.id, 0, "written") \in Values
    BY <1>1, <1>0 DEF CreateGuard, At, Me, HoldPcs, InstPcs, UpdatePcs, FileStates
  <2>2. /\ FilesOK' /\ \A t \in Slots : t # Guard(me.pkg) => Quiet(t)
        /\ Grows(Guard(me.pkg), {File(me.id, 0, "written")})
    BY <1>0, <2>1, SlotSets, WriteEffect
  <2> QED
    BY <2>1, <2>2 DEF Effects, Touch, TouchGuard
<1>2. CASE SyncGuard(p)
  <2>1. /\ At(p, "u_guardsync") /\ me.pkg \in OpIds
        /\ disk' = [disk EXCEPT ![Guard(me.pkg)].state = "synced"]
        /\ cached' = [s \in Slots |-> IF s \in Root(me.pkg) THEN dirty[s] ELSE {}]
        /\ dirty' = [s \in Slots |-> IF s \in Root(me.pkg) THEN {} ELSE dirty[s]]
    BY <1>2, <1>0 DEF SyncGuard, At, Me, HoldPcs, InstPcs, UpdatePcs
  <2>2. Guard(me.pkg) \in Slots /\ AsSynced(Guard(me.pkg)) \in Values
    BY <1>0, <2>1, SlotSets, SyncedValue DEF FilesOK, AsSynced
  <2>3. disk' = [disk EXCEPT ![Guard(me.pkg)] = AsSynced(Guard(me.pkg))]
    BY <2>1 DEF AsSynced
  <2>4. FilesOK' /\ \A t \in Slots : t # Guard(me.pkg) => Quiet(t)
    BY <1>0, <2>1, <2>2, <2>3 DEF FilesOK, Quiet, Older
  <2>5. Grows(Guard(me.pkg), {AsSynced(Guard(me.pkg))})
    BY <1>0, <2>1, <2>2, <2>3 DEF FilesOK, Grows, NewVals, Vals, Older
  <2> QED
    BY <2>1, <2>4, <2>5 DEF Effects, Touch, TouchGuard
<1>3. CASE StageFiles(p)
  <2> DEFINE f == File(me.id, me.cand, "written")
  <2>1. /\ At(p, "u_stage") /\ me.id \in OpIds /\ f \in Values
        /\ disk' = [disk EXCEPT ![SExe(me.id)] = f, ![SMan(me.id)] = f]
        /\ dirty' = [dirty EXCEPT ![SExe(me.id)] = dirty[SExe(me.id)] \cup {Absent},
                                  ![SMan(me.id)] = dirty[SMan(me.id)] \cup {Absent}]
        /\ cached' = cached
    BY <1>3, <1>0 DEF StageFiles, At, Me, FileStates
  <2>2. SExe(me.id) \in Slots /\ SMan(me.id) \in Slots /\ SExe(me.id) # SMan(me.id)
    BY <2>1, SlotNames, SlotSets
  <2> HIDE DEF f, me
  <2>3. FilesOK' /\ \A t \in Slots : t \notin {SExe(me.id), SMan(me.id)} => Quiet(t)
    BY <1>0, <2>1, <2>2 DEF FilesOK, Quiet, Older
  <2>4. Grows(SExe(me.id), {f, Absent}) /\ Grows(SMan(me.id), {f, Absent})
    BY <1>0, <2>1, <2>2 DEF FilesOK, Grows, NewVals, Vals, Older
  <2> QED
    BY <2>1, <2>3, <2>4 DEF Effects, Touch, TouchStaged, f, me
<1>4. CASE SyncStaged(p)
  <2> DEFINE a == SExe(me.id)
             b == SMan(me.id)
  <2>1. /\ At(p, "u_sync") /\ me.id \in OpIds
        /\ disk' = [disk EXCEPT ![a].state = "synced", ![b].state = "synced"]
        /\ cached' = [s \in Slots |-> IF s \in Parent THEN dirty[s] ELSE {}]
        /\ dirty' = [s \in Slots |-> IF s \in Parent THEN {} ELSE dirty[s]]
    BY <1>4, <1>0 DEF SyncStaged, At, Me
  <2>2. /\ a \in Slots /\ b \in Slots /\ a # b /\ AsSynced(a) \in Values /\ AsSynced(b) \in Values
    BY <1>0, <2>1, SlotSets, SlotNames, SyncedValue DEF FilesOK, AsSynced
  <2>3. disk' = [disk EXCEPT ![a] = AsSynced(a), ![b] = AsSynced(b)]
    BY <1>0, <2>1, <2>2 DEF AsSynced, FilesOK
  <2> HIDE DEF a, b
  <2>4. FilesOK' /\ \A t \in Slots : t \notin {a, b} => Quiet(t)
    BY <1>0, <2>1, <2>2, <2>3 DEF FilesOK, Quiet, Older
  <2>5. Grows(a, {AsSynced(a)}) /\ Grows(b, {AsSynced(b)})
    BY <1>0, <2>1, <2>2, <2>3 DEF FilesOK, Grows, NewVals, Vals, Older
  <2> QED
    BY <2>1, <2>4, <2>5 DEF Effects, Touch, TouchStaged, a, b
<1>5. CASE RenameBinary(p)
  <2>1. At(p, "u_bin") /\ Move(SExe(me.id), Exe(me.pkg)) /\ me.id \in OpIds /\ me.pkg \in OpIds
    BY <1>5, <1>0 DEF RenameBinary, At, Me, HoldPcs, InstPcs, UpdatePcs
  <2>2. SExe(me.id) # Exe(me.pkg) /\ SExe(me.id) # NextRec
    BY SlotNames
  <2>3. /\ FilesOK' /\ (\A t \in Slots : t \notin {SExe(me.id), Exe(me.pkg)} => Quiet(t))
        /\ Grows(SExe(me.id), {Absent}) /\ Grows(Exe(me.pkg), {disk[SExe(me.id)]})
    BY <1>0, <2>1, <2>2, SlotSets, MoveEffect
  <2> QED
    BY <2>1, <2>3 DEF Effects, Touch, TouchStaged, TouchPackage, At, Me
<1>6. CASE SyncBinary(p)
  BY <1>6, <1>0, FsyncEffects DEF SyncBinary
<1>7. CASE RenameManifest(p)
  <2>1. At(p, "u_man") /\ Move(SMan(me.id), Man(me.pkg)) /\ me.id \in OpIds /\ me.pkg \in OpIds
    BY <1>7, <1>0 DEF RenameManifest, At, Me, HoldPcs, InstPcs, UpdatePcs
  <2>2. SMan(me.id) # Man(me.pkg) /\ SMan(me.id) # NextRec
    BY SlotNames
  <2>3. /\ FilesOK' /\ (\A t \in Slots : t \notin {SMan(me.id), Man(me.pkg)} => Quiet(t))
        /\ Grows(SMan(me.id), {Absent}) /\ Grows(Man(me.pkg), {disk[SMan(me.id)]})
    BY <1>0, <2>1, <2>2, SlotSets, MoveEffect
  <2> QED
    BY <2>1, <2>3 DEF Effects, Touch, TouchStaged, TouchPackage, At, Me
<1>8. CASE SyncManifest(p)
  BY <1>8, <1>0, FsyncEffects DEF SyncManifest
<1> QED
  BY <1>1, <1>2, <1>3, <1>4, <1>5, <1>6, <1>7, <1>8 DEF UpdateStep

LEMMA RecoverEffects ==
  ASSUME IInv, NEW p \in Procs,
         AbandonExecutable(p) \/ AbandonManifest(p) \/ FinalizeManifest(p) \/ SyncFinalized(p)
  PROVE  Effects(p)
<1> DEFINE by == Me(p).rec.by
<1>0. /\ FilesOK /\ Absent \in Values
      /\ (Me(p).pc \in RecoverPcs => Me(p).pkg \in OpIds /\ by \in OpIds)
  BY ProcFacts DEF RecoverPcs, CarryPcs, HoldPcs, InstPcs
<1>1. CASE AbandonExecutable(p)
  <2>1. At(p, "r_exe") /\ by \in OpIds
    BY <1>1, <1>0 DEF AbandonExecutable, At, Me, RecoverPcs
  <2>2. CASE UNCHANGED files
    BY <1>0, <2>2, NoEffect
  <2>3. CASE Write(SExe(by), Absent)
    BY <1>0, <2>1, <2>3, SlotSets, WriteEffect DEF Effects, Touch, TouchStaged, At, Me
  <2> QED
    BY <1>1, <2>2, <2>3 DEF AbandonExecutable
<1>2. CASE AbandonManifest(p)
  <2>1. At(p, "r_sman") /\ by \in OpIds /\ Write(SMan(by), Absent)
    BY <1>2, <1>0 DEF AbandonManifest, At, Me, RecoverPcs
  <2> QED
    BY <1>0, <2>1, SlotSets, WriteEffect DEF Effects, Touch, TouchStaged, At, Me
<1>3. CASE FinalizeManifest(p)
  <2>1. At(p, "r_man") /\ by \in OpIds /\ Me(p).pkg \in OpIds /\ Move(SMan(by), Man(Me(p).pkg))
    BY <1>3, <1>0 DEF FinalizeManifest, At, Me, RecoverPcs
  <2>2. SMan(by) # Man(Me(p).pkg) /\ SMan(by) # NextRec
    BY SlotNames
  <2>3. /\ FilesOK' /\ (\A t \in Slots : t \notin {SMan(by), Man(Me(p).pkg)} => Quiet(t))
        /\ Grows(SMan(by), {Absent}) /\ Grows(Man(Me(p).pkg), {disk[SMan(by)]})
    BY <1>0, <2>1, <2>2, SlotSets, MoveEffect
  <2> QED
    BY <2>1, <2>3 DEF Effects, Touch, TouchStaged, TouchPackage, At, Me
<1>4. CASE SyncFinalized(p)
  BY <1>4, <1>0, FsyncEffects DEF SyncFinalized
<1> QED
  BY <1>1, <1>2, <1>3, <1>4

LEMMA CommonEffects ==
  ASSUME IInv, NEW p \in Procs, CommonStep(p)
  PROVE  Effects(p)
<1>1. CASE SyncSame(p) \/ Resync(p)
  BY <1>1, SyncThenEffects DEF SyncSame, Resync, At, Me
<1>2. CASE SameDone(p) \/ DropPackage(p) \/ Reopen(p) \/ RecordOutcome(p) \/ GuardIsGone(p)
  <2>1. UNCHANGED files
    BY <1>2 DEF SameDone, DropPackage, Reopen, RecordOutcome, GuardIsGone
  <2> QED
    BY <2>1, ProcFacts, NoEffect
<1>3. CASE RemoveGuard(p)
  <2>1. At(p, "guard") /\ Write(Guard(Me(p).pkg), Absent) /\ Me(p).pkg \in OpIds
    BY <1>3, ProcFacts DEF RemoveGuard, At, Me, HoldPcs, InstPcs, EndPcs
  <2> QED
    BY <2>1, ProcFacts, SlotSets, WriteEffect DEF Effects, Touch, TouchGuard
<1>4. CASE SyncGuardRemoval(p)
  BY <1>4, ProcFacts, FsyncEffects DEF SyncGuardRemoval
<1> QED
  BY <1>1, <1>2, <1>3, <1>4, RecordEffects DEF CommonStep

LEMMA StepEffects ==
  ASSUME IInv, NEW p \in Procs, Step(p)
  PROVE  Effects(p)
<1>1. CASE \/ \E v \in Versions : InstallNew(p, v) \/ UpdatePrepare(p, v)
           \/ InstallSame(p) \/ RecoverPrepare(p) \/ RecoverStat(p) \/ RecoverOpen(p)
           \/ RemovePrepare(p) \/ Refuse(p) \/ Stop(p)
  <2>1. UNCHANGED files
    BY <1>1 DEF InstallNew, UpdatePrepare, InstallSame, RecoverPrepare, RecoverStat, RecoverOpen,
         RemovePrepare, Refuse, Stop
  <2> QED
    BY <2>1, ProcFacts, NoEffect
<1> QED
  BY <1>1, StagePackageEffects, PublishRemoveEffects, UpdateEffects, RecoverEffects, CommonEffects
     DEF Step

----------------------------------------------------------------------------
(* What a step does to the processes, the locks and the promise.           *)

LocalStep(p) == \E l \in Locals : local' = [local EXCEPT ![p] = l]

LockStep(p) ==
  \/ lock' = lock
  \/ Release(p)
  \/ \E i \in OpIds : /\ lock' = [lock EXCEPT ![i] = p]
                      /\ lock[i] = "free" \/ (At(p, "i_stage") /\ i = Me(p).pkg)

CountStep(p) ==
  \/ started' = started
  \/ At(p, "idle") /\ started < MaxOps /\ started' = started + 1

PromiseStep(p) ==
  \/ promise' = promise
  \/ promise' = 0
  \/ Me(p).pc \in {"same_done", "guard", "guardsync"} /\ promise' = disk[Exe(Me(p).pkg)].ver
  \/ At(p, "root") /\ Installed = 0 /\ promise' = RemovedImage

Control(p) == LocalStep(p) /\ LockStep(p) /\ CountStep(p) /\ PromiseStep(p)

LEMMA LocalTypes ==
  /\ NoRecord \in Records /\ NoOp \in Locals
  /\ \A l \in Locals : \A pc \in Pcs : [l EXCEPT !.pc = pc] \in Locals
<1>1. NoRecord \in Records
  BY InstallationAssumption DEF NoRecord, Records, FileStates
<1>2. NoOp \in Locals
  BY <1>1, InstallationAssumption DEF NoOp, Locals, Pcs
<1> QED
  BY <1>1, <1>2 DEF Locals

LEMMA GotoStep ==
  ASSUME NEW p \in Procs, Me(p) \in Locals, NEW pc \in Pcs, Goto(p, pc)
  PROVE  LocalStep(p)
  BY LocalTypes DEF Goto, Set, LocalStep, Me

LEMMA FinishStep ==
  ASSUME NEW p \in Procs, Finish(p)
  PROVE  LocalStep(p) /\ LockStep(p)
  BY LocalTypes DEF Finish, Set, LocalStep, LockStep

\* The installed package is a number an operation had.
LEMMA InstalledId == IInv => /\ Installed \in 0..started
                             /\ Installed # 0 => Installed \in OpIds
<1> SUFFICES ASSUME IInv PROVE /\ Installed \in 0..started
                               /\ Installed # 0 => Installed \in OpIds
  OBVIOUS
<1>1. disk[Prefix] \in Files /\ disk[Prefix].ino <= started /\ started \in 0..MaxOps
  BY SlotSets, SlotNames DEF IInv, TypeOK, Vals, ValuesOf, PrefixIsWhole
<1> QED
  BY <1>1, InstallationAssumption DEF Installed, Files, OpIds

\* A lock is taken on the installed package, when it is free.
LEMMA AcquireStep ==
  ASSUME IInv, NEW p \in Procs, Lockable(Installed), Acquire(p, Installed)
  PROVE  LockStep(p) /\ Installed \in OpIds /\ lock' = [lock EXCEPT ![Installed] = p]
  BY InstalledId DEF Lockable, Acquire, LockStep

LEMMA BeginControl ==
  ASSUME IInv, NEW p \in Procs,
         \/ \E v \in Versions : InstallNew(p, v) \/ UpdatePrepare(p, v)
         \/ InstallSame(p) \/ RecoverPrepare(p) \/ RemovePrepare(p)
  PROVE  Control(p)
<1>0. /\ started \in 0..MaxOps /\ MaxOps \in Nat /\ Versions \subseteq Nat
      /\ started < MaxOps => Op(p) \in 0..MaxOps
      /\ Installed \in 0..MaxOps
  BY InstalledId, InstallationAssumption DEF IInv, TypeOK, Op
<1>1. Begin(p) /\ promise' = promise
  BY DEF InstallNew, UpdatePrepare, InstallSame, RecoverPrepare, RemovePrepare, history
<1>2. CountStep(p) /\ PromiseStep(p) /\ Op(p) \in 0..MaxOps
  BY <1>0, <1>1 DEF Begin, CountStep, PromiseStep
<1>3. CASE \E v \in Versions : InstallNew(p, v)
  <2>1. PICK v \in Versions : InstallNew(p, v)
    BY <1>3
  <2>2. lock' = lock /\ Set(p, [NoOp EXCEPT !.pc = "i_stage", !.id = Op(p), !.pkg = Op(p), !.cand = v])
    BY <2>1 DEF InstallNew
  <2>3. [NoOp EXCEPT !.pc = "i_stage", !.id = Op(p), !.pkg = Op(p), !.cand = v] \in Locals
    BY <1>0, <1>2, LocalTypes DEF Locals, Pcs
  <2> QED
    BY <1>2, <2>2, <2>3 DEF Control, LocalStep, LockStep, Set
<1>4. CASE \E v \in Versions : UpdatePrepare(p, v)
  <2>1. PICK v \in Versions : UpdatePrepare(p, v)
    BY <1>4
  <2> DEFINE pc == IF v = disk[Man(Installed)].ver THEN "same" ELSE "u_guard"
             l == [NoOp EXCEPT !.id = Op(p), !.pkg = Installed, !.cand = v, !.mode = "Update", !.pc = pc]
  <2>2. Lockable(Installed) /\ Acquire(p, Installed) /\ Set(p, l)
    BY <2>1 DEF UpdatePrepare
  <2>3. pc \in Pcs
    BY DEF Pcs, HoldPcs, InstPcs, UpdatePcs
  <2> HIDE DEF pc
  <2>4. l \in Locals
    BY <1>0, <1>2, <2>3, LocalTypes DEF Locals
  <2> QED
    BY <1>2, <2>2, <2>4, AcquireStep DEF Control, LocalStep, Set
<1>5. CASE InstallSame(p)
  <2> DEFINE l == [NoOp EXCEPT !.pc = "same", !.id = Op(p), !.pkg = Installed]
  <2>1. Lockable(Installed) /\ Acquire(p, Installed) /\ Set(p, l)
    BY <1>5 DEF InstallSame
  <2>2. l \in Locals
    BY <1>0, <1>2, LocalTypes DEF Locals, Pcs, HoldPcs, InstPcs
  <2> QED
    BY <1>2, <2>1, <2>2, AcquireStep DEF Control, LocalStep, Set
<1>6. CASE RecoverPrepare(p)
  <2>1. lock' = lock /\ Set(p, [NoOp EXCEPT !.pc = "r_stat", !.id = Op(p)])
    BY <1>6 DEF RecoverPrepare
  <2>2. [NoOp EXCEPT !.pc = "r_stat", !.id = Op(p)] \in Locals
    BY <1>0, <1>2, LocalTypes DEF Locals, Pcs
  <2> QED
    BY <1>2, <2>1, <2>2 DEF Control, LocalStep, LockStep, Set
<1>7. CASE RemovePrepare(p)
  <2> DEFINE l == [NoOp EXCEPT !.pc = "detach", !.id = Op(p), !.pkg = Installed]
  <2>1. Lockable(Installed) /\ Acquire(p, Installed) /\ Set(p, l)
    BY <1>7 DEF RemovePrepare
  <2>2. l \in Locals
    BY <1>0, <1>2, LocalTypes DEF Locals, Pcs, HoldPcs, InstPcs
  <2> QED
    BY <1>2, <2>1, <2>2, AcquireStep DEF Control, LocalStep, Set
<1> QED
  BY <1>3, <1>4, <1>5, <1>6, <1>7

\* Steps that only go on to another place.
Going(p) ==
  \/ CreateNext(p) \/ FillNext(p) \/ RenameNext(p) \/ FsyncRecord(p) \/ SyncSame(p) \/ Resync(p)
  \/ PublishPackage(p) \/ CreateGuard(p) \/ StageFiles(p) \/ RenameBinary(p) \/ RenameManifest(p)
  \/ RemoveGuard(p) \/ AbandonExecutable(p) \/ AbandonManifest(p) \/ FinalizeManifest(p)
  \/ SyncFinalized(p) \/ Detach(p) \/ SyncDetached(p) \/ RemovePayload(p) \/ RemoveManifest(p)

LEMMA GoingControl ==
  ASSUME IInv, NEW p \in Procs, Going(p)
  PROVE  Control(p)
<1>1. /\ lock' = lock /\ started' = started /\ promise' \in {promise, 0}
      /\ \E pc \in Pcs : Goto(p, pc)
  <2>1. Me(p).then \in Pcs
    BY ProcFacts DEF Locals, Pcs, HoldPcs, InstPcs, UpdatePcs, EndPcs
  <2>2. CASE CreateNext(p) \/ FillNext(p) \/ RenameNext(p) \/ FsyncRecord(p) \/ SyncSame(p) \/ Resync(p)
    BY <2>1, <2>2 DEF CreateNext, FillNext, RenameNext, FsyncRecord, SyncSame, Resync, SyncThen,
         counters, history, Pcs, HoldPcs, InstPcs, RecordPcs, EndPcs
  <2>3. CASE PublishPackage(p) \/ CreateGuard(p) \/ StageFiles(p) \/ RenameBinary(p) \/ RenameManifest(p)
    BY <2>3 DEF PublishPackage, CreateGuard, StageFiles, RenameBinary, RenameManifest,
         counters, history, Pcs, HoldPcs, InstPcs, UpdatePcs
  <2>4. CASE RemoveGuard(p) \/ AbandonExecutable(p) \/ AbandonManifest(p) \/ FinalizeManifest(p)
             \/ SyncFinalized(p)
    BY <2>4 DEF RemoveGuard, AbandonExecutable, AbandonManifest, FinalizeManifest, SyncFinalized,
         counters, history, Pcs, HoldPcs, InstPcs, RecoverPcs, EndPcs
  <2>5. CASE Detach(p) \/ SyncDetached(p) \/ RemovePayload(p) \/ RemoveManifest(p)
    BY <2>5 DEF Detach, SyncDetached, RemovePayload, RemoveManifest, counters, history, Pcs,
         HoldPcs, GonePcs
  <2> QED
    BY <2>2, <2>3, <2>4, <2>5 DEF Going
<1> QED
  BY <1>1, GotoStep, ProcFacts DEF Control, LockStep, CountStep, PromiseStep

\* Steps that go on to write a record.
Recording(p) == SyncGuard(p) \/ SyncStaged(p) \/ SyncBinary(p) \/ SyncManifest(p) \/ RecordOutcome(p)

LEMMA FirstRecord ==
  ASSUME NEW b \in 0..MaxOps, NEW k \in 0..MaxOps, NEW u \in Nat, NEW v \in Nat
  PROVE  LET r == [NoRecord EXCEPT !.stage = 1, !.by = b, !.pkg = k, !.cur = u, !.cand = v]
         IN  r \in Records /\ r.stage = 1 /\ r.by = b /\ r.cur = u /\ r.cand = v
<1>1. [NoRecord EXCEPT !.stage = 1] \in Records
  BY LocalTypes DEF Records
<1>2. \A r \in Records : [r EXCEPT !.by = b] \in Records
  BY DEF Records
<1>3. \A r \in Records : [r EXCEPT !.pkg = k] \in Records
  BY DEF Records
<1>4. \A r \in Records : [r EXCEPT !.cur = u] \in Records
  BY DEF Records
<1>5. \A r \in Records : [r EXCEPT !.cand = v] \in Records
  BY DEF Records
<1>6. [[[[[NoRecord EXCEPT !.stage = 1] EXCEPT !.by = b] EXCEPT !.pkg = k]
           EXCEPT !.cur = u] EXCEPT !.cand = v] \in Records
  BY <1>1, <1>2, <1>3, <1>4, <1>5
<1> QED
  BY <1>6 DEF NoRecord

LEMMA LastRecord ==
  ASSUME NEW r \in Records, NEW x \in {"Published", "Abandoned"}
  PROVE  [r EXCEPT !.stage = 5, !.outcome = x] \in Records
<1>1. [r EXCEPT !.stage = 5] \in Records
  BY DEF Records
<1>2. [[r EXCEPT !.stage = 5] EXCEPT !.outcome = x] \in Records
  BY <1>1 DEF Records
<1> QED
  BY <1>2

LEMMA RecordingControl ==
  ASSUME IInv, NEW p \in Procs, Recording(p)
  PROVE  Control(p)
<1> DEFINE Thens == {"u_stage", "u_bin", "u_man", "drop", "guard"}
<1>0. Me(p) \in Locals /\ Me(p).rec \in Records
  BY ProcFacts DEF Locals
<1>1. lock' = lock /\ started' = started /\ promise' = promise
  BY DEF Recording, SyncGuard, SyncStaged, SyncBinary, SyncManifest, RecordOutcome, counters, history
<1>2. \/ \E r \in Records, pc \in Thens : WriteRecord(p, r, pc)
      \/ Goto(p, "guard")
  <2>1. CASE SyncGuard(p)
    <3> DEFINE me == Me(p)
               r == [NoRecord EXCEPT !.stage = IntentRecorded, !.by = me.id, !.pkg = me.pkg,
                                     !.cur = disk[Man(me.pkg)].ver, !.cand = me.cand]
    <3>1. WriteRecord(p, r, "u_stage") /\ At(p, "u_guardsync")
      BY <2>1 DEF SyncGuard
    <3>2. me.pkg \in OpIds
      BY <3>1, ProcFacts DEF At, Me, HoldPcs, InstPcs, UpdatePcs
    <3>3. Man(me.pkg) \in Slots /\ Man(me.pkg) \notin {Rec, NextRec}
      BY <3>2, SlotSets, SlotNames
    <3>4. disk[Man(me.pkg)].ver \in Nat
      BY <3>3 DEF IInv, TypeOK, Vals, ValuesOf, Files
    <3>5. me.id \in 0..MaxOps /\ me.pkg \in 0..MaxOps /\ me.cand \in Nat
      BY <1>0 DEF Locals
    <3>6. r \in Records
      BY <3>4, <3>5, FirstRecord DEF IntentRecorded
    <3> QED
      BY <3>1, <3>6
  <2>2. CASE SyncStaged(p) \/ SyncBinary(p) \/ SyncManifest(p)
    <3>1. \A n \in 0..5 : [Me(p).rec EXCEPT !.stage = n] \in Records
      BY <1>0 DEF Records
    <3> QED
      BY <2>2, <3>1 DEF SyncStaged, SyncBinary, SyncManifest, StagedRecorded, BinaryCommitted, ManifestCommitted
  <2>3. CASE RecordOutcome(p)
    <3> DEFINE o == IF Me(p).mode = "Update" THEN "Published" ELSE DecideOutcome(Me(p).rec, disk[Man(Me(p).pkg)].ver)
               r == [Me(p).rec EXCEPT !.stage = OutcomeRecorded, !.outcome = o]
    <3>1. o \in {"Published", "Abandoned"}
      BY DEF DecideOutcome
    <3>2. WriteRecord(p, r, "guard") \/ Goto(p, "guard")
      BY <2>3 DEF RecordOutcome
    <3>3. r \in Records
      BY <1>0, <3>1, LastRecord DEF OutcomeRecorded
    <3> QED
      BY <3>2, <3>3
  <2> QED
    BY <2>1, <2>2, <2>3 DEF Recording
<1>3. CASE Goto(p, "guard")
  BY <1>0, <1>1, <1>3, GotoStep DEF Control, LockStep, CountStep, PromiseStep, Pcs, HoldPcs, InstPcs, EndPcs
<1>4. ASSUME NEW r \in Records, NEW pc \in Thens, WriteRecord(p, r, pc)
      PROVE  Control(p)
  <2>1. [Me(p) EXCEPT !.pc = "create", !.rec = r, !.then = pc] \in Locals
    BY <1>0 DEF Locals, Pcs, HoldPcs, InstPcs, RecordPcs
  <2> QED
    BY <1>1, <1>4, <2>1 DEF Control, LocalStep, LockStep, CountStep, PromiseStep, WriteRecord, Set
<1> QED
  BY <1>2, <1>3, <1>4

\* Steps that end an operation.
Ending(p) ==
  SameDone(p) \/ GuardIsGone(p) \/ SyncGuardRemoval(p) \/ RemoveRoot(p) \/ Refuse(p) \/ Stop(p)

LEMMA EndingControl ==
  ASSUME IInv, NEW p \in Procs, Ending(p)
  PROVE  Control(p) /\ local' = [local EXCEPT ![p] = NoOp]
<1>1. Finish(p) /\ started' = started
  BY DEF Ending, SameDone, GuardIsGone, SyncGuardRemoval, RemoveRoot, Refuse, Stop, Succeed, counters
<1>2. PromiseStep(p)
  BY DEF Ending, SameDone, GuardIsGone, SyncGuardRemoval, RemoveRoot, Refuse, Stop, Succeed, history,
       PromiseStep, At, Me
<1> QED
  BY <1>1, <1>2, FinishStep DEF Control, CountStep, Finish, Set

LEMMA OtherControl ==
  ASSUME IInv, NEW p \in Procs,
         StagePackage(p) \/ DropPackage(p) \/ Reopen(p) \/ RecoverStat(p) \/ RecoverOpen(p)
  PROVE  Control(p)
<1>0. Me(p) \in Locals
  BY ProcFacts
<1>1. started' = started /\ promise' = promise
  BY DEF StagePackage, DropPackage, Reopen, RecoverStat, RecoverOpen, counters, history
<1>2. CASE StagePackage(p)
  <2>1. Me(p).pkg \in OpIds /\ At(p, "i_stage") /\ Acquire(p, Me(p).pkg) /\ Goto(p, "i_publish")
    BY <1>2, ProcFacts DEF StagePackage, At, Me
  <2> QED
    BY <1>0, <1>1, <2>1, GotoStep DEF Control, LockStep, CountStep, PromiseStep, Acquire, Pcs, HoldPcs
<1>3. CASE DropPackage(p)
  BY <1>0, <1>1, <1>3, GotoStep DEF DropPackage, Control, LockStep, CountStep, PromiseStep, Pcs
<1>4. CASE Reopen(p)
  <2>1. Lockable(Installed) /\ Acquire(p, Installed) /\ Set(p, [Me(p) EXCEPT !.pkg = Installed, !.pc = "resync"])
    BY <1>4 DEF Reopen
  <2>2. Installed \in 0..MaxOps
    BY <2>1, AcquireStep, InstallationAssumption DEF OpIds
  <2>3. [Me(p) EXCEPT !.pkg = Installed, !.pc = "resync"] \in Locals
    BY <1>0, <2>2 DEF Locals, Pcs, HoldPcs, InstPcs, EndPcs
  <2> QED
    BY <1>1, <2>1, <2>3, AcquireStep DEF Control, LocalStep, CountStep, PromiseStep, Set
<1>5. CASE RecoverStat(p)
  <2>1. lock' = lock /\ Set(p, [Me(p) EXCEPT !.next = Present(NextRec), !.pc = "r_open"])
    BY <1>5 DEF RecoverStat
  <2>2. Present(NextRec) \in BOOLEAN
    BY DEF Present
  <2>3. [Me(p) EXCEPT !.next = Present(NextRec), !.pc = "r_open"] \in Locals
    BY <1>0, <2>2 DEF Locals, Pcs
  <2> QED
    BY <1>1, <2>1, <2>3 DEF Control, LocalStep, LockStep, CountStep, PromiseStep, Set
<1>6. CASE RecoverOpen(p)
  <2> DEFINE mode == Classify(Installed, Me(p).next)
             pc == CASE mode = "Abandon" -> "r_exe" [] mode = "Finalize" -> "r_man" [] OTHER -> "drop"
             l == [Me(p) EXCEPT !.pkg = Installed, !.mode = mode, !.rec = disk[Rec], !.pc = pc]
  <2>1. Lockable(Installed) /\ (Finish(p) \/ (Acquire(p, Installed) /\ Set(p, l))) /\ mode # "Manual"
    BY <1>6 DEF RecoverOpen
  <2>2. CASE Finish(p)
    BY <1>1, <2>2, FinishStep DEF Control, CountStep, PromiseStep
  <2>3. CASE Acquire(p, Installed) /\ Set(p, l)
    <3>1. Installed \in 0..MaxOps
      BY <2>1, <2>3, AcquireStep, InstallationAssumption DEF OpIds
    <3>2. disk[Rec] \in Records
      BY SlotSets DEF IInv, TypeOK, Vals, ValuesOf
    <3>3. mode \in {"None", "Abandon", "Finalize", "Confirm"}
      BY <2>1 DEF Classify
    <3>4. pc \in Pcs
      BY DEF Pcs, HoldPcs, InstPcs, RecoverPcs, EndPcs
    <3> HIDE DEF mode, pc
    <3>5. l \in Locals
      BY <1>0, <3>1, <3>2, <3>3, <3>4 DEF Locals
    <3> QED
      BY <1>1, <2>1, <2>3, <3>5, AcquireStep DEF Control, LocalStep, CountStep, PromiseStep, Set
  <2> QED
    BY <2>1, <2>2, <2>3
<1> QED
  BY <1>2, <1>3, <1>4, <1>5, <1>6

LEMMA StepControl ==
  ASSUME IInv, NEW p \in Procs, Step(p)
  PROVE  Control(p)
  BY BeginControl, GoingControl, RecordingControl, EndingControl, OtherControl
     DEF Step, UpdateStep, CommonStep, Going, Recording, Ending

----------------------------------------------------------------------------
(* Types.                                                                  *)

LEMMA FileTypes ==
  ASSUME IInv
  PROVE  /\ \A i \in OpIds : \A s \in {Prefix, Exe(i), Man(i), Guard(i), SExe(i), SMan(i)} :
              /\ ValuesOf(s) = Files /\ Vals(s) \subseteq Files
              /\ disk[s] \in Files /\ AsSynced(s) \in Files
         /\ ValuesOf(Prefix) = Files /\ Vals(Prefix) \subseteq Files /\ disk[Prefix] \in Files
         /\ \A s \in {Rec, NextRec} : /\ ValuesOf(s) = Records /\ Vals(s) \subseteq Records
                                      /\ disk[s] \in Records /\ AsSynced(s) \in Records
<1>1. \A s \in Slots : Vals(s) \subseteq ValuesOf(s) /\ disk[s] \in ValuesOf(s)
  BY DEF IInv, TypeOK, Vals
<1>2. \A f \in Files : [f EXCEPT !.state = "synced"] \in Files
  BY DEF Files, FileStates
<1>3. \A r \in Records : [r EXCEPT !.state = "synced"] \in Records
  BY DEF Records, FileStates
<1>4. /\ ValuesOf(Prefix) = Files /\ ValuesOf(Rec) = Records /\ ValuesOf(NextRec) = Records
      /\ \A i \in OpIds : \A s \in {Exe(i), Man(i), Guard(i), SExe(i), SMan(i)} : ValuesOf(s) = Files
  BY SlotNames DEF ValuesOf
<1> QED
  BY <1>1, <1>2, <1>3, <1>4, SlotSets DEF AsSynced

LEMMA TouchTypes ==
  ASSUME IInv, NEW p \in Procs, NEW s \in Slots, Touch(p, s)
  PROVE  \A f \in NewVals(s) : f \in ValuesOf(s)
<1>0. /\ Me(p) \in Locals
      /\ Me(p).pc \in HoldPcs \cup {"i_stage"} => Me(p).pkg \in OpIds
      /\ ~At(p, "idle") => Me(p).id \in OpIds
      /\ Me(p).pc \in CarryPcs => Me(p).rec.by \in OpIds
  BY ProcFacts
<1>1. MaxOps \in Nat /\ Absent \in Files /\ NoRecord \in Records
  BY InstallationAssumption, LocalTypes DEF Absent, Files, FileStates
<1>2. \A i \in OpIds : \A v \in Nat : \A st \in FileStates : File(i, v, st) \in Files
  BY <1>1 DEF File, Files, OpIds
<1>3. Vals(s) \subseteq ValuesOf(s) /\ disk[s] \in ValuesOf(s)
  BY DEF IInv, TypeOK, Vals
<1>4. CASE TouchRecord(p, s)
  <2>1. [Me(p).rec EXCEPT !.state = "torn"] \in Records
    BY <1>0 DEF Locals, Records, FileStates
  <2> QED
    BY <1>1, <1>3, <1>4, <2>1, FileTypes DEF TouchRecord, Grows
<1>5. CASE TouchPrefix(p, s)
  <2>1. At(p, "i_publish") => File(Me(p).pkg, 0, "synced") \in Files
    BY <1>0, <1>2 DEF At, Me, HoldPcs, FileStates
  <2> QED
    BY <1>1, <1>3, <1>5, <2>1, FileTypes DEF TouchPrefix, Grows
<1>6. CASE TouchGuard(p, s)
  <2>1. Me(p).pc \in {"u_guard", "u_guardsync", "guard"}
    BY <1>6 DEF TouchGuard, At, Me
  <2>2. Me(p).pkg \in OpIds /\ Me(p).id \in OpIds
    BY <1>0, <2>1 DEF At, Me, HoldPcs, InstPcs, UpdatePcs, EndPcs
  <2>3. File(Me(p).id, 0, "written") \in Files
    BY <1>2, <2>2 DEF FileStates
  <2> QED
    BY <1>1, <1>3, <1>6, <2>2, <2>3, FileTypes DEF TouchGuard, Grows
<1>7. CASE TouchPackage(p, s)
  <2>1. Me(p).pc \in {"i_stage", "same", "resync", "u_bin", "payload", "u_man", "r_man", "manifest"}
    BY <1>7 DEF TouchPackage, At, Me
  <2>2. /\ Me(p).pkg \in OpIds /\ Me(p).id \in OpIds
        /\ Me(p).pc = "r_man" => Me(p).rec.by \in OpIds
    BY <1>0, <2>1 DEF At, Me, HoldPcs, InstPcs, UpdatePcs, EndPcs, GonePcs, RecoverPcs, CarryPcs
  <2>3. File(Me(p).id, Me(p).cand, "synced") \in Files
    BY <1>0, <1>2, <2>2 DEF FileStates, Locals
  <2>4. /\ ValuesOf(s) = Files /\ AsSynced(s) \in Files
        /\ disk[SExe(Me(p).id)] \in Files /\ disk[SMan(Me(p).id)] \in Files
        /\ Me(p).pc = "r_man" => disk[SMan(Me(p).rec.by)] \in Files
    BY <1>7, <2>2, FileTypes DEF TouchPackage
  <2> QED
    BY <1>1, <1>3, <1>7, <2>3, <2>4 DEF TouchPackage, Grows, At, Me
<1>8. CASE TouchStaged(p, s)
  <2>1. At(p, "u_stage") => File(Me(p).id, Me(p).cand, "written") \in Files
    BY <1>0, <1>2 DEF At, Me, FileStates, Locals
  <2>2. PICK i \in OpIds :
          /\ s \in {SExe(i), SMan(i)}
          /\ \/ At(p, "u_stage") /\ Grows(s, {File(Me(p).id, Me(p).cand, "written"), Absent})
             \/ At(p, "u_sync") /\ Grows(s, {AsSynced(s)})
             \/ Me(p).pc \in {"u_bin", "u_man", "r_exe", "r_sman", "r_man"} /\ Grows(s, {Absent})
    BY <1>8 DEF TouchStaged
  <2>3. ValuesOf(s) = Files /\ AsSynced(s) \in Files
    BY <2>2, FileTypes
  <2> QED
    BY <1>1, <1>3, <2>1, <2>2, <2>3 DEF Grows
<1> QED
  BY <1>4, <1>5, <1>6, <1>7, <1>8 DEF Touch

LEMMA TypeNext ==
  ASSUME IInv, NEW p \in Procs, Step(p)
  PROVE  TypeOK'
<1>0. TypeOK /\ Control(p) /\ Effects(p)
  BY StepControl, StepEffects DEF IInv
<1>1. FilesOK' /\ \A s \in Slots : Quiet(s) \/ Touch(p, s)
  BY <1>0 DEF Effects
<1>2. ASSUME NEW s \in Slots
      PROVE  Vals(s)' \subseteq ValuesOf(s)'
  <2>1. Vals(s)' = NewVals(s) /\ ValuesOf(s)' = ValuesOf(s)
    BY DEF Vals, Older, NewVals, ValuesOf
  <2>2. CASE Quiet(s)
    BY <1>0, <2>1, <2>2 DEF TypeOK, Quiet, NewVals, Vals, Older
  <2>3. CASE Touch(p, s)
    BY <2>1, <2>3, TouchTypes
  <2> QED
    BY <1>1, <2>2, <2>3
<1>3. lock' \in [OpIds -> Procs \cup {"free"}]
  BY <1>0 DEF TypeOK, Control, LockStep, Release
<1>4. local' \in [Procs -> Locals]
  BY <1>0 DEF TypeOK, Control, LocalStep
<1>5. started' \in 0..MaxOps
  BY <1>0, InstallationAssumption DEF TypeOK, Control, CountStep
<1>6. promise' \in Int
  <2>1. Me(p).pc \in {"same_done", "guard", "guardsync"} => disk[Exe(Me(p).pkg)] \in Files
    BY ProcFacts, FileTypes DEF HoldPcs, InstPcs, EndPcs
  <2> QED
    BY <1>0, <2>1 DEF TypeOK, Control, PromiseStep, RemovedImage, Files
<1> QED
  BY <1>1, <1>2, <1>3, <1>4, <1>5, <1>6 DEF TypeOK

----------------------------------------------------------------------------
(* What a process relies on outlives the steps of the others.              *)

\* A process that works on the installed package is the only one that does.
LEMMA HolderIsAlone ==
  ASSUME IInv, NEW p \in Procs, NEW q \in Procs, p # q
  PROVE  /\ Me(p).pc \in HoldPcs /\ Me(q).pc \in HoldPcs => Me(p).pkg # Me(q).pkg
         /\ ~(Me(p).pc \in InstPcs /\ Me(q).pc \in InstPcs)
         /\ Me(p).pc \in {"i_stage", "i_publish"} => Me(q).pkg # Me(p).pkg
<1>1. HoldsLock(p, Me(p)) /\ HoldsLock(q, Me(q)) /\ Separate
  BY DEF IInv, Own, Works
<1>2. Me(p).pc \in HoldPcs /\ Me(q).pc \in HoldPcs => Me(p).pkg # Me(q).pkg
  BY <1>1 DEF HoldsLock
<1>3. ~(Me(p).pc \in InstPcs /\ Me(q).pc \in InstPcs)
  BY <1>1, <1>2 DEF HoldsLock, HoldPcs
<1> QED
  BY <1>1, <1>2, <1>3 DEF Separate

\* Where a step of p touches, p is at one of these places.
LEMMA TouchedPlaces ==
  ASSUME IInv, NEW p \in Procs, NEW s \in Slots, Touch(p, s)
  PROVE  /\ s = Prefix => \/ At(p, "i_publish") /\ Installed = 0 /\ disk'[s] = File(Me(p).pkg, 0, "synced")
                          \/ Me(p).pc \in InstPcs /\ disk'[s] = Absent
         /\ s \in {Rec, NextRec} => Me(p).pc \in RecordPcs
         /\ \A i \in OpIds : /\ s = Guard(i) => i = Me(p).pkg /\ Me(p).pc \in InstPcs
                             /\ s \in {Exe(i), Man(i)} =>
                                  i = Me(p).pkg /\ Me(p).pc \in HoldPcs \cup {"i_stage"}
<1>1. /\ TouchRecord(p, s) => s \in {Rec, NextRec} /\ Me(p).pc \in RecordPcs
      /\ TouchPrefix(p, s) => s = Prefix
      /\ TouchGuard(p, s) => s = Guard(Me(p).pkg) /\ Me(p).pc \in InstPcs
      /\ TouchPackage(p, s) => /\ s \in {Exe(Me(p).pkg), Man(Me(p).pkg)}
                               /\ Me(p).pc \in HoldPcs \cup {"i_stage"}
      /\ TouchStaged(p, s) => \E i \in OpIds : s \in {SExe(i), SMan(i)}
  BY DEF TouchRecord, TouchPrefix, TouchGuard, TouchPackage, TouchStaged, At, Me, RecordPcs, InstPcs,
     HoldPcs, UpdatePcs, EndPcs, GonePcs, RecoverPcs
<1>2. s = Prefix => TouchPrefix(p, s)
  BY <1>1, SlotNames DEF Touch
<1>3. s = Prefix => \/ At(p, "i_publish") /\ Installed = 0 /\ disk'[s] = File(Me(p).pkg, 0, "synced")
                    \/ Me(p).pc \in InstPcs /\ disk'[s] = Absent
  BY <1>2 DEF TouchPrefix, At, Me, InstPcs
<1>4. s \in {Rec, NextRec} => Me(p).pc \in RecordPcs
  BY <1>1, SlotNames DEF Touch
<1>5. ASSUME NEW i \in OpIds
      PROVE  /\ s = Guard(i) => i = Me(p).pkg /\ Me(p).pc \in InstPcs
             /\ s \in {Exe(i), Man(i)} => i = Me(p).pkg /\ Me(p).pc \in HoldPcs \cup {"i_stage"}
  BY <1>1, SlotNames DEF Touch
<1> QED
  BY <1>3, <1>4, <1>5

LEMMA OthersQuiet ==
  ASSUME IInv, NEW p \in Procs, NEW q \in Procs, p # q, Step(p)
  PROVE  /\ Me(q).pc \in InstPcs =>
              /\ Quiet(Prefix) /\ Quiet(Rec) /\ Quiet(NextRec) /\ Quiet(Guard(Me(q).pkg))
              /\ Quiet(Exe(Me(q).pkg)) /\ Quiet(Man(Me(q).pkg))
         /\ At(q, "i_stage") => Quiet(Exe(Me(q).pkg)) /\ Quiet(Man(Me(q).pkg))
<1>0. \A s \in Slots : Quiet(s) \/ Touch(p, s)
  BY StepEffects DEF Effects
<1>1. /\ Me(p).pc \in HoldPcs /\ Me(q).pc \in HoldPcs => Me(p).pkg # Me(q).pkg
      /\ ~(Me(p).pc \in InstPcs /\ Me(q).pc \in InstPcs)
      /\ Me(p).pc \in {"i_stage", "i_publish"} => Me(q).pkg # Me(p).pkg
      /\ Me(q).pc \in {"i_stage", "i_publish"} => Me(q).pkg # Me(p).pkg
  BY HolderIsAlone
<1>2. Me(q).pc \in HoldPcs \cup {"i_stage"} => Me(q).pkg \in OpIds
  BY ProcFacts
<1>3. Me(q).pc \in InstPcs => Installed = Me(q).pkg /\ Me(q).pc \in HoldPcs
  BY DEF IInv, Own, Works, HoldsLock, HoldPcs
<1>4. RecordPcs \subseteq InstPcs /\ 0 \notin OpIds
  BY DEF InstPcs, OpIds
<1>5. ASSUME Me(q).pc \in InstPcs
      PROVE  /\ Quiet(Prefix) /\ Quiet(Rec) /\ Quiet(NextRec) /\ Quiet(Guard(Me(q).pkg))
             /\ Quiet(Exe(Me(q).pkg)) /\ Quiet(Man(Me(q).pkg))
  <2>1. Me(q).pkg \in OpIds /\ Installed = Me(q).pkg /\ Me(p).pc \notin InstPcs
    BY <1>1, <1>2, <1>3, <1>5
  <2>2. Quiet(Prefix)
    BY <1>0, <1>4, <2>1, SlotSets, TouchedPlaces
  <2>3. Quiet(Rec) /\ Quiet(NextRec)
    BY <1>0, <1>4, <2>1, SlotSets, TouchedPlaces
  <2>4. Quiet(Guard(Me(q).pkg))
    BY <1>0, <2>1, SlotSets, TouchedPlaces
  <2>5. Quiet(Exe(Me(q).pkg)) /\ Quiet(Man(Me(q).pkg))
    BY <1>0, <1>1, <1>3, <1>5, <2>1, SlotSets, TouchedPlaces DEF At, Me
  <2> QED
    BY <2>2, <2>3, <2>4, <2>5
<1>6. ASSUME At(q, "i_stage")
      PROVE  Quiet(Exe(Me(q).pkg)) /\ Quiet(Man(Me(q).pkg))
  BY <1>0, <1>1, <1>2, <1>6, SlotSets, TouchedPlaces DEF At, Me
<1> QED
  BY <1>5, <1>6

LEMMA OtherFrame ==
  ASSUME IInv, NEW p \in Procs, NEW q \in Procs, p # q, Step(p)
  PROVE  /\ local'[q] = local[q] /\ started <= started' /\ started' \in 0..MaxOps
         /\ Me(q).pc \in HoldPcs => lock'[Me(q).pkg] = q
         /\ \/ Installed' = Installed \/ Installed' = 0
            \/ At(p, "i_publish") /\ Installed' = Me(p).pkg
<1>0. TypeOK /\ TypeOK' /\ Control(p) /\ HoldsLock(q, Me(q))
  BY StepControl, TypeNext DEF IInv, Own, Works
<1>1. local'[q] = local[q]
  BY <1>0 DEF TypeOK, Control, LocalStep
<1>2. started <= started' /\ started' \in 0..MaxOps
  BY <1>0 DEF TypeOK, Control, CountStep
<1>3. Me(q).pc \in HoldPcs => lock'[Me(q).pkg] = q
  <2> SUFFICES ASSUME Me(q).pc \in HoldPcs PROVE lock'[Me(q).pkg] = q
    OBVIOUS
  <2>1. lock[Me(q).pkg] = q /\ Me(q).pkg \in OpIds /\ q # "free"
    BY <1>0, InstallationAssumption DEF HoldsLock
  <2>2. At(p, "i_stage") => Me(q).pkg # Me(p).pkg
    BY HolderIsAlone DEF At, Me
  <2> QED
    BY <1>0, <2>1, <2>2 DEF TypeOK, Control, LockStep, Release
<1>4. \/ Installed' = Installed \/ Installed' = 0
      \/ At(p, "i_publish") /\ Installed' = Me(p).pkg
  <2>1. Quiet(Prefix) \/ Touch(p, Prefix)
    BY StepEffects, SlotSets DEF Effects
  <2>2. CASE Quiet(Prefix)
    BY <2>2 DEF Quiet, Installed
  <2>3. CASE Touch(p, Prefix)
    <3>1. \/ At(p, "i_publish") /\ disk'[Prefix] = File(Me(p).pkg, 0, "synced")
          \/ disk'[Prefix] = Absent
      BY <2>3, SlotSets, TouchedPlaces
    <3> QED
      BY <3>1 DEF Installed, File, Absent
  <2> QED
    BY <2>1, <2>2, <2>3
<1> QED
  BY <1>1, <1>2, <1>3, <1>4

\* The images after a step are old ones, or the operation's own.
LEMMA NewImages ==
  ASSUME IInv, NEW p \in Procs, Step(p), NEW f \in Images'
  PROVE  \/ \E g \in Images : g.ino = f.ino /\ g.ver = f.ver
         \/ f.ino = 0 /\ f.ver = 0
         \/ Me(p).pc \in {"i_stage", "u_stage"} /\ f.ino = Me(p).id /\ f.ver = Me(p).cand
<1>1. PICK s \in ImageSlots : f \in NewVals(s)
  BY DEF Images, ImageSlots, Vals, Older, NewVals, Exe, Man, SExe, SMan
<1>2. PICK i \in OpIds : s \in {Exe(i), Man(i), SExe(i), SMan(i)}
  BY <1>1 DEF ImageSlots
<1>3. s \in Slots /\ disk[s] \in Files /\ Vals(s) \subseteq Images /\ disk[s] \in Images
  BY <1>1, <1>2, SlotSets, FileTypes DEF Images, Vals
<1>4. Quiet(s) \/ Touch(p, s)
  BY <1>3, StepEffects DEF Effects
<1>5. CASE Quiet(s)
  BY <1>1, <1>3, <1>5 DEF Quiet, NewVals, Vals, Older
<1>6. AsSynced(s).ino = disk[s].ino /\ AsSynced(s).ver = disk[s].ver
  BY <1>3 DEF AsSynced, Files
<1>7. /\ Absent.ino = 0 /\ Absent.ver = 0
      /\ \A v, st : File(Me(p).id, v, st).ino = Me(p).id /\ File(Me(p).id, v, st).ver = v
  BY DEF Absent, File
<1>8. CASE TouchPackage(p, s)
  <2>1. Me(p).id \in OpIds /\ (Me(p).pc = "r_man" => Me(p).rec.by \in OpIds)
    BY <1>8, ProcFacts DEF TouchPackage, At, Me, CarryPcs, RecoverPcs
  <2>2. /\ disk[SExe(Me(p).id)] \in Images /\ disk[SMan(Me(p).id)] \in Images
        /\ Me(p).pc = "r_man" => disk[SMan(Me(p).rec.by)] \in Images
    BY <2>1 DEF Images, ImageSlots, Vals
  <2> QED
    BY <1>1, <1>3, <1>6, <1>7, <1>8, <2>2 DEF TouchPackage, Grows, At, Me
<1>9. CASE TouchStaged(p, s)
  BY <1>1, <1>3, <1>6, <1>7, <1>9 DEF TouchStaged, Grows, At, Me
<1>10. ~TouchRecord(p, s) /\ ~TouchPrefix(p, s) /\ ~TouchGuard(p, s)
  BY <1>2, SlotNames DEF TouchRecord, TouchPrefix, TouchGuard
<1> QED
  BY <1>4, <1>5, <1>8, <1>9, <1>10 DEF Touch

\* What is quiet and settled, or flagged, or empty, stays so.
LEMMA QuietKeeps ==
  ASSUME NEW i \in OpIds
  PROVE  /\ Settled(i) /\ Quiet(Prefix) /\ Quiet(Exe(i)) /\ Quiet(Man(i)) =>
              Settled(i)' /\ disk'[Exe(i)] = disk[Exe(i)]
         /\ Flagged(i) /\ Quiet(Prefix) /\ Quiet(Rec) /\ Quiet(Guard(i)) => Flagged(i)'
         /\ Empty(i) /\ Quiet(Exe(i)) /\ Quiet(Man(i)) => Empty(i)'
<1>1. ASSUME NEW s, Quiet(s)
      PROVE  /\ disk'[s] = disk[s] /\ Older(s)' \subseteq Older(s) /\ NewVals(s) \subseteq Vals(s)
  BY <1>1 DEF Quiet, Older, Vals, NewVals
<1> QED
  BY <1>1 DEF Quiet, Settled, Flagged, Empty, Older, Vals, Installed, Prefix, Rec, Exe, Man, Guard

\* What holds of the local state that p has after a step is p's own.
LEMMA OwnNext ==
  ASSUME NEW p \in Procs, NEW l, Me(p)' = l, Works(p, l)'
  PROVE  Own(p)'
<1>1. HoldsLock(p, l)' => HoldsLock(p, Me(p))'
  BY DEF HoldsLock
<1>2. Earned(l)' => Earned(Me(p))'
  BY DEF Earned, Heading, Settled, Older, Exe, Man
<1>3. Carries(l)' => Carries(Me(p))'
  BY DEF Carries, Proper, Man
<1>4. Stages(l)' => Stages(Me(p))'
  BY DEF Stages, Heading, Empty, Vals, Older, Exe, Man
<1>5. Flags(l)' => Flags(Me(p))'
  BY DEF Flags, Heading, Flagged, Vals, Older, Guard, Present
<1>6. Lays(l)' => Lays(Me(p))'
  BY DEF Lays
<1> QED
  BY <1>1, <1>2, <1>3, <1>4, <1>5, <1>6 DEF Own, Works

LEMMA OtherOwn ==
  ASSUME IInv, NEW p \in Procs, NEW q \in Procs, p # q, Step(p)
  PROVE  Own(q)'
<1>1. PICK l : l = Me(q)
  OBVIOUS
<1>2. Me(q)' = l /\ Works(q, l) /\ Separate /\ RecordsAreProper
  BY <1>1, OtherFrame DEF Me, IInv, Own
<1>3. /\ l \in Locals /\ (l.pc \in HoldPcs \cup {"i_stage"} => l.pkg \in OpIds)
      /\ (l.pc # "idle" => l.id \in OpIds)
      /\ started <= started' /\ started' \in 0..MaxOps /\ started \in 0..MaxOps
      /\ l.pc \in HoldPcs => lock'[l.pkg] = q
  BY <1>1, OtherFrame, ProcFacts DEF IInv, TypeOK, At, Me
<1>4. \/ Installed' = Installed \/ Installed' = 0
      \/ At(p, "i_publish") /\ Installed' = Me(p).pkg
  BY OtherFrame
<1>5. /\ l.pc \in InstPcs =>
              /\ Quiet(Prefix) /\ Quiet(Rec) /\ Quiet(NextRec) /\ Quiet(Guard(l.pkg))
              /\ Quiet(Exe(l.pkg)) /\ Quiet(Man(l.pkg))
      /\ l.pc = "i_stage" => Quiet(Exe(l.pkg)) /\ Quiet(Man(l.pkg))
  BY <1>1, OthersQuiet DEF At, Me
<1>6. l.pc \in InstPcs => /\ Installed' = Installed /\ l.pkg \in OpIds /\ l.pc \in HoldPcs
                          /\ Me(p).pc \notin InstPcs /\ Installed # 0
  <2> SUFFICES ASSUME l.pc \in InstPcs
               PROVE  /\ Installed' = Installed /\ l.pkg \in OpIds /\ l.pc \in HoldPcs
                      /\ Me(p).pc \notin InstPcs /\ Installed # 0
    OBVIOUS
  <2>1. l.pc \in HoldPcs /\ l.pkg \in OpIds /\ Installed = l.pkg
    BY <1>2, <1>3 DEF HoldPcs, Works, HoldsLock
  <2>2. Me(p).pc \notin InstPcs
    BY <1>1, HolderIsAlone
  <2>3. Installed' = Installed
    BY <1>5 DEF Quiet, Installed
  <2> QED
    BY <2>1, <2>2, <2>3 DEF OpIds
<1>7. HoldsLock(q, l)'
  <2>1. /\ l.pkg <= started /\ (l.pc # "idle" => l.id \in 1..started)
        /\ l.pc \in InstPcs => Installed = l.pkg
        /\ l.pc \in GonePcs \cup {"i_stage", "i_publish"} => Installed # l.pkg
        /\ l.pc \in {"i_stage", "i_publish"} => l.pkg = l.id
    BY <1>2 DEF Works, HoldsLock
  <2>2. l.pkg <= started' /\ (l.pc # "idle" => l.id \in 1..started')
    BY <1>3, <2>1 DEF Locals
  <2>3. l.pc \in GonePcs \cup {"i_stage", "i_publish"} => Installed' # l.pkg
    <3>1. l.pc \in GonePcs \cup {"i_stage", "i_publish"} => l.pkg \in OpIds /\ 0 # l.pkg
      BY <1>3 DEF HoldPcs, OpIds
    <3>2. l.pc \in GonePcs \cup {"i_stage", "i_publish"} /\ At(p, "i_publish") => Me(p).pkg # l.pkg
      BY <1>1, HolderIsAlone DEF At, Me
    <3> QED
      BY <1>4, <2>1, <3>1, <3>2
  <2>4. l.pc \in HoldPcs => l.pkg \in OpIds /\ lock'[l.pkg] = q
    BY <1>3
  <2>5. l.pc \in InstPcs => Installed' = l.pkg
    BY <1>6, <2>1
  <2> QED
    BY <2>1, <2>2, <2>3, <2>4, <2>5 DEF HoldsLock
<1>8. Earned(l)'
  <2>1. ASSUME Heading(l, {"same_done", "outcome", "guard", "guardsync"})
        PROVE  Settled(l.pkg)'
    <3>1. l.pc \in InstPcs
      BY <2>1 DEF Heading, InstPcs, EndPcs
    <3>2. Settled(l.pkg)
      BY <1>2, <2>1 DEF Works, Earned
    <3> QED
      BY <1>5, <1>6, <3>1, <3>2, QuietKeeps
  <2>2. ASSUME Heading(l, {"u_binsync", "u_man"})
        PROVE  promise' = 0
    <3>1. l.pc \in InstPcs
      BY <2>2 DEF Heading, InstPcs, UpdatePcs
    <3>2. promise = 0
      BY <1>2, <2>2 DEF Works, Earned
    <3> QED
      BY <1>6, <3>1, <3>2, StepControl DEF Control, PromiseStep, InstPcs, EndPcs
  <2> QED
    BY <2>1, <2>2 DEF Earned, Heading
<1>9. Carries(l)'
  <2>1. l.pc \in {"u_guard", "u_guardsync"} => disk'[Man(l.pkg)] = disk[Man(l.pkg)]
    BY <1>5 DEF InstPcs, UpdatePcs, Quiet
  <2> QED
    BY <1>2, <2>1 DEF Works, Carries, Proper, Man
<1>10. Stages(l)'
  <2>1. ASSUME Heading(l, {"i_stage", "u_guard", "u_guardsync", "u_stage"}), NEW f \in Images'
        PROVE  f.ino # l.id
    <3>1. \A g \in Images : g.ino # l.id
      BY <1>2, <2>1 DEF Works, Stages
    <3>2. l.pc # "idle" /\ l.id # 0
      BY <1>3, <2>1 DEF Heading, RecordPcs, OpIds
    <3>3. Me(p).pc # "idle" => Me(p).id # l.id
      BY <1>1, <1>2, <3>2 DEF Separate, At, Me
    <3> QED
      BY <3>1, <3>2, <3>3, NewImages
  <2>2. l.pc = "i_stage" => Empty(l.pkg)'
    BY <1>2, <1>3, <1>5, QuietKeeps DEF Works, Stages
  <2> QED
    BY <2>1, <2>2 DEF Stages, Heading
<1>11. Flags(l)'
  <2>1. ASSUME Heading(l, {"u_guardsync", "u_stage", "u_sync", "u_bin", "u_binsync", "u_man", "r_man"})
        PROVE  l.pc \in InstPcs
    BY <2>1 DEF Heading, InstPcs, UpdatePcs, RecoverPcs
  <2>2. Heading(l, {"u_guardsync", "u_stage", "u_sync"}) => Present(Guard(l.pkg))'
    BY <1>2, <1>5, <2>1 DEF Works, Flags, Heading, Present, Quiet, Guard
  <2>3. Heading(l, {"u_stage", "u_sync"}) => dirty'[Guard(l.pkg)] = {}
    BY <1>2, <1>5, <2>1 DEF Works, Flags, Heading, Quiet
  <2>4. Heading(l, {"u_stage", "u_sync"}) /\ l.pc \notin {"create", "fill"} =>
          cached'[Guard(l.pkg)] = {}
    BY <1>2, <1>5, <2>1 DEF Works, Flags, Heading, Quiet, Older
  <2>5. Heading(l, {"u_bin", "u_binsync", "u_man", "r_man"}) => Flagged(l.pkg)'
    <3> SUFFICES ASSUME Heading(l, {"u_bin", "u_binsync", "u_man", "r_man"}) PROVE Flagged(l.pkg)'
      OBVIOUS
    <3>1. l.pc \in InstPcs
      BY <2>1 DEF Heading
    <3> QED
      BY <1>2, <1>5, <1>6, <3>1, QuietKeeps DEF Works, Flags
  <2> QED
    BY <2>2, <2>3, <2>4, <2>5 DEF Flags, Heading, Guard
<1>12. Lays(l)'
  <2>1. l.pc \in RecordPcs \cup {"u_stage", "u_sync"} =>
          Quiet(Prefix) /\ Quiet(Rec) /\ Quiet(NextRec)
    BY <1>5 DEF InstPcs, UpdatePcs
  <2> QED
    BY <1>2, <2>1 DEF Works, Lays, Quiet, Present, RecordPcs, Rec, NextRec, Prefix
<1> QED
  BY <1>2, <1>7, <1>8, <1>9, <1>10, <1>11, <1>12, OwnNext DEF Works

----------------------------------------------------------------------------
(* What holds of the files outlives every step.                            *)

\* Away from its places, a step leaves a name alone.
LEMMA OwnQuiet ==
  ASSUME IInv, NEW p \in Procs, Step(p)
  PROVE  /\ Me(p).pc \notin {"i_publish", "detach"} => Quiet(Prefix)
         /\ Me(p).pc \notin {"create", "fill", "rename"} => Quiet(NextRec)
         /\ Me(p).pc # "rename" => Quiet(Rec)
         /\ \A i \in OpIds :
              /\ i # Me(p).pkg \/ Me(p).pc \notin {"u_guard", "u_guardsync", "guard"} => Quiet(Guard(i))
              /\ i # Me(p).pkg \/ Me(p).pc \notin {"i_stage", "same", "resync", "u_bin", "payload"} =>
                   Quiet(Exe(i))
              /\ i # Me(p).pkg
                   \/ Me(p).pc \notin {"i_stage", "same", "resync", "u_man", "r_man", "manifest"} =>
                   Quiet(Man(i))
<1>1. \A s \in Slots : Quiet(s) \/ Touch(p, s)
  BY StepEffects DEF Effects
<1>2. /\ Touch(p, Prefix) => Me(p).pc \in {"i_publish", "detach"}
      /\ Touch(p, NextRec) => Me(p).pc \in {"create", "fill", "rename"}
      /\ Touch(p, Rec) => Me(p).pc = "rename"
  BY SlotNames DEF Touch, TouchRecord, TouchPrefix, TouchGuard, TouchPackage, TouchStaged, At, Me
<1>3. ASSUME NEW i \in OpIds
      PROVE  /\ Touch(p, Guard(i)) =>
                  i = Me(p).pkg /\ Me(p).pc \in {"u_guard", "u_guardsync", "guard"}
             /\ Touch(p, Exe(i)) =>
                  i = Me(p).pkg /\ Me(p).pc \in {"i_stage", "same", "resync", "u_bin", "payload"}
             /\ Touch(p, Man(i)) =>
                  i = Me(p).pkg /\ Me(p).pc \in {"i_stage", "same", "resync", "u_man", "r_man", "manifest"}
  <2>1. Touch(p, Guard(i)) => i = Me(p).pkg /\ Me(p).pc \in {"u_guard", "u_guardsync", "guard"}
    BY SlotNames DEF Touch, TouchRecord, TouchPrefix, TouchGuard, TouchPackage, TouchStaged, At, Me
  <2>2. Touch(p, Exe(i)) =>
          i = Me(p).pkg /\ Me(p).pc \in {"i_stage", "same", "resync", "u_bin", "payload"}
    BY SlotNames DEF Touch, TouchRecord, TouchPrefix, TouchGuard, TouchPackage, TouchStaged, At, Me
  <2>3. Touch(p, Man(i)) =>
          i = Me(p).pkg /\ Me(p).pc \in {"i_stage", "same", "resync", "u_man", "r_man", "manifest"}
    BY SlotNames DEF Touch, TouchRecord, TouchPrefix, TouchGuard, TouchPackage, TouchStaged, At, Me
  <2> QED
    BY <2>1, <2>2, <2>3
<1> QED
  BY <1>1, <1>2, <1>3, SlotSets

\* Where a promise comes from.  A step that begins to replace the package drops it.
Replacing == {"i_publish", "detach", "u_bin", "r_man"}

PromiseSource(p) ==
  \/ promise' = 0
  \/ promise' = promise /\ (Me(p).pc \notin Replacing \/ UNCHANGED files)
  \/ Me(p).pc \in {"same_done", "guard", "guardsync"} /\ promise' = disk[Exe(Me(p).pkg)].ver
  \/ RemoveRoot(p) /\ Installed = 0 /\ promise' = RemovedImage

LEMMA StepPromise ==
  ASSUME NEW p \in Procs, Step(p)
  PROVE  PromiseSource(p)
<1>1. CASE \E v \in Versions : InstallNew(p, v) \/ UpdatePrepare(p, v)
  BY <1>1 DEF InstallNew, UpdatePrepare, PromiseSource, history
<1>2. CASE \/ InstallSame(p) \/ StagePackage(p) \/ PublishPackage(p)
           \/ RecoverPrepare(p) \/ RecoverStat(p) \/ RecoverOpen(p)
  BY <1>2 DEF InstallSame, StagePackage, PublishPackage, RecoverPrepare, RecoverStat, RecoverOpen,
       PromiseSource, history, Replacing, At, Me
<1>3. CASE \/ AbandonExecutable(p) \/ AbandonManifest(p) \/ FinalizeManifest(p) \/ SyncFinalized(p)
           \/ RemovePrepare(p) \/ Detach(p) \/ SyncDetached(p) \/ RemovePayload(p)
           \/ RemoveManifest(p)
  BY <1>3 DEF AbandonExecutable, AbandonManifest, FinalizeManifest, SyncFinalized, RemovePrepare,
       Detach, SyncDetached, RemovePayload, RemoveManifest, PromiseSource, history, Replacing, At, Me
<1>4. CASE RemoveRoot(p)
  BY <1>4 DEF RemoveRoot, PromiseSource, Replacing, At, Me
<1>5. CASE UpdateStep(p)
  BY <1>5 DEF UpdateStep, CreateGuard, SyncGuard, StageFiles, SyncStaged, RenameBinary, SyncBinary,
       RenameManifest, SyncManifest, PromiseSource, history, Replacing, At, Me
<1>6. CASE \/ CreateNext(p) \/ FillNext(p) \/ RenameNext(p) \/ FsyncRecord(p) \/ SyncSame(p) \/ Resync(p)
           \/ DropPackage(p) \/ Reopen(p)
  BY <1>6 DEF CreateNext, FillNext, RenameNext, FsyncRecord, SyncSame, Resync, SyncThen, DropPackage,
       Reopen, PromiseSource, history, Replacing, At, Me
<1>7. CASE SameDone(p) \/ RecordOutcome(p) \/ RemoveGuard(p) \/ GuardIsGone(p) \/ SyncGuardRemoval(p)
  BY <1>7 DEF SameDone, RecordOutcome, RemoveGuard, GuardIsGone, SyncGuardRemoval, Succeed,
       PromiseSource, history, Replacing, At, Me
<1>8. CASE Refuse(p) \/ Stop(p)
  BY <1>8 DEF Refuse, Stop, PromiseSource, history
<1> QED
  BY <1>1, <1>2, <1>3, <1>4, <1>5, <1>6, <1>7, <1>8 DEF Step, CommonStep

LEMMA KeepsPrefix ==
  ASSUME IInv, NEW p \in Procs, Step(p)
  PROVE  PrefixIsWhole'
<1>1. PrefixIsWhole /\ started <= started' /\ Me(p).pkg <= started /\ started \in Nat
      /\ started' \in Nat /\ Me(p).pkg \in Nat
  BY StepControl, TypeNext, ProcFacts, InstallationAssumption
     DEF IInv, TypeOK, Own, Works, HoldsLock, Control, CountStep, Locals
<1>2. Vals(Prefix)' = NewVals(Prefix) /\ Vals(Prefix) \subseteq Files
  BY FileTypes DEF Vals, Older, NewVals, Prefix
<1>3. Quiet(Prefix) \/ Touch(p, Prefix)
  BY StepEffects, SlotSets DEF Effects
<1>4. Touch(p, Prefix) => TouchPrefix(p, Prefix)
  BY SlotNames DEF Touch, TouchRecord, TouchGuard, TouchPackage, TouchStaged
<1>5. ASSUME NEW f \in NewVals(Prefix)
      PROVE  f \in Vals(Prefix) \/ f = Absent \/ f = File(Me(p).pkg, 0, "synced")
  BY <1>3, <1>4 DEF TouchPrefix, Grows, Quiet, NewVals, Vals, Older
<1> QED
  BY <1>1, <1>2, <1>5 DEF PrefixIsWhole, Absent, File, Files

LEMMA KeepsRecords ==
  ASSUME IInv, NEW p \in Procs, Step(p)
  PROVE  RecordsAreProper'
<1> DEFINE torn == [Me(p).rec EXCEPT !.state = "torn"]
<1>1. RecordsAreProper /\ Carries(Me(p)) /\ Me(p) \in Locals
  BY ProcFacts DEF IInv, Own, Works
<1>2. Vals(Rec)' = NewVals(Rec) /\ Vals(NextRec)' = NewVals(NextRec)
  BY DEF Vals, Older, NewVals, Rec, NextRec
<1>3. ASSUME NEW s \in {Rec, NextRec}, NEW f \in NewVals(s)
      PROVE  \/ f \in Vals(s) \/ f = NoRecord \/ f = disk[NextRec] \/ f = AsSynced(NextRec)
             \/ At(p, "create") /\ f = torn
  <2>1. Quiet(s) \/ Touch(p, s)
    BY StepEffects, SlotSets DEF Effects
  <2>2. Touch(p, s) => TouchRecord(p, s)
    BY SlotNames DEF Touch, TouchPrefix, TouchGuard, TouchPackage, TouchStaged
  <2> QED
    BY <2>1, <2>2 DEF TouchRecord, Grows, Quiet, NewVals, Vals, Older
<1>4. Proper(NoRecord)
  BY DEF Proper, NoRecord
<1>5. disk[NextRec] \in Records /\ Proper(disk[NextRec]) /\ Proper(AsSynced(NextRec))
  BY <1>1, FileTypes DEF RecordsAreProper, Vals, AsSynced, Proper, Records
<1>6. At(p, "create") => Proper(torn)
  BY <1>1 DEF Carries, Proper, At, Me, CarryPcs, RecordPcs, Locals, Records
<1>7. \A s \in {Rec, NextRec} : \A f \in NewVals(s) : Proper(f)
  BY <1>1, <1>3, <1>4, <1>5, <1>6 DEF RecordsAreProper
<1> QED
  BY <1>2, <1>7 DEF RecordsAreProper, Proper

LEMMA KeepsImages ==
  ASSUME IInv, NEW p \in Procs, Step(p)
  PROVE  ImagesAreOfOneKind'
<1>1. ImagesAreOfOneKind /\ started <= started' /\ started \in Nat /\ started' \in Nat
  BY StepControl, TypeNext, InstallationAssumption DEF IInv, TypeOK, Control, CountStep
<1>2. Me(p).pc \in {"i_stage", "u_stage"} =>
        Me(p).id \in OpIds /\ Me(p).id <= started /\ \A f \in Images : f.ino # Me(p).id
  BY ProcFacts DEF IInv, Own, Works, HoldsLock, Stages, Heading, At, Me
<1>3. \A f \in Images : f.ino \in Nat
  BY FileTypes DEF Images, ImageSlots, Files
<1>4. ASSUME NEW f \in Images'
      PROVE  \/ \E g \in Images : g.ino = f.ino /\ g.ver = f.ver
             \/ f.ino = 0 /\ f.ver = 0
             \/ Me(p).pc \in {"i_stage", "u_stage"} /\ f.ino = Me(p).id /\ f.ver = Me(p).cand
  BY NewImages
<1>5. \A f, g \in Images' : f.ino = g.ino => f.ver = g.ver
  BY <1>1, <1>2, <1>4 DEF ImagesAreOfOneKind, OpIds
<1>6. \A f \in Images' : f.ino <= started' /\ (f.ino = 0 => f.ver = 0)
  BY <1>1, <1>2, <1>3, <1>4 DEF ImagesAreOfOneKind, OpIds
<1> QED
  BY <1>5, <1>6 DEF ImagesAreOfOneKind

LEMMA KeepsUnstarted ==
  ASSUME IInv, NEW p \in Procs, Step(p)
  PROVE  UnstartedIsEmpty'
<1>1. /\ UnstartedIsEmpty /\ started <= started' /\ started \in Nat /\ started' \in Nat
      /\ Me(p).pkg <= started /\ Me(p).pkg \in Nat
  BY StepControl, TypeNext, ProcFacts, InstallationAssumption
     DEF IInv, TypeOK, Own, Works, HoldsLock, Control, CountStep, Locals
<1>2. ASSUME NEW i \in OpIds, i > started'
      PROVE  Empty(i)'
  <2>1. i # Me(p).pkg /\ Empty(i)
    BY <1>1, <1>2 DEF UnstartedIsEmpty, OpIds
  <2>2. Quiet(Exe(i)) /\ Quiet(Man(i))
    BY <2>1, OwnQuiet
  <2> QED
    BY <2>1, <2>2, QuietKeeps
<1> QED
  BY <1>2 DEF UnstartedIsEmpty, Empty

\* A step at "detach" that changes a file has passed the gate.
LEMMA DetachSteps ==
  ASSUME NEW p \in Procs, Step(p), At(p, "detach"), ~(UNCHANGED files)
  PROVE  Gate(Me(p).pkg)
<1>1. CASE \/ \E v \in Versions : InstallNew(p, v) \/ UpdatePrepare(p, v)
           \/ InstallSame(p) \/ RecoverPrepare(p) \/ RecoverStat(p) \/ RecoverOpen(p) \/ RemovePrepare(p)
           \/ Refuse(p) \/ Stop(p)
  BY <1>1 DEF InstallNew, UpdatePrepare, InstallSame, RecoverPrepare, RecoverStat, RecoverOpen,
       RemovePrepare, Refuse, Stop
<1>2. CASE Detach(p)
  BY <1>2 DEF Detach
<1>3. CASE \/ StagePackage(p) \/ PublishPackage(p)
           \/ AbandonExecutable(p) \/ AbandonManifest(p) \/ FinalizeManifest(p) \/ SyncFinalized(p)
           \/ SyncDetached(p) \/ RemovePayload(p) \/ RemoveManifest(p) \/ RemoveRoot(p)
  BY <1>3 DEF StagePackage, PublishPackage, AbandonExecutable, AbandonManifest, FinalizeManifest,
       SyncFinalized, SyncDetached, RemovePayload, RemoveManifest, RemoveRoot, At, Me
<1>4. CASE UpdateStep(p)
  BY <1>4 DEF UpdateStep, CreateGuard, SyncGuard, StageFiles, SyncStaged, RenameBinary, SyncBinary,
       RenameManifest, SyncManifest, At, Me
<1>5. CASE CommonStep(p)
  BY <1>5 DEF CommonStep, CreateNext, FillNext, RenameNext, FsyncRecord, SyncSame, Resync, SyncThen,
       DropPackage, Reopen, SameDone, RecordOutcome, RemoveGuard, GuardIsGone, SyncGuardRemoval,
       At, Me, files
<1> QED
  BY <1>1, <1>2, <1>3, <1>4, <1>5 DEF Step

\* A step at "same" or "resync" that changes a file is sync_published.
LEMMA SyncSteps ==
  ASSUME IInv, NEW p \in Procs, Step(p), Me(p).pc \in {"same", "resync"}, ~(UNCHANGED files)
  PROVE  LET i == Me(p).pkg IN
         /\ i \in OpIds /\ Strict(i) /\ SyncPublished(i)
         /\ NewVals(Exe(i)) = {AsSynced(Exe(i))} /\ NewVals(Man(i)) = {AsSynced(Man(i))}
<1>1. CASE \/ \E v \in Versions : InstallNew(p, v) \/ UpdatePrepare(p, v)
           \/ InstallSame(p) \/ RecoverPrepare(p) \/ RecoverStat(p) \/ RecoverOpen(p) \/ RemovePrepare(p)
           \/ Refuse(p) \/ Stop(p)
  BY <1>1 DEF InstallNew, UpdatePrepare, InstallSame, RecoverPrepare, RecoverStat, RecoverOpen,
       RemovePrepare, Refuse, Stop
<1>2. CASE \/ StagePackage(p) \/ PublishPackage(p)
           \/ AbandonExecutable(p) \/ AbandonManifest(p) \/ FinalizeManifest(p) \/ SyncFinalized(p)
           \/ Detach(p) \/ SyncDetached(p) \/ RemovePayload(p) \/ RemoveManifest(p) \/ RemoveRoot(p)
  BY <1>2 DEF StagePackage, PublishPackage, AbandonExecutable, AbandonManifest, FinalizeManifest,
       SyncFinalized, Detach, SyncDetached, RemovePayload, RemoveManifest, RemoveRoot, At, Me
<1>3. CASE UpdateStep(p)
  BY <1>3 DEF UpdateStep, CreateGuard, SyncGuard, StageFiles, SyncStaged, RenameBinary, SyncBinary,
       RenameManifest, SyncManifest, At, Me
<1>4. CASE CommonStep(p) /\ ~SyncSame(p) /\ ~Resync(p)
  BY <1>4 DEF CommonStep, CreateNext, FillNext, RenameNext, FsyncRecord, DropPackage, Reopen, SameDone,
       RecordOutcome, RemoveGuard, GuardIsGone, SyncGuardRemoval, At, Me
<1>5. CASE SyncSame(p) \/ Resync(p)
  <2> DEFINE i == Me(p).pkg
  <2>1. Strict(i) /\ SyncPublished(i)
    BY <1>5 DEF SyncSame, Resync, SyncThen
  <2>2. i \in OpIds /\ FilesOK
    BY ProcFacts DEF HoldPcs, InstPcs, EndPcs
  <2>3. NewVals(Exe(i)) = {AsSynced(Exe(i))} /\ NewVals(Man(i)) = {AsSynced(Man(i))}
    BY <2>1, <2>2, SyncPublishedEffect, SlotSets DEF NewVals, AsSynced
  <2> QED
    BY <2>1, <2>2, <2>3
<1> QED
  BY <1>1, <1>2, <1>3, <1>4, <1>5 DEF Step

\* A synchronized package is not a mixture.
LEMMA SettledIsNotMixed ==
  ASSUME NEW i, Settled(i)
  PROVE  ~Mixed(i)
  BY DEF Settled, Mixed, Vals

\* sync_published leaves a settled package as it is.
LEMMA ResyncKeeps ==
  ASSUME IInv, NEW i \in OpIds, Settled(i), Quiet(Prefix),
         NewVals(Exe(i)) = {AsSynced(Exe(i))} \/ Quiet(Exe(i)),
         NewVals(Man(i)) = {AsSynced(Man(i))} \/ Quiet(Man(i))
  PROVE  Settled(i)' /\ disk'[Exe(i)] = disk[Exe(i)]
<1>1. disk[Exe(i)] \in Files /\ disk[Man(i)] \in Files
  BY FileTypes
<1>2. AsSynced(Exe(i)) = disk[Exe(i)] /\ AsSynced(Man(i)) = disk[Man(i)]
  BY <1>1 DEF Settled, AsSynced, Files
<1>3. /\ disk'[Exe(i)] = disk[Exe(i)] /\ dirty'[Exe(i)] \cup cached'[Exe(i)] \subseteq {disk[Exe(i)]}
      /\ disk'[Man(i)] = disk[Man(i)] /\ dirty'[Man(i)] \cup cached'[Man(i)] \subseteq {disk[Man(i)]}
  BY <1>2 DEF Settled, Quiet, NewVals, Older
<1>4. Older(Prefix)' \subseteq {disk'[Prefix]}
  BY DEF Settled, Quiet, Older, Prefix
<1> QED
  BY <1>3, <1>4 DEF Settled, Older, Exe, Man

LEMMA KeepsPromise ==
  ASSUME IInv, NEW p \in Procs, Step(p)
  PROVE  PromiseIsBacked'
<1> DEFINE i == Me(p).pkg
<1>1. PromiseIsBacked /\ Works(p, Me(p)) /\ Me(p) \in Locals
  BY ProcFacts DEF IInv, Own
<1>2. Versions \subseteq Nat \ {0} /\ RemovedImage = -1
  BY InstallationAssumption DEF RemovedImage
<1>3. PromiseIsBacked' <=>
        /\ promise' # 0 => Older(Prefix)' \subseteq {disk'[Prefix]}
        /\ promise' = RemovedImage => Installed' = 0
        /\ promise' \in Versions => Settled(Installed)' /\ disk'[Exe(Installed')] = disk'[Exe(Installed')]
                                    /\ disk'[Exe(Installed')].ver = promise'
  BY DEF PromiseIsBacked, Settled, Older, Prefix, Exe, Man
<1>4. CASE promise' = 0
  BY <1>2, <1>3, <1>4
<1>5. Me(p).pc \notin Replacing \/ UNCHANGED files =>
        /\ Quiet(Prefix) /\ Installed' = Installed
        /\ Older(Prefix) \subseteq {disk[Prefix]} => Older(Prefix)' \subseteq {disk'[Prefix]}
  BY OwnQuiet DEF Replacing, files, Quiet, Installed, Older, Prefix
<1>6. ASSUME NEW k \in OpIds, Installed' = k
      PROVE  Settled(k)' => Settled(Installed)'
  BY <1>6 DEF Settled, Older, Installed, Prefix, Exe, Man
<1>7. CASE promise' # 0 /\ promise' = promise /\ (Me(p).pc \notin Replacing \/ UNCHANGED files)
  <2>1. ASSUME promise \in Versions, NEW k, k = Installed
        PROVE  k \in OpIds /\ Settled(k)' /\ disk'[Exe(k)] = disk[Exe(k)]
    <3>1. Settled(k)
      BY <1>1, <2>1 DEF PromiseIsBacked
    <3>2. k \in OpIds
      BY <3>1 DEF Settled
    <3>3. UNCHANGED files \/ Me(p).pc \notin {"u_bin", "u_man", "r_man"}
      BY <1>1, <1>2, <1>7, <2>1 DEF Replacing, Works, Earned, Heading
    <3>4. k # i \/ Me(p).pc \notin {"i_stage", "payload", "manifest"}
      BY <1>1, <2>1 DEF Works, HoldsLock, GonePcs
    <3>5. CASE UNCHANGED files
      BY <3>1, <3>2, <3>5, QuietKeeps DEF files, Quiet, Older
    <3>6. CASE Me(p).pc \notin {"same", "resync"} /\ Me(p).pc \notin {"u_bin", "u_man", "r_man"}
      BY <1>5, <1>7, <3>1, <3>2, <3>4, <3>6, OwnQuiet, QuietKeeps
    <3>7. CASE Me(p).pc \in {"same", "resync"}
      <4>1. ASSUME NEW s \in {Exe(k), Man(k)}
            PROVE  Quiet(s) \/ NewVals(s) = {AsSynced(s)}
        <5>1. Quiet(s) \/ Touch(p, s)
          BY <3>2, StepEffects, SlotSets DEF Effects
        <5> QED
          BY <3>7, <5>1, SlotNames DEF Touch, TouchRecord, TouchPrefix, TouchGuard, TouchPackage,
               TouchStaged, At, Me
      <4> QED
        BY <1>5, <1>7, <3>1, <3>2, <4>1, ResyncKeeps
    <3> QED
      BY <3>3, <3>5, <3>6, <3>7
  <2>2. ASSUME promise \in Versions
        PROVE  Settled(Installed)' /\ disk'[Exe(Installed')].ver = promise'
    <3>1. PICK k : k = Installed
      OBVIOUS
    <3>2. disk[Exe(k)].ver = promise
      BY <1>1, <2>2, <3>1 DEF PromiseIsBacked
    <3> QED
      BY <1>5, <1>6, <1>7, <2>1, <2>2, <3>1, <3>2
  <2> QED
    BY <1>1, <1>3, <1>5, <1>7, <2>2 DEF PromiseIsBacked
<1>8. CASE Me(p).pc \in {"same_done", "guard", "guardsync"} /\ promise' = disk[Exe(i)].ver
  <2>1. PICK k : k = i
    OBVIOUS
  <2>2. Settled(k) /\ k = Installed /\ k \in OpIds
    BY <1>1, <1>8, <2>1 DEF Works, Earned, Heading, HoldsLock, InstPcs, EndPcs, HoldPcs
  <2>3. Quiet(Prefix) /\ Quiet(Exe(k)) /\ Quiet(Man(k)) /\ Installed' = Installed
    BY <1>5, <1>8, <2>2, OwnQuiet DEF Replacing
  <2>4. Settled(k)' /\ disk'[Exe(k)] = disk[Exe(k)]
    BY <2>2, <2>3, QuietKeeps
  <2>5. Settled(Installed)' /\ Older(Prefix)' \subseteq {disk'[Prefix]}
    BY <1>6, <2>2, <2>3, <2>4 DEF Settled
  <2>6. promise' \in Nat
    BY <1>8, <2>1, <2>2, FileTypes DEF Files
  <2> QED
    BY <1>2, <1>3, <1>8, <2>1, <2>2, <2>3, <2>4, <2>5, <2>6
<1>9. CASE RemoveRoot(p) /\ Installed = 0 /\ promise' = RemovedImage
  <2>1. Installed' = 0 /\ dirty'[Prefix] = {} /\ cached'[Prefix] = {}
    BY <1>9, SlotSets DEF RemoveRoot, Installed
  <2> QED
    BY <1>2, <1>3, <1>9, <2>1 DEF Older, Prefix
<1> QED
  BY <1>4, <1>7, <1>8, <1>9, StepPromise DEF PromiseSource

\* A record that is not the outcome takes the place of a pending one.
LEMMA RenameKeepsFlag ==
  ASSUME IInv, NEW p \in Procs, Step(p), NEW i \in OpIds, Flagged(i), At(p, "rename"),
         Me(p).pkg = i, Me(p).then # "guard"
  PROVE  Flagged(i)'
<1>1. Lays(Me(p)) /\ Me(p) \in Locals /\ Me(p).pc = "rename"
  BY ProcFacts DEF IInv, Own, Works, At, Me
<1>2. CASE Quiet(Rec)
  BY <1>1, <1>2, OwnQuiet, QuietKeeps
<1>3. CASE ~(Quiet(Rec))
  <2>1. Touch(p, Rec)
    BY <1>3, StepEffects, SlotSets DEF Effects
  <2>2. Grows(Rec, {disk[NextRec]})
    BY <1>1, <2>1, SlotNames DEF Touch, TouchRecord, TouchPrefix, TouchGuard, TouchPackage, TouchStaged, At, Me
  <2>3. disk[NextRec] = [Me(p).rec EXCEPT !.state = disk[NextRec].state] /\ Me(p).rec.stage \in 1..4
    BY <1>1 DEF Lays, RecordPcs
  <2>4. IsPending(disk[NextRec])
    BY <1>1, <2>3 DEF IsPending, Locals, Records
  <2>5. Quiet(Prefix) /\ Quiet(Guard(i))
    BY <1>1, OwnQuiet
  <2>6. \A r \in NewVals(Rec) : IsPending(r)
    BY <2>2, <2>4 DEF Grows, Flagged
  <2> QED
    BY <2>5, <2>6 DEF Flagged, Quiet, NewVals, Vals, Older, Installed, Prefix, Rec, Guard, IsPending
<1> QED
  BY <1>2, <1>3

\* The steps that touch the executable or the manifest of a package: it is
\* whole, or flagged, or no longer installed.
LEMMA KeepsMixtures ==
  ASSUME IInv, NEW p \in Procs, Step(p)
  PROVE  MixturesAreFlagged'
<1> SUFFICES ASSUME NEW i \in OpIds, Mixed(i)'
             PROVE  Flagged(i)'
  BY DEF MixturesAreFlagged, Mixed, Flagged, Vals, Older, Exe, Man, Guard
<1>1. /\ Works(p, Me(p)) /\ Me(p) \in Locals /\ (Mixed(i) => Flagged(i)) /\ i # 0
      /\ Exe(i) \in Slots /\ Man(i) \in Slots
  BY ProcFacts, SlotSets DEF IInv, Own, MixturesAreFlagged, OpIds
<1>2. PICK f \in NewVals(Exe(i)), g \in NewVals(Man(i)) : IsWhole(f) /\ IsWhole(g) /\ f.ino # g.ino
  BY DEF Mixed, Vals, Older, NewVals, Exe, Man
<1>3. Mixed(i) => Flagged(i)'
  <2> SUFFICES ASSUME Mixed(i), Flagged(i) PROVE Flagged(i)'
    BY <1>1
  <2>0. ~Settled(i) /\ Installed = i /\ Present(Guard(i))
    BY SettledIsNotMixed DEF Flagged, Vals, Present
  <2>1. Me(p).pc \in InstPcs => Me(p).pkg = i
    BY <1>1, <2>0 DEF Works, HoldsLock
  <2>2. CASE ~(Quiet(Prefix))
    <3>1. Touch(p, Prefix) /\ Me(p).pc \in {"i_publish", "detach"}
      BY <2>2, OwnQuiet, StepEffects, SlotSets DEF Effects
    <3>2. At(p, "detach")
      BY <1>1, <2>0, <3>1, SlotSets, TouchedPlaces DEF At, Me, InstPcs, RecordPcs, UpdatePcs, RecoverPcs, EndPcs
    <3>3. ~(UNCHANGED files)
      BY <2>2 DEF files, Quiet, Older
    <3>4. Gate(i)
      BY <2>1, <3>2, <3>3, DetachSteps DEF At, Me, InstPcs
    <3> QED
      BY <1>1, <2>0, <3>4 DEF Gate, GuardState
  <2>3. CASE ~(Quiet(Guard(i)))
    <3>1. Touch(p, Guard(i)) /\ i = Me(p).pkg /\ Me(p).pc \in {"u_guard", "u_guardsync", "guard"}
      BY <2>3, OwnQuiet, StepEffects, SlotSets DEF Effects
    <3>2. TouchGuard(p, Guard(i))
      BY <3>1, SlotNames DEF Touch, TouchRecord, TouchPrefix, TouchPackage, TouchStaged
    <3>3. Me(p).pc # "guard"
      BY <1>1, <2>0, <3>1 DEF Works, Earned, Heading
    <3>4. Grows(Guard(i), {AsSynced(Guard(i))})
      BY <2>0, <3>2, <3>3 DEF TouchGuard, At, Me
    <3>5. Quiet(Prefix) /\ Quiet(Rec)
      BY <3>1, OwnQuiet
    <3>6. AsSynced(Guard(i)).state # "absent"
      BY FileTypes DEF AsSynced, Files
    <3>7. \A h \in NewVals(Guard(i)) : h.state # "absent"
      BY <3>4, <3>6 DEF Grows, Flagged
    <3> QED
      BY <3>5, <3>7 DEF Flagged, Quiet, NewVals, Vals, Older, Installed, Prefix, Rec, Guard
  <2>4. CASE ~(Quiet(Rec))
    <3>1. At(p, "rename")
      BY <2>4, OwnQuiet DEF At, Me
    <3>2. Me(p).pkg = i
      BY <2>1, <3>1 DEF At, Me, InstPcs, RecordPcs
    <3>3. Me(p).then # "guard"
      BY <1>1, <2>0, <3>1, <3>2 DEF Works, Earned, Heading, At, Me, RecordPcs
    <3> QED
      BY <2>4, <3>1, <3>2, <3>3, RenameKeepsFlag
  <2> QED
    BY <2>2, <2>3, <2>4, QuietKeeps
<1>4. CASE Quiet(Exe(i)) /\ Quiet(Man(i))
  <2>1. Mixed(i)
    BY <1>2, <1>4 DEF Mixed, Quiet, NewVals, Vals, Older
  <2> QED
    BY <1>3, <2>1
<1>5. CASE ~(Quiet(Exe(i)) /\ Quiet(Man(i)))
  <2>1. /\ i = Me(p).pkg
        /\ Me(p).pc \in {"i_stage", "same", "resync", "u_bin", "payload", "u_man", "r_man", "manifest"}
    BY <1>5, OwnQuiet
  <2>2. \A s \in {Exe(i), Man(i)} : Quiet(s) \/ TouchPackage(p, s)
    <3>1. \A s \in {Exe(i), Man(i)} : Quiet(s) \/ Touch(p, s)
      BY <1>1, StepEffects DEF Effects
    <3>2. \A s \in {Exe(i), Man(i)} :
            ~TouchRecord(p, s) /\ ~TouchPrefix(p, s) /\ ~TouchGuard(p, s) /\ ~TouchStaged(p, s)
      BY SlotNames DEF TouchRecord, TouchPrefix, TouchGuard, TouchStaged
    <3> QED
      BY <3>1, <3>2 DEF Touch
  <2>3. CASE Me(p).pc = "i_stage"
    <3>1. Empty(i)
      BY <1>1, <2>1, <2>3 DEF Works, Stages
    <3>2. \A s \in {Exe(i), Man(i)} : \A h \in NewVals(s) :
            h \in Vals(s) \/ h = Absent \/ h = File(Me(p).id, Me(p).cand, "synced")
      BY <2>1, <2>2, <2>3 DEF TouchPackage, Grows, At, Me, Quiet, NewVals, Vals, Older
    <3>3. \A s \in {Exe(i), Man(i)} : \A h \in NewVals(s) : IsWhole(h) => h.ino = Me(p).id
      BY <3>1, <3>2 DEF IsWhole, Empty, Absent, File
    <3> QED
      BY <1>2, <3>3
  <2>4. CASE Me(p).pc \in {"same", "resync"}
    <3>1. CASE UNCHANGED files
      BY <1>5, <3>1 DEF files, Quiet, Older
    <3>2. CASE ~(UNCHANGED files)
      <4>1. NewVals(Exe(i)) = {AsSynced(Exe(i))} /\ NewVals(Man(i)) = {AsSynced(Man(i))} /\ Strict(i)
        BY <2>1, <2>4, <3>2, SyncSteps
      <4>2. AsSynced(Exe(i)).ino = disk[Exe(i)].ino /\ AsSynced(Man(i)).ino = disk[Man(i)].ino
        BY FileTypes DEF AsSynced, Files
      <4> QED
        BY <1>2, <4>1, <4>2 DEF Strict
    <3> QED
      BY <3>1, <3>2
  <2>5. CASE Me(p).pc \in {"u_bin", "u_man", "r_man"}
    <3>1. Flagged(i)
      BY <1>1, <2>1, <2>5 DEF Works, Flags, Heading
    <3> QED
      BY <2>5, <3>1, OwnQuiet, QuietKeeps
  <2>6. CASE Me(p).pc \in {"payload", "manifest"}
    <3>1. \A s \in {Exe(i), Man(i)} : \A h \in NewVals(s) : h \in Vals(s) \/ h = Absent
      <4>1. \A s \in {Exe(i), Man(i)} : Quiet(s) \/ Grows(s, {Absent})
        BY <2>2, <2>6 DEF TouchPackage, At, Me
      <4> QED
        BY <4>1 DEF Grows, Quiet, NewVals, Vals, Older
    <3>2. Mixed(i)
      BY <1>2, <3>1 DEF Mixed, IsWhole, Absent
    <3> QED
      BY <1>3, <3>2
  <2> QED
    BY <2>1, <2>3, <2>4, <2>5, <2>6
<1> QED
  BY <1>4, <1>5

----------------------------------------------------------------------------
(* What a process relies on after a step of its own.                       *)

\* The local state l of p keeps apart from those of the others.
Apart(p, l) ==
  \A q \in Procs : q # p =>
    /\ l.pc # "idle" /\ Me(q).pc # "idle" => l.id # Me(q).id
    /\ l.pc \in {"i_stage", "i_publish"} => Me(q).pkg # l.pkg
    /\ Me(q).pc \in {"i_stage", "i_publish"} => l.pkg # Me(q).pkg

OwnStep(p) == \E l : Me(p)' = l /\ Apart(p, l) /\ Works(p, l)'

LEMMA SetLocal ==
  ASSUME TypeOK, NEW p \in Procs, NEW e, Set(p, e)
  PROVE  Me(p)' = e
  BY DEF TypeOK, Set, Me

LEMMA OthersApart ==
  ASSUME IInv, NEW p \in Procs, NEW q \in Procs, q # p
  PROVE  /\ Me(q).pkg <= started /\ Me(q).pkg \in Nat /\ started \in Nat
         /\ Me(q).pc # "idle" => Me(q).id \in 1..started
         /\ Me(p).pc # "idle" /\ Me(q).pc # "idle" => Me(p).id # Me(q).id
         /\ Me(p).pc \in {"i_stage", "i_publish"} => Me(q).pkg # Me(p).pkg
         /\ Me(q).pc \in {"i_stage", "i_publish"} =>
              Me(q).pkg # Me(p).pkg /\ Me(q).pkg # Installed /\ Me(q).pkg # 0
<1>1. HoldsLock(q, Me(q)) /\ Separate /\ started \in 0..MaxOps
  BY DEF IInv, Own, Works, TypeOK
<1>2. Me(q).pkg \in Nat /\ Me(q).pc \in {"i_stage", "i_publish"} => Me(q).pkg \in OpIds
  BY ProcFacts DEF Locals, HoldPcs
<1>3. Me(q).pkg \in Nat
  BY ProcFacts DEF Locals
<1> QED
  BY <1>1, <1>2, <1>3, InstallationAssumption DEF HoldsLock, Separate, At, Me, OpIds

\* An idle process relies on nothing.
LEMMA IdleWorks ==
  ASSUME NEW p \in Procs, started' \in Nat
  PROVE  Works(p, NoOp)'
<1>1. NoOp.pc = "idle" /\ NoOp.pkg = 0
  BY DEF NoOp
<1>2. HoldsLock(p, NoOp)'
  BY <1>1 DEF HoldsLock, HoldPcs, InstPcs, GonePcs, RecordPcs, UpdatePcs, RecoverPcs, EndPcs
<1>3. Earned(NoOp)' /\ Stages(NoOp)' /\ Flags(NoOp)'
  BY <1>1 DEF Earned, Stages, Flags, Heading, RecordPcs
<1>4. Carries(NoOp)' /\ Lays(NoOp)'
  BY <1>1 DEF Carries, Lays, CarryPcs, RecordPcs, UpdatePcs, RecoverPcs, EndPcs
<1> QED
  BY <1>2, <1>3, <1>4 DEF Works

LEMMA EndingOwn ==
  ASSUME IInv, NEW p \in Procs, Me(p)' = NoOp, started' \in Nat
  PROVE  OwnStep(p)
<1>1. Apart(p, NoOp)
  BY OthersApart DEF Apart, NoOp
<1> QED
  BY <1>1, IdleWorks DEF OwnStep

LEMMA BeginOwn ==
  ASSUME IInv, NEW p \in Procs,
         \/ \E v \in Versions : InstallNew(p, v) \/ UpdatePrepare(p, v)
         \/ InstallSame(p) \/ RecoverPrepare(p) \/ RemovePrepare(p)
  PROVE  OwnStep(p)
<1> DEFINE n == started + 1
<1>1. /\ Begin(p) /\ UNCHANGED files /\ started' = n /\ started \in Nat /\ n \in OpIds
      /\ Installed' = Installed /\ Installed \in 0..started /\ (Installed # 0 => Installed \in OpIds)
  <2>1. Begin(p) /\ UNCHANGED files
    BY DEF InstallNew, UpdatePrepare, InstallSame, RecoverPrepare, RemovePrepare
  <2>2. started \in 0..MaxOps /\ Installed' = Installed
    BY <2>1 DEF IInv, TypeOK, files, Installed
  <2> QED
    BY <2>1, <2>2, InstalledId, InstallationAssumption DEF Begin, OpIds
<1>2. \E l \in Locals :
        /\ Me(p)' = l /\ l.id = n
        /\ \/ l.pc = "i_stage" /\ l.pkg = n
           \/ l.pc = "r_stat" /\ l.pkg = 0
           \/ /\ l.pc \in {"same", "u_guard", "detach"} /\ l.pkg = Installed /\ Installed \in OpIds
              /\ lock' = [lock EXCEPT ![Installed] = p]
              /\ l.pc = "u_guard" => l.cand # disk[Man(Installed)].ver
  <2>1. TypeOK /\ LocalStep(p)
    BY BeginControl DEF IInv, Control
  <2>2. Me(p)' \in Locals
    BY <2>1 DEF TypeOK, LocalStep, Me
  <2>3. CASE \E v \in Versions : InstallNew(p, v)
    <3>1. PICK v \in Versions : Me(p)' = [NoOp EXCEPT !.pc = "i_stage", !.id = Op(p), !.pkg = Op(p), !.cand = v]
      BY <2>1, <2>3, SetLocal DEF InstallNew
    <3> QED
      BY <2>2, <3>1 DEF NoOp, Op
  <2>4. CASE \E v \in Versions : UpdatePrepare(p, v)
    <3>1. PICK v \in Versions : UpdatePrepare(p, v)
      BY <2>4
    <3> DEFINE l == [NoOp EXCEPT !.id = Op(p), !.pkg = Installed, !.cand = v, !.mode = "Update",
                         !.pc = IF v = disk[Man(Installed)].ver THEN "same" ELSE "u_guard"]
    <3>2. Lockable(Installed) /\ Acquire(p, Installed) /\ Set(p, l)
      BY <3>1 DEF UpdatePrepare
    <3>3. Me(p)' = l
      BY <2>1, <3>2, SetLocal
    <3>4. /\ l.id = n /\ l.pkg = Installed /\ l.pc \in {"same", "u_guard"}
          /\ l.pc = "u_guard" => l.cand # disk[Man(Installed)].ver
      BY DEF NoOp, Op
    <3> QED
      BY <2>2, <3>2, <3>3, <3>4, AcquireStep
  <2>5. CASE InstallSame(p)
    <3>1. /\ Lockable(Installed) /\ Acquire(p, Installed)
          /\ Me(p)' = [NoOp EXCEPT !.pc = "same", !.id = Op(p), !.pkg = Installed]
      BY <2>1, <2>5, SetLocal DEF InstallSame
    <3> QED
      BY <2>2, <3>1, AcquireStep DEF NoOp, Op
  <2>6. CASE RecoverPrepare(p)
    <3>1. Me(p)' = [NoOp EXCEPT !.pc = "r_stat", !.id = Op(p)]
      BY <2>1, <2>6, SetLocal DEF RecoverPrepare
    <3> QED
      BY <2>2, <3>1 DEF NoOp, Op
  <2>7. CASE RemovePrepare(p)
    <3>1. /\ Lockable(Installed) /\ Acquire(p, Installed)
          /\ Me(p)' = [NoOp EXCEPT !.pc = "detach", !.id = Op(p), !.pkg = Installed]
      BY <2>1, <2>7, SetLocal DEF RemovePrepare
    <3> QED
      BY <2>2, <3>1, AcquireStep DEF NoOp, Op
  <2> QED
    BY <2>3, <2>4, <2>5, <2>6, <2>7
<1>3. PICK l \in Locals :
        /\ Me(p)' = l /\ l.id = n
        /\ \/ l.pc = "i_stage" /\ l.pkg = n
           \/ l.pc = "r_stat" /\ l.pkg = 0
           \/ /\ l.pc \in {"same", "u_guard", "detach"} /\ l.pkg = Installed /\ Installed \in OpIds
              /\ lock' = [lock EXCEPT ![Installed] = p]
              /\ l.pc = "u_guard" => l.cand # disk[Man(Installed)].ver
  BY <1>2
<1>4. Apart(p, l)
  BY <1>1, <1>3, OthersApart DEF Apart
<1>5. HoldsLock(p, l)'
  <2>1. lock' = [lock EXCEPT ![Installed] = p] /\ Installed \in OpIds => lock'[Installed] = p
    BY DEF IInv, TypeOK
  <2>2. l.pkg <= started' /\ l.id \in 1..started'
    BY <1>1, <1>3
  <2>3. /\ l.pc \in HoldPcs => l.pkg \in OpIds /\ lock'[l.pkg] = p /\ l.pkg = Installed
        /\ l.pc \in InstPcs => l.pkg = Installed
        /\ l.pc \in GonePcs \cup {"i_stage", "i_publish"} => l.pkg # Installed /\ l.pkg = l.id
    BY <1>1, <1>3, <2>1 DEF HoldPcs, InstPcs, GonePcs, RecordPcs, UpdatePcs, RecoverPcs, EndPcs
  <2>4. l.pc \in {"i_stage", "i_publish"} => l.pkg = l.id
    BY <2>3
  <2> QED
    BY <1>1, <2>2, <2>3, <2>4 DEF HoldsLock
<1>6. Stages(l)'
  <2>1. \A f \in Images' : f.ino # n
    <3>1. Images' = Images
      BY <1>1 DEF files, Images, ImageSlots, Vals, Older, Exe, Man, SExe, SMan
    <3>2. \A f \in Images : f.ino <= started /\ f.ino \in Nat
      BY FileTypes DEF IInv, ImagesAreOfOneKind, Images, ImageSlots, Files
    <3> QED
      BY <1>1, <3>1, <3>2
  <2>2. Empty(n) /\ (Empty(n) => \A k \in OpIds : k = n => Empty(k)')
    BY <1>1 DEF IInv, UnstartedIsEmpty, files, Empty, Vals, Older, Exe, Man
  <2>3. l.pc = "i_stage" => l.pkg = n
    BY <1>3
  <2> QED
    BY <1>1, <1>3, <2>1, <2>2, <2>3 DEF Stages
<1>7. Earned(l)' /\ Flags(l)' /\ Lays(l)'
  BY <1>3 DEF Earned, Flags, Lays, Heading, RecordPcs
<1>8. Carries(l)'
  BY <1>1, <1>3 DEF Carries, CarryPcs, RecordPcs, UpdatePcs, RecoverPcs, EndPcs, files, Man
<1> QED
  BY <1>3, <1>4, <1>5, <1>6, <1>7, <1>8 DEF OwnStep, Works

\* What recovery has seen of a record that it acts upon.
LEMMA ClassifyFacts ==
  ASSUME NEW i, NEW next, NEW r, r = disk[Rec], Classify(i, next) # "Manual", r.state # "absent"
  PROVE  /\ r.stage \in 2..5
         /\ Classify(i, next) = "Finalize" =>
              disk[Man(i)].ver = r.cur /\ Whole(Exe(i)) /\ disk[Exe(i)].ver = r.cand
<1>1. r.pkg # i => r.stage = 5 /\ Classify(i, next) = "None"
  BY DEF Classify, OutcomeRecorded
<1>2. r.pkg = i => r.stage \in 2..5
  BY DEF Classify, OutcomeRecorded, StagedRecorded, BinaryCommitted, ManifestCommitted
<1>3. r.pkg = i /\ Classify(i, next) = "Finalize" =>
        disk[Man(i)].ver = r.cur /\ Whole(Exe(i)) /\ disk[Exe(i)].ver = r.cand
  BY DEF Classify
<1> QED
  BY <1>1, <1>2, <1>3

\* An executable of the new image beside a manifest of the old one is flagged.
LEMMA FinalizeIsFlagged ==
  ASSUME IInv, NEW i \in OpIds, NEW r, r = disk[Rec], r.stage # 0,
         Whole(Man(i)), disk[Man(i)].ver = r.cur, Whole(Exe(i)), disk[Exe(i)].ver = r.cand
  PROVE  Flagged(i)
<1>1. r.cur # r.cand
  BY DEF IInv, RecordsAreProper, Vals, Proper
<1>2. disk[Man(i)] \in Images /\ disk[Exe(i)] \in Images
  BY DEF Images, ImageSlots, Vals
<1>3. disk[Man(i)].ino # disk[Exe(i)].ino
  BY <1>1, <1>2 DEF IInv, ImagesAreOfOneKind
<1>4. Mixed(i)
  BY <1>3 DEF Mixed, Vals, Whole, IsWhole
<1> QED
  BY <1>4 DEF IInv, MixturesAreFlagged

\* Places where nothing is relied on but the lock and the record.
LEMMA PlainWorks ==
  ASSUME NEW p \in Procs, NEW l, HoldsLock(p, l)',
         l.pc \in {"i_publish", "reopen", "resync", "r_stat", "r_open", "r_exe", "r_sman",
                   "r_mansync", "drop", "same", "detach", "detached", "payload", "manifest", "root",
                   "u_mansync"},
         l.pc \in CarryPcs => l.rec.stage # 0 /\ Proper(l.rec)
  PROVE  Works(p, l)'
<1>1. Earned(l)' /\ Stages(l)' /\ Flags(l)' /\ Lays(l)'
  BY DEF Earned, Stages, Flags, Lays, Heading, RecordPcs
<1>2. Carries(l)'
  BY DEF Carries, Proper
<1> QED
  BY <1>1, <1>2 DEF Works

LEMMA SwitchOwn ==
  ASSUME IInv, NEW p \in Procs,
         StagePackage(p) \/ DropPackage(p) \/ Reopen(p) \/ RecoverStat(p) \/ RecoverOpen(p)
  PROVE  OwnStep(p)
<1>0. /\ TypeOK /\ Me(p) \in Locals /\ Works(p, Me(p)) /\ started' = started /\ started \in Nat
      /\ Installed \in 0..started /\ Step(p)
  BY ProcFacts, InstalledId, InstallationAssumption
     DEF IInv, Own, TypeOK, StagePackage, DropPackage, Reopen, RecoverStat, RecoverOpen, counters,
         Step, CommonStep
<1>1. Me(p).pc # "idle" /\ Installed' = Installed
  <2>1. Me(p).pc \in {"i_stage", "drop", "reopen", "r_stat", "r_open"}
    BY DEF StagePackage, DropPackage, Reopen, RecoverStat, RecoverOpen, At, Me
  <2> QED
    BY <1>0, <2>1, OwnQuiet DEF Quiet, Installed
<1>2. Me(p).id \in 1..started /\ Me(p).pkg <= started /\ Me(p).pkg \in Nat
  BY <1>0, <1>1 DEF Works, HoldsLock, At, Me, Locals
<1>3. ASSUME NEW l, l.id = Me(p).id, l.pkg \in {Me(p).pkg, Installed},
             l.pc \in {"i_stage", "i_publish"} => At(p, "i_stage") /\ l.pkg = Me(p).pkg
      PROVE  Apart(p, l)
  BY <1>1, <1>3, OthersApart DEF Apart, At, Me
<1>4. CASE StagePackage(p)
  <2>1. PICK l : l = [Me(p) EXCEPT !.pc = "i_publish"]
    OBVIOUS
  <2>2. At(p, "i_stage") /\ Acquire(p, Me(p).pkg) /\ Me(p)' = l
    BY <1>0, <1>4, <2>1, SetLocal DEF StagePackage, Goto, Me
  <2>3. l.pc = "i_publish" /\ l.pkg = Me(p).pkg /\ l.id = Me(p).id
    BY <1>0, <2>1 DEF Locals
  <2>4. l.pkg \in OpIds /\ l.pkg # Installed /\ l.pkg = l.id /\ lock'[l.pkg] = p
    BY <1>0, <2>2, <2>3, ProcFacts DEF Works, HoldsLock, At, Me, Acquire, TypeOK
  <2>5. HoldsLock(p, l)'
    BY <1>0, <1>1, <1>2, <2>3, <2>4
       DEF HoldsLock, HoldPcs, InstPcs, GonePcs, RecordPcs, UpdatePcs, RecoverPcs, EndPcs
  <2>6. l.pc \notin CarryPcs
    BY <2>3 DEF CarryPcs, RecordPcs, UpdatePcs, RecoverPcs, EndPcs
  <2> QED
    BY <1>3, <2>2, <2>3, <2>5, <2>6, PlainWorks DEF OwnStep
<1>5. CASE DropPackage(p)
  <2>1. PICK l : l = [Me(p) EXCEPT !.pc = "reopen"]
    OBVIOUS
  <2>2. At(p, "drop") /\ Me(p)' = l
    BY <1>0, <1>5, <2>1, SetLocal DEF DropPackage, Goto, Me
  <2>3. l.pc = "reopen" /\ l.pkg = Me(p).pkg /\ l.id = Me(p).id /\ l.rec = Me(p).rec
    BY <1>0, <2>1 DEF Locals
  <2>4. l.rec.stage # 0 /\ Proper(l.rec)
    BY <1>0, <2>2, <2>3 DEF Works, Carries, At, Me, CarryPcs, EndPcs
  <2>5. HoldsLock(p, l)'
    BY <1>0, <1>2, <2>3
       DEF HoldsLock, HoldPcs, InstPcs, GonePcs, RecordPcs, UpdatePcs, RecoverPcs, EndPcs
  <2> QED
    BY <1>3, <2>2, <2>3, <2>4, <2>5, PlainWorks DEF OwnStep
<1>6. CASE Reopen(p)
  <2>1. PICK l : l = [Me(p) EXCEPT !.pkg = Installed, !.pc = "resync"]
    OBVIOUS
  <2>2. At(p, "reopen") /\ Lockable(Installed) /\ Acquire(p, Installed) /\ Me(p)' = l
    BY <1>0, <1>6, <2>1, SetLocal DEF Reopen
  <2>3. l.pc = "resync" /\ l.pkg = Installed /\ l.id = Me(p).id /\ l.rec = Me(p).rec
    BY <1>0, <2>1 DEF Locals
  <2>4. l.rec.stage # 0 /\ Proper(l.rec)
    BY <1>0, <2>2, <2>3 DEF Works, Carries, At, Me, CarryPcs
  <2>5. Installed \in OpIds /\ lock'[Installed] = p
    BY <1>0, <2>2, AcquireStep DEF TypeOK
  <2>6. HoldsLock(p, l)'
    BY <1>0, <1>1, <1>2, <2>3, <2>5
       DEF HoldsLock, HoldPcs, InstPcs, GonePcs, RecordPcs, UpdatePcs, RecoverPcs, EndPcs
  <2> QED
    BY <1>3, <2>2, <2>3, <2>4, <2>6, PlainWorks DEF OwnStep
<1>7. CASE RecoverStat(p)
  <2>1. PICK l : l = [Me(p) EXCEPT !.next = Present(NextRec), !.pc = "r_open"]
    OBVIOUS
  <2>2. Me(p)' = l
    BY <1>0, <1>7, <2>1, SetLocal DEF RecoverStat
  <2>3. l.pc = "r_open" /\ l.pkg = Me(p).pkg /\ l.id = Me(p).id
    BY <1>0, <2>1 DEF Locals
  <2>4. HoldsLock(p, l)'
    BY <1>0, <1>2, <2>3
       DEF HoldsLock, HoldPcs, InstPcs, GonePcs, RecordPcs, UpdatePcs, RecoverPcs, EndPcs
  <2>5. l.pc \notin CarryPcs
    BY <2>3 DEF CarryPcs, RecordPcs, UpdatePcs, RecoverPcs, EndPcs
  <2> QED
    BY <1>3, <2>2, <2>3, <2>4, <2>5, PlainWorks DEF OwnStep
<1>8. CASE RecoverOpen(p)
  <2> DEFINE mode == Classify(Installed, Me(p).next)
             pc == CASE mode = "Abandon" -> "r_exe" [] mode = "Finalize" -> "r_man" [] OTHER -> "drop"
             e == [Me(p) EXCEPT !.pkg = Installed, !.mode = mode, !.rec = disk[Rec], !.pc = pc]
  <2>1. /\ Relaxed(Installed) /\ Lockable(Installed) /\ mode # "Manual"
        /\ Finish(p) \/ (Present(Rec) /\ Acquire(p, Installed) /\ Set(p, e))
    BY <1>8 DEF RecoverOpen
  <2>2. CASE Finish(p)
    BY <1>0, <2>2, SetLocal, EndingOwn DEF Finish
  <2>3. CASE Present(Rec) /\ Acquire(p, Installed) /\ Set(p, e)
    <3>1. PICK l : l = e
      OBVIOUS
    <3>2. Me(p)' = l
      BY <1>0, <2>3, <3>1, SetLocal
    <3>3. l.pc = pc /\ l.pkg = Installed /\ l.id = Me(p).id /\ l.rec = disk[Rec]
      BY <1>0, <3>1 DEF Locals
    <3>4. l.pc \in {"r_exe", "r_man", "drop"} /\ (l.pc = "r_man" => mode = "Finalize")
      BY <3>3
    <3>5. l.rec.state # "absent"
      BY <2>3, <3>3 DEF Present
    <3>6. /\ l.rec.stage \in 2..5
          /\ mode = "Finalize" =>
               /\ disk[Man(Installed)].ver = l.rec.cur
               /\ Whole(Exe(Installed)) /\ disk[Exe(Installed)].ver = l.rec.cand
      BY <2>1, <3>3, <3>5, ClassifyFacts
    <3> HIDE DEF mode, pc
    <3>7. l.rec.stage # 0 /\ Proper(l.rec)
      BY <3>3, <3>6 DEF IInv, RecordsAreProper, Vals
    <3>8. Installed \in OpIds /\ lock'[Installed] = p
      BY <1>0, <2>1, <2>3, AcquireStep DEF TypeOK
    <3>9. HoldsLock(p, l)'
      BY <1>0, <1>1, <1>2, <3>3, <3>4, <3>8
         DEF HoldsLock, HoldPcs, InstPcs, GonePcs, RecordPcs, UpdatePcs, RecoverPcs, EndPcs
    <3>10. Works(p, l)'
      <4>1. CASE l.pc # "r_man"
        BY <3>4, <3>7, <3>9, <4>1, PlainWorks
      <4>2. CASE l.pc = "r_man"
        <5>1. Flagged(Installed)
          BY <2>1, <3>3, <3>4, <3>6, <3>7, <3>8, <4>2, FinalizeIsFlagged DEF Relaxed
        <5>2. PICK k \in OpIds : k = Installed
          BY <3>8
        <5>3. Quiet(Prefix) /\ Quiet(Rec) /\ Quiet(Guard(k))
          BY <1>0, <1>8, OwnQuiet DEF RecoverOpen, At, Me
        <5>4. Flagged(l.pkg)'
          BY <3>3, <5>1, <5>2, <5>3, QuietKeeps
        <5>5. Earned(l)' /\ Stages(l)' /\ Lays(l)' /\ Carries(l)'
          BY <3>7, <4>2 DEF Earned, Stages, Lays, Carries, Proper, Heading, RecordPcs
        <5>6. Flags(l)'
          BY <4>2, <5>4 DEF Flags, Heading, RecordPcs
        <5> QED
          BY <3>9, <5>5, <5>6 DEF Works
      <4> QED
        BY <4>1, <4>2
    <3> QED
      BY <1>3, <3>2, <3>3, <3>4, <3>10 DEF OwnStep
  <2> QED
    BY <2>1, <2>2, <2>3
<1> QED
  BY <1>4, <1>5, <1>6, <1>7, <1>8

\* The steps that go on to write a record.
LEMMA RecordingOwn ==
  ASSUME IInv, NEW p \in Procs, Recording(p)
  PROVE  OwnStep(p)
<1>0. /\ TypeOK /\ Me(p) \in Locals /\ Works(p, Me(p)) /\ Step(p)
      /\ started' = started /\ lock' = lock /\ promise' = promise
  BY ProcFacts DEF IInv, Own, Recording, Step, UpdateStep, CommonStep, SyncGuard, SyncStaged,
       SyncBinary, SyncManifest, RecordOutcome, counters, history
<1> DEFINE i == Me(p).pkg
<1>1. /\ Me(p).pc \in {"u_guardsync", "u_sync", "u_binsync", "u_mansync", "outcome"}
      /\ SyncGuard(p) => Me(p).pc = "u_guardsync"
      /\ SyncStaged(p) => Me(p).pc = "u_sync"
      /\ SyncBinary(p) => Me(p).pc = "u_binsync"
      /\ SyncManifest(p) => Me(p).pc = "u_mansync"
      /\ RecordOutcome(p) => Me(p).pc = "outcome" /\ UNCHANGED files
  BY DEF Recording, SyncGuard, SyncStaged, SyncBinary, SyncManifest, RecordOutcome, At, Me
<1>2. /\ i \in OpIds /\ Me(p).id \in OpIds /\ Me(p).id \in 1..started /\ i <= started
      /\ lock[i] = p /\ Installed = i
  BY <1>0, <1>1, ProcFacts DEF Works, HoldsLock, At, Me, HoldPcs, InstPcs, UpdatePcs, EndPcs
<1>3. /\ Quiet(Prefix) /\ Quiet(Rec) /\ Quiet(NextRec) /\ Quiet(Exe(i)) /\ Quiet(Man(i))
      /\ Me(p).pc # "u_guardsync" => Quiet(Guard(i))
      /\ Installed' = Installed
  BY <1>0, <1>1, <1>2, OwnQuiet DEF Quiet, Installed
<1>4. ASSUME NEW l, Me(p)' = l, l.id = Me(p).id, l.pkg = i, l.pc \in {"create", "guard"}
      PROVE  HoldsLock(p, l)' /\ Apart(p, l)
  <2>1. Apart(p, l)
    BY <1>1, <1>4, OthersApart DEF Apart
  <2> QED
    BY <1>0, <1>2, <1>3, <1>4, <2>1
       DEF HoldsLock, HoldPcs, InstPcs, GonePcs, RecordPcs, UpdatePcs, RecoverPcs, EndPcs
<1>5. CASE SyncGuard(p)
  <2> DEFINE e == [NoRecord EXCEPT !.stage = IntentRecorded, !.by = Me(p).id, !.pkg = i,
                                   !.cur = disk[Man(i)].ver, !.cand = Me(p).cand]
  <2>1. Me(p)' = [Me(p) EXCEPT !.pc = "create", !.rec = e, !.then = "u_stage"]
    BY <1>0, <1>5, SetLocal DEF SyncGuard, WriteRecord
  <2>2. /\ disk[Man(i)].ver \in Nat /\ i \in 0..MaxOps /\ Me(p).id \in 0..MaxOps /\ Me(p).cand \in Nat
        /\ disk[Guard(i)] \in Files
    BY <1>0, <1>2, FileTypes DEF Files, Locals
  <2>3. e \in Records /\ e.stage = 1 /\ e.by = Me(p).id /\ e.cur = disk[Man(i)].ver /\ e.cand = Me(p).cand
    <3>1. e \in Records
      BY <2>2, FirstRecord DEF IntentRecorded
    <3>2. e.stage = 1 /\ e.by = Me(p).id /\ e.cur = disk[Man(i)].ver /\ e.cand = Me(p).cand
      BY DEF NoRecord, IntentRecorded
    <3> QED
      BY <3>1, <3>2
  <2>4. e.stage # 0 /\ Proper(e)
    BY <1>0, <1>1, <1>2, <1>5, <2>3 DEF Works, Carries, Proper
  <2>5. PICK r \in Records : r = e
    BY <2>3
  <2>6. PICK l : l = [Me(p) EXCEPT !.pc = "create", !.rec = r, !.then = "u_stage"]
    OBVIOUS
  <2>7. /\ Me(p)' = l /\ l.id = Me(p).id /\ l.pkg = i /\ l.pc = "create" /\ l.rec = r /\ l.then = "u_stage"
        /\ HoldsLock(p, l)' /\ Apart(p, l)
    <3>1. Me(p)' = l
      BY <2>1, <2>5, <2>6
    <3>2. l.id = Me(p).id /\ l.pkg = i /\ l.pc = "create" /\ l.rec = r /\ l.then = "u_stage"
      BY <1>0, <2>6 DEF Locals
    <3> QED
      BY <1>4, <3>1, <3>2
  <2> HIDE DEF e
  <2>8. /\ disk' = [disk EXCEPT ![Guard(i)].state = "synced"]
        /\ dirty' = [s \in Slots |-> IF s \in Root(i) THEN {} ELSE dirty[s]]
    BY <1>5 DEF SyncGuard
  <2>9. PICK k \in OpIds : k = i
    BY <1>2
  <2>10. Present(Guard(k))' /\ dirty'[Guard(k)] = {}
    <3>1. disk'[Guard(k)] = [disk[Guard(k)] EXCEPT !.state = "synced"] /\ dirty'[Guard(k)] = {}
      BY <1>0, <2>8, <2>9, SlotSets DEF TypeOK, FilesOK
    <3> QED
      BY <2>2, <2>9, <3>1 DEF Present, Files, Guard
  <2>11. Flags(l)'
    BY <2>7, <2>9, <2>10 DEF Flags, Heading, RecordPcs, Guard, Present
  <2>12. Stages(l)'
    <3>1. \A f \in Images : f.ino # Me(p).id
      BY <1>0, <1>1, <1>5 DEF Works, Stages, Heading
    <3>2. \A f \in Images' : f.ino # Me(p).id
      BY <1>0, <1>1, <1>2, <1>5, <3>1, NewImages DEF OpIds
    <3> QED
      BY <2>7, <3>2 DEF Stages, Heading
  <2>13. Earned(l)' /\ Lays(l)' /\ Carries(l)'
    BY <2>4, <2>5, <2>3, <2>7 DEF Earned, Lays, Carries, Proper, Heading, RecordPcs
  <2> QED
    BY <2>7, <2>11, <2>12, <2>13 DEF OwnStep, Works
<1>6. CASE SyncStaged(p) \/ SyncBinary(p) \/ SyncManifest(p)
  <2>1. PICK n \in 2..4, t \in {"u_bin", "u_man", "drop"} :
          /\ Me(p)' = [Me(p) EXCEPT !.pc = "create", !.rec = [Me(p).rec EXCEPT !.stage = n], !.then = t]
          /\ t = "u_bin" => SyncStaged(p)
          /\ t = "u_man" => SyncBinary(p)
    <3>1. CASE SyncStaged(p)
      BY <1>0, <3>1, SetLocal DEF SyncStaged, WriteRecord, StagedRecorded
    <3>2. CASE SyncBinary(p)
      BY <1>0, <3>2, SetLocal DEF SyncBinary, WriteRecord, BinaryCommitted
    <3>3. CASE SyncManifest(p)
      BY <1>0, <3>3, SetLocal DEF SyncManifest, WriteRecord, ManifestCommitted
    <3> QED
      BY <1>6, <3>1, <3>2, <3>3
  <2>2. PICK r \in Records : r = [Me(p).rec EXCEPT !.stage = n] /\ r.stage = n /\ Proper(r)
    <3> DEFINE e == [Me(p).rec EXCEPT !.stage = n]
    <3>1. Me(p).rec \in Records /\ Me(p).rec.stage # 0 /\ Proper(Me(p).rec)
      BY <1>0, <1>1, <1>6 DEF Works, Carries, CarryPcs, UpdatePcs, Locals
    <3>2. e \in Records
      BY <3>1 DEF Records
    <3>3. e.stage = n /\ Proper(e)
      BY <3>1 DEF Records, Proper
    <3> QED
      BY <3>2, <3>3
  <2>3. PICK l : l = [Me(p) EXCEPT !.pc = "create", !.rec = r, !.then = t]
    OBVIOUS
  <2>4. /\ Me(p)' = l /\ l.id = Me(p).id /\ l.pkg = i /\ l.pc = "create" /\ l.rec = r /\ l.then = t
        /\ HoldsLock(p, l)' /\ Apart(p, l)
    <3>1. Me(p)' = l
      BY <2>1, <2>2, <2>3
    <3>2. l.id = Me(p).id /\ l.pkg = i /\ l.pc = "create" /\ l.rec = r /\ l.then = t
      BY <1>0, <2>3 DEF Locals
    <3> QED
      BY <1>4, <3>1, <3>2
  <2>5. PICK k \in OpIds : k = i
    BY <1>2
  <2>6. t = "u_bin" => Flagged(k)'
    <3> SUFFICES ASSUME SyncStaged(p) PROVE Flagged(k)'
      BY <2>1
    <3>1. Me(p).pc = "u_sync" /\ Lays(Me(p)) /\ Flags(Me(p))
      BY <1>0, <1>1 DEF Works
    <3>2. disk[Rec].stage \in 1..4 /\ dirty[Prefix] = {} /\ dirty[Rec] = {}
      BY <3>1 DEF Lays
    <3>3. Present(Guard(k)) /\ dirty[Guard(k)] = {} /\ cached[Guard(k)] = {}
      BY <2>5, <3>1 DEF Flags, Heading
    <3>4. /\ cached' = [s \in Slots |-> IF s \in Parent THEN dirty[s] ELSE {}]
          /\ dirty' = [s \in Slots |-> IF s \in Parent THEN {} ELSE dirty[s]]
      BY DEF SyncStaged
    <3>5. /\ dirty'[Prefix] = {} /\ cached'[Prefix] = {} /\ dirty'[Rec] = {} /\ cached'[Rec] = {}
          /\ dirty'[Guard(k)] = {} /\ cached'[Guard(k)] = {}
      BY <3>2, <3>3, <3>4, SlotSets
    <3>6. disk'[Rec] = disk[Rec] /\ disk'[Guard(k)] = disk[Guard(k)]
      BY <1>3, <2>5, <3>1 DEF Quiet
    <3> QED
      BY <1>2, <1>3, <2>5, <3>2, <3>3, <3>5, <3>6
         DEF Flagged, Vals, Older, Installed, Present, IsPending, Prefix, Rec, Guard
  <2>7. t = "u_man" => Flagged(k)' /\ promise' = 0
    <3> SUFFICES ASSUME SyncBinary(p) PROVE Flagged(k)' /\ promise' = 0
      BY <2>1
    <3>1. Flagged(k) /\ promise = 0 /\ Me(p).pc = "u_binsync"
      BY <1>0, <1>1, <2>5 DEF Works, Flags, Earned, Heading
    <3> QED
      BY <1>0, <1>3, <2>5, <3>1, QuietKeeps
  <2>8. Earned(l)' /\ Lays(l)' /\ Carries(l)' /\ Stages(l)'
    BY <2>2, <2>4, <2>7 DEF Earned, Lays, Carries, Stages, Proper, Heading, RecordPcs
  <2>9. Flags(l)'
    BY <2>4, <2>5, <2>6, <2>7 DEF Flags, Heading, RecordPcs
  <2> QED
    BY <2>4, <2>8, <2>9 DEF OwnStep, Works
<1>7. CASE RecordOutcome(p)
  <2>1. PICK k \in OpIds : k = i
    BY <1>2
  <2>2. Settled(k)'
    <3>1. Settled(k)
      BY <1>0, <1>1, <1>7, <2>1 DEF Works, Earned, Heading
    <3> QED
      BY <1>3, <2>1, <3>1, QuietKeeps
  <2>3. Me(p).rec \in Records /\ Me(p).rec.stage # 0 /\ Proper(Me(p).rec)
    BY <1>0, <1>1, <1>7 DEF Works, Carries, CarryPcs, EndPcs, Locals
  <2>4. CASE Goto(p, "guard")
    <3>1. PICK l : l = [Me(p) EXCEPT !.pc = "guard"]
      OBVIOUS
    <3>2. Me(p)' = l
      BY <1>0, <2>4, <3>1, SetLocal DEF Goto, Me
    <3>3. l.id = Me(p).id /\ l.pkg = i /\ l.pc = "guard" /\ l.rec = Me(p).rec
      BY <1>0, <3>1 DEF Locals
    <3>4. Earned(l)' /\ Lays(l)' /\ Carries(l)' /\ Stages(l)' /\ Flags(l)'
      BY <2>1, <2>2, <2>3, <3>3 DEF Earned, Lays, Carries, Stages, Flags, Proper, Heading, RecordPcs
    <3> QED
      BY <1>4, <3>2, <3>3, <3>4 DEF OwnStep, Works
  <2>5. CASE ~Goto(p, "guard")
    <3> DEFINE o == IF Me(p).mode = "Update" THEN "Published" ELSE DecideOutcome(Me(p).rec, disk[Man(i)].ver)
               e == [Me(p).rec EXCEPT !.stage = OutcomeRecorded, !.outcome = o]
    <3>1. o \in {"Published", "Abandoned"}
      BY DEF DecideOutcome
    <3>2. Me(p)' = [Me(p) EXCEPT !.pc = "create", !.rec = e, !.then = "guard"]
      BY <1>0, <1>7, <2>5, SetLocal DEF RecordOutcome, WriteRecord
    <3>3. e \in Records
      BY <2>3, <3>1, LastRecord DEF OutcomeRecorded
    <3>4. e.stage = 5 /\ Proper(e)
      BY <2>3 DEF Proper, Records, OutcomeRecorded
    <3>5. PICK r \in Records : r = e
      BY <3>3
    <3>6. PICK l : l = [Me(p) EXCEPT !.pc = "create", !.rec = r, !.then = "guard"]
      OBVIOUS
    <3>7. /\ Me(p)' = l /\ l.id = Me(p).id /\ l.pkg = i /\ l.pc = "create" /\ l.rec = r /\ l.then = "guard"
          /\ HoldsLock(p, l)' /\ Apart(p, l)
      <4>1. Me(p)' = l
        BY <3>2, <3>5, <3>6
      <4>2. l.id = Me(p).id /\ l.pkg = i /\ l.pc = "create" /\ l.rec = r /\ l.then = "guard"
        BY <1>0, <3>6 DEF Locals
      <4> QED
        BY <1>4, <4>1, <4>2
    <3> HIDE DEF e
    <3>8. Earned(l)' /\ Lays(l)' /\ Carries(l)' /\ Stages(l)' /\ Flags(l)'
      BY <2>1, <2>2, <3>4, <3>5, <3>7 DEF Earned, Lays, Carries, Stages, Flags, Proper, Heading, RecordPcs
    <3> QED
      BY <3>7, <3>8 DEF OwnStep, Works
  <2> QED
    BY <2>4, <2>5
<1> QED
  BY <1>5, <1>6, <1>7 DEF Recording

\* From which place to which the other steps go.
Leads(p, pc, c) ==
  \/ CreateNext(p) /\ pc = "create" /\ c = "fill"
  \/ FillNext(p) /\ pc = "fill" /\ c = "rename"
  \/ RenameNext(p) /\ pc = "rename" /\ c = "recsync"
  \/ FsyncRecord(p) /\ pc = "recsync" /\ c = Me(p).then
  \/ SyncSame(p) /\ pc = "same" /\ c = "same_done"
  \/ Resync(p) /\ pc = "resync" /\ c = "outcome"
  \/ CreateGuard(p) /\ pc = "u_guard" /\ c = "u_guardsync"
  \/ pc = "u_stage" /\ c = "u_sync"
  \/ pc = "u_bin" /\ c = "u_binsync" /\ promise' = 0
  \/ pc = "guard" /\ c = "guardsync"
  \/ pc = "i_publish" /\ c = "same" /\ Installed' = Me(p).pkg
  \/ pc = "detach" /\ c = "detached" /\ Installed' = 0
  \/ pc = "u_man" /\ c = "u_mansync"
  \/ pc = "r_exe" /\ c = "r_sman"
  \/ pc = "r_man" /\ c = "r_mansync"
  \/ pc \in {"r_sman", "r_mansync"} /\ c = "drop"
  \/ pc = "detached" /\ c = "payload"
  \/ pc = "payload" /\ c = "manifest"
  \/ pc = "manifest" /\ c = "root"

LEMMA GoingPlaces ==
  ASSUME IInv, NEW p \in Procs, Going(p)
  PROVE  \E c : Me(p)' = [Me(p) EXCEPT !.pc = c] /\ Leads(p, Me(p).pc, c)
<1>0. TypeOK /\ FilesOK /\ Prefix \in Slots
  BY SlotSets DEF IInv, TypeOK
<1>1. ASSUME NEW c, Goto(p, c)
      PROVE  Me(p)' = [Me(p) EXCEPT !.pc = c]
  BY <1>0, <1>1, SetLocal DEF Goto, Me
<1>2. CASE CreateNext(p)
  BY <1>1, <1>2 DEF CreateNext, Leads, At, Me
<1>3. CASE FillNext(p)
  BY <1>1, <1>3 DEF FillNext, Leads, At, Me
<1>4. CASE RenameNext(p)
  BY <1>1, <1>4 DEF RenameNext, Leads, At, Me
<1>5. CASE FsyncRecord(p)
  <2>1. Me(p).pc = "recsync" /\ Goto(p, Me(p).then)
    BY <1>5 DEF FsyncRecord, At, Me
  <2> QED
    BY <1>0, <1>5, <2>1, SetLocal DEF Goto, Leads, Me
<1>6. CASE SyncSame(p) \/ Resync(p)
  BY <1>1, <1>6 DEF SyncSame, Resync, SyncThen, Leads, At, Me
<1>7. CASE CreateGuard(p) \/ StageFiles(p) \/ RenameBinary(p) \/ RenameManifest(p)
  BY <1>1, <1>7 DEF CreateGuard, StageFiles, RenameBinary, RenameManifest, Leads, At, Me
<1>8. CASE RemoveGuard(p) \/ AbandonExecutable(p) \/ AbandonManifest(p) \/ FinalizeManifest(p)
           \/ SyncFinalized(p)
  BY <1>1, <1>8 DEF RemoveGuard, AbandonExecutable, AbandonManifest, FinalizeManifest, SyncFinalized,
       Leads, At, Me
<1>9. CASE SyncDetached(p) \/ RemovePayload(p) \/ RemoveManifest(p)
  BY <1>1, <1>9 DEF SyncDetached, RemovePayload, RemoveManifest, Leads, At, Me
<1>10. CASE PublishPackage(p)
  <2>1. disk' = [disk EXCEPT ![Prefix] = File(Me(p).pkg, 0, "synced")]
    BY <1>10 DEF PublishPackage, Write, Put
  <2>2. Installed' = Me(p).pkg
    BY <1>0, <2>1 DEF FilesOK, Installed, File
  <2> QED
    BY <1>1, <1>10, <2>2 DEF PublishPackage, Leads, At, Me
<1>11. CASE Detach(p)
  <2>1. disk' = [disk EXCEPT ![Prefix] = Absent]
    BY <1>11 DEF Detach, Write, Put
  <2>2. Installed' = 0
    BY <1>0, <2>1 DEF FilesOK, Installed, Absent
  <2> QED
    BY <1>1, <1>11, <2>2 DEF Detach, Leads, At, Me
<1> QED
  BY <1>2, <1>3, <1>4, <1>5, <1>6, <1>7, <1>8, <1>9, <1>10, <1>11 DEF Going

\* What the other steps change, of what a process relies on.
LEMMA GoingFiles ==
  ASSUME IInv, NEW p \in Procs, NEW k \in OpIds, k = Me(p).pkg
  PROVE  /\ CreateNext(p) =>
              Present(NextRec)' /\ disk'[NextRec] = [Me(p).rec EXCEPT !.state = "torn"]
         /\ FillNext(p) => /\ disk'[NextRec] = AsSynced(NextRec)
                           /\ cached'[Guard(k)] = {}
         /\ RenameNext(p) => disk'[Rec] = disk[NextRec]
         /\ FsyncRecord(p) => disk' = disk /\ dirty'[Prefix] = {} /\ dirty'[Rec] = {}
         /\ CreateGuard(p) => Present(Guard(k))'
         /\ SyncSame(p) \/ Resync(p) => Settled(k)'
<1>0. FilesOK /\ Me(p) \in Locals
  BY ProcFacts
<1>1. ASSUME CreateNext(p)
      PROVE  Present(NextRec)' /\ disk'[NextRec] = [Me(p).rec EXCEPT !.state = "torn"]
  <2>1. disk' = [disk EXCEPT ![NextRec] = [Me(p).rec EXCEPT !.state = "torn"]]
    BY <1>1 DEF CreateNext, Write, Put
  <2>2. disk'[NextRec] = [Me(p).rec EXCEPT !.state = "torn"]
    BY <1>0, <2>1, SlotSets DEF FilesOK
  <2>3. disk'[NextRec].state = "torn"
    BY <1>0, <2>2 DEF Locals, Records
  <2> QED
    BY <2>2, <2>3 DEF Present, NextRec
<1>2. ASSUME FillNext(p)
      PROVE  disk'[NextRec] = AsSynced(NextRec) /\ cached'[Guard(k)] = {}
  <2>1. FullSync({NextRec})
    BY <1>2 DEF FillNext
  <2> QED
    BY <1>0, <2>1, FullSyncEffect, SlotSets DEF AsSynced
<1>3. ASSUME RenameNext(p)
      PROVE  disk'[Rec] = disk[NextRec]
  <2>1. Move(NextRec, Rec) /\ NextRec # Rec
    BY <1>3, SlotNames DEF RenameNext
  <2> QED
    BY <1>0, <2>1, MoveEffect, SlotSets
<1>4. ASSUME FsyncRecord(p)
      PROVE  disk' = disk /\ dirty'[Prefix] = {} /\ dirty'[Rec] = {}
  <2>1. Fsync(Parent)
    BY <1>4 DEF FsyncRecord
  <2> QED
    BY <2>1, SlotSets DEF Fsync
<1>5. ASSUME CreateGuard(p)
      PROVE  Present(Guard(k))'
  <2>1. disk' = [disk EXCEPT ![Guard(k)] = File(Me(p).id, 0, "written")]
    BY <1>5 DEF CreateGuard, Write, Put
  <2>2. disk'[Guard(k)] = File(Me(p).id, 0, "written")
    BY <1>0, <2>1, SlotSets DEF FilesOK
  <2> QED
    BY <2>2 DEF Present, Guard, File
<1>6. ASSUME SyncSame(p) \/ Resync(p)
      PROVE  Settled(k)'
  <2>1. Strict(k) /\ SyncPublished(k)
    BY <1>6 DEF SyncSame, Resync, SyncThen
  <2>2. /\ \A t \in Slots : cached'[t] = {}
        /\ dirty'[Prefix] = {} /\ dirty'[Exe(k)] = {} /\ dirty'[Man(k)] = {}
        /\ disk'[Exe(k)] = AsSynced(Exe(k)) /\ disk'[Man(k)] = AsSynced(Man(k))
    BY <1>0, <2>1, SyncPublishedEffect DEF AsSynced
  <2>3. /\ AsSynced(Exe(k)).state = "synced" /\ AsSynced(Man(k)).state = "synced"
        /\ AsSynced(Exe(k)).ino = AsSynced(Man(k)).ino
    BY <2>1, FileTypes DEF AsSynced, Files, Strict
  <2> QED
    BY <2>2, <2>3, SlotSets DEF Settled, Older, Exe, Man, Prefix
<1> QED
  BY <1>1, <1>2, <1>3, <1>4, <1>5, <1>6

LEMMA GoingOwn ==
  ASSUME IInv, NEW p \in Procs, Going(p)
  PROVE  OwnStep(p)
<1>1. PICK c, m : m = Me(p) /\ Me(p)' = [m EXCEPT !.pc = c] /\ Leads(p, m.pc, c)
  BY GoingPlaces
<1>2. PICK l : l = [m EXCEPT !.pc = c]
  OBVIOUS
<1>3. /\ Me(p)' = l /\ m \in Locals /\ Works(p, m) /\ Step(p) /\ TypeOK /\ TypeOK'
      /\ l.pc = c /\ l.id = m.id /\ l.pkg = m.pkg /\ l.cand = m.cand /\ l.rec = m.rec /\ l.then = m.then
  <2>1. m \in Locals /\ Works(p, m) /\ Step(p) /\ TypeOK
    BY <1>1, ProcFacts DEF IInv, Own, Going, Step, UpdateStep, CommonStep
  <2> QED
    BY <1>1, <1>2, <2>1, TypeNext DEF Locals
<1>4. started' = started /\ lock' = lock
  BY DEF Going, CreateNext, FillNext, RenameNext, FsyncRecord, SyncSame, Resync, SyncThen, PublishPackage,
     CreateGuard, StageFiles, RenameBinary, RenameManifest, RemoveGuard, AbandonExecutable,
     AbandonManifest, FinalizeManifest, SyncFinalized, Detach, SyncDetached, RemovePayload,
     RemoveManifest, counters
<1>5. m.pc = "recsync" => m.then \in {"u_stage", "u_bin", "u_man", "drop", "guard"}
  BY <1>3 DEF Works, Lays, RecordPcs, Locals
<1>6. /\ m.pc \in InstPcs \cup GonePcs \cup {"i_publish"}
      /\ m.pc \in InstPcs /\ m.pc # "detach" => c \in InstPcs
      /\ m.pc \in GonePcs => c \in GonePcs
  BY <1>1, <1>5 DEF Leads, InstPcs, GonePcs, RecordPcs, UpdatePcs, RecoverPcs, EndPcs
<1>7. PICK k \in OpIds : /\ k = m.pkg /\ m.id \in OpIds /\ m.id \in 1..started /\ k <= started /\ lock[k] = p
                         /\ m.pc \in InstPcs => Installed = k
                         /\ m.pc \in GonePcs => Installed # k
  <2>1. m.pc \in HoldPcs /\ m.pc # "idle"
    BY <1>6 DEF HoldPcs, InstPcs, GonePcs, RecordPcs, UpdatePcs, RecoverPcs, EndPcs
  <2> QED
    BY <1>1, <1>3, <2>1, ProcFacts DEF Works, HoldsLock, At, Me
<1>8. m.pc \notin {"i_publish", "detach"} => Quiet(Prefix) /\ Installed' = Installed
  BY <1>1, <1>3, OwnQuiet DEF Quiet, Installed
<1>9. Apart(p, l)
  <2>1. c \notin {"i_stage", "i_publish"} /\ m.pc # "idle"
    BY <1>1, <1>5, <1>6 DEF Leads, InstPcs, GonePcs, RecordPcs, UpdatePcs, RecoverPcs, EndPcs
  <2> QED
    BY <1>1, <1>3, <2>1, OthersApart DEF Apart
<1>10. HoldsLock(p, l)'
  <2>1. /\ c \in HoldPcs
        /\ c \in InstPcs => Installed' = k
        /\ c \in GonePcs \cup {"i_stage", "i_publish"} => Installed' # k
        /\ c \notin {"i_stage", "i_publish"}
    <3>1. CASE m.pc \in InstPcs /\ m.pc # "detach"
      <4>1. c \in InstPcs /\ Installed' = k
        BY <1>6, <1>7, <1>8, <3>1 DEF InstPcs, RecordPcs, UpdatePcs, RecoverPcs, EndPcs
      <4> QED
        BY <4>1 DEF HoldPcs, InstPcs, GonePcs, RecordPcs, UpdatePcs, RecoverPcs, EndPcs
    <3>2. CASE m.pc \in GonePcs
      <4>1. c \in GonePcs /\ Installed' # k
        BY <1>6, <1>7, <1>8, <3>2 DEF GonePcs
      <4> QED
        BY <4>1 DEF HoldPcs, InstPcs, GonePcs, RecordPcs, UpdatePcs, RecoverPcs, EndPcs
    <3>3. CASE m.pc = "detach"
      <4>1. c = "detached" /\ Installed' = 0 /\ k # 0
        BY <1>1, <1>7, <3>3 DEF Leads, OpIds
      <4> QED
        BY <4>1 DEF HoldPcs, InstPcs, GonePcs, RecordPcs, UpdatePcs, RecoverPcs, EndPcs
    <3>4. CASE m.pc = "i_publish"
      <4>1. c = "same" /\ Installed' = k
        BY <1>1, <1>7, <3>4 DEF Leads
      <4> QED
        BY <4>1 DEF HoldPcs, InstPcs, GonePcs, RecordPcs, UpdatePcs, RecoverPcs, EndPcs
    <3> QED
      BY <1>6, <3>1, <3>2, <3>3, <3>4
  <2> QED
    BY <1>3, <1>4, <1>7, <2>1 DEF HoldsLock
<1>11. /\ m.pc # "rename" => Quiet(Rec)
       /\ m.pc \notin {"create", "fill", "rename"} => Quiet(NextRec)
       /\ m.pc \notin {"u_guard", "u_guardsync", "guard"} => Quiet(Guard(k))
       /\ m.pc \notin {"i_stage", "same", "resync", "u_bin", "payload"} => Quiet(Exe(k))
       /\ m.pc \notin {"i_stage", "same", "resync", "u_man", "r_man", "manifest"} => Quiet(Man(k))
  BY <1>1, <1>3, OwnQuiet
<1>12. /\ CreateNext(p) =>
            Present(NextRec)' /\ disk'[NextRec] = [m.rec EXCEPT !.state = "torn"]
       /\ FillNext(p) => disk'[NextRec] = AsSynced(NextRec) /\ cached'[Guard(k)] = {}
       /\ RenameNext(p) => disk'[Rec] = disk[NextRec]
       /\ FsyncRecord(p) => disk' = disk /\ dirty'[Prefix] = {} /\ dirty'[Rec] = {}
       /\ CreateGuard(p) => Present(Guard(k))'
       /\ SyncSame(p) \/ Resync(p) => Settled(k)'
  BY <1>1, <1>7, GoingFiles
<1>13. Earned(l)'
  <2>1. ASSUME Heading(l, {"same_done", "outcome", "guard", "guardsync"})
        PROVE  Settled(k)'
    <3>1. Heading(m, {"same_done", "outcome", "guard", "guardsync"}) \/ SyncSame(p) \/ Resync(p)
      BY <1>1, <1>3, <2>1 DEF Heading, Leads, RecordPcs
    <3>2. CASE Heading(m, {"same_done", "outcome", "guard", "guardsync"})
      <4>1. Settled(k)
        BY <1>3, <1>7, <3>2 DEF Works, Earned
      <4>2. m.pc \in RecordPcs \cup {"same_done", "outcome", "guard", "guardsync"}
        BY <3>2 DEF Heading
      <4> QED
        BY <1>8, <1>11, <4>1, <4>2, QuietKeeps DEF RecordPcs
    <3> QED
      BY <1>12, <3>1, <3>2
  <2>2. ASSUME Heading(l, {"u_binsync", "u_man"})
        PROVE  promise' = 0
    <3>1. Heading(m, {"u_binsync", "u_man"}) \/ promise' = 0
      BY <1>1, <1>3, <2>2 DEF Heading, Leads, RecordPcs
    <3>2. CASE Heading(m, {"u_binsync", "u_man"})
      <4>1. promise = 0
        BY <1>3, <3>2 DEF Works, Earned
      <4>2. m.pc \notin {"same_done", "guard", "guardsync", "root"}
        BY <3>2 DEF Heading, RecordPcs
      <4> QED
        BY <1>1, <1>3, <4>1, <4>2, StepControl DEF Control, PromiseStep, At, Me
    <3> QED
      BY <3>1, <3>2
  <2> QED
    BY <1>3, <1>7, <2>1, <2>2 DEF Earned, Heading
<1>14. Carries(l)'
  <2>1. c \in CarryPcs => m.pc \in CarryPcs
    BY <1>1 DEF Leads, CarryPcs, RecordPcs, UpdatePcs, RecoverPcs, EndPcs
  <2>2. c \in {"u_guard", "u_guardsync"} => m.pc = "u_guard" /\ disk'[Man(k)] = disk[Man(k)]
    BY <1>1, <1>5, <1>11 DEF Leads, Quiet
  <2> QED
    BY <1>3, <1>7, <2>1, <2>2 DEF Works, Carries, Proper, Man
<1>15. Stages(l)'
  <2>1. ASSUME Heading(l, {"i_stage", "u_guard", "u_guardsync", "u_stage"}), NEW f \in Images'
        PROVE  f.ino # m.id
    <3>1. Heading(m, {"i_stage", "u_guard", "u_guardsync", "u_stage"}) /\ m.pc \notin {"i_stage", "u_stage"}
      BY <1>1, <1>3, <1>5, <2>1 DEF Heading, Leads, RecordPcs
    <3>2. \A g \in Images : g.ino # m.id
      BY <1>3, <3>1 DEF Works, Stages
    <3> QED
      BY <1>1, <1>3, <1>7, <3>1, <3>2, NewImages DEF OpIds
  <2>2. c # "i_stage"
    BY <1>1, <1>5 DEF Leads
  <2> QED
    BY <1>3, <2>1, <2>2 DEF Stages, Heading
<1>16. Flags(l)'
  <2>1. Heading(l, {"u_guardsync", "u_stage", "u_sync"}) => Present(Guard(k))'
    <3> SUFFICES ASSUME Heading(l, {"u_guardsync", "u_stage", "u_sync"}) PROVE Present(Guard(k))'
      OBVIOUS
    <3>1. (Heading(m, {"u_guardsync", "u_stage", "u_sync"}) /\ m.pc # "u_guardsync") \/ CreateGuard(p)
      BY <1>1, <1>3, <1>5 DEF Heading, Leads, RecordPcs
    <3>2. CASE Heading(m, {"u_guardsync", "u_stage", "u_sync"}) /\ m.pc # "u_guardsync"
      <4>1. Present(Guard(k)) /\ Quiet(Guard(k))
        BY <1>3, <1>7, <1>11, <3>2 DEF Works, Flags, Heading, RecordPcs
      <4> QED
        BY <4>1 DEF Present, Quiet, Guard
    <3> QED
      BY <1>12, <3>1, <3>2
  <2>2. Heading(l, {"u_stage", "u_sync"}) =>
          Heading(m, {"u_stage", "u_sync"}) /\ m.pc \in RecordPcs \cup {"u_stage"} /\ Quiet(Guard(k))
    BY <1>1, <1>3, <1>5, <1>11 DEF Heading, Leads, RecordPcs
  <2>3. Heading(l, {"u_stage", "u_sync"}) => dirty'[Guard(k)] = {}
    BY <1>3, <1>7, <2>2 DEF Works, Flags, Quiet
  <2>4. Heading(l, {"u_stage", "u_sync"}) /\ l.pc \notin {"create", "fill"} => cached'[Guard(k)] = {}
    <3> SUFFICES ASSUME Heading(l, {"u_stage", "u_sync"}), l.pc \notin {"create", "fill"}
                 PROVE  cached'[Guard(k)] = {}
      OBVIOUS
    <3>1. CASE m.pc = "fill"
      BY <1>1, <1>12, <3>1 DEF Leads
    <3>2. CASE m.pc # "fill"
      <4>1. m.pc # "create"
        BY <1>1, <1>3 DEF Leads
      <4> QED
        BY <1>3, <1>7, <2>2, <3>2, <4>1 DEF Works, Flags, Quiet, Older
    <3> QED
      BY <3>1, <3>2
  <2>5. Heading(l, {"u_bin", "u_binsync", "u_man", "r_man"}) => Flagged(k)'
    <3> SUFFICES ASSUME Heading(l, {"u_bin", "u_binsync", "u_man", "r_man"}) PROVE Flagged(k)'
      OBVIOUS
    <3>1. /\ Heading(m, {"u_bin", "u_binsync", "u_man", "r_man"})
          /\ m.pc \in RecordPcs \cup {"u_bin"}
          /\ m.pc \in RecordPcs => m.then # "guard"
      BY <1>1, <1>3, <1>5 DEF Heading, Leads, RecordPcs
    <3>2. Flagged(k)
      BY <1>3, <1>7, <3>1 DEF Works, Flags
    <3>3. CASE m.pc = "rename"
      BY <1>1, <1>3, <1>7, <3>1, <3>2, <3>3, RenameKeepsFlag DEF At, Me, RecordPcs
    <3>4. CASE m.pc # "rename"
      BY <1>8, <1>11, <3>1, <3>2, <3>4, QuietKeeps DEF RecordPcs
    <3> QED
      BY <3>3, <3>4
  <2> QED
    BY <1>3, <1>7, <2>1, <2>3, <2>4, <2>5 DEF Flags, Heading, Guard
<1>17. Lays(l)'
  <2>1. c \in RecordPcs => m.pc \in RecordPcs
    BY <1>1, <1>5 DEF Leads, RecordPcs
  <2>2. c \in {"fill", "rename"} =>
          Present(NextRec)' /\ disk'[NextRec] = [m.rec EXCEPT !.state = disk'[NextRec].state]
    <3>1. m.rec \in Records
      BY <1>3 DEF Locals
    <3>2. CASE c = "fill"
      <4>1. Present(NextRec)' /\ disk'[NextRec] = [m.rec EXCEPT !.state = "torn"]
        BY <1>1, <1>5, <1>12, <3>2 DEF Leads
      <4> QED
        BY <3>1, <4>1 DEF Records
    <3>3. CASE c = "rename"
      <4>1. m.pc = "fill" /\ FillNext(p)
        BY <1>1, <1>5, <3>3 DEF Leads
      <4>2. disk[NextRec] = [m.rec EXCEPT !.state = disk[NextRec].state] /\ disk[NextRec] \in Records
        BY <1>3, <4>1, FileTypes DEF Works, Lays
      <4>3. disk'[NextRec] = [disk[NextRec] EXCEPT !.state = "synced"]
        BY <1>12, <4>1 DEF AsSynced
      <4>4. disk'[NextRec].state = "synced"
        BY <4>2, <4>3 DEF Records
      <4>5. disk'[NextRec] = [m.rec EXCEPT !.state = "synced"]
        BY <3>1, <4>2, <4>3 DEF Records
      <4> QED
        BY <4>4, <4>5 DEF Present, NextRec
    <3> QED
      BY <3>2, <3>3
  <2>3. c = "recsync" /\ m.then = "u_stage" => disk'[Rec].stage \in 1..4
    <3> SUFFICES ASSUME c = "recsync", m.then = "u_stage" PROVE disk'[Rec].stage \in 1..4
      OBVIOUS
    <3>1. m.pc = "rename" /\ RenameNext(p)
      BY <1>1, <1>5 DEF Leads
    <3>2. disk[NextRec] = [m.rec EXCEPT !.state = disk[NextRec].state] /\ m.rec.stage \in 1..4
      BY <1>3, <3>1 DEF Works, Lays, RecordPcs
    <3>3. m.rec \in Records
      BY <1>3 DEF Locals
    <3>4. disk[NextRec].stage = m.rec.stage
      BY <3>2, <3>3 DEF Records
    <3> QED
      BY <1>12, <3>1, <3>2, <3>4
  <2>4. c \in {"u_stage", "u_sync"} =>
          disk'[Rec].stage \in 1..4 /\ dirty'[Prefix] = {} /\ dirty'[Rec] = {}
    <3>1. CASE c = "u_stage"
      <4>1. m.pc = "recsync" /\ m.then = "u_stage" /\ FsyncRecord(p)
        BY <1>1, <3>1 DEF Leads
      <4>2. disk[Rec].stage \in 1..4
        BY <1>3, <4>1 DEF Works, Lays
      <4> QED
        BY <1>12, <4>1, <4>2
    <3>2. CASE c = "u_sync"
      <4>1. m.pc = "u_stage"
        BY <1>1, <1>5, <3>2 DEF Leads
      <4>2. disk[Rec].stage \in 1..4 /\ dirty[Prefix] = {} /\ dirty[Rec] = {}
        BY <1>3, <4>1 DEF Works, Lays
      <4> QED
        BY <1>8, <1>11, <4>1, <4>2 DEF Quiet
    <3> QED
      BY <3>1, <3>2
  <2> QED
    BY <1>3, <2>1, <2>2, <2>3, <2>4 DEF Works, Lays, RecordPcs, Rec, NextRec, Prefix
<1> QED
  BY <1>3, <1>9, <1>10, <1>13, <1>14, <1>15, <1>16, <1>17 DEF OwnStep, Works

LEMMA StepOwn ==
  ASSUME IInv, NEW p \in Procs, Step(p)
  PROVE  OwnStep(p)
<1>1. TypeOK /\ started' \in Nat
  BY TypeNext, InstallationAssumption DEF IInv, TypeOK
<1>2. CASE Ending(p)
  <2>1. Me(p)' = NoOp
    BY <1>1, <1>2, SetLocal
       DEF Ending, SameDone, GuardIsGone, SyncGuardRemoval, RemoveRoot, Refuse, Stop, Succeed, Finish
  <2> QED
    BY <1>1, <2>1, EndingOwn
<1> QED
  BY <1>2, BeginOwn, GoingOwn, RecordingOwn, SwitchOwn
     DEF Step, UpdateStep, CommonStep, Going, Recording, Ending

LEMMA KeepsApart ==
  ASSUME IInv, NEW p \in Procs, Step(p)
  PROVE  Separate' /\ \A q \in Procs : Own(q)'
<1>1. PICK l : Me(p)' = l /\ Apart(p, l) /\ Works(p, l)'
  BY StepOwn DEF OwnStep
<1>2. \A q \in Procs : q # p => Me(q)' = Me(q) /\ Own(q)'
  BY OtherFrame, OtherOwn DEF Me
<1>3. Own(p)'
  BY <1>1, OwnNext
<1>4. ASSUME NEW q \in Procs, NEW r \in Procs, q # r
      PROVE  /\ Me(q)'.pc # "idle" /\ Me(r)'.pc # "idle" => Me(q)'.id # Me(r)'.id
             /\ Me(q)'.pc \in {"i_stage", "i_publish"} => Me(r)'.pkg # Me(q)'.pkg
  <2>1. CASE q # p /\ r # p
    BY <1>2, <1>4, <2>1 DEF IInv, Separate, At, Me
  <2>2. CASE q = p
    BY <1>1, <1>2, <1>4, <2>2 DEF Apart
  <2>3. CASE r = p
    BY <1>1, <1>2, <1>4, <2>3 DEF Apart
  <2> QED
    BY <2>1, <2>2, <2>3
<1>5. Separate'
  BY <1>4 DEF Separate, At, Me
<1> QED
  BY <1>2, <1>3, <1>5

LEMMA StepKeeps ==
  ASSUME IInv, NEW p \in Procs, Step(p)
  PROVE  IInv'
  BY TypeNext, KeepsApart, KeepsPrefix, KeepsPromise, KeepsRecords, KeepsImages, KeepsUnstarted,
     KeepsMixtures DEF IInv

\* What a power failure leaves in a name: a value it could recover with, or
\* one that was not synchronized, torn.
LEMMA PowerValues ==
  ASSUME IInv, PowerFailure
  PROVE  /\ \A s \in Slots : /\ Older(s)' = {} /\ Vals(s)' = {disk'[s]} /\ disk'[s] \in ValuesOf(s)
                             /\ \E v \in Vals(s) : \/ disk'[s] = v
                                                   \/ /\ v.state = "written"
                                                      /\ disk'[s] = [v EXCEPT !.state = "torn"]
                                                      /\ disk'[s].state = "torn"
         /\ disk' \in [Slots -> Values]
<1>1. /\ \A s \in Slots : disk'[s] \in Survivors(s)
      /\ disk' \in [Slots -> UNION {Survivors(s) : s \in Slots}]
      /\ dirty' = [s \in Slots |-> {}] /\ cached' = [s \in Slots |-> {}]
  BY DEF PowerFailure, Recoverable
<1>2. ASSUME NEW s \in Slots
      PROVE  /\ Older(s)' = {} /\ Vals(s)' = {disk'[s]} /\ disk'[s] \in ValuesOf(s)
             /\ \E v \in Vals(s) : \/ disk'[s] = v
                                   \/ /\ v.state = "written" /\ disk'[s] = [v EXCEPT !.state = "torn"]
                                      /\ disk'[s].state = "torn"
  <2>1. Older(s)' = {} /\ Vals(s)' = {disk'[s]}
    BY <1>1 DEF Older, Vals
  <2>2. \E v \in Vals(s) : disk'[s] = v \/ (v.state = "written" /\ disk'[s] = [v EXCEPT !.state = "torn"])
    BY <1>1 DEF Survivors, Vals, Older
  <2>3. Vals(s) \subseteq ValuesOf(s) /\ (ValuesOf(s) = Files \/ ValuesOf(s) = Records)
    BY DEF IInv, TypeOK, ValuesOf
  <2>4. \A v \in Files : [v EXCEPT !.state = "torn"] \in Files /\ [v EXCEPT !.state = "torn"].state = "torn"
    BY DEF Files, FileStates
  <2>5. \A v \in Records : [v EXCEPT !.state = "torn"] \in Records /\ [v EXCEPT !.state = "torn"].state = "torn"
    BY DEF Records, FileStates
  <2> QED
    BY <2>1, <2>2, <2>3, <2>4, <2>5
<1>3. \A s \in Slots : disk'[s] \in Values
  BY <1>2 DEF ValuesOf, Values
<1> QED
  BY <1>1, <1>2, <1>3

LEMMA PowerKeeps ==
  ASSUME IInv, PowerFailure
  PROVE  IInv'
<1>1. /\ local' = [p \in Procs |-> NoOp] /\ lock' = [i \in OpIds |-> "free"]
      /\ dirty' = [s \in Slots |-> {}] /\ cached' = [s \in Slots |-> {}]
      /\ started' = started /\ promise' = promise
  BY DEF PowerFailure, history
<1>2. /\ TypeOK /\ started \in 0..MaxOps /\ MaxOps \in Nat
  BY InstallationAssumption DEF IInv, TypeOK
<1>3. \A s \in Slots : /\ Older(s)' = {} /\ Vals(s)' = {disk'[s]} /\ disk'[s] \in ValuesOf(s)
                       /\ \E v \in Vals(s) : \/ disk'[s] = v
                                             \/ /\ v.state = "written"
                                                /\ disk'[s] = [v EXCEPT !.state = "torn"]
                                                /\ disk'[s].state = "torn"
  BY PowerValues
<1>4. TypeOK'
  <2>1. FilesOK'
    BY <1>1, PowerValues DEF FilesOK
  <2>2. \A s \in Slots : Vals(s)' \subseteq ValuesOf(s)
    BY <1>3
  <2>3. \A s \in Slots : Vals(s)' \subseteq ValuesOf(s)'
    BY <2>2 DEF ValuesOf
  <2> QED
    BY <1>1, <1>2, <2>1, <2>3, LocalTypes DEF TypeOK, Vals, Older, ValuesOf
<1>5. Separate' /\ \A p \in Procs : Own(p)'
  <2>1. \A p \in Procs : Me(p)' = NoOp
    BY <1>1 DEF Me
  <2>2. \A p \in Procs : Own(p)'
    <3> SUFFICES ASSUME NEW p \in Procs PROVE Own(p)'
      OBVIOUS
    <3>1. started' \in Nat
      BY <1>1, <1>2
    <3>2. PICK l : l = NoOp
      OBVIOUS
    <3>3. Works(p, l)' /\ Me(p)' = l
      BY <2>1, <3>1, <3>2, IdleWorks
    <3> QED
      BY <3>3, OwnNext
  <2> QED
    BY <2>1, <2>2 DEF Separate, At, Me, NoOp
\* Names whose old values could not be torn, or in which a torn value differs
\* in nothing that counts.
<1>6. disk'[Prefix] \in Vals(Prefix)
  BY <1>3, SlotSets DEF IInv, PrefixIsWhole
<1>7. Older(Prefix) \subseteq {disk[Prefix]} => disk'[Prefix] = disk[Prefix] /\ Installed' = Installed
  BY <1>6 DEF Vals, Installed
<1>8. PrefixIsWhole'
  <2>1. Vals(Prefix)' = {disk'[Prefix]}
    BY <1>3, SlotSets
  <2> QED
    BY <1>1, <1>6, <2>1 DEF IInv, PrefixIsWhole
<1>9. ASSUME NEW i \in OpIds, Settled(i)
      PROVE  Settled(i)' /\ disk'[Exe(i)] = disk[Exe(i)]
  <2>1. \A s \in {Exe(i), Man(i)} : Vals(s) = {disk[s]} /\ disk[s].state = "synced" /\ s \in Slots
    BY <1>9, SlotSets DEF Settled, Vals
  <2>2. \A s \in {Exe(i), Man(i)} : disk'[s] = disk[s]
    BY <1>3, <2>1
  <2>3. Older(Prefix)' = {} /\ Older(Exe(i))' = {} /\ Older(Man(i))' = {}
    BY <1>3, SlotSets
  <2> QED
    BY <1>9, <2>2, <2>3 DEF Settled, Exe, Man, Prefix, Older
<1>10. PromiseIsBacked'
  <2>1. Older(Prefix)' = {}
    BY <1>3, SlotSets
  <2>2. promise' = RemovedImage => Installed' = 0
    BY <1>1, <1>7 DEF IInv, PromiseIsBacked, RemovedImage
  <2>3. ASSUME promise \in Versions
        PROVE  Settled(Installed)' /\ disk'[Exe(Installed')].ver = promise
    <3>1. Settled(Installed) /\ disk[Exe(Installed)].ver = promise
      BY <2>3 DEF IInv, PromiseIsBacked
    <3>2. PICK k \in OpIds : k = Installed
      BY <3>1 DEF Settled
    <3>3. Settled(k)' /\ disk'[Exe(k)] = disk[Exe(k)] /\ Installed' = k
      BY <1>7, <1>9, <3>1, <3>2 DEF Settled
    <3> QED
      BY <3>1, <3>2, <3>3 DEF Settled, Older, Installed, Prefix, Exe, Man
  <2> QED
    BY <1>1, <2>1, <2>2, <2>3 DEF PromiseIsBacked, Settled, Older, Prefix, Exe, Man
<1>11. RecordsAreProper'
  <2>1. \A s \in {Rec, NextRec} : \A v \in Vals(s) : Proper(v) /\ v \in Records
    BY FileTypes DEF IInv, RecordsAreProper
  <2>2. \A v \in Records : Proper(v) => Proper([v EXCEPT !.state = "torn"])
    BY DEF Records, Proper
  <2>3. \A s \in {Rec, NextRec} : Vals(s)' = {disk'[s]} /\ Proper(disk'[s])
    BY <1>3, <2>1, <2>2, SlotSets
  <2> QED
    BY <2>3 DEF RecordsAreProper, Vals, Older, Rec, NextRec, Proper
<1>12. ASSUME NEW f \in Images'
       PROVE  \E g \in Images : g.ino = f.ino /\ g.ver = f.ver
  <2>1. PICK s \in ImageSlots : f \in {disk'[s]} \cup dirty'[s] \cup cached'[s]
    BY DEF Images, ImageSlots, Vals, Older, Exe, Man, SExe, SMan
  <2>2. s \in Slots /\ Vals(s) \subseteq Files
    BY <2>1, SlotSets, FileTypes DEF ImageSlots
  <2>3. f = disk'[s]
    BY <1>1, <2>1, <2>2
  <2>4. \A v \in Files : [v EXCEPT !.state = "torn"].ino = v.ino /\ [v EXCEPT !.state = "torn"].ver = v.ver
    BY DEF Files
  <2>5. PICK g \in Vals(s) : disk'[s] = g \/ disk'[s] = [g EXCEPT !.state = "torn"]
    BY <1>3, <2>2
  <2>6. g \in Images /\ g \in Files
    BY <2>1, <2>2 DEF Images
  <2> QED
    BY <2>3, <2>4, <2>5, <2>6
<1>13. ImagesAreOfOneKind'
  BY <1>1, <1>12 DEF IInv, ImagesAreOfOneKind
<1>14. UnstartedIsEmpty'
  <2>1. ASSUME NEW i \in OpIds, i > started
        PROVE  Empty(i)'
    <3>1. \A s \in {Exe(i), Man(i)} : s \in Slots /\ \A v \in Vals(s) : v.state = "absent"
      BY <2>1, SlotSets DEF IInv, UnstartedIsEmpty, Empty
    <3>2. \A s \in {Exe(i), Man(i)} : Vals(s)' = {disk'[s]} /\ disk'[s].state = "absent"
      BY <1>3, <3>1
    <3> QED
      BY <3>2 DEF Empty, Vals, Older, Exe, Man
  <2> QED
    BY <1>1, <2>1 DEF UnstartedIsEmpty, Empty, Vals, Older, Exe, Man
<1>15. MixturesAreFlagged'
  <2>1. ASSUME NEW i \in OpIds, Mixed(i)'
        PROVE  Flagged(i)'
    <3>0. {Exe(i), Man(i), Guard(i), Prefix, Rec} \subseteq Slots
      BY SlotSets
    <3>1. /\ Vals(Exe(i))' = {disk'[Exe(i)]} /\ Vals(Man(i))' = {disk'[Man(i)]}
          /\ Vals(Guard(i))' = {disk'[Guard(i)]} /\ Vals(Rec)' = {disk'[Rec]} /\ Older(Prefix)' = {}
      BY <1>3, <3>0
    <3>2. IsWhole(disk'[Exe(i)]) /\ IsWhole(disk'[Man(i)]) /\ disk'[Exe(i)].ino # disk'[Man(i)].ino
      BY <2>1, <3>1 DEF Mixed, IsWhole
    <3>3. disk'[Exe(i)] \in Vals(Exe(i)) /\ disk'[Man(i)] \in Vals(Man(i))
      BY <1>3, <3>0, <3>2 DEF IsWhole
    <3>4. Flagged(i)
      BY <3>2, <3>3 DEF Mixed, IInv, MixturesAreFlagged
    <3>5. Installed' = i
      BY <1>7, <3>4 DEF Flagged
    <3>6. disk'[Guard(i)].state # "absent"
      BY <1>3, <3>0, <3>4 DEF Flagged
    <3>7. IsPending(disk'[Rec])
      BY <1>3, <3>0, <3>4 DEF Flagged, IsPending
    <3> QED
      BY <3>1, <3>5, <3>6, <3>7 DEF Flagged, IsPending, Vals, Older, Guard, Rec, Prefix
  <2> QED
    BY <2>1 DEF MixturesAreFlagged, Mixed, Flagged, Vals, Older, Exe, Man, Guard
<1> QED
  BY <1>4, <1>5, <1>8, <1>10, <1>11, <1>13, <1>14, <1>15 DEF IInv

LEMMA InitHolds == Init => IInv
<1> SUFFICES ASSUME Init PROVE IInv
  OBVIOUS
<1>1. /\ \A s \in Slots : dirty[s] = {} /\ cached[s] = {} /\ Older(s) = {} /\ Vals(s) = {disk[s]}
      /\ disk = [s \in Slots |-> IF s \in {Rec, NextRec} THEN NoRecord ELSE Absent]
      /\ local = [p \in Procs |-> NoOp] /\ started = 0 /\ promise = 0
      /\ lock = [i \in OpIds |-> "free"]
      /\ dirty = [s \in Slots |-> {}] /\ cached = [s \in Slots |-> {}]
  BY DEF Init, Older, Vals
<1>2. NoRecord \in Records /\ Absent \in Files /\ MaxOps \in Nat
  BY InstallationAssumption, LocalTypes DEF Absent, Files, FileStates
<1>3. TypeOK
  <2>1. FilesOK
    BY <1>1, <1>2 DEF FilesOK, Values
  <2>2. \A s \in Slots : Vals(s) \subseteq ValuesOf(s)
    BY <1>1, <1>2 DEF ValuesOf
  <2> QED
    BY <1>1, <1>2, <2>1, <2>2, LocalTypes DEF TypeOK
<1>4. Separate /\ \A p \in Procs : Own(p)
  <2>1. \A p \in Procs : Me(p) = NoOp
    BY <1>1 DEF Me
  <2>2. NoOp.pc = "idle" /\ NoOp.pkg = 0
    BY DEF NoOp
  <2>3. \A p \in Procs : Works(p, NoOp)
    BY <1>1, <2>2 DEF Works, HoldsLock, Earned, Carries, Stages, Flags, Lays, Heading, CarryPcs,
         HoldPcs, InstPcs, GonePcs, RecordPcs, UpdatePcs, RecoverPcs, EndPcs
  <2>4. Separate
    BY <2>1, <2>2 DEF Separate, At, Me
  <2> QED
    BY <2>1, <2>3, <2>4 DEF Own
<1>5. \A i \in OpIds : \A s \in {Exe(i), Man(i), SExe(i), SMan(i)} : Vals(s) = {Absent}
  BY <1>1, SlotSets, SlotNames
<1>6. Vals(Prefix) = {Absent} /\ Installed = 0 /\ Vals(Rec) = {NoRecord} /\ Vals(NextRec) = {NoRecord}
      /\ Older(Prefix) = {}
  BY <1>1, SlotSets, SlotNames DEF Installed, Absent
<1>7. PrefixIsWhole /\ RecordsAreProper
  BY <1>1, <1>6 DEF PrefixIsWhole, RecordsAreProper, Proper, Absent, NoRecord
<1>8. PromiseIsBacked
  BY <1>1, <1>6, InstallationAssumption DEF PromiseIsBacked, RemovedImage
<1>9. Images \subseteq {Absent}
  BY <1>5 DEF Images, ImageSlots
<1>10. ImagesAreOfOneKind
  BY <1>1, <1>9 DEF ImagesAreOfOneKind, Absent
<1>11. UnstartedIsEmpty /\ MixturesAreFlagged
  BY <1>5 DEF UnstartedIsEmpty, MixturesAreFlagged, Empty, Mixed, Absent
<1> QED
  BY <1>3, <1>4, <1>7, <1>8, <1>10, <1>11 DEF IInv

LEMMA Stutters == IInv /\ UNCHANGED vars => IInv'
<1> SUFFICES ASSUME IInv, UNCHANGED vars PROVE IInv'
  OBVIOUS
<1>1. /\ disk' = disk /\ dirty' = dirty /\ cached' = cached /\ lock' = lock /\ local' = local
      /\ started' = started /\ promise' = promise
  BY DEF vars, files
<1>2. TypeOK'
  BY <1>1 DEF IInv, TypeOK, FilesOK, Vals, Older, ValuesOf
<1>3. Separate' /\ PrefixIsWhole' /\ RecordsAreProper'
  BY <1>1 DEF IInv, Separate, At, Me, PrefixIsWhole, RecordsAreProper, Proper, Vals, Older
<1>4. PromiseIsBacked'
  BY <1>1 DEF IInv, PromiseIsBacked, Settled, Older, Installed, Exe, Man
<1>5. ImagesAreOfOneKind'
  BY <1>1 DEF IInv, ImagesAreOfOneKind, Images, ImageSlots, Vals, Older, Exe, Man, SExe, SMan
<1>6. UnstartedIsEmpty' /\ MixturesAreFlagged'
  BY <1>1 DEF IInv, UnstartedIsEmpty, MixturesAreFlagged, Empty, Mixed, Flagged, Vals, Older, Installed,
     Exe, Man, Guard
<1>7. ASSUME NEW p \in Procs
      PROVE  Own(p)'
  <2>1. PICK l : l = Me(p)
    OBVIOUS
  <2>2. Me(p)' = l /\ Works(p, l)
    BY <1>1, <2>1 DEF IInv, Own, Me
  <2>3. HoldsLock(p, l)' /\ Carries(l)' /\ Lays(l)'
    BY <1>1, <2>2 DEF Works, HoldsLock, Carries, Lays, Proper, Present, Installed, Man
  <2>4. Earned(l)' /\ Flags(l)'
    BY <1>1, <2>2 DEF Works, Earned, Flags, Heading, Settled, Flagged, Vals, Older, Installed, Present,
       Exe, Man, Guard
  <2>5. Stages(l)'
    BY <1>1, <2>2 DEF Works, Stages, Heading, Empty, Images, ImageSlots, Vals, Older, Exe, Man, SExe, SMan
  <2> QED
    BY <2>2, <2>3, <2>4, <2>5, OwnNext DEF Works
<1> QED
  BY <1>2, <1>3, <1>4, <1>5, <1>6, <1>7 DEF IInv

----------------------------------------------------------------------------
(* The theorems.                                                           *)

\* Code: macos.rs, all operations.  Types, and all that the lock, the record,
\* the guard and the barriers give the operations to rely on, for any number of
\* processes and in every interleaving, whatever stops and wherever power fails.
THEOREM InstallationInvariance == Spec => []IInv
<1>1. IInv /\ Next => IInv'
  BY StepKeeps, PowerKeeps DEF Next, Step
<1>2. IInv /\ [Next]_vars => IInv'
  BY <1>1, Stutters
<1> QED
  BY <1>2, InitHolds, PTL DEF Spec

\* Code: Installed, AlreadyInstalled, Updated, Recovered and Removed are reported
\* after the last barrier: a power failure cannot undo or tear what they said,
\* until the next operation begins to replace it.
THEOREM PromiseAlwaysSurvives == Spec => []PromiseSurvives
<1>1. IInv => PromiseSurvives
  <2> SUFFICES ASSUME IInv PROVE PromiseSurvives
    OBVIOUS
  <2>1. PromiseIsBacked /\ PrefixIsWhole
    BY DEF IInv
  <2>2. ASSUME NEW s, Older(s) \subseteq {disk[s]}, disk[s].state # "written"
        PROVE  Survivors(s) = {disk[s]}
    BY <2>2 DEF Survivors, Older
  <2>3. promise # 0 => Survivors(Prefix) = {disk[Prefix]}
    BY <2>1, <2>2 DEF PromiseIsBacked, PrefixIsWhole, Vals
  <2>4. ASSUME promise \in Versions
        PROVE  /\ Strict(Installed) /\ disk[Exe(Installed)].ver = promise
               /\ \A s \in {Exe(Installed), Man(Installed)} : Survivors(s) = {disk[s]}
    <3>1. Settled(Installed) /\ disk[Exe(Installed)].ver = promise
      BY <2>1, <2>4 DEF PromiseIsBacked
    <3>2. Strict(Installed)
      BY <3>1 DEF Settled, Strict, Relaxed, Whole, Present, OpIds
    <3> QED
      BY <2>2, <3>1, <3>2 DEF Settled
  <2> QED
    BY <2>1, <2>3, <2>4 DEF PromiseIsBacked, PromiseSurvives
<1> QED
  BY <1>1, InstallationInvariance, PTL

\* Code: update renames the executable and then the manifest.  Where the two do
\* not match, whatever happened in between, the guard and a record that is not
\* an outcome are there to tell: no gate lets another operation pass.
THEOREM MixtureIsAlwaysFlagged == Spec => []MixtureIsFlagged
<1>1. IInv => MixtureIsFlagged
  <2> SUFFICES ASSUME IInv, NEW i \in OpIds, i = Installed, Whole(Exe(i)), Whole(Man(i)),
                      disk[Exe(i)].ino # disk[Man(i)].ino
               PROVE  Pending /\ Present(Guard(i))
    BY InstalledId DEF MixtureIsFlagged
  <2>1. Mixed(i)
    BY DEF Mixed, Vals, Whole, IsWhole
  <2>2. Flagged(i)
    BY <2>1 DEF IInv, MixturesAreFlagged
  <2> QED
    BY <2>2 DEF Flagged, Vals, IsPending, Pending, Present, IntentRecorded, ManifestCommitted
<1> QED
  BY <1>1, InstallationInvariance, PTL

=============================================================================
