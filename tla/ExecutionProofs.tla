-------------------------- MODULE ExecutionProofs --------------------------
(***************************************************************************)
(* Proofs about Execution, for every number of items, operations, faults   *)
(* and crashes, in three layers of one induction: IInv is behind what       *)
(* receipts say; HInv, inductive relative to it, behind what the caller of *)
(* execute and the readers of the history are told, with MarkersWritten    *)
(* behind what they are refused; and under LInv every step of Execution is *)
(* a step of EffectLedger or leaves the ledger alone.                      *)
(***************************************************************************)
EXTENDS Execution, FiniteSetTheorems, TLAPS

PublishPcs == {"initial", "intent", "outcome"}
ActivePcs  == Pcs \ {"closed", "open", "done"}

MarkerStages == {"marker_create", "marker_write", "marker_sync",
                 "marker_dirsync", "marker_fullsync"}
NextStages   == {"next_create", "next_write", "next_sync", "rename"}

\* Name o.e can hold nothing but s.
Only(o, e, s) == \A t \in Possible(o, e) : t = s

\* The running system sees one of the values that may recover.
Visible == \A o \in Ops : \A e \in Exts : disk[o][e] \in fresh[o][e]

\* Operations that were not started have left no trace.
Untouched ==
  \A o \in Ops : o > op =>
    /\ \A e \in Exts : Only(o, e, Absent)
    /\ \A i \in Items : ~moved[o][i]

CommittedSynced ==
  \A o \in Ops : \A s \in Possible(o, "json") : s.kind \in {"absent", "synced"}

\* Every receipt that may ever be read is truthful.
SlotsTruthful ==
  \A o \in Ops : \A e \in Exts : \A s \in Possible(o, e) :
    Readable(s) => Truthful(o, s.rec)

\* A staging file is never without a marker.
NextGuarded ==
  \A o \in Ops : Only(o, "next", Absent) \/ \A t \in Possible(o, "pending") : t # Absent

\* The record in memory is truthful too, and the items the loop has not
\* reached are untouched.
MemoryTruthful ==
  /\ op \in Ops => Truthful(op, record)
  /\ pc \in ActivePcs =>
       \A i \in Items :
         (i > idx \/ (i = idx /\ pc \in {"initial", "loop", "intent", "guard", "effect"}))
           => ~moved[op][i]

\* The marker of a publication differs from its record only by Unknowns.
FallbackWeaker ==
  stage # "idle" \/ (pc \in PublishPcs /\ result = "ok") =>
    \A i \in Items : fallback[i] = record[i] \/ (fallback[i] = "Unknown" /\ record[i] \in Outcome)

Settled(o) ==
  /\ Only(o, "next", Absent)
  /\ Only(o, "json", disk[o]["json"])

Committed ==
  /\ Only(op, "json", Synced(record))
  /\ Only(op, "next", Absent)
  /\ \A t \in Possible(op, "pending") : t = Synced(fallback) \/ t = Absent

\* What each system call of publish_with finds.
PublishInv ==
  /\ stage # "idle" => pc \in PublishPcs
  /\ pc \in ActivePcs => op \in Ops
  /\ pc = "open" => op < MaxOps
  /\ stage \in MarkerStages => Settled(op)
  /\ stage = "marker_write" => disk[op]["pending"] = Torn
  /\ stage = "marker_sync" => disk[op]["pending"] = Written(fallback)
  /\ stage = "marker_dirsync" => disk[op]["pending"] = Synced(fallback)
  /\ stage = "marker_fullsync" =>
       disk[op]["pending"] = Synced(fallback) /\ \A t \in fresh[op]["pending"] : t = Synced(fallback)
  /\ stage \in NextStages \cup {"rename_dirsync", "final_fullsync", "unlink"} =>
       disk[op]["pending"] = Synced(fallback) /\ Only(op, "pending", Synced(fallback))
  /\ stage \in NextStages => Only(op, "json", disk[op]["json"])
  /\ stage = "next_write" => disk[op]["next"] = Torn
  /\ stage = "next_sync" => disk[op]["next"] = Written(record)
  /\ stage = "rename" => disk[op]["next"] = Synced(record)
  /\ stage \in {"rename_dirsync", "final_fullsync"} =>
       disk[op]["json"] = Synced(record) /\ disk[op]["next"] = Absent
  /\ stage = "final_fullsync" =>
       /\ \A t \in fresh[op]["json"] : t = Synced(record)
       /\ \A t \in fresh[op]["next"] : t = Absent
  /\ stage \in {"unlink", "unlink_dirsync"} => Committed
  /\ (stage = "idle" /\ result = "ok" /\ pc \in PublishPcs) => Committed

\* Between two publications the last one is in place, and from the intent to
\* the native call it is the one that says Started.
LoopInv ==
  /\ pc \in {"loop", "timestamp"} => Settled(op)
  /\ pc \in {"intent", "guard", "effect", "native"} => record[idx] = "Started"
  /\ pc \in {"guard", "effect", "native"} => Committed /\ fallback[idx] = "Started"

IInv ==
  /\ TypeOK
  /\ Visible
  /\ Untouched
  /\ CommittedSynced
  /\ SlotsTruthful
  /\ NextGuarded
  /\ MemoryTruthful
  /\ FallbackWeaker
  /\ PublishInv
  /\ LoopInv

----------------------------------------------------------------------------
(* Types.                                                                  *)

\* The slots that publish_with writes, and the records it derives, are typed.
LEMMA SlotTypes ==
  /\ AllPlanned \in Record
  /\ Absent \in Slots
  /\ Torn \in Slots
  /\ \A r \in Record : Written(r) \in Slots /\ Synced(r) \in Slots
  /\ \A r, p \in Record : Fallback(r, p) \in Record
  /\ \A r \in Record : Reconciled(r) \in Record
<1>1. AllPlanned \in Record
  BY DEF AllPlanned, Record, ItemState
<1>2. \A r, p \in Record : Fallback(r, p) \in Record
  BY DEF Fallback, Record, ItemState, Outcome
<1>3. \A r \in Record : Reconciled(r) \in Record
  BY DEF Reconciled, ReconciledState, Record, ItemState
<1>4. \A k \in Kinds, r \in Record : FileOf(k, r) \in Slots
  BY DEF FileOf, Slots
<1>5. /\ Absent = FileOf("absent", AllPlanned)
      /\ Torn = FileOf("torn", AllPlanned)
  BY DEF Absent, Torn, FileOf
<1> QED
  BY <1>1, <1>2, <1>3, <1>4, <1>5 DEF Kinds, Written, Synced

\* A slot a power failure may bring back is typed.
LEMMA RecoverableType ==
  ASSUME StoreTypeOK, NEW o \in Ops
  PROVE  Recoverable(o) \subseteq [Exts -> Slots]
<1>1. \A e \in Exts : AfterPower(o, e) \subseteq Slots
  BY SlotTypes DEF AfterPower, Possible, StoreTypeOK
<1> QED
  BY <1>1 DEF Recoverable, Exts

\* A slot of a recoverable directory may recover, or is a torn file.
LEMMA RecoverableSlot ==
  ASSUME NEW o \in Ops, NEW d \in Recoverable(o), NEW e \in Exts
  PROVE  d[e] \in Possible(o, e) \/ (d[e] = Torn /\ \E t \in Possible(o, e) : t.kind = "written")
<1>1. d[e] \in AfterPower(o, e)
  <2>1. CASE e = "json"
    BY <2>1 DEF Recoverable
  <2>2. CASE e = "pending"
    BY <2>2 DEF Recoverable
  <2>3. CASE e = "next"
    BY <2>3 DEF Recoverable
  <2> QED
    BY <2>1, <2>2, <2>3 DEF Exts
<1> QED
  BY <1>1 DEF AfterPower

\* The system calls of publish_with preserve the types of the store.
LEMMA PublishType ==
  ASSUME StoreTypeOK, op \in Ops \/ stage = "idle", PublishStep
  PROVE  StoreTypeOK'
<1> USE DEF StoreTypeOK
<1>1. stage # "idle"
  BY DEF PublishStep, CreateMarker, WriteMarker, SyncMarker, FsyncMarkerName,
         FullSyncMarker, CreateNext, WriteNext, SyncNext, RenameNext, FsyncRename,
         FullSyncFinal, UnlinkMarker, FsyncUnlink
<1>2. op \in Ops
  BY <1>1
<1>3. Nothing \in [Ops -> [Exts -> SUBSET Slots]]
  BY DEF Nothing
<1>4. \A e \in Exts : Written(record) \in Slots /\ Written(fallback) \in Slots
                      /\ Synced(disk[op][e].rec) \in Slots
  BY SlotTypes, <1>2 DEF Slots
<1>5. ASSUME NEW e \in Exts, NEW s \in Slots, Put(e, s)
      PROVE  disk' \in [Ops -> [Exts -> Slots]] /\ fresh' \in [Ops -> [Exts -> SUBSET Slots]]
  BY <1>2, <1>5 DEF Put
<1>6. ASSUME NEW e \in Exts, NEW s \in Slots, Become(e, s)
      PROVE  disk' \in [Ops -> [Exts -> Slots]] /\ fresh' \in [Ops -> [Exts -> SUBSET Slots]]
  BY <1>2, <1>6 DEF Become
<1>7. ASSUME FsyncDir
      PROVE  /\ disk' \in [Ops -> [Exts -> Slots]]
             /\ fresh' \in [Ops -> [Exts -> SUBSET Slots]]
             /\ stale' \in [Ops -> [Exts -> SUBSET Slots]]
  BY <1>7 DEF FsyncDir
<1>8. {"json", "pending", "next"} \subseteq Exts
  BY DEF Exts
<1>9. ASSUME NEW s \in Stages, Goto(s)
      PROVE  /\ stage' \in Stages /\ result' \in Results /\ op' \in 0..MaxOps
             /\ record' \in Record /\ fallback' \in Record
  BY <1>9 DEF Goto
<1>10. CASE CreateMarker
  BY <1>10, <1>5, <1>8, <1>9, SlotTypes DEF CreateMarker, Stages
<1>11. CASE WriteMarker
  BY <1>11, <1>4, <1>6, <1>8, <1>9 DEF WriteMarker, Stages
<1>12. CASE SyncMarker
  BY <1>12, <1>3, <1>4, <1>6, <1>8, <1>9 DEF SyncMarker, FullSync, Stages
<1>13. CASE FsyncMarkerName
  BY <1>13, <1>7, <1>9 DEF FsyncMarkerName, Stages
<1>14. CASE FullSyncMarker
  BY <1>14, <1>3, <1>4, <1>6, <1>8, <1>9 DEF FullSyncMarker, FullSync, Stages
<1>15. CASE CreateNext
  BY <1>15, <1>5, <1>8, <1>9, SlotTypes DEF CreateNext, Stages
<1>16. CASE WriteNext
  BY <1>16, <1>4, <1>6, <1>8, <1>9 DEF WriteNext, Stages
<1>17. CASE SyncNext
  BY <1>17, <1>3, <1>4, <1>6, <1>8, <1>9 DEF SyncNext, FullSync, Stages
<1>18. CASE RenameNext
  <2>1. disk[op]["next"] \in Slots
    BY <1>2, <1>8
  <2>2. disk' \in [Ops -> [Exts -> Slots]] /\ fresh' \in [Ops -> [Exts -> SUBSET Slots]]
    BY <1>18, <1>2, <1>8, <2>1, SlotTypes DEF RenameNext
  <2> QED
    BY <1>18, <2>2, <1>9 DEF RenameNext, Stages
<1>19. CASE FsyncRename
  BY <1>19, <1>7, <1>9 DEF FsyncRename, Stages
<1>20. CASE FullSyncFinal
  BY <1>20, <1>3, <1>4, <1>6, <1>8, <1>9 DEF FullSyncFinal, FullSync, Stages
<1>21. CASE UnlinkMarker
  BY <1>21, <1>5, <1>8, <1>9, SlotTypes DEF UnlinkMarker, Stages
<1>22. CASE FsyncUnlink
  BY <1>22, <1>7 DEF FsyncUnlink, Finish, Stages, Results
<1> QED
  BY <1>10, <1>11, <1>12, <1>13, <1>14, <1>15, <1>16, <1>17, <1>18, <1>19,
     <1>20, <1>21, <1>22 DEF PublishStep

----------------------------------------------------------------------------
(* What the system calls do to the values that may recover.                *)

\* Step s-to-t of name e of the current operation touches no other name and
\* adds nothing but s to what may recover.
Touches(e, s) ==
  /\ disk'[op][e] = s
  /\ \A o \in Ops : \A x \in Exts :
       /\ (o # op \/ x # e) => disk'[o][x] = disk[o][x]
       /\ \A t \in fresh'[o][x] : t \in fresh[o][x] \/ (o = op /\ x = e /\ t = s)
       /\ \A t \in Possible(o, x)' : t \in Possible(o, x) \/ (o = op /\ x = e /\ t = s)
       /\ disk'[o][x] \in fresh'[o][x]

LEMMA PutFacts ==
  ASSUME StoreTypeOK, Visible, op \in Ops, NEW e \in Exts, NEW s, Put(e, s), UNCHANGED stale
  PROVE  Touches(e, s)
  BY DEF StoreTypeOK, Visible, Put, Possible, Touches

LEMMA BecomeFacts ==
  ASSUME StoreTypeOK, Visible, op \in Ops, NEW e \in Exts, NEW s, Become(e, s), UNCHANGED stale
  PROVE  Touches(e, s)
  BY DEF StoreTypeOK, Visible, Become, Possible, Touches

LEMMA FullSyncFacts ==
  ASSUME StoreTypeOK, Visible, op \in Ops, NEW e \in Exts, FullSync(e)
  PROVE  /\ Touches(e, Synced(disk[op][e].rec))
         /\ \A o \in Ops : \A x \in Exts : \A t \in Possible(o, x)' :
              t \in fresh[o][x] \/ (o = op /\ x = e /\ t = Synced(disk[op][e].rec))
  BY DEF StoreTypeOK, Visible, FullSync, Become, Possible, Nothing, Touches

LEMMA FsyncFacts ==
  ASSUME StoreTypeOK, Visible, FsyncDir
  PROVE  \A o \in Ops : \A x \in Exts :
           /\ disk'[o][x] = disk[o][x]
           /\ fresh'[o][x] = {disk[o][x]}
           /\ Possible(o, x)' = Possible(o, x)
  BY DEF StoreTypeOK, FsyncDir, Visible, Possible

LEMMA SameDisks ==
  ASSUME UNCHANGED disks
  PROVE  \A o \in Ops : \A x \in Exts : Possible(o, x)' = Possible(o, x)
  BY DEF disks, Possible

\* The slots of publish_with are told apart by their kinds.
LEMMA SlotFacts ==
  /\ ~Readable(Absent)
  /\ ~Readable(Torn)
  /\ Torn # Absent
  /\ Absent.kind = "absent"
  /\ \A r : Readable(Written(r)) /\ Written(r).rec = r /\ Written(r).kind = "written"
  /\ \A r : Readable(Synced(r)) /\ Synced(r).rec = r /\ Synced(r).kind = "synced"
  /\ \A r : Synced(r) # Absent /\ Written(r) # Absent
  BY DEF Readable, Absent, Torn, Written, Synced, FileOf

\* A step that adds one truthful slot keeps the parts of the invariant that
\* speak about every slot.
LEMMA TouchInv ==
  ASSUME Visible, Untouched, CommittedSynced, SlotsTruthful, op \in Ops,
         UNCHANGED <<op, moved>>,
         NEW e \in Exts, NEW s, Touches(e, s),
         Readable(s) => Truthful(op, s.rec),
         e = "json" => s.kind \in {"absent", "synced"}
  PROVE  Visible' /\ Untouched' /\ CommittedSynced' /\ SlotsTruthful'
<1>1. Visible'
  BY DEF Visible, Touches
<1>2. Untouched'
  BY DEF Untouched, Touches, Only, Ops
<1>3. CommittedSynced'
  BY DEF CommittedSynced, Touches, Exts
<1>4. SlotsTruthful'
  BY DEF SlotsTruthful, Touches, Truthful
<1> QED
  BY <1>1, <1>2, <1>3, <1>4

\* A step after which the names hold, and may recover to, what they did.
LEMMA FsyncInv ==
  ASSUME Visible, Untouched, CommittedSynced, SlotsTruthful, NextGuarded,
         UNCHANGED <<op, moved>>, {"json", "pending", "next"} \subseteq Exts,
         \A o \in Ops : \A x \in Exts :
           /\ disk'[o][x] = disk[o][x]
           /\ disk[o][x] \in fresh'[o][x]
           /\ Possible(o, x)' = Possible(o, x)
  PROVE  Visible' /\ Untouched' /\ CommittedSynced' /\ SlotsTruthful' /\ NextGuarded'
<1>1. Visible'
  BY DEF Visible
<1>2. Untouched'
  BY DEF Untouched, Only
<1>3. CommittedSynced'
  BY DEF CommittedSynced
<1>4. SlotsTruthful'
  BY DEF SlotsTruthful, Truthful
<1>5. NextGuarded'
  BY DEF NextGuarded, Only
<1> QED
  BY <1>1, <1>2, <1>3, <1>4, <1>5

----------------------------------------------------------------------------
(* publish_with preserves the invariant, call by call.                     *)

LEMMA PublishingInv ==
  ASSUME IInv, TypeOK', Publishing
  PROVE  IInv'
<1> USE DEF IInv
<1>1. stage # "idle" /\ op \in Ops /\ pc \in PublishPcs
  BY DEF Publishing, PublishStep, CreateMarker, WriteMarker, SyncMarker, FsyncMarkerName,
         FullSyncMarker, CreateNext, WriteNext, SyncNext, RenameNext, FsyncRename,
         FullSyncFinal, UnlinkMarker, FsyncUnlink, PublishInv, PublishPcs, ActivePcs, Pcs
<1>2. StoreTypeOK /\ {"json", "pending", "next"} \subseteq Exts
  BY DEF TypeOK, Exts
<1>3. /\ pc' = pc /\ idx' = idx /\ moved' = moved
      /\ op' = op /\ record' = record /\ fallback' = fallback
  BY DEF Publishing, PublishStep, CreateMarker, WriteMarker, SyncMarker, FsyncMarkerName,
         FullSyncMarker, CreateNext, WriteNext, SyncNext, RenameNext, FsyncRename,
         FullSyncFinal, UnlinkMarker, FsyncUnlink, Goto, Finish, execVars, loopVars, worldVars
<1>4. Truthful(op, record) /\ Truthful(op, fallback)
  BY <1>1 DEF MemoryTruthful, FallbackWeaker, Truthful
<1>5. MemoryTruthful' /\ FallbackWeaker'
  BY <1>1, <1>3 DEF MemoryTruthful, FallbackWeaker, Truthful
<1>6. LoopInv'
  BY <1>1, <1>3 DEF LoopInv, PublishPcs
<1>7. CASE CreateMarker
  <2>1. stage = "marker_create" /\ stage' = "marker_write"
    BY <1>7 DEF CreateMarker, Goto
  <2>3. Touches("pending", Torn)
    BY <1>1, <1>2, <1>7, PutFacts DEF CreateMarker
  <2>4. Visible' /\ Untouched' /\ CommittedSynced' /\ SlotsTruthful'
    BY <1>1, <1>2, <1>3, <1>4, <2>3, SlotFacts, TouchInv
  <2>5. NextGuarded'
    BY <1>1, <1>2, <1>3, <2>1, <2>3, SlotFacts DEF NextGuarded, PublishInv, MarkerStages, NextStages, Settled, Committed, Only, Touches
  <2>6. PublishInv'
    BY <1>1, <1>2, <1>3, <2>1, <2>3 DEF PublishInv, MarkerStages, NextStages, Settled, Committed, Only, Touches
  <2> QED
    BY <1>5, <1>6, <2>4, <2>5, <2>6
<1>8. CASE WriteMarker
  <2>1. stage = "marker_write" /\ stage' = "marker_sync"
    BY <1>8 DEF WriteMarker, Goto
  <2>3. Touches("pending", Written(fallback))
    BY <1>1, <1>2, <1>8, BecomeFacts DEF WriteMarker
  <2>4. Visible' /\ Untouched' /\ CommittedSynced' /\ SlotsTruthful'
    BY <1>1, <1>2, <1>3, <1>4, <2>3, SlotFacts, TouchInv
  <2>5. NextGuarded'
    BY <1>1, <1>2, <1>3, <2>1, <2>3, SlotFacts DEF NextGuarded, PublishInv, MarkerStages, NextStages, Settled, Committed, Only, Touches
  <2>6. PublishInv'
    BY <1>1, <1>2, <1>3, <2>1, <2>3 DEF PublishInv, MarkerStages, NextStages, Settled, Committed, Only, Touches
  <2> QED
    BY <1>5, <1>6, <2>4, <2>5, <2>6
<1>9. CASE SyncMarker
  <2>1. stage = "marker_sync" /\ stage' = "marker_dirsync"
    BY <1>9 DEF SyncMarker, Goto
  <2>2. Synced(disk[op]["pending"].rec) = Synced(fallback)
    BY <2>1, SlotFacts DEF PublishInv, NextStages
  <2>3. /\ Touches("pending", Synced(fallback))
        /\ \A o \in Ops : \A x \in Exts : \A t \in Possible(o, x)' :
             t \in fresh[o][x] \/ (o = op /\ x = "pending" /\ t = Synced(fallback))
    BY <1>1, <1>2, <1>9, <2>2, FullSyncFacts DEF SyncMarker
  <2>4. Visible' /\ Untouched' /\ CommittedSynced' /\ SlotsTruthful'
    BY <1>1, <1>2, <1>3, <1>4, <2>3, SlotFacts, TouchInv
  <2>5. NextGuarded'
    BY <1>1, <1>2, <1>3, <2>1, <2>3, SlotFacts DEF NextGuarded, PublishInv, MarkerStages, NextStages, Settled, Committed, Only, Touches
  <2>6. PublishInv'
    BY <1>1, <1>2, <1>3, <2>1, <2>3 DEF PublishInv, MarkerStages, NextStages, Settled, Committed, Only, Touches
  <2> QED
    BY <1>5, <1>6, <2>4, <2>5, <2>6
<1>10. CASE FullSyncMarker
  <2>1. stage = "marker_fullsync" /\ stage' = "next_create"
    BY <1>10 DEF FullSyncMarker, Goto
  <2>2. Synced(disk[op]["pending"].rec) = Synced(fallback)
    BY <2>1, SlotFacts DEF PublishInv, NextStages
  <2>3. /\ Touches("pending", Synced(fallback))
        /\ \A o \in Ops : \A x \in Exts : \A t \in Possible(o, x)' :
             t \in fresh[o][x] \/ (o = op /\ x = "pending" /\ t = Synced(fallback))
    BY <1>1, <1>2, <1>10, <2>2, FullSyncFacts DEF FullSyncMarker
  <2>4. Visible' /\ Untouched' /\ CommittedSynced' /\ SlotsTruthful'
    BY <1>1, <1>2, <1>3, <1>4, <2>3, SlotFacts, TouchInv
  <2>5. NextGuarded'
    BY <1>1, <1>2, <1>3, <2>1, <2>3, SlotFacts DEF NextGuarded, PublishInv, MarkerStages, NextStages, Settled, Committed, Only, Touches
  <2>6. PublishInv'
    BY <1>1, <1>2, <1>3, <2>1, <2>3 DEF PublishInv, MarkerStages, NextStages, Settled, Committed, Only, Touches
  <2> QED
    BY <1>5, <1>6, <2>4, <2>5, <2>6
<1>11. CASE CreateNext
  <2>1. stage = "next_create" /\ stage' = "next_write"
    BY <1>11 DEF CreateNext, Goto
  <2>3. Touches("next", Torn)
    BY <1>1, <1>2, <1>11, PutFacts DEF CreateNext
  <2>4. Visible' /\ Untouched' /\ CommittedSynced' /\ SlotsTruthful'
    BY <1>1, <1>2, <1>3, <1>4, <2>3, SlotFacts, TouchInv
  <2>5. NextGuarded'
    BY <1>1, <1>2, <1>3, <2>1, <2>3, SlotFacts DEF NextGuarded, PublishInv, MarkerStages, NextStages, Settled, Committed, Only, Touches
  <2>6. PublishInv'
    BY <1>1, <1>2, <1>3, <2>1, <2>3 DEF PublishInv, MarkerStages, NextStages, Settled, Committed, Only, Touches
  <2> QED
    BY <1>5, <1>6, <2>4, <2>5, <2>6
<1>12. CASE WriteNext
  <2>1. stage = "next_write" /\ stage' = "next_sync"
    BY <1>12 DEF WriteNext, Goto
  <2>3. Touches("next", Written(record))
    BY <1>1, <1>2, <1>12, BecomeFacts DEF WriteNext
  <2>4. Visible' /\ Untouched' /\ CommittedSynced' /\ SlotsTruthful'
    BY <1>1, <1>2, <1>3, <1>4, <2>3, SlotFacts, TouchInv
  <2>5. NextGuarded'
    BY <1>1, <1>2, <1>3, <2>1, <2>3, SlotFacts DEF NextGuarded, PublishInv, MarkerStages, NextStages, Settled, Committed, Only, Touches
  <2>6. PublishInv'
    BY <1>1, <1>2, <1>3, <2>1, <2>3 DEF PublishInv, MarkerStages, NextStages, Settled, Committed, Only, Touches
  <2> QED
    BY <1>5, <1>6, <2>4, <2>5, <2>6
<1>13. CASE SyncNext
  <2>1. stage = "next_sync" /\ stage' = "rename"
    BY <1>13 DEF SyncNext, Goto
  <2>2. Synced(disk[op]["next"].rec) = Synced(record)
    BY <2>1, SlotFacts DEF PublishInv, NextStages
  <2>3. /\ Touches("next", Synced(record))
        /\ \A o \in Ops : \A x \in Exts : \A t \in Possible(o, x)' :
             t \in fresh[o][x] \/ (o = op /\ x = "next" /\ t = Synced(record))
    BY <1>1, <1>2, <1>13, <2>2, FullSyncFacts DEF SyncNext
  <2>4. Visible' /\ Untouched' /\ CommittedSynced' /\ SlotsTruthful'
    BY <1>1, <1>2, <1>3, <1>4, <2>3, SlotFacts, TouchInv
  <2>5. NextGuarded'
    BY <1>1, <1>2, <1>3, <2>1, <2>3, SlotFacts DEF NextGuarded, PublishInv, MarkerStages, NextStages, Settled, Committed, Only, Touches
  <2>6. PublishInv'
    BY <1>1, <1>2, <1>3, <2>1, <2>3 DEF PublishInv, MarkerStages, NextStages, Settled, Committed, Only, Touches
  <2> QED
    BY <1>5, <1>6, <2>4, <2>5, <2>6
<1>14. CASE FullSyncFinal
  <2>1. stage = "final_fullsync" /\ stage' = "unlink"
    BY <1>14 DEF FullSyncFinal, Goto
  <2>2. Synced(disk[op]["json"].rec) = Synced(record)
    BY <2>1, SlotFacts DEF PublishInv, NextStages
  <2>3. /\ Touches("json", Synced(record))
        /\ \A o \in Ops : \A x \in Exts : \A t \in Possible(o, x)' :
             t \in fresh[o][x] \/ (o = op /\ x = "json" /\ t = Synced(record))
    BY <1>1, <1>2, <1>14, <2>2, FullSyncFacts DEF FullSyncFinal
  <2>4. Visible' /\ Untouched' /\ CommittedSynced' /\ SlotsTruthful'
    BY <1>1, <1>2, <1>3, <1>4, <2>3, SlotFacts, TouchInv
  <2>5. NextGuarded'
    BY <1>1, <1>2, <1>3, <2>1, <2>3, SlotFacts DEF NextGuarded, PublishInv, MarkerStages, NextStages, Settled, Committed, Only, Touches
  <2>6. PublishInv'
    BY <1>1, <1>2, <1>3, <2>1, <2>3 DEF PublishInv, MarkerStages, NextStages, Settled, Committed, Only, Touches
  <2> QED
    BY <1>5, <1>6, <2>4, <2>5, <2>6
<1>15. CASE UnlinkMarker
  <2>1. stage = "unlink" /\ stage' = "unlink_dirsync"
    BY <1>15 DEF UnlinkMarker, Goto
  <2>3. Touches("pending", Absent)
    BY <1>1, <1>2, <1>15, PutFacts DEF UnlinkMarker
  <2>4. Visible' /\ Untouched' /\ CommittedSynced' /\ SlotsTruthful'
    BY <1>1, <1>2, <1>3, <1>4, <2>3, SlotFacts, TouchInv
  <2>5. NextGuarded'
    BY <1>1, <1>2, <1>3, <2>1, <2>3, SlotFacts DEF NextGuarded, PublishInv, MarkerStages, NextStages, Settled, Committed, Only, Touches
  <2>6. PublishInv'
    BY <1>1, <1>2, <1>3, <2>1, <2>3 DEF PublishInv, MarkerStages, NextStages, Settled, Committed, Only, Touches
  <2> QED
    BY <1>5, <1>6, <2>4, <2>5, <2>6
<1>16. CASE FsyncMarkerName
  <2>1. stage = "marker_dirsync" /\ stage' = "marker_fullsync"
    BY <1>16 DEF FsyncMarkerName, Goto, Finish
  <2>2. \A o \in Ops : \A x \in Exts :
          /\ disk'[o][x] = disk[o][x]
          /\ fresh'[o][x] = {disk[o][x]}
          /\ Possible(o, x)' = Possible(o, x)
    BY <1>2, <1>16, FsyncFacts DEF FsyncMarkerName
  <2>3. Visible' /\ Untouched' /\ CommittedSynced' /\ SlotsTruthful' /\ NextGuarded'
    BY <1>2, <1>3, <2>2, FsyncInv
  <2>4. PublishInv'
    BY <1>1, <1>2, <1>3, <2>1, <2>2
       DEF PublishInv, MarkerStages, NextStages, Settled, Committed, Only
  <2> QED
    BY <1>5, <1>6, <2>3, <2>4
<1>17. CASE FsyncRename
  <2>1. stage = "rename_dirsync" /\ stage' = "final_fullsync"
    BY <1>17 DEF FsyncRename, Goto, Finish
  <2>2. \A o \in Ops : \A x \in Exts :
          /\ disk'[o][x] = disk[o][x]
          /\ fresh'[o][x] = {disk[o][x]}
          /\ Possible(o, x)' = Possible(o, x)
    BY <1>2, <1>17, FsyncFacts DEF FsyncRename
  <2>3. Visible' /\ Untouched' /\ CommittedSynced' /\ SlotsTruthful' /\ NextGuarded'
    BY <1>2, <1>3, <2>2, FsyncInv
  <2>4. PublishInv'
    BY <1>1, <1>2, <1>3, <2>1, <2>2
       DEF PublishInv, MarkerStages, NextStages, Settled, Committed, Only
  <2> QED
    BY <1>5, <1>6, <2>3, <2>4
<1>18. CASE FsyncUnlink
  <2>1. stage = "unlink_dirsync" /\ stage' = "idle"
    BY <1>18 DEF FsyncUnlink, Goto, Finish
  <2>2. \A o \in Ops : \A x \in Exts :
          /\ disk'[o][x] = disk[o][x]
          /\ fresh'[o][x] = {disk[o][x]}
          /\ Possible(o, x)' = Possible(o, x)
    BY <1>2, <1>18, FsyncFacts DEF FsyncUnlink
  <2>3. Visible' /\ Untouched' /\ CommittedSynced' /\ SlotsTruthful' /\ NextGuarded'
    BY <1>2, <1>3, <2>2, FsyncInv
  <2>4. PublishInv'
    BY <1>1, <1>2, <1>3, <2>1, <2>2
       DEF PublishInv, MarkerStages, NextStages, Settled, Committed, Only
  <2> QED
    BY <1>5, <1>6, <2>3, <2>4
<1>19. CASE RenameNext
  <2>1. stage = "rename" /\ stage' = "rename_dirsync" /\ disk[op]["next"] = Synced(record)
    BY <1>19 DEF RenameNext, Goto, PublishInv
  <2>2. /\ disk'[op]["json"] = Synced(record) /\ disk'[op]["next"] = Absent
        /\ \A o \in Ops : \A x \in Exts :
             /\ (o # op \/ x = "pending") => disk'[o][x] = disk[o][x]
             /\ disk'[o][x] \in fresh'[o][x]
             /\ \A t \in Possible(o, x)' :
                  \/ t \in Possible(o, x)
                  \/ o = op /\ x = "json" /\ t = Synced(record)
                  \/ o = op /\ x = "next" /\ t = Absent
    BY <1>1, <1>2, <1>19, <2>1 DEF RenameNext, StoreTypeOK, Visible, Possible
  <2>3. Visible' /\ Untouched'
    BY <1>1, <1>3, <2>2 DEF Visible, Untouched, Only, Ops
  <2>4. CommittedSynced'
    BY <1>2, <2>2, SlotFacts DEF CommittedSynced
  <2>5. SlotsTruthful'
    BY <1>3, <1>4, <2>2, SlotFacts DEF SlotsTruthful, Truthful
  <2>6. NextGuarded'
    BY <1>1, <1>2, <1>3, <2>1, <2>2, SlotFacts DEF NextGuarded, PublishInv, NextStages, Only
  <2>7. PublishInv'
    BY <1>1, <1>2, <1>3, <2>1, <2>2
       DEF PublishInv, MarkerStages, NextStages, Settled, Committed, Only
  <2> QED
    BY <1>5, <1>6, <2>3, <2>4, <2>5, <2>6, <2>7
<1> QED
  BY <1>7, <1>8, <1>9, <1>10, <1>11, <1>12, <1>13, <1>14, <1>15, <1>16, <1>17,
     <1>18, <1>19 DEF Publishing, PublishStep

----------------------------------------------------------------------------
(* Type correctness.                                                       *)

LEMMA FsyncType ==
  ASSUME StoreTypeOK, FsyncDir, UNCHANGED <<op, record, fallback, stage, result>>
  PROVE  StoreTypeOK'
  BY DEF StoreTypeOK, FsyncDir

\* Begin(initial) with a typed new record and a started operation.
LEMMA BeginType ==
  ASSUME StoreTypeOK, NEW b \in BOOLEAN, Begin(b), op' \in Ops, record' \in Record
  PROVE  StoreTypeOK'
<1>1. disk[op']["json"].rec \in Record
  BY DEF StoreTypeOK, Slots, Exts
<1>2. fallback' \in Record
  BY <1>1, SlotTypes DEF Begin
<1> QED
  BY <1>2 DEF StoreTypeOK, Begin, disks, Stages, Results, Ops

LEMMA DieType ==
  ASSUME TypeOK, StoreTypeOK', Die
  PROVE  TypeOK'
<1>1. stopping' \in BOOLEAN /\ stopped' \in BOOLEAN /\ journalError' \in BOOLEAN
  BY Zenon DEF Die, TypeOK
<1>2. crashes' \in 0..MaxCrashes /\ faults' \in 0..MaxFaults
  BY ExecutionAssumption DEF Die, TypeOK
<1> QED
  BY <1>1, <1>2 DEF Die, TypeOK, Pcs, worldVars

LEMMA TypeStep ==
  ASSUME IInv, [Next]_vars
  PROVE  TypeOK'
<1> USE DEF IInv
<1>0. /\ StoreTypeOK /\ Items = 1..N /\ N \in Nat \ {0}
      /\ pc \in ActivePcs => op \in Ops
      /\ idx \in Items /\ record \in Record
      /\ \A st \in ItemState : [record EXCEPT ![idx] = st] \in Record
  BY NAssumption DEF TypeOK, PublishInv, Items, Record, StoreTypeOK
<1>1. CASE UNCHANGED vars
  BY <1>1 DEF vars, storeVars, execVars, loopVars, worldVars, countVars, TypeOK, StoreTypeOK
<1>2. CASE OpenStore
  BY <1>2, FsyncType DEF OpenStore, TypeOK, Pcs, worldVars, countVars
<1>3. CASE RequestStop
  BY <1>3 DEF RequestStop, TypeOK, StoreTypeOK, storeVars, loopVars, worldVars, countVars
<1>4. CASE ReadHistory
  <2>1. \A o \in Ops : Reading(disk[o]) \in Record
    BY SlotTypes DEF Reading, Source, TypeOK, StoreTypeOK, Slots, Exts
  <2>2. seen' \in [Ops -> Record]
    BY <1>4, <2>1 DEF ReadHistory, TypeOK
  <2> QED
    BY <1>4, <2>2, FsyncType DEF ReadHistory, TypeOK, loopVars, worldVars, countVars
<1>5. CASE NativeMove
  BY <1>5 DEF NativeMove, TypeOK, StoreTypeOK, storeVars, loopVars, countVars
<1>6. CASE IoError
  <2>1. StoreTypeOK'
    BY <1>6, <1>0 DEF IoError, PublishError, Finish, StoreTypeOK, disks, Stages, Results
  <2> QED
    BY <1>6, <2>1, ExecutionAssumption DEF IoError, TypeOK, loopVars, worldVars
<1>7. CASE Crash
  <2>1. StoreTypeOK'
    BY <1>7, <1>0 DEF Crash, ProcessExit, StoreTypeOK, Stages, Results
  <2> QED
    BY <1>7, <2>1, DieType DEF Crash
<1>8. CASE PowerLoss
  <2>1. PICK d \in [Ops -> UNION {Recoverable(o) : o \in Ops}] :
          /\ \A o \in Ops : d[o] \in Recoverable(o)
          /\ disk' = d
          /\ fresh' = [o \in Ops |-> [e \in Exts |-> {d[o][e]}]]
    BY <1>8 DEF PowerLoss, PowerFailure
  <2>2. \A o \in Ops : d[o] \in [Exts -> Slots]
    BY <1>0, <2>1, RecoverableType
  <2>3. disk' \in [Ops -> [Exts -> Slots]] /\ fresh' \in [Ops -> [Exts -> SUBSET Slots]]
    BY <2>1, <2>2
  <2>4. StoreTypeOK'
    BY <1>8, <1>0, <2>3 DEF PowerLoss, PowerFailure, StoreTypeOK, Nothing, Stages, Results
  <2> QED
    BY <1>8, <2>4, DieType DEF PowerLoss
<1>9. CASE BatchStep
  <2>1. CASE StartOperation
    <3>1. op' \in Ops
      BY <1>0, <2>1, StoreAssumption DEF StartOperation, StoreTypeOK, Ops, PublishInv
    <3>2. StoreTypeOK'
      BY <1>0, <2>1, <3>1, BeginType, SlotTypes DEF StartOperation
    <3>3. stopping' \in BOOLEAN /\ stopped' \in BOOLEAN /\ journalError' \in BOOLEAN
      BY <2>1, Zenon DEF StartOperation, TypeOK
    <3> QED
      BY <1>0, <2>1, <3>2, <3>3 DEF StartOperation, TypeOK, Pcs, worldVars, countVars
  <2>2. CASE RefuseOperation \/ CloseStore \/ InitialPublished \/ StartItemClockError
             \/ IntentPublished \/ GuardProceeds \/ NativeCall \/ OutcomePublished
    <3>1. stopping' \in BOOLEAN /\ stopped' \in BOOLEAN /\ journalError' \in BOOLEAN
      BY <2>2, Zenon DEF RefuseOperation, CloseStore, InitialPublished, StartItemClockError,
           IntentPublished, GuardProceeds, NativeCall, OutcomePublished, TypeOK, loopVars
    <3>2. idx' \in Items /\ faults' \in 0..MaxFaults /\ called' \in [Ops -> [Items -> BOOLEAN]]
      <4>1. idx' = idx \/ (idx # N /\ idx' = idx + 1)
        BY <2>2 DEF RefuseOperation, CloseStore, InitialPublished, StartItemClockError,
             IntentPublished, GuardProceeds, NativeCall, OutcomePublished, loopVars
      <4>2. faults' = faults \/ (faults < MaxFaults /\ faults' = faults + 1)
        BY <2>2 DEF RefuseOperation, CloseStore, InitialPublished, StartItemClockError,
             IntentPublished, GuardProceeds, NativeCall, OutcomePublished, countVars
      <4>3. called' = called \/ called' = [called EXCEPT ![op][idx] = TRUE]
        BY <2>2 DEF RefuseOperation, CloseStore, InitialPublished, StartItemClockError,
             IntentPublished, GuardProceeds, NativeCall, OutcomePublished, worldVars
      <4>4. called' \in [Ops -> [Items -> BOOLEAN]]
        <5>1. CASE called' = called
          BY <5>1 DEF TypeOK
        <5>2. CASE called' = [called EXCEPT ![op][idx] = TRUE]
          BY <5>2 DEF TypeOK
        <5> QED
          BY <4>3, <5>1, <5>2
      <4> QED
        BY <1>0, <4>1, <4>2, <4>4, ExecutionAssumption DEF TypeOK
    <3>3. StoreTypeOK' /\ refused' = refused /\ seen' = seen /\ moved' = moved /\ crashes' = crashes
      BY <1>0, <2>2 DEF RefuseOperation, CloseStore, InitialPublished, StartItemClockError,
           IntentPublished, GuardProceeds, NativeCall, OutcomePublished, StoreTypeOK,
           storeVars, loopVars, worldVars, countVars
    <3>4. pc' \in Pcs /\ report' \in {"none", "report", "error"}
      BY <2>2 DEF RefuseOperation, CloseStore, InitialPublished, StartItemClockError,
           IntentPublished, GuardProceeds, NativeCall, OutcomePublished, Pcs, TypeOK, loopVars
    <3> QED
      BY <3>1, <3>2, <3>3, <3>4 DEF TypeOK
  <2>3. CASE SkipItem \/ GuardRefuses \/ EffectRefused
             \/ \E st \in {"Succeeded", "Failed", "Unknown"} : NativeReturn(st)
    <3>1. record' \in Record
      BY <1>0, <2>3 DEF SkipItem, GuardRefuses, EffectRefused, NativeReturn, SetItem, ItemState
    <3>2. StoreTypeOK'
      BY <1>0, <2>3, <3>1 DEF SkipItem, GuardRefuses, EffectRefused, NativeReturn, StoreTypeOK, disks
    <3>3. stopped' \in BOOLEAN
      BY <2>3, Zenon DEF SkipItem, GuardRefuses, EffectRefused, NativeReturn, TypeOK, loopVars
    <3>4. faults' \in 0..MaxFaults
      <4>1. faults' = faults \/ (faults' = faults + 1 /\ faults' <= MaxFaults)
        BY <2>3, Zenon DEF SkipItem, GuardRefuses, EffectRefused, NativeReturn, countVars
      <4> QED
        BY <4>1, ExecutionAssumption DEF TypeOK
    <3> QED
      BY <1>0, <2>3, <3>2, <3>3, <3>4 DEF SkipItem, GuardRefuses, EffectRefused, NativeReturn, TypeOK,
           Pcs, loopVars, worldVars, countVars
  <2>4. CASE StartItem \/ PublishOutcome
    <3>1. op' \in Ops /\ record' \in Record /\ Begin(FALSE)
      BY <1>0, <2>4 DEF StartItem, PublishOutcome, SetItem, ItemState, ActivePcs, Pcs
    <3> QED
      BY <1>0, <2>4, <3>1, BeginType DEF StartItem, PublishOutcome, TypeOK, Pcs, loopVars, worldVars, countVars
  <2>5. CASE IntentUnconfirmed \/ TimestampError \/ OutcomeUnconfirmed
    <3>1. PICK st \in ItemState : StopForJournalError(st)
      BY <1>0, <2>5 DEF IntentUnconfirmed, TimestampError, OutcomeUnconfirmed, ItemState, Record, Outcome
    <3>2. record' \in Record
      BY <1>0, <3>1 DEF StopForJournalError, Record, ItemState
    <3> QED
      BY <1>0, <3>1, <3>2 DEF StopForJournalError, TypeOK, StoreTypeOK, Pcs, disks, worldVars, countVars
  <2>6. CASE Publishing
    <3>1. StoreTypeOK'
      BY <1>0, <2>6, PublishType DEF Publishing, PublishInv, PublishPcs, ActivePcs, Pcs
    <3> QED
      BY <2>6, <3>1 DEF Publishing, execVars, loopVars, worldVars, countVars, TypeOK
  <2> QED
    BY <1>9, <2>1, <2>2, <2>3, <2>4, <2>5, <2>6 DEF BatchStep
<1> QED
  BY <1>1, <1>2, <1>3, <1>4, <1>5, <1>6, <1>7, <1>8, <1>9 DEF Next

----------------------------------------------------------------------------
(* The other steps preserve the invariant.                                 *)

\* Steps that write nothing and change neither the operation nor the world.
LEMMA QuietInv ==
  ASSUME Visible, Untouched, CommittedSynced, SlotsTruthful, NextGuarded,
         UNCHANGED <<disks, op, moved>>
  PROVE  Visible' /\ Untouched' /\ CommittedSynced' /\ SlotsTruthful' /\ NextGuarded'
<1>1. \A o \in Ops : \A x \in Exts : Possible(o, x)' = Possible(o, x)
  BY SameDisks
<1>2. {"json", "pending", "next"} \subseteq Exts
  BY DEF Exts
<1> QED
  BY <1>1, <1>2, FsyncInv DEF disks, Visible

LEMMA OpenStoreInv ==
  ASSUME IInv, TypeOK', OpenStore \/ ReadHistory
  PROVE  IInv'
<1> USE DEF IInv
<1>1. \A o \in Ops : \A x \in Exts :
        /\ disk'[o][x] = disk[o][x]
        /\ fresh'[o][x] = {disk[o][x]}
        /\ Possible(o, x)' = Possible(o, x)
  BY FsyncFacts DEF OpenStore, ReadHistory, TypeOK
<1>2. /\ op' = op /\ moved' = moved /\ record' = record /\ fallback' = fallback
      /\ stage' = stage /\ result' = result /\ idx' = idx
      /\ pc = "closed" /\ pc' \in {"closed", "open"}
      /\ pc' = "open" => op < MaxOps
  BY DEF OpenStore, ReadHistory, worldVars, loopVars, Locked
<1>3. {"json", "pending", "next"} \subseteq Exts
  BY DEF Exts
<1>4. Visible' /\ Untouched' /\ CommittedSynced' /\ SlotsTruthful' /\ NextGuarded'
  BY <1>1, <1>2, <1>3, FsyncInv
<1>5. MemoryTruthful' /\ FallbackWeaker'
  BY <1>2 DEF MemoryTruthful, FallbackWeaker, Truthful, ActivePcs, PublishPcs
<1>6. PublishInv' /\ LoopInv'
  BY <1>2 DEF PublishInv, LoopInv, PublishPcs, ActivePcs, MarkerStages, NextStages
<1> QED
  BY <1>4, <1>5, <1>6

LEMMA CrashInv ==
  ASSUME IInv, TypeOK', Crash
  PROVE  IInv'
<1> USE DEF IInv
<1>1. /\ UNCHANGED <<disks, op, moved>> /\ record' = record
      /\ stage' = "idle" /\ pc' = "closed"
  BY DEF Crash, ProcessExit, Die, worldVars, disks
<1>2. Visible' /\ Untouched' /\ CommittedSynced' /\ SlotsTruthful' /\ NextGuarded'
  BY <1>1, QuietInv
<1>3. MemoryTruthful' /\ FallbackWeaker'
  BY <1>1 DEF MemoryTruthful, FallbackWeaker, Truthful, ActivePcs, PublishPcs
<1>4. PublishInv' /\ LoopInv'
  BY <1>1 DEF PublishInv, LoopInv, PublishPcs, ActivePcs, MarkerStages, NextStages
<1> QED
  BY <1>2, <1>3, <1>4

LEMMA PowerLossInv ==
  ASSUME IInv, TypeOK', PowerLoss
  PROVE  IInv'
<1> USE DEF IInv
<1>1. PICK d \in [Ops -> UNION {Recoverable(o) : o \in Ops}] :
        /\ \A o \in Ops : d[o] \in Recoverable(o)
        /\ disk' = d
        /\ fresh' = [o \in Ops |-> [e \in Exts |-> {d[o][e]}]]
  BY DEF PowerLoss, PowerFailure
<1>2. \A o \in Ops : \A x \in Exts :
        d[o][x] \in Possible(o, x)
          \/ (d[o][x] = Torn /\ \E t \in Possible(o, x) : t.kind = "written")
  BY <1>1, RecoverableSlot
<1>3. \A o \in Ops : \A x \in Exts :
        /\ disk'[o][x] = d[o][x]
        /\ fresh'[o][x] = {d[o][x]}
        /\ \A t \in Possible(o, x)' : t = d[o][x]
  BY <1>1 DEF PowerLoss, PowerFailure, Possible, Nothing
<1>4. /\ op' = op /\ moved' = moved /\ record' = record
      /\ stage' = "idle" /\ pc' = "closed"
  BY DEF PowerLoss, PowerFailure, Die, worldVars
<1>5. {"json", "pending", "next"} \subseteq Exts
  BY DEF Exts
<1>6. Visible'
  BY <1>3 DEF Visible
<1>7. Untouched'
  BY <1>2, <1>3, <1>4, SlotFacts DEF Untouched, Only
<1>8. CommittedSynced'
  BY <1>2, <1>3, <1>5 DEF CommittedSynced
<1>9. SlotsTruthful'
  BY <1>2, <1>3, <1>4, SlotFacts DEF SlotsTruthful, Truthful
<1>10. NextGuarded'
  BY <1>2, <1>3, <1>5, SlotFacts DEF NextGuarded, Only
<1>11. MemoryTruthful' /\ FallbackWeaker'
  BY <1>4 DEF MemoryTruthful, FallbackWeaker, Truthful, ActivePcs, PublishPcs
<1>12. PublishInv' /\ LoopInv'
  BY <1>4 DEF PublishInv, LoopInv, PublishPcs, ActivePcs, MarkerStages, NextStages
<1> QED
  BY <1>6, <1>7, <1>8, <1>9, <1>10, <1>11, <1>12

\* The one step that changes the world: everything that may be read about
\* the item already says Started.
LEMMA NativeMoveInv ==
  ASSUME IInv, TypeOK', NativeMove
  PROVE  IInv'
<1> USE DEF IInv
<1>1. /\ pc = "native" /\ pc' = pc /\ UNCHANGED storeVars /\ idx' = idx
      /\ op \in Ops /\ idx \in Items
      /\ record[idx] = "Started" /\ fallback[idx] = "Started" /\ Committed
  BY DEF NativeMove, loopVars, PublishInv, LoopInv, ActivePcs, Pcs, TypeOK
<1>2. \A o \in Ops : \A i \in Items :
        moved'[o][i] <=> (moved[o][i] \/ (o = op /\ i = idx))
  BY <1>1 DEF NativeMove, TypeOK
<1>3. \A o \in Ops : \A x \in Exts : Possible(o, x)' = Possible(o, x)
  BY <1>1, SameDisks DEF storeVars, disks
<1>4. Visible' /\ CommittedSynced' /\ NextGuarded' /\ FallbackWeaker'
  BY <1>1, <1>3 DEF Visible, CommittedSynced, NextGuarded, Only, FallbackWeaker, storeVars, Exts, PublishPcs
<1>5. Untouched'
  BY <1>1, <1>2, <1>3, StoreAssumption DEF Untouched, Only, storeVars, Ops
<1>6. SlotsTruthful'
  <2> SUFFICES ASSUME NEW o \in Ops, NEW e \in Exts, NEW t \in Possible(o, e), Readable(t)
               PROVE  Truthful(o, t.rec)'
    BY <1>3 DEF SlotsTruthful
  <2>1. Truthful(o, t.rec)
    BY DEF SlotsTruthful
  <2>2. o = op => t.rec[idx] = "Started"
    BY <1>1, SlotFacts DEF Committed, Only, Exts
  <2> QED
    BY <1>2, <2>1, <2>2 DEF Truthful
<1>7. MemoryTruthful'
  BY <1>1, <1>2, NAssumption DEF MemoryTruthful, Truthful, storeVars, Items
<1>8. PublishInv' /\ LoopInv'
  BY <1>1, <1>3 DEF PublishInv, LoopInv, storeVars, PublishPcs, Committed, Only, Settled, Exts, NextStages, MarkerStages
<1> QED
  BY <1>4, <1>5, <1>6, <1>7, <1>8

\* The steps of the batch between two publications, and a failing call.
LEMMA LoopStepInv ==
  ASSUME IInv, TypeOK', UNCHANGED <<disks, op, moved>>,
         \/ IoError \/ RequestStop \/ RefuseOperation \/ CloseStore \/ InitialPublished
         \/ SkipItem \/ StartItem \/ StartItemClockError \/ IntentPublished
         \/ IntentUnconfirmed \/ GuardProceeds \/ GuardRefuses \/ EffectRefused
         \/ NativeCall \/ (\E s \in {"Succeeded", "Failed", "Unknown"} : NativeReturn(s))
         \/ PublishOutcome \/ TimestampError \/ OutcomePublished \/ OutcomeUnconfirmed
         \/ UNCHANGED vars
  PROVE  IInv'
<1> USE DEF IInv
<1>1. Visible' /\ Untouched' /\ CommittedSynced' /\ SlotsTruthful' /\ NextGuarded'
  BY QuietInv
<1>2. /\ \A x \in Exts : op \in Ops => Possible(op, x)' = Possible(op, x)
      /\ {"json", "pending", "next"} \subseteq Exts
      /\ disk' = disk /\ fresh' = fresh /\ op' = op /\ moved' = moved
  BY SameDisks DEF Exts, disks
<1>3. /\ pc \in ActivePcs => op \in Ops
      /\ idx \in Items /\ idx \in Int /\ idx' \in Items /\ N \in Nat \ {0} /\ Items = 1..N
      /\ record \in Record /\ stage \in Stages
      /\ \A st : \A i \in Items : [record EXCEPT ![idx] = st][i] = IF i = idx THEN st ELSE record[i]
  BY NAssumption DEF TypeOK, StoreTypeOK, PublishInv, Items, Record
<1>0. /\ pc \notin PublishPcs => stage = "idle"
      /\ (op \in Ops /\ Committed) => Settled(op)
      /\ op \in Ops => (Settled(op)' <=> Settled(op))
      /\ (op \in Ops /\ UNCHANGED <<record, fallback>>) => (Committed' <=> Committed)
  <2>1. pc \notin PublishPcs => stage = "idle"
    BY DEF PublishInv
  <2>2. (op \in Ops /\ Committed) => Settled(op)
    BY <1>2 DEF Committed, Settled, Only, Visible, Possible
  <2>3. op \in Ops => (Settled(op)' <=> Settled(op))
    BY <1>2 DEF Settled, Only
  <2>4. (op \in Ops /\ UNCHANGED <<record, fallback>>) => (Committed' <=> Committed)
    BY <1>2 DEF Committed, Only
  <2> QED
    BY <2>1, <2>2, <2>3, <2>4
<1> DEFINE Keep == <<record, fallback, stage, result, idx>>
<1>4. CASE RequestStop \/ UNCHANGED vars
  <2>1. UNCHANGED Keep /\ pc' = pc
    BY <1>4 DEF RequestStop, storeVars, loopVars, vars, execVars
  <2>2. MemoryTruthful' /\ FallbackWeaker'
    BY <1>2, <1>3, <1>0, <2>1 DEF MemoryTruthful, FallbackWeaker, Truthful, ActivePcs, PublishPcs, Pcs
  <2>3. PublishInv' /\ LoopInv'
    BY <1>2, <1>3, <1>0, <2>1 DEF PublishInv, LoopInv, PublishPcs, ActivePcs, Pcs, MarkerStages, NextStages, Only
  <2> QED
    BY <1>1, <2>2, <2>3
<1>5. CASE IoError
  <2>1. stage # "idle" /\ stage' = "idle" /\ result' # "ok" /\ pc' = pc /\ UNCHANGED <<record, fallback, idx>>
    BY <1>5 DEF IoError, PublishError, Finish, loopVars
  <2>2. MemoryTruthful' /\ FallbackWeaker'
    BY <1>2, <1>3, <1>0, <2>1 DEF MemoryTruthful, FallbackWeaker, Truthful, ActivePcs, PublishPcs, Pcs
  <2>3. PublishInv' /\ LoopInv'
    BY <1>2, <1>3, <1>0, <2>1 DEF PublishInv, LoopInv, PublishPcs, ActivePcs, Pcs, MarkerStages, NextStages, Only
  <2> QED
    BY <1>1, <2>2, <2>3
<1>6. CASE RefuseOperation \/ CloseStore \/ StartItemClockError
  <2>1. UNCHANGED Keep /\ pc' \in {"done", "closed"} /\ pc \in {"open", "done", "loop"}
    BY <1>6 DEF RefuseOperation, CloseStore, StartItemClockError, storeVars, loopVars
  <2>2. MemoryTruthful' /\ FallbackWeaker'
    BY <1>2, <1>3, <1>0, <2>1 DEF MemoryTruthful, FallbackWeaker, Truthful, ActivePcs, PublishPcs, Pcs
  <2>3. PublishInv' /\ LoopInv'
    BY <1>2, <1>3, <1>0, <2>1 DEF PublishInv, LoopInv, PublishPcs, ActivePcs, Pcs, MarkerStages, NextStages, Only
  <2> QED
    BY <1>1, <2>2, <2>3
<1>7. CASE InitialPublished
  <2>1. UNCHANGED Keep /\ pc = "initial" /\ stage = "idle" /\ pc' \in {"loop", "done"} /\ (pc' = "loop" => result = "ok")
    BY <1>7 DEF InitialPublished, storeVars, loopVars
  <2>2. MemoryTruthful' /\ FallbackWeaker'
    BY <1>2, <1>3, <1>0, <2>1 DEF MemoryTruthful, FallbackWeaker, Truthful, ActivePcs, PublishPcs, Pcs
  <2>3. PublishInv' /\ LoopInv'
    BY <1>2, <1>3, <1>0, <2>1 DEF PublishInv, LoopInv, PublishPcs, ActivePcs, Pcs, MarkerStages, NextStages, Only
  <2> QED
    BY <1>1, <2>2, <2>3
<1>8. CASE SkipItem
  <2>1. UNCHANGED <<fallback, stage, result, idx>> /\ pc = "loop" /\ pc' = "timestamp" /\ record' = [record EXCEPT ![idx] = "Skipped"]
    BY <1>8 DEF SkipItem, SetItem, loopVars
  <2>2. MemoryTruthful' /\ FallbackWeaker'
    BY <1>2, <1>3, <1>0, <2>1 DEF MemoryTruthful, FallbackWeaker, Truthful, ActivePcs, PublishPcs, Pcs
  <2>3. PublishInv' /\ LoopInv'
    BY <1>2, <1>3, <1>0, <2>1 DEF PublishInv, LoopInv, PublishPcs, ActivePcs, Pcs, MarkerStages, NextStages, Only
  <2> QED
    BY <1>1, <2>2, <2>3
<1>9. CASE IntentPublished
  <2>1. UNCHANGED Keep /\ pc = "intent" /\ pc' = "guard" /\ stage = "idle" /\ result = "ok"
    BY <1>9 DEF IntentPublished, storeVars, loopVars
  <2>2. MemoryTruthful' /\ FallbackWeaker'
    BY <1>2, <1>3, <1>0, <2>1 DEF MemoryTruthful, FallbackWeaker, Truthful, ActivePcs, PublishPcs, Pcs
  <2>3. PublishInv' /\ LoopInv'
    BY <1>2, <1>3, <1>0, <2>1 DEF PublishInv, LoopInv, PublishPcs, ActivePcs, Pcs, MarkerStages, NextStages, Only, FallbackWeaker, Outcome
  <2> QED
    BY <1>1, <2>2, <2>3
<1>10. CASE GuardProceeds \/ NativeCall
  <2>1. /\ UNCHANGED Keep
        /\ \/ pc = "guard" /\ pc' = "effect"
           \/ pc = "effect" /\ pc' = "native"
    BY <1>10 DEF GuardProceeds, NativeCall, storeVars, loopVars
  <2>2. MemoryTruthful' /\ FallbackWeaker'
    BY <1>2, <1>3, <1>0, <2>1 DEF MemoryTruthful, FallbackWeaker, Truthful, ActivePcs, PublishPcs, Pcs
  <2>3. PublishInv' /\ LoopInv'
    BY <1>2, <1>3, <1>0, <2>1 DEF PublishInv, LoopInv, PublishPcs, ActivePcs, Pcs, MarkerStages, NextStages, Only
  <2> QED
    BY <1>1, <2>2, <2>3
<1>11. CASE GuardRefuses \/ EffectRefused
  <2>1. UNCHANGED <<fallback, stage, result, idx>> /\ pc \in {"guard", "effect"} /\ pc' = "timestamp" /\ record' = [record EXCEPT ![idx] = "Skipped"]
    BY <1>11 DEF GuardRefuses, EffectRefused, SetItem, loopVars
  <2>2. MemoryTruthful' /\ FallbackWeaker'
    BY <1>2, <1>3, <1>0, <2>1 DEF MemoryTruthful, FallbackWeaker, Truthful, ActivePcs, PublishPcs, Pcs
  <2>3. PublishInv' /\ LoopInv'
    BY <1>2, <1>3, <1>0, <2>1 DEF PublishInv, LoopInv, PublishPcs, ActivePcs, Pcs, MarkerStages, NextStages, Only
  <2> QED
    BY <1>1, <2>2, <2>3
<1>12. CASE OutcomePublished
  <2>1. UNCHANGED <<record, fallback, stage, result>> /\ pc = "outcome" /\ stage = "idle" /\ result = "ok" /\ (pc' = "done" \/ (pc' = "loop" /\ idx' = idx + 1))
    BY <1>12 DEF OutcomePublished, storeVars, loopVars
  <2>2. MemoryTruthful' /\ FallbackWeaker'
    BY <1>2, <1>3, <1>0, <2>1 DEF MemoryTruthful, FallbackWeaker, Truthful, ActivePcs, PublishPcs, Pcs
  <2>3. PublishInv' /\ LoopInv'
    BY <1>2, <1>3, <1>0, <2>1 DEF PublishInv, LoopInv, PublishPcs, ActivePcs, Pcs, MarkerStages, NextStages, Only
  <2> QED
    BY <1>1, <2>2, <2>3
<1>13. CASE \E s \in {"Succeeded", "Failed", "Unknown"} : NativeReturn(s)
  <2>1. PICK s \in {"Succeeded", "Failed", "Unknown"} : NativeReturn(s)
    BY <1>13
  <2>2. /\ UNCHANGED <<fallback, stage, result, idx>> /\ pc = "native" /\ pc' = "timestamp"
        /\ record' = [record EXCEPT ![idx] = s]
        /\ s = "Succeeded" => moved[op][idx]
        /\ s = "Failed" => ~moved[op][idx]
    BY <2>1 DEF NativeReturn, SetItem
  <2>3. MemoryTruthful' /\ FallbackWeaker'
    BY <1>2, <1>3, <1>0, <2>2 DEF MemoryTruthful, FallbackWeaker, Truthful, ActivePcs, PublishPcs, Pcs
  <2>4. PublishInv' /\ LoopInv'
    BY <1>2, <1>3, <1>0, <2>2 DEF PublishInv, LoopInv, PublishPcs, ActivePcs, Pcs, MarkerStages, NextStages, Only
  <2> QED
    BY <1>1, <2>3, <2>4
<1>14. CASE StartItem \/ PublishOutcome
  <2>1. /\ Begin(FALSE) /\ stage' = "marker_create" /\ stage = "idle" /\ idx' = idx
        /\ \/ pc = "loop" /\ pc' = "intent" /\ record' = [record EXCEPT ![idx] = "Started"]
           \/ pc = "timestamp" /\ pc' = "outcome" /\ record' = record
    BY <1>14 DEF StartItem, PublishOutcome, SetItem, Begin, loopVars
  <2>2. \A i \in Items : fallback'[i] = record'[i] \/ (fallback'[i] = "Unknown" /\ record'[i] \in Outcome)
    BY <2>1 DEF Begin, Fallback
  <2>3. FallbackWeaker'
    BY <2>2 DEF FallbackWeaker
  <2>4. op \in Ops /\ (pc = "loop" => ~moved[op][idx])
    BY <1>3, <2>1 DEF MemoryTruthful, ActivePcs, Pcs
  <2>5. \A i \in Items : record'[i] = record[i] \/ (i = idx /\ pc = "loop" /\ record'[i] = "Started")
    BY <1>3, <2>1
  <2>6. MemoryTruthful'
    <3>1. Truthful(op, record)'
      BY <1>2, <2>4, <2>5 DEF MemoryTruthful, Truthful
    <3> QED
      BY <1>2, <2>1, <3>1 DEF MemoryTruthful, ActivePcs, Pcs
  <2>7. PublishInv'
    BY <1>2, <1>0, <2>1, <2>4 DEF PublishInv, LoopInv, PublishPcs, ActivePcs, Pcs, MarkerStages, NextStages
  <2>8. LoopInv'
    BY <1>3, <2>1 DEF LoopInv
  <2> QED
    BY <1>1, <2>3, <2>6, <2>7, <2>8
<1>15. CASE IntentUnconfirmed \/ TimestampError \/ OutcomeUnconfirmed
  <2>1. /\ UNCHANGED <<fallback, stage, result, idx>> /\ pc' = "done"
        /\ pc \in {"intent", "timestamp", "outcome"} /\ stage = "idle"
        /\ \A i \in Items : \/ i < idx /\ record'[i] = record[i]
                            \/ i > idx /\ record'[i] = "Skipped"
                            \/ i = idx /\ record'[i] = record[i]
                            \/ i = idx /\ record'[i] = "Unknown"
                            \/ i = idx /\ record'[i] = "Skipped" /\ pc = "intent"
    BY <1>15, <1>3 DEF IntentUnconfirmed, TimestampError, OutcomeUnconfirmed,
         StopForJournalError, PublishInv, PublishPcs
  <2>2. MemoryTruthful' /\ FallbackWeaker'
    BY <1>2, <1>3, <1>0, <2>1 DEF MemoryTruthful, FallbackWeaker, Truthful, ActivePcs, PublishPcs, Pcs
  <2>3. PublishInv' /\ LoopInv'
    BY <1>2, <1>3, <1>0, <2>1 DEF PublishInv, LoopInv, PublishPcs, ActivePcs, Pcs, MarkerStages, NextStages, Only
  <2> QED
    BY <1>1, <2>2, <2>3
<1> QED
  BY <1>4, <1>5, <1>6, <1>7, <1>8, <1>9, <1>10, <1>11, <1>12, <1>13, <1>14, <1>15

\* A new operation starts over names that nothing has touched.
LEMMA StartOperationInv ==
  ASSUME IInv, TypeOK', StartOperation
  PROVE  IInv'
<1> USE DEF IInv
<1>1. /\ UNCHANGED disks /\ op' = op + 1 /\ op' \in Ops /\ op \in Int /\ moved' = moved
      /\ record' = AllPlanned /\ stage' = "marker_create" /\ pc' = "initial" /\ result' = "none"
      /\ fallback' = Fallback(record', AllPlanned) /\ pc = "open" /\ idx' = 1
  BY StoreAssumption DEF StartOperation, Begin, worldVars, TypeOK, StoreTypeOK, PublishInv, Ops
<1>2. /\ \A o \in Ops : \A x \in Exts : Possible(o, x)' = Possible(o, x)
      /\ {"json", "pending", "next"} \subseteq Exts
      /\ disk' = disk /\ fresh' = fresh
  BY <1>1, SameDisks DEF Exts, disks
<1>3. /\ \A x \in Exts : Only(op', x, Absent)
      /\ \A i \in Items : ~moved[op'][i]
  BY <1>1 DEF Untouched
<1>4. Visible' /\ CommittedSynced' /\ SlotsTruthful' /\ NextGuarded'
  BY <1>1, <1>2 DEF Visible, CommittedSynced, SlotsTruthful, NextGuarded, Only, Truthful
<1>5. Untouched'
  BY <1>1, <1>2 DEF Untouched, Only, Ops
<1>6. MemoryTruthful'
  BY <1>1, <1>3 DEF MemoryTruthful, Truthful, AllPlanned
<1>7. FallbackWeaker'
  BY <1>1 DEF FallbackWeaker, Fallback
<1>8. Settled(op)'
  BY <1>1, <1>2, <1>3 DEF Settled, Only, Visible, Possible
<1>9. PublishInv' /\ LoopInv'
  BY <1>1, <1>8 DEF PublishInv, LoopInv, PublishPcs, MarkerStages, NextStages
<1> QED
  BY <1>4, <1>5, <1>6, <1>7, <1>9

LEMMA InitInv == Init => IInv
<1> SUFFICES ASSUME Init PROVE IInv
  OBVIOUS
<1>1. \A o \in Ops : \A e \in Exts :
        disk[o][e] = Absent /\ fresh[o][e] = {Absent} /\ Only(o, e, Absent)
  BY DEF Init, StoreInit, Nothing, Possible, Only
<1>2. StoreTypeOK
  BY SlotTypes, StoreAssumption DEF Init, StoreInit, StoreTypeOK, Nothing, Stages, Results
<1>3. TypeOK
  <2>1. stopping \in BOOLEAN /\ stopped \in BOOLEAN /\ journalError \in BOOLEAN
    BY Zenon DEF Init
  <2>2. moved \in [Ops -> [Items -> BOOLEAN]] /\ called \in [Ops -> [Items -> BOOLEAN]]
    BY DEF Init
  <2>3. idx \in Items /\ faults \in 0..MaxFaults /\ crashes \in 0..MaxCrashes
    BY NAssumption, ExecutionAssumption DEF Init, Items
  <2>4. seen \in [Ops -> Record]
    BY SlotTypes DEF Init
  <2>5. pc \in Pcs /\ refused \in SUBSET Items /\ report \in {"none", "report", "error"}
    BY DEF Init, Pcs
  <2> QED
    BY <1>2, <2>1, <2>2, <2>3, <2>4, <2>5 DEF TypeOK
<1>4. Visible /\ Untouched
  BY <1>1 DEF Visible, Untouched, Init
<1>5. {"json", "pending", "next"} \subseteq Exts
  BY DEF Exts
<1>6. CommittedSynced /\ SlotsTruthful /\ NextGuarded
  BY <1>1, <1>5, SlotFacts DEF CommittedSynced, SlotsTruthful, NextGuarded, Only
<1>7. pc = "closed" /\ stage = "idle" /\ op = 0
  BY DEF Init, StoreInit
<1>8. MemoryTruthful /\ FallbackWeaker /\ PublishInv /\ LoopInv
  BY <1>7, StoreAssumption DEF MemoryTruthful, FallbackWeaker, PublishInv, LoopInv,
       ActivePcs, PublishPcs, MarkerStages, NextStages, Ops
<1> QED
  BY <1>3, <1>4, <1>6, <1>8 DEF IInv

LEMMA NextInv == IInv /\ [Next]_vars => IInv'
<1> SUFFICES ASSUME IInv, [Next]_vars PROVE IInv'
  OBVIOUS
<1>1. TypeOK'
  BY TypeStep
<1>2. CASE OpenStore \/ ReadHistory
  BY <1>1, <1>2, OpenStoreInv
<1>3. CASE NativeMove
  BY <1>1, <1>3, NativeMoveInv
<1>4. CASE Crash
  BY <1>1, <1>4, CrashInv
<1>5. CASE PowerLoss
  BY <1>1, <1>5, PowerLossInv
<1>6. CASE StartOperation
  BY <1>1, <1>6, StartOperationInv
<1>7. CASE Publishing
  BY <1>1, <1>7, PublishingInv
<1>8. CASE \/ IoError \/ RequestStop \/ RefuseOperation \/ CloseStore \/ InitialPublished
           \/ SkipItem \/ StartItem \/ StartItemClockError \/ IntentPublished
           \/ IntentUnconfirmed \/ GuardProceeds \/ GuardRefuses \/ EffectRefused
           \/ NativeCall \/ (\E s \in {"Succeeded", "Failed", "Unknown"} : NativeReturn(s))
           \/ PublishOutcome \/ TimestampError \/ OutcomePublished \/ OutcomeUnconfirmed
           \/ UNCHANGED vars
  <2>1. UNCHANGED <<disks, op, moved>>
    BY <1>8 DEF IoError, PublishError, Finish, RequestStop, RefuseOperation, CloseStore,
         InitialPublished, SkipItem, StartItem, StartItemClockError, IntentPublished,
         IntentUnconfirmed, GuardProceeds, GuardRefuses, EffectRefused, NativeCall,
         NativeReturn, PublishOutcome, TimestampError, OutcomePublished, OutcomeUnconfirmed,
         StopForJournalError, Begin, disks, storeVars, vars, execVars, worldVars
  <2> QED
    BY <1>1, <1>8, <2>1, LoopStepInv
<1> QED
  BY <1>2, <1>3, <1>4, <1>5, <1>6, <1>7, <1>8 DEF Next, BatchStep

----------------------------------------------------------------------------
(* The theorems.                                                           *)

\* The invariant is inductive.
THEOREM Invariance == Spec => []IInv
  BY InitInv, NextInv, PTL DEF Spec

\* Every variable of Execution keeps its type.
THEOREM TypeCorrect == Spec => []TypeOK
<1>1. IInv => TypeOK
  BY DEF IInv
<1> QED
  BY Invariance, <1>1, PTL

\* publish_with and the loop write ahead: no crash, failing call or power loss
\* makes the history deny a move or invent one.
THEOREM ReceiptsAreTruthful == Spec => []TruthfulReceipts
<1>1. IInv => TruthfulReceipts
  <2> SUFFICES ASSUME IInv, NEW o \in Ops, NEW d \in Recoverable(o), EntryReadable(d)
               PROVE  Truthful(o, Reading(d))
    BY DEF TruthfulReceipts
  <2>1. Source(d) \in Exts
    BY DEF Source, Exts
  <2>2. d[Source(d)] \in Possible(o, Source(d)) /\ Readable(d[Source(d)])
    BY <2>1, RecoverableSlot, SlotFacts DEF EntryReadable
  <2>3. Truthful(o, d[Source(d)].rec)
    BY <2>1, <2>2 DEF IInv, SlotsTruthful
  <2> QED
    BY <2>3 DEF Truthful, Reading, Reconciled, ReconciledState
<1> QED
  BY Invariance, <1>1, PTL

\* While Foundation is being called, every directory a power failure can leave
\* reads back and discloses the item as Unknown.
THEOREM IntentsAreDurable == Spec => []IntentIsDurable
<1>1. IInv => IntentIsDurable
  <2> SUFFICES ASSUME IInv, pc = "native", NEW d \in Recoverable(op)
               PROVE  Exists(d) /\ EntryReadable(d) /\ Reading(d)[idx] = "Unknown"
    BY DEF IntentIsDurable
  <2>1. /\ op \in Ops /\ idx \in Items /\ Committed
        /\ record[idx] = "Started" /\ fallback[idx] = "Started"
    BY DEF IInv, TypeOK, PublishInv, LoopInv, ActivePcs, Pcs
  <2>2. {"json", "pending", "next"} = Exts
    BY DEF Exts
  <2>3. d["json"] = Synced(record)
    BY <2>1, <2>2, RecoverableSlot, SlotFacts DEF Committed, Only
  <2>4. d["pending"] = Synced(fallback) \/ d["pending"] = Absent
    BY <2>1, <2>2, RecoverableSlot, SlotFacts DEF Committed
  <2>5. EntryReadable(d) /\ d[Source(d)].rec[idx] = "Started"
    BY <2>1, <2>3, <2>4, SlotFacts DEF EntryReadable, Source
  <2>6. Exists(d)
    BY <2>2, <2>3, SlotFacts DEF Exists
  <2> QED
    BY <2>1, <2>5, <2>6 DEF Reading, Reconciled, ReconciledState
<1> QED
  BY Invariance, <1>1, PTL

\* records() never meets a staging file without its marker.
THEOREM StagesAreGuarded == Spec => []NoOrphanStage
<1>1. IInv => NoOrphanStage
  <2> SUFFICES ASSUME IInv, NEW o \in Ops, NEW d \in Recoverable(o), d["next"] # Absent
               PROVE  d["pending"] # Absent
    BY DEF NoOrphanStage
  <2>1. "next" \in Exts /\ "pending" \in Exts
    BY DEF Exts
  <2>2. ~Only(o, "next", Absent)
    BY <2>1, RecoverableSlot, SlotFacts DEF Only
  <2> QED
    BY <2>1, <2>2, RecoverableSlot, SlotFacts DEF IInv, NextGuarded
<1> QED
  BY Invariance, <1>1, PTL

\* A committed receipt is never torn.
THEOREM CommittedIsWhole == Spec => []CommittedNeverTorn
<1>1. IInv => CommittedNeverTorn
  BY DEF IInv, CommittedSynced, CommittedNeverTorn
<1> QED
  BY Invariance, <1>1, PTL

----------------------------------------------------------------------------
(* The order of the native calls.                                          *)

BeforeCall == {"initial", "loop", "intent", "guard", "effect"}

\* Nothing ahead of the loop has been handed to the system.
CallsInOrder ==
  /\ \A o \in Ops : o > op => \A i \in Items : ~called[o][i]
  /\ pc \in ActivePcs =>
       \A i \in Items : i > idx \/ (i = idx /\ pc \in BeforeCall) => ~called[op][i]

\* The loop takes the items in order, and an Unknown has set its flag.
LoopAhead ==
  /\ op = 0 => record = AllPlanned
  /\ pc \in ActivePcs =>
       \A i \in Items :
         /\ i > idx \/ (i = idx /\ pc \in {"initial", "loop"}) => record[i] = "Planned"
         /\ record[i] = "Unknown" => stopped
  /\ pc \in {"intent", "guard", "effect", "native"} => ~stopped

AmbiguityOrder ==
  \A i, j \in Items : (op \in Ops /\ i < j /\ record[i] = "Unknown") => ~called[op][j]

----------------------------------------------------------------------------
(* What the history may show, against what is durable.                     *)

\* An outcome that a marker repeats is in the committed receipt already.
MarkersBacked ==
  \A o \in Ops : \A t \in Possible(o, "pending") : \A i \in Items :
    (Readable(t) /\ t.rec[i] \in Outcome) =>
      \A s \in Possible(o, "json") : s.kind = "synced" /\ s.rec[i] = t.rec[i]

\* The committed receipt speaks for the operation only when it is settled.
CommitSettled ==
  \A o \in Ops : (\A t \in Possible(o, "pending") : t # Absent) \/ Only(o, "json", disk[o]["json"])

\* The marker about to be written is backed as well.
FallbackBacked ==
  stage \in MarkerStages =>
    \A i \in Items : fallback[i] \in Outcome =>
      disk[op]["json"].kind = "synced" /\ disk[op]["json"].rec[i] = fallback[i]

\* Operations of which a power failure may leave a name.
Live == {o \in Ops : \E e \in Exts : \E s \in Possible(o, e) : s # Absent}

\* An operation that may be found is found, and new_id has left room for the
\* one being executed.
RoomLeft ==
  /\ \A o \in Live : Exists(disk[o])
  /\ Cardinality(Live) <= MaxRecords
  /\ pc \in ActivePcs => Cardinality(Live \cup {op}) <= MaxRecords

----------------------------------------------------------------------------
(* The report, against what the history may show.                          *)

\* The files that records() may take for an operation's receipt.
Receipts(o) ==
  {t \in Possible(o, "pending") : Readable(t)} \cup
  {t \in Possible(o, "json") : Readable(t) /\ Absent \in Possible(o, "pending")}

\* q in a receipt does not contradict r in a report.
Agrees(r, q) ==
  /\ q \in Outcome => r = q
  /\ r \in Outcome => q \in {r, "Unknown", "Started"}

AllAgree == \A t \in Receipts(op) : \A i \in Items : Agrees(record[i], t.rec[i])

Confirmed ==
  \/ stage \in {"unlink", "unlink_dirsync"}
  \/ stage = "idle" /\ result \in {"ok", "cleanup_error"}

\* No receipt holds an outcome for the item the loop is at, or a later one.
OutcomePending ==
  \A t \in Receipts(op) : \A i \in Items : i >= idx => t.rec[i] \notin Outcome

AgreementInv ==
  /\ pc \in ActivePcs => AllAgree
  /\ pc \in ActivePcs /\ (pc = "outcome" => ~Confirmed) => OutcomePending
  /\ pc \in {"loop", "timestamp"} =>
       \A i \in Items : i >= idx => disk[op]["json"].rec[i] \notin Outcome
  /\ pc \in PublishPcs => \A i \in Items : i >= idx => fallback[i] \notin Outcome
  /\ pc \in PublishPcs /\ Confirmed => Committed

ReportInv ==
  /\ pc \notin {"closed", "done"} => report = "none"
  /\ report = "report" =>
       /\ op \in Ops
       /\ AllAgree
       /\ ~journalError => Only(op, "json", Synced(record))

HInv ==
  /\ CallsInOrder
  /\ LoopAhead
  /\ AmbiguityOrder
  /\ MarkersBacked
  /\ CommitSettled
  /\ FallbackBacked
  /\ RoomLeft
  /\ AgreementInv
  /\ ReportInv

----------------------------------------------------------------------------
(* What publish_with does to the names, in one fact for all of its calls.  *)

\* A system call adds a marker, its removal, or the receipt that is renamed
\* to the values that may recover, and nothing else that can be read.
PublishAdds ==
  \A o \in Ops : \A x \in Exts : \A t \in Possible(o, x)' :
    \/ t \in Possible(o, x)
    \/ o = op /\ x = "next" /\ t \in {Absent, Torn, Written(record), Synced(record)}
    \/ /\ o = op /\ x = "pending" /\ stage \in MarkerStages
       /\ t \in {Torn, Written(fallback), Synced(fallback)}
    \/ o = op /\ x = "pending" /\ stage = "unlink" /\ t = Absent
    \/ o = op /\ x = "json" /\ stage = "rename" /\ t = Synced(record)

\* No operation disappears, and only the rename replaces a receipt.
PublishKeeps ==
  /\ \A o \in Ops : Exists(disk[o]) \/ o = op => Exists(disk'[o])
  /\ \A o \in Ops : disk'[o]["json"] # disk[o]["json"] => o = op /\ stage = "rename"

PublishOrder ==
  \/ stage \in MarkerStages /\ stage' \in MarkerStages
  \/ stage = "marker_fullsync" /\ stage' = "next_create"
  \/ stage \in NextStages /\ stage' \in NextStages
  \/ stage = "rename" /\ stage' = "rename_dirsync"
  \/ stage = "rename_dirsync" /\ stage' = "final_fullsync"
  \/ stage = "final_fullsync" /\ stage' = "unlink"
  \/ stage = "unlink" /\ stage' = "unlink_dirsync"
  \/ stage = "unlink_dirsync" /\ stage' = "idle" /\ result' = "ok"

\* publish_with leaves its caller's variables alone.
LEMMA PublishDelta ==
  ASSUME IInv, Publishing
  PROVE  /\ stage # "idle" /\ op \in Ops /\ pc \in PublishPcs
         /\ UNCHANGED <<op, record, fallback, execVars>>
         /\ PublishAdds /\ PublishKeeps /\ PublishOrder
<1> USE DEF IInv
<1>1. stage # "idle" /\ op \in Ops /\ pc \in PublishPcs
  BY DEF Publishing, PublishStep, CreateMarker, WriteMarker, SyncMarker, FsyncMarkerName,
         FullSyncMarker, CreateNext, WriteNext, SyncNext, RenameNext, FsyncRename,
         FullSyncFinal, UnlinkMarker, FsyncUnlink, PublishInv, PublishPcs, ActivePcs, Pcs
<1>2. StoreTypeOK /\ {"json", "pending", "next"} = Exts
  BY DEF TypeOK, Exts
<1>3. UNCHANGED <<op, record, fallback, execVars>>
  BY DEF Publishing, PublishStep, CreateMarker, WriteMarker, SyncMarker, FsyncMarkerName,
         FullSyncMarker, CreateNext, WriteNext, SyncNext, RenameNext, FsyncRename,
         FullSyncFinal, UnlinkMarker, FsyncUnlink, Goto, Finish
<1>4. PublishOrder
  BY DEF PublishOrder, MarkerStages, NextStages, Publishing, PublishStep, CreateMarker, WriteMarker,
         SyncMarker, FsyncMarkerName, FullSyncMarker, CreateNext, WriteNext, SyncNext, RenameNext,
         FsyncRename, FullSyncFinal, UnlinkMarker, FsyncUnlink, Goto, Finish
<1>5. CASE CreateMarker
  <2>1. stage = "marker_create"
    BY <1>5 DEF CreateMarker
  <2>3. Touches("pending", Torn)
    BY <1>1, <1>2, <1>5, PutFacts DEF CreateMarker
  <2>4. PublishAdds
    BY <2>1, <2>3 DEF PublishAdds, Touches, MarkerStages
  <2>5. PublishKeeps
    BY <1>1, <1>2, <2>1, <2>3, SlotFacts DEF PublishKeeps, Touches, Exists
  <2> QED
    BY <1>1, <1>3, <1>4, <2>4, <2>5
<1>6. CASE WriteMarker
  <2>1. stage = "marker_write"
    BY <1>6 DEF WriteMarker
  <2>3. Touches("pending", Written(fallback))
    BY <1>1, <1>2, <1>6, BecomeFacts DEF WriteMarker
  <2>4. PublishAdds
    BY <2>1, <2>3 DEF PublishAdds, Touches, MarkerStages
  <2>5. PublishKeeps
    BY <1>1, <1>2, <2>1, <2>3, SlotFacts DEF PublishKeeps, Touches, Exists
  <2> QED
    BY <1>1, <1>3, <1>4, <2>4, <2>5
<1>7. CASE SyncMarker
  <2>1. stage = "marker_sync"
    BY <1>7 DEF SyncMarker
  <2>2. Synced(disk[op]["pending"].rec) = Synced(fallback)
    BY <2>1, SlotFacts DEF PublishInv, NextStages
  <2>3. Touches("pending", Synced(fallback))
    BY <1>1, <1>2, <1>7, <2>2, FullSyncFacts DEF SyncMarker
  <2>4. PublishAdds
    BY <2>1, <2>3 DEF PublishAdds, Touches, MarkerStages
  <2>5. PublishKeeps
    BY <1>1, <1>2, <2>1, <2>3, SlotFacts DEF PublishKeeps, Touches, Exists
  <2> QED
    BY <1>1, <1>3, <1>4, <2>4, <2>5
<1>8. CASE FullSyncMarker
  <2>1. stage = "marker_fullsync"
    BY <1>8 DEF FullSyncMarker
  <2>2. Synced(disk[op]["pending"].rec) = Synced(fallback)
    BY <2>1, SlotFacts DEF PublishInv, NextStages
  <2>3. Touches("pending", Synced(fallback))
    BY <1>1, <1>2, <1>8, <2>2, FullSyncFacts DEF FullSyncMarker
  <2>4. PublishAdds
    BY <2>1, <2>3 DEF PublishAdds, Touches, MarkerStages
  <2>5. PublishKeeps
    BY <1>1, <1>2, <2>1, <2>3, SlotFacts DEF PublishKeeps, Touches, Exists
  <2> QED
    BY <1>1, <1>3, <1>4, <2>4, <2>5
<1>9. CASE CreateNext
  <2>1. stage = "next_create"
    BY <1>9 DEF CreateNext
  <2>3. Touches("next", Torn)
    BY <1>1, <1>2, <1>9, PutFacts DEF CreateNext
  <2>4. PublishAdds
    BY <2>1, <2>3 DEF PublishAdds, Touches, MarkerStages
  <2>5. PublishKeeps
    BY <1>1, <1>2, <2>1, <2>3, SlotFacts DEF PublishKeeps, Touches, Exists
  <2> QED
    BY <1>1, <1>3, <1>4, <2>4, <2>5
<1>10. CASE WriteNext
  <2>1. stage = "next_write"
    BY <1>10 DEF WriteNext
  <2>3. Touches("next", Written(record))
    BY <1>1, <1>2, <1>10, BecomeFacts DEF WriteNext
  <2>4. PublishAdds
    BY <2>1, <2>3 DEF PublishAdds, Touches, MarkerStages
  <2>5. PublishKeeps
    BY <1>1, <1>2, <2>1, <2>3, SlotFacts DEF PublishKeeps, Touches, Exists
  <2> QED
    BY <1>1, <1>3, <1>4, <2>4, <2>5
<1>11. CASE SyncNext
  <2>1. stage = "next_sync"
    BY <1>11 DEF SyncNext
  <2>2. Synced(disk[op]["next"].rec) = Synced(record)
    BY <2>1, SlotFacts DEF PublishInv, NextStages
  <2>3. Touches("next", Synced(record))
    BY <1>1, <1>2, <1>11, <2>2, FullSyncFacts DEF SyncNext
  <2>4. PublishAdds
    BY <2>1, <2>3 DEF PublishAdds, Touches, MarkerStages
  <2>5. PublishKeeps
    BY <1>1, <1>2, <2>1, <2>3, SlotFacts DEF PublishKeeps, Touches, Exists
  <2> QED
    BY <1>1, <1>3, <1>4, <2>4, <2>5
<1>12. CASE FullSyncFinal
  <2>1. stage = "final_fullsync"
    BY <1>12 DEF FullSyncFinal
  <2>2. Synced(disk[op]["json"].rec) = Synced(record)
    BY <2>1, SlotFacts DEF PublishInv, NextStages
  <2>3. Touches("json", Synced(record))
    BY <1>1, <1>2, <1>12, <2>2, FullSyncFacts DEF FullSyncFinal
  <2>4. PublishAdds
    BY <1>1, <1>2, <2>1, <2>3 DEF PublishAdds, Touches, PublishInv, Visible, Possible
  <2>5. PublishKeeps
    BY <1>1, <1>2, <2>1, <2>3, SlotFacts DEF PublishKeeps, Touches, Exists, PublishInv
  <2> QED
    BY <1>1, <1>3, <1>4, <2>4, <2>5
<1>13. CASE UnlinkMarker
  <2>1. stage = "unlink"
    BY <1>13 DEF UnlinkMarker
  <2>3. Touches("pending", Absent)
    BY <1>1, <1>2, <1>13, PutFacts DEF UnlinkMarker
  <2>4. PublishAdds
    BY <2>1, <2>3 DEF PublishAdds, Touches
  <2>5. disk[op]["json"] = Synced(record)
    BY <1>1, <1>2, <2>1 DEF PublishInv, Committed, Only, Visible, Possible
  <2>6. PublishKeeps
    BY <1>1, <1>2, <2>1, <2>3, <2>5, SlotFacts DEF PublishKeeps, Touches, Exists
  <2> QED
    BY <1>1, <1>3, <1>4, <2>4, <2>6
<1>14. CASE FsyncMarkerName \/ FsyncRename \/ FsyncUnlink
  <2>1. \A o \in Ops : \A x \in Exts :
          disk'[o][x] = disk[o][x] /\ Possible(o, x)' = Possible(o, x)
    BY <1>2, <1>14, FsyncFacts DEF FsyncMarkerName, FsyncRename, FsyncUnlink
  <2>2. disk[op]["pending"] # Absent \/ disk[op]["json"] # Absent
    BY <1>1, <1>2, <1>14, SlotFacts
       DEF FsyncMarkerName, FsyncRename, FsyncUnlink, PublishInv, Committed, Only, Visible, Possible
  <2>3. PublishAdds /\ PublishKeeps
    BY <1>2, <2>1, <2>2 DEF PublishAdds, PublishKeeps, Exists
  <2> QED
    BY <1>1, <1>3, <1>4, <2>3
<1>15. CASE RenameNext
  <2>1. stage = "rename" /\ disk[op]["next"] = Synced(record)
    BY <1>15 DEF RenameNext, PublishInv
  <2>2. /\ disk'[op]["json"] = Synced(record)
        /\ \A o \in Ops : \A x \in Exts :
             /\ o # op => disk'[o][x] = disk[o][x]
             /\ \A t \in Possible(o, x)' :
                  \/ t \in Possible(o, x)
                  \/ o = op /\ x = "json" /\ t = Synced(record)
                  \/ o = op /\ x = "next" /\ t = Absent
    BY <1>1, <1>2, <1>15, <2>1 DEF RenameNext, StoreTypeOK, Possible
  <2>3. PublishAdds /\ PublishKeeps
    BY <1>1, <1>2, <2>1, <2>2, SlotFacts DEF PublishAdds, PublishKeeps, Exists
  <2> QED
    BY <1>1, <1>3, <1>4, <2>3
<1> QED
  BY <1>5, <1>6, <1>7, <1>8, <1>9, <1>10, <1>11, <1>12, <1>13, <1>14, <1>15 DEF Publishing, PublishStep

\* What can be read of the operation afterwards was readable before, or is
\* the marker of this publication, or its receipt.
LEMMA ReceiptsDelta ==
  ASSUME IInv, Publishing
  PROVE  \A t \in Receipts(op)' :
           \/ t \in Receipts(op)
           \/ stage \in MarkerStages /\ t.rec = fallback
           \/ stage = "unlink" /\ t.rec = record
<1>1. /\ op \in Ops /\ op' = op /\ PublishAdds
      /\ "json" \in Exts /\ "pending" \in Exts
  BY PublishDelta DEF Exts
<1>2. ASSUME NEW t \in Possible(op, "pending")', Readable(t)
      PROVE  t \in Possible(op, "pending") \/ (stage \in MarkerStages /\ t.rec = fallback)
  BY <1>1, <1>2, SlotFacts DEF PublishAdds
<1>3. ASSUME NEW t \in Possible(op, "json")', Absent \in Possible(op, "pending")', stage # "unlink"
      PROVE  t \in Possible(op, "json") /\ Absent \in Possible(op, "pending")
  <2>1. Absent \in Possible(op, "pending")
    BY <1>1, <1>3, SlotFacts DEF PublishAdds
  <2>2. stage # "rename"
    BY <2>1, SlotFacts DEF IInv, PublishInv, NextStages, Only
  <2> QED
    BY <1>1, <1>3, <2>1, <2>2 DEF PublishAdds
<1>4. ASSUME NEW t \in Possible(op, "json")', stage = "unlink"
      PROVE  t.rec = record
  BY <1>1, <1>4, SlotFacts DEF PublishAdds, IInv, PublishInv, Committed, Only
<1> SUFFICES ASSUME NEW t \in Receipts(op)'
             PROVE  \/ t \in Receipts(op)
                    \/ stage \in MarkerStages /\ t.rec = fallback
                    \/ stage = "unlink" /\ t.rec = record
  OBVIOUS
<1>5. CASE t \in Possible(op, "pending")' /\ Readable(t)
  BY <1>2, <1>5 DEF Receipts
<1>6. CASE t \in Possible(op, "json")' /\ Readable(t) /\ Absent \in Possible(op, "pending")'
  BY <1>3, <1>4, <1>6 DEF Receipts
<1> QED
  BY <1>1, <1>5, <1>6 DEF Receipts

LEMMA LiveFinite == IsFiniteSet(Ops) /\ IsFiniteSet(Live)
<1>1. IsFiniteSet(Ops)
  BY StoreAssumption, FS_Interval DEF Ops
<1>2. Live \in SUBSET Ops
  BY DEF Live
<1> QED
  BY <1>1, <1>2, FS_Subset

\* A smaller set of operations leaves at least as much room.
LEMMA LiveBound ==
  ASSUME NEW S, S \subseteq Live \cup {op}, op \in Ops,
         Cardinality(Live \cup {op}) <= MaxRecords
  PROVE  Cardinality(S) <= MaxRecords
<1>1. Live \cup {op} \in SUBSET Ops
  BY DEF Live
<1>2. IsFiniteSet(Live \cup {op})
  BY <1>1, LiveFinite, FS_Subset
<1>3. Cardinality(Live \cup {op}) \in Nat /\ Cardinality(S) \in Nat
      /\ Cardinality(S) <= Cardinality(Live \cup {op})
  BY <1>2, FS_Subset, FS_CardinalityType
<1> QED
  BY <1>3, StoreAssumption

LEMMA PublishingHInv ==
  ASSUME IInv, IInv', HInv, Publishing
  PROVE  HInv'
<1> USE DEF HInv
<1>1. /\ stage # "idle" /\ op \in Ops /\ pc \in PublishPcs /\ pc \in ActivePcs
      /\ op' = op /\ record' = record /\ fallback' = fallback
      /\ UNCHANGED execVars
      /\ PublishAdds /\ PublishKeeps /\ PublishOrder
  BY PublishDelta DEF PublishPcs, ActivePcs, Pcs
<1>2. /\ pc' = pc /\ idx' = idx /\ stopped' = stopped /\ report' = report
      /\ journalError' = journalError /\ called' = called
  BY <1>1 DEF execVars, loopVars, worldVars
<1>3. "json" \in Exts /\ "pending" \in Exts /\ "next" \in Exts
  BY DEF Exts
<1>4. \A i \in Items : fallback[i] = record[i] \/ (fallback[i] = "Unknown" /\ record[i] \in Outcome)
  BY <1>1 DEF IInv, FallbackWeaker
<1>5. CallsInOrder' /\ LoopAhead' /\ AmbiguityOrder'
  BY <1>1, <1>2 DEF CallsInOrder, LoopAhead, AmbiguityOrder
<1>6. MarkersBacked'
  <2> SUFFICES ASSUME NEW o \in Ops, NEW t \in Possible(o, "pending")', NEW i \in Items,
                      Readable(t), t.rec[i] \in Outcome, NEW s \in Possible(o, "json")'
               PROVE  s.kind = "synced" /\ s.rec[i] = t.rec[i]
    BY DEF MarkersBacked
  <2>1. CASE t \in Possible(o, "pending") /\ s \in Possible(o, "json")
    BY <2>1 DEF MarkersBacked
  <2>2. CASE t \in Possible(o, "pending") /\ s \notin Possible(o, "json")
    <3>1. o = op /\ stage = "rename" /\ s = Synced(record)
      BY <1>1, <1>3, <2>2 DEF PublishAdds
    <3>2. t = Synced(fallback)
      BY <2>2, <3>1 DEF IInv, PublishInv, NextStages, Only
    <3> QED
      BY <1>4, <3>1, <3>2, SlotFacts DEF Outcome
  <2>3. CASE t \notin Possible(o, "pending")
    <3>1. o = op /\ stage \in MarkerStages /\ t.rec = fallback
      BY <1>1, <1>3, <2>3, SlotFacts DEF PublishAdds
    <3>2. s \in Possible(op, "json") /\ s = disk[op]["json"]
      BY <1>1, <1>3, <3>1 DEF PublishAdds, IInv, PublishInv, Settled, Only, MarkerStages
    <3> QED
      BY <3>1, <3>2 DEF FallbackBacked
  <2> QED
    BY <2>1, <2>2, <2>3
<1>7. CommitSettled'
  <2> SUFFICES ASSUME NEW o \in Ops, Absent \in Possible(o, "pending")', NEW t \in Possible(o, "json")'
               PROVE  t = disk'[o]["json"]
    BY DEF CommitSettled, Only
  <2>1. CASE stage = "unlink" /\ o = op
    BY <1>1, <1>3, <2>1 DEF PublishAdds, PublishKeeps, IInv, PublishInv, Committed, Only, Visible, Possible
  <2>2. CASE ~(stage = "unlink" /\ o = op)
    <3>1. Absent \in Possible(o, "pending")
      BY <1>1, <1>3, <2>2, SlotFacts DEF PublishAdds
    <3>2. ~(o = op /\ stage = "rename")
      BY <3>1, SlotFacts DEF IInv, PublishInv, NextStages, Only
    <3>3. t \in Possible(o, "json") /\ disk'[o]["json"] = disk[o]["json"]
      BY <1>1, <1>3, <3>2 DEF PublishAdds, PublishKeeps
    <3> QED
      BY <3>1, <3>3 DEF CommitSettled, Only
  <2> QED
    BY <2>1, <2>2
<1>8. FallbackBacked'
  BY <1>1 DEF FallbackBacked, PublishOrder, PublishKeeps, MarkerStages, NextStages
<1>9. RoomLeft'
  <2>1. Live' \subseteq Live \cup {op}
    BY <1>1 DEF Live, PublishAdds
  <2>2. \A o \in Live' : Exists(disk'[o])
    BY <1>1, <2>1 DEF RoomLeft, PublishKeeps, Live
  <2>3. Cardinality(Live') <= MaxRecords /\ Cardinality(Live' \cup {op}) <= MaxRecords
    BY <1>1, <2>1, LiveBound DEF RoomLeft
  <2> QED
    BY <1>1, <2>2, <2>3 DEF RoomLeft
<1>10. AgreementInv'
  <2>1. \A t \in Receipts(op)' : \/ t \in Receipts(op)
                                 \/ stage \in MarkerStages /\ t.rec = fallback
                                 \/ stage = "unlink" /\ t.rec = record
    BY ReceiptsDelta
  <2>2. AllAgree'
    BY <1>1, <1>2, <1>4, <2>1 DEF AgreementInv, AllAgree, Agrees, Outcome
  <2>3. Confirmed => Confirmed'
    BY <1>1 DEF Confirmed, PublishOrder, MarkerStages, NextStages
  <2>4. (pc = "outcome" => ~Confirmed') => OutcomePending'
    <3> SUFFICES ASSUME pc = "outcome" => ~Confirmed, NEW t \in Receipts(op)',
                        NEW i \in Items, i >= idx
                 PROVE  t.rec[i] \notin Outcome
      BY <1>1, <1>2, <2>3 DEF OutcomePending
    <3>1. CASE t \in Receipts(op)
      BY <1>1, <3>1 DEF AgreementInv, OutcomePending
    <3>2. CASE stage \in MarkerStages /\ t.rec = fallback
      BY <1>1, <3>2 DEF AgreementInv
    <3>3. CASE stage = "unlink" /\ t.rec = record
      <4>1. pc \in {"initial", "intent"}
        BY <1>1, <3>3 DEF Confirmed, PublishPcs
      <4>2. idx \in Int /\ i \in Int
        BY NAssumption DEF IInv, TypeOK, Items
      <4>3. record[i] \in {"Planned", "Started"}
        BY <1>1, <4>1, <4>2 DEF LoopAhead, IInv, LoopInv
      <4> QED
        BY <3>3, <4>3 DEF Outcome
    <3> QED
      BY <2>1, <3>1, <3>2, <3>3
  <2>5. Confirmed' => Committed'
    BY <1>1, <1>2 DEF IInv, PublishInv, Confirmed, PublishOrder, MarkerStages, NextStages
  <2> QED
    BY <1>1, <1>2, <2>2, <2>4, <2>5 DEF AgreementInv, PublishPcs
<1>11. ReportInv'
  BY <1>1, <1>2 DEF ReportInv, PublishPcs
<1> QED
  BY <1>5, <1>6, <1>7, <1>8, <1>9, <1>10, <1>11

----------------------------------------------------------------------------
(* Steps that leave every name as it is.                                   *)

SameNames ==
  \A o \in Ops : \A x \in Exts : disk'[o][x] = disk[o][x] /\ Possible(o, x)' = Possible(o, x)

LEMMA SameNamesFacts ==
  ASSUME SameNames
  PROVE  /\ MarkersBacked => MarkersBacked'
         /\ CommitSettled => CommitSettled'
         /\ Live' = Live
         /\ \A o \in Ops : Exists(disk[o]) => Exists(disk'[o])
         /\ \A o \in Ops : Receipts(o)' = Receipts(o)
         /\ \A o \in Ops : \A s : Only(o, "json", s) => Only(o, "json", s)'
         /\ \A o \in Ops : disk'[o]["json"] = disk[o]["json"]
<1>1. "json" \in Exts /\ "pending" \in Exts
  BY DEF Exts
<1>2. MarkersBacked => MarkersBacked'
  BY <1>1 DEF SameNames, MarkersBacked
<1>3. CommitSettled => CommitSettled'
  BY <1>1 DEF SameNames, CommitSettled, Only
<1>4. Live' = Live
  BY DEF SameNames, Live
<1>5. \A o \in Ops : Exists(disk[o]) => Exists(disk'[o])
  BY DEF SameNames, Exists
<1>6. \A o \in Ops : Receipts(o)' = Receipts(o)
  BY <1>1 DEF SameNames, Receipts
<1>7. \A o \in Ops : \A s : Only(o, "json", s) => Only(o, "json", s)'
  BY <1>1 DEF SameNames, Only
<1> QED
  BY <1>1, <1>2, <1>3, <1>4, <1>5, <1>6, <1>7 DEF SameNames

LEMMA SameDisksNames ==
  ASSUME UNCHANGED disks
  PROVE  SameNames
  BY SameDisks DEF SameNames, disks

LEMMA OpenStoreHInv ==
  ASSUME IInv, IInv', HInv, OpenStore \/ ReadHistory
  PROVE  HInv'
<1> USE DEF HInv
<1>1. SameNames
  BY FsyncFacts DEF SameNames, OpenStore, ReadHistory, IInv, TypeOK
<1>2. /\ op' = op /\ record' = record /\ stage' = stage /\ called' = called
      /\ pc = "closed" /\ pc' \in {"closed", "open"}
      /\ report' = report \/ report' = "none"
      /\ pc' = "open" => report' = "none"
      /\ journalError' = journalError
  BY DEF OpenStore, ReadHistory, worldVars, loopVars, Locked
<1>3. CallsInOrder' /\ LoopAhead' /\ AmbiguityOrder'
  BY <1>2 DEF CallsInOrder, LoopAhead, AmbiguityOrder, ActivePcs
<1>4. stage = "idle"
  BY <1>2 DEF IInv, PublishInv, PublishPcs
<1>5. MarkersBacked' /\ CommitSettled' /\ FallbackBacked'
  BY <1>1, <1>2, <1>4, SameNamesFacts DEF FallbackBacked, MarkerStages
<1>6. RoomLeft'
  BY <1>1, <1>2, SameNamesFacts DEF RoomLeft, ActivePcs, Live
<1>7. AgreementInv'
  BY <1>2 DEF AgreementInv, ActivePcs, PublishPcs
<1>8. ReportInv'
  BY <1>1, <1>2, SameNamesFacts DEF ReportInv, AllAgree
<1> QED
  BY <1>3, <1>5, <1>6, <1>7, <1>8

LEMMA CrashHInv ==
  ASSUME IInv, HInv, Crash
  PROVE  HInv'
<1> USE DEF HInv
<1>1. SameNames
  BY SameDisksNames DEF Crash, ProcessExit, disks
<1>2. /\ op' = op /\ record' = record /\ stage' = "idle" /\ called' = called
      /\ pc' = "closed" /\ report' = "none"
  BY DEF Crash, ProcessExit, Die, worldVars
<1>3. CallsInOrder' /\ LoopAhead' /\ AmbiguityOrder'
  BY <1>2 DEF CallsInOrder, LoopAhead, AmbiguityOrder, ActivePcs
<1>4. MarkersBacked' /\ CommitSettled' /\ FallbackBacked'
  BY <1>1, <1>2, SameNamesFacts DEF FallbackBacked, MarkerStages
<1>5. RoomLeft'
  BY <1>1, <1>2, SameNamesFacts DEF RoomLeft, ActivePcs, Live
<1>6. AgreementInv' /\ ReportInv'
  BY <1>2 DEF AgreementInv, ReportInv, ActivePcs, PublishPcs
<1> QED
  BY <1>3, <1>4, <1>5, <1>6

LEMMA PowerLossHInv ==
  ASSUME IInv, HInv, PowerLoss
  PROVE  HInv'
<1> USE DEF HInv
<1>1. PICK d \in [Ops -> UNION {Recoverable(o) : o \in Ops}] :
        /\ \A o \in Ops : d[o] \in Recoverable(o)
        /\ disk' = d
        /\ fresh' = [o \in Ops |-> [e \in Exts |-> {d[o][e]}]]
  BY DEF PowerLoss, PowerFailure
<1>2. \A o \in Ops : \A x \in Exts :
        d[o][x] \in Possible(o, x)
          \/ (d[o][x] = Torn /\ \E t \in Possible(o, x) : t.kind = "written")
  BY <1>1, RecoverableSlot
<1>3. \A o \in Ops : \A x \in Exts : disk'[o][x] = d[o][x] /\ Possible(o, x)' = {d[o][x]}
  BY <1>1 DEF PowerLoss, PowerFailure, Possible, Nothing
<1>4. /\ op' = op /\ record' = record /\ stage' = "idle" /\ called' = called
      /\ pc' = "closed" /\ report' = "none"
  BY DEF PowerLoss, PowerFailure, Die, worldVars
<1>5. "json" \in Exts /\ "pending" \in Exts
  BY DEF Exts
<1>6. CallsInOrder' /\ LoopAhead' /\ AmbiguityOrder'
  BY <1>4 DEF CallsInOrder, LoopAhead, AmbiguityOrder, ActivePcs
<1>7. MarkersBacked'
  <2> SUFFICES ASSUME NEW o \in Ops, NEW t \in Possible(o, "pending")', NEW i \in Items,
                      Readable(t), t.rec[i] \in Outcome, NEW s \in Possible(o, "json")'
               PROVE  s.kind = "synced" /\ s.rec[i] = t.rec[i]
    BY DEF MarkersBacked
  <2>1. t \in Possible(o, "pending")
    BY <1>2, <1>3, <1>5, SlotFacts
  <2>2. s \in Possible(o, "json")
    BY <1>2, <1>3, <1>5 DEF IInv, CommittedSynced
  <2> QED
    BY <2>1, <2>2 DEF MarkersBacked
<1>8. CommitSettled' /\ FallbackBacked'
  BY <1>3, <1>4, <1>5 DEF CommitSettled, Only, FallbackBacked, MarkerStages
<1>9. RoomLeft'
  <2>1. Live' \subseteq Live
    BY <1>2, <1>3, SlotFacts DEF Live
  <2>2. \A o \in Live' : Exists(disk'[o])
    BY <1>3 DEF Live, Exists
  <2>3. IsFiniteSet(Live)
    BY LiveFinite
  <2>4. Cardinality(Live') <= Cardinality(Live) /\ IsFiniteSet(Live')
    BY <2>1, <2>3, FS_Subset
  <2>5. Cardinality(Live) \in Nat /\ Cardinality(Live') \in Nat
    BY <2>3, <2>4, FS_CardinalityType
  <2>6. Cardinality(Live') <= MaxRecords
    BY <2>4, <2>5, StoreAssumption DEF RoomLeft
  <2> QED
    BY <1>4, <2>2, <2>6 DEF RoomLeft, ActivePcs
<1>10. AgreementInv' /\ ReportInv'
  BY <1>4 DEF AgreementInv, ReportInv, ActivePcs, PublishPcs
<1> QED
  BY <1>6, <1>7, <1>8, <1>9, <1>10

\* A new operation has left no trace, and new_id has counted the others.
LEMMA StartOperationHInv ==
  ASSUME IInv, IInv', HInv, StartOperation
  PROVE  HInv'
<1> USE DEF HInv
<1>1. /\ UNCHANGED disks /\ op' = op + 1 /\ op' \in Ops /\ op \in Int /\ called' = called
      /\ record' = AllPlanned /\ stage' = "marker_create" /\ pc' = "initial" /\ result' = "none"
      /\ fallback' = Fallback(record', AllPlanned) /\ pc = "open" /\ idx' = 1 /\ report' = report
      /\ stopped' = FALSE
      /\ Cardinality(Known) < MaxRecords
  BY StoreAssumption DEF StartOperation, NewIdOk, Begin, worldVars, IInv, TypeOK, StoreTypeOK,
       PublishInv, Ops
<1>2. SameNames
  BY <1>1, SameDisksNames
<1>3. /\ \A x \in Exts : Only(op', x, Absent)
      /\ \A i \in Items : ~called[op'][i]
      /\ "json" \in Exts /\ "pending" \in Exts
  BY <1>1 DEF IInv, Untouched, CallsInOrder, Exts
<1>4. \A i \in Items : record'[i] = "Planned" /\ fallback'[i] = "Planned"
  BY <1>1 DEF AllPlanned, Fallback, Outcome
<1>5. CallsInOrder' /\ LoopAhead' /\ AmbiguityOrder'
  BY <1>1, <1>3, <1>4 DEF CallsInOrder, LoopAhead, AmbiguityOrder, Ops
<1>6. MarkersBacked' /\ CommitSettled' /\ FallbackBacked'
  BY <1>2, <1>4, SameNamesFacts DEF FallbackBacked, Outcome
<1>7. RoomLeft'
  <2>1. Live = Known
    <3>1. Live \subseteq Known
      BY DEF RoomLeft, Live, Known
    <3>2. Known \subseteq Live
      BY DEF Known, Exists, Live, IInv, Visible, Possible
    <3> QED
      BY <3>1, <3>2
  <2>2. IsFiniteSet(Live)
    BY LiveFinite
  <2>3. /\ Cardinality(Live) \in Nat /\ Cardinality(Live) < MaxRecords
        /\ \/ Cardinality(Live \cup {op'}) = Cardinality(Live)
           \/ Cardinality(Live \cup {op'}) = Cardinality(Live) + 1
    <3>1. Cardinality(Live) \in Nat
      BY <2>2, FS_CardinalityType
    <3>2. Cardinality(Live \cup {op'}) =
            IF op' \in Live THEN Cardinality(Live) ELSE Cardinality(Live) + 1
      BY <2>2, FS_AddElement
    <3> QED
      BY <1>1, <2>1, <3>1, <3>2
  <2>5. Cardinality(Live') <= MaxRecords /\ Cardinality(Live' \cup {op'}) <= MaxRecords
    BY <1>2, <2>3, SameNamesFacts, StoreAssumption
  <2>6. \A o \in Live' : Exists(disk'[o])
    BY <1>2, SameNamesFacts DEF RoomLeft, Live
  <2> QED
    BY <2>5, <2>6 DEF RoomLeft
<1>8. Receipts(op') = {}
  BY <1>1, <1>3, SlotFacts DEF Receipts, Only
<1>9. Receipts(op)' = {}
  BY <1>1, <1>2, <1>8, SameNamesFacts
<1>10. ~Confirmed'
  BY <1>1 DEF Confirmed
<1>11. AgreementInv'
  BY <1>1, <1>4, <1>9, <1>10 DEF AgreementInv, AllAgree, OutcomePending, Outcome
<1>12. ReportInv'
  BY <1>1 DEF ReportInv
<1> QED
  BY <1>5, <1>6, <1>7, <1>11, <1>12

----------------------------------------------------------------------------
(* The batch between two publications.                                     *)

\* The parts of HInv that speak about the store alone, and what the names of
\* the operation still say.
LEMMA QuietFacts ==
  ASSUME IInv, HInv, UNCHANGED <<disks, op>>, pc' \in ActivePcs => pc \in ActivePcs
  PROVE  /\ MarkersBacked' /\ CommitSettled' /\ RoomLeft'
         /\ pc \in ActivePcs => op \in Ops
         /\ op \in Ops => /\ Receipts(op)' = Receipts(op)
                          /\ disk'[op]["json"] = disk[op]["json"]
                          /\ \A s : Only(op, "json", s) => Only(op, "json", s)'
                          /\ Committed /\ UNCHANGED <<record, fallback>> => Committed'
<1>1. SameNames
  BY SameDisksNames
<1>2. MarkersBacked' /\ CommitSettled'
  BY <1>1, SameNamesFacts DEF HInv
<1>3. RoomLeft'
  BY <1>1, SameNamesFacts DEF HInv, RoomLeft, Live
<1>4. op \in Ops /\ Committed /\ UNCHANGED <<record, fallback>> => Committed'
  BY <1>1 DEF SameNames, Committed, Only, Exts
<1>5. op \in Ops => Receipts(op)' = Receipts(op)
  BY <1>1, SameNamesFacts
<1>6. pc \in ActivePcs => op \in Ops
  BY DEF IInv, PublishInv
<1> QED
  BY <1>1, <1>2, <1>3, <1>4, <1>5, <1>6, SameNamesFacts

\* A committed operation shows its record or its marker.
LEMMA CommittedReceipts ==
  ASSUME op \in Ops, Committed
  PROVE  \A t \in Receipts(op) : t.rec \in {record, fallback}
  BY SlotFacts DEF Receipts, Committed, Only

\* The facts about the loop that its steps use.
LEMMA LoopFacts ==
  ASSUME IInv, IInv', HInv
  PROVE  /\ N \in Nat \ {0} /\ Items = 1..N /\ idx \in Items /\ idx' \in Items
         /\ \A i \in Items : i \in Int
         /\ \A st : \A i \in Items : [record EXCEPT ![idx] = st][i] = IF i = idx THEN st ELSE record[i]
         /\ pc \notin PublishPcs => stage = "idle"
         /\ pc \in {"guard", "effect", "native"} =>
              Committed /\ record[idx] = "Started" /\ fallback[idx] = "Started"
  BY NAssumption DEF IInv, TypeOK, StoreTypeOK, Record, Items, LoopInv, PublishInv

\* Begin computes a marker that the committed receipt backs.
LEMMA BeginBacked ==
  ASSUME IInv, op \in Ops, op' = op, Begin(FALSE), NEW i \in Items, fallback'[i] \in Outcome
  PROVE  /\ record'[i] = fallback'[i]
         /\ disk[op]["json"].kind = "synced"
         /\ disk[op]["json"].rec[i] = fallback'[i]
<1>1. /\ Readable(disk[op]["json"])
      /\ fallback'[i] = IF record'[i] \in Outcome /\ disk[op]["json"].rec[i] # record'[i]
                          THEN "Unknown" ELSE record'[i]
  BY DEF Begin, Fallback
<1>2. disk[op]["json"].kind = "synced"
  BY <1>1 DEF IInv, Visible, CommittedSynced, Possible, Readable, Exts
<1> QED
  BY <1>1, <1>2 DEF Outcome

LEMMA LoopStepHInv ==
  ASSUME IInv, IInv', HInv, UNCHANGED <<disks, op>>,
         \/ NativeMove \/ IoError \/ RequestStop \/ RefuseOperation \/ CloseStore
         \/ InitialPublished \/ SkipItem \/ StartItem \/ StartItemClockError \/ IntentPublished
         \/ IntentUnconfirmed \/ GuardProceeds \/ GuardRefuses \/ EffectRefused
         \/ NativeCall \/ (\E s \in {"Succeeded", "Failed", "Unknown"} : NativeReturn(s))
         \/ PublishOutcome \/ TimestampError \/ OutcomePublished \/ OutcomeUnconfirmed
         \/ UNCHANGED vars
  PROVE  HInv'
<1> USE DEF HInv
<1>1. CASE NativeMove \/ RequestStop \/ UNCHANGED vars
  <2>1. /\ pc' = pc /\ idx' = idx /\ record' = record /\ fallback' = fallback
        /\ stage' = stage /\ result' = result /\ stopped' = stopped /\ called' = called
        /\ report' = report /\ journalError' = journalError /\ op' = op
    BY <1>1 DEF NativeMove, RequestStop, vars, storeVars, execVars, loopVars, worldVars
  <2>2. CallsInOrder' /\ LoopAhead' /\ AmbiguityOrder'
    BY <2>1 DEF CallsInOrder, LoopAhead, AmbiguityOrder
  <2>3. FallbackBacked'
    BY <2>1, QuietFacts DEF FallbackBacked, MarkerStages, IInv, PublishInv, PublishPcs, ActivePcs, Pcs
  <2>4. AgreementInv'
    BY <2>1, QuietFacts
       DEF AgreementInv, AllAgree, OutcomePending, Confirmed, PublishPcs, ActivePcs, Pcs
  <2>5. ReportInv'
    BY <2>1, QuietFacts DEF ReportInv, AllAgree
  <2> QED
    BY <2>1, <2>2, <2>3, <2>4, <2>5, QuietFacts
<1>2. CASE IoError
  <2>1. /\ pc' = pc /\ idx' = idx /\ record' = record /\ fallback' = fallback /\ stage # "idle"
        /\ stage' = "idle" /\ stopped' = stopped /\ called' = called
        /\ report' = report /\ journalError' = journalError /\ op' = op
        /\ result' = IF stage \in {"unlink", "unlink_dirsync"} THEN "cleanup_error" ELSE "err"
    BY <1>2 DEF IoError, PublishError, Finish, loopVars, worldVars
  <2>2. CallsInOrder' /\ LoopAhead' /\ AmbiguityOrder' /\ FallbackBacked'
    BY <2>1 DEF CallsInOrder, LoopAhead, AmbiguityOrder, FallbackBacked, MarkerStages
  <2>3. Confirmed' <=> Confirmed
    BY <2>1 DEF Confirmed
  <2>4. AgreementInv'
    BY <2>1, <2>3, QuietFacts DEF AgreementInv, AllAgree, OutcomePending, PublishPcs, ActivePcs, Pcs
  <2>5. ReportInv'
    BY <2>1, QuietFacts DEF ReportInv, AllAgree
  <2> QED
    BY <2>1, <2>2, <2>4, <2>5, QuietFacts
<1>3. CASE RefuseOperation \/ CloseStore \/ StartItemClockError
  <2>1. /\ idx' = idx /\ record' = record /\ stage' = stage /\ called' = called /\ op' = op
        /\ pc \in {"open", "done", "loop"} /\ pc' \in {"done", "closed"}
        /\ report' = "error" \/ (report' = report /\ journalError' = journalError)
    BY <1>3 DEF RefuseOperation, CloseStore, StartItemClockError, storeVars, loopVars, worldVars
  <2>2. CallsInOrder' /\ LoopAhead' /\ AmbiguityOrder'
    BY <2>1 DEF CallsInOrder, LoopAhead, AmbiguityOrder, ActivePcs
  <2>3. FallbackBacked' /\ AgreementInv'
    BY <2>1, LoopFacts DEF FallbackBacked, AgreementInv, PublishPcs, ActivePcs, MarkerStages
  <2>4. ReportInv'
    BY <2>1, QuietFacts DEF ReportInv, AllAgree, ActivePcs
  <2> QED
    BY <2>1, <2>2, <2>3, <2>4, QuietFacts DEF ActivePcs
<1>4. CASE InitialPublished
  <2>1. /\ idx' = idx /\ record' = record /\ stage' = stage /\ stage = "idle" /\ called' = called
        /\ op' = op /\ stopped' = stopped
        /\ pc = "initial" /\ pc' \in {"loop", "done"}
        /\ pc' = "loop" => result = "ok" /\ report' = "none"
        /\ report' # "report"
    BY <1>4 DEF InitialPublished, storeVars, loopVars, worldVars
  <2>2. CallsInOrder' /\ LoopAhead' /\ AmbiguityOrder' /\ FallbackBacked'
    BY <2>1 DEF CallsInOrder, LoopAhead, AmbiguityOrder, FallbackBacked, ActivePcs, Pcs, MarkerStages, BeforeCall
  <2>3. op \in Ops /\ pc \in ActivePcs /\ (pc' \in ActivePcs => pc' = "loop")
    BY <2>1, QuietFacts DEF ActivePcs, Pcs
  <2>4. pc' = "loop" => disk[op]["json"] = Synced(record)
    BY <2>1, <2>3 DEF IInv, PublishInv, PublishPcs, Committed, Only, Visible, Possible, Exts
  <2>5. AgreementInv'
    <3>1. pc' = "loop" => AllAgree' /\ OutcomePending'
      BY <2>1, <2>3, QuietFacts DEF AgreementInv, AllAgree, OutcomePending
    <3>2. pc' = "loop" => \A i \in Items : i >= idx => disk[op]["json"].rec[i] \notin Outcome
      BY <2>1, <2>3, <2>4, LoopFacts, SlotFacts DEF LoopAhead, Outcome
    <3> QED
      BY <2>1, <2>3, <3>1, <3>2, QuietFacts DEF AgreementInv, PublishPcs
  <2>6. ReportInv'
    BY <2>1 DEF ReportInv
  <2> QED
    BY <2>2, <2>3, <2>5, <2>6, QuietFacts
<1>5. CASE SkipItem \/ GuardRefuses \/ EffectRefused
  <2>1. /\ idx' = idx /\ stage' = stage /\ called' = called /\ op' = op /\ report' = report
        /\ record' = [record EXCEPT ![idx] = "Skipped"]
        /\ stopped' = stopped \/ stopped' = TRUE
        /\ pc \in {"loop", "guard", "effect"} /\ pc' = "timestamp"
    BY <1>5 DEF SkipItem, GuardRefuses, EffectRefused, SetItem, loopVars, worldVars
  <2>2. op \in Ops /\ pc \in ActivePcs /\ pc \notin {"closed", "done", "outcome"}
    BY <2>1, QuietFacts DEF ActivePcs, Pcs
  <2>3. CallsInOrder' /\ AmbiguityOrder' /\ FallbackBacked'
    BY <2>1, <2>2, LoopFacts
       DEF CallsInOrder, AmbiguityOrder, FallbackBacked, BeforeCall, MarkerStages, PublishPcs
  <2>4. LoopAhead'
    BY <2>1, <2>2, LoopFacts DEF LoopAhead, Ops
  <2>5. AllAgree' /\ OutcomePending'
    BY <2>1, <2>2, LoopFacts, QuietFacts DEF AgreementInv, AllAgree, OutcomePending, Agrees, Outcome
  <2>6. \A i \in Items : i >= idx => disk[op]["json"].rec[i] \notin Outcome
    <3>1. CASE pc = "loop"
      BY <3>1 DEF AgreementInv
    <3>2. CASE pc # "loop"
      <4>1. disk[op]["json"] = Synced(record) /\ record[idx] = "Started"
        BY <2>1, <2>2, <3>2, LoopFacts DEF IInv, Committed, Only, Visible, Possible, Exts
      <4> QED
        BY <2>2, <4>1, LoopFacts, SlotFacts DEF LoopAhead, Outcome
    <3> QED
      BY <3>1, <3>2
  <2>7. AgreementInv'
    BY <2>1, <2>2, <2>5, <2>6, QuietFacts DEF AgreementInv, PublishPcs
  <2>8. ReportInv'
    BY <2>1, <2>2 DEF ReportInv
  <2> QED
    BY <2>2, <2>3, <2>4, <2>7, <2>8, QuietFacts
<1>6. CASE StartItem
  <2>1. /\ idx' = idx /\ called' = called /\ op' = op /\ report' = report /\ stopped' = stopped
        /\ record' = [record EXCEPT ![idx] = "Started"] /\ Begin(FALSE)
        /\ stage' = "marker_create" /\ pc = "loop" /\ pc' = "intent" /\ ~stopped
    BY <1>6 DEF StartItem, Begin, SetItem, loopVars, worldVars
  <2>2. op \in Ops /\ pc \in ActivePcs
    BY <2>1, QuietFacts DEF ActivePcs, Pcs
  <2>3. CallsInOrder' /\ AmbiguityOrder'
    BY <2>1, <2>2, LoopFacts DEF CallsInOrder, AmbiguityOrder, BeforeCall
  <2>4. LoopAhead'
    BY <2>1, <2>2, LoopFacts DEF LoopAhead, Ops
  <2>5. FallbackBacked'
    BY <2>1, <2>2, BeginBacked, QuietFacts DEF FallbackBacked
  <2>6. AllAgree' /\ OutcomePending'
    BY <2>1, <2>2, LoopFacts, QuietFacts DEF AgreementInv, AllAgree, OutcomePending, Agrees, Outcome
  <2>7. \A i \in Items : i >= idx => fallback'[i] \notin Outcome
    BY <2>1, <2>2, BeginBacked, LoopFacts DEF LoopAhead, Outcome
  <2>8. AgreementInv'
    BY <2>1, <2>6, <2>7 DEF AgreementInv, Confirmed
  <2>9. ReportInv'
    BY <2>1 DEF ReportInv
  <2> QED
    BY <2>2, <2>3, <2>4, <2>5, <2>8, <2>9, QuietFacts
<1>7. CASE PublishOutcome
  <2>1. /\ idx' = idx /\ called' = called /\ op' = op /\ report' = report /\ stopped' = stopped
        /\ record' = record /\ Begin(FALSE)
        /\ stage' = "marker_create" /\ pc = "timestamp" /\ pc' = "outcome"
    BY <1>7 DEF PublishOutcome, Begin, loopVars, worldVars
  <2>2. op \in Ops /\ pc \in ActivePcs
    BY <2>1, QuietFacts DEF ActivePcs, Pcs
  <2>3. CallsInOrder' /\ AmbiguityOrder'
    BY <2>1, <2>2 DEF CallsInOrder, AmbiguityOrder, BeforeCall
  <2>4. LoopAhead'
    BY <2>1, <2>2 DEF LoopAhead
  <2>5. FallbackBacked'
    BY <2>1, <2>2, BeginBacked, QuietFacts DEF FallbackBacked
  <2>6. AllAgree' /\ OutcomePending'
    BY <2>1, <2>2, QuietFacts DEF AgreementInv, AllAgree, OutcomePending
  <2>7. \A i \in Items : i >= idx => fallback'[i] \notin Outcome
    BY <2>1, <2>2, BeginBacked DEF AgreementInv
  <2>8. AgreementInv'
    BY <2>1, <2>6, <2>7 DEF AgreementInv, Confirmed
  <2>9. ReportInv'
    BY <2>1 DEF ReportInv
  <2> QED
    BY <2>2, <2>3, <2>4, <2>5, <2>8, <2>9, QuietFacts
<1>8. CASE IntentPublished \/ GuardProceeds \/ NativeCall
  <2>1. /\ idx' = idx /\ stage' = stage /\ op' = op /\ report' = report /\ record' = record
        /\ stopped' = stopped /\ stage = "idle"
        /\ \/ pc = "intent" /\ pc' = "guard" /\ called' = called
           \/ pc = "guard" /\ pc' = "effect" /\ called' = called
           \/ pc = "effect" /\ pc' = "native" /\ called' = [called EXCEPT ![op][idx] = TRUE]
    BY <1>8, LoopFacts DEF IntentPublished, GuardProceeds, NativeCall, storeVars, loopVars, worldVars, PublishPcs
  <2>2. op \in Ops /\ pc \in ActivePcs /\ ~stopped
    BY <2>1, QuietFacts DEF ActivePcs, Pcs, LoopAhead
  <2>3. \A o \in Ops : \A i \in Items : called'[o][i] => called[o][i] \/ (o = op /\ i = idx /\ pc' = "native")
    BY <2>1, <2>2 DEF IInv, TypeOK
  <2>4. CallsInOrder'
    BY <2>1, <2>2, <2>3, LoopFacts DEF CallsInOrder, BeforeCall, Ops
  <2>5. AmbiguityOrder'
    BY <2>1, <2>2, <2>3 DEF AmbiguityOrder, LoopAhead
  <2>6. LoopAhead' /\ FallbackBacked'
    BY <2>1, <2>2 DEF LoopAhead, FallbackBacked, MarkerStages
  <2>7. AgreementInv'
    BY <2>1, <2>2, QuietFacts DEF AgreementInv, AllAgree, OutcomePending, PublishPcs
  <2>8. ReportInv'
    BY <2>1 DEF ReportInv
  <2> QED
    BY <2>2, <2>4, <2>5, <2>6, <2>7, <2>8, QuietFacts
<1>9. CASE \E s \in {"Succeeded", "Failed", "Unknown"} : NativeReturn(s)
  <2>1. PICK s \in {"Succeeded", "Failed", "Unknown"} : NativeReturn(s)
    BY <1>9
  <2>2. /\ idx' = idx /\ stage' = stage /\ op' = op /\ report' = report /\ called' = called
        /\ record' = [record EXCEPT ![idx] = s] /\ pc = "native" /\ pc' = "timestamp"
        /\ s = "Unknown" => stopped'
    BY <2>1 DEF NativeReturn, SetItem, worldVars
  <2>3. op \in Ops /\ pc \in ActivePcs /\ ~stopped
    BY <2>2, QuietFacts DEF ActivePcs, Pcs, LoopAhead
  <2>4. CallsInOrder' /\ FallbackBacked'
    BY <2>2, <2>3, LoopFacts DEF CallsInOrder, BeforeCall, FallbackBacked, MarkerStages, PublishPcs
  <2>5. AmbiguityOrder'
    BY <2>2, <2>3, LoopFacts DEF AmbiguityOrder, CallsInOrder
  <2>6. LoopAhead'
    BY <2>2, <2>3, LoopFacts DEF LoopAhead, Ops
  <2>7. Committed /\ record[idx] = "Started" /\ fallback[idx] = "Started"
    BY <2>2, LoopFacts
  <2>8. AllAgree' /\ OutcomePending'
    <3>1. \A t \in Receipts(op) : t.rec[idx] = "Started"
      BY <2>3, <2>7, CommittedReceipts
    <3>2. AllAgree'
      BY <2>2, <2>3, <3>1, LoopFacts, QuietFacts DEF AgreementInv, AllAgree, Agrees, Outcome
    <3> QED
      BY <2>2, <2>3, <3>2, QuietFacts DEF AgreementInv, OutcomePending
  <2>9. \A i \in Items : i >= idx => disk[op]["json"].rec[i] \notin Outcome
    <3>1. disk[op]["json"] = Synced(record)
      BY <2>3, <2>7 DEF IInv, Committed, Only, Visible, Possible, Exts
    <3> QED
      BY <2>3, <2>7, <3>1, LoopFacts, SlotFacts DEF LoopAhead, Outcome
  <2>10. AgreementInv'
    BY <2>2, <2>3, <2>8, <2>9, QuietFacts DEF AgreementInv, PublishPcs
  <2>11. ReportInv'
    BY <2>2 DEF ReportInv
  <2> QED
    BY <2>3, <2>4, <2>5, <2>6, <2>10, <2>11, QuietFacts
<1>10. CASE OutcomePublished
  <2>1. /\ stage' = stage /\ stage = "idle" /\ result = "ok" /\ op' = op /\ called' = called
        /\ record' = record /\ fallback' = fallback /\ stopped' = stopped /\ pc = "outcome"
        /\ journalError' = journalError
        /\ \/ pc' = "done"
           \/ pc' = "loop" /\ idx' = idx + 1 /\ report' = "none"
    BY <1>10 DEF OutcomePublished, storeVars, worldVars
  <2>2. op \in Ops /\ pc \in ActivePcs /\ Committed /\ disk[op]["json"] = Synced(record)
    <3>1. op \in Ops /\ pc \in ActivePcs /\ Committed
      BY <2>1, QuietFacts DEF ActivePcs, Pcs, IInv, PublishInv, PublishPcs
    <3> QED
      BY <3>1 DEF IInv, Committed, Only, Visible, Possible, Exts
  <2>3. pc' \in ActivePcs => pc' = "loop"
    BY <2>1 DEF ActivePcs, Pcs
  <2>4. CallsInOrder' /\ AmbiguityOrder' /\ FallbackBacked'
    BY <2>1, <2>2, <2>3, LoopFacts DEF CallsInOrder, AmbiguityOrder, FallbackBacked, MarkerStages
  <2>5. LoopAhead'
    BY <2>1, <2>2, <2>3, LoopFacts DEF LoopAhead
  <2>6. AllAgree'
    BY <2>1, <2>2, QuietFacts DEF AgreementInv, AllAgree
  <2>7. pc' = "loop" =>
          /\ \A t \in Receipts(op) : \A i \in Items : i >= idx' => t.rec[i] \notin Outcome
          /\ \A i \in Items : i >= idx' => disk[op]["json"].rec[i] \notin Outcome
    <3>1. pc' = "loop" => \A i \in Items : i >= idx' =>
            record[i] \notin Outcome /\ fallback[i] \notin Outcome
      BY <2>1, <2>2, LoopFacts DEF LoopAhead, AgreementInv, PublishPcs, Outcome
    <3> QED
      BY <2>2, <3>1, CommittedReceipts, SlotFacts
  <2>8. AgreementInv'
    BY <2>1, <2>2, <2>3, <2>6, <2>7, QuietFacts DEF AgreementInv, OutcomePending, PublishPcs
  <2>9. Only(op, "json", Synced(record))'
    BY <2>1, <2>2, QuietFacts DEF Committed, Only
  <2>10. ReportInv'
    BY <2>1, <2>2, <2>6, <2>9 DEF ReportInv
  <2> QED
    BY <2>2, <2>4, <2>5, <2>8, <2>10, QuietFacts
<1>11. CASE IntentUnconfirmed \/ TimestampError \/ OutcomeUnconfirmed
  <2>1. /\ stage' = stage /\ op' = op /\ called' = called /\ pc' = "done" /\ journalError' = TRUE
        /\ pc \in {"intent", "timestamp", "outcome"} /\ stage = "idle"
        /\ \A i \in Items : \/ i < idx /\ record'[i] = record[i]
                            \/ i > idx /\ record'[i] = "Skipped"
                            \/ i = idx /\ record'[i] = record[i]
                            \/ i = idx /\ record'[i] = "Unknown" /\ (pc = "outcome" => ~Confirmed)
                            \/ i = idx /\ record'[i] = "Skipped" /\ pc = "intent"
    BY <1>11, LoopFacts DEF IntentUnconfirmed, TimestampError, OutcomeUnconfirmed,
         StopForJournalError, PublishPcs, Confirmed, worldVars
  <2>2. op \in Ops /\ pc \in ActivePcs /\ pc' \notin ActivePcs /\ pc' \notin PublishPcs
    BY <2>1, QuietFacts DEF ActivePcs, Pcs, PublishPcs
  <2>3. CallsInOrder' /\ LoopAhead' /\ FallbackBacked' /\ AgreementInv'
    BY <2>1, <2>2 DEF CallsInOrder, LoopAhead, FallbackBacked, AgreementInv, MarkerStages, Ops
  <2>4. AmbiguityOrder'
    BY <2>1, <2>2, LoopFacts DEF AmbiguityOrder, CallsInOrder
  <2>5. AllAgree'
    <3> SUFFICES ASSUME NEW t \in Receipts(op), NEW i \in Items
                 PROVE  Agrees(record'[i], t.rec[i])
      BY <2>1, <2>2, QuietFacts DEF AllAgree
    <3>1. CASE record'[i] = record[i]
      BY <2>2, <3>1 DEF AgreementInv, AllAgree
    <3>2. CASE record'[i] # record[i] /\ ~(pc = "outcome" /\ Confirmed)
      BY <2>1, <2>2, <3>2, LoopFacts DEF AgreementInv, OutcomePending, Agrees, Outcome
    <3>3. CASE record'[i] # record[i] /\ pc = "outcome" /\ Confirmed
      <4>1. i > idx /\ record'[i] = "Skipped"
        BY <2>1, <3>3
      <4>2. t.rec \in {record, fallback}
        BY <2>2, <3>3, CommittedReceipts DEF AgreementInv, PublishPcs
      <4> QED
        BY <2>2, <3>3, <4>1, <4>2, LoopFacts DEF AgreementInv, LoopAhead, PublishPcs, Agrees, Outcome
    <3> QED
      BY <3>1, <3>2, <3>3
  <2>6. ReportInv'
    BY <2>1, <2>2, <2>5 DEF ReportInv
  <2> QED
    BY <2>2, <2>3, <2>4, <2>6, QuietFacts
<1> QED
  BY <1>1, <1>2, <1>3, <1>4, <1>5, <1>6, <1>7, <1>8, <1>9, <1>10, <1>11

----------------------------------------------------------------------------
(* The theorems.                                                           *)

LEMMA InitHInv == Init => HInv
<1> SUFFICES ASSUME Init PROVE HInv
  OBVIOUS
<1>1. /\ pc = "closed" /\ stage = "idle" /\ op = 0 /\ record = AllPlanned /\ report = "none"
      /\ \A o \in Ops : \A i \in Items : ~called[o][i]
      /\ \A o \in Ops : \A e \in Exts : disk[o][e] = Absent /\ Possible(o, e) = {Absent}
      /\ "json" \in Exts /\ "pending" \in Exts
  BY DEF Init, StoreInit, Nothing, Possible, Exts
<1>2. CallsInOrder /\ LoopAhead /\ AmbiguityOrder
  BY <1>1 DEF CallsInOrder, LoopAhead, AmbiguityOrder, ActivePcs, Ops
<1>3. MarkersBacked /\ CommitSettled /\ FallbackBacked
  BY <1>1, SlotFacts DEF MarkersBacked, CommitSettled, FallbackBacked, MarkerStages, Only
<1>4. RoomLeft
  <2>1. Live = {}
    BY <1>1 DEF Live
  <2>2. Cardinality(Live) = 0
    BY <2>1, FS_EmptySet
  <2> QED
    BY <1>1, <2>1, <2>2, StoreAssumption DEF RoomLeft, ActivePcs
<1>5. AgreementInv /\ ReportInv
  BY <1>1 DEF AgreementInv, ReportInv, ActivePcs, PublishPcs
<1> QED
  BY <1>2, <1>3, <1>4, <1>5 DEF HInv

LEMMA NextHInv == IInv /\ IInv' /\ HInv /\ [Next]_vars => HInv'
<1> SUFFICES ASSUME IInv, IInv', HInv, [Next]_vars PROVE HInv'
  OBVIOUS
<1>1. CASE OpenStore \/ ReadHistory
  BY <1>1, OpenStoreHInv
<1>2. CASE Crash
  BY <1>2, CrashHInv
<1>3. CASE PowerLoss
  BY <1>3, PowerLossHInv
<1>4. CASE StartOperation
  BY <1>4, StartOperationHInv
<1>5. CASE Publishing
  BY <1>5, PublishingHInv
<1>6. CASE \/ NativeMove \/ IoError \/ RequestStop \/ RefuseOperation \/ CloseStore
           \/ InitialPublished \/ SkipItem \/ StartItem \/ StartItemClockError \/ IntentPublished
           \/ IntentUnconfirmed \/ GuardProceeds \/ GuardRefuses \/ EffectRefused
           \/ NativeCall \/ (\E s \in {"Succeeded", "Failed", "Unknown"} : NativeReturn(s))
           \/ PublishOutcome \/ TimestampError \/ OutcomePublished \/ OutcomeUnconfirmed
           \/ UNCHANGED vars
  <2>1. UNCHANGED <<disks, op>>
    BY <1>6 DEF NativeMove, IoError, PublishError, Finish, RequestStop, RefuseOperation, CloseStore,
         InitialPublished, SkipItem, StartItem, StartItemClockError, IntentPublished,
         IntentUnconfirmed, GuardProceeds, GuardRefuses, EffectRefused, NativeCall,
         NativeReturn, PublishOutcome, TimestampError, OutcomePublished, OutcomeUnconfirmed,
         StopForJournalError, Begin, disks, storeVars, vars
  <2> QED
    BY <1>6, <2>1, LoopStepHInv
<1> QED
  BY <1>1, <1>2, <1>3, <1>4, <1>5, <1>6 DEF Next, BatchStep

\* What is told is consistent with what was done and with what is durable.
THEOREM HistoryInvariance == Spec => [](IInv /\ HInv)
  BY Invariance, InitHInv, NextHInv, PTL DEF Spec

\* execute_with_clean_policy stops at an ambiguity: after an Unknown, however
\* it came about, no later item is handed to the system.
THEOREM AmbiguityStops == Spec => []AmbiguityStopsTheBatch
<1>1. IInv /\ HInv => AmbiguityStopsTheBatch
  <2> SUFFICES ASSUME IInv, HInv, NEW i \in Items, NEW j \in Items,
                      i < j, record[i] = "Unknown"
               PROVE  ~called[op][j]
    BY DEF AmbiguityStopsTheBatch
  <2>1. op # 0
    BY DEF HInv, LoopAhead, AllPlanned
  <2>2. op \in Ops
    BY <2>1, StoreAssumption DEF IInv, TypeOK, StoreTypeOK, Ops
  <2> QED
    BY <2>2 DEF HInv, AmbiguityOrder
<1> QED
  BY HistoryInvariance, <1>1, PTL

\* records() shows an outcome only when no power failure can take it back.
THEOREM ConfirmedIsDurable == Spec => []ConfirmedMeansDurable
<1>1. IInv /\ HInv => ConfirmedMeansDurable
  <2> SUFFICES ASSUME IInv, HInv, NEW o \in Ops, NEW d \in Recoverable(o), EntryReadable(d),
                      NEW i \in Items, Reading(d)[i] \in Outcome, NEW s \in Possible(o, "json")
               PROVE  s.kind = "synced" /\ s.rec[i] = d[Source(d)].rec[i]
    BY DEF ConfirmedMeansDurable
  <2>1. "json" \in Exts /\ "pending" \in Exts
    BY DEF Exts
  <2>2. d[Source(d)].rec[i] \in Outcome
    BY DEF Reading, Reconciled, ReconciledState, Outcome
  <2>3. CASE d["pending"] # Absent
    <3>1. Source(d) = "pending" /\ d["pending"] \in Possible(o, "pending") /\ Readable(d["pending"])
      BY <2>1, <2>3, RecoverableSlot, SlotFacts DEF Source, EntryReadable
    <3> QED
      BY <2>2, <3>1 DEF HInv, MarkersBacked
  <2>4. CASE d["pending"] = Absent
    <3>1. Source(d) = "json" /\ Absent \in Possible(o, "pending")
      BY <2>1, <2>4, RecoverableSlot, SlotFacts DEF Source
    <3>2. d["json"] \in Possible(o, "json") /\ Readable(d["json"])
      BY <2>1, <3>1, RecoverableSlot, SlotFacts DEF EntryReadable
    <3>3. s = d["json"]
      BY <3>1, <3>2 DEF HInv, CommitSettled, Only
    <3> QED
      BY <3>1, <3>2, <3>3 DEF IInv, CommittedSynced, Readable
  <2> QED
    BY <2>3, <2>4
<1> QED
  BY HistoryInvariance, <1>1, PTL

----------------------------------------------------------------------------
(* What records() refuses.                                                 *)

Unsynced(t) == t.kind \in {"torn", "written"}

\* A file is whole, torn or not there; a marker that is not on the drive
\* belongs to a publication that is under way, or that failed before it.
MarkersWritten ==
  /\ \A o \in Ops : \A e \in Exts : \A t \in Possible(o, e) :
       t \in {Absent, Torn} \/ Readable(t)
  /\ \A o \in Ops : \A t \in Possible(o, "pending") : Unsynced(t) =>
       /\ o = op /\ ~ReceiptConfirmed
       /\ disk[o]["pending"] = t
       /\ Only(o, "next", Absent)
  /\ stage \in {"marker_write", "marker_sync"} =>
       \A t \in stale[op]["pending"] : ~Unsynced(t)

LEMMA PublishingMarkers ==
  ASSUME IInv, MarkersWritten, Publishing
  PROVE  MarkersWritten'
<1> USE DEF MarkersWritten
<1>1. /\ stage # "idle" /\ op \in Ops /\ op' = op /\ StoreTypeOK /\ Visible
      /\ record' = record /\ fallback' = fallback
      /\ PublishAdds /\ PublishOrder
      /\ "json" \in Exts /\ "pending" \in Exts /\ "next" \in Exts
  BY PublishDelta DEF IInv, TypeOK, Exts
<1>2. \A o \in Ops : \A e \in Exts : \A t \in Possible(o, e)' :
        t \in {Absent, Torn} \/ Readable(t)
  BY <1>1, SlotFacts DEF PublishAdds
<1>3. \A r : ~Unsynced(Synced(r)) /\ ~Unsynced(Absent)
  BY SlotFacts DEF Unsynced
<1>4. CASE stage \notin MarkerStages
  <2>1. \A t \in Possible(op, "pending") : ~Unsynced(t)
    BY <1>1, <1>3, <1>4 DEF IInv, PublishInv, Committed, Only, Stages, StoreTypeOK, MarkerStages, NextStages
  <2>2. \A o \in Ops : \A t \in Possible(o, "pending")' : ~Unsynced(t)
    BY <1>1, <1>3, <1>4, <2>1 DEF PublishAdds
  <2>3. stage' \notin {"marker_write", "marker_sync"}
    BY <1>1, <1>4 DEF PublishOrder, MarkerStages, NextStages
  <2> QED
    BY <1>2, <2>2, <2>3
<1>5. CASE stage \in MarkerStages
  <2>1. /\ \A o \in Ops : o # op => \A t \in Possible(o, "pending")' : ~Unsynced(t)
        /\ Only(op, "next", Absent)' /\ ~ReceiptConfirmed'
    <3>1. ~ReceiptConfirmed'
      BY <1>1, <1>5 DEF PublishOrder, MarkerStages, NextStages, ReceiptConfirmed
    <3>2. \A o \in Ops : o # op => \A t \in Possible(o, "pending")' : ~Unsynced(t)
      BY <1>1 DEF PublishAdds
    <3>3. stage # "rename" /\ Only(op, "next", Absent)
      BY <1>1, <1>5 DEF IInv, PublishInv, Settled, MarkerStages
    <3>4. \A t \in Possible(op, "next")' : t \in Possible(op, "next")
      <4>1. CASE CreateMarker
        BY <1>1, <4>1, PutFacts DEF CreateMarker, Touches
      <4>2. CASE WriteMarker
        BY <1>1, <4>2, BecomeFacts DEF WriteMarker, Touches
      <4>3. CASE SyncMarker \/ FullSyncMarker
        BY <1>1, <4>3, FullSyncFacts DEF SyncMarker, FullSyncMarker, Touches
      <4>4. CASE FsyncMarkerName
        BY <1>1, <4>4, FsyncFacts DEF FsyncMarkerName
      <4> QED
        BY <1>5, <4>1, <4>2, <4>3, <4>4
           DEF Publishing, PublishStep, MarkerStages, CreateNext, WriteNext, SyncNext, RenameNext,
               FsyncRename, FullSyncFinal, UnlinkMarker, FsyncUnlink
    <3> QED
      BY <3>1, <3>2, <3>3, <3>4 DEF Only
  <2>2. CASE CreateMarker
    <3>1. /\ disk[op]["pending"] = Absent /\ Put("pending", Torn) /\ stale' = stale
      BY <2>2 DEF CreateMarker
    <3>2. \A t \in Possible(op, "pending") : ~Unsynced(t)
      BY <1>1, <1>3, <3>1
    <3>3. /\ disk'[op]["pending"] = Torn
          /\ \A t \in Possible(op, "pending")' : t \in Possible(op, "pending") \/ t = Torn
      BY <1>1, <3>1, PutFacts DEF Touches
    <3>4. \A t \in stale'[op]["pending"] : ~Unsynced(t)
      BY <3>1, <3>2 DEF Possible
    <3> QED
      BY <1>1, <1>2, <2>1, <3>2, <3>3, <3>4
  <2>3. CASE WriteMarker
    <3>1. /\ disk[op]["pending"] = Torn /\ stage = "marker_write"
          /\ Become("pending", Written(fallback)) /\ stale' = stale
      BY <2>3 DEF WriteMarker, IInv, PublishInv
    <3>2. /\ disk'[op]["pending"] = Written(fallback)
          /\ fresh'[op]["pending"] = (fresh[op]["pending"] \ {Torn}) \cup {Written(fallback)}
      BY <1>1, <3>1 DEF Become, StoreTypeOK
    <3>3. \A t \in fresh[op]["pending"] : Unsynced(t) => t = Torn
      BY <1>1, <3>1 DEF Possible
    <3>4. \A t \in stale'[op]["pending"] : ~Unsynced(t)
      BY <1>1, <3>1
    <3>5. \A t \in Possible(op, "pending")' : Unsynced(t) => t = Written(fallback)
      BY <1>1, <3>2, <3>3, <3>4 DEF Possible
    <3> QED
      BY <1>1, <1>2, <2>1, <3>2, <3>4, <3>5
  <2>4. CASE SyncMarker
    <3>1. /\ disk[op]["pending"] = Written(fallback)
          /\ Become("pending", Synced(disk[op]["pending"].rec)) /\ stale' = Nothing
          /\ stage' = "marker_dirsync"
      BY <2>4 DEF SyncMarker, FullSync, Goto, IInv, PublishInv
    <3>2. /\ fresh'[op]["pending"] = (fresh[op]["pending"] \ {Written(fallback)})
                                       \cup {Synced(disk[op]["pending"].rec)}
          /\ stale'[op]["pending"] = {}
      BY <1>1, <3>1 DEF Become, StoreTypeOK, Nothing
    <3>3. \A t \in fresh[op]["pending"] : Unsynced(t) => t = Written(fallback)
      BY <1>1, <3>1 DEF Possible
    <3>4. \A t \in Possible(op, "pending")' : ~Unsynced(t)
      BY <1>1, <1>3, <3>2, <3>3 DEF Possible
    <3> QED
      BY <1>1, <1>2, <2>1, <3>1, <3>4
  <2>5. CASE FsyncMarkerName \/ FullSyncMarker
    <3>1. disk[op]["pending"] = Synced(fallback) /\ stage' \notin {"marker_write", "marker_sync"}
      BY <2>5 DEF FsyncMarkerName, FullSyncMarker, Goto, IInv, PublishInv
    <3>2. \A t \in Possible(op, "pending") : ~Unsynced(t)
      BY <1>1, <1>3, <3>1
    <3>3. CASE FsyncMarkerName
      BY <1>1, <1>2, <2>1, <3>1, <3>2, <3>3, FsyncFacts DEF FsyncMarkerName
    <3>4. CASE FullSyncMarker
      <4>1. Touches("pending", Synced(disk[op]["pending"].rec))
        BY <1>1, <3>4, FullSyncFacts DEF FullSyncMarker
      <4>2. \A t \in Possible(op, "pending")' : ~Unsynced(t)
        BY <1>1, <1>3, <3>2, <4>1 DEF Touches
      <4> QED
        BY <1>1, <1>2, <2>1, <3>1, <4>2
    <3> QED
      BY <2>5, <3>3, <3>4
  <2> QED
    BY <1>5, <2>2, <2>3, <2>4, <2>5
       DEF Publishing, PublishStep, MarkerStages, CreateNext, WriteNext, SyncNext, RenameNext,
           FsyncRename, FullSyncFinal, UnlinkMarker, FsyncUnlink
<1> QED
  BY <1>4, <1>5

\* new_id agrees only when every marker of the store has been removed.
LEMMA NoMarkerLeft ==
  ASSUME MarkersWritten, ~Uncommitted
  PROVE  \A o \in Ops : \A t \in Possible(o, "pending") : ~Unsynced(t)
<1>1. "pending" \in Exts
  BY DEF Exts
<1> QED
  BY <1>1 DEF MarkersWritten, Uncommitted, Known, Exists, Unsynced, Absent

\* Power brings every name back alone; a written marker may come back torn.
LEMMA PowerLossMarkers ==
  ASSUME IInv, MarkersWritten, PowerLoss
  PROVE  MarkersWritten'
<1> USE DEF MarkersWritten
<1>1. PICK d \in [Ops -> UNION {Recoverable(o) : o \in Ops}] :
        /\ \A o \in Ops : d[o] \in Recoverable(o)
        /\ disk' = d
        /\ fresh' = [o \in Ops |-> [e \in Exts |-> {d[o][e]}]]
  BY DEF PowerLoss, PowerFailure
<1>2. \A o \in Ops : \A x \in Exts :
        d[o][x] \in Possible(o, x)
          \/ (d[o][x] = Torn /\ \E t \in Possible(o, x) : t.kind = "written")
  BY <1>1, RecoverableSlot
<1>3. \A o \in Ops : \A x \in Exts : disk'[o][x] = d[o][x] /\ Possible(o, x)' = {d[o][x]}
  BY <1>1 DEF PowerLoss, PowerFailure, Possible, Nothing
<1>4. op' = op /\ stage' = "idle" /\ ~ReceiptConfirmed' /\ "pending" \in Exts /\ "next" \in Exts
  BY DEF PowerLoss, PowerFailure, ReceiptConfirmed, Exts
<1>5. ASSUME NEW o \in Ops, Unsynced(d[o]["pending"])
      PROVE  o = op /\ d[o]["next"] = Absent
  <2>1. \E t \in Possible(o, "pending") : Unsynced(t)
    BY <1>2, <1>4, <1>5 DEF Unsynced
  <2>2. o = op /\ Only(o, "next", Absent)
    BY <2>1
  <2> QED
    BY <1>2, <1>4, <2>2, SlotFacts DEF Only
<1>6. \A o \in Ops : \A t \in Possible(o, "pending")' : Unsynced(t) =>
        o = op /\ disk'[o]["pending"] = t /\ Only(o, "next", Absent)'
  BY <1>3, <1>4, <1>5 DEF Only
<1>7. \A o \in Ops : \A e \in Exts : \A t \in Possible(o, e)' : t \in {Absent, Torn} \/ Readable(t)
  BY <1>2, <1>3
<1> QED
  BY <1>4, <1>6, <1>7

\* A step that leaves the names, and does not confirm a receipt over a marker
\* that is still being written.
LEMMA QuietMarkers ==
  ASSUME MarkersWritten, SameNames, op' = op,
         \/ stage' = stage /\ stale' = stale
         \/ stage' \notin {"marker_write", "marker_sync"},
         \/ ReceiptConfirmed' => ReceiptConfirmed
         \/ \A t \in Possible(op, "pending") : ~Unsynced(t)
  PROVE  MarkersWritten'
<1>1. "pending" \in Exts /\ "next" \in Exts
  BY DEF Exts
<1>2. \A o \in Ops : /\ Possible(o, "pending")' = Possible(o, "pending")
                     /\ disk'[o]["pending"] = disk[o]["pending"]
                     /\ Only(o, "next", Absent) => Only(o, "next", Absent)'
  BY <1>1 DEF SameNames, Only
<1>3. \A o \in Ops : \A e \in Exts : \A t \in Possible(o, e)' : t \in {Absent, Torn} \/ Readable(t)
  BY DEF SameNames, MarkersWritten
<1>4. \A o \in Ops : \A t \in Possible(o, "pending")' : Unsynced(t) =>
        o = op /\ ~ReceiptConfirmed' /\ disk'[o]["pending"] = t /\ Only(o, "next", Absent)'
  BY <1>2 DEF MarkersWritten
<1>5. stage' \in {"marker_write", "marker_sync"} => \A t \in stale'[op]["pending"] : ~Unsynced(t)
  BY DEF MarkersWritten
<1> QED
  BY <1>3, <1>4, <1>5 DEF MarkersWritten

LEMMA NextMarkers == IInv /\ MarkersWritten /\ [Next]_vars => MarkersWritten'
<1> SUFFICES ASSUME IInv, MarkersWritten, [Next]_vars PROVE MarkersWritten'
  OBVIOUS
<1>1. CASE Publishing
  BY <1>1, PublishingMarkers
<1>2. CASE PowerLoss
  BY <1>2, PowerLossMarkers
<1>3. CASE OpenStore \/ ReadHistory
  <2>1. SameNames
    BY <1>3, FsyncFacts DEF SameNames, OpenStore, ReadHistory, IInv, TypeOK
  <2>2. op' = op /\ stage' = stage /\ result' = result /\ pc = "closed"
    BY <1>3 DEF OpenStore, ReadHistory, Locked
  <2>3. stage = "idle"
    BY <2>2 DEF IInv, PublishInv, PublishPcs
  <2> QED
    BY <2>1, <2>2, <2>3, QuietMarkers DEF ReceiptConfirmed
<1>4. CASE StartOperation
  <2>1. /\ UNCHANGED disks /\ ~Uncommitted /\ stage' = "marker_create"
    BY <1>4 DEF StartOperation, NewIdOk, Begin
  <2>2. SameNames /\ "pending" \in Exts
    BY <2>1, SameDisksNames DEF Exts
  <2>3. \A o \in Ops : \A t \in Possible(o, "pending")' : ~Unsynced(t)
    BY <2>1, <2>2, NoMarkerLeft DEF SameNames
  <2>4. \A o \in Ops : \A e \in Exts : \A t \in Possible(o, e)' : t \in {Absent, Torn} \/ Readable(t)
    BY <2>2 DEF SameNames, MarkersWritten
  <2> QED
    BY <2>1, <2>3, <2>4 DEF MarkersWritten
<1>5. CASE IoError
  <2>1. /\ stage # "idle" /\ stage' = "idle" /\ op' = op /\ UNCHANGED disks
        /\ result' = IF stage \in {"unlink", "unlink_dirsync"} THEN "cleanup_error" ELSE "err"
    BY <1>5 DEF IoError, PublishError, Finish
  <2>2. stage \in {"unlink", "unlink_dirsync"} => \A t \in Possible(op, "pending") : ~Unsynced(t)
    BY SlotFacts DEF IInv, PublishInv, Committed, Unsynced
  <2> QED
    BY <2>1, <2>2, SameDisksNames, QuietMarkers DEF ReceiptConfirmed
<1>6. CASE \/ NativeMove \/ Crash \/ RequestStop \/ RefuseOperation \/ CloseStore \/ InitialPublished
           \/ SkipItem \/ StartItem \/ StartItemClockError \/ IntentPublished
           \/ IntentUnconfirmed \/ GuardProceeds \/ GuardRefuses \/ EffectRefused
           \/ NativeCall \/ (\E s \in {"Succeeded", "Failed", "Unknown"} : NativeReturn(s))
           \/ PublishOutcome \/ TimestampError \/ OutcomePublished \/ OutcomeUnconfirmed
           \/ UNCHANGED vars
  <2>1. /\ UNCHANGED disks /\ op' = op
        /\ \/ stage' = stage /\ result' = result
           \/ stage' = "idle" /\ result' = "none"
           \/ stage' = "marker_create"
    BY <1>6 DEF NativeMove, Crash, ProcessExit, RequestStop, RefuseOperation, CloseStore,
         InitialPublished, SkipItem, StartItem, StartItemClockError, IntentPublished,
         IntentUnconfirmed, GuardProceeds, GuardRefuses, EffectRefused, NativeCall,
         NativeReturn, PublishOutcome, TimestampError, OutcomePublished, OutcomeUnconfirmed,
         StopForJournalError, Begin, disks, storeVars, vars
  <2>2. stale' = stale
    BY <2>1 DEF disks
  <2> QED
    BY <2>1, <2>2, SameDisksNames, QuietMarkers DEF ReceiptConfirmed
<1> QED
  BY <1>1, <1>2, <1>3, <1>4, <1>5, <1>6 DEF Next, BatchStep

LEMMA InitMarkers == Init => MarkersWritten
<1> SUFFICES ASSUME Init PROVE MarkersWritten
  OBVIOUS
<1>1. \A o \in Ops : \A e \in Exts : \A t \in Possible(o, e) : t = Absent
  BY DEF Init, StoreInit, Nothing, Possible
<1>2. stage = "idle" /\ "pending" \in Exts /\ ~Unsynced(Absent)
  BY SlotFacts DEF Init, StoreInit, Exts, Unsynced
<1> QED
  BY <1>1, <1>2 DEF MarkersWritten

\* records() refuses the store, after whatever death, failing call or power
\* failure, for one reason only: the marker of the last operation was being
\* written when its publication ended unconfirmed.  A committed receipt is
\* never torn, no stage is orphaned and the limit of records is kept.
THEOREM OnlyATornMarker == Spec => []OnlyATornMarkerRefuses
<1>1. IInv /\ HInv => WithinRecordLimit
  <2> SUFFICES ASSUME IInv, HInv PROVE WithinRecordLimit
    OBVIOUS
  <2> DEFINE Found == {o \in Ops : \E d \in Recoverable(o) : Exists(d)}
  <2>1. Found \subseteq Live
    BY RecoverableSlot, SlotFacts DEF Live, Exists, Absent
  <2>2. IsFiniteSet(Found) /\ Cardinality(Found) <= Cardinality(Live)
    BY <2>1, LiveFinite, FS_Subset
  <2>3. Cardinality(Found) \in Nat /\ Cardinality(Live) \in Nat
    BY <2>2, LiveFinite, FS_CardinalityType
  <2>4. Cardinality(Found) <= MaxRecords
    BY <2>2, <2>3, StoreAssumption DEF HInv, RoomLeft
  <2> QED
    BY <2>4 DEF WithinRecordLimit
<1>2. IInv /\ MarkersWritten /\ NoOrphanStage /\ CommittedNeverTorn /\ WithinRecordLimit
        => OnlyATornMarkerRefuses
  <2> SUFFICES ASSUME IInv, MarkersWritten, NoOrphanStage,
                      NEW o \in Ops, NEW d \in Recoverable(o), Exists(d), ~EntryReadable(d)
               PROVE  o = op /\ ~ReceiptConfirmed /\ d["pending"] = Torn /\ d["next"] = Absent
    BY DEF OnlyATornMarkerRefuses
  <2>1. "json" \in Exts /\ "pending" \in Exts /\ "next" \in Exts
    BY DEF Exts
  <2>2. \A e \in Exts : d[e] \in {Absent, Torn} \/ Readable(d[e])
    BY RecoverableSlot DEF MarkersWritten
  <2>3. /\ d["json"] \in Possible(o, "json")
        /\ d["json"].kind \in {"absent", "synced"} /\ d["json"] # Torn
    BY <2>1, RecoverableSlot DEF IInv, CommittedSynced, Torn
  <2>4. d["pending"] # Absent
    BY <2>1, <2>2, <2>3 DEF NoOrphanStage, Exists, EntryReadable, Source, Exts
  <2>5. d["pending"] = Torn
    BY <2>1, <2>2, <2>4 DEF EntryReadable, Source
  <2>6. \E t \in Possible(o, "pending") : Unsynced(t)
    BY <2>1, <2>5, RecoverableSlot DEF Unsynced, Torn
  <2>7. o = op /\ ~ReceiptConfirmed /\ Only(o, "next", Absent)
    BY <2>6 DEF MarkersWritten
  <2>8. d["next"] = Absent
    BY <2>1, <2>7, RecoverableSlot, SlotFacts DEF Only
  <2> QED
    BY <2>5, <2>7, <2>8
<1>3. Spec => []MarkersWritten
  BY Invariance, InitMarkers, NextMarkers, PTL DEF Spec
<1> QED
  BY HistoryInvariance, StagesAreGuarded, CommittedIsWhole, <1>1, <1>2, <1>3, PTL

----------------------------------------------------------------------------
(* The report and the history.                                             *)

\* The report that execute returns and the history read after any later
\* failure never contradict each other, and a report without a journal error
\* is final.
THEOREM ReportAgrees == Spec => []ReportAgreesWithHistory
<1>1. IInv /\ HInv => ReportAgreesWithHistory
  <2> SUFFICES ASSUME IInv, HInv, report = "report" PROVE ReportAgreesWithHistory
    BY DEF ReportAgreesWithHistory
  <2>1. op \in Ops /\ AllAgree /\ (~journalError => Only(op, "json", Synced(record)))
    BY DEF HInv, ReportInv
  <2>2. Truthful(op, record)
    BY <2>1 DEF IInv, MemoryTruthful
  <2>3. ASSUME NEW d \in Recoverable(op), EntryReadable(d), NEW i \in Items
        PROVE  /\ Reading(d)[i] \in Outcome => record[i] = Reading(d)[i]
               /\ record[i] \in Outcome => Reading(d)[i] \in {record[i], "Unknown"}
    <3>1. "json" \in Exts /\ "pending" \in Exts
      BY DEF Exts
    <3>2. d[Source(d)] \in Receipts(op)
      <4>1. Readable(d[Source(d)])
        BY <2>3 DEF EntryReadable
      <4>2. CASE d["pending"] # Absent
        BY <2>1, <3>1, <4>1, <4>2, RecoverableSlot, SlotFacts DEF Source, Receipts
      <4>3. CASE d["pending"] = Absent
        BY <2>1, <3>1, <4>1, <4>3, RecoverableSlot, SlotFacts DEF Source, Receipts
      <4> QED
        BY <4>2, <4>3
    <3>3. Agrees(record[i], d[Source(d)].rec[i])
      BY <2>1, <3>2 DEF AllAgree
    <3> QED
      BY <3>3 DEF Agrees, Reading, Reconciled, ReconciledState, Outcome
  <2> QED
    BY <2>1, <2>2, <2>3 DEF ReportAgreesWithHistory, Only
<1> QED
  BY HistoryInvariance, <1>1, PTL

----------------------------------------------------------------------------
(* The history readers, against the calls.                                 *)

\* rec tells an item that was handed to the system from one that was not.
KnowsCalls(o, rec) ==
  \A i \in Items :
    /\ rec[i] \in {"Planned", "Skipped"} => ~called[o][i]
    /\ rec[i] \in Outcome => called[o][i]

\* Every receipt and the record in memory do, and only calls move items.
CallsKnown ==
  /\ \A o \in Ops : \A i \in Items : moved[o][i] => called[o][i]
  /\ \A o \in Ops : \A e \in Exts : \A s \in Possible(o, e) : Readable(s) => KnowsCalls(o, s.rec)
  /\ pc \in ActivePcs => KnowsCalls(op, record)
  /\ pc = "native" => called[op][idx]

\* What readers were told stays true; of the batch being executed and of
\* later ones they were told nothing.
SeenTrue ==
  \A o \in Ops :
    /\ o > op \/ (o = op /\ pc \in ActivePcs) => seen[o] = AllPlanned
    /\ \A i \in Items :
         /\ seen[o][i] # "Started"
         /\ seen[o][i] = "Skipped" => ~called[o][i]
         /\ seen[o][i] \in Outcome => called[o][i]
         /\ seen[o][i] = "Succeeded" => moved[o][i]
         /\ seen[o][i] = "Failed" => ~moved[o][i]

LInv == CallsKnown /\ SeenTrue

----------------------------------------------------------------------------
(* What the history says of the calls is right.                            *)

\* publish_with writes nothing but the record and its marker.
LEMMA PublishingLInv ==
  ASSUME IInv, LInv, Publishing
  PROVE  LInv'
<1>1. /\ stage # "idle" /\ op \in Ops /\ pc \in ActivePcs
      /\ op' = op /\ record' = record /\ UNCHANGED execVars /\ PublishAdds
  BY PublishDelta DEF PublishPcs, ActivePcs, Pcs
<1>2. pc' = pc /\ idx' = idx /\ called' = called /\ moved' = moved /\ seen' = seen
  BY <1>1 DEF execVars, loopVars, worldVars
<1>3. KnowsCalls(op, record) /\ KnowsCalls(op, fallback)
  BY <1>1 DEF LInv, CallsKnown, KnowsCalls, IInv, FallbackWeaker, Outcome
<1>4. ASSUME NEW o \in Ops, NEW e \in Exts, NEW s \in Possible(o, e)', Readable(s)
      PROVE  KnowsCalls(o, s.rec)
  BY <1>1, <1>3, <1>4, SlotFacts DEF PublishAdds, LInv, CallsKnown
<1>5. CallsKnown'
  BY <1>1, <1>2, <1>4 DEF LInv, CallsKnown, KnowsCalls
<1>6. SeenTrue'
  BY <1>1, <1>2 DEF LInv, SeenTrue
<1> QED
  BY <1>5, <1>6 DEF LInv

\* A reader is told what a receipt says, once every receipt can be read.
LEMMA ReadingTrue ==
  ASSUME IInv, LInv, RecordsOk, NEW o \in Ops, Exists(disk[o]), NEW i \in Items
  PROVE  /\ Reading(disk[o])[i] \in {"Skipped", "Succeeded", "Failed", "Unknown"}
         /\ Reading(disk[o])[i] = "Skipped" => ~called[o][i]
         /\ Reading(disk[o])[i] \in Outcome => called[o][i]
         /\ Reading(disk[o])[i] = "Succeeded" => moved[o][i]
         /\ Reading(disk[o])[i] = "Failed" => ~moved[o][i]
<1> DEFINE s == disk[o][Source(disk[o])]
<1>1. Source(disk[o]) \in Exts /\ Readable(s)
  BY DEF Source, Exts, RecordsOk, Known, EntryReadable
<1>2. s \in Possible(o, Source(disk[o])) /\ s.rec \in Record
  BY <1>1 DEF IInv, Visible, Possible, TypeOK, StoreTypeOK, Slots
<1>3. Truthful(o, s.rec) /\ KnowsCalls(o, s.rec)
  BY <1>1, <1>2 DEF IInv, SlotsTruthful, LInv, CallsKnown
<1>4. s.rec[i] \in ItemState /\ Reading(disk[o])[i] = ReconciledState(s.rec[i])
  BY <1>2 DEF Record, Reading, Reconciled
<1> QED
  BY <1>3, <1>4 DEF Truthful, KnowsCalls, ReconciledState, ItemState, Outcome

LEMMA ReadHistoryLInv ==
  ASSUME IInv, LInv, ReadHistory \/ OpenStore
  PROVE  LInv'
<1>1. /\ pc = "closed" /\ pc' \in {"closed", "open"} /\ op' = op /\ called' = called /\ moved' = moved
  BY DEF ReadHistory, OpenStore, Locked, worldVars
<1>2. \A o \in Ops : \A x \in Exts : Possible(o, x)' = Possible(o, x)
  BY FsyncFacts DEF ReadHistory, OpenStore, IInv, TypeOK
<1>3. CallsKnown'
  BY <1>1, <1>2 DEF LInv, CallsKnown, KnowsCalls, ActivePcs
<1>4. SeenTrue'
  <2> SUFFICES ASSUME NEW o \in Ops
               PROVE  /\ o > op => seen'[o] = AllPlanned
                      /\ \A i \in Items :
                           /\ seen'[o][i] # "Started"
                           /\ seen'[o][i] = "Skipped" => ~called[o][i]
                           /\ seen'[o][i] \in Outcome => called[o][i]
                           /\ seen'[o][i] = "Succeeded" => moved[o][i]
                           /\ seen'[o][i] = "Failed" => ~moved[o][i]
    BY <1>1 DEF SeenTrue, ActivePcs
  <2>1. seen'[o] = seen[o] \/ (RecordsOk /\ Exists(disk[o]) /\ seen'[o] = Reading(disk[o]))
    BY DEF ReadHistory, OpenStore
  <2>2. o > op => ~Exists(disk[o])
    BY DEF IInv, Untouched, Only, Visible, Possible, Exists
  <2>3. CASE seen'[o] = seen[o]
    BY <2>3 DEF LInv, SeenTrue
  <2>4. CASE RecordsOk /\ Exists(disk[o]) /\ seen'[o] = Reading(disk[o])
    BY <2>2, <2>4, ReadingTrue DEF Outcome
  <2> QED
    BY <2>1, <2>3, <2>4
<1> QED
  BY <1>3, <1>4 DEF LInv

LEMMA FailureLInv ==
  ASSUME IInv, LInv, Crash \/ PowerLoss
  PROVE  LInv'
<1>1. /\ pc' = "closed" /\ op' = op /\ called' = called /\ moved' = moved /\ seen' = seen
  BY DEF Crash, PowerLoss, ProcessExit, PowerFailure, Die, worldVars
<1>2. ASSUME NEW o \in Ops, NEW e \in Exts, NEW s \in Possible(o, e)', Readable(s)
      PROVE  s \in Possible(o, e)
  <2>1. CASE Crash
    BY <1>2, <2>1, SameDisks DEF Crash, ProcessExit, disks
  <2>2. CASE PowerLoss
    <3>1. PICK d \in [Ops -> UNION {Recoverable(x) : x \in Ops}] :
            /\ \A x \in Ops : d[x] \in Recoverable(x)
            /\ fresh' = [x \in Ops |-> [y \in Exts |-> {d[x][y]}]]
      BY <2>2 DEF PowerLoss, PowerFailure
    <3>2. s = d[o][e]
      BY <1>2, <2>2, <3>1 DEF PowerLoss, PowerFailure, Possible, Nothing
    <3> QED
      BY <1>2, <3>1, <3>2, RecoverableSlot, SlotFacts
  <2> QED
    BY <2>1, <2>2
<1>3. CallsKnown'
  BY <1>1, <1>2 DEF LInv, CallsKnown, KnowsCalls, ActivePcs
<1>4. SeenTrue'
  BY <1>1 DEF LInv, SeenTrue, ActivePcs
<1> QED
  BY <1>3, <1>4 DEF LInv

LEMMA StartOperationLInv ==
  ASSUME IInv, HInv, LInv, StartOperation
  PROVE  LInv'
<1>1. /\ UNCHANGED disks /\ op' = op + 1 /\ op' \in Ops /\ op \in Int /\ called' = called
      /\ moved' = moved /\ seen' = seen /\ record' = AllPlanned /\ pc' = "initial"
  BY StoreAssumption DEF StartOperation, Begin, worldVars, IInv, TypeOK, StoreTypeOK, PublishInv, Ops
<1>2. \A o \in Ops : \A x \in Exts : Possible(o, x)' = Possible(o, x)
  BY <1>1, SameDisks
<1>3. CallsKnown'
  BY <1>1, <1>2 DEF LInv, CallsKnown, KnowsCalls, HInv, CallsInOrder, AllPlanned, Outcome
<1>4. SeenTrue'
  BY <1>1 DEF LInv, SeenTrue, Ops
<1> QED
  BY <1>3, <1>4 DEF LInv

\* The steps of the batch: a call or a move concerns the item whose receipts
\* all say Started; a record changes in memory as the call has it.
LEMMA LoopStepLInv ==
  ASSUME IInv, IInv', HInv, LInv, UNCHANGED <<disks, op>>,
         \/ NativeMove \/ IoError \/ RequestStop \/ RefuseOperation \/ CloseStore
         \/ InitialPublished \/ SkipItem \/ StartItem \/ StartItemClockError \/ IntentPublished
         \/ IntentUnconfirmed \/ GuardProceeds \/ GuardRefuses \/ EffectRefused
         \/ NativeCall \/ (\E s \in {"Succeeded", "Failed", "Unknown"} : NativeReturn(s))
         \/ PublishOutcome \/ TimestampError \/ OutcomePublished \/ OutcomeUnconfirmed
         \/ UNCHANGED vars
  PROVE  LInv'
<1>1. /\ op' = op
      /\ \A o \in Ops : \A x \in Exts : Possible(o, x)' = Possible(o, x)
      /\ pc \in ActivePcs => op \in Ops
  BY SameDisks DEF IInv, PublishInv
<1>2. CASE NativeMove
  <2>1. /\ pc = "native" /\ pc' = pc /\ idx' = idx /\ record' = record /\ called' = called
        /\ seen' = seen /\ moved' = [moved EXCEPT ![op][idx] = TRUE] /\ op \in Ops /\ pc \in ActivePcs
    BY <1>1, <1>2 DEF NativeMove, storeVars, loopVars, ActivePcs, Pcs
  <2>2. \A o \in Ops : \A i \in Items : moved'[o][i] <=> (moved[o][i] \/ (o = op /\ i = idx))
    BY <2>1 DEF IInv, TypeOK
  <2>3. CallsKnown'
    BY <1>1, <2>1, <2>2 DEF LInv, CallsKnown, KnowsCalls
  <2>4. SeenTrue'
    BY <1>1, <2>1, <2>2 DEF LInv, SeenTrue, AllPlanned, Outcome
  <2> QED
    BY <2>3, <2>4 DEF LInv
<1>3. CASE NativeCall
  <2>1. /\ pc = "effect" /\ pc' = "native" /\ idx' = idx /\ record' = record /\ moved' = moved
        /\ seen' = seen /\ called' = [called EXCEPT ![op][idx] = TRUE] /\ op \in Ops
        /\ pc \in ActivePcs /\ idx \in Items
    BY <1>1, <1>3 DEF NativeCall, storeVars, loopVars, ActivePcs, Pcs, IInv, TypeOK
  <2>2. \A o \in Ops : \A i \in Items : called'[o][i] <=> (called[o][i] \/ (o = op /\ i = idx))
    BY <2>1 DEF IInv, TypeOK
  <2>3. Committed /\ record[idx] = "Started" /\ fallback[idx] = "Started"
    BY <2>1, LoopFacts
  <2>4. ASSUME NEW o \in Ops, NEW e \in Exts, NEW s \in Possible(o, e), Readable(s)
        PROVE  KnowsCalls(o, s.rec)'
    <3>1. KnowsCalls(o, s.rec)
      BY <2>4 DEF LInv, CallsKnown
    <3>2. o = op => s.rec[idx] = "Started"
      BY <2>3, <2>4, SlotFacts DEF Committed, Only, Exts
    <3> QED
      BY <2>2, <3>1, <3>2 DEF KnowsCalls, Outcome
  <2>5. CallsKnown'
    BY <1>1, <2>1, <2>2, <2>3, <2>4 DEF LInv, CallsKnown, KnowsCalls, Outcome
  <2>6. SeenTrue'
    BY <1>1, <2>1, <2>2 DEF LInv, SeenTrue, AllPlanned, Outcome, ActivePcs, Pcs
  <2> QED
    BY <2>5, <2>6 DEF LInv
<1>4. CASE \/ SkipItem \/ StartItem \/ GuardRefuses \/ EffectRefused
           \/ \E s \in {"Succeeded", "Failed", "Unknown"} : NativeReturn(s)
  <2>1. PICK s \in {"Skipped", "Started", "Succeeded", "Failed", "Unknown"} :
          /\ record' = [record EXCEPT ![idx] = s]
          /\ pc \in {"loop", "guard", "effect", "native"}
          /\ s \in Outcome => pc = "native"
          /\ s = "Skipped" => pc \in BeforeCall
    BY <1>4 DEF SkipItem, StartItem, GuardRefuses, EffectRefused, NativeReturn, SetItem, BeforeCall, Outcome
  <2>2. /\ moved' = moved /\ called' = called /\ seen' = seen /\ idx' = idx
        /\ pc' \in {"timestamp", "intent"} /\ pc \in ActivePcs /\ pc' \in ActivePcs /\ op \in Ops
    BY <1>1, <1>4, <2>1 DEF SkipItem, StartItem, GuardRefuses, EffectRefused, NativeReturn,
         loopVars, worldVars, ActivePcs, Pcs
  <2>3. KnowsCalls(op, record)'
    BY <1>1, <2>1, <2>2, LoopFacts DEF KnowsCalls, LInv, CallsKnown, HInv, CallsInOrder, Outcome
  <2>4. CallsKnown'
    BY <1>1, <2>2, <2>3 DEF LInv, CallsKnown, KnowsCalls
  <2>5. SeenTrue'
    BY <1>1, <2>2 DEF LInv, SeenTrue
  <2> QED
    BY <2>4, <2>5 DEF LInv
<1>5. CASE \/ IoError \/ RequestStop \/ RefuseOperation \/ CloseStore \/ InitialPublished
           \/ StartItemClockError \/ IntentPublished \/ IntentUnconfirmed \/ GuardProceeds
           \/ PublishOutcome \/ TimestampError \/ OutcomePublished \/ OutcomeUnconfirmed
           \/ UNCHANGED vars
  <2>1. moved' = moved /\ called' = called /\ seen' = seen
    BY <1>5 DEF IoError, RequestStop, RefuseOperation, CloseStore, InitialPublished,
         StartItemClockError, IntentPublished, IntentUnconfirmed, GuardProceeds,
         PublishOutcome, TimestampError, OutcomePublished, OutcomeUnconfirmed,
         StopForJournalError, worldVars, vars, execVars
  <2>2. /\ pc' \in ActivePcs => pc \in ActivePcs /\ record' = record
        /\ pc' = "native" => pc = "native" /\ idx' = idx
    BY <1>5 DEF IoError, PublishError, Finish, RequestStop, RefuseOperation, CloseStore,
         InitialPublished, StartItemClockError, IntentPublished, IntentUnconfirmed, GuardProceeds,
         PublishOutcome, TimestampError, OutcomePublished, OutcomeUnconfirmed,
         StopForJournalError, vars, execVars, storeVars, loopVars, ActivePcs, Pcs
  <2>3. CallsKnown'
    BY <1>1, <2>1, <2>2 DEF LInv, CallsKnown, KnowsCalls
  <2>4. SeenTrue'
    BY <1>1, <2>1, <2>2 DEF LInv, SeenTrue
  <2> QED
    BY <2>3, <2>4 DEF LInv
<1> QED
  BY <1>2, <1>3, <1>4, <1>5

LEMMA InitLInv == Init => LInv
<1> SUFFICES ASSUME Init PROVE LInv
  OBVIOUS
<1>1. /\ pc = "closed" /\ op = 0
      /\ \A o \in Ops : seen[o] = AllPlanned
      /\ \A o \in Ops : \A i \in Items : ~called[o][i] /\ ~moved[o][i]
      /\ \A o \in Ops : \A e \in Exts : Possible(o, e) = {Absent}
  BY DEF Init, StoreInit, Nothing, Possible
<1>2. CallsKnown
  BY <1>1, SlotFacts DEF CallsKnown, ActivePcs
<1>3. SeenTrue
  BY <1>1 DEF SeenTrue, AllPlanned, Outcome
<1> QED
  BY <1>2, <1>3 DEF LInv

LEMMA NextLInv == IInv /\ IInv' /\ HInv /\ LInv /\ [Next]_vars => LInv'
<1> SUFFICES ASSUME IInv, IInv', HInv, LInv, [Next]_vars PROVE LInv'
  OBVIOUS
<1>1. CASE OpenStore \/ ReadHistory
  BY <1>1, ReadHistoryLInv
<1>2. CASE Crash \/ PowerLoss
  BY <1>2, FailureLInv
<1>3. CASE StartOperation
  BY <1>3, StartOperationLInv
<1>4. CASE Publishing
  BY <1>4, PublishingLInv
<1>5. CASE \/ NativeMove \/ IoError \/ RequestStop \/ RefuseOperation \/ CloseStore
           \/ InitialPublished \/ SkipItem \/ StartItem \/ StartItemClockError \/ IntentPublished
           \/ IntentUnconfirmed \/ GuardProceeds \/ GuardRefuses \/ EffectRefused
           \/ NativeCall \/ (\E s \in {"Succeeded", "Failed", "Unknown"} : NativeReturn(s))
           \/ PublishOutcome \/ TimestampError \/ OutcomePublished \/ OutcomeUnconfirmed
           \/ UNCHANGED vars
  <2>1. UNCHANGED <<disks, op>>
    BY <1>5 DEF NativeMove, IoError, PublishError, Finish, RequestStop, RefuseOperation, CloseStore,
         InitialPublished, SkipItem, StartItem, StartItemClockError, IntentPublished,
         IntentUnconfirmed, GuardProceeds, GuardRefuses, EffectRefused, NativeCall,
         NativeReturn, PublishOutcome, TimestampError, OutcomePublished, OutcomeUnconfirmed,
         StopForJournalError, Begin, disks, storeVars, vars
  <2> QED
    BY <1>5, <2>1, LoopStepLInv
<1> QED
  BY <1>1, <1>2, <1>3, <1>4, <1>5 DEF Next, BatchStep

\* Receipts, the record in memory and what readers were told know which items
\* were handed to the system.
THEOREM LedgerInvariance == Spec => [](IInv /\ HInv /\ LInv)
  BY HistoryInvariance, InitLInv, NextLInv, PTL DEF Spec

----------------------------------------------------------------------------
(* Every step is a step of the ledger, or none.                            *)

\* A step that neither enters nor leaves a native call, moves nothing and
\* tells nothing.
LEMMA LedgerStutters ==
  ASSUME called' = called, moved' = moved, seen' = seen,
         \/ pc # "native" /\ pc' # "native"
         \/ pc' = pc /\ op' = op /\ idx' = idx
  PROVE  UNCHANGED Ledger!vars
<1>1. \A o \in Ops : \A i \in Items : PhaseOf(o, i)' = PhaseOf(o, i)
  BY DEF PhaseOf
<1>2. [o \in Ops |-> [i \in Items |-> PhaseOf(o, i)]]' = [o \in Ops |-> [i \in Items |-> PhaseOf(o, i)]]
  BY <1>1
<1> QED
  BY <1>2 DEF Ledger!vars

\* Outside of a native call no item is with the system.
LEMMA NothingInFlight ==
  ASSUME pc # "native"
  PROVE  Ledger!InFlight = {}
<1>1. \A o \in Ops : \A i \in Items : PhaseOf(o, i) # "called"
  BY DEF PhaseOf
<1> QED
  BY <1>1 DEF Ledger!InFlight

LEMMA NativeCallLedger ==
  ASSUME IInv, HInv, NativeCall
  PROVE  Ledger!Call(op, idx)
<1>1. /\ pc = "effect" /\ pc' = "native" /\ op' = op /\ idx' = idx /\ moved' = moved /\ seen' = seen
      /\ called' = [called EXCEPT ![op][idx] = TRUE] /\ op \in Ops /\ idx \in Items
  BY DEF NativeCall, storeVars, loopVars, IInv, TypeOK, PublishInv, ActivePcs, Pcs
<1>2. /\ ~called[op][idx]
      /\ \A o \in Ops : \A i \in Items : o > op \/ (o = op /\ i > idx) => ~called[o][i]
  BY <1>1 DEF HInv, CallsInOrder, ActivePcs, Pcs, BeforeCall
<1>3. /\ PhaseOf(op, idx) = "untouched"
      /\ \A o \in Ops : \A i \in Items : o > op \/ (o = op /\ i > idx) => PhaseOf(o, i) = "untouched"
  BY <1>1, <1>2 DEF PhaseOf
<1>4. \A o \in Ops : \A i \in Items :
        PhaseOf(o, i)' = IF o = op /\ i = idx THEN "called" ELSE PhaseOf(o, i)
  <2> SUFFICES ASSUME NEW o \in Ops, NEW i \in Items
               PROVE  PhaseOf(o, i)' = IF o = op /\ i = idx THEN "called" ELSE PhaseOf(o, i)
    OBVIOUS
  <2>1. called'[o][i] = IF o = op /\ i = idx THEN TRUE ELSE called[o][i]
    BY <1>1 DEF IInv, TypeOK
  <2> QED
    BY <1>1, <2>1 DEF PhaseOf
<1>5. [o \in Ops |-> [i \in Items |-> PhaseOf(o, i)]]'
        = [[o \in Ops |-> [i \in Items |-> PhaseOf(o, i)]] EXCEPT ![op][idx] = "called"]
  BY <1>1, <1>4
<1>6. Ledger!InFlight = {}
  BY <1>1, NothingInFlight
<1> QED
  BY <1>1, <1>3, <1>5, <1>6 DEF Ledger!Call

LEMMA NativeMoveLedger ==
  ASSUME IInv, LInv, NativeMove
  PROVE  Ledger!Move(op, idx)
<1>1. /\ pc = "native" /\ pc' = pc /\ op' = op /\ idx' = idx /\ called' = called /\ seen' = seen
      /\ moved' = [moved EXCEPT ![op][idx] = TRUE] /\ op \in Ops /\ idx \in Items
      /\ called[op][idx]
  BY DEF NativeMove, storeVars, loopVars, IInv, TypeOK, PublishInv, ActivePcs, Pcs, LInv, CallsKnown
<1>2. PhaseOf(op, idx) = "called" /\ \A o \in Ops : \A i \in Items : PhaseOf(o, i)' = PhaseOf(o, i)
  BY <1>1 DEF PhaseOf
<1> QED
  BY <1>1, <1>2 DEF Ledger!Move

\* The call answers, or its process dies, or power fails.
LEMMA NativeEndLedger ==
  ASSUME IInv, LInv, pc = "native", pc' # "native",
         op' = op, idx' = idx, called' = called, moved' = moved, seen' = seen
  PROVE  Ledger!Return(op, idx)
<1>1. op \in Ops /\ idx \in Items /\ called[op][idx]
  BY DEF IInv, TypeOK, PublishInv, ActivePcs, Pcs, LInv, CallsKnown
<1>2. PhaseOf(op, idx) = "called"
  BY <1>1 DEF PhaseOf
<1>3. \A o \in Ops : \A i \in Items :
        PhaseOf(o, i)' = IF o = op /\ i = idx THEN "returned" ELSE PhaseOf(o, i)
  BY <1>1 DEF PhaseOf
<1>4. [o \in Ops |-> [i \in Items |-> PhaseOf(o, i)]]'
        = [[o \in Ops |-> [i \in Items |-> PhaseOf(o, i)]] EXCEPT ![op][idx] = "returned"]
  BY <1>1, <1>3
<1> QED
  BY <1>1, <1>2, <1>4 DEF Ledger!Return

\* What records() answers is true, and takes nothing back.
LEMMA ReadHistoryLedger ==
  ASSUME IInv, IInv', LInv, ReadHistory, RecordsOk
  PROVE  Ledger!Tell({o \in Ops : Exists(disk[o])})
<1>1. /\ pc = "closed" /\ pc' = pc /\ op' = op /\ idx' = idx /\ called' = called /\ moved' = moved
      /\ seen' = [o \in Ops |-> IF Exists(disk[o]) THEN Reading(disk[o]) ELSE seen[o]]
  BY DEF ReadHistory, Locked, loopVars, worldVars
<1>2. ASSUME NEW o \in Ops, Exists(disk[o]), NEW i \in Items
      PROVE  seen'[o][i] \in Ledger!True(o, i) \cap Ledger!Later(seen[o][i])
  <2>1. /\ seen'[o][i] = Reading(disk[o])[i]
        /\ seen'[o][i] \in {"Skipped", "Succeeded", "Failed", "Unknown"}
        /\ seen'[o][i] = "Skipped" => ~called[o][i]
        /\ seen'[o][i] \in Outcome => called[o][i]
        /\ seen'[o][i] = "Succeeded" => moved[o][i]
        /\ seen'[o][i] = "Failed" => ~moved[o][i]
    BY <1>1, <1>2, ReadingTrue
  <2>2. PhaseOf(o, i) = IF called[o][i] THEN "returned" ELSE "untouched"
    BY <1>1 DEF PhaseOf
  <2>3. seen'[o][i] \in Ledger!True(o, i)
    BY <1>2, <2>1, <2>2 DEF Ledger!True, Outcome
  <2>4. /\ seen[o][i] = "Skipped" => ~called[o][i]
        /\ seen[o][i] \in Outcome => called[o][i]
        /\ seen[o][i] = "Succeeded" => moved[o][i]
        /\ seen[o][i] = "Failed" => ~moved[o][i]
    BY DEF LInv, SeenTrue
  <2>5. seen'[o][i] \in Ledger!Later(seen[o][i])
    BY <2>1, <2>4 DEF Ledger!Later, Outcome
  <2> QED
    BY <2>3, <2>5
<1>3. seen' \in [Ops -> [Items -> Ledger!Later("Planned")]]
  <2>1. seen \in [Ops -> [Items -> ItemState]] /\ \A o \in Ops : \A i \in Items : seen[o][i] # "Started"
    BY DEF IInv, TypeOK, Record, LInv, SeenTrue
  <2>2. seen' \in [Ops -> [Items -> ItemState]]
    BY DEF IInv, TypeOK, Record
  <2>3. \A o \in Ops : \A i \in Items : seen'[o][i] # "Started"
    BY <1>1, <2>1, ReadingTrue
  <2>4. Ledger!Later("Planned") = ItemState \ {"Started"}
    BY DEF Ledger!Later, ItemState
  <2> QED
    BY <2>2, <2>3, <2>4
<1>4. \A o \in Ops : \A i \in Items : PhaseOf(o, i)' = PhaseOf(o, i)
  BY <1>1 DEF PhaseOf
<1>5. Ledger!InFlight = {}
  BY <1>1, NothingInFlight
<1>6. \A o \in Ops : IF o \in {x \in Ops : Exists(disk[x])}
                       THEN \A i \in Items : seen'[o][i] \in Ledger!True(o, i) \cap Ledger!Later(seen[o][i])
                       ELSE seen'[o] = seen[o]
  BY <1>1, <1>2
<1> QED
  BY <1>1, <1>3, <1>4, <1>5, <1>6 DEF Ledger!Tell

LEMMA LedgerStep ==
  IInv /\ IInv' /\ HInv /\ LInv /\ [Next]_vars => [Ledger!Next]_(Ledger!vars)
<1> SUFFICES ASSUME IInv, IInv', HInv, LInv, [Next]_vars
             PROVE  [Ledger!Next]_(Ledger!vars)
  OBVIOUS
<1>1. pc = "native" => op \in Ops /\ idx \in Items /\ stage = "idle"
  BY DEF IInv, TypeOK, PublishInv, ActivePcs, Pcs, PublishPcs
<1>2. CASE NativeCall
  <2>1. op \in Ops /\ idx \in Items
    BY <1>2 DEF NativeCall, IInv, TypeOK, PublishInv, ActivePcs, Pcs
  <2> QED
    BY <1>2, <2>1, NativeCallLedger DEF Ledger!Next
<1>3. CASE NativeMove
  BY <1>1, <1>3, NativeMoveLedger DEF NativeMove, Ledger!Next
<1>4. CASE ReadHistory
  <2>1. CASE RecordsOk
    BY <1>4, <2>1, ReadHistoryLedger DEF Ledger!Next
  <2>2. CASE ~RecordsOk
    <3>1. /\ called' = called /\ moved' = moved /\ seen' = seen /\ pc' = pc /\ pc = "closed"
      BY <1>4, <2>2 DEF ReadHistory, Locked, worldVars
    <3> QED
      BY <3>1, LedgerStutters
  <2> QED
    BY <2>1, <2>2
<1>5. CASE Crash \/ PowerLoss \/ \E s \in {"Succeeded", "Failed", "Unknown"} : NativeReturn(s)
  <2>1. /\ called' = called /\ moved' = moved /\ seen' = seen /\ op' = op /\ idx' = idx
        /\ pc' # "native"
    BY <1>5 DEF Crash, PowerLoss, ProcessExit, PowerFailure, Die, NativeReturn, worldVars
  <2>2. CASE pc = "native"
    BY <1>1, <2>1, <2>2, NativeEndLedger DEF Ledger!Next
  <2>3. CASE pc # "native"
    BY <2>1, <2>3, LedgerStutters
  <2> QED
    BY <2>2, <2>3
<1>6. CASE \/ OpenStore \/ RequestStop \/ IoError \/ StartOperation \/ RefuseOperation \/ CloseStore
           \/ InitialPublished \/ SkipItem \/ StartItem \/ StartItemClockError \/ IntentPublished
           \/ IntentUnconfirmed \/ GuardProceeds \/ GuardRefuses \/ EffectRefused
           \/ PublishOutcome \/ TimestampError \/ OutcomePublished \/ OutcomeUnconfirmed
           \/ UNCHANGED vars
  <2>1. called' = called /\ moved' = moved /\ seen' = seen
    BY <1>6 DEF OpenStore, RequestStop, IoError, StartOperation, RefuseOperation, CloseStore,
         InitialPublished, SkipItem, StartItem, StartItemClockError, IntentPublished,
         IntentUnconfirmed, GuardProceeds, GuardRefuses, EffectRefused, PublishOutcome,
         TimestampError, OutcomePublished, OutcomeUnconfirmed, StopForJournalError,
         worldVars, vars, execVars
  <2>2. \/ pc # "native" /\ pc' # "native"
        \/ pc' = pc /\ op' = op /\ idx' = idx
    BY <1>1, <1>6 DEF OpenStore, RequestStop, IoError, PublishError, StartOperation, RefuseOperation,
         CloseStore, InitialPublished, SkipItem, StartItem, StartItemClockError, IntentPublished,
         IntentUnconfirmed, GuardProceeds, GuardRefuses, EffectRefused, PublishOutcome,
         TimestampError, OutcomePublished, OutcomeUnconfirmed, StopForJournalError,
         vars, execVars, loopVars, storeVars
  <2> QED
    BY <2>1, <2>2, LedgerStutters
<1>7. CASE Publishing
  <2>1. /\ called' = called /\ moved' = moved /\ seen' = seen /\ pc' = pc /\ op' = op /\ idx' = idx
    BY <1>7, PublishDelta DEF execVars, loopVars, worldVars
  <2> QED
    BY <2>1, LedgerStutters
<1> QED
  BY <1>2, <1>3, <1>4, <1>5, <1>6, <1>7 DEF Next, BatchStep

\* execute_with_clean_policy, publish_with and records() keep the promise of
\* EffectLedger through every crash, failing call and power loss: one call per
\* item, in the order of the batch, nothing moved outside of it, and a history
\* that is true and never takes an answer back.
THEOREM LedgerImplemented == Spec => ImplementsLedger
<1>1. Init => Ledger!Init
  <2> SUFFICES ASSUME Init PROVE Ledger!Init
    OBVIOUS
  <2>1. \A o \in Ops : \A i \in Items : PhaseOf(o, i) = "untouched"
    BY DEF Init, PhaseOf
  <2> QED
    BY <2>1 DEF Init, Ledger!Init, AllPlanned
<1> QED
  BY <1>1, LedgerInvariance, LedgerStep, PTL DEF Spec, ImplementsLedger, Ledger!Spec

=============================================================================
