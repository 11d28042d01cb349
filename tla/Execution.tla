----------------------------- MODULE Execution -----------------------------
(***************************************************************************)
(* One approved batch, executed item by item over the receipt store        *)
(* (crates/engine/src/execute.rs, Session::execute_with_clean_policy), by  *)
(* processes that hold the state directory's lock one at a time, may die   *)
(* between any two steps and may lose power.  Readers of the history take  *)
(* the same lock.                                                          *)
(*                                                                         *)
(* The native call is external: between its entry and its return the item  *)
(* may be moved to the Trash.  What it may answer is what NativeTrash      *)
(* establishes: Moved only for a moved item, Failed and Refused only for   *)
(* an item that was left alone, Unknown for either.                        *)
(***************************************************************************)
EXTENDS JournalStore

CONSTANTS
  MaxFaults,    \* bound on failing system calls, clock reads included
  MaxCrashes    \* bound on process deaths and power failures

ASSUME ExecutionAssumption == MaxFaults \in Nat /\ MaxCrashes \in Nat

VARIABLES
  pc,            \* where the holder of the lock stands
  idx,           \* the item the loop is at
  refused,       \* items that the final validation put in validated.skipped
  stopping,      \* cancelled or expired: stop_reason answers Some from now on
  stopped,       \* the loop's flag after a guard refusal or an Unknown
  journalError,  \* report.journal_error
  report,        \* what execute returned: nothing yet, a report, an error
  seen,          \* per operation, what the last history reading said
  moved,         \* history: the item is in the Trash because of this call
  called,        \* history: the native call was entered for the item
  faults, crashes

loopVars == <<idx, refused, stopped, journalError, report>>
worldVars == <<moved, called>>
countVars == <<faults, crashes>>
execVars == <<pc, loopVars, stopping, seen, worldVars, countVars>>
vars == <<storeVars, execVars>>

Pcs == {"closed", "open", "initial", "loop", "intent", "guard", "effect",
        "native", "timestamp", "outcome", "done"}

Locked == pc # "closed"

----------------------------------------------------------------------------
(* The process around the batch.                                           *)

\* Store::open by the caller: takes the lock and fsyncs the directory.
OpenStore ==
  /\ pc = "closed"
  /\ op < MaxOps
  /\ pc' = "open"
  /\ report' = "none"
  /\ FsyncDir
  /\ UNCHANGED <<op, record, fallback, stage, result, idx, refused, stopped,
                 journalError, stopping, seen, worldVars, countVars>>

\* validate put some items in skipped; new_id agreed; the all-Planned record
\* is published as the operation's first receipt.
StartOperation ==
  /\ pc = "open"
  /\ NewIdOk
  /\ op' = op + 1
  /\ record' = AllPlanned
  /\ Begin(TRUE)
  /\ refused' \in SUBSET Items
  /\ idx' = 1
  /\ stopped' = FALSE
  /\ journalError' = FALSE
  /\ pc' = "initial"
  /\ UNCHANGED <<report, stopping, seen, worldVars, countVars>>

\* validate or new_id fails: the error is returned before anything is written.
RefuseOperation ==
  /\ pc = "open"
  /\ pc' = "done"
  /\ report' = "error"
  /\ UNCHANGED <<storeVars, idx, refused, stopped, journalError, stopping,
                 seen, worldVars, countVars>>

\* The session and its lock are dropped.
CloseStore ==
  /\ pc = "done"
  /\ pc' = "closed"
  /\ stopping' = FALSE
  /\ UNCHANGED <<storeVars, loopVars, seen, worldVars, countVars>>

\* Ctrl-C or the expiry of the approved plan, at any moment of a batch.
RequestStop ==
  /\ pc \notin {"closed", "done"}
  /\ ~stopping
  /\ stopping' = TRUE
  /\ UNCHANGED <<storeVars, pc, loopVars, seen, worldVars, countVars>>

\* Mutant: history is read beside a running execution.
ReadHistoryUnlocked ==
  /\ FsyncDir
  /\ seen' = IF RecordsOk
               THEN [o \in Ops |-> IF Exists(disk[o]) THEN Reading(disk[o]) ELSE seen[o]]
               ELSE seen
  /\ UNCHANGED <<op, record, fallback, stage, result, pc, loopVars, stopping,
                 worldVars, countVars>>

\* A history reader needs the lock; records() fails as a whole or answers
\* for every operation.
ReadHistory ==
  /\ ~Locked
  /\ FsyncDir
  /\ seen' = IF RecordsOk
               THEN [o \in Ops |-> IF Exists(disk[o]) THEN Reading(disk[o]) ELSE seen[o]]
               ELSE seen
  /\ UNCHANGED <<op, record, fallback, stage, result, pc, loopVars, stopping,
                 worldVars, countVars>>

----------------------------------------------------------------------------
(* The batch.                                                              *)

SetItem(s) == record' = [record EXCEPT ![idx] = s]

\* stop_for_journal_error: the record of the report, never published again.
StopForJournalError(state) ==
  /\ record' = [i \in Items |-> IF i < idx THEN record[i]
                                ELSE IF i = idx THEN state ELSE "Skipped"]
  /\ journalError' = TRUE
  /\ report' = "report"
  /\ pc' = "done"
  /\ UNCHANGED <<disks, op, fallback, stage, result, idx, refused, stopped,
                 stopping, seen, worldVars, countVars>>

\* The initial receipt must be published cleanly or execute returns an error.
InitialPublished ==
  /\ pc = "initial"
  /\ stage = "idle"
  /\ pc' = IF result = "ok" THEN "loop" ELSE "done"
  /\ report' = IF result = "ok" THEN "none" ELSE "error"
  /\ UNCHANGED <<storeVars, idx, refused, stopped, journalError, stopping,
                 seen, worldVars, countVars>>

\* stop_reason, validated.skipped and the stopped flag skip the item.  A
\* clock that runs backwards makes a single stop_reason answer Some as well.
SkipItem ==
  /\ pc = "loop"
  /\ SetItem("Skipped")
  /\ pc' = "timestamp"
  /\ faults' = IF stopping \/ idx \in refused \/ stopped THEN faults ELSE faults + 1
  /\ faults' <= MaxFaults
  /\ UNCHANGED <<disks, op, fallback, stage, result, loopVars, stopping, seen,
                 worldVars, crashes>>

StartItem ==
  /\ pc = "loop"
  /\ ~stopping /\ idx \notin refused /\ ~stopped
  /\ SetItem("Started")
  /\ op' = op
  /\ Begin(FALSE)
  /\ pc' = "intent"
  /\ UNCHANGED <<loopVars, stopping, seen, worldVars, countVars>>

\* now_ms()? before the intent: the error leaves no report.
StartItemClockError ==
  /\ pc = "loop"
  /\ ~stopping /\ idx \notin refused /\ ~stopped
  /\ faults < MaxFaults
  /\ faults' = faults + 1
  /\ pc' = "done"
  /\ report' = "error"
  /\ UNCHANGED <<storeVars, idx, refused, stopped, journalError, stopping,
                 seen, worldVars, crashes>>

\* Mutant: the result of the intent's publication is ignored.
IntentPublishedUnchecked ==
  /\ pc = "intent"
  /\ stage = "idle"
  /\ pc' = "guard"
  /\ UNCHANGED <<storeVars, loopVars, stopping, seen, worldVars, countVars>>

\* require_clean: an intent that is not confirmed, or whose marker could not
\* be removed, forbids the native call.
IntentPublished ==
  /\ pc = "intent"
  /\ stage = "idle"
  /\ result = "ok"
  /\ pc' = "guard"
  /\ UNCHANGED <<storeVars, loopVars, stopping, seen, worldVars, countVars>>

IntentUnconfirmed ==
  /\ pc = "intent"
  /\ stage = "idle"
  /\ result # "ok"
  /\ StopForJournalError("Skipped")

\* The policy guard of a clean session, after the durable intent.
GuardProceeds ==
  /\ pc = "guard"
  /\ pc' = "effect"
  /\ UNCHANGED <<storeVars, loopVars, stopping, seen, worldVars, countVars>>

GuardRefuses ==
  /\ pc = "guard"
  /\ SetItem("Skipped")
  /\ stopped' = TRUE
  /\ pc' = "timestamp"
  /\ UNCHANGED <<disks, op, fallback, stage, result, idx, refused,
                 journalError, report, stopping, seen, worldVars, countVars>>

\* Effect::Refused: revalidation, the stop closure or the last guard said no
\* before Foundation was called.  Only a guard refusal stops the batch.
EffectRefused ==
  /\ pc = "effect"
  /\ SetItem("Skipped")
  /\ stopped' \in {stopped, TRUE}
  /\ pc' = "timestamp"
  /\ UNCHANGED <<disks, op, fallback, stage, result, idx, refused,
                 journalError, report, stopping, seen, worldVars, countVars>>

\* The stop closure is evaluated immediately before the one Foundation call.
NativeCall ==
  /\ pc = "effect"
  /\ ~stopping
  /\ called' = [called EXCEPT ![op][idx] = TRUE]
  /\ pc' = "native"
  /\ UNCHANGED <<storeVars, loopVars, stopping, seen, moved, countVars>>

NativeMove ==
  /\ pc = "native"
  /\ ~moved[op][idx]
  /\ moved' = [moved EXCEPT ![op][idx] = TRUE]
  /\ UNCHANGED <<storeVars, pc, loopVars, stopping, seen, called, countVars>>

\* Mutant: an ambiguous answer does not stop the batch.
NativeReturnGoesOn(s) ==
  /\ pc = "native"
  /\ s = "Succeeded" => moved[op][idx]
  /\ s = "Failed" => ~moved[op][idx]
  /\ SetItem(s)
  /\ pc' = "timestamp"
  /\ UNCHANGED <<disks, op, fallback, stage, result, loopVars, stopping, seen,
                 worldVars, countVars>>

NativeReturn(s) ==
  /\ pc = "native"
  /\ s = "Succeeded" => moved[op][idx]
  /\ s = "Failed" => ~moved[op][idx]
  /\ SetItem(s)
  /\ stopped' = (stopped \/ s = "Unknown")
  /\ pc' = "timestamp"
  /\ UNCHANGED <<disks, op, fallback, stage, result, idx, refused,
                 journalError, report, stopping, seen, worldVars, countVars>>

\* The outcome is stamped and published.
PublishOutcome ==
  /\ pc = "timestamp"
  /\ op' = op
  /\ record' = record
  /\ Begin(FALSE)
  /\ pc' = "outcome"
  /\ UNCHANGED <<loopVars, stopping, seen, worldVars, countVars>>

\* No timestamp, no publication: the report demotes the outcome.
TimestampError ==
  /\ pc = "timestamp"
  /\ StopForJournalError(IF record[idx] \in Outcome THEN "Unknown" ELSE record[idx])

\* Mutants: the index runs past the last item; the index is not advanced.
OutcomePublishedOverrun ==
  /\ pc = "outcome"
  /\ stage = "idle"
  /\ result = "ok"
  /\ pc' = IF idx = N THEN "done" ELSE "loop"
  /\ idx' = idx + 1
  /\ report' = IF idx = N THEN "report" ELSE "none"
  /\ UNCHANGED <<storeVars, refused, stopped, journalError, stopping, seen,
                 worldVars, countVars>>

OutcomePublishedStuck ==
  /\ pc = "outcome"
  /\ stage = "idle"
  /\ result = "ok"
  /\ pc' = "loop"
  /\ UNCHANGED <<storeVars, loopVars, stopping, seen, worldVars, countVars>>

OutcomePublished ==
  /\ pc = "outcome"
  /\ stage = "idle"
  /\ result = "ok"
  /\ pc' = IF idx = N THEN "done" ELSE "loop"
  /\ idx' = IF idx = N THEN idx ELSE idx + 1
  /\ report' = IF idx = N THEN "report" ELSE "none"
  /\ UNCHANGED <<storeVars, refused, stopped, journalError, stopping, seen,
                 worldVars, countVars>>

\* Mutant: a clean-up error is taken for an uncommitted receipt.
OutcomeUnconfirmedPessimistic ==
  /\ pc = "outcome"
  /\ stage = "idle"
  /\ result # "ok"
  /\ StopForJournalError(IF record[idx] = "Skipped" THEN "Skipped" ELSE "Unknown")

\* An unconfirmed outcome is reported as Unknown; after a clean-up error the
\* durable outcome stands.  Either way no later item is touched.
OutcomeUnconfirmed ==
  /\ pc = "outcome"
  /\ stage = "idle"
  /\ result # "ok"
  /\ StopForJournalError(IF result = "cleanup_error" \/ record[idx] = "Skipped"
                           THEN record[idx] ELSE "Unknown")

----------------------------------------------------------------------------
(* The store's steps on behalf of the batch, and failures.                 *)

Publishing == PublishStep /\ UNCHANGED execVars

IoError ==
  /\ PublishError
  /\ faults < MaxFaults
  /\ faults' = faults + 1
  /\ UNCHANGED <<pc, loopVars, stopping, seen, worldVars, crashes>>

Die ==
  /\ crashes < MaxCrashes
  /\ crashes' = crashes + 1
  /\ pc' = "closed"
  /\ report' = "none"
  /\ stopping' = FALSE
  /\ UNCHANGED <<idx, refused, stopped, journalError, seen, worldVars, faults>>

Crash == Locked /\ ProcessExit /\ Die

PowerLoss == PowerFailure /\ Die

Init ==
  /\ StoreInit
  /\ pc = "closed"
  /\ idx = 1
  /\ refused = {}
  /\ stopping = FALSE
  /\ stopped = FALSE
  /\ journalError = FALSE
  /\ report = "none"
  /\ seen = [o \in Ops |-> AllPlanned]
  /\ moved = [o \in Ops |-> [i \in Items |-> FALSE]]
  /\ called = [o \in Ops |-> [i \in Items |-> FALSE]]
  /\ faults = 0
  /\ crashes = 0

\* The steps of the process that holds the lock; none of them waits for
\* anything but the kernel.
BatchStep ==
  \/ StartOperation \/ RefuseOperation \/ CloseStore
  \/ InitialPublished \/ SkipItem \/ StartItem \/ StartItemClockError
  \/ IntentPublished \/ IntentUnconfirmed \/ GuardProceeds \/ GuardRefuses
  \/ EffectRefused \/ NativeCall
  \/ \E s \in {"Succeeded", "Failed", "Unknown"} : NativeReturn(s)
  \/ PublishOutcome \/ TimestampError \/ OutcomePublished \/ OutcomeUnconfirmed
  \/ Publishing

Next ==
  \/ OpenStore \/ RequestStop \/ ReadHistory \/ NativeMove
  \/ BatchStep \/ IoError \/ Crash \/ PowerLoss

Spec == Init /\ [][Next]_vars

\* A running process keeps running: it is never blocked by another one,
\* since flock is taken without waiting and only once.
FairSpec == Spec /\ WF_vars(BatchStep)

----------------------------------------------------------------------------
(* The promise of EffectLedger.  An item is with the system while the one  *)
(* native call runs; a process that dies leaves the call behind.           *)

PhaseOf(o, i) ==
  CASE ~called[o][i] -> "untouched"
    [] pc = "native" /\ o = op /\ i = idx -> "called"
    [] OTHER -> "returned"

Ledger == INSTANCE EffectLedger WITH
  phase <- [o \in Ops |-> [i \in Items |-> PhaseOf(o, i)]], told <- seen

----------------------------------------------------------------------------
(* Properties.                                                             *)

TypeOK ==
  /\ StoreTypeOK
  /\ pc \in Pcs
  /\ idx \in Items
  /\ refused \in SUBSET Items
  /\ stopping \in BOOLEAN
  /\ stopped \in BOOLEAN
  /\ journalError \in BOOLEAN
  /\ report \in {"none", "report", "error"}
  /\ seen \in [Ops -> Record]
  /\ moved \in [Ops -> [Items -> BOOLEAN]]
  /\ called \in [Ops -> [Items -> BOOLEAN]]
  /\ faults \in 0..MaxFaults
  /\ crashes \in 0..MaxCrashes

\* rec does not lie about the items of operation o: an item it calls moved
\* is moved, and a moved item is not called untouched.
Truthful(o, rec) ==
  \A i \in Items :
    /\ rec[i] = "Succeeded" => moved[o][i]
    /\ moved[o][i] => rec[i] \in {"Started", "Succeeded", "Unknown"}

\* Code: the write-ahead order of execute_with_clean_policy and publish_with.
\* Whatever a crash, a failing call or a power loss leaves behind, the history
\* never reports a moved item as skipped, failed or planned, and never an
\* unmoved item as succeeded.
TruthfulReceipts ==
  \A o \in Ops : \A d \in Recoverable(o) :
    (Exists(d) /\ EntryReadable(d)) => Truthful(o, Reading(d))

\* Code: the native call is entered only after the intent was published
\* cleanly.  While it runs, every recoverable directory reads and discloses
\* the item as Unknown.
IntentIsDurable ==
  pc = "native" =>
    \A d \in Recoverable(op) :
      Exists(d) /\ EntryReadable(d) /\ Reading(d)[idx] = "Unknown"

\* Code: the report returned to the caller and the history read later never
\* contradict each other: an outcome that either of them claims is claimed by
\* the other one too, or disclosed as Unknown; only the report may say less.
\* A report without a journal error, exit code 0 among them, is final: its
\* receipt survives any power failure as it stands.
ReportAgreesWithHistory ==
  report = "report" =>
    /\ Truthful(op, record)
    /\ ~journalError => \A s \in Possible(op, "json") : s = Synced(record)
    /\ \A d \in Recoverable(op) : EntryReadable(d) =>
         \A i \in Items :
           /\ Reading(d)[i] \in Outcome => record[i] = Reading(d)[i]
           /\ record[i] \in Outcome => Reading(d)[i] \in {record[i], "Unknown"}

\* Code: an ambiguous outcome (Unknown, or an unconfirmed publication) stops
\* the batch: no later item's native call is ever entered.
AmbiguityStopsTheBatch ==
  pc # "closed" =>
    \A i, j \in Items :
      (i < j /\ record[i] = "Unknown") => ~called[op][j]

\* Code: the loop and publish_with wait for nothing but system calls; every
\* process that takes the lock gives it back.
LockIsReleased == Locked ~> ~Locked

\* Code: execute_with_clean_policy, publish_with and records() together keep
\* the promise of EffectLedger: one call per item, in order, nothing moved
\* outside of it, and a history that is true and final, whatever fails.
ImplementsLedger == Ledger!Spec

=============================================================================
