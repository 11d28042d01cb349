# Sayaka: a verification project

Sayaka is a local maintenance tool for macOS (with a read-only Windows build):
an engine of Rust crates, a command line and a C interface for a native
application. It measures, classifies and previews what takes space, and it
moves what a person approved to the Trash, empties the Trash through Finder,
deletes simulator devices and runtimes, uninstalls applications, and installs,
updates and removes itself. Every effect is tied to a receipt in a durable
local history.

The modules here model the parts of that code whose correctness depends on
orders that a test hardly reaches: a crash between two system calls, two
processes or threads over one store, an answer that comes late or contradicts
another, a file that is replaced after it was checked. TLC explores small
instances of every module; TLAPS proves the central results about the receipt
protocol, the planner, the handle registry, the local lifecycle, every way to
the Trash and every other operation that removes something, for every number of
items, operations, threads, plans, faults and crashes.

Paths below are relative to `src/crates/`.

## 1. Inventory

### Components with effects

| component | state | operations | hard behaviour | what makes it correct |
|---|---|---|---|---|
| Receipt store, `engine/src/journal.rs`, `journal/store.rs` | directory with `<id>.json`, `.pending`, `.next`, a flock | open, `new_id`, `publish_with`, `records`, validation, reconcile | death and power loss between any two system calls; limits; damaged fields | what the history shows is true and does not vanish; only a marker caught while it was written makes it unreadable |
| Execution, `engine/src/execute.rs`, `execute/macos.rs`, `cli/src/trash.rs` and siblings | record in memory, loop index, stop and error flags; the evidence each kind of session holds | `execute_with_clean_policy`; confirmation, revalidation, native call | publication failing before and after the effect, evidence that changes between items, cancellation | intent durable before effect; history, report and exit code truthful and in agreement; ambiguity stops the batch |
| Planner, `engine/src/plan.rs`, `model.rs` | inventory, plans and their state, versions, last clock reading | discover, prepare, seal bindings, approve, validate, set versions | versions and clock that go away and back, stale probes, overlapping selections | approval is for exactly one displayed plan and is spent once; dead plans stay dead |
| Native Trash boundary, `platform-macos/src/trash*` | held descriptor, captured evidence, `attempted`, thread policy | capture, revalidate, move, interpret, verify, restore | path-based call after descriptor-based checks; contradictory answers | at most one call; Refused/Failed mean untouched; Moved means the approved object |
| Empty Trash, `engine/src/empty_trash*` | session, guard store, history store | prepare, begin, claim, finish, release | an irrevocable event to another process, lost replies | never a second event over an unresolved one |
| Uninstall, `engine/src/{app,related,admin}_uninstall.rs`, `bindings/src/uninstall*` | two linked receipts, a host handle | preview, execute (two versions), delegate, finish | a crash between the receipts, Finder's unclear answer | neither receipt denies what happened to the bundle or its data; it fails to for a move that comes after Finder's error or silence (observation *Uninstall*) |
| Leftovers, `engine/src/orphan_execution.rs` | retained plan, witness, receipt | prepare, execute | an application that turns up between items | nothing of an application that is back is moved, and a quiet batch completes |
| Simulators and runtimes, `engine/src/devtools*` | listings, approval, receipt | prepare, execute | a service that goes on deleting after the call ended | no receipt denies a deletion, also a late one after exit 0 or an unseen end; the batch stops when it cannot tell |
| Clean policy, `engine/src/clean_policy*` | the exclusion file | load, add, remove, replace | racing editors, a half-made update | no recorded exclusion is lost or stops protecting |
| Purge host, `bindings/src/purge.rs` | previews, selections, executions | start, select, execute, release | several executions of one preview | rows belong to the items that were asked for |
| Browser, `cli/src/browser/` | screen, selection, generation, one job | scan, plan, confirm, refresh, leave | expiry against confirmation, refresh against a finished job | only a fully shown and confirmed plan is carried out, its report is shown |
| Local lifecycle, `engine/src/installation*` | prefix, manifest, executable, lock, guard, lifecycle record | install, update, recover, remove | two renames, staged files, barriers, several processes | mixtures are recognizable, success survives power loss, evidence is never overwritten |
| Handle registry, `bindings/src/lib.rs` and siblings, `engine/src/readonly_task.rs` | next handle, maps, per-job mutex, flag, worker, outcome | start, poll, result, cancel, select, execute, release | any call at any time from any thread, panics | no orphaned worker, one execution per preview, releases end |

### Components that only look

| component | state | hard behaviour | what makes it correct |
|---|---|---|---|
| Scan walk, `engine/src/scan/walk.rs` | queue, bounded event channel with reserved places, counters | back-pressure, limits, workers that stop | a complete report is exact; the call returns |
| Parallel size scan, `engine/src/scan/cache*` | job queue, frames, permits, linked-file table | lent frames, shared budgets | complete totals are exact; changes are seen; the call returns |
| Scan task and index, `scan/task.rs`, `scan/index.rs` | worker, snapshot, prepared tree; merged sizes | drop while the worker publishes; hard links merged in any order | a finished task does not change; each file is counted once per directory |
| Project and cache previews, `engine/src/purge_preview*`, `app_observation/owner_budget.rs` | sizing workers, observation slots | lost workers, late answers, full slots | nothing unmeasured or unanswered is offered |
| Installer preview, `engine/src/installer_preview*` | bounded reads, parser stacks | replacement between reads, nested structure | evidence is of one object; in a plain table only top-level names are hints |
| Application inventory and related data, `engine/src/app_inventory.rs`, `app_related.rs` | descriptors, budgets, parser state | the same, with mounts; nested structure | records of one version; a complete inventory is complete; the fields of a plain property list are those of its root (not of every one, finding `nested_keys`) |
| Rules, `engine/src/rules.rs` | native evidence of target and source | the same | a candidate's evidence is the target's |
| Status, `engine/src/status.rs`, `cli/src/status.rs` | last counters, timestamps, slots | counters that repeat, fall or change device | a rate is of one counter; fresh is recent |

### How the components interact

A client (command line, browser or native host) asks the *planner* for a
preview and approves it; *execution* has the planner validate it, publishes a
receipt through the *store*, and for each item publishes the intent, passes the
last guard, makes one call through the *native Trash boundary* and publishes
the outcome. Uninstall, leftovers and the tool sessions have loops of their own
over the same store. The state directory's flock serializes executions and
readers of the history. *Empty Trash* uses two such stores, one of them as a
barrier. The *handle registry* owns threads that run scans and sessions and
hands their results to the host. The *local lifecycle* has a record and
barriers of its own. `Execution` composes `JournalStore` and
the answers that `NativeTrash` establishes; the other loops use publication
with the outcomes `JournalStore`'s system calls can produce.

## 2. Modules and code

| module | models | state and actions |
|---|---|---|
| `JournalStore` | `ItemState`, `Record`, `reconciled`; `Store::open`, `new_id`, `publish_with`, `write_snapshot`, `records` | a record is the state of each item, `Fallback` and `Reconciled` are pure; `disk` is what programs see, `stale`/`fresh` what power loss may bring back; one action per system call, and a failing variant of each |
| `Execution` | `Session::execute_with_clean_policy` | `pc` walks initial receipt, intent, guard, native call, timestamp, outcome; `Crash`, `PowerLoss`, `RequestStop`, `ReadHistory` interleave; the refinement mapping to `EffectLedger` |
| `ExecutionProofs` | - | inductive invariant of `Execution` in three layers; theorems about receipts, report and history, and the refinement |
| `RegistryProofs`, `PlannerProofs`, `TrashProofs`, `InstallationProofs` | - | inductive invariants of and theorems about `HandleRegistry`, `Planner`, the four components of `MCTrash` and `Installation` |
| `SessionProofs`, `RemovalProofs` | - | the same for `MCRemovals`: the invariants of `Leftovers`, `Uninstall` and `ToolSession`; those of `Browser` and `CleanPolicy`, and the theorems |
| `EffectLedger` | the promise of an execution | items untouched, called, returned; what the history told |
| `JournalSchema` | `Record::validate` for plain and rule receipts, and the writers of rows | rows are published and read back, one field damaged |
| `TrashSessions` | the sessions of `execute/macos.rs` and the commands that run them | a session holds the positions of its items; one step per check, between them objects, policy, Git state and open files change |
| `Planner`, `MCPlanner` | `Planner` | plans with their previews and states; validation probes one item per step |
| `NativeTrash` | `move_to_trash_with_last_guard`, `classify_response`, `verify_destination`, `finish_restore` | objects in places, a descriptor, one `pc` per submitting thread |
| `EmptyTrash` | `EmptyTrashSession`, `Context::validate`, `barrier` | two stores with everything power loss may leave; events and Finder external |
| `PurgeHost` | `bindings/src/purge.rs` | preview, selections, two execution workers, release |
| `Uninstall` | `related_uninstall.rs`, `admin_uninstall.rs`, the host interface | two receipts, delegated move, late effect, both interface versions |
| `Leftovers` | `orphan_execution.rs` | evidence, witness, batch, receipt, host handle |
| `ToolSession` | `devtools/session.rs`, `runtime_session.rs`, `bindings/src/simulators.rs` | devices, images, the service that may delete later |
| `CleanPolicy` | `clean_policy/macos.rs`, `cli/src/clean.rs` | the file, its staging name, lock, racing updaters and cleaners |
| `Browser` | `cli/src/browser/` | loop and job thread with their channels |
| `Installation`, `MCInstallation` | `Install`, `Update`, `Recover`, `Remove` | names with current, dirty and cached values; one action per rename, sync, record write and check |
| `HandleRegistry` | the C interface's registry and one job of each kind | calls as small state machines; critical sections of the registry atomic, job mutexes only tried |
| `ParallelScan` | `summarize`, `take`, `lend`, `reserve`, `walk` | one step per critical section, explicit waiting and waking |
| `ScanWalk` | `scan/walk.rs`, `scan/macos.rs` | caller, workers, queue, reserved places, channel |
| `ScanTask`, `ScanIndex` | `readonly_task.rs`, `scan/task.rs`; `scan/index.rs` | worker and host; children-first merging |
| `ProjectPreview`, `CachePreview` | `purge_preview*`, `project_git.rs`, `project_activity.rs`; `owner_budget.rs`, `bundle_owned.rs`, `adobe.rs` | sizing workers and leases; slots, budgets, late answers |
| `InstallerPreview`, `TocHints` | `installer_preview.rs` and the selection handle; its table-of-contents parser | reads with replacement between them; one step per XML event |
| `InfoPlist`, `AppInventory`, `AppRelated` | `app_inventory.rs`, `app_related.rs` | one step per XML event or binary object; one step per directory, candidate or probe |
| `RulePreview` | `rules.rs` | both built-in rules over one scan |
| `Status` | `engine/src/status.rs`, `cli/src/status.rs` | sampler, worker slot and panel loop |
| `MCTrash`, `MCScans`, `MCReturns`, `MCRemovals`, `MCInspection` | - | umbrella instances: `which` chooses the component of a behaviour, the variables of the others stay off |
| `MCData` | - | inputs shared by the umbrella instances |

`PROJECT.json` maps definitions to their lines; a helper whose lines lie inside
those of the action that uses it is not listed separately. Definitions whose comment
begins with *Mutant* are plausible wrong versions of the definition that
follows; each shows that some run would notice that mistake.

### Abstractions worth knowing

* **Power loss.** A name may recover with any value since the last flush of
  the drive's cache; `fsync` of a directory only moves values to that cache,
  `F_FULLFSYNC` flushes it. Names recover independently. This assumes nothing
  of the file system's ordering and is weaker than what APFS gives.
* **Native calls.** Foundation, Finder, simctl and the process listing are
  external. `NativeTrash` lets the move act on whatever is at the path, or on
  nothing, and answer anything consistent with `classify_response`'s inputs;
  `Execution` uses what `NativeTrash` checks. In `ToolSession` and `Uninstall`
  an effect may come after the answer: in the first after exit 0 and after an
  end that was not seen (after any other exit status simctl is taken to be
  done, as its callers take it), in the second after an error or no answer.
* **Publication elsewhere.** Outside `Execution` a publication is one step with
  all outcomes of the store's calls, because its lock excludes readers until
  the call returns or the process dies.
* **Installation.** An error, a cancellation and a process death end an
  operation the same way, so one action stands for the three. Digests and
  identities are compared as `ino` and `ver`.
* **Handle registry.** Three kinds of handle stand for the maps. A panic under
  the registry's own lock, which would poison it for the process, is not
  modelled; the code under that lock allocates and spawns only.
* **Release gates.** `NATIVE_ACCEPTANCE_RECORDED`,
  `ORPHAN_NATIVE_ACCEPTANCE_RECORDED` and the runtimes' `native_evidence` are
  constant false in a release; the models check both values.
* **ScanIndex.** Logical and allocated sizes are treated alike by the code, and
  one of them is modelled; postorder is any children-first order; the combined
  overflow of single and shared sizes is checked at insertion.
* **CleanPolicy.** `load` is one step of an update; what happens between it and
  the rename is not.
* **Browser.** Help, filter and list screens are abstracted; a run has one plan
  and two scans, and failing steps and outside changes share one budget.
* **Status.** A snapshot and its publication time are one step. Time passes
  only where it can matter: around a varied question, before the snapshot and
  during the sleep. A clock that goes back cannot happen with the live clock
  and is left out. The instance asks for three readings where the code asks
  for five.

## 3. Runs

| run | instance | shows |
|---|---|---|
| `execution` | 2 operations of 2 items each, a store of one record, 2 failing calls, 2 crashes or power losses | types; truthful receipts; durable intent; report and history agree; ambiguity stops the batch; the lock is given back; a shown outcome is durable; `records()` refuses the store only for a marker that was caught while it was written; `Execution` implements `EffectLedger` |
| `planner` | 3 paths with one inside another, 2 identities, 2 versions, 2 version changes, 1 plan | separation of items, one-time approval, freshness of ready items, dead plans stay dead |
| `install` | 1 process with 4 operations, 3 stops and a power failure; 2 processes with 4 operations and 2 stops | mixtures are flagged and success survives for both; recovery and evidence for one process |
| `install_lock` | 2 processes | **violation**, see findings |
| `handles` | 2 threads, 2 handles, tasks and device sessions | no lost work, one execution, releases succeed |
| `handles_cap` | 1 thread, 2 runtime previews, cap 1 | **violation**, see findings |
| `trash` | native boundary: 2 objects, 2 callers, 2 foreign steps; empty Trash: 2 sessions, stores of two records; sessions: 2 items, 2 changes, 1 fault, every kind of session and command; purge host: 2 execution workers, 1 change, 1 fault | only the approved object is moved; at most once; reports, exit codes and rows are true; no event over an unresolved one |
| `removals` | tools: devices and a runtime image with late deletions; uninstall: 2 related items, 2 faults; leftovers: 3 items of 2 identifiers; policy: 2 updaters and a cleaner; receipts with one damaged field; browser: 2 files, a directory, 1 plan | receipts are true save for what Finder moves after its error or silence was recorded, a quiet batch completes, exclusions survive, every effect is behind its guard, every outcome can be recorded, one damaged field does not invent a move, change the kind of operation or refuse the recorded success of an object that is still named |
| `inspection` | each reader with 1 replacement, 1 failing call and limits small enough to be met | evidence is of one object, complete means complete, the hints of plain tables and the fields of plain property lists are top-level, the index is exact, offers are earned, an unanswered question offers nothing |
| `nested_keys` | property lists of at most five elements | **violation**, see findings |
| `scans` | size scan: four kinds of tree with hard links and odd entries, 2 workers, 1 change, 1 error, 1 failing thread; walk: trees with hard links and overlapping roots, 2 workers, small queue, channel and limits | complete totals and reports are exact; changes are seen |
| `returns` | smaller instances of both scans, the scan task, project and cache previews and the browser | every call returns; a finished task does not change |

**Umbrella runs.** In the five umbrella modules a behaviour belongs to one
component; the properties are conjunctions of each component's own invariant
under its `which`. Nothing is lost by running components side by side, since
they share no state, and what is one idea (a receipt is true, evidence is of one
object) is one property. TLC reports one action per component there; each
component was also checked by itself, where every one of its actions fired.

**Why the bounds are enough.** Two items are the smallest batch with an item
before and after an ambiguity; two crashes allow one during the work and one
during what a restart does. Two operations over a store of one record reach the
limit and let an old receipt meet a new one. The planner needs a nested path, a
neighbour and two version changes to go away from a version and back. Four
operations and three stops let an update be stopped, its recovery be stopped
and recovered again. Two workers and a caller are the smallest scan with a
lender, a borrower and a waiter; a queue of one and a channel of one or two
places fill up. Two sessions are the smallest conflict over the barrier. The
readers take one replacement between any two reads, which is all that a
two-sided comparison must notice, and one failing call. Two previews over one
slot exhaust the observations. One damaged field is the smallest damage; the
validators detect some of it, and `OneFaultInventsNoMove` lists what they do not.
Liveness is checked on instances without outside changes where
these only add states (they end no wait).

**Deadlock** checking is off because the bounded behaviours really end: no
operations, stops, calls or handles are left. That nobody waits for ever is
what `CallsReturn`, `LockIsReleased` and `ReleaseSucceeds` say.

**Fairness.** `Execution!FairSpec`: weak fairness of the steps of a process
that holds the lock; it blocks on nothing but system calls, the native call
included, which are assumed to return (the code has no timeout for it).
`HandleRegistry!FairSpec`: weak fairness of a call in progress, which only tries
locks, and of the end of a worker whose flag is set. `MCReturns!Spec`: weak
fairness of each thread of the component that runs (`Thread`); a thread waits
only for a condition variable, a channel or a join, and is enabled only when
that was notified, has room or ended. Of a scan task only that cancellation is
noticed is assumed, not that a scan ends by itself; of a cache preview that its
budget passes, not that the process listing answers; of the browser that its
loop and its job run, not that anybody presses a key.

**Refinement.** `Execution` maps itself to `EffectLedger`: an item
is *called* while the one native call runs, *returned* afterwards (also when
the process died), and `told` is what readers of the history saw. TLC checks
on an instance, and `ExecutionProofs` proves, that every step of the detailed
specification, crashes and power loss included, is a step of the ledger or a
stutter.

### Findings

* `install_lock`: `recover` drops the locked package after its last effect and
  opens it again before it writes the outcome (`engine/src/installation/macos.rs:2286`),
  while `docs/LOCAL_LIFECYCLE.md:153` calls it lock-preserving. The same window
  lets one operation replace another's pending record, so `EvidenceIsKept` and
  `RecoveryRecognizes` hold for one process only (`LoneEvidenceIsKept`,
  `LoneRecoveryRecognizes`); that mixtures are flagged and that success
  survives holds for two.
* `handles_cap`: `allocate_handle` (`bindings/src/lib.rs:131`) does not count
  runtime previews, while `docs/BINDINGS.md:532` says that all handle kinds
  share the cap.
* `nested_keys`: a dictionary that stands in the root dictionary of an XML
  property list without a key of its own does not count as a value
  (`engine/src/app_inventory.rs:1347`), so its keys are read as keys of the root,
  while `docs/APPLICATIONS.md:143` speaks of selected top-level keys.
  `PlainFieldsAreTopLevel` therefore holds of plain documents only: keys and
  values alternate in the root, and a key or string is one text.

### Observations made while modelling

These are facts about the code that the models keep and that a reader may want
to know; no run presents them as errors.

* *Store.* The removal of a marker and of the guard is only fsynced, so power
  loss may bring either back, which blocks new work and loses nothing.
* *Store, unreadable.* A death, a failing call or a power loss between the
  creation of a `.pending` and its full sync leaves an empty or torn marker.
  `records()` then returns an error for the whole store (`read_record`,
  `engine/src/journal/store.rs:311`), with it `new_id` refuses every further
  operation, and nothing in the program repairs it: the history of every earlier
  operation is out of its reach. `docs/EXECUTION.md:297` calls this an explicit
  read error, and `:309` says never to delete a marker. The history is
  therefore *not* always readable;
  `OnlyATornMarkerRefuses` says that this is the only way it ceases to be, that
  it concerns the last operation and an unconfirmed publication, and that the
  committed receipts are whole beneath it.
* *Lifecycle.* `remove` syncs the detached name with fsync only, so the prefix
  may come back without its payload and is then refused; `recover` without a
  record reports success without barriers; recovery recognizes every state a
  process stop leaves, not every state a power failure leaves.
* *Uninstall.* When Finder gives an error or no answer and the bundle is still
  there, `classify` makes the outcome failed (`engine/src/admin_uninstall.rs:54`)
  and the host is told that nothing was moved (`bindings/src/uninstall.rs:692`).
  Finder may move the bundle afterwards, and the durable receipt denies it. This
  is documented as `delegate_error` in `docs/UNINSTALL_EXECUTION.md:163`, but
  `docs/EXECUTION.md:318` says that no timeout is interpreted as proof that an
  effect did not happen. Receipts are therefore *not* always true;
  `ReceiptsAreTrueSaveLateMoves` leaves out exactly this case (`late` and a
  durable failed), and the model reaches it.
* *Receipts.* An exclusion of `rules trash` outside the root or given twice is
  accepted at preview and refused only when the record is published, after
  the confirmation and before any effect. One damaged field can make a receipt
  lie undetected: a plain or rule record may lose a row; a plain row may be shown
  with another path or inode; a started row may read as skipped or failed; the
  row of a simulator device may have any state. `OneFaultInventsNoMove` claims what
  the validators do give: the kind of operation is unchanged, a row shown as
  succeeded has path or inode of one that moved, the recorded success of an
  object that is still named is not shown as skipped or failed, rows of rules
  name an approved object and rows of related data an approved path, and records
  of tools, Finder and related data lose no row.
* *Commands.* `clean`'s phrase counts `eligible_selected` although the plan may
  exclude more by physical identity; `clean` installs no Ctrl-C handler and the
  others only after confirmation; its interactive selection is cut at 256 bytes
  without looking for the end of the line; `purge` and `uninstall` map an
  interruption to exit code 1, the others to 130.
* *Uninstall.* `sayaka_uninstall_admin_finish_v1` on a handle that delegated
  nothing answers INVALID_HANDLE and yet spends an eligible administrator's
  capability, after which the handle executes nothing; a failed census of running
  applications adds no refusal to the preview, though
  `docs/UNINSTALL_EXECUTION.md:142` speaks of no refusals "including not
  running".
* *Purge.* A selection carries no identity of its preview; starting an
  execution does not look at `closed`; the check `completed < jobs` in
  `projects::measure` and the late-answer checks of `owner_budget` are doubled.
* *Installer preview.* A failed scan status can be overwritten by "partial".
  Text of a name after a comment is ignored by the table-of-contents parser, and
  an empty name leaves `pending_name` set, so that the next name inside that file
  is taken for its name, however deep it stands.
* *Applications.* Inventory errors while reading skip
  `finish` and the policy is restored by `Drop`.
* *Rules.* The class rule looks for cancellation less often than the other; the
  marker read does not notice rewriting in place.
* *Clean policy.* A failed or killed update leaves `.exclusions-v1.json.next`,
  after which every update is refused; a stop between `create_dir` and `chmod`
  leaves a directory that refuses updates; `add` of a recorded name keeps the
  old identity and still prints "Added"; between the last comparison and the
  rename an outside edit can be overwritten; the rename is not followed by a
  sync of the directory; the lock adds nothing to the exclusive staging file.
* *Browser.* A confirmation that meets a worker that already ended makes the
  browser exit with an error rather than show a notice.
* *Status.* After a failed first CPU reading, repeated counters leave the state
  "unavailable" where `docs/STATUS.md` says it remains warming up; rows of a
  stale process table keep their own "fresh"; `q` before the first sample ends
  a panel with 0.
* *Empty Trash.* A deadline that passes after `begin` has published leaves the
  barrier closed.

## 4. Proofs

Every theorem holds for all values of the constants that satisfy the named
assumptions of the modules. These are natural numbers for the bounds, at least
one item and one operation (`NAssumption`, `StoreAssumption`,
`ExecutionAssumption`); known kinds of handle, a cap of at least one and a
mark for a free mutex that is no thread (`RegistryAssumption`); a positive
lifetime of plans, and paths that are sequences of components, a component
being the place of its name in the order of names (`PlannerAssumption`); images
that are positive numbers, and a mark for a free package lock that is no process
(`InstallationAssumption`). `NativeTrash`, `EmptyTrash`, `TrashSessions` and
`PurgeHost` are reached through instances, so `MCTrash` assumes of its constants
what they assume of theirs (`InputsAreSound`): a target among the objects; a mark
for a free lock that is no session; profiles whose items, ids and rows
are lists of known values; sessions of known kinds, of which only
those of the library have caches or a Finder selection, only those of projects
have signatures and a bundle has one path.

`MCRemovals` assumes the same way of its components: devices that are finitely
many and not images, an image for each device and batches of two at least (a
pair is never parted; the code's `MAX_BATCH` is larger); requests that are lists
of devices, images or items, in any order and with repetitions, which the code
refuses; requests of a policy update of known kinds and a mark for a free lock
that is no process; and a browser whose plans have at least one line. Nothing is
assumed of the machine's initial state beyond its shape.

| theorem | states |
|---|---|
| `ExecutionProofs` | the receipt protocol, what is told about an execution, and the refinement |
| `Invariance` | `Spec => []IInv` |
| `TypeCorrect` | `Spec => []TypeOK` |
| `ReceiptsAreTruthful` | `Spec => []TruthfulReceipts`: no receipt that any recoverable directory shows denies a move or invents one |
| `IntentsAreDurable` | `Spec => []IntentIsDurable`: during the native call every recoverable directory reads and discloses the item |
| `StagesAreGuarded` | `Spec => []NoOrphanStage` |
| `CommittedIsWhole` | `Spec => []CommittedNeverTorn` |
| `HistoryInvariance` | `Spec => [](IInv /\ HInv)` |
| `AmbiguityStops` | `AmbiguityStopsTheBatch`: after an Unknown no later item is handed to the system |
| `ConfirmedIsDurable` | `ConfirmedMeansDurable`: an outcome that was shown cannot vanish |
| `OnlyATornMarker` | `OnlyATornMarkerRefuses`: what `records()` refuses is the torn marker of the last, unconfirmed publication; no orphaned stage, no torn receipt, never more records than the limit |
| `ReportAgrees` | `ReportAgreesWithHistory` |
| `LedgerInvariance` | `Spec => [](IInv /\ HInv /\ LInv)` |
| `LedgerImplemented` | `Spec => ImplementsLedger`: `Execution` implements `EffectLedger` under the mapping at its end |
| `RegistryProofs` | the handle registry |
| `RegistryInvariance` | its inductive invariant |
| `NoWorkIsLostAlways`, `OneExecutionAlways` | `NoWorkIsLost`, `OneExecution` |
| `CountedWithinCapAlways` | the handles `allocate_handle` counts are at most `MAX_TASKS`; the finding `handles_cap` is about the ones it does not count |
| `PlannerProofs` | the planner |
| `PlannerInvariance` | its inductive invariant |
| `ItemsAreSeparateAlways`, `ApprovalIsSpentOnceAlways`, `ReadyItemsWereShownAlways` | the invariants of the run `planner` |
| `DeadPlansStayDeadAlways` | the action property `DeadPlansStayDead` |
| `TrashProofs` | native boundary, Empty Trash, sessions and purge host |
| `TrashInvariance` | the inductive invariant of all four |
| `OneMutationAlways` | `OneMutation`: Foundation is called once at most by a submission; an event is sent once at most by a session |
| `OnlyTheApprovedIsMovedAlways` | `OnlyTheApprovedIsMoved`: at each of the four places only what was approved and looked at last is moved |
| `ReportsAreTrueAlways` | `ReportsAreTrue`: Refused and Failed mean untouched, Moved means the approved object; what an entry, a row or a reply says is what happened |
| `NoEventOverAmbiguityAlways` | `NoEventOverAmbiguity`: no event is sent while any recoverable state of the stores leaves an earlier one unresolved |
| `RemovalProofs` | leftovers, uninstall, simulators and runtimes, browser, clean policy |
| `RemovalInvariance` | the inductive invariants of all five, those of the sessions from `SessionProofs` |
| `ReceiptsAreTrueSaveLateMovesAlways` | `ReceiptsAreTrueSaveLateMoves`: no receipt of a session denies or invents an effect, also one that simctl's service brings late, save for a move by Finder after its error or silence was recorded as failed; the report of the browser is shown |
| `QuietBatchCompletesAlways` | `QuietBatchCompletes`: an undisturbed batch of leftovers moves and records all it was approved for |
| `PolicyIsKeptAlways` | `PolicyIsKept`: no update loses an exclusion, what is published can be read again |
| `EffectsAreGuardedAlways` | `EffectsAreGuarded`: no tool call after an unclear one, images after their devices, one execution per uninstall handle, exclusions in force protect, only a confirmed plan is moved |
| `InstallationProofs` | the local lifecycle |
| `InstallationInvariance` | its inductive invariant |
| `PromiseAlwaysSurvives` | `PromiseSurvives`: a power failure cannot undo or tear what a success said |
| `MixtureIsAlwaysFlagged` | `MixtureIsFlagged`: an executable its manifest does not describe has a guard and a pending record beside it |

TLC checked each inductive invariant on a small instance before it was proved.

**Receipts.** None of the properties is inductive: truthfulness of what is
readable now says nothing of what a later rename publishes or of what a power
loss brings back. `IInv` therefore speaks of every value a name may *ever*
recover with: all readable ones are truthful (`SlotsTruthful`), committed ones
are synced, a stage is never without a marker (`NextGuarded`). It adds what
each system call of a publication finds (`PublishInv`, one line per call),
that the marker only weakens the record to Unknown (`FallbackWeaker`), that
the record in memory is truthful and later items are untouched
(`MemoryTruthful`), and that from the clean intent to the native call the
committed receipt says Started (`LoopInv`). The proof has one lemma for the
store's calls (`PublishingInv`), which rests on four facts about directory
updates and syncs, one for the loop, one for each of start, crash, power loss
and the move, and a separate one for types.

**Report and history.** `HInv` is a second layer over `IInv`, which it assumes.
Calls go through the batch in order and an Unknown is behind all of them
(`CallsInOrder`, `LoopAhead`, `AmbiguityOrder`); that is why the batch stops.
An outcome in a marker, or in one about to be written, is also in every
committed receipt that may recover (`MarkersBacked`, `FallbackBacked`); while a
marker may be missing the committed receipt has one value only
(`CommitSettled`); and the operations with any trace fit into the limit, with
room for the one being published (`RoomLeft`, a cardinality argument). The
record in memory and every receipt that may recover differ only by what a
reader reconciles to Unknown (`AgreementInv`, `ReportInv`).

**What is refused.** A marker that is not fully synced is on disk as such, is of
the last operation, and its publication is not confirmed (`MarkersWritten`):
`new_id` starts nothing over a marker, and a publication confirms nothing before
its marker was synced and removed.

**Refinement.** `LInv` says that no record, in memory, on the drive or told to
a reader, is wrong about which items were handed to the system. With it each
step is mapped: the native call to `Call`, the effect to `Move`, the return and
the death of the process during the call to `Return`, the reading of the
history to `Tell`, every
other step, each system call of a publication included, to a stutter.

**Registry.** That no worker is lost depends on what a release finds after it
took the job's mutex, so the invariant says that a call past `try_lock` holds it
(`GuardsAreHeld`), that a job somebody reaches is registered or closed
(`CallsReachJobs`) and that a closed job is empty. One execution needs that a
preview that is still there has not been executed (`PreviewsAreUnspent`), and
that a cancellation a caller knew of does not go away (`WarningsHold`).

**Planner.** The code sorts a selection and compares neighbours only. Lemma
`NeighboursSuffice` shows that this finds every overlap: everything the order
puts between a directory and something inside it is inside it too, and the
first of these is the directory's neighbour (found by descent over the strict
subsets of a finite set).
The rest of the invariant ties a running validation to its plan
(`ValidationFollowsPlan`) and says why a dead plan stays dead: it expired before
a time the planner remembers, or its generation has passed
(`DeathIsRemembered`).

**Native boundary.** `attempted.swap` admits one submission (`OneSubmission`);
what that one knows of its call (`CallIsKnown`) makes refusals honest; and while
nobody disturbs the destination, a replacement that was moved keeps the approved
object out of the Trash (`ReplacementIsSeen`).

**Empty Trash.** Who works on the stores holds their lock (`Excludes`), so what
a session counted of the entries stays true until it writes (`Reckons`). The
guard is laid, with the barrier, before the event is sent (`Lays`), and a
closed barrier whose entry may be lost would let a second event through:
the invariant therefore speaks of every entry a power failure may leave
(`EntriesTell`), not only of the ones on disk.

**Purge host.** What a worker moves is what the preview showed because ids
are resolved against it before anything is prepared (`Resolves`); rows and
reply pair with the items in the order in which they were moved (`PairsRows`,
`PairsReply`); and what has left the preview is never shown again (`HasLeft`).

**Sessions.** The items of a batch are those selected, looked at together
(`Selected`, `Together`). Between the last look at an item and the native call
anything may change, so the invariant says exactly which wrongness the call may
still meet: one that came after that look (`Looks`, `OnlyFresh`). An item is
reported as left alone only if the batch has not come to it (`BatchLeft`).

**Local lifecycle.** The properties speak of what a power failure *may* leave,
so the invariant ranges over every value a name may recover with (`Vals`). One
part says what each process may rely on where it stands (`Works`). Whoever
works on the installed package holds its lock, and the package stays installed
meanwhile (`HoldsLock`). What `sync_published` made durable stays so until the
operation answers (`Earned`, `Settled`), which gives `PromiseSurvives`. For
`MixtureIsFlagged` the invariant follows an update to its first rename (`Flags`,
`Lays`): the guard becomes durable, then the first record does, and behind the
barrier that `u_sync` waits for, no recoverable directory lacks either
(`Flagged`). Then wherever executable and manifest may recover with different
images the package is flagged (`MixturesAreFlagged`). A recovery that decides to
keep the new executable renames a manifest too, and has only seen what is on
disk now. It may rely on the flag because a record names two different images
(`RecordsAreProper`) and the operation that created a file determines its image
(`ImagesAreOfOneKind`): what it found is a mixture (`FinalizeIsFlagged`). The
proof has a lemma about each file operation, a frame (`Effects`: the names a
step may touch, and who may touch them), one lemma per part of the invariant for
the steps of a process, and one for the power failure.

**Leftovers.** What a row says of an item is true of the record in memory and of
the durable one (`Tells`), which needs that no item still to be handled is in the
Trash (`OrphanQueue`) and that a move has its own durable start
(`OrphanStands`). That a quiet batch completes is a claim about every
observation along it: while nobody has interfered, the machine is the one that
was previewed but for what the batch moved (`QuietWorld`, `QuietPreview`), so
each look finds what the preview found and each item that is not to be done any
more has succeeded (`QuietBatch`).

**Uninstall.** A receipt may say that nothing was moved only while the bundle is
not in the Trash and Finder is not asked, or in the exempted case, after an
error or silence of Finder that a late move may contradict (`Admits`); it is the
same clause
for the receipt in memory and the durable one. A handle that has not begun has
written nothing, and one that has is consumed in both versions of the interface
(`BeginsOnce`). An item in the Trash implies the bundle's durable success and its
own start (`ItemsFollow`).

**Simulators and runtimes.** `Calls` describes what `pair_batches` may cut a
selection into; `ToolPlan` says that the calls to be made are disjoint, name
whole pairs of listed devices and stay inside the selection. The service acts
only on what was called (`ToolHits`), a called target has a durable row from its
start on (`ToolRows`), and what a row says afterwards is what the listing could
tell: a device that is still there, with its old data, and no effect pending.
After an unclear call the session has stopped (`ToolStops`), which is why an
image is never reached before its devices are known to be gone (`ToolOrder`).

**Browser.** The invariant ties the thread's plan to the screen: what was
confirmed is the plan the loop took, of versions the scan showed, with every line
drawn (`JobStands`, `LoopShows`, `PagesDrawn`); and an execution that left
something undone is either not joined yet or in the exit code (`Pending`,
`BrowserLeft`).

**Clean policy.** Whoever holds the lock read the file after it got it, and what
is owed to others is in what it read when it publishes (`PolicyUpdates`). A file
that bears the stamp a preview saw has the roots the preview read (`AsRead`), so
that comparing stamps right before the native call is enough (`PolicyGuards`).

**Only model-checked.** All liveness (`LockIsReleased`, `ReleaseSucceeds`,
`CallsReturn`), which this prover cannot treat. `LoneRecoveryRecognizes` and
`LoneEvidenceIsKept` of `MCInstallation`, which are claimed of one process
alone. The scans and the task behind them (`CompleteIsExact`, `ChangesAreSeen`,
`FinishedIsFinal`) and the readers (the run `inspection`), whose invariants are
not proved. `MCReturns` and `MCInspection` reach `ProjectPreview` and
`ScanIndex`, which recurse over trees, and what `TocHints`, `InfoPlist` and
`ScanIndex` compute is a matter of induction over data. `NoOutcomeIsUnrecorded` and `OneFaultInventsNoMove` of
`MCRemovals`: they compare what the validators of `JournalSchema` accept with
what the writers produce, in single records, and have no history to be inductive
over.

A next theorem would be that a complete total of `ParallelScan` is exact.

## 5. Not modelled

`PROJECT.json` gives the reason for each part. In short: history queries and
read-only diagnostics (one reading each, no state), argument parsing, menus,
layout and wire formats, stateless platform probes (their answers are the
nondeterministic inputs of the modules), the Windows crate, scripts and
benchmarks. `receipt.rs` is a pure description that only tests use. The
launchers write a fixed set of files; an install or removal interrupted half
way leaves a directory the tool then refuses, and two installs at once share
temporary names, but no reader depends on the order. In modelled parts, byte
budgets of the store, digests, file contents, the Git subprocess protocol, the
matching catalogues of leftovers and the validators of runtime and leftover
receipts are abstracted.
