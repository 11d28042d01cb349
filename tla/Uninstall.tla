------------------------------ MODULE Uninstall ------------------------------
(***************************************************************************)
(* One uninstall handle (crates/bindings/src/uninstall.rs and uninstall/   *)
(* related.rs) and the engine's sessions behind it: the ordinary move of a *)
(* bundle, the administrator's move performed by Finder                    *)
(* (admin_uninstall.rs) and the bundle-first move of related data with its *)
(* two linked receipts (related_uninstall.rs).                             *)
(*                                                                         *)
(* The calls of a handle exclude each other (lock_job answers BUSY), but   *)
(* cancellation, Finder and other programs do not wait.                    *)
(***************************************************************************)
EXTENDS Naturals, Sequences, FiniteSets, SequencesExt

CONSTANTS
  Cases,      \* [facts, gate, rules, order]: the bundle, the release gate, what
              \* is known of each item and the items the user selects
  Items,      \* related items
  MaxFaults,  \* bound on failing publications and observations
  MaxMoves    \* bound on what other programs do

\* What the instances of the module assume of its parameters.
UninstallAssumption ==
  /\ MaxFaults \in Nat /\ MaxMoves \in Nat
  /\ \A c \in Cases : c.order \in Seq(Items)

VARIABLES
  case,
  facts, bundle, swap, item, policy, copy,  \* the machine
  asked,                                    \* Finder was asked and may still act
  pc, session, admin, related, offered, cancel, closed, expired, result,
  parent, child, dParent, dChild, parentErr, childErr, todo, refused,
  begun, late,                              \* history
  faults, moves

world == <<facts, bundle, swap, item, policy, copy, asked>>
job == <<session, admin, related, offered, cancel, closed, expired, result>>
receipts == <<parent, child, dParent, dChild, parentErr, childErr, todo, refused>>
ghosts == <<begun, late>>
vars == <<case, world, pc, job, receipts, ghosts, faults, moves>>

Goto(p) == pc' = p
Fault == faults < MaxFaults /\ faults' = faults + 1

----------------------------------------------------------------------------
(* Observations.                                                           *)

\* classify_bundle_uninstaller: what the manifest's identifier says.
Manifest(f) == f \cap {"badId", "vendor"}

\* observe_running: a census that fails leaves the state unknown and refuses
\* nothing; an unreadable executable directory refuses.
Running(f) == f \cap {"running", "unreadable"}

\* preview_bundle_uninstall: the first four refusals end the preview.
Early == {"system", "missing", "link", "file"}
Refusals(f) ==
  IF f \cap Early # {} THEN {CHOOSE r \in Early : r \in f}
  ELSE (f \cap {"name", "remote", "noPlist"}) \cup Manifest(f) \cup Running(f)

\* AdminBundleEvidence::capture and admin_evidence: the bundle is root's.
AdminEvidence(f) == Refusals(f) = {} /\ "root" \in f
\* BundleTrashCandidate::capture refuses what root owns.
OrdinaryPlan(f) == Refusals(f) = {} /\ "root" \notin f

CheckBundle == bundle = "here" /\ Refusals(facts) = {}

\* observe_copies, inspect_copy: only the bundle itself, or where it was moved.
NoOtherCopy == ~copy

\* shared_guard; moved is whether the bundle has to be in the Trash by now.
Guard(moved) ==
  /\ ~cancel /\ ~expired /\ policy /\ NoOtherCopy
  /\ moved => bundle = "trash" /\ ~swap
  /\ "running" \notin facts

\* RelatedUninstallSession::prepare
Complete ==
  /\ Refusals(facts) = {} /\ Guard(FALSE)
  /\ \A x \in Items : "unadmitted" \notin case.rules[x]
Supported(x) == case.gate /\ case.rules[x] = {} /\ Complete

----------------------------------------------------------------------------
(* The handle.                                                             *)

\* sayaka_uninstall_preview_start_v1
PreviewStart ==
  /\ pc = "new"
  /\ session' = OrdinaryPlan(facts)
  /\ admin' = IF AdminEvidence(facts) THEN "eligible" ELSE "unavailable"
  /\ Goto("idle")
  /\ UNCHANGED <<case, world, related, cancel, offered, closed, expired, result, receipts, ghosts, faults, moves>>

\* Mutant: a consumed administrator capability does not end the handle.
EnsureIdleV1 == pc = "idle" /\ ~closed /\ result = "none"

\* ensure_idle
EnsureIdle ==
  /\ pc = "idle" /\ ~closed /\ result = "none"
  /\ related # "awaiting" /\ admin \notin {"awaiting", "consumed"}

\* sayaka_uninstall_related_preview_v2: the earlier capability is gone first.
RelatedPreview ==
  /\ EnsureIdle
  /\ \/ related' = "ready" /\ bundle = "here" /\ UNCHANGED faults
     \/ Fault /\ related' = "none"
  /\ offered' = {x \in Items : Supported(x)}
  /\ expired' = FALSE
  /\ UNCHANGED <<case, world, pc, session, admin, cancel, closed, result, receipts, ghosts, moves>>

\* sayaka_uninstall_execute_v1; the plan's own execution is module Execution.
ExecuteV1 ==
  /\ EnsureIdle /\ session
  /\ session' = FALSE
  /\ related' = "none"
  /\ begun' = begun + 1
  /\ \/ /\ CheckBundle
        /\ bundle' = "trash"
        /\ \/ parent' = "succeeded" /\ dParent' = "succeeded" /\ UNCHANGED faults
           \/ Fault /\ parent' = "unknown" /\ dParent' \in {"started", "unknown"}
     \/ parent' \in {"skipped", "failed"} /\ dParent' = parent' /\ UNCHANGED <<bundle, faults>>
  /\ result' = parent'
  /\ UNCHANGED <<case, facts, swap, item, policy, copy, asked, pc, admin, cancel, offered, closed, expired, child, dChild, parentErr, childErr, todo, refused, late, moves>>

\* sayaka_uninstall_admin_begin_v1 and admin_uninstall::begin: looked at again,
\* then the intent is written as started; only then is Finder asked.
AdminBeginV1 ==
  /\ EnsureIdle /\ admin = "eligible"
  /\ \/ /\ CheckBundle /\ AdminEvidence(facts)
        /\ parent' = "started" /\ dParent' = "started"
        /\ admin' = "awaiting" /\ related' = "none" /\ asked' = TRUE
        /\ begun' = begun + 1
        /\ UNCHANGED <<result, faults>>
     \/ /\ \/ ~(CheckBundle /\ AdminEvidence(facts)) /\ UNCHANGED <<faults, dParent>>
           \/ Fault /\ dParent' \in {dParent, "started"}
        /\ admin' = "consumed" /\ result' = "refused"
        /\ UNCHANGED <<parent, related, asked, begun>>
  /\ UNCHANGED <<case, facts, bundle, swap, item, policy, copy, pc, session, cancel, offered, closed, expired, child, dChild, parentErr, childErr, todo, refused, late, moves>>

\* begin: the gate, the approval and everything it names, looked at again.
Begins ==
  /\ case.gate /\ ~expired /\ case.order # <<>> /\ IsInjective(case.order) /\ ToSet(case.order) \subseteq offered
  /\ CheckBundle /\ Guard(FALSE) /\ \A x \in ToSet(case.order) : item[x] = "here"

\* sayaka_uninstall_execute_v2, sayaka_uninstall_admin_begin_v2 and begin: the
\* attempt uses up every capability, also when it is refused.
ExecuteV2 ==
  /\ EnsureIdle /\ related = "ready"
  /\ related' = "none" /\ session' = FALSE /\ admin' = "consumed"
  /\ begun' = begun + 1
  /\ IF Begins
       THEN /\ parent' = "planned"
            /\ child' = [x \in Items |-> IF x \in ToSet(case.order) THEN "planned" ELSE "none"]
            /\ todo' = case.order
            /\ Goto("intent") /\ UNCHANGED result
       ELSE result' = "refused" /\ UNCHANGED <<pc, parent, child, todo>>
  /\ UNCHANGED <<case, world, cancel, offered, closed, expired, dParent, dChild, parentErr, childErr, refused, late, faults, moves>>

\* sayaka_uninstall_cancel_v2 does not take the job's lock.
Cancel ==
  /\ ~cancel /\ pc # "new" /\ ~closed
  /\ cancel' = TRUE
  /\ UNCHANGED <<case, world, pc, session, admin, related, offered, closed, expired, result, receipts, ghosts, faults, moves>>

\* sayaka_uninstall_release_v1: a delegated move is dropped as it stands.
Release ==
  /\ pc = "idle" /\ ~closed
  /\ closed' = TRUE
  /\ UNCHANGED <<case, world, pc, session, admin, related, cancel, offered, expired, result, receipts, ghosts, faults, moves>>

----------------------------------------------------------------------------
(* The related operation.                                                  *)

\* publish(...).and_then(require_clean)
PublishParent(value) ==
  \/ dParent' = value /\ UNCHANGED <<parentErr, faults>>
  \/ Fault /\ parentErr' = TRUE /\ dParent' \in {dParent, value}
PublishChild ==
  \/ dChild' = child /\ UNCHANGED <<childErr, faults>>
  \/ Fault /\ childErr' = TRUE /\ dChild' \in {dChild, child}

\* Both intents before any effect; a failure here refuses everything.
PublishIntents ==
  /\ pc \in {"intent", "intent2"}
  /\ IF pc = "intent"
       THEN PublishParent("planned") /\ UNCHANGED <<dChild, childErr>>
       ELSE PublishChild /\ UNCHANGED <<dParent, parentErr>>
  /\ IF parentErr' \/ childErr' THEN Goto("idle") /\ result' = "refused"
     ELSE Goto(IF pc = "intent" THEN "intent2" ELSE "start") /\ UNCHANGED result
  /\ UNCHANGED <<case, world, session, admin, related, cancel, offered, closed, expired, parent, child, todo, refused, ghosts, moves>>

\* parent_start: everything once more, then a durable start.  Root's bundle
\* waits for Finder (admin_begin).
ParentStart ==
  /\ pc = "start"
  /\ IF CheckBundle /\ Guard(FALSE)
       THEN parent' = "started" /\ Goto("started")
       ELSE parent' = "skipped" /\ Goto("parent")
  /\ UNCHANGED <<case, world, job, child, dParent, dChild, parentErr, childErr, todo, refused, ghosts, faults, moves>>

PublishStarted ==
  /\ pc = "started"
  /\ PublishParent("started")
  /\ IF parentErr' THEN parent' = "skipped" /\ Goto("parent") /\ UNCHANGED <<related, asked>>
     ELSE IF "root" \in facts
       THEN related' = "awaiting" /\ asked' = TRUE /\ Goto("idle") /\ UNCHANGED parent
       ELSE Goto("move") /\ UNCHANGED <<related, asked, parent>>
  /\ UNCHANGED <<case, facts, bundle, swap, item, policy, copy, session, admin, cancel, offered, closed, expired, result, child, dChild, childErr, todo, refused, ghosts, moves>>

\* move_to_trash_with_last_guard and apply (the native call is NativeTrash).
MoveBundle ==
  /\ pc = "move"
  /\ \/ ~(CheckBundle /\ Guard(FALSE)) /\ parent' = "skipped" /\ UNCHANGED <<bundle, faults>>
     \/ CheckBundle /\ Guard(FALSE) /\ bundle' = "trash" /\ parent' = "succeeded" /\ UNCHANGED faults
     \/ Fault /\ parent' = "failed" /\ UNCHANGED bundle
     \/ Fault /\ parent' = "unknown" /\ CheckBundle /\ Guard(FALSE) /\ bundle' \in {"here", "trash"}
  /\ Goto("parent")
  /\ UNCHANGED <<case, facts, swap, item, policy, copy, asked, job, child, dParent, dChild, parentErr, childErr, todo, refused, ghosts, moves>>

\* classify: decided by what is seen at the path and in the user's Trash; seen
\* is "here", "gone" or "unseen".
Classify(seen, inTrash, status) ==
  CASE seen = "here" -> IF status = "reported" THEN "unknown" ELSE "failed"
    [] seen = "gone" /\ inTrash -> "succeeded"
    [] OTHER -> "unknown"

\* sayaka_uninstall_admin_finish_v1, DelegatedMove::finish and admin_finish: a
\* reported success is waited for a while.
AdminFinish ==
  /\ pc = "idle" /\ ~closed /\ result = "none"
  /\ related = "awaiting" \/ admin = "awaiting"
  /\ \E status \in {"reported", "cancelled", "error"}, seen \in {"here", "gone", "unseen"}, found \in BOOLEAN :
       /\ seen = "here" => bundle = "here"
       /\ seen = "gone" => bundle # "here"
       /\ found => bundle = "trash" /\ seen = "gone"
       /\ IF seen = "unseen" \/ (seen = "gone" /\ bundle = "trash" /\ ~found) THEN Fault ELSE UNCHANGED faults
       /\ status = "cancelled" => asked' = FALSE  \* the user closed the prompt
       /\ status = "reported" => asked' = FALSE
       /\ status = "error" => UNCHANGED asked     \* or it never answered
       /\ parent' = Classify(seen, found, status)
       /\ late' = (asked' /\ parent' = "failed")
  /\ admin' = "consumed" /\ related' = "none"
  /\ Goto(IF related = "awaiting" THEN "parent" ELSE "recordV1")
  /\ UNCHANGED <<case, facts, bundle, swap, item, policy, copy, session, cancel, offered, closed, expired, result, child, dParent, dChild, parentErr, childErr, todo, refused, begun, moves>>

\* The same call when nothing was delegated answers INVALID_HANDLE, but the way
\* through the administrator is gone by then, an eligible one included.
AdminFinishUnasked ==
  /\ pc = "idle" /\ ~closed /\ result = "none"
  /\ related # "awaiting" /\ admin # "awaiting"
  /\ admin' = "consumed"
  /\ UNCHANGED <<case, world, pc, session, related, offered, cancel, closed, expired, result, receipts, ghosts, faults, moves>>

RecordV1 ==
  /\ pc = "recordV1"
  /\ PublishParent(parent)
  /\ result' = IF parentErr' THEN "unknown" ELSE parent
  /\ Goto("idle")
  /\ UNCHANGED <<case, world, session, admin, related, cancel, offered, closed, expired, parent, child, dChild, childErr, todo, refused, ghosts, moves>>

RecordParent ==
  /\ pc = "parent"
  /\ PublishParent(parent)
  /\ Goto("items")
  /\ UNCHANGED <<case, world, job, parent, child, dChild, childErr, todo, refused, ghosts, moves>>

\* finish_related: what every item needs before its own checks.
Authorized == ~parentErr /\ parent = "succeeded" /\ ~cancel /\ ~expired

\* SharedAuthority::check: a refusal stays.
Allowed == ~refused /\ Guard(TRUE)

ItemStep ==
  /\ pc = "items" /\ todo # <<>> /\ ~childErr
  /\ LET x == Head(todo) IN
       IF Authorized /\ Allowed /\ item[x] = "here"
         THEN child' = [child EXCEPT ![x] = "started"] /\ Goto("itemStart") /\ UNCHANGED <<todo, refused>>
         ELSE /\ child' = [child EXCEPT ![x] = "skipped"]
              /\ refused' = (refused \/ (Authorized /\ ~Guard(TRUE)))
              /\ todo' = Tail(todo)
              /\ Goto("itemRecord")
  /\ UNCHANGED <<case, world, job, parent, dParent, dChild, parentErr, childErr, ghosts, faults, moves>>

PublishItemStart ==
  /\ pc = "itemStart"
  /\ PublishChild
  /\ Goto(IF childErr' THEN "finish" ELSE "itemMove")
  /\ UNCHANGED <<case, world, job, parent, child, dParent, parentErr, todo, refused, ghosts, moves>>

\* The last guard, the native call and apply.
MoveItem ==
  /\ pc = "itemMove"
  /\ LET x == Head(todo) IN
       \/ /\ ~(Allowed /\ item[x] = "here")
          /\ child' = [child EXCEPT ![x] = "skipped"] /\ refused' = (refused \/ ~Guard(TRUE))
          /\ UNCHANGED <<item, faults>>
       \/ /\ Allowed /\ item[x] = "here"
          /\ item' = [item EXCEPT ![x] = "trash"] /\ child' = [child EXCEPT ![x] = "succeeded"]
          /\ UNCHANGED <<refused, faults>>
       \/ Fault /\ child' = [child EXCEPT ![x] = "failed"] /\ UNCHANGED <<item, refused>>
       \/ /\ Fault /\ Allowed /\ item[x] = "here"
          /\ item' \in {item, [item EXCEPT ![x] = "trash"]}
          /\ child' = [child EXCEPT ![x] = "unknown"] /\ UNCHANGED refused
  /\ todo' = Tail(todo)
  /\ Goto("itemRecord")
  /\ UNCHANGED <<case, facts, bundle, swap, policy, copy, asked, job, parent, dParent, dChild, parentErr, childErr, ghosts, moves>>

RecordItem ==
  /\ pc = "itemRecord"
  /\ PublishChild
  /\ Goto("items")
  /\ UNCHANGED <<case, world, job, parent, child, dParent, parentErr, todo, refused, ghosts, moves>>

\* execution_bytes: the state the host is told.
Told(c) ==
  LET states == {parent} \cup ({c[x] : x \in Items} \ {"none"}) IN
  CASE parentErr \/ childErr \/ states \cap {"unknown", "started", "planned"} # {} -> "unknown"
    [] states = {"succeeded"} /\ ~parentErr /\ ~childErr -> "completed"
    [] OTHER -> IF "succeeded" \in states THEN "partial" ELSE IF "failed" \in states THEN "failed" ELSE "skipped"

Finish ==
  /\ pc = "finish" \/ (pc = "items" /\ (todo = <<>> \/ childErr))
  /\ child' = [x \in Items |->
       IF child[x] = "planned" THEN "skipped" ELSE IF child[x] = "started" THEN "unknown" ELSE child[x]]
  /\ result' = Told(child')
  /\ Goto("idle")
  /\ UNCHANGED <<case, world, session, admin, related, cancel, offered, closed, expired, parent, dParent, dChild, parentErr, childErr, todo, refused, ghosts, faults, moves>>

----------------------------------------------------------------------------
(* The rest of the machine.                                                *)

\* Finder resolves the path itself, so it may move a stranger.
FinderMoves ==
  /\ asked
  /\ asked' = FALSE
  /\ IF bundle = "here" THEN bundle' = "trash" /\ UNCHANGED swap
     ELSE swap' = FALSE /\ UNCHANGED bundle
  /\ UNCHANGED <<case, facts, item, policy, copy, pc, job, receipts, ghosts, faults, moves>>

Interfere ==
  /\ pc # "new" /\ moves < MaxMoves /\ moves' = moves + 1
  /\ \/ facts' = facts \cup {"running"} /\ UNCHANGED <<bundle, swap, item, policy, copy>>
     \/ bundle = "here" /\ bundle' = "away" /\ swap' = TRUE /\ UNCHANGED <<facts, item, policy, copy>>
     \/ \E x \in Items : item[x] = "here" /\ item' = [item EXCEPT ![x] = "changed"]
          /\ UNCHANGED <<facts, bundle, swap, policy, copy>>
     \/ policy' = FALSE /\ UNCHANGED <<facts, bundle, swap, item, copy>>
     \/ copy' = TRUE /\ UNCHANGED <<facts, bundle, swap, item, policy>>
  /\ UNCHANGED <<case, asked, pc, job, receipts, ghosts, faults>>

Expire ==
  /\ ~expired /\ pc # "new"
  /\ expired' = TRUE
  /\ UNCHANGED <<case, world, pc, session, admin, related, cancel, offered, closed, result, receipts, ghosts, faults, moves>>

Crash ==
  /\ pc \notin {"new", "dead"} /\ result = "none" /\ ~closed
  /\ Fault
  /\ Goto("dead")
  /\ UNCHANGED <<case, world, job, receipts, ghosts, moves>>

NoChild == [x \in Items |-> "none"]

Init ==
  /\ case \in Cases
  /\ facts = case.facts /\ bundle = "here" /\ swap = FALSE
  /\ item = [x \in Items |-> "here"] /\ policy = TRUE /\ copy = FALSE /\ asked = FALSE
  /\ pc = "new" /\ session = FALSE /\ admin = "unavailable" /\ related = "none" /\ offered = {}
  /\ cancel = FALSE /\ closed = FALSE /\ expired = FALSE /\ result = "none"
  /\ parent = "none" /\ child = NoChild /\ dParent = "none" /\ dChild = NoChild
  /\ parentErr = FALSE /\ childErr = FALSE /\ todo = <<>> /\ refused = FALSE
  /\ begun = 0 /\ late = FALSE /\ faults = 0 /\ moves = 0

Next ==
  \/ PreviewStart \/ RelatedPreview \/ ExecuteV1 \/ AdminBeginV1 \/ ExecuteV2 \/ Cancel \/ Release
  \/ PublishIntents \/ ParentStart \/ PublishStarted \/ MoveBundle \/ AdminFinish \/ AdminFinishUnasked
  \/ RecordV1 \/ RecordParent \/ ItemStep \/ PublishItemStart \/ MoveItem \/ RecordItem \/ Finish
  \/ FinderMoves \/ Interfere \/ Expire \/ Crash

Spec == Init /\ [][Next]_vars

----------------------------------------------------------------------------
(* Properties.                                                             *)

\* Two linked receipts tell the truth whatever is interrupted between them, save
\* for one case: a bundle in the Trash has a receipt that says at least started,
\* a related item is only ever moved under its own durable start and after the
\* bundle's success is durable, the child's receipt never exists without the
\* parent's, and a refused or skipped result moved nothing.  The case left out
\* (late): Finder answered with an error, or not at all, while the bundle was
\* still there, classify made that failed (admin_uninstall.rs:54), and Finder
\* moved the bundle afterwards.  There the durable receipt denies the move, and
\* with it the sentence "No timeout is interpreted as proof that an effect did
\* not happen" (docs/EXECUTION.md:318) does not hold of the delegated move.
LinkedReceiptsAreTrueSaveLateMoves ==
  /\ bundle = "trash" => dParent \in {"started", "succeeded", "unknown"} \/ (late /\ dParent = "failed")
  /\ \A x \in Items : item[x] = "trash" =>
       dParent = "succeeded" /\ dChild[x] \in {"started", "succeeded", "unknown"}
  /\ dChild # NoChild => dParent # "none"
  /\ result \in {"refused", "skipped"} => bundle # "trash" /\ \A x \in Items : item[x] # "trash"

\* A handle starts at most one execution, whichever of its interfaces is used,
\* and once that has begun no preview brings a capability back.
OneExecutionPerHandle == begun <= 1

=============================================================================
