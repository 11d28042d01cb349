------------------------------ MODULE Leftovers ------------------------------
(***************************************************************************)
(* Leftover data of applications that are gone: the retained preview and   *)
(* its one execution (crates/engine/src/orphan_execution.rs), the          *)
(* observations both share (app_observation.rs, platform-macos orphans.rs) *)
(* the schema 9 receipt (orphan_journal.rs) and the handle a host drives   *)
(* them by (crates/bindings/src/orphan_execution.rs).                      *)
(*                                                                         *)
(* Everything the preview concluded is observed again before each item and *)
(* once more inside the native call; the batch's own moves change what     *)
(* those observations find in the Trash.                                   *)
(***************************************************************************)
EXTENDS Naturals, Sequences, FiniteSets, SequencesExt

CONSTANTS
  Ids,         \* bundle identifiers
  Parent,      \* Parent[i]: the identifiers that are a dotted prefix of i
  Items,       \* entries under ~/Library
  Cases,       \* [items : Items -> [id, rule, facts], gate, order, trash]
  Sources,     \* where a copy of an application may be observed
  MaxFaults, MaxMoves

\* What the instances of the module assume of its parameters.
LeftoversAssumption ==
  /\ MaxFaults \in Nat /\ MaxMoves \in Nat /\ Parent \in [Ids -> SUBSET Ids]
  /\ \A c \in Cases : c.order \in Seq(Items) /\ \A x \in Items : c.items[x].id \in Ids

VARIABLES
  case,
  copies, running, trash, agents, policy, recent, item, place,  \* the machine
  pc, offered, seenTrash, seenAgents, cancel, closed, expired,  \* the handle
  sel, todo, latch, moved, rec, dRec, jerr, result,             \* the operation
  faults, moves

world == <<copies, running, trash, agents, policy, recent, item, place>>
handle == <<offered, seenTrash, seenAgents, cancel, closed, expired>>
operation == <<sel, todo, latch, moved, rec, dRec, jerr, result>>
vars == <<case, world, pc, handle, operation, faults, moves>>

Goto(p) == pc' = p
Fault == faults < MaxFaults /\ faults' = faults + 1
Id(x) == case.items[x].id
Rule(x) == case.items[x].rule
Has(x, fact) == fact \in case.items[x].facts

----------------------------------------------------------------------------
(* Observations.                                                           *)

\* trash_bundles: applications in the Trash, by listing it and by what the
\* histories name.  A leftover whose name ends in .app is read as one, and has
\* no manifest, unless it is a move of this very batch.
TrashReadable == \A x \in Items : item[x] = "trash" /\ Has(x, "appNamed") => x \in moved
TrashBundles == trash

\* copies_observed: the roots, the registry and Spotlight all have to answer;
\* a bundle of the verified Trash is no installed copy.
NoCopy(i) == copies[i] = {}
Queries(i) == {i} \cup Parent[i]

\* policy_guard
PolicyGuard(x) == policy /\ ~Has(x, "excluded")

\* LaunchSnapshot: the agents, their documents and programs as they were.
Snapshot == agents = seenAgents
\* launch_agents
LaunchAgents(x) == Snapshot /\ Id(x) \notin agents

\* bundle_id_running, executable_paths
NotRunning(x) == Id(x) \notin running

\* latest_mtime, old_enough
OldEnough(x) == x \notin recent

Tier(x, bundles) == IF Id(x) \in bundles THEN "trashed_bundle" ELSE "name_only"

\* budget
Budget == ~cancel /\ ~expired

\* observe_with_inventory for the selected items.
Observe(xs) ==
  /\ Budget
  /\ TrashReadable /\ TrashBundles = seenTrash
  /\ \A x \in xs :
       /\ \A i \in Queries(Id(x)) : NoCopy(i)
       /\ PolicyGuard(x)
       /\ item[x] = "here"
       /\ NotRunning(x)
       /\ LaunchAgents(x)
       /\ Tier(x, seenTrash) = "name_only" /\ Rule(x) = "caches" => OldEnough(x)

----------------------------------------------------------------------------
(* The preview.                                                            *)

\* Discovery looks only at admissible names (prepare).
Discovered(x) == Rule(x) # "containers" /\ ~Has(x, "denied") /\ item[x] = "here"

\* The refusals of one row, before its group is observed.
Refused(x, bundles) ==
  \/ ~case.gate
  \/ Has(x, "unevidenced")
  \/ Tier(x, bundles) = "name_only" /\ (Rule(x) # "caches" \/ Has(x, "sensitive"))
  \/ Has(x, "uncapturable")
  \/ ~PolicyGuard(x)

\* prepare: rows of one owner are observed together, so one item's refusal
\* takes its owner's other items with it; an observation cut short offers none.
Prepare ==
  /\ pc = "preview"
  /\ seenTrash' = TrashBundles /\ seenAgents' = agents
  /\ \/ /\ Budget
        /\ LET rows == {x \in Items : Discovered(x)}
               group(x) == {y \in rows : Id(y) = Id(x)}
               holds(y) == /\ \A i \in Queries(Id(y)) : NoCopy(i)
                           /\ PolicyGuard(y) /\ ~Has(y, "uncapturable")
                           /\ NotRunning(y) /\ Id(y) \notin agents
                           /\ Tier(y, trash) = "name_only" /\ Rule(y) = "caches" => OldEnough(y)
           IN offered' = {x \in rows : ~Refused(x, TrashBundles) /\ \A y \in group(x) : holds(y)}
        /\ Goto("ready")
        /\ UNCHANGED faults
     \/ ~Budget /\ offered' = {} /\ Goto("ready") /\ UNCHANGED faults
     \/ Fault /\ offered' = {} /\ Goto("failed")
  /\ UNCHANGED <<case, world, cancel, closed, expired, operation, moves>>

----------------------------------------------------------------------------
(* The approval.                                                           *)

\* An item is named once.
Distinct == IsInjective(case.order)

\* Context::validate, on the parts a record of begin could get wrong.
ContextValid(xs, queries) ==
  /\ xs # {}
  /\ queries = UNION {Queries(Id(x)) : x \in xs}
  /\ \A x \in xs :
       \/ Tier(x, seenTrash) = "name_only" /\ Rule(x) = "caches"
       \/ Tier(x, seenTrash) = "trashed_bundle" /\ Rule(x) # "containers"

\* sayaka_orphan_execute_v1: the session is taken whatever begin then says.
Execute ==
  /\ pc = "ready" /\ ~closed /\ ~cancel
  /\ sel' = ToSet(case.order)
  /\ Goto("begin")
  /\ UNCHANGED <<case, world, handle, todo, latch, moved, rec, dRec, jerr, result, faults, moves>>

\* OrphanSession::begin up to the record.
Begin ==
  /\ pc = "begin"
  /\ IF case.gate /\ sel # {} /\ Distinct /\ sel \subseteq offered /\ ~expired /\ place /\ Observe(sel)
       THEN /\ rec' = [x \in Items |-> IF x \in sel THEN "planned" ELSE "none"]
            /\ todo' = case.order
            /\ Goto("intent") /\ UNCHANGED result
       ELSE Goto("done") /\ result' = "refused" /\ UNCHANGED <<rec, todo>>
  /\ UNCHANGED <<case, world, handle, sel, latch, moved, dRec, jerr, faults, moves>>

\* publish(&record, true): the store validates what it writes.
PublishIntent ==
  /\ pc = "intent"
  /\ IF ContextValid(sel, UNION {Queries(Id(x)) : x \in sel})
       THEN \/ dRec' = rec /\ Goto("item") /\ UNCHANGED <<result, faults>>
            \/ Fault /\ dRec' \in {dRec, rec} /\ result' = "refused" /\ Goto("done")
       ELSE result' = "refused" /\ Goto("done") /\ UNCHANGED <<dRec, faults>>
  /\ UNCHANGED <<case, world, handle, sel, todo, latch, moved, rec, jerr, moves>>

----------------------------------------------------------------------------
(* OrphanOperation::execute.                                               *)

PublishRecord ==
  \/ dRec' = rec /\ UNCHANGED <<jerr, faults>>
  \/ Fault /\ jerr' = TRUE /\ dRec' \in {dRec, rec}

\* One item: the check covers everything still to be moved.
ItemCheck ==
  /\ pc = "item" /\ todo # <<>>
  /\ \/ /\ ~latch /\ place /\ Observe(ToSet(todo))
        /\ rec' = [rec EXCEPT ![Head(todo)] = "started"]
        /\ Goto("start") /\ UNCHANGED <<todo, latch, faults>>
     \/ /\ \/ ~(~latch /\ place /\ Observe(ToSet(todo))) /\ UNCHANGED faults
           \/ Fault  \* a source did not answer: unknown is refused
        /\ rec' = [rec EXCEPT ![Head(todo)] = "skipped"]
        /\ latch' = TRUE /\ todo' = Tail(todo) /\ Goto("record")
  /\ UNCHANGED <<case, world, handle, sel, moved, dRec, jerr, result, moves>>

PublishStart ==
  /\ pc = "start"
  /\ PublishRecord
  /\ Goto(IF jerr' THEN "finish" ELSE "move")
  /\ UNCHANGED <<case, world, handle, sel, todo, latch, moved, rec, result, moves>>

\* Mutant: the batch does not recognize its own moves.
WitnessedNever(x) == moved

\* The destination of a move is kept, so that the next listing of the Trash
\* does not take it for an application.
Witnessed(x) == moved \cup {x}

\* move_to_trash_with_last_guard, the destination's witness and apply.
MoveItem ==
  /\ pc = "move"
  /\ LET x == Head(todo)
         clear == place /\ Observe(ToSet(todo))
         to(state) == rec' = [rec EXCEPT ![x] = state]
     IN \/ ~clear /\ to("skipped") /\ latch' = TRUE /\ UNCHANGED <<item, moved, faults>>
        \/ /\ clear /\ to("succeeded") /\ item' = [item EXCEPT ![x] = "trash"]
           /\ \/ moved' = Witnessed(x) /\ UNCHANGED <<latch, faults>>
              \/ Fault /\ latch' = TRUE /\ UNCHANGED moved
        \/ clear /\ Fault /\ to("failed") /\ UNCHANGED <<item, moved, latch>>
        \/ /\ clear /\ Fault /\ to("unknown")
           /\ item' \in {item, [item EXCEPT ![x] = "trash"]} /\ UNCHANGED <<moved, latch>>
  /\ todo' = Tail(todo)
  /\ Goto("record")
  /\ UNCHANGED <<case, copies, running, trash, agents, policy, recent, place, handle, sel, dRec, jerr, result, moves>>

RecordItem ==
  /\ pc = "record"
  /\ PublishRecord
  /\ Goto(IF jerr' \/ todo = <<>> THEN "finish" ELSE "item")
  /\ UNCHANGED <<case, world, handle, sel, todo, latch, moved, rec, result, moves>>

\* What the host is told; the durable record stays as it is.
Finish ==
  /\ pc = "finish"
  /\ rec' = [x \in Items |-> CASE rec[x] = "planned" -> "skipped"
                               [] rec[x] = "started" -> "unknown"
                               [] OTHER -> rec[x]]
  /\ result' = IF jerr THEN "journal_error" ELSE "report"
  /\ Goto("done")
  /\ UNCHANGED <<case, world, handle, sel, todo, latch, moved, dRec, jerr, faults, moves>>

----------------------------------------------------------------------------
(* The host and other programs.                                            *)

\* sayaka_orphan_cancel_v1
Cancel ==
  /\ ~cancel /\ ~closed
  /\ cancel' = TRUE
  /\ UNCHANGED <<case, world, pc, offered, seenTrash, seenAgents, closed, expired, operation, faults, moves>>

\* collect: the worker, of the preview or of the execution, has finished.
Collect == pc \in {"ready", "failed", "done"}

\* sayaka_orphan_release_v1: BUSY while the worker runs.
Release ==
  /\ ~closed /\ Collect
  /\ cancel' = TRUE /\ closed' = TRUE
  /\ UNCHANGED <<case, world, pc, offered, seenTrash, seenAgents, expired, operation, faults, moves>>

\* The preview's or the approval's two minutes pass, or the clock goes back.
Expire ==
  /\ ~expired /\ expired' = TRUE
  /\ UNCHANGED <<case, world, pc, offered, seenTrash, seenAgents, cancel, closed, operation, faults, moves>>

Interfere ==
  /\ moves < MaxMoves /\ moves' = moves + 1
  /\ \/ \E i \in Ids, s \in Sources :
          copies' = [copies EXCEPT ![i] = @ \cup {s}]
          /\ UNCHANGED <<running, trash, agents, policy, recent, item, place>>
     \/ \E i \in Ids : running' = running \cup {i} /\ UNCHANGED <<copies, trash, agents, policy, recent, item, place>>
     \/ \E i \in Ids : /\ trash' = (trash \ {i}) \cup ({i} \ trash)
                       /\ UNCHANGED <<copies, running, agents, policy, recent, item, place>>
     \/ \E i \in Ids : agents' = agents \cup {i} /\ UNCHANGED <<copies, running, trash, policy, recent, item, place>>
     \/ policy' = FALSE /\ UNCHANGED <<copies, running, trash, agents, recent, item, place>>
     \/ \E x \in Items : recent' = recent \cup {x} /\ UNCHANGED <<copies, running, trash, agents, policy, item, place>>
     \/ \E x \in Items : /\ item[x] = "here" /\ item' = [item EXCEPT ![x] = "replaced"]
                         /\ UNCHANGED <<copies, running, trash, agents, policy, recent, place>>
     \/ place' = FALSE /\ UNCHANGED <<copies, running, trash, agents, policy, recent, item>>
  /\ UNCHANGED <<case, pc, handle, operation, faults>>

\* sayaka_orphan_preview_v2 starts the worker.
Init ==
  /\ case \in Cases
  /\ copies = [i \in Ids |-> {}] /\ running = {} /\ trash = case.trash /\ agents = {}
  /\ policy = TRUE /\ recent = {} /\ item = [x \in Items |-> "here"] /\ place = TRUE
  /\ pc = "preview" /\ offered = {} /\ seenTrash = {} /\ seenAgents = {}
  /\ cancel = FALSE /\ closed = FALSE /\ expired = FALSE
  /\ sel = {} /\ todo = <<>> /\ latch = FALSE /\ moved = {}
  /\ rec = [x \in Items |-> "none"] /\ dRec = rec /\ jerr = FALSE /\ result = "none"
  /\ faults = 0 /\ moves = 0

Next ==
  \/ Prepare \/ Execute \/ Begin \/ PublishIntent
  \/ ItemCheck \/ PublishStart \/ MoveItem \/ RecordItem \/ Finish
  \/ Cancel \/ Release \/ Expire \/ Interfere

Spec == Init /\ [][Next]_vars

----------------------------------------------------------------------------
(* Properties.                                                             *)

\* In every state, a crash included: what the durable schema 9 receipt says of
\* an item is true of the item, an item in the Trash is in a receipt that had
\* recorded its start, and what a report without a journal error says is what
\* the receipt says.
LeftoverReceiptIsTrue ==
  \A x \in Items :
    /\ item[x] = "trash" => dRec[x] \in {"started", "succeeded", "unknown"}
    /\ dRec[x] = "succeeded" => item[x] = "trash"
    /\ dRec[x] \in {"planned", "skipped", "failed"} => item[x] # "trash"
    /\ result = "report" => dRec[x] = rec[x]

\* A batch nobody disturbs is not disturbed by its own moves either: every
\* approved item ends in the Trash, also when one of them is named like an
\* application (moved_targets in trash_bundles), and its receipt is one the
\* store accepts.
QuietBatchCompletes ==
  pc = "done" /\ moves = 0 /\ faults = 0 /\ ~cancel /\ ~expired
    /\ case.gate /\ sel # {} /\ Distinct /\ sel \subseteq offered
  => \A x \in sel : item[x] = "trash" /\ dRec[x] = "succeeded"
=============================================================================
