------------------------------ MODULE PurgeHost ------------------------------
(***************************************************************************)
(* The purge jobs of the C library (crates/bindings/src/purge.rs): one     *)
(* preview, the requests to move some of its items that a host may send    *)
(* while it is registered, and the worker thread of each request.  Items   *)
(* are known to the host by position in the reply of the preview           *)
(* (purge_preview.rs); the worker finds them again by position, and its    *)
(* own reply pairs them by position with the rows of its receipt.          *)
(*                                                                         *)
(* The guards of the sessions themselves are in TrashSessions, the shared  *)
(* registry in HandleRegistry.                                             *)
(***************************************************************************)
EXTENDS Naturals, Sequences, FiniteSets, SequencesExt

CONSTANTS
  Cases,       \* [profile, complete, items, bound, attention, root]
  Requests,    \* [handle, ids, digest, approval, token, dir]
  Workers,     \* executions, in the order of their handles
  MaxChanges,  \* bound on what other programs do meanwhile
  MaxFaults

\* What the instances of the module assume of its parameters: the profiles of
\* purge.rs, and items and ids that come as lists.
PurgeHostAssumption ==
  /\ MaxChanges \in Nat /\ MaxFaults \in Nat /\ Workers \subseteq Nat
  /\ \A c \in Cases : /\ c.profile \in {"projects", "caches", "finder", "worktrees"}
                      /\ c.items \in Seq(ToSet(c.items))
  /\ \A r \in Requests : r.ids \in Seq(Nat)

VARIABLES
  case,
  task, preview, result,      \* the preview job: its thread, what it keeps, its reply
  registered,                 \* handles the registry knows
  job,                        \* the execution jobs
  run,                        \* their worker threads
  file, policy,               \* the machine
  moved,                      \* history: what each worker moved
  changes, faults

machine == <<file, policy>>
vars == <<case, task, preview, result, registered, job, run, machine, moved, changes, faults>>

Preview == 0
Profile == case.profile
Items == case.items
Ids == 1..Len(Items)

----------------------------------------------------------------------------
(* The preview.                                                            *)

\* PurgePolicy::excludes
Excluded(x) == case.bound /\ x.excluded
NeedsAttention == case.bound /\ case.attention
Unchanged == case.bound => policy = "shown"

\* What the reply says of an item: whether it can be moved.
ArtifactSupported(x) == x.permitted
CacheSupported(x) == case.complete /\ x.complete /\ x.permitted
FinderSupported(x) == TRUE
ShownSupported(x) ==
  CASE Profile = "projects" -> ArtifactSupported(x)
    [] Profile = "caches" -> CacheSupported(x)
    [] Profile = "finder" -> FinderSupported(x)
    [] OTHER -> FALSE

\* Sums over the items, unknown as soon as one of them is (sum_known), and for
\* private bytes unless the preview is complete (sum_private).
SumKnown == IF \E i \in Ids : ~Items[i].sized THEN "unknown" ELSE "known"
SumPrivate == IF case.complete THEN SumKnown ELSE "unknown"

\* reasons, signature_json: why the row is there, and what speaks against it.
Reasons(x) ==
  (IF x.complete THEN {} ELSE {"partial_coverage"}) \cup (IF Excluded(x) THEN {"protected_by_user"} ELSE {})

\* preview_json: one row per item, known by its position.
Reply ==
  [rows |-> [i \in Ids |-> [supported |-> ShownSupported(Items[i]), reasons |-> Reasons(Items[i])]],
   logical |-> SumKnown, private |-> SumPrivate]

\* The three start calls and start_preview: a Finder preview inside a package is refused, and so is a
\* cache or policy-bound preview whose policy cannot be read.
StartPreview ==
  /\ task = "none"
  /\ IF Profile = "finder" /\ case.root = "package" THEN UNCHANGED <<task, registered>>
     ELSE IF (Profile = "caches" \/ case.bound) /\ case.root = "noPolicy" THEN UNCHANGED <<task, registered>>
     ELSE task' = "running" /\ registered' = registered \cup {Preview}
  /\ UNCHANGED <<case, preview, result, job, run, machine, moved, changes, faults>>

PreviewEnds ==
  /\ task = "running"
  /\ \/ task' = "finished" /\ UNCHANGED faults
     \/ faults < MaxFaults /\ faults' = faults + 1 /\ task' = "failed"
  /\ UNCHANGED <<case, preview, result, registered, job, run, machine, moved, changes>>

\* ensure_preview: kept from the first time it is asked for after the end.
EnsurePreview == IF preview = "none" /\ task # "running" THEN task ELSE preview

\* poll_snapshot and sayaka_purge_result_v1 on the preview
AskPreview ==
  /\ Preview \in registered
  /\ preview' = EnsurePreview
  /\ result' = IF result = <<>> /\ preview' = "finished" THEN <<Reply>> ELSE result
  /\ UNCHANGED <<case, task, registered, job, run, machine, moved, changes, faults>>

----------------------------------------------------------------------------
(* A request.                                                              *)

\* read_plan_digest
DigestRead(r) == r.digest # "malformed"
\* The digest of the preview covers its profile, roots, rows and counts.
DigestHolds(r) == r.digest = "shown"

\* read_item_ids: references to this preview, unique, nonzero, within the cap.
IdsHold(r) == Len(r.ids) > 0 /\ 0 \notin ToSet(r.ids) /\ IsInjective(r.ids)

\* validate_approval: the phrase names the profile and the number of items.
ApprovalHolds(r) ==
  /\ r.approval /\ Profile # "worktrees"
  /\ r.token = [profile |-> Profile, count |-> Len(r.ids)]

\* Caches and Finder files need a state directory of the host's choosing.
DirectoryHolds(r) == r.dir # "bad" /\ (Profile \in {"caches", "finder"} => r.dir = "given")

Accepted(r) ==
  /\ DigestRead(r) /\ IdsHold(r) /\ r.handle = Preview /\ Preview \in registered
  /\ EnsurePreview = "finished"
  /\ ApprovalHolds(r) /\ DigestHolds(r) /\ DirectoryHolds(r)

\* sayaka_purge_execute_start_v1
ExecuteStart(w, r) ==
  /\ task # "none" /\ job[w].state = "none" /\ \A v \in 1..(w - 1) : job[v].state # "none"
  /\ IF Accepted(r)
       THEN /\ job' = [job EXCEPT ![w] = [@ EXCEPT !.state = "open", !.ids = r.ids]]
            /\ run' = [run EXCEPT ![w].at = "check"]
            /\ registered' = registered \cup {w} /\ preview' = EnsurePreview
       ELSE UNCHANGED <<job, run, registered, preview>>
  /\ UNCHANGED <<case, task, result, machine, moved, changes, faults>>

----------------------------------------------------------------------------
(* The worker.                                                             *)

\* selection_for_id, selection_from_parts
ArtifactSelectable(i) ==
  i \in Ids /\ Items[i].complete /\ Items[i].sized /\ Items[i].permitted /\ Items[i].idle
\* resolve_cache_selections_by_ids
CacheSelectable(i) == i \in Ids /\ Items[i].complete /\ Items[i].permitted
\* resolve_finder_selections_by_ids
FinderSelectable(i) == i \in Ids
Selectable(i) ==
  CASE Profile = "projects" -> ArtifactSelectable(i)
    [] Profile = "caches" -> CacheSelectable(i)
    [] OTHER -> FinderSelectable(i)
Resolved(w) == \A i \in ToSet(job[w].ids) : Selectable(i)

\* A cache that holds the state directory, or is held by it (ensure_disjoint).
Overlaps(w) == Profile = "caches" /\ \E i \in ToSet(job[w].ids) : Items[i].holdsState

Refuse(w, why) == run' = [run EXCEPT ![w].at = "done", ![w].reply = <<>>, ![w].end = why]

\* execution_worker, before the session
CheckPreview(w) ==
  /\ run[w].at = "check"
  /\ IF ~case.complete THEN Refuse(w, "refused")
     ELSE IF Profile = "caches" /\ (~Resolved(w) \/ Overlaps(w)) THEN Refuse(w, "error")
     ELSE IF case.bound /\ (NeedsAttention \/ ~Unchanged \/ ~Resolved(w)
                            \/ \E i \in ToSet(job[w].ids) : Excluded(Items[i])) THEN Refuse(w, "refused")
     ELSE IF ~Resolved(w) THEN Refuse(w, "refused")
     ELSE run' = [run EXCEPT ![w].at = "prepare"]
  /\ UNCHANGED <<case, task, preview, result, registered, job, machine, moved, changes, faults>>

\* Any issue or refusal of the session ends the request.
WholeSelection(w, missing) == missing = {}

\* What the session plans for a selection: what is still there, in its order.
Present(ids, missing) == IF missing = {} THEN ids ELSE SelectSeq(ids, LAMBDA i : i \notin missing)

\* Mutant: a cache or a Finder file is taken as it is found.
IdentityHoldsAny(x) == TRUE

\* The session compares caches and Finder files with the preview.
IdentityHolds(x) == Profile \in {"caches", "finder"} => file[x] = "shown"

\* PreparedExecutionSession::prepare, issues, refusals
Prepare(w) ==
  /\ run[w].at = "prepare"
  /\ LET ids == job[w].ids
         missing == {i \in ToSet(ids) : file[Items[i].name] = "gone"}
     IN IF job[w].cancelled \/ ~WholeSelection(w, missing)
            \/ \E i \in ToSet(ids) \ missing : ~IdentityHolds(Items[i].name)
          THEN Refuse(w, "refused")
          ELSE run' = [run EXCEPT ![w].at = "move",
                 ![w].plan = Present(ids, missing),
                 ![w].captured = [x \in DOMAIN file |-> file[x]]]
  /\ UNCHANGED <<case, task, preview, result, registered, job, machine, moved, changes, faults>>

Row(w) == Len(run[w].rows) + 1
Next1(w) == Items[run[w].plan[Row(w)]].name
Ends(w, state) == run' = [run EXCEPT ![w].rows = Append(@, state)]

\* approve and execute, one item at a time
MoveNext(w) ==
  /\ run[w].at = "move" /\ Row(w) <= Len(run[w].plan)
  /\ IF job[w].cancelled \/ ~Unchanged \/ file[Next1(w)] # run[w].captured[Next1(w)]
       THEN Ends(w, "skipped") /\ UNCHANGED <<file, moved, faults>>
     ELSE \/ /\ Ends(w, "moved") /\ file' = [file EXCEPT ![Next1(w)] = "gone"]
             /\ moved' = [moved EXCEPT ![w] = @ \cup {[id |-> run[w].plan[Row(w)], as |-> file[Next1(w)]]}]
             /\ UNCHANGED faults
          \/ /\ faults < MaxFaults /\ faults' = faults + 1
             /\ \E s \in {"failed", "unknown"} : Ends(w, s)
             /\ UNCHANGED <<file, moved>>
  /\ UNCHANGED <<case, task, preview, result, registered, job, policy, changes>>

\* A row that was never resolved counts as unknown.
RowStatus(s) == IF s \in {"planned", "started"} THEN "unknown" ELSE s

\* execution_json: the reply pairs the ids of the request with the rows of the
\* receipt by position.
Report(w) ==
  /\ run[w].at = "move" /\ Row(w) > Len(run[w].plan)
  /\ LET rows == run[w].rows
     IN run' = [run EXCEPT ![w].at = "done", ![w].plan = <<>>, ![w].captured = <<>>, ![w].rows = <<>>,
          ![w].reply = [k \in DOMAIN rows |-> [id |-> job[w].ids[k], status |-> RowStatus(rows[k])]],
          ![w].end = IF "unknown" \in ToSet(rows) THEN "failed"
                     ELSE IF ToSet(rows) \subseteq {"moved"} THEN "complete" ELSE "partial"]
  /\ UNCHANGED <<case, task, preview, result, registered, job, machine, moved, changes, faults>>

----------------------------------------------------------------------------
(* Handles.                                                                *)

\* sayaka_purge_cancel_v1, and release while the worker runs
Cancel(w) ==
  /\ w \in registered /\ run[w].at # "done" /\ ~job[w].cancelled
  /\ job' = [job EXCEPT ![w].cancelled = TRUE]
  /\ UNCHANGED <<case, task, preview, result, registered, run, machine, moved, changes, faults>>

\* sayaka_purge_release_v1; a request may still hold the slot of a preview
\* released meanwhile.
Release(h) ==
  /\ h \in registered
  /\ IF h = Preview THEN task # "running" ELSE run[h].at = "done"
  /\ registered' = registered \ {h}
  /\ job' = IF h = Preview THEN job ELSE [job EXCEPT ![h] = [state |-> "closed", ids |-> <<>>, cancelled |-> FALSE]]
  /\ UNCHANGED <<case, task, preview, result, run, machine, moved, changes, faults>>

Interfere ==
  /\ changes < MaxChanges /\ changes' = changes + 1
  /\ \/ \E x \in DOMAIN file : \E f \in {"other", "gone"} :
          /\ f # file[x] /\ file' = [file EXCEPT ![x] = f] /\ UNCHANGED policy
     \/ policy' = "other" /\ policy = "shown" /\ UNCHANGED file
  /\ UNCHANGED <<case, task, preview, result, registered, job, run, moved, faults>>

Init ==
  /\ case \in Cases
  /\ task = "none" /\ preview = "none" /\ result = <<>> /\ registered = {}
  /\ job = [w \in Workers |-> [state |-> "none", ids |-> <<>>, cancelled |-> FALSE]]
  /\ run = [w \in Workers |-> [at |-> "none", plan |-> <<>>, captured |-> <<>>, rows |-> <<>>, reply |-> <<>>, end |-> "none"]]
  /\ file = [x \in {case.items[i].name : i \in DOMAIN case.items} |-> "shown"] /\ policy = "shown"
  /\ moved = [w \in Workers |-> {}]
  /\ changes = 0 /\ faults = 0

Worker(w) == CheckPreview(w) \/ Prepare(w) \/ MoveNext(w) \/ Report(w)

Next ==
  \/ StartPreview \/ PreviewEnds \/ AskPreview \/ Interfere
  \/ \E w \in Workers : Worker(w) \/ Cancel(w) \/ Release(w) \/ (\E r \in Requests : ExecuteStart(w, r))
  \/ Release(Preview)

Spec == Init /\ [][Next]_vars

----------------------------------------------------------------------------
(* Properties.                                                             *)

\* However many requests a host sends for one preview, and whatever is put in
\* its place meanwhile, a cache or a Finder file leaves once: the object that
\* was previewed.
LeavesOncePerPreview ==
  Profile \in {"caches", "finder"} =>
    \A i \in Ids : Cardinality({w \in Workers : \E m \in moved[w] : m.id = i}) <= 1

\* The row of an id in a request's reply tells what happened to that item.
ReplyNamesTheItem ==
  \A w \in Workers : run[w].at = "done" =>
    {i \in Ids : \E m \in moved[w] : m.id = i}
      = {k.id : k \in {k \in ToSet(run[w].reply) : k.status = "moved"}}

\* Nothing leaves that the reply to the preview showed as unsupported or as
\* protected by the user.
OnlyOfferedLeaves ==
  result # <<>> =>
    \A w \in Workers : \A m \in moved[w] :
      result[1].rows[m.id].supported /\ "protected_by_user" \notin result[1].rows[m.id].reasons
=============================================================================
