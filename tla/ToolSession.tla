----------------------------- MODULE ToolSession -----------------------------
(***************************************************************************)
(* One simulator or runtime session (crates/engine/src/devtools/session.rs *)
(* and devtools/runtimes/runtime_session.rs): a sealed preview, one        *)
(* approved selection and journaled simctl calls, each with a revalidation *)
(* before and a listing after it.  Effects are permanent, and the service  *)
(* behind simctl may finish work after a call has been given up.           *)
(*                                                                         *)
(* mode is "erase", "delete" (devices) or "runtime" (images together with  *)
(* the devices that depend on them).  A device is [listed, id, shutdown,   *)
(* facts, data]: id changes when its name, runtime or path does, facts are *)
(* the observations that refuse it ("clone", "unavailable", "custom").  An *)
(* image is [listed, state, facts, path].                                  *)
(***************************************************************************)
EXTENDS Naturals, Sequences, FiniteSets, SequencesExt

CONSTANTS
  Cases,      \* initial worlds and selections: [mode, dev, pairs, order]
  Devices, Images,
  ImageOf,    \* the runtime a device uses
  MaxBatch,   \* MAX_BATCH
  MaxFaults,  \* bound on failing calls, reads and publications
  MaxMoves    \* bound on what other programs do meanwhile

\* What the instances of the module assume of its parameters.
ToolAssumption ==
  /\ IsFiniteSet(Devices) /\ Devices \cap Images = {}
  /\ ImageOf \in [Devices -> Images] /\ MaxBatch \in Nat \ {0, 1}
  /\ MaxFaults \in Nat /\ MaxMoves \in Nat
  /\ \A c \in Cases :
       /\ c.mode \in {"erase", "delete", "runtime"}
       /\ DOMAIN c.dev = Devices /\ \A d \in Devices : {"listed", "id", "shutdown", "facts", "data"} \subseteq DOMAIN c.dev[d]
       /\ c.order \in Seq(IF c.mode = "runtime" THEN Images ELSE Devices)

Targets == Devices \cup Images

VARIABLES
  case,
  dev, img, pairs, tool, activity,  \* the machine
  late, hit,                        \* effects the service still has to do, and has done
  seen,                             \* the sealed listing
  pc, consumed, expired, cancel,
  closed,                           \* the handle is released
  plan, rows, durable, stop, before, end,
  absent, journalError,
  made,                             \* history: calls made, [targets, unclear]
  faults, moves

world == <<dev, img, pairs, tool, activity>>
service == <<late, hit>>
approval == <<consumed, expired, cancel, closed>>
run == <<plan, rows, stop, before, end, absent, journalError>>
vars == <<case, world, service, seen, pc, approval, run, durable, made, faults, moves>>

mode == case.mode
Goto(p) == pc' = p
Fault == faults < MaxFaults /\ faults' = faults + 1

\* What a listing command may answer.  One malformed or repeated row refuses
\* the whole listing.
Answers == {"whole", "failed", "malformed", "repeated"}
Parses(answer) == answer \notin {"malformed", "repeated"}
Reads(answer) == answer # "failed" /\ Parses(answer)
ListingFails == \E answer \in Answers : ~Reads(answer) /\ Fault

\* tool_evidence and verify_code_requirement; developer_activity.
SameTool == tool
Quiet == ~activity

----------------------------------------------------------------------------
(* Decisions over a listing l = [dev, img, pairs].                         *)

Listing == [dev |-> dev, img |-> img, pairs |-> pairs]
Listed(l) == {d \in Devices : l.dev[d].listed}
Partners(l, d) == {p \in Devices : <<d, p>> \in l.pairs \/ <<p, d>> \in l.pairs}

\* candidates: what refuses a device for an operation.
Refused(l, d, op) ==
  \/ Cardinality(Partners(l, d)) > 1
  \/ ~l.dev[d].shutdown
  \/ "clone" \in l.dev[d].facts
  \/ op = "erase" /\ ("unavailable" \in l.dev[d].facts \/ Partners(l, d) # {})

Dependents(l, r) == {d \in Listed(l) : ImageOf[d] = r}

\* assess: what refuses an image; native evidence is taken as given.
Protected(l, r) ==
  \/ l.img[r].facts # {} \/ l.img[r].state # "Ready"
  \/ \E d \in Dependents(l, r) :
       \/ "custom" \in l.dev[d].facts
       \/ Refused(l, d, "delete")
       \/ \E p \in Partners(l, d) : p \notin Dependents(l, r)

\* validate_request, RuntimeSession::selected
Valid(sel) ==
  /\ sel # <<>> /\ IsInjective(sel)
  /\ \A x \in ToSet(sel) :
       IF mode = "runtime" THEN seen.img[x].listed /\ ~Protected(seen, x)
       ELSE /\ x \in Listed(seen) /\ ~Refused(seen, x, mode)
            /\ Partners(seen, x) \subseteq ToSet(sel)

IsImageCall(c) == c \subseteq Images
ImageOfCall(c) == IF IsImageCall(c) THEN CHOOSE r \in c : TRUE ELSE ImageOf[CHOOSE d \in c : TRUE]

\* What a selection stands for: devices, or images with their dependents.
Selection(sel) ==
  IF mode # "runtime" THEN ToSet(sel) ELSE ToSet(sel) \cup UNION {Dependents(seen, r) : r \in ToSet(sel)}

\* A unit: a device with its partner, where its first member is in the request.
Unit(d) == {d} \cup Partners(seen, d)
Lead(sel, d) == CHOOSE i \in DOMAIN sel : sel[i] \in Unit(d) /\ \A j \in DOMAIN sel : sel[j] \in Unit(d) => i <= j

\* Units keep the order of the request; an image comes after its dependents,
\* which are listed in some order, and images in the order of the request.
Follows(sel, c, d) ==
  IF mode # "runtime" THEN \A x \in c, y \in d : Lead(sel, x) < Lead(sel, y)
  ELSE \/ ImageOfCall(c) = ImageOfCall(d) /\ ~IsImageCall(c)
       \/ \E i, j \in DOMAIN sel : i < j /\ sel[i] = ImageOfCall(c) /\ sel[j] = ImageOfCall(d)

\* pair_batches: whole units, up to the size of a batch.
IsBatch(c) ==
  /\ \A d \in c : Unit(d) \subseteq c
  /\ Cardinality(c) <= MaxBatch \/ \E d \in c : c = Unit(d)

\* A batch ends where its next unit does not fit.
Full(sel, c, d) ==
  \E x \in d :
    /\ Cardinality(c \cup Unit(x)) > MaxBatch
    /\ mode # "runtime" => \A y \in d : Lead(sel, x) <= Lead(sel, y)

\* The calls of a request: device batches, or per image its dependents' and
\* its own.
Calls(sel) ==
  LET all == Selection(sel)
      some == {{r} : r \in all \cap Images} \cup SUBSET (all \cap Devices) IN
  {cs \in UNION {[1..n -> some \ {{}}] : n \in 1..Cardinality(all)} :
     /\ UNION ToSet(cs) = all
     /\ \A k, l \in DOMAIN cs : k < l => cs[k] \cap cs[l] = {} /\ Follows(sel, cs[k], cs[l])
     /\ \A k \in DOMAIN cs : ~IsImageCall(cs[k]) =>
          /\ IsBatch(cs[k])
          /\ mode = "runtime" => \A d \in cs[k] : ImageOf[d] = ImageOfCall(cs[k])
          /\ k + 1 \in DOMAIN cs /\ cs[k + 1] \subseteq Devices /\ (mode = "runtime" => ImageOfCall(cs[k + 1]) = ImageOfCall(cs[k]))
               => Full(sel, cs[k], cs[k + 1])}

\* Devices this execution has removed.
Removed == {d \in Devices : rows[d] = "succeeded"}

\* revalidate
Matches(d) ==
  /\ dev[d].listed /\ dev[d].id = seen.dev[d].id /\ dev[d].shutdown
  /\ ("unavailable" \in dev[d].facts) = ("unavailable" \in seen.dev[d].facts)
  /\ Partners(Listing, d) = Partners(seen, d)

\* RuntimeSession::validate
RuntimeMatches(r) ==
  /\ img[r].listed /\ img[r].facts = seen.img[r].facts /\ ~Protected(Listing, r)
  /\ Dependents(Listing, r) = Dependents(seen, r) \ Removed
  /\ \A d \in Dependents(Listing, r) :
       dev[d].id = seen.dev[d].id /\ Partners(Listing, d) = Partners(seen, d)
  /\ \A d \in Removed : ~dev[d].listed

\* revalidate_batch after its listing; an image must have no dependents left.
Revalidated(c) ==
  IF mode # "runtime" THEN \A d \in c : Matches(d)
  ELSE /\ RuntimeMatches(ImageOfCall(c))
       /\ IsImageCall(c) => Dependents(Listing, ImageOfCall(c)) = {}

----------------------------------------------------------------------------
(* Preview and approval.                                                   *)

\* prepare: tool, versions, two listings, the tool again.
Prepare ==
  /\ pc = "new"
  /\ \/ /\ seen' = Listing /\ Goto("ready") /\ UNCHANGED faults
     \/ ListingFails /\ Goto("refused") /\ UNCHANGED seen
  /\ UNCHANGED <<case, world, service, approval, run, durable, made, moves>>

Expire ==
  /\ pc \in {"ready", "spawned"} /\ ~expired
  /\ expired' = TRUE
  /\ UNCHANGED <<case, world, service, seen, pc, consumed, cancel, closed, run, durable, made, faults, moves>>

\* check_approval (also what a host's call is checked against)
Approved == ~consumed /\ ~expired /\ Valid(case.order)

\* sayaka_simulators_execute_v1: the idle preview is taken out of the handle
\* and given to a worker; if none starts it is gone.
HostExecute ==
  /\ pc = "ready" /\ ~closed /\ ~cancel /\ Approved
  /\ \/ Goto("spawned") /\ UNCHANGED faults
     \/ Fault /\ Goto("refused")
  /\ UNCHANGED <<case, world, service, seen, approval, run, durable, made, moves>>

\* execute: the approval, the journal directory, activity and tool are looked
\* at again; only then is the preview used up and the intent built.
Execute ==
  /\ pc = "spawned"
  /\ IF Approved /\ ~cancel /\ Quiet /\ SameTool
          /\ (mode = "runtime" => \A r \in ToSet(case.order) : RuntimeMatches(r))
       THEN /\ consumed' = TRUE
            /\ plan' \in Calls(case.order)
            /\ rows' = [x \in Targets |-> IF x \in Selection(case.order) THEN "planned" ELSE "none"]
            /\ Goto("intent")
       ELSE /\ consumed' = (Approved /\ mode # "runtime" /\ (cancel \/ Quiet))
            /\ Goto("refused") /\ UNCHANGED <<plan, rows>>
  /\ UNCHANGED <<case, world, service, seen, expired, cancel, closed, stop, before, end, absent, journalError, durable, made, faults, moves>>

\* publish(...).and_then(require_clean): clean, or failed at either side of the
\* rename.
PublishClean == durable' = rows
PublishFails == Fault /\ durable' \in {durable, rows}

\* Durable intent first: if it cannot be written, nothing runs.
PublishIntent ==
  /\ pc = "intent"
  /\ \/ PublishClean /\ Goto("loop") /\ UNCHANGED faults
     \/ PublishFails /\ Goto("failed")
  /\ UNCHANGED <<case, world, service, seen, approval, run, made, moves>>

----------------------------------------------------------------------------
(* The loop over the calls.                                                *)

Looping == pc = "loop" /\ plan # <<>>
SetRows(c, s) == rows' = [x \in Targets |-> IF x \in c THEN s ELSE rows[x]]

\* cancelled, or stopped by an earlier call.
SkipCall ==
  /\ Looping
  /\ stop \/ cancel
  /\ stop' = TRUE
  /\ SetRows(Head(plan), "skipped")
  /\ plan' = Tail(plan)
  /\ UNCHANGED <<case, world, service, seen, pc, approval, before, end, absent, journalError, durable, made, faults, moves>>

\* The batch no longer matches: only it is refused, in a runtime session
\* everything.  Activity, another tool or a failing listing stop it all.
RefuseCall ==
  /\ Looping /\ ~stop /\ ~cancel
  /\ \/ ~activity /\ tool /\ ~Revalidated(Head(plan)) /\ stop' = (mode = "runtime") /\ UNCHANGED faults
     \/ (activity \/ ~tool) /\ stop' = TRUE /\ UNCHANGED faults
     \/ Fault /\ stop' = TRUE
  /\ SetRows(Head(plan), "skipped")
  /\ plan' = Tail(plan)
  /\ UNCHANGED <<case, world, service, seen, pc, approval, before, end, absent, journalError, durable, made, moves>>

\* revalidate_batch holds and notes what the data looks like.
StartCall ==
  /\ Looping /\ ~stop /\ ~cancel
  /\ Quiet /\ SameTool /\ Revalidated(Head(plan))
  /\ SetRows(Head(plan), "started")
  /\ before' = [d \in Devices |-> dev[d].data]
  /\ Goto("start")
  /\ UNCHANGED <<case, world, service, seen, approval, plan, stop, end, absent, journalError, durable, made, faults, moves>>

\* stop_for_journal_error: a device session ends, a runtime session skips on.
PublishStart ==
  /\ pc = "start"
  /\ \/ PublishClean /\ Goto("call") /\ UNCHANGED <<rows, plan, stop, journalError, faults>>
     \/ /\ PublishFails
        /\ journalError' = TRUE /\ stop' = TRUE
        /\ rows' = [x \in Targets |->
             IF x \in Head(plan) \/ (mode # "runtime" /\ rows[x] = "planned") THEN "skipped" ELSE rows[x]]
        /\ plan' = IF mode = "runtime" THEN Tail(plan) ELSE <<>>
        /\ Goto(IF mode = "runtime" THEN "loop" ELSE "done")
  /\ UNCHANGED <<case, world, service, seen, approval, before, end, absent, made, moves>>

\* What the tool does to a target.  An image leaves the listing first and, when
\* it is in keep, its mount path later.
Strike(S, keep) ==
  /\ dev' = [d \in Devices |->
       IF d \notin S THEN dev[d]
       ELSE IF mode = "erase" THEN [dev[d] EXCEPT !.data = "empty"]
       ELSE [dev[d] EXCEPT !.listed = FALSE]]
  /\ img' = [r \in Images |-> IF r \in S THEN [img[r] EXCEPT !.listed = FALSE, !.path = r \in keep] ELSE img[r]]
  /\ hit' = hit \cup {x \in S : x \in Devices /\ mode = "erase" => dev[x].data # "empty"}

\* run(args, true): done is what is effected before the call returns.  After a
\* zero exit or an end that was not seen the service may still do the rest;
\* after another exit status it is assumed to do nothing more.
RunTool ==
  /\ pc = "call"
  /\ \E done \in SUBSET Head(plan), e \in {"success", "failure", "indeterminate"}, keep \in {{}, Images} :
       /\ end' = e
       /\ mode = "erase" /\ e = "success" => done = Head(plan)
       /\ IF e = "success" THEN UNCHANGED faults ELSE Fault
       /\ e = "failure" => keep = {}
       /\ Strike(done, keep)
       /\ late' = IF e = "failure" THEN late ELSE late \cup (Head(plan) \ (done \ keep))
  /\ made' = Append(made, [targets |-> Head(plan), unclear |-> FALSE])
  /\ absent' = FALSE
  /\ Goto(IF end' = "success" /\ IsImageCall(Head(plan)) THEN "settle" ELSE "check")
  /\ UNCHANGED <<case, pairs, tool, activity, seen, approval, plan, rows, stop, before, journalError, durable, moves>>

Observable(d) == "unobservable" \notin dev[d].facts

\* Mutant: the exit status decides.
ClassifyByExit(d) ==
  CASE end = "indeterminate" -> "unknown" [] end = "failure" -> "failed" [] OTHER -> "succeeded"

\* classify: a batch's exit status alone never decides a device.
Classify(d) ==
  CASE end = "indeterminate" -> "unknown"
    [] end # "indeterminate" /\ mode # "erase" ->
         IF ~dev[d].listed THEN "succeeded" ELSE IF end = "failure" THEN "failed" ELSE "unknown"
    [] OTHER ->
         LET changed == Observable(d) /\ before[d] # dev[d].data IN
         IF end = "failure" THEN (IF changed \/ ~Observable(d) THEN "unknown" ELSE "failed")
         ELSE IF dev[d].listed /\ dev[d].shutdown /\ changed THEN "succeeded" ELSE "unknown"

\* An erased device that was empty before is expected to show no change.
Expected(d) == mode = "erase" /\ end = "success" /\ dev[d].listed /\ dev[d].shutdown

\* A device of a runtime that was not removed must be exactly as before.
ClassifyDependent(d) ==
  CASE end = "indeterminate" -> "unknown"
    [] ~dev[d].listed /\ end # "indeterminate" -> "succeeded"
    [] OTHER -> IF end = "failure" /\ dev[d] = seen.dev[d] THEN "failed" ELSE "unknown"

\* The image's call ended badly: its absence proves nothing.
ClassifyImage(r) ==
  IF end = "failure" /\ img[r].listed /\ img[r] = seen.img[r] THEN "failed" ELSE "unknown"

Verdict(x) ==
  IF x \in Images THEN ClassifyImage(x)
  ELSE IF mode = "runtime" THEN ClassifyDependent(x) ELSE Classify(x)

\* Never continue past an ambiguous call; a runtime session also stops after
\* any failure.
StopsAfter(c, verdicts) ==
  IF mode = "runtime" THEN end # "success" \/ \E x \in c : verdicts[x] # "succeeded"
  ELSE end = "indeterminate" \/ \E x \in c : verdicts[x] = "unknown" /\ ~Expected(x)

Settled(c, verdicts, stops) ==
  /\ rows' = [x \in Targets |-> IF x \in c THEN verdicts[x] ELSE rows[x]]
  /\ stop' = stops
  /\ made' = [made EXCEPT ![Len(made)].unclear = \E x \in c : verdicts[x] = "unknown" /\ ~(x \in Devices /\ Expected(x))]
  /\ Goto("record")

\* The listing after the call, which may fail.
PostCheck ==
  /\ pc = "check"
  /\ \/ LET v == [x \in Head(plan) |-> Verdict(x)] IN
          Settled(Head(plan), v, stop \/ StopsAfter(Head(plan), v)) /\ UNCHANGED faults
     \/ /\ ListingFails
        /\ rows' = [x \in Targets |-> IF x \in Head(plan) THEN "unknown" ELSE rows[x]]
        /\ stop' = TRUE
        /\ made' = [made EXCEPT ![Len(made)].unclear = TRUE]
        /\ Goto("record")
  /\ UNCHANGED <<case, world, service, seen, approval, plan, before, end, absent, journalError, durable, moves>>

\* settle_runtime: one look.  Listed still as Ready or Deleting, or a path that
\* is still there, is waited for; everything else is final.
SettleVerdict(r) ==
  IF cancel \/ activity \/ ~tool \/ Dependents(Listing, r) # {} \/ img[r].facts # seen.img[r].facts
     \/ (img[r].listed /\ absent)
    THEN "unknown"
  ELSE IF img[r].listed \/ img[r].path THEN "wait" ELSE "succeeded"

Settle ==
  /\ pc = "settle"
  /\ LET r == ImageOfCall(Head(plan))
         v == SettleVerdict(r) IN
       \/ v = "wait" /\ ~absent /\ ~img[r].listed /\ absent' = TRUE
          /\ UNCHANGED <<rows, stop, made, pc, faults>>
       \/ /\ v # "wait"
          /\ Settled(Head(plan), [x \in Head(plan) |-> v], stop \/ v # "succeeded")
          /\ UNCHANGED <<absent, faults>>
       \/ /\ Fault  \* the window closes, or a read fails
          /\ Settled(Head(plan), [x \in Head(plan) |-> "unknown"], TRUE)
          /\ UNCHANGED absent
  /\ UNCHANGED <<case, world, service, seen, approval, plan, before, end, journalError, durable, moves>>

RecordCall ==
  /\ pc = "record"
  /\ \/ PublishClean /\ Goto("loop") /\ plan' = Tail(plan) /\ UNCHANGED <<rows, stop, journalError, faults>>
     \/ /\ PublishFails
        /\ journalError' = TRUE /\ stop' = TRUE
        /\ rows' = [x \in Targets |-> IF mode # "runtime" /\ rows[x] = "planned" THEN "skipped" ELSE rows[x]]
        /\ plan' = IF mode = "runtime" THEN Tail(plan) ELSE <<>>
        /\ Goto(IF mode = "runtime" THEN "loop" ELSE "done")
  /\ UNCHANGED <<case, world, service, seen, approval, before, end, absent, made, moves>>

FinalPublish ==
  /\ pc = "loop" /\ plan = <<>>
  /\ \/ PublishClean /\ UNCHANGED <<journalError, faults>>
     \/ PublishFails /\ journalError' = TRUE
  /\ Goto("done")
  /\ UNCHANGED <<case, world, service, seen, approval, plan, rows, stop, before, end, absent, made, moves>>

\* The process dies.
Crash ==
  /\ pc \in {"intent", "loop", "start", "call", "check", "settle", "record"}
  /\ Fault
  /\ Goto("dead")
  /\ UNCHANGED <<case, world, service, seen, approval, run, durable, made, moves>>

----------------------------------------------------------------------------
(* The rest of the machine.                                                *)

\* The service finishes what a call had asked for.
LateEffect(x) ==
  /\ x \in late
  /\ late' = late \ {x}
  /\ Strike({x}, {})
  /\ UNCHANGED <<case, pairs, tool, activity, seen, pc, approval, run, durable, made, faults, moves>>

\* Other programs: a device is booted or shut down, renamed, removed or a new
\* one created (an identifier is never used again); an SDK starts to need an image; pairs, activity and tool change.
Interfere ==
  /\ pc \notin {"new", "refused", "done", "failed", "dead"}
  /\ moves < MaxMoves /\ moves' = moves + 1
  /\ \/ \E d \in Devices : \E v \in {[dev[d] EXCEPT !.shutdown = ~@], [dev[d] EXCEPT !.id = "other"],
                                     [dev[d] EXCEPT !.listed = ~case.dev[d].listed]} :
          dev' = [dev EXCEPT ![d] = v] /\ UNCHANGED <<img, pairs, tool, activity>>
     \/ \E r \in Images : img' = [img EXCEPT ![r].facts = {"required"}] /\ UNCHANGED <<dev, pairs, tool, activity>>
     \/ pairs' = {} /\ UNCHANGED <<dev, img, tool, activity>>
     \/ activity' = ~activity /\ UNCHANGED <<dev, img, pairs, tool>>
     \/ tool' = FALSE /\ UNCHANGED <<dev, img, pairs, activity>>
  /\ UNCHANGED <<case, service, seen, pc, approval, run, durable, made, faults>>

Cancel ==
  /\ ~cancel /\ pc \notin {"refused", "done", "failed", "dead"}
  /\ cancel' = TRUE
  /\ UNCHANGED <<case, world, service, seen, pc, consumed, expired, closed, run, durable, made, faults, moves>>

\* sayaka_simulators_release_v1: cancels; BUSY while a worker runs.
Idle == pc \in {"ready", "refused", "done", "failed"}
HostRelease ==
  /\ ~closed /\ pc # "dead"
  /\ cancel' = TRUE
  /\ closed' = Idle
  /\ UNCHANGED <<case, world, service, seen, pc, consumed, expired, run, durable, made, faults, moves>>

NoRows == [x \in Targets |-> "none"]

Init ==
  /\ case \in Cases
  /\ dev = case.dev /\ pairs = case.pairs
  /\ img = [r \in Images |-> [listed |-> TRUE, state |-> "Ready", facts |-> {}, path |-> TRUE]]
  /\ tool = TRUE /\ activity = FALSE /\ late = {} /\ hit = {}
  /\ seen = Listing /\ pc = "new"
  /\ consumed = FALSE /\ expired = FALSE /\ cancel = FALSE /\ closed = FALSE
  /\ plan = <<>> /\ rows = NoRows /\ durable = NoRows
  /\ stop = FALSE /\ before = [d \in Devices |-> "none"] /\ end = "none"
  /\ absent = FALSE /\ journalError = FALSE
  /\ made = <<>> /\ faults = 0 /\ moves = 0

Next ==
  \/ Prepare \/ Expire \/ HostExecute \/ Execute \/ PublishIntent \/ SkipCall \/ RefuseCall \/ StartCall
  \/ PublishStart \/ RunTool \/ PostCheck \/ Settle \/ RecordCall \/ FinalPublish \/ Crash
  \/ \E x \in Targets : LateEffect(x)
  \/ Interfere \/ Cancel \/ HostRelease

Spec == Init /\ [][Next]_vars

----------------------------------------------------------------------------
(* Properties.                                                             *)

Called == UNION {made[i].targets : i \in 1..Len(made)}

\* sayaka_simulators_result_v1: whether the finished job says it had effects.
SaysEffects == pc = "done" /\ \E x \in Targets : rows[x] \in {"succeeded", "failed", "unknown"}
Over == pc \in {"done", "failed", "dead"}

\* The receipt that survives never understates what was done: a target some
\* call named is at least "started" there, a target reported skipped or failed
\* was and will be left alone, even when the service finishes late, a job that
\* says it had no effects had none, and what is reported removed is gone.  That
\* a call which exits with another status than 0 leaves nothing to be done later
\* is what the code takes for granted of simctl (RunTool, classify), not shown.
ToolReceiptIsTrue ==
  \A x \in Targets :
    /\ x \in Called => durable[x] \notin {"none", "planned", "skipped"}
    /\ Over /\ (rows[x] \in {"skipped", "failed"} \/ durable[x] = "failed")
         => x \notin hit \cup late
    /\ Over /\ pc # "dead" /\ ~SaysEffects => x \notin hit \cup late
    /\ pc = "record" /\ rows[x] = "succeeded" /\ x \in Head(plan) /\ mode # "erase" /\ moves = 0
         => x \in hit

\* No call follows one whose outcome is unclear, every call respects the size
\* of a batch and holds both members of a pair, and an image is only asked for
\* once each device that was previewed for it is confirmed removed.
ToolCallsAreGuarded ==
  /\ \A i \in 1..Len(made) :
       /\ i < Len(made) => ~made[i].unclear
       /\ Cardinality(made[i].targets) <= MaxBatch
       /\ \A d \in made[i].targets \cap Devices : Partners(seen, d) \subseteq made[i].targets
  /\ \A r \in Images \cap Called : Dependents(seen, r) \subseteq Removed
  /\ Called \subseteq Selection(case.order)

=============================================================================
