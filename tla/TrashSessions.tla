---------------------------- MODULE TrashSessions ----------------------------
(***************************************************************************)
(* The native Trash sessions (crates/engine/src/execute/macos.rs) under    *)
(* the commands that drive them (crates/cli/src/{trash,rules,clean,purge,  *)
(* installer,uninstall}.rs) or the purge worker of the bindings: what is   *)
(* looked at again between the list a user reads and the native move of    *)
(* each item.                                                              *)
(*                                                                         *)
(* An item is known by its file ("shown" is the object the user read       *)
(* about, "other" took its place) and by what proves it disposable         *)
(* (markers, signature, manifest, owner or source file), which may change  *)
(* too; its project or owner may be busy, its repository may forbid        *)
(* cleaning, it may come to lie inside another artifact, and the policy    *)
(* file may be edited.  Journaling is the business of Execution.           *)
(***************************************************************************)
EXTENDS Naturals, Sequences, FiniteSets, SequencesExt

CONSTANTS
  Items,
  Cases,       \* [kind, host, gate, order, excluded, bad, signed]
  MaxChanges,  \* bound on what other programs do meanwhile
  MaxFaults

\* What the instances of the module assume of its parameters: the sessions of
\* macos.rs, of which the library alone runs those of caches and Finder files,
\* only that of project artifacts is given signatures, and that of a bundle is
\* given one path.
TrashSessionsAssumption ==
  /\ MaxChanges \in Nat /\ MaxFaults \in Nat
  /\ \A c \in Cases :
       /\ c.kind \in {"trash", "rule", "clean", "projects", "caches", "finder", "installer", "bundle"}
       /\ c.order \in Seq(Items)
       /\ c.kind \in {"caches", "finder"} => c.host = "library"
       /\ c.kind # "projects" => c.signed = {}
       /\ c.kind = "bundle" => Len(c.order) = 1

VARIABLES
  case,
  file, proof, trouble, policy,     \* the machine
  pc, pos, cancelled, expired,
  candidate, witness, rejected,     \* prepare
  rows, stopped, exit,              \* execute and report
  moved,                            \* history: what left, and what was wrong with it then
  fresh,                            \* history: changes since they were last looked for
  changes, faults

machine == <<file, proof, trouble, policy>>
prepared == <<candidate, witness, rejected>>
vars == <<case, machine, pc, pos, cancelled, expired, prepared, rows, stopped, exit, moved, fresh, changes, faults>>

kind == case.kind
Order == case.order
Chosen == ToSet(Order)
Item == Order[pos]
Goto(to) == pc' = to
Exit(code) == pc' = "ended" /\ exit' = code
Fault == faults < MaxFaults /\ faults' = faults + 1

----------------------------------------------------------------------------
(* What each session looks at.                                             *)

\* verify_artifact_signature, against the evidence of the preview.
SignatureHolds(x) == x \in case.signed => proof[x] = "shown"
\* Proof::revalidate: the owners are the ones that were read, and idle.
OwnerHolds(x) == proof[x] = "shown" /\ "busy" \notin trouble[x]
\* revalidate_developer_cache_selection: a reviewed location is idle and still
\* where its rule puts it; any other cache goes by its owners.
CacheHolds(x) == OwnerHolds(x)
\* classify_bundle_uninstaller, against the manifest read by prepare.
ManifestHolds(x) == proof[x] = witness[x]
\* The candidate's own revalidation: its file, and the files that bind it.
BoundByFiles(x) == kind \in {"rule", "clean"} \/ (kind = "projects" /\ x \notin case.signed)
CandidateHolds(x) == file[x] = candidate[x] /\ (BoundByFiles(x) => proof[x] = witness[x])
\* project_activity::require_idle and project_git::require_cleanup
Idle(x) == "busy" \notin trouble[x]
GitClean(x) == "git" \notin trouble[x]
\* purge_nesting_observed
Nested(x) == "nested" \in trouble[x]
PolicyHolds == policy = "shown"
WithPolicy == kind \in {"clean", "caches", "finder"} \/ (kind = "projects" /\ case.host = "library")

----------------------------------------------------------------------------
(* The command, up to the session.                                         *)

\* Each command's own conditions before it prepares anything, and the code it
\* ends with; case.gate names the first one that fails.
NoTerminal == case.gate = "noTerminal"
TrashGate == IF NoTerminal THEN "invalid" ELSE "none"
RuleGate == IF NoTerminal \/ case.gate = "unknownItem" THEN "invalid" ELSE "none"
CleanGate ==
  IF NoTerminal \/ case.gate = "unknownItem" THEN "invalid"
  ELSE IF case.gate = "attention" THEN "refused"
  ELSE IF case.gate = "empty" THEN "cancelled"
  ELSE IF case.excluded \cap Chosen # {} THEN "refused" ELSE "none"
ProjectsGate == IF NoTerminal \/ case.gate \in {"empty", "incomplete", "unknownItem"} THEN "invalid" ELSE "none"
InstallerGate ==
  IF NoTerminal THEN "invalid"
  ELSE IF cancelled \/ case.gate = "empty" THEN "cancelled"
  ELSE IF case.gate = "incomplete" THEN "refused" ELSE "none"
BundleGate == IF NoTerminal THEN "invalid" ELSE IF case.gate = "refusals" THEN "refused" ELSE "none"
LibraryGate ==
  IF case.gate \in {"incomplete", "attention", "overlap"} \/ ~PolicyHolds \/ case.excluded \cap Chosen # {}
    THEN "refused" ELSE "none"
GateExit ==
  CASE case.host = "library" -> LibraryGate
    [] kind = "trash" -> TrashGate
    [] kind = "rule" -> RuleGate
    [] kind = "clean" -> CleanGate
    [] kind = "projects" -> ProjectsGate
    [] kind = "installer" -> InstallerGate
    [] kind = "bundle" -> BundleGate

Gate ==
  /\ pc = "gate"
  /\ IF GateExit # "none" THEN Exit(GateExit) ELSE Goto("check") /\ UNCHANGED exit
  /\ UNCHANGED <<case, machine, pos, cancelled, expired, prepared, rows, stopped, moved, fresh, changes, faults>>

----------------------------------------------------------------------------
(* prepare                                                                 *)

\* The checks over the whole selection that come first.
Managed == \E x \in Chosen : "managed" \in case.bad[x]
ProjectsAdmitted ==
  ~Managed /\ ~cancelled /\ \A x \in Chosen : SignatureHolds(x) /\ Idle(x) /\ GitClean(x)
CachesAdmitted == \A x \in Chosen : CacheHolds(x)
BundleAdmitted == \A x \in Chosen : "vendor" \notin case.bad[x]
InstallerAdmitted == ~Managed /\ \A x \in Chosen : "unselectable" \notin case.bad[x]
CleanAdmitted == ~Managed /\ \A x \in Chosen : "undiscovered" \notin case.bad[x]
TrashAdmitted == ~Managed
Admitted ==
  CASE kind = "projects" -> ProjectsAdmitted
    [] kind = "caches" -> CachesAdmitted
    [] kind = "bundle" -> BundleAdmitted
    [] kind = "installer" -> InstallerAdmitted
    [] kind = "clean" -> CleanAdmitted
    [] OTHER -> TrashAdmitted

Check ==
  /\ pc = "check"
  /\ IF Admitted THEN Goto("capture") /\ UNCHANGED exit ELSE Exit("refused")
  /\ pos' = 1 /\ witness' = IF kind = "bundle" THEN proof ELSE witness
  /\ UNCHANGED <<case, machine, cancelled, expired, candidate, rejected, rows, stopped, moved, fresh, changes, faults>>

\* The candidate must still be the previewed object.
IdentityHolds(x) == kind \in {"caches", "clean", "installer"} => file[x] = "shown"

CancelStopsCapture == kind \notin {"projects", "bundle"}
\* A failed capture is an issue of the plan, or the end of the preparation.
CaptureFails(x) == file[x] = "gone" \/ ~SignatureHolds(x)
IssueAllowed == kind \in {"trash", "finder", "projects", "bundle", "installer"}
\* The planner refuses a running or unknown owner, and what is excluded.
Rejects(x) == x \in case.excluded \/ (kind = "bundle" /\ "busy" \in trouble[x])

Capture ==
  /\ pc = "capture" /\ pos <= Len(Order)
  /\ IF cancelled /\ CancelStopsCapture
       THEN Exit("cancelled") /\ UNCHANGED <<pos, prepared>>
     ELSE IF (CaptureFails(Item) /\ ~IssueAllowed) \/ (~CaptureFails(Item) /\ ~IdentityHolds(Item))
       THEN Exit("refused") /\ UNCHANGED <<pos, prepared>>
     ELSE /\ pos' = pos + 1
          /\ candidate' = IF CaptureFails(Item) THEN candidate ELSE [candidate EXCEPT ![Item] = file[Item]]
          /\ witness' = IF BoundByFiles(Item) THEN [witness EXCEPT ![Item] = proof[Item]] ELSE witness
          /\ rejected' = IF CaptureFails(Item) \/ Rejects(Item) THEN rejected \cup {Item} ELSE rejected
          /\ UNCHANGED <<pc, exit>>
  /\ UNCHANGED <<case, machine, cancelled, expired, rows, stopped, moved, fresh, changes, faults>>

\* The plan, as positions of the selection: its items, and the one that
\* follows a position (past the end when there is none).
Planned == {k \in 1..Len(Order) : Order[k] \notin rejected}
After(p) == {q \in Planned \cup {Len(Order) + 1} : p < q /\ \A k \in Planned : p < k => q <= k}
Plan == {Order[k] : k \in Planned}

\* Batches that stand or fall together.
WholeBatch == kind \in {"projects", "caches", "finder", "installer"} => rejected = {}
\* matches_observed_identities
FinderHolds == kind = "finder" => \A x \in Chosen : candidate[x] = "shown"

Prepared ==
  /\ pc = "capture" /\ pos > Len(Order)
  /\ IF ~FinderHolds \/ ~WholeBatch THEN Exit("refused")
     ELSE IF Planned = {} THEN Exit("invalid")
     ELSE Goto("prompt") /\ UNCHANGED exit
  /\ UNCHANGED <<case, machine, pos, cancelled, expired, prepared, rows, stopped, moved, fresh, changes, faults>>

\* The typed phrase, or the token the library has already checked.
Answer ==
  /\ pc = "prompt"
  /\ \/ case.host = "library" /\ Goto("approve") /\ UNCHANGED exit
     \/ case.host = "terminal" /\ ~cancelled /\ Goto("approve") /\ UNCHANGED exit
     \/ case.host = "terminal" /\ Exit("cancelled")
  /\ UNCHANGED <<case, machine, pos, cancelled, expired, prepared, rows, stopped, moved, fresh, changes, faults>>

----------------------------------------------------------------------------
(* approve and execute                                                     *)

ProjectsApprovable == \A x \in Chosen : GitClean(x) /\ ~Nested(x) /\ CandidateHolds(x)
CachesApprovable == \A x \in Chosen : CacheHolds(x) /\ CandidateHolds(x)
BundleApprovable == \A x \in Chosen : ManifestHolds(x) /\ Idle(x)
InstallerApprovable == \A x \in Chosen : CandidateHolds(x)
CleanApprovable == PolicyHolds
Approvable ==
  CASE kind = "projects" -> ProjectsApprovable
    [] kind = "caches" -> CachesApprovable
    [] kind = "bundle" -> BundleApprovable
    [] kind = "installer" -> InstallerApprovable
    [] kind = "clean" -> CleanApprovable
    [] OTHER -> TRUE

Approve ==
  /\ pc = "approve"
  /\ IF expired \/ ~Approvable THEN Exit("refused") ELSE Goto("open") /\ UNCHANGED exit
  /\ UNCHANGED <<case, machine, pos, cancelled, expired, prepared, rows, stopped, moved, fresh, changes, faults>>

\* Store::open, then Planner::validate over every item: an item whose
\* candidate no longer holds is skipped.
OpenStore ==
  /\ pc = "open"
  /\ \/ /\ rows' = [x \in Items |-> IF x \notin Plan THEN "none"
                                    ELSE IF CandidateHolds(x) /\ (kind = "bundle" => Idle(x)) THEN "planned" ELSE "skipped"]
        /\ Goto("next") /\ pos' \in After(0) /\ UNCHANGED <<exit, faults>>
     \/ Fault /\ Exit("failed") /\ UNCHANGED <<rows, pos>>
  /\ UNCHANGED <<case, machine, cancelled, expired, prepared, stopped, moved, fresh, changes>>

Row(state) == rows' = [rows EXCEPT ![Item] = state]

\* The guard of each session, after an item has started ("afterStarted") and
\* before its native call ("lastNative").
ProjectsGuard(point, x) ==
  /\ WithPolicy => PolicyHolds
  /\ point = "lastNative" => Idle(x) /\ GitClean(x) /\ ~Nested(x)
  /\ SignatureHolds(x)
CachesGuard(point, x) == PolicyHolds /\ (point = "lastNative" => CacheHolds(x))
BundleGuard(point, x) == point = "lastNative" => ManifestHolds(x) /\ Idle(x)
CleanGuard(point, x) == PolicyHolds
FinderGuard(point, x) == PolicyHolds
Guard(point, x) ==
  CASE kind = "projects" -> ProjectsGuard(point, x)
    [] kind = "caches" -> CachesGuard(point, x)
    [] kind = "bundle" -> BundleGuard(point, x)
    [] kind = "clean" -> CleanGuard(point, x)
    [] kind = "finder" -> FinderGuard(point, x)
    [] OTHER -> TRUE

\* The next item: skipped for a reason known by now, or started.
Begin ==
  /\ pc = "next" /\ pos <= Len(Order)
  /\ IF cancelled \/ expired THEN Row("cancelled") /\ pos' \in After(pos) /\ UNCHANGED <<pc, stopped>>
     ELSE IF rows[Item] = "skipped" \/ stopped
       THEN Row("skipped") /\ pos' \in After(pos) /\ UNCHANGED <<pc, stopped>>
     ELSE IF Guard("afterStarted", Item) THEN Goto("native") /\ UNCHANGED <<rows, pos, stopped>>
     ELSE Row("skipped") /\ pos' \in After(pos) /\ stopped' = TRUE /\ UNCHANGED pc
  /\ UNCHANGED <<case, machine, cancelled, expired, prepared, exit, moved, fresh, changes, faults>>

Looked(x, aspects) == fresh' = {c \in fresh : ~(c[1] = x /\ c[2] \in aspects)}

\* The candidate looks at its files once more.
NativeCheck ==
  /\ pc = "native"
  /\ IF CandidateHolds(Item)
       THEN Goto("guard") /\ Looked(Item, {"file"} \cup IF BoundByFiles(Item) THEN {"proof"} ELSE {})
              /\ UNCHANGED <<rows, pos>>
       ELSE Row("skipped") /\ pos' \in After(pos) /\ Goto("next") /\ UNCHANGED fresh
  /\ UNCHANGED <<case, machine, cancelled, expired, prepared, stopped, exit, moved, changes, faults>>

LastGuard ==
  /\ pc = "guard"
  /\ IF Guard("lastNative", Item)
       THEN Goto("move") /\ UNCHANGED <<rows, pos, stopped>>
              /\ Looked(Item, {"busy", "git", "nested", "policy"} \cup IF BoundByFiles(Item) THEN {} ELSE {"proof"})
       ELSE Row("skipped") /\ pos' \in After(pos) /\ Goto("next") /\ stopped' = TRUE /\ UNCHANGED fresh
  /\ UNCHANGED <<case, machine, cancelled, expired, prepared, exit, moved, changes, faults>>

\* What an item is when it leaves, and is not what its session promises.
Wrong(x) ==
  {a \in {"file", "proof", "busy", "git", "nested", "policy"} :
     CASE a = "file" -> file[x] # (IF kind \in {"caches", "clean", "installer", "finder"} THEN "shown" ELSE candidate[x])
       [] a = "proof" -> \/ BoundByFiles(x) /\ proof[x] # witness[x]
                         \/ (x \in case.signed \/ kind = "caches") /\ proof[x] # "shown"
                         \/ kind = "bundle" /\ proof[x] # witness[x]
       [] a = "busy" -> kind \in {"projects", "caches", "bundle"} /\ a \in trouble[x]
       [] a \in {"git", "nested"} -> kind = "projects" /\ a \in trouble[x]
       [] a = "policy" -> WithPolicy /\ ~PolicyHolds
       [] OTHER -> FALSE}

\* The one native call: the cancellation is asked last.
Move ==
  /\ pc = "move"
  /\ \/ (cancelled \/ expired) /\ Row("cancelled") /\ UNCHANGED <<file, moved, stopped, faults>>
     \/ ~(cancelled \/ expired) /\ file[Item] # "gone" /\ UNCHANGED <<stopped, faults>>
          /\ Row("succeeded") /\ file' = [file EXCEPT ![Item] = "gone"]
          /\ moved' = [moved EXCEPT ![Item] = @ \cup
               {[as |-> file[Item],
                 wrong |-> {a \in Wrong(Item) : <<Item, a>> \notin fresh}]}]
     \/ ~(cancelled \/ expired) /\ ((file[Item] = "gone" /\ UNCHANGED faults) \/ Fault)
          /\ Row("failed") /\ UNCHANGED <<file, moved, stopped>>
     \/ ~(cancelled \/ expired) /\ Fault /\ Row("unknown") /\ stopped' = TRUE /\ UNCHANGED <<file, moved>>
  /\ pos' \in After(pos) /\ Goto("next")
  /\ UNCHANGED <<case, proof, trouble, policy, cancelled, expired, prepared, exit, fresh, changes>>

\* ExecutionReport::exit_code and what the command makes of it.
ReportExit ==
  LET states == {rows[x] : x \in Plan} IN
  IF "unknown" \in states THEN "failed"
  ELSE IF states = {"succeeded"} THEN "ok"
  ELSE IF "cancelled" \in states THEN "cancelled"
  ELSE "refused"

\* Mutant: the command forgets what its plan left out.
CommandExitPlain == ReportExit

CommandExit ==
  IF ReportExit = "ok" /\ kind \in {"trash", "rule"} /\ rejected \ case.excluded # {}
    THEN "refused" ELSE ReportExit

Report ==
  /\ pc = "next" /\ pos > Len(Order)
  /\ Exit(CommandExit)
  /\ UNCHANGED <<case, machine, pos, cancelled, expired, prepared, rows, stopped, moved, fresh, changes, faults>>

----------------------------------------------------------------------------
(* The rest of the machine.                                                *)

Matters ==
  {"file"} \cup (IF kind \in {"rule", "clean", "projects", "caches", "bundle"} THEN {"proof"} ELSE {})
    \cup (IF kind \in {"projects", "caches", "bundle"} THEN {"busy"} ELSE {})
    \cup (IF kind = "projects" THEN {"git", "nested"} ELSE {})
    \cup (IF WithPolicy THEN {"policy"} ELSE {})

Changed(xs, a) == fresh' = fresh \cup {<<x, a>> : x \in xs} /\ changes < MaxChanges /\ changes' = changes + 1

Interfere(x) ==
  /\ pc # "ended"
  /\ \/ "file" \in Matters /\ file[x] # "gone" /\ Changed({x}, "file")
          /\ \E f \in {"other", "gone"} : f # file[x] /\ file' = [file EXCEPT ![x] = f]
          /\ UNCHANGED <<proof, trouble, policy>>
     \/ "proof" \in Matters /\ proof[x] = "shown" /\ Changed({x}, "proof")
          /\ proof' = [proof EXCEPT ![x] = "other"] /\ UNCHANGED <<file, trouble, policy>>
     \/ \E a \in {"busy", "git", "nested"} :
          /\ a \in Matters /\ Changed({x}, a)
          /\ trouble' = [trouble EXCEPT ![x] = IF a \in @ THEN @ \ {a} ELSE @ \cup {a}]
          /\ UNCHANGED <<file, proof, policy>>
  /\ UNCHANGED <<case, pc, pos, cancelled, expired, prepared, rows, stopped, exit, moved, faults>>

EditPolicy ==
  /\ pc # "ended" /\ "policy" \in Matters /\ Changed(Items, "policy")
  /\ policy' = IF policy = "shown" THEN "other" ELSE "shown"
  /\ UNCHANGED <<case, file, proof, trouble, pc, pos, cancelled, expired, prepared, rows, stopped, exit, moved, faults>>

\* Ctrl-C, where the command has a handler by then, or the library's cancel.
\* Elsewhere it ends the process, which is a crash of Execution.
Handler ==
  \/ case.host = "library" \/ kind \in {"projects", "installer"}
  \/ kind \in {"trash", "rule", "bundle"} /\ pc \notin {"gate", "check", "capture", "prompt"}
Cancel ==
  /\ pc # "ended" /\ Handler /\ ~cancelled /\ cancelled' = TRUE
  /\ UNCHANGED <<case, machine, pc, pos, expired, prepared, rows, stopped, exit, moved, fresh, changes, faults>>

\* The plan's two minutes.
Expire ==
  /\ pc \in {"prompt", "approve", "open", "next", "move"} /\ ~expired /\ expired' = TRUE
  /\ UNCHANGED <<case, machine, pc, pos, cancelled, prepared, rows, stopped, exit, moved, fresh, changes, faults>>

Init ==
  /\ case \in Cases
  /\ file = [x \in Items |-> "shown"] /\ proof = [x \in Items |-> "shown"]
  /\ trouble = [x \in Items |-> {}] /\ policy = "shown"
  /\ pc = "gate" /\ pos = 0 /\ cancelled = FALSE /\ expired = FALSE
  /\ candidate = [x \in Items |-> "none"] /\ witness = [x \in Items |-> "none"] /\ rejected = {}
  /\ rows = [x \in Items |-> "none"] /\ stopped = FALSE /\ exit = "none"
  /\ moved = [x \in Items |-> {}] /\ fresh = {}
  /\ changes = 0 /\ faults = 0

Session ==
  \/ Gate \/ Check \/ Capture \/ Prepared \/ Answer \/ Approve \/ OpenStore
  \/ Begin \/ NativeCheck \/ LastGuard \/ Move \/ Report

Next == Session \/ (\E x \in Items : Interfere(x)) \/ EditPolicy \/ Cancel \/ Expire

Spec == Init /\ [][Next]_vars

----------------------------------------------------------------------------
(* Properties.                                                             *)

\* Whatever stopped being right before an item's last look keeps it in place:
\* an item that left was the reviewed object with its evidence, nothing busy,
\* repository, nesting and policy as promised, but for a change made after
\* that look (disclosed by the contracts).
MovedWasRight == \A x \in Items : \A m \in moved[x] : m.wrong = {}

\* A batch of project artifacts, caches, Finder files or installers leaves
\* whole or stops for a reason: nothing leaves when one of them was refused
\* before approval.
AllOrNothingApproved ==
  kind \in {"projects", "caches", "finder", "installer"} =>
    \A x \in Items : moved[x] # {} => rejected = {} /\ Chosen \cap case.excluded = {}

\* A command that ends with 0 moved everything chosen that was not excluded.
ZeroMeansAllMoved ==
  exit = "ok" => \A x \in Chosen \ case.excluded : moved[x] # {} /\ rows[x] = "succeeded"
=============================================================================
