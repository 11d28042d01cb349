---------------------------- MODULE CachePreview ----------------------------
(***************************************************************************)
(* The preview of caches: the reviewed rule locations and the activity of  *)
(* their tools (crates/engine/src/purge_preview.rs, purge_preview/         *)
(* adobe.rs), caches owned by an installed application (bundle_owned.rs),  *)
(* the two process-wide slots for native ownership observations            *)
(* (app_observation/owner_budget.rs) and the measurements that follow      *)
(* (purge_preview/task.rs).                                                *)
(*                                                                         *)
(* Several previews of one process share the slots; a native call cannot   *)
(* be interrupted, so an observation may outlive the preview that asked.   *)
(***************************************************************************)
EXTENDS Naturals, Sequences, FiniteSets, SequencesExt

CONSTANTS
  Previews,       \* cache previews of the process
  Cases,          \* [previews, order, at, facts, owner, running, locks, census]
  Capacity,       \* slots for owner observations
  MaxCandidates,  \* bound of the candidate list
  MaxIssues,      \* issues after which discovery gives up
  MaxFaults

\* What the instances of the module assume of its parameters.
CachePreviewAssumption ==
  Capacity \in Nat \ {0} /\ MaxCandidates \in Nat /\ MaxIssues \in Nat \ {0} /\ MaxFaults \in Nat

VARIABLES
  case,
  phase, cancel, expired, pos, inventory,    \* each preview
  cands, issues, complete, status, sized,
  budget, call, active,                      \* owner observations
  faults

task == <<phase, cancel, expired, pos, inventory, sized>>
result == <<cands, issues, complete, status>>
observation == <<budget, call, active>>
vars == <<case, task, result, observation, faults>>

Goto(p, to) == phase' = [phase EXCEPT ![p] = to]
Fault == faults < MaxFaults /\ faults' = faults + 1
Has(x, fact) == fact \in case.facts[x]

----------------------------------------------------------------------------
(* The reviewed rules: [rule, tool], by how their tool's activity is told. *)

R(rule, tool) == [rule |-> rule, tool |-> tool]

XcodeRules == {R("derived_data", "xcode"), R("xcode_cache", "xcode"), R("coresimulator", "xcode")}
PackageRules ==
  {R("npm_cacache", "npm"), R("pnpm_store", "pnpm"), R("yarn_classic", "yarn"), R("pip", "pip"),
   R("cargo_registry", "cargo"), R("gradle_modules", "gradle"), R("homebrew_downloads", "homebrew")}
VSCodeRules == {R("vscode_cached_data", "vscode-stable"), R("vscode_vsix", "vscode-stable")}
JetBrainsRules ==
  {R(t, t) : t \in {"phpstorm-jcef", "goland-jcef", "pycharm-jcef", "webstorm-jcef",
                    "datagrip-jcef", "intellij-jcef"}}
CursorRules == {R("cursor_cached_data", "cursor"), R("cursor_vsix", "cursor")}
BuildToolRules == XcodeRules \cup PackageRules
EditorRules == VSCodeRules \cup JetBrainsRules \cup CursorRules
ApplicationRules ==
  {R("teams_classic", "teams-classic"), R("discord_cache", "discord"),
   R("adobe_media_files", "adobe-media"), R("adobe_media_database", "adobe-media")}
BrowserRules ==
  {R("chrome_http", "chrome"), R("chrome_code", "chrome"), R("chrome_gpu", "chrome"),
   R("edge_http", "edge"), R("edge_code", "edge"), R("edge_gpu", "edge"), R("firefox_http", "firefox")}
Rules == BuildToolRules \cup EditorRules \cup ApplicationRules \cup BrowserRules
RuleAt(x) == CHOOSE r \in Rules : r.rule = case.at[x]
AtRule(x) == \E r \in Rules : r.rule = case.at[x]

Browsers == {r.tool : r \in BrowserRules}
NamedTools == {r.tool : r \in EditorRules} \cup {"teams-classic", "discord"}

\* developer_cache_rule_locations: no component is a link, and a browser
\* profile has its twin under Application Support.
Located(x) ==
  /\ AtRule(x) /\ ~Has(x, "link")
  /\ RuleAt(x).tool \in Browsers => ~Has(x, "noProfile")

\* named_process_active_or_unknown: a census that fails counts as active.
NamedProcess(tool) == ~case.census \/ tool \in case.running
\* adobe::observe_idle also looks into every running bundle and every root.
AdobeActive == ~case.census \/ "adobe-media" \in case.running \/ "adobeUnknown" \in case.running
\* A browser's lock files come before the processes.
BrowserActive(tool) == tool \in case.locks \/ ~case.census \/ tool \in case.running

\* application_active_or_unknown: package managers and Xcode have no check.
ActiveOrUnknown(tool) ==
  CASE tool \in NamedTools -> NamedProcess(tool)
    [] tool = "adobe-media" -> AdobeActive
    [] tool \in Browsers -> BrowserActive(tool)
    [] OTHER -> FALSE

\* lock_sibling_observed, only where the rule names a lock.
LockSibling(x) == case.at[x] = "gradle_modules" /\ Has(x, "lock")

\* eligible_id: one component of reverse-domain form under ~/Library/Caches,
\* no protected namespace, no reviewed location.
EligibleId(x) == case.at[x] = "bundle_id" /\ ~Has(x, "denied")

\* CachePolicy::excludes
Excludes(x) == Has(x, "excluded")

----------------------------------------------------------------------------
(* developer_cache_preview_with_progress: the exact locations.             *)

Candidate(x, idle) == [id |-> x, supported |-> idle, complete |-> ~Has(x, "uncovered")]

\* A directory below a matched location is part of it.
ExactCandidates ==
  {x \in ToSet(case.order) : Located(x) /\ ~Has(x, "dataless") /\ ~Has(x, "below")}

Discover(p) ==
  /\ phase[p] = "discover"
  /\ \/ ~cancel[p] /\ ~expired[p] /\ status' = [status EXCEPT ![p] = "complete"] /\ UNCHANGED faults
     \/ ~cancel[p] /\ Fault /\ status' = [status EXCEPT ![p] = "partial"]
     \/ (cancel[p] \/ expired[p]) /\ UNCHANGED faults
          /\ status' = [status EXCEPT ![p] = IF cancel[p] THEN "cancelled" ELSE "partial"]
  /\ cands' = [cands EXCEPT ![p] =
       {Candidate(x, ~LockSibling(x) /\ ~ActiveOrUnknown(RuleAt(x).tool)) : x \in ExactCandidates}]
  /\ pos' = [pos EXCEPT ![p] = 1]
  /\ Goto(p, "append")
  /\ UNCHANGED <<case, cancel, expired, inventory, sized, issues, complete, observation>>

----------------------------------------------------------------------------
(* bundle_owned::append                                                    *)

Wanted(x) == EligibleId(x) /\ ~Has(x, "dataless") /\ ~Excludes(x)
Entry(p) == case.order[pos[p]]

Issue(p) == issues' = [issues EXCEPT ![p] = @ + 1]
GiveUp(p) == Goto(p, "classified")
NextEntry(p) == pos' = [pos EXCEPT ![p] = @ + 1]

\* Entries that are not looked at, the end of the list, and the limits.
AppendStep(p) ==
  /\ phase[p] = "append"
  /\ \/ /\ pos[p] > Len(case.order)
        /\ IF expired[p] THEN Issue(p) ELSE UNCHANGED issues
        /\ GiveUp(p) /\ UNCHANGED pos
     \/ /\ pos[p] <= Len(case.order) /\ ~Wanted(Entry(p))
        /\ NextEntry(p) /\ UNCHANGED <<phase, issues>>
     \/ /\ pos[p] <= Len(case.order) /\ Wanted(Entry(p))
        /\ expired[p] \/ Cardinality(cands[p]) >= MaxCandidates
        /\ issues' = [issues EXCEPT ![p] = @ + IF expired[p] THEN 2 ELSE 1]
        /\ GiveUp(p) /\ UNCHANGED pos
  /\ UNCHANGED <<case, cancel, expired, inventory, sized, cands, complete, status, observation, faults>>

\* The inventory of installed applications, once per preview.
Inventory(p) ==
  /\ phase[p] = "append" /\ pos[p] <= Len(case.order) /\ Wanted(Entry(p))
  /\ ~expired[p] /\ Cardinality(cands[p]) < MaxCandidates /\ ~inventory[p]
  /\ \/ /\ ~cancel[p] /\ inventory' = [inventory EXCEPT ![p] = TRUE]
        /\ UNCHANGED <<phase, issues, faults>>
     \/ Fault /\ Issue(p) /\ GiveUp(p) /\ UNCHANGED inventory
     \/ cancel[p] /\ Goto(p, "cancelled") /\ UNCHANGED <<inventory, issues, faults>>
  /\ UNCHANGED <<case, cancel, expired, pos, sized, cands, complete, status, observation>>

----------------------------------------------------------------------------
(* owner_budget::observe: one call per preview at a time.                  *)
(* A thread is inside the uninterruptible call ("native") or has ended,    *)
(* its answer sent or refused.                                             *)

\* Slot::reserve
Reserve == active < Capacity

Ask(p) ==
  /\ phase[p] = "append" /\ inventory[p] /\ pos[p] <= Len(case.order) /\ Wanted(Entry(p))
  /\ ~expired[p] /\ Cardinality(cands[p]) < MaxCandidates
  /\ IF cancel[p] THEN Goto(p, "cancelled") /\ UNCHANGED <<issues, pos, observation, faults>>
     ELSE IF ~Reserve
       THEN /\ Issue(p) /\ NextEntry(p) /\ UNCHANGED <<observation, faults>>
            /\ IF issues[p] + 1 >= MaxIssues THEN GiveUp(p) ELSE UNCHANGED phase
       ELSE \/ /\ active' = active + 1
               /\ call' = [call EXCEPT ![p] = Append(@, [at |-> "native", late |-> FALSE])]
               /\ budget' = [budget EXCEPT ![p] = FALSE]
               /\ Goto(p, "waiting") /\ UNCHANGED <<issues, pos, faults>>
            \/ \* the thread cannot be started: its slot goes back at once
               /\ Fault /\ Issue(p) /\ NextEntry(p) /\ UNCHANGED observation
               /\ IF issues[p] + 1 >= MaxIssues THEN GiveUp(p) ELSE UNCHANGED phase
  /\ UNCHANGED <<case, cancel, expired, inventory, sized, cands, complete, status>>

\* The last call of a preview is the one it waits for.
Current(p) == Last(call[p])

\* Control::check after the native call: stopped, or past its deadline.
StillWanted(p, i) == i = Len(call[p]) /\ phase[p] = "waiting" /\ ~budget[p] /\ ~expired[p]

\* The thread returns from its native calls, sends what it has and ends; the
\* slot goes with it.  An answer nobody waits for is dropped.
NativeReturns(p, i) ==
  /\ call[p][i].at = "native"
  /\ call' = [call EXCEPT ![p][i].at = IF StillWanted(p, i) THEN "sent" ELSE "refused",
                          ![p][i].late = ~StillWanted(p, i)]
  /\ active' = active - 1
  /\ UNCHANGED <<case, task, result, budget, faults>>

\* capture_with_inventory and idle over what was observed.
Observed(x) ==
  CASE case.owner[x] = "none" -> "skip"
    [] case.owner[x] \in {"unknown", "tooMany", "forbidden"} -> "issue"
    [] case.owner[x] = "replaced" -> "changed"
    [] OTHER -> "proof"

\* The caller's own check before it takes an answer.
Accepts(p) == ~budget[p] /\ ~expired[p]

Answer(p) ==
  /\ phase[p] = "waiting" /\ Current(p).at \in {"sent", "refused"}
  /\ LET x == Entry(p)
         said == IF ~Accepts(p) \/ Current(p).at = "refused" THEN "issue" ELSE Observed(x)
     IN IF cancel[p] THEN Goto(p, "cancelled") /\ UNCHANGED <<pos, issues, cands>>
        ELSE /\ NextEntry(p)
             /\ IF said \in {"issue", "changed"} \/ (said = "proof" /\ case.owner[x] = "activityUnknown")
                  THEN Issue(p) ELSE UNCHANGED issues
             /\ cands' = IF said = "proof"
                           THEN [cands EXCEPT ![p] = @ \cup {Candidate(x, case.owner[x] = "idle")}] ELSE cands
             /\ IF said = "issue" /\ issues[p] + 1 >= MaxIssues THEN GiveUp(p) ELSE Goto(p, "append")
  /\ UNCHANGED <<case, cancel, expired, inventory, sized, complete, status, observation, faults>>

TimedOut(p) == budget[p] \/ expired[p]

\* The caller stops waiting: cancelled, or the five seconds are over.  Dropping
\* Stop tells the thread; the thread keeps its slot.
StopWaiting(p) ==
  /\ phase[p] = "waiting"
  /\ IF cancel[p] THEN Goto(p, "cancelled") /\ UNCHANGED <<pos, issues>>
     ELSE /\ TimedOut(p)
          /\ Issue(p) /\ NextEntry(p)
          /\ IF issues[p] + 1 >= MaxIssues THEN GiveUp(p) ELSE Goto(p, "append")
  /\ UNCHANGED <<case, cancel, expired, inventory, sized, cands, complete, status, observation, faults>>

----------------------------------------------------------------------------
(* The rest of the classification and the measurements.                    *)

\* Mutant: unanswered owners only cost their own cache.
WholeAlways(p) == status[p] = "complete"

Whole(p) == status[p] = "complete" /\ issues[p] = 0
Incomplete(cs) == {[c EXCEPT !.complete = FALSE] : c \in cs}

Classified(p) ==
  /\ phase[p] = "classified"
  /\ IF cancel[p] THEN Goto(p, "cancelled") /\ UNCHANGED <<complete, status, cands>>
     ELSE /\ complete' = [complete EXCEPT ![p] = Whole(p)]
          /\ cands' = IF Whole(p) THEN cands ELSE [cands EXCEPT ![p] = Incomplete(@)]
          /\ status' = IF status[p] = "complete" /\ ~Whole(p) THEN [status EXCEPT ![p] = "partial"] ELSE status
          /\ Goto(p, "sizing")
  /\ UNCHANGED <<case, cancel, expired, pos, inventory, sized, issues, observation, faults>>

Position(x) == CHOOSE i \in 1 .. Len(case.order) : case.order[i] = x

\* One candidate's measurement; what discovery missed is not repaired by it.
Measure(p) ==
  /\ phase[p] = "sizing"
  /\ \E c \in cands[p] :
       /\ c.id \notin sized[p]
       /\ \A d \in cands[p] : d.id \notin sized[p] => Position(c.id) <= Position(d.id)
       /\ sized' = [sized EXCEPT ![p] = @ \cup {c.id}]
       /\ \/ /\ ~cancel[p] /\ UNCHANGED <<cands, faults, status>>
             /\ complete' = [complete EXCEPT ![p] = @ /\ c.complete]
          \/ /\ \/ cancel[p] /\ UNCHANGED faults
                \/ Fault
             /\ cands' = [cands EXCEPT ![p] = (@ \ {c}) \cup {[c EXCEPT !.complete = FALSE]}]
             /\ complete' = [complete EXCEPT ![p] = FALSE]
             /\ status' = IF cancel[p] THEN [status EXCEPT ![p] = "cancelled"] ELSE status
  /\ UNCHANGED <<case, phase, cancel, expired, pos, inventory, issues, observation>>

Finish(p) ==
  /\ phase[p] = "sizing" /\ \A c \in cands[p] : c.id \in sized[p]
  /\ cands' = IF complete[p] THEN cands ELSE [cands EXCEPT ![p] = Incomplete(@)]
  /\ status' = IF ~complete[p] /\ status[p] = "complete" THEN [status EXCEPT ![p] = "partial"] ELSE status
  /\ Goto(p, "done")
  /\ UNCHANGED <<case, cancel, expired, pos, inventory, sized, issues, complete, observation, faults>>

----------------------------------------------------------------------------
Ended(p) == phase[p] \in {"done", "cancelled"}

Cancel(p) ==
  /\ ~Ended(p) /\ ~cancel[p] /\ cancel' = [cancel EXCEPT ![p] = TRUE]
  /\ UNCHANGED <<case, phase, expired, pos, inventory, sized, result, observation, faults>>

\* The discovery deadline, and OWNER_BUDGET of one observation.
Expire(p) ==
  /\ ~Ended(p) /\ ~expired[p] /\ expired' = [expired EXCEPT ![p] = TRUE]
  /\ UNCHANGED <<case, phase, cancel, pos, inventory, sized, result, observation, faults>>

BudgetPasses(p) ==
  /\ phase[p] = "waiting" /\ ~budget[p] /\ budget' = [budget EXCEPT ![p] = TRUE]
  /\ UNCHANGED <<case, task, result, call, active, faults>>

Init ==
  /\ case \in Cases
  /\ phase = [p \in Previews |-> IF p \in case.previews THEN "discover" ELSE "done"] /\ cancel = [p \in Previews |-> FALSE]
  /\ expired = [p \in Previews |-> FALSE] /\ pos = [p \in Previews |-> 0]
  /\ inventory = [p \in Previews |-> FALSE] /\ sized = [p \in Previews |-> {}]
  /\ cands = [p \in Previews |-> {}] /\ issues = [p \in Previews |-> 0]
  /\ complete = [p \in Previews |-> FALSE] /\ status = [p \in Previews |-> "partial"]
  /\ budget = [p \in Previews |-> FALSE] /\ call = [p \in Previews |-> <<>>] /\ active = 0
  /\ faults = 0

Native == \E p \in Previews : \E i \in 1 .. Len(case.order) : i <= Len(call[p]) /\ NativeReturns(p, i)
Step(p) ==
  \/ Discover(p) \/ AppendStep(p) \/ Inventory(p) \/ Ask(p) \/ Answer(p) \/ StopWaiting(p)
  \/ Classified(p) \/ Measure(p) \/ Finish(p)
Over == (\A p \in Previews : Ended(p)) /\ UNCHANGED vars

Next == (\E p \in Previews : Step(p) \/ Cancel(p) \/ Expire(p) \/ BudgetPasses(p)) \/ Native \/ Over

\* The previews' threads run and their budgets pass.  Nothing is assumed of
\* the native calls: one may never return.
Spec ==
  Init /\ [][Next]_vars
    /\ \A p \in Previews : WF_vars(Step(p)) /\ WF_vars(BudgetPasses(p))

----------------------------------------------------------------------------
(* Properties.                                                             *)

\* A cache is offered only by a preview in which every wanted owner was
\* observed in time: one that met no slot, ran late or failed makes every
\* cache of its preview incomplete (owner_issues).
UnansweredOffersNothing ==
  \A p \in Previews : phase[p] = "done" /\ (\E c \in cands[p] : c.complete) =>
    /\ status[p] = "complete" /\ complete[p]
    /\ \A i \in 1 .. Len(case.order) : Wanted(case.order[i]) =>
         \/ case.owner[case.order[i]] = "none"
         \/ \E c \in cands[p] : c.id = case.order[i]
    /\ \A i \in 1 .. Len(call[p]) : call[p][i].at = "sent" /\ ~call[p][i].late

\* A cache shown as idle had its tool or its owner seen idle (unknown is active).
OfferedIsIdle ==
  \A p \in Previews : \A c \in cands[p] : c.supported =>
    \/ AtRule(c.id) /\ ~LockSibling(c.id)
         /\ (RuleAt(c.id).tool \notin case.running \cup case.locks)
         /\ (case.census \/ RuleAt(c.id).tool \in {r.tool : r \in BuildToolRules})
    \/ EligibleId(c.id) /\ case.owner[c.id] = "idle"

\* The slots count exactly the threads still inside a native call, and never
\* more than there are slots.
SlotsAreThreads ==
  /\ active = Cardinality({<<p, i>> \in Previews \X (1 .. Len(case.order)) :
                             i <= Len(call[p]) /\ call[p][i].at = "native"})
  /\ active <= Capacity

=============================================================================
