------------------------------- MODULE AppRelated -------------------------------
(***************************************************************************)
(* The preview of the data applications leave in Library directories       *)
(* (crates/engine/src/app_related.rs): which locations the rules give the  *)
(* applications of an inventory, and a probe of each below a validated     *)
(* Library root while other programs move things about.  The preview       *)
(* offers nothing for deletion.                                            *)
(*                                                                         *)
(* The file system is a tree of objects: links[<<directory, name>>] is the *)
(* object found there, and "/" holds the Library roots by their paths.     *)
(***************************************************************************)
EXTENDS Naturals, Sequences, FiniteSets, SequencesExt

CONSTANTS
  Cases,              \* [apps, roots, inventory, filter]
  Objects,            \* object -> [kind, device, dataless]
  Tree,               \* the links at the start
  Moves,              \* <<place, object>>: what other programs may do
  ChromiumDirs,       \* CHROMIUM_DIR_ALLOWLIST
  MaxRoots, MaxGeneric, MaxPaths, MaxCandidates, MaxChanges, MaxFaults

\* What the instances of the module assume of its parameters.
AppRelatedAssumption ==
  {MaxRoots, MaxGeneric, MaxPaths, MaxCandidates, MaxChanges, MaxFaults} \subseteq Nat

VARIABLES
  case, links, pc, k,
  opened,             \* the validated roots: [path, object]
  specs, kept,        \* [root, rule, at, copies]
  probe,              \* the probe under way
  candidates, shown,
  status, cancelled, expired, changes, faults

vars == <<case, links, pc, k, opened, specs, kept, probe, candidates, shown, status, cancelled, expired, changes, faults>>
world == <<cancelled, expired, changes, links>>

None == "none"
Goto(to) == pc' = to
Fault == faults < MaxFaults /\ faults' = faults + 1
Take(s, n) == SubSeq(s, 1, IF Len(s) < n THEN Len(s) ELSE n)

\* update_status: a failure, then a cancellation, then anything left undone.
Worse(old, new) ==
  CASE "failed" \in {old, new} -> "failed" [] "cancelled" \in {old, new} -> "cancelled"
    [] "partial" \in {old, new} -> "partial" [] OTHER -> "complete"

\* The status the code of an issue leads to.
IssueStatus(code) ==
  CASE code = None -> "complete" [] code = "cancelled" -> "cancelled" [] code = "invalid_input" -> "failed" [] OTHER -> "partial"

Stop == IF cancelled THEN "cancelled" ELSE IF expired THEN "duration_limit" ELSE None

----------------------------------------------------------------------------
(* The request, and the Library roots.                                     *)

\* validate_root_inputs
ValidRoots == Len(case.roots) \in 1..MaxRoots /\ \A i \in DOMAIN case.roots : case.roots[i].library

Check ==
  /\ pc = "checking" /\ k' = 1
  /\ IF case.inventory \in {"failed", "cancelled"} THEN Goto("done") /\ UNCHANGED status
     ELSE IF ~ValidRoots THEN Goto("done") /\ status' = Worse(status, "failed")
     ELSE Goto("opening") /\ UNCHANGED status
  /\ UNCHANGED <<case, opened, specs, kept, probe, candidates, shown, faults, world>>

\* Shorter paths first.
Ordered == SortSeq(case.roots, LAMBDA a, b : a.length < b.length)
Overlap(a, b) == a.path = b.path \/ a.under = b.path \/ b.under = a.path

At(place) == IF place \in DOMAIN links THEN links[place] ELSE None
Directory(o) == o # None /\ Objects[o].kind = "directory"
Usable(o) == Directory(o) /\ ~Objects[o].dataless

\* open_library_root_macos
OpenIssue(path) ==
  LET o == At(<<"/", path>>)
  IN IF ~Directory(o) THEN "probe_failed" ELSE IF Objects[o].dataless THEN "invalid_root" ELSE None

\* prepare_library_roots
OpenRoot ==
  /\ pc = "opening" /\ k <= Len(Ordered)
  /\ LET root == Ordered[k] IN
       IF Stop # None
         THEN /\ status' = Worse(status, IssueStatus(Stop)) /\ k' = Len(Ordered) + 1 /\ UNCHANGED <<opened, faults>>
         ELSE /\ k' = k + 1
              /\ IF \E i \in DOMAIN opened : Overlap(opened[i], root)
                   THEN status' = Worse(status, "partial") /\ UNCHANGED <<opened, faults>>
                   ELSE \/ /\ status' = Worse(status, IssueStatus(OpenIssue(root.path))) /\ UNCHANGED faults
                           /\ opened' = IF OpenIssue(root.path) # None THEN opened
                                        ELSE Append(opened, [path |-> root.path, under |-> root.under, object |-> At(<<"/", root.path>>)])
                        \/ Fault /\ status' = Worse(status, IssueStatus("policy_failure")) /\ UNCHANGED opened
  /\ UNCHANGED <<case, pc, specs, kept, probe, candidates, shown, world>>

----------------------------------------------------------------------------
(* The locations the rules give each application.                          *)

Copies == DOMAIN case.apps

\* is_chromium, is_firefox and the rest, in that order (rule_matches).
IsChromium(a) == a.app /\ a.package /\ ~a.badExecutable /\ a.dir \in ChromiumDirs
IsFirefox(a) == a.app /\ (a.bundle = "firefox" \/ a.named)
Of(kind) ==
  {c \in Copies :
     LET a == case.apps[c] IN
       kind = (IF IsChromium(a) THEN "chromium" ELSE IF IsFirefox(a) THEN "firefox" ELSE IF a.bundle # None THEN "generic" ELSE "nothing")}

\* The bundle-id convention is tried for the first applications by path only.
Generic == SetToSortSeq(Of("generic"), LAMBDA x, y : case.apps[x].order < case.apps[y].order)

TooMany == Len(Generic) > MaxGeneric

Match ==
  /\ pc = "opening" /\ k > Len(Ordered) /\ Goto("locating") /\ k' = 1
  /\ status' = IF TooMany /\ ~cancelled THEN Worse(status, "partial") ELSE status
  /\ UNCHANGED <<case, opened, specs, kept, probe, candidates, shown, faults, world>>

Location(i, rule, at, copies) == [root |-> i, rule |-> rule, at |-> at, copies |-> copies]

\* The documented data and cache directories of a Chromium product.
ChromiumSpecs(i, c) ==
  <<Location(i, "data", <<"Support", case.apps[c].dir>>, {c}), Location(i, "cache", <<"Caches", case.apps[c].dir>>, {c})>>

\* The profile family every Firefox copy shares.
FirefoxSpecs(i) ==
  IF Of("firefox") = {} THEN <<>>
  ELSE <<Location(i, "profiles", <<"Support", "Firefox", "Profiles">>, Of("firefox")),
         Location(i, "caches", <<"Caches", "Firefox", "Profiles">>, Of("firefox")),
         Location(i, "groups", <<"Support", "Firefox", "Groups">>, Of("firefox"))>>

\* valid_bundle_id_component_path
Safe(c) == ~case.apps[c].unsafe

\* The bundle identifier as a directory name, where it is safe as one.
GenericSpecs(i, c) ==
  IF ~Safe(c) THEN <<>>
  ELSE <<Location(i, "convention", <<"Support", case.apps[c].bundle>>, {c}), Location(i, "convention", <<"Caches", case.apps[c].bundle>>, {c})>>

Additions(i) ==
  FlattenSeq([j \in 1..Cardinality(Of("chromium")) |-> ChromiumSpecs(i, SetToSeq(Of("chromium"))[j])])
    \o FirefoxSpecs(i)
    \o FlattenSeq([j \in 1..Len(Take(Generic, MaxGeneric)) |-> GenericSpecs(i, Generic[j])])

\* maybe_add_spec: one candidate per root, rule and location, within the budget
\* of path bytes.
SameSpec(s, t) == s.root = t.root /\ s.rule = t.rule /\ s.at = t.at
AddSpec(acc, spec) ==
  LET old == {s \in acc.specs : SameSpec(s, spec)} IN
    IF old # {} THEN [acc EXCEPT !.specs = {IF s \in old THEN [s EXCEPT !.copies = @ \cup spec.copies] ELSE s : s \in @}]
    ELSE IF Cardinality(acc.specs) >= MaxPaths THEN [acc EXCEPT !.status = Worse(@, "partial")]
    ELSE [acc EXCEPT !.specs = @ \cup {spec}]

Locate ==
  /\ pc = "locating" /\ k <= Len(opened)
  /\ IF Stop # None
       THEN status' = Worse(status, IssueStatus(Stop)) /\ k' = Len(opened) + 1 /\ UNCHANGED specs
       ELSE LET unsafe == \E j \in DOMAIN Take(Generic, MaxGeneric) : ~Safe(Generic[j])
                sum == FoldLeft(AddSpec, [specs |-> specs, status |-> IF unsafe THEN Worse(status, "partial") ELSE status], Additions(k))
            IN specs' = sum.specs /\ status' = sum.status /\ k' = k + 1
  /\ UNCHANGED <<case, pc, opened, kept, probe, candidates, shown, faults, world>>

NoProbe == [step |-> "idle", inside |-> None, part |-> 1, seen |-> None, entered |-> {}, state |-> None, issue |-> None]

\* The order of the kept specifications stands for the order of their paths.
Keep ==
  /\ pc = "locating" /\ k > Len(opened) /\ Goto("probing") /\ k' = 1
  /\ kept' = Take(SetToSeq(specs), MaxCandidates)
  /\ status' = IF Cardinality(specs) > MaxCandidates THEN Worse(status, "partial") ELSE status
  /\ UNCHANGED <<case, opened, specs, probe, candidates, shown, faults, world>>

----------------------------------------------------------------------------
(* The probe of one candidate, a system call a step.                       *)

Root == opened[kept[k].root]

\* verify_root_mapping, validate_root_observation
SameRoot == At(<<"/", Root.path>>) = Root.object /\ Usable(Root.object)
Ends(state, issue) == probe' = [probe EXCEPT !.step = "end", !.state = state, !.issue = issue]
Probing(step) == pc = "probing" /\ k <= Len(kept) /\ probe.step = step

\* probe_candidate_path: nothing is looked at once stopped.
ProbeStart ==
  /\ Probing("idle")
  /\ IF Stop # None THEN probe' = [probe EXCEPT !.step = "report", !.state = "probe_failed", !.issue = Stop] /\ UNCHANGED faults
     ELSE \/ /\ UNCHANGED faults
             /\ IF ~SameRoot THEN Ends("probe_failed", "changed_root_identity")
                ELSE probe' = [probe EXCEPT !.step = "stat", !.inside = Root.object, !.entered = {Root.object}]
          \/ Fault /\ probe' = [probe EXCEPT !.step = "report", !.state = "probe_failed", !.issue = "policy_failure"]
  /\ UNCHANGED <<case, pc, k, opened, specs, kept, candidates, shown, status, world>>

Leaf == probe.part = Len(kept[k].at)
Found == At(<<probe.inside, kept[k].at[probe.part]>>)

Here(o) == Objects[o].device = Objects[Root.object].device

\* One name, never followed: missing, a link, in the cloud, another volume.
ProbeStat ==
  /\ Probing("stat")
  /\ \/ /\ UNCHANGED faults
        /\ IF Found = None THEN Ends("missing", None)
           ELSE IF Objects[Found].kind = "link" THEN Ends("not_followed_symlink", None)
           ELSE IF Objects[Found].dataless THEN Ends("probe_failed", "cloud_or_dataless")
           ELSE IF ~Here(Found) THEN Ends("probe_failed", "mount_boundary")
           ELSE IF Leaf THEN probe' = [probe EXCEPT !.step = "leaf", !.state = Objects[Found].kind]
           ELSE IF ~Directory(Found) THEN Ends("probe_failed", "probe_failed")
           ELSE probe' = [probe EXCEPT !.step = "open", !.seen = Found]
     \/ Fault /\ \/ Ends("permission_denied", "permission_denied")
                 \/ Ends(IF Leaf THEN "probe_failed" ELSE "not_followed_symlink", "probe_failed")
  /\ UNCHANGED <<case, pc, k, opened, specs, kept, candidates, shown, status, world>>

\* validate_opened_intermediate
SameIntermediate(o) == ~Objects[o].dataless /\ Here(o) /\ o = probe.seen

ProbeOpen ==
  /\ Probing("open") /\ UNCHANGED faults
  /\ IF Found = None THEN Ends("missing", None)
     ELSE IF ~Directory(Found) THEN Ends("not_followed_symlink", IF Objects[Found].kind = "link" THEN None ELSE "probe_failed")
     ELSE IF ~SameIntermediate(Found) THEN Ends("probe_failed", "probe_failed")
     ELSE probe' = [probe EXCEPT !.step = "stat", !.inside = Found, !.part = @ + 1, !.entered = @ \cup {Found}, !.seen = None]
  /\ UNCHANGED <<case, pc, k, opened, specs, kept, candidates, shown, status, world>>

ProbeLeaf ==
  /\ Probing("leaf") /\ UNCHANGED faults
  /\ IF SameRoot THEN Ends(probe.state, None) ELSE Ends("probe_failed", "changed_root_identity")
  /\ UNCHANGED <<case, pc, k, opened, specs, kept, candidates, shown, status, world>>

\* The root once more, and the policy is restored (finalize_policy_outcome).
ProbeEnd ==
  /\ Probing("end")
  /\ \/ /\ UNCHANGED faults
        /\ probe' = IF SameRoot THEN [probe EXCEPT !.step = "report"]
                    ELSE [probe EXCEPT !.step = "report", !.state = "probe_failed", !.issue = "changed_root_identity"]
     \/ Fault /\ probe' = [probe EXCEPT !.step = "report", !.state = "probe_failed", !.issue = "policy_failure"]
  /\ UNCHANGED <<case, pc, k, opened, specs, kept, candidates, shown, status, world>>

Report ==
  /\ Probing("report") /\ k' = k + 1 /\ probe' = NoProbe
  /\ candidates' = Append(candidates, [spec |-> kept[k], state |-> probe.state, entered |-> probe.entered])
  /\ status' = Worse(status, IssueStatus(probe.issue))
  /\ UNCHANGED <<case, pc, opened, specs, kept, shown, faults, world>>

\* filtered_copy_ids and candidate_matches_filter
MatchesFilter(c) == case.filter.all \/ c.spec.at \in case.filter.places \/ c.spec.copies \cap case.filter.copies # {}
Shown == SelectSeq(candidates, MatchesFilter)
\* The applications shown: those the filter names and those of a candidate.
ShownCopies ==
  {c \in Copies : case.filter.all \/ c \in case.filter.copies \/ \E i \in DOMAIN Shown : c \in Shown[i].spec.copies}

\* copy_views: what the inventory can say of the copies of a product.
CopyState(c) ==
  IF case.inventory # "complete" THEN "unknown"
  ELSE IF IsChromium(case.apps[c]) /\ \E d \in Copies \ {c} : case.apps[d].dir = case.apps[c].dir THEN "several"
  ELSE "single"

Finish ==
  /\ pc = "probing" /\ k > Len(kept) /\ Goto("done")
  /\ shown' = [candidates |-> Shown, copies |-> [c \in ShownCopies |-> CopyState(c)]]
  /\ UNCHANGED <<case, k, opened, specs, kept, probe, candidates, status, faults, world>>

----------------------------------------------------------------------------
Cancel ==
  /\ pc # "done" /\ ~cancelled /\ cancelled' = TRUE
  /\ UNCHANGED <<case, links, pc, k, opened, specs, kept, probe, candidates, shown, status, expired, changes, faults>>
Expire ==
  /\ pc # "done" /\ ~expired /\ expired' = TRUE
  /\ UNCHANGED <<case, links, pc, k, opened, specs, kept, probe, candidates, shown, status, cancelled, changes, faults>>

\* Another program puts something else at a name.
Move ==
  /\ pc # "done" /\ changes < MaxChanges /\ changes' = changes + 1
  /\ \E m \in Moves : links' = [links EXCEPT ![m[1]] = m[2]]
  /\ UNCHANGED <<case, pc, k, opened, specs, kept, probe, candidates, shown, status, cancelled, expired, faults>>

Init ==
  /\ case \in Cases /\ links = Tree /\ pc = "checking" /\ k = 1
  /\ opened = <<>> /\ specs = {} /\ kept = <<>> /\ probe = NoProbe /\ candidates = <<>> /\ shown = [candidates |-> <<>>, copies |-> <<>>]
  /\ status = case.inventory /\ cancelled = FALSE /\ expired = FALSE /\ changes = 0 /\ faults = 0

Next ==
  \/ Check \/ OpenRoot \/ Match \/ Locate \/ Keep
  \/ ProbeStart \/ ProbeStat \/ ProbeOpen \/ ProbeLeaf \/ ProbeEnd \/ Report \/ Finish
  \/ Cancel \/ Expire \/ Move

Spec == Init /\ [][Next]_vars

----------------------------------------------------------------------------
(* Properties.                                                             *)

\* The probe never looks inside anything but materialized directories of its
\* root's volume, whatever is mounted or moved there between looking and opening.
ProbeStaysInVolume ==
  \A o \in probe.entered \cup UNION {candidates[i].entered : i \in DOMAIN candidates} :
    Usable(o) /\ \E i \in DOMAIN opened : Objects[o].device = Objects[opened[i].object].device

\* A complete preview left nothing out: every root was opened, every location
\* that a rule gives a copy was looked at and attributed to all the copies that
\* share it, and what the filter names is shown with the copies it belongs to.
CompleteRelated ==
  (pc = "done" /\ status = "complete") =>
    /\ case.inventory = "complete" /\ Len(opened) = Len(case.roots)
    /\ \A i \in DOMAIN candidates : candidates[i].state \in {"missing", "not_followed_symlink", "directory", "file", "other"}
    /\ \A i \in DOMAIN opened : \A c \in Copies :
         LET a == case.apps[c]
             names == IF IsChromium(a) THEN {a.dir} ELSE IF IsFirefox(a) THEN {"Firefox"} ELSE IF a.bundle # None THEN {a.bundle} ELSE {}
         IN \A name \in names : \A area \in {"Support", "Caches"} :
              \E j \in DOMAIN candidates :
                /\ candidates[j].spec.root = i /\ SubSeq(candidates[j].spec.at, 1, 2) = <<area, name>>
                /\ c \in candidates[j].spec.copies
                /\ (case.filter.all \/ c \in case.filter.copies) => c \in DOMAIN shown.copies /\ candidates[j] \in ToSet(shown.candidates)
=============================================================================
