------------------------------ MODULE RulePreview ------------------------------
(***************************************************************************)
(* The read-only preview of the built-in rules (crates/engine/src/rules.rs *)
(* and `sayaka rules preview` of crates/cli/src/rules.rs): which scanned   *)
(* entries look like a rule's targets, and the native check of the target, *)
(* its source and, for class files, its first bytes, while compilers and   *)
(* editors replace files.                                                  *)
(*                                                                         *)
(* disk[path] is what the name holds now: [identity, kind, links, mine,    *)
(* dataless]; content[identity] is what the file begins with.              *)
(***************************************************************************)
EXTENDS Naturals, Sequences, FiniteSets, SequencesExt

CONSTANTS
  Cases,            \* [rule, entries, scan, request]
  Content,          \* identity -> "cafebabe", "other", "short"
  MaxBytes,         \* u64: the largest sum of matched bytes
  MaxChanges, MaxFaults

\* What the instances of the module assume of its parameters.
RulePreviewAssumption == {MaxBytes, MaxChanges, MaxFaults} \subseteq Nat

VARIABLES
  case, disk, dirs,                 \* dirs: the ancestors as scanned, moved or dataless
  pc, pos, cancelled,
  facts, marker,                    \* what is known of the entry at hand
  status, candidates, refusals, known, unknown, exit,
  changes, faults

machine == <<disk, dirs, changes>>
report == <<status, candidates, refusals, known, unknown, exit>>
vars == <<case, machine, pc, pos, cancelled, facts, marker, report, faults>>

Rule == case.rule
Entries == case.entries
Entry == Entries[pos]
None == "none"
NoFacts == [target |-> None, source |-> None]
Unread == [step |-> None, identity |-> None]
Goto(to) == pc' = to
Fault == faults < MaxFaults /\ faults' = faults + 1

----------------------------------------------------------------------------
(* What a name says.                                                       *)

\* looks_like_pyc, looks_like_class
LooksLike(e) == e.suffix = Rule

\* parse_cpython_name: a module, a tag of Python 3.2 or later, and perhaps an
\* optimization.
PycName(n) ==
  /\ n.module # "" /\ Len(n.digits) >= 2 /\ n.digits[1] = 3 /\ ToSet(n.digits) \subseteq 0..9
  /\ FoldLeft(LAMBDA sum, d : 10 * sum + d, 0, Tail(n.digits)) >= 2
  /\ n.opt \in {None, "alphanumeric"}

\* explicit_selection_for_javac: a top-level class.
ClassName(n) == n.module # "" /\ ~n.nested

PycNameRefusal(e) ==
  CASE ~e.name.pycache -> "not_pycache_child" [] ~PycName(e.name) -> "invalid_name" [] OTHER -> None

\* The entry of the source, by the path the name leads to.
SourceOf(e) == SelectSeq(Entries, LAMBDA s : s.path = e.source)
Source(e) == SourceOf(e)[1]

SourceRefusal(e) ==
  IF SourceOf(e) = <<>> THEN "source_missing"
  ELSE LET s == Source(e) IN
         CASE s.root # e.root -> "source_outside_root"
           [] s.kind = "link" -> "source_is_link"
           [] s.kind # "file" -> "source_not_regular"
           [] s.dataless -> "source_dataless"
           [] s.protected -> "protected"
           [] ~e.counted \/ ~s.counted \/ e.identity = s.identity -> "ambiguous"
           [] OTHER -> None

TargetRefusal(e) ==
  CASE e.kind # "file" -> "not_regular" [] e.dataless -> "dataless" [] e.protected -> "protected" [] OTHER -> None

\* explicit_root_for_path, directory_entry, ancestor_identities: the scan knows
\* every directory from the root to the two files.
IdentityRefusal(e) == IF e.root = None \/ ~e.ancestors THEN "identity_unknown" ELSE None

\* What the scan alone refuses, for either rule.
FirstOf(codes) == IF \E i \in DOMAIN codes : codes[i] # None THEN SelectSeq(codes, LAMBDA c : c # None)[1] ELSE None
PycRefusal(e) == FirstOf(<<TargetRefusal(e), PycNameRefusal(e), SourceRefusal(e), IdentityRefusal(e)>>)
ClassRefusal(e) ==
  FirstOf(<<TargetRefusal(e), IF ClassName(e.name) THEN None ELSE "invalid_name", SourceRefusal(e), IdentityRefusal(e)>>)
Refusal(e) == IF Rule = "pyc" THEN PycRefusal(e) ELSE ClassRefusal(e)

----------------------------------------------------------------------------
(* The preview.                                                            *)

Clear == facts' = NoFacts /\ marker' = Unread
Refuse(code) ==
  /\ refusals' = Append(refusals, [path |-> Entry.path, code |-> code])
  /\ pos' = pos + 1 /\ Goto("matching") /\ Clear /\ UNCHANGED <<status, candidates, known, unknown, exit>>
GlobalRefusal(code) == refusals' = Append(refusals, [path |-> None, code |-> code])
StopHere == status' = "cancelled" /\ GlobalRefusal("cancelled") /\ Goto("finishing") /\ Clear /\ UNCHANGED <<pos, candidates, known, unknown, exit>>

\* run_preview up to the scan: an unknown rule, a bad root, limits or handler.
Start ==
  /\ pc = "starting"
  /\ IF case.request = "invalid" THEN exit' = 2 /\ Goto("ended") /\ UNCHANGED <<status, refusals>>
     ELSE IF case.request = "broken" THEN exit' = 1 /\ Goto("ended") /\ UNCHANGED <<status, refusals>>
     ELSE IF cancelled THEN status' = "cancelled" /\ GlobalRefusal("cancelled") /\ Goto("showing") /\ UNCHANGED exit
     ELSE Goto("indexing") /\ UNCHANGED <<status, refusals, exit>>
  /\ UNCHANGED <<case, machine, pos, cancelled, facts, marker, candidates, known, unknown, faults>>

\* Indexing stops at a cancellation; a partial scan is refused as a whole but
\* its entries are looked at.
Index ==
  /\ pc = "indexing" /\ pos' = 1
  /\ LET first == IF cancelled THEN <<[path |-> None, code |-> "cancelled"]>> ELSE <<>>
         second == IF case.scan = "partial" THEN <<[path |-> None, code |-> "scan_incomplete"]>> ELSE <<>>
     IN refusals' = refusals \o first \o second
  /\ status' = IF cancelled THEN "cancelled" ELSE case.scan
  /\ Goto(IF cancelled THEN "finishing" ELSE "matching")
  /\ UNCHANGED <<case, machine, cancelled, facts, marker, candidates, known, unknown, exit, faults>>

\* The class rule asks once an entry, the Python rule before every native call.
AsksAgain == Rule = "pyc" /\ cancelled

Match ==
  /\ pc = "matching" /\ pos <= Len(Entries)
  /\ IF cancelled THEN StopHere
     ELSE IF ~LooksLike(Entry) THEN pos' = pos + 1 /\ UNCHANGED <<pc, facts, marker, report>>
     ELSE IF Refusal(Entry) # None THEN Refuse(Refusal(Entry))
     ELSE Goto("target") /\ UNCHANGED <<pos, facts, marker, report>>
  /\ UNCHANGED <<case, machine, cancelled, faults>>

\* inspect_with_ancestry: the root and the ancestors are the scanned ones, held
\* open down to the file.  A cancellation is noticed at an ancestor.
InspectError ==
  IF dirs = "moved" THEN "changed" ELSE IF dirs = "dataless" THEN "dataless"
  ELSE IF cancelled THEN "cancelled" ELSE None

\* The refusal an error of the inspection leads to.
InspectRefusal(error, which) ==
  CASE error = "policy_failure" -> "policy_failure" [] error = "dataless" -> which \o "_dataless" [] OTHER -> "identity_changed"

Inspect(which, path, next) ==
  /\ pc = which
  /\ \/ /\ UNCHANGED faults
        /\ IF InspectError = "cancelled" \/ (AsksAgain /\ InspectError = None) THEN StopHere
           ELSE IF InspectError # None THEN Refuse(InspectRefusal(InspectError, which))
           ELSE IF disk[path].identity = None THEN Refuse("identity_changed")
           ELSE facts' = [facts EXCEPT ![which] = disk[path]] /\ Goto(next) /\ UNCHANGED <<pos, marker, report>>
     \/ Fault /\ Refuse(InspectRefusal("policy_failure", which))
  /\ UNCHANGED <<case, machine, cancelled>>
InspectTarget == Inspect("target", Entry.path, "source")
InspectSource == Inspect("source", Entry.source, "weighing")

\* What was seen of the two files, in the order of the checks.
FactsRefusal ==
  LET t == facts.target  s == facts.source IN
    CASE t.dataless -> "target_dataless"
      [] s.dataless -> IF Rule = "pyc" THEN "source_dataless" ELSE "target_dataless"
      [] t.identity # Entry.identity \/ s.identity # Source(Entry).identity -> "identity_changed"
      [] t.kind # "file" \/ s.kind # "file" -> "identity_changed"
      [] t.links # 1 \/ s.links # 1 -> "ambiguous"
      [] ~t.mine \/ ~s.mine -> "owner_unknown"
      [] OTHER -> None

Weigh ==
  /\ pc = "weighing"
  /\ IF AsksAgain THEN StopHere
     ELSE IF FactsRefusal # None THEN Refuse(FactsRefusal)
     ELSE Goto(IF Rule = "class" THEN "marker" ELSE "taking") /\ UNCHANGED <<pos, facts, marker, report>>
  /\ UNCHANGED <<case, machine, cancelled, faults>>

----------------------------------------------------------------------------
(* read_prefix4_with_ancestry                                              *)

IsTarget(f) == f.identity = Entry.identity /\ f.kind = "file" /\ ~f.dataless

IsOpenedTarget(f) == IsTarget(f)

MarkerError ==
  IF dirs # "scanned" THEN "identity_changed" ELSE IF ~IsTarget(disk[Entry.path]) THEN "identity_changed" ELSE None

MarkerLook ==
  /\ pc = "marker" /\ marker.step = None
  /\ IF InspectError = "cancelled" THEN StopHere /\ UNCHANGED faults
     ELSE \/ /\ UNCHANGED faults
             /\ IF MarkerError # None THEN Refuse(MarkerError)
                ELSE marker' = [marker EXCEPT !.step = "looked"] /\ UNCHANGED <<pc, pos, facts, report>>
          \/ Fault /\ Refuse("policy_failure")
  /\ UNCHANGED <<case, machine, cancelled>>

MarkerOpen ==
  /\ pc = "marker" /\ marker.step = "looked"
  /\ IF ~IsOpenedTarget(disk[Entry.path]) THEN Refuse("identity_changed")
     ELSE marker' = [step |-> "opened", identity |-> disk[Entry.path].identity] /\ UNCHANGED <<pc, pos, facts, report>>
  /\ UNCHANGED <<case, machine, cancelled, faults>>

\* What the first bytes lead to.
MarkerRefusal(content) ==
  CASE content = "short" -> "marker_short_read" [] content # "cafebabe" -> "marker_mismatch" [] OTHER -> None

\* Four bytes of what is open, however many reads they take.
MarkerRead ==
  /\ pc = "marker" /\ marker.step = "opened"
  /\ \/ /\ UNCHANGED faults
        /\ IF cancelled THEN StopHere
           ELSE IF MarkerRefusal(Content[marker.identity]) # None THEN Refuse(MarkerRefusal(Content[marker.identity]))
           ELSE Goto("taking") /\ UNCHANGED <<pos, facts, marker, report>>
     \/ Fault /\ Refuse("marker_read_failed")
  /\ UNCHANGED <<case, machine, cancelled>>

Overflows == Entry.bytes # None /\ known + Entry.size > MaxBytes
Candidate ==
  [path |-> Entry.path, bytes |-> IF Entry.bytes = None THEN 0 ELSE Entry.size, unknown |-> Entry.bytes = None,
   facts |-> facts, marker |-> marker.identity]

Take ==
  /\ pc = "taking"
  /\ IF Overflows THEN Refuse("budget_exceeded")
     ELSE /\ candidates' = Append(candidates, Candidate)
          /\ known' = IF Entry.bytes = None THEN known ELSE known + Entry.size
          /\ unknown' = IF Entry.bytes = None THEN unknown + 1 ELSE unknown
          /\ pos' = pos + 1 /\ Goto("matching") /\ Clear /\ UNCHANGED <<status, refusals, exit>>
  /\ UNCHANGED <<case, machine, cancelled, faults>>

MatchEnds ==
  /\ pc = "matching" /\ pos > Len(Entries) /\ Goto("finishing")
  /\ UNCHANGED <<case, machine, pos, cancelled, facts, marker, report, faults>>

KeptSums == status # "cancelled"

\* A cancelled preview offers nothing.
Finish ==
  /\ pc = "finishing" /\ Goto("showing")
  /\ candidates' = IF status = "cancelled" THEN <<>> ELSE candidates
  /\ known' = IF KeptSums THEN known ELSE 0
  /\ unknown' = IF KeptSums THEN unknown ELSE 0
  /\ UNCHANGED <<case, machine, pos, cancelled, facts, marker, status, refusals, exit, faults>>

\* The exit code of run_preview.
Show ==
  /\ pc = "showing" /\ Goto("ended")
  /\ exit' = IF status = "cancelled" THEN 130
             ELSE IF status # "complete" \/ refusals # <<>> \/ candidates = <<>> THEN 3 ELSE 0
  /\ UNCHANGED <<case, machine, pos, cancelled, facts, marker, status, candidates, refusals, known, unknown, faults>>

----------------------------------------------------------------------------
Cancel ==
  /\ pc # "ended" /\ ~cancelled /\ cancelled' = TRUE
  /\ UNCHANGED <<case, machine, pc, pos, facts, marker, report, faults>>

\* A compiler or an editor replaces, removes, links or evicts a file, or moves a
\* directory.
World ==
  /\ pc # "ended" /\ changes < MaxChanges /\ changes' = changes + 1
  /\ \/ /\ \E p \in DOMAIN disk :
             disk' \in {[disk EXCEPT ![p].identity = "new"], [disk EXCEPT ![p].identity = None],
                        [disk EXCEPT ![p].links = 2], [disk EXCEPT ![p].dataless = TRUE]}
        /\ UNCHANGED dirs
     \/ dirs' \in {"moved", "dataless"} /\ UNCHANGED disk
  /\ UNCHANGED <<case, pc, pos, cancelled, facts, marker, report, faults>>

Init ==
  /\ case \in Cases
  /\ disk = [p \in {case.entries[i].path : i \in DOMAIN case.entries} \cup {case.entries[i].source : i \in DOMAIN case.entries} |->
               IF \E i \in DOMAIN case.entries : case.entries[i].path = p
                 THEN LET e == case.entries[CHOOSE i \in DOMAIN case.entries : case.entries[i].path = p]
                      IN [identity |-> e.identity, kind |-> e.kind, links |-> 1, mine |-> e.mine, dataless |-> e.dataless]
                 ELSE [identity |-> None, kind |-> None, links |-> 0, mine |-> FALSE, dataless |-> FALSE]]
  /\ dirs = "scanned" /\ pc = "starting" /\ pos = 1 /\ cancelled = (case.scan = "cancelled")
  /\ facts = NoFacts /\ marker = Unread
  /\ status = "running" /\ candidates = <<>> /\ refusals = <<>> /\ known = 0 /\ unknown = 0 /\ exit = 99
  /\ changes = 0 /\ faults = 0

Next ==
  \/ Start \/ Index \/ Match \/ InspectTarget \/ InspectSource \/ Weigh
  \/ MarkerLook \/ MarkerOpen \/ MarkerRead \/ Take \/ MatchEnds \/ Finish \/ Show
  \/ Cancel \/ World

Spec == Init /\ [][Next]_vars

----------------------------------------------------------------------------
(* Properties.                                                             *)

Scanned(path) == Entries[CHOOSE i \in DOMAIN Entries : Entries[i].path = path]

\* Whatever replaces files meanwhile, a candidate rests on its own evidence: the
\* scanned target and the scanned source, each alone under its name and the
\* user's, and for a class the first bytes of that very target.
EvidenceIsTheTargets ==
  \A i \in DOMAIN candidates :
    LET c == candidates[i]  e == Scanned(c.path) IN
      /\ c.facts.target.identity = e.identity /\ c.facts.source.identity = Scanned(e.source).identity
      /\ c.facts.target.links = 1 /\ c.facts.source.links = 1 /\ c.facts.target.mine
      /\ Rule = "class" => c.marker = e.identity /\ Content[e.identity] = "cafebabe"

\* The report adds up: the sums are those of its candidates, an entry that looks
\* like a target has one answer, and exit 0 means that all of them matched.
RuleReportAddsUp ==
  pc = "ended" =>
    /\ known = FoldLeft(LAMBDA sum, c : sum + c.bytes, 0, candidates)
    /\ unknown = Cardinality({i \in DOMAIN candidates : candidates[i].unknown})
    /\ (status \in {"complete", "partial"}) =>
         \A i \in DOMAIN Entries : LooksLike(Entries[i]) =>
           Cardinality({j \in DOMAIN candidates : candidates[j].path = Entries[i].path})
             + Cardinality({j \in DOMAIN refusals : refusals[j].path = Entries[i].path}) = 1
    /\ exit = 0 => case.scan = "complete" /\ candidates # <<>> /\ \A i \in DOMAIN Entries :
                     LooksLike(Entries[i]) => \E j \in DOMAIN candidates : candidates[j].path = Entries[i].path
=============================================================================
