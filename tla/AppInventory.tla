------------------------------ MODULE AppInventory ------------------------------
(***************************************************************************)
(* The application inventory (crates/engine/src/app_inventory.rs): which   *)
(* scanned directories are candidates, the bounded inspection of each      *)
(* bundle while other programs may update it, one record per physical      *)
(* bundle, and which of them run.  Parsing the manifest is InfoPlist.      *)
(***************************************************************************)
EXTENDS Naturals, Sequences, FiniteSets, SequencesExt

CONSTANTS
  Cases,         \* [entries, scan, running]
  MaxCandidates, MaxIo, MaxChanges, MaxFaults

\* What the instances of the module assume of its parameters.
AppInventoryAssumption == {MaxCandidates, MaxIo, MaxChanges, MaxFaults} \subseteq Nat

VARIABLES
  case,
  disk,                      \* [identity, version] of each bundle
  pc, pos, named, io,
  probe,                     \* the bundle being inspected
  status, complete, apps,
  processes,                 \* the bundles whose executable runs
  cancelled, expired, changes, faults

vars == <<case, disk, pc, pos, named, io, probe, status, complete, apps, processes, cancelled, expired, changes, faults>>

Entries == case.entries
Goto(to) == pc' = to
Fault == faults < MaxFaults /\ faults' = faults + 1

\* ProbeContext::check
Stop == IF cancelled THEN "cancelled" ELSE IF expired THEN "duration_limit" ELSE "none"

\* The status an error leaves.
StatusOf(code) ==
  CASE code = "cancelled" -> "cancelled" [] code \in {"invalid", "internal"} -> "failed" [] OTHER -> "partial"

----------------------------------------------------------------------------
(* The candidates.                                                         *)

\* ExclusionMatcher: an excluded path, or another name of what one excludes.
Excluded(e) == e.excluded \/ \E o \in ToSet(Entries) : o.excluded /\ o.identity = e.identity

\* A directory named .app that the filter matches.
Candidate(e) == e.directory /\ e.app /\ e.filter /\ ~Excluded(e)
Candidates == SelectSeq([i \in DOMAIN Entries |-> i], LAMBDA i : Candidate(Entries[i]))

\* Collecting the excluded identities is interruptible; naming is not.
Name ==
  /\ pc = "naming" /\ pos' = 1
  /\ IF Stop # "none" /\ \E e \in ToSet(Entries) : e.excluded
       THEN status' = StatusOf(Stop) /\ complete' = FALSE /\ Goto("done") /\ UNCHANGED named
       ELSE /\ named' = SubSeq(Candidates, 1, IF Len(Candidates) < MaxCandidates THEN Len(Candidates) ELSE MaxCandidates)
            /\ IF Len(Candidates) > MaxCandidates THEN status' = "partial" /\ complete' = FALSE ELSE UNCHANGED <<status, complete>>
            /\ Goto("inspecting")
  /\ UNCHANGED <<case, disk, io, probe, apps, processes, cancelled, expired, changes, faults>>

----------------------------------------------------------------------------
(* One bundle.                                                             *)

Entry == Entries[named[pos]]
Bundle == disk[Entry.identity]
NoProbe == [base |-> 0, info |-> 0, executable |-> "none", seen |-> {}, error |-> "none"]
Holds == Entry.holds[probe.info]

\* Mutant: the roots of a bundle are those of its first name.
AddRootsFirst(a, e) == a
\* roots_for_path
AddRoots(a, e) == [a EXCEPT !.roots = @ \cup e.roots]

Known(id) == {k \in DOMAIN apps : apps[k].identity = id}

\* Another name of a bundle that has a record.
Duplicate ==
  /\ pc = "inspecting" /\ pos <= Len(named) /\ Known(Entry.identity) # {}
  /\ apps' = [k \in DOMAIN apps |-> IF k \in Known(Entry.identity) THEN AddRoots(apps[k], Entry) ELSE apps[k]]
  /\ pos' = pos + 1
  /\ UNCHANGED <<case, disk, pc, named, io, probe, status, complete, processes, cancelled, expired, changes, faults>>

\* inspect_bundle, InspectedBundle::open: a root, the scanned ancestors, the
\* scanned bundle, and a manifest that is a file.
OpenError ==
  IF Stop # "none" THEN Stop ELSE IF Entry.roots = {} THEN "invalid"
  ELSE IF Bundle.identity # "scanned" THEN "changed" ELSE "none"
Open ==
  /\ pc = "inspecting" /\ pos <= Len(named) /\ Known(Entry.identity) = {}
  /\ IF OpenError # "none" THEN Goto("recording") /\ probe' = [NoProbe EXCEPT !.error = OpenError] /\ UNCHANGED faults
     ELSE \/ Goto("reading") /\ probe' = [NoProbe EXCEPT !.base = Bundle.version] /\ UNCHANGED faults
          \/ /\ Fault /\ Goto("recording")
             /\ \E code \in {"permission_denied", "dataless", "policy_failure"} : probe' = [NoProbe EXCEPT !.error = code]
  /\ UNCHANGED <<case, disk, pos, named, io, status, complete, apps, processes, cancelled, expired, changes>>

\* The executable's directory and name, and the held bundle.
SameContents == Bundle.version = probe.base

\* check_unchanged: every directory from the root to the manifest and the
\* executable, held and by name.
Unchanged == Bundle.identity = "scanned" /\ SameContents

\* read_info_plist and parse_info_plist.  An error here skips finish.
Read ==
  /\ pc = "reading"
  /\ io' = IF Stop = "none" /\ io + 1 <= MaxIo THEN io + 1 ELSE io
  /\ LET info == Bundle.version
         error == IF Stop # "none" THEN Stop ELSE IF io + 1 > MaxIo THEN "io_limit"
                  ELSE IF ~Unchanged THEN "changed" ELSE Entry.holds[info].error
     IN /\ probe' = [probe EXCEPT !.info = info, !.seen = {info}, !.error = error]
        /\ Goto(IF error # "none" THEN "recording" ELSE IF Entry.holds[info].executable = "named" THEN "locating" ELSE "finishing")
  /\ UNCHANGED <<case, disk, pos, named, status, complete, apps, processes, cancelled, expired, changes, faults>>

\* stat_executable
Locate ==
  /\ pc = "locating" /\ Goto("finishing")
  /\ \/ /\ probe' = [probe EXCEPT !.executable = Entry.holds[Bundle.version].found, !.seen = @ \cup {Bundle.version}]
        /\ UNCHANGED faults
     \/ Fault /\ probe' = [probe EXCEPT !.error = "permission_denied"]
  /\ UNCHANGED <<case, disk, pos, named, io, status, complete, apps, processes, cancelled, expired, changes>>

\* InspectedBundle::finish: the last look, whose error comes first, and the
\* policy is restored either way.
Finish ==
  /\ pc = "finishing" /\ Goto("recording")
  /\ \/ probe' = (IF Unchanged THEN probe ELSE [probe EXCEPT !.error = "changed"]) /\ UNCHANGED faults
     \/ Fault /\ probe' = [probe EXCEPT !.error = "policy_failure"]
  /\ UNCHANGED <<case, disk, pos, named, io, status, complete, apps, processes, cancelled, expired, changes>>

\* The record of the bundle, or unknown_record.
Record ==
  /\ pc = "recording" /\ Goto("inspecting") /\ probe' = NoProbe
  /\ LET ok == probe.error = "none"
         kind == IF ok THEN Holds.kind ELSE "unknown"
         executable == IF ~ok THEN "none" ELSE IF Holds.executable = "named" THEN probe.executable ELSE Holds.executable
     IN /\ apps' = Append(apps, [identity |-> Entry.identity, roots |-> Entry.roots, inspected |-> ok, kind |-> kind,
                                 executable |-> executable, seen |-> probe.seen, running |-> "not_checked"])
        /\ IF ok THEN UNCHANGED <<status, complete>> ELSE status' = StatusOf(probe.error) /\ complete' = FALSE
        /\ pos' = IF status' \in {"cancelled", "failed"} /\ ~ok THEN Len(named) + 1 ELSE pos + 1
  /\ UNCHANGED <<case, disk, named, io, processes, cancelled, expired, changes, faults>>

InventoryEnds ==
  /\ pc = "inspecting" /\ pos > Len(named) /\ Goto("attributing")
  /\ UNCHANGED <<case, disk, pos, named, io, probe, status, complete, apps, processes, cancelled, expired, changes, faults>>

----------------------------------------------------------------------------
(* Which of them run.                                                      *)

\* attribute_running_state without a list of processes.
CensusFailed(a) == "unknown"

\* running_observation
Running(a) ==
  IF a.executable # "present" THEN "not_attributable"
  ELSE IF a.identity \in processes THEN "running" ELSE "not_running"

Attribute ==
  /\ pc = "attributing" /\ Goto("done")
  /\ \/ apps' = [k \in DOMAIN apps |-> [apps[k] EXCEPT !.running = Running(apps[k])]] /\ UNCHANGED faults
     \/ /\ Fault
        /\ apps' = [k \in DOMAIN apps |-> [apps[k] EXCEPT !.running = CensusFailed(apps[k])]]
  /\ UNCHANGED <<case, disk, pos, named, io, probe, status, complete, processes, cancelled, expired, changes>>

----------------------------------------------------------------------------
Cancel ==
  /\ pc # "done" /\ ~cancelled /\ cancelled' = TRUE
  /\ UNCHANGED <<case, disk, pc, pos, named, io, probe, status, complete, apps, processes, expired, changes, faults>>
Expire ==
  /\ pc # "done" /\ ~expired /\ expired' = TRUE
  /\ UNCHANGED <<case, disk, pc, pos, named, io, probe, status, complete, apps, processes, cancelled, changes, faults>>

\* Another program updates a bundle in place, or replaces it.
Update ==
  /\ pc # "done" /\ changes < MaxChanges /\ changes' = changes + 1
  /\ \E x \in DOMAIN disk :
       disk' = [disk EXCEPT ![x].version = 2] \/ disk' = [disk EXCEPT ![x].version = 2, ![x].identity = "other"]
  /\ UNCHANGED <<case, pc, pos, named, io, probe, status, complete, apps, processes, cancelled, expired, faults>>

Init ==
  /\ case \in Cases
  /\ disk = [x \in {case.entries[i].identity : i \in DOMAIN case.entries} |-> [identity |-> "scanned", version |-> 1]]
  /\ pc = "naming" /\ pos = 1 /\ named = <<>> /\ io = 0 /\ probe = NoProbe
  /\ status = case.scan /\ complete = (case.scan = "complete") /\ apps = <<>>
  /\ processes = case.running
  /\ cancelled = (case.scan = "cancelled") /\ expired = FALSE /\ changes = 0 /\ faults = 0

Next ==
  \/ Name \/ Duplicate \/ Open \/ Read \/ Locate \/ Finish \/ Record \/ InventoryEnds \/ Attribute
  \/ Cancel \/ Expire \/ Update

Spec == Init /\ [][Next]_vars

----------------------------------------------------------------------------
(* Properties.                                                             *)

\* What an inspected bundle's record says of its manifest and its executable is
\* true of one version of the bundle: an update between the reads is noticed.
RecordIsOneVersion ==
  \A k \in DOMAIN apps : apps[k].inspected => Cardinality(apps[k].seen) = 1

\* A complete inventory has one record of every bundle it was asked for, under
\* whatever names, inspected and with every root it was found in.
CompleteInventory ==
  (pc = "done" /\ complete) =>
    \A i \in DOMAIN Entries : Candidate(Entries[i]) =>
      /\ Cardinality(Known(Entries[i].identity)) = 1
      /\ \A k \in Known(Entries[i].identity) : apps[k].inspected /\ Entries[i].roots \subseteq apps[k].roots

\* An application that runs all along is never reported not to, also when the
\* list of processes could not be read.
RunningIsNotDenied ==
  pc = "done" => \A k \in DOMAIN apps : apps[k].running = "not_running" => apps[k].identity \notin processes
=============================================================================
