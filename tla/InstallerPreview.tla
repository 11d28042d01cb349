--------------------------- MODULE InstallerPreview ---------------------------
(***************************************************************************)
(* The installer preview (crates/engine/src/installer_preview.rs), the     *)
(* check of a selection (installer_preview/selection.rs) and their tasks.  *)
(* A finished scan names the candidates; each one is opened under a        *)
(* read-only policy, read in a few bounded parts, and looked at again      *)
(* before its format is believed, while other programs may rewrite or      *)
(* replace it.                                                             *)
(*                                                                         *)
(* What a file holds is one of the classes its parser tells apart; sizes   *)
(* are units of the read budget.                                           *)
(***************************************************************************)
EXTENDS Naturals, Sequences, FiniteSets, SequencesExt

CONSTANTS
  Cases,          \* [entries, scan, omitted]
  MaxCandidates, MaxNameBytes, MaxIo, MaxExpanded,
  MaxChanges,     \* bound on what other programs do
  MaxFaults

\* What the instances of the module assume of its parameters.
InstallerPreviewAssumption ==
  {MaxCandidates, MaxNameBytes, MaxIo, MaxExpanded, MaxChanges, MaxFaults} \subseteq Nat

VARIABLES
  case,
  disk,                      \* [identity, stamp] of each entry's file
  pc, pos,
  named, names,              \* candidates to probe, and the bytes of their names
  io, expanded,              \* ProbeBudget
  probe,                     \* the candidate being read
  status, complete, ready, candidates,
  selection,                 \* the selection check
  cancelled, expired, changes, faults

output == <<status, complete, ready, candidates>>
vars == <<case, disk, pc, pos, named, names, io, expanded, probe, output, selection, cancelled, expired, changes, faults>>

Entries == case.entries
Goto(to) == pc' = to
Fault == faults < MaxFaults /\ faults' = faults + 1

\* ProbeContext::check
Stop == IF cancelled THEN "cancelled" ELSE IF expired THEN "duration_limit" ELSE "none"

----------------------------------------------------------------------------
(* The parsers.  A part is the number of units one bounded read takes.     *)

\* parse_dmg: the footer, unless the file is too short to have one.
DmgParts(c) == IF c = "short" THEN <<>> ELSE <<1>>
\* parse_udif_footer: no footer, one of another version, or one that points
\* outside the file.
UdifFooter(c) ==
  CASE c = "koly" -> "recognized" [] c = "oldKoly" -> "unsupported" [] c = "badRanges" -> "corrupt" [] OTHER -> "none"
\* dmg_footer_format
DmgFormat(c) ==
  IF UdifFooter(c) # "none" THEN [family |-> "udif", status |-> UdifFooter(c)]
  ELSE [family |-> "unknown", status |-> IF c = "short" THEN "corrupt" ELSE "unsupported"]

\* parse_xar_header: what the header alone settles.
XarHeader(c) == IF c \in {"badMagic", "short", "overLimit", "badHeader"} THEN c ELSE "header"
\* parse_pkg: the header, then the table of contents it points to.
PkgParts(c) == IF c = "short" THEN <<>> ELSE IF XarHeader(c) # "header" THEN <<1>> ELSE <<1, 2>>
\* inflate_toc: what inflating the table of contents takes.
Inflated(c) == IF c = "large" THEN 3 ELSE IF XarHeader(c) = "header" THEN 1 ELSE 0
\* parse_pkg, after TocHints
PkgFormat(c) ==
  CASE c \in {"package", "large"} -> [family |-> "flatPkg", status |-> "recognized"]
    [] c = "badMagic" -> [family |-> "unknown", status |-> "unsupported"]
    [] c = "archive" -> [family |-> "xar", status |-> "unsupported"]
    [] OTHER -> [family |-> "xar", status |-> "corrupt"]

\* parse_zip: the tail; the directory where it is recorded; where it should
\* be before the end record; and the span a signature record may take.
ZipParts(c) ==
  CASE c \in {"short"} -> <<>>
    [] c \in {"noEnd", "zip64", "overLimit"} -> <<1>>
    [] c = "prepended" -> <<1, 1, 1>>
    [] c = "signed" -> <<1, 1, 1, 2>>
    [] OTHER -> <<1, 1>>
\* zip_format, zip_directory_shape_valid
ZipFormat(c) ==
  [family |-> "zip",
   status |-> CASE c \in {"payload", "prepended", "signed"} -> "recognized"
                [] c \in {"zip64", "noPayload"} -> "unsupported"
                [] OTHER -> "corrupt"]

Parts(e, c) == CASE e.kind = "dmg" -> DmgParts(c) [] e.kind = "pkg" -> PkgParts(c) [] OTHER -> ZipParts(c)
\* inspect_candidate
Format(e, c) == CASE e.kind = "dmg" -> DmgFormat(c) [] e.kind = "pkg" -> PkgFormat(c) [] OTHER -> ZipFormat(c)

\* format_unknown_for_error
ErrorFormat(code) ==
  [family |-> "unknown",
   status |-> CASE code \in {"cancelled", "permission_denied", "changed", "corrupt"} -> code
                [] code \in {"duration_limit", "io_limit", "parse_limit"} -> "partial"
                [] OTHER -> "unknown"]

----------------------------------------------------------------------------
(* Naming the candidates.                                                  *)

\* A file, by its name (candidate_name_kind), the filter and the exclusions,
\* which hold for every name of an excluded file.
Matches(e) ==
  /\ e.file /\ ~e.dataless /\ e.kind # "none" /\ e.filter
  /\ ~\E o \in ToSet(Entries) : o.excluded /\ o.identity = e.identity

\* record_probe_stop
ProbeStop(code) ==
  /\ status' = IF code = "cancelled" THEN "cancelled" ELSE "partial"
  /\ complete' = FALSE

\* The name and candidate limits.
LimitReached == status' = "partial" /\ complete' = FALSE

NameEntry ==
  /\ pc = "naming" /\ pos <= Len(Entries)
  /\ LET e == Entries[pos] IN
     IF Stop # "none" THEN ProbeStop(Stop) /\ named' = <<>> /\ Goto("probing") /\ pos' = 1 /\ UNCHANGED names
     ELSE IF ~Matches(e) THEN pos' = pos + 1 /\ UNCHANGED <<status, complete, named, names, pc>>
     ELSE IF names + e.length > MaxNameBytes
       THEN LimitReached /\ Goto("probing") /\ pos' = 1 /\ UNCHANGED <<named, names>>
     ELSE IF Len(named) >= MaxCandidates
       THEN LimitReached /\ Goto("probing") /\ pos' = 1 /\ names' = names + e.length /\ UNCHANGED named
     ELSE /\ named' = Append(named, pos) /\ names' = names + e.length /\ pos' = pos + 1
          /\ UNCHANGED <<status, complete, pc>>
  /\ UNCHANGED <<case, disk, io, expanded, probe, ready, candidates, selection, cancelled, expired, changes, faults>>

NamingEnds ==
  /\ pc = "naming" /\ pos > Len(Entries)
  /\ IF named = <<>> /\ complete /\ Stop # "none" THEN ProbeStop(Stop) ELSE UNCHANGED <<status, complete>>
  /\ Goto("probing") /\ pos' = 1
  /\ UNCHANGED <<case, disk, named, names, io, expanded, probe, ready, candidates, selection, cancelled, expired, changes, faults>>

----------------------------------------------------------------------------
(* Inspecting one candidate.                                               *)

Entry == Entries[named[pos]]
File == disk[Entry.identity]
NoProbe == [base |-> 0, parts |-> <<>>, read |-> {}, error |-> "none"]

\* InspectedRead::open: the ancestors and the file are the scanned ones, of the
\* scanned size.  An error after the policy was entered restores it.
Open ==
  /\ pc = "probing" /\ pos <= Len(named)
  /\ IF Stop # "none" \/ File.identity # "scanned" \/ File.size # Entry.size
       THEN Goto("account") /\ probe' = [NoProbe EXCEPT !.error = IF Stop # "none" THEN Stop ELSE "changed"] /\ UNCHANGED faults
       ELSE \/ Goto("reading") /\ probe' = [NoProbe EXCEPT !.base = File.stamp, !.parts = Parts(Entry, Entry.holds[File.stamp])]
                 /\ UNCHANGED faults
            \/ Fault /\ Goto("account") /\ \E code \in {"permission_denied", "policy_failure", "invalid"} :
                 probe' = [NoProbe EXCEPT !.error = code]
  /\ UNCHANGED <<case, disk, pos, named, names, io, expanded, output, selection, cancelled, expired, changes>>

\* Mutant: what was read is believed.
StillSameAny == TRUE

\* check_unchanged: every stamp from the root to the file, and the name again.
StillSame == File.identity = "scanned" /\ File.stamp = probe.base

\* read_exact: the budget is asked before, charged by what was read, and the
\* file looked at again.
Read ==
  /\ pc = "reading" /\ probe.parts # <<>> /\ probe.error = "none"
  /\ LET part == Head(probe.parts)
         seen == [probe EXCEPT !.read = @ \cup {File.stamp}]
     IN IF Stop # "none" THEN probe' = [probe EXCEPT !.error = Stop] /\ UNCHANGED io
        ELSE IF io + part > MaxIo THEN probe' = [probe EXCEPT !.error = "io_limit"] /\ UNCHANGED io
        ELSE /\ io' = io + part
             /\ probe' = IF StillSame THEN [seen EXCEPT !.parts = Tail(@)] ELSE [seen EXCEPT !.error = "changed"]
  /\ UNCHANGED <<case, disk, pc, pos, named, names, expanded, output, selection, cancelled, expired, changes, faults>>

\* What the header or the end record settles without reading on, and what
\* inflating costs (add_expanded, remaining_expanded).
ParseError(c) ==
  IF c = "overLimit" THEN "parse_limit"
  ELSE IF Entry.kind = "pkg" /\ expanded + Inflated(c) > MaxExpanded THEN "parse_limit" ELSE "none"

Parse ==
  /\ pc = "reading" /\ (probe.parts = <<>> \/ probe.error # "none")
  /\ LET c == Entry.holds[probe.base] IN
     /\ probe' = IF probe.error = "none" THEN [probe EXCEPT !.error = ParseError(c)] ELSE probe
     /\ expanded' = IF probe.error = "none" /\ Entry.kind = "pkg"
                      THEN IF expanded + Inflated(c) > MaxExpanded THEN MaxExpanded ELSE expanded + Inflated(c)
                      ELSE expanded
  /\ Goto("finishing")
  /\ UNCHANGED <<case, disk, pos, named, names, io, output, selection, cancelled, expired, changes, faults>>

\* Where the file came from (read_installer_origin) is looked up if the budget
\* allows; it never decides anything.
OriginCost == IF Stop = "none" /\ io + 1 <= MaxIo THEN 1 ELSE 0

\* InspectedRead::finish, which always restores the policy.
Finish ==
  /\ pc = "finishing"
  /\ io' = io + OriginCost
  /\ \/ /\ probe' = [probe EXCEPT !.error = IF StillSame THEN @ ELSE IF @ = "none" THEN "changed" ELSE "policy_failure"]
        /\ UNCHANGED faults
     \/ Fault /\ probe' = [probe EXCEPT !.error = "policy_failure"]
  /\ Goto("account")
  /\ UNCHANGED <<case, disk, pos, named, names, expanded, output, selection, cancelled, expired, changes>>

\* The candidate in the preview, with the witness of its inspection.
Account ==
  /\ pc = "account"
  /\ LET code == probe.error
         format == IF code = "none" THEN Format(Entry, Entry.holds[probe.base]) ELSE ErrorFormat(code)
     IN /\ candidates' = Append(candidates,
             [entry |-> named[pos], format |-> format, witness |-> IF code = "none" THEN probe.base ELSE 0,
              read |-> probe.read, inspected |-> code = "none"])
        /\ IF code = "none" THEN UNCHANGED <<status, complete>>
           ELSE /\ status' = IF code = "cancelled" THEN "cancelled" ELSE IF code = "invalid" THEN "failed" ELSE "partial"
                /\ complete' = FALSE
        /\ pos' = IF status' \in {"cancelled", "failed"} THEN Len(named) + 1 ELSE pos + 1
  /\ Goto("probing") /\ probe' = NoProbe
  /\ UNCHANGED <<case, disk, named, names, io, expanded, ready, selection, cancelled, expired, changes, faults>>

\* The end of the preview, with its last look at the clock.
PreviewEnds ==
  /\ pc = "probing" /\ pos > Len(named)
  /\ IF complete /\ Stop # "none" THEN ProbeStop(Stop) ELSE UNCHANGED <<status, complete>>
  /\ ready' = (complete' /\ ~case.omitted)
  /\ Goto("previewed")
  /\ UNCHANGED <<case, disk, pos, named, names, io, expanded, probe, candidates, selection, cancelled, expired, changes, faults>>

----------------------------------------------------------------------------
(* The check of a selection.                                               *)

\* InstallerCandidate::selectable
Selectable(c) ==
  LET e == Entries[c.entry] IN
  /\ c.inspected /\ e.own /\ e.links = 1
  /\ <<e.kind, c.format.family, c.format.status>> \in
       {<<"dmg", "udif", "recognized">>, <<"pkg", "flatPkg", "recognized">>}

\* verify_admission: the native witness of the session against the inspection.
Admitted(c) ==
  LET f == disk[Entries[c.entry].identity] IN f.identity = "scanned" /\ f.stamp = c.witness

\* InstallerJob::discovery: the result of a preview that did not fail.
Discovered == pc = "previewed" /\ status # "failed"

\* read_candidate: a reference to a candidate of this very preview.
ReferenceHolds(r) == r.task = "this" /\ r.id \in DOMAIN candidates

\* sayaka_installer_selection_start_v1, validate_selection
ReferencesHold(refs) ==
  /\ Len(refs) \in 1..MaxCandidates
  /\ \A i \in DOMAIN refs : ReferenceHolds(refs[i])
  /\ \A i, j \in DOMAIN refs : refs[i].id = refs[j].id => i = j

\* preview_selection
CheckSelection(refs) ==
  /\ Discovered /\ ReferencesHold(refs)
  /\ LET chosen == {refs[i].id : i \in DOMAIN refs} IN selection' =
       [of |-> chosen, at |-> [i \in chosen |-> disk[Entries[candidates[i].entry].identity]],
        status |-> IF cancelled THEN "cancelled"
                   ELSE IF ~ready \/ \E i \in chosen : ~Selectable(candidates[i]) THEN "refused"
                   ELSE IF \A i \in chosen : Admitted(candidates[i]) THEN "checked" ELSE "refused"]
  /\ Goto("checked")
  /\ UNCHANGED <<case, disk, pos, named, names, io, expanded, probe, output, cancelled, expired, changes, faults>>

----------------------------------------------------------------------------
Cancel ==
  /\ pc # "checked" /\ ~cancelled /\ cancelled' = TRUE
  /\ UNCHANGED <<case, disk, pc, pos, named, names, io, expanded, probe, output, selection, expired, changes, faults>>

\* INSTALLER_TOTAL_BUDGET, less the time of the scan
Expire ==
  /\ pc \notin {"previewed", "checked"} /\ ~expired /\ expired' = TRUE
  /\ UNCHANGED <<case, disk, pc, pos, named, names, io, expanded, probe, output, selection, cancelled, changes, faults>>

\* Another program rewrites a file in place, or puts another in its place.
Change ==
  /\ pc # "checked" /\ changes < MaxChanges /\ changes' = changes + 1
  /\ \E x \in DOMAIN disk :
       \/ disk' = [disk EXCEPT ![x].stamp = 2]
       \/ disk' = [disk EXCEPT ![x].stamp = 2, ![x].size = 2]
       \/ disk' = [disk EXCEPT ![x].stamp = 2, ![x].identity = "other"]
  /\ UNCHANGED <<case, pc, pos, named, names, io, expanded, probe, output, selection, cancelled, expired, faults>>

Init ==
  /\ case \in Cases
  /\ disk = [x \in {case.entries[i].identity : i \in DOMAIN case.entries} |->
               [identity |-> "scanned", stamp |-> 1, size |-> 1]]
  /\ pc = "naming" /\ pos = 1 /\ named = <<>> /\ names = 0 /\ io = 0 /\ expanded = 0 /\ probe = NoProbe
  /\ status = case.scan /\ complete = (case.scan = "complete") /\ ready = FALSE /\ candidates = <<>>
  /\ selection = [of |-> {}, at |-> <<>>, status |-> "none"]
  /\ cancelled = (case.scan = "cancelled") /\ expired = FALSE /\ changes = 0 /\ faults = 0

Probing == Open \/ Read \/ Parse \/ Finish \/ Account \/ PreviewEnds

Next ==
  \/ NameEntry \/ NamingEnds \/ Probing \/ Cancel \/ Expire \/ Change
  \/ \E refs \in SeqOf([task : {"this", "other"}, id : 0..MaxCandidates + 1], 2) : CheckSelection(refs)

Spec == Init /\ [][Next]_vars

----------------------------------------------------------------------------
(* Properties.                                                             *)

\* A candidate that can be selected was recognized from parts of one version
\* of its file, the one its witness names, however the file changed between
\* the reads.
InspectedIsWhole ==
  \A i \in DOMAIN candidates : Selectable(candidates[i]) =>
    candidates[i].read = {candidates[i].witness}

\* A complete preview inspected every file the scan found that it should have,
\* and had to give up on none.
CompleteMeansAllInspected ==
  (pc = "previewed" /\ complete) =>
    /\ case.scan = "complete"
    /\ \A i \in DOMAIN Entries : Matches(Entries[i]) =>
         \E k \in DOMAIN candidates : candidates[k].entry = i /\ candidates[k].inspected

\* A selection is called checked only while every file in it is the version
\* that was inspected.
CheckedIsInspected ==
  selection.status = "checked" =>
    \A i \in selection.of : selection.at[i] = [identity |-> "scanned", stamp |-> candidates[i].witness, size |-> 1]
=============================================================================
