---------------------------- MODULE JournalSchema ----------------------------
(***************************************************************************)
(* What a receipt may say.  Every version of a receipt is validated before *)
(* it is published and again when it is read (journal.rs Record::validate).*)
(* The module follows one session: a preview is turned into a record, the  *)
(* record is published, every row is started, acted on and recorded, the   *)
(* session may die at any point, the file may be damaged in one field, and *)
(* the history is read.  An optional field is a set with at most one       *)
(* element.  The Empty Trash, runtime and orphan contexts have their own   *)
(* validators, modelled in EmptyTrash, ToolSession and Leftovers.          *)
(***************************************************************************)
EXTENDS Integers, Sequences, FiniteSets, SequencesExt

CONSTANTS
    Root,        \* the root selected for a rule or a plain plan, a sequence of names
    Home,        \* the home directory, a sequence of names
    Targets,     \* rule -> the files that may be selected for it
    Others,      \* the files a plan without a rule may select
    Excludable,  \* the paths that may be given as exclusions
    SourceName,  \* name of a generated file -> name of its source
    InodeOf,     \* path -> inode number
    MaxItems     \* MAX_ITEMS

VARIABLES
    pc,       \* "draft", "item", "native", "record", "over", "read", "refused"
    report,   \* the record the session holds
    disk,     \* the published record, or {}
    row,      \* the row being handled
    stopped,  \* an outcome was ambiguous
    moved,    \* rows whose object really left
    damaged,  \* a field of the file was replaced
    shown     \* what the history shows of the file, or {} when it is refused

vars == <<pc, report, disk, row, stopped, moved, damaged, shown>>

(***************************************************************************)
(* Paths.                                                                  *)
(***************************************************************************)
\* NativePath::from_path: the bytes, and the text shown for them.
NativePath(path) == [bytes |-> path, display |-> path]

\* NativePath::validate: absolute by construction, no traversal, and the text is the bytes'.
ValidPath(native) ==
    /\ \A k \in DOMAIN native.bytes : native.bytes[k] \notin {".", ".."}
    /\ native.display = native.bytes

Inside(path, root) == IsPrefix(root, path)

(***************************************************************************)
(* Kinds of record.                                                        *)
(***************************************************************************)
\* Schema, plan schema, engine, rules and contract of every kind of record.
VersionsOf ==
    [legacy    |-> <<1, 2, 2, 1, "trash">>,
     rule      |-> <<2, 3, 2, 2, "trash">>,
     clean     |-> <<3, 3, 2, 2, "trash">>,
     bundle    |-> <<4, 4, 2, 1, "bundle">>,
     purge     |-> <<5, 5, 2, 1, "purge">>,
     tool      |-> <<6, 6, 2, 1, "tool">>,
     delegated |-> <<7, 7, 2, 1, "delegated">>,
     related   |-> <<8, 8, 2, 1, "related">>]

Kinds == DOMAIN VersionsOf

IsKind(rec, kind) == rec.versions = VersionsOf[kind]

(***************************************************************************)
(* Contexts.                                                               *)
(***************************************************************************)
\* validate_clean_policy_context
ValidClean(context) ==
    /\ context.schema = 1
    /\ Len(context.exclusions) <= MaxItems
    /\ ValidPath(context.root)
    /\ \A k \in DOMAIN context.exclusions : ValidPath(context.exclusions[k])
    /\ context.state # {}

\* validate_tool_operation: one device a row, and a paired device only with its partner.
ValidTool(context, rows) ==
    /\ context.schema = 1
    /\ context.verb \in {"erase", "delete"}
    /\ Len(context.devices) = Len(rows)
    /\ IsInjective([k \in DOMAIN context.devices |-> context.devices[k].udid])
    /\ \A k \in DOMAIN context.devices :
         LET device == context.devices[k] IN
         \A partner \in device.pair :
            /\ partner # device.udid
            /\ \E j \in DOMAIN context.devices :
                 /\ context.devices[j].udid = partner
                 /\ context.devices[j].pair = {device.udid}

\* The delegated move is of one bundle.
ValidDelegation(context, rows) == context.schema = 1 /\ Len(rows) = 1

\* Where each related rule keeps its data: folder of Library, suffix and kind.
RelatedRules ==
    [caches      |-> [folder |-> "Caches", name |-> "id", kind |-> "directory"],
     preferences |-> [folder |-> "Preferences", name |-> "id.plist", kind |-> "file"]]

ExpectedPath(context, rule) ==
    context.home.bytes \o <<"Library", RelatedRules[rule].folder, RelatedRules[rule].name>>

\* The related context: a parent that is another operation, a deadline 120 s after the
\* approval, and one binding a row, each naming the row's path and the place its rule allows.
ValidRelated(context, rec) ==
    /\ context.schema = 1
    /\ context.parent \notin {"malformed", rec.id}
    /\ context.deadline - context.approved = 120
    /\ Len(context.selected) = Len(rec.rows)
    /\ ValidPath(context.home)
    /\ IsInjective([k \in DOMAIN context.selected |-> context.selected[k].item])
    /\ \A k \in DOMAIN context.selected :
         LET binding == context.selected[k] IN
         /\ binding.path = rec.rows[k].path
         /\ binding.rule \in DOMAIN RelatedRules
         /\ binding.kind = RelatedRules[binding.rule].kind
         /\ binding.path = NativePath(ExpectedPath(context, binding.rule))
         /\ rec.scope = NativePath(context.home.bytes \o <<"Library">>)

(***************************************************************************)
(* Rule bindings.                                                          *)
(***************************************************************************)
\* explicit_selection_for_rule_target: the sibling source of a generated file, if it is one.
SourceFor(rule, path) ==
    LET n == Len(path)  name == path[n] IN
    CASE rule = "pyc" /\ n > 1 /\ path[n - 1] = "__pycache__" /\ name \in DOMAIN SourceName ->
           {Append(SubSeq(path, 1, n - 2), SourceName[name])}
      [] rule = "class" /\ name \in DOMAIN SourceName ->
           {Append(SubSeq(path, 1, n - 1), SourceName[name])}
      [] OTHER -> {}

\* The folders between a root and a leaf, outermost first.
FoldersBetween(root, leaf) ==
    [k \in 1 .. Len(leaf) - Len(root) - 1 |-> SubSeq(leaf, 1, Len(root) + k)]

\* validate_ancestor_chain
ValidChain(root, leaf, ancestors) ==
    /\ Inside(leaf, root) /\ leaf # root
    /\ [k \in DOMAIN ancestors |-> ancestors[k].path.bytes] = FoldersBetween(root, leaf)

\* known_rule_binding_tuple: the current revision of both rules and one older of the first.
KnownRule(binding) ==
    <<binding.rule, binding.revision>> \in {<<"pyc", 2>>, <<"pyc", 3>>, <<"class", 3>>}

Witnesses(binding) ==
    {binding.target, binding.source, binding.root}
        \union ToSet(binding.targetAncestors) \union ToSet(binding.sourceAncestors)

\* validate_rule_binding
ValidBinding(item, binding) ==
    /\ binding.schema = 1
    /\ Len(binding.exclusions) <= MaxItems
    /\ KnownRule(binding)
    /\ ValidPath(binding.selectedRoot)
    /\ \A witness \in Witnesses(binding) : ValidPath(witness.path) /\ witness.plain
    /\ binding.target.path = item.path
    /\ binding.target.inode = item.inode
    /\ binding.target.kind = "file" /\ binding.source.kind = "file"
    /\ binding.root.kind = "directory"
    /\ \A witness \in ToSet(binding.targetAncestors) \union ToSet(binding.sourceAncestors) :
         witness.kind = "directory"
    /\ binding.selectedRoot.bytes = binding.root.path.bytes
    /\ Inside(binding.target.path.bytes, binding.selectedRoot.bytes)
    /\ Inside(binding.source.path.bytes, binding.selectedRoot.bytes)
    /\ SourceFor(binding.rule, binding.target.path.bytes) = {binding.source.path.bytes}
    /\ ValidChain(binding.selectedRoot.bytes, binding.target.path.bytes, binding.targetAncestors)
    /\ ValidChain(binding.selectedRoot.bytes, binding.source.path.bytes, binding.sourceAncestors)
    /\ \A k \in DOMAIN binding.exclusions :
         /\ ValidPath(binding.exclusions[k])
         /\ Inside(binding.exclusions[k].bytes, binding.selectedRoot.bytes)
    /\ IsInjective([k \in DOMAIN binding.exclusions |-> binding.exclusions[k].bytes])
    /\ binding.source.path # binding.target.path
    /\ binding.source.inode # binding.target.inode

(***************************************************************************)
(* The record.                                                             *)
(***************************************************************************)
\* Mutant: a destination does not have to go with a claimed move.
ValidRowAnyDestination(rec, item) ==
    /\ ValidPath(item.path)
    /\ \A path \in item.destination : ValidPath(path)
    /\ (item.binding # {}) <=> (IsKind(rec, "rule") \/ IsKind(rec, "clean"))
    /\ \A binding \in item.binding : ValidBinding(item, binding)
    /\ \A evidence \in item.evidence : item.state = "unknown" /\ evidence.inode = item.inode
    /\ IsKind(rec, "tool") => item.destination = {} /\ item.evidence = {}

\* One row: binding exactly in rule records, evidence only for an unknown outcome and about
\* the approved object, a destination exactly where a move is claimed (never for a tool).
ValidRow(rec, item) ==
    LET tool == IsKind(rec, "tool") IN
    /\ ValidPath(item.path)
    /\ \A path \in item.destination : ValidPath(path)
    /\ (item.binding # {}) <=> (IsKind(rec, "rule") \/ IsKind(rec, "clean"))
    /\ \A binding \in item.binding : ValidBinding(item, binding)
    /\ \A evidence \in item.evidence : item.state = "unknown" /\ evidence.inode = item.inode
    /\ tool => item.destination = {} /\ item.evidence = {}
    /\ ~tool /\ item.state = "succeeded" => item.destination # {}
    /\ item.destination # {} => item.state \in {"succeeded", "unknown"}

\* Every context exactly where the kind of record calls for it, and valid.
ValidContexts(rec) ==
    /\ (rec.clean # {}) <=> IsKind(rec, "clean")
    /\ \A context \in rec.clean : ValidClean(context)
    /\ (rec.tool # {}) <=> IsKind(rec, "tool")
    /\ \A context \in rec.tool : ValidTool(context, rec.rows)
    /\ (rec.delegation # {}) <=> IsKind(rec, "delegated")
    /\ \A context \in rec.delegation : ValidDelegation(context, rec.rows)
    /\ (rec.related # {}) <=> IsKind(rec, "related")
    /\ \A context \in rec.related : ValidRelated(context, rec)

\* Every row, no object twice (a tool names devices, not objects) and no path twice.
ValidRows(rec) ==
    /\ \A k \in DOMAIN rec.rows : ValidRow(rec, rec.rows[k])
    /\ IsKind(rec, "tool") \/ IsInjective([k \in DOMAIN rec.rows |-> rec.rows[k].inode])
    /\ IsInjective([k \in DOMAIN rec.rows |-> rec.rows[k].path.bytes])

\* Record::validate
Valid(rec) ==
    /\ \E kind \in Kinds : IsKind(rec, kind)
    /\ rec.id # "malformed"
    /\ Len(rec.rows) \in 1 .. MaxItems
    /\ ValidPath(rec.scope)
    /\ ValidContexts(rec)
    /\ ValidRows(rec)

\* Record::reconciled: what a reader makes of work that was cut short.
Reconciled(rec) ==
    [rec EXCEPT !.rows = [k \in DOMAIN rec.rows |->
        [rec.rows[k] EXCEPT !.state =
            CASE @ = "started" -> "unknown" [] @ = "planned" -> "skipped" [] OTHER -> @]]]

(***************************************************************************)
(* The writers.                                                            *)
(***************************************************************************)
Row(path, inode, bindings) ==
    [path |-> NativePath(path), inode |-> inode, state |-> "planned",
     destination |-> {}, evidence |-> {}, binding |-> bindings]

NewRecord(kind, scope, rows) ==
    [versions |-> VersionsOf[kind], id |-> "own", scope |-> NativePath(scope), rows |-> rows,
     clean |-> {}, tool |-> {}, delegation |-> {}, related |-> {}]

\* to_witness and item_witness: metadata the native capture found admissible.
Witness(path, kind) ==
    [path |-> NativePath(path), inode |-> InodeOf[path], kind |-> kind, plain |-> TRUE]

FolderWitnesses(leaf) ==
    [k \in DOMAIN FoldersBetween(Root, leaf) |-> Witness(FoldersBetween(Root, leaf)[k], "directory")]

\* to_rule_binding and item_rule_binding
BindingOf(rule, target, source, exclusions) ==
    [schema |-> 1, rule |-> rule, revision |-> 3,
     selectedRoot |-> NativePath(Root),
     exclusions |-> [k \in DOMAIN exclusions |-> NativePath(exclusions[k])],
     target |-> Witness(target, "file"), source |-> Witness(source, "file"),
     root |-> Witness(Root, "directory"),
     targetAncestors |-> FolderWitnesses(target), sourceAncestors |-> FolderWitnesses(source)]

\* A selected file that an exclusion covers, or lies above, is left out of the plan.
Excluded(path, exclusions) ==
    \E k \in DOMAIN exclusions : Inside(path, exclusions[k]) \/ Inside(exclusions[k], path)

\* item_rule_binding: the binding a row of the record carries, for a file the rule knows.
RowBinding(rule, path, exclusions) ==
    {BindingOf(rule, path, source, exclusions) : source \in SourceFor(rule, path)}

\* prepare_rule_selection: the rows of the plan, each bound to its rule.
RuleRows(rule, selected, exclusions) ==
    LET planned == SetToSeq({path \in selected : ~Excluded(path, exclusions)}) IN
    [k \in DOMAIN planned |->
        Row(planned[k], InodeOf[planned[k]], RowBinding(rule, planned[k], exclusions))]

\* clean_policy_context_record
CleanContext(exclusions) ==
    [schema |-> 1, root |-> NativePath(Root), state |-> {"present"},
     exclusions |-> [k \in DOMAIN exclusions |-> NativePath(exclusions[k])]]

Idle == pc = "idle"

Drafted(rec) ==
    /\ report' = rec
    /\ pc' = "draft"
    /\ UNCHANGED <<disk, row, stopped, moved, damaged, shown>>

\* A rule plan, on its own or under the clean policy.
PrepareRule ==
    \E rule \in DOMAIN Targets, exclusions \in Excludable, clean \in BOOLEAN :
      \E selected \in (SUBSET Targets[rule]) \ {{}} :
        LET rows == RuleRows(rule, selected, exclusions)
            kind == IF clean THEN "clean" ELSE "rule"
        IN /\ Idle
           /\ rows # << >>
           /\ Drafted([NewRecord(kind, Root, rows) EXCEPT
                         !.clean = IF clean THEN {CleanContext(exclusions)} ELSE {}])

\* A plan of plain files, of artifacts, or of one application bundle.
PreparePlain ==
    \E kind \in {"legacy", "purge", "bundle"} : \E selected \in (SUBSET Others) \ {{}} :
        LET planned == SetToSeq(selected) IN
        /\ Idle
        /\ kind = "bundle" => Len(planned) = 1
        /\ Drafted(NewRecord(kind, Root,
              [k \in DOMAIN planned |-> Row(planned[k], InodeOf[planned[k]], {})]))

\* The move handed to Finder: its only row is published as started.
PrepareDelegated ==
    \E path \in Others :
        /\ Idle
        /\ Drafted([NewRecord("delegated", Root, << [Row(path, InodeOf[path], {}) EXCEPT !.state = "started"] >>)
                     EXCEPT !.delegation = {[schema |-> 1]}])

\* The child receipt of an uninstall: one row a selected related rule.
PrepareRelated ==
    \E selected \in (SUBSET DOMAIN RelatedRules) \ {{}} :
        LET rules == SetToSeq(selected)
            context(bindings) ==
              [schema |-> 1, parent |-> "parent", home |-> NativePath(Home),
               approved |-> 0, deadline |-> 120, selected |-> bindings]
            path(rule) == ExpectedPath(context(<< >>), rule)
        IN /\ Idle
           /\ Drafted([NewRecord("related", Home \o <<"Library">>,
                            [k \in DOMAIN rules |-> Row(path(rules[k]), k, {})])
                       EXCEPT !.related = {context(
                         [k \in DOMAIN rules |->
                            [path |-> NativePath(path(rules[k])), item |-> k, rule |-> rules[k],
                             kind |-> RelatedRules[rules[k]].kind]])}])

\* Simulator devices, a pair together; a device without data has no inode.
PrepareTool ==
    \E verb \in {"erase", "delete"}, present \in BOOLEAN, paired \in BOOLEAN :
        LET devices == IF paired
                       THEN << [udid |-> "u1", pair |-> {"u2"}], [udid |-> "u2", pair |-> {"u1"}] >>
                       ELSE << [udid |-> "u1", pair |-> {}] >>
        IN /\ Idle
           /\ Drafted([NewRecord("tool", Root,
                          [k \in DOMAIN devices |->
                             Row(Append(Root, devices[k].udid), IF present THEN k ELSE 0, {})])
                       EXCEPT !.tool = {[schema |-> 1, verb |-> verb, devices |-> devices]}])

(***************************************************************************)
(* The session.                                                            *)
(***************************************************************************)
\* The first publication; an invalid record is refused and nothing is done.
Publish ==
    /\ pc = "draft"
    /\ IF Valid(report)
       THEN disk' = {report} /\ pc' = (IF IsKind(report, "delegated") THEN "native" ELSE "item")
       ELSE pc' = "refused" /\ UNCHANGED disk
    /\ UNCHANGED <<report, row, stopped, moved, damaged, shown>>

\* The durable intent of a row.
Start ==
    /\ pc = "item"
    /\ row <= Len(report.rows)
    /\ ~stopped
    /\ report' = [report EXCEPT !.rows[row].state = "started"]
    /\ IF Valid(report') THEN disk' = {report'} /\ pc' = "native"
                         ELSE pc' = "over" /\ UNCHANGED disk
    /\ UNCHANGED <<row, stopped, moved, damaged, shown>>

\* A row that is not attempted: cancelled, no longer the approved object, or after a stop.
Skip ==
    /\ pc = "item"
    /\ row <= Len(report.rows)
    /\ report' = [report EXCEPT !.rows[row].state = "skipped"]
    /\ pc' = "record"
    /\ UNCHANGED <<disk, row, stopped, moved, damaged, shown>>

\* Mutant: a destination is recorded for every success.
MovedRowAlways(item) ==
    [item EXCEPT !.state = "succeeded", !.destination = {NativePath(<<"Trash">> \o item.path.bytes)}]

\* Succeeded: the destination is recorded with the state, except for a tool.
MovedRow(item) ==
    [item EXCEPT !.state = "succeeded",
                 !.destination = IF IsKind(report, "tool") THEN {} ELSE {NativePath(<<"Trash">> \o item.path.bytes)}]

\* Unknown: the platform's evidence is kept; tools and Finder give none.
UnknownRow(item) ==
    [item EXCEPT !.state = "unknown",
                 !.evidence = IF IsKind(report, "tool") \/ IsKind(report, "delegated")
                              THEN {} ELSE {[inode |-> item.inode]}]

\* The native call and what the report makes of its answer.
Native ==
    /\ pc = "native"
    /\ \/ /\ report' = [report EXCEPT !.rows[row] = MovedRow(@)]
          /\ moved' = moved \union {row}
          /\ UNCHANGED stopped
       \/ /\ \E state \in {"skipped", "failed"} : report' = [report EXCEPT !.rows[row].state = state]
          /\ UNCHANGED <<moved, stopped>>
       \/ /\ report' = [report EXCEPT !.rows[row] = UnknownRow(@)]
          /\ moved' \in {moved, moved \union {row}}
          /\ stopped' = TRUE
    /\ pc' = "record"
    /\ UNCHANGED <<disk, row, damaged, shown>>

\* The row's outcome is published; a version that is refused ends the session.
Record ==
    /\ pc = "record"
    /\ IF Valid(report)
       THEN disk' = {report} /\ row' = row + 1
            /\ pc' = (IF row = Len(report.rows) THEN "over" ELSE "item")
       ELSE pc' = "over" /\ UNCHANGED <<disk, row>>
    /\ UNCHANGED <<report, stopped, moved, damaged, shown>>

\* The session dies; its record stays as it was last published.
Crash ==
    /\ pc \in {"item", "native", "record"}
    /\ pc' = "over"
    /\ UNCHANGED <<report, disk, row, stopped, moved, damaged, shown>>

(***************************************************************************)
(* Damage and reading.                                                     *)
(***************************************************************************)
States == {"planned", "started", "succeeded", "skipped", "failed", "unknown"}

Elsewhere == NativePath(<<"elsewhere">>)

\* The record with one field of one rule binding replaced.
DamagedBindings(binding) ==
    {[binding EXCEPT !.revision = 1], [binding EXCEPT !.selectedRoot = Elsewhere],
     [binding EXCEPT !.target.inode = 0], [binding EXCEPT !.target.path = Elsewhere],
     [binding EXCEPT !.target.plain = FALSE], [binding EXCEPT !.source.path = Elsewhere],
     [binding EXCEPT !.source.inode = binding.target.inode], [binding EXCEPT !.source.kind = "directory"],
     [binding EXCEPT !.root.path = Elsewhere], [binding EXCEPT !.targetAncestors = << >>],
     [binding EXCEPT !.exclusions = Append(@, Elsewhere)]}

\* The row with one field replaced.
DamagedRows(item) ==
    {[item EXCEPT !.state = state] : state \in States}
      \union {[item EXCEPT !.path = Elsewhere], [item EXCEPT !.path.display = <<"..">>],
              [item EXCEPT !.inode = 99], [item EXCEPT !.destination = {}],
              [item EXCEPT !.destination = {Elsewhere}], [item EXCEPT !.evidence = {}],
              [item EXCEPT !.evidence = {[inode |-> item.inode]}], [item EXCEPT !.binding = {}]}
      \union {[item EXCEPT !.binding = {other}] :
               other \in UNION {DamagedBindings(binding) : binding \in item.binding}}

\* The record with one field replaced.
DamagedRecords(rec) ==
    {[rec EXCEPT !.versions[k] = v] : k \in 1 .. 4, v \in 1 .. 8}
      \union {[rec EXCEPT !.versions[5] = VersionsOf[kind][5]] : kind \in Kinds}
      \union {[rec EXCEPT !.id = "malformed"], [rec EXCEPT !.scope = Elsewhere],
              [rec EXCEPT !.id = "parent"], [rec EXCEPT !.rows = Tail(@)],
              [rec EXCEPT !.clean = {}], [rec EXCEPT !.tool = {}],
              [rec EXCEPT !.delegation = {}], [rec EXCEPT !.delegation = {[schema |-> 1]}],
              [rec EXCEPT !.related = {}]}
      \union UNION {{[rec EXCEPT !.rows[k] = item] : item \in DamagedRows(rec.rows[k])} :
                    k \in DOMAIN rec.rows}

\* One field of the file is replaced by something outside the program.
Damage ==
    /\ pc = "over"
    /\ ~damaged
    /\ damaged' = TRUE
    /\ \E rec \in UNION {DamagedRecords(old) : old \in disk} : disk' = {rec}
    /\ UNCHANGED <<pc, report, row, stopped, moved, shown>>

\* The history: a record that does not validate is not shown.
Read ==
    /\ pc = "over"
    /\ pc' = "read"
    /\ shown' = {Reconciled(rec) : rec \in {old \in disk : Valid(old)}}
    /\ UNCHANGED <<report, disk, row, stopped, moved, damaged>>

Init ==
    /\ pc = "idle"
    /\ report = NewRecord("legacy", Root, << >>)
    /\ disk = {}
    /\ row = 1
    /\ stopped = FALSE
    /\ moved = {}
    /\ damaged = FALSE
    /\ shown = {}

Next ==
    \/ PrepareRule
    \/ PreparePlain
    \/ PrepareDelegated
    \/ PrepareRelated
    \/ PrepareTool
    \/ Publish
    \/ Start
    \/ Skip
    \/ Native
    \/ Record
    \/ Crash
    \/ Damage
    \/ Read

Spec == Init /\ [][Next]_vars

(***************************************************************************)
(* Properties.                                                             *)
(***************************************************************************)
\* An outcome can always be recorded: once the first version of a record is on disk, every
\* later version the session publishes, and what a reader makes of it, validates too.  A
\* version that did not would leave an effect the history denies (journal.rs:677-735 against
\* the outcomes execute.rs:330-465 writes).
NoOutcomeIsUnrecorded ==
    disk # {} /\ ~damaged => Valid(report) /\ Valid(Reconciled(report))

\* What a record says of an object, and that it is about it.
SameObject(item, approved) == item.path = approved.path /\ item.inode = approved.inode
SharesName(item, approved) == item.path = approved.path \/ item.inode = approved.inode

\* What one damaged field cannot do.  Whatever single field of the file was replaced, a
\* record that is still shown is of the kind that was published.  If it is about moves, a
\* row shown as succeeded agrees in its path or its inode with one that really left, and a
\* row shown of an object whose success was recorded says neither skipped nor failed.  A
\* row of a rule is of an object that was approved, one of related data has an approved
\* path, and a record whose context counts its rows shows all of them.  The code accepts
\* the following, so none of it is claimed: the state of a tool's row may be any; a plain
\* or rule record may lose a row; a plain row may be shown with the path or the inode of
\* no approved object, a related one with such an inode; a started row may be shown as
\* skipped or failed, an unknown one without evidence too, and skipped, failed and planned
\* rows are not told apart (Record::validate, journal.rs:389-733).
OneFaultInventsNoMove ==
    \A rec \in shown :
        /\ rec.versions = report.versions
        /\ \A item \in ToSet(rec.rows) :
             /\ ~IsKind(report, "tool") /\ item.state = "succeeded" =>
                  \E j \in moved : SharesName(item, report.rows[j])
             /\ ~IsKind(report, "tool") =>
                  \A j \in DOMAIN report.rows :
                    row > j /\ report.rows[j].state = "succeeded" /\ SameObject(item, report.rows[j])
                      => item.state \in {"succeeded", "unknown"}
             /\ item.binding # {} =>
                  \E j \in DOMAIN report.rows : SameObject(item, report.rows[j])
             /\ IsKind(report, "related") =>
                  \E j \in DOMAIN report.rows : item.path = report.rows[j].path
        /\ rec.tool \cup rec.delegation \cup rec.related # {} => Len(rec.rows) = Len(report.rows)

==============================================================================
