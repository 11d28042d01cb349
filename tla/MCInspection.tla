------------------------------- MODULE MCInspection -------------------------------
(***************************************************************************)
(* The inspections that read evidence and change nothing, each alone: the  *)
(* installer preview and its table-of-contents reader, the application     *)
(* inventory, its Info.plist reader and the attribution of related data,   *)
(* the rule preview, the project and the cache preview, the scan index and *)
(* the system status.                                                      *)
(*                                                                         *)
(* The components do not call one another at this level, so they are       *)
(* checked side by side: the initial state picks the component that runs,  *)
(* variables of the same name are shared and those the component does not  *)
(* have are Off.  The definitions below are the inputs of each.            *)
(***************************************************************************)
EXTENDS MCData, Integers, SequencesExt, FiniteSetsExt

(* Up to two candidates of every format, for InstallerPreview.             *)

InstEntry(id, kind, c) ==
  [identity |-> id, kind |-> kind, holds |-> <<c, c>>, file |-> TRUE, dataless |-> FALSE, filter |-> TRUE,
   excluded |-> FALSE, length |-> 1, size |-> 1, own |-> TRUE, links |-> 1]
InstCase(entries) == [entries |-> entries, scan |-> "complete", omitted |-> FALSE]
InstDmg == InstEntry("d", "dmg", "koly")
InstPkg == InstEntry("p", "pkg", "package")
InstContents ==
  {<<"dmg", c>> : c \in {"koly", "oldKoly", "badRanges", "short", "noKoly"}}
    \cup {<<"pkg", c>> : c \in {"short", "badMagic", "badHeader", "overLimit", "archive", "corruptToc"}}
    \cup {<<"zip", c>> : c \in {"short", "noEnd", "zip64", "overLimit", "prepended", "signed", "payload", "noPayload", "badName"}}
InstCases ==
  {InstCase(<<InstDmg, InstPkg>>), InstCase(<<[InstDmg EXCEPT !.identity = "p"], InstPkg>>)}
    \cup {InstCase(<<InstEntry("x", k[1], k[2])>>) : k \in InstContents}
    \cup {InstCase(<<[InstPkg EXCEPT ![field] = ~@], InstDmg>>) : field \in {"file", "dataless", "filter", "excluded"}}
    \cup {InstCase(<<InstEntry("a", "none", "text"), [InstDmg EXCEPT !.length = 4]>>),
          InstCase(<<[InstDmg EXCEPT !.own = FALSE]>>), InstCase(<<[InstDmg EXCEPT !.links = 2]>>),
          InstCase(<<InstEntry("l", "pkg", "large"), InstPkg>>),
          InstCase(<<InstEntry("s", "zip", "signed"), InstPkg>>),
          InstCase(<<InstDmg, InstPkg, InstEntry("z", "zip", "payload")>>),
          [InstCase(<<InstDmg>>) EXCEPT !.omitted = TRUE]}
    \cup {[InstCase(<<InstDmg>>) EXCEPT !.scan = s] : s \in {"partial", "cancelled", "failed"}}

(* Tables of up to nine elements, for TocHints.                            *)

TocPlain(n) == [plain |-> n, entity |-> ""]
TocEntity(e) == [plain |-> 0, entity |-> e]
TocAttributes ==
  {<<>>, <<[key |-> "id", value |-> <<TocPlain(1), TocEntity("amp")>>]>>,
   <<[key |-> "id", value |-> <<TocEntity("nbsp")>>]>>,
   <<[key |-> "id", value |-> <<>>], [key |-> "id", value |-> <<>>]>>}

(* XML documents of up to eight elements and a few binary ones.            *)

PlistObjects ==
  <<[type |-> "ascii", value |-> "id"], [type |-> "utf16", value |-> "v"], [type |-> "int", value |-> "v"],
    [type |-> "utf8", value |-> "v"], [type |-> "ascii", value |-> "long"]>>
PlistDicts == {<<p, q>> : p, q \in (1..5) \X (1..6)}
PlistBinaries == {[objects |-> PlistObjects, dict |-> d, top |-> "dict"] : d \in PlistDicts} \cup {[objects |-> PlistObjects, dict |-> <<>>, top |-> "array"]}

AppContent(kind, executable, found, error) == [kind |-> kind, executable |-> executable, found |-> found, error |-> error]
AppApp == AppContent("app", "named", "present", "none")
AppEntry(id) ==
  [identity |-> id, directory |-> TRUE, app |-> TRUE, filter |-> TRUE, excluded |-> FALSE, roots |-> {"r"}, holds |-> <<AppApp, AppApp>>]
AppWith(c) == [AppEntry("x") EXCEPT !.holds = <<c, AppApp>>]
AppCase(entries) == [entries |-> entries, scan |-> "complete", running |-> {"a"}]
AppCases ==
  {AppCase(<<AppEntry("a"), AppEntry("b")>>), AppCase(<<AppEntry("a"), [AppEntry("a") EXCEPT !.roots = {"s"}]>>),
   AppCase(<<[AppEntry("a") EXCEPT !.excluded = TRUE], AppEntry("a"), AppEntry("b")>>),
   AppCase(<<[AppEntry("a") EXCEPT !.roots = {}], AppEntry("b")>>),
   AppCase(<<AppEntry("a"), AppEntry("b"), AppEntry("c")>>)}
    \cup {AppCase(<<[AppEntry("a") EXCEPT ![f] = FALSE], AppEntry("b")>>) : f \in {"directory", "app", "filter"}}
    \cup {AppCase(<<AppWith(c)>>) :
            c \in {AppContent("nonApp", "named", "link", "none"), AppContent("unknown", "invalid", "none", "none"),
                   AppContent("app", "missing", "none", "none"), AppContent("app", "named", "present", "malformed"),
                   AppContent("app", "named", "missing", "none")}}
    \cup {[AppCase(<<AppEntry("a")>>) EXCEPT !.scan = s] : s \in {"partial", "cancelled", "failed"}}

RelObject(kind, device, dataless) == [kind |-> kind, device |-> device, dataless |-> dataless]
RelDir == RelObject("directory", 1, FALSE)
RelObjects ==
  [o \in {"L1", "L2", "S1", "S2", "C1", "F1", "x", "f", "mount", "cloud", "link", "file", "pipe", "L3"} |->
     CASE o = "mount" -> RelObject("directory", 2, FALSE) [] o = "cloud" -> RelObject("directory", 1, TRUE)
       [] o = "link" -> RelObject("link", 1, FALSE) [] o = "file" -> RelObject("file", 1, FALSE)
       [] o = "pipe" -> RelObject("other", 1, FALSE) [] OTHER -> RelDir]
RelPlaces ==
  {<<"/", "/a/Library">>, <<"/", "/b/Library">>, <<"/", "/c/Library">>, <<"L1", "Support">>, <<"L1", "Caches">>, <<"L2", "Support">>,
   <<"S1", "Chrome">>, <<"S1", "Firefox">>, <<"F1", "Profiles">>, <<"S2", "Chrome">>, <<"C1", "Chrome">>, <<"C1", "com.app">>, <<"S1", "com.app">>}
RelTree ==
  [p \in RelPlaces |->
     CASE p = <<"/", "/a/Library">> -> "L1" [] p = <<"/", "/b/Library">> -> "L2" [] p = <<"/", "/c/Library">> -> "cloud"
       [] p = <<"L1", "Support">> -> "S1" [] p = <<"L1", "Caches">> -> "C1" [] p = <<"L2", "Support">> -> "S2"
       [] p = <<"S1", "Chrome">> -> "x" [] p = <<"S1", "Firefox">> -> "F1" [] p = <<"F1", "Profiles">> -> "file"
       [] p = <<"C1", "com.app">> -> "link" [] p = <<"S1", "com.app">> -> "pipe" [] OTHER -> "none"]
RelMoves ==
  {<<<<"/", "/a/Library">>, "L3">>, <<<<"/", "/a/Library">>, "none">>}
    \cup {<<<<"L1", "Support">>, o>> : o \in {"mount", "cloud", "link", "file", "S2", "none"}}

RelRoot(path, n) == [path |-> path, length |-> n, under |-> "none", library |-> TRUE]
RelA == RelRoot("/a/Library", 1)
RelApplication == [app |-> TRUE, package |-> TRUE, badExecutable |-> FALSE, dir |-> "none", bundle |-> "none", named |-> FALSE, unsafe |-> FALSE, order |-> 1]
RelChrome == [RelApplication EXCEPT !.dir = "Chrome", !.bundle = "com.chrome"]
RelFirefox == [RelApplication EXCEPT !.bundle = "firefox"]
RelOther == [RelApplication EXCEPT !.bundle = "com.app", !.order = 2]
RelAll == [all |-> TRUE, places |-> {}, copies |-> {}]
RelCase(apps, roots) == [apps |-> apps, roots |-> roots, inventory |-> "complete", filter |-> RelAll]
RelCases ==
  {RelCase(<<RelChrome>>, <<RelA>>),
   RelCase(<<RelFirefox, [RelApplication EXCEPT !.named = TRUE]>>, <<RelA>>),
   RelCase(<<RelOther, [RelChrome EXCEPT !.badExecutable = TRUE]>>, <<RelA>>),
   [RelCase(<<RelChrome, [RelChrome EXCEPT !.order = 2]>>, <<RelRoot("/b/Library", 2), RelA>>) EXCEPT
      !.filter = [all |-> FALSE, places |-> {<<"Caches", "Chrome">>}, copies |-> {2}]],
   RelCase(<<[RelOther EXCEPT !.unsafe = TRUE]>>, <<RelA>>),
   RelCase(<<RelOther, [RelOther EXCEPT !.bundle = "com.chrome"], [RelOther EXCEPT !.bundle = "com.b"]>>, <<RelA>>),
   RelCase(<<RelChrome, RelOther, RelFirefox>>, <<RelA>>),
   RelCase(<<RelOther>>, <<RelA, [RelRoot("/a/Library/b/Library", 3) EXCEPT !.under = "/a/Library"]>>),
   RelCase(<<RelOther>>, <<RelRoot("/c/Library", 1)>>), RelCase(<<RelOther>>, <<RelRoot("/d/Library", 1)>>),
   RelCase(<<RelOther>>, <<>>), RelCase(<<RelOther>>, <<[RelA EXCEPT !.library = FALSE]>>),
   [RelCase(<<RelOther>>, <<RelA>>) EXCEPT !.inventory = "partial"],
   [RelCase(<<RelOther>>, <<RelA>>) EXCEPT !.inventory = "failed"]}

RuleName == [module |-> "m", pycache |-> TRUE, digits |-> <<3, 1, 2>>, opt |-> "none", nested |-> FALSE]
RuleEntry(path, suffix, id) ==
  [path |-> path, suffix |-> suffix, identity |-> id, kind |-> "file", dataless |-> FALSE, protected |-> FALSE, counted |-> TRUE,
   root |-> "r", ancestors |-> TRUE, mine |-> TRUE, name |-> RuleName, source |-> "s", bytes |-> "some", size |-> 2]
RuleTarget(rule) == RuleEntry("t", rule, "i1")
RuleSource == RuleEntry("s", "source", "i2")
RuleCase(rule, t, s) == [rule |-> rule, entries |-> <<t, s>>, scan |-> "complete", request |-> "valid"]
RuleNames ==
  {[RuleName EXCEPT !.pycache = FALSE], [RuleName EXCEPT !.module = ""], [RuleName EXCEPT !.digits = <<3>>], [RuleName EXCEPT !.digits = <<3, 1>>],
   [RuleName EXCEPT !.digits = <<2, 7>>], [RuleName EXCEPT !.digits = <<3, 10, 1>>], [RuleName EXCEPT !.opt = "alphanumeric"], [RuleName EXCEPT !.opt = "empty"],
   [RuleName EXCEPT !.nested = TRUE]}
RuleTargets(t) ==
  {t, [t EXCEPT !.kind = "directory"], [t EXCEPT !.dataless = TRUE], [t EXCEPT !.protected = TRUE], [t EXCEPT !.counted = FALSE],
   [t EXCEPT !.root = "none"], [t EXCEPT !.ancestors = FALSE], [t EXCEPT !.mine = FALSE], [t EXCEPT !.source = "gone"],
   [t EXCEPT !.bytes = "none"], [t EXCEPT !.suffix = "other"], [t EXCEPT !.identity = "i2"], [t EXCEPT !.identity = "short"], [t EXCEPT !.identity = "text"]}
    \cup {[t EXCEPT !.name = n] : n \in RuleNames}
RuleSources ==
  {[RuleSource EXCEPT !.kind = "link"], [RuleSource EXCEPT !.kind = "directory"], [RuleSource EXCEPT !.dataless = TRUE],
   [RuleSource EXCEPT !.protected = TRUE], [RuleSource EXCEPT !.root = "q"], [RuleSource EXCEPT !.mine = FALSE]}
RuleCases ==
  UNION {
    {RuleCase(r, t, RuleSource) : t \in RuleTargets(RuleTarget(r))}
      \cup {RuleCase(r, RuleTarget(r), s) : s \in RuleSources}
      \cup {[RuleCase(r, RuleTarget(r), RuleSource) EXCEPT !.entries = <<RuleTarget(r), RuleSource, [RuleEntry("u", r, "i3") EXCEPT !.size = 2]>>],
            [RuleCase(r, RuleTarget(r), RuleSource) EXCEPT !.scan = "partial"], [RuleCase(r, RuleTarget(r), RuleSource) EXCEPT !.scan = "cancelled"],
            [RuleCase(r, RuleTarget(r), RuleSource) EXCEPT !.request = "invalid"], [RuleCase(r, RuleTarget(r), RuleSource) EXCEPT !.request = "broken"]}
    : r \in {"pyc", "class"}}
RuleContent == [i \in {"i1", "i2", "i3", "new", "short", "text"} |-> CASE i = "short" -> "short" [] i = "text" -> "other" [] OTHER -> "cafebabe"]

(***************************************************************************)
(* One root with two folders and up to three files in all, which may be    *)
(* links of one another; an optional second root that was not observed.    *)
(***************************************************************************)

IdxUnknown == -1
IdxDir(rank) == [kind |-> "directory", identity |-> 0, logical |-> IdxUnknown, private |-> IdxUnknown,
              dataless |-> FALSE, rank |-> rank]

\* What may be seen at a file's path: two links of one file whose sizes may disagree, a file
\* of its own, one of unknown size, a not-materialised one, or a symbolic link.
IdxFileEntries ==
    {[kind |-> "file", identity |-> 1, logical |-> 1, private |-> 1, dataless |-> FALSE, rank |-> 3],
     [kind |-> "file", identity |-> 1, logical |-> 2, private |-> 1, dataless |-> FALSE, rank |-> 3],
     [kind |-> "link", identity |-> 2, logical |-> IdxUnknown, private |-> IdxUnknown, dataless |-> FALSE, rank |-> 3]}

IdxOwn(id) == [kind |-> "file", identity |-> id, logical |-> id - 1, private |-> IdxUnknown, dataless |-> TRUE, rank |-> 3]

IdxR == <<"r">>
IdxA == <<"r", "a">>
IdxB == <<"r", "b">>
IdxSlots == <<<<"r", "f">>, <<"r", "a", "f">>, <<"r", "b", "f">>>>

IdxEntrySets ==
    {(IdxR :> IdxDir(1)) @@ (IdxA :> IdxDir(1)) @@ withB
        @@ (IdxSlots[1] :> one) @@ (IdxSlots[2] :> two) @@ (IdxSlots[3] :> three) :
       withB \in {(IdxB :> IdxDir(2)), << >>},
       one \in IdxFileEntries \union {IdxOwn(3)}, two \in IdxFileEntries \union {IdxOwn(4)},
       three \in IdxFileEntries}

IdxIssue(code, path) == [code |-> code, path |-> path]

IdxIssueSets ==
    {{}, {IdxIssue("permission_denied", IdxA)}, {IdxIssue("permission_denied", IdxSlots[1])},
     {IdxIssue("changed_entry", <<"r", "x">>), IdxIssue("budget", << >>)},
     {IdxIssue("budget", << >>)}, {IdxIssue("link_skipped", IdxSlots[1])}}

IdxReports ==
    {[roots |-> {IdxR}, entries |-> entries, issues |-> issues, omitted |-> omitted,
      status |-> IF \E issue \in issues : issue.code # "link_skipped" THEN "partial" ELSE "complete"] :
       entries \in IdxEntrySets, issues \in IdxIssueSets, omitted \in {0}}
    \union
    {[roots |-> {IdxR, <<"s">>}, entries |-> entries, issues |-> issues, omitted |-> omitted,
      status |-> status] :
       entries \in {(IdxR :> IdxDir(1)) @@ (IdxSlots[1] :> IdxOwn(3))},
       issues \in {{}, {IdxIssue("duplicate_root", <<"s">>)}, {IdxIssue("permission_denied", <<"r", "a">>)}},
       omitted \in {0, 1}, status \in {"complete", "partial"}}

\* One metric varies at a time, long enough for evidence to expire.
StatusWatch(m, count, until) == [varies |-> {m}, watch |-> TRUE, count |-> count, until |-> until]
StatusOnce(m) == [varies |-> m, watch |-> FALSE, count |-> 0, until |-> 4]
StatusCases ==
  {StatusWatch("cpu", 2, 5), StatusWatch("network", 2, 3), StatusWatch("top", 0, 4),
   StatusOnce({"cpu"}), StatusOnce({"memory", "disk"})}

VARIABLES
  which,  \* the component that runs
  active, apps, at, bags, base, binary, budget, bytes, cache, call, cancel, cancelled,
  candidates, cands, case, changes, clock, command, complete, completed, counted, dataless,
  depth, dirs, disk, exit, expanded, expired, facts, faults, files, flags, found, hints, inKey,
  inString, inventory, io, issues, items, k, kept, keyNext, keyText, known, left, links, marker,
  named, names, next, nodes, opened, orders, outcome, own, pc, pending, phase, pos, probe,
  processes, queue, ready, refs, refusals, report, retained, rootClosed, rootSeen, sampling,
  seen, selected, selection, shown, sized, slot, slow, spare, specs, stack, status, summaries,
  text, tocSeen, tree, unknown, valueDepth, visited, worker

Installer == INSTANCE InstallerPreview WITH
  Cases <- InstCases, MaxCandidates <- 2, MaxNameBytes <- 3, MaxIo <- 6, MaxExpanded <- 3,
  MaxChanges <- 1, MaxFaults <- 1
Toc == INSTANCE TocHints WITH
  Texts <- {"PackageInfo", "file", "../x", "invalid"}, Attributes <- TocAttributes, MaxDepth <-
  5, MaxNodes <- 7, MaxNameBytes <- 13
Plist == INSTANCE InfoPlist WITH
  Strings <- {"id", "v", "long"}, Selected <- {"id"}, Long <- {"long"}, Binaries <-
  PlistBinaries, MaxDepth <- 5, MaxNodes <- 8, MaxText <- 2, MaxRetained <- 3, MaxRefs <- 4
Inventory == INSTANCE AppInventory WITH
  Cases <- AppCases, MaxCandidates <- 2, MaxIo <- 2, MaxChanges <- 1, MaxFaults <- 1
Related == INSTANCE AppRelated WITH
  Cases <- RelCases, Objects <- RelObjects, Tree <- RelTree, Moves <- RelMoves, ChromiumDirs <-
  {"Chrome"}, MaxRoots <- 2, MaxGeneric <- 2, MaxPaths <- 5, MaxCandidates <- 4, MaxChanges <-
  1, MaxFaults <- 1
Rules == INSTANCE RulePreview WITH
  Cases <- RuleCases, Content <- RuleContent, MaxBytes <- 3, MaxChanges <- 1, MaxFaults <- 1
Project == INSTANCE ProjectPreview WITH
  Cases <- ProjectCases, Requested <- 3, SizeWorkers <- 4, MaxLease <- 1, MaxEntries <- 3,
  Channel <- 2, MaxFaults <- 1
Cache == INSTANCE CachePreview WITH
  Previews <- {"p1", "p2"}, Cases <- CacheCases, Capacity <- 1, MaxCandidates <- 3, MaxIssues <-
  2, MaxFaults <- 1
Index == INSTANCE ScanIndex WITH
  Reports <- IdxReports, MaxEntries <- 6, MaxBytes <- 4, Chunk <- 1
System == INSTANCE Status WITH
  Cases <- StatusCases, Names <- {"n"}, Interval <- 1, SlowInterval <- 2, OnceLimit <- 3,
  MaxCount <- 1, MaxFaults <- 1

\* The inputs above are what the components assume of them.
ASSUME InputsAreSound ==
  /\ Installer!InstallerPreviewAssumption
  /\ Toc!TocHintsAssumption
  /\ Plist!InfoPlistAssumption
  /\ Inventory!AppInventoryAssumption
  /\ Related!AppRelatedAssumption
  /\ Rules!RulePreviewAssumption
  /\ Project!ProjectPreviewAssumption
  /\ Cache!CachePreviewAssumption
  /\ System!StatusAssumption

vars ==
  <<which,
    active, apps, at, bags, base, binary, budget, bytes, cache, call, cancel, cancelled,
    candidates, cands, case, changes, clock, command, complete, completed, counted, dataless,
    depth, dirs, disk, exit, expanded, expired, facts, faults, files, flags, found, hints,
    inKey, inString, inventory, io, issues, items, k, kept, keyNext, keyText, known, left,
    links, marker, named, names, next, nodes, opened, orders, outcome, own, pc, pending, phase,
    pos, probe, processes, queue, ready, refs, refusals, report, retained, rootClosed, rootSeen,
    sampling, seen, selected, selection, shown, sized, slot, slow, spare, specs, stack, status,
    summaries, text, tocSeen, tree, unknown, valueDepth, visited, worker>>

\* The variables of the other components.
Off == "off"
Init ==
  \/ /\ which = "installer" /\ Installer!Init
     /\ active = Off /\ apps = Off /\ at = Off /\ bags = Off /\ base = Off /\ binary = Off
     /\ budget = Off /\ bytes = Off /\ cache = Off /\ call = Off /\ cancel = Off /\ cands = Off
     /\ clock = Off /\ command = Off /\ completed = Off /\ counted = Off /\ dataless = Off
     /\ depth = Off /\ dirs = Off /\ exit = Off /\ facts = Off /\ files = Off /\ flags = Off
     /\ found = Off /\ hints = Off /\ inKey = Off /\ inString = Off /\ inventory = Off
     /\ issues = Off /\ items = Off /\ k = Off /\ kept = Off /\ keyNext = Off /\ keyText = Off
     /\ known = Off /\ left = Off /\ links = Off /\ marker = Off /\ next = Off /\ nodes = Off
     /\ opened = Off /\ orders = Off /\ outcome = Off /\ own = Off /\ pending = Off
     /\ phase = Off /\ processes = Off /\ queue = Off /\ refs = Off /\ refusals = Off
     /\ report = Off /\ retained = Off /\ rootClosed = Off /\ rootSeen = Off /\ sampling = Off
     /\ seen = Off /\ selected = Off /\ shown = Off /\ sized = Off /\ slot = Off /\ slow = Off
     /\ spare = Off /\ specs = Off /\ stack = Off /\ summaries = Off /\ text = Off
     /\ tocSeen = Off /\ tree = Off /\ unknown = Off /\ valueDepth = Off /\ visited = Off
     /\ worker = Off
  \/ /\ which = "toc" /\ Toc!Init
     /\ active = Off /\ apps = Off /\ at = Off /\ bags = Off /\ base = Off /\ binary = Off
     /\ budget = Off /\ cache = Off /\ call = Off /\ cancel = Off /\ cancelled = Off
     /\ candidates = Off /\ cands = Off /\ case = Off /\ changes = Off /\ clock = Off
     /\ command = Off /\ complete = Off /\ completed = Off /\ counted = Off /\ dataless = Off
     /\ dirs = Off /\ disk = Off /\ exit = Off /\ expanded = Off /\ expired = Off /\ facts = Off
     /\ faults = Off /\ flags = Off /\ found = Off /\ inKey = Off /\ inString = Off
     /\ inventory = Off /\ io = Off /\ issues = Off /\ items = Off /\ k = Off /\ kept = Off
     /\ keyNext = Off /\ keyText = Off /\ known = Off /\ left = Off /\ links = Off
     /\ marker = Off /\ named = Off /\ names = Off /\ next = Off /\ opened = Off /\ orders = Off
     /\ pc = Off /\ pending = Off /\ phase = Off /\ pos = Off /\ probe = Off /\ processes = Off
     /\ queue = Off /\ ready = Off /\ refs = Off /\ refusals = Off /\ report = Off
     /\ retained = Off /\ sampling = Off /\ seen = Off /\ selected = Off /\ selection = Off
     /\ shown = Off /\ sized = Off /\ slot = Off /\ slow = Off /\ spare = Off /\ specs = Off
     /\ status = Off /\ summaries = Off /\ text = Off /\ tree = Off /\ unknown = Off
     /\ valueDepth = Off /\ visited = Off /\ worker = Off
  \/ /\ which = "plist" /\ Plist!Init
     /\ active = Off /\ apps = Off /\ bags = Off /\ base = Off /\ budget = Off /\ bytes = Off
     /\ cache = Off /\ call = Off /\ cancel = Off /\ cancelled = Off /\ candidates = Off
     /\ cands = Off /\ case = Off /\ changes = Off /\ clock = Off /\ command = Off
     /\ complete = Off /\ completed = Off /\ counted = Off /\ dataless = Off /\ dirs = Off
     /\ disk = Off /\ exit = Off /\ expanded = Off /\ expired = Off /\ facts = Off
     /\ faults = Off /\ files = Off /\ found = Off /\ hints = Off /\ inventory = Off /\ io = Off
     /\ issues = Off /\ items = Off /\ k = Off /\ kept = Off /\ known = Off /\ left = Off
     /\ links = Off /\ marker = Off /\ named = Off /\ names = Off /\ next = Off /\ opened = Off
     /\ orders = Off /\ pc = Off /\ phase = Off /\ pos = Off /\ probe = Off /\ processes = Off
     /\ queue = Off /\ ready = Off /\ refusals = Off /\ report = Off /\ rootClosed = Off
     /\ rootSeen = Off /\ sampling = Off /\ seen = Off /\ selection = Off /\ shown = Off
     /\ sized = Off /\ slot = Off /\ slow = Off /\ spare = Off /\ specs = Off /\ status = Off
     /\ summaries = Off /\ tocSeen = Off /\ tree = Off /\ unknown = Off /\ visited = Off
     /\ worker = Off
  \/ /\ which = "inventory" /\ Inventory!Init
     /\ active = Off /\ at = Off /\ bags = Off /\ base = Off /\ binary = Off /\ budget = Off
     /\ bytes = Off /\ cache = Off /\ call = Off /\ cancel = Off /\ candidates = Off
     /\ cands = Off /\ clock = Off /\ command = Off /\ completed = Off /\ counted = Off
     /\ dataless = Off /\ depth = Off /\ dirs = Off /\ exit = Off /\ expanded = Off
     /\ facts = Off /\ files = Off /\ flags = Off /\ found = Off /\ hints = Off /\ inKey = Off
     /\ inString = Off /\ inventory = Off /\ issues = Off /\ items = Off /\ k = Off
     /\ kept = Off /\ keyNext = Off /\ keyText = Off /\ known = Off /\ left = Off /\ links = Off
     /\ marker = Off /\ names = Off /\ next = Off /\ nodes = Off /\ opened = Off /\ orders = Off
     /\ outcome = Off /\ own = Off /\ pending = Off /\ phase = Off /\ queue = Off /\ ready = Off
     /\ refs = Off /\ refusals = Off /\ report = Off /\ retained = Off /\ rootClosed = Off
     /\ rootSeen = Off /\ sampling = Off /\ seen = Off /\ selected = Off /\ selection = Off
     /\ shown = Off /\ sized = Off /\ slot = Off /\ slow = Off /\ spare = Off /\ specs = Off
     /\ stack = Off /\ summaries = Off /\ text = Off /\ tocSeen = Off /\ tree = Off
     /\ unknown = Off /\ valueDepth = Off /\ visited = Off /\ worker = Off
  \/ /\ which = "related" /\ Related!Init
     /\ active = Off /\ apps = Off /\ at = Off /\ bags = Off /\ base = Off /\ binary = Off
     /\ budget = Off /\ bytes = Off /\ cache = Off /\ call = Off /\ cancel = Off /\ cands = Off
     /\ clock = Off /\ command = Off /\ complete = Off /\ completed = Off /\ counted = Off
     /\ dataless = Off /\ depth = Off /\ dirs = Off /\ disk = Off /\ exit = Off
     /\ expanded = Off /\ facts = Off /\ files = Off /\ flags = Off /\ found = Off
     /\ hints = Off /\ inKey = Off /\ inString = Off /\ inventory = Off /\ io = Off
     /\ issues = Off /\ items = Off /\ keyNext = Off /\ keyText = Off /\ known = Off
     /\ left = Off /\ marker = Off /\ named = Off /\ names = Off /\ next = Off /\ nodes = Off
     /\ orders = Off /\ outcome = Off /\ own = Off /\ pending = Off /\ phase = Off /\ pos = Off
     /\ processes = Off /\ queue = Off /\ ready = Off /\ refs = Off /\ refusals = Off
     /\ report = Off /\ retained = Off /\ rootClosed = Off /\ rootSeen = Off /\ sampling = Off
     /\ seen = Off /\ selected = Off /\ selection = Off /\ sized = Off /\ slot = Off
     /\ slow = Off /\ spare = Off /\ stack = Off /\ summaries = Off /\ text = Off
     /\ tocSeen = Off /\ tree = Off /\ unknown = Off /\ valueDepth = Off /\ visited = Off
     /\ worker = Off
  \/ /\ which = "rules" /\ Rules!Init
     /\ active = Off /\ apps = Off /\ at = Off /\ bags = Off /\ base = Off /\ binary = Off
     /\ budget = Off /\ bytes = Off /\ cache = Off /\ call = Off /\ cancel = Off /\ cands = Off
     /\ clock = Off /\ command = Off /\ complete = Off /\ completed = Off /\ counted = Off
     /\ dataless = Off /\ depth = Off /\ expanded = Off /\ expired = Off /\ files = Off
     /\ flags = Off /\ found = Off /\ hints = Off /\ inKey = Off /\ inString = Off
     /\ inventory = Off /\ io = Off /\ issues = Off /\ items = Off /\ k = Off /\ kept = Off
     /\ keyNext = Off /\ keyText = Off /\ left = Off /\ links = Off /\ named = Off
     /\ names = Off /\ next = Off /\ nodes = Off /\ opened = Off /\ orders = Off
     /\ outcome = Off /\ own = Off /\ pending = Off /\ phase = Off /\ probe = Off
     /\ processes = Off /\ queue = Off /\ ready = Off /\ refs = Off /\ report = Off
     /\ retained = Off /\ rootClosed = Off /\ rootSeen = Off /\ sampling = Off /\ seen = Off
     /\ selected = Off /\ selection = Off /\ shown = Off /\ sized = Off /\ slot = Off
     /\ slow = Off /\ spare = Off /\ specs = Off /\ stack = Off /\ summaries = Off /\ text = Off
     /\ tocSeen = Off /\ tree = Off /\ valueDepth = Off /\ visited = Off /\ worker = Off
  \/ /\ which = "project" /\ Project!Init
     /\ active = Off /\ apps = Off /\ at = Off /\ bags = Off /\ base = Off /\ binary = Off
     /\ budget = Off /\ bytes = Off /\ cache = Off /\ call = Off /\ cancelled = Off
     /\ candidates = Off /\ cands = Off /\ case = Off /\ changes = Off /\ clock = Off
     /\ command = Off /\ dataless = Off /\ depth = Off /\ dirs = Off /\ disk = Off /\ exit = Off
     /\ expanded = Off /\ facts = Off /\ files = Off /\ flags = Off /\ hints = Off
     /\ inKey = Off /\ inString = Off /\ inventory = Off /\ io = Off /\ issues = Off /\ k = Off
     /\ kept = Off /\ keyNext = Off /\ keyText = Off /\ known = Off /\ left = Off /\ links = Off
     /\ marker = Off /\ named = Off /\ names = Off /\ nodes = Off /\ opened = Off
     /\ orders = Off /\ own = Off /\ pc = Off /\ pending = Off /\ pos = Off /\ probe = Off
     /\ processes = Off /\ ready = Off /\ refs = Off /\ refusals = Off /\ report = Off
     /\ retained = Off /\ rootClosed = Off /\ rootSeen = Off /\ sampling = Off /\ seen = Off
     /\ selected = Off /\ selection = Off /\ shown = Off /\ sized = Off /\ slot = Off
     /\ slow = Off /\ specs = Off /\ stack = Off /\ summaries = Off /\ text = Off
     /\ tocSeen = Off /\ unknown = Off /\ valueDepth = Off
  \/ /\ which = "cache" /\ Cache!Init
     /\ apps = Off /\ at = Off /\ bags = Off /\ base = Off /\ binary = Off /\ bytes = Off
     /\ cache = Off /\ cancelled = Off /\ candidates = Off /\ changes = Off /\ clock = Off
     /\ command = Off /\ completed = Off /\ counted = Off /\ dataless = Off /\ depth = Off
     /\ dirs = Off /\ disk = Off /\ exit = Off /\ expanded = Off /\ facts = Off /\ files = Off
     /\ flags = Off /\ found = Off /\ hints = Off /\ inKey = Off /\ inString = Off /\ io = Off
     /\ items = Off /\ k = Off /\ kept = Off /\ keyNext = Off /\ keyText = Off /\ known = Off
     /\ left = Off /\ links = Off /\ marker = Off /\ named = Off /\ names = Off /\ next = Off
     /\ nodes = Off /\ opened = Off /\ orders = Off /\ outcome = Off /\ own = Off /\ pc = Off
     /\ pending = Off /\ probe = Off /\ processes = Off /\ queue = Off /\ ready = Off
     /\ refs = Off /\ refusals = Off /\ report = Off /\ retained = Off /\ rootClosed = Off
     /\ rootSeen = Off /\ sampling = Off /\ seen = Off /\ selected = Off /\ selection = Off
     /\ shown = Off /\ slot = Off /\ slow = Off /\ spare = Off /\ specs = Off /\ stack = Off
     /\ summaries = Off /\ text = Off /\ tocSeen = Off /\ tree = Off /\ unknown = Off
     /\ valueDepth = Off /\ visited = Off /\ worker = Off
  \/ /\ which = "index" /\ Index!Init
     /\ active = Off /\ apps = Off /\ at = Off /\ base = Off /\ binary = Off /\ budget = Off
     /\ bytes = Off /\ cache = Off /\ call = Off /\ cancel = Off /\ candidates = Off
     /\ cands = Off /\ case = Off /\ changes = Off /\ clock = Off /\ command = Off
     /\ complete = Off /\ completed = Off /\ counted = Off /\ depth = Off /\ dirs = Off
     /\ disk = Off /\ exit = Off /\ expanded = Off /\ expired = Off /\ facts = Off
     /\ faults = Off /\ files = Off /\ flags = Off /\ found = Off /\ hints = Off /\ inKey = Off
     /\ inString = Off /\ inventory = Off /\ io = Off /\ issues = Off /\ items = Off /\ k = Off
     /\ kept = Off /\ keyNext = Off /\ keyText = Off /\ known = Off /\ links = Off
     /\ marker = Off /\ named = Off /\ names = Off /\ next = Off /\ nodes = Off /\ opened = Off
     /\ outcome = Off /\ own = Off /\ pending = Off /\ phase = Off /\ pos = Off /\ probe = Off
     /\ processes = Off /\ queue = Off /\ ready = Off /\ refs = Off /\ refusals = Off
     /\ retained = Off /\ rootClosed = Off /\ rootSeen = Off /\ sampling = Off /\ seen = Off
     /\ selected = Off /\ selection = Off /\ shown = Off /\ sized = Off /\ slot = Off
     /\ slow = Off /\ spare = Off /\ specs = Off /\ stack = Off /\ status = Off /\ text = Off
     /\ tocSeen = Off /\ tree = Off /\ unknown = Off /\ valueDepth = Off /\ visited = Off
     /\ worker = Off
  \/ /\ which = "status" /\ System!Init
     /\ active = Off /\ apps = Off /\ at = Off /\ bags = Off /\ binary = Off /\ budget = Off
     /\ bytes = Off /\ call = Off /\ cancel = Off /\ cancelled = Off /\ candidates = Off
     /\ cands = Off /\ changes = Off /\ complete = Off /\ completed = Off /\ counted = Off
     /\ dataless = Off /\ depth = Off /\ dirs = Off /\ disk = Off /\ exit = Off
     /\ expanded = Off /\ expired = Off /\ facts = Off /\ faults = Off /\ files = Off
     /\ flags = Off /\ found = Off /\ hints = Off /\ inKey = Off /\ inString = Off
     /\ inventory = Off /\ io = Off /\ issues = Off /\ items = Off /\ k = Off /\ kept = Off
     /\ keyNext = Off /\ keyText = Off /\ known = Off /\ left = Off /\ links = Off
     /\ marker = Off /\ named = Off /\ names = Off /\ next = Off /\ nodes = Off /\ opened = Off
     /\ orders = Off /\ outcome = Off /\ own = Off /\ pc = Off /\ pending = Off /\ phase = Off
     /\ pos = Off /\ probe = Off /\ processes = Off /\ queue = Off /\ ready = Off /\ refs = Off
     /\ refusals = Off /\ report = Off /\ retained = Off /\ rootClosed = Off /\ rootSeen = Off
     /\ selected = Off /\ selection = Off /\ sized = Off /\ spare = Off /\ specs = Off
     /\ stack = Off /\ status = Off /\ summaries = Off /\ text = Off /\ tocSeen = Off
     /\ tree = Off /\ unknown = Off /\ valueDepth = Off /\ visited = Off /\ worker = Off

InstallerIdle ==
  <<which, active, apps, at, bags, base, binary, budget, bytes, cache, call, cancel, cands,
  clock, command, completed, counted, dataless, depth, dirs, exit, facts, files, flags, found,
  hints, inKey, inString, inventory, issues, items, k, kept, keyNext, keyText, known, left,
  links, marker, next, nodes, opened, orders, outcome, own, pending, phase, processes, queue,
  refs, refusals, report, retained, rootClosed, rootSeen, sampling, seen, selected, shown,
  sized, slot, slow, spare, specs, stack, summaries, text, tocSeen, tree, unknown, valueDepth,
  visited, worker>>
TocIdle ==
  <<which, active, apps, at, bags, base, binary, budget, cache, call, cancel, cancelled,
  candidates, cands, case, changes, clock, command, complete, completed, counted, dataless,
  dirs, disk, exit, expanded, expired, facts, faults, flags, found, inKey, inString, inventory,
  io, issues, items, k, kept, keyNext, keyText, known, left, links, marker, named, names, next,
  opened, orders, pc, pending, phase, pos, probe, processes, queue, ready, refs, refusals,
  report, retained, sampling, seen, selected, selection, shown, sized, slot, slow, spare, specs,
  status, summaries, text, tree, unknown, valueDepth, visited, worker>>
PlistIdle ==
  <<which, active, apps, bags, base, budget, bytes, cache, call, cancel, cancelled, candidates,
  cands, case, changes, clock, command, complete, completed, counted, dataless, dirs, disk,
  exit, expanded, expired, facts, faults, files, found, hints, inventory, io, issues, items, k,
  kept, known, left, links, marker, named, names, next, opened, orders, pc, phase, pos, probe,
  processes, queue, ready, refusals, report, rootClosed, rootSeen, sampling, seen, selection,
  shown, sized, slot, slow, spare, specs, status, summaries, tocSeen, tree, unknown, visited,
  worker>>
InventoryIdle ==
  <<which, active, at, bags, base, binary, budget, bytes, cache, call, cancel, candidates,
  cands, clock, command, completed, counted, dataless, depth, dirs, exit, expanded, facts,
  files, flags, found, hints, inKey, inString, inventory, issues, items, k, kept, keyNext,
  keyText, known, left, links, marker, names, next, nodes, opened, orders, outcome, own,
  pending, phase, queue, ready, refs, refusals, report, retained, rootClosed, rootSeen,
  sampling, seen, selected, selection, shown, sized, slot, slow, spare, specs, stack, summaries,
  text, tocSeen, tree, unknown, valueDepth, visited, worker>>
RelatedIdle ==
  <<which, active, apps, at, bags, base, binary, budget, bytes, cache, call, cancel, cands,
  clock, command, complete, completed, counted, dataless, depth, dirs, disk, exit, expanded,
  facts, files, flags, found, hints, inKey, inString, inventory, io, issues, items, keyNext,
  keyText, known, left, marker, named, names, next, nodes, orders, outcome, own, pending, phase,
  pos, processes, queue, ready, refs, refusals, report, retained, rootClosed, rootSeen,
  sampling, seen, selected, selection, sized, slot, slow, spare, stack, summaries, text,
  tocSeen, tree, unknown, valueDepth, visited, worker>>
RulesIdle ==
  <<which, active, apps, at, bags, base, binary, budget, bytes, cache, call, cancel, cands,
  clock, command, complete, completed, counted, dataless, depth, expanded, expired, files,
  flags, found, hints, inKey, inString, inventory, io, issues, items, k, kept, keyNext, keyText,
  left, links, named, names, next, nodes, opened, orders, outcome, own, pending, phase, probe,
  processes, queue, ready, refs, report, retained, rootClosed, rootSeen, sampling, seen,
  selected, selection, shown, sized, slot, slow, spare, specs, stack, summaries, text, tocSeen,
  tree, valueDepth, visited, worker>>
ProjectIdle ==
  <<which, active, apps, at, bags, base, binary, budget, bytes, cache, call, cancelled,
  candidates, cands, case, changes, clock, command, dataless, depth, dirs, disk, exit, expanded,
  facts, files, flags, hints, inKey, inString, inventory, io, issues, k, kept, keyNext, keyText,
  known, left, links, marker, named, names, nodes, opened, orders, own, pc, pending, pos, probe,
  processes, ready, refs, refusals, report, retained, rootClosed, rootSeen, sampling, seen,
  selected, selection, shown, sized, slot, slow, specs, stack, summaries, text, tocSeen,
  unknown, valueDepth>>
CacheIdle ==
  <<which, apps, at, bags, base, binary, bytes, cache, cancelled, candidates, changes, clock,
  command, completed, counted, dataless, depth, dirs, disk, exit, expanded, facts, files, flags,
  found, hints, inKey, inString, io, items, k, kept, keyNext, keyText, known, left, links,
  marker, named, names, next, nodes, opened, orders, outcome, own, pc, pending, probe,
  processes, queue, ready, refs, refusals, report, retained, rootClosed, rootSeen, sampling,
  seen, selected, selection, shown, slot, slow, spare, specs, stack, summaries, text, tocSeen,
  tree, unknown, valueDepth, visited, worker>>
IndexIdle ==
  <<which, active, apps, at, base, binary, budget, bytes, cache, call, cancel, candidates,
  cands, case, changes, clock, command, complete, completed, counted, depth, dirs, disk, exit,
  expanded, expired, facts, faults, files, flags, found, hints, inKey, inString, inventory, io,
  issues, items, k, kept, keyNext, keyText, known, links, marker, named, names, next, nodes,
  opened, outcome, own, pending, phase, pos, probe, processes, queue, ready, refs, refusals,
  retained, rootClosed, rootSeen, sampling, seen, selected, selection, shown, sized, slot, slow,
  spare, specs, stack, status, text, tocSeen, tree, unknown, valueDepth, visited, worker>>
SystemIdle ==
  <<which, active, apps, at, bags, binary, budget, bytes, call, cancel, cancelled, candidates,
  cands, changes, complete, completed, counted, dataless, depth, dirs, disk, exit, expanded,
  expired, facts, faults, files, flags, found, hints, inKey, inString, inventory, io, issues,
  items, k, kept, keyNext, keyText, known, left, links, marker, named, names, next, nodes,
  opened, orders, outcome, own, pc, pending, phase, pos, probe, processes, queue, ready, refs,
  refusals, report, retained, rootClosed, rootSeen, selected, selection, sized, spare, specs,
  stack, status, summaries, text, tocSeen, tree, unknown, valueDepth, visited, worker>>

InstallerTurn == which = "installer" /\ UNCHANGED InstallerIdle
TocTurn == which = "toc" /\ UNCHANGED TocIdle
PlistTurn == which = "plist" /\ UNCHANGED PlistIdle
InventoryTurn == which = "inventory" /\ UNCHANGED InventoryIdle
RelatedTurn == which = "related" /\ UNCHANGED RelatedIdle
RulesTurn == which = "rules" /\ UNCHANGED RulesIdle
ProjectTurn == which = "project" /\ UNCHANGED ProjectIdle
CacheTurn == which = "cache" /\ UNCHANGED CacheIdle
IndexTurn == which = "index" /\ UNCHANGED IndexIdle
SystemTurn == which = "status" /\ UNCHANGED SystemIdle

InstallerStep == InstallerTurn /\ Installer!Next
TocStep == TocTurn /\ Toc!Next
PlistStep == PlistTurn /\ Plist!Next
InventoryStep == InventoryTurn /\ Inventory!Next
RelatedStep == RelatedTurn /\ Related!Next
RulesStep == RulesTurn /\ Rules!Next
ProjectStep == ProjectTurn /\ Project!Next
CacheStep == CacheTurn /\ Cache!Next
IndexStep == IndexTurn /\ Index!Next
SystemStep == SystemTurn /\ System!Next

Next == InstallerStep \/ TocStep \/ PlistStep \/ InventoryStep \/ RelatedStep \/ RulesStep \/ ProjectStep \/ CacheStep \/ IndexStep \/ SystemStep

Spec == Init /\ [][Next]_vars

-----------------------------------------------------------------------------
(* Properties.  Each is a conjunction with one part for every component it  *)
(* concerns; the parts are stated in the components' modules.               *)

\* Evidence is of one version: an installer inspected by several bounded
\* reads, an application described by its manifest and its executable, a
\* place probed under a Library folder and the file a rule judged were each
\* one object throughout, whatever was replaced between the calls; an
\* application that runs is not said to be closed because the census failed.
\* A rate the status shows is the growth of one counter, recent when shown.
EvidenceIsOfOneObject ==
  /\ which = "installer" => Installer!InspectedIsWhole
  /\ which = "inventory" => Inventory!RecordIsOneVersion /\ Inventory!RunningIsNotDenied
  /\ which = "related" => Related!ProbeStaysInVolume
  /\ which = "rules" => Rules!EvidenceIsTheTargets
  /\ which = "status" => System!RatesAreOfOneCounter /\ System!FreshIsRecent

\* A report that calls itself complete has looked at everything: no limit,
\* failed call, lost worker or cancellation was swallowed on the way.
CompleteMeansComplete ==
  /\ which = "installer" => Installer!CompleteMeansAllInspected
  /\ which = "inventory" => Inventory!CompleteInventory
  /\ which = "related" => Related!CompleteRelated
  /\ which = "rules" => Rules!RuleReportAddsUp
  /\ which = "project" => Project!CompleteMeansMeasured
  /\ which = "index" => Index!CompleteHasNoGap
  /\ which = "status" => System!ZeroMeansMeasured

\* Of a plain document the streaming readers take only what is at the top: the
\* table of contents gives the files directly in it, Info.plist the entries of
\* its root dictionary, whatever is nested in the directories or values there.
\* Plain means that names, types, keys and strings hold one text each and that
\* keys and values alternate in the root.  Of other documents nothing is said,
\* and it would not be true of a root that holds a value without a key
\* (KeysAreTopLevel of InfoPlist), nor of a file with an empty name.
PlainFieldsAreTopLevel ==
  /\ which = "toc" => Toc!HintsAreTopLevel
  /\ which = "plist" => Plist!PlainFieldsAreTheRoots

\* The sizes the index gives a directory are those of the files below it,
\* every physical file once in the whole tree, and siblings are ranked by
\* them.
IndexIsExact ==
  which = "index" => Index!IndexIsExact /\ Index!SiblingsAreSorted

\* What a preview offers to select it has measured or inspected to the end:
\* a project artifact whose sizing was lost, late or incomplete is listed
\* without an offer, and so is an installer that was not read through.
OffersAreEarned ==
  /\ which = "project" => Project!OffersAreEarned /\ Project!WithinRequest
  /\ which = "installer" => Installer!CheckedIsInspected

\* A cache whose owners could not be asked within the budget, or whose
\* answer came too late, is never offered, nor one whose owner runs; the
\* observers that hang hold no more slots than there are.
UnansweredOffersNothing ==
  which = "cache" =>
    Cache!UnansweredOffersNothing /\ Cache!OfferedIsIdle /\ Cache!SlotsAreThreads
=============================================================================
