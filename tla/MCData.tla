------------------------------ MODULE MCData ------------------------------
(* The small inputs that MCScans, MCInspection and MCReturns share.        *)
EXTENDS Naturals, Sequences, FiniteSets

----------------------------------------------------------------------------
(* Walks.  Trees, roots and limits for ScanWalk.                           *)

WalkDirs == {"a", "b", "c", "d"}
WalkOf(k, d) == [kind |-> k, id |-> d]
WalkDir(d) == WalkOf("dir", d)
WalkFile(f) == WalkOf("file", f)
WalkHard(f) == WalkOf("hard", f)
WalkVcs(d) == WalkOf("vcs", d)
WalkOther(k) == WalkOf(k, "x")

WalkTwo == [workers |-> 2, queue |-> 2, events |-> 1, openDirs |-> 4, depth |-> 2, entries |-> 5]
WalkOne == [workers |-> 1, queue |-> 4, events |-> 2, openDirs |-> 3, depth |-> 1, entries |-> 4]

WalkScan(rs, t, l) ==
  [roots |-> rs, tree |-> [d \in WalkDirs |-> IF d \in DOMAIN t THEN t[d] ELSE <<>>],
   project |-> FALSE, cache |-> FALSE, signed |-> {}, bare |-> {}, leaves |-> {}, limits |-> l]
WalkProject(rs, t, s, b, l) ==
  [WalkScan(rs, t, l) EXCEPT !.project = TRUE, !.signed = s, !.bare = b]

\* Two roots, one below the other; a file with two names.
WalkOverlapping ==
  WalkScan(<<"a", "b">>, [a |-> <<WalkDir("b"), WalkHard("f")>>, b |-> <<WalkDir("c")>>, c |-> <<WalkHard("f")>>], WalkTwo)

\* Entries that are skipped, refused, linked or not descended.
WalkMixed ==
  WalkScan(<<"a">>, [a |-> <<WalkOther("link"), WalkVcs("b"), WalkOf("leaf", "c")>>, b |-> <<WalkOther("skip")>>], WalkTwo)
WalkCache == [WalkMixed EXCEPT !.cache = TRUE]
WalkStrange == WalkScan(<<"a">>, [a |-> <<WalkOther("odd"), WalkOf("cloud", "b"), WalkDir("c")>>], WalkTwo)

\* A directory that is moved while it is looked for: met below both roots.
WalkMoved == WalkScan(<<"a", "b">>, [a |-> <<WalkDir("c")>>, b |-> <<WalkDir("c")>>, c |-> <<WalkFile("f")>>], WalkTwo)

\* Projects: a signed artifact, Git metadata, bare repositories.
WalkSigned == WalkProject(<<"a">>, [a |-> <<WalkVcs("c"), WalkDir("b")>>, b |-> <<WalkFile("f")>>], {"b"}, {"c"}, WalkTwo)
WalkBare == WalkProject(<<"c", "a">>, [a |-> <<WalkDir("c"), WalkFile("f")>>, c |-> <<WalkFile("f")>>], {}, {"c"}, WalkTwo)

\* Limits that are reached: descriptors, depth, entries, also by the roots.
WalkNarrow ==
  {WalkProject(<<"a">>, [a |-> <<WalkDir("b"), WalkDir("c")>>], {}, {}, WalkTwo),
   WalkScan(<<"a", "b", "c", "d">>, [a |-> <<WalkDir("d")>>], WalkOne),
   WalkScan(<<"a">>, [a |-> <<WalkDir("b")>>, b |-> <<WalkDir("c")>>], WalkOne),
   WalkScan(<<"a">>, [a |-> <<WalkDir("b"), WalkFile("f"), WalkFile("g"), WalkDir("c")>>], [WalkOne EXCEPT !.entries = 3]),
   WalkScan(<<"a">>, [a |-> <<WalkDir("b"), WalkDir("c"), WalkDir("d")>>], [WalkOne EXCEPT !.queue = 1]),
   [WalkMoved EXCEPT !.limits.entries = 1], [WalkMoved EXCEPT !.limits.entries = 2],
   [WalkBare EXCEPT !.bare = {"c", "a"}, !.limits.entries = 1]}

\* One directory under two names.
WalkTwice == WalkScan(<<"a", "a">>, [a |-> <<WalkDir("b")>>, b |-> <<WalkFile("f")>>], WalkOne)

\* A root that the policy does not descend (leaves), beside another and alone.
WalkPackage == [WalkScan(<<"c", "a">>, [a |-> <<WalkFile("f")>>, c |-> <<WalkFile("g")>>], WalkOne) EXCEPT !.leaves = {"c"}]
WalkPackageOnly == [WalkPackage EXCEPT !.roots = <<"c">>]

WalkAll ==
  WalkNarrow \cup {WalkOverlapping, WalkMixed, WalkCache, WalkStrange, WalkMoved, WalkSigned, WalkBare, WalkTwice,
                   WalkPackage, WalkPackageOnly}

\* For liveness: two workers with a directory each, a scan whose limits are
\* reached, and a full queue.
WalkSome ==
  {WalkScan(<<"a">>, [a |-> <<WalkDir("b"), WalkDir("c")>>], WalkTwo),
   WalkScan(<<"a">>, [a |-> <<WalkDir("b"), WalkFile("f"), WalkFile("g"), WalkDir("c")>>], [WalkOne EXCEPT !.entries = 3]),
   WalkScan(<<"a">>, [a |-> <<WalkDir("b"), WalkDir("c"), WalkDir("d")>>], [WalkOne EXCEPT !.queue = 1])}

----------------------------------------------------------------------------
(* Sizes.  Trees for ParallelScan.                                         *)

SizeDir(d) == [kind |-> "dir", id |-> d]
SizeFile(f) == [kind |-> "file", id |-> f]
SizeHard(f) == [kind |-> "hard", id |-> f]
SizeOdd == [kind |-> "odd", id |-> "x"]
SizeVcs(d) == [kind |-> "vcs", id |-> d]

\* Three levels, with a file that has two names.
SizeNested ==
  [r |-> <<SizeDir("a"), SizeHard("f"), SizeDir("b")>>, a |-> <<SizeDir("c"), SizeFile("g")>>,
   b |-> <<>>, c |-> <<SizeHard("f")>>]

\* A directory that is met twice, and an entry that is only reported.
SizeStrange ==
  [r |-> <<SizeDir("a"), SizeOdd>>, a |-> <<SizeDir("c"), SizeDir("r")>>, b |-> <<>>, c |-> <<SizeVcs("b")>>]

SizePlain ==
  [r |-> <<SizeDir("a"), SizeFile("f")>>, a |-> <<SizeFile("g"), SizeDir("c")>>, b |-> <<>>, c |-> <<>>]

\* A repository directory beside ordinary ones.
SizeRepository ==
  [r |-> <<SizeDir("a"), SizeVcs("b")>>, a |-> <<SizeHard("f"), SizeDir("c")>>, b |-> <<SizeFile("g")>>,
   c |-> <<SizeHard("f")>>]

SizeTwice == [r |-> <<SizeDir("a"), SizeHard("f")>>, a |-> <<SizeHard("f")>>, b |-> <<>>, c |-> <<>>]

SizeCached(S) == {[project |-> FALSE, tree |-> t] : t \in S}
SizeProjects(S) == {[project |-> TRUE, tree |-> t] : t \in S}

SizeAll == SizeCached({SizeNested, SizeStrange}) \cup SizeProjects({SizeNested, SizeRepository, SizeTwice})
SizeSome == SizeCached({SizePlain, SizeStrange}) \cup SizeProjects({SizePlain})

----------------------------------------------------------------------------
(* Projects.  Two projects, one of them inside an artifact of the other,   *)
(* for ProjectPreview: root/target/sub/dist, root/dist, and a repository   *)
(* inside root/dist.                                                       *)

ProjectNone == [rule |-> "none", root |-> "none"]

ProjectDirs == {"root", "target", "sub", "subdist", "dist", "gitdir"}
ProjectParent == [d \in ProjectDirs |-> CASE d = "root" -> "none"
                                [] d = "sub" -> "target"
                                [] d = "subdist" -> "sub"
                                [] d = "gitdir" -> "dist"
                                [] OTHER -> "root"]
ProjectNames(git) == [d \in ProjectDirs |-> CASE d = "target" -> "target"
                                    [] d \in {"dist", "subdist"} -> "dist"
                                    [] d = "gitdir" -> (IF git THEN ".git" ELSE "assets")
                                    [] OTHER -> "plain"]
ProjectSig(rule, root) == [rule |-> rule, root |-> root]

ProjectTree(ms, sub, sig, git, dataless, hidden, state, busy, managed) ==
  [dirs |-> ProjectDirs, parent |-> ProjectParent, name |-> ProjectNames(git),
   markers |-> [d \in ProjectDirs |-> CASE d = "root" -> ms [] d = "sub" -> sub [] OTHER -> {}],
   sig |-> [d \in ProjectDirs |-> IF d = "dist" THEN sig ELSE ProjectNone],
   size |-> [d \in ProjectDirs |-> IF d = "target" \/ state = "none" THEN 2 ELSE 1],
   dataless |-> dataless, hidden |-> hidden, managed |-> managed,
   git |-> [d \in ProjectDirs |-> IF d = "dist" THEN state ELSE "none"],
   ignored |-> IF state = "untracked" THEN {"dist"} ELSE {},
   builds |-> [d \in ProjectDirs |-> "idle"], locks |-> [d \in ProjectDirs |-> busy]]

\* Nested artifacts of two projects, signed, unsigned and foreign ones.
ProjectShapes ==
  {ProjectTree({"cargo", "node"}, {"node"}, ProjectNone, FALSE, {}, {}, "untracked", "idle", {}),
   ProjectTree({}, {"node"}, ProjectSig("pods", "root"), FALSE, {}, {}, "untracked", "idle", {}),
   ProjectTree({}, {"node"}, ProjectSig("xcode", "none"), FALSE, {}, {}, "untracked", "idle", {}),
   ProjectTree({"cargo"}, {}, ProjectSig("rule", "elsewhere"), FALSE, {}, {}, "none", "idle", {})}
\* Tracked and unreadable artifacts, and a repository inside one.
ProjectEvidence ==
  {ProjectTree({"node"}, {}, ProjectSig("pods", "root"), TRUE, {}, {}, "none", "idle", {}),
   ProjectTree({"cargo", "node"}, {}, ProjectNone, FALSE, {}, {"target"}, "tracked", "idle", {})}
\* Files kept elsewhere, unknown Git state and unknown, busy or protected builds.
ProjectOdd ==
  {ProjectTree({"python"}, {}, ProjectNone, FALSE, {"dist"}, {}, "none", "idle", {}),
   ProjectTree({"swift", "node"}, {"swift"}, ProjectSig("tag", "root"), FALSE, {}, {}, "unknown", "unknown", {}),
   ProjectTree({"cargo"}, {}, ProjectNone, FALSE, {}, {}, "none", "busy", {}),
   ProjectTree({"cargo"}, {}, ProjectNone, FALSE, {}, {}, "none", "idle", {"target"})}
ProjectCases == ProjectShapes \cup ProjectEvidence \cup ProjectOdd

\* For liveness: one shape, and one whose evidence is refused.
ProjectSome ==
  {ProjectTree({"cargo", "node"}, {"node"}, ProjectNone, FALSE, {}, {}, "untracked", "idle", {}),
   ProjectTree({"swift", "node"}, {"swift"}, ProjectSig("tag", "root"), FALSE, {}, {}, "unknown", "unknown", {})}

----------------------------------------------------------------------------
(* Caches.  A reviewed cache and two caches of installed applications, for *)
(* CachePreview.                                                           *)

CacheNames ==
  {"derived_data", "npm_cacache", "gradle_modules", "vscode_cached_data", "goland-jcef", "cursor_vsix",
   "teams_classic", "discord_cache", "adobe_media_files", "chrome_http", "edge_code", "firefox_http"}

CacheCase(ps, order, at, facts, owner, running, locks, census) ==
  [previews |-> ps, order |-> order, at |-> at, facts |-> facts, owner |-> owner,
   running |-> running, locks |-> locks, census |-> census]

CacheIds == {"a", "b", "c"}
CacheOwned(ps, order, tool, o, f) ==
  CacheCase(ps, order, [x \in CacheIds |-> IF x = "a" THEN tool ELSE "bundle_id"],
         [x \in CacheIds |-> IF x = "b" THEN f ELSE {}],
         [x \in CacheIds |-> IF x = "b" THEN o ELSE "idle"], {}, {}, TRUE)
CacheShared == {CacheOwned({"p1", "p2"}, <<"b">>, "npm", "idle", {})}
CacheAlone(p) ==
  {CacheOwned({p}, <<"a", "b", "c">>, "chrome_http", o, {}) : o \in {"running", "none", "unknown", "activityUnknown", "replaced"}}
    \cup {CacheOwned({p}, <<"a", "b", "c">>, "cargo_registry", "idle", f) :
            f \in {{"denied"}, {"excluded"}, {"uncovered"}, {"dataless"}}}

\* Rules of every group, each with its tool quiet, running or unknown.
CacheRules(p) ==
  {CacheCase({p}, <<"a">>, [x \in CacheIds |-> r], [x \in CacheIds |-> f], [x \in CacheIds |-> "none"], run, locks, census) :
     r \in CacheNames, f \in {{}, {"lock"}, {"noProfile"}},
     run \in {{}, {"discord", "cursor"}, {"adobeUnknown", "firefox"}}, locks \in {{"chrome"}}, census \in BOOLEAN}
CacheCases == CacheShared \cup CacheAlone("p1") \cup CacheRules("p1")

\* For liveness: the two that share a slot, and one with a refused entry.
CacheSome == CacheShared \cup {CacheOwned({"p1"}, <<"a", "b">>, "cargo_registry", "unknown", {"denied"})}
============================================================================
