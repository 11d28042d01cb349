------------------------------ MODULE ScanIndex ------------------------------
(***************************************************************************)
(* The hierarchy built over a finished scan (scan/index.rs).  A report is  *)
(* validated, every entry gets its parent, the gaps of the scan are turned *)
(* into coverage of single directories, the bag of file identities of      *)
(* every directory is accumulated from its children, and siblings are put  *)
(* in order.  A file seen through several links counts once in every       *)
(* directory that holds one of them.  The logical and the allocated size   *)
(* are handled alike; one of them is modelled, with the private size.      *)
(***************************************************************************)
EXTENDS Integers, Sequences, FiniteSets, SequencesExt, FiniteSetsExt

CONSTANTS
    Reports,    \* the reports a scan may hand over
    MaxEntries, \* max_entries
    MaxBytes,   \* the largest u64
    Chunk       \* CHUNK, the length sorted in one piece

VARIABLES
    pc,         \* "idle", "account", "order", "built", "failed"
    report,     \* the report being indexed
    left,       \* paths not yet accounted for
    bags,       \* directory -> the identities below it, with their sums
    summaries,  \* directory -> its summary, once accounted for
    dataless,   \* paths at or below which something is not materialised
    orders,     \* directory -> its children by size
    cancelled

vars == <<pc, report, left, bags, summaries, dataless, orders, cancelled>>

\* A size that is not known.
Unknown == -1

(***************************************************************************)
(* The report.  entries maps a path to what was observed there.            *)
(***************************************************************************)
Paths(rep) == DOMAIN rep.entries
Kind(rep, path) == rep.entries[path].kind
Directories(rep) == {path \in Paths(rep) : Kind(rep, path) = "directory"}
Files(rep) == {path \in Paths(rep) : Kind(rep, path) = "file"}

\* The observed parent, or << >> when there is none.
Parent(rep, path) == IF Front(path) \in Paths(rep) THEN Front(path) ELSE << >>

Children(rep, path) == {child \in Paths(rep) : Parent(rep, child) = path}

\* Why a report is refused: too many entries, an entry below something that is not a
\* directory, an entry below nothing, or a root that is not a directory.
Refused(rep) ==
    \/ Cardinality(Paths(rep)) > MaxEntries
    \/ \E root \in rep.roots \intersect Paths(rep) : Kind(rep, root) # "directory"
    \/ \E path \in Paths(rep) :
         IF Parent(rep, path) # << >> THEN Kind(rep, Parent(rep, path)) # "directory"
                                      ELSE path \notin rep.roots

(***************************************************************************)
(* Coverage.                                                               *)
(***************************************************************************)
\* ScanCode::is_gap
IsGap(issue) == issue.code \notin {"link_skipped", "duplicate_root", "duplicate_directory"}

\* ScanCode::is_subtree_gap, at a path that is not an observed file: nothing outside that
\* path is missing.
Bounded(rep, issue) ==
    /\ issue.code \in {"permission_denied", "changed_entry"}
    /\ issue.path # << >>
    /\ issue.path \in Paths(rep) => Kind(rep, issue.path) = "directory"

Gaps(rep) == {issue \in rep.issues : IsGap(issue)}

\* A requested root that was not observed and was not reported as a duplicate.
RootMissing(rep) ==
    \E root \in rep.roots \ Paths(rep) :
        ~\E issue \in rep.issues :
            issue.path = root /\ issue.code \in {"duplicate_root", "duplicate_directory"}

Complete(rep) ==
    /\ rep.status = "complete"
    /\ rep.omitted = 0
    /\ Gaps(rep) = {}
    /\ ~RootMissing(rep)

\* Every directory at or above a gap.
IncompletePaths(rep) ==
    UNION {{SubSeq(issue.path, 1, n) : n \in 1 .. Len(issue.path)} : issue \in Gaps(rep)}

\* A partial report whose every gap is retained and bounded by its path.
Localized(rep) ==
    /\ rep.status = "partial"
    /\ rep.omitted = 0
    /\ Gaps(rep) # {}
    /\ \A issue \in Gaps(rep) : Bounded(rep, issue)
    /\ ~RootMissing(rep)

Covered(rep, path) == Complete(rep) \/ (Localized(rep) /\ path \notin IncompletePaths(rep))

(***************************************************************************)
(* Measurements and bags.                                                  *)
(***************************************************************************)
Identity(rep, path) == rep.entries[path].identity

Links(rep, identity) == {path \in Files(rep) : Identity(rep, path) = identity}

\* Measurements::observe: a size on which the links of a file disagree is not known.
Agreed(values) == IF Cardinality(values) = 1 THEN CHOOSE v \in values : TRUE ELSE Unknown
Logical(rep, identity) == Agreed({rep.entries[path].logical : path \in Links(rep, identity)})
Private(rep, identity) == Agreed({rep.entries[path].private : path \in Links(rep, identity)})
Repeated(rep, identity) == Cardinality(Links(rep, identity)) > 1

Zero == [private |-> 0, files |-> 0, known |-> 0, unknown |-> 0]

NoFiles == [identities |-> {}, singles |-> Zero, shared |-> Zero]

\* The private size is lost when a part of it is not known or it overflows.
PlusPrivate(a, b) == IF Unknown \in {a, b} \/ a + b > MaxBytes THEN Unknown ELSE a + b

\* merge_summary
MergeSummary(a, b) ==
    [private |-> PlusPrivate(a.private, b.private), files |-> a.files + b.files,
     known |-> a.known + b.known, unknown |-> a.unknown + b.unknown]

One(rep, identity) ==
    LET size == Logical(rep, identity) IN
    [private |-> Private(rep, identity), files |-> 1,
     known |-> IF size = Unknown THEN 0 ELSE size,
     unknown |-> IF size = Unknown THEN 1 ELSE 0]

\* IdentityBag::insert: only a file with several links needs to be remembered by identity.
Insert(rep, bag, identity) ==
    IF ~Repeated(rep, identity)
    THEN [bag EXCEPT !.singles = MergeSummary(@, One(rep, identity))]
    ELSE IF identity \in bag.identities THEN bag
    ELSE [bag EXCEPT !.identities = @ \union {identity},
                     !.shared = MergeSummary(@, One(rep, identity))]

\* Mutant: the sums of the files with several links are added as they stand.
MergeAdding(rep, bag, other) ==
    [identities |-> bag.identities \union other.identities,
     singles |-> MergeSummary(bag.singles, other.singles),
     shared |-> MergeSummary(bag.shared, other.shared)]

\* IdentityBag::merge: the smaller set of remembered identities goes into the larger.
Merge(rep, bag, other) ==
    LET swap  == Cardinality(bag.identities) < Cardinality(other.identities)
        large == IF swap THEN other ELSE bag
        small == IF swap THEN bag ELSE other
        sums  == [large EXCEPT !.singles = MergeSummary(@, small.singles)]
    IN FoldSet(LAMBDA identity, acc : Insert(rep, acc, identity), sums, small.identities)

SummaryOf(bag) == MergeSummary(bag.singles, bag.shared)

Overflows(bag) == SummaryOf(bag).known > MaxBytes

(***************************************************************************)
(* Orders.                                                                 *)
(***************************************************************************)
\* size_at: a directory of which nothing is known has no size.
SizeAt(path) ==
    IF Kind(report, path) = "file" THEN report.entries[path].logical
    ELSE IF Kind(report, path) # "directory" THEN Unknown
    ELSE LET summary == summaries[path] IN
         IF \/ summary.known = 0 /\ summary.unknown > 0
            \/ ~summary.complete /\ summary.files = 0
         THEN Unknown ELSE summary.known

\* Largest first, unknown last, then by name.
Before(a, b) ==
    \/ SizeAt(a) > SizeAt(b)
    \/ SizeAt(a) = SizeAt(b) /\ report.entries[a].rank <= report.entries[b].rank

\* Two sorted runs merged, the left one first among equals.
RECURSIVE MergeRuns(_, _)
MergeRuns(a, b) ==
    IF a = << >> THEN b
    ELSE IF b = << >> THEN a
    ELSE IF Before(Head(a), Head(b)) THEN <<Head(a)>> \o MergeRuns(Tail(a), b)
    ELSE <<Head(b)>> \o MergeRuns(a, Tail(b))

\* One pass over the ids: neighbouring runs of the given width become one.
RECURSIVE Pass(_, _)
Pass(ids, width) ==
    IF Len(ids) <= width THEN ids
    ELSE LET end == IF 2 * width < Len(ids) THEN 2 * width ELSE Len(ids) IN
         MergeRuns(SubSeq(ids, 1, width), SubSeq(ids, width + 1, end))
            \o Pass(SubSeq(ids, end + 1, Len(ids)), width)

\* The merge passes, the width doubling until one run is left.
RECURSIVE Passes(_, _)
Passes(ids, width) == IF width >= Len(ids) THEN ids ELSE Passes(Pass(ids, width), 2 * width)

SortChunk(ids) == SortSeq(ids, LAMBDA a, b : Before(a, b))

\* cancellable_sort: every chunk is sorted, then merged.
RECURSIVE SortChunks(_)
SortChunks(ids) ==
    IF Len(ids) <= Chunk THEN SortChunk(ids)
    ELSE SortChunk(SubSeq(ids, 1, Chunk)) \o SortChunks(SubSeq(ids, Chunk + 1, Len(ids)))

Sorted(ids) == Passes(SortChunks(ids), Chunk)

(***************************************************************************)
(* Building.                                                               *)
(***************************************************************************)
Init ==
    /\ pc = "idle"
    /\ report \in Reports
    /\ left = {}
    /\ bags = << >>
    /\ summaries = << >>
    /\ dataless = {}
    /\ orders = << >>
    /\ cancelled = FALSE

\* Limits, paths, parents and roots are checked before anything is summed.
Begin ==
    /\ pc = "idle"
    /\ ~cancelled
    /\ IF Refused(report)
       THEN pc' = "failed" /\ UNCHANGED <<left, bags, dataless>>
       ELSE /\ pc' = "account"
            /\ left' = Paths(report)
            /\ bags' = [path \in Directories(report) |-> NoFiles]
            /\ dataless' = {path \in Paths(report) : report.entries[path].dataless}
    /\ UNCHANGED <<report, summaries, orders, cancelled>>

\* What the path adds to the bag of its parent.
Added(path) ==
    LET bag == bags[Parent(report, path)] IN
    CASE Kind(report, path) = "file"      -> Insert(report, bag, Identity(report, path))
      [] Kind(report, path) = "directory" -> Merge(report, bag, bags[path])
      [] OTHER                            -> bag

\* A path is accounted for after everything below it; siblings come in any order.
Account(path) ==
    /\ pc = "account"
    /\ ~cancelled
    /\ path \in left
    /\ Children(report, path) \intersect left = {}
    /\ left' = left \ {path}
    /\ LET parent == Parent(report, path)
           isDir  == Kind(report, path) = "directory"
           sum    == SummaryOf(bags[path])
           covered == Covered(report, path)
       IN /\ dataless' = IF path \in dataless /\ parent # << >> THEN dataless \union {parent} ELSE dataless
          /\ summaries' = IF ~isDir THEN summaries
                          ELSE (path :> [private |-> IF covered THEN sum.private ELSE Unknown,
                                         files |-> sum.files, known |-> sum.known,
                                         unknown |-> sum.unknown, complete |-> covered]) @@ summaries
          /\ bags' = IF parent = << >> THEN bags ELSE [bags EXCEPT ![parent] = Added(path)]
          /\ pc' = IF parent # << >> /\ Overflows(Added(path)) THEN "failed"
                   ELSE IF left = {path} THEN "order" ELSE "account"
    /\ UNCHANGED <<report, orders, cancelled>>

\* The children of every directory are put in order, whatever order the table gave them in.
Order ==
    /\ pc = "order"
    /\ ~cancelled
    /\ \E reversed \in BOOLEAN :
         orders' = [path \in Directories(report) |->
                      LET ids == SetToSeq(Children(report, path)) IN
                      Sorted(IF reversed THEN Reverse(ids) ELSE ids)]
    /\ pc' = "built"
    /\ UNCHANGED <<report, left, bags, summaries, dataless, cancelled>>

\* The host asks for the work to stop.
Cancel ==
    /\ pc \notin {"built", "failed"}
    /\ ~cancelled
    /\ cancelled' = TRUE
    /\ UNCHANGED <<pc, report, left, bags, summaries, dataless, orders>>

\* check_cancelled, at the next step.
Abandon ==
    /\ pc \notin {"built", "failed"}
    /\ cancelled
    /\ pc' = "failed"
    /\ UNCHANGED <<report, left, bags, summaries, dataless, orders, cancelled>>

AllPaths == UNION {Paths(rep) : rep \in Reports}

Next ==
    \/ Begin
    \/ \E path \in AllPaths : Account(path)
    \/ Order
    \/ Cancel
    \/ Abandon

Spec == Init /\ [][Next]_vars

(***************************************************************************)
(* Properties.                                                             *)
(***************************************************************************)
FilesBelow(dir) == {path \in Files(report) : IsPrefix(dir, path)}
IdentitiesBelow(dir) == {Identity(report, path) : path \in FilesBelow(dir)}
SizesBelow(dir) == [identity \in IdentitiesBelow(dir) |-> Logical(report, identity)]

\* Every directory's summary is what its files are, counted once each: a file with several
\* links is one file in every directory that holds a link, and in their common parent, in
\* whatever order siblings were merged (index.rs:620-668, smaller bag into larger); the
\* not-materialised mark reaches every directory above such an entry; and the private size
\* is given only when all of it is known.
IndexIsExact ==
    pc = "built" =>
        \A dir \in Directories(report) :
            LET sizes == SizesBelow(dir)
                known == {identity \in DOMAIN sizes : sizes[identity] # Unknown}
                summary == summaries[dir]
            IN /\ summary.files = Cardinality(IdentitiesBelow(dir))
               /\ summary.known = MapThenSumSet(LAMBDA identity : sizes[identity], known)
               /\ summary.unknown = Cardinality(DOMAIN sizes \ known)
               /\ summary.private # Unknown =>
                    summary.private = MapThenSumSet(LAMBDA identity : Private(report, identity), DOMAIN sizes)
               /\ dir \in dataless <=> \E path \in Paths(report) :
                    IsPrefix(dir, path) /\ report.entries[path].dataless

\* A directory is called complete only when nothing below it can be missing: no gap of the
\* scan lies at or below it, no gap is unbounded (a budget, an internal failure, a gap at a
\* file), no issue was left out of the report, and every requested root is accounted for
\* (index.rs:172-225).
CompleteHasNoGap ==
    pc = "built" =>
        \A dir \in Directories(report) :
            summaries[dir].complete =>
                /\ report.omitted = 0
                /\ \A issue \in Gaps(report) : ~IsPrefix(dir, issue.path) /\ issue.code # "budget"
                /\ \A root \in report.roots \ Paths(report) :
                     \E issue \in report.issues : issue.path = root /\ ~IsGap(issue)

\* Siblings are shown once each, largest first, whatever order the hash table gave them in:
\* the chunked sort and its merge passes agree with the order they are given
\* (index.rs:525-556).
SiblingsAreSorted ==
    pc = "built" =>
        \A dir \in Directories(report) :
            /\ ToSet(orders[dir]) = Children(report, dir)
            /\ IsInjective(orders[dir])
            /\ \A j, k \in DOMAIN orders[dir] : j < k => Before(orders[dir][j], orders[dir][k])

==============================================================================
