-------------------------------- MODULE MCRemovals --------------------------------
(***************************************************************************)
(* The operations that remove something, and the policy and the records    *)
(* they go by, each alone: simulator and runtime sessions, uninstall, the  *)
(* leftovers batch, the browser, the clean policy and the validation of    *)
(* receipts.                                                               *)
(*                                                                         *)
(* As in MCInspection the initial state picks the component that runs.     *)
(* The inputs of the components are constants, but for those of the        *)
(* validation of receipts; the definitions below are the values the run    *)
(* gives to some of them, RemovalProofs assumes nothing of them but        *)
(* InputsAreSound.                                                         *)
(***************************************************************************)
EXTENDS Integers, Sequences, FiniteSets, SequencesExt, FiniteSetsExt

(* Three devices, two of them "a" watch pair, and the image all of them use; *)
(* one device is empty and has no data directory, one may appear later.      *)

ToolImageUsed == "a" :> "r" @@ "b" :> "r" @@ "c" :> "r"

ToolDevice(there, facts, data) ==
  [listed |-> there, id |-> "id", shutdown |-> TRUE, facts |-> facts, data |-> data]
ToolAll(there) ==
  [d \in {"a", "b", "c"} |-> ToolDevice(d # "c" \/ there,
     IF d = "c" THEN {"unavailable"} ELSE {}, IF d = "b" THEN "empty" ELSE "full")]

ToolCase(mode_, dev_, pairs_, order_) ==
  [mode |-> mode_, dev |-> dev_, pairs |-> pairs_, order |-> order_]

ToolChoices ==
  { ToolCase("delete", ToolAll(TRUE), {<<"a", "b">>}, <<"c", "a", "b">>),
    ToolCase("delete", ToolAll(TRUE), {<<"a", "b">>}, <<"a", "c">>),
    ToolCase("erase", ToolAll(TRUE), {}, <<"a", "b">>),
    ToolCase("runtime", ToolAll(FALSE), {<<"a", "b">>}, <<"r">>),
    ToolCase("runtime", ToolAll(TRUE), {}, <<"r">>) }

(* A bundle and two related items, for Uninstall.                            *)

BundleClean == [i \in {"x", "y"} |-> {}]
BundleHalf == [i \in {"x", "y"} |-> IF i = "y" THEN {"protected"} ELSE {}]
BundleOf(f, g, r, o) == [facts |-> f, gate |-> g, rules |-> r, order |-> o]
BundleChoices ==
  { BundleOf({}, TRUE, BundleClean, <<"x", "y">>), BundleOf({"root"}, TRUE, BundleClean, <<"x">>),
    BundleOf({}, TRUE, BundleHalf, <<"x", "y">>), BundleOf({"root"}, FALSE, BundleClean, <<"x">>),
    BundleOf({"vendor"}, FALSE, BundleClean, <<"x">>), BundleOf({"system", "running"}, FALSE, BundleClean, <<>>) }

(* Two items of one application and one of its helper, for Leftovers.      *)

OrphanPrefix == "app" :> {} @@ "helper" :> {"app"}

OrphanItem(id, rule, facts) == [id |-> id, rule |-> rule, facts |-> facts]
OrphanShapes(f, g) ==
  [x \in {"cache", "logs", "web"} |-> CASE x = "cache" -> OrphanItem("app", "caches", f)
                       [] x = "logs" -> OrphanItem("app", "logs", g)
                       [] OTHER -> OrphanItem("helper", "webkit", {})]

OrphanChoices ==
  {[items |-> OrphanShapes(f, g), gate |-> gate, order |-> order, trash |-> t] :
     f \in {{"appNamed"}, {"sensitive"}}, g \in {{}, {"appNamed"}, {"denied"}}, gate \in {TRUE},
     order \in {<<"cache">>, <<"cache", "logs">>, <<"logs", "cache">>, <<"web", "cache">>},
     t \in {{}, {"app"}, {"app", "helper"}}}
  \cup {[items |-> OrphanShapes({"excluded"}, {"unevidenced"}), gate |-> gate, order |-> <<"web">>, trash |-> {"helper"}] :
          gate \in BOOLEAN}
  \cup {[items |-> OrphanShapes({"uncapturable"}, {}), gate |-> TRUE, order |-> order, trash |-> {"app"}] :
            order \in {<<"logs">>, <<"logs", "logs">>}}

PolicyEntry(n) == [name |-> n, identity |-> "first"]
PolicyRecord(p, d, ns) == [path |-> p, dir |-> d, entries |-> {PolicyEntry(n) : n \in ns}]
PolicyFile(roots) == [state |-> "private", roots |-> roots]
PolicyFiles ==
  {[state |-> "absent", roots |-> {}], [state |-> "broken", roots |-> {}],
   PolicyFile({PolicyRecord("r", "i1", {"keep"})}),
   PolicyFile({PolicyRecord("r", "i1", {}), PolicyRecord("q", "i2", {"keep"})})}
PolicyPlaces == {[p \in {"r", "q"} |-> IF p = "r" THEN "i1" ELSE x] : x \in {"gone", "i2"}}
PolicyRequests ==
  {[op |-> "add", root |-> "r", entries |-> {"other"}], [op |-> "add", root |-> "q", entries |-> {"keep"}],
   [op |-> "add", root |-> "r", entries |-> {"outside"}], [op |-> "remove", root |-> "r", entries |-> {"keep"}],
   [op |-> "removeRoot", root |-> "q", entries |-> {}]}
PolicyCleaners ==
  {[kind |-> "root", root |-> "r", item |-> "keep/file", updaters |-> {"u1"}, events |-> 1], [kind |-> "all", root |-> "r", item |-> "other", updaters |-> {"u1"}, events |-> 1],
   [kind |-> "nobody", root |-> "r", item |-> "keep/file", updaters |-> {"u1", "u2"}, events |-> 1]}
PolicySwaps ==
  {[dir |-> "i1", name |-> n, held |-> h] : n \in {"keep", "other"}, h \in {"second", "missing"}}
    \cup {[dir |-> "i1", name |-> "other", held |-> h] : h \in {"hard", "odd"}}
PolicyOverlaps == {<<"keep/file", "keep">>, <<"other", "other">>}

(***************************************************************************)
(* One generated Python file two folders down, two class files, one folder *)
(* for each; exclusions inside the root, at a selected file, outside the   *)
(* root and given twice.                                                   *)
(***************************************************************************)

SchemaRoot == <<"r">>
SchemaHome == <<"h">>
SchemaPyc == <<"r", "__pycache__", "m.pyc">>
SchemaClassA == <<"r", "a", "m.class">>
SchemaClassB == <<"r", "m.class">>
SchemaTargets == [pyc |-> {SchemaPyc}, class |-> {SchemaClassA, SchemaClassB}]
SchemaSourceName == "m.pyc" :> "m.py" @@ "m.class" :> "m.java"
SchemaExcludable == {<< >>, <<SchemaClassA>>, <<<<"r", "b">>>>, <<<<"x">>>>, <<<<"r", "b">>, <<"r", "b">>>>}
SchemaOthers == {<<"r", "f">>, <<"r", "g">>}
SchemaPaths == << <<"r">>, <<"r", "__pycache__">>, SchemaPyc, <<"r", "m.py">>, <<"r", "a">>, SchemaClassA,
            <<"r", "a", "m.java">>, SchemaClassB, <<"r", "m.java">>, <<"r", "f">>, <<"r", "g">> >>
SchemaInodeOf == [path \in ToSet(SchemaPaths) |-> CHOOSE k \in DOMAIN SchemaPaths : SchemaPaths[k] = path]

\* Two files, one of them in the only directory.
BrowserInside == [d \in {"d"} |-> {"g"}]

CONSTANTS
  ToolDevices, ToolImages, ToolImageOf, ToolCases, ToolBatch, ToolFaults, ToolMoves,  \* of ToolSession
  BundleItems, BundleCases, BundleFaults, BundleMoves,                                \* of Uninstall
  OrphanIds, OrphanParent, OrphanItems, OrphanCases, OrphanSources, OrphanFaults, OrphanMoves,  \* of Leftovers
  PolicyUpdaters, PolicyAsked, PolicyCleaning, PolicyNames, PolicyInside, PolicyWritten, PolicyAt,
  PolicyHeld, PolicyMaxRoots, PolicyMaxEntries, PolicyMaxBytes,                       \* of CleanPolicy
  BrowserFiles, BrowserDirs, BrowserBelow, BrowserMaxSelected, BrowserLines,
  BrowserScans, BrowserPlans, BrowserFaults                                           \* of Browser

VARIABLES
  which,  \* the component that runs
  absent, activity, admin, agents, agreed, app, asked, at, before, begun, bundle, cancel, case,
  child, childErr, clean, closed, code, consumed, copies, copy, damaged, dChild, dev, dir, disk,
  dParent, dRec, durable, end, events, expired, facts, failed, faults, file, fresh, hit, img,
  inForce, inside, item, jerr, job, journalError, latch, late, lock, look, made, moved, moves,
  offered, owed, pairs, parent, parentErr, pc, phase, place, plan, plans, policy, rec, recent,
  refused, related, report, result, row, rows, running, seen, seenAgents, seenTrash, sel,
  session, shown, stage, step, stop, stopped, swap, todo, tool, trash, unseen, up

Tools == INSTANCE ToolSession WITH
  Devices <- ToolDevices, Images <- ToolImages, ImageOf <- ToolImageOf, Cases <- ToolCases,
  MaxBatch <- ToolBatch, MaxFaults <- ToolFaults, MaxMoves <- ToolMoves
Bundle == INSTANCE Uninstall WITH
  Items <- BundleItems, Cases <- BundleCases, MaxFaults <- BundleFaults, MaxMoves <- BundleMoves
Orphans == INSTANCE Leftovers WITH
  Ids <- OrphanIds, Parent <- OrphanParent, Items <- OrphanItems, Cases <- OrphanCases, Sources
  <- OrphanSources, MaxFaults <- OrphanFaults, MaxMoves <- OrphanMoves
Policy == INSTANCE CleanPolicy WITH
  Updaters <- PolicyUpdaters, Requests <- PolicyAsked, Cleaners <- PolicyCleaning, Names <-
  PolicyNames, Overlaps <- PolicyInside, Files <- PolicyWritten, Places <- PolicyAt,
  MaxRoots <- PolicyMaxRoots, MaxEntries <- PolicyMaxEntries, MaxBytes <- PolicyMaxBytes,
  Swaps <- PolicyHeld
Schema == INSTANCE JournalSchema WITH
  Root <- SchemaRoot, Home <- SchemaHome, Targets <- SchemaTargets, Others <- SchemaOthers,
  Excludable <- SchemaExcludable, SourceName <- SchemaSourceName, InodeOf <- SchemaInodeOf,
  MaxItems <- 2
Browse == INSTANCE Browser WITH
  Files <- BrowserFiles, Dirs <- BrowserDirs, Inside <- BrowserBelow, MaxSelected <-
  BrowserMaxSelected, Lines <- BrowserLines, MaxScans <- BrowserScans, MaxPlans <- BrowserPlans,
  MaxFaults <- BrowserFaults

\* What the components assume of their inputs.
ASSUME InputsAreSound ==
  /\ Tools!ToolAssumption
  /\ Bundle!UninstallAssumption
  /\ Orphans!LeftoversAssumption
  /\ Policy!PolicyAssumption
  /\ Browse!BrowserAssumption

vars ==
  <<which,
    absent, activity, admin, agents, agreed, app, asked, at, before, begun, bundle, cancel,
    case, child, childErr, clean, closed, code, consumed, copies, copy, damaged, dChild, dev,
    dir, disk, dParent, dRec, durable, end, events, expired, facts, failed, faults, file, fresh,
    hit, img, inForce, inside, item, jerr, job, journalError, latch, late, lock, look, made,
    moved, moves, offered, owed, pairs, parent, parentErr, pc, phase, place, plan, plans,
    policy, rec, recent, refused, related, report, result, row, rows, running, seen, seenAgents,
    seenTrash, sel, session, shown, stage, step, stop, stopped, swap, todo, tool, trash, unseen,
    up>>

\* The variables of the other components.
Off == "off"
Init ==
  \/ /\ which = "tools" /\ Tools!Init
     /\ admin = Off /\ agents = Off /\ agreed = Off /\ app = Off /\ asked = Off /\ at = Off
     /\ begun = Off /\ bundle = Off /\ child = Off /\ childErr = Off /\ clean = Off
     /\ code = Off /\ copies = Off /\ copy = Off /\ damaged = Off /\ dChild = Off /\ dir = Off
     /\ disk = Off /\ dParent = Off /\ dRec = Off /\ events = Off /\ facts = Off /\ failed = Off
     /\ file = Off /\ fresh = Off /\ inForce = Off /\ inside = Off /\ item = Off /\ jerr = Off
     /\ job = Off /\ latch = Off /\ lock = Off /\ look = Off /\ moved = Off /\ offered = Off
     /\ owed = Off /\ parent = Off /\ parentErr = Off /\ phase = Off /\ place = Off
     /\ plans = Off /\ policy = Off /\ rec = Off /\ recent = Off /\ refused = Off
     /\ related = Off /\ report = Off /\ result = Off /\ row = Off /\ running = Off
     /\ seenAgents = Off /\ seenTrash = Off /\ sel = Off /\ session = Off /\ shown = Off
     /\ stage = Off /\ step = Off /\ stopped = Off /\ swap = Off /\ todo = Off /\ trash = Off
     /\ unseen = Off /\ up = Off
  \/ /\ which = "bundle" /\ Bundle!Init
     /\ absent = Off /\ activity = Off /\ agents = Off /\ agreed = Off /\ app = Off /\ at = Off
     /\ before = Off /\ clean = Off /\ code = Off /\ consumed = Off /\ copies = Off
     /\ damaged = Off /\ dev = Off /\ dir = Off /\ disk = Off /\ dRec = Off /\ durable = Off
     /\ end = Off /\ events = Off /\ failed = Off /\ file = Off /\ fresh = Off /\ hit = Off
     /\ img = Off /\ inForce = Off /\ inside = Off /\ jerr = Off /\ job = Off
     /\ journalError = Off /\ latch = Off /\ lock = Off /\ look = Off /\ made = Off
     /\ moved = Off /\ owed = Off /\ pairs = Off /\ phase = Off /\ place = Off /\ plan = Off
     /\ plans = Off /\ rec = Off /\ recent = Off /\ report = Off /\ row = Off /\ rows = Off
     /\ running = Off /\ seen = Off /\ seenAgents = Off /\ seenTrash = Off /\ sel = Off
     /\ shown = Off /\ stage = Off /\ step = Off /\ stop = Off /\ stopped = Off /\ tool = Off
     /\ trash = Off /\ unseen = Off /\ up = Off
  \/ /\ which = "orphans" /\ Orphans!Init
     /\ absent = Off /\ activity = Off /\ admin = Off /\ agreed = Off /\ app = Off
     /\ asked = Off /\ at = Off /\ before = Off /\ begun = Off /\ bundle = Off /\ child = Off
     /\ childErr = Off /\ clean = Off /\ code = Off /\ consumed = Off /\ copy = Off
     /\ damaged = Off /\ dChild = Off /\ dev = Off /\ dir = Off /\ disk = Off /\ dParent = Off
     /\ durable = Off /\ end = Off /\ events = Off /\ facts = Off /\ failed = Off /\ file = Off
     /\ fresh = Off /\ hit = Off /\ img = Off /\ inForce = Off /\ inside = Off /\ job = Off
     /\ journalError = Off /\ late = Off /\ lock = Off /\ look = Off /\ made = Off /\ owed = Off
     /\ pairs = Off /\ parent = Off /\ parentErr = Off /\ phase = Off /\ plan = Off
     /\ plans = Off /\ refused = Off /\ related = Off /\ report = Off /\ row = Off /\ rows = Off
     /\ seen = Off /\ session = Off /\ shown = Off /\ stage = Off /\ step = Off /\ stop = Off
     /\ stopped = Off /\ swap = Off /\ tool = Off /\ unseen = Off /\ up = Off
  \/ /\ which = "policy" /\ Policy!Init
     /\ absent = Off /\ activity = Off /\ admin = Off /\ agents = Off /\ agreed = Off
     /\ app = Off /\ asked = Off /\ before = Off /\ begun = Off /\ bundle = Off /\ cancel = Off
     /\ case = Off /\ child = Off /\ childErr = Off /\ closed = Off /\ code = Off
     /\ consumed = Off /\ copies = Off /\ copy = Off /\ damaged = Off /\ dChild = Off
     /\ dev = Off /\ disk = Off /\ dParent = Off /\ dRec = Off /\ durable = Off /\ end = Off
     /\ expired = Off /\ facts = Off /\ failed = Off /\ faults = Off /\ hit = Off /\ img = Off
     /\ item = Off /\ jerr = Off /\ journalError = Off /\ latch = Off /\ late = Off
     /\ made = Off /\ moves = Off /\ offered = Off /\ pairs = Off /\ parent = Off
     /\ parentErr = Off /\ pc = Off /\ place = Off /\ plan = Off /\ plans = Off /\ policy = Off
     /\ rec = Off /\ recent = Off /\ refused = Off /\ related = Off /\ report = Off
     /\ result = Off /\ row = Off /\ rows = Off /\ running = Off /\ seen = Off
     /\ seenAgents = Off /\ seenTrash = Off /\ sel = Off /\ session = Off /\ stop = Off
     /\ stopped = Off /\ swap = Off /\ todo = Off /\ tool = Off /\ trash = Off /\ unseen = Off
  \/ /\ which = "schema" /\ Schema!Init
     /\ absent = Off /\ activity = Off /\ admin = Off /\ agents = Off /\ agreed = Off
     /\ app = Off /\ asked = Off /\ at = Off /\ before = Off /\ begun = Off /\ bundle = Off
     /\ cancel = Off /\ case = Off /\ child = Off /\ childErr = Off /\ clean = Off
     /\ closed = Off /\ code = Off /\ consumed = Off /\ copies = Off /\ copy = Off
     /\ dChild = Off /\ dev = Off /\ dir = Off /\ dParent = Off /\ dRec = Off /\ durable = Off
     /\ end = Off /\ events = Off /\ expired = Off /\ facts = Off /\ failed = Off
     /\ faults = Off /\ file = Off /\ fresh = Off /\ hit = Off /\ img = Off /\ inForce = Off
     /\ inside = Off /\ item = Off /\ jerr = Off /\ job = Off /\ journalError = Off
     /\ latch = Off /\ late = Off /\ lock = Off /\ look = Off /\ made = Off /\ moves = Off
     /\ offered = Off /\ owed = Off /\ pairs = Off /\ parent = Off /\ parentErr = Off
     /\ phase = Off /\ place = Off /\ plan = Off /\ plans = Off /\ policy = Off /\ rec = Off
     /\ recent = Off /\ refused = Off /\ related = Off /\ result = Off /\ rows = Off
     /\ running = Off /\ seen = Off /\ seenAgents = Off /\ seenTrash = Off /\ sel = Off
     /\ session = Off /\ stage = Off /\ step = Off /\ stop = Off /\ swap = Off /\ todo = Off
     /\ tool = Off /\ trash = Off /\ unseen = Off /\ up = Off
  \/ /\ which = "browser" /\ Browse!Init
     /\ absent = Off /\ activity = Off /\ admin = Off /\ agents = Off /\ asked = Off /\ at = Off
     /\ before = Off /\ begun = Off /\ bundle = Off /\ cancel = Off /\ case = Off /\ child = Off
     /\ childErr = Off /\ clean = Off /\ closed = Off /\ consumed = Off /\ copies = Off
     /\ copy = Off /\ damaged = Off /\ dChild = Off /\ dev = Off /\ dir = Off /\ dParent = Off
     /\ dRec = Off /\ durable = Off /\ end = Off /\ events = Off /\ expired = Off /\ facts = Off
     /\ file = Off /\ fresh = Off /\ hit = Off /\ img = Off /\ inForce = Off /\ inside = Off
     /\ item = Off /\ jerr = Off /\ journalError = Off /\ latch = Off /\ late = Off
     /\ lock = Off /\ look = Off /\ made = Off /\ moves = Off /\ offered = Off /\ owed = Off
     /\ pairs = Off /\ parent = Off /\ parentErr = Off /\ pc = Off /\ phase = Off /\ place = Off
     /\ plan = Off /\ policy = Off /\ rec = Off /\ recent = Off /\ refused = Off
     /\ related = Off /\ report = Off /\ result = Off /\ row = Off /\ rows = Off
     /\ running = Off /\ seen = Off /\ seenAgents = Off /\ seenTrash = Off /\ sel = Off
     /\ session = Off /\ shown = Off /\ step = Off /\ stop = Off /\ stopped = Off /\ swap = Off
     /\ todo = Off /\ tool = Off /\ trash = Off /\ up = Off

ToolsIdle ==
  <<which, admin, agents, agreed, app, asked, at, begun, bundle, child, childErr, clean, code,
  copies, copy, damaged, dChild, dir, disk, dParent, dRec, events, facts, failed, file, fresh,
  inForce, inside, item, jerr, job, latch, lock, look, moved, offered, owed, parent, parentErr,
  phase, place, plans, policy, rec, recent, refused, related, report, result, row, running,
  seenAgents, seenTrash, sel, session, shown, stage, step, stopped, swap, todo, trash, unseen,
  up>>
BundleIdle ==
  <<which, absent, activity, agents, agreed, app, at, before, clean, code, consumed, copies,
  damaged, dev, dir, disk, dRec, durable, end, events, failed, file, fresh, hit, img, inForce,
  inside, jerr, job, journalError, latch, lock, look, made, moved, owed, pairs, phase, place,
  plan, plans, rec, recent, report, row, rows, running, seen, seenAgents, seenTrash, sel, shown,
  stage, step, stop, stopped, tool, trash, unseen, up>>
OrphansIdle ==
  <<which, absent, activity, admin, agreed, app, asked, at, before, begun, bundle, child,
  childErr, clean, code, consumed, copy, damaged, dChild, dev, dir, disk, dParent, durable, end,
  events, facts, failed, file, fresh, hit, img, inForce, inside, job, journalError, late, lock,
  look, made, owed, pairs, parent, parentErr, phase, plan, plans, refused, related, report, row,
  rows, seen, session, shown, stage, step, stop, stopped, swap, tool, unseen, up>>
PolicyIdle ==
  <<which, absent, activity, admin, agents, agreed, app, asked, before, begun, bundle, cancel,
  case, child, childErr, closed, code, consumed, copies, copy, damaged, dChild, dev, disk,
  dParent, dRec, durable, end, expired, facts, failed, faults, hit, img, item, jerr,
  journalError, latch, late, made, moves, offered, pairs, parent, parentErr, pc, place, plan,
  plans, policy, rec, recent, refused, related, report, result, row, rows, running, seen,
  seenAgents, seenTrash, sel, session, stop, stopped, swap, todo, tool, trash, unseen>>
SchemaIdle ==
  <<which, absent, activity, admin, agents, agreed, app, asked, at, before, begun, bundle,
  cancel, case, child, childErr, clean, closed, code, consumed, copies, copy, dChild, dev, dir,
  dParent, dRec, durable, end, events, expired, facts, failed, faults, file, fresh, hit, img,
  inForce, inside, item, jerr, job, journalError, latch, late, lock, look, made, moves, offered,
  owed, pairs, parent, parentErr, phase, place, plan, plans, policy, rec, recent, refused,
  related, result, rows, running, seen, seenAgents, seenTrash, sel, session, stage, step, stop,
  swap, todo, tool, trash, unseen, up>>
BrowseIdle ==
  <<which, absent, activity, admin, agents, asked, at, before, begun, bundle, cancel, case,
  child, childErr, clean, closed, consumed, copies, copy, damaged, dChild, dev, dir, dParent,
  dRec, durable, end, events, expired, facts, file, fresh, hit, img, inForce, inside, item,
  jerr, journalError, latch, late, lock, look, made, moves, offered, owed, pairs, parent,
  parentErr, pc, phase, place, plan, policy, rec, recent, refused, related, report, result, row,
  rows, running, seen, seenAgents, seenTrash, sel, session, shown, step, stop, stopped, swap,
  todo, tool, trash, up>>

ToolsTurn == which = "tools" /\ UNCHANGED ToolsIdle
BundleTurn == which = "bundle" /\ UNCHANGED BundleIdle
OrphansTurn == which = "orphans" /\ UNCHANGED OrphansIdle
PolicyTurn == which = "policy" /\ UNCHANGED PolicyIdle
SchemaTurn == which = "schema" /\ UNCHANGED SchemaIdle
BrowseTurn == which = "browser" /\ UNCHANGED BrowseIdle

ToolsStep == ToolsTurn /\ Tools!Next
BundleStep == BundleTurn /\ Bundle!Next
OrphansStep == OrphansTurn /\ Orphans!Next
PolicyStep == PolicyTurn /\ Policy!Next
SchemaStep == SchemaTurn /\ Schema!Next
BrowseStep == BrowseTurn /\ Browse!Next

Next == ToolsStep \/ BundleStep \/ OrphansStep \/ PolicyStep \/ SchemaStep \/ BrowseStep

Spec == Init /\ [][Next]_vars

-----------------------------------------------------------------------------
(* Properties.  Each is a conjunction with one part for every component it  *)
(* concerns; the parts are stated in the components' modules.               *)

\* The receipts of a simulator, uninstall or leftovers session neither claim
\* what did not happen nor deny what did: when simctl's service finishes a call
\* late, when the process dies between two linked records, when a call or a
\* publication fails.  Left out is one case, in which the receipt of an
\* administrator's uninstall denies the move: Finder gave an error or no answer
\* and moves the bundle after the receipt has said failed.  The
\* browser shows the report of every execution before it forgets it.
ReceiptsAreTrueSaveLateMoves ==
  /\ which = "tools" => Tools!ToolReceiptIsTrue
  /\ which = "bundle" => Bundle!LinkedReceiptsAreTrueSaveLateMoves
  /\ which = "orphans" => Orphans!LeftoverReceiptIsTrue
  /\ which = "browser" => Browse!OutcomeIsShown

\* Moving an item is not taken for interference: a batch of leftovers that
\* nobody disturbs moves everything it was approved for.
QuietBatchCompletes == which = "orphans" => Orphans!QuietBatchCompletes

\* Two processes that change the exclusions never overwrite one another, and
\* what they publish is a policy the next reader accepts.
PolicyIsKept ==
  which = "policy" => Policy!NoUpdateIsLost /\ Policy!PublishedIsValid

\* An effect happens under every guard that was in force: a simulator is
\* deleted only after its start is durable and while nothing is ambiguous,
\* an uninstall handle runs once whichever interface version asks, an
\* exclusion that was in force when the native call began protects, and the
\* browser moves only what a fully read and confirmed plan showed.
EffectsAreGuarded ==
  /\ which = "tools" => Tools!ToolCallsAreGuarded
  /\ which = "bundle" => Bundle!OneExecutionPerHandle
  /\ which = "policy" => Policy!ExclusionsAreHonoured
  /\ which = "browser" => Browse!MovedWasConfirmed

\* An outcome that came about can always be recorded: no effect is followed
\* by a record its own validation refuses.
NoOutcomeIsUnrecorded == which = "schema" => Schema!NoOutcomeIsUnrecorded

\* One damaged field of a receipt, when it goes unnoticed, changes neither the
\* kind of operation nor invents a move, and does not turn the recorded success
\* of a row that still names its object into a refusal.  Not every lie is ruled
\* out; what the validators let through is listed at the property.
OneFaultInventsNoMove == which = "schema" => Schema!OneFaultInventsNoMove
=============================================================================
