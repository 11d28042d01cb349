---------------------------------- MODULE MCTrash ----------------------------------
(***************************************************************************)
(* The ways to the Trash, each alone: the native boundary that moves one   *)
(* object, the request to empty the Trash, the commands that move a batch  *)
(* and the purge host that moves what a preview offered.                   *)
(*                                                                         *)
(* As in MCInspection the initial state picks the component that runs.     *)
(* The inputs of the components are constants; the definitions below are   *)
(* the values the run gives to some of them, TrashProofs assumes nothing   *)
(* of them but InputsAreSound.                                             *)
(***************************************************************************)
EXTENDS Integers, Sequences, FiniteSets, SequencesExt, FiniteSetsExt

(* Two items under every command, for TrashSessions.                       *)

SessionCase(k, h, gate, order, excluded, bad, signed) ==
  [kind |-> k, host |-> h, gate |-> gate, order |-> order, excluded |-> excluded,
   bad |-> [x \in {"a", "b"} |-> IF x = "a" THEN bad ELSE {}], signed |-> signed]

SessionBoth == <<"a", "b">>
SessionTerminal == {"trash", "rule", "clean", "installer"}
SessionPlain ==
  {SessionCase(k, "terminal", "none", SessionBoth, e, {}, {}) : k \in SessionTerminal, e \in {{}, {"a"}}}
    \cup {SessionCase("projects", "terminal", "none", SessionBoth, {}, {}, s) : s \in {{"a"}}}
    \cup {SessionCase("projects", "library", "none", <<"a">>, {}, {}, s) : s \in {{}, {"a"}}}
    \cup {SessionCase("bundle", "terminal", "none", <<"a">>, {}, {}, {})}
    \cup {SessionCase(k, "library", "none", SessionBoth, e, {}, {}) : k \in {"caches", "finder"}, e \in {{}, {"b"}}}
SessionGates ==
  {SessionCase("caches", "library", "overlap", <<"a">>, {}, {}, {})} \cup
  {SessionCase(k, "terminal", g, <<"a">>, {}, {}, {}) :
     k \in {"trash", "rule", "clean", "installer", "projects", "bundle"},
     g \in {"noTerminal", "incomplete", "attention", "empty", "unknownItem", "refusals"}}
SessionBad ==
  {SessionCase("trash", "terminal", "none", SessionBoth, {}, {"managed"}, {}),
   SessionCase("projects", "library", "none", SessionBoth, {}, {"managed"}, {}),
   SessionCase("installer", "terminal", "none", SessionBoth, {}, {"unselectable"}, {}),
   SessionCase("clean", "terminal", "none", SessionBoth, {}, {"undiscovered"}, {}),
   SessionCase("bundle", "terminal", "none", <<"a">>, {}, {"vendor"}, {})}
SessionCases == SessionPlain \cup SessionGates \cup SessionBad

(* Two items and two requests at a time, for PurgeHost.                    *)

PurgeItem(n) == [name |-> n, complete |-> TRUE, sized |-> TRUE, permitted |-> TRUE, idle |-> TRUE,
              excluded |-> FALSE, holdsState |-> FALSE]
PurgeCase(p, items, complete, bound, attention, root) ==
  [profile |-> p, items |-> items, complete |-> complete, bound |-> bound, attention |-> attention, root |-> root]
PurgeTwo == <<PurgeItem("a"), PurgeItem("b")>>
PurgeCases ==
  {PurgeCase(p, PurgeTwo, TRUE, b, FALSE, "plain") : p \in {"caches", "finder"}, b \in {TRUE}}
    \cup {PurgeCase("projects", PurgeTwo, TRUE, FALSE, FALSE, "plain")}
    \cup {PurgeCase(p, <<[PurgeItem("a") EXCEPT ![field] = ~@], PurgeItem("b")>>, TRUE, TRUE, FALSE, "plain") :
            p \in {"caches"}, field \in {"permitted", "excluded"}}
    \cup {PurgeCase("projects", <<[PurgeItem("a") EXCEPT ![field] = ~@]>>, TRUE, FALSE, FALSE, "plain") : field \in {"complete", "sized", "idle"}}
    \cup {PurgeCase("caches", <<[PurgeItem("a") EXCEPT !.holdsState = TRUE]>>, TRUE, FALSE, FALSE, "plain")}
    \cup {PurgeCase("projects", PurgeTwo, FALSE, FALSE, FALSE, "plain"), PurgeCase("projects", PurgeTwo, TRUE, TRUE, TRUE, "plain"),
          PurgeCase("caches", PurgeTwo, TRUE, TRUE, FALSE, "noPolicy"), PurgeCase("finder", PurgeTwo, TRUE, FALSE, FALSE, "package"),
          PurgeCase("worktrees", <<>>, TRUE, FALSE, FALSE, "plain")}

PurgeRequest(ids, p) ==
  [handle |-> 0, ids |-> ids, digest |-> "shown", approval |-> TRUE,
   token |-> [profile |-> p, count |-> Len(ids)], dir |-> "given"]
PurgeRequests ==
  {PurgeRequest(ids, p) : p \in {"projects", "caches", "finder"}, ids \in {<<1>>, <<2, 1>>}}
    \cup {PurgeRequest(ids, "caches") : ids \in {<<>>, <<1, 1>>, <<0>>}}
    \cup {[PurgeRequest(<<1>>, "finder") EXCEPT !.dir = "default"], [PurgeRequest(<<1>>, "finder") EXCEPT !.digest = "old"], [PurgeRequest(<<1>>, "finder") EXCEPT !.digest = "malformed"],
          [PurgeRequest(<<1>>, "finder") EXCEPT !.approval = FALSE], [PurgeRequest(<<1>>, "finder") EXCEPT !.handle = 1]}

CONSTANTS
  Objects, Target, Callers, MaxRaces,                            \* of NativeTrash
  Emptiers, Retained, MaxRecords,                                \* of EmptyTrash
  BatchItems, BatchCases, BatchChanges, BatchFaults,             \* of TrashSessions
  HostCases, HostRequests, HostWorkers, HostChanges, HostFaults  \* of PurgeHost

\* The sessions that empty the Trash are alike.
Alike == Permutations(Emptiers)

VARIABLES
  which,  \* the component that runs
  answer, attempted, calls, cancelled, candidate, case, changed, changes, data, disk, disturbed,
  evidence, exit, expected, expired, faults, file, fresh, holder, job, left, may, moved,
  outcome, pc, phase, places, policy, pos, preview, proof, races, record, registered, rejected,
  reply, restoreFailed, result, rows, run, running, sent, settled, stopped, task, trail, trash,
  trouble, where, witness

Native == INSTANCE NativeTrash
Empty == INSTANCE EmptyTrash WITH Sessions <- Emptiers, Items <- Retained
Sessions == INSTANCE TrashSessions WITH
  Items <- BatchItems, Cases <- BatchCases, MaxChanges <- BatchChanges, MaxFaults <- BatchFaults
Purge == INSTANCE PurgeHost WITH
  Cases <- HostCases, Requests <- HostRequests, Workers <- HostWorkers,
  MaxChanges <- HostChanges, MaxFaults <- HostFaults

\* What the components assume of their inputs.
ASSUME InputsAreSound ==
  /\ Native!NativeAssumption
  /\ Empty!SessionAssumption
  /\ Sessions!TrashSessionsAssumption
  /\ Purge!PurgeHostAssumption

vars ==
  <<which,
    answer, attempted, calls, cancelled, candidate, case, changed, changes, data, disk,
    disturbed, evidence, exit, expected, expired, faults, file, fresh, holder, job, left, may,
    moved, outcome, pc, phase, places, policy, pos, preview, proof, races, record, registered,
    rejected, reply, restoreFailed, result, rows, run, running, sent, settled, stopped, task,
    trail, trash, trouble, where, witness>>

\* The variables of the other components.
Off == "off"
Init ==
  \/ /\ which = "native" /\ Native!Init
     /\ candidate = Off /\ case = Off /\ changes = Off /\ disk = Off /\ exit = Off
     /\ expired = Off /\ faults = Off /\ file = Off /\ fresh = Off /\ holder = Off /\ job = Off
     /\ left = Off /\ may = Off /\ phase = Off /\ pos = Off /\ preview = Off /\ proof = Off
     /\ record = Off /\ registered = Off /\ rejected = Off /\ reply = Off /\ result = Off
     /\ rows = Off /\ run = Off /\ running = Off /\ sent = Off /\ settled = Off /\ stopped = Off
     /\ task = Off /\ trash = Off /\ trouble = Off /\ witness = Off
  \/ /\ which = "empty" /\ Empty!Init
     /\ answer = Off /\ attempted = Off /\ calls = Off /\ cancelled = Off /\ candidate = Off
     /\ case = Off /\ changed = Off /\ changes = Off /\ data = Off /\ disturbed = Off
     /\ evidence = Off /\ exit = Off /\ expected = Off /\ faults = Off /\ file = Off
     /\ fresh = Off /\ job = Off /\ moved = Off /\ outcome = Off /\ pc = Off /\ places = Off
     /\ policy = Off /\ pos = Off /\ preview = Off /\ proof = Off /\ races = Off
     /\ registered = Off /\ rejected = Off /\ restoreFailed = Off /\ result = Off /\ rows = Off
     /\ run = Off /\ stopped = Off /\ task = Off /\ trail = Off /\ trouble = Off /\ where = Off
     /\ witness = Off
  \/ /\ which = "sessions" /\ Sessions!Init
     /\ answer = Off /\ attempted = Off /\ calls = Off /\ changed = Off /\ data = Off
     /\ disk = Off /\ disturbed = Off /\ evidence = Off /\ expected = Off /\ holder = Off
     /\ job = Off /\ left = Off /\ may = Off /\ outcome = Off /\ phase = Off /\ places = Off
     /\ preview = Off /\ races = Off /\ record = Off /\ registered = Off /\ reply = Off
     /\ restoreFailed = Off /\ result = Off /\ run = Off /\ running = Off /\ sent = Off
     /\ settled = Off /\ task = Off /\ trail = Off /\ trash = Off /\ where = Off
  \/ /\ which = "purge" /\ Purge!Init
     /\ answer = Off /\ attempted = Off /\ calls = Off /\ cancelled = Off /\ candidate = Off
     /\ changed = Off /\ data = Off /\ disk = Off /\ disturbed = Off /\ evidence = Off
     /\ exit = Off /\ expected = Off /\ expired = Off /\ fresh = Off /\ holder = Off
     /\ left = Off /\ may = Off /\ outcome = Off /\ pc = Off /\ phase = Off /\ places = Off
     /\ pos = Off /\ proof = Off /\ races = Off /\ record = Off /\ rejected = Off /\ reply = Off
     /\ restoreFailed = Off /\ rows = Off /\ running = Off /\ sent = Off /\ settled = Off
     /\ stopped = Off /\ trail = Off /\ trash = Off /\ trouble = Off /\ where = Off
     /\ witness = Off

NativeIdle ==
  <<which, candidate, case, changes, disk, exit, expired, faults, file, fresh, holder, job,
  left, may, phase, pos, preview, proof, record, registered, rejected, reply, result, rows, run,
  running, sent, settled, stopped, task, trash, trouble, witness>>
EmptyIdle ==
  <<which, answer, attempted, calls, cancelled, candidate, case, changed, changes, data,
  disturbed, evidence, exit, expected, faults, file, fresh, job, moved, outcome, pc, places,
  policy, pos, preview, proof, races, registered, rejected, restoreFailed, result, rows, run,
  stopped, task, trail, trouble, where, witness>>
SessionsIdle ==
  <<which, answer, attempted, calls, changed, data, disk, disturbed, evidence, expected, holder,
  job, left, may, outcome, phase, places, preview, races, record, registered, reply,
  restoreFailed, result, run, running, sent, settled, task, trail, trash, where>>
PurgeIdle ==
  <<which, answer, attempted, calls, cancelled, candidate, changed, data, disk, disturbed,
  evidence, exit, expected, expired, fresh, holder, left, may, outcome, pc, phase, places, pos,
  proof, races, record, rejected, reply, restoreFailed, rows, running, sent, settled, stopped,
  trail, trash, trouble, where, witness>>

NativeTurn == which = "native" /\ UNCHANGED NativeIdle
EmptyTurn == which = "empty" /\ UNCHANGED EmptyIdle
SessionsTurn == which = "sessions" /\ UNCHANGED SessionsIdle
PurgeTurn == which = "purge" /\ UNCHANGED PurgeIdle

NativeStep == NativeTurn /\ Native!Next
EmptyStep == EmptyTurn /\ Empty!Next
SessionsStep == SessionsTurn /\ Sessions!Next
PurgeStep == PurgeTurn /\ Purge!Next

Next == NativeStep \/ EmptyStep \/ SessionsStep \/ PurgeStep

Spec == Init /\ [][Next]_vars

-----------------------------------------------------------------------------
(* Properties.  Each is a conjunction with one part for every component it  *)
(* concerns; the parts are stated in the components' modules.               *)

\* Only what was approved leaves its place: a replacement that took the path
\* before the native call is never reported as the approved object, a command
\* moves a batch only when the whole of it was approved and its guards held
\* at the call, and a purge host moves only what its preview offered.
OnlyTheApprovedIsMoved ==
  /\ which = "native" => Native!OnlyTheApprovedIsMoved
  /\ which = "sessions" => Sessions!MovedWasRight /\ Sessions!AllOrNothingApproved
  /\ which = "purge" => Purge!OnlyOfferedLeaves

\* One mutation at a time: one native call per request, one Finder event
\* between all sessions and each behind its durable guard, one execution of
\* a purge preview.
OneMutation ==
  /\ which = "native" => Native!OneMutation
  /\ which = "empty" => Empty!OneEventAtATime /\ Empty!EventIsGuarded
  /\ which = "purge" => Purge!LeavesOncePerPreview

\* What is reported is what happened: a native call that says nothing moved
\* moved nothing, the history of emptying says no more than was seen and its
\* outcome is never refused by its own validation, a command exits with 0
\* only when all was moved, and the reply of a purge host gives every item
\* its own outcome.
ReportsAreTrue ==
  /\ which = "native" => Native!DenialsAreHonest
  /\ which = "empty" => Empty!HistoryIsTrue /\ Empty!FinishAlwaysValidates
  /\ which = "sessions" => Sessions!ZeroMeansAllMoved
  /\ which = "purge" => Purge!ReplyNamesTheItem

\* No session asks Finder to empty the Trash while the history holds an
\* attempt whose outcome is not known.
NoEventOverAmbiguity == Empty!NoEventOverAmbiguity
=============================================================================
