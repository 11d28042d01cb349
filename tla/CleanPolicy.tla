------------------------------ MODULE CleanPolicy ------------------------------
(***************************************************************************)
(* The persisted exclusions of `sayaka clean` (crates/engine/src/          *)
(* clean_policy.rs and clean_policy/macos.rs, `sayaka clean exclusions` of *)
(* crates/cli/src/clean.rs): processes that add and remove exclusions, a   *)
(* cleaning that reads them when it is previewed and again before each     *)
(* effect, and people who edit the file, rename the roots and replace what *)
(* is excluded meanwhile.                                                  *)
(*                                                                         *)
(* at[path] is the directory at a root path and inside[dir][name] what an  *)
(* excluded name holds; "hard" is the "first" file with a second link.     *)
(* A policy is a set of root records [path, dir, entries], an entry a      *)
(* [name, identity].                                                       *)
(***************************************************************************)
EXTENDS Naturals, FiniteSets, FiniteSetsExt

CONSTANTS
  Updaters, Requests,           \* the processes that update, what each may ask for
  Cleaners,                     \* [kind |-> "root", "all" or "nobody", root, item, updaters,
                                \* events (edits, renames and faults)]
  Names, Overlaps,              \* <<item, name>>: one lies inside the other
  Files,                        \* the policies at the start, and what an editor may write
  Places,                       \* where the directories may be at the start
  Swaps,                        \* [dir, name, held]: what a name may come to hold
  MaxRoots, MaxEntries, MaxBytes

VARIABLES
  at, inside,                   \* the directories and what they hold
  dir, file, stage, lock,       \* the configuration directory
  up, job,                      \* the updaters: step; request, policy read, policy to write, result
  clean, step, phase, look, shown, moved,   \* the cleaning; look: [stat, root, seen]
  owed, inForce,                \* history: entries that must be on file; exclusions of the last guard
  fresh, events

world == <<at, inside>>
config == <<dir, file, stage, lock>>
updating == <<up, job>>
cleaning == <<clean, step, phase, look, shown, moved, inForce>>
vars == <<world, config, updating, cleaning, owed, fresh, events>>

None == "none"
Error == "error"

\* What the instances of the module assume of its parameters.
PolicyAssumption ==
  /\ None \notin Updaters
  /\ \A r \in Requests : r.op \in {"add", "remove", "removeRoot"}

Paths == DOMAIN at
Event == events < clean.events /\ events' = events + 1

----------------------------------------------------------------------------
(* Policies.                                                               *)

Size(roots) == Cardinality(roots) + FoldSet(LAMBDA r, n : n + Cardinality(r.entries), 0, roots)

\* validate_policy, for the records alone: roots and entries are counted, and a
\* path, a directory or a name appears once.
ValidPolicy(roots) ==
  /\ Cardinality(roots) <= MaxRoots
  /\ \A r \in roots : Cardinality(r.entries) <= MaxEntries
  /\ \A r, s \in roots : (r.path = s.path \/ r.dir = s.dir) => r = s
  /\ \A r \in roots : \A x, y \in r.entries : x.name = y.name => x = y

IdentityOf(held) == IF held = "hard" THEN "first" ELSE held

\* inspect_anchored_entry: what the name holds, seen from the opened root.
Inspect(d, name) ==
  CASE inside[d][name] = "missing" -> "missing" [] inside[d][name] = "odd" -> "attention" [] OTHER -> "present"

\* evaluate_entries: an exclusion is effective while its name still holds what
\* was excluded, and needs attention otherwise.
Effective(r, d) == {e.name : e \in {x \in r.entries : Inspect(d, x.name) = "present" /\ IdentityOf(inside[d][x.name]) = x.identity}}
NeedsAttention(r, d) == {e.name : e \in r.entries} \ Effective(r, d)

\* load_policy_readonly: the file as it can be used, or as it cannot.
Absent == [state |-> "absent", ino |-> 0, stamp |-> 0, roots |-> {}, parent |-> IF dir = "absent" THEN "home" ELSE "config"]
Loaded ==
  CASE file.state = "absent" -> Absent
    [] file.state = "private" /\ Size(file.roots) <= MaxBytes ->
         [state |-> "present", ino |-> file.ino, stamp |-> file.stamp, roots |-> file.roots, parent |-> None]
    [] OTHER -> [Absent EXCEPT !.state = Error]

----------------------------------------------------------------------------
(* Updates.                                                                *)

Is(u, s) == up[u] = s
UGoto(u, s) == up' = [up EXCEPT ![u] = s]
Keep == UNCHANGED <<job, lock>>

NoPolicy == [state |-> None, ino |-> 0, stamp |-> 0, roots |-> {}, parent |-> None]
NoRequest == [op |-> None, root |-> None, entries |-> {}, dir |-> None]
NoJob == [asked |-> NoRequest, read |-> NoPolicy, next |-> {}, result |-> None]
Asked(u) == job[u].asked
Read(u) == job[u].read
NextRoots(u) == job[u].next

\* An update that fails gives up the lock; what it has staged stays.
Ends(u, outcome) ==
  /\ UGoto(u, "ended") /\ job' = [job EXCEPT ![u] = [NoJob EXCEPT !.result = outcome]]
  /\ lock' = IF lock = u THEN None ELSE lock

\* run_exclusions and the first lines of add_entries, remove_entries and
\* remove_root: adding needs a root that exists.
Ask(u) ==
  /\ Is(u, "idle") /\ u \in clean.updaters
  /\ \E r \in Requests :
       IF (r.entries = {} /\ r.op # "removeRoot") \/ (r.op = "add" /\ at[r.root] = "gone") \/ (r.op = "remove" /\ ~(r.entries \subseteq Names))
       THEN Ends(u, "refused")
       ELSE /\ job' = [job EXCEPT ![u].asked = [op |-> r.op, root |-> r.root, entries |-> r.entries, dir |-> at[r.root]]]
            /\ UGoto(u, "dir") /\ UNCHANGED lock
  /\ UNCHANGED <<world, dir, file, stage, cleaning, owed, fresh, events>>

\* ensure_private_config_dir: the directory is made, then closed to others.
EnsureDir(u) ==
  /\ Is(u, "dir")
  /\ \/ dir = "absent" /\ dir' = "loose" /\ UGoto(u, "chmod") /\ Keep
     \/ dir = "private" /\ UGoto(u, "lock") /\ UNCHANGED dir /\ Keep
     \/ dir = "loose" /\ Ends(u, "refused") /\ UNCHANGED dir
  /\ UNCHANGED <<world, file, stage, cleaning, owed, fresh, events>>

CloseDir(u) ==
  /\ Is(u, "chmod") /\ dir' = "private" /\ UGoto(u, "lock")
  /\ UNCHANGED <<world, file, stage, lock, job, cleaning, owed, fresh, events>>

\* acquire_lock: never waits.
AcquireLock(u) ==
  /\ Is(u, "lock")
  /\ IF lock = None THEN lock' = u /\ UGoto(u, "load") /\ UNCHANGED job ELSE Ends(u, "busy")
  /\ UNCHANGED <<world, dir, file, stage, cleaning, owed, fresh, events>>

Load(u) ==
  /\ Is(u, "load")
  /\ IF Loaded.state = Error THEN Ends(u, "refused")
     ELSE job' = [job EXCEPT ![u].read = Loaded] /\ UGoto(u, "update") /\ UNCHANGED lock
  /\ UNCHANGED <<world, dir, file, stage, cleaning, owed, fresh, events>>

\* ensure_root_record: the record follows its directory to a new path; a path
\* kept for another directory, or a directory with two records, is refused.
RootRecord(roots, r) == [path |-> r.root, dir |-> r.dir, entries |-> UNION {x.entries : x \in {y \in roots : y.dir = r.dir}}]
RecordRefused(roots, r) ==
  \/ \E x, y \in roots : x # y /\ x.dir = r.dir /\ y.dir = r.dir
  \/ (\A x \in roots : x.dir # r.dir) /\ \E x \in roots : x.path = r.root

\* normalize_entry_inside_root and the checks of add_entries: the root still
\* holds each name, as one file of one link or a directory.
EntryRefused(r, name) ==
  \/ name \notin Names \/ at[r.root] = "gone"
  \/ Inspect(at[r.root], name) # "present" \/ inside[at[r.root]][name] = "hard"

\* add_entries: a name that is already recorded keeps its old identity.
Added(rec, r) ==
  [rec EXCEPT !.entries = @ \cup {[name |-> n, identity |-> IdentityOf(inside[at[r.root]][n])] : n \in {m \in r.entries : \A e \in @ : e.name # m}}]

Updated(roots, r) ==
  CASE r.op = "add" ->
         {x \in roots : x.dir # r.dir} \cup {Added(RootRecord(roots, r), r)}
    [] r.op = "remove" ->
         {[path |-> x.path, dir |-> x.dir,
           entries |-> IF x.path = r.root THEN {e \in x.entries : e.name \notin r.entries} ELSE x.entries] : x \in roots}
    [] OTHER -> {x \in roots : x.path # r.root}
UpdateRefused(roots, r) == r.op = "add" /\ (RecordRefused(roots, r) \/ \E n \in r.entries : EntryRefused(r, n))

Checked(roots) == ValidPolicy(roots)

Update(u) ==
  LET r == Asked(u) IN
  /\ Is(u, "update")
  /\ IF UpdateRefused(Read(u).roots, r) THEN Ends(u, "refused")
     ELSE LET roots == Updated(Read(u).roots, r) IN
          IF ~Checked(roots) \/ Size(roots) > MaxBytes THEN Ends(u, "refused")
          ELSE job' = [job EXCEPT ![u].next = roots] /\ UGoto(u, "stage") /\ UNCHANGED lock
  /\ UNCHANGED <<world, dir, file, stage, cleaning, owed, fresh, events>>

\* write_policy_atomic: one staging file; one left behind refuses every update.
Stage(u) ==
  /\ Is(u, "stage")
  /\ IF stage THEN Ends(u, "refused") /\ UNCHANGED <<stage, events>>
     ELSE /\ stage' = TRUE
          /\ \/ UGoto(u, "check") /\ Keep /\ UNCHANGED events
             \/ Event /\ Ends(u, "refused")
  /\ UNCHANGED <<world, dir, file, cleaning, owed, fresh>>

\* ensure_expected_observed_state: the file is the one this update started from.
AsObservedAlways(u) == TRUE
AsObserved(u) ==
  IF Read(u).state = "absent" THEN file.state = "absent" /\ Absent.parent = Read(u).parent
  ELSE file.state = "private" /\ file.ino = Read(u).ino /\ file.roots = Read(u).roots

Check(u) ==
  /\ Is(u, "check")
  /\ IF AsObserved(u) THEN UGoto(u, "publish") /\ Keep ELSE Ends(u, "refused")
  /\ UNCHANGED <<world, dir, file, stage, cleaning, owed, fresh, events>>

\* What the file has to keep from now on: history only.
Entries(roots) == UNION {{[dir |-> r.dir, name |-> e.name] : e \in r.entries} : r \in roots}
Withdrawn(u) ==
  {x \in Entries(Read(u).roots) :
     /\ \E r \in Read(u).roots : r.dir = x.dir /\ r.path = Asked(u).root
     /\ (Asked(u).op = "removeRoot" \/ (Asked(u).op = "remove" /\ x.name \in Asked(u).entries))}
Confirmed(u) == {[dir |-> Asked(u).dir, name |-> n] : n \in IF Asked(u).op = "add" THEN Asked(u).entries ELSE {}}

Publish(u) ==
  /\ Is(u, "publish") /\ UGoto(u, "readback")
  /\ file' = [state |-> "private", ino |-> fresh, stamp |-> fresh, roots |-> NextRoots(u)]
  /\ fresh' = fresh + 1 /\ stage' = FALSE
  /\ owed' = (owed \ Withdrawn(u)) \cup Confirmed(u)
  /\ UNCHANGED <<world, dir, lock, job, cleaning, events>>

ReadBack(u) ==
  /\ Is(u, "readback")
  /\ Ends(u, IF file.state # "absent" /\ file.roots = NextRoots(u) THEN "ok" ELSE "mismatch")
  /\ UNCHANGED <<world, dir, file, stage, cleaning, owed, fresh, events>>

\* The process dies: the system gives up its lock, the staging file stays.
Crash(u) ==
  /\ up[u] \notin {"idle", "ended"} /\ Event
  /\ Ends(u, "crashed")
  /\ UNCHANGED <<world, dir, file, stage, cleaning, owed, fresh>>

----------------------------------------------------------------------------
(* A cleaning: snapshot_for_root (one root) or snapshot_all (every root)   *)
(* when it is previewed, and the same again as its guard.                  *)

Goto(s) == step' = s
NoLook == [stat |-> NoPolicy, root |-> None, seen |-> NoPolicy]
NotShown == [file |-> NoPolicy, records |-> {}, effective |-> {}, attention |-> {}]
Stops(outcome) == Goto("ended") /\ moved' = outcome /\ look' = NoLook /\ shown' = NotShown

\* normalize_existing_root, path_identity and the file's metadata.
LookAtFile ==
  /\ step = "look"
  /\ IF clean.kind = "root" /\ at[clean.root] = "gone" THEN Stops("refused")
     ELSE look' = [NoLook EXCEPT !.stat = Loaded, !.root = at[clean.root]] /\ Goto("read") /\ UNCHANGED <<moved, shown>>
  /\ inForce' =
       IF file.state # "private" THEN {}
       ELSE UNION {Effective(r, r.dir) : r \in {x \in file.roots : IF clean.kind = "root" THEN x.dir = at[clean.root] ELSE at[x.path] = x.dir}}
  /\ UNCHANGED <<world, config, updating, clean, phase, owed, fresh, events>>

\* The file named by the metadata may be replaced before its bytes are read.
ReadFile ==
  /\ step = "read"
  /\ IF look.stat.state = "absent" THEN look' = [look EXCEPT !.seen = look.stat] /\ Goto("evaluate") /\ UNCHANGED <<moved, shown>>
     ELSE IF look.stat.state = Error \/ Loaded.state # "present" \/ ~ValidPolicy(file.roots) THEN Stops("refused")
     ELSE look' = [look EXCEPT !.seen = [look.stat EXCEPT !.roots = file.roots]] /\ Goto("evaluate") /\ UNCHANGED <<moved, shown>>
  /\ UNCHANGED <<world, config, updating, clean, phase, inForce, owed, fresh, events>>

\* select_root_for_execution: by directory, never by path alone.
Selected == {r \in look.seen.roots : r.dir = look.root}
StaleRecord == Selected = {} /\ \E r \in look.seen.roots : r.path = clean.root

\* evaluate_entries looks at each record's root again.
NowAt(r) == IF clean.kind = "root" THEN at[clean.root] ELSE at[r.path]
RecordsOf == IF clean.kind = "root" THEN Selected ELSE look.seen.roots

\* A record is evaluated only where its own directory still is.
SnapshotRefused ==
  \/ clean.kind = "root" /\ StaleRecord
  \/ clean.kind = "all" /\ \E r \in RecordsOf : at[r.path] # r.dir \/ NeedsAttention(r, r.dir) # {}
  \/ clean.kind = "root" /\ (\E r \in RecordsOf : r.entries # {}) /\ at[clean.root] = "gone"
Snapshot ==
  [file |-> look.seen, records |-> RecordsOf,
   effective |-> UNION {Effective(r, NowAt(r)) : r \in {x \in RecordsOf : x.entries # {}}},
   attention |-> UNION {NeedsAttention(r, NowAt(r)) : r \in {x \in RecordsOf : x.entries # {}}}]

\* run_clean: what needs attention, or covers the selection, refuses it.
Covered(names) == \E n \in names : <<clean.item, n>> \in Overlaps
PreviewRefused(s) == s.attention # {} \/ Covered(s.effective)

GuardHolds(s) == s = shown

\* The policy is read when it is previewed, when it is approved, after an item
\* has started and before its native call.
After(p) == CASE p = "preview" -> "approve" [] p = "approve" -> "afterStarted" [] OTHER -> "lastNative"

Evaluate ==
  /\ step = "evaluate"
  /\ IF SnapshotRefused \/ (phase = "preview" /\ PreviewRefused(Snapshot)) \/ (phase # "preview" /\ ~GuardHolds(Snapshot))
     THEN Stops("refused") /\ UNCHANGED phase
     ELSE /\ shown' = IF phase = "preview" THEN Snapshot ELSE shown
          /\ phase' = After(phase) /\ look' = NoLook /\ UNCHANGED moved
          /\ Goto(IF phase = "lastNative" THEN "move" ELSE "look")
  /\ UNCHANGED <<world, config, updating, clean, inForce, owed, fresh, events>>

Move ==
  /\ step = "move" /\ Stops("moved")
  /\ UNCHANGED <<world, config, updating, clean, phase, inForce, owed, fresh, events>>

----------------------------------------------------------------------------
(* People: they edit the file and rearrange the directories.               *)

\* An edit in place, a new file, or a file taken away.
Edit ==
  /\ Event /\ fresh' = fresh + 1 /\ dir # "absent"
  /\ \E f \in Files, inPlace \in BOOLEAN :
       /\ inPlace => (file.state # "absent" /\ f.state # "absent")
       /\ file' = [state |-> f.state, ino |-> IF inPlace THEN file.ino ELSE fresh, stamp |-> fresh, roots |-> f.roots]
       /\ owed' = IF f.state # "private" \/ \E u \in Updaters : Is(u, "publish") THEN {} ELSE Entries(f.roots)
  /\ UNCHANGED <<world, dir, stage, lock, updating, cleaning>>

MoveRoots ==
  /\ Event
  /\ \E p, q \in Paths : p # q /\ at' = [at EXCEPT ![p] = at[q], ![q] = at[p]]
  /\ UNCHANGED <<inside, config, updating, cleaning, owed, fresh>>

ReplaceEntry ==
  /\ Event
  /\ \E s \in Swaps : s.held # inside[s.dir][s.name] /\ inside' = [inside EXCEPT ![s.dir][s.name] = s.held]
  /\ UNCHANGED <<at, config, updating, cleaning, owed, fresh>>

----------------------------------------------------------------------------

Init ==
  /\ at \in Places /\ inside = [d \in (UNION {{p[x] : x \in DOMAIN p} : p \in Places}) \ {"gone"} |-> [n \in Names |-> "first"]]
  /\ \E f \in Files :
       /\ file = [state |-> f.state, ino |-> 0, stamp |-> 0, roots |-> f.roots]
       /\ dir \in IF f.state = "absent" THEN {"absent", "private"} ELSE {"private"}
       /\ owed = IF f.state = "private" THEN Entries(f.roots) ELSE {}
  /\ stage = FALSE /\ lock = None
  /\ up = [u \in Updaters |-> "idle"] /\ job = [u \in Updaters |-> NoJob]
  /\ clean \in Cleaners /\ step = (IF clean.kind = "nobody" THEN "ended" ELSE "look") /\ phase = "preview" /\ look = NoLook
  /\ shown = NotShown /\ moved = None /\ inForce = {}
  /\ fresh = 1 /\ events = 0

Next ==
  \/ \E u \in Updaters :
       Ask(u) \/ EnsureDir(u) \/ CloseDir(u) \/ AcquireLock(u) \/ Load(u) \/ Update(u) \/ Stage(u) \/ Check(u) \/ Publish(u)
         \/ ReadBack(u) \/ Crash(u)
  \/ LookAtFile \/ ReadFile \/ Evaluate \/ Move
  \/ Edit \/ MoveRoots \/ ReplaceEntry

Spec == Init /\ [][Next]_vars

----------------------------------------------------------------------------

\* No exclusion that was confirmed, or written by hand before the check of
\* ensure_expected_observed_state, leaves the file unless somebody takes it out:
\* not through two updates at once, a crash, or a record that follows its
\* directory to a new path.
NoUpdateIsLost == owed \subseteq IF file.state = "private" THEN Entries(file.roots) ELSE {}

\* What Sayaka publishes it can read again: renamed roots never leave two
\* records of one path or of one directory (validate_policy in update_policy).
PublishedIsValid == \A u \in Updaters : Is(u, "readback") /\ file.roots = NextRoots(u) => ValidPolicy(file.roots)

\* guard_snapshot before the native call: nothing is moved that an exclusion in
\* force at the start of the last guard covers, whoever wrote it and whatever
\* was renamed since the preview.
ExclusionsAreHonoured == moved = "moved" => ~Covered(inForce)
=============================================================================
