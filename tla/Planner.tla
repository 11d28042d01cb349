------------------------------ MODULE Planner ------------------------------
(***************************************************************************)
(* The approval state machine (crates/engine/src/plan.rs, Planner).  A     *)
(* client discovers resources, prepares a plan from a selection, shows it, *)
(* approves that exact plan and has it validated once, item by item, while *)
(* the file system, the wall clock and the cancellation flag change under  *)
(* it.                                                                     *)
(*                                                                         *)
(* A path is the sequence of its components below the scope's root, whose  *)
(* path is the empty sequence.  A snapshot keeps the identity, a stamp for *)
(* the remaining metadata, and the first flaw that Planner::refusal would  *)
(* name ("none" if the resource may be moved).                             *)
(***************************************************************************)
EXTENDS Integers, Sequences, FiniteSets

CONSTANTS
  Paths,         \* paths that may be discovered
  ProtectedPaths,\* the scope's protected paths
  Snapshots,     \* what a probe may observe: [flaw, identity, stamp]
  Bindings,      \* sets of rule bindings, one binding per item
  VersionSet,    \* versions the caller may set
  Lifetime,      \* lifetime of a plan, in clock ticks
  MaxTime,       \* bound on the wall clock
  MaxPlans,      \* bound on prepared plans
  MaxChanges     \* bound on version changes

ASSUME PlannerAssumption ==
  /\ Lifetime \in Nat \ {0}
  /\ MaxTime \in Nat /\ MaxPlans \in Nat /\ MaxChanges \in Nat
  /\ VersionSet # {} /\ 0 \notin Bindings
  /\ Paths \subseteq Seq(Int)  \* a component is its name's place in the order of names

VARIABLES
  world,        \* the file system: a snapshot per path
  clock,        \* the wall clock, which may be set back
  cancelled,    \* the cancellation flag of the running session
  lastTime,     \* Planner.last_time
  versions, generation,
  observations, \* discovered paths and what was observed then
  plans,        \* Planner.plans, in the order of their identifiers
  previews,     \* the copies of plans that clients hold
  validation,   \* the validate call in progress, or None
  dead          \* history: plans seen expired or outdated by a version change

vars == <<world, clock, cancelled, lastTime, versions, generation,
          observations, plans, previews, validation, dead>>

None == [plan |-> 0, todo |-> {}, probing |-> {}, ready |-> {}, skipped |-> {},
         seen |-> {}]  \* seen is history: the snapshots the items had since the start

----------------------------------------------------------------------------
(* Paths: model.rs.                                                        *)

IsPrefix(p, q) == Len(p) <= Len(q) /\ \A i \in 1..Len(p) : p[i] = q[i]

Overlaps(p, q) == IsPrefix(p, q) \/ IsPrefix(q, p)

\* Scope::protects; the built-in system roots are among ProtectedPaths.
Protects(p) == p = <<>> \/ \E e \in ProtectedPaths : Overlaps(p, e)

\* Path::cmp compares component by component, so a directory's contents
\* follow it immediately.
PathLess(p, q) ==
  \E i \in 1..Len(q) :
    /\ \A j \in 1..(i - 1) : j <= Len(p) /\ p[j] = q[j]
    /\ i = Len(p) + 1 \/ (i <= Len(p) /\ p[i] < q[i])

\* Mutant: the selection is sorted by depth first.
NeighboursByDepth(S, p, q) ==
  LET Before(x, y) == Len(x) < Len(y) \/ (Len(x) = Len(y) /\ PathLess(x, y))
  IN  Before(p, q) /\ ~\E r \in S : Before(p, r) /\ Before(r, q)

\* The windows(2) loop over the sorted selection looks at neighbours only.
Neighbours(S, p, q) ==
  PathLess(p, q) /\ ~\E r \in S : PathLess(p, r) /\ PathLess(r, q)

OverlappingSelection(S) == \E p, q \in S : Neighbours(S, p, q) /\ Overlaps(p, q)

\* Planner::refusal: the scope's lexical protection, then the snapshot's.
Refusal(p, snapshot) == IF Protects(p) THEN "protected" ELSE snapshot.flaw

----------------------------------------------------------------------------
(* Time and plan identity checks.                                          *)

Ids == 1..Len(plans)

\* Planner::time succeeds, and remembers the time it saw.
TimeOk == clock >= lastTime
SeeTime ==
  /\ lastTime' = clock
  /\ dead' = dead \cup {id \in Ids : clock >= plans[id].expires}

\* Planner::check_plan on a preview that claims to be plan id.
CheckPlan(id, preview) ==
  /\ plans[id].preview = preview
  /\ plans[id].generation = generation /\ plans[id].versions = versions
  /\ clock < plans[id].expires

\* preflight_stop; a clock that runs backwards stops too.
PreflightStop(id) == cancelled \/ clock < lastTime \/ clock >= plans[id].expires

Idle == validation = None

Current(S) == {<<p, world[p]>> : p \in S}

----------------------------------------------------------------------------
(* Operations.                                                             *)

Discover(p) ==
  /\ Idle /\ TimeOk
  /\ p \notin DOMAIN observations
  /\ SeeTime
  /\ observations' = [q \in DOMAIN observations \cup {p} |->
                        IF q = p THEN world[p] ELSE observations[q]]
  /\ UNCHANGED <<world, clock, cancelled, versions, generation, plans,
                 previews, validation>>

\* Selected resources that are neither protected, nor under or above an
\* exclusion, nor refused.
Admitted(selected, excluded) ==
  {p \in selected :
     /\ Refusal(p, observations[p]) = "none"
     /\ \A e \in excluded : ~Overlaps(p, e)}

DuplicateIdentity(S) ==
  \E p, q \in S : p # q /\ observations[p].identity = observations[q].identity

\* The plan as the client sees it; binding 0: no rule bindings attached.
PreviewOf(S) == [items |-> [p \in S |-> observations[p]], binding |-> 0]

Prepare(selected, excluded) ==
  /\ Idle /\ TimeOk
  /\ Len(plans) < MaxPlans
  /\ selected # {}
  /\ ~OverlappingSelection(selected)
  /\ ~DuplicateIdentity(Admitted(selected, excluded))
  /\ LET preview == PreviewOf(Admitted(selected, excluded)) IN
       /\ plans' = Append(plans,
            [preview |-> preview, excluded |-> excluded,
             expires |-> clock + Lifetime, generation |-> generation,
             versions |-> versions, state |-> "Prepared", validated |-> 0])
       /\ previews' = previews \cup {<<Len(plans) + 1, preview>>}
  /\ lastTime' = clock
  /\ dead' = dead \cup {id \in Ids : clock >= plans[id].expires}
  /\ UNCHANGED <<world, clock, cancelled, versions, generation, observations,
                 validation>>

\* seal_rule_bindings_for_prepared, possibly again: the recorded plan changes,
\* so previews handed out before are no longer equal to it.
Seal(id, b) ==
  /\ Idle
  /\ plans[id].state = "Prepared"
  /\ DOMAIN plans[id].preview.items # {} /\ plans[id].preview.binding # b
  /\ plans' = [plans EXCEPT ![id].preview.binding = b]
  /\ previews' = previews \cup {<<id, plans'[id].preview>>}
  /\ UNCHANGED <<world, clock, cancelled, lastTime, versions, generation,
                 observations, validation, dead>>

Approve(id, preview) ==
  /\ Idle /\ TimeOk
  /\ SeeTime
  /\ CheckPlan(id, preview)
  /\ DOMAIN preview.items # {}
  /\ plans[id].state = "Prepared"
  /\ plans' = [plans EXCEPT ![id].state = "Approved"]
  /\ UNCHANGED <<world, clock, cancelled, versions, generation, observations,
                 previews, validation>>

\* Mutant: the approval is not consumed.
ValidateBeginReplayable(id, preview) ==
  /\ Idle /\ TimeOk
  /\ SeeTime
  /\ CheckPlan(id, preview)
  /\ plans[id].state = "Approved"
  /\ plans[id].validated < 2
  /\ plans' = [plans EXCEPT ![id].validated = @ + 1]
  /\ validation' = [None EXCEPT !.plan = id, !.todo = DOMAIN preview.items,
                                    !.seen = Current(DOMAIN preview.items)]
  /\ UNCHANGED <<world, clock, cancelled, versions, generation, observations,
                 previews>>

\* validate: the approval is spent before the first probe.
ValidateBegin(id, preview) ==
  /\ Idle /\ TimeOk
  /\ SeeTime
  /\ CheckPlan(id, preview)
  /\ plans[id].state = "Approved"
  /\ plans' = [plans EXCEPT ![id].state = "Validated", ![id].validated = @ + 1]
  /\ validation' = [None EXCEPT !.plan = id, !.todo = DOMAIN preview.items,
                                    !.seen = Current(DOMAIN preview.items)]
  /\ UNCHANGED <<world, clock, cancelled, versions, generation, observations,
                 previews>>

\* The operation fails after having read the clock; nothing else changes.
OnlySeesTime ==
  /\ Idle /\ TimeOk
  /\ lastTime # clock
  /\ SeeTime
  /\ UNCHANGED <<world, clock, cancelled, versions, generation, observations,
                 plans, previews, validation>>

\* The first stop check and the probe of one item.
ProbeItem(p) ==
  /\ ~Idle /\ validation.probing = {} /\ p \in validation.todo
  /\ IF PreflightStop(validation.plan)
       THEN /\ validation' = [validation EXCEPT !.todo = @ \ {p}, !.skipped = @ \cup {p}]
            /\ IF TimeOk /\ ~cancelled THEN SeeTime ELSE UNCHANGED <<lastTime, dead>>
       ELSE /\ validation' = [validation EXCEPT !.probing = {<<p, world[p]>>}]
            /\ SeeTime
  /\ UNCHANGED <<world, clock, cancelled, versions, generation, observations,
                 plans, previews>>

\* probe.inspect fails.
ProbeFails ==
  /\ validation.probing # {}
  /\ LET p == (CHOOSE x \in validation.probing : TRUE)[1] IN
       validation' = [validation EXCEPT !.todo = @ \ {p}, !.probing = {},
                                        !.skipped = @ \cup {p}]
  /\ UNCHANGED <<world, clock, cancelled, lastTime, versions, generation,
                 observations, plans, previews, dead>>

\* Mutant: what was discovered is compared, not what was probed.
JudgeItemStale ==
  /\ validation.probing # {}
  /\ LET p == (CHOOSE x \in validation.probing : TRUE)[1]
         ok == /\ ~PreflightStop(validation.plan)
               /\ Refusal(p, observations[p]) = "none"
               /\ observations[p] = plans[validation.plan].preview.items[p]
     IN validation' = [validation EXCEPT
          !.todo = @ \ {p}, !.probing = {},
          !.ready = IF ok THEN @ \cup {p} ELSE @,
          !.skipped = IF ok THEN @ ELSE @ \cup {p}]
  /\ IF TimeOk /\ ~cancelled THEN SeeTime ELSE UNCHANGED <<lastTime, dead>>
  /\ UNCHANGED <<world, clock, cancelled, versions, generation, observations,
                 plans, previews>>

\* The second stop check, the refusal and the comparison with what was shown.
JudgeItem ==
  /\ validation.probing # {}
  /\ LET x == CHOOSE x \in validation.probing : TRUE
         p == x[1]
         ok == /\ ~PreflightStop(validation.plan)
               /\ Refusal(p, x[2]) = "none"
               /\ x[2] = plans[validation.plan].preview.items[p]
     IN validation' = [validation EXCEPT
          !.todo = @ \ {p}, !.probing = {},
          !.ready = IF ok THEN @ \cup {p} ELSE @,
          !.skipped = IF ok THEN @ ELSE @ \cup {p}]
  /\ IF TimeOk /\ ~cancelled THEN SeeTime ELSE UNCHANGED <<lastTime, dead>>
  /\ UNCHANGED <<world, clock, cancelled, versions, generation, observations,
                 plans, previews>>

ValidateEnd ==
  /\ ~Idle /\ validation.todo = {}
  /\ validation' = None
  /\ UNCHANGED <<world, clock, cancelled, lastTime, versions, generation,
                 observations, plans, previews, dead>>

\* Mutant: versions are compared, but a change is not counted.
SetVersionsUncounted(v) ==
  /\ Idle
  /\ v # versions
  /\ Cardinality({id \in Ids : id \in dead}) <= MaxChanges
  /\ versions' = v
  /\ dead' = dead \cup Ids
  /\ UNCHANGED <<world, clock, cancelled, lastTime, generation, observations,
                 plans, previews, validation>>

SetVersions(v) ==
  /\ Idle
  /\ v # versions
  /\ generation < MaxChanges
  /\ generation' = generation + 1
  /\ versions' = v
  /\ dead' = dead \cup Ids
  /\ UNCHANGED <<world, clock, cancelled, lastTime, observations, plans,
                 previews, validation>>

----------------------------------------------------------------------------
(* The environment.                                                        *)

WorldChanges ==
  /\ \E p \in Paths, s \in Snapshots :
       /\ s # world[p]
       /\ world' = [world EXCEPT ![p] = s]
       /\ validation' = IF Idle THEN None ELSE [validation EXCEPT !.seen = @ \cup {<<p, s>>}]
  /\ UNCHANGED <<clock, cancelled, lastTime, versions, generation,
                 observations, plans, previews, dead>>

ClockSet ==
  /\ \E t \in 0..MaxTime : t # clock /\ clock' = t
  /\ UNCHANGED <<world, cancelled, lastTime, versions, generation,
                 observations, plans, previews, validation, dead>>

Cancel ==
  /\ ~cancelled
  /\ cancelled' = TRUE
  /\ UNCHANGED <<world, clock, lastTime, versions, generation, observations,
                 plans, previews, validation, dead>>

Init ==
  /\ world \in [Paths -> Snapshots]
  /\ clock = 0
  /\ cancelled = FALSE
  /\ lastTime = 0
  /\ versions \in VersionSet
  /\ generation = 0
  /\ observations = [p \in {} |-> 0]
  /\ plans = <<>>
  /\ previews = {}
  /\ validation = None
  /\ dead = {}

Next ==
  \/ \E p \in Paths : Discover(p)
  \/ \E S, X \in SUBSET DOMAIN observations : Prepare(S, X)
  \/ \E id \in Ids, b \in Bindings : Seal(id, b)
  \/ \E h \in previews : Approve(h[1], h[2])
  \/ \E h \in previews : ValidateBegin(h[1], h[2])
  \/ OnlySeesTime
  \/ \E p \in validation.todo : ProbeItem(p)
  \/ ProbeFails \/ JudgeItem \/ ValidateEnd
  \/ \E v \in VersionSet : SetVersions(v)
  \/ WorldChanges \/ ClockSet \/ Cancel

Spec == Init /\ [][Next]_vars

----------------------------------------------------------------------------
(* Properties.                                                             *)

\* Code: prepare compares sorted neighbours only; no two items of a plan
\* overlap all the same, none overlaps an exclusion or a protected path, and
\* no two are the same file.
ItemsAreSeparate ==
  \A id \in Ids : LET items == plans[id].preview.items IN
    \A p \in DOMAIN items :
      /\ ~Protects(p) /\ \A e \in plans[id].excluded : ~Overlaps(p, e)
      /\ \A q \in DOMAIN items : p # q =>
           ~Overlaps(p, q) /\ items[p].identity # items[q].identity

\* Code: validate moves the plan to Validated before it probes, so an
\* approval is spent by its first validation, however that one ends.
ApprovalIsSpentOnce == \A id \in Ids : plans[id].validated <= 1

\* Code: a plan that was seen expired, or that a version change outdated, is
\* never approved, never validated and yields no further ready item, even if
\* the clock is set back or the old versions are restored.
DeadPlansStayDead ==
  [][\A id \in dead :
       /\ plans'[id].state = plans[id].state
       /\ (validation.plan = id /\ validation'.plan = id)
            => validation'.ready \subseteq validation.ready]_vars

\* Code: an item is ready only if the file system really held, at some moment
\* after the approval was spent, exactly what was displayed: an observation
\* from before never makes one ready.  The report covers every item once.
ReadyItemsWereShown ==
  ~Idle =>
    LET items == plans[validation.plan].preview.items IN
      /\ validation.ready \cap validation.skipped = {}
      /\ validation.ready \cup validation.skipped \cup validation.todo = DOMAIN items
      /\ \A p \in validation.ready :
           Refusal(p, items[p]) = "none" /\ <<p, items[p]>> \in validation.seen

=============================================================================
