--------------------------- MODULE PlannerProofs ---------------------------
(***************************************************************************)
(* The planner keeps its promises for every tree of paths, every lifetime  *)
(* and any number of plans and version changes.                            *)
(*                                                                         *)
(* That prepare need only look at sorted neighbours is a fact about paths, *)
(* proved first.  The other properties need an invariant that ties the     *)
(* running validation to its plan, and a plan that was seen dead to the    *)
(* clock and the generation that keep it dead.                             *)
(***************************************************************************)
EXTENDS Planner, FiniteSetTheorems, TLAPS

----------------------------------------------------------------------------
(* Paths.                                                                  *)

LEMMA PathLessIrreflexive == ASSUME NEW p \in Seq(Int) PROVE ~PathLess(p, p)
  BY DEF PathLess

LEMMA PathLessTransitive ==
  ASSUME NEW p \in Seq(Int), NEW q \in Seq(Int), NEW r \in Seq(Int),
         PathLess(p, q), PathLess(q, r)
  PROVE  PathLess(p, r)
<1>1. PICK i \in 1..Len(q) :
        /\ \A j \in 1..(i - 1) : j <= Len(p) /\ p[j] = q[j]
        /\ i = Len(p) + 1 \/ (i <= Len(p) /\ p[i] < q[i])
  BY DEF PathLess
<1>2. PICK k \in 1..Len(r) :
        /\ \A j \in 1..(k - 1) : j <= Len(q) /\ q[j] = r[j]
        /\ k = Len(q) + 1 \/ (k <= Len(q) /\ q[k] < r[k])
  BY DEF PathLess
<1>3. Len(p) \in Nat /\ Len(q) \in Nat /\ Len(r) \in Nat
  OBVIOUS
<1>4. CASE i < k
  <2>1. i \in 1..Len(r) /\ q[i] = r[i]
    BY <1>1, <1>2, <1>3, <1>4
  <2>2. \A j \in 1..(i - 1) : j <= Len(p) /\ p[j] = r[j]
    <3>1. \A j \in 1..(i - 1) : j \in 1..(k - 1)
      BY <1>4
    <3> QED
      BY <1>1, <1>2, <3>1
  <2>3. i = Len(p) + 1 \/ (i <= Len(p) /\ p[i] < r[i])
    BY <1>1, <2>1, Zenon
  <2> QED
    BY <2>1, <2>2, <2>3 DEF PathLess
<1>5. CASE k < i
  <2>1. k <= Len(p) /\ p[k] = q[k] /\ k <= Len(q)
    BY <1>1, <1>2, <1>3, <1>5
  <2>2. \A j \in 1..(k - 1) : j \in 1..(i - 1)
    BY <1>5
  <2>3. \A j \in 1..(k - 1) : j <= Len(p) /\ p[j] = r[j]
    BY <1>1, <1>2, <2>2
  <2>4. k <= Len(p) /\ p[k] < r[k]
    BY <1>2, <1>3, <2>1
  <2> QED
    BY <1>2, <2>3, <2>4 DEF PathLess
<1>6. CASE i = k
  <2>1. \A j \in 1..(i - 1) : j <= Len(p) /\ p[j] = r[j]
    BY <1>1, <1>2, <1>3, <1>6
  <2>2. i <= Len(q) /\ q[i] < r[i]
    BY <1>1, <1>2, <1>3, <1>6
  <2>3. i = Len(p) + 1 \/ (i <= Len(p) /\ p[i] < r[i])
    <3>1. CASE i = Len(p) + 1
      BY <3>1
    <3>2. CASE i <= Len(p) /\ p[i] < q[i]
      <4>1. p[i] \in Int /\ q[i] \in Int /\ r[i] \in Int
        BY <1>1, <1>2, <1>3, <1>6, <3>2
      <4> QED
        BY <2>2, <3>2, <4>1
    <3> QED
      BY <1>1, <3>1, <3>2
  <2> QED
    BY <1>2, <1>6, <2>1, <2>3 DEF PathLess
<1> QED
  BY <1>3, <1>4, <1>5, <1>6

\* A directory sorts before what lies in it.
LEMMA PrefixSortsFirst ==
  ASSUME NEW p \in Seq(Int), NEW q \in Seq(Int), p # q, IsPrefix(p, q)
  PROVE  PathLess(p, q)
<1>1. Len(p) \in Nat /\ Len(q) \in Nat /\ Len(p) <= Len(q) /\ \A i \in 1..Len(p) : p[i] = q[i]
  BY DEF IsPrefix
<1>2. Len(p) # Len(q)
  <2> SUFFICES ASSUME Len(p) = Len(q) PROVE FALSE
    OBVIOUS
  <2>1. DOMAIN p = 1..Len(p) /\ DOMAIN q = 1..Len(q)
    OBVIOUS
  <2>2. p = [i \in 1..Len(p) |-> p[i]] /\ q = [i \in 1..Len(q) |-> q[i]]
    BY <2>1
  <2> QED
    BY <1>1, <2>2
<1>3. Len(p) + 1 \in 1..Len(q)
  BY <1>1, <1>2
<1> DEFINE i == Len(p) + 1
<1>4. \A j \in 1..(i - 1) : j <= Len(p) /\ p[j] = q[j]
  BY <1>1
<1>5. i \in 1..Len(q) /\ i = Len(p) + 1
  BY <1>3
<1> HIDE DEF i
<1> QED
  BY <1>4, <1>5 DEF PathLess

\* Whatever sorts between a directory and a path in it lies in it too.
LEMMA BetweenIsBelow ==
  ASSUME NEW p \in Seq(Int), NEW x \in Seq(Int), NEW q \in Seq(Int),
         IsPrefix(p, q), PathLess(p, x), PathLess(x, q)
  PROVE  IsPrefix(p, x)
<1>1. PICK i \in 1..Len(x) :
        /\ \A j \in 1..(i - 1) : j <= Len(p) /\ p[j] = x[j]
        /\ i = Len(p) + 1 \/ (i <= Len(p) /\ p[i] < x[i])
  BY DEF PathLess
<1>2. PICK k \in 1..Len(q) :
        /\ \A j \in 1..(k - 1) : j <= Len(x) /\ x[j] = q[j]
        /\ k = Len(x) + 1 \/ (k <= Len(x) /\ x[k] < q[k])
  BY DEF PathLess
<1>3. /\ Len(p) \in Nat /\ Len(q) \in Nat /\ Len(x) \in Nat /\ Len(p) <= Len(q)
      /\ \A j \in 1..Len(p) : p[j] = q[j]
  BY DEF IsPrefix
<1>4. CASE i = Len(p) + 1
  BY <1>1, <1>3, <1>4 DEF IsPrefix
<1>5. CASE i <= Len(p) /\ p[i] < x[i]
  <2>1. p[i] \in Int /\ x[i] \in Int /\ q[i] = p[i]
    BY <1>1, <1>3, <1>5
  <2>2. ~(i < k)
    <3> SUFFICES ASSUME i < k PROVE FALSE
      OBVIOUS
    <3>1. i \in 1..(k - 1)
      BY <1>1, <1>2
    <3>2. x[i] = q[i]
      BY <1>2, <3>1
    <3> QED
      BY <1>5, <2>1, <3>2
  <2>3. k <= Len(x) /\ x[k] < q[k] /\ k \in 1..Len(p) /\ q[k] = p[k]
    <3>1. k <= i /\ k \in 1..Len(p) /\ k <= Len(x)
      BY <1>1, <1>2, <1>3, <1>5, <2>2
    <3>2. q[k] = p[k]
      BY <1>3, <3>1
    <3> QED
      BY <1>2, <1>3, <3>1, <3>2
  <2>4. k # i
    BY <1>5, <2>1, <2>3
  <2>5. x[k] = p[k] /\ x[k] \in Int
    BY <1>1, <2>2, <2>3, <2>4
  <2> QED
    BY <2>3, <2>5
<1> QED
  BY <1>1, <1>4, <1>5

\* prepare's windows(2) loop: a finite selection two of whose paths overlap
\* has two sorted neighbours that do.
LEMMA NeighboursSuffice ==
  ASSUME NEW S \in SUBSET Paths, IsFiniteSet(S), NEW p \in S, NEW q \in S, p # q, IsPrefix(p, q)
  PROVE  OverlappingSelection(S)
<1>1. S \subseteq Seq(Int) /\ p \in Seq(Int) /\ q \in Seq(Int)
  BY PlannerAssumption
<1> DEFINE Below(x) == {r \in S : PathLess(p, r) /\ PathLess(r, x)}
           After == {x \in S : PathLess(p, x) /\ (x = q \/ PathLess(x, q))}
           T == {Below(x) : x \in After}
<1>2. q \in After
  BY <1>1, PrefixSortsFirst
<1>3. T \subseteq SUBSET S /\ T # {}
  BY <1>2
<1>4. IsWellFoundedOn(StrictSubsetOrdering(S), SUBSET S)
  BY FS_StrictSubsetOrderingWellFounded, FS_FiniteSubsetsOfFinite
<1>5. PICK B \in T : \A C \in T : ~(<<C, B>> \in StrictSubsetOrdering(S))
  BY <1>3, <1>4, WFMin
<1>6. PICK x \in After : B = Below(x)
  BY <1>5
<1>7. ASSUME NEW r \in S, PathLess(p, r), PathLess(r, x)
      PROVE  FALSE
  <2>1. r \in After
    BY <1>1, <1>6, <1>7, PathLessTransitive
  <2>2. r \in Below(x) /\ r \notin Below(r)
    BY <1>1, <1>7, PathLessIrreflexive
  <2>3. Below(r) \subseteq Below(x)
    BY <1>1, <1>6, <1>7, PathLessTransitive
  <2>4. <<Below(r), Below(x)>> \in StrictSubsetOrdering(S)
    BY <2>2, <2>3 DEF StrictSubsetOrdering
  <2> QED
    BY <1>5, <1>6, <2>1, <2>4
<1>8. Neighbours(S, p, x)
  BY <1>6, <1>7 DEF Neighbours
<1>9. IsPrefix(p, x)
  BY <1>1, <1>6, BetweenIsBelow
<1> QED
  BY <1>6, <1>8, <1>9 DEF OverlappingSelection, Overlaps

----------------------------------------------------------------------------
(* The invariant.                                                          *)

Items == UNION {[S -> Snapshots] : S \in SUBSET Paths}
Preview == [items : Items, binding : Bindings \cup {0}]
Plan == [preview : Preview, excluded : SUBSET Paths, expires : Int, generation : Nat,
         versions : VersionSet, state : {"Prepared", "Approved", "Validated"},
         validated : Nat]
Validation == [plan : Nat, todo : SUBSET Paths, probing : SUBSET (Paths \X Snapshots),
               ready : SUBSET Paths, skipped : SUBSET Paths,
               seen : SUBSET (Paths \X Snapshots)]

TypeOK ==
  /\ world \in [Paths -> Snapshots]
  /\ clock \in Int /\ lastTime \in Int /\ cancelled \in BOOLEAN
  /\ versions \in VersionSet /\ generation \in Nat
  /\ observations \in [DOMAIN observations -> Snapshots]
  /\ DOMAIN observations \subseteq Paths /\ IsFiniteSet(DOMAIN observations)
  /\ plans \in Seq(Plan)
  /\ previews \subseteq Ids \X Preview
  /\ validation \in Validation
  /\ dead \subseteq Ids

\* An approval was spent if and only if the plan is Validated.
SpentOnce ==
  \A id \in Ids : plans[id].validated = IF plans[id].state = "Validated" THEN 1 ELSE 0

\* The running validation belongs to a plan of the current generation.  Its
\* lists divide the plan's items, and what it is about to judge, or has judged
\* ready, the file system held since it began; the file system as it is counts.
ValidationFollowsPlan ==
  \/ Idle
  \/ LET v == validation
         items == plans[v.plan].preview.items
     IN /\ v.plan \in Ids /\ plans[v.plan].generation = generation
        /\ plans[v.plan].state = "Validated"
        /\ v.ready \cap v.skipped = {} /\ v.todo \cap (v.ready \cup v.skipped) = {}
        /\ v.ready \cup v.skipped \cup v.todo = DOMAIN items
        /\ \A p \in DOMAIN items : <<p, world[p]>> \in v.seen
        /\ \A x \in v.probing : x \in v.seen /\ x[1] \in v.todo
        /\ \A p \in v.ready : Refusal(p, items[p]) = "none" /\ <<p, items[p]>> \in v.seen

\* A dead plan expired before the last time seen, or is of an old generation.
DeathIsRemembered ==
  /\ \A id \in Ids : plans[id].generation <= generation
  /\ \A id \in dead : plans[id].expires <= lastTime \/ plans[id].generation < generation

IInv ==
  /\ TypeOK
  /\ SpentOnce
  /\ ValidationFollowsPlan
  /\ DeathIsRemembered
  /\ ItemsAreSeparate

----------------------------------------------------------------------------
(* Every operation keeps it.                                               *)

LEMMA ExpansionOfIdle == ASSUME TypeOK PROVE Idle => validation.plan = 0 /\ validation.probing = {}
  BY DEF Idle, None

\* A plan is replaced in place.
LEMMA PlanReplaced ==
  ASSUME plans \in Seq(Plan), NEW id \in Ids, NEW r \in Plan, plans' = [plans EXCEPT ![id] = r]
  PROVE  /\ plans' \in Seq(Plan) /\ Ids' = Ids
         /\ plans'[id] = r /\ \A x \in Ids \ {id} : plans'[x] = plans[x]
<1>1. plans \in [1..Len(plans) -> Plan] /\ Len(plans) \in Nat
  OBVIOUS
<1>2. plans' \in [1..Len(plans) -> Plan]
  BY <1>1 DEF Ids
<1>3. plans' \in Seq(Plan) /\ Len(plans') = Len(plans)
  BY <1>1, <1>2
<1> QED
  BY <1>1, <1>3 DEF Ids

\* Reading the clock, or not, keeps dead plans dead, whatever else happens to
\* plans that keep their terms.
LEMMA DeathStays ==
  ASSUME IInv, generation' = generation, Ids \subseteq Ids',
         plans' \in Seq(Plan),
         \A x \in Ids : plans'[x].generation = plans[x].generation /\ plans'[x].expires = plans[x].expires,
         \A x \in Ids' \ Ids : plans'[x].generation = generation,
         \/ lastTime' = lastTime /\ dead' = dead
         \/ TimeOk /\ SeeTime
  PROVE  DeathIsRemembered' /\ lastTime' \in Int /\ dead' \subseteq Ids'
<1>1. plans \in Seq(Plan) /\ clock \in Int /\ lastTime \in Int /\ generation \in Nat /\ dead \subseteq Ids
  BY DEF IInv, TypeOK
<1>2. \A x \in Ids : plans[x].expires \in Int /\ plans[x].generation \in Nat
  <2>1. \A x \in Ids : plans[x] \in Plan
    BY <1>1 DEF Ids
  <2> QED
    BY <2>1 DEF Plan
<1>3. lastTime' >= lastTime /\ lastTime' \in Int
  BY <1>1 DEF TimeOk, SeeTime
<1>4. dead' \subseteq Ids /\ \A x \in dead' : x \in dead \/ plans[x].expires <= lastTime'
  <2>1. CASE lastTime' = lastTime /\ dead' = dead
    BY <1>1, <2>1
  <2>2. CASE SeeTime
    <3>1. dead' \subseteq Ids /\ \A x \in dead' : x \in dead \/ (x \in Ids /\ clock >= plans[x].expires)
      BY <1>1, <2>2 DEF SeeTime
    <3> QED
      BY <1>1, <1>2, <2>2, <3>1 DEF SeeTime
  <2> QED
    BY <2>1, <2>2
<1>5. \A x \in Ids' : plans'[x].generation <= generation'
  BY <1>1, <1>2 DEF IInv, DeathIsRemembered
<1>6. \A x \in dead' : plans'[x].expires <= lastTime' \/ plans'[x].generation < generation'
  BY <1>1, <1>2, <1>3, <1>4 DEF IInv, DeathIsRemembered
<1> QED
  BY <1>3, <1>4, <1>5, <1>6 DEF DeathIsRemembered

\* Discovery, and what the environment does to the clock and the flag.
LEMMA QuietInv ==
  ASSUME IInv, \/ \E p \in Paths : Discover(p)
               \/ OnlySeesTime \/ ClockSet \/ Cancel \/ UNCHANGED vars
  PROVE  IInv'
<1>1. /\ UNCHANGED <<world, versions, generation, plans, previews, validation>>
      /\ (lastTime' = lastTime /\ dead' = dead) \/ (TimeOk /\ SeeTime)
      /\ clock' = clock \/ clock' \in 0..MaxTime
      /\ cancelled' = cancelled \/ cancelled' = TRUE
  BY DEF Discover, OnlySeesTime, ClockSet, Cancel, vars
<1>2. clock' \in Int /\ cancelled' \in BOOLEAN
  <2>1. clock \in Int /\ cancelled \in BOOLEAN
    BY DEF IInv, TypeOK
  <2>2. clock' \in Int
    BY <1>1, <2>1, PlannerAssumption
  <2>3. cancelled' \in BOOLEAN
    BY <1>1, <2>1, Zenon
  <2> QED
    BY <2>2, <2>3
<1>3. /\ observations' \in [DOMAIN observations' -> Snapshots]
      /\ DOMAIN observations' \subseteq Paths /\ IsFiniteSet(DOMAIN observations')
  <2>1. CASE observations' = observations
    BY <2>1 DEF IInv, TypeOK
  <2>2. CASE \E p \in Paths : Discover(p)
    <3>1. PICK p \in Paths : Discover(p)
      BY <2>2
    <3>2. DOMAIN observations' = DOMAIN observations \cup {p}
      BY <3>1 DEF Discover
    <3>3. IsFiniteSet(DOMAIN observations')
      <4>1. IsFiniteSet(DOMAIN observations)
        BY DEF IInv, TypeOK
      <4>2. IsFiniteSet(DOMAIN observations \cup {p})
        BY <4>1, FS_AddElement
      <4> QED
        BY <3>2, <4>2
    <3>4. \A q \in DOMAIN observations' :
            observations'[q] = IF q = p THEN world[p] ELSE observations[q]
      BY <3>1, <3>2 DEF Discover
    <3>5. observations' = [q \in DOMAIN observations' |-> observations'[q]]
      BY <3>1 DEF Discover
    <3> QED
      BY <3>1, <3>2, <3>3, <3>4, <3>5 DEF IInv, TypeOK
  <2> QED
    BY <2>1, <2>2 DEF OnlySeesTime, ClockSet, Cancel, vars
<1>4. DeathIsRemembered' /\ lastTime' \in Int /\ dead' \subseteq Ids'
  BY <1>1, DeathStays DEF IInv, TypeOK, Ids
<1>5. TypeOK'
  BY <1>1, <1>2, <1>3, <1>4 DEF IInv, TypeOK, Ids
<1>6. SpentOnce' /\ ItemsAreSeparate'
  BY <1>1 DEF IInv, SpentOnce, ItemsAreSeparate, Ids
<1>7. ValidationFollowsPlan'
  BY <1>1 DEF IInv, ValidationFollowsPlan, Idle, Ids
<1> QED
  BY <1>4, <1>5, <1>6, <1>7 DEF IInv

\* What prepare admits is separate, although only neighbours were compared.
LEMMA AdmittedAreSeparate ==
  ASSUME TypeOK, NEW S \in SUBSET DOMAIN observations, NEW X \in SUBSET DOMAIN observations,
         ~OverlappingSelection(S), ~DuplicateIdentity(Admitted(S, X)),
         NEW p \in Admitted(S, X)
  PROVE  /\ ~Protects(p) /\ \A e \in X : ~Overlaps(p, e)
         /\ \A q \in Admitted(S, X) : p # q =>
              ~Overlaps(p, q) /\ observations[p].identity # observations[q].identity
<1>1. Admitted(S, X) \subseteq S /\ S \in SUBSET Paths
  BY DEF Admitted, TypeOK
<1>2. IsFiniteSet(DOMAIN observations)
  BY DEF TypeOK
<1>3. IsFiniteSet(S)
  BY <1>2, FS_Subset
<1>4. ~Protects(p) /\ \A e \in X : ~Overlaps(p, e)
  BY DEF Admitted, Refusal
<1>5. ASSUME NEW q \in Admitted(S, X), p # q
      PROVE  ~Overlaps(p, q) /\ observations[p].identity # observations[q].identity
  <2>1. ~IsPrefix(p, q) /\ ~IsPrefix(q, p)
    BY <1>1, <1>3, <1>5, NeighboursSuffice
  <2> QED
    BY <1>5, <2>1 DEF Overlaps, DuplicateIdentity
<1> QED
  BY <1>4, <1>5

LEMMA PrepareInv ==
  ASSUME IInv, NEW S \in SUBSET DOMAIN observations, NEW X \in SUBSET DOMAIN observations,
         Prepare(S, X)
  PROVE  IInv'
<1> DEFINE A == Admitted(S, X)
           f == [p \in A |-> observations[p]]
           v == [items |-> f, binding |-> 0]
           r == [preview |-> v, excluded |-> X, expires |-> clock + Lifetime,
                 generation |-> generation, versions |-> versions, state |-> "Prepared",
                 validated |-> 0]
<1>1. /\ Idle /\ TimeOk /\ ~OverlappingSelection(S) /\ ~DuplicateIdentity(A)
      /\ plans' = Append(plans, r) /\ previews' = previews \cup {<<Len(plans) + 1, v>>}
      /\ SeeTime /\ UNCHANGED <<world, clock, cancelled, versions, generation, observations, validation>>
  BY DEF Prepare, PreviewOf, SeeTime
<1>2. /\ plans \in Seq(Plan) /\ clock \in Int /\ versions \in VersionSet /\ generation \in Nat
      /\ observations \in [DOMAIN observations -> Snapshots] /\ DOMAIN observations \subseteq Paths
      /\ previews \subseteq Ids \X Preview
  BY DEF IInv, TypeOK
<1>3. A \subseteq S /\ A \in SUBSET Paths
  BY <1>2 DEF Admitted
<1>4. f \in Items
  <2>1. f \in [A -> Snapshots]
    BY <1>2, <1>3
  <2> QED
    BY <1>3, <2>1 DEF Items
<1>5. v \in Preview
  BY <1>4 DEF Preview
<1>6. r \in Plan
  BY <1>2, <1>5, PlannerAssumption DEF Plan
<1> HIDE DEF r, v
<1>7. /\ plans' \in Seq(Plan) /\ Len(plans') = Len(plans) + 1 /\ Len(plans) \in Nat
      /\ \A x \in 1..Len(plans) : plans'[x] = plans[x]
      /\ plans'[Len(plans) + 1] = r
  BY <1>1, <1>2, <1>6
<1>8. Ids' = Ids \cup {Len(plans) + 1} /\ Len(plans) + 1 \notin Ids
  BY <1>7 DEF Ids
<1>9. previews' \subseteq Ids' \X Preview
  BY <1>1, <1>2, <1>5, <1>8
<1>10. r.generation = generation /\ r.validated = 0 /\ r.state = "Prepared" /\ r.excluded = X /\ r.preview = v
  BY DEF r
<1>11. DeathIsRemembered' /\ lastTime' \in Int /\ dead' \subseteq Ids'
  <2>1. \A x \in Ids : plans'[x].generation = plans[x].generation /\ plans'[x].expires = plans[x].expires
    BY <1>7 DEF Ids
  <2>2. \A x \in Ids' \ Ids : plans'[x].generation = generation
    BY <1>7, <1>8, <1>10
  <2> QED
    BY <1>1, <1>7, <1>8, <2>1, <2>2, DeathStays
<1>12. TypeOK'
  BY <1>1, <1>7, <1>9, <1>11 DEF IInv, TypeOK
<1>13. SpentOnce'
  BY <1>7, <1>8, <1>10 DEF IInv, SpentOnce, Ids
<1>14. ValidationFollowsPlan'
  BY <1>1 DEF ValidationFollowsPlan, Idle
<1>15. ItemsAreSeparate'
  <2>1. v.items = f
    BY DEF v
  <2>2. ASSUME NEW p \in A
        PROVE  /\ ~Protects(p) /\ \A e \in X : ~Overlaps(p, e)
               /\ \A q \in A : p # q => ~Overlaps(p, q) /\ f[p].identity # f[q].identity
    BY <1>1, <2>2, AdmittedAreSeparate DEF IInv
  <2>3. ASSUME NEW id \in Ids', NEW p \in DOMAIN plans'[id].preview.items
        PROVE  /\ ~Protects(p) /\ \A e \in plans'[id].excluded : ~Overlaps(p, e)
               /\ \A q \in DOMAIN plans'[id].preview.items : p # q =>
                    /\ ~Overlaps(p, q)
                    /\ plans'[id].preview.items[p].identity # plans'[id].preview.items[q].identity
    <3>1. CASE id \in Ids
      <4>1. plans'[id] = plans[id]
        BY <1>7, <3>1 DEF Ids
      <4> QED
        BY <2>3, <3>1, <4>1 DEF IInv, ItemsAreSeparate
    <3>2. CASE id = Len(plans) + 1
      <4>1. plans'[id].preview.items = f /\ plans'[id].excluded = X
        BY <1>7, <1>10, <2>1, <3>2
      <4>2. p \in A /\ DOMAIN f = A
        BY <2>3, <4>1
      <4> HIDE DEF f, A
      <4> QED
        BY <2>2, <4>1, <4>2
    <3> QED
      BY <1>8, <2>3, <3>1, <3>2
  <2> QED
    BY <2>3 DEF ItemsAreSeparate
<1> QED
  BY <1>11, <1>12, <1>13, <1>14, <1>15 DEF IInv

\* A plan moves on in its life; its items, exclusions and terms stay.
LEMMA PlanMovesOn ==
  ASSUME IInv, NEW id \in Ids, NEW r \in Plan, plans' = [plans EXCEPT ![id] = r],
         r.preview.items = plans[id].preview.items, r.excluded = plans[id].excluded,
         r.expires = plans[id].expires, r.generation = plans[id].generation,
         r.validated = IF r.state = "Validated" THEN 1 ELSE 0,
         generation' = generation,
         (lastTime' = lastTime /\ dead' = dead) \/ (TimeOk /\ SeeTime)
  PROVE  /\ plans' \in Seq(Plan) /\ Ids' = Ids
         /\ plans'[id] = r /\ \A x \in Ids \ {id} : plans'[x] = plans[x]
         /\ DeathIsRemembered' /\ lastTime' \in Int /\ dead' \subseteq Ids'
         /\ SpentOnce' /\ ItemsAreSeparate'
<1>1. plans \in Seq(Plan)
  BY DEF IInv, TypeOK
<1>2. /\ plans' \in Seq(Plan) /\ Ids' = Ids
      /\ plans'[id] = r /\ \A x \in Ids \ {id} : plans'[x] = plans[x]
  BY <1>1, PlanReplaced
<1>3. \A x \in Ids : /\ plans'[x].preview.items = plans[x].preview.items
                     /\ plans'[x].excluded = plans[x].excluded
                     /\ plans'[x].generation = plans[x].generation
                     /\ plans'[x].expires = plans[x].expires
                     /\ x # id => plans'[x] = plans[x]
  BY <1>2
<1>4. DeathIsRemembered' /\ lastTime' \in Int /\ dead' \subseteq Ids'
  BY <1>2, <1>3, DeathStays
<1>5. SpentOnce'
  BY <1>2 DEF IInv, SpentOnce
<1>6. ItemsAreSeparate'
  BY <1>2, <1>3 DEF IInv, ItemsAreSeparate
<1> QED
  BY <1>2, <1>4, <1>5, <1>6

LEMMA SealInv == ASSUME IInv, NEW id \in Ids, NEW b \in Bindings, Seal(id, b) PROVE IInv'
<1> DEFINE v == [plans[id].preview EXCEPT !.binding = b]
           r == [plans[id] EXCEPT !.preview = v]
<1>1. /\ Idle /\ plans' = [plans EXCEPT ![id] = r] /\ plans[id].state = "Prepared"
      /\ previews' = previews \cup {<<id, plans'[id].preview>>}
      /\ lastTime' = lastTime /\ dead' = dead
      /\ UNCHANGED <<world, clock, cancelled, versions, generation, observations, validation>>
  BY DEF Seal
<1>2. plans \in Seq(Plan) /\ plans[id] \in Plan
  BY DEF IInv, TypeOK, Ids
<1>3. v \in Preview /\ v.items = plans[id].preview.items
  BY <1>2 DEF Plan, Preview
<1>4. /\ r \in Plan /\ r.preview = v /\ r.excluded = plans[id].excluded
      /\ r.expires = plans[id].expires /\ r.generation = plans[id].generation
      /\ r.state = "Prepared" /\ r.validated = plans[id].validated
  BY <1>1, <1>2, <1>3 DEF Plan
<1>5. r.validated = IF r.state = "Validated" THEN 1 ELSE 0
  BY <1>1, <1>4 DEF IInv, SpentOnce
<1> HIDE DEF r, v
<1>6. /\ plans' \in Seq(Plan) /\ Ids' = Ids
      /\ plans'[id] = r /\ \A x \in Ids \ {id} : plans'[x] = plans[x]
      /\ DeathIsRemembered' /\ lastTime' \in Int /\ dead' \subseteq Ids'
      /\ SpentOnce' /\ ItemsAreSeparate'
  BY <1>1, <1>3, <1>4, <1>5, PlanMovesOn
<1>7. previews' \subseteq Ids' \X Preview
  BY <1>1, <1>3, <1>4, <1>6 DEF IInv, TypeOK
<1>8. TypeOK'
  BY <1>1, <1>6, <1>7 DEF IInv, TypeOK
<1>9. ValidationFollowsPlan'
  BY <1>1 DEF ValidationFollowsPlan, Idle
<1> QED
  BY <1>6, <1>8, <1>9 DEF IInv

LEMMA ApproveInv == ASSUME IInv, NEW h \in previews, Approve(h[1], h[2]) PROVE IInv'
<1> DEFINE id == h[1]
           r == [plans[id] EXCEPT !.state = "Approved"]
<1>1. /\ Idle /\ TimeOk /\ SeeTime /\ plans' = [plans EXCEPT ![id] = r] /\ plans[id].state = "Prepared"
      /\ UNCHANGED <<world, clock, cancelled, versions, generation, observations, previews, validation>>
  BY DEF Approve
<1>2. id \in Ids
  BY DEF IInv, TypeOK
<1>3. plans \in Seq(Plan) /\ plans[id] \in Plan
  BY <1>2 DEF IInv, TypeOK, Ids
<1>4. /\ r \in Plan /\ r.preview = plans[id].preview /\ r.excluded = plans[id].excluded
      /\ r.expires = plans[id].expires /\ r.generation = plans[id].generation
      /\ r.state = "Approved" /\ r.validated = plans[id].validated
  BY <1>3 DEF Plan
<1>5. r.validated = IF r.state = "Validated" THEN 1 ELSE 0
  BY <1>1, <1>2, <1>4 DEF IInv, SpentOnce
<1> HIDE DEF r, id
<1>6. /\ plans' \in Seq(Plan) /\ Ids' = Ids
      /\ DeathIsRemembered' /\ lastTime' \in Int /\ dead' \subseteq Ids'
      /\ SpentOnce' /\ ItemsAreSeparate'
  BY <1>1, <1>2, <1>4, <1>5, PlanMovesOn
<1>7. TypeOK'
  BY <1>1, <1>6 DEF IInv, TypeOK
<1>8. ValidationFollowsPlan'
  BY <1>1 DEF ValidationFollowsPlan, Idle
<1> QED
  BY <1>6, <1>7, <1>8 DEF IInv

LEMMA ValidateBeginInv == ASSUME IInv, NEW h \in previews, ValidateBegin(h[1], h[2]) PROVE IInv'
<1> DEFINE id == h[1]
           r == [plans[id] EXCEPT !.state = "Validated", !.validated = @ + 1]
           todo == DOMAIN plans[id].preview.items
           v == [plan |-> id, todo |-> todo, probing |-> {}, ready |-> {}, skipped |-> {},
                 seen |-> Current(todo)]
<1>1. /\ Idle /\ TimeOk /\ SeeTime /\ plans[id].state = "Approved" /\ h[2] = plans[id].preview
      /\ plans[id].generation = generation
      /\ UNCHANGED <<world, clock, cancelled, versions, generation, observations, previews>>
  BY DEF ValidateBegin, CheckPlan
<1>2. id \in Ids
  BY DEF IInv, TypeOK
<1>3. plans \in Seq(Plan) /\ plans[id] \in Plan /\ world \in [Paths -> Snapshots]
  BY <1>2 DEF IInv, TypeOK, Ids
<1>4. plans' = [plans EXCEPT ![id] = r]
  <2>1. plans' = [plans EXCEPT ![id].state = "Validated", ![id].validated = @ + 1]
    BY DEF ValidateBegin
  <2> QED
    BY <1>2, <1>3, <2>1 DEF Ids
<1>5. validation' = v
  BY <1>1 DEF ValidateBegin, None
<1>6. /\ r \in Plan /\ r.preview = plans[id].preview /\ r.excluded = plans[id].excluded
      /\ r.expires = plans[id].expires /\ r.generation = plans[id].generation
      /\ r.state = "Validated" /\ r.validated = plans[id].validated + 1
  <2>1. plans[id].validated + 1 \in Nat
    <3>1. plans[id].validated \in Nat
      BY <1>3 DEF Plan
    <3> QED
      BY <3>1
  <2>2. DOMAIN plans[id] = {"preview", "excluded", "expires", "generation", "versions", "state", "validated"}
    BY <1>3 DEF Plan
  <2>3. /\ r.preview = plans[id].preview /\ r.excluded = plans[id].excluded
        /\ r.expires = plans[id].expires /\ r.generation = plans[id].generation
        /\ r.state = "Validated" /\ r.validated = plans[id].validated + 1
    BY <2>2
  <2>4. r \in Plan
    BY <1>3, <2>1 DEF Plan
  <2> QED
    BY <2>3, <2>4
<1>7. r.validated = IF r.state = "Validated" THEN 1 ELSE 0
  BY <1>1, <1>2, <1>6 DEF IInv, SpentOnce
<1>8. todo \in SUBSET Paths
  <2>1. plans[id].preview.items \in Items
    BY <1>3 DEF Plan, Preview
  <2> QED
    BY <2>1 DEF Items
<1> HIDE DEF r, id
<1>9. /\ plans' \in Seq(Plan) /\ Ids' = Ids /\ plans'[id] = r
      /\ DeathIsRemembered' /\ lastTime' \in Int /\ dead' \subseteq Ids'
      /\ SpentOnce' /\ ItemsAreSeparate'
  BY <1>1, <1>2, <1>4, <1>6, <1>7, PlanMovesOn
<1>10. Current(todo) \subseteq Paths \X Snapshots /\ \A p \in todo : <<p, world[p]>> \in Current(todo)
  BY <1>3, <1>8 DEF Current
<1>11. validation' \in Validation
  BY <1>2, <1>5, <1>8, <1>10 DEF Validation, Ids
<1>12. TypeOK'
  BY <1>1, <1>9, <1>11 DEF IInv, TypeOK
<1>13. ValidationFollowsPlan'
  <2>1. plans'[id].preview.items = plans[id].preview.items /\ plans'[id].generation = generation
        /\ plans'[id].state = "Validated" /\ id \in Ids'
    BY <1>1, <1>2, <1>6, <1>9
  <2>2. /\ v.plan = id /\ v.todo = todo /\ v.probing = {} /\ v.ready = {} /\ v.skipped = {}
        /\ v.seen = Current(todo)
    OBVIOUS
  <2> HIDE DEF v
  <2> QED
    BY <1>1, <1>5, <1>10, <2>1, <2>2 DEF ValidationFollowsPlan
<1> QED
  BY <1>9, <1>12, <1>13 DEF IInv

\* A step of the running validation: the plans and the file system stay.
LEMMA ValidationStep ==
  ASSUME IInv, ~Idle, NEW v \in Validation, validation' = v, v.plan = validation.plan,
         v.seen = validation.seen,
         v.ready \cap v.skipped = {}, v.todo \cap (v.ready \cup v.skipped) = {},
         v.ready \cup v.skipped \cup v.todo
           = validation.ready \cup validation.skipped \cup validation.todo,
         \A x \in v.probing : x \in v.seen /\ x[1] \in v.todo,
         \A p \in v.ready : \/ p \in validation.ready
                            \/ LET items == plans[v.plan].preview.items
                               IN  Refusal(p, items[p]) = "none" /\ <<p, items[p]>> \in v.seen,
         (lastTime' = lastTime /\ dead' = dead) \/ (TimeOk /\ SeeTime),
         UNCHANGED <<world, clock, cancelled, versions, generation, observations, plans, previews>>
  PROVE  IInv'
<1>1. DeathIsRemembered' /\ lastTime' \in Int /\ dead' \subseteq Ids'
  BY DeathStays DEF IInv, TypeOK, Ids
<1>2. TypeOK'
  BY <1>1 DEF IInv, TypeOK, Ids
<1>3. SpentOnce' /\ ItemsAreSeparate'
  BY DEF IInv, SpentOnce, ItemsAreSeparate, Ids
<1>4. ValidationFollowsPlan'
  BY DEF IInv, ValidationFollowsPlan, Ids
<1> QED
  BY <1>1, <1>2, <1>3, <1>4 DEF IInv

\* What the running validation knows.
LEMMA ValidationFacts ==
  ASSUME IInv, ~Idle
  PROVE  /\ validation \in Validation /\ validation.plan \in Ids
         /\ validation.ready \cap validation.skipped = {}
         /\ validation.todo \cap (validation.ready \cup validation.skipped) = {}
         /\ \A x \in validation.probing : x \in validation.seen /\ x[1] \in validation.todo
         /\ \A p \in validation.todo : <<p, world[p]>> \in validation.seen
         /\ validation.todo \subseteq DOMAIN plans[validation.plan].preview.items
         /\ plans[validation.plan].generation = generation
  BY DEF IInv, TypeOK, ValidationFollowsPlan

LEMMA ProbeItemInv == ASSUME IInv, NEW p \in validation.todo, ProbeItem(p) PROVE IInv'
<1> DEFINE w == validation
<1>1. /\ ~Idle /\ w.probing = {}
      /\ UNCHANGED <<world, clock, cancelled, versions, generation, observations, plans, previews>>
  BY DEF ProbeItem
<1>2. /\ w \in Validation /\ w.plan \in Ids /\ w.ready \cap w.skipped = {}
      /\ w.todo \cap (w.ready \cup w.skipped) = {} /\ p \in Paths
      /\ <<p, world[p]>> \in w.seen /\ <<p, world[p]>> \in Paths \X Snapshots
  BY <1>1, ValidationFacts DEF IInv, TypeOK, Validation
<1>3. CASE PreflightStop(w.plan)
  <2> DEFINE v == [w EXCEPT !.todo = @ \ {p}, !.skipped = @ \cup {p}]
  <2>1. validation' = v /\ ((lastTime' = lastTime /\ dead' = dead) \/ (TimeOk /\ SeeTime))
    BY <1>3 DEF ProbeItem
  <2>2. /\ v \in Validation /\ v.plan = w.plan /\ v.seen = w.seen /\ v.probing = w.probing
        /\ v.todo = w.todo \ {p} /\ v.ready = w.ready /\ v.skipped = w.skipped \cup {p}
    BY <1>2 DEF Validation
  <2> HIDE DEF v
  <2> QED
    BY <1>1, <1>2, <2>1, <2>2, ValidationStep
<1>4. CASE ~PreflightStop(w.plan)
  <2> DEFINE v == [w EXCEPT !.probing = {<<p, world[p]>>}]
  <2>1. validation' = v /\ SeeTime /\ clock \in Int /\ lastTime \in Int
    BY <1>4 DEF ProbeItem, IInv, TypeOK
  <2>2. TimeOk
    BY <1>4, <2>1 DEF PreflightStop, TimeOk
  <2>3. /\ v \in Validation /\ v.plan = w.plan /\ v.seen = w.seen /\ v.probing = {<<p, world[p]>>}
        /\ v.todo = w.todo /\ v.ready = w.ready /\ v.skipped = w.skipped
    BY <1>2 DEF Validation
  <2> HIDE DEF v
  <2> QED
    BY <1>1, <1>2, <2>1, <2>2, <2>3, ValidationStep
<1> QED
  BY <1>3, <1>4

LEMMA ProbeFailsInv == ASSUME IInv, ProbeFails PROVE IInv'
<1> DEFINE w == validation
           p == (CHOOSE x \in w.probing : TRUE)[1]
           v == [w EXCEPT !.todo = @ \ {p}, !.probing = {}, !.skipped = @ \cup {p}]
<1>1. /\ ~Idle /\ w.probing # {} /\ validation' = v /\ lastTime' = lastTime /\ dead' = dead
      /\ UNCHANGED <<world, clock, cancelled, versions, generation, observations, plans, previews>>
  BY ExpansionOfIdle DEF ProbeFails, IInv
<1>2. (CHOOSE x \in w.probing : TRUE) \in w.probing
  BY <1>1
<1>3. /\ w \in Validation /\ w.plan \in Ids /\ w.ready \cap w.skipped = {}
      /\ w.todo \cap (w.ready \cup w.skipped) = {} /\ p \in w.todo
  BY <1>1, <1>2, ValidationFacts
<1> HIDE DEF p
<1>4. /\ v \in Validation /\ v.plan = w.plan /\ v.seen = w.seen /\ v.probing = {}
      /\ v.todo = w.todo \ {p} /\ v.ready = w.ready /\ v.skipped = w.skipped \cup {p}
  BY <1>3 DEF Validation
<1> HIDE DEF v
<1> QED
  BY <1>1, <1>3, <1>4, ValidationStep

LEMMA Pairs == ASSUME NEW A, NEW B, NEW y \in A \X B PROVE y = <<y[1], y[2]>>
  OBVIOUS

LEMMA JudgeItemInv == ASSUME IInv, JudgeItem PROVE IInv'
<1> DEFINE w == validation
           x == CHOOSE y \in w.probing : TRUE
           p == x[1]
           items == plans[w.plan].preview.items
           ok == ~PreflightStop(w.plan) /\ Refusal(p, x[2]) = "none" /\ x[2] = items[p]
           v == [w EXCEPT !.todo = @ \ {p}, !.probing = {},
                          !.ready = IF ok THEN @ \cup {p} ELSE @,
                          !.skipped = IF ok THEN @ ELSE @ \cup {p}]
<1>1. /\ ~Idle /\ w.probing # {} /\ validation' = v
      /\ (lastTime' = lastTime /\ dead' = dead) \/ (TimeOk /\ SeeTime)
      /\ UNCHANGED <<world, clock, cancelled, versions, generation, observations, plans, previews>>
  BY ExpansionOfIdle DEF JudgeItem, IInv
<1>2. x \in w.probing
  BY <1>1
<1>3. /\ w \in Validation /\ w.plan \in Ids /\ w.ready \cap w.skipped = {}
      /\ w.todo \cap (w.ready \cup w.skipped) = {} /\ p \in w.todo /\ x \in w.seen
  BY <1>1, <1>2, ValidationFacts
<1>4. x \in Paths \X Snapshots
  BY <1>2, <1>3 DEF Validation
<1> HIDE DEF x
<1>5. x = <<p, x[2]>>
  BY <1>4, Pairs
<1>6. ok => Refusal(p, items[p]) = "none" /\ <<p, items[p]>> \in w.seen
  <2> SUFFICES ASSUME ok PROVE Refusal(p, items[p]) = "none" /\ <<p, items[p]>> \in w.seen
    OBVIOUS
  <2>1. x[2] = items[p] /\ Refusal(p, x[2]) = "none"
    OBVIOUS
  <2> QED
    BY <1>3, <1>5, <2>1
<1> HIDE DEF ok, p
<1>7. /\ v \in Validation /\ v.plan = w.plan /\ v.seen = w.seen /\ v.probing = {}
      /\ v.todo = w.todo \ {p} /\ v.ready = (IF ok THEN w.ready \cup {p} ELSE w.ready)
      /\ v.skipped = (IF ok THEN w.skipped ELSE w.skipped \cup {p})
  BY <1>3 DEF Validation
<1> HIDE DEF v
<1>8. /\ v.ready \cap v.skipped = {} /\ v.todo \cap (v.ready \cup v.skipped) = {}
      /\ v.ready \cup v.skipped \cup v.todo = w.ready \cup w.skipped \cup w.todo
  BY <1>3, <1>7
<1>9. \A q \in v.ready : \/ q \in w.ready
                         \/ Refusal(q, items[q]) = "none" /\ <<q, items[q]>> \in v.seen
  BY <1>6, <1>7
<1> QED
  BY <1>1, <1>7, <1>8, <1>9, ValidationStep

LEMMA ValidateEndInv == ASSUME IInv, ValidateEnd PROVE IInv'
<1>1. /\ validation' = None /\ lastTime' = lastTime /\ dead' = dead
      /\ UNCHANGED <<world, clock, cancelled, versions, generation, observations, plans, previews>>
  BY DEF ValidateEnd
<1>2. None \in Validation
  BY DEF None, Validation
<1>3. DeathIsRemembered' /\ lastTime' \in Int /\ dead' \subseteq Ids'
  BY <1>1, DeathStays DEF IInv, TypeOK, Ids
<1>4. TypeOK'
  BY <1>1, <1>2, <1>3 DEF IInv, TypeOK, Ids
<1>5. SpentOnce' /\ ItemsAreSeparate'
  BY <1>1 DEF IInv, SpentOnce, ItemsAreSeparate, Ids
<1>6. ValidationFollowsPlan'
  BY <1>1 DEF ValidationFollowsPlan, Idle
<1> QED
  BY <1>3, <1>4, <1>5, <1>6 DEF IInv

\* A version change outdates every plan; no validation runs meanwhile.
LEMMA SetVersionsInv == ASSUME IInv, NEW n \in VersionSet, SetVersions(n) PROVE IInv'
<1>1. /\ Idle /\ generation' = generation + 1 /\ versions' = n /\ dead' = dead \cup Ids
      /\ UNCHANGED <<world, clock, cancelled, lastTime, observations, plans, previews, validation>>
  BY DEF SetVersions
<1>2. TypeOK'
  BY <1>1 DEF IInv, TypeOK, Ids
<1>3. \A x \in Ids : plans[x].generation \in Nat
  <2>1. \A x \in Ids : plans[x] \in Plan
    BY DEF IInv, TypeOK, Ids
  <2> QED
    BY <2>1 DEF Plan
<1>4. \A x \in Ids : plans[x].generation < generation + 1
  BY <1>3 DEF IInv, TypeOK, DeathIsRemembered
<1>5. DeathIsRemembered'
  <2>1. dead \subseteq Ids /\ generation \in Nat
    BY DEF IInv, TypeOK
  <2> QED
    BY <1>1, <1>3, <1>4, <2>1 DEF DeathIsRemembered, Ids
<1>6. SpentOnce' /\ ItemsAreSeparate'
  BY <1>1 DEF IInv, SpentOnce, ItemsAreSeparate, Ids
<1>7. ValidationFollowsPlan'
  BY <1>1 DEF ValidationFollowsPlan, Idle
<1> QED
  BY <1>2, <1>5, <1>6, <1>7 DEF IInv

LEMMA WorldChangesInv == ASSUME IInv, WorldChanges PROVE IInv'
<1>1. PICK q \in Paths, s \in Snapshots :
        /\ world' = [world EXCEPT ![q] = s]
        /\ validation' = IF Idle THEN None ELSE [validation EXCEPT !.seen = @ \cup {<<q, s>>}]
  BY DEF WorldChanges
<1>2. /\ lastTime' = lastTime /\ dead' = dead
      /\ UNCHANGED <<clock, cancelled, versions, generation, observations, plans, previews>>
  BY DEF WorldChanges
<1>3. DeathIsRemembered' /\ lastTime' \in Int /\ dead' \subseteq Ids'
  BY <1>2, DeathStays DEF IInv, TypeOK, Ids
<1>4. world' \in [Paths -> Snapshots] /\ \A p \in Paths : world'[p] = IF p = q THEN s ELSE world[p]
  BY <1>1 DEF IInv, TypeOK
<1>5. SpentOnce' /\ ItemsAreSeparate'
  BY <1>2 DEF IInv, SpentOnce, ItemsAreSeparate, Ids
<1>6. CASE Idle
  <2>1. validation' = validation
    BY <1>1, <1>6 DEF Idle
  <2>2. TypeOK'
    BY <1>2, <1>3, <1>4, <2>1 DEF IInv, TypeOK, Ids
  <2>3. ValidationFollowsPlan'
    BY <1>6, <2>1 DEF ValidationFollowsPlan, Idle
  <2> QED
    BY <1>3, <1>5, <2>2, <2>3 DEF IInv
<1>7. CASE ~Idle
  <2> DEFINE w == validation
             v == [w EXCEPT !.seen = @ \cup {<<q, s>>}]
  <2>1. validation' = v /\ w \in Validation
    BY <1>1, <1>7 DEF IInv, TypeOK
  <2>2. /\ v \in Validation /\ v.plan = w.plan /\ v.todo = w.todo /\ v.probing = w.probing
        /\ v.ready = w.ready /\ v.skipped = w.skipped /\ v.seen = w.seen \cup {<<q, s>>}
    BY <2>1 DEF Validation
  <2> HIDE DEF v
  <2>3. TypeOK'
    BY <1>2, <1>3, <1>4, <2>1, <2>2 DEF IInv, TypeOK, Ids
  <2>4. DOMAIN plans[w.plan].preview.items \subseteq Paths
    <3>1. w.plan \in Ids /\ plans \in Seq(Plan)
      BY <1>7, ValidationFacts DEF IInv, TypeOK
    <3>2. plans[w.plan] \in Plan
      BY <3>1 DEF Ids
    <3>3. plans[w.plan].preview.items \in Items
      BY <3>2 DEF Plan, Preview
    <3> QED
      BY <3>3 DEF Items
  <2>5. \A p \in DOMAIN plans[w.plan].preview.items : <<p, world'[p]>> \in v.seen
    BY <1>4, <1>7, <2>2, <2>4 DEF IInv, ValidationFollowsPlan
  <2>6. ValidationFollowsPlan'
    BY <1>2, <1>7, <2>1, <2>2, <2>5 DEF IInv, ValidationFollowsPlan, Ids
  <2> QED
    BY <1>3, <1>5, <2>3, <2>6 DEF IInv
<1> QED
  BY <1>6, <1>7

LEMMA InitIInv == Init => IInv
<1> SUFFICES ASSUME Init PROVE IInv
  OBVIOUS
<1>1. observations = [p \in {} |-> 0] /\ DOMAIN observations = {}
  BY DEF Init
<1>2. observations \in [{} -> Snapshots]
  BY <1>1
<1>3. IsFiniteSet(DOMAIN observations)
  BY <1>1, FS_EmptySet
<1>4. validation = None /\ None \in Validation
  BY DEF Init, None, Validation
<1>5. plans \in Seq(Plan) /\ Ids = {}
  BY DEF Init, Ids
<1>6. TypeOK
  <2>1. observations \in [DOMAIN observations -> Snapshots] /\ DOMAIN observations \subseteq Paths
    BY <1>1, <1>2
  <2>2. /\ world \in [Paths -> Snapshots] /\ clock \in Int /\ lastTime \in Int
        /\ versions \in VersionSet /\ generation \in Nat
    BY DEF Init
  <2>3. cancelled \in BOOLEAN /\ previews \subseteq Ids \X Preview /\ dead \subseteq Ids
    BY DEF Init
  <2> QED
    BY <1>3, <1>4, <1>5, <2>1, <2>2, <2>3 DEF TypeOK
<1>7. SpentOnce /\ DeathIsRemembered /\ ItemsAreSeparate
  BY <1>5 DEF Init, SpentOnce, DeathIsRemembered, ItemsAreSeparate
<1>8. ValidationFollowsPlan
  BY <1>4 DEF ValidationFollowsPlan, Idle
<1> QED
  BY <1>6, <1>7, <1>8 DEF IInv

LEMMA NextIInv == IInv /\ [Next]_vars => IInv'
<1> SUFFICES ASSUME IInv, [Next]_vars PROVE IInv'
  OBVIOUS
<1>1. CASE \/ \E p \in Paths : Discover(p)
           \/ OnlySeesTime \/ ClockSet \/ Cancel \/ UNCHANGED vars
  BY <1>1, QuietInv
<1>2. CASE \E S, X \in SUBSET DOMAIN observations : Prepare(S, X)
  BY <1>2, PrepareInv
<1>3. CASE \E id \in Ids, b \in Bindings : Seal(id, b)
  BY <1>3, SealInv
<1>4. CASE \E h \in previews : Approve(h[1], h[2])
  BY <1>4, ApproveInv
<1>5. CASE \E h \in previews : ValidateBegin(h[1], h[2])
  BY <1>5, ValidateBeginInv
<1>6. CASE \E p \in validation.todo : ProbeItem(p)
  BY <1>6, ProbeItemInv
<1>7. CASE ProbeFails \/ JudgeItem \/ ValidateEnd \/ WorldChanges
  BY <1>7, ProbeFailsInv, JudgeItemInv, ValidateEndInv, WorldChangesInv
<1>8. CASE \E v \in VersionSet : SetVersions(v)
  BY <1>8, SetVersionsInv
<1> QED
  BY <1>1, <1>2, <1>3, <1>4, <1>5, <1>6, <1>7, <1>8 DEF Next

\* The invariant of the planner holds in every state.
THEOREM PlannerInvariance == Spec => []IInv
  BY InitIInv, NextIInv, PTL DEF Spec

\* Code: Planner::prepare sorts the selection and compares windows(2) only; no
\* two items of a plan overlap all the same, none meets an exclusion or a
\* protected path, and no two are the same file.
THEOREM ItemsAreSeparateAlways == Spec => []ItemsAreSeparate
<1>1. IInv => ItemsAreSeparate
  BY DEF IInv
<1> QED
  BY <1>1, PlannerInvariance, PTL

\* Code: Planner::validate marks the plan Validated before it probes, so that
\* one approval is worth one validation, however it ends.
THEOREM ApprovalIsSpentOnceAlways == Spec => []ApprovalIsSpentOnce
<1>1. IInv => ApprovalIsSpentOnce
  BY DEF IInv, SpentOnce, ApprovalIsSpentOnce
<1> QED
  BY <1>1, PlannerInvariance, PTL

\* Code: the item loop of Planner::validate: what is ready was in the file
\* system as it was displayed, after the approval was spent.
THEOREM ReadyItemsWereShownAlways == Spec => []ReadyItemsWereShown
<1>1. IInv => ReadyItemsWereShown
  BY DEF IInv, ValidationFollowsPlan, ReadyItemsWereShown
<1> QED
  BY <1>1, PlannerInvariance, PTL

----------------------------------------------------------------------------
(* Dead plans stay dead.                                                   *)

\* A dead plan passes no check_plan.
LEMMA DeadFailsCheck ==
  ASSUME IInv, TimeOk, NEW id \in dead, NEW preview
  PROVE  ~CheckPlan(id, preview)
<1>1. id \in Ids /\ plans[id] \in Plan /\ clock \in Int /\ lastTime \in Int /\ generation \in Nat
  BY DEF IInv, TypeOK, Ids
<1>2. plans[id].expires \in Int /\ plans[id].generation \in Nat
  BY <1>1 DEF Plan
<1>3. plans[id].expires <= lastTime \/ plans[id].generation < generation
  BY DEF IInv, DeathIsRemembered
<1> QED
  BY <1>1, <1>2, <1>3 DEF CheckPlan, TimeOk

\* A running validation of a dead plan stops at every item.
LEMMA DeadStops ==
  ASSUME IInv, ~Idle, validation.plan \in dead
  PROVE  PreflightStop(validation.plan)
<1> DEFINE id == validation.plan
<1>1. id \in Ids /\ plans[id] \in Plan /\ clock \in Int /\ lastTime \in Int /\ generation \in Nat
  BY DEF IInv, TypeOK, Ids
<1>2. plans[id].expires \in Int /\ plans[id].generation \in Nat
  BY <1>1 DEF Plan
<1>3. plans[id].expires <= lastTime \/ plans[id].generation < generation
  BY DEF IInv, DeathIsRemembered
<1>4. plans[id].generation = generation
  BY ValidationFacts
<1> QED
  BY <1>1, <1>2, <1>3, <1>4 DEF PreflightStop

DeadStep ==
  \A id \in dead :
    /\ plans'[id].state = plans[id].state
    /\ (validation.plan = id /\ validation'.plan = id) => validation'.ready \subseteq validation.ready

LEMMA DeadStepHolds == IInv /\ [Next]_vars => DeadStep
<1> SUFFICES ASSUME IInv, [Next]_vars, NEW id \in dead
             PROVE  /\ plans'[id].state = plans[id].state
                    /\ (validation.plan = id /\ validation'.plan = id)
                         => validation'.ready \subseteq validation.ready
  BY DEF DeadStep
<1>1. /\ id \in Ids /\ id # 0 /\ plans \in Seq(Plan) /\ plans[id] \in Plan
      /\ validation \in Validation /\ (Idle => validation.plan # id)
  BY ExpansionOfIdle DEF IInv, TypeOK, Ids
<1>2. CASE plans' = plans /\ validation' = validation
  BY <1>2
<1>3. CASE \E S, X \in SUBSET DOMAIN observations : Prepare(S, X)
  <2>1. Idle /\ \E r : plans' = Append(plans, r)
    BY <1>3 DEF Prepare
  <2> QED
    BY <1>1, <2>1 DEF Ids
<1>4. CASE \E x \in Ids, b \in Bindings : Seal(x, b)
  <2>1. PICK x \in Ids, b \in Bindings : Idle /\ plans' = [plans EXCEPT ![x].preview.binding = b]
    BY <1>4 DEF Seal
  <2>2. plans[x] \in Plan
    BY <1>1 DEF Ids
  <2>3. plans'[id].state = plans[id].state
    BY <1>1, <2>1, <2>2 DEF Ids, Plan
  <2> QED
    BY <1>1, <2>1, <2>3
<1>5. CASE \E h \in previews : Approve(h[1], h[2]) \/ ValidateBegin(h[1], h[2])
  <2>1. PICK h \in previews : Approve(h[1], h[2]) \/ ValidateBegin(h[1], h[2])
    BY <1>5
  <2>2. Idle /\ TimeOk /\ CheckPlan(h[1], h[2])
    BY <2>1 DEF Approve, ValidateBegin
  <2>3. h[1] # id
    BY <2>2, DeadFailsCheck
  <2>4. plans'[id] = plans[id]
    BY <1>1, <2>1, <2>3 DEF Approve, ValidateBegin, Ids
  <2> QED
    BY <1>1, <2>2, <2>4
<1>6. CASE \E p \in validation.todo : ProbeItem(p)
  <2>1. plans' = plans /\ validation'.ready = validation.ready
    BY <1>1, <1>6 DEF ProbeItem, Validation
  <2> QED
    BY <2>1
<1>7. CASE ProbeFails
  <2>1. plans' = plans /\ validation'.ready = validation.ready
    BY <1>1, <1>7 DEF ProbeFails, Validation
  <2> QED
    BY <2>1
<1>8. CASE JudgeItem
  <2>1. plans' = plans
    BY <1>8 DEF JudgeItem
  <2>2. ASSUME validation.plan = id PROVE validation'.ready = validation.ready
    <3>1. PreflightStop(validation.plan)
      BY <1>1, <2>2, DeadStops
    <3> QED
      BY <1>1, <1>8, <3>1 DEF JudgeItem, Validation
  <2> QED
    BY <2>1, <2>2
<1>9. CASE ValidateEnd
  BY <1>1, <1>9 DEF ValidateEnd, None
<1>10. CASE WorldChanges
  <2>1. plans' = plans /\ (~Idle => validation'.ready = validation.ready)
    BY <1>1, <1>10 DEF WorldChanges, Validation
  <2> QED
    BY <1>1, <2>1
<1>11. CASE \/ \E p \in Paths : Discover(p)
            \/ OnlySeesTime \/ ClockSet \/ Cancel \/ UNCHANGED vars
            \/ \E v \in VersionSet : SetVersions(v)
  BY <1>2, <1>11 DEF Discover, OnlySeesTime, ClockSet, Cancel, SetVersions, vars
<1> QED
  BY <1>3, <1>4, <1>5, <1>6, <1>7, <1>8, <1>9, <1>10, <1>11 DEF Next

\* Code: check_plan and preflight_stop: a plan that was seen expired, or that a
\* version change outdated, is never approved or validated and yields no ready
\* item, although the clock may be set back and the versions restored.
THEOREM DeadPlansStayDeadAlways == Spec => DeadPlansStayDead
<1>1. IInv /\ [Next]_vars => [DeadStep]_vars
  BY DeadStepHolds
<1>2. [][DeadStep]_vars => DeadPlansStayDead
  BY DEF DeadStep, DeadPlansStayDead
<1> QED
  BY <1>1, <1>2, PlannerInvariance, PTL DEF Spec

=============================================================================
