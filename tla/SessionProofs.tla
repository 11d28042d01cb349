--------------------------- MODULE SessionProofs ---------------------------
(***************************************************************************)
(* The sessions that leave a receipt (the leftovers, the uninstall of an   *)
(* application and the simulator and runtime sessions) keep what it says   *)
(* true, for all inputs that InputsAreSound admits.                        *)
(*                                                                         *)
(* There is one inductive invariant for each of them; the theorems they    *)
(* lead to are in RemovalProofs.                                           *)
(***************************************************************************)
EXTENDS MCRemovals, FiniteSetTheorems, TLAPS

----------------------------------------------------------------------------
(* The leftovers.  What the record in memory and the durable one say of an *)
(* item is true, and the items still to be handled are not in the Trash;   *)
(* while nobody disturbs the batch every observation finds what the        *)
(* preview found.                                                          *)

OrphanRows == {"none", "planned", "started", "succeeded", "skipped", "failed", "unknown"}
NoOrphanRow == [x \in OrphanItems |-> "none"]
Before == {"preview", "ready", "failed", "begin"}
Moving == {"item", "start", "move", "record"}
OrphanLabels == Before \cup Moving \cup {"intent", "finish", "done"}

OrphanTypeOK ==
  /\ case \in OrphanCases /\ pc \in OrphanLabels
  /\ item \in [OrphanItems -> {"here", "trash", "replaced"}]
  /\ rec \in [OrphanItems -> OrphanRows] /\ dRec \in [OrphanItems -> OrphanRows]
  /\ todo \in Seq(OrphanItems) /\ sel \subseteq OrphanItems /\ moved \subseteq OrphanItems
  /\ jerr \in BOOLEAN /\ latch \in BOOLEAN /\ faults \in Nat /\ moves \in Nat

Tells(r) ==
  \A x \in OrphanItems :
    /\ item[x] = "trash" => r[x] \in {"started", "succeeded", "unknown"}
    /\ r[x] = "succeeded" => item[x] = "trash"
ToDo(x) == \E k \in 1..Len(todo) : todo[k] = x

\* What is still to be handled: each item once, none of them in the Trash.
OrphanQueue ==
  /\ \A j, k \in 1..Len(todo) : todo[j] = todo[k] => j = k
  /\ \A k \in 1..Len(todo) : item[todo[k]] # "trash" /\ todo[k] \in sel
  /\ pc \in Moving \cup {"intent"} \/ (pc = "finish" /\ ~jerr) =>
       \A x \in OrphanItems : rec[x] \in {"planned", "started"} => ToDo(x)

\* What begin has made sure of.
Promised == case.gate /\ sel # {} /\ Orphans!Distinct /\ sel \subseteq offered

\* Where the operation stands: what it holds, and what is durable.
OrphanStands ==
  /\ pc \in Before =>
       rec = NoOrphanRow /\ dRec = NoOrphanRow /\ todo = <<>> /\ moved = {} /\ ~latch
  /\ pc \in {"begin", "intent"} => sel = Orphans!ToSet(case.order)
  /\ pc = "intent" => todo = case.order /\ dRec = NoOrphanRow /\ moved = {} /\ ~latch
  /\ pc \in Moving \cup {"intent", "finish"} => Promised
  /\ pc \in {"start", "move"} => todo # <<>> /\ rec[todo[1]] = "started"
  /\ pc = "move" => dRec[todo[1]] = "started"
  /\ pc \in {"item"} \/ (pc = "finish" /\ ~jerr) => dRec = rec
  /\ pc = "finish" /\ ~jerr => todo = <<>>
  /\ jerr => pc \in {"finish", "done"}
  /\ result # "none" => pc = "done"
  /\ result = "report" => dRec = rec

\* Nothing has happened but the batch itself.
Still == moves = 0 /\ faults = 0 /\ ~cancel /\ ~expired
QuietWorld ==
  moves = 0 =>
    /\ copies = [i \in OrphanIds |-> {}] /\ running = {} /\ trash = case.trash /\ agents = {}
    /\ policy /\ recent = {} /\ place
    /\ \A x \in OrphanItems : item[x] # "replaced"
QuietPreview ==
  Still /\ pc # "preview" =>
    /\ seenTrash = case.trash /\ seenAgents = {}
    /\ \A x \in offered :
         x \in OrphanItems /\ Orphans!Rule(x) # "containers" /\ ~Orphans!Refused(x, seenTrash)
QuietBatch ==
  Still =>
    /\ ~latch /\ ~jerr
    /\ \A x \in OrphanItems : item[x] = "trash" => x \in moved
    /\ Promised /\ pc \notin Before =>
         /\ \A x \in sel : ~ToDo(x) => rec[x] = "succeeded"
         /\ pc = "done" => todo = <<>> /\ dRec = rec

OrphanInv ==
  OrphanTypeOK /\ Tells(rec) /\ Tells(dRec) /\ OrphanQueue /\ OrphanStands /\ QuietWorld /\ QuietPreview /\ QuietBatch

----------------------------------------------------------------------------

LEMMA OrphanInitInv == Orphans!Init => OrphanInv
<1> SUFFICES ASSUME Orphans!Init PROVE OrphanInv
  OBVIOUS
<1>0. rec = NoOrphanRow /\ dRec = NoOrphanRow
  BY DEF Orphans!Init, NoOrphanRow
<1>1. OrphanTypeOK
  <2>1. rec \in [OrphanItems -> OrphanRows] /\ dRec \in [OrphanItems -> OrphanRows]
    BY <1>0 DEF NoOrphanRow, OrphanRows
  <2>2. item \in [OrphanItems -> {"here", "trash", "replaced"}]
    BY DEF Orphans!Init
  <2>3. todo \in Seq(OrphanItems) /\ pc \in OrphanLabels
    BY DEF Orphans!Init, OrphanLabels, Before
  <2>4. sel \subseteq OrphanItems /\ moved \subseteq OrphanItems /\ jerr \in BOOLEAN /\ latch \in BOOLEAN
    BY DEF Orphans!Init
  <2> QED
    BY <2>1, <2>2, <2>3, <2>4 DEF Orphans!Init, OrphanTypeOK
<1>2. Tells(rec) /\ Tells(dRec)
  BY <1>0 DEF Orphans!Init, Tells, NoOrphanRow
<1>3. OrphanQueue /\ OrphanStands
  BY <1>0 DEF Orphans!Init, OrphanQueue, OrphanStands, Before, Moving
<1>4. QuietWorld /\ QuietPreview /\ QuietBatch
  BY DEF Orphans!Init, QuietWorld, QuietPreview, QuietBatch, Before
<1> QED
  BY <1>1, <1>2, <1>3, <1>4 DEF OrphanInv

\* What the host and the clock do besides calling the session.
LEMMA OrphanSameKeeps ==
  ASSUME OrphanInv, Still' => Still,
         UNCHANGED <<case, pc, item, copies, running, trash, agents, policy, recent, place, sel, todo,
                     latch, moved, rec, dRec, jerr, result, faults, moves, offered, seenTrash, seenAgents>>
  PROVE  OrphanInv'
<1>1. OrphanTypeOK' /\ Tells(rec)' /\ Tells(dRec)' /\ OrphanQueue' /\ OrphanStands'
  BY DEF Promised, Orphans!Distinct, OrphanInv, OrphanTypeOK, Tells, OrphanQueue, OrphanStands, ToDo
<1>2. QuietWorld'
  BY DEF OrphanInv, QuietWorld
<1>3. QuietPreview' /\ QuietBatch'
  BY DEF OrphanInv, QuietPreview, QuietBatch, Promised, ToDo, Orphans!Rule, Orphans!Refused, Orphans!Tier,
     Orphans!Id, Orphans!Has, Orphans!PolicyGuard, Orphans!Distinct
<1> QED
  BY <1>1, <1>2, <1>3 DEF OrphanInv

LEMMA OrphanHostKeeps ==
  ASSUME OrphanInv, Orphans!Cancel \/ Orphans!Release \/ Orphans!Expire
  PROVE  OrphanInv'
<1>1. /\ UNCHANGED <<case, pc, item, copies, running, trash, agents, policy, recent, place, sel, todo,
                     latch, moved, rec, dRec, jerr, result, faults, moves, offered, seenTrash, seenAgents>>
      /\ Still' => Still
  BY DEF Orphans!Cancel, Orphans!Release, Orphans!Expire, Orphans!world, Orphans!operation, Still
<1> QED
  BY <1>1, OrphanSameKeeps

LEMMA OrphanInterfereKeeps == ASSUME OrphanInv, Orphans!Interfere PROVE OrphanInv'
<1>1. /\ UNCHANGED <<case, pc, sel, todo, latch, moved, rec, dRec, jerr, result, faults>>
      /\ moves' = moves + 1 /\ moves' # 0 /\ moves' \in Nat
      /\ item' \in [OrphanItems -> {"here", "trash", "replaced"}]
      /\ \A x \in OrphanItems : item'[x] = "trash" <=> item[x] = "trash"
  BY DEF Orphans!Interfere, Orphans!operation, OrphanInv, OrphanTypeOK
<1>2. OrphanTypeOK' /\ Tells(rec)' /\ Tells(dRec)'
  BY <1>1 DEF OrphanInv, OrphanTypeOK, Tells
<1>3. OrphanQueue' /\ OrphanStands'
  BY <1>1 DEF Promised, Orphans!Distinct, OrphanInv, OrphanTypeOK, OrphanQueue, OrphanStands, ToDo, Orphans!Interfere, Orphans!handle
<1>4. QuietWorld' /\ QuietPreview' /\ QuietBatch'
  BY <1>1 DEF QuietWorld, QuietPreview, QuietBatch, Still
<1> QED
  BY <1>2, <1>3, <1>4 DEF OrphanInv

\* The preview, and the call that takes the session.
LEMMA OrphanPrepareKeeps == ASSUME OrphanInv, Orphans!Prepare PROVE OrphanInv'
<1>1. /\ UNCHANGED <<case, item, copies, running, trash, agents, policy, recent, place, sel, todo,
                     latch, moved, rec, dRec, jerr, result, moves, cancel, expired>>
      /\ pc = "preview" /\ pc' \in {"ready", "failed"} /\ faults' \in Nat /\ (Still' => Still)
  BY DEF Orphans!Prepare, Orphans!world, Orphans!operation, Orphans!Goto, Orphans!Fault, Still, OrphanInv, OrphanTypeOK
<1>2. OrphanTypeOK' /\ Tells(rec)' /\ Tells(dRec)' /\ OrphanQueue' /\ OrphanStands'
  BY <1>1 DEF OrphanInv, OrphanTypeOK, Tells, OrphanQueue, OrphanStands, ToDo, OrphanLabels, Before, Moving
<1>3. QuietWorld' /\ QuietBatch'
  BY <1>1 DEF OrphanInv, QuietWorld, QuietBatch, Before
<1>4. ASSUME Still' PROVE QuietPreview'
  <2>1. Still /\ trash = case.trash /\ agents = {}
    BY <1>1, <1>4 DEF OrphanInv, QuietWorld, Still
  <2>2. seenTrash' = case.trash /\ seenAgents' = {}
    BY <2>1 DEF Orphans!Prepare, Orphans!TrashBundles
  <2>3. \A x : /\ Orphans!Rule(x)' = Orphans!Rule(x)
               /\ Orphans!Refused(x, seenTrash)' <=> Orphans!Refused(x, case.trash)
    BY <1>1, <2>2 DEF Orphans!Rule, Orphans!Refused, Orphans!Tier, Orphans!Id, Orphans!Has, Orphans!PolicyGuard
  <2>4. ASSUME NEW x \in offered'
        PROVE  x \in OrphanItems /\ Orphans!Rule(x) # "containers" /\ ~Orphans!Refused(x, case.trash)
    BY <2>1, <2>4 DEF Orphans!Prepare, Orphans!Discovered, Orphans!TrashBundles
  <2> QED
    BY <1>1, <2>2, <2>3, <2>4 DEF QuietPreview
<1> QED
  BY <1>2, <1>3, <1>4 DEF OrphanInv, QuietPreview

LEMMA OrphanExecuteKeeps == ASSUME Orphans!LeftoversAssumption, OrphanInv, Orphans!Execute PROVE OrphanInv'
<1>1. /\ UNCHANGED <<case, item, copies, running, trash, agents, policy, recent, place, todo, latch,
                     moved, rec, dRec, jerr, result, faults, moves, cancel, expired, offered, seenTrash, seenAgents>>
      /\ pc = "ready" /\ pc' = "begin" /\ sel' = Orphans!ToSet(case.order)
  BY DEF Orphans!Execute, Orphans!world, Orphans!handle, Orphans!Goto
<1>2. sel' \subseteq OrphanItems
  BY <1>1 DEF OrphanInv, OrphanTypeOK, Orphans!LeftoversAssumption, Orphans!ToSet
<1>3. OrphanTypeOK' /\ Tells(rec)' /\ Tells(dRec)'
  BY <1>1, <1>2 DEF OrphanInv, OrphanTypeOK, Tells, OrphanLabels, Before
<1>4. OrphanQueue' /\ OrphanStands'
  BY <1>1 DEF OrphanInv, OrphanQueue, OrphanStands, ToDo, Before, Moving
<1>5. QuietWorld' /\ QuietPreview' /\ QuietBatch'
  BY <1>1 DEF OrphanInv, QuietWorld, QuietPreview, QuietBatch, Still, Before, Orphans!Rule, Orphans!Refused,
     Orphans!Tier, Orphans!Id, Orphans!Has, Orphans!PolicyGuard
<1> QED
  BY <1>3, <1>4, <1>5 DEF OrphanInv

\* While all is still, what was offered is found as it was shown.
LEMMA QuietObservation ==
  ASSUME Orphans!LeftoversAssumption, OrphanInv, Still, pc # "preview",
         NEW xs, xs \subseteq offered, \A x \in xs : item[x] # "trash"
  PROVE  place /\ Orphans!Observe(xs)
<1>1. /\ copies = [i \in OrphanIds |-> {}] /\ running = {} /\ trash = case.trash /\ agents = {}
      /\ policy /\ recent = {} /\ place /\ \A x \in OrphanItems : item[x] # "replaced"
  BY DEF OrphanInv, QuietWorld, Still
<1>2. /\ seenTrash = case.trash /\ seenAgents = {}
      /\ \A x \in offered :
           x \in OrphanItems /\ Orphans!Rule(x) # "containers" /\ ~Orphans!Refused(x, seenTrash)
  BY DEF OrphanInv, QuietPreview
<1>3. Orphans!Budget /\ Orphans!TrashReadable /\ Orphans!TrashBundles = seenTrash
  BY <1>1, <1>2 DEF Still, OrphanInv, QuietBatch, Orphans!Budget, Orphans!TrashReadable, Orphans!TrashBundles
<1>4. ASSUME NEW x \in xs
      PROVE  /\ \A i \in Orphans!Queries(Orphans!Id(x)) : Orphans!NoCopy(i)
             /\ Orphans!PolicyGuard(x) /\ item[x] = "here"
             /\ Orphans!NotRunning(x) /\ Orphans!LaunchAgents(x) /\ Orphans!OldEnough(x)
  <2>1. x \in OrphanItems /\ ~Orphans!Refused(x, seenTrash)
    BY <1>2
  <2>2. Orphans!Id(x) \in OrphanIds
    BY <2>1 DEF Orphans!Id, Orphans!LeftoversAssumption, OrphanInv, OrphanTypeOK
  <2>3. Orphans!Queries(Orphans!Id(x)) \subseteq OrphanIds
    BY <2>2 DEF Orphans!Queries, Orphans!LeftoversAssumption
  <2>4. \A i \in Orphans!Queries(Orphans!Id(x)) : Orphans!NoCopy(i)
    BY <1>1, <2>3 DEF Orphans!NoCopy
  <2>5. Orphans!PolicyGuard(x) /\ Orphans!NotRunning(x) /\ Orphans!LaunchAgents(x) /\ Orphans!OldEnough(x)
    BY <1>1, <1>2, <2>1 DEF Orphans!Refused, Orphans!NotRunning, Orphans!LaunchAgents, Orphans!Snapshot, Orphans!OldEnough
  <2>6. item[x] = "here"
    BY <1>1, <2>1 DEF OrphanInv, OrphanTypeOK
  <2> QED
    BY <2>4, <2>5, <2>6
<1> QED
  BY <1>1, <1>3, <1>4 DEF Orphans!Observe

LEMMA OrphanBeginKeeps == ASSUME Orphans!LeftoversAssumption, OrphanInv, Orphans!Begin PROVE OrphanInv'
<1>1. /\ UNCHANGED <<case, item, copies, running, trash, agents, policy, recent, place, sel, latch,
                     moved, dRec, jerr, faults, moves, cancel, expired, offered, seenTrash, seenAgents>>
      /\ pc = "begin" /\ pc' \in {"intent", "done"}
  BY DEF Orphans!Begin, Orphans!world, Orphans!handle, Orphans!Goto
<1>2. /\ rec = NoOrphanRow /\ dRec = NoOrphanRow /\ todo = <<>> /\ moved = {} /\ ~latch
      /\ sel = Orphans!ToSet(case.order) /\ ~jerr /\ result = "none" /\ OrphanTypeOK
  BY <1>1 DEF OrphanInv, OrphanStands, Before
<1>3. \A x \in OrphanItems : item[x] # "trash"
  BY <1>2 DEF OrphanInv, Tells, NoOrphanRow
<1>4. QuietWorld' /\ QuietPreview'
  BY <1>1 DEF OrphanInv, QuietWorld, QuietPreview, Still, Orphans!Rule, Orphans!Refused,
     Orphans!Tier, Orphans!Id, Orphans!Has, Orphans!PolicyGuard
<1>5. CASE pc' = "intent"
  <2>1. /\ case.gate /\ sel # {} /\ Orphans!Distinct /\ sel \subseteq offered /\ result' = result
        /\ rec' = [x \in OrphanItems |-> IF x \in sel THEN "planned" ELSE "none"] /\ todo' = case.order
    BY <1>5 DEF Orphans!Begin, Orphans!Goto
  <2>2. case.order \in Seq(OrphanItems)
    BY <1>2 DEF OrphanTypeOK, Orphans!LeftoversAssumption
  <2>3. OrphanTypeOK'
    BY <1>1, <1>2, <1>5, <2>1, <2>2 DEF OrphanTypeOK, OrphanLabels, OrphanRows
  <2>4. Tells(rec)' /\ Tells(dRec)'
    BY <1>1, <1>2, <1>3, <2>1 DEF Tells, NoOrphanRow
  <2>5. \A x : x \in sel <=> \E k \in 1..Len(case.order) : case.order[k] = x
    BY <1>2, <2>2 DEF Orphans!ToSet
  <2>6. OrphanQueue'
    BY <1>1, <1>3, <2>1, <2>2, <2>5 DEF OrphanQueue, ToDo, Orphans!Distinct, Orphans!IsInjective
  <2>7. OrphanStands'
    BY <1>1, <1>2, <1>5, <2>1 DEF Promised, Orphans!Distinct, OrphanStands, Before, Moving
  <2>8. QuietBatch'
    BY <1>1, <1>2, <1>3, <1>5, <2>1, <2>5 DEF QuietBatch, ToDo
  <2> QED
    BY <1>4, <2>3, <2>4, <2>6, <2>7, <2>8 DEF OrphanInv
<1>6. CASE pc' = "done"
  <2>1. rec' = rec /\ todo' = todo /\ result' = "refused"
    BY <1>6 DEF Orphans!Begin, Orphans!Goto
  <2>2. OrphanTypeOK' /\ Tells(rec)' /\ Tells(dRec)'
    BY <1>1, <1>2, <1>3, <1>6, <2>1 DEF OrphanTypeOK, OrphanLabels, Tells, NoOrphanRow
  <2>3. OrphanQueue' /\ OrphanStands'
    BY <1>1, <1>2, <1>6, <2>1 DEF OrphanQueue, OrphanStands, Before, Moving
  <2>4. ASSUME Still, Promised PROVE FALSE
    <3>1. sel \subseteq OrphanItems /\ \A x \in sel : item[x] # "trash"
      BY <1>2, <1>3 DEF OrphanTypeOK
    <3>2. place /\ Orphans!Observe(sel)
      BY <1>1, <2>4, <3>1, QuietObservation DEF Promised
    <3> QED
      BY <1>6, <2>4, <3>2 DEF Promised, Still, Orphans!Begin, Orphans!Goto
  <2>5. QuietBatch'
    BY <1>1, <1>2, <1>3, <2>4 DEF QuietBatch, Still, Promised, Orphans!Distinct
  <2> QED
    BY <1>4, <2>2, <2>3, <2>5 DEF OrphanInv
<1> QED
  BY <1>1, <1>5, <1>6

\* The intent: the store accepts what was offered.
LEMMA OrphanIntentKeeps == ASSUME Orphans!LeftoversAssumption, OrphanInv, Orphans!PublishIntent PROVE OrphanInv'
<1>1. /\ UNCHANGED <<case, item, copies, running, trash, agents, policy, recent, place, sel, todo, latch, rec,
                     moved, jerr, moves, cancel, expired, offered, seenTrash, seenAgents>>
      /\ pc = "intent" /\ dRec' \in {dRec, rec} /\ faults' \in Nat /\ (Still' => Still /\ faults' = faults)
      /\ \/ pc' = "item" /\ dRec' = rec /\ result' = result
         \/ pc' = "done" /\ result' = "refused"
  BY DEF Orphans!PublishIntent, Orphans!world, Orphans!handle, Orphans!Goto, Orphans!Fault, OrphanInv, OrphanTypeOK, Still
<1>2. OrphanTypeOK' /\ Tells(rec)' /\ Tells(dRec)'
  BY <1>1 DEF OrphanInv, OrphanTypeOK, Tells, OrphanLabels, Moving
<1>3. OrphanQueue' /\ OrphanStands'
  BY <1>1 DEF Promised, Orphans!Distinct, OrphanInv, OrphanQueue, OrphanStands, ToDo, Before, Moving
<1>4. QuietWorld' /\ QuietPreview'
  BY <1>1 DEF OrphanInv, QuietWorld, QuietPreview, Still, Orphans!Rule, Orphans!Refused,
     Orphans!Tier, Orphans!Id, Orphans!Has, Orphans!PolicyGuard
<1>5. ASSUME Still', Promised PROVE pc' = "item"
  <2>1. \A x \in sel : Orphans!Rule(x) # "containers" /\ ~Orphans!Refused(x, seenTrash)
    BY <1>1, <1>5 DEF OrphanInv, QuietPreview, Promised
  <2>2. \A x \in sel : \/ Orphans!Tier(x, seenTrash) = "name_only" /\ Orphans!Rule(x) = "caches"
                       \/ Orphans!Tier(x, seenTrash) = "trashed_bundle" /\ Orphans!Rule(x) # "containers"
    BY <2>1 DEF Orphans!Refused, Orphans!Tier
  <2>3. Orphans!ContextValid(sel, UNION {Orphans!Queries(Orphans!Id(x)) : x \in sel})
    BY <1>5, <2>2 DEF Orphans!ContextValid, Promised
  <2>4. faults' # faults + 1
    BY <1>1, <1>5 DEF OrphanInv, OrphanTypeOK
  <2> QED
    BY <1>5, <2>3, <2>4 DEF Orphans!PublishIntent, Orphans!Goto, Orphans!Fault
<1>6. QuietBatch'
  <2>1. Promised' <=> Promised
    BY <1>1 DEF Promised, Orphans!Distinct
  <2>2. \A x : ToDo(x)' <=> ToDo(x)
    BY <1>1 DEF ToDo
  <2> QED
    BY <1>1, <1>5, <2>1, <2>2 DEF OrphanInv, QuietBatch, Before
<1> QED
  BY <1>2, <1>3, <1>4, <1>6 DEF OrphanInv

\* What the quiet batch says carries over when its inputs stay.
LEMMA QuietCarries ==
  ASSUME OrphanInv, UNCHANGED <<case, copies, running, trash, agents, policy, recent, place, moves, cancel, expired,
                                offered, seenTrash, seenAgents, sel>>,
         pc # "preview", faults' \in Nat, faults' = 0 => faults = 0,
         \A x \in OrphanItems : item'[x] # "replaced" \/ item'[x] = item[x]
  PROVE  QuietWorld' /\ QuietPreview' /\ (Still' => Still) /\ (Promised' <=> Promised)
<1>1. QuietWorld'
  BY DEF OrphanInv, QuietWorld
<1>2. QuietPreview'
  BY DEF OrphanInv, QuietPreview, Still, Orphans!Rule, Orphans!Refused, Orphans!Tier, Orphans!Id,
     Orphans!Has, Orphans!PolicyGuard
<1> QED
  BY <1>1, <1>2 DEF Still, Promised, Orphans!Distinct

\* A publication in the batch.
LEMMA OrphanPublishKeeps ==
  ASSUME OrphanInv, Orphans!PublishStart \/ Orphans!RecordItem
  PROVE  OrphanInv'
<1>1. /\ UNCHANGED <<case, item, copies, running, trash, agents, policy, recent, place, sel, todo, latch, rec, result,
                     moved, moves, cancel, expired, offered, seenTrash, seenAgents>>
      /\ pc \in {"start", "record"} /\ faults' \in Nat /\ (faults' = 0 => faults = 0)
      /\ \/ dRec' = rec /\ jerr' = jerr /\ faults' = faults
         \/ dRec' \in {dRec, rec} /\ jerr' /\ faults' # 0
      /\ pc' = IF pc = "start" THEN (IF jerr' THEN "finish" ELSE "move")
               ELSE (IF jerr' \/ todo = <<>> THEN "finish" ELSE "item")
  BY DEF Orphans!PublishStart, Orphans!RecordItem, Orphans!PublishRecord, Orphans!world, Orphans!handle,
     Orphans!Goto, Orphans!Fault, OrphanInv, OrphanTypeOK
<1>2. OrphanTypeOK /\ OrphanQueue /\ OrphanStands /\ ~jerr /\ jerr' \in BOOLEAN
  BY <1>1 DEF OrphanInv, OrphanStands, Orphans!PublishStart, Orphans!RecordItem, Orphans!PublishRecord, OrphanTypeOK
<1>3. OrphanTypeOK' /\ Tells(rec)' /\ Tells(dRec)'
  BY <1>1, <1>2 DEF OrphanInv, OrphanTypeOK, Tells, OrphanLabels, Moving
<1>4. OrphanQueue'
  BY <1>1, <1>2 DEF OrphanQueue, ToDo, Moving
<1>5. ASSUME pc = "start" PROVE rec[todo[1]] = "started" /\ todo # <<>>
  BY <1>5 DEF OrphanInv, OrphanStands
<1>6. OrphanStands'
  BY <1>1, <1>2, <1>5 DEF Promised, Orphans!Distinct, OrphanStands, Before, Moving
<1>7. QuietWorld' /\ QuietPreview' /\ (Still' => Still) /\ (Promised' <=> Promised)
  BY <1>1, QuietCarries DEF OrphanInv, OrphanTypeOK
<1>8. QuietBatch'
  <2>1. \A x : ToDo(x)' <=> ToDo(x)
    BY <1>1 DEF ToDo
  <2> QED
    BY <1>1, <1>2, <1>7, <2>1 DEF OrphanInv, QuietBatch, Before, Still
<1> QED
  BY <1>3, <1>4, <1>6, <1>7, <1>8 DEF OrphanInv

\* Handling the first of what is to be done leaves the others to be done.
LEMMA OrphanTail ==
  ASSUME OrphanTypeOK, OrphanQueue, todo # <<>>, todo' = Tail(todo)
  PROVE  /\ todo[1] \in OrphanItems /\ Head(todo) = todo[1] /\ ToDo(todo[1])
         /\ \A x : ToDo(x)' <=> ToDo(x) /\ x # todo[1]
         /\ todo' \in Seq(OrphanItems) /\ \A j, k \in 1..Len(todo') : todo'[j] = todo'[k] => j = k
         /\ \A k \in 1..Len(todo') : ToDo(todo'[k]) /\ todo'[k] # todo[1]
<1>1. todo \in Seq(OrphanItems) /\ Len(todo) \in Nat \ {0} /\ Head(todo) = todo[1]
  BY DEF OrphanTypeOK
<1>2. /\ todo' \in Seq(OrphanItems) /\ Len(todo') = Len(todo) - 1
      /\ \A k \in 1..Len(todo') : todo'[k] = todo[k + 1] /\ k + 1 \in 1..Len(todo) /\ k + 1 # 1
  BY <1>1
<1>3. todo[1] \in OrphanItems /\ ToDo(todo[1])
  BY <1>1 DEF ToDo
<1>4. \A j, k \in 1..Len(todo) : todo[j] = todo[k] => j = k
  BY DEF OrphanQueue
<1>5. \A j, k \in 1..Len(todo') : todo'[j] = todo'[k] => j = k
  <2> SUFFICES ASSUME NEW j \in 1..Len(todo'), NEW k \in 1..Len(todo'), todo'[j] = todo'[k] PROVE j = k
    OBVIOUS
  <2>1. j + 1 = k + 1
    BY <1>2, <1>4
  <2> QED
    BY <1>1, <1>2, <2>1
<1>6. \A k \in 1..Len(todo') : todo'[k] # todo[1]
  BY <1>1, <1>2, <1>4
<1>7. ASSUME NEW x PROVE ToDo(x)' <=> ToDo(x) /\ x # todo[1]
  <2>1. ASSUME ToDo(x)' PROVE ToDo(x) /\ x # todo[1]
    BY <1>2, <1>6, <2>1 DEF ToDo
  <2>2. ASSUME ToDo(x), x # todo[1] PROVE ToDo(x)'
    <3>1. PICK k \in 1..Len(todo) : todo[k] = x /\ k # 1
      BY <2>2 DEF ToDo
    <3>2. k - 1 \in 1..Len(todo') /\ (k - 1) + 1 = k
      BY <1>1, <1>2, <3>1
    <3>3. todo'[k - 1] = x
      BY <1>2, <3>1, <3>2
    <3> QED
      BY <3>2, <3>3 DEF ToDo
  <2> QED
    BY <2>1, <2>2
<1>8. \A k \in 1..Len(todo') : ToDo(todo'[k]) /\ todo'[k] # todo[1]
  BY <1>1, <1>2, <1>4 DEF ToDo
<1> QED
  BY <1>1, <1>2, <1>3, <1>5, <1>6, <1>7, <1>8

\* The check before an item: a refusal stops the batch.
LEMMA OrphanCheckKeeps == ASSUME Orphans!LeftoversAssumption, OrphanInv, Orphans!ItemCheck PROVE OrphanInv'
<1>1. /\ UNCHANGED <<case, item, copies, running, trash, agents, policy, recent, place, sel, result, dRec, jerr,
                     moved, moves, cancel, expired, offered, seenTrash, seenAgents>>
      /\ pc = "item" /\ todo # <<>> /\ faults' \in Nat /\ (faults' = 0 => faults = 0)
  BY DEF Orphans!ItemCheck, Orphans!world, Orphans!handle, Orphans!Fault, OrphanInv, OrphanTypeOK
<1>2. OrphanTypeOK /\ OrphanQueue /\ OrphanStands /\ ~jerr /\ result = "none"
  BY <1>1 DEF OrphanInv, OrphanStands
<1>3. QuietWorld' /\ QuietPreview' /\ (Still' => Still) /\ (Promised' <=> Promised)
  BY <1>1, QuietCarries DEF OrphanInv, OrphanTypeOK
<1>4. /\ todo \in Seq(OrphanItems) /\ Len(todo) \in Nat \ {0} /\ Head(todo) = todo[1] /\ todo[1] \in OrphanItems
      /\ item[todo[1]] # "trash"
  BY <1>1, <1>2 DEF OrphanTypeOK, OrphanQueue
<1>5. CASE pc' = "start"
  <2>1. UNCHANGED <<todo, latch, faults>> /\ rec' = [rec EXCEPT ![todo[1]] = "started"]
    BY <1>4, <1>5 DEF Orphans!ItemCheck, Orphans!Goto
  <2>2. OrphanTypeOK' /\ Tells(rec)' /\ Tells(dRec)'
    BY <1>1, <1>2, <1>4, <1>5, <2>1 DEF OrphanInv, OrphanTypeOK, Tells, OrphanLabels, Moving, OrphanRows
  <2>3. ToDo(todo[1])
    BY <1>4 DEF ToDo
  <2>4. OrphanQueue'
    BY <1>1, <1>2, <1>4, <1>5, <2>1, <2>3 DEF OrphanQueue, ToDo, Moving, OrphanTypeOK
  <2>5. OrphanStands'
    BY <1>1, <1>2, <1>4, <1>5, <2>1 DEF Promised, Orphans!Distinct, OrphanStands, Before, Moving, OrphanTypeOK
  <2>6. QuietBatch'
    <3>1. \A x : ToDo(x)' <=> ToDo(x)
      BY <2>1 DEF ToDo
    <3>2. \A x \in sel : ~ToDo(x) => rec'[x] = rec[x]
      BY <1>2, <2>1, <2>3 DEF OrphanTypeOK
    <3> QED
      BY <1>1, <1>2, <1>3, <1>5, <2>1, <3>1, <3>2 DEF OrphanInv, QuietBatch, Before
  <2> QED
    BY <1>3, <2>2, <2>4, <2>5, <2>6 DEF OrphanInv
<1>6. CASE pc' = "record"
  <2>1. /\ rec' = [rec EXCEPT ![todo[1]] = "skipped"] /\ latch' = TRUE /\ todo' = Tail(todo)
        /\ ~(~latch /\ place /\ Orphans!Observe(Orphans!ToSet(todo))) \/ faults' = faults + 1
    BY <1>4, <1>6 DEF Orphans!ItemCheck, Orphans!Goto, Orphans!Fault
  <2>2. OrphanTypeOK' /\ Tells(rec)' /\ Tells(dRec)'
    BY <1>1, <1>2, <1>4, <1>6, <2>1, OrphanTail DEF OrphanInv, OrphanTypeOK, Tells, OrphanLabels, Moving, OrphanRows
  <2>3. OrphanQueue'
    <3>1. \A k \in 1..Len(todo') : item'[todo'[k]] # "trash"
      BY <1>1, <1>2, <2>1, OrphanTail DEF OrphanQueue, ToDo
    <3>2. \A x \in OrphanItems : rec'[x] \in {"planned", "started"} => ToDo(x)'
      BY <1>1, <1>2, <2>1, OrphanTail DEF OrphanQueue, Moving, OrphanTypeOK
    <3> QED
      BY <1>1, <1>2, <2>1, <3>1, <3>2, OrphanTail DEF OrphanQueue
  <2>4. OrphanStands'
    BY <1>1, <1>2, <1>6, <2>1 DEF Promised, Orphans!Distinct, OrphanStands, Before, Moving
  <2>5. ASSUME Still' PROVE FALSE
    <3>1. Still /\ ~latch /\ faults' # faults + 1
      BY <1>1, <1>3, <2>5 DEF Still, OrphanInv, QuietBatch
    <3>2. Orphans!ToSet(todo) \subseteq offered /\ \A x \in Orphans!ToSet(todo) : item[x] # "trash"
      BY <1>1, <1>2, <1>4 DEF Orphans!ToSet, OrphanQueue, OrphanStands, Promised, Moving
    <3>3. place /\ Orphans!Observe(Orphans!ToSet(todo))
      BY <1>1, <3>1, <3>2, QuietObservation
    <3> QED
      BY <2>1, <3>1, <3>3
  <2> QED
    BY <1>3, <2>2, <2>3, <2>4, <2>5 DEF OrphanInv, QuietBatch
<1> QED
  BY <1>5, <1>6 DEF Orphans!ItemCheck, Orphans!Goto

\* The native call: all its outcomes are told as they are.
LEMMA OrphanMoveKeeps == ASSUME Orphans!LeftoversAssumption, OrphanInv, Orphans!MoveItem PROVE OrphanInv'
<1>1. /\ UNCHANGED <<case, copies, running, trash, agents, policy, recent, place, sel, result, dRec, jerr,
                     moves, cancel, expired, offered, seenTrash, seenAgents>>
      /\ pc = "move" /\ pc' = "record" /\ todo' = Tail(todo) /\ faults' \in Nat /\ (faults' = 0 => faults = 0)
  BY DEF Orphans!MoveItem, Orphans!handle, Orphans!Goto, Orphans!Fault, OrphanInv, OrphanTypeOK
<1>2. OrphanTypeOK /\ OrphanQueue /\ OrphanStands /\ ~jerr /\ result = "none" /\ todo # <<>> /\ Promised
  BY <1>1 DEF OrphanInv, OrphanStands, Moving
<1>3. /\ todo \in Seq(OrphanItems) /\ Len(todo) \in Nat \ {0} /\ Head(todo) = todo[1] /\ todo[1] \in OrphanItems
      /\ item[todo[1]] # "trash" /\ todo[1] \in sel /\ dRec[todo[1]] = "started"
  BY <1>1, <1>2 DEF OrphanTypeOK, OrphanQueue, OrphanStands
<1> DEFINE x == todo[1]
           clear == place /\ Orphans!Observe(Orphans!ToSet(todo))
<1>4. PICK s \in {"skipped", "succeeded", "failed", "unknown"} :
        /\ rec' = [rec EXCEPT ![x] = s]
        /\ \/ item' = item /\ s # "succeeded"
           \/ item' = [item EXCEPT ![x] = "trash"] /\ s \in {"succeeded", "unknown"}
        /\ moved' \in {moved, moved \cup {x}} /\ latch' \in BOOLEAN
        /\ \/ s = "skipped" /\ ~clear
           \/ faults' = faults + 1
           \/ s = "succeeded" /\ latch' = latch /\ moved' = moved \cup {x}
  <2>1. Orphans!Witnessed(Head(todo)) = moved \cup {x}
    BY <1>3 DEF Orphans!Witnessed
  <2> QED
    BY <1>1, <1>2, <1>3, <2>1 DEF Orphans!MoveItem, Orphans!Fault, OrphanTypeOK
<1>5. /\ rec'[x] = s /\ \A y \in OrphanItems : y # x => rec'[y] = rec[y] /\ item'[y] = item[y]
      /\ item' \in [OrphanItems -> {"here", "trash", "replaced"}] /\ rec' \in [OrphanItems -> OrphanRows]
      /\ item'[x] = "trash" => s \in {"succeeded", "unknown"}
      /\ s = "succeeded" => item'[x] = "trash"
  BY <1>2, <1>3, <1>4 DEF OrphanTypeOK, OrphanRows
<1>6. OrphanTypeOK'
  BY <1>1, <1>2, <1>3, <1>4, <1>5, OrphanTail DEF OrphanTypeOK, OrphanLabels, Moving
<1>7. Tells(rec)' /\ Tells(dRec)'
  BY <1>1, <1>2, <1>3, <1>5 DEF OrphanInv, Tells
<1>8. OrphanQueue'
  <2>1. \A k \in 1..Len(todo') : item'[todo'[k]] # "trash" /\ todo'[k] \in sel'
    <3> SUFFICES ASSUME NEW k \in 1..Len(todo') PROVE item'[todo'[k]] # "trash" /\ todo'[k] \in sel'
      OBVIOUS
    <3>1. PICK j \in 1..Len(todo) : todo[j] = todo'[k] /\ todo[j] # x
      BY <1>1, <1>2, OrphanTail DEF ToDo
    <3>2. item[todo[j]] # "trash" /\ todo[j] \in sel /\ todo[j] \in OrphanItems
      BY <1>2, <1>3 DEF OrphanQueue
    <3> QED
      BY <1>1, <1>5, <3>1, <3>2
  <2>2. \A y \in OrphanItems : rec'[y] \in {"planned", "started"} => ToDo(y)'
    BY <1>1, <1>2, <1>4, <1>5, OrphanTail DEF OrphanQueue, Moving
  <2> QED
    BY <1>1, <1>2, <2>1, <2>2, OrphanTail DEF OrphanQueue
<1>9. Promised' <=> Promised
  BY <1>1 DEF Promised, Orphans!Distinct
<1>10. OrphanStands'
  BY <1>1, <1>2, <1>9 DEF OrphanStands, Before, Moving
<1>11. \A y \in OrphanItems : item'[y] # "replaced" \/ item'[y] = item[y]
  BY <1>2, <1>3, <1>4 DEF OrphanTypeOK
<1>12. QuietWorld' /\ QuietPreview' /\ (Still' => Still)
  BY <1>1, <1>11, QuietCarries DEF OrphanInv, OrphanTypeOK
<1>13. ASSUME Still'
       PROVE  s = "succeeded" /\ latch' = latch /\ moved' = moved \cup {x}
  <2>1. Still /\ faults' # faults + 1
    BY <1>1, <1>12, <1>13 DEF Still, OrphanInv, OrphanTypeOK
  <2>2. Orphans!ToSet(todo) \subseteq offered /\ \A y \in Orphans!ToSet(todo) : item[y] # "trash"
    BY <1>2, <1>3 DEF Orphans!ToSet, OrphanQueue, Promised
  <2>3. clear
    BY <1>1, <2>1, <2>2, QuietObservation
  <2> QED
    BY <1>4, <2>1, <2>3
<1>14. QuietBatch'
  <2> SUFFICES ASSUME Still' PROVE
      /\ ~latch' /\ ~jerr'
      /\ \A y \in OrphanItems : item'[y] = "trash" => y \in moved'
      /\ \A y \in sel : ~ToDo(y)' => rec'[y] = "succeeded"
    BY <1>1 DEF QuietBatch
  <2>1. /\ ~latch /\ \A y \in OrphanItems : item[y] = "trash" => y \in moved
        /\ \A y \in sel : ~ToDo(y) => rec[y] = "succeeded"
    BY <1>1, <1>2, <1>12 DEF OrphanInv, QuietBatch, Before
  <2>2. s = "succeeded" /\ latch' = latch /\ moved' = moved \cup {x}
    BY <1>13
  <2>3. \A y \in sel : ~ToDo(y)' => rec'[y] = "succeeded"
    BY <1>1, <1>2, <1>5, <2>1, <2>2, OrphanTail DEF OrphanTypeOK
  <2> QED
    BY <1>1, <1>2, <1>5, <2>1, <2>2, <2>3
<1> QED
  BY <1>6, <1>7, <1>8, <1>10, <1>12, <1>14 DEF OrphanInv

\* What the host is told.
LEMMA OrphanFinishKeeps == ASSUME OrphanInv, Orphans!Finish PROVE OrphanInv'
<1>1. /\ UNCHANGED <<case, item, copies, running, trash, agents, policy, recent, place, sel, todo, latch, dRec, jerr,
                     moved, faults, moves, cancel, expired, offered, seenTrash, seenAgents>>
      /\ pc = "finish" /\ pc' = "done" /\ result' = IF jerr THEN "journal_error" ELSE "report"
      /\ rec' = [y \in OrphanItems |-> CASE rec[y] = "planned" -> "skipped"
                               [] rec[y] = "started" -> "unknown"
                               [] OTHER -> rec[y]]
  BY DEF Orphans!Finish, Orphans!world, Orphans!handle, Orphans!Goto
<1>2. OrphanTypeOK /\ OrphanQueue /\ OrphanStands
  BY DEF OrphanInv
<1>3. /\ rec' \in [OrphanItems -> OrphanRows]
      /\ \A y \in OrphanItems : /\ rec'[y] = IF rec[y] = "planned" THEN "skipped" ELSE IF rec[y] = "started" THEN "unknown" ELSE rec[y]
  BY <1>1, <1>2 DEF OrphanTypeOK, OrphanRows
<1>4. OrphanTypeOK' /\ Tells(rec)' /\ Tells(dRec)'
  BY <1>1, <1>2, <1>3 DEF OrphanInv, OrphanTypeOK, Tells, OrphanLabels
<1>5. ~jerr => rec' = rec /\ todo = <<>> /\ dRec = rec
  <2> SUFFICES ASSUME ~jerr PROVE rec' = rec /\ todo = <<>> /\ dRec = rec
    OBVIOUS
  <2>1. todo = <<>> /\ dRec = rec
    BY <1>1, <1>2 DEF OrphanStands
  <2>2. \A y \in OrphanItems : ~ToDo(y)
    BY <2>1 DEF ToDo
  <2>3. \A y \in OrphanItems : rec'[y] = rec[y]
    BY <1>1, <1>2, <1>3, <2>2 DEF OrphanQueue
  <2> QED
    BY <1>2, <1>3, <2>1, <2>3 DEF OrphanTypeOK
<1>6. OrphanQueue' /\ OrphanStands'
  BY <1>1, <1>2, <1>5 DEF OrphanQueue, OrphanStands, Before, Moving
<1>7. QuietWorld' /\ QuietPreview' /\ (Still' => Still) /\ (Promised' <=> Promised)
  BY <1>1, <1>2, QuietCarries DEF OrphanTypeOK
<1>8. \A y : ToDo(y)' <=> ToDo(y)
  BY <1>1 DEF ToDo
<1>9. QuietBatch'
  BY <1>1, <1>5, <1>7, <1>8 DEF OrphanInv, QuietBatch, Before
<1> QED
  BY <1>4, <1>6, <1>7, <1>9 DEF OrphanInv

LEMMA OrphanNextInv == ASSUME Orphans!LeftoversAssumption, OrphanInv, Orphans!Next PROVE OrphanInv'
BY OrphanHostKeeps, OrphanInterfereKeeps, OrphanPrepareKeeps, OrphanExecuteKeeps, OrphanBeginKeeps,
   OrphanIntentKeeps, OrphanPublishKeeps, OrphanCheckKeeps, OrphanMoveKeeps, OrphanFinishKeeps DEF Orphans!Next

LEMMA OrphanInvImplies ==
  ASSUME OrphanInv PROVE Orphans!LeftoverReceiptIsTrue /\ Orphans!QuietBatchCompletes
<1>1. Orphans!LeftoverReceiptIsTrue
  BY DEF OrphanInv, Tells, OrphanStands, Orphans!LeftoverReceiptIsTrue
<1>2. ASSUME pc = "done", moves = 0, faults = 0, ~cancel, ~expired,
             case.gate, sel # {}, Orphans!Distinct, sel \subseteq offered, NEW x \in sel
      PROVE  item[x] = "trash" /\ dRec[x] = "succeeded"
  <2>1. Still /\ Promised
    BY <1>2 DEF Still, Promised
  <2>2. todo = <<>> /\ dRec = rec /\ (~ToDo(x) => rec[x] = "succeeded")
    BY <1>2, <2>1 DEF OrphanInv, QuietBatch, Before
  <2>3. dRec[x] = "succeeded"
    BY <2>2 DEF ToDo
  <2>4. x \in OrphanItems
    BY <1>2 DEF OrphanInv, OrphanTypeOK
  <2> QED
    BY <2>3, <2>4 DEF OrphanInv, Tells
<1> QED
  BY <1>1, <1>2 DEF Orphans!QuietBatchCompletes

LEMMA OrphanStutters == ASSUME OrphanInv, UNCHANGED vars PROVE OrphanInv'
<1>1. /\ UNCHANGED <<case, pc, item, copies, running, trash, agents, policy, recent, place, sel, todo,
                     latch, moved, rec, dRec, jerr, result, faults, moves, offered, seenTrash, seenAgents>>
      /\ Still' => Still
  BY DEF vars, Still
<1> QED
  BY <1>1, OrphanSameKeeps

----------------------------------------------------------------------------
(* Uninstall.  A handle begins once.  A receipt of the bundle that says it *)
(* was left alone is right about that, also of what Finder may still do;   *)
(* items are handled when the bundle's receipt durably says succeeded, and *)
(* each of them behind its own durable start.                              *)

ParentStates == {"none", "planned", "started", "succeeded", "skipped", "failed", "unknown"}
Finals == {"succeeded", "skipped", "failed", "unknown"}
Touched == {"started", "succeeded", "unknown"}
Preparing == {"intent", "intent2", "start"}
OnItems == {"items", "itemStart", "itemMove", "itemRecord", "finish"}
BundleLabels ==
  {"new", "idle", "dead", "started", "move", "parent", "recordV1"} \cup Preparing \cup OnItems

BundleTypeOK ==
  /\ case \in BundleCases /\ pc \in BundleLabels /\ bundle \in {"here", "away", "trash"}
  /\ item \in [BundleItems -> {"here", "trash", "changed"}]
  /\ parent \in ParentStates /\ dParent \in ParentStates
  /\ child \in [BundleItems -> ParentStates] /\ dChild \in [BundleItems -> ParentStates]
  /\ todo \in Seq(BundleItems) /\ asked \in BOOLEAN /\ late \in BOOLEAN
  /\ parentErr \in BOOLEAN /\ childErr \in BOOLEAN /\ begun \in {0, 1}
  /\ admin \in {"unavailable", "eligible", "awaiting", "consumed"} /\ related \in {"none", "ready", "awaiting"}

\* What a record says of the bundle.
Spared == bundle # "trash" /\ ~asked
Admits(p) ==
  /\ p \in {"none", "planned", "skipped"} => Spared
  /\ p = "failed" => Spared \/ late

\* A handle that has not begun has done nothing, and one that has cannot again.
Awaiting == admin = "awaiting" \/ related = "awaiting"
BeginsOnce ==
  /\ begun = 0 =>
       /\ parent = "none" /\ child = Bundle!NoChild /\ dChild = Bundle!NoChild /\ todo = <<>>
       /\ pc \in {"new", "idle", "dead"} /\ ~Awaiting /\ (result = "none" => dParent = "none")
       /\ ~parentErr /\ ~childErr
  /\ begun = 1 => pc # "new" /\ (result # "none" \/ admin \in {"awaiting", "consumed"})
  /\ result # "none" => pc = "idle" /\ ~Awaiting
  /\ result \in {"refused", "skipped"} => parent \in {"none", "planned", "skipped"}

\* Where the operation stands: what its receipts say.
BundleStands ==
  /\ Awaiting => parent = "started" /\ dParent = "started" /\ pc \in {"idle", "dead"} /\ ~parentErr
  /\ pc \notin {"new", "idle", "dead"} => ~Awaiting
  /\ pc \in Preparing => parent = "planned" /\ ~parentErr /\ ~childErr
  /\ pc \in {"started", "move"} => parent = "started" /\ Spared /\ ~parentErr
  /\ pc = "move" => dParent = "started"
  /\ pc \in {"parent", "recordV1"} \cup OnItems => parent \in Finals
  /\ pc = "recordV1" => parent # "skipped"
  /\ pc \in OnItems /\ ~parentErr => dParent = parent
  /\ pc \notin {"new", "idle", "dead", "intent"} \/ dChild # Bundle!NoChild => dParent # "none"
  /\ pc \in {"itemStart", "itemMove"} =>
       parent = "succeeded" /\ dParent = "succeeded" /\ todo # <<>> /\ child[todo[1]] = "started"
  /\ pc = "itemMove" => dChild[todo[1]] = "started"
  /\ pc \in {"parent"} \cup Preparing \cup OnItems \cup {"started", "move"} => admin = "consumed"

BundleQueue ==
  /\ \A j, k \in 1..Len(todo) : todo[j] = todo[k] => j = k
  /\ \A k \in 1..Len(todo) : item[todo[k]] # "trash"

\* An item in the Trash.
ItemsFollow ==
  \A x \in BundleItems : item[x] = "trash" =>
    /\ dParent = "succeeded" /\ parent = "succeeded" /\ child[x] \in Touched /\ dChild[x] \in Touched
    /\ begun = 1 /\ admin = "consumed" /\ ~Awaiting /\ pc \in OnItems \cup {"idle", "dead"}

BundleInv ==
  /\ BundleTypeOK /\ Admits(parent) /\ Admits(dParent)
  /\ BeginsOnce /\ BundleStands /\ BundleQueue /\ ItemsFollow

----------------------------------------------------------------------------

LEMMA BundleInitInv == ASSUME Bundle!UninstallAssumption, Bundle!Init PROVE BundleInv
<1>1. parent = "none" /\ dParent = "none" /\ child = Bundle!NoChild /\ dChild = Bundle!NoChild
  BY DEF Bundle!Init
<1>2. BundleTypeOK
  <2>1. child \in [BundleItems -> ParentStates] /\ dChild \in [BundleItems -> ParentStates]
    BY <1>1 DEF Bundle!NoChild, ParentStates
  <2>2. item \in [BundleItems -> {"here", "trash", "changed"}] /\ todo \in Seq(BundleItems)
    BY DEF Bundle!Init
  <2> QED
    BY <1>1, <2>1, <2>2 DEF Bundle!Init, BundleTypeOK, ParentStates, BundleLabels
<1>3. Admits(parent) /\ Admits(dParent) /\ BeginsOnce /\ BundleStands /\ BundleQueue /\ ItemsFollow
  BY <1>1 DEF Bundle!Init, Admits, Spared, BeginsOnce, Awaiting, BundleStands, Preparing, OnItems,
     BundleQueue, ItemsFollow
<1> QED
  BY <1>2, <1>3 DEF BundleInv

LEMMA BundlePreviewStartKeeps == ASSUME Bundle!UninstallAssumption, BundleInv, Bundle!PreviewStart PROVE BundleInv'
<1> USE DEF Bundle!PreviewStart, Bundle!world, Bundle!job, Bundle!receipts, Bundle!ghosts, Bundle!Goto, Bundle!Fault, Bundle!PublishParent, Bundle!PublishChild, Bundle!EnsureIdle
<1>1. BundleTypeOK'
  BY DEF BundleInv, BundleTypeOK, BundleLabels, ParentStates, Finals, Preparing, OnItems
<1>2. Admits(parent)' /\ Admits(dParent)'
  BY DEF BundleInv, Admits, Spared, BundleStands, BundleTypeOK, Finals, ParentStates, Preparing, OnItems
<1>3. BeginsOnce'
  BY DEF BundleInv, BeginsOnce, Awaiting, Admits, BundleStands, BundleTypeOK, Preparing, OnItems
<1>4. BundleStands'
  BY DEF BundleInv, BeginsOnce, BundleStands, Awaiting, Spared, Admits, Finals, Preparing, OnItems, BundleTypeOK, ParentStates
<1>5. BundleQueue'
  BY DEF BundleInv, BundleQueue, BundleTypeOK
<1>6. ItemsFollow'
  BY DEF BundleInv, ItemsFollow, Awaiting, BeginsOnce, BundleStands, Preparing, OnItems, BundleTypeOK, Touched
<1> QED
  BY <1>1, <1>2, <1>3, <1>4, <1>5, <1>6 DEF BundleInv

LEMMA BundleRelatedPreviewKeeps == ASSUME Bundle!UninstallAssumption, BundleInv, Bundle!RelatedPreview PROVE BundleInv'
<1> USE DEF Bundle!RelatedPreview, Bundle!world, Bundle!job, Bundle!receipts, Bundle!ghosts, Bundle!Goto, Bundle!Fault, Bundle!PublishParent, Bundle!PublishChild, Bundle!EnsureIdle
<1>1. BundleTypeOK'
  BY DEF BundleInv, BundleTypeOK, BundleLabels, ParentStates, Finals, Preparing, OnItems
<1>2. Admits(parent)' /\ Admits(dParent)'
  BY DEF BundleInv, Admits, Spared, BundleStands, BundleTypeOK, Finals, ParentStates, Preparing, OnItems
<1>3. BeginsOnce'
  BY DEF BundleInv, BeginsOnce, Awaiting, Admits, BundleStands, BundleTypeOK, Preparing, OnItems
<1>4. BundleStands'
  BY DEF BundleInv, BeginsOnce, BundleStands, Awaiting, Spared, Admits, Finals, Preparing, OnItems, BundleTypeOK, ParentStates
<1>5. BundleQueue'
  BY DEF BundleInv, BundleQueue, BundleTypeOK
<1>6. ItemsFollow'
  BY DEF BundleInv, ItemsFollow, Awaiting, BeginsOnce, BundleStands, Preparing, OnItems, BundleTypeOK, Touched
<1> QED
  BY <1>1, <1>2, <1>3, <1>4, <1>5, <1>6 DEF BundleInv

LEMMA BundleExecuteV1Keeps == ASSUME Bundle!UninstallAssumption, BundleInv, Bundle!ExecuteV1 PROVE BundleInv'
<1> USE DEF Bundle!ExecuteV1, Bundle!world, Bundle!job, Bundle!receipts, Bundle!ghosts, Bundle!Goto, Bundle!Fault, Bundle!PublishParent, Bundle!PublishChild, Bundle!EnsureIdle
<1>1. BundleTypeOK'
  <2>1. case' \in BundleCases /\ pc' \in BundleLabels /\ bundle' \in {"here", "away", "trash"}
    BY DEF BundleInv, BundleTypeOK, BundleLabels, Preparing, OnItems
  <2>2. item' \in [BundleItems -> {"here", "trash", "changed"}]
    BY DEF BundleInv, BundleTypeOK
  <2>3. parent' \in ParentStates /\ dParent' \in ParentStates
    BY DEF BundleInv, BundleTypeOK, ParentStates, Finals, Bundle!Classify
  <2>4. child' \in [BundleItems -> ParentStates] /\ dChild' \in [BundleItems -> ParentStates]
    BY DEF BundleInv, BundleTypeOK, ParentStates
  <2>5. todo' \in Seq(BundleItems)
    BY DEF BundleInv, BundleTypeOK
  <2>6. asked' \in BOOLEAN /\ late' \in BOOLEAN /\ parentErr' \in BOOLEAN /\ childErr' \in BOOLEAN
    BY DEF BundleInv, BundleTypeOK
  <2>7. begun' \in {0, 1} /\ admin' \in {"unavailable", "eligible", "awaiting", "consumed"} /\ related' \in {"none", "ready", "awaiting"}
    BY DEF BundleInv, BundleTypeOK, BeginsOnce, Awaiting, BundleStands, Preparing, OnItems
  <2> QED
    BY <2>1, <2>2, <2>3, <2>4, <2>5, <2>6, <2>7 DEF BundleTypeOK
<1>2. Admits(parent)' /\ Admits(dParent)'
  BY DEF BundleInv, Admits, Spared, BundleStands, BundleTypeOK, Finals, ParentStates, Preparing, OnItems, BeginsOnce, Awaiting
<1>3. BeginsOnce'
  BY DEF BundleInv, BeginsOnce, Awaiting, Admits, BundleStands, BundleTypeOK, Preparing, OnItems
<1>4. BundleStands'
  BY DEF BundleInv, BeginsOnce, BundleStands, Awaiting, Spared, Admits, Finals, Preparing, OnItems, BundleTypeOK, ParentStates
<1>5. BundleQueue'
  BY DEF BundleInv, BundleQueue, BundleTypeOK
<1>6. ItemsFollow'
  BY DEF BundleInv, ItemsFollow, Awaiting, BeginsOnce, BundleStands, Preparing, OnItems, BundleTypeOK, Touched
<1> QED
  BY <1>1, <1>2, <1>3, <1>4, <1>5, <1>6 DEF BundleInv

LEMMA BundleAdminBeginV1Keeps == ASSUME Bundle!UninstallAssumption, BundleInv, Bundle!AdminBeginV1 PROVE BundleInv'
<1> USE DEF Bundle!AdminBeginV1, Bundle!world, Bundle!job, Bundle!receipts, Bundle!ghosts, Bundle!Goto, Bundle!Fault, Bundle!PublishParent, Bundle!PublishChild, Bundle!EnsureIdle
<1>1. BundleTypeOK'
  <2>1. case' \in BundleCases /\ pc' \in BundleLabels /\ bundle' \in {"here", "away", "trash"}
    BY DEF BundleInv, BundleTypeOK, BundleLabels, Preparing, OnItems
  <2>2. item' \in [BundleItems -> {"here", "trash", "changed"}]
    BY DEF BundleInv, BundleTypeOK
  <2>3. parent' \in ParentStates /\ dParent' \in ParentStates
    BY DEF BundleInv, BundleTypeOK, ParentStates, Finals, Bundle!Classify
  <2>4. child' \in [BundleItems -> ParentStates] /\ dChild' \in [BundleItems -> ParentStates]
    BY DEF BundleInv, BundleTypeOK, ParentStates
  <2>5. todo' \in Seq(BundleItems)
    BY DEF BundleInv, BundleTypeOK
  <2>6. asked' \in BOOLEAN /\ late' \in BOOLEAN /\ parentErr' \in BOOLEAN /\ childErr' \in BOOLEAN
    BY DEF BundleInv, BundleTypeOK
  <2>7. begun' \in {0, 1} /\ admin' \in {"unavailable", "eligible", "awaiting", "consumed"} /\ related' \in {"none", "ready", "awaiting"}
    BY DEF BundleInv, BundleTypeOK, BeginsOnce, Awaiting, BundleStands, Preparing, OnItems
  <2> QED
    BY <2>1, <2>2, <2>3, <2>4, <2>5, <2>6, <2>7 DEF BundleTypeOK
<1>2. Admits(parent)' /\ Admits(dParent)'
  BY DEF BundleInv, Admits, Spared, BundleStands, BundleTypeOK, Finals, ParentStates, Preparing, OnItems
<1>3. BeginsOnce'
  BY DEF BundleInv, BeginsOnce, Awaiting, Admits, BundleStands, BundleTypeOK, Preparing, OnItems
<1>4. BundleStands'
  BY DEF BundleInv, BeginsOnce, BundleStands, Awaiting, Spared, Admits, Finals, Preparing, OnItems, BundleTypeOK, ParentStates
<1>5. BundleQueue'
  BY DEF BundleInv, BundleQueue, BundleTypeOK
<1>6. ItemsFollow'
  BY DEF BundleInv, ItemsFollow, Awaiting, BeginsOnce, BundleStands, Preparing, OnItems, BundleTypeOK, Touched
<1> QED
  BY <1>1, <1>2, <1>3, <1>4, <1>5, <1>6 DEF BundleInv

LEMMA BundleExecuteV2Keeps == ASSUME Bundle!UninstallAssumption, BundleInv, Bundle!ExecuteV2 PROVE BundleInv'
<1> USE DEF Bundle!ExecuteV2, Bundle!world, Bundle!job, Bundle!receipts, Bundle!ghosts, Bundle!Goto, Bundle!Fault, Bundle!PublishParent, Bundle!PublishChild, Bundle!EnsureIdle
<1>1. BundleTypeOK'
  <2>1. case' \in BundleCases /\ pc' \in BundleLabels /\ bundle' \in {"here", "away", "trash"}
    BY DEF BundleInv, BundleTypeOK, BundleLabels, Preparing, OnItems
  <2>2. item' \in [BundleItems -> {"here", "trash", "changed"}]
    BY DEF BundleInv, BundleTypeOK
  <2>3. parent' \in ParentStates /\ dParent' \in ParentStates
    BY DEF BundleInv, BundleTypeOK, ParentStates, Finals, Bundle!Classify
  <2>4. child' \in [BundleItems -> ParentStates] /\ dChild' \in [BundleItems -> ParentStates]
    BY DEF BundleInv, BundleTypeOK, ParentStates
  <2>5. todo' \in Seq(BundleItems)
    BY DEF BundleInv, BundleTypeOK, Bundle!UninstallAssumption
  <2>6. asked' \in BOOLEAN /\ late' \in BOOLEAN /\ parentErr' \in BOOLEAN /\ childErr' \in BOOLEAN
    BY DEF BundleInv, BundleTypeOK
  <2>7. begun' \in {0, 1} /\ admin' \in {"unavailable", "eligible", "awaiting", "consumed"} /\ related' \in {"none", "ready", "awaiting"}
    BY DEF BundleInv, BundleTypeOK, BeginsOnce, Awaiting, BundleStands, Preparing, OnItems
  <2> QED
    BY <2>1, <2>2, <2>3, <2>4, <2>5, <2>6, <2>7 DEF BundleTypeOK
<1>2. Admits(parent)' /\ Admits(dParent)'
  BY DEF BundleInv, Admits, Spared, BundleTypeOK, BeginsOnce
<1>3. BeginsOnce'
  BY DEF BundleInv, BeginsOnce, Awaiting, Admits, BundleStands, BundleTypeOK, Preparing, OnItems
<1>4. BundleStands'
  BY DEF BundleInv, BeginsOnce, BundleStands, Awaiting, Spared, Admits, Finals, Preparing, OnItems, BundleTypeOK, ParentStates
<1>5. BundleQueue'
  <2>1. CASE Bundle!Begins
    <3>1. todo' = case.order /\ UNCHANGED item /\ case.order \in Seq(BundleItems)
      BY <2>1 DEF BundleInv, BundleTypeOK, Bundle!UninstallAssumption
    <3>2. DOMAIN case.order = 1..Len(case.order)
      BY <3>1
    <3>3. \A x \in Bundle!ToSet(case.order) : item[x] = "here"
      BY <2>1 DEF Bundle!Begins
    <3>4. \A k \in 1..Len(case.order) : item[case.order[k]] = "here"
      BY <3>2, <3>3 DEF Bundle!ToSet
    <3>5. \A j, k \in 1..Len(case.order) : case.order[j] = case.order[k] => j = k
      BY <2>1, <3>2 DEF Bundle!Begins, Bundle!IsInjective
    <3> QED
      BY <3>1, <3>4, <3>5 DEF BundleQueue
  <2>2. CASE ~Bundle!Begins
    BY <2>2 DEF BundleInv, BundleQueue, BundleTypeOK
  <2> QED
    BY <2>1, <2>2
<1>6. ItemsFollow'
  BY DEF BundleInv, ItemsFollow, Awaiting, BeginsOnce, BundleStands, Preparing, OnItems, BundleTypeOK, Touched
<1> QED
  BY <1>1, <1>2, <1>3, <1>4, <1>5, <1>6 DEF BundleInv

LEMMA BundleCancelKeeps == ASSUME Bundle!UninstallAssumption, BundleInv, Bundle!Cancel PROVE BundleInv'
<1> USE DEF Bundle!Cancel, Bundle!world, Bundle!job, Bundle!receipts, Bundle!ghosts, Bundle!Goto, Bundle!Fault, Bundle!PublishParent, Bundle!PublishChild, Bundle!EnsureIdle
<1>1. BundleTypeOK'
  BY DEF BundleInv, BundleTypeOK, BundleLabels, ParentStates, Finals, Preparing, OnItems
<1>2. Admits(parent)' /\ Admits(dParent)'
  BY DEF BundleInv, Admits, Spared, BundleStands, BundleTypeOK, Finals, ParentStates, Preparing, OnItems
<1>3. BeginsOnce'
  BY DEF BundleInv, BeginsOnce, Awaiting, Admits, BundleStands, BundleTypeOK, Preparing, OnItems
<1>4. BundleStands'
  BY DEF BundleInv, BeginsOnce, BundleStands, Awaiting, Spared, Admits, Finals, Preparing, OnItems, BundleTypeOK, ParentStates
<1>5. BundleQueue'
  BY DEF BundleInv, BundleQueue, BundleTypeOK
<1>6. ItemsFollow'
  BY DEF BundleInv, ItemsFollow, Awaiting, BeginsOnce, BundleStands, Preparing, OnItems, BundleTypeOK, Touched
<1> QED
  BY <1>1, <1>2, <1>3, <1>4, <1>5, <1>6 DEF BundleInv

LEMMA BundleReleaseKeeps == ASSUME Bundle!UninstallAssumption, BundleInv, Bundle!Release PROVE BundleInv'
<1> USE DEF Bundle!Release, Bundle!world, Bundle!job, Bundle!receipts, Bundle!ghosts, Bundle!Goto, Bundle!Fault, Bundle!PublishParent, Bundle!PublishChild, Bundle!EnsureIdle
<1>1. BundleTypeOK'
  BY DEF BundleInv, BundleTypeOK, BundleLabels, ParentStates, Finals, Preparing, OnItems
<1>2. Admits(parent)' /\ Admits(dParent)'
  BY DEF BundleInv, Admits, Spared, BundleStands, BundleTypeOK, Finals, ParentStates, Preparing, OnItems
<1>3. BeginsOnce'
  BY DEF BundleInv, BeginsOnce, Awaiting, Admits, BundleStands, BundleTypeOK, Preparing, OnItems
<1>4. BundleStands'
  BY DEF BundleInv, BeginsOnce, BundleStands, Awaiting, Spared, Admits, Finals, Preparing, OnItems, BundleTypeOK, ParentStates
<1>5. BundleQueue'
  BY DEF BundleInv, BundleQueue, BundleTypeOK
<1>6. ItemsFollow'
  BY DEF BundleInv, ItemsFollow, Awaiting, BeginsOnce, BundleStands, Preparing, OnItems, BundleTypeOK, Touched
<1> QED
  BY <1>1, <1>2, <1>3, <1>4, <1>5, <1>6 DEF BundleInv

LEMMA BundlePublishIntentsKeeps == ASSUME Bundle!UninstallAssumption, BundleInv, Bundle!PublishIntents PROVE BundleInv'
<1> USE DEF Bundle!PublishIntents, Bundle!world, Bundle!job, Bundle!receipts, Bundle!ghosts, Bundle!Goto, Bundle!Fault, Bundle!PublishParent, Bundle!PublishChild, Bundle!EnsureIdle
<1>1. BundleTypeOK'
  <2>1. case' \in BundleCases /\ pc' \in BundleLabels /\ bundle' \in {"here", "away", "trash"}
    BY DEF BundleInv, BundleTypeOK, BundleLabels, Preparing, OnItems
  <2>2. item' \in [BundleItems -> {"here", "trash", "changed"}]
    BY DEF BundleInv, BundleTypeOK
  <2>3. parent' \in ParentStates /\ dParent' \in ParentStates
    BY DEF BundleInv, BundleTypeOK, ParentStates, Finals, Bundle!Classify
  <2>4. child' \in [BundleItems -> ParentStates] /\ dChild' \in [BundleItems -> ParentStates]
    BY DEF BundleInv, BundleTypeOK, ParentStates
  <2>5. todo' \in Seq(BundleItems)
    BY DEF BundleInv, BundleTypeOK
  <2>6. asked' \in BOOLEAN /\ late' \in BOOLEAN /\ parentErr' \in BOOLEAN /\ childErr' \in BOOLEAN
    BY DEF BundleInv, BundleTypeOK
  <2>7. begun' \in {0, 1} /\ admin' \in {"unavailable", "eligible", "awaiting", "consumed"} /\ related' \in {"none", "ready", "awaiting"}
    BY DEF BundleInv, BundleTypeOK, BeginsOnce, Awaiting, BundleStands, Preparing, OnItems
  <2> QED
    BY <2>1, <2>2, <2>3, <2>4, <2>5, <2>6, <2>7 DEF BundleTypeOK
<1>2. Admits(parent)' /\ Admits(dParent)'
  BY DEF BundleInv, Admits, Spared, BundleStands, BundleTypeOK, Finals, ParentStates, Preparing, OnItems
<1>3. BeginsOnce'
  BY DEF BundleInv, BeginsOnce, Awaiting, Admits, BundleStands, BundleTypeOK, Preparing, OnItems
<1>4. BundleStands'
  BY DEF BundleInv, BeginsOnce, BundleStands, Awaiting, Spared, Admits, Finals, Preparing, OnItems, BundleTypeOK, ParentStates
<1>5. BundleQueue'
  BY DEF BundleInv, BundleQueue, BundleTypeOK
<1>6. ItemsFollow'
  BY DEF BundleInv, ItemsFollow, Awaiting, BeginsOnce, BundleStands, Preparing, OnItems, BundleTypeOK, Touched
<1> QED
  BY <1>1, <1>2, <1>3, <1>4, <1>5, <1>6 DEF BundleInv

LEMMA BundleParentStartKeeps == ASSUME Bundle!UninstallAssumption, BundleInv, Bundle!ParentStart PROVE BundleInv'
<1> USE DEF Bundle!ParentStart, Bundle!world, Bundle!job, Bundle!receipts, Bundle!ghosts, Bundle!Goto, Bundle!Fault, Bundle!PublishParent, Bundle!PublishChild, Bundle!EnsureIdle
<1>1. BundleTypeOK'
  <2>1. case' \in BundleCases /\ pc' \in BundleLabels /\ bundle' \in {"here", "away", "trash"}
    BY DEF BundleInv, BundleTypeOK, BundleLabels, Preparing, OnItems
  <2>2. item' \in [BundleItems -> {"here", "trash", "changed"}]
    BY DEF BundleInv, BundleTypeOK
  <2>3. parent' \in ParentStates /\ dParent' \in ParentStates
    BY DEF BundleInv, BundleTypeOK, ParentStates, Finals, Bundle!Classify
  <2>4. child' \in [BundleItems -> ParentStates] /\ dChild' \in [BundleItems -> ParentStates]
    BY DEF BundleInv, BundleTypeOK, ParentStates
  <2>5. todo' \in Seq(BundleItems)
    BY DEF BundleInv, BundleTypeOK
  <2>6. asked' \in BOOLEAN /\ late' \in BOOLEAN /\ parentErr' \in BOOLEAN /\ childErr' \in BOOLEAN
    BY DEF BundleInv, BundleTypeOK
  <2>7. begun' \in {0, 1} /\ admin' \in {"unavailable", "eligible", "awaiting", "consumed"} /\ related' \in {"none", "ready", "awaiting"}
    BY DEF BundleInv, BundleTypeOK, BeginsOnce, Awaiting, BundleStands, Preparing, OnItems
  <2> QED
    BY <2>1, <2>2, <2>3, <2>4, <2>5, <2>6, <2>7 DEF BundleTypeOK
<1>2. Admits(parent)' /\ Admits(dParent)'
  BY DEF BundleInv, Admits, Spared, BundleStands, BundleTypeOK, Finals, ParentStates, Preparing, OnItems
<1>3. BeginsOnce'
  BY DEF BundleInv, BeginsOnce, Awaiting, Admits, BundleStands, BundleTypeOK, Preparing, OnItems
<1>4. BundleStands'
  BY DEF BundleInv, BeginsOnce, BundleStands, Awaiting, Spared, Admits, Finals, Preparing, OnItems, BundleTypeOK, ParentStates
<1>5. BundleQueue'
  BY DEF BundleInv, BundleQueue, BundleTypeOK
<1>6. ItemsFollow'
  BY DEF BundleInv, ItemsFollow, Awaiting, BeginsOnce, BundleStands, Preparing, OnItems, BundleTypeOK, Touched
<1> QED
  BY <1>1, <1>2, <1>3, <1>4, <1>5, <1>6 DEF BundleInv

LEMMA BundlePublishStartedKeeps == ASSUME Bundle!UninstallAssumption, BundleInv, Bundle!PublishStarted PROVE BundleInv'
<1> USE DEF Bundle!PublishStarted, Bundle!world, Bundle!job, Bundle!receipts, Bundle!ghosts, Bundle!Goto, Bundle!Fault, Bundle!PublishParent, Bundle!PublishChild, Bundle!EnsureIdle
<1>1. BundleTypeOK'
  <2>1. case' \in BundleCases /\ pc' \in BundleLabels /\ bundle' \in {"here", "away", "trash"}
    BY DEF BundleInv, BundleTypeOK, BundleLabels, Preparing, OnItems
  <2>2. item' \in [BundleItems -> {"here", "trash", "changed"}]
    BY DEF BundleInv, BundleTypeOK
  <2>3. parent' \in ParentStates /\ dParent' \in ParentStates
    BY DEF BundleInv, BundleTypeOK, ParentStates, Finals, Bundle!Classify
  <2>4. child' \in [BundleItems -> ParentStates] /\ dChild' \in [BundleItems -> ParentStates]
    BY DEF BundleInv, BundleTypeOK, ParentStates
  <2>5. todo' \in Seq(BundleItems)
    BY DEF BundleInv, BundleTypeOK
  <2>6. asked' \in BOOLEAN /\ late' \in BOOLEAN /\ parentErr' \in BOOLEAN /\ childErr' \in BOOLEAN
    BY DEF BundleInv, BundleTypeOK
  <2>7. begun' \in {0, 1} /\ admin' \in {"unavailable", "eligible", "awaiting", "consumed"} /\ related' \in {"none", "ready", "awaiting"}
    BY DEF BundleInv, BundleTypeOK, BeginsOnce, Awaiting, BundleStands, Preparing, OnItems
  <2> QED
    BY <2>1, <2>2, <2>3, <2>4, <2>5, <2>6, <2>7 DEF BundleTypeOK
<1>2. Admits(parent)' /\ Admits(dParent)'
  BY DEF BundleInv, Admits, Spared, BundleStands, BundleTypeOK, Finals, ParentStates, Preparing, OnItems
<1>3. BeginsOnce'
  BY DEF BundleInv, BeginsOnce, Awaiting, Admits, BundleStands, BundleTypeOK, Preparing, OnItems
<1>4. BundleStands'
  BY DEF BundleInv, BeginsOnce, BundleStands, Awaiting, Spared, Admits, Finals, Preparing, OnItems, BundleTypeOK, ParentStates
<1>5. BundleQueue'
  BY DEF BundleInv, BundleQueue, BundleTypeOK
<1>6. ItemsFollow'
  BY DEF BundleInv, ItemsFollow, Awaiting, BeginsOnce, BundleStands, Preparing, OnItems, BundleTypeOK, Touched
<1> QED
  BY <1>1, <1>2, <1>3, <1>4, <1>5, <1>6 DEF BundleInv

LEMMA BundleMoveBundleKeeps == ASSUME Bundle!UninstallAssumption, BundleInv, Bundle!MoveBundle PROVE BundleInv'
<1> USE DEF Bundle!MoveBundle, Bundle!world, Bundle!job, Bundle!receipts, Bundle!ghosts, Bundle!Goto, Bundle!Fault, Bundle!PublishParent, Bundle!PublishChild, Bundle!EnsureIdle
<1>1. BundleTypeOK'
  <2>1. case' \in BundleCases /\ pc' \in BundleLabels /\ bundle' \in {"here", "away", "trash"}
    BY DEF BundleInv, BundleTypeOK, BundleLabels, Preparing, OnItems
  <2>2. item' \in [BundleItems -> {"here", "trash", "changed"}]
    BY DEF BundleInv, BundleTypeOK
  <2>3. parent' \in ParentStates /\ dParent' \in ParentStates
    BY DEF BundleInv, BundleTypeOK, ParentStates, Finals, Bundle!Classify
  <2>4. child' \in [BundleItems -> ParentStates] /\ dChild' \in [BundleItems -> ParentStates]
    BY DEF BundleInv, BundleTypeOK, ParentStates
  <2>5. todo' \in Seq(BundleItems)
    BY DEF BundleInv, BundleTypeOK
  <2>6. asked' \in BOOLEAN /\ late' \in BOOLEAN /\ parentErr' \in BOOLEAN /\ childErr' \in BOOLEAN
    BY DEF BundleInv, BundleTypeOK
  <2>7. begun' \in {0, 1} /\ admin' \in {"unavailable", "eligible", "awaiting", "consumed"} /\ related' \in {"none", "ready", "awaiting"}
    BY DEF BundleInv, BundleTypeOK, BeginsOnce, Awaiting, BundleStands, Preparing, OnItems
  <2> QED
    BY <2>1, <2>2, <2>3, <2>4, <2>5, <2>6, <2>7 DEF BundleTypeOK
<1>2. Admits(parent)' /\ Admits(dParent)'
  BY DEF BundleInv, Admits, Spared, BundleStands, BundleTypeOK, Finals, ParentStates, Preparing, OnItems
<1>3. BeginsOnce'
  BY DEF BundleInv, BeginsOnce, Awaiting, Admits, BundleStands, BundleTypeOK, Preparing, OnItems
<1>4. BundleStands'
  BY DEF BundleInv, BeginsOnce, BundleStands, Awaiting, Spared, Admits, Finals, Preparing, OnItems, BundleTypeOK, ParentStates
<1>5. BundleQueue'
  BY DEF BundleInv, BundleQueue, BundleTypeOK
<1>6. ItemsFollow'
  BY DEF BundleInv, ItemsFollow, Awaiting, BeginsOnce, BundleStands, Preparing, OnItems, BundleTypeOK, Touched
<1> QED
  BY <1>1, <1>2, <1>3, <1>4, <1>5, <1>6 DEF BundleInv

LEMMA BundleAdminFinishKeeps == ASSUME Bundle!UninstallAssumption, BundleInv, Bundle!AdminFinish PROVE BundleInv'
<1> USE DEF Bundle!AdminFinish, Bundle!world, Bundle!job, Bundle!receipts, Bundle!ghosts, Bundle!Goto, Bundle!Fault, Bundle!PublishParent, Bundle!PublishChild, Bundle!EnsureIdle
<1>1. BundleTypeOK'
  <2>1. case' \in BundleCases /\ pc' \in BundleLabels /\ bundle' \in {"here", "away", "trash"}
    BY DEF BundleInv, BundleTypeOK, BundleLabels, Preparing, OnItems
  <2>2. item' \in [BundleItems -> {"here", "trash", "changed"}]
    BY DEF BundleInv, BundleTypeOK
  <2>3. parent' \in ParentStates /\ dParent' \in ParentStates
    BY DEF BundleInv, BundleTypeOK, ParentStates, Finals, Bundle!Classify
  <2>4. child' \in [BundleItems -> ParentStates] /\ dChild' \in [BundleItems -> ParentStates]
    BY DEF BundleInv, BundleTypeOK, ParentStates
  <2>5. todo' \in Seq(BundleItems)
    BY DEF BundleInv, BundleTypeOK
  <2>6. asked' \in BOOLEAN /\ late' \in BOOLEAN /\ parentErr' \in BOOLEAN /\ childErr' \in BOOLEAN
    BY DEF BundleInv, BundleTypeOK
  <2>7. begun' \in {0, 1} /\ admin' \in {"unavailable", "eligible", "awaiting", "consumed"} /\ related' \in {"none", "ready", "awaiting"}
    BY DEF BundleInv, BundleTypeOK, BeginsOnce, Awaiting, BundleStands, Preparing, OnItems
  <2> QED
    BY <2>1, <2>2, <2>3, <2>4, <2>5, <2>6, <2>7 DEF BundleTypeOK
<1>0. parent = "started" /\ dParent = "started" /\ Awaiting
  BY DEF BundleInv, BundleStands, Awaiting
<1>2. Admits(parent)' /\ Admits(dParent)'
  BY <1>0 DEF Admits, Spared, Bundle!Classify
<1>3. BeginsOnce'
  BY DEF BundleInv, BeginsOnce, Awaiting, Admits, BundleStands, BundleTypeOK, Preparing, OnItems
<1>4. BundleStands'
  BY <1>0 DEF Bundle!Classify, BundleInv, BeginsOnce, BundleStands, Awaiting, Spared, Admits, Finals, Preparing, OnItems, BundleTypeOK, ParentStates
<1>5. BundleQueue'
  BY DEF BundleInv, BundleQueue, BundleTypeOK
<1>6. ItemsFollow'
  BY DEF BundleInv, ItemsFollow, Awaiting, BeginsOnce, BundleStands, Preparing, OnItems, BundleTypeOK, Touched
<1> QED
  BY <1>1, <1>2, <1>3, <1>4, <1>5, <1>6 DEF BundleInv

LEMMA BundleAdminFinishUnaskedKeeps == ASSUME Bundle!UninstallAssumption, BundleInv, Bundle!AdminFinishUnasked PROVE BundleInv'
<1> USE DEF Bundle!AdminFinishUnasked, Bundle!world, Bundle!job, Bundle!receipts, Bundle!ghosts, Bundle!Goto, Bundle!Fault, Bundle!PublishParent, Bundle!PublishChild, Bundle!EnsureIdle
<1>1. BundleTypeOK'
  BY DEF BundleInv, BundleTypeOK, BundleLabels, ParentStates, Finals, Preparing, OnItems
<1>2. Admits(parent)' /\ Admits(dParent)'
  BY DEF BundleInv, Admits, Spared, BundleStands, BundleTypeOK, Finals, ParentStates, Preparing, OnItems
<1>3. BeginsOnce'
  BY DEF BundleInv, BeginsOnce, Awaiting, Admits, BundleStands, BundleTypeOK, Preparing, OnItems
<1>4. BundleStands'
  BY DEF BundleInv, BeginsOnce, BundleStands, Awaiting, Spared, Admits, Finals, Preparing, OnItems, BundleTypeOK, ParentStates
<1>5. BundleQueue'
  BY DEF BundleInv, BundleQueue, BundleTypeOK
<1>6. ItemsFollow'
  BY DEF BundleInv, ItemsFollow, Awaiting, BeginsOnce, BundleStands, Preparing, OnItems, BundleTypeOK, Touched
<1> QED
  BY <1>1, <1>2, <1>3, <1>4, <1>5, <1>6 DEF BundleInv

LEMMA BundleRecordV1Keeps == ASSUME Bundle!UninstallAssumption, BundleInv, Bundle!RecordV1 PROVE BundleInv'
<1> USE DEF Bundle!RecordV1, Bundle!world, Bundle!job, Bundle!receipts, Bundle!ghosts, Bundle!Goto, Bundle!Fault, Bundle!PublishParent, Bundle!PublishChild, Bundle!EnsureIdle
<1>1. BundleTypeOK'
  <2>1. case' \in BundleCases /\ pc' \in BundleLabels /\ bundle' \in {"here", "away", "trash"}
    BY DEF BundleInv, BundleTypeOK, BundleLabels, Preparing, OnItems
  <2>2. item' \in [BundleItems -> {"here", "trash", "changed"}]
    BY DEF BundleInv, BundleTypeOK
  <2>3. parent' \in ParentStates /\ dParent' \in ParentStates
    BY DEF BundleInv, BundleTypeOK, ParentStates, Finals, Bundle!Classify
  <2>4. child' \in [BundleItems -> ParentStates] /\ dChild' \in [BundleItems -> ParentStates]
    BY DEF BundleInv, BundleTypeOK, ParentStates
  <2>5. todo' \in Seq(BundleItems)
    BY DEF BundleInv, BundleTypeOK
  <2>6. asked' \in BOOLEAN /\ late' \in BOOLEAN /\ parentErr' \in BOOLEAN /\ childErr' \in BOOLEAN
    BY DEF BundleInv, BundleTypeOK
  <2>7. begun' \in {0, 1} /\ admin' \in {"unavailable", "eligible", "awaiting", "consumed"} /\ related' \in {"none", "ready", "awaiting"}
    BY DEF BundleInv, BundleTypeOK, BeginsOnce, Awaiting, BundleStands, Preparing, OnItems
  <2> QED
    BY <2>1, <2>2, <2>3, <2>4, <2>5, <2>6, <2>7 DEF BundleTypeOK
<1>2. Admits(parent)' /\ Admits(dParent)'
  BY DEF BundleInv, Admits, Spared, BundleStands, BundleTypeOK, Finals, ParentStates, Preparing, OnItems
<1>3. BeginsOnce'
  BY DEF Finals, BundleInv, BeginsOnce, Awaiting, Admits, BundleStands, BundleTypeOK, Preparing, OnItems
<1>4. BundleStands'
  BY DEF BundleInv, BeginsOnce, BundleStands, Awaiting, Spared, Admits, Finals, Preparing, OnItems, BundleTypeOK, ParentStates
<1>5. BundleQueue'
  BY DEF BundleInv, BundleQueue, BundleTypeOK
<1>6. ItemsFollow'
  BY DEF BundleInv, ItemsFollow, Awaiting, BeginsOnce, BundleStands, Preparing, OnItems, BundleTypeOK, Touched
<1> QED
  BY <1>1, <1>2, <1>3, <1>4, <1>5, <1>6 DEF BundleInv

LEMMA BundleRecordParentKeeps == ASSUME Bundle!UninstallAssumption, BundleInv, Bundle!RecordParent PROVE BundleInv'
<1> USE DEF Bundle!RecordParent, Bundle!world, Bundle!job, Bundle!receipts, Bundle!ghosts, Bundle!Goto, Bundle!Fault, Bundle!PublishParent, Bundle!PublishChild, Bundle!EnsureIdle
<1>1. BundleTypeOK'
  <2>1. case' \in BundleCases /\ pc' \in BundleLabels /\ bundle' \in {"here", "away", "trash"}
    BY DEF BundleInv, BundleTypeOK, BundleLabels, Preparing, OnItems
  <2>2. item' \in [BundleItems -> {"here", "trash", "changed"}]
    BY DEF BundleInv, BundleTypeOK
  <2>3. parent' \in ParentStates /\ dParent' \in ParentStates
    BY DEF BundleInv, BundleTypeOK, ParentStates, Finals, Bundle!Classify
  <2>4. child' \in [BundleItems -> ParentStates] /\ dChild' \in [BundleItems -> ParentStates]
    BY DEF BundleInv, BundleTypeOK, ParentStates
  <2>5. todo' \in Seq(BundleItems)
    BY DEF BundleInv, BundleTypeOK
  <2>6. asked' \in BOOLEAN /\ late' \in BOOLEAN /\ parentErr' \in BOOLEAN /\ childErr' \in BOOLEAN
    BY DEF BundleInv, BundleTypeOK
  <2>7. begun' \in {0, 1} /\ admin' \in {"unavailable", "eligible", "awaiting", "consumed"} /\ related' \in {"none", "ready", "awaiting"}
    BY DEF BundleInv, BundleTypeOK, BeginsOnce, Awaiting, BundleStands, Preparing, OnItems
  <2> QED
    BY <2>1, <2>2, <2>3, <2>4, <2>5, <2>6, <2>7 DEF BundleTypeOK
<1>2. Admits(parent)' /\ Admits(dParent)'
  BY DEF BundleInv, Admits, Spared, BundleStands, BundleTypeOK, Finals, ParentStates, Preparing, OnItems
<1>3. BeginsOnce'
  BY DEF BundleInv, BeginsOnce, Awaiting, Admits, BundleStands, BundleTypeOK, Preparing, OnItems
<1>4. BundleStands'
  BY DEF BundleInv, BeginsOnce, BundleStands, Awaiting, Spared, Admits, Finals, Preparing, OnItems, BundleTypeOK, ParentStates
<1>5. BundleQueue'
  BY DEF BundleInv, BundleQueue, BundleTypeOK
<1>6. ItemsFollow'
  BY DEF BundleInv, ItemsFollow, Awaiting, BeginsOnce, BundleStands, Preparing, OnItems, BundleTypeOK, Touched
<1> QED
  BY <1>1, <1>2, <1>3, <1>4, <1>5, <1>6 DEF BundleInv

\* Handling the first item leaves the others to be handled.
LEMMA BundleTail ==
  ASSUME BundleTypeOK, BundleQueue, todo # <<>>
  PROVE  /\ Head(todo) = todo[1] /\ todo[1] \in BundleItems /\ item[todo[1]] # "trash"
         /\ Tail(todo) \in Seq(BundleItems)
         /\ \A j, k \in 1..Len(Tail(todo)) : Tail(todo)[j] = Tail(todo)[k] => j = k
         /\ \A k \in 1..Len(Tail(todo)) : Tail(todo)[k] # todo[1] /\ item[Tail(todo)[k]] # "trash" /\ Tail(todo)[k] \in BundleItems
<1>1. todo \in Seq(BundleItems) /\ Len(todo) \in Nat \ {0} /\ Head(todo) = todo[1]
  BY DEF BundleTypeOK
<1>2. /\ Tail(todo) \in Seq(BundleItems) /\ Len(Tail(todo)) = Len(todo) - 1
      /\ \A k \in 1..Len(Tail(todo)) : Tail(todo)[k] = todo[k + 1] /\ k + 1 \in 1..Len(todo) /\ k + 1 # 1
  BY <1>1
<1>3. todo[1] \in BundleItems /\ item[todo[1]] # "trash"
  BY <1>1 DEF BundleQueue
<1>4. \A j, k \in 1..Len(todo) : todo[j] = todo[k] => j = k
  BY DEF BundleQueue
<1>5. \A j, k \in 1..Len(Tail(todo)) : Tail(todo)[j] = Tail(todo)[k] => j = k
  <2> SUFFICES ASSUME NEW j \in 1..Len(Tail(todo)), NEW k \in 1..Len(Tail(todo)), Tail(todo)[j] = Tail(todo)[k] PROVE j = k
    OBVIOUS
  <2>1. j + 1 = k + 1
    BY <1>2, <1>4
  <2> QED
    BY <1>1, <1>2, <2>1
<1>6. \A k \in 1..Len(Tail(todo)) : Tail(todo)[k] # todo[1] /\ item[Tail(todo)[k]] # "trash" /\ Tail(todo)[k] \in BundleItems
  BY <1>1, <1>2, <1>4 DEF BundleQueue
<1> QED
  BY <1>1, <1>2, <1>3, <1>5, <1>6

LEMMA BundleItemStepKeeps == ASSUME Bundle!UninstallAssumption, BundleInv, Bundle!ItemStep PROVE BundleInv'
<1> USE DEF Bundle!ItemStep, Bundle!world, Bundle!job, Bundle!receipts, Bundle!ghosts, Bundle!Goto, Bundle!Fault, Bundle!PublishParent, Bundle!PublishChild, Bundle!EnsureIdle
<1>0. todo # <<>>
  BY DEF BundleInv, BundleStands
<1>1. BundleTypeOK'
  <2>1. case' \in BundleCases /\ pc' \in BundleLabels /\ bundle' \in {"here", "away", "trash"}
    BY DEF BundleInv, BundleTypeOK, BundleLabels, Preparing, OnItems
  <2>2. item' \in [BundleItems -> {"here", "trash", "changed"}]
    BY DEF BundleInv, BundleTypeOK
  <2>3. parent' \in ParentStates /\ dParent' \in ParentStates
    BY DEF BundleInv, BundleTypeOK, ParentStates, Finals, Bundle!Classify
  <2>4. child' \in [BundleItems -> ParentStates] /\ dChild' \in [BundleItems -> ParentStates]
    BY DEF BundleInv, BundleTypeOK, ParentStates
  <2>5. todo' \in Seq(BundleItems)
    BY BundleTail DEF BundleInv, BundleTypeOK, BundleStands
  <2>6. asked' \in BOOLEAN /\ late' \in BOOLEAN /\ parentErr' \in BOOLEAN /\ childErr' \in BOOLEAN
    BY DEF BundleInv, BundleTypeOK
  <2>7. begun' \in {0, 1} /\ admin' \in {"unavailable", "eligible", "awaiting", "consumed"} /\ related' \in {"none", "ready", "awaiting"}
    BY DEF BundleInv, BundleTypeOK, BeginsOnce, Awaiting, BundleStands, Preparing, OnItems
  <2> QED
    BY <2>1, <2>2, <2>3, <2>4, <2>5, <2>6, <2>7 DEF BundleTypeOK
<1>2. Admits(parent)' /\ Admits(dParent)'
  BY DEF BundleInv, Admits, Spared, BundleStands, BundleTypeOK, Finals, ParentStates, Preparing, OnItems
<1>3. BeginsOnce'
  BY DEF BundleInv, BeginsOnce, Awaiting, Admits, BundleStands, BundleTypeOK, Preparing, OnItems
<1>4. BundleStands'
  <2>1. /\ pc = "items" /\ pc' \in {"itemStart", "itemRecord"} /\ BundleStands
        /\ UNCHANGED <<admin, related, result, parent, dParent, parentErr, childErr, bundle, asked, dChild>>
    BY DEF BundleInv
  <2>2. ASSUME pc' = "itemStart" PROVE parent = "succeeded" /\ dParent = "succeeded" /\ todo' # <<>> /\ child'[todo'[1]] = "started"
    <3>1. Bundle!Authorized /\ todo' = todo /\ child' = [child EXCEPT ![todo[1]] = "started"] /\ todo[1] \in DOMAIN child
      BY <1>0, <2>2, BundleTail DEF BundleInv, BundleTypeOK
    <3> QED
      BY <1>0, <2>1, <3>1 DEF Bundle!Authorized, BundleStands, OnItems
  <2> QED
    BY <2>1, <2>2 DEF BundleStands, Awaiting, Finals, Preparing, OnItems
<1>5. BundleQueue'
  <2>1. todo' \in {todo, Tail(todo)}
    OBVIOUS
  <2>2. \A k \in 1..Len(todo') : item'[todo'[k]] # "trash"
    BY <1>0, <2>1, BundleTail DEF BundleInv, BundleQueue, BundleTypeOK
  <2> QED
    BY <1>0, <2>1, <2>2, BundleTail DEF BundleInv, BundleQueue
<1>6. ItemsFollow'
  BY <1>0, BundleTail DEF BundleInv, ItemsFollow, Awaiting, BeginsOnce, BundleStands, Preparing, OnItems, BundleTypeOK, Touched
<1> QED
  BY <1>1, <1>2, <1>3, <1>4, <1>5, <1>6 DEF BundleInv

LEMMA BundlePublishItemStartKeeps == ASSUME Bundle!UninstallAssumption, BundleInv, Bundle!PublishItemStart PROVE BundleInv'
<1> USE DEF Bundle!PublishItemStart, Bundle!world, Bundle!job, Bundle!receipts, Bundle!ghosts, Bundle!Goto, Bundle!Fault, Bundle!PublishParent, Bundle!PublishChild, Bundle!EnsureIdle
<1>1. BundleTypeOK'
  <2>1. case' \in BundleCases /\ pc' \in BundleLabels /\ bundle' \in {"here", "away", "trash"}
    BY DEF BundleInv, BundleTypeOK, BundleLabels, Preparing, OnItems
  <2>2. item' \in [BundleItems -> {"here", "trash", "changed"}]
    BY DEF BundleInv, BundleTypeOK
  <2>3. parent' \in ParentStates /\ dParent' \in ParentStates
    BY DEF BundleInv, BundleTypeOK, ParentStates, Finals, Bundle!Classify
  <2>4. child' \in [BundleItems -> ParentStates] /\ dChild' \in [BundleItems -> ParentStates]
    BY DEF BundleInv, BundleTypeOK, ParentStates
  <2>5. todo' \in Seq(BundleItems)
    BY DEF BundleInv, BundleTypeOK
  <2>6. asked' \in BOOLEAN /\ late' \in BOOLEAN /\ parentErr' \in BOOLEAN /\ childErr' \in BOOLEAN
    BY DEF BundleInv, BundleTypeOK
  <2>7. begun' \in {0, 1} /\ admin' \in {"unavailable", "eligible", "awaiting", "consumed"} /\ related' \in {"none", "ready", "awaiting"}
    BY DEF BundleInv, BundleTypeOK, BeginsOnce, Awaiting, BundleStands, Preparing, OnItems
  <2> QED
    BY <2>1, <2>2, <2>3, <2>4, <2>5, <2>6, <2>7 DEF BundleTypeOK
<1>2. Admits(parent)' /\ Admits(dParent)'
  BY DEF BundleInv, Admits, Spared, BundleStands, BundleTypeOK, Finals, ParentStates, Preparing, OnItems
<1>3. BeginsOnce'
  BY DEF BundleInv, BeginsOnce, Awaiting, Admits, BundleStands, BundleTypeOK, Preparing, OnItems
<1>4. BundleStands'
  BY DEF BundleInv, BeginsOnce, BundleStands, Awaiting, Spared, Admits, Finals, Preparing, OnItems, BundleTypeOK, ParentStates
<1>5. BundleQueue'
  BY DEF BundleInv, BundleQueue, BundleTypeOK
<1>6. ItemsFollow'
  BY DEF BundleInv, ItemsFollow, Awaiting, BeginsOnce, BundleStands, Preparing, OnItems, BundleTypeOK, Touched
<1> QED
  BY <1>1, <1>2, <1>3, <1>4, <1>5, <1>6 DEF BundleInv

LEMMA BundleMoveItemKeeps == ASSUME Bundle!UninstallAssumption, BundleInv, Bundle!MoveItem PROVE BundleInv'
<1> USE DEF Bundle!MoveItem, Bundle!world, Bundle!job, Bundle!receipts, Bundle!ghosts, Bundle!Goto, Bundle!Fault, Bundle!PublishParent, Bundle!PublishChild, Bundle!EnsureIdle
<1>0. todo # <<>>
  BY DEF BundleInv, BundleStands
<1>00. /\ \A y \in BundleItems : y # todo[1] => item'[y] = item[y] /\ child'[y] = child[y]
       /\ item'[todo[1]] = "trash" => child'[todo[1]] \in {"succeeded", "unknown"}
       /\ pc = "itemMove" /\ pc' = "itemRecord" /\ todo' = Tail(todo) /\ todo[1] \in BundleItems
       /\ UNCHANGED <<dChild, parent, dParent, begun, admin, related>>
  BY <1>0, BundleTail DEF BundleInv, BundleTypeOK
<1>1. BundleTypeOK'
  <2>1. case' \in BundleCases /\ pc' \in BundleLabels /\ bundle' \in {"here", "away", "trash"}
    BY DEF BundleInv, BundleTypeOK, BundleLabels, Preparing, OnItems
  <2>2. item' \in [BundleItems -> {"here", "trash", "changed"}]
    BY DEF BundleInv, BundleTypeOK
  <2>3. parent' \in ParentStates /\ dParent' \in ParentStates
    BY DEF BundleInv, BundleTypeOK, ParentStates, Finals, Bundle!Classify
  <2>4. child' \in [BundleItems -> ParentStates] /\ dChild' \in [BundleItems -> ParentStates]
    BY DEF BundleInv, BundleTypeOK, ParentStates
  <2>5. todo' \in Seq(BundleItems)
    BY BundleTail DEF BundleInv, BundleTypeOK, BundleStands
  <2>6. asked' \in BOOLEAN /\ late' \in BOOLEAN /\ parentErr' \in BOOLEAN /\ childErr' \in BOOLEAN
    BY DEF BundleInv, BundleTypeOK
  <2>7. begun' \in {0, 1} /\ admin' \in {"unavailable", "eligible", "awaiting", "consumed"} /\ related' \in {"none", "ready", "awaiting"}
    BY DEF BundleInv, BundleTypeOK, BeginsOnce, Awaiting, BundleStands, Preparing, OnItems
  <2> QED
    BY <2>1, <2>2, <2>3, <2>4, <2>5, <2>6, <2>7 DEF BundleTypeOK
<1>2. Admits(parent)' /\ Admits(dParent)'
  BY DEF BundleInv, Admits, Spared, BundleStands, BundleTypeOK, Finals, ParentStates, Preparing, OnItems
<1>3. BeginsOnce'
  BY DEF BundleInv, BeginsOnce, Awaiting, Admits, BundleStands, BundleTypeOK, Preparing, OnItems
<1>4. BundleStands'
  BY DEF BundleInv, BeginsOnce, BundleStands, Awaiting, Spared, Admits, Finals, Preparing, OnItems, BundleTypeOK, ParentStates
<1>5. BundleQueue'
  <2>1. todo' \in {todo, Tail(todo)}
    OBVIOUS
  <2>2. \A k \in 1..Len(todo') : item'[todo'[k]] # "trash"
    BY <1>0, <1>00, BundleTail DEF BundleInv
  <2> QED
    BY <1>0, <2>1, <2>2, BundleTail DEF BundleInv, BundleQueue
<1>6. ItemsFollow'
  <2>1. begun = 1 /\ admin = "consumed" /\ ~Awaiting /\ parent = "succeeded" /\ dParent = "succeeded" /\ dChild[todo[1]] = "started"
    BY <1>0, <1>00 DEF BundleInv, BeginsOnce, BundleTypeOK, BundleStands, Preparing, OnItems
  <2>2. \A x \in BundleItems : item[x] = "trash" => child[x] \in Touched /\ dChild[x] \in Touched
    BY DEF BundleInv, ItemsFollow
  <2> QED
    BY <1>00, <2>1, <2>2 DEF ItemsFollow, Awaiting, OnItems, Touched
<1> QED
  BY <1>1, <1>2, <1>3, <1>4, <1>5, <1>6 DEF BundleInv

LEMMA BundleRecordItemKeeps == ASSUME Bundle!UninstallAssumption, BundleInv, Bundle!RecordItem PROVE BundleInv'
<1> USE DEF Bundle!RecordItem, Bundle!world, Bundle!job, Bundle!receipts, Bundle!ghosts, Bundle!Goto, Bundle!Fault, Bundle!PublishParent, Bundle!PublishChild, Bundle!EnsureIdle
<1>1. BundleTypeOK'
  <2>1. case' \in BundleCases /\ pc' \in BundleLabels /\ bundle' \in {"here", "away", "trash"}
    BY DEF BundleInv, BundleTypeOK, BundleLabels, Preparing, OnItems
  <2>2. item' \in [BundleItems -> {"here", "trash", "changed"}]
    BY DEF BundleInv, BundleTypeOK
  <2>3. parent' \in ParentStates /\ dParent' \in ParentStates
    BY DEF BundleInv, BundleTypeOK, ParentStates, Finals, Bundle!Classify
  <2>4. child' \in [BundleItems -> ParentStates] /\ dChild' \in [BundleItems -> ParentStates]
    BY DEF BundleInv, BundleTypeOK, ParentStates
  <2>5. todo' \in Seq(BundleItems)
    BY DEF BundleInv, BundleTypeOK
  <2>6. asked' \in BOOLEAN /\ late' \in BOOLEAN /\ parentErr' \in BOOLEAN /\ childErr' \in BOOLEAN
    BY DEF BundleInv, BundleTypeOK
  <2>7. begun' \in {0, 1} /\ admin' \in {"unavailable", "eligible", "awaiting", "consumed"} /\ related' \in {"none", "ready", "awaiting"}
    BY DEF BundleInv, BundleTypeOK, BeginsOnce, Awaiting, BundleStands, Preparing, OnItems
  <2> QED
    BY <2>1, <2>2, <2>3, <2>4, <2>5, <2>6, <2>7 DEF BundleTypeOK
<1>2. Admits(parent)' /\ Admits(dParent)'
  BY DEF BundleInv, Admits, Spared, BundleStands, BundleTypeOK, Finals, ParentStates, Preparing, OnItems
<1>3. BeginsOnce'
  BY DEF BundleInv, BeginsOnce, Awaiting, Admits, BundleStands, BundleTypeOK, Preparing, OnItems
<1>4. BundleStands'
  BY DEF BundleInv, BeginsOnce, BundleStands, Awaiting, Spared, Admits, Finals, Preparing, OnItems, BundleTypeOK, ParentStates
<1>5. BundleQueue'
  BY DEF BundleInv, BundleQueue, BundleTypeOK
<1>6. ItemsFollow'
  BY DEF BundleInv, ItemsFollow, Awaiting, BeginsOnce, BundleStands, Preparing, OnItems, BundleTypeOK, Touched
<1> QED
  BY <1>1, <1>2, <1>3, <1>4, <1>5, <1>6 DEF BundleInv

LEMMA BundleFinishKeeps == ASSUME Bundle!UninstallAssumption, BundleInv, Bundle!Finish PROVE BundleInv'
<1> USE DEF Bundle!Finish, Bundle!world, Bundle!job, Bundle!receipts, Bundle!ghosts, Bundle!Goto, Bundle!Fault, Bundle!PublishParent, Bundle!PublishChild, Bundle!EnsureIdle
<1>1. BundleTypeOK'
  BY DEF BundleInv, BundleTypeOK, BundleLabels, ParentStates, Finals, Preparing, OnItems
<1>2. Admits(parent)' /\ Admits(dParent)'
  BY DEF BundleInv, Admits, Spared, BundleStands, BundleTypeOK, Finals, ParentStates, Preparing, OnItems
<1>0. result' = "skipped" => parent = "skipped"
  <2>1. parent \in Finals
    BY DEF BundleInv, BundleStands, OnItems
  <2> QED
    BY <2>1 DEF Bundle!Told, Finals
<1>00. result' # "refused"
  BY DEF Bundle!Told
<1>3. BeginsOnce'
  BY <1>0, <1>00 DEF BundleInv, BeginsOnce, Awaiting, Admits, BundleStands, BundleTypeOK, Preparing, OnItems
<1>4. BundleStands'
  BY DEF BundleInv, BeginsOnce, BundleStands, Awaiting, Spared, Admits, Finals, Preparing, OnItems, BundleTypeOK, ParentStates
<1>5. BundleQueue'
  BY DEF BundleInv, BundleQueue, BundleTypeOK
<1>6. ItemsFollow'
  BY DEF BundleInv, ItemsFollow, Awaiting, BeginsOnce, BundleStands, Preparing, OnItems, BundleTypeOK, Touched
<1> QED
  BY <1>1, <1>2, <1>3, <1>4, <1>5, <1>6 DEF BundleInv

LEMMA BundleFinderMovesKeeps == ASSUME Bundle!UninstallAssumption, BundleInv, Bundle!FinderMoves PROVE BundleInv'
<1> USE DEF Bundle!FinderMoves, Bundle!world, Bundle!job, Bundle!receipts, Bundle!ghosts, Bundle!Goto, Bundle!Fault, Bundle!PublishParent, Bundle!PublishChild, Bundle!EnsureIdle
<1>1. BundleTypeOK'
  <2>1. case' \in BundleCases /\ pc' \in BundleLabels /\ bundle' \in {"here", "away", "trash"}
    BY DEF BundleInv, BundleTypeOK, BundleLabels, Preparing, OnItems
  <2>2. item' \in [BundleItems -> {"here", "trash", "changed"}]
    BY DEF BundleInv, BundleTypeOK
  <2>3. parent' \in ParentStates /\ dParent' \in ParentStates
    BY DEF BundleInv, BundleTypeOK, ParentStates, Finals, Bundle!Classify
  <2>4. child' \in [BundleItems -> ParentStates] /\ dChild' \in [BundleItems -> ParentStates]
    BY DEF BundleInv, BundleTypeOK, ParentStates
  <2>5. todo' \in Seq(BundleItems)
    BY DEF BundleInv, BundleTypeOK
  <2>6. asked' \in BOOLEAN /\ late' \in BOOLEAN /\ parentErr' \in BOOLEAN /\ childErr' \in BOOLEAN
    BY DEF BundleInv, BundleTypeOK
  <2>7. begun' \in {0, 1} /\ admin' \in {"unavailable", "eligible", "awaiting", "consumed"} /\ related' \in {"none", "ready", "awaiting"}
    BY DEF BundleInv, BundleTypeOK, BeginsOnce, Awaiting, BundleStands, Preparing, OnItems
  <2> QED
    BY <2>1, <2>2, <2>3, <2>4, <2>5, <2>6, <2>7 DEF BundleTypeOK
<1>2. Admits(parent)' /\ Admits(dParent)'
  BY DEF BundleInv, Admits, Spared, BundleStands, BundleTypeOK, Finals, ParentStates, Preparing, OnItems
<1>3. BeginsOnce'
  BY DEF BundleInv, BeginsOnce, Awaiting, Admits, BundleStands, BundleTypeOK, Preparing, OnItems
<1>4. BundleStands'
  BY DEF BundleInv, BeginsOnce, BundleStands, Awaiting, Spared, Admits, Finals, Preparing, OnItems, BundleTypeOK, ParentStates
<1>5. BundleQueue'
  BY DEF BundleInv, BundleQueue, BundleTypeOK
<1>6. ItemsFollow'
  BY DEF BundleInv, ItemsFollow, Awaiting, BeginsOnce, BundleStands, Preparing, OnItems, BundleTypeOK, Touched
<1> QED
  BY <1>1, <1>2, <1>3, <1>4, <1>5, <1>6 DEF BundleInv

LEMMA BundleInterfereKeeps == ASSUME Bundle!UninstallAssumption, BundleInv, Bundle!Interfere PROVE BundleInv'
<1> USE DEF Bundle!Interfere, Bundle!world, Bundle!job, Bundle!receipts, Bundle!ghosts, Bundle!Goto, Bundle!Fault, Bundle!PublishParent, Bundle!PublishChild, Bundle!EnsureIdle
<1>1. BundleTypeOK'
  BY DEF BundleInv, BundleTypeOK, BundleLabels, ParentStates, Finals, Preparing, OnItems
<1>2. Admits(parent)' /\ Admits(dParent)'
  BY DEF BundleInv, Admits, Spared, BundleStands, BundleTypeOK, Finals, ParentStates, Preparing, OnItems
<1>3. BeginsOnce'
  BY DEF BundleInv, BeginsOnce, Awaiting, Admits, BundleStands, BundleTypeOK, Preparing, OnItems
<1>4. BundleStands'
  BY DEF BundleInv, BeginsOnce, BundleStands, Awaiting, Spared, Admits, Finals, Preparing, OnItems, BundleTypeOK, ParentStates
<1>5. BundleQueue'
  BY DEF BundleInv, BundleQueue, BundleTypeOK
<1>6. ItemsFollow'
  BY DEF BundleInv, ItemsFollow, Awaiting, BeginsOnce, BundleStands, Preparing, OnItems, BundleTypeOK, Touched
<1> QED
  BY <1>1, <1>2, <1>3, <1>4, <1>5, <1>6 DEF BundleInv

LEMMA BundleExpireKeeps == ASSUME Bundle!UninstallAssumption, BundleInv, Bundle!Expire PROVE BundleInv'
<1> USE DEF Bundle!Expire, Bundle!world, Bundle!job, Bundle!receipts, Bundle!ghosts, Bundle!Goto, Bundle!Fault, Bundle!PublishParent, Bundle!PublishChild, Bundle!EnsureIdle
<1>1. BundleTypeOK'
  BY DEF BundleInv, BundleTypeOK, BundleLabels, ParentStates, Finals, Preparing, OnItems
<1>2. Admits(parent)' /\ Admits(dParent)'
  BY DEF BundleInv, Admits, Spared, BundleStands, BundleTypeOK, Finals, ParentStates, Preparing, OnItems
<1>3. BeginsOnce'
  BY DEF BundleInv, BeginsOnce, Awaiting, Admits, BundleStands, BundleTypeOK, Preparing, OnItems
<1>4. BundleStands'
  BY DEF BundleInv, BeginsOnce, BundleStands, Awaiting, Spared, Admits, Finals, Preparing, OnItems, BundleTypeOK, ParentStates
<1>5. BundleQueue'
  BY DEF BundleInv, BundleQueue, BundleTypeOK
<1>6. ItemsFollow'
  BY DEF BundleInv, ItemsFollow, Awaiting, BeginsOnce, BundleStands, Preparing, OnItems, BundleTypeOK, Touched
<1> QED
  BY <1>1, <1>2, <1>3, <1>4, <1>5, <1>6 DEF BundleInv

LEMMA BundleCrashKeeps == ASSUME Bundle!UninstallAssumption, BundleInv, Bundle!Crash PROVE BundleInv'
<1> USE DEF Bundle!Crash, Bundle!world, Bundle!job, Bundle!receipts, Bundle!ghosts, Bundle!Goto, Bundle!Fault, Bundle!PublishParent, Bundle!PublishChild, Bundle!EnsureIdle
<1>1. BundleTypeOK'
  BY DEF BundleInv, BundleTypeOK, BundleLabels, ParentStates, Finals, Preparing, OnItems
<1>2. Admits(parent)' /\ Admits(dParent)'
  BY DEF BundleInv, Admits, Spared, BundleStands, BundleTypeOK, Finals, ParentStates, Preparing, OnItems
<1>3. BeginsOnce'
  BY DEF BundleInv, BeginsOnce, Awaiting, Admits, BundleStands, BundleTypeOK, Preparing, OnItems
<1>4. BundleStands'
  BY DEF BundleInv, BeginsOnce, BundleStands, Awaiting, Spared, Admits, Finals, Preparing, OnItems, BundleTypeOK, ParentStates
<1>5. BundleQueue'
  BY DEF BundleInv, BundleQueue, BundleTypeOK
<1>6. ItemsFollow'
  BY DEF BundleInv, ItemsFollow, Awaiting, BeginsOnce, BundleStands, Preparing, OnItems, BundleTypeOK, Touched
<1> QED
  BY <1>1, <1>2, <1>3, <1>4, <1>5, <1>6 DEF BundleInv



LEMMA BundleNextInv == ASSUME Bundle!UninstallAssumption, BundleInv, Bundle!Next PROVE BundleInv'
BY BundlePreviewStartKeeps, BundleRelatedPreviewKeeps, BundleExecuteV1Keeps, BundleAdminBeginV1Keeps,
   BundleExecuteV2Keeps, BundleCancelKeeps, BundleReleaseKeeps, BundlePublishIntentsKeeps,
   BundleParentStartKeeps, BundlePublishStartedKeeps, BundleMoveBundleKeeps, BundleAdminFinishKeeps,
   BundleAdminFinishUnaskedKeeps,
   BundleRecordV1Keeps, BundleRecordParentKeeps, BundleItemStepKeeps, BundlePublishItemStartKeeps,
   BundleMoveItemKeeps, BundleRecordItemKeeps, BundleFinishKeeps, BundleFinderMovesKeeps,
   BundleInterfereKeeps, BundleExpireKeeps, BundleCrashKeeps DEF Bundle!Next

LEMMA BundleInvImplies ==
  ASSUME BundleInv PROVE Bundle!LinkedReceiptsAreTrueSaveLateMoves /\ Bundle!OneExecutionPerHandle
<1>1. bundle = "trash" => dParent \in {"started", "succeeded", "unknown"} \/ (late /\ dParent = "failed")
  BY DEF BundleInv, BundleTypeOK, ParentStates, Admits, Spared
<1>2. \A x \in BundleItems : item[x] = "trash" =>
        dParent = "succeeded" /\ dChild[x] \in {"started", "succeeded", "unknown"}
  BY DEF BundleInv, ItemsFollow, Touched
<1>3. dChild # Bundle!NoChild => dParent # "none"
  BY DEF BundleInv, BundleStands
<1>4. result \in {"refused", "skipped"} => bundle # "trash" /\ \A x \in BundleItems : item[x] # "trash"
  BY DEF BundleInv, BeginsOnce, Admits, Spared, ItemsFollow
<1>5. begun <= 1
  BY DEF BundleInv, BundleTypeOK
<1> QED
  BY <1>1, <1>2, <1>3, <1>4, <1>5 DEF Bundle!LinkedReceiptsAreTrueSaveLateMoves, Bundle!OneExecutionPerHandle

LEMMA BundleStutters == ASSUME BundleInv, UNCHANGED vars PROVE BundleInv'
<1>1. BundleTypeOK' /\ Admits(parent)' /\ Admits(dParent)'
  BY DEF vars, BundleInv, BundleTypeOK, Admits, Spared
<1>2. BeginsOnce' /\ BundleStands' /\ BundleQueue' /\ ItemsFollow'
  BY DEF vars, BundleInv, BeginsOnce, Awaiting, BundleStands, Spared, BundleQueue, ItemsFollow
<1> QED
  BY <1>1, <1>2 DEF BundleInv

----------------------------------------------------------------------------
(* The tools.  A target is called once, after its row was durably started; *)
(* nothing happens to a target that was not called; what its row says is   *)
(* what the listing after the call could tell, and after an unclear call   *)
(* the session has stopped.                                                *)

ToolRowStates == {"none", "planned", "skipped", "started", "succeeded", "failed", "unknown"}
Outcomes == {"succeeded", "failed", "unknown"}
Unbegun == {"new", "ready", "refused", "spawned"}
Called == Tools!Called
Calling == {"start", "call", "check", "settle", "record"}

ToolTypeOK ==
  /\ case \in ToolCases /\ plan \in Seq(SUBSET Tools!Targets) /\ made \in Seq([targets : SUBSET Tools!Targets, unclear : BOOLEAN])
  /\ rows \in [Tools!Targets -> ToolRowStates] /\ durable \in [Tools!Targets -> ToolRowStates]
  /\ stop \in BOOLEAN /\ moves \in Nat
  /\ pc \in Unbegun \cup Calling \cup {"intent", "failed", "loop", "done", "dead"}
  /\ DOMAIN dev = ToolDevices /\ \A d \in ToolDevices : {"listed", "id", "shutdown", "facts", "data"} \subseteq DOMAIN dev[d]
  /\ DOMAIN img = ToolImages /\ \A r \in ToolImages : {"listed", "state", "facts", "path"} \subseteq DOMAIN img[r]
  /\ seen.dev = case.dev /\ (pc = "new" => dev = case.dev)

\* What a call over the sealed listing s may name.
GoodCall(c, s, m) ==
  /\ c # {} /\ Tools!Cardinality(c) <= ToolBatch
  /\ c \subseteq ToolDevices \/ (m = "runtime" /\ \E r \in ToolImages : c = {r})
  /\ \A d \in c \cap ToolDevices : Tools!Partners(s, d) \subseteq c /\ s.dev[d].listed

\* The calls still to be made are of other targets than those made.
ToolPlan ==
  /\ pc \in Unbegun => plan = <<>> /\ made = <<>>
  /\ pc \in {"intent", "failed"} => made = <<>>
  /\ pc \in Calling => plan # <<>>
  /\ pc = "settle" => plan[1] \subseteq ToolImages
  /\ pc \in {"check", "settle", "record"} => made # <<>> /\ made[Len(made)].targets = plan[1]
  /\ \A i \in DOMAIN plan : GoodCall(plan[i], seen, case.mode) /\ plan[i] \subseteq Tools!Selection(case.order)
  /\ \A i \in DOMAIN made : GoodCall(made[i].targets, seen, case.mode) /\ made[i].targets \subseteq Tools!Selection(case.order)
  /\ \A i, j \in DOMAIN plan : i # j => plan[i] \cap plan[j] = {}

RowOf(first, label) ==
  IF ~first \/ label \in {"intent", "loop"} THEN {"planned"} ELSE IF label = "record" THEN Outcomes ELSE {"started"}

ToolRows ==
  /\ pc \notin {"failed", "done", "dead"} => \A i \in DOMAIN plan : \A x \in plan[i] : rows[x] \in RowOf(i = 1, pc)
  /\ \A x \in Tools!Targets :
       /\ x \in Called =>
            /\ rows[x] \in Outcomes \cup {"started"} /\ durable[x] \in Outcomes \cup {"started"}
            /\ rows[x] = "started" => (pc \in {"check", "settle"} /\ x \in plan[1]) \/ pc = "dead"
       /\ rows[x] \in Outcomes => x \in Called
       /\ durable[x] = "failed" => rows[x] = "failed"
       /\ pc = "call" /\ x \in plan[1] => durable[x] = "started"

ToolHits ==
  /\ late \cup hit \subseteq Called /\ Called \subseteq Tools!Targets
  /\ \A x \in hit \cup late : rows[x] # "failed"
  /\ \A d \in ToolDevices :
       /\ case.mode # "erase" /\ d \in hit => ~dev[d].listed
       /\ pc \in {"start", "call"} /\ d \in plan[1] => before[d] = dev[d].data
       /\ case.mode = "erase" /\ pc = "check" /\ d \in plan[1] =>
            IF d \in hit THEN dev[d].data # before[d] /\ dev[d].data = "empty" ELSE dev[d].data = before[d]
       /\ case.mode # "erase" /\ moves = 0 /\ seen.dev[d].listed /\ ~dev[d].listed => d \in hit
  /\ \A r \in ToolImages : r \in hit <=> ~img[r].listed
  /\ pc = "check" /\ end = "failure" => plan[1] \cap late = {}
  /\ case.mode # "erase" /\ moves = 0 => \A x \in Tools!Targets : rows[x] = "succeeded" => x \in hit

ToolStops ==
  /\ \A i \in DOMAIN made : made[i].unclear => stop /\ i = Len(made)
  /\ pc \in {"start", "call"} => ~stop

ToolOrder ==
  /\ \A r \in ToolImages : r \in Called => Tools!Dependents(seen, r) \subseteq Tools!Removed
  /\ \A r \in ToolImages : pc \in {"start", "call"} /\ r \in plan[1] => Tools!Dependents(seen, r) \subseteq Tools!Removed

ToolInv == ToolTypeOK /\ ToolPlan /\ ToolRows /\ ToolHits /\ ToolStops /\ ToolOrder

----------------------------------------------------------------------------
(* What an approved selection is cut into.                                 *)

LEMMA ToolCounts == \A S : Tools!Cardinality(S) = Cardinality(S)
  BY DEF Tools!Cardinality, Cardinality

\* Refused devices with more than one partner aside, a unit has two members.
LEMMA UnitIsSmall ==
  ASSUME Tools!ToolAssumption, NEW d \in ToolDevices, ~(Tools!Cardinality(Tools!Partners(seen, d)) > 1)
  PROVE  Tools!Cardinality(Tools!Unit(d)) <= ToolBatch
<1> DEFINE P == Tools!Partners(seen, d)
<1>1. IsFiniteSet(P)
  <2>1. P \subseteq ToolDevices /\ IsFiniteSet(ToolDevices)
    BY DEF Tools!Partners, Tools!ToolAssumption, Tools!IsFiniteSet, IsFiniteSet
  <2> QED
    BY <2>1, FS_Subset
<1>2. Cardinality(P) \in Nat /\ Cardinality(P) <= 1
  BY <1>1, FS_CardinalityType, ToolCounts
<1>3. Cardinality(P \cup {d}) <= 2
  <2> HIDE DEF P
  <2> QED
    BY <1>1, <1>2, FS_AddElement
<1>4. Tools!Unit(d) = P \cup {d}
  BY DEF Tools!Unit
<1>5. ToolBatch >= 2 /\ ToolBatch \in Nat
  BY DEF Tools!ToolAssumption
<1> HIDE DEF P
<1>6. Cardinality(P \cup {d}) \in Nat
  BY <1>1, FS_AddElement, FS_CardinalityType
<1> QED
  BY <1>3, <1>4, <1>5, <1>6, ToolCounts

LEMMA SelectedDevice ==
  ASSUME Tools!ToolAssumption, case \in ToolCases, Tools!Valid(case.order), NEW d \in Tools!Selection(case.order) \cap ToolDevices
  PROVE  seen.dev[d].listed /\ ~(Tools!Cardinality(Tools!Partners(seen, d)) > 1)
<1>1. case.order \in Seq(IF case.mode = "runtime" THEN ToolImages ELSE ToolDevices) /\ ToolDevices \cap ToolImages = {}
  BY DEF Tools!ToolAssumption
<1>2. \A x \in Tools!ToSet(case.order) : IF case.mode = "runtime" THEN ~Tools!Protected(seen, x)
                                         ELSE x \in Tools!Listed(seen) /\ ~Tools!Refused(seen, x, case.mode)
  BY DEF Tools!Valid, Tools!mode
<1>3. CASE case.mode = "runtime"
  <2>1. PICK r \in Tools!ToSet(case.order) : d \in Tools!Dependents(seen, r)
    BY <1>1, <1>3 DEF Tools!Selection, Tools!mode, Tools!ToSet
  <2> QED
    BY <1>2, <1>3, <2>1 DEF Tools!Protected, Tools!Dependents, Tools!Listed, Tools!Refused
<1>4. CASE case.mode # "runtime"
  BY <1>2, <1>4 DEF Tools!Selection, Tools!mode, Tools!Listed, Tools!Refused
<1> QED
  BY <1>3, <1>4

LEMMA CallsAreGood ==
  ASSUME Tools!ToolAssumption, case \in ToolCases, Tools!Valid(case.order), NEW cs \in Tools!Calls(case.order)
  PROVE  /\ cs \in Seq(SUBSET Tools!Targets)
         /\ \A i \in DOMAIN cs : GoodCall(cs[i], seen, case.mode) /\ cs[i] \subseteq Tools!Selection(case.order)
         /\ \A i, j \in DOMAIN cs : i # j => cs[i] \cap cs[j] = {}
<1> DEFINE all == Tools!Selection(case.order)
           some == {{r} : r \in all \cap ToolImages} \cup SUBSET (all \cap ToolDevices)
<1>1. PICK n \in 1..Tools!Cardinality(all) : cs \in [1..n -> some \ {{}}]
  BY DEF Tools!Calls
<1>2. /\ \A k, l \in DOMAIN cs : k < l => cs[k] \cap cs[l] = {}
      /\ \A k \in DOMAIN cs : ~Tools!IsImageCall(cs[k]) => Tools!IsBatch(cs[k])
  BY DEF Tools!Calls
<1> HIDE DEF all
<1>3. Tools!ToolAssumption => ToolDevices \cap ToolImages = {} /\ ToolBatch \in Nat \ {0, 1}
  BY DEF Tools!ToolAssumption
<1>4. n \in Nat /\ DOMAIN cs = 1..n
  BY <1>1
<1>5. \A i \in DOMAIN cs : cs[i] # {} /\ cs[i] \in some
  BY <1>1
<1>6. ASSUME NEW i \in DOMAIN cs PROVE GoodCall(cs[i], seen, case.mode) /\ cs[i] \subseteq all /\ cs[i] \subseteq Tools!Targets
  <2>1. CASE \E r \in all \cap ToolImages : cs[i] = {r}
    <3>1. PICK r \in all \cap ToolImages : cs[i] = {r}
      BY <2>1
    <3>2. Tools!Cardinality(cs[i]) = 1
      BY <3>1, FS_Singleton, ToolCounts
    <3>3. case.mode = "runtime"
      <4>1. case.order \in Seq(IF case.mode = "runtime" THEN ToolImages ELSE ToolDevices)
        BY DEF Tools!ToolAssumption
      <4> QED
        BY <1>3, <3>1, <4>1 DEF all, Tools!Selection, Tools!mode, Tools!ToSet
    <3> QED
      BY <1>3, <3>1, <3>2, <3>3 DEF GoodCall, Tools!Targets
  <2>2. CASE cs[i] \subseteq all \cap ToolDevices
    <3>1. cs[i] # {}
      BY <1>5
    <3>2. Tools!IsBatch(cs[i])
      BY <1>2, <1>3, <2>2, <3>1 DEF Tools!IsImageCall
    <3>3. \A d \in cs[i] : seen.dev[d].listed /\ ~(Tools!Cardinality(Tools!Partners(seen, d)) > 1)
      BY <2>2, SelectedDevice DEF all
    <3>4. Tools!Cardinality(cs[i]) <= ToolBatch
      BY <2>2, <3>2, <3>3, UnitIsSmall DEF Tools!IsBatch
    <3> QED
      BY <2>2, <3>1, <3>2, <3>3, <3>4 DEF GoodCall, Tools!Targets, Tools!IsBatch, Tools!Unit
  <2> QED
    BY <1>5, <2>1, <2>2
<1>7. \A i, j \in DOMAIN cs : i # j => cs[i] \cap cs[j] = {}
  BY <1>2, <1>4
<1>8. cs \in [1..n -> SUBSET Tools!Targets]
  BY <1>1, <1>4, <1>6
<1>9. cs \in Seq(SUBSET Tools!Targets)
  BY <1>4, <1>8
<1> QED
  BY <1>6, <1>7, <1>9 DEF all

----------------------------------------------------------------------------
(* Every step.                                                             *)

LEMMA ToolCalledSame ==
  ASSUME Len(made') = Len(made), \A i \in 1..Len(made) : made'[i].targets = made[i].targets PROVE Called' = Called
  BY DEF Called, Tools!Called

LEMMA ToolCalledMore ==
  ASSUME ToolTypeOK, NEW c, made' = Append(made, [targets |-> c, unclear |-> FALSE]) PROVE Called' = Called \cup c
<1>1. made \in Seq([targets : SUBSET Tools!Targets, unclear : BOOLEAN])
  BY DEF ToolTypeOK
<1>2. Len(made') = Len(made) + 1 /\ Len(made) \in Nat
  BY <1>1
<1>3. \A i \in 1..Len(made) : made'[i] = made[i]
  BY <1>1
<1>4. made'[Len(made')].targets = c
  BY <1>1
<1>5. 1..Len(made') = 1..Len(made) \cup {Len(made')}
  BY <1>2
<1> QED
  BY <1>3, <1>4, <1>5 DEF Called, Tools!Called

LEMMA ToolSealed ==
  ASSUME case' = case, seen' = seen PROVE Tools!Selection(case.order)' = Tools!Selection(case.order)
  BY DEF Tools!Selection, Tools!mode, Tools!Dependents, Tools!Listed, Tools!ToSet

\* Handling a call leaves the calls behind it.
LEMMA ToolTail ==
  ASSUME ToolTypeOK, plan # <<>>
  PROVE  /\ Head(plan) = plan[1] /\ 1 \in DOMAIN plan /\ plan[1] \subseteq Tools!Targets
         /\ Tail(plan) \in Seq(SUBSET Tools!Targets)
         /\ \A i \in DOMAIN Tail(plan) : i \in Nat /\ i + 1 # 1 /\ i + 1 \in DOMAIN plan /\ Tail(plan)[i] = plan[i + 1]
<1>1. plan \in Seq(SUBSET Tools!Targets)
  BY DEF ToolTypeOK
<1> QED
  BY <1>1, <1>1

LEMMA ToolExpireKeeps == ASSUME Tools!ToolAssumption, ToolInv, Tools!Expire PROVE ToolInv'
<1> USE DEF Tools!Expire, Tools!world, Tools!service, Tools!approval, Tools!run, Tools!Goto, Tools!Fault, Tools!Looping, Tools!SetRows, Tools!PublishClean, Tools!PublishFails, Tools!mode
<1>1. /\ Called' = Called /\ case' = case /\ seen' = seen /\ made' = made
      /\ Tools!Selection(case.order)' = Tools!Selection(case.order)
  BY ToolCalledSame, ToolSealed
<1>2. ToolTypeOK'
  BY <1>1, ToolTail DEF ToolInv, ToolTypeOK, ToolRowStates, Unbegun, Calling
<1>3. ToolPlan'
  BY <1>1, ToolTail DEF ToolInv, ToolPlan, Unbegun, Calling
<1>4. ToolRows'
  BY <1>1, ToolTail DEF ToolInv, ToolTypeOK, ToolPlan, ToolRows, RowOf, Unbegun, Calling, Outcomes
<1>5. ToolHits'
  BY <1>1, ToolTail DEF ToolInv, ToolTypeOK, ToolPlan, ToolRows, ToolHits, RowOf, Unbegun, Calling, Outcomes
<1>6. ToolStops'
  BY <1>1 DEF ToolInv, ToolStops
<1>7. ToolOrder'
  BY <1>1, ToolTail DEF ToolInv, ToolTypeOK, ToolPlan, ToolRows, ToolOrder, Tools!Removed, RowOf, Outcomes
<1> QED
  BY <1>2, <1>3, <1>4, <1>5, <1>6, <1>7 DEF ToolInv

LEMMA ToolHostExecuteKeeps == ASSUME Tools!ToolAssumption, ToolInv, Tools!HostExecute PROVE ToolInv'
<1> USE DEF Tools!HostExecute, Tools!world, Tools!service, Tools!approval, Tools!run, Tools!Goto, Tools!Fault, Tools!Looping, Tools!SetRows, Tools!PublishClean, Tools!PublishFails, Tools!mode
<1>1. /\ Called' = Called /\ case' = case /\ seen' = seen /\ made' = made
      /\ Tools!Selection(case.order)' = Tools!Selection(case.order)
  BY ToolCalledSame, ToolSealed
<1>2. ToolTypeOK'
  BY <1>1, ToolTail DEF ToolInv, ToolTypeOK, ToolRowStates, Unbegun, Calling
<1>3. ToolPlan'
  BY <1>1, ToolTail DEF ToolInv, ToolPlan, Unbegun, Calling
<1>4. ToolRows'
  BY <1>1, ToolTail DEF ToolInv, ToolTypeOK, ToolPlan, ToolRows, RowOf, Unbegun, Calling, Outcomes
<1>5. ToolHits'
  BY <1>1, ToolTail DEF ToolInv, ToolTypeOK, ToolPlan, ToolRows, ToolHits, RowOf, Unbegun, Calling, Outcomes
<1>6. ToolStops'
  BY <1>1 DEF ToolInv, ToolStops
<1>7. ToolOrder'
  BY <1>1, ToolTail DEF ToolInv, ToolTypeOK, ToolPlan, ToolRows, ToolOrder, Tools!Removed, RowOf, Outcomes
<1> QED
  BY <1>2, <1>3, <1>4, <1>5, <1>6, <1>7 DEF ToolInv

LEMMA ToolPublishIntentKeeps == ASSUME Tools!ToolAssumption, ToolInv, Tools!PublishIntent PROVE ToolInv'
<1> USE DEF Tools!PublishIntent, Tools!world, Tools!service, Tools!approval, Tools!run, Tools!Goto, Tools!Fault, Tools!Looping, Tools!SetRows, Tools!PublishClean, Tools!PublishFails, Tools!mode
<1>1. /\ Called' = Called /\ case' = case /\ seen' = seen /\ made' = made
      /\ Tools!Selection(case.order)' = Tools!Selection(case.order)
  BY ToolCalledSame, ToolSealed
<1>2. ToolTypeOK'
  BY <1>1, ToolTail DEF ToolInv, ToolTypeOK, ToolRowStates, Unbegun, Calling
<1>3. ToolPlan'
  BY <1>1, ToolTail DEF ToolInv, ToolPlan, Unbegun, Calling
<1>4. ToolRows'
  BY <1>1, ToolTail DEF ToolInv, ToolTypeOK, ToolPlan, ToolRows, RowOf, Unbegun, Calling, Outcomes
<1>5. ToolHits'
  BY <1>1, ToolTail DEF ToolInv, ToolTypeOK, ToolPlan, ToolRows, ToolHits, RowOf, Unbegun, Calling, Outcomes
<1>6. ToolStops'
  BY <1>1 DEF ToolInv, ToolStops
<1>7. ToolOrder'
  BY <1>1, ToolTail DEF ToolInv, ToolTypeOK, ToolPlan, ToolRows, ToolOrder, Tools!Removed, RowOf, Outcomes
<1> QED
  BY <1>2, <1>3, <1>4, <1>5, <1>6, <1>7 DEF ToolInv

LEMMA ToolFinalPublishKeeps == ASSUME Tools!ToolAssumption, ToolInv, Tools!FinalPublish PROVE ToolInv'
<1> USE DEF Tools!FinalPublish, Tools!world, Tools!service, Tools!approval, Tools!run, Tools!Goto, Tools!Fault, Tools!Looping, Tools!SetRows, Tools!PublishClean, Tools!PublishFails, Tools!mode
<1>1. /\ Called' = Called /\ case' = case /\ seen' = seen /\ made' = made
      /\ Tools!Selection(case.order)' = Tools!Selection(case.order)
  BY ToolCalledSame, ToolSealed
<1>2. ToolTypeOK'
  BY <1>1, ToolTail DEF ToolInv, ToolTypeOK, ToolRowStates, Unbegun, Calling
<1>3. ToolPlan'
  BY <1>1, ToolTail DEF ToolInv, ToolPlan, Unbegun, Calling
<1>4. ToolRows'
  BY <1>1, ToolTail DEF ToolInv, ToolTypeOK, ToolPlan, ToolRows, RowOf, Unbegun, Calling, Outcomes
<1>5. ToolHits'
  BY <1>1, ToolTail DEF ToolInv, ToolTypeOK, ToolPlan, ToolRows, ToolHits, RowOf, Unbegun, Calling, Outcomes
<1>6. ToolStops'
  BY <1>1 DEF ToolInv, ToolStops
<1>7. ToolOrder'
  BY <1>1, ToolTail DEF ToolInv, ToolTypeOK, ToolPlan, ToolRows, ToolOrder, Tools!Removed, RowOf, Outcomes
<1> QED
  BY <1>2, <1>3, <1>4, <1>5, <1>6, <1>7 DEF ToolInv

LEMMA ToolCrashKeeps == ASSUME Tools!ToolAssumption, ToolInv, Tools!Crash PROVE ToolInv'
<1> USE DEF Tools!Crash, Tools!world, Tools!service, Tools!approval, Tools!run, Tools!Goto, Tools!Fault, Tools!Looping, Tools!SetRows, Tools!PublishClean, Tools!PublishFails, Tools!mode
<1>1. /\ Called' = Called /\ case' = case /\ seen' = seen /\ made' = made
      /\ Tools!Selection(case.order)' = Tools!Selection(case.order)
  BY ToolCalledSame, ToolSealed
<1>2. ToolTypeOK'
  BY <1>1, ToolTail DEF ToolInv, ToolTypeOK, ToolRowStates, Unbegun, Calling
<1>3. ToolPlan'
  BY <1>1, ToolTail DEF ToolInv, ToolPlan, Unbegun, Calling
<1>4. ToolRows'
  BY <1>1, ToolTail DEF ToolInv, ToolTypeOK, ToolPlan, ToolRows, RowOf, Unbegun, Calling, Outcomes
<1>5. ToolHits'
  BY <1>1, ToolTail DEF ToolInv, ToolTypeOK, ToolPlan, ToolRows, ToolHits, RowOf, Unbegun, Calling, Outcomes
<1>6. ToolStops'
  BY <1>1 DEF ToolInv, ToolStops
<1>7. ToolOrder'
  BY <1>1, ToolTail DEF ToolInv, ToolTypeOK, ToolPlan, ToolRows, ToolOrder, Tools!Removed, RowOf, Outcomes
<1> QED
  BY <1>2, <1>3, <1>4, <1>5, <1>6, <1>7 DEF ToolInv

LEMMA ToolCancelKeeps == ASSUME Tools!ToolAssumption, ToolInv, Tools!Cancel PROVE ToolInv'
<1> USE DEF Tools!Cancel, Tools!world, Tools!service, Tools!approval, Tools!run, Tools!Goto, Tools!Fault, Tools!Looping, Tools!SetRows, Tools!PublishClean, Tools!PublishFails, Tools!mode
<1>1. /\ Called' = Called /\ case' = case /\ seen' = seen /\ made' = made
      /\ Tools!Selection(case.order)' = Tools!Selection(case.order)
  BY ToolCalledSame, ToolSealed
<1>2. ToolTypeOK'
  BY <1>1, ToolTail DEF ToolInv, ToolTypeOK, ToolRowStates, Unbegun, Calling
<1>3. ToolPlan'
  BY <1>1, ToolTail DEF ToolInv, ToolPlan, Unbegun, Calling
<1>4. ToolRows'
  BY <1>1, ToolTail DEF ToolInv, ToolTypeOK, ToolPlan, ToolRows, RowOf, Unbegun, Calling, Outcomes
<1>5. ToolHits'
  BY <1>1, ToolTail DEF ToolInv, ToolTypeOK, ToolPlan, ToolRows, ToolHits, RowOf, Unbegun, Calling, Outcomes
<1>6. ToolStops'
  BY <1>1 DEF ToolInv, ToolStops
<1>7. ToolOrder'
  BY <1>1, ToolTail DEF ToolInv, ToolTypeOK, ToolPlan, ToolRows, ToolOrder, Tools!Removed, RowOf, Outcomes
<1> QED
  BY <1>2, <1>3, <1>4, <1>5, <1>6, <1>7 DEF ToolInv

LEMMA ToolHostReleaseKeeps == ASSUME Tools!ToolAssumption, ToolInv, Tools!HostRelease PROVE ToolInv'
<1> USE DEF Tools!HostRelease, Tools!world, Tools!service, Tools!approval, Tools!run, Tools!Goto, Tools!Fault, Tools!Looping, Tools!SetRows, Tools!PublishClean, Tools!PublishFails, Tools!mode
<1>1. /\ Called' = Called /\ case' = case /\ seen' = seen /\ made' = made
      /\ Tools!Selection(case.order)' = Tools!Selection(case.order)
  BY ToolCalledSame, ToolSealed
<1>2. ToolTypeOK'
  BY <1>1, ToolTail DEF ToolInv, ToolTypeOK, ToolRowStates, Unbegun, Calling
<1>3. ToolPlan'
  BY <1>1, ToolTail DEF ToolInv, ToolPlan, Unbegun, Calling
<1>4. ToolRows'
  BY <1>1, ToolTail DEF ToolInv, ToolTypeOK, ToolPlan, ToolRows, RowOf, Unbegun, Calling, Outcomes
<1>5. ToolHits'
  BY <1>1, ToolTail DEF ToolInv, ToolTypeOK, ToolPlan, ToolRows, ToolHits, RowOf, Unbegun, Calling, Outcomes
<1>6. ToolStops'
  BY <1>1 DEF ToolInv, ToolStops
<1>7. ToolOrder'
  BY <1>1, ToolTail DEF ToolInv, ToolTypeOK, ToolPlan, ToolRows, ToolOrder, Tools!Removed, RowOf, Outcomes
<1> QED
  BY <1>2, <1>3, <1>4, <1>5, <1>6, <1>7 DEF ToolInv

\* What was removed stays recorded as removed.
LEMMA ToolOrderKept ==
  ASSUME ToolOrder, seen' = seen, Called' = Called,
         \A d \in ToolDevices : rows[d] = "succeeded" => rows'[d] = "succeeded",
         \A r \in ToolImages : pc' \in {"start", "call"} /\ r \in plan'[1] => Tools!Dependents(seen, r) \subseteq Tools!Removed
  PROVE  ToolOrder'
<1>1. Tools!Removed \subseteq Tools!Removed'
  BY DEF Tools!Removed
<1> QED
  BY <1>1 DEF ToolOrder

\* Outside a call the session goes on to the next one, to its end or into the
\* call; what it had not begun it may skip.
LEMMA ToolGoesOn ==
  ASSUME ToolInv, UNCHANGED <<case, dev, img, late, hit, seen, before, end, made, moves>>,
         pc \in {"loop", "start", "record"}, plan # <<>>,
         durable' \in {durable, rows}, stop' \in BOOLEAN, stop' \/ ~stop \/ stop' = stop,
         rows' \in [Tools!Targets -> ToolRowStates],
         \A x \in Tools!Targets : rows'[x] = rows[x] \/ (rows[x] \in {"planned", "started"} /\ rows'[x] = "skipped"),
         \/ pc' = "done" /\ plan' = <<>>
         \/ pc' = "loop" /\ plan' = Tail(plan) /\ \A x \in Tools!Targets \ plan[1] : rows'[x] = rows[x]
         \/ pc = "start" /\ pc' = "call" /\ durable' = rows /\ UNCHANGED <<rows, plan, stop>>
  PROVE  ToolInv'
<1>1. /\ Called' = Called /\ Tools!Selection(case.order)' = Tools!Selection(case.order)
      /\ ToolTypeOK /\ 1 \in DOMAIN plan
  BY ToolCalledSame, ToolSealed, ToolTail DEF ToolInv
<1>2. ToolTypeOK'
  <2>1. plan' \in Seq(SUBSET Tools!Targets)
    <3>1. plan' = <<>> \/ plan' = Tail(plan) \/ plan' = plan
      OBVIOUS
    <3>2. plan \in Seq(SUBSET Tools!Targets) /\ Tail(plan) \in Seq(SUBSET Tools!Targets)
      BY <1>1, ToolTail DEF ToolTypeOK
    <3>3. ASSUME NEW T PROVE <<>> \in Seq(T)
      OBVIOUS
    <3> QED
      BY <3>1, <3>2, <3>3
  <2>2. durable' \in [Tools!Targets -> ToolRowStates]
    BY <1>1 DEF ToolTypeOK
  <2> QED
    BY <1>1, <2>1, <2>2 DEF ToolTypeOK, Unbegun, Calling
<1>3. ToolPlan'
  <2>1. CASE pc' = "done" /\ plan' = <<>>
    BY <1>1, <2>1 DEF ToolInv, ToolPlan, Unbegun, Calling
  <2>2. CASE pc' = "loop" /\ plan' = Tail(plan)
    BY <1>1, <2>2, ToolTail DEF ToolInv, ToolPlan, Unbegun, Calling
  <2>3. CASE pc' = "call" /\ plan' = plan
    BY <1>1, <2>3 DEF ToolInv, ToolPlan, Unbegun, Calling
  <2> QED
    BY <2>1, <2>2, <2>3
<1>4. /\ \A x \in plan[1] : x \in Tools!Targets
      /\ \A i \in DOMAIN plan : i # 1 => \A x \in plan[i] : x \in Tools!Targets /\ x \notin plan[1] /\ rows[x] = "planned"
  <2>1. \A i \in DOMAIN plan : \A x \in plan[i] : rows[x] \in RowOf(i = 1, pc) /\ x \in Tools!Targets
    BY <1>1 DEF ToolInv, ToolRows, ToolTypeOK
  <2>2. \A i \in DOMAIN plan : i # 1 => plan[i] \cap plan[1] = {}
    BY <1>1 DEF ToolInv, ToolPlan
  <2> QED
    BY <1>1, <2>1, <2>2 DEF RowOf, Outcomes
<1>5. ToolRows'
  <2>1. pc' # "done" => \A i \in DOMAIN plan' : \A x \in plan'[i] : rows'[x] \in RowOf(i = 1, pc')
    <3>1. CASE pc' = "loop" /\ plan' = Tail(plan) /\ \A x \in Tools!Targets \ plan[1] : rows'[x] = rows[x]
      <4>1. ASSUME NEW i \in DOMAIN plan', NEW x \in plan'[i] PROVE rows'[x] = "planned"
        <5>1. i + 1 \in DOMAIN plan /\ i + 1 # 1 /\ x \in plan[i + 1]
          BY <1>1, <3>1, <4>1, ToolTail
        <5> QED
          BY <1>4, <3>1, <5>1
      <4> QED
        BY <3>1, <4>1 DEF RowOf
    <3>2. CASE pc = "start" /\ pc' = "call" /\ UNCHANGED <<rows, plan>>
      BY <3>2 DEF RowOf, ToolInv, ToolRows
    <3> QED
      BY <3>1, <3>2
  <2>2. ASSUME NEW x \in Tools!Targets
        PROVE  /\ x \in Called => rows'[x] = rows[x] /\ durable'[x] \in {durable[x], rows[x]} /\ rows[x] \in Outcomes
               /\ rows'[x] \in Outcomes => rows'[x] = rows[x]
               /\ rows[x] \in Outcomes => rows'[x] = rows[x]
               /\ durable'[x] = "failed" => rows[x] = "failed"
    BY <1>1 DEF ToolInv, ToolRows, ToolTypeOK, Outcomes
  <2>3. pc' = "call" => \A x \in plan'[1] : durable'[x] = "started"
    BY <1>1 DEF ToolInv, ToolRows, RowOf
  <2> QED
    BY <1>1, <2>1, <2>2, <2>3 DEF ToolInv, ToolRows, Outcomes
<1>6. ToolHits'
  <2>1. \A x \in Tools!Targets : rows'[x] \in {"failed", "succeeded"} => rows'[x] = rows[x]
    BY <1>1 DEF ToolTypeOK
  <2> QED
    BY <1>1, <2>1 DEF ToolInv, ToolHits
<1>7. ToolStops'
  BY <1>1 DEF ToolInv, ToolStops, ToolTypeOK
<1>8. ToolOrder'
  <2>1. \A d \in ToolDevices : rows[d] = "succeeded" => rows'[d] = "succeeded"
    BY <1>1 DEF ToolTypeOK, Tools!Targets
  <2> QED
    BY <1>1, <2>1, ToolOrderKept DEF ToolInv, ToolOrder
<1> QED
  BY <1>2, <1>3, <1>5, <1>6, <1>7, <1>8 DEF ToolInv

\* The rows of a call that is not made, or of what is left, are skipped.
LEMMA ToolSkips ==
  ASSUME ToolInv, pc \in {"loop", "start", "record"}, NEW S,
         \A x \in S : (plan # <<>> /\ x \in plan[1] /\ pc # "record") \/ rows[x] = "planned",
         rows' = [x \in Tools!Targets |-> IF x \in S THEN "skipped" ELSE rows[x]]
  PROVE  /\ rows' \in [Tools!Targets -> ToolRowStates]
         /\ \A x \in Tools!Targets : rows'[x] = rows[x] \/ (rows[x] \in {"planned", "started"} /\ rows'[x] = "skipped")
<1>1. plan # <<>> => 1 \in DOMAIN plan
  BY DEF ToolInv, ToolTypeOK
<1>2. pc # "record" /\ plan # <<>> => \A x \in plan[1] : rows[x] \in {"planned", "started"}
  BY <1>1 DEF ToolInv, ToolRows, RowOf
<1> QED
  BY <1>2 DEF ToolInv, ToolTypeOK, ToolRowStates

LEMMA ToolSkipKeeps == ASSUME ToolInv, Tools!SkipCall \/ Tools!RefuseCall \/ Tools!PublishStart \/ Tools!RecordCall PROVE ToolInv'
<1> USE DEF Tools!world, Tools!service, Tools!approval, Tools!run, Tools!Goto, Tools!Fault, Tools!Looping, Tools!SetRows,
            Tools!PublishClean, Tools!PublishFails, Tools!mode
<1>1. plan # <<>> /\ Head(plan) = plan[1] /\ stop \in BOOLEAN
  BY ToolTail DEF ToolInv, ToolTypeOK, ToolPlan, Calling, Tools!SkipCall, Tools!RefuseCall, Tools!PublishStart, Tools!RecordCall
<1> DEFINE Kept == \A x \in Tools!Targets : rows'[x] = rows[x] \/ (rows[x] \in {"planned", "started"} /\ rows'[x] = "skipped")
           Typed == rows' \in [Tools!Targets -> ToolRowStates]
<1>2. CASE Tools!SkipCall \/ Tools!RefuseCall
  <2>1. rows' = [x \in Tools!Targets |-> IF x \in plan[1] THEN "skipped" ELSE rows[x]] /\ pc = "loop"
    BY <1>1, <1>2 DEF Tools!SkipCall, Tools!RefuseCall
  <2>2. Kept /\ Typed
    BY <1>1, <2>1, ToolSkips
  <2>3. \A x \in Tools!Targets \ plan[1] : rows'[x] = rows[x]
    BY <2>1
  <2> HIDE DEF Kept, Typed
  <2>4. /\ UNCHANGED <<case, dev, img, late, hit, seen, before, end, made, moves>>
        /\ durable' = durable /\ stop' \in BOOLEAN /\ (stop' \/ ~stop) /\ pc' = "loop" /\ plan' = Tail(plan)
    BY <1>1, <1>2 DEF Tools!SkipCall, Tools!RefuseCall
  <2> QED
    BY <1>1, <2>1, <2>2, <2>3, <2>4, ToolGoesOn DEF Kept, Typed
<1>3. CASE Tools!PublishStart \/ Tools!RecordCall
  <2>1. /\ UNCHANGED <<case, dev, img, late, hit, seen, before, end, made, moves>>
        /\ durable' \in {durable, rows} /\ stop' \in BOOLEAN /\ (stop' \/ stop' = stop) /\ pc \in {"start", "record"}
    BY <1>1, <1>3 DEF Tools!PublishStart, Tools!RecordCall
  <2>2. CASE UNCHANGED rows
    <3>1. Kept /\ Typed
      BY <2>2 DEF ToolInv, ToolTypeOK
    <3>2. \/ pc' = "done" /\ plan' = <<>>
          \/ pc' = "loop" /\ plan' = Tail(plan)
          \/ pc = "start" /\ pc' = "call" /\ durable' = rows /\ UNCHANGED <<rows, plan, stop>>
      BY <1>1, <1>3, <2>2 DEF Tools!PublishStart, Tools!RecordCall
    <3> HIDE DEF Kept, Typed
    <3> QED
      BY <1>1, <2>1, <2>2, <3>1, <3>2, ToolGoesOn DEF Kept, Typed
  <2>3. CASE ~UNCHANGED rows
    <3> DEFINE S == {x \in Tools!Targets : (pc = "start" /\ x \in plan[1]) \/ (case.mode # "runtime" /\ rows[x] = "planned")}
    <3>1. /\ rows' = [x \in Tools!Targets |-> IF x \in S THEN "skipped" ELSE rows[x]]
          /\ IF case.mode = "runtime" THEN pc' = "loop" /\ plan' = Tail(plan) ELSE pc' = "done" /\ plan' = <<>>
      BY <1>1, <1>3, <2>3 DEF Tools!PublishStart, Tools!RecordCall
    <3>2. case.mode = "runtime" => \A x \in Tools!Targets \ plan[1] : rows'[x] = rows[x]
      BY <3>1
    <3>3. \A x \in S : (plan # <<>> /\ x \in plan[1] /\ pc # "record") \/ rows[x] = "planned"
      BY <1>1
    <3> HIDE DEF S
    <3>4. Kept /\ Typed
      BY <2>1, <3>1, <3>3, ToolSkips
    <3> HIDE DEF Kept, Typed
    <3> QED
      BY <1>1, <2>1, <3>1, <3>2, <3>4, ToolGoesOn DEF Kept, Typed
  <2> QED
    BY <2>2, <2>3
<1> QED
  BY <1>2, <1>3

LEMMA ToolStartKeeps == ASSUME Tools!ToolAssumption, ToolInv, Tools!StartCall PROVE ToolInv'
<1> USE DEF Tools!world, Tools!service, Tools!approval, Tools!run, Tools!Goto, Tools!Looping, Tools!SetRows, Tools!mode
<1>1. /\ Called' = Called /\ Tools!Selection(case.order)' = Tools!Selection(case.order)
      /\ UNCHANGED <<case, seen, made, plan, stop, durable, dev, img, late, hit, end, moves>>
      /\ pc = "loop" /\ pc' = "start" /\ ~stop /\ plan # <<>> /\ Head(plan) = plan[1] /\ plan[1] \subseteq Tools!Targets
      /\ 1 \in DOMAIN plan /\ ToolTypeOK /\ before' = [d \in ToolDevices |-> dev[d].data]
  BY ToolCalledSame, ToolSealed, ToolTail DEF ToolInv, Tools!StartCall
<1>2. rows' = [x \in Tools!Targets |-> IF x \in plan[1] THEN "started" ELSE rows[x]]
  BY <1>1 DEF Tools!StartCall
<1>3. ToolTypeOK'
  BY <1>1, <1>2 DEF ToolTypeOK, ToolRowStates, Unbegun, Calling
<1>4. ToolPlan'
  BY <1>1 DEF ToolInv, ToolPlan, Unbegun, Calling
<1>5. \A x \in plan[1] : rows[x] = "planned" /\ x \notin Called
  BY <1>1 DEF ToolInv, ToolRows, RowOf, Outcomes
<1>6. ToolRows'
  BY <1>1, <1>2, <1>5 DEF ToolInv, ToolTypeOK, ToolPlan, ToolRows, RowOf, Outcomes
<1>7. ToolHits'
  BY <1>1, <1>2 DEF ToolInv, ToolTypeOK, ToolHits
<1>8. ToolStops'
  BY <1>1 DEF ToolInv, ToolStops
<1>9. \A r \in ToolImages : r \in plan[1] => Tools!Dependents(seen, r) \subseteq Tools!Removed
  <2>1. SUFFICES ASSUME NEW r \in ToolImages, r \in plan[1] PROVE Tools!Dependents(seen, r) \subseteq Tools!Removed
    OBVIOUS
  <2>2. case.mode = "runtime" /\ plan[1] = {r}
    BY <1>1, <2>1 DEF ToolInv, ToolPlan, GoodCall, Tools!ToolAssumption
  <2>3. Tools!IsImageCall(plan[1]) /\ Tools!ImageOfCall(plan[1]) = r
    BY <2>2 DEF Tools!IsImageCall, Tools!ImageOfCall
  <2>4. Tools!RuntimeMatches(r) /\ Tools!Dependents(Tools!Listing, r) = {}
    BY <1>1, <2>2, <2>3 DEF Tools!StartCall, Tools!Revalidated
  <2> QED
    BY <2>4 DEF Tools!RuntimeMatches
<1>10. ToolOrder'
  <2>1. \A d \in ToolDevices : rows[d] = "succeeded" => rows'[d] = "succeeded"
    BY <1>2, <1>5 DEF Tools!Targets
  <2> QED
    BY <1>1, <1>9, <2>1, ToolOrderKept DEF ToolInv
<1> QED
  BY <1>3, <1>4, <1>6, <1>7, <1>8, <1>10 DEF ToolInv

\* Other programs change no data, and relist only what was not there to be
\* selected.
LEMMA ToolInterfereKeeps == ASSUME ToolInv, Tools!Interfere PROVE ToolInv'
<1> USE DEF Tools!service, Tools!approval, Tools!run, Tools!mode
<1>1. /\ Called' = Called /\ Tools!Selection(case.order)' = Tools!Selection(case.order)
      /\ UNCHANGED <<case, seen, made, plan, stop, durable, rows, late, hit, end, before, pc>>
      /\ moves' = moves + 1 /\ ToolTypeOK /\ pc # "new" /\ moves \in Nat
  BY ToolCalledSame, ToolSealed DEF ToolInv, ToolTypeOK, Tools!Interfere
<1>2. /\ DOMAIN dev' = ToolDevices
      /\ \A d \in ToolDevices : /\ {"listed", "id", "shutdown", "facts", "data"} \subseteq DOMAIN dev'[d]
                                /\ dev'[d].data = dev[d].data
                                /\ case.dev[d].listed /\ dev'[d].listed => dev[d].listed
  <2>1. CASE UNCHANGED dev
    BY <1>1, <2>1 DEF ToolTypeOK
  <2>2. CASE \E d \in ToolDevices : dev' = [dev EXCEPT ![d] = [dev[d] EXCEPT !.shutdown = ~@]] \/ dev' = [dev EXCEPT ![d] = [dev[d] EXCEPT !.id = "other"]]
    <3>1. PICK d \in ToolDevices : dev' = [dev EXCEPT ![d] = [dev[d] EXCEPT !.shutdown = ~@]] \/ dev' = [dev EXCEPT ![d] = [dev[d] EXCEPT !.id = "other"]]
      BY <2>2
    <3>2. /\ DOMAIN dev' = ToolDevices /\ \A e \in ToolDevices \ {d} : dev'[e] = dev[e]
          /\ DOMAIN dev'[d] = DOMAIN dev[d] /\ dev'[d].data = dev[d].data /\ dev'[d].listed = dev[d].listed
      BY <1>1, <3>1 DEF ToolTypeOK
    <3> QED
      BY <1>1, <3>2 DEF ToolTypeOK
  <2>3. CASE \E d \in ToolDevices : dev' = [dev EXCEPT ![d] = [dev[d] EXCEPT !.listed = ~case.dev[d].listed]]
    <3>1. PICK d \in ToolDevices : dev' = [dev EXCEPT ![d] = [dev[d] EXCEPT !.listed = ~case.dev[d].listed]]
      BY <2>3
    <3>2. /\ DOMAIN dev' = ToolDevices /\ \A e \in ToolDevices \ {d} : dev'[e] = dev[e]
          /\ dev'[d] = [dev[d] EXCEPT !.listed = ~case.dev[d].listed]
      BY <1>1, <3>1 DEF ToolTypeOK
    <3>3. /\ {"listed", "id", "shutdown", "facts", "data"} \subseteq DOMAIN dev'[d]
          /\ dev'[d].data = dev[d].data
      BY <1>1, <3>2 DEF ToolTypeOK
    <3>4. case.dev[d].listed => ~dev'[d].listed
      BY <1>1, <3>2 DEF ToolTypeOK
    <3> QED
      BY <1>1, <3>2, <3>3, <3>4 DEF ToolTypeOK
  <2> QED
    BY <2>1, <2>2, <2>3 DEF Tools!Interfere
<1>3. /\ DOMAIN img' = ToolImages
      /\ \A r \in ToolImages : /\ {"listed", "state", "facts", "path"} \subseteq DOMAIN img'[r]
                               /\ img'[r].listed = img[r].listed
  BY <1>1 DEF ToolTypeOK, Tools!Interfere
<1>4. ToolTypeOK'
  BY <1>1, <1>2, <1>3 DEF ToolTypeOK
<1>5. ToolPlan' /\ ToolRows' /\ ToolStops'
  BY <1>1 DEF ToolInv, ToolPlan, ToolRows, ToolStops
<1>6. ToolHits'
  <2>1. \A d \in ToolDevices : d \in Called => case.dev[d].listed
    BY <1>1 DEF ToolInv, ToolPlan, GoodCall, Called, Tools!Called, ToolTypeOK
  <2>2. moves' # 0
    BY <1>1
  <2> QED
    BY <1>1, <1>2, <1>3, <2>1, <2>2 DEF ToolInv, ToolHits
<1>7. ToolOrder'
  BY <1>1, ToolOrderKept DEF ToolInv, ToolOrder
<1> QED
  BY <1>4, <1>5, <1>6, <1>7 DEF ToolInv

LEMMA ToolPrepareKeeps == ASSUME ToolInv, Tools!Prepare PROVE ToolInv'
<1> USE DEF Tools!world, Tools!service, Tools!approval, Tools!run, Tools!Goto, Tools!mode
<1>1. /\ Called' = Called /\ ToolTypeOK /\ pc = "new" /\ plan = <<>> /\ made = <<>> /\ pc' \in {"ready", "refused"}
      /\ UNCHANGED <<case, made, plan, stop, durable, rows, late, hit, end, before, dev, img, moves>>
  BY ToolCalledSame DEF ToolInv, ToolPlan, Unbegun, Tools!Prepare
<1>2. seen'.dev = case.dev
  BY <1>1 DEF Tools!Prepare, Tools!Listing, ToolTypeOK
<1>3. ToolTypeOK'
  BY <1>1, <1>2 DEF ToolTypeOK, Unbegun
<1>4. Called = {}
  BY <1>1 DEF Called, Tools!Called
<1>5. ToolPlan'
  BY <1>1 DEF ToolPlan, Unbegun, Calling
<1>6. ToolRows'
  BY <1>1 DEF ToolInv, ToolRows
<1>7. ToolHits'
  BY <1>1, <1>2 DEF ToolInv, ToolHits, ToolTypeOK
<1>8. ToolStops' /\ ToolOrder'
  BY <1>1, <1>4 DEF ToolInv, ToolStops, ToolOrder
<1> QED
  BY <1>3, <1>5, <1>6, <1>7, <1>8 DEF ToolInv

LEMMA ToolExecuteKeeps == ASSUME Tools!ToolAssumption, ToolInv, Tools!Execute PROVE ToolInv'
<1> USE DEF Tools!world, Tools!service, Tools!approval, Tools!run, Tools!Goto, Tools!mode
<1>1. /\ Called' = Called /\ Called = {} /\ ToolTypeOK /\ pc = "spawned" /\ plan = <<>> /\ made = <<>>
      /\ Tools!Selection(case.order)' = Tools!Selection(case.order)
      /\ UNCHANGED <<case, seen, made, stop, durable, late, hit, end, before, dev, img, moves>>
  BY ToolCalledSame, ToolSealed DEF ToolInv, ToolPlan, Unbegun, Tools!Execute, Called, Tools!Called
<1>2. \A x \in Tools!Targets : rows[x] \notin Outcomes /\ durable[x] # "failed"
  BY <1>1 DEF ToolInv, ToolRows, Outcomes
<1>3. CASE pc' = "intent"
  <2>1. /\ Tools!Valid(case.order) /\ plan' \in Tools!Calls(case.order)
        /\ rows' = [x \in Tools!Targets |-> IF x \in Tools!Selection(case.order) THEN "planned" ELSE "none"]
    BY <1>3 DEF Tools!Execute, Tools!Approved
  <2>2. /\ plan' \in Seq(SUBSET Tools!Targets)
        /\ \A i \in DOMAIN plan' : GoodCall(plan'[i], seen, case.mode) /\ plan'[i] \subseteq Tools!Selection(case.order)
        /\ \A i, j \in DOMAIN plan' : i # j => plan'[i] \cap plan'[j] = {}
    BY <1>1, <2>1, CallsAreGood DEF ToolTypeOK
  <2>3. ToolTypeOK'
    BY <1>1, <1>3, <2>1, <2>2 DEF ToolTypeOK, ToolRowStates, Unbegun, Calling
  <2>4. ToolPlan'
    BY <1>1, <1>3, <2>2 DEF ToolPlan, Unbegun, Calling
  <2>5. ToolRows'
    <3>1. \A i \in DOMAIN plan' : \A x \in plan'[i] : rows'[x] = "planned"
      <4>1. plan' \in Seq(SUBSET Tools!Targets) /\ \A i \in DOMAIN plan' : plan'[i] \subseteq Tools!Targets
        BY <2>2
      <4> QED
        BY <2>1, <2>2, <4>1
    <3> QED
      BY <1>1, <1>2, <1>3, <2>1, <3>1 DEF ToolInv, ToolRows, RowOf, Outcomes
  <2>6. ToolHits'
    BY <1>1, <1>3, <2>1 DEF ToolInv, ToolHits
  <2>7. ToolStops' /\ ToolOrder'
    BY <1>1, <1>3 DEF ToolInv, ToolStops, ToolOrder
  <2> QED
    BY <2>3, <2>4, <2>5, <2>6, <2>7 DEF ToolInv
<1>4. CASE pc' = "refused"
  <2>1. UNCHANGED <<plan, rows>>
    BY <1>4 DEF Tools!Execute
  <2>2. ToolTypeOK' /\ ToolPlan'
    BY <1>1, <1>4, <2>1 DEF ToolTypeOK, ToolPlan, Unbegun, Calling
  <2>3. ToolRows' /\ ToolHits'
    BY <1>1, <1>4, <2>1 DEF ToolInv, ToolRows, ToolHits
  <2>4. ToolStops' /\ ToolOrder'
    BY <1>1, <1>4 DEF ToolInv, ToolStops, ToolOrder
  <2> QED
    BY <2>2, <2>3, <2>4 DEF ToolInv
<1> QED
  BY <1>3, <1>4 DEF Tools!Execute

LEMMA ToolInitInv == ASSUME Tools!ToolAssumption, Tools!Init PROVE ToolInv
<1>1. /\ pc = "new" /\ plan = <<>> /\ made = <<>> /\ late = {} /\ hit = {} /\ rows = Tools!NoRows /\ durable = Tools!NoRows
      /\ seen.dev = case.dev /\ dev = case.dev /\ \A r \in ToolImages : img[r].listed
  BY DEF Tools!Init, Tools!Listing
<1>2. ToolTypeOK
  <2>1. case \in ToolCases /\ stop \in BOOLEAN /\ moves \in Nat
    BY DEF Tools!Init
  <2>2. DOMAIN dev = ToolDevices /\ \A d \in ToolDevices : {"listed", "id", "shutdown", "facts", "data"} \subseteq DOMAIN dev[d]
    BY <1>1, <2>1 DEF Tools!ToolAssumption
  <2>3. DOMAIN img = ToolImages /\ \A r \in ToolImages : {"listed", "state", "facts", "path"} \subseteq DOMAIN img[r]
    BY DEF Tools!Init
  <2>4. rows \in [Tools!Targets -> ToolRowStates] /\ durable \in [Tools!Targets -> ToolRowStates]
    BY <1>1 DEF ToolRowStates, Tools!NoRows
  <2> QED
    BY <1>1, <2>1, <2>2, <2>3, <2>4 DEF ToolTypeOK, Unbegun
<1>3. Called = {} /\ \A x \in Tools!Targets : rows[x] = "none" /\ durable[x] = "none"
  BY <1>1 DEF Called, Tools!Called, Tools!NoRows
<1>4. ToolPlan /\ ToolRows
  BY <1>1, <1>3 DEF ToolPlan, ToolRows, Unbegun, Calling, Outcomes
<1>5. ToolHits /\ ToolStops /\ ToolOrder
  BY <1>1, <1>3 DEF ToolHits, ToolStops, ToolOrder, Tools!Targets
<1> QED
  BY <1>2, <1>4, <1>5 DEF ToolInv

\* What the tool does to the targets in S.
LEMMA ToolStruck ==
  ASSUME Tools!ToolAssumption, ToolTypeOK, NEW S \in SUBSET Tools!Targets, NEW keep, Tools!Strike(S, keep)
  PROVE  /\ DOMAIN dev' = ToolDevices /\ DOMAIN img' = ToolImages
         /\ \A d \in ToolDevices :
              /\ {"listed", "id", "shutdown", "facts", "data"} \subseteq DOMAIN dev'[d]
              /\ d \notin S => dev'[d] = dev[d]
              /\ d \in S /\ case.mode = "erase" => dev'[d].data = "empty" /\ dev'[d].listed = dev[d].listed
              /\ d \in S /\ case.mode # "erase" => dev'[d].data = dev[d].data /\ ~dev'[d].listed
              /\ d \in hit' <=> d \in hit \/ (d \in S /\ (case.mode = "erase" => dev[d].data # "empty"))
         /\ \A r \in ToolImages :
              /\ {"listed", "state", "facts", "path"} \subseteq DOMAIN img'[r]
              /\ r \notin S => img'[r] = img[r]
              /\ r \in S => ~img'[r].listed
              /\ r \in hit' <=> r \in hit \/ r \in S
         /\ hit' \subseteq hit \cup S
<1> USE DEF Tools!mode
<1>1. /\ DOMAIN dev' = ToolDevices /\ DOMAIN img' = ToolImages
      /\ \A d \in ToolDevices :
           dev'[d] = IF d \notin S THEN dev[d]
                     ELSE IF case.mode = "erase" THEN [dev[d] EXCEPT !.data = "empty"] ELSE [dev[d] EXCEPT !.listed = FALSE]
      /\ \A r \in ToolImages : img'[r] = IF r \in S THEN [img[r] EXCEPT !.listed = FALSE, !.path = r \in keep] ELSE img[r]
      /\ hit' = hit \cup {x \in S : x \in ToolDevices /\ case.mode = "erase" => dev[x].data # "empty"}
  BY DEF Tools!Strike
<1>2. ASSUME NEW d \in ToolDevices
      PROVE  /\ {"listed", "id", "shutdown", "facts", "data"} \subseteq DOMAIN dev'[d]
             /\ d \notin S => dev'[d] = dev[d]
             /\ d \in S /\ case.mode = "erase" => dev'[d].data = "empty" /\ dev'[d].listed = dev[d].listed
             /\ d \in S /\ case.mode # "erase" => dev'[d].data = dev[d].data /\ ~dev'[d].listed
  BY <1>1 DEF ToolTypeOK
<1>3. ASSUME NEW r \in ToolImages
      PROVE  /\ {"listed", "state", "facts", "path"} \subseteq DOMAIN img'[r]
             /\ r \notin S => img'[r] = img[r]
             /\ r \in S => ~img'[r].listed
  BY <1>1 DEF ToolTypeOK
<1>4. ToolDevices \cap ToolImages = {}
  BY DEF Tools!ToolAssumption
<1> QED
  BY <1>1, <1>2, <1>3, <1>4

\* A target that is still to be called was not called before.
LEMMA ToolFirstIsNew ==
  ASSUME ToolInv, pc \in {"start", "call"}
  PROVE  /\ plan # <<>> /\ 1 \in DOMAIN plan /\ Head(plan) = plan[1] /\ plan[1] \subseteq Tools!Targets
         /\ \A x \in plan[1] : rows[x] = "started" /\ x \notin Called
<1>1. plan # <<>> /\ ToolTypeOK
  BY DEF ToolInv, ToolPlan, Calling
<1>2. 1 \in DOMAIN plan /\ Head(plan) = plan[1] /\ plan[1] \subseteq Tools!Targets
  BY <1>1, ToolTail
<1> QED
  BY <1>1, <1>2 DEF ToolInv, ToolRows, RowOf

LEMMA ToolLateKeeps == ASSUME Tools!ToolAssumption, ToolInv, NEW x \in Tools!Targets, Tools!LateEffect(x) PROVE ToolInv'
<1> USE DEF Tools!approval, Tools!run
<1>1. /\ Called' = Called /\ Tools!Selection(case.order)' = Tools!Selection(case.order)
      /\ UNCHANGED <<case, seen, made, plan, stop, durable, rows, end, before, pc, moves>>
      /\ x \in late /\ late' = late \ {x} /\ Tools!Strike({x}, {}) /\ ToolTypeOK
      /\ x \in Called /\ rows[x] # "failed"
  BY ToolCalledSame, ToolSealed DEF ToolInv, ToolHits, Tools!LateEffect
<1>2. pc # "new"
  BY <1>1 DEF ToolInv, ToolPlan, Unbegun, Called, Tools!Called
<1>3. ToolTypeOK'
  BY <1>1, <1>2, ToolStruck DEF ToolTypeOK
<1>4. ToolPlan' /\ ToolRows' /\ ToolStops'
  BY <1>1 DEF ToolInv, ToolPlan, ToolRows, ToolStops
<1>5. ToolHits'
  <2>1. late' \cup hit' \subseteq Called /\ hit \subseteq hit' /\ hit' \subseteq hit \cup {x}
    BY <1>1, ToolStruck DEF ToolInv, ToolHits, Tools!Strike
  <2>2. ASSUME NEW d \in ToolDevices
        PROVE  /\ case.mode # "erase" /\ d \in hit' => ~dev'[d].listed
               /\ case.mode # "erase" /\ moves = 0 /\ seen.dev[d].listed /\ ~dev'[d].listed => d \in hit'
    BY <1>1, ToolStruck DEF ToolInv, ToolHits
  <2>3. ASSUME NEW d \in ToolDevices, d \in plan[1], pc \in {"start", "call"} PROVE before[d] = dev'[d].data
    <3>1. d # x
      BY <1>1, <2>3, ToolFirstIsNew
    <3> QED
      BY <1>1, <2>3, <3>1, ToolStruck DEF ToolInv, ToolHits
  <2>4. ASSUME NEW d \in ToolDevices, d \in plan[1], pc = "check", case.mode = "erase"
        PROVE  IF d \in hit' THEN dev'[d].data # before[d] /\ dev'[d].data = "empty" ELSE dev'[d].data = before[d]
    <3>1. IF d \in hit THEN dev[d].data # before[d] /\ dev[d].data = "empty" ELSE dev[d].data = before[d]
      BY <2>4 DEF ToolInv, ToolHits
    <3>2. /\ d # x => dev'[d] = dev[d]
          /\ d = x => dev'[d].data = "empty"
          /\ d \in hit' <=> d \in hit \/ (d = x /\ dev[d].data # "empty")
      BY <1>1, <2>4, ToolStruck
    <3> QED
      BY <1>1, <3>1, <3>2
  <2>5. \A r \in ToolImages : r \in hit' <=> ~img'[r].listed
    BY <1>1, ToolStruck DEF ToolInv, ToolHits
  <2> QED
    BY <1>1, <2>1, <2>2, <2>3, <2>4, <2>5 DEF ToolInv, ToolHits
<1>6. ToolOrder'
  BY <1>1, ToolOrderKept DEF ToolInv, ToolOrder
<1> QED
  BY <1>3, <1>4, <1>5, <1>6 DEF ToolInv

LEMMA ToolRunKeeps == ASSUME Tools!ToolAssumption, ToolInv, Tools!RunTool PROVE ToolInv'
<1> USE DEF Tools!approval, Tools!Goto
<1>1. /\ pc = "call" /\ ToolTypeOK /\ Tools!Selection(case.order)' = Tools!Selection(case.order)
      /\ UNCHANGED <<case, seen, plan, stop, durable, rows, before, moves>>
      /\ pc' \in {"check", "settle"} /\ (pc' = "settle" => Head(plan) \subseteq ToolImages)
      /\ made' = Append(made, [targets |-> Head(plan), unclear |-> FALSE])
  BY ToolSealed DEF ToolInv, Tools!RunTool, Tools!IsImageCall
<1>2. /\ plan # <<>> /\ 1 \in DOMAIN plan /\ Head(plan) = plan[1] /\ plan[1] \subseteq Tools!Targets
      /\ \A x \in plan[1] : rows[x] = "started" /\ x \notin Called
  BY <1>1, ToolFirstIsNew
<1>3. PICK done \in SUBSET plan[1], e \in {"success", "failure", "indeterminate"}, keep \in {{}, ToolImages} :
        /\ end' = e /\ Tools!Strike(done, keep)
        /\ late' = IF e = "failure" THEN late ELSE late \cup (plan[1] \ (done \ keep))
  BY <1>2 DEF Tools!RunTool
<1>4. Called' = Called \cup plan[1]
  BY <1>1, <1>2, ToolCalledMore
<1>5. /\ made \in Seq([targets : SUBSET Tools!Targets, unclear : BOOLEAN]) /\ plan[1] \in SUBSET Tools!Targets
      /\ [targets |-> plan[1], unclear |-> FALSE] \in [targets : SUBSET Tools!Targets, unclear : BOOLEAN]
  BY <1>1, <1>2 DEF ToolTypeOK
<1>6. /\ made' \in Seq([targets : SUBSET Tools!Targets, unclear : BOOLEAN]) /\ made' # <<>>
      /\ Len(made') \in Nat /\ made'[Len(made')].targets = plan[1] /\ ~made'[Len(made')].unclear
      /\ \A i \in DOMAIN made' : i = Len(made') \/ (i \in DOMAIN made /\ made'[i] = made[i])
  BY <1>1, <1>2, <1>5
<1>7. done \in SUBSET Tools!Targets
  BY <1>2, <1>3
<1>8. ToolTypeOK'
  BY <1>1, <1>3, <1>6, <1>7, ToolStruck DEF ToolTypeOK, Unbegun, Calling
<1>9. ToolPlan'
  BY <1>1, <1>2, <1>6 DEF ToolInv, ToolPlan, Unbegun, Calling
<1>10. ToolRows'
  <2>1. \A i \in DOMAIN plan : \A x \in plan[i] : rows[x] \in RowOf(i = 1, pc')
    BY <1>1 DEF ToolInv, ToolRows, RowOf
  <2>2. \A x \in plan[1] : rows[x] = "started" /\ durable[x] = "started"
    BY <1>1, <1>2 DEF ToolInv, ToolRows
  <2> QED
    BY <1>1, <1>4, <2>1, <2>2 DEF ToolInv, ToolRows, Outcomes
<1>11. ToolHits'
  <2>1. late' \cup hit' \subseteq Called' /\ Called' \subseteq Tools!Targets /\ hit \subseteq hit' /\ hit' \subseteq hit \cup plan[1]
    BY <1>1, <1>2, <1>3, <1>4, <1>7, ToolStruck DEF ToolInv, ToolHits, Tools!Strike
  <2>2. \A x \in hit' \cup late' : rows[x] # "failed"
    BY <1>2, <1>3, <2>1 DEF ToolInv, ToolHits
  <2>3. ASSUME NEW d \in ToolDevices
        PROVE  /\ case.mode # "erase" /\ d \in hit' => ~dev'[d].listed
               /\ case.mode # "erase" /\ moves = 0 /\ seen.dev[d].listed /\ ~dev'[d].listed => d \in hit'
    BY <1>1, <1>3, <1>7, ToolStruck DEF ToolInv, ToolHits
  <2>4. ASSUME NEW d \in ToolDevices, d \in plan[1], case.mode = "erase"
        PROVE  IF d \in hit' THEN dev'[d].data # before[d] /\ dev'[d].data = "empty" ELSE dev'[d].data = before[d]
    <3>1. before[d] = dev[d].data /\ d \notin hit
      BY <1>1, <1>2, <2>4 DEF ToolInv, ToolHits
    <3> QED
      BY <1>1, <1>3, <1>7, <2>4, <3>1, ToolStruck
  <2>5. \A r \in ToolImages : r \in hit' <=> ~img'[r].listed
    BY <1>1, <1>3, <1>7, ToolStruck DEF ToolInv, ToolHits
  <2>6. end' = "failure" => plan[1] \cap late' = {}
    BY <1>2, <1>3 DEF ToolInv, ToolHits
  <2>7. case.mode # "erase" /\ moves = 0 => \A x \in Tools!Targets : rows[x] = "succeeded" => x \in hit'
    BY <2>1 DEF ToolInv, ToolHits
  <2> QED
    BY <1>1, <2>1, <2>2, <2>3, <2>4, <2>5, <2>6, <2>7 DEF ToolHits
<1>12. ToolStops'
  <2>1. \A i \in DOMAIN made : ~made[i].unclear
    BY <1>1 DEF ToolInv, ToolStops
  <2> QED
    BY <1>1, <1>6, <2>1 DEF ToolStops
<1>13. ToolOrder'
  <2>1. Tools!Removed' = Tools!Removed
    BY <1>1 DEF Tools!Removed
  <2> QED
    BY <1>1, <1>4, <2>1 DEF ToolInv, ToolOrder
<1> QED
  BY <1>8, <1>9, <1>10, <1>11, <1>12, <1>13 DEF ToolInv

LEMMA ToolSeqSet ==
  ASSUME NEW T, NEW s \in Seq(T), NEW n \in DOMAIN s
  PROVE  /\ s[n] \in T
         /\ \A e \in T : [s EXCEPT ![n] = e] \in Seq(T) /\ Len([s EXCEPT ![n] = e]) = Len(s)
<1>1. Len(s) \in Nat /\ DOMAIN s = 1..Len(s) /\ s \in [1..Len(s) -> T]
  OBVIOUS
<1>2. ASSUME NEW e \in T PROVE [s EXCEPT ![n] = e] \in [1..Len(s) -> T]
  BY <1>1
<1>3. ASSUME NEW m \in Nat, NEW t \in [1..m -> T] PROVE t \in Seq(T) /\ Len(t) = m /\ DOMAIN t = 1..m
  OBVIOUS
<1> QED
  BY <1>1, <1>2, <1>3

\* The rows of a call are settled from what the machine shows afterwards.
LEMMA ToolSettles ==
  ASSUME Tools!ToolAssumption, ToolInv, pc \in {"check", "settle"}, pc' = "record",
         UNCHANGED <<case, dev, img, late, hit, seen, durable, before, end, moves, plan>>,
         NEW v, \A x \in plan[1] : v[x] \in Outcomes,
         rows' = [x \in Tools!Targets |-> IF x \in plan[1] THEN v[x] ELSE rows[x]],
         NEW u \in BOOLEAN, made' = [made EXCEPT ![Len(made)].unclear = u],
         stop' \in BOOLEAN, stop \/ u => stop',
         \A x \in plan[1] : v[x] = "failed" => x \notin hit \cup late,
         case.mode # "erase" /\ moves = 0 => \A x \in plan[1] : v[x] = "succeeded" => x \in hit
  PROVE  ToolInv'
<1>1. /\ ToolTypeOK /\ plan # <<>> /\ 1 \in DOMAIN plan /\ plan[1] \subseteq Tools!Targets
      /\ made # <<>> /\ made[Len(made)].targets = plan[1] /\ Tools!Selection(case.order)' = Tools!Selection(case.order)
  BY ToolTail, ToolSealed DEF ToolInv, ToolPlan, Calling
<1>2. /\ made' \in Seq([targets : SUBSET Tools!Targets, unclear : BOOLEAN]) /\ DOMAIN made' = DOMAIN made
      /\ Len(made') = Len(made) /\ Len(made) \in DOMAIN made
      /\ \A i \in DOMAIN made : made'[i].targets = made[i].targets /\ (made'[i].unclear => (i = Len(made) /\ u) \/ made[i].unclear)
  <2>1. made \in Seq([targets : SUBSET Tools!Targets, unclear : BOOLEAN]) /\ Len(made) \in DOMAIN made
    BY <1>1 DEF ToolTypeOK
  <2> DEFINE call == [made[Len(made)] EXCEPT !.unclear = u]
  <2>2. made' = [made EXCEPT ![Len(made)] = call]
    OBVIOUS
  <2>3. made[Len(made)] \in [targets : SUBSET Tools!Targets, unclear : BOOLEAN]
    BY <2>1, ToolSeqSet
  <2>4. call \in [targets : SUBSET Tools!Targets, unclear : BOOLEAN] /\ call.targets = made[Len(made)].targets /\ call.unclear = u
    BY <2>3
  <2> HIDE DEF call
  <2>5. made' \in Seq([targets : SUBSET Tools!Targets, unclear : BOOLEAN]) /\ DOMAIN made' = DOMAIN made /\ Len(made') = Len(made)
    <3> DEFINE T == [targets : SUBSET Tools!Targets, unclear : BOOLEAN]
    <3>1. made \in Seq(T) /\ Len(made) \in DOMAIN made /\ call \in T
      BY <2>1, <2>4
    <3> HIDE DEF T
    <3>2. [made EXCEPT ![Len(made)] = call] \in Seq(T) /\ Len([made EXCEPT ![Len(made)] = call]) = Len(made)
      BY <3>1, ToolSeqSet
    <3>3. DOMAIN [made EXCEPT ![Len(made)] = call] = DOMAIN made
      OBVIOUS
    <3> QED
      BY <2>2, <3>2, <3>3 DEF T
  <2>6. \A i \in DOMAIN made : made'[i] = IF i = Len(made) THEN call ELSE made[i]
    BY <2>1, <2>2
  <2>7. ASSUME NEW i \in DOMAIN made
        PROVE  made'[i].targets = made[i].targets /\ (made'[i].unclear => (i = Len(made) /\ u) \/ made[i].unclear)
    BY <2>4, <2>6
  <2> QED
    BY <2>1, <2>5, <2>7
<1>3. Called' = Called /\ plan[1] \subseteq Called
  <2>1. Called' = Called
    BY <1>2, ToolCalledSame
  <2>2. made[Len(made)].targets \subseteq Called
    BY <1>2 DEF Called, Tools!Called
  <2> QED
    BY <1>1, <2>1, <2>2
<1>4. ToolTypeOK'
  <2>1. rows' \in [Tools!Targets -> ToolRowStates]
    BY <1>1 DEF ToolTypeOK, ToolRowStates, Outcomes
  <2> QED
    BY <1>1, <1>2, <2>1 DEF ToolTypeOK, Calling, Unbegun
<1>5. ToolPlan'
  BY <1>1, <1>2 DEF ToolInv, ToolPlan, Unbegun, Calling
<1>6. \A x \in plan[1] : rows[x] = "started"
  BY <1>1 DEF ToolInv, ToolRows, RowOf
<1>7. ToolRows'
  <2>1. \A i \in DOMAIN plan : \A x \in plan[i] : rows'[x] \in RowOf(i = 1, pc')
    <3>1. ASSUME NEW i \in DOMAIN plan, NEW x \in plan[i] PROVE rows'[x] \in RowOf(i = 1, "record")
      <4>1. x \in Tools!Targets /\ (i # 1 => x \notin plan[1] /\ rows[x] = "planned")
        BY <1>1 DEF ToolInv, ToolTypeOK, ToolPlan, ToolRows, RowOf
      <4> QED
        BY <4>1 DEF RowOf
    <3> QED
      BY <3>1
  <2>2. ASSUME NEW x \in Tools!Targets
        PROVE  /\ x \in Called => rows'[x] \in Outcomes
               /\ rows'[x] \in Outcomes => x \in Called
               /\ durable[x] = "failed" => rows'[x] = "failed"
    <3>1. CASE x \in plan[1]
      BY <1>3, <1>6, <3>1 DEF ToolInv, ToolRows
    <3>2. CASE x \notin plan[1]
      BY <3>2 DEF ToolInv, ToolRows, Outcomes
    <3> QED
      BY <3>1, <3>2
  <2> QED
    BY <1>3, <2>1, <2>2 DEF ToolInv, ToolRows, Outcomes
<1>8. ToolHits'
  <2>1. \A x \in hit \cup late : x \in Tools!Targets /\ rows'[x] # "failed"
    BY <1>1 DEF ToolInv, ToolHits
  <2>2. case.mode # "erase" /\ moves = 0 => \A x \in Tools!Targets : rows'[x] = "succeeded" => x \in hit
    BY DEF ToolInv, ToolHits
  <2> QED
    BY <1>3, <2>1, <2>2 DEF ToolInv, ToolHits
<1>9. ToolStops'
  BY <1>1, <1>2 DEF ToolInv, ToolStops
<1>10. ToolOrder'
  <2>1. \A d \in ToolDevices : rows[d] = "succeeded" => rows'[d] = "succeeded"
    BY <1>6 DEF Tools!Targets
  <2> QED
    BY <1>1, <1>3, <2>1, ToolOrderKept DEF ToolInv
<1> QED
  BY <1>4, <1>5, <1>7, <1>8, <1>9, <1>10 DEF ToolInv

\* What a listing after the call can tell of a target.
LEMMA ToolVerdict ==
  ASSUME Tools!ToolAssumption, ToolInv, pc = "check", NEW x \in plan[1]
  PROVE  /\ Tools!Verdict(x) \in Outcomes
         /\ Tools!Verdict(x) = "failed" => x \notin hit \cup late
         /\ case.mode # "erase" /\ moves = 0 /\ Tools!Verdict(x) = "succeeded" => x \in hit
<1>1. /\ ToolTypeOK /\ plan # <<>> /\ 1 \in DOMAIN plan /\ plan[1] \subseteq Tools!Targets
      /\ GoodCall(plan[1], seen, case.mode) /\ ToolDevices \cap ToolImages = {}
  BY ToolTail DEF ToolInv, ToolPlan, Calling, Tools!ToolAssumption
<1>2. end = "failure" => x \notin late
  BY DEF ToolInv, ToolHits
<1>3. CASE x \in ToolImages
  <2>1. Tools!Verdict(x) = Tools!ClassifyImage(x)
    BY <1>3 DEF Tools!Verdict
  <2>2. x \in hit <=> ~img[x].listed
    BY <1>3 DEF ToolInv, ToolHits
  <2> QED
    BY <1>2, <2>1, <2>2 DEF Tools!ClassifyImage, Outcomes
<1>4. CASE x \in ToolDevices
  <2>1. seen.dev[x].listed /\ x \notin ToolImages
    BY <1>1, <1>4 DEF GoodCall
  <2>2. /\ case.mode # "erase" /\ x \in hit => ~dev[x].listed
        /\ case.mode # "erase" /\ moves = 0 /\ ~dev[x].listed => x \in hit
        /\ case.mode = "erase" => IF x \in hit THEN dev[x].data # before[x] ELSE dev[x].data = before[x]
    BY <1>4, <2>1 DEF ToolInv, ToolHits
  <2>3. CASE case.mode = "runtime"
    <3>1. Tools!Verdict(x) = Tools!ClassifyDependent(x)
      BY <2>1, <2>3 DEF Tools!Verdict, Tools!mode
    <3> QED
      BY <1>2, <2>1, <2>2, <2>3, <3>1 DEF Tools!ClassifyDependent, Outcomes
  <2>4. CASE case.mode # "runtime"
    <3>1. Tools!Verdict(x) = Tools!Classify(x)
      BY <2>1, <2>4 DEF Tools!Verdict, Tools!mode
    <3> QED
      BY <1>2, <2>1, <2>2, <2>4, <3>1 DEF Tools!Classify, Tools!Observable, Tools!mode, Outcomes
  <2> QED
    BY <2>3, <2>4
<1> QED
  BY <1>1, <1>3, <1>4 DEF Tools!Targets

LEMMA ToolCheckKeeps == ASSUME Tools!ToolAssumption, ToolInv, Tools!PostCheck PROVE ToolInv'
<1> USE DEF Tools!world, Tools!service, Tools!approval, Tools!Goto, Tools!mode
<1>1. /\ ToolTypeOK /\ pc = "check" /\ plan # <<>> /\ 1 \in DOMAIN plan /\ Head(plan) = plan[1]
      /\ plan[1] \subseteq Tools!Targets /\ GoodCall(plan[1], seen, case.mode)
  BY ToolTail DEF ToolInv, ToolPlan, Calling, Tools!PostCheck
<1>2. /\ pc' = "record" /\ UNCHANGED <<case, dev, img, late, hit, seen, durable, before, end, moves, plan>>
  BY DEF Tools!PostCheck, Tools!Settled
<1>3. CASE \E w \in {[x \in Head(plan) |-> Tools!Verdict(x)]} : Tools!Settled(Head(plan), w, stop \/ Tools!StopsAfter(Head(plan), w))
  <2> DEFINE v == [x \in plan[1] |-> Tools!Verdict(x)]
             u == \E x \in plan[1] : v[x] = "unknown" /\ ~(x \in ToolDevices /\ Tools!Expected(x))
  <2>1. Tools!Settled(plan[1], v, stop \/ Tools!StopsAfter(plan[1], v))
    BY <1>1, <1>3
  <2>2. \A x \in plan[1] : v[x] = Tools!Verdict(x)
    OBVIOUS
  <2> HIDE DEF v
  <2>3. /\ rows' = [x \in Tools!Targets |-> IF x \in plan[1] THEN v[x] ELSE rows[x]]
        /\ stop' = (stop \/ Tools!StopsAfter(plan[1], v))
        /\ made' = [made EXCEPT ![Len(made)].unclear = u]
    BY <2>1 DEF Tools!Settled
  <2>4. u => Tools!StopsAfter(plan[1], v)
    BY <1>1 DEF Tools!StopsAfter, GoodCall
  <2>5. u \in BOOLEAN /\ Tools!StopsAfter(plan[1], v) \in BOOLEAN /\ stop \in BOOLEAN
    BY <1>1 DEF Tools!StopsAfter, ToolTypeOK
  <2> HIDE DEF u
  <2>6. \A x \in plan[1] :
          /\ v[x] \in Outcomes /\ (v[x] = "failed" => x \notin hit \cup late)
          /\ case.mode # "erase" /\ moves = 0 /\ v[x] = "succeeded" => x \in hit
    BY <1>1, <2>2, ToolVerdict
  <2>7. stop' \in BOOLEAN /\ (stop \/ u => stop')
    BY <2>3, <2>4, <2>5
  <2> QED
    BY <1>1, <1>2, <2>3, <2>5, <2>6, <2>7, ToolSettles
<1>4. CASE /\ rows' = [x \in Tools!Targets |-> IF x \in Head(plan) THEN "unknown" ELSE rows[x]]
           /\ stop' = TRUE /\ made' = [made EXCEPT ![Len(made)].unclear = TRUE]
  <2> DEFINE v == [x \in plan[1] |-> "unknown"]
  <2>1. rows' = [x \in Tools!Targets |-> IF x \in plan[1] THEN v[x] ELSE rows[x]] /\ \A x \in plan[1] : v[x] = "unknown"
    BY <1>1, <1>4
  <2> HIDE DEF v
  <2> QED
    BY <1>1, <1>2, <1>4, <2>1, ToolSettles DEF Outcomes
<1> QED
  BY <1>3, <1>4 DEF Tools!PostCheck

LEMMA ToolSettleKeeps == ASSUME Tools!ToolAssumption, ToolInv, Tools!Settle PROVE ToolInv'
<1> USE DEF Tools!world, Tools!service, Tools!approval, Tools!Goto, Tools!mode
<1>1. /\ ToolTypeOK /\ pc = "settle" /\ plan # <<>> /\ 1 \in DOMAIN plan /\ Head(plan) = plan[1]
      /\ GoodCall(plan[1], seen, case.mode) /\ plan[1] \subseteq ToolImages /\ stop \in BOOLEAN
  BY ToolTail DEF ToolInv, ToolTypeOK, ToolPlan, Calling, Tools!Settle
<1>2. UNCHANGED <<case, dev, img, late, hit, seen, durable, before, end, moves, plan>>
  BY DEF Tools!Settle, Tools!Settled
<1>3. PICK r \in ToolImages : plan[1] = {r}
  BY <1>1 DEF GoodCall, Tools!ToolAssumption
<1>4. Tools!ImageOfCall(Head(plan)) = r
  BY <1>1, <1>3 DEF Tools!ImageOfCall, Tools!IsImageCall
<1>5. CASE UNCHANGED <<rows, stop, made, pc>>
  <2>1. Called' = Called /\ Tools!Selection(case.order)' = Tools!Selection(case.order)
    BY <1>2, <1>5, ToolCalledSame, ToolSealed
  <2>2. ToolTypeOK' /\ ToolPlan' /\ ToolRows'
    BY <1>2, <1>5, <2>1 DEF ToolInv, ToolTypeOK, ToolPlan, ToolRows
  <2>3. ToolHits' /\ ToolStops' /\ ToolOrder'
    BY <1>2, <1>5, <2>1, ToolOrderKept DEF ToolInv, ToolHits, ToolStops, ToolOrder
  <2> QED
    BY <2>2, <2>3 DEF ToolInv
<1>6. CASE ~UNCHANGED <<rows, stop, made, pc>>
  <2>1. PICK verdict \in {"unknown", "succeeded"} :
          /\ Tools!Settled(plan[1], [x \in plan[1] |-> verdict], stop')
          /\ verdict = "succeeded" => ~img[r].listed
          /\ stop' = TRUE \/ (verdict = "succeeded" /\ stop' = stop)
    <3>1. CASE /\ Tools!SettleVerdict(r) # "wait"
               /\ Tools!Settled(Head(plan), [x \in Head(plan) |-> Tools!SettleVerdict(r)], stop \/ Tools!SettleVerdict(r) # "succeeded")
      <4>1. Tools!SettleVerdict(r) \in {"unknown", "succeeded"} /\ (Tools!SettleVerdict(r) = "succeeded" => ~img[r].listed)
        BY <3>1 DEF Tools!SettleVerdict
      <4>2. Tools!Settled(plan[1], [x \in plan[1] |-> Tools!SettleVerdict(r)], stop')
        BY <1>1, <3>1 DEF Tools!Settled
      <4>3. stop' = (stop \/ Tools!SettleVerdict(r) # "succeeded")
        BY <3>1 DEF Tools!Settled
      <4> QED
        BY <1>1, <4>1, <4>2, <4>3
    <3>2. CASE Tools!Settled(Head(plan), [x \in Head(plan) |-> "unknown"], TRUE)
      BY <1>1, <3>2 DEF Tools!Settled
    <3> QED
      BY <1>4, <1>6, <3>1, <3>2 DEF Tools!Settle
  <2> DEFINE v == [x \in plan[1] |-> verdict]
             u == \E x \in plan[1] : v[x] = "unknown" /\ ~(x \in ToolDevices /\ Tools!Expected(x))
  <2>2. \A x \in plan[1] : v[x] = verdict
    OBVIOUS
  <2>3. /\ rows' = [x \in Tools!Targets |-> IF x \in plan[1] THEN v[x] ELSE rows[x]]
        /\ made' = [made EXCEPT ![Len(made)].unclear = u] /\ pc' = "record"
    BY <2>1 DEF Tools!Settled
  <2> HIDE DEF v
  <2>4. u \in BOOLEAN /\ (u => verdict = "unknown")
    BY <2>2
  <2> HIDE DEF u
  <2>5. stop' \in BOOLEAN /\ (stop \/ u => stop')
    <3>1. CASE stop' = TRUE
      BY <3>1
    <3>2. CASE verdict = "succeeded" /\ stop' = stop
      BY <1>1, <2>4, <3>2
    <3> QED
      BY <2>1, <3>1, <3>2
  <2>6. verdict = "succeeded" => \A x \in plan[1] : x \in hit
    BY <1>3, <2>1 DEF ToolInv, ToolHits
  <2> QED
    BY <1>1, <1>2, <2>1, <2>2, <2>3, <2>4, <2>5, <2>6, ToolSettles DEF Outcomes
<1> QED
  BY <1>5, <1>6

LEMMA ToolNextInv == ASSUME Tools!ToolAssumption, ToolInv, Tools!Next PROVE ToolInv'
<1>1. CASE Tools!Prepare \/ Tools!Expire \/ Tools!HostExecute \/ Tools!Execute \/ Tools!PublishIntent
  BY <1>1, ToolPrepareKeeps, ToolExpireKeeps, ToolHostExecuteKeeps, ToolExecuteKeeps, ToolPublishIntentKeeps
<1>2. CASE Tools!SkipCall \/ Tools!RefuseCall \/ Tools!StartCall \/ Tools!PublishStart \/ Tools!RunTool
  BY <1>2, ToolSkipKeeps, ToolStartKeeps, ToolRunKeeps
<1>3. CASE Tools!PostCheck \/ Tools!Settle \/ Tools!RecordCall \/ Tools!FinalPublish \/ Tools!Crash
  BY <1>3, ToolCheckKeeps, ToolSettleKeeps, ToolSkipKeeps, ToolFinalPublishKeeps, ToolCrashKeeps
<1>4. CASE (\E x \in Tools!Targets : Tools!LateEffect(x)) \/ Tools!Interfere \/ Tools!Cancel \/ Tools!HostRelease
  BY <1>4, ToolLateKeeps, ToolInterfereKeeps, ToolCancelKeeps, ToolHostReleaseKeeps
<1> QED
  BY <1>1, <1>2, <1>3, <1>4 DEF Tools!Next

LEMMA ToolInvImplies == ASSUME ToolInv PROVE Tools!ToolReceiptIsTrue /\ Tools!ToolCallsAreGuarded
<1>1. Tools!ToolReceiptIsTrue
  <2>1. ASSUME NEW x \in Tools!Targets
        PROVE  /\ x \in Called => durable[x] \notin {"none", "planned", "skipped"}
               /\ pc \in {"done", "failed", "dead"} /\ (rows[x] \in {"skipped", "failed"} \/ durable[x] = "failed") => x \notin hit \cup late
               /\ pc = "done" /\ x \in hit \cup late => rows[x] \in Outcomes
               /\ case.mode # "erase" /\ moves = 0 /\ rows[x] = "succeeded" => x \in hit
    BY DEF ToolInv, ToolRows, ToolHits, Outcomes
  <2>2. pc = "failed" => Called = {}
    BY DEF ToolInv, ToolPlan, Called, Tools!Called
  <2>3. hit \cup late \subseteq Called
    BY DEF ToolInv, ToolHits
  <2> QED
    BY <2>1, <2>2, <2>3 DEF Tools!ToolReceiptIsTrue, Tools!Over, Tools!SaysEffects, Tools!mode, Called, Outcomes
<1>2. Tools!ToolCallsAreGuarded
  <2>1. DOMAIN made = 1..Len(made) /\ Len(made) \in Nat
    BY DEF ToolInv, ToolTypeOK
  <2>2. ASSUME NEW i \in 1..Len(made)
        PROVE  /\ i < Len(made) => ~made[i].unclear
               /\ Tools!Cardinality(made[i].targets) <= ToolBatch
               /\ \A d \in made[i].targets \cap ToolDevices : Tools!Partners(seen, d) \subseteq made[i].targets
               /\ made[i].targets \subseteq Tools!Selection(case.order)
    BY <2>1 DEF ToolInv, ToolPlan, GoodCall, ToolStops
  <2>3. Called \subseteq Tools!Selection(case.order)
    BY <2>2 DEF Called, Tools!Called
  <2>4. \A r \in ToolImages \cap Called : Tools!Dependents(seen, r) \subseteq Tools!Removed
    BY DEF ToolInv, ToolOrder
  <2> QED
    BY <2>2, <2>3, <2>4 DEF Tools!ToolCallsAreGuarded, Called
<1> QED
  BY <1>1, <1>2

LEMMA ToolStutters == ASSUME ToolInv, UNCHANGED vars PROVE ToolInv'
<1>1. UNCHANGED <<case, dev, img, late, hit, seen, durable, before, end, moves, plan, rows, stop, made, pc>>
  BY DEF vars
<1>2. Called' = Called /\ Tools!Selection(case.order)' = Tools!Selection(case.order)
  BY <1>1, ToolCalledSame, ToolSealed
<1>3. ToolTypeOK' /\ ToolPlan' /\ ToolRows'
  BY <1>1, <1>2 DEF ToolInv, ToolTypeOK, ToolPlan, ToolRows
<1>4. ToolHits' /\ ToolStops' /\ ToolOrder'
  BY <1>1, <1>2, ToolOrderKept DEF ToolInv, ToolHits, ToolStops, ToolOrder
<1> QED
  BY <1>3, <1>4 DEF ToolInv

=============================================================================
