---------------------------------- MODULE MCScans ----------------------------------
(***************************************************************************)
(* The two parallel scans, each alone: the size scan with its directory    *)
(* leases and the walk with its event channel.  As in MCInspection the     *)
(* initial state picks the one that runs.                                  *)
(***************************************************************************)
EXTENDS MCData, SequencesExt, FiniteSetsExt



VARIABLES
  which,  \* the component that runs
  active, cancel, changed, channel, deferred, deferredSlots, directories, errors, event,
  expired, failed, finished, hand, held, jobs, linked, local, pc, pending, producerDone,
  project, report, result, retained, roots, spawnFailed, stack, stop, stopped, then, timedOut,
  totals, tree, unspawned, visited, walk

Size == INSTANCE ParallelScan WITH
  Scans <- SizeAll, Root <- "r", Files <- {"f", "g"}, Workers <- 2, QueueCapacity <- 1,
  MaxOpenDirs <- 3, DeferLimit <- 2, MaxEntries <- 4, MaxDepth <- 4, Budget <- 5, MaxChanges <-
  1, MaxErrors <- 1, MaxFailures <- 1
Walk == INSTANCE ScanWalk WITH
  Walks <- WalkAll, Dirs <- WalkDirs, Files <- {"f", "g"}, Workers <- {1, 2}, MaxErrors <- 1

\* The inputs above are what the components assume of them.
ASSUME InputsAreSound ==
  /\ Size!ParallelScanAssumption
  /\ Walk!WalkAssumption

vars ==
  <<which,
    active, cancel, changed, channel, deferred, deferredSlots, directories, errors, event,
    expired, failed, finished, hand, held, jobs, linked, local, pc, pending, producerDone,
    project, report, result, retained, roots, spawnFailed, stack, stop, stopped, then, timedOut,
    totals, tree, unspawned, visited, walk>>

\* The variables of the other components.
Off == "off"
Init ==
  \/ /\ which = "size" /\ Size!Init
     /\ channel = Off /\ event = Off /\ expired = Off /\ finished = Off /\ held = Off
     /\ pending = Off /\ report = Off /\ roots = Off /\ spawnFailed = Off /\ stop = Off
     /\ then = Off /\ timedOut = Off /\ unspawned = Off /\ walk = Off
  \/ /\ which = "walk" /\ Walk!Init
     /\ changed = Off /\ deferred = Off /\ deferredSlots = Off /\ directories = Off
     /\ hand = Off /\ linked = Off /\ local = Off /\ producerDone = Off /\ project = Off
     /\ retained = Off /\ stopped = Off /\ totals = Off /\ tree = Off

SizeIdle ==
  <<which, channel, event, expired, finished, held, pending, report, roots, spawnFailed, stop,
  then, timedOut, unspawned, walk>>
WalkIdle ==
  <<which, changed, deferred, deferredSlots, directories, hand, linked, local, producerDone,
  project, retained, stopped, totals, tree>>

SizeTurn == which = "size" /\ UNCHANGED SizeIdle
WalkTurn == which = "walk" /\ UNCHANGED WalkIdle

SizeStep == SizeTurn /\ Size!Next
WalkStep == WalkTurn /\ Walk!Next

Next == SizeStep \/ WalkStep

Spec == Init /\ [][Next]_vars

-----------------------------------------------------------------------------
(* Properties.  Each is a conjunction with one part for every component it  *)
(* concerns; the parts are stated in the components' modules.               *)

\* A scan that calls itself complete has counted every entry below the root
\* once, hard links of a file together, however its workers interleaved and
\* whichever of them stopped, and no cancellation came before its last look;
\* the places its workers reserve in the event channel always add up.
CompleteIsExact ==
  /\ which = "size" => Size!CompleteIsExact /\ Size!CancelledIsIncomplete
  /\ which = "walk" => Walk!WalkIsExact /\ Walk!WalkPlacesAddUp

\* A directory that changed while it was read is never part of a complete
\* size.
ChangesAreSeen == which = "size" => Size!ChangesAreSeen
=============================================================================
