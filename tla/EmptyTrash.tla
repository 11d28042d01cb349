----------------------------- MODULE EmptyTrash -----------------------------
(***************************************************************************)
(* The Finder-delegated empty-Trash session                                *)
(* (crates/engine/src/empty_trash.rs and empty_trash_journal.rs).           *)
(*                                                                         *)
(* A session prepares a preview, begins at most once, claims one dispatch  *)
(* permit and finishes at most once; the host (outside this repository)    *)
(* sends the one Apple event in between.  The event cannot be undone and   *)
(* may go on after the host, or the whole process, is gone.  What keeps a  *)
(* second event from being sent over an unresolved first one is a pair of  *)
(* receipt stores, each under an exclusive lock: the history               *)
(* (MaintenanceJournal), which a user may archive, and the guard           *)
(* (EmptyTrashState), which nothing but a resolved finish clears.          *)
(*                                                                         *)
(* Publication is one step here with the outcomes that JournalStore's      *)
(* system calls can produce: the store's lock excludes every reader until  *)
(* the call returns or the process dies.                                   *)
(***************************************************************************)
EXTENDS Integers, FiniteSets

CONSTANTS
  Sessions,     \* the sessions of all processes; each begins one operation
  Items,        \* entries of the home Trash named by earlier move receipts
  MaxRecords    \* MAX_RECORDS, the receipts a store may hold

Nobody == "nobody"

\* What the instances of the module assume of its parameters.
SessionAssumption == MaxRecords \in Nat /\ Nobody \notin Sessions

VARIABLES
  phase,     \* where the calls of each session stand
  expired,   \* the session's monotonic deadline has passed
  reply,     \* the outcome the host passes, or will pass, to finish
  record,    \* the record of the session's operation in memory
  holder,    \* holder[x]: the session that holds the lock of store x
  disk,      \* disk[x][s]: the entry of operation s in store x
  may,       \* may[x][s]: the entries a power failure may leave there
  trash,     \* trash[i]: the retained identity, another one, or nothing
  running,   \* the events Finder is still working on
  sent,      \* history: the operations whose event was sent
  settled,   \* history: the operations with a durable unambiguous outcome
  left       \* left[s]: history: items that left the Trash since s began

vars == <<phase, expired, reply, record, holder, disk, may, trash, running,
          sent, settled, left>>

Stores == {"guard", "history"}

----------------------------------------------------------------------------
(* Records (empty_trash_journal.rs).                                       *)

FinderOutcome == {"ReportedCompleted", "UserCancelled", "AutomationDenied",
                  "Failed", "TimedOut", "TransportUnknown", "NotDispatched"}

Observation == {"Started", "Present", "Absent", "Unknown", "NotDispatched"}

\* An item the preview did not retain has no row.
Rows == [Items -> Observation \cup {"Unlisted"}]

\* A record is the state of the operation, Finder's outcome, the aggregate
\* that is told and a row per retained item.
NoRecord == [state |-> "None", outcome |-> "None", aggregate |-> "None",
             obs |-> [i \in Items |-> "Unlisted"]]

Listed(obs) == {i \in Items : obs[i] # "Unlisted"}

\* The whole-operation intent: every retained item Started.
Intent(known) ==
  [state |-> "Started", outcome |-> "None", aggregate |-> "None",
   obs |-> [i \in Items |-> IF i \in known THEN "Started" ELSE "Unlisted"]]

MayContinue(r) == r.state = "Started" \/ r.outcome \in {"TimedOut", "TransportUnknown"}

\* aggregate(): cancellation first, then residue, then success only with a
\* reported completion, a stable root, a zero count and at least one known
\* item, every one of them absent.
AggregateOf(outcome, obs, count, stable) ==
  CASE outcome \in {"NotDispatched", "UserCancelled", "AutomationDenied"} -> "Cancelled"
    [] (\E i \in Items : obs[i] = "Present") \/ count = "some" -> "Partial"
    [] outcome = "ReportedCompleted" /\ stable /\ count = "zero"
         /\ Listed(obs) # {}
         /\ \A i \in Listed(obs) : obs[i] = "Absent" -> "Succeeded"
    [] OTHER -> "Unknown"

\* c_unresolved.
Unresolved(r) == r.state # "Finished" \/ MayContinue(r) \/ r.aggregate = "Unknown"

\* Context::validate of a finished record: the aggregate is recomputed as if
\* the root had been stable.
Validates(r, count) ==
  /\ \A i \in Listed(r.obs) :
       /\ r.obs[i] # "Started"
       /\ (r.obs[i] = "NotDispatched") <=> (r.outcome = "NotDispatched")
  /\ r.aggregate = AggregateOf(r.outcome, r.obs, count, TRUE)

\* unconfirmed(): the content of a marker, and what an interrupted operation
\* reads as.
Unconfirmed(r) ==
  [state |-> "Finished", outcome |-> "TransportUnknown", aggregate |-> "Unknown",
   obs |-> [i \in Items |-> IF r.obs[i] = "Unlisted" THEN "Unlisted" ELSE "Unknown"]]

----------------------------------------------------------------------------
(* The receipt stores (journal/store.rs).                                  *)

\* <id>.json holds rec (NoRecord: absent) and <id>.pending exists or not.
Entry(r, m) == [rec |-> r, marker |-> m]
Empty == Entry(NoRecord, FALSE)

\* What records() tells about an operation: every row of a marker is Unknown.
Reading(e) == IF e.marker \/ e.rec.state = "Started" THEN Unconfirmed(e.rec) ELSE e.rec

\* How publish_with may end on an entry whose current content is old: the
\* entry it leaves, the entries a power failure may leave, and whether
\* require_clean accepts the result.
PublicationEnds(old, possible, r) ==
  LET marked == Entry(old.rec, TRUE)
      both   == Entry(r, TRUE)
      clean  == Entry(r, FALSE)
  IN  [now : {old}, may : {possible}, ok : {FALSE}]
        \cup [now : {marked}, may : {possible \cup {marked}, {marked}}, ok : {FALSE}]
        \cup [now : {both}, may : {{marked, both}, {both}}, ok : {FALSE}]
        \cup [now : {clean}, may : {{both, clean}}, ok : BOOLEAN]

\* Mutant: an operation that finished without a clear outcome is no obstacle.
BarrierForgets(d) ==
  /\ \A s \in Sessions : d["guard"][s] = Empty
       \/ (~d["history"][s].marker /\ ~MayContinue(d["history"][s].rec)
            /\ d["history"][s].rec.state = "Finished")
  /\ \A s \in Sessions : d["history"][s] = Empty
       \/ (~d["history"][s].marker /\ ~MayContinue(d["history"][s].rec))
  /\ Cardinality({s \in Sessions : d["history"][s] # Empty}) < MaxRecords

\* barrier(): an empty guard store and a history with room, in which every
\* operation is committed and resolved.
Barrier(d) ==
  /\ \A s \in Sessions : d["guard"][s] = Empty
  /\ \A s \in Sessions : d["history"][s] = Empty
       \/ (~d["history"][s].marker /\ ~Unresolved(d["history"][s].rec))
  /\ Cardinality({s \in Sessions : d["history"][s] # Empty}) < MaxRecords

----------------------------------------------------------------------------

world == <<trash, running, sent, settled, left>>

Goto(s, p) == phase' = [phase EXCEPT ![s] = p]

\* The session ends or its last call drops its stores: the locks and the
\* session's memory go, the receipts stay.
Drop(s) == holder' = [x \in Stores |-> IF holder[x] = s THEN Nobody ELSE holder[x]]

Forget(s) ==
  /\ record' = [record EXCEPT ![s] = NoRecord]
  /\ reply' = [reply EXCEPT ![s] = "NotDispatched"]
  /\ expired' = [expired EXCEPT ![s] = FALSE]

Close(s) == Goto(s, "done") /\ Drop(s) /\ Forget(s)

Keep == UNCHANGED <<holder, record, reply, expired>>

\* prepare(): the retained items are those whose recorded identity is still
\* there (any part of them: coverage may be incomplete).  It opens both
\* stores for the barrier and closes them again; a preview that may not begin
\* is of no further use.
Prepare(s) ==
  /\ phase[s] = "none"
  /\ \/ /\ \A x \in Stores : holder[x] = Nobody
        /\ Barrier(disk)
        /\ \E known \in SUBSET {i \in Items : trash[i] = "same"} :
             record' = [record EXCEPT ![s] = Intent(known)]
        /\ Goto(s, "preview")
     \/ /\ Goto(s, "done")
        /\ UNCHANGED record
  /\ UNCHANGED <<expired, reply, holder, disk, may, world>>

Known(s) == Listed(record[s].obs)

\* begin(): approval, deadline, and the retained evidence unchanged.
BeginCheck(s) ==
  /\ phase[s] = "preview"
  /\ ~expired[s]
  /\ \A i \in Known(s) : trash[i] = "same"
  /\ Goto(s, "lock_guard")
  /\ left' = [left EXCEPT ![s] = {}]
  /\ UNCHANGED <<expired, reply, record, holder, disk, may, trash, running, sent, settled>>

OpenGuard(s) ==
  /\ phase[s] = "lock_guard"
  /\ holder["guard"] = Nobody
  /\ holder' = [holder EXCEPT !["guard"] = s]
  /\ Goto(s, "lock_history")
  /\ UNCHANGED <<expired, reply, record, disk, may, world>>

\* The second store, then the barrier and the deadline under both locks.
OpenHistory(s) ==
  /\ phase[s] = "lock_history"
  /\ holder["history"] = Nobody
  /\ Barrier(disk)
  /\ ~expired[s]
  /\ holder' = [holder EXCEPT !["history"] = s]
  /\ Goto(s, "publish_guard")
  /\ UNCHANGED <<expired, reply, record, disk, may, world>>

\* Any of begin's calls may refuse: a mismatch, a busy lock, a barrier that
\* does not hold, changed or late evidence.  The preview is consumed.
Refuse(s) ==
  /\ phase[s] \in {"preview", "lock_guard", "lock_history", "permit"}
  /\ Close(s)
  /\ UNCHANGED <<disk, may, world>>

\* publish(...)?.require_clean()? of the session's record in store x.
Publish(s, x, next) ==
  \E e \in PublicationEnds(disk[x][s], may[x][s], record[s]) :
    /\ disk' = [disk EXCEPT ![x][s] = e.now]
    /\ may' = [may EXCEPT ![x][s] = e.may]
    /\ IF e.ok THEN Goto(s, next) /\ Keep ELSE Close(s)

PublishGuard(s) ==
  /\ phase[s] = "publish_guard"
  /\ Publish(s, "guard", "publish_history")
  /\ UNCHANGED world

PublishHistory(s) ==
  /\ phase[s] = "publish_history"
  /\ Publish(s, "history", "permit")
  /\ UNCHANGED world

Permit(s) ==
  /\ phase[s] = "permit"
  /\ ~expired[s]
  /\ Goto(s, "active")
  /\ UNCHANGED <<expired, reply, record, holder, disk, may, world>>

ClaimDispatch(s) ==
  /\ phase[s] = "active"
  /\ ~expired[s]
  /\ Goto(s, "claimed")
  /\ UNCHANGED <<expired, reply, record, holder, disk, may, world>>

----------------------------------------------------------------------------
(* The host, Finder and the Trash (outside src/).                          *)

\* The host sends its one event right after claiming the permit.
SendEvent(s) ==
  /\ phase[s] = "claimed"
  /\ Goto(s, "waiting")
  /\ running' = running \cup {s}
  /\ sent' = sent \cup {s}
  /\ UNCHANGED <<expired, reply, record, holder, disk, may, trash, settled, left>>

\* It decides not to send: cancelled, expired or no longer licensed.
DoNotSend(s) ==
  /\ phase[s] \in {"active", "claimed"}
  /\ reply' = [reply EXCEPT ![s] = "NotDispatched"]
  /\ Goto(s, "replied")
  /\ UNCHANGED <<expired, record, holder, disk, may, world>>

\* Finder answers: it has stopped working on the event.
FinderReplies(s) ==
  /\ phase[s] = "waiting"
  /\ s \in running
  /\ running' = running \ {s}
  /\ \E o \in FinderOutcome \ {"NotDispatched", "TimedOut", "TransportUnknown"} :
       reply' = [reply EXCEPT ![s] = o]
  /\ Goto(s, "replied")
  /\ UNCHANGED <<expired, record, holder, disk, may, trash, sent, settled, left>>

\* The host stops waiting (600 s) or loses the transport: Finder goes on.
HostStopsWaiting(s) ==
  /\ phase[s] = "waiting"
  /\ \E o \in {"TimedOut", "TransportUnknown"} : reply' = [reply EXCEPT ![s] = o]
  /\ Goto(s, "replied")
  /\ UNCHANGED <<expired, record, holder, disk, may, world>>

FinderEnds(s) ==
  /\ s \in running
  /\ phase[s] # "waiting"
  /\ running' = running \ {s}
  /\ UNCHANGED <<phase, expired, reply, record, holder, disk, may, trash, sent, settled, left>>

\* An entry leaves the Trash (Finder or anyone), or another takes its name.
TrashChanges(i, v) ==
  /\ trash[i] # v
  /\ v \in {"gone", "other"}
  /\ trash' = [trash EXCEPT ![i] = v]
  /\ left' = [s \in Sessions |-> left[s] \cup {i}]
  /\ UNCHANGED <<phase, expired, reply, record, holder, disk, may, running, sent, settled>>

Expire(s) ==
  /\ ~expired[s]
  /\ phase[s] \in {"preview", "lock_guard", "lock_history", "publish_guard",
                   "publish_history", "permit", "active"}
  /\ expired' = [expired EXCEPT ![s] = TRUE]
  /\ UNCHANGED <<phase, reply, record, holder, disk, may, world>>

\* A user archives the history while no session holds it.
ArchiveHistory ==
  /\ holder["history"] = Nobody
  /\ \E s \in Sessions : disk["history"][s] # Empty
  /\ disk' = [disk EXCEPT !["history"] = [s \in Sessions |-> Empty]]
  /\ may' = [may EXCEPT !["history"] = [s \in Sessions |-> may["history"][s] \cup {Empty}]]
  /\ UNCHANGED <<phase, expired, reply, record, holder, world>>

----------------------------------------------------------------------------
(* finish().                                                               *)

\* One lookup under the held root: the identity, its absence, or an error.
Observe(i) == CASE trash[i] = "gone" -> {"Absent", "Unknown"}
                [] trash[i] = "same" -> {"Present", "Unknown"}
                [] OTHER -> {"Unknown"}

Observations(s) ==
  IF reply[s] = "NotDispatched"
    THEN {[i \in Items |-> IF i \in Known(s) THEN "NotDispatched" ELSE "Unlisted"]}
    ELSE {o \in Rows : \A i \in Items :
            IF i \in Known(s) THEN o[i] \in Observe(i) ELSE o[i] = "Unlisted"}

Finished(s, obs, count, stable) ==
  [state |-> "Finished", outcome |-> reply[s], obs |-> obs,
   aggregate |-> AggregateOf(reply[s], obs, count, stable)]

\* Rows observed under a root that did not stay the same are worth nothing.
FinalRows(s, obs, stable) ==
  IF stable \/ reply[s] = "NotDispatched" THEN obs
  ELSE [i \in Items |-> IF i \in Known(s) THEN "Unknown" ELSE "Unlisted"]

\* Everything up to validate().  count is the host's own reading of Finder.
FinishObserve(s) ==
  /\ phase[s] = "replied"
  /\ \E obs \in Observations(s), count \in {"none", "zero", "some"}, stable \in BOOLEAN :
       LET r == Finished(s, FinalRows(s, obs, stable), count, stable)
       IN  /\ record' = [record EXCEPT ![s] = r]
           /\ IF Validates(r, count)
                THEN Goto(s, "publish_outcome") /\ UNCHANGED holder
                ELSE Goto(s, "invalid") /\ Drop(s)
  /\ UNCHANGED <<expired, reply, disk, may, world>>

\* For the history variable settled: the record says what became of the event.
Unambiguous(r) ==
  /\ r.outcome \notin {"TimedOut", "TransportUnknown"}
  /\ r.aggregate \in {"Cancelled", "Partial", "Succeeded"}

AfterOutcome(s) == IF Unresolved(record[s]) THEN "done" ELSE "clear"

\* The outcome replaces the intent in the history; only when that is durable
\* and says what happened is the guard cleared.
PublishOutcome(s) ==
  /\ phase[s] = "publish_outcome"
  /\ \E e \in PublicationEnds(disk["history"][s], may["history"][s], record[s]) :
       /\ disk' = [disk EXCEPT !["history"][s] = e.now]
       /\ may' = [may EXCEPT !["history"][s] = e.may]
       /\ settled' = IF e.ok /\ Unambiguous(record[s]) THEN settled \cup {s} ELSE settled
       /\ IF e.ok /\ AfterOutcome(s) = "clear" THEN Goto(s, "clear") /\ Keep ELSE Close(s)
  /\ UNCHANGED <<trash, running, sent, left>>

\* clear_empty_trash_guard: exactly this operation's committed record; unlink
\* and a plain fsync, or a failure that leaves it.
ClearGuard(s) ==
  /\ phase[s] = "clear"
  /\ \/ /\ disk["guard"][s] # Empty /\ ~disk["guard"][s].marker
        /\ \A t \in Sessions \ {s} : disk["guard"][t] = Empty
        /\ disk' = [disk EXCEPT !["guard"][s] = Empty]
        /\ may' = [may EXCEPT !["guard"][s] = @ \cup {Empty}]
     \/ UNCHANGED <<disk, may>>
  /\ Close(s)
  /\ UNCHANGED world

----------------------------------------------------------------------------
(* The end of a session at any point.                                      *)

\* The handle is released or the process dies.
SessionEnds(s) ==
  /\ phase[s] \notin {"none", "done", "invalid"}
  /\ Close(s)
  /\ UNCHANGED <<disk, may, world>>

\* Everything stops, Finder too; each entry comes back as one of those it may
\* be.
PowerFailure ==
  /\ \E g \in [Sessions -> UNION {may["guard"][s] : s \in Sessions}] :
       /\ \A s \in Sessions : g[s] \in may["guard"][s]
       /\ \E h \in [Sessions -> UNION {may["history"][s] : s \in Sessions}] :
            /\ \A s \in Sessions : h[s] \in may["history"][s]
            /\ disk' = [x \in Stores |-> IF x = "guard" THEN g ELSE h]
  /\ may' = [x \in Stores |-> [s \in Sessions |-> {disk'[x][s]}]]
  /\ phase' = [s \in Sessions |-> IF phase[s] = "none" THEN "none" ELSE "done"]
  /\ holder' = [x \in Stores |-> Nobody]
  /\ record' = [s \in Sessions |-> NoRecord]
  /\ reply' = [s \in Sessions |-> "NotDispatched"]
  /\ expired' = [s \in Sessions |-> FALSE]
  /\ running' = {}
  /\ UNCHANGED <<trash, sent, settled, left>>

Init ==
  /\ phase = [s \in Sessions |-> "none"]
  /\ expired = [s \in Sessions |-> FALSE]
  /\ reply = [s \in Sessions |-> "NotDispatched"]
  /\ record = [s \in Sessions |-> NoRecord]
  /\ holder = [x \in Stores |-> Nobody]
  /\ disk = [x \in Stores |-> [s \in Sessions |-> Empty]]
  /\ may = [x \in Stores |-> [s \in Sessions |-> {Empty}]]
  /\ trash = [i \in Items |-> "same"]
  /\ running = {}
  /\ sent = {}
  /\ settled = {}
  /\ left = [s \in Sessions |-> {}]

Step(s) ==
  \/ Prepare(s) \/ BeginCheck(s) \/ OpenGuard(s) \/ OpenHistory(s) \/ Refuse(s)
  \/ PublishGuard(s) \/ PublishHistory(s) \/ Permit(s) \/ ClaimDispatch(s)
  \/ SendEvent(s) \/ DoNotSend(s) \/ FinderReplies(s) \/ HostStopsWaiting(s)
  \/ FinderEnds(s) \/ Expire(s) \/ FinishObserve(s) \/ PublishOutcome(s)
  \/ ClearGuard(s) \/ SessionEnds(s)

Next ==
  \/ \E s \in Sessions : Step(s)
  \/ \E i \in Items, v \in {"gone", "other"} : TrashChanges(i, v)
  \/ ArchiveHistory
  \/ PowerFailure

Spec == Init /\ [][Next]_vars

----------------------------------------------------------------------------
(* Properties.                                                             *)

\* Code: begin returns no permit while an earlier operation's event may still
\* be at work, in whatever process, and nothing but the guard survives an
\* archived history.  Finder never works on two events at once.
OneEventAtATime == Cardinality(running) <= 1

\* Code: guard and history are published before the permit, and the barrier
\* is checked under both locks.  Across sessions, crashes, power failures and
\* archival, an event is sent only when every event sent before it has a
\* durable, unambiguous outcome.
NoEventOverAmbiguity == [][sent' # sent => sent \subseteq settled]_vars

\* Code: only a durable resolved finish clears the guard.  As long as an event
\* that was sent has no such outcome, its guard is there in every directory a
\* power failure may leave, so no barrier will pass again.
EventIsGuarded == \A s \in sent \ settled : Empty \notin may["guard"][s]

\* Code: markers and interrupted intents read as unconfirmed.  Whatever stops
\* the session and whatever a power failure brings back, the history says
\* "not dispatched" only of an event that was not sent, calls an operation
\* resolved only when Finder is done with it, and reports an item as absent
\* only if the event was sent and the item left the Trash after begin; it
\* never reports success for no item at all.
HistoryIsTrue ==
  \A s \in Sessions : \A e \in may["history"][s] :
    LET r == Reading(e)
    IN  /\ r.outcome = "NotDispatched" => s \notin sent
        /\ ~Unresolved(r) => s \notin running
        /\ \A i \in Items : r.obs[i] = "Absent" => s \in sent /\ i \in left[s]
        /\ r.aggregate = "Succeeded" =>
             /\ Listed(r.obs) # {}
             /\ \A i \in Listed(r.obs) : r.obs[i] = "Absent"

\* Code: finish() validates the record it has just built after an effect that
\* cannot be undone, with an aggregate recomputed for a stable root.  No
\* combination of reply, observations, count and root makes it refuse its own
\* record and lose the outcome.
FinishAlwaysValidates == \A s \in Sessions : phase[s] # "invalid"

=============================================================================
