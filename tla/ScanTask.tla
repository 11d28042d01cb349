------------------------------ MODULE ScanTask ------------------------------
(***************************************************************************)
(* A scan on a thread of its own (readonly_task.rs, scan/task.rs): the     *)
(* worker leaves its progress in one slot and, for the profile that        *)
(* prepares an index, stores the index before it returns; the host polls,  *)
(* cancels, takes the index and drops the task.  The scan itself is        *)
(* ScanWalk's and the index ScanIndex's; here they are only the phases of  *)
(* the worker.                                                             *)
(***************************************************************************)
EXTENDS Integers

CONSTANTS
    MaxSequence  \* the largest progress sequence number

VARIABLES
    worker,    \* "scan", "index", "store", "return", "exited"
    result,    \* what the worker returns: "none" until it is decided
    exhausted, \* the sequence ran out (progress_error)
    sequence,  \* ProgressSlot.sequence
    cancelled, \* Cancellation
    prepared,  \* "none", "stored", "taken"
    host,      \* "open", "polling", "dropping", "gone"
    outcome,   \* the joined result, "none" before
    snapshot   \* the last snapshot handed out

vars == <<worker, result, exhausted, sequence, cancelled, prepared, host, outcome, snapshot>>

Init ==
    /\ worker = "scan"
    /\ result = "none"
    /\ exhausted = FALSE
    /\ sequence = 0
    /\ cancelled = FALSE
    /\ prepared = "none"
    /\ host = "open"
    /\ outcome = "none"
    /\ snapshot = [state |-> "running", sequence |-> 0]

(***************************************************************************)
(* The worker.                                                             *)
(***************************************************************************)
\* Mutant: an exhausted sequence is noted and the work goes on.
UpdateGoesOn ==
    /\ worker = "scan"
    /\ IF sequence < MaxSequence THEN sequence' = sequence + 1 /\ UNCHANGED exhausted
                                 ELSE exhausted' = TRUE /\ UNCHANGED sequence
    /\ UNCHANGED <<worker, result, cancelled, prepared, host, outcome, snapshot>>

\* One progress report; a sequence that cannot grow cancels the work and is an error.
Update ==
    /\ worker = "scan"
    /\ IF sequence < MaxSequence
       THEN sequence' = sequence + 1 /\ UNCHANGED <<exhausted, cancelled>>
       ELSE exhausted' = TRUE /\ cancelled' = TRUE /\ UNCHANGED sequence
    /\ UNCHANGED <<worker, result, prepared, host, outcome, snapshot>>

\* The scan returns by itself: a report, or an error.  Only the profile that prepares an
\* index goes on, and only with a report worth indexing.
ScanReturns ==
    /\ worker = "scan"
    /\ \E value \in {"complete", "partial", "report_failed", "error"}, prepares \in BOOLEAN :
         /\ result' = value
         /\ worker' = IF prepares /\ value \in {"complete", "partial"} THEN "index" ELSE "return"
    /\ UNCHANGED <<exhausted, sequence, cancelled, prepared, host, outcome, snapshot>>

\* The scan notices the cancellation.
ScanStops ==
    /\ worker = "scan"
    /\ cancelled
    /\ \E value \in {"report_cancelled", "error_cancelled"} : result' = value
    /\ worker' = "return"
    /\ UNCHANGED <<exhausted, sequence, cancelled, prepared, host, outcome, snapshot>>

\* Index and projections, up to the last check before the result is stored.
Index ==
    /\ worker = "index"
    /\ IF cancelled THEN result' = "error_cancelled" /\ worker' = "return"
                    ELSE worker' = "store" /\ UNCHANGED result
    /\ UNCHANGED <<exhausted, sequence, cancelled, prepared, host, outcome, snapshot>>

\* The index itself may be refused (an overflow, an inconsistent report).
IndexFails ==
    /\ worker = "index"
    /\ result' = "index_error"
    /\ worker' = "return"
    /\ UNCHANGED <<exhausted, sequence, cancelled, prepared, host, outcome, snapshot>>

StorePrepared ==
    /\ worker = "store"
    /\ prepared' = "stored"
    /\ worker' = "return"
    /\ UNCHANGED <<result, exhausted, sequence, cancelled, host, outcome, snapshot>>

\* The thread's closure returns: the progress error, if any, instead of the result.
Return ==
    /\ worker = "return"
    /\ result' = IF exhausted THEN "internal" ELSE result
    /\ worker' = "exited"
    /\ UNCHANGED <<exhausted, sequence, cancelled, prepared, host, outcome, snapshot>>

Panic ==
    /\ worker \in {"scan", "index"}
    /\ result' = "panic"
    /\ worker' = "exited"
    /\ UNCHANGED <<exhausted, sequence, cancelled, prepared, host, outcome, snapshot>>

(***************************************************************************)
(* The host.                                                               *)
(***************************************************************************)

\* JoinHandle::is_finished
IsFinished == worker = "exited"

\* ScanTask::poll: the state a result is shown as.
StateOf(value) ==
    CASE value = "none" -> "running"
      [] value \in {"report_cancelled", "error_cancelled"} -> "cancelled"
      [] value \in {"complete", "partial"} -> value
      [] OTHER -> "failed"

\* collect_finished: join a worker that has exited, once.
Collected == IF outcome = "none" /\ IsFinished THEN result ELSE outcome

\* The first half of a poll joins, the second reads the progress slot under its lock.
PollCollect ==
    /\ host = "open"
    /\ outcome' = Collected
    /\ snapshot' = [snapshot EXCEPT !.state = StateOf(Collected)]
    /\ host' = "polling"
    /\ UNCHANGED <<worker, result, exhausted, sequence, cancelled, prepared>>

PollRead ==
    /\ host = "polling"
    /\ snapshot' = [snapshot EXCEPT !.sequence = sequence]
    /\ host' = "open"
    /\ UNCHANGED <<worker, result, exhausted, sequence, cancelled, prepared, outcome>>

Cancel ==
    /\ host = "open"
    /\ ~cancelled
    /\ cancelled' = TRUE
    /\ UNCHANGED <<worker, result, exhausted, sequence, prepared, host, outcome, snapshot>>

\* take_prepared_tree: only from a worker that has exited, and once.
TakePrepared ==
    /\ host = "open"
    /\ IsFinished
    /\ prepared = "stored"
    /\ prepared' = "taken"
    /\ UNCHANGED <<worker, result, exhausted, sequence, cancelled, host, outcome, snapshot>>

\* Dropping a task cancels the work and waits for the thread.
Drop ==
    /\ host = "open"
    /\ cancelled' = TRUE
    /\ host' = "dropping"
    /\ UNCHANGED <<worker, result, exhausted, sequence, prepared, outcome, snapshot>>

Join ==
    /\ host = "dropping"
    /\ IsFinished
    /\ host' = "gone"
    /\ UNCHANGED <<worker, result, exhausted, sequence, cancelled, prepared, outcome, snapshot>>

Worker == Index \/ StorePrepared \/ Return

Next ==
    \/ Update
    \/ ScanReturns
    \/ ScanStops
    \/ IndexFails
    \/ Worker
    \/ Panic
    \/ PollCollect
    \/ PollRead
    \/ Cancel
    \/ TakePrepared
    \/ Drop
    \/ Join

\* The thread is scheduled, and a scan that was cancelled notices it; a scan is not assumed
\* to end by itself.
Fairness == WF_vars(Worker) /\ WF_vars(ScanStops) /\ WF_vars(Join)

Spec == Init /\ [][Next]_vars /\ Fairness

(***************************************************************************)
(* Properties.                                                             *)
(***************************************************************************)
\* What a finished task says does not change under the host: a snapshot with a final state
\* comes from a thread that has exited and carries its last progress, and an index is only
\* ever taken from a task whose result is a report of that scan, never from one that ends
\* as cancelled, failed or out of sequence numbers (readonly_task.rs:79-105,
\* scan/task.rs:58-92).
FinishedIsFinal ==
    /\ snapshot.state # "running" =>
         /\ worker = "exited"
         /\ host # "polling" /\ host # "dropping" => snapshot.sequence = sequence
    /\ prepared = "taken" => result \in {"complete", "partial"}

==============================================================================
