--------------------------- MODULE MCInstallation ---------------------------
(* Installation with one process whose operations stop again and again and *)
(* lose power, and with two processes over one prefix.                     *)
EXTENDS Installation, TLC

CONSTANTS
  RaceOps, RaceStops  \* MaxOps and MaxStops when two processes run

VARIABLE running  \* the processes that run at all

Alone == Cardinality(running) = 1

MCInit == Init /\ running \in SUBSET Procs /\ running # {}
MCNext ==
  /\ Next /\ UNCHANGED running
  /\ \A p \in Procs \ running : local'[p] = local[p]
  /\ Alone \/ (started' <= RaceOps /\ stops' <= RaceStops /\ powers' = 0)
MCSpec == MCInit /\ [][MCNext]_<<vars, running>>

Interchangeable == Permutations(Procs)

\* Code: the gates of install, update and remove keep pending evidence until
\* recovery has resolved it.  A process alone never replaces the record of
\* another operation, however often it is stopped, and an outcome it recorded,
\* by recovery too, agrees with the package it is about.
LoneEvidenceIsKept == Alone => EvidenceIsKept /\ OutcomeIsTrue

\* Code: wherever a process alone is stopped in an update or a recovery,
\* recovery recognizes the state, but for the windows it refuses on purpose.
LoneRecoveryRecognizes == Alone => RecoveryRecognizes

=============================================================================
