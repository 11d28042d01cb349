---------------------------- MODULE NativeTrash ----------------------------
(***************************************************************************)
(* One candidate's native move to the Trash                                *)
(* (crates/platform-macos/src/trash/native.rs, foundation.rs): the checks, *)
(* the only Foundation call, the interpretation of its answer and the      *)
(* verification of the destination, each against a file system that other  *)
(* processes change between any two of them.                               *)
(*                                                                         *)
(* The approved object Target was captured at the path "source" with data  *)
(* 0 and change time 0; the descriptor opened then is held throughout.     *)
(* Ancestors, protections, source copy, volume and authority are the one   *)
(* flag evidence: everything revalidate_inner checks besides the target.   *)
(***************************************************************************)
EXTENDS Naturals, FiniteSets

CONSTANTS
  Objects, Target,  \* objects of the file system, the approved one
  Callers,          \* threads that submit the candidate
  MaxRaces          \* bound on the steps of other processes

\* What the instances of the module assume of its parameters.
NativeAssumption == Target \in Objects /\ MaxRaces \in Nat

Places == {"source", "trash", "elsewhere"}

VARIABLES
  where,      \* place of each object, or "gone"
  data,       \* contents and stable metadata of each object, as a version
  changed,    \* change time of each object
  evidence,   \* ancestors, protections, volume and authority are as captured
  cancelled,
  races,      \* steps of other processes so far
  attempted,  \* Candidate.attempted
  pc, answer, expected, outcome, trail, policy, restoreFailed,
  \* history
  moved,      \* object that each caller's Foundation call moved, or "nothing"
  calls,      \* callers that reached Foundation
  disturbed,  \* another process moved an object to or from the destination
  places      \* places of the target since the call

world == <<where, data, changed>>
threads == <<pc, answer, expected, outcome, trail, policy, restoreFailed>>
history == <<moved, calls, disturbed, places>>
vars == <<world, evidence, cancelled, races, attempted, threads, history>>

NoAnswer == [yes |-> FALSE, error |-> FALSE, url |-> "none"]

At(p) == {o \in Objects : where[o] = p}

----------------------------------------------------------------------------
(* Checks on the target.                                                   *)

\* Evidence::revalidate with Binding::FullTarget: the descriptor's stamp and
\* path are unchanged and the path still names the same object.
TargetUnchanged == where[Target] = "source" /\ data[Target] = 0 /\ changed[Target] = 0

Goto(c, l) == pc' = [pc EXCEPT ![c] = l]
Conclude(c, verdict) == outcome' = [outcome EXCEPT ![c] = verdict] /\ Goto(c, "restore")

----------------------------------------------------------------------------
(* move_to_trash_with_last_guard.                                          *)

\* attempted.swap: a candidate is submitted once.
Submit(c) ==
  /\ pc[c] = "start"
  /\ attempted' = TRUE
  /\ IF attempted
       THEN outcome' = [outcome EXCEPT ![c] = "Refused"] /\ Goto(c, "done")
       ELSE Goto(c, "policy") /\ UNCHANGED outcome
  /\ UNCHANGED <<world, evidence, cancelled, races, answer, expected, trail,
                 policy, restoreFailed, history>>

EnterPolicy(c) ==
  /\ pc[c] = "policy"
  /\ \/ policy' = [policy EXCEPT ![c] = TRUE] /\ Goto(c, "prepare") /\ UNCHANGED outcome
     \/ /\ outcome' = [outcome EXCEPT ![c] = "Refused"] /\ Goto(c, "done")
        /\ UNCHANGED policy
  /\ UNCHANGED <<world, evidence, cancelled, races, attempted, answer, expected,
                 trail, restoreFailed, history>>

\* Prepared::new, the two passes of revalidate_inner, the caller's guard and
\* the cancellation check inside Prepared::trash, each of which may refuse.
Refuse(c) ==
  /\ pc[c] \in {"prepare", "pass1", "pass2", "guard"} \/ (pc[c] = "ask" /\ cancelled)
  /\ Conclude(c, "Refused")
  /\ UNCHANGED <<world, evidence, cancelled, races, attempted, answer, expected,
                 trail, policy, restoreFailed, history>>

Proceed(c) ==
  /\ \/ pc[c] = "prepare" /\ Goto(c, "pass1")
     \/ pc[c] = "pass1" /\ evidence /\ TargetUnchanged /\ Goto(c, "pass2")
     \/ pc[c] = "pass2" /\ evidence /\ TargetUnchanged /\ Goto(c, "guard")
     \/ pc[c] = "guard" /\ Goto(c, "ask")
     \/ pc[c] = "ask" /\ ~cancelled /\ Goto(c, "call")
  /\ UNCHANGED <<world, evidence, cancelled, races, attempted, answer, expected,
                 outcome, trail, policy, restoreFailed, history>>

\* trashItemAtURL moves whatever the path names now.  NO without a destination
\* means nothing was moved, and the URL of what it moved is right if usable;
\* nothing else about the answer is assumed.
Answers(didMove) ==
  {a \in [yes : BOOLEAN, error : BOOLEAN, url : {"none", "unusable"} \cup Places] :
     didMove => /\ a.yes \/ a.url # "none"
                /\ a.url \in {"none", "unusable", "trash"}}

FoundationMoves(c, o) ==
  /\ where' = [where EXCEPT ![o] = "trash"]
  /\ changed' = [changed EXCEPT ![o] = @ + 1]
  /\ moved' = [moved EXCEPT ![c] = o]
  /\ \E a \in Answers(TRUE) : answer' = [answer EXCEPT ![c] = a]
  /\ places' = places \cup (IF o = Target THEN {"trash"} ELSE {where[Target]})

FoundationDeclines(c) ==
  /\ \E a \in Answers(FALSE) : answer' = [answer EXCEPT ![c] = a]
  /\ places' = places \cup {where[Target]}
  /\ UNCHANGED <<where, changed, moved>>

NativeCall(c) ==
  /\ pc[c] = "call"
  /\ \/ \E o \in At("source") : At("trash") = {} /\ FoundationMoves(c, o)
     \/ FoundationDeclines(c)
  /\ calls' = calls \cup {c}
  /\ Goto(c, "interpret")
  /\ UNCHANGED <<data, evidence, cancelled, races, attempted, expected, outcome,
                 trail, policy, restoreFailed, disturbed>>

\* classify_response
Classify(a) ==
  IF ~a.yes THEN (IF a.url = "none" THEN "Failed" ELSE "Unknown")
  ELSE IF a.error \/ a.url \in {"none", "unusable"} THEN "Unknown"
  ELSE "Destination"

\* interpret_response: unless it failed, the recovery evidence is observed
\* before anything else is looked at.
Interpret(c) ==
  /\ pc[c] = "interpret"
  /\ IF Classify(answer[c]) = "Destination"
       THEN Goto(c, "open") /\ UNCHANGED outcome
       ELSE Conclude(c, Classify(answer[c]))
  /\ trail' = IF Classify(answer[c]) = "Failed" THEN trail
              ELSE [trail EXCEPT ![c] = where[Target]]
  /\ UNCHANGED <<world, evidence, cancelled, races, attempted, answer, expected,
                 policy, restoreFailed, history>>

----------------------------------------------------------------------------
(* verify_destination.                                                     *)

\* Mutant: some object at the destination is enough.
FoundAtAny(p) == At(p) # {}

\* The path opens, and what it names has the retained identity.
FoundAt(p) == where[Target] = p

\* The destination is opened and carries the retained identity; its change
\* time is pinned from here on.
VerifyOpen(c) ==
  /\ pc[c] = "open"
  /\ FoundAt(answer[c].url)
  /\ expected' = [expected EXCEPT ![c] = changed[Target]]
  /\ Goto(c, "held")
  /\ UNCHANGED <<world, evidence, cancelled, races, attempted, answer, outcome,
                 trail, policy, restoreFailed, history>>

\* The retained descriptor agrees with the capture and with the destination,
\* then the source path is gone, then the destination is opened again.
VerifyMore(c) ==
  /\ \/ /\ pc[c] = "held"
        /\ data[Target] = 0 /\ changed[Target] = expected[c]
        /\ FoundAt(answer[c].url)
        /\ Goto(c, "gone")
        /\ UNCHANGED outcome
     \/ /\ pc[c] = "gone"
        /\ At("source") = {}
        /\ Goto(c, "again")
        /\ UNCHANGED outcome
     \/ /\ pc[c] = "again"
        /\ data[Target] = 0 /\ changed[Target] = expected[c]
        /\ FoundAt(answer[c].url)
        /\ Conclude(c, "Moved")
  /\ UNCHANGED <<world, evidence, cancelled, races, attempted, answer, expected,
                 trail, policy, restoreFailed, history>>

\* Any check of verify_destination may fail, by what it sees or by an error.
VerifyFails(c) ==
  /\ pc[c] \in {"open", "held", "gone", "again"}
  /\ Conclude(c, "Unknown")
  /\ UNCHANGED <<world, evidence, cancelled, races, attempted, answer, expected,
                 trail, policy, restoreFailed, history>>

\* policy.restore() and finish_restore, which observes the evidence anew for
\* a move that can no longer be vouched for.
RestorePolicy(c) ==
  /\ pc[c] = "restore"
  /\ \E failed \in BOOLEAN :
       /\ policy' = [policy EXCEPT ![c] = failed]
       /\ restoreFailed' = [restoreFailed EXCEPT ![c] = failed]
       /\ IF failed /\ outcome[c] = "Moved"
            THEN /\ outcome' = [outcome EXCEPT ![c] = "Unknown"]
                 /\ trail' = [trail EXCEPT ![c] = where[Target]]
            ELSE UNCHANGED <<outcome, trail>>
  /\ Goto(c, "done")
  /\ UNCHANGED <<world, evidence, cancelled, races, attempted, answer, expected,
                 history>>

----------------------------------------------------------------------------
(* Other processes.                                                        *)

Race == races < MaxRaces /\ races' = races + 1

\* An object is renamed or unlinked.
Rename(o, p) ==
  /\ Race
  /\ where[o] # p /\ where[o] # "gone" /\ At(p) = {}
  /\ where' = [where EXCEPT ![o] = p]
  /\ changed' = [changed EXCEPT ![o] = @ + 1]
  /\ disturbed' = (disturbed \/ (calls # {} /\ "trash" \in {p, where[o]}))
  /\ places' = IF o = Target /\ calls # {} THEN places \cup {p} ELSE places
  /\ UNCHANGED <<data, evidence, cancelled, attempted, threads, moved, calls>>

Unlink(o) ==
  /\ Race
  /\ where[o] # "gone"
  /\ where' = [where EXCEPT ![o] = "gone"]
  /\ disturbed' = (disturbed \/ (calls # {} /\ where[o] = "trash"))
  /\ places' = IF o = Target /\ calls # {} THEN places \cup {"gone"} ELSE places
  /\ UNCHANGED <<data, changed, evidence, cancelled, attempted, threads, moved, calls>>

\* An object is written, or only its change time moves.
Modify(o) ==
  /\ Race
  /\ \/ data' = [data EXCEPT ![o] = @ + 1]
     \/ UNCHANGED data
  /\ changed' = [changed EXCEPT ![o] = @ + 1]
  /\ UNCHANGED <<where, evidence, cancelled, attempted, threads, history>>

LoseEvidence ==
  /\ Race /\ evidence
  /\ evidence' = FALSE
  /\ UNCHANGED <<world, cancelled, attempted, threads, history>>

Cancel ==
  /\ ~cancelled
  /\ cancelled' = TRUE
  /\ UNCHANGED <<world, evidence, races, attempted, threads, history>>

----------------------------------------------------------------------------
Init ==
  /\ where = [o \in Objects |-> IF o = Target THEN "source" ELSE "elsewhere"]
  /\ data = [o \in Objects |-> 0] /\ changed = [o \in Objects |-> 0]
  /\ evidence = TRUE /\ cancelled = FALSE /\ races = 0 /\ attempted = FALSE
  /\ pc = [c \in Callers |-> "start"]
  /\ answer = [c \in Callers |-> NoAnswer]
  /\ expected = [c \in Callers |-> 0]
  /\ outcome = [c \in Callers |-> "none"]
  /\ trail = [c \in Callers |-> "none"]
  /\ policy = [c \in Callers |-> FALSE]
  /\ restoreFailed = [c \in Callers |-> FALSE]
  /\ moved = [c \in Callers |-> "nothing"]
  /\ calls = {} /\ disturbed = FALSE /\ places = {}

Step(c) ==
  \/ Submit(c) \/ EnterPolicy(c) \/ Refuse(c) \/ Proceed(c) \/ NativeCall(c)
  \/ Interpret(c) \/ VerifyOpen(c) \/ VerifyMore(c) \/ VerifyFails(c)
  \/ RestorePolicy(c)

Next ==
  \/ \E c \in Callers : Step(c)
  \/ \E o \in Objects : Unlink(o) \/ Modify(o) \/ \E p \in Places : Rename(o, p)
  \/ LoseEvidence \/ Cancel

Spec == Init /\ [][Next]_vars

----------------------------------------------------------------------------
(* Properties.                                                             *)

\* Code: "This is the ONLY mutation attempt; no fallback": however many
\* threads submit a candidate, Foundation is called at most once.
OneMutation == Cardinality(calls) <= 1

\* Code: Refused and Failed promise that this submission moved nothing, and
\* whatever Foundation moved is disclosed as Moved or Unknown.
DenialsAreHonest ==
  \A c \in Callers :
    /\ outcome[c] = "Refused" => c \notin calls
    /\ outcome[c] = "Failed" => moved[c] = "nothing"

\* Code: verify_destination compares identities, so if the path was replaced
\* just before the call, the replacement is never reported as the approved
\* object moved (another process rearranging the Trash itself aside).
OnlyTheApprovedIsMoved ==
  \A c \in Callers : outcome[c] = "Moved" /\ ~disturbed =>
    moved[c] \in {Target, "nothing"}

=============================================================================
