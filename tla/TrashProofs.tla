---------------------------- MODULE TrashProofs ----------------------------
(***************************************************************************)
(* The ways to the Trash keep their promises, for all inputs that          *)
(* InputsAreSound admits: any number of threads, sessions, objects, items, *)
(* cases, requests and workers.                                            *)
(*                                                                         *)
(* There is one inductive invariant for each component.                    *)
(***************************************************************************)
EXTENDS MCTrash, FiniteSetTheorems, TLAPS

----------------------------------------------------------------------------
(* The native boundary.  Besides the properties, a submission that is past *)
(* attempted.swap is the only one, and while nobody disturbed the          *)
(* destination, a replacement that Foundation moved keeps the approved     *)
(* object out of it.                                                       *)

BeforeCall == {"start", "policy", "prepare", "pass1", "pass2", "guard", "ask", "call"}
Verifying == {"open", "held", "gone", "again"}
Labels == BeforeCall \cup Verifying \cup {"interpret", "restore", "done"}
Answer == [yes : BOOLEAN, error : BOOLEAN, url : {"none", "unusable"} \cup Native!Places]

NativeTypeOK ==
  /\ where \in [Objects -> Native!Places \cup {"gone"}]
  /\ pc \in [Callers -> Labels] /\ answer \in [Callers -> Answer]
  /\ outcome \in [Callers -> {"none", "Refused", "Failed", "Unknown", "Moved"}]
  /\ moved \in [Callers -> Objects \cup {"nothing"}]
  /\ calls \subseteq Callers

\* A submission past attempted.swap, or one that reached Foundation, is the
\* only one there is.
Busy(c) == pc[c] \notin {"start", "done"} \/ c \in calls
OneSubmission ==
  /\ \A c \in Callers : Busy(c) => attempted
  /\ \A c, d \in Callers : Busy(c) /\ Busy(d) => c = d

\* What a submission knows of its call.
CallIsKnown ==
  \A c \in Callers :
    /\ pc[c] \in BeforeCall => c \notin calls /\ outcome[c] = "none"
    /\ pc[c] \in Verifying \cup {"interpret"} => c \in calls
    /\ c \in calls => outcome[c] # "Refused"
    /\ moved[c] # "nothing" => c \in calls
    /\ moved[c] # "nothing" => /\ answer[c].yes \/ answer[c].url # "none"
                               /\ answer[c].url \in {"none", "unusable", "trash"}
    /\ outcome[c] = "Failed" => moved[c] = "nothing"
    /\ pc[c] \in Verifying => answer[c].url \in Native!Places

\* While the destination is undisturbed, a replacement that was moved keeps
\* the approved object out of the Trash, and is not taken for it.
ReplacementIsSeen ==
  \A c \in Callers :
    moved[c] \notin {Target, "nothing"} /\ ~disturbed =>
      where[Target] # "trash" /\ outcome[c] # "Moved"

NativeInv == NativeTypeOK /\ OneSubmission /\ CallIsKnown /\ ReplacementIsSeen

----------------------------------------------------------------------------
(* Every step keeps the invariant.                                         *)

\* A step of a submission that is not its call.
LEMMA ThreadStep ==
  ASSUME NativeInv, NEW c \in Callers,
         UNCHANGED <<where, answer, moved, calls, disturbed>>,
         pc' \in [Callers -> Labels],
         outcome' \in [Callers -> {"none", "Refused", "Failed", "Unknown", "Moved"}],
         \A d \in Callers \ {c} : pc'[d] = pc[d] /\ outcome'[d] = outcome[d],
         attempted => attempted',
         pc'[c] \notin {"start", "done"} => attempted' /\ (pc[c] \notin {"start", "done"} \/ ~attempted),
         pc'[c] \in BeforeCall => pc[c] \in BeforeCall /\ outcome'[c] = "none",
         pc'[c] \in Verifying \cup {"interpret"} => c \in calls,
         outcome'[c] = "Refused" => c \notin calls,
         outcome'[c] = "Failed" => moved[c] = "nothing",
         pc'[c] \in Verifying => answer[c].url \in Native!Places,
         outcome'[c] = "Moved" => \/ outcome[c] = "Moved"
                                  \/ where[Target] = answer[c].url /\ answer[c].url \in Native!Places
  PROVE  NativeInv'
<1>1. NativeTypeOK'
  BY DEF NativeInv, NativeTypeOK
<1>2. OneSubmission'
  <2>1. ASSUME NEW d \in Callers, Busy(d)'
        PROVE  attempted' /\ (Busy(d) \/ (d = c /\ ~attempted))
    BY <2>1 DEF NativeInv, OneSubmission, Busy
  <2>2. ASSUME NEW d \in Callers, NEW e \in Callers, Busy(d)', Busy(e)'
        PROVE  d = e
    BY <2>1, <2>2 DEF NativeInv, OneSubmission
  <2> QED
    BY <2>1, <2>2 DEF OneSubmission
<1>3. CallIsKnown'
  BY DEF NativeInv, CallIsKnown
<1>4. ReplacementIsSeen'
  <2> SUFFICES ASSUME NEW d \in Callers, moved[d] \notin {Target, "nothing"}, ~disturbed
               PROVE  where[Target] # "trash" /\ outcome'[d] # "Moved"
    BY DEF ReplacementIsSeen
  <2>1. where[Target] # "trash" /\ outcome[d] # "Moved" /\ answer[d].url \in {"none", "unusable", "trash"}
    BY DEF NativeInv, ReplacementIsSeen, CallIsKnown
  <2>2. CASE d # c
    BY <2>1, <2>2
  <2>3. CASE d = c
    BY <2>1, <2>3 DEF Native!Places
  <2> QED
    BY <2>2, <2>3
<1> QED
  BY <1>1, <1>2, <1>3, <1>4 DEF NativeInv

LEMMA SubmitInv == ASSUME NativeInv, NEW c \in Callers, Native!Submit(c) PROVE NativeInv'
<1>1. /\ UNCHANGED <<where, answer, moved, calls, disturbed>> /\ attempted' /\ pc[c] = "start"
      /\ pc' \in [Callers -> Labels]
      /\ outcome' \in [Callers -> {"none", "Refused", "Failed", "Unknown", "Moved"}]
      /\ \A d \in Callers \ {c} : pc'[d] = pc[d] /\ outcome'[d] = outcome[d]
      /\ \/ attempted /\ pc'[c] = "done" /\ outcome'[c] = "Refused"
         \/ ~attempted /\ pc'[c] = "policy" /\ outcome'[c] = outcome[c]
  BY DEF Native!Submit, Native!Goto, NativeInv, NativeTypeOK, Labels, BeforeCall, Native!world, Native!history
<1>2. c \notin calls /\ outcome[c] = "none"
  BY <1>1 DEF NativeInv, CallIsKnown, BeforeCall
<1> QED
  BY <1>1, <1>2, ThreadStep DEF BeforeCall, Verifying

LEMMA EarlyInv ==
  ASSUME NativeInv, NEW c \in Callers, Native!EnterPolicy(c) \/ Native!Refuse(c) \/ Native!Proceed(c)
  PROVE  NativeInv'
<1>1. /\ UNCHANGED <<where, answer, moved, calls, disturbed, attempted>>
      /\ pc[c] \in BeforeCall \ {"start"}
      /\ pc' \in [Callers -> Labels]
      /\ outcome' \in [Callers -> {"none", "Refused", "Failed", "Unknown", "Moved"}]
      /\ \A d \in Callers \ {c} : pc'[d] = pc[d] /\ outcome'[d] = outcome[d]
      /\ \/ pc'[c] \in BeforeCall \ {"start"} /\ outcome'[c] = outcome[c]
         \/ pc'[c] \in {"done", "restore"} /\ outcome'[c] = "Refused"
  <2>1. CASE Native!EnterPolicy(c)
    BY <2>1 DEF Native!EnterPolicy, Native!Goto, NativeInv, NativeTypeOK, Labels, BeforeCall, Native!world, Native!history
  <2>2. CASE Native!Refuse(c)
    BY <2>2 DEF Native!Refuse, Native!Conclude, Native!Goto, NativeInv, NativeTypeOK, Labels, BeforeCall, Native!world, Native!history
  <2>3. CASE Native!Proceed(c)
    BY <2>3 DEF Native!Proceed, Native!Goto, NativeInv, NativeTypeOK, Labels, BeforeCall, Native!world, Native!history
  <2> QED
    BY <2>1, <2>2, <2>3
<1>2. c \notin calls /\ outcome[c] = "none" /\ attempted
  BY <1>1 DEF NativeInv, CallIsKnown, OneSubmission, Busy, BeforeCall
<1> QED
  BY <1>1, <1>2, ThreadStep DEF BeforeCall, Verifying

LEMMA LateInv ==
  ASSUME NativeInv, NEW c \in Callers, Native!VerifyOpen(c) \/ Native!VerifyMore(c) \/ Native!VerifyFails(c)
  PROVE  NativeInv'
<1>1. /\ UNCHANGED <<where, answer, moved, calls, disturbed, attempted>>
      /\ pc[c] \in Verifying
      /\ pc' \in [Callers -> Labels]
      /\ outcome' \in [Callers -> {"none", "Refused", "Failed", "Unknown", "Moved"}]
      /\ \A d \in Callers \ {c} : pc'[d] = pc[d] /\ outcome'[d] = outcome[d]
      /\ \/ pc'[c] \in Verifying /\ outcome'[c] = outcome[c]
         \/ pc'[c] = "restore" /\ outcome'[c] = "Unknown"
         \/ pc'[c] = "restore" /\ outcome'[c] = "Moved" /\ where[Target] = answer[c].url
  <2>1. CASE Native!VerifyOpen(c)
    BY <2>1 DEF Native!VerifyOpen, Native!Goto, NativeInv, NativeTypeOK, Labels, Verifying, Native!world, Native!history
  <2>2. CASE Native!VerifyMore(c)
    BY <2>2 DEF Native!VerifyMore, Native!FoundAt, Native!Conclude, Native!Goto, NativeInv, NativeTypeOK, Labels, Verifying, Native!world, Native!history
  <2>3. CASE Native!VerifyFails(c)
    BY <2>3 DEF Native!VerifyFails, Native!Conclude, Native!Goto, NativeInv, NativeTypeOK, Labels, Verifying, Native!world, Native!history
  <2> QED
    BY <2>1, <2>2, <2>3
<1>2. /\ c \in calls /\ attempted /\ answer[c].url \in Native!Places /\ outcome[c] # "Refused"
      /\ outcome[c] = "Failed" => moved[c] = "nothing"
  BY <1>1 DEF NativeInv, CallIsKnown, OneSubmission, Busy
<1> QED
  BY <1>1, <1>2, ThreadStep DEF BeforeCall, Verifying

LEMMA InterpretInv == ASSUME NativeInv, NEW c \in Callers, Native!Interpret(c) PROVE NativeInv'
<1>1. /\ UNCHANGED <<where, answer, moved, calls, disturbed, attempted>>
      /\ pc[c] = "interpret" /\ answer[c] \in Answer
      /\ IF Native!Classify(answer[c]) = "Destination"
           THEN Native!Goto(c, "open") /\ UNCHANGED outcome
           ELSE Native!Conclude(c, Native!Classify(answer[c]))
  BY DEF Native!Interpret, NativeInv, NativeTypeOK, Native!world, Native!history
<1>2. /\ Native!Classify(answer[c]) \in {"Failed", "Unknown", "Destination"}
      /\ Native!Classify(answer[c]) = "Failed" => ~answer[c].yes /\ answer[c].url = "none"
      /\ Native!Classify(answer[c]) = "Destination" => answer[c].url \in Native!Places
  BY <1>1 DEF Native!Classify, Answer
<1>3. /\ pc' \in [Callers -> Labels]
      /\ outcome' \in [Callers -> {"none", "Refused", "Failed", "Unknown", "Moved"}]
      /\ \A d \in Callers \ {c} : pc'[d] = pc[d] /\ outcome'[d] = outcome[d]
      /\ \/ pc'[c] = "open" /\ outcome'[c] = outcome[c] /\ answer[c].url \in Native!Places
         \/ pc'[c] = "restore" /\ outcome'[c] = "Unknown"
         \/ pc'[c] = "restore" /\ outcome'[c] = "Failed" /\ ~answer[c].yes /\ answer[c].url = "none"
  BY <1>1, <1>2 DEF Native!Conclude, Native!Goto, NativeInv, NativeTypeOK, Labels, Verifying
<1>4. /\ c \in calls /\ attempted /\ outcome[c] # "Refused"
      /\ outcome[c] = "Failed" => moved[c] = "nothing"
      /\ moved[c] # "nothing" => answer[c].yes \/ answer[c].url # "none"
  BY <1>1 DEF NativeInv, CallIsKnown, OneSubmission, Busy
<1> QED
  BY <1>1, <1>3, <1>4, ThreadStep DEF BeforeCall, Verifying

LEMMA RestoreInv == ASSUME NativeInv, NEW c \in Callers, Native!RestorePolicy(c) PROVE NativeInv'
<1>1. /\ UNCHANGED <<where, answer, moved, calls, disturbed, attempted>>
      /\ pc[c] = "restore"
      /\ pc' \in [Callers -> Labels]
      /\ outcome' \in [Callers -> {"none", "Refused", "Failed", "Unknown", "Moved"}]
      /\ \A d \in Callers \ {c} : pc'[d] = pc[d] /\ outcome'[d] = outcome[d]
      /\ pc'[c] = "done" /\ outcome'[c] \in {outcome[c], "Unknown"}
  BY DEF Native!RestorePolicy, Native!Goto, NativeInv, NativeTypeOK, Labels, Native!world, Native!history
<1>2. (c \in calls => outcome[c] # "Refused") /\ (outcome[c] = "Failed" => moved[c] = "nothing")
  BY DEF NativeInv, CallIsKnown
<1> QED
  BY <1>1, <1>2, ThreadStep DEF BeforeCall, Verifying

\* The one Foundation call: what it moves was at the source, and the Trash had
\* no such name before.
LEMMA NativeCallInv ==
  ASSUME Native!NativeAssumption, NativeInv, NEW c \in Callers, Native!NativeCall(c)
  PROVE  NativeInv'
<1>1. /\ pc[c] = "call" /\ pc' = [pc EXCEPT ![c] = "interpret"] /\ calls' = calls \cup {c}
      /\ UNCHANGED <<outcome, disturbed, attempted>>
  BY DEF Native!NativeCall, Native!Goto
<1>2. /\ c \notin calls /\ outcome[c] = "none" /\ attempted /\ Busy(c) /\ moved[c] = "nothing"
      /\ \A d \in Callers : Busy(d) => d = c
  BY <1>1 DEF NativeInv, CallIsKnown, OneSubmission, Busy, BeforeCall
<1>3. /\ pc' \in [Callers -> Labels] /\ pc'[c] = "interpret"
      /\ \A d \in Callers \ {c} : pc'[d] = pc[d]
  BY <1>1 DEF NativeInv, NativeTypeOK, Labels
<1>4. PICK a : /\ answer' = [answer EXCEPT ![c] = a]
               /\ \/ a \in Native!Answers(FALSE) /\ UNCHANGED <<where, moved>>
                  \/ /\ a \in Native!Answers(TRUE) /\ Native!At("trash") = {}
                     /\ \E o \in Native!At("source") :
                          /\ where' = [where EXCEPT ![o] = "trash"]
                          /\ moved' = [moved EXCEPT ![c] = o]
  BY DEF Native!NativeCall, Native!FoundationMoves, Native!FoundationDeclines
<1>5. a \in Answer
  BY <1>4 DEF Native!Answers, Answer
<1>6. /\ answer' \in [Callers -> Answer] /\ answer'[c] = a
      /\ \A d \in Callers \ {c} : answer'[d] = answer[d]
  BY <1>4, <1>5 DEF NativeInv, NativeTypeOK
<1>7. /\ where' \in [Objects -> Native!Places \cup {"gone"}]
      /\ moved' \in [Callers -> Objects \cup {"nothing"}]
      /\ \A d \in Callers \ {c} : moved'[d] = moved[d]
      /\ moved'[c] # "nothing" => a \in Native!Answers(TRUE)
      /\ moved'[c] \notin {Target, "nothing"} => where'[Target] # "trash"
  <2>1. CASE UNCHANGED <<where, moved>>
    BY <1>2, <2>1 DEF NativeInv, NativeTypeOK
  <2>2. CASE a \in Native!Answers(TRUE) /\ Native!At("trash") = {}
             /\ \E o \in Native!At("source") : /\ where' = [where EXCEPT ![o] = "trash"]
                                        /\ moved' = [moved EXCEPT ![c] = o]
    <3>1. PICK o \in Native!At("source") : /\ where' = [where EXCEPT ![o] = "trash"]
                                    /\ moved' = [moved EXCEPT ![c] = o]
      BY <2>2
    <3>2. o \in Objects /\ where[Target] # "trash" /\ Target \in Objects
      BY <2>2 DEF Native!At, Native!NativeAssumption
    <3> QED
      BY <2>2, <3>1, <3>2 DEF NativeInv, NativeTypeOK, Native!Places
  <2> QED
    BY <1>4, <2>1, <2>2
<1>8. a \in Native!Answers(TRUE) => (a.yes \/ a.url # "none") /\ a.url \in {"none", "unusable", "trash"}
  BY DEF Native!Answers
<1>9. NativeTypeOK'
  BY <1>1, <1>3, <1>6, <1>7 DEF NativeInv, NativeTypeOK
<1>10. OneSubmission'
  <2>1. \A d \in Callers : Busy(d)' => d = c
    BY <1>1, <1>2, <1>3 DEF Busy
  <2> QED
    BY <1>1, <1>2, <2>1 DEF OneSubmission
<1>11. CallIsKnown'
  <2> SUFFICES ASSUME NEW d \in Callers
               PROVE  /\ pc'[d] \in BeforeCall => d \notin calls' /\ outcome'[d] = "none"
                      /\ pc'[d] \in Verifying \cup {"interpret"} => d \in calls'
                      /\ d \in calls' => outcome'[d] # "Refused"
                      /\ moved'[d] # "nothing" => d \in calls'
                      /\ moved'[d] # "nothing" => /\ answer'[d].yes \/ answer'[d].url # "none"
                                                  /\ answer'[d].url \in {"none", "unusable", "trash"}
                      /\ outcome'[d] = "Failed" => moved'[d] = "nothing"
                      /\ pc'[d] \in Verifying => answer'[d].url \in Native!Places
    BY DEF CallIsKnown
  <2>1. CASE d # c
    BY <1>1, <1>3, <1>6, <1>7, <2>1 DEF NativeInv, CallIsKnown
  <2>2. CASE d = c
    BY <1>1, <1>2, <1>3, <1>6, <1>7, <1>8, <2>2 DEF BeforeCall, Verifying
  <2> QED
    BY <2>1, <2>2
<1>12. ReplacementIsSeen'
  <2> SUFFICES ASSUME NEW d \in Callers, moved'[d] \notin {Target, "nothing"}, ~disturbed'
               PROVE  where'[Target] # "trash" /\ outcome'[d] # "Moved"
    BY DEF ReplacementIsSeen
  <2>1. d = c
    BY <1>2, <1>7 DEF NativeInv, CallIsKnown, Busy
  <2> QED
    BY <1>1, <1>2, <1>7, <2>1
<1> QED
  BY <1>9, <1>10, <1>11, <1>12 DEF NativeInv

\* Other processes may disturb the destination, and then it is known.
LEMMA OthersInv ==
  ASSUME Native!NativeAssumption, NativeInv,
         \/ \E o \in Objects : Native!Unlink(o) \/ Native!Modify(o) \/ \E p \in Native!Places : Native!Rename(o, p)
         \/ Native!LoseEvidence \/ Native!Cancel \/ UNCHANGED Native!vars
  PROVE  NativeInv'
<1>1. UNCHANGED <<pc, answer, outcome, moved, calls, attempted>>
  BY DEF Native!Unlink, Native!Modify, Native!Rename, Native!LoseEvidence, Native!Cancel, Native!vars, Native!threads, Native!history
<1>2. /\ where' \in [Objects -> Native!Places \cup {"gone"}]
      /\ ~disturbed' /\ calls # {} => ~disturbed /\ (where'[Target] = "trash" => where[Target] = "trash")
  <2>1. CASE where' = where /\ disturbed' = disturbed
    BY <2>1 DEF NativeInv, NativeTypeOK
  <2>2. ASSUME NEW o \in Objects, NEW p \in Native!Places, Native!Rename(o, p)
        PROVE  /\ where' \in [Objects -> Native!Places \cup {"gone"}]
               /\ ~disturbed' /\ calls # {} =>
                    ~disturbed /\ (where'[Target] = "trash" => where[Target] = "trash")
    <3>1. /\ where' = [where EXCEPT ![o] = p]
          /\ disturbed' = (disturbed \/ (calls # {} /\ "trash" \in {p, where[o]}))
      BY <2>2 DEF Native!Rename
    <3>2. where' \in [Objects -> Native!Places \cup {"gone"}]
      BY <3>1 DEF NativeInv, NativeTypeOK
    <3>3. ~disturbed' /\ calls # {} => ~disturbed /\ p # "trash"
      BY <3>1
    <3>4. where'[Target] = "trash" => where[Target] = "trash" \/ p = "trash"
      BY <3>1 DEF NativeInv, NativeTypeOK, Native!NativeAssumption
    <3> QED
      BY <3>2, <3>3, <3>4
  <2>3. ASSUME NEW o \in Objects, Native!Unlink(o)
        PROVE  /\ where' \in [Objects -> Native!Places \cup {"gone"}]
               /\ ~disturbed' /\ calls # {} =>
                    ~disturbed /\ (where'[Target] = "trash" => where[Target] = "trash")
    <3>1. /\ where' = [where EXCEPT ![o] = "gone"]
          /\ disturbed' = (disturbed \/ (calls # {} /\ where[o] = "trash"))
      BY <2>3 DEF Native!Unlink
    <3>2. where' \in [Objects -> Native!Places \cup {"gone"}]
      BY <3>1 DEF NativeInv, NativeTypeOK
    <3>3. ~disturbed' => ~disturbed
      BY <3>1
    <3>4. where'[Target] = "trash" => where[Target] = "trash"
      BY <3>1 DEF NativeInv, NativeTypeOK, Native!NativeAssumption
    <3> QED
      BY <3>2, <3>3, <3>4
  <2>4. ASSUME ~(where' = where /\ disturbed' = disturbed)
        PROVE  \E o \in Objects : Native!Unlink(o) \/ \E p \in Native!Places : Native!Rename(o, p)
    BY <2>4 DEF Native!Modify, Native!LoseEvidence, Native!Cancel, Native!vars, Native!world, Native!history
  <2> QED
    BY <2>1, <2>2, <2>3, <2>4
<1>3. NativeTypeOK'
  BY <1>1, <1>2 DEF NativeInv, NativeTypeOK
<1>4. OneSubmission' /\ CallIsKnown'
  BY <1>1 DEF NativeInv, OneSubmission, Busy, CallIsKnown
<1>5. ReplacementIsSeen'
  <2> SUFFICES ASSUME NEW d \in Callers, moved[d] \notin {Target, "nothing"}, ~disturbed'
               PROVE  where'[Target] # "trash" /\ outcome'[d] # "Moved"
    BY <1>1 DEF ReplacementIsSeen
  <2>1. calls # {}
    BY DEF NativeInv, CallIsKnown
  <2> QED
    BY <1>1, <1>2, <2>1 DEF NativeInv, ReplacementIsSeen
<1> QED
  BY <1>3, <1>4, <1>5 DEF NativeInv

LEMMA NativeInitInv == ASSUME Native!NativeAssumption, Native!Init PROVE NativeInv
<1>1. NativeTypeOK
  BY DEF Native!Init, NativeTypeOK, Native!Places, Labels, BeforeCall, Answer, Native!NoAnswer, Native!NativeAssumption
<1>2. OneSubmission /\ CallIsKnown /\ ReplacementIsSeen
  BY DEF Native!Init, OneSubmission, Busy, CallIsKnown, ReplacementIsSeen, BeforeCall, Verifying
<1> QED
  BY <1>1, <1>2 DEF NativeInv

LEMMA NativeNextInv == ASSUME Native!NativeAssumption, NativeInv, Native!Next PROVE NativeInv'
<1>1. ASSUME NEW c \in Callers, Native!Step(c) PROVE NativeInv'
  BY <1>1, SubmitInv, EarlyInv, NativeCallInv, InterpretInv, LateInv, RestoreInv DEF Native!Step
<1> QED
  BY <1>1, OthersInv DEF Native!Next

\* What the invariant says of the properties.
LEMMA NativeCounts == \A S : Native!Cardinality(S) = Cardinality(S)
  BY DEF Native!Cardinality, Cardinality

LEMMA NativeInvImplies ==
  ASSUME NativeInv
  PROVE  Native!OneMutation /\ Native!DenialsAreHonest /\ Native!OnlyTheApprovedIsMoved
<1>1. Native!OneMutation
  <2>1. \A c, d \in calls : c = d
    BY DEF NativeInv, NativeTypeOK, OneSubmission, Busy
  <2>2. CASE calls = {}
    BY <2>2, NativeCounts, FS_EmptySet DEF Native!OneMutation
  <2>3. CASE calls # {}
    <3>1. PICK c \in calls : TRUE
      BY <2>3
    <3>2. calls = {c} /\ Cardinality({c}) = 1
      BY <2>1, <3>1, FS_Singleton
    <3> QED
      BY <3>2, NativeCounts DEF Native!OneMutation
  <2> QED
    BY <2>2, <2>3
<1>2. Native!DenialsAreHonest
  BY DEF NativeInv, CallIsKnown, Native!DenialsAreHonest
<1>3. Native!OnlyTheApprovedIsMoved
  BY DEF NativeInv, ReplacementIsSeen, Native!OnlyTheApprovedIsMoved
<1> QED
  BY <1>1, <1>2, <1>3

----------------------------------------------------------------------------
(* Emptying the Trash.  The invariant says what a session may rely on at   *)
(* each of its calls, what the guard store holds for every event that was  *)
(* sent and what each entry of the history that may survive tells.         *)

Asking == {"publish_guard", "publish_history", "permit", "active", "claimed"}
Unsent == {"none", "preview", "lock_guard", "lock_history"} \cup Asking
Replying == {"waiting", "replied"}
Ending == {"publish_outcome", "clear"}
Phases == Unsent \cup Replying \cup Ending \cup {"done", "invalid"}

Observed == [Retained -> Empty!Observation \cup {"Unlisted"}]
EmptyRecords ==
  [state : {"None", "Started", "Finished"}, outcome : Empty!FinderOutcome \cup {"None"},
   aggregate : {"None", "Cancelled", "Partial", "Succeeded", "Unknown"}, obs : Observed]
EmptyEntries == [rec : EmptyRecords, marker : BOOLEAN]

EmptyTypeOK ==
  /\ phase \in [Emptiers -> Phases]
  /\ reply \in [Emptiers -> Empty!FinderOutcome] /\ record \in [Emptiers -> EmptyRecords]
  /\ holder \in [Empty!Stores -> Emptiers \cup {Empty!Nobody}]
  /\ disk \in [Empty!Stores -> [Emptiers -> EmptyEntries]]
  /\ may \in [Empty!Stores -> [Emptiers -> SUBSET EmptyEntries]]
  /\ trash \in [Retained -> {"same", "gone", "other"}] /\ left \in [Emptiers -> SUBSET Retained]
  /\ running \subseteq sent /\ sent \subseteq Emptiers

\* What a finished record tells about operation s is so.
Tells(s, r) ==
  /\ r.outcome = "NotDispatched" => s \notin sent
  /\ ~Empty!Unresolved(r) => s \notin running
  /\ \A i \in Retained : r.obs[i] = "Absent" => s \in sent /\ i \in left[s]
  /\ r.aggregate = "Succeeded" =>
       /\ Empty!Listed(r.obs) # {}
       /\ \A i \in Empty!Listed(r.obs) : r.obs[i] = "Absent"

\* The locks a session holds, and what they keep as it is.
Excludes(s) ==
  /\ phase[s] \in Asking \cup Replying \cup Ending => \A x \in Empty!Stores : holder[x] = s
  /\ phase[s] = "lock_history" => holder["guard"] = s
  /\ phase[s] \in Asking => sent \subseteq settled
  /\ phase[s] \in Unsent => s \notin sent
  /\ phase[s] \in Unsent \cup Replying => s \notin settled

\* What it carries from call to call.
Reckons(s) ==
  /\ phase[s] \in (Unsent \ {"none"}) \cup Replying => record[s].state = "Started"
  /\ phase[s] \in (Unsent \ {"none", "preview"}) \cup Replying =>
       \A i \in Empty!Known(s) : trash[i] = "same" \/ i \in left[s]
  /\ phase[s] = "waiting" => s \in sent
  /\ phase[s] = "replied" => /\ reply[s] = "NotDispatched" <=> s \notin sent
                             /\ s \in running => reply[s] \in {"TimedOut", "TransportUnknown"}
  /\ phase[s] \in Ending => /\ record[s].state = "Finished" /\ record[s].aggregate # "None"
                            /\ Tells(s, record[s])
  /\ phase[s] = "clear" => s \in settled
  /\ phase[s] # "invalid"

\* What it has laid down.
Lays(s) ==
  /\ phase[s] \in (Asking \ {"publish_guard"}) \cup Replying \cup Ending =>
       Empty!Empty \notin may["guard"][s]
  /\ phase[s] \in Unsent \cup Replying => \A e \in may["history"][s] : e.rec.state # "Finished"

EventsAreSettled ==
  /\ \A s \in running : s \notin settled
  /\ \A s, t \in running : s = t

EntriesTell ==
  \A s \in Emptiers :
    /\ \A x \in Empty!Stores : disk[x][s] \in may[x][s]
    /\ \A e \in may["history"][s] :
         /\ e.rec.state = "None" => e.rec = Empty!NoRecord
         /\ e.rec.state = "Finished" => Tells(s, e.rec)

EmptyInv ==
  /\ EmptyTypeOK
  /\ EventsAreSettled
  /\ EntriesTell
  /\ Empty!EventIsGuarded
  /\ \A s \in Emptiers : Excludes(s) /\ Reckons(s) /\ Lays(s)

----------------------------------------------------------------------------
(* A step of one session and the others.                                   *)

EmptyHolds(s) == Excludes(s) /\ Reckons(s) /\ Lays(s)

\* All that a step of session s may do to what concerns another session.
SparesOthers(s) ==
  /\ \A t \in Emptiers \ {s} :
       /\ phase'[t] = phase[t] /\ record'[t] = record[t] /\ reply'[t] = reply[t]
       /\ left'[t] = left[t] /\ (t \in running' <=> t \in running) /\ (t \in sent' <=> t \in sent)
       /\ \A x \in Empty!Stores : /\ disk'[x][t] = disk[x][t] /\ may'[x][t] = may[x][t]
                                  /\ holder[x] = t => holder'[x] = t
  /\ trash' = trash /\ settled \subseteq settled' /\ settled' \subseteq settled \cup {s}
  /\ sent' = sent \/ phase[s] = "claimed"

LEMMA OtherEmptiers ==
  ASSUME EmptyInv, NEW s \in Emptiers, SparesOthers(s), NEW t \in Emptiers, t # s
  PROVE  /\ EmptyHolds(t)'
         /\ \A x \in Empty!Stores : disk'[x][t] \in may'[x][t]
         /\ \A e \in may'["history"][t] : /\ e.rec.state = "None" => e.rec = Empty!NoRecord
                                          /\ e.rec.state = "Finished" => Tells(t, e.rec)'
         /\ t \in sent' \ settled' => Empty!Empty \notin may'["guard"][t]
<1>1. /\ phase'[t] = phase[t] /\ record'[t] = record[t] /\ reply'[t] = reply[t]
      /\ left'[t] = left[t] /\ (t \in running' <=> t \in running) /\ (t \in sent' <=> t \in sent)
      /\ \A x \in Empty!Stores : /\ disk'[x][t] = disk[x][t] /\ may'[x][t] = may[x][t]
                                 /\ holder[x] = t => holder'[x] = t
      /\ trash' = trash /\ settled \subseteq settled' /\ (t \in settled' => t \in settled)
      /\ sent' = sent \/ phase[s] = "claimed"
  BY DEF SparesOthers
<1>2. Excludes(t) /\ Reckons(t) /\ Lays(t) /\ Excludes(s)
  BY DEF EmptyInv
<1>3. "guard" \in Empty!Stores /\ "history" \in Empty!Stores
  BY DEF Empty!Stores
<1>4. \A r : Tells(t, r) => Tells(t, r)'
  BY <1>1 DEF Tells
<1>5. phase[t] \in Asking => sent' = sent
  <2>1. phase[t] \in Asking /\ phase[s] = "claimed" => FALSE
    BY <1>2, <1>3 DEF Excludes, Asking
  <2> QED
    BY <1>1, <2>1
<1>6. Excludes(t)'
  BY <1>1, <1>2, <1>3, <1>5 DEF Excludes
<1>7. Reckons(t)'
  BY <1>1, <1>2, <1>4 DEF Reckons, Empty!Known
<1>8. Lays(t)'
  BY <1>1, <1>2, <1>3 DEF Lays
<1>9. \A e \in may'["history"][t] : /\ e.rec.state = "None" => e.rec = Empty!NoRecord
                                    /\ e.rec.state = "Finished" => Tells(t, e.rec)'
  BY <1>1, <1>3, <1>4 DEF EmptyInv, EntriesTell
<1>10. t \in sent' \ settled' => Empty!Empty \notin may'["guard"][t]
  BY <1>1, <1>3 DEF EmptyInv, Empty!EventIsGuarded
<1>11. \A x \in Empty!Stores : disk'[x][t] \in may'[x][t]
  BY <1>1 DEF EmptyInv, EntriesTell
<1> QED
  BY <1>6, <1>7, <1>8, <1>9, <1>10, <1>11 DEF EmptyHolds

\* What remains to be shown of a step of session s.
LEMMA EmptierKeeps ==
  ASSUME EmptyInv, NEW s \in Emptiers, SparesOthers(s), EmptyTypeOK', EmptyHolds(s)',
         \A x \in Empty!Stores : disk'[x][s] \in may'[x][s],
         \A e \in may'["history"][s] : /\ e.rec.state = "None" => e.rec = Empty!NoRecord
                                       /\ e.rec.state = "Finished" => Tells(s, e.rec)',
         s \in sent' \ settled' => Empty!Empty \notin may'["guard"][s],
         EventsAreSettled'
  PROVE  EmptyInv'
<1>1. EntriesTell'
  BY OtherEmptiers DEF EntriesTell
<1>2. Empty!EventIsGuarded'
  <2> SUFFICES ASSUME NEW t \in sent' \ settled' PROVE (Empty!Empty \notin may["guard"][t])'
    BY DEF Empty!EventIsGuarded
  <2>1. t \in Emptiers
    BY DEF EmptyTypeOK
  <2> QED
    BY <2>1, OtherEmptiers
<1>3. \A t \in Emptiers : EmptyHolds(t)'
  BY OtherEmptiers
<1> QED
  BY <1>1, <1>2, <1>3 DEF EmptyInv, EmptyHolds

\* The same for a step that leaves the stores and the events alone.
LEMMA QuietKeeps ==
  ASSUME EmptyInv, NEW s \in Emptiers, SparesOthers(s), EmptyTypeOK', EmptyHolds(s)',
         UNCHANGED <<disk, may, sent, running, settled>>,
         left'[s] = left[s] \/ phase[s] = "preview"
  PROVE  EmptyInv'
<1>1. "guard" \in Empty!Stores /\ "history" \in Empty!Stores
  BY DEF Empty!Stores
<1>2. ASSUME NEW e \in may["history"][s]
      PROVE  /\ e.rec.state = "None" => e.rec = Empty!NoRecord
             /\ e.rec.state = "Finished" => Tells(s, e.rec)'
  <2>1. /\ e.rec.state = "None" => e.rec = Empty!NoRecord
        /\ e.rec.state = "Finished" => Tells(s, e.rec)
        /\ phase[s] = "preview" => e.rec.state # "Finished"
    BY <1>2 DEF EmptyInv, EntriesTell, Lays, Unsent
  <2> QED
    BY <2>1 DEF Tells
<1>3. \A x \in Empty!Stores : disk'[x][s] \in may'[x][s]
  BY DEF EmptyInv, EntriesTell
<1>4. s \in sent' \ settled' => Empty!Empty \notin may'["guard"][s]
  BY DEF EmptyInv, Empty!EventIsGuarded
<1>5. EventsAreSettled'
  BY DEF EmptyInv, EventsAreSettled
<1> QED
  BY <1>2, <1>3, <1>4, <1>5, EmptierKeeps

\* The records that are made of one another are records.
LEMMA EmptyRecordTypes ==
  /\ Empty!NoRecord \in EmptyRecords /\ Empty!NoRecord.state = "None"
  /\ \A known \in SUBSET Retained :
       Empty!Intent(known) \in EmptyRecords /\ Empty!Intent(known).state = "Started"
  /\ \A r \in EmptyRecords, m \in BOOLEAN :
       /\ Empty!Entry(r, m) \in EmptyEntries
       /\ Empty!Entry(r, m).rec = r /\ Empty!Entry(r, m).marker = m
  /\ Empty!Empty \in EmptyEntries /\ Empty!Empty.rec = Empty!NoRecord
<1>1. Empty!NoRecord \in EmptyRecords /\ Empty!NoRecord.state = "None"
  BY DEF Empty!NoRecord, EmptyRecords, Observed
<1>2. ASSUME NEW known \in SUBSET Retained
      PROVE  Empty!Intent(known) \in EmptyRecords /\ Empty!Intent(known).state = "Started"
  BY DEF Empty!Intent, EmptyRecords, Observed, Empty!Observation
<1>3. \A r \in EmptyRecords, m \in BOOLEAN :
        /\ Empty!Entry(r, m) \in EmptyEntries
        /\ Empty!Entry(r, m).rec = r /\ Empty!Entry(r, m).marker = m
  BY DEF Empty!Entry, EmptyEntries
<1> QED
  BY <1>1, <1>2, <1>3 DEF Empty!Empty

\* A session that ends relies on nothing.
LEMMA EmptierCloses ==
  ASSUME EmptyInv, NEW s \in Emptiers, Empty!Close(s)
  PROVE  /\ phase' \in [Emptiers -> Phases] /\ reply' \in [Emptiers -> Empty!FinderOutcome]
         /\ record' \in [Emptiers -> EmptyRecords]
         /\ holder' \in [Empty!Stores -> Emptiers \cup {Empty!Nobody}]
         /\ \A t \in Emptiers \ {s} :
              /\ phase'[t] = phase[t] /\ record'[t] = record[t] /\ reply'[t] = reply[t]
              /\ \A x \in Empty!Stores : holder[x] = t => holder'[x] = t
         /\ EmptyHolds(s)'
<1>1. /\ phase' = [phase EXCEPT ![s] = "done"] /\ record' = [record EXCEPT ![s] = Empty!NoRecord]
      /\ reply' = [reply EXCEPT ![s] = "NotDispatched"]
      /\ holder' = [x \in Empty!Stores |-> IF holder[x] = s THEN Empty!Nobody ELSE holder[x]]
  BY DEF Empty!Close, Empty!Goto, Empty!Drop, Empty!Forget
<1>2. EmptyTypeOK
  BY DEF EmptyInv
<1>3. /\ phase' \in [Emptiers -> Phases] /\ reply' \in [Emptiers -> Empty!FinderOutcome]
      /\ record' \in [Emptiers -> EmptyRecords] /\ phase'[s] = "done"
  BY <1>1, <1>2, EmptyRecordTypes DEF EmptyTypeOK, Phases, Empty!FinderOutcome
<1>4. holder' \in [Empty!Stores -> Emptiers \cup {Empty!Nobody}]
  BY <1>1, <1>2 DEF EmptyTypeOK
<1>5. EmptyHolds(s)'
  BY <1>3 DEF EmptyHolds, Excludes, Reckons, Lays, Asking, Unsent, Replying, Ending
<1> QED
  BY <1>1, <1>2, <1>3, <1>4, <1>5 DEF EmptyTypeOK

LEMMA EmptierEnds ==
  ASSUME EmptyInv, NEW s \in Emptiers, Empty!Refuse(s) \/ Empty!SessionEnds(s)
  PROVE  EmptyInv'
<1>1. Empty!Close(s) /\ UNCHANGED <<disk, may, trash, running, sent, settled, left>>
  BY DEF Empty!Refuse, Empty!SessionEnds, Empty!world
<1>2. EmptyTypeOK'
  BY <1>1, EmptierCloses DEF EmptyInv, EmptyTypeOK
<1>3. SparesOthers(s)
  BY <1>1, EmptierCloses DEF SparesOthers
<1> QED
  BY <1>1, <1>2, <1>3, EmptierCloses, QuietKeeps

\* prepare() and the first look of begin().
LEMMA EmptierPrepares == ASSUME EmptyInv, NEW s \in Emptiers, Empty!Prepare(s) PROVE EmptyInv'
<1>1. /\ phase[s] = "none" /\ UNCHANGED <<reply, holder, disk, may, trash, running, sent, settled, left>>
      /\ \/ /\ phase' = [phase EXCEPT ![s] = "preview"]
            /\ \E known \in SUBSET {i \in Retained : trash[i] = "same"} :
                 record' = [record EXCEPT ![s] = Empty!Intent(known)]
         \/ phase' = [phase EXCEPT ![s] = "done"] /\ record' = record
  BY DEF Empty!Prepare, Empty!Goto, Empty!world
<1>2. EmptyTypeOK /\ EmptyHolds(s)
  BY DEF EmptyInv, EmptyHolds
<1>3. CASE phase' = [phase EXCEPT ![s] = "done"] /\ record' = record
  <2>1. EmptyTypeOK' /\ phase'[s] = "done"
    BY <1>1, <1>2, <1>3 DEF EmptyTypeOK, Phases
  <2>2. SparesOthers(s)
    BY <1>1, <1>2, <1>3 DEF SparesOthers, EmptyTypeOK
  <2>3. EmptyHolds(s)'
    BY <2>1 DEF EmptyHolds, Excludes, Reckons, Lays, Asking, Unsent, Replying, Ending
  <2> QED
    BY <1>1, <2>1, <2>2, <2>3, QuietKeeps
<1>4. ASSUME NEW known \in SUBSET {i \in Retained : trash[i] = "same"},
             phase' = [phase EXCEPT ![s] = "preview"],
             record' = [record EXCEPT ![s] = Empty!Intent(known)]
      PROVE  EmptyInv'
  <2>1. Empty!Intent(known) \in EmptyRecords /\ Empty!Intent(known).state = "Started"
    BY EmptyRecordTypes
  <2>2. EmptyTypeOK' /\ phase'[s] = "preview" /\ record'[s] = Empty!Intent(known)
    BY <1>1, <1>2, <1>4, <2>1 DEF EmptyTypeOK, Phases, Unsent
  <2>3. SparesOthers(s)
    BY <1>1, <1>2, <1>4 DEF SparesOthers, EmptyTypeOK
  <2>4. EmptyHolds(s)'
    BY <1>1, <1>2, <2>1, <2>2 DEF EmptyHolds, Excludes, Reckons, Lays, Asking, Unsent, Replying, Ending
  <2> QED
    BY <1>1, <2>2, <2>3, <2>4, QuietKeeps
<1> QED
  BY <1>1, <1>3, <1>4

LEMMA EmptierLooks == ASSUME EmptyInv, NEW s \in Emptiers, Empty!BeginCheck(s) PROVE EmptyInv'
<1>1. /\ phase[s] = "preview" /\ phase' = [phase EXCEPT ![s] = "lock_guard"]
      /\ \A i \in Empty!Known(s) : trash[i] = "same"
      /\ left' = [left EXCEPT ![s] = {}]
      /\ UNCHANGED <<reply, record, holder, disk, may, trash, running, sent, settled>>
  BY DEF Empty!BeginCheck, Empty!Goto
<1>2. EmptyTypeOK /\ EmptyHolds(s)
  BY DEF EmptyInv, EmptyHolds
<1>3. EmptyTypeOK' /\ phase'[s] = "lock_guard"
  BY <1>1, <1>2 DEF EmptyTypeOK, Phases, Unsent
<1>4. SparesOthers(s)
  BY <1>1, <1>2 DEF SparesOthers, EmptyTypeOK
<1>5. EmptyHolds(s)'
  BY <1>1, <1>2, <1>3 DEF EmptyHolds, Excludes, Reckons, Lays, Empty!Known, Asking, Unsent, Replying, Ending
<1> QED
  BY <1>1, <1>3, <1>4, <1>5, QuietKeeps

\* Both locks are taken; the barrier under them says that all is settled.
LEMMA EmptierLocksGuard ==
  ASSUME Empty!SessionAssumption, EmptyInv, NEW s \in Emptiers, Empty!OpenGuard(s)
  PROVE  EmptyInv'
<1>1. /\ phase[s] = "lock_guard" /\ phase' = [phase EXCEPT ![s] = "lock_history"]
      /\ holder["guard"] = Empty!Nobody /\ holder' = [holder EXCEPT !["guard"] = s]
      /\ UNCHANGED <<reply, record, disk, may, trash, running, sent, settled, left>>
  BY DEF Empty!OpenGuard, Empty!Goto, Empty!world
<1>2. EmptyTypeOK /\ EmptyHolds(s)
  BY DEF EmptyInv, EmptyHolds
<1>3. /\ phase' \in [Emptiers -> Phases] /\ phase'[s] = "lock_history"
      /\ holder' \in [Empty!Stores -> Emptiers \cup {Empty!Nobody}] /\ holder'["guard"] = s
  BY <1>1, <1>2 DEF EmptyTypeOK, Phases, Unsent, Empty!Stores
<1>4. EmptyTypeOK'
  BY <1>1, <1>2, <1>3 DEF EmptyTypeOK
<1>5. SparesOthers(s)
  BY <1>1, <1>2 DEF SparesOthers, EmptyTypeOK, Empty!SessionAssumption
<1>6. EmptyHolds(s)'
  BY <1>1, <1>2, <1>3 DEF EmptyHolds, Excludes, Reckons, Lays, Empty!Known, Asking, Unsent, Replying, Ending
<1> QED
  BY <1>1, <1>4, <1>5, <1>6, QuietKeeps

LEMMA EmptierLocksHistory ==
  ASSUME Empty!SessionAssumption, EmptyInv, NEW s \in Emptiers, Empty!OpenHistory(s)
  PROVE  EmptyInv'
<1>1. /\ phase[s] = "lock_history" /\ phase' = [phase EXCEPT ![s] = "publish_guard"]
      /\ holder["history"] = Empty!Nobody /\ holder' = [holder EXCEPT !["history"] = s]
      /\ \A t \in Emptiers : disk["guard"][t] = Empty!Empty
      /\ UNCHANGED <<reply, record, disk, may, trash, running, sent, settled, left>>
  BY DEF Empty!OpenHistory, Empty!Goto, Empty!Barrier, Empty!world
<1>2. EmptyTypeOK /\ EmptyHolds(s)
  BY DEF EmptyInv, EmptyHolds
<1>3. holder["guard"] = s
  BY <1>1, <1>2 DEF EmptyHolds, Excludes
<1>4. /\ phase' \in [Emptiers -> Phases] /\ phase'[s] = "publish_guard"
      /\ holder' \in [Empty!Stores -> Emptiers \cup {Empty!Nobody}]
      /\ \A x \in Empty!Stores : holder'[x] = s
  BY <1>1, <1>2, <1>3 DEF EmptyTypeOK, Phases, Unsent, Asking, Empty!Stores
<1>5. sent \subseteq settled
  <2> SUFFICES ASSUME NEW t \in sent, t \notin settled PROVE FALSE
    OBVIOUS
  <2>1. t \in Emptiers /\ Empty!Empty \notin may["guard"][t]
    BY <1>2 DEF EmptyTypeOK, EmptyInv, Empty!EventIsGuarded
  <2>2. disk["guard"][t] \in may["guard"][t]
    BY <2>1 DEF EmptyInv, EntriesTell, Empty!Stores
  <2> QED
    BY <1>1, <2>1, <2>2
<1>6. EmptyTypeOK'
  BY <1>1, <1>2, <1>4 DEF EmptyTypeOK
<1>7. SparesOthers(s)
  BY <1>1, <1>2 DEF SparesOthers, EmptyTypeOK, Empty!SessionAssumption
<1>8. EmptyHolds(s)'
  BY <1>1, <1>2, <1>4, <1>5 DEF EmptyHolds, Excludes, Reckons, Lays, Empty!Known, Asking, Unsent, Replying, Ending
<1> QED
  BY <1>1, <1>6, <1>7, <1>8, QuietKeeps

\* Steps that move on under both locks, and the deadline.
LEMMA EmptierGoesOn ==
  ASSUME EmptyInv, NEW s \in Emptiers,
         \/ Empty!Permit(s) \/ Empty!ClaimDispatch(s) \/ Empty!DoNotSend(s)
         \/ Empty!HostStopsWaiting(s) \/ Empty!Expire(s)
  PROVE  EmptyInv'
<1>1. /\ UNCHANGED <<record, holder, disk, may, trash, running, sent, settled, left>>
      /\ \A t \in Emptiers \ {s} : phase'[t] = phase[t] /\ reply'[t] = reply[t]
      /\ phase' \in [Emptiers -> Phases] /\ reply' \in [Emptiers -> Empty!FinderOutcome]
      /\ \/ phase[s] = "permit" /\ phase'[s] = "active"
         \/ phase[s] = "active" /\ phase'[s] = "claimed"
         \/ phase[s] \in {"active", "claimed"} /\ phase'[s] = "replied" /\ reply'[s] = "NotDispatched"
         \/ /\ phase[s] = "waiting" /\ phase'[s] = "replied"
            /\ reply'[s] \in {"TimedOut", "TransportUnknown"}
         \/ phase'[s] = phase[s] /\ reply'[s] = reply[s]
  <2>0. phase \in [Emptiers -> Phases] /\ reply \in [Emptiers -> Empty!FinderOutcome]
    BY DEF EmptyInv, EmptyTypeOK
  <2>1. CASE Empty!Permit(s)
    BY <2>0, <2>1 DEF Empty!Permit, Empty!Goto, Empty!world, Phases, Unsent, Asking
  <2>2. CASE Empty!ClaimDispatch(s)
    BY <2>0, <2>2 DEF Empty!ClaimDispatch, Empty!Goto, Empty!world, Phases, Unsent, Asking
  <2>3. CASE Empty!DoNotSend(s)
    BY <2>0, <2>3 DEF Empty!DoNotSend, Empty!Goto, Empty!world, Phases, Replying, Empty!FinderOutcome
  <2>4. CASE Empty!HostStopsWaiting(s)
    BY <2>0, <2>4 DEF Empty!HostStopsWaiting, Empty!Goto, Empty!world, Phases, Replying, Empty!FinderOutcome
  <2>5. CASE Empty!Expire(s)
    BY <2>0, <2>5 DEF Empty!Expire, Empty!world
  <2> QED
    BY <2>1, <2>2, <2>3, <2>4, <2>5
<1>2. EmptyTypeOK /\ EmptyHolds(s)
  BY DEF EmptyInv, EmptyHolds
<1>3. EmptyTypeOK'
  BY <1>1, <1>2 DEF EmptyTypeOK
<1>4. SparesOthers(s)
  BY <1>1 DEF SparesOthers
<1>5. EmptyHolds(s)'
  <2>1. \A r : Tells(s, r) => Tells(s, r)'
    BY <1>1 DEF Tells
  <2>2. Excludes(s)' /\ Lays(s)'
    BY <1>1, <1>2 DEF EmptyHolds, Excludes, Lays, Asking, Unsent, Replying, Ending
  <2>3. Reckons(s)'
    BY <1>1, <1>2, <2>1 DEF EmptyTypeOK, EmptyHolds, Excludes, Reckons, Empty!Known, Asking, Unsent, Replying, Ending
  <2> QED
    BY <2>2, <2>3 DEF EmptyHolds
<1> QED
  BY <1>1, <1>3, <1>4, <1>5, QuietKeeps

\* The one event: everything sent before it is settled, so nothing is running.
LEMMA EmptierSends == ASSUME EmptyInv, NEW s \in Emptiers, Empty!SendEvent(s) PROVE EmptyInv'
<1>1. /\ phase[s] = "claimed" /\ phase' = [phase EXCEPT ![s] = "waiting"]
      /\ running' = running \cup {s} /\ sent' = sent \cup {s}
      /\ UNCHANGED <<reply, record, holder, disk, may, trash, settled, left>>
  BY DEF Empty!SendEvent, Empty!Goto
<1>2. EmptyTypeOK /\ EmptyHolds(s)
  BY DEF EmptyInv, EmptyHolds
<1>3. EmptyTypeOK' /\ phase'[s] = "waiting"
  BY <1>1, <1>2 DEF EmptyTypeOK, Phases, Replying
<1>4. SparesOthers(s)
  BY <1>1, <1>2 DEF SparesOthers, EmptyTypeOK
<1>5. /\ sent \subseteq settled /\ s \notin sent /\ s \notin settled /\ Empty!Empty \notin may["guard"][s]
      /\ \A e \in may["history"][s] : e.rec.state # "Finished"
  BY <1>1, <1>2 DEF EmptyHolds, Excludes, Lays, Asking, Unsent
<1>6. running = {}
  BY <1>2, <1>5 DEF EmptyInv, EventsAreSettled, EmptyTypeOK
<1>7. EmptyHolds(s)'
  BY <1>1, <1>2, <1>3, <1>5 DEF EmptyHolds, Excludes, Reckons, Lays, Empty!Known, Asking, Unsent, Replying, Ending
<1>8. \A x \in Empty!Stores : disk'[x][s] \in may'[x][s]
  BY <1>1 DEF EmptyInv, EntriesTell
<1>9. \A e \in may'["history"][s] : /\ e.rec.state = "None" => e.rec = Empty!NoRecord
                                    /\ e.rec.state = "Finished" => Tells(s, e.rec)'
  BY <1>1, <1>5 DEF EmptyInv, EntriesTell
<1>10. EventsAreSettled'
  BY <1>1, <1>5, <1>6 DEF EventsAreSettled
<1> QED
  BY <1>1, <1>3, <1>4, <1>5, <1>7, <1>8, <1>9, <1>10, EmptierKeeps

LEMMA FinderIsDone ==
  ASSUME EmptyInv, NEW s \in Emptiers, Empty!FinderReplies(s) \/ Empty!FinderEnds(s)
  PROVE  EmptyInv'
<1>1. /\ UNCHANGED <<record, holder, disk, may, trash, sent, settled, left>>
      /\ running' = running \ {s}
      /\ \A t \in Emptiers \ {s} : phase'[t] = phase[t] /\ reply'[t] = reply[t]
      /\ phase' \in [Emptiers -> Phases] /\ reply' \in [Emptiers -> Empty!FinderOutcome]
      /\ \/ phase[s] = "waiting" /\ phase'[s] = "replied" /\ reply'[s] # "NotDispatched"
         \/ phase[s] # "waiting" /\ phase'[s] = phase[s] /\ reply'[s] = reply[s]
  <2>0. phase \in [Emptiers -> Phases] /\ reply \in [Emptiers -> Empty!FinderOutcome]
    BY DEF EmptyInv, EmptyTypeOK
  <2>1. CASE Empty!FinderReplies(s)
    BY <2>0, <2>1 DEF Empty!FinderReplies, Empty!Goto, Phases, Replying
  <2>2. CASE Empty!FinderEnds(s)
    BY <2>0, <2>2 DEF Empty!FinderEnds
  <2> QED
    BY <2>1, <2>2
<1>2. EmptyTypeOK /\ EmptyHolds(s)
  BY DEF EmptyInv, EmptyHolds
<1>3. EmptyTypeOK'
  BY <1>1, <1>2 DEF EmptyTypeOK
<1>4. SparesOthers(s)
  BY <1>1 DEF SparesOthers
<1>5. \A r : Tells(s, r) => Tells(s, r)'
  BY <1>1 DEF Tells
<1>6. EmptyHolds(s)'
  <2>1. Excludes(s)' /\ Lays(s)'
    BY <1>1, <1>2 DEF EmptyHolds, Excludes, Lays, Asking, Unsent, Replying, Ending
  <2>2. Reckons(s)'
    BY <1>1, <1>2, <1>5 DEF EmptyHolds, Reckons, Empty!Known, Asking, Unsent, Replying, Ending
  <2> QED
    BY <2>1, <2>2 DEF EmptyHolds
<1>7. \A x \in Empty!Stores : disk'[x][s] \in may'[x][s]
  BY <1>1 DEF EmptyInv, EntriesTell
<1>8. \A e \in may'["history"][s] : /\ e.rec.state = "None" => e.rec = Empty!NoRecord
                                    /\ e.rec.state = "Finished" => Tells(s, e.rec)'
  BY <1>1, <1>5 DEF EmptyInv, EntriesTell
<1>9. s \in sent' \ settled' => Empty!Empty \notin may'["guard"][s]
  BY <1>1 DEF EmptyInv, Empty!EventIsGuarded
<1>10. EventsAreSettled'
  BY <1>1 DEF EmptyInv, EventsAreSettled
<1> QED
  BY <1>3, <1>4, <1>6, <1>7, <1>8, <1>9, <1>10, EmptierKeeps

\* finish() never refuses the record it has built: rows of an unstable root are
\* all unknown, so the aggregate does not depend on the root being stable.
LEMMA OwnRecordValidates ==
  ASSUME EmptyInv, NEW s \in Emptiers, NEW obs \in Empty!Observations(s),
         NEW count \in {"none", "zero", "some"}, NEW stable \in BOOLEAN, NEW r,
         r = Empty!Finished(s, Empty!FinalRows(s, obs, stable), count, stable)
  PROVE  /\ Empty!Validates(r, count) /\ r \in EmptyRecords
         /\ r.state = "Finished" /\ r.outcome = reply[s] /\ r.aggregate # "None"
         /\ \A i \in Retained : r.obs[i] = "Absent" =>
              reply[s] # "NotDispatched" /\ i \in Empty!Known(s) /\ trash[i] = "gone"
         /\ r.aggregate = "Succeeded" =>
              /\ Empty!Listed(r.obs) # {}
              /\ \A i \in Empty!Listed(r.obs) : r.obs[i] = "Absent"
<1> DEFINE seen == Empty!FinalRows(s, obs, stable)
<1>1. reply[s] \in Empty!FinderOutcome /\ trash \in [Retained -> {"same", "gone", "other"}]
  BY DEF EmptyInv, EmptyTypeOK
<1>2. obs \in Observed /\ \A i \in Retained :
        IF i \notin Empty!Known(s) THEN obs[i] = "Unlisted"
        ELSE IF reply[s] = "NotDispatched" THEN obs[i] = "NotDispatched"
        ELSE obs[i] \in Empty!Observe(i)
  <2>1. CASE reply[s] = "NotDispatched"
    BY <2>1 DEF Empty!Observations, Observed, Empty!Observation
  <2>2. CASE reply[s] # "NotDispatched"
    BY <2>2 DEF Empty!Observations, Empty!Rows, Observed
  <2> QED
    BY <2>1, <2>2
<1>3. \A i \in Retained : Empty!Observe(i) \subseteq {"Absent", "Present", "Unknown"}
                          /\ ("Absent" \in Empty!Observe(i) => trash[i] = "gone")
  BY <1>1 DEF Empty!Observe
<1>4. /\ seen \in Observed
      /\ \A i \in Retained :
           /\ seen[i] # "Started"
           /\ seen[i] = "Unlisted" <=> i \notin Empty!Known(s)
           /\ seen[i] # "Unlisted" => (seen[i] = "NotDispatched" <=> reply[s] = "NotDispatched")
           /\ seen[i] = "Absent" => stable /\ i \in Empty!Known(s) /\ trash[i] = "gone"
           /\ seen[i] \in {"Present", "Absent"} => stable /\ reply[s] # "NotDispatched"
  <2>1. CASE reply[s] = "NotDispatched"
    BY <1>2, <2>1 DEF Empty!FinalRows
  <2>2. CASE reply[s] # "NotDispatched" /\ stable
    BY <1>2, <1>3, <2>2 DEF Empty!FinalRows
  <2>3. CASE reply[s] # "NotDispatched" /\ ~stable
    BY <2>3 DEF Empty!FinalRows, Observed, Empty!Observation
  <2> QED
    BY <2>1, <2>2, <2>3
<1>5. r = [state |-> "Finished", outcome |-> reply[s], obs |-> seen,
           aggregate |-> Empty!AggregateOf(reply[s], seen, count, stable)]
  BY DEF Empty!Finished
<1> HIDE DEF seen
<1>6. /\ Empty!AggregateOf(reply[s], seen, count, stable) \in {"Cancelled", "Partial", "Succeeded", "Unknown"}
      /\ Empty!AggregateOf(reply[s], seen, count, stable) = "Succeeded" =>
           Empty!Listed(seen) # {} /\ \A i \in Empty!Listed(seen) : seen[i] = "Absent"
  BY DEF Empty!AggregateOf
<1>7. Empty!AggregateOf(reply[s], seen, count, stable) = Empty!AggregateOf(reply[s], seen, count, TRUE)
  <2>1. CASE stable
    BY <2>1
  <2>2. CASE ~stable
    <3>1. ~(Empty!Listed(seen) # {} /\ \A i \in Empty!Listed(seen) : seen[i] = "Absent")
      BY <1>4, <2>2 DEF Empty!Listed
    <3> QED
      BY <2>2, <3>1 DEF Empty!AggregateOf
  <2> QED
    BY <2>1, <2>2
<1>8. r \in EmptyRecords
  BY <1>1, <1>4, <1>5, <1>6 DEF EmptyRecords
<1>9. Empty!Validates(r, count)
  BY <1>4, <1>5, <1>7 DEF Empty!Validates, Empty!Listed
<1> QED
  BY <1>4, <1>5, <1>6, <1>8, <1>9

LEMMA EmptierObserves == ASSUME EmptyInv, NEW s \in Emptiers, Empty!FinishObserve(s) PROVE EmptyInv'
<1>1. PICK obs \in Empty!Observations(s), count \in {"none", "zero", "some"}, stable \in BOOLEAN :
        LET own == Empty!Finished(s, Empty!FinalRows(s, obs, stable), count, stable)
        IN  /\ record' = [record EXCEPT ![s] = own]
            /\ IF Empty!Validates(own, count)
                 THEN Empty!Goto(s, "publish_outcome") /\ UNCHANGED holder
                 ELSE Empty!Goto(s, "invalid") /\ Empty!Drop(s)
  BY DEF Empty!FinishObserve
<1>0. PICK r : r = Empty!Finished(s, Empty!FinalRows(s, obs, stable), count, stable)
  OBVIOUS
<1>2. /\ Empty!Validates(r, count) /\ r \in EmptyRecords
      /\ r.state = "Finished" /\ r.outcome = reply[s] /\ r.aggregate # "None"
      /\ \A i \in Retained : r.obs[i] = "Absent" =>
           reply[s] # "NotDispatched" /\ i \in Empty!Known(s) /\ trash[i] = "gone"
      /\ r.aggregate = "Succeeded" =>
           /\ Empty!Listed(r.obs) # {}
           /\ \A i \in Empty!Listed(r.obs) : r.obs[i] = "Absent"
  BY <1>0, OwnRecordValidates
<1>3. /\ record' = [record EXCEPT ![s] = r] /\ phase' = [phase EXCEPT ![s] = "publish_outcome"]
      /\ phase[s] = "replied"
      /\ UNCHANGED <<reply, holder, disk, may, trash, running, sent, settled, left>>
  BY <1>0, <1>1, <1>2 DEF Empty!FinishObserve, Empty!Goto, Empty!world
<1>4. EmptyTypeOK /\ EmptyHolds(s)
  BY DEF EmptyInv, EmptyHolds
<1>5. EmptyTypeOK' /\ phase'[s] = "publish_outcome" /\ record'[s] = r
  BY <1>2, <1>3, <1>4 DEF EmptyTypeOK, Phases, Ending
<1>6. SparesOthers(s)
  BY <1>3, <1>4 DEF SparesOthers, EmptyTypeOK
<1>7. Tells(s, r)
  <2>1. /\ reply[s] = "NotDispatched" <=> s \notin sent
        /\ s \in running => reply[s] \in {"TimedOut", "TransportUnknown"}
        /\ \A i \in Empty!Known(s) : trash[i] = "same" \/ i \in left[s]
    BY <1>3, <1>4 DEF EmptyHolds, Reckons, Replying
  <2> QED
    BY <1>2, <2>1 DEF Tells, Empty!Unresolved, Empty!MayContinue
<1>8. Tells(s, r)'
  BY <1>3, <1>7 DEF Tells
<1>9. EmptyHolds(s)'
  BY <1>2, <1>3, <1>4, <1>5, <1>8 DEF EmptyHolds, Excludes, Reckons, Lays, Asking, Unsent, Replying, Ending
<1> QED
  BY <1>3, <1>5, <1>6, <1>9, QuietKeeps

\* However a publication ends, an entry that may survive holds the new record
\* or one that might have survived before, and a clean end holds only the new.
LEMMA EmptyPublication ==
  ASSUME NEW old \in EmptyEntries, NEW possible \in SUBSET EmptyEntries, old \in possible,
         NEW r \in EmptyRecords, NEW e \in Empty!PublicationEnds(old, possible, r)
  PROVE  /\ e.now \in e.may /\ e.may \in SUBSET EmptyEntries /\ e.ok \in BOOLEAN
         /\ \A f \in e.may : f.rec = r \/ \E g \in possible : f.rec = g.rec
         /\ e.ok => \A f \in e.may : f.rec = r
<1>1. old.rec \in EmptyRecords
  BY DEF EmptyEntries
<1> DEFINE marked == Empty!Entry(old.rec, TRUE)
           both == Empty!Entry(r, TRUE)
           clean == Empty!Entry(r, FALSE)
<1>2. /\ marked \in EmptyEntries /\ both \in EmptyEntries /\ clean \in EmptyEntries
      /\ marked.rec = old.rec /\ both.rec = r /\ clean.rec = r
  BY <1>1, EmptyRecordTypes
<1>3. \/ e.now = old /\ e.may = possible /\ e.ok = FALSE
      \/ e.now = marked /\ e.may \in {possible \cup {marked}, {marked}} /\ e.ok = FALSE
      \/ e.now = both /\ e.may \in {{marked, both}, {both}} /\ e.ok = FALSE
      \/ e.now = clean /\ e.may = {both, clean} /\ e.ok \in BOOLEAN
  <2> HIDE DEF marked, both, clean
  <2>1. \/ e \in [now : {old}, may : {possible}, ok : {FALSE}]
        \/ e \in [now : {marked}, may : {possible \cup {marked}, {marked}}, ok : {FALSE}]
        \/ e \in [now : {both}, may : {{marked, both}, {both}}, ok : {FALSE}]
        \/ e \in [now : {clean}, may : {{both, clean}}, ok : BOOLEAN]
    BY Zenon DEF Empty!PublicationEnds, marked, both, clean
  <2>2. \A N, M, K : e \in [now : N, may : M, ok : K] => e.now \in N /\ e.may \in M /\ e.ok \in K
    OBVIOUS
  <2>3. \/ e.now \in {old} /\ e.may \in {possible} /\ e.ok \in {FALSE}
        \/ e.now \in {marked} /\ e.may \in {possible \cup {marked}, {marked}} /\ e.ok \in {FALSE}
        \/ e.now \in {both} /\ e.may \in {{marked, both}, {both}} /\ e.ok \in {FALSE}
        \/ e.now \in {clean} /\ e.may \in {{both, clean}} /\ e.ok \in BOOLEAN
    BY <2>1, <2>2, Zenon
  <2> QED
    BY <2>3, Zenon
<1> HIDE DEF marked, both, clean
<1>4. CASE e.now = old /\ e.may = possible /\ e.ok = FALSE
  BY <1>4
<1>5. CASE e.now = marked /\ e.may \in {possible \cup {marked}, {marked}} /\ e.ok = FALSE
  BY <1>2, <1>5
<1>6. CASE e.now = both /\ e.may \in {{marked, both}, {both}} /\ e.ok = FALSE
  BY <1>2, <1>6
<1>7. CASE e.now = clean /\ e.may = {both, clean} /\ e.ok \in BOOLEAN
  BY <1>2, <1>7
<1> QED
  BY <1>3, <1>4, <1>5, <1>6, <1>7

\* A publication of session s in store x: what it does to both stores.
LEMMA EmptyPublishes ==
  ASSUME EmptyInv, NEW s \in Emptiers, NEW x \in Empty!Stores,
         NEW e \in Empty!PublicationEnds(disk[x][s], may[x][s], record[s]),
         disk' = [disk EXCEPT ![x][s] = e.now], may' = [may EXCEPT ![x][s] = e.may]
  PROVE  /\ disk' \in [Empty!Stores -> [Emptiers -> EmptyEntries]]
         /\ may' \in [Empty!Stores -> [Emptiers -> SUBSET EmptyEntries]]
         /\ \A y \in Empty!Stores, t \in Emptiers :
              <<y, t>> # <<x, s>> => disk'[y][t] = disk[y][t] /\ may'[y][t] = may[y][t]
         /\ \A y \in Empty!Stores : disk'[y][s] \in may'[y][s]
         /\ \A f \in may'[x][s] : f.rec = record[s] \/ \E g \in may[x][s] : f.rec = g.rec
         /\ e.ok \in BOOLEAN /\ (e.ok => \A f \in may'[x][s] : f.rec = record[s])
<1>1. /\ disk \in [Empty!Stores -> [Emptiers -> EmptyEntries]] /\ record[s] \in EmptyRecords
      /\ may \in [Empty!Stores -> [Emptiers -> SUBSET EmptyEntries]]
      /\ \A y \in Empty!Stores : disk[y][s] \in may[y][s]
  BY DEF EmptyInv, EmptyTypeOK, EntriesTell
<1>2. /\ e.now \in e.may /\ e.may \in SUBSET EmptyEntries /\ e.ok \in BOOLEAN
      /\ \A f \in e.may : f.rec = record[s] \/ \E g \in may[x][s] : f.rec = g.rec
      /\ e.ok => \A f \in e.may : f.rec = record[s]
  <2>1. disk[x][s] \in EmptyEntries /\ may[x][s] \in SUBSET EmptyEntries
    BY <1>1
  <2> QED
    BY <1>1, <2>1, EmptyPublication
<1>3. disk'[x][s] = e.now /\ may'[x][s] = e.may
  BY <1>1
<1>4. \A y \in Empty!Stores, t \in Emptiers :
        <<y, t>> # <<x, s>> => disk'[y][t] = disk[y][t] /\ may'[y][t] = may[y][t]
  BY <1>1
<1>5. /\ disk' \in [Empty!Stores -> [Emptiers -> EmptyEntries]]
      /\ may' \in [Empty!Stores -> [Emptiers -> SUBSET EmptyEntries]]
  BY <1>1, <1>2
<1>6. \A y \in Empty!Stores : disk'[y][s] \in may'[y][s]
  BY <1>1, <1>2, <1>3, <1>4
<1> QED
  BY <1>2, <1>3, <1>4, <1>5, <1>6

\* The guard, then the intent in the history.
LEMMA EmptierPublishes ==
  ASSUME EmptyInv, NEW s \in Emptiers, Empty!PublishGuard(s) \/ Empty!PublishHistory(s)
  PROVE  EmptyInv'
<1>0. PICK x \in Empty!Stores, next \in {"publish_history", "permit"} :
        /\ Empty!Publish(s, x, next) /\ UNCHANGED <<trash, running, sent, settled, left>>
        /\ \/ phase[s] = "publish_guard" /\ x = "guard" /\ next = "publish_history"
           \/ phase[s] = "publish_history" /\ x = "history" /\ next = "permit"
  BY DEF Empty!PublishGuard, Empty!PublishHistory, Empty!Stores, Empty!world
<1>1. PICK e \in Empty!PublicationEnds(disk[x][s], may[x][s], record[s]) :
        /\ disk' = [disk EXCEPT ![x][s] = e.now] /\ may' = [may EXCEPT ![x][s] = e.may]
        /\ IF e.ok THEN Empty!Goto(s, next) /\ Empty!Keep ELSE Empty!Close(s)
  BY <1>0 DEF Empty!Publish
<1>2. /\ disk' \in [Empty!Stores -> [Emptiers -> EmptyEntries]]
      /\ may' \in [Empty!Stores -> [Emptiers -> SUBSET EmptyEntries]]
      /\ \A y \in Empty!Stores, t \in Emptiers :
           <<y, t>> # <<x, s>> => disk'[y][t] = disk[y][t] /\ may'[y][t] = may[y][t]
      /\ \A y \in Empty!Stores : disk'[y][s] \in may'[y][s]
      /\ \A f \in may'[x][s] : f.rec = record[s] \/ \E g \in may[x][s] : f.rec = g.rec
      /\ e.ok \in BOOLEAN /\ (e.ok => \A f \in may'[x][s] : f.rec = record[s])
  BY <1>1, EmptyPublishes
<1>3. EmptyTypeOK /\ EmptyHolds(s) /\ "guard" \in Empty!Stores /\ "history" \in Empty!Stores
  BY DEF EmptyInv, EmptyHolds, Empty!Stores
<1>4. record[s].state = "Started" /\ s \notin sent
  BY <1>0, <1>3 DEF EmptyHolds, Reckons, Excludes, Unsent, Asking
<1>5. \A f \in may'["history"][s] :
        f.rec.state # "Finished" /\ (f.rec.state = "None" => f.rec = Empty!NoRecord)
  <2>1. \A g \in may["history"][s] :
          g.rec.state # "Finished" /\ (g.rec.state = "None" => g.rec = Empty!NoRecord)
    BY <1>0, <1>3 DEF EmptyInv, EntriesTell, EmptyHolds, Lays, Unsent, Asking
  <2>2. CASE x = "history"
    BY <1>2, <1>4, <2>1, <2>2
  <2>3. CASE x = "guard"
    BY <1>2, <1>3, <2>1, <2>3
  <2> QED
    BY <1>0, <2>2, <2>3
<1>6. /\ phase' \in [Emptiers -> Phases] /\ reply' \in [Emptiers -> Empty!FinderOutcome]
      /\ record' \in [Emptiers -> EmptyRecords]
      /\ holder' \in [Empty!Stores -> Emptiers \cup {Empty!Nobody}]
      /\ \A t \in Emptiers \ {s} :
           /\ phase'[t] = phase[t] /\ record'[t] = record[t] /\ reply'[t] = reply[t]
           /\ \A y \in Empty!Stores : holder[y] = t => holder'[y] = t
      /\ EmptyHolds(s)'
  <2>1. CASE ~e.ok
    BY <1>1, <2>1, EmptierCloses
  <2>2. CASE e.ok
    <3>1. phase' = [phase EXCEPT ![s] = next] /\ UNCHANGED <<holder, record, reply>>
      BY <1>1, <2>2 DEF Empty!Goto, Empty!Keep
    <3>2. phase' \in [Emptiers -> Phases] /\ phase'[s] = next
      BY <1>3, <3>1 DEF EmptyTypeOK, Phases, Unsent, Asking
    <3>3. Empty!Empty \notin may'["guard"][s]
      <4>1. CASE x = "guard"
        BY <1>2, <1>4, <2>2, <4>1, EmptyRecordTypes
      <4>2. CASE x = "history"
        <5>1. Empty!Empty \notin may["guard"][s]
          BY <1>0, <1>3, <4>2 DEF EmptyHolds, Lays, Asking
        <5> QED
          BY <1>2, <1>3, <4>2, <5>1
      <4> QED
        BY <1>0, <4>1, <4>2
    <3>4. Excludes(s)' /\ Reckons(s)'
      BY <1>0, <1>3, <3>1, <3>2 DEF EmptyHolds, Excludes, Reckons, Empty!Known, Asking, Unsent, Replying, Ending
    <3>5. Lays(s)'
      BY <1>5, <3>3 DEF Lays
    <3> QED
      BY <1>3, <3>1, <3>2, <3>4, <3>5 DEF EmptyHolds, EmptyTypeOK
  <2> QED
    BY <1>2, <2>1, <2>2
<1>7. EmptyTypeOK'
  BY <1>0, <1>2, <1>3, <1>6 DEF EmptyTypeOK
<1>8. SparesOthers(s)
  BY <1>0, <1>2, <1>6 DEF SparesOthers
<1>9. EventsAreSettled'
  BY <1>0 DEF EmptyInv, EventsAreSettled
<1> QED
  BY <1>0, <1>2, <1>4, <1>5, <1>6, <1>7, <1>8, <1>9, EmptierKeeps

\* The outcome; the guard is cleared only behind a durable and clear one.
LEMMA EmptierSettles == ASSUME EmptyInv, NEW s \in Emptiers, Empty!PublishOutcome(s) PROVE EmptyInv'
<1>1. PICK e \in Empty!PublicationEnds(disk["history"][s], may["history"][s], record[s]) :
        /\ disk' = [disk EXCEPT !["history"][s] = e.now]
        /\ may' = [may EXCEPT !["history"][s] = e.may]
        /\ settled' = IF e.ok /\ Empty!Unambiguous(record[s]) THEN settled \cup {s} ELSE settled
        /\ IF e.ok /\ Empty!AfterOutcome(s) = "clear"
             THEN Empty!Goto(s, "clear") /\ Empty!Keep ELSE Empty!Close(s)
  BY DEF Empty!PublishOutcome
<1>2. phase[s] = "publish_outcome" /\ UNCHANGED <<trash, running, sent, left>>
  BY DEF Empty!PublishOutcome
<1>3. EmptyTypeOK /\ EmptyHolds(s) /\ "guard" \in Empty!Stores /\ "history" \in Empty!Stores
  BY DEF EmptyInv, EmptyHolds, Empty!Stores
<1>4. /\ disk' \in [Empty!Stores -> [Emptiers -> EmptyEntries]]
      /\ may' \in [Empty!Stores -> [Emptiers -> SUBSET EmptyEntries]]
      /\ \A y \in Empty!Stores, t \in Emptiers :
           <<y, t>> # <<"history", s>> => disk'[y][t] = disk[y][t] /\ may'[y][t] = may[y][t]
      /\ \A y \in Empty!Stores : disk'[y][s] \in may'[y][s]
      /\ \A f \in may'["history"][s] : f.rec = record[s] \/ \E g \in may["history"][s] : f.rec = g.rec
      /\ e.ok \in BOOLEAN
  BY <1>1, <1>3, EmptyPublishes
<1>5. /\ record[s].state = "Finished" /\ record[s].aggregate # "None"
      /\ Tells(s, record[s]) /\ record[s] \in EmptyRecords
  BY <1>2, <1>3 DEF EmptyHolds, Reckons, Ending, EmptyTypeOK
<1>6. \A r : Tells(s, r) => Tells(s, r)'
  BY <1>2 DEF Tells
<1>7. \A f \in may'["history"][s] : /\ f.rec.state = "None" => f.rec = Empty!NoRecord
                                    /\ f.rec.state = "Finished" => Tells(s, f.rec)'
  <2>1. \A g \in may["history"][s] : /\ g.rec.state = "None" => g.rec = Empty!NoRecord
                                     /\ g.rec.state = "Finished" => Tells(s, g.rec)
    BY DEF EmptyInv, EntriesTell
  <2> QED
    BY <1>4, <1>5, <1>6, <2>1
<1>8. Empty!Unambiguous(record[s]) => s \notin running
  BY <1>5 DEF Empty!Unambiguous, Tells, Empty!Unresolved, Empty!MayContinue
<1>9. /\ phase' \in [Emptiers -> Phases] /\ reply' \in [Emptiers -> Empty!FinderOutcome]
      /\ record' \in [Emptiers -> EmptyRecords]
      /\ holder' \in [Empty!Stores -> Emptiers \cup {Empty!Nobody}]
      /\ \A t \in Emptiers \ {s} :
           /\ phase'[t] = phase[t] /\ record'[t] = record[t] /\ reply'[t] = reply[t]
           /\ \A y \in Empty!Stores : holder[y] = t => holder'[y] = t
      /\ EmptyHolds(s)'
  <2>1. CASE ~(e.ok /\ Empty!AfterOutcome(s) = "clear")
    BY <1>1, <2>1, EmptierCloses
  <2>2. CASE e.ok /\ Empty!AfterOutcome(s) = "clear"
    <3>1. phase' = [phase EXCEPT ![s] = "clear"] /\ UNCHANGED <<holder, record, reply>>
      BY <1>1, <2>2 DEF Empty!Goto, Empty!Keep
    <3>2. phase' \in [Emptiers -> Phases] /\ phase'[s] = "clear"
      BY <1>3, <3>1 DEF EmptyTypeOK, Phases, Ending
    <3>3. ~Empty!Unresolved(record[s])
      BY <2>2 DEF Empty!AfterOutcome
    <3>4. Empty!Unambiguous(record[s])
      <4>1. /\ record[s].outcome \notin {"TimedOut", "TransportUnknown"}
            /\ record[s].aggregate # "Unknown" /\ record[s].state = "Finished"
        BY <3>3 DEF Empty!Unresolved, Empty!MayContinue
      <4> QED
        BY <1>5, <4>1 DEF Empty!Unambiguous, EmptyRecords
    <3>5. s \in settled'
      BY <1>1, <2>2, <3>4
    <3>6. Excludes(s)' /\ Lays(s)'
      BY <1>2, <1>3, <1>4, <3>1, <3>2 DEF EmptyHolds, Excludes, Lays, Asking, Unsent, Replying, Ending
    <3>7. Reckons(s)'
      BY <1>5, <1>6, <3>1, <3>2, <3>5 DEF Reckons, Asking, Unsent, Replying, Ending
    <3> QED
      BY <1>3, <3>1, <3>2, <3>6, <3>7 DEF EmptyHolds, EmptyTypeOK
  <2> QED
    BY <2>1, <2>2
<1>10. EmptyTypeOK'
  BY <1>2, <1>3, <1>4, <1>9 DEF EmptyTypeOK
<1>11. SparesOthers(s)
  BY <1>1, <1>2, <1>4, <1>9 DEF SparesOthers
<1>12. EventsAreSettled'
  BY <1>1, <1>2, <1>8 DEF EmptyInv, EventsAreSettled
<1>13. s \in sent' \ settled' => Empty!Empty \notin may'["guard"][s]
  BY <1>1, <1>2, <1>3, <1>4 DEF EmptyInv, Empty!EventIsGuarded
<1> QED
  BY <1>4, <1>7, <1>9, <1>10, <1>11, <1>12, <1>13, EmptierKeeps

LEMMA EmptierClears == ASSUME EmptyInv, NEW s \in Emptiers, Empty!ClearGuard(s) PROVE EmptyInv'
<1>1. /\ phase[s] = "clear" /\ Empty!Close(s) /\ UNCHANGED <<trash, running, sent, settled, left>>
      /\ \/ /\ disk' = [disk EXCEPT !["guard"][s] = Empty!Empty]
            /\ may' = [may EXCEPT !["guard"][s] = @ \cup {Empty!Empty}]
         \/ UNCHANGED <<disk, may>>
  BY DEF Empty!ClearGuard, Empty!world
<1>2. EmptyTypeOK /\ EmptyHolds(s) /\ "guard" \in Empty!Stores /\ "history" \in Empty!Stores
  BY DEF EmptyInv, EmptyHolds, Empty!Stores
<1>3. s \in settled
  BY <1>1, <1>2 DEF EmptyHolds, Reckons
<1>4. /\ disk' \in [Empty!Stores -> [Emptiers -> EmptyEntries]]
      /\ may' \in [Empty!Stores -> [Emptiers -> SUBSET EmptyEntries]]
      /\ \A y \in Empty!Stores, t \in Emptiers :
           <<y, t>> # <<"guard", s>> => disk'[y][t] = disk[y][t] /\ may'[y][t] = may[y][t]
      /\ \A y \in Empty!Stores : disk'[y][s] \in may'[y][s]
  <2>1. \A y \in Empty!Stores : disk[y][s] \in may[y][s]
    BY DEF EmptyInv, EntriesTell
  <2>2. CASE UNCHANGED <<disk, may>>
    BY <1>2, <2>1, <2>2 DEF EmptyTypeOK
  <2>3. CASE /\ disk' = [disk EXCEPT !["guard"][s] = Empty!Empty]
             /\ may' = [may EXCEPT !["guard"][s] = @ \cup {Empty!Empty}]
    BY <1>2, <2>1, <2>3, EmptyRecordTypes DEF EmptyTypeOK
  <2> QED
    BY <1>1, <2>2, <2>3
<1>5. EmptyTypeOK'
  BY <1>1, <1>2, <1>4, EmptierCloses DEF EmptyTypeOK
<1>6. SparesOthers(s)
  BY <1>1, <1>4, EmptierCloses DEF SparesOthers
<1>7. \A r : Tells(s, r) => Tells(s, r)'
  BY <1>1 DEF Tells
<1>8. \A f \in may'["history"][s] : /\ f.rec.state = "None" => f.rec = Empty!NoRecord
                                    /\ f.rec.state = "Finished" => Tells(s, f.rec)'
  <2>1. may'["history"][s] = may["history"][s]
    BY <1>2, <1>4
  <2> QED
    BY <1>7, <2>1 DEF EmptyInv, EntriesTell
<1>9. EventsAreSettled'
  BY <1>1 DEF EmptyInv, EventsAreSettled
<1> QED
  BY <1>1, <1>3, <1>4, <1>5, <1>6, <1>8, <1>9, EmptierCloses, EmptierKeeps

\* An item that leaves the Trash has left it for every session.
LEMMA TrashChangesKeep ==
  ASSUME EmptyInv, NEW i \in Retained, NEW v \in {"gone", "other"}, Empty!TrashChanges(i, v)
  PROVE  EmptyInv'
<1>1. /\ trash' = [trash EXCEPT ![i] = v] /\ left' = [s \in Emptiers |-> left[s] \cup {i}]
      /\ UNCHANGED <<phase, reply, record, holder, disk, may, running, sent, settled>>
  BY DEF Empty!TrashChanges
<1>2. EmptyTypeOK
  BY DEF EmptyInv
<1>3. EmptyTypeOK'
  BY <1>1, <1>2 DEF EmptyTypeOK
<1>4. ASSUME NEW s \in Emptiers, NEW r, Tells(s, r) PROVE Tells(s, r)'
  BY <1>1, <1>4 DEF Tells
<1>5. ASSUME NEW s \in Emptiers PROVE EmptyHolds(s)'
  <2>1. Excludes(s) /\ Reckons(s) /\ Lays(s)
    BY DEF EmptyInv
  <2>2. Excludes(s)' /\ Lays(s)'
    BY <1>1, <2>1 DEF Excludes, Lays
  <2>3. \A j \in Empty!Known(s) : trash[j] = "same" \/ j \in left[s] => trash'[j] = "same" \/ j \in left'[s]
    BY <1>1, <1>2 DEF EmptyTypeOK, Empty!Known, Empty!Listed
  <2>4. Reckons(s)'
    BY <1>1, <1>4, <2>1, <2>3 DEF Reckons, Empty!Known
  <2> QED
    BY <2>2, <2>4 DEF EmptyHolds
<1>6. EntriesTell'
  BY <1>1, <1>4 DEF EmptyInv, EntriesTell
<1>7. EventsAreSettled' /\ Empty!EventIsGuarded'
  BY <1>1 DEF EmptyInv, EventsAreSettled, Empty!EventIsGuarded
<1> QED
  BY <1>3, <1>5, <1>6, <1>7 DEF EmptyInv, EmptyHolds

\* Nothing is told where the history is gone.
LEMMA ArchivingKeeps == ASSUME EmptyInv, Empty!ArchiveHistory PROVE EmptyInv'
<1>1. /\ disk' = [disk EXCEPT !["history"] = [s \in Emptiers |-> Empty!Empty]]
      /\ may' = [may EXCEPT !["history"] = [s \in Emptiers |-> may["history"][s] \cup {Empty!Empty}]]
      /\ UNCHANGED <<phase, reply, record, holder, trash, running, sent, settled, left>>
  BY DEF Empty!ArchiveHistory, Empty!world
<1>2. EmptyTypeOK /\ "guard" \in Empty!Stores /\ "history" \in Empty!Stores
  BY DEF EmptyInv, Empty!Stores
<1>3. \A s \in Emptiers :
        /\ disk'["guard"][s] = disk["guard"][s] /\ may'["guard"][s] = may["guard"][s]
        /\ disk'["history"][s] = Empty!Empty
        /\ may'["history"][s] = may["history"][s] \cup {Empty!Empty}
  BY <1>1, <1>2 DEF EmptyTypeOK
<1>4. EmptyTypeOK'
  BY <1>1, <1>2, EmptyRecordTypes DEF EmptyTypeOK
<1>5. ASSUME NEW s \in Emptiers, NEW r, Tells(s, r) PROVE Tells(s, r)'
  BY <1>1, <1>5 DEF Tells
<1>6. ASSUME NEW s \in Emptiers PROVE EmptyHolds(s)'
  <2>1. Excludes(s) /\ Reckons(s) /\ Lays(s)
    BY DEF EmptyInv
  <2>2. Excludes(s)'
    BY <1>1, <2>1 DEF Excludes
  <2>3. Reckons(s)'
    BY <1>1, <1>5, <2>1 DEF Reckons, Empty!Known
  <2>4. Lays(s)'
    BY <1>1, <1>3, <2>1, EmptyRecordTypes DEF Lays
  <2> QED
    BY <2>2, <2>3, <2>4 DEF EmptyHolds
<1>7. EntriesTell'
  <2> SUFFICES ASSUME NEW s \in Emptiers
               PROVE  /\ \A x \in Empty!Stores : disk'[x][s] \in may'[x][s]
                      /\ \A e \in may'["history"][s] :
                           /\ e.rec.state = "None" => e.rec = Empty!NoRecord
                           /\ e.rec.state = "Finished" => Tells(s, e.rec)'
    BY DEF EntriesTell
  <2>1. /\ disk["guard"][s] \in may["guard"][s]
        /\ \A e \in may["history"][s] : /\ e.rec.state = "None" => e.rec = Empty!NoRecord
                                        /\ e.rec.state = "Finished" => Tells(s, e.rec)
    BY <1>2 DEF EmptyInv, EntriesTell
  <2>2. \A x \in Empty!Stores : disk'[x][s] \in may'[x][s]
    BY <1>3, <2>1 DEF Empty!Stores
  <2> QED
    BY <1>3, <1>5, <2>1, <2>2, EmptyRecordTypes
<1>8. EventsAreSettled'
  BY <1>1 DEF EmptyInv, EventsAreSettled
<1>9. Empty!EventIsGuarded'
  BY <1>1, <1>2, <1>3 DEF EmptyInv, Empty!EventIsGuarded, EmptyTypeOK
<1> QED
  BY <1>4, <1>6, <1>7, <1>8, <1>9 DEF EmptyInv, EmptyHolds

\* A power failure leaves of each entry one that was allowed to survive.
LEMMA EmptyPowerKeeps == ASSUME EmptyInv, Empty!PowerFailure PROVE EmptyInv'
<1>1. EmptyTypeOK /\ "guard" \in Empty!Stores /\ "history" \in Empty!Stores
  BY DEF EmptyInv, Empty!Stores
<1>2. PICK g, h : /\ \A s \in Emptiers : g[s] \in may["guard"][s] /\ h[s] \in may["history"][s]
                  /\ disk' = [x \in Empty!Stores |-> IF x = "guard" THEN g ELSE h]
                  /\ g \in [Emptiers -> UNION {may["guard"][s] : s \in Emptiers}]
                  /\ h \in [Emptiers -> UNION {may["history"][s] : s \in Emptiers}]
  BY DEF Empty!PowerFailure
<1>3. /\ may' = [x \in Empty!Stores |-> [s \in Emptiers |-> {disk'[x][s]}]]
      /\ phase' = [s \in Emptiers |-> IF phase[s] = "none" THEN "none" ELSE "done"]
      /\ holder' = [x \in Empty!Stores |-> Empty!Nobody]
      /\ record' = [s \in Emptiers |-> Empty!NoRecord]
      /\ reply' = [s \in Emptiers |-> "NotDispatched"]
      /\ running' = {} /\ UNCHANGED <<trash, sent, settled, left>>
  BY DEF Empty!PowerFailure
<1>4. /\ disk'["guard"] = g /\ disk'["history"] = h
      /\ \A x \in Empty!Stores, s \in Emptiers :
           disk'[x][s] \in may[x][s] /\ may'[x][s] = {disk'[x][s]}
  BY <1>1, <1>2, <1>3 DEF Empty!Stores
<1>5. g \in [Emptiers -> EmptyEntries] /\ h \in [Emptiers -> EmptyEntries]
  BY <1>1, <1>2 DEF EmptyTypeOK
<1>6. EmptyTypeOK'
  <2>1. disk' \in [Empty!Stores -> [Emptiers -> EmptyEntries]]
    BY <1>2, <1>5
  <2>2. may' \in [Empty!Stores -> [Emptiers -> SUBSET EmptyEntries]]
    BY <1>3, <2>1
  <2>3. phase' \in [Emptiers -> Phases] /\ reply' \in [Emptiers -> Empty!FinderOutcome]
    BY <1>3 DEF Phases, Unsent, Empty!FinderOutcome
  <2> QED
    BY <1>1, <1>3, <2>1, <2>2, <2>3, EmptyRecordTypes DEF EmptyTypeOK
<1>7. ASSUME NEW s \in Emptiers, NEW r, Tells(s, r) PROVE Tells(s, r)'
  BY <1>3, <1>7 DEF Tells
<1>8. ASSUME NEW s \in Emptiers PROVE EmptyHolds(s)'
  <2>1. Excludes(s) /\ Lays(s) /\ phase'[s] \in {"none", "done"} /\ (phase'[s] = "none" => phase[s] = "none")
    BY <1>3 DEF EmptyInv
  <2>2. \A e \in may'["history"][s] : e \in may["history"][s]
    BY <1>1, <1>4
  <2>3. Excludes(s)' /\ Reckons(s)'
    BY <1>3, <2>1 DEF Excludes, Reckons, Asking, Unsent, Replying, Ending
  <2>4. Lays(s)'
    BY <2>1, <2>2 DEF Lays, Asking, Unsent, Replying, Ending
  <2> QED
    BY <2>3, <2>4 DEF EmptyHolds
<1>9. EntriesTell'
  BY <1>1, <1>4, <1>7 DEF EmptyInv, EntriesTell
<1>10. EventsAreSettled'
  BY <1>3 DEF EventsAreSettled
<1>11. Empty!EventIsGuarded'
  BY <1>1, <1>3, <1>4 DEF EmptyInv, Empty!EventIsGuarded, EmptyTypeOK
<1> QED
  BY <1>6, <1>8, <1>9, <1>10, <1>11 DEF EmptyInv, EmptyHolds

LEMMA EmptyInitInv == ASSUME Empty!Init PROVE EmptyInv
<1>1. EmptyTypeOK
  BY EmptyRecordTypes DEF Empty!Init, EmptyTypeOK, Phases, Unsent, Empty!FinderOutcome
<1>2. \A x \in Empty!Stores, s \in Emptiers : disk[x][s] = Empty!Empty /\ may[x][s] = {Empty!Empty}
  BY DEF Empty!Init
<1>3. EntriesTell
  BY <1>2, EmptyRecordTypes DEF EntriesTell, Empty!Stores
<1>4. EventsAreSettled /\ Empty!EventIsGuarded
  BY DEF Empty!Init, EventsAreSettled, Empty!EventIsGuarded
<1>5. ASSUME NEW s \in Emptiers PROVE Excludes(s) /\ Reckons(s) /\ Lays(s)
  <2>1. phase[s] = "none" /\ sent = {} /\ settled = {}
    BY DEF Empty!Init
  <2> QED
    BY <1>2, <2>1, EmptyRecordTypes
       DEF Excludes, Reckons, Lays, Asking, Unsent, Replying, Ending, Empty!Stores
<1> QED
  BY <1>1, <1>3, <1>4, <1>5 DEF EmptyInv

LEMMA EmptyNextInv == ASSUME Empty!SessionAssumption, EmptyInv, Empty!Next PROVE EmptyInv'
<1>1. ASSUME NEW s \in Emptiers, Empty!Step(s) PROVE EmptyInv'
  BY <1>1, EmptierPrepares, EmptierLooks, EmptierLocksGuard, EmptierLocksHistory, EmptierEnds,
     EmptierPublishes, EmptierGoesOn, EmptierSends, FinderIsDone, EmptierObserves,
     EmptierSettles, EmptierClears DEF Empty!Step
<1> QED
  BY <1>1, TrashChangesKeep, ArchivingKeeps, EmptyPowerKeeps DEF Empty!Next

\* What the invariant says of the properties.
LEMMA EmptyCounts == \A S : Empty!Cardinality(S) = Cardinality(S)
  BY DEF Empty!Cardinality, Cardinality

LEMMA EmptyInvImplies ==
  ASSUME EmptyInv
  PROVE  /\ Empty!OneEventAtATime /\ Empty!EventIsGuarded
         /\ Empty!HistoryIsTrue /\ Empty!FinishAlwaysValidates
<1>1. Empty!OneEventAtATime
  <2>1. CASE running = {}
    BY <2>1, EmptyCounts, FS_EmptySet DEF Empty!OneEventAtATime
  <2>2. CASE running # {}
    <3>1. PICK s \in running : TRUE
      BY <2>2
    <3>3. running = {s}
      BY <3>1 DEF EmptyInv, EventsAreSettled
    <3>2. Cardinality({s}) = 1
      BY FS_Singleton
    <3> QED
      BY <3>2, <3>3, EmptyCounts DEF Empty!OneEventAtATime
  <2> QED
    BY <2>1, <2>2
<1>2. Empty!FinishAlwaysValidates
  BY DEF EmptyInv, Reckons, Empty!FinishAlwaysValidates
<1>3. Empty!HistoryIsTrue
  <2> SUFFICES ASSUME NEW s \in Emptiers, NEW e \in may["history"][s] PROVE Tells(s, Empty!Reading(e))
    BY DEF Empty!HistoryIsTrue, Tells
  <2>1. /\ e \in EmptyEntries
        /\ e.rec.state = "None" => e.rec = Empty!NoRecord
        /\ e.rec.state = "Finished" => Tells(s, e.rec)
    BY DEF EmptyInv, EmptyTypeOK, EntriesTell, Empty!Stores
  <2>2. CASE e.marker \/ e.rec.state = "Started"
    <3>1. Empty!Reading(e) = Empty!Unconfirmed(e.rec)
      BY <2>2 DEF Empty!Reading
    <3>2. PICK u : u = Empty!Unconfirmed(e.rec)
      OBVIOUS
    <3>3. u.outcome = "TransportUnknown" /\ u.aggregate = "Unknown"
      BY <3>2 DEF Empty!Unconfirmed
    <3>4. ASSUME NEW i \in Retained PROVE u.obs[i] # "Absent"
      BY <3>2 DEF Empty!Unconfirmed
    <3>5. Tells(s, u)
      BY <3>3, <3>4 DEF Tells, Empty!Unresolved
    <3> QED
      BY <3>1, <3>2, <3>5
  <2>3. CASE ~e.marker /\ e.rec.state = "None"
    <3>1. Empty!Reading(e) = Empty!NoRecord
      BY <2>1, <2>3 DEF Empty!Reading
    <3> QED
      BY <3>1 DEF Tells, Empty!Unresolved, Empty!NoRecord
  <2>4. CASE ~e.marker /\ e.rec.state = "Finished"
    BY <2>1, <2>4 DEF Empty!Reading
  <2> QED
    BY <2>1, <2>2, <2>3, <2>4 DEF EmptyEntries, EmptyRecords
<1> QED
  BY <1>1, <1>2, <1>3 DEF EmptyInv

\* A session sends its event when all events before it are settled.
LEMMA OnlySettledBefore ==
  ASSUME EmptyInv, Empty!Next, sent' # sent
  PROVE  sent \subseteq settled
<1>1. \E s \in Emptiers : Empty!SendEvent(s)
  <2>1. ASSUME NEW s \in Emptiers, Empty!Step(s) PROVE Empty!SendEvent(s)
    BY <2>1 DEF Empty!Step, Empty!Prepare, Empty!BeginCheck, Empty!OpenGuard, Empty!OpenHistory, Empty!Refuse,
       Empty!PublishGuard, Empty!PublishHistory, Empty!Permit, Empty!ClaimDispatch, Empty!DoNotSend,
       Empty!FinderReplies, Empty!HostStopsWaiting, Empty!FinderEnds, Empty!Expire, Empty!FinishObserve,
       Empty!PublishOutcome, Empty!ClearGuard, Empty!SessionEnds, Empty!world
  <2> QED
    BY <2>1 DEF Empty!Next, Empty!TrashChanges, Empty!ArchiveHistory, Empty!PowerFailure, Empty!world
<1>2. PICK s \in Emptiers : phase[s] = "claimed"
  BY <1>1 DEF Empty!SendEvent
<1> QED
  BY <1>2 DEF EmptyInv, Excludes, Asking

----------------------------------------------------------------------------
(* The purge host.  A worker's ids are resolved against the preview before *)
(* its session is prepared, the session plans all of them in their order,  *)
(* and what has left its place is never again the object that was shown.   *)

FileStates == {"shown", "other", "gone"}
RowStates == {"moved", "skipped", "failed", "unknown"}
HostNames == {Purge!Items[i].name : i \in Purge!Ids}
Captures == [HostNames -> FileStates] \cup {<<>>}

HostEnds == {"none", "refused", "error", "failed", "complete", "partial"}
HostRuns ==
  [at : {"none", "check", "prepare", "move", "done"}, plan : Seq(Nat), captured : Captures,
   rows : Seq(RowStates), reply : Seq([id : Nat, status : RowStates]), end : HostEnds]
HostJobs == [state : {"none", "open", "closed"}, ids : Seq(Nat), cancelled : BOOLEAN]
Moves == [id : Nat, as : FileStates]

HostTypeOK ==
  /\ case \in HostCases
  /\ job \in [HostWorkers -> HostJobs] /\ run \in [HostWorkers -> HostRuns]
  /\ file \in [HostNames -> FileStates] /\ moved \in [HostWorkers -> SUBSET Moves]

\* What the reply to the preview offers, and what a worker has moved.
Offered(i) ==
  i \in Purge!Ids /\ Purge!ShownSupported(Purge!Items[i]) /\ ~Purge!Excluded(Purge!Items[i])
Identified == Purge!Profile \in {"caches", "finder"}
HasMoved(w, i) == \E m \in moved[w] : m.id = i

\* A worker and its request.
Resolves(w) ==
  /\ job[w].state = "none" => run[w].at = "none"
  /\ run[w].at \in {"check", "prepare", "move"} => Purge!Profile # "worktrees"
  /\ run[w].at \in {"none", "check", "prepare"} => moved[w] = {} /\ run[w].rows = <<>>
  /\ run[w].at \in {"prepare", "move"} => \A k \in 1..Len(job[w].ids) : Offered(job[w].ids[k])

\* What it has moved, against the rows of its receipt and of its reply.
PairsRows(w) ==
  /\ run[w].plan = job[w].ids /\ Len(run[w].rows) <= Len(run[w].plan)
  /\ run[w].captured \in [HostNames -> FileStates]
  /\ Identified => \A k \in 1..Len(run[w].plan) : run[w].captured[Purge!Items[run[w].plan[k]].name] = "shown"
  /\ \A i \in Purge!Ids :
       HasMoved(w, i) <=> \E k \in 1..Len(run[w].rows) : run[w].rows[k] = "moved" /\ run[w].plan[k] = i
PairsReply(w) ==
  /\ \A i \in Purge!Ids :
       HasMoved(w, i) <=> \E k \in 1..Len(run[w].reply) : run[w].reply[k].status = "moved" /\ run[w].reply[k].id = i
  /\ \A k \in 1..Len(run[w].reply) : run[w].reply[k].status = "moved" => run[w].reply[k].id \in Purge!Ids
Pairs(w) ==
  /\ run[w].at = "move" => PairsRows(w)
  /\ run[w].at = "done" => PairsReply(w)

\* What has left.
HasLeft ==
  /\ \A w \in HostWorkers : \A m \in moved[w] : Offered(m.id) /\ file[Purge!Items[m.id].name] # "shown"
  /\ Identified => \A v, w \in HostWorkers : \A m \in moved[v], n \in moved[w] : m.id = n.id => v = w

HostInv ==
  /\ HostTypeOK
  /\ result # <<>> => result = <<Purge!Reply>>
  /\ HasLeft
  /\ \A w \in HostWorkers : Resolves(w) /\ Pairs(w)

HostHolds(w) == Resolves(w) /\ Pairs(w)

\* The inputs do not change, nor what is read off them.
LEMMA HostCaseFixed ==
  ASSUME case' = case
  PROVE  /\ Purge!Items' = Purge!Items /\ Purge!Ids' = Purge!Ids /\ Purge!Reply' = Purge!Reply
         /\ Purge!Profile' = Purge!Profile /\ Identified' = Identified
         /\ HostNames' = HostNames /\ Captures' = Captures /\ HostRuns' = HostRuns
         /\ \A i : Offered(i)' = Offered(i)
<1>1. Purge!Items' = Purge!Items /\ Purge!Profile' = Purge!Profile
  BY DEF Purge!Items, Purge!Profile
<1>2. Purge!Ids' = Purge!Ids
  BY <1>1 DEF Purge!Ids
<1>3. \A x : (Purge!ShownSupported(x) <=> Purge!ShownSupported(x)') /\ (Purge!Excluded(x) <=> Purge!Excluded(x)')
  BY <1>1 DEF Purge!ShownSupported, Purge!ArtifactSupported, Purge!CacheSupported, Purge!FinderSupported, Purge!Excluded
<1>4. Purge!Reply' = Purge!Reply
  BY <1>1, <1>2 DEF Purge!Reply, Purge!ShownSupported, Purge!ArtifactSupported, Purge!CacheSupported,
     Purge!FinderSupported, Purge!Excluded, Purge!Reasons, Purge!SumKnown, Purge!SumPrivate
<1>5. HostNames' = HostNames /\ Captures' = Captures /\ HostRuns' = HostRuns
  BY <1>1, <1>2 DEF HostNames, Captures, HostRuns
<1> QED
  BY <1>1, <1>2, <1>3, <1>4, <1>5 DEF Identified, Offered

\* A worker that a step leaves alone.
LEMMA IdleWorker ==
  ASSUME HostInv, case' = case, NEW w \in HostWorkers,
         job'[w].state = job[w].state, job'[w].ids = job[w].ids, run'[w] = run[w], moved'[w] = moved[w]
  PROVE  HostHolds(w)'
<1>1. Resolves(w) /\ Pairs(w)
  BY DEF HostInv
<1>2. \A i : HasMoved(w, i)' <=> HasMoved(w, i)
  BY DEF HasMoved
<1>3. Resolves(w)'
  BY <1>1, HostCaseFixed DEF Resolves
<1>4. Pairs(w)'
  BY <1>1, <1>2, HostCaseFixed DEF Pairs, PairsRows, PairsReply
<1> QED
  BY <1>3, <1>4 DEF HostHolds

\* A step that moves nothing.
LEMMA NothingLeaves ==
  ASSUME HostInv, case' = case, moved' = moved,
         file' \in [HostNames -> FileStates], \A x \in HostNames : file'[x] = "shown" => file[x] = "shown"
  PROVE  HasLeft'
<1>1. HasLeft /\ moved \in [HostWorkers -> SUBSET Moves]
  BY DEF HostInv, HostTypeOK
<1>2. ASSUME NEW w \in HostWorkers, NEW m \in moved[w]
      PROVE  Offered(m.id)' /\ (file[Purge!Items[m.id].name] # "shown")'
  <2>1. Offered(m.id) /\ file[Purge!Items[m.id].name] # "shown"
    BY <1>1 DEF HasLeft
  <2>2. Purge!Items[m.id].name \in HostNames
    BY <2>1 DEF Offered, HostNames
  <2> QED
    BY <2>1, <2>2, HostCaseFixed
<1> QED
  BY <1>1, <1>2, HostCaseFixed DEF HasLeft

\* The calls of the host that touch no worker.
LEMMA HostCallsKeep ==
  ASSUME HostInv, Purge!StartPreview \/ Purge!PreviewEnds \/ Purge!AskPreview \/ Purge!Interfere
  PROVE  HostInv'
<1>1. UNCHANGED <<case, job, run, moved>>
  BY DEF Purge!StartPreview, Purge!PreviewEnds, Purge!AskPreview, Purge!Interfere
<1>2. HostTypeOK /\ (result # <<>> => result = <<Purge!Reply>>)
  BY DEF HostInv
<1>3. /\ file' \in [HostNames -> FileStates]
      /\ \A x \in HostNames : file'[x] = "shown" => file[x] = "shown"
  <2>1. CASE UNCHANGED file
    BY <2>1, <1>2 DEF HostTypeOK
  <2>2. CASE Purge!Interfere
    BY <2>2, <1>2 DEF Purge!Interfere, HostTypeOK, FileStates
  <2> QED
    BY <2>1, <2>2 DEF Purge!StartPreview, Purge!PreviewEnds, Purge!AskPreview, Purge!machine
<1>4. (result # <<>> => result = <<Purge!Reply>>)'
  <2>1. result' = result \/ result' = <<Purge!Reply>>
    BY DEF Purge!StartPreview, Purge!PreviewEnds, Purge!AskPreview, Purge!Interfere
  <2> QED
    BY <1>1, <1>2, <2>1, HostCaseFixed
<1>5. HostTypeOK'
  BY <1>1, <1>2, <1>3, HostCaseFixed DEF HostTypeOK
<1>6. \A w \in HostWorkers : HostHolds(w)'
  BY <1>1, IdleWorker
<1> QED
  BY <1>1, <1>3, <1>4, <1>5, <1>6, NothingLeaves DEF HostInv, HostHolds

\* A step of one worker's request that moves nothing.
LEMMA RequestKeeps ==
  ASSUME HostInv, NEW w \in HostWorkers, NEW j \in HostJobs, NEW u \in HostRuns,
         UNCHANGED <<case, result, file, moved>>,
         job' = [job EXCEPT ![w] = j], run' = [run EXCEPT ![w] = u], HostHolds(w)'
  PROVE  HostInv'
<1>1. HostTypeOK
  BY DEF HostInv
<1>2. HostTypeOK'
  BY <1>1, HostCaseFixed DEF HostTypeOK
<1>3. ASSUME NEW v \in HostWorkers PROVE HostHolds(v)'
  <2>1. CASE v # w
    BY <1>1, <2>1, IdleWorker DEF HostTypeOK
  <2> QED
    BY <2>1
<1>4. HasLeft'
  BY <1>1, NothingLeaves DEF HostTypeOK
<1> QED
  BY <1>2, <1>3, <1>4, HostCaseFixed DEF HostInv, HostHolds

\* The handles.
LEMMA CancelKeeps ==
  ASSUME HostInv, NEW w \in HostWorkers, Purge!Cancel(w) PROVE HostInv'
<1>1. HostTypeOK /\ UNCHANGED <<case, result, file, moved, run>>
  BY DEF HostInv, Purge!Cancel, Purge!machine
<1>2. PICK j : j = [job[w] EXCEPT !.cancelled = TRUE]
  OBVIOUS
<1>3. j \in HostJobs /\ j.state = job[w].state /\ j.ids = job[w].ids
  BY <1>1, <1>2 DEF HostTypeOK, HostJobs
<1>4. job' = [job EXCEPT ![w] = j] /\ run' = [run EXCEPT ![w] = run[w]] /\ run[w] \in HostRuns
  BY <1>1, <1>2 DEF Purge!Cancel, HostTypeOK
<1>5. HostHolds(w)'
  BY <1>1, <1>3, <1>4, IdleWorker DEF HostTypeOK
<1> QED
  BY <1>1, <1>3, <1>4, <1>5, RequestKeeps

LEMMA ReleaseKeeps ==
  ASSUME HostInv, NEW w \in HostWorkers, Purge!Release(w) PROVE HostInv'
<1>1. HostTypeOK /\ UNCHANGED <<case, result, file, moved, run>>
  BY DEF HostInv, Purge!Release, Purge!machine
<1>2. PICK j : j = IF w = Purge!Preview THEN job[w] ELSE [state |-> "closed", ids |-> <<>>, cancelled |-> FALSE]
  OBVIOUS
<1>3. j \in HostJobs
  BY <1>1, <1>2 DEF HostTypeOK, HostJobs
<1>4. job' = [job EXCEPT ![w] = j] /\ run' = [run EXCEPT ![w] = run[w]] /\ run[w] \in HostRuns
  BY <1>1, <1>2 DEF Purge!Release, HostTypeOK
<1>5. HostHolds(w)'
  <2>1. CASE w = Purge!Preview
    BY <1>1, <1>2, <1>4, <2>1, IdleWorker DEF HostTypeOK
  <2>2. CASE w # Purge!Preview
    <3>1. run'[w] = run[w] /\ run[w].at = "done" /\ job'[w].state = "closed"
      BY <1>1, <1>2, <1>4, <2>2 DEF Purge!Release, HostTypeOK
    <3>2. Pairs(w)
      BY DEF HostInv
    <3>3. \A i : HasMoved(w, i)' <=> HasMoved(w, i)
      BY <1>1 DEF HasMoved
    <3> QED
      BY <1>1, <3>1, <3>2, <3>3, HostCaseFixed DEF HostHolds, Pairs, PairsReply, Resolves
  <2> QED
    BY <2>1, <2>2
<1> QED
  BY <1>1, <1>3, <1>4, <1>5, RequestKeeps

LEMMA PreviewReleaseKeeps == ASSUME HostInv, Purge!Release(Purge!Preview) PROVE HostInv'
<1>1. HostTypeOK /\ UNCHANGED <<case, result, file, moved, run, job>>
  BY DEF HostInv, Purge!Release, Purge!machine
<1>2. HostTypeOK'
  BY <1>1, HostCaseFixed DEF HostTypeOK
<1>3. \A w \in HostWorkers : HostHolds(w)'
  BY <1>1, IdleWorker
<1>4. HasLeft'
  BY <1>1, NothingLeaves DEF HostTypeOK
<1> QED
  BY <1>1, <1>2, <1>3, <1>4, HostCaseFixed DEF HostInv, HostHolds

\* sayaka_purge_execute_start_v1
LEMMA StartKeeps ==
  ASSUME Purge!PurgeHostAssumption, HostInv, NEW w \in HostWorkers, NEW r \in HostRequests, Purge!ExecuteStart(w, r)
  PROVE  HostInv'
<1>1. HostTypeOK /\ UNCHANGED <<case, result, file, moved>>
  BY DEF HostInv, Purge!ExecuteStart, Purge!machine
<1>2. CASE UNCHANGED <<job, run>>
  <2>1. job' = [job EXCEPT ![w] = job[w]] /\ run' = [run EXCEPT ![w] = run[w]]
    BY <1>1, <1>2 DEF HostTypeOK
  <2>2. job[w] \in HostJobs /\ run[w] \in HostRuns
    BY <1>1 DEF HostTypeOK
  <2> QED
    BY <1>1, <1>2, <2>1, <2>2, IdleWorker, RequestKeeps
<1>3. CASE Purge!Accepted(r)
  <2>1. PICK j, u : j = [job[w] EXCEPT !.state = "open", !.ids = r.ids] /\ u = [run[w] EXCEPT !.at = "check"]
    OBVIOUS
  <2>2. r.ids \in Seq(Nat) /\ Purge!Profile # "worktrees"
    BY <1>3 DEF Purge!PurgeHostAssumption, Purge!Accepted, Purge!ApprovalHolds
  <2>3. j \in HostJobs /\ j.state = "open"
    BY <1>1, <2>1, <2>2 DEF HostTypeOK, HostJobs
  <2>4. u \in HostRuns /\ u.at = "check" /\ u.rows = run[w].rows
    BY <1>1, <2>1 DEF HostTypeOK, HostRuns
  <2>5. job' = [job EXCEPT ![w] = j] /\ run' = [run EXCEPT ![w] = u]
    BY <1>1, <1>3, <2>1 DEF Purge!ExecuteStart, HostTypeOK
  <2>6. moved'[w] = {} /\ run[w].rows = <<>>
    BY <1>1 DEF HostInv, Resolves, Purge!ExecuteStart
  <2>7. job'[w] = j /\ run'[w] = u
    BY <1>1, <2>5 DEF HostTypeOK
  <2>8. HostHolds(w)'
    BY <1>1, <2>2, <2>3, <2>4, <2>6, <2>7, HostCaseFixed DEF HostHolds, Resolves, Pairs
  <2> QED
    BY <1>1, <2>3, <2>4, <2>5, <2>8, RequestKeeps
<1> QED
  BY <1>2, <1>3 DEF Purge!ExecuteStart

----------------------------------------------------------------------------
(* The worker.                                                             *)

\* A refusal ends a worker that has moved nothing.
LEMMA RefusalKeeps ==
  ASSUME HostInv, NEW w \in HostWorkers, NEW why \in {"refused", "error"}, run[w].at \in {"check", "prepare"},
         UNCHANGED <<case, result, file, moved, job>>, Purge!Refuse(w, why)
  PROVE  HostInv'
<1>1. HostTypeOK /\ moved[w] = {}
  BY DEF HostInv, Resolves
<1>2. PICK u : u = [run[w] EXCEPT !.at = "done", !.reply = <<>>, !.end = why]
  OBVIOUS
<1>7. run[w] \in HostRuns /\ <<>> \in Seq([id : Nat, status : RowStates])
  BY <1>1 DEF HostTypeOK
<1>3. u \in HostRuns /\ u.at = "done" /\ u.reply = <<>>
  BY <1>2, <1>7 DEF HostRuns, HostEnds
<1>4. run' = [run EXCEPT ![w] = u] /\ job' = [job EXCEPT ![w] = job[w]] /\ job[w] \in HostJobs
  BY <1>1, <1>2 DEF Purge!Refuse, HostTypeOK
<1>5. run'[w] = u /\ job[w].state # "none"
  BY <1>1, <1>4 DEF HostInv, HostTypeOK, Resolves
<1>6. HostHolds(w)'
  BY <1>1, <1>3, <1>5, HostCaseFixed DEF HostHolds, Resolves, Pairs, PairsReply, HasMoved
<1> QED
  BY <1>1, <1>3, <1>4, <1>6, RequestKeeps

LEMMA HostSets == \A s : Purge!ToSet(s) = {s[i] : i \in DOMAIN s}
  BY DEF Purge!ToSet

\* What a worker resolves, the reply has offered.
LEMMA ResolvedIsOffered ==
  ASSUME Purge!PurgeHostAssumption, HostInv, NEW i \in Nat,
         Purge!Selectable(i), case.complete, ~Purge!Excluded(Purge!Items[i]), Purge!Profile # "worktrees"
  PROVE  Offered(i)
<1>1. Purge!Profile \in {"projects", "caches", "finder"}
  BY DEF Purge!PurgeHostAssumption, HostInv, HostTypeOK, Purge!Profile
<1> QED
  BY <1>1 DEF Offered, Purge!Selectable, Purge!ArtifactSelectable, Purge!CacheSelectable, Purge!FinderSelectable,
     Purge!ShownSupported, Purge!ArtifactSupported, Purge!CacheSupported, Purge!FinderSupported

LEMMA CheckKeeps ==
  ASSUME Purge!PurgeHostAssumption, HostInv, NEW w \in HostWorkers, Purge!CheckPreview(w) PROVE HostInv'
<1>1. HostTypeOK /\ UNCHANGED <<case, result, file, moved, job>> /\ run[w].at = "check"
  BY DEF HostInv, Purge!CheckPreview, Purge!machine
<1>2. CASE \E why \in {"refused", "error"} : Purge!Refuse(w, why)
  <2>1. PICK why \in {"refused", "error"} : Purge!Refuse(w, why)
    BY <1>2
  <2> QED
    BY <1>1, <2>1, RefusalKeeps
<1>3. CASE ~\E why \in {"refused", "error"} : Purge!Refuse(w, why)
  <2>1. case.complete /\ Purge!Resolved(w) /\ run' = [run EXCEPT ![w].at = "prepare"]
    BY <1>3 DEF Purge!CheckPreview
  <2>2. case.bound => \A i \in Purge!ToSet(job[w].ids) : ~Purge!Excluded(Purge!Items[i])
    BY <1>3 DEF Purge!CheckPreview
  <2>3. PICK u : u = [run[w] EXCEPT !.at = "prepare"]
    OBVIOUS
  <2>4. u \in HostRuns /\ u.at = "prepare" /\ u.rows = run[w].rows
    BY <1>1, <2>3 DEF HostTypeOK, HostRuns
  <2>5. run' = [run EXCEPT ![w] = u] /\ job' = [job EXCEPT ![w] = job[w]] /\ job[w] \in HostJobs
    BY <1>1, <2>1, <2>3 DEF HostTypeOK
  <2>6. run'[w] = u
    BY <1>1, <2>5 DEF HostTypeOK
  <2>7. ASSUME NEW k \in 1..Len(job[w].ids) PROVE Offered(job[w].ids[k])
    <3>1. job[w].ids \in Seq(Nat)
      BY <2>5 DEF HostJobs
    <3>2. job[w].ids[k] \in Nat /\ job[w].ids[k] \in Purge!ToSet(job[w].ids)
      BY <3>1, HostSets
    <3>3. Purge!Selectable(job[w].ids[k]) /\ ~Purge!Excluded(Purge!Items[job[w].ids[k]])
      BY <2>1, <2>2, <3>2 DEF Purge!Resolved, Purge!Excluded
    <3>4. Purge!Profile # "worktrees"
      BY <1>1 DEF HostInv, Resolves
    <3> QED
      BY <2>1, <3>2, <3>3, <3>4, ResolvedIsOffered
  <2>8. HostHolds(w)'
    <3>1. Resolves(w)
      BY DEF HostInv
    <3> QED
      BY <1>1, <2>4, <2>6, <2>7, <3>1, HostCaseFixed DEF HostHolds, Resolves, Pairs
  <2> QED
    BY <1>1, <2>4, <2>5, <2>8, RequestKeeps
<1> QED
  BY <1>2, <1>3

\* The session plans the whole selection, in its order.
LEMMA PrepareKeeps ==
  ASSUME HostInv, NEW w \in HostWorkers, Purge!Prepare(w) PROVE HostInv'
<1>1. HostTypeOK /\ UNCHANGED <<case, result, file, moved, job>> /\ run[w].at = "prepare"
  BY DEF HostInv, Purge!Prepare, Purge!machine
<1>2. CASE Purge!Refuse(w, "refused")
  BY <1>1, <1>2, RefusalKeeps
<1>3. CASE ~Purge!Refuse(w, "refused")
  <2>1. PICK missing : /\ missing = {i \in Purge!ToSet(job[w].ids) : file[Purge!Items[i].name] = "gone"}
                       /\ Purge!WholeSelection(w, missing)
                       /\ \A i \in Purge!ToSet(job[w].ids) \ missing : Purge!IdentityHolds(Purge!Items[i].name)
                       /\ run' = [run EXCEPT ![w].at = "move", ![w].plan = Purge!Present(job[w].ids, missing),
                                             ![w].captured = [x \in DOMAIN file |-> file[x]]]
    BY <1>3 DEF Purge!Prepare
  <2>2. missing = {} /\ Purge!Present(job[w].ids, missing) = job[w].ids
    BY <2>1 DEF Purge!WholeSelection, Purge!Present
  <2>3. PICK u : u = [run[w] EXCEPT !.at = "move", !.plan = job[w].ids, !.captured = file]
    OBVIOUS
  <2>4. /\ job[w] \in HostJobs /\ run[w] \in HostRuns /\ file \in [HostNames -> FileStates]
        /\ job[w].ids \in Seq(Nat) /\ Resolves(w)
    BY <1>1 DEF HostInv, HostTypeOK, HostJobs
  <2>5. u \in HostRuns /\ u.at = "move" /\ u.plan = job[w].ids /\ u.captured = file /\ u.rows = run[w].rows
    BY <2>3, <2>4 DEF HostRuns, Captures
  <2>6. run' = [run EXCEPT ![w] = u] /\ job' = [job EXCEPT ![w] = job[w]]
    <3>1. [x \in DOMAIN file |-> file[x]] = file
      BY <2>4
    <3> QED
      BY <1>1, <2>1, <2>2, <2>3, <3>1 DEF HostTypeOK
  <2>7. run'[w] = u
    BY <1>1, <2>6 DEF HostTypeOK
  <2>8. moved[w] = {} /\ run[w].rows = <<>> /\ \A k \in 1..Len(job[w].ids) : Offered(job[w].ids[k])
    BY <1>1, <2>4 DEF Resolves
  <2>9. Identified => \A k \in 1..Len(job[w].ids) : file[Purge!Items[job[w].ids[k]].name] = "shown"
    <3> SUFFICES ASSUME Identified, NEW k \in 1..Len(job[w].ids)
                 PROVE  file[Purge!Items[job[w].ids[k]].name] = "shown"
      OBVIOUS
    <3>1. job[w].ids[k] \in Purge!ToSet(job[w].ids)
      BY <2>4, HostSets
    <3> QED
      BY <2>1, <2>2, <3>1 DEF Purge!IdentityHolds, Identified
  <2>10. Pairs(w)'
    BY <1>1, <2>4, <2>5, <2>7, <2>8, <2>9, HostCaseFixed DEF Pairs, PairsRows, HasMoved
  <2>11. Resolves(w)'
    BY <1>1, <2>4, <2>5, <2>7, <2>8, HostCaseFixed DEF Resolves
  <2> QED
    BY <1>1, <2>4, <2>5, <2>6, <2>10, <2>11, RequestKeeps DEF HostHolds
<1> QED
  BY <1>2, <1>3

\* A row that tells of nothing moved.
LEMMA QuietRowKeeps ==
  ASSUME HostInv, NEW w \in HostWorkers, NEW s \in RowStates \ {"moved"},
         run[w].at = "move", Purge!Row(w) <= Len(run[w].plan),
         UNCHANGED <<case, result, file, moved, job>>, Purge!Ends(w, s)
  PROVE  HostInv'
<1>1. HostTypeOK /\ Resolves(w) /\ PairsRows(w)
  BY DEF HostInv, Pairs
<1>2. PICK u : u = [run[w] EXCEPT !.rows = Append(@, s)]
  OBVIOUS
<1>3. run[w] \in HostRuns /\ run[w].rows \in Seq(RowStates) /\ job[w] \in HostJobs
  BY <1>1 DEF HostTypeOK, HostRuns
<1>4. Append(run[w].rows, s) \in Seq(RowStates)
  BY <1>3
<1>5. /\ u \in HostRuns /\ u.at = "move" /\ u.plan = run[w].plan /\ u.captured = run[w].captured
      /\ u.rows = Append(run[w].rows, s)
  BY <1>2, <1>3, <1>4 DEF HostRuns
<1>6. run' = [run EXCEPT ![w] = u] /\ job' = [job EXCEPT ![w] = job[w]]
  BY <1>1, <1>2 DEF HostTypeOK, Purge!Ends
<1>7. run'[w] = u
  BY <1>1, <1>6 DEF HostTypeOK
<1>8. Resolves(w)'
  BY <1>1, <1>5, <1>7, HostCaseFixed DEF Resolves
<1>9. Len(u.rows) = Len(run[w].rows) + 1 /\ Len(u.rows) <= Len(u.plan)
  BY <1>3, <1>5 DEF Purge!Row
<1>10. \A i : (\E k \in 1..Len(u.rows) : u.rows[k] = "moved" /\ u.plan[k] = i)
         <=> \E k \in 1..Len(run[w].rows) : run[w].rows[k] = "moved" /\ run[w].plan[k] = i
  BY <1>3, <1>5, <1>9
<1>11. Pairs(w)'
  <2>1. \A i : HasMoved(w, i)' <=> HasMoved(w, i)
    BY DEF HasMoved
  <2>2. \A i \in Purge!Ids : HasMoved(w, i) <=> \E k \in 1..Len(u.rows) : u.rows[k] = "moved" /\ u.plan[k] = i
    BY <1>1, <1>10 DEF PairsRows
  <2>4. /\ u.plan = job[w].ids /\ Len(u.rows) <= Len(u.plan) /\ u.captured \in [HostNames -> FileStates]
        /\ Identified => \A k \in 1..Len(u.plan) : u.captured[Purge!Items[u.plan[k]].name] = "shown"
    BY <1>1, <1>5, <1>9 DEF PairsRows
  <2>5. job'[w] = job[w]
    OBVIOUS
  <2>3. PairsRows(w)'
    BY <1>7, <2>1, <2>2, <2>4, <2>5, HostCaseFixed DEF PairsRows
  <2> QED
    BY <1>5, <1>7, <2>3 DEF Pairs
<1> QED
  BY <1>1, <1>3, <1>5, <1>6, <1>8, <1>11, RequestKeeps DEF HostHolds

\* An item leaves.
LEMMA ItemLeaves ==
  ASSUME HostInv, NEW w \in HostWorkers, run[w].at = "move", Purge!Row(w) <= Len(run[w].plan),
         file[Purge!Next1(w)] = run[w].captured[Purge!Next1(w)], Purge!Ends(w, "moved"),
         file' = [file EXCEPT ![Purge!Next1(w)] = "gone"],
         moved' = [moved EXCEPT ![w] = @ \cup {[id |-> run[w].plan[Purge!Row(w)], as |-> file[Purge!Next1(w)]]}],
         UNCHANGED <<case, result, job>>
  PROVE  HostInv'
<1>1. HostTypeOK /\ Resolves(w) /\ PairsRows(w) /\ HasLeft
  BY DEF HostInv, Pairs
<1>2. PICK u : u = [run[w] EXCEPT !.rows = Append(@, "moved")]
  OBVIOUS
<1>3. run[w] \in HostRuns /\ run[w].rows \in Seq(RowStates) /\ job[w] \in HostJobs /\ run[w].plan \in Seq(Nat)
  BY <1>1 DEF HostTypeOK, HostRuns
<1>4. Append(run[w].rows, "moved") \in Seq(RowStates)
  BY <1>3 DEF RowStates
<1>5. /\ u \in HostRuns /\ u.at = "move" /\ u.plan = run[w].plan /\ u.captured = run[w].captured
      /\ u.rows = Append(run[w].rows, "moved")
  BY <1>2, <1>3, <1>4 DEF HostRuns
<1>6. run' = [run EXCEPT ![w] = u]
  BY <1>1, <1>2 DEF HostTypeOK, Purge!Ends
<1>7. run'[w] = u
  BY <1>1, <1>6 DEF HostTypeOK
<1>8. Len(u.rows) = Len(run[w].rows) + 1 /\ Len(u.rows) <= Len(u.plan) /\ Purge!Row(w) \in 1..Len(run[w].plan)
  BY <1>3, <1>5 DEF Purge!Row
<1>9. PICK id : id = run[w].plan[Purge!Row(w)]
  OBVIOUS
<1>10. id \in Nat /\ Offered(id) /\ Purge!Next1(w) = Purge!Items[id].name
  <2>1. run[w].plan = job[w].ids /\ Offered(job[w].ids[Purge!Row(w)])
    BY <1>1, <1>8 DEF Resolves, PairsRows
  <2>2. id \in Nat
    BY <1>3, <1>8, <1>9
  <2> QED
    BY <1>9, <2>1, <2>2 DEF Purge!Next1
<1>11. PICK x : x = Purge!Next1(w)
  OBVIOUS
<1>12. x \in HostNames /\ file[x] \in FileStates
  BY <1>1, <1>10, <1>11 DEF Offered, HostNames, HostTypeOK
<1>13. PICK m : m = [id |-> id, as |-> file[x]]
  OBVIOUS
<1>14. m \in Moves /\ m.id = id /\ moved' = [moved EXCEPT ![w] = @ \cup {m}]
  BY <1>9, <1>10, <1>11, <1>12, <1>13 DEF Moves
<1>15. file' = [file EXCEPT ![x] = "gone"]
  BY <1>11
<1>16. HostTypeOK'
  <2>1. file' \in [HostNames -> FileStates]
    BY <1>1, <1>15 DEF HostTypeOK, FileStates
  <2>2. moved' \in [HostWorkers -> SUBSET Moves]
    BY <1>1, <1>14 DEF HostTypeOK
  <2>3. run' \in [HostWorkers -> HostRuns]
    BY <1>1, <1>5, <1>6 DEF HostTypeOK
  <2> QED
    BY <1>1, <2>1, <2>2, <2>3, HostCaseFixed DEF HostTypeOK
<1>17. \A i : HasMoved(w, i)' <=> HasMoved(w, i) \/ i = id
  BY <1>1, <1>14 DEF HasMoved, HostTypeOK
<1>18. \A i : (\E k \in 1..Len(u.rows) : u.rows[k] = "moved" /\ u.plan[k] = i)
         <=> i = id \/ \E k \in 1..Len(run[w].rows) : run[w].rows[k] = "moved" /\ run[w].plan[k] = i
  <2>1. u.rows[Len(run[w].rows) + 1] = "moved" /\ u.plan[Len(run[w].rows) + 1] = id
    BY <1>3, <1>5, <1>9 DEF Purge!Row
  <2>2. \A k \in 1..Len(run[w].rows) : u.rows[k] = run[w].rows[k]
    BY <1>3, <1>5
  <2>3. \A k : k \in 1..Len(u.rows) <=> k \in 1..Len(run[w].rows) \/ k = Len(run[w].rows) + 1
    BY <1>3, <1>8
  <2> QED
    BY <1>5, <2>1, <2>2, <2>3
<1>19. HostHolds(w)'
  <2>1. Resolves(w)'
    BY <1>1, <1>5, <1>7, HostCaseFixed DEF Resolves
  <2>3. \A i \in Purge!Ids : HasMoved(w, i)' <=> \E k \in 1..Len(u.rows) : u.rows[k] = "moved" /\ u.plan[k] = i
    BY <1>1, <1>17, <1>18 DEF PairsRows
  <2>5. /\ u.plan = job[w].ids /\ Len(u.rows) <= Len(u.plan) /\ u.captured \in [HostNames -> FileStates]
        /\ Identified => \A k \in 1..Len(u.plan) : u.captured[Purge!Items[u.plan[k]].name] = "shown"
    BY <1>1, <1>5, <1>8 DEF PairsRows
  <2>6. job'[w] = job[w]
    OBVIOUS
  <2>4. PairsRows(w)'
    BY <1>7, <2>3, <2>5, <2>6, HostCaseFixed DEF PairsRows
  <2>2. Pairs(w)'
    BY <1>5, <1>7, <2>4 DEF Pairs
  <2> QED
    BY <2>1, <2>2 DEF HostHolds
<1>20. ASSUME NEW v \in HostWorkers PROVE HostHolds(v)'
  <2>1. CASE v # w
    BY <1>1, <1>6, <1>14, <2>1, IdleWorker DEF HostTypeOK
  <2> QED
    BY <1>19, <2>1
<1>21. HasLeft'
  <2>1. \A v \in HostWorkers : \A n \in moved'[v] : (n = m /\ v = w) \/ n \in moved[v]
    BY <1>1, <1>14 DEF HostTypeOK
  <2>2. ASSUME NEW v \in HostWorkers, NEW n \in moved'[v]
        PROVE  Offered(n.id) /\ file'[Purge!Items[n.id].name] # "shown"
    <3>1. CASE n = m
      BY <1>1, <1>10, <1>11, <1>12, <1>14, <1>15, <3>1 DEF HostTypeOK
    <3>2. CASE n \in moved[v]
      <4>1. Offered(n.id) /\ file[Purge!Items[n.id].name] # "shown"
        BY <1>1, <3>2 DEF HasLeft
      <4>2. Purge!Items[n.id].name \in HostNames
        BY <4>1 DEF Offered, HostNames
      <4> QED
        BY <1>1, <1>15, <4>1, <4>2 DEF HostTypeOK
    <3> QED
      BY <2>1, <3>1, <3>2
  <2>3. Identified => file[x] = "shown"
    BY <1>1, <1>8, <1>9, <1>10, <1>11 DEF PairsRows
  <2>4. Identified => \A v \in HostWorkers : \A n \in moved[v] : n.id # id
    BY <1>1, <1>10, <1>11, <2>3 DEF HasLeft
  <2>5. Identified => \A v, y \in HostWorkers : \A n \in moved'[v], o \in moved'[y] : n.id = o.id => v = y
    BY <1>1, <1>14, <2>1, <2>4 DEF HasLeft
  <2> QED
    BY <2>2, <2>5, HostCaseFixed DEF HasLeft
<1> QED
  BY <1>16, <1>20, <1>21, HostCaseFixed DEF HostInv, HostHolds

\* approve and execute, one item at a time.
LEMMA MoveKeeps ==
  ASSUME HostInv, NEW w \in HostWorkers, Purge!MoveNext(w) PROVE HostInv'
<1>1. UNCHANGED <<case, result, job>> /\ run[w].at = "move" /\ Purge!Row(w) <= Len(run[w].plan)
  BY DEF Purge!MoveNext
<1>2. CASE \E s \in {"skipped", "failed", "unknown"} : Purge!Ends(w, s) /\ UNCHANGED <<file, moved>>
  <2>1. PICK s \in RowStates \ {"moved"} : Purge!Ends(w, s) /\ UNCHANGED <<file, moved>>
    BY <1>2 DEF RowStates
  <2> QED
    BY <1>1, <2>1, QuietRowKeeps
<1>3. CASE ~\E s \in {"skipped", "failed", "unknown"} : Purge!Ends(w, s) /\ UNCHANGED <<file, moved>>
  <2>1. /\ file[Purge!Next1(w)] = run[w].captured[Purge!Next1(w)] /\ Purge!Ends(w, "moved")
        /\ file' = [file EXCEPT ![Purge!Next1(w)] = "gone"]
        /\ moved' = [moved EXCEPT ![w] = @ \cup {[id |-> run[w].plan[Purge!Row(w)], as |-> file[Purge!Next1(w)]]}]
    BY <1>3 DEF Purge!MoveNext
  <2> QED
    BY <1>1, <2>1, ItemLeaves
<1> QED
  BY <1>2, <1>3

LEMMA ListOfLength ==
  ASSUME NEW S, NEW n \in Nat, NEW R \in [1..n -> S] PROVE R \in Seq(S) /\ Len(R) = n
  OBVIOUS

\* execution_json
LEMMA ReportKeeps ==
  ASSUME HostInv, NEW w \in HostWorkers, Purge!Report(w) PROVE HostInv'
<1>1. /\ HostTypeOK /\ Resolves(w) /\ PairsRows(w) /\ UNCHANGED <<case, result, file, moved, job>>
      /\ run[w].at = "move" /\ Purge!Row(w) > Len(run[w].plan)
  BY DEF HostInv, Pairs, Purge!Report, Purge!machine
<1>2. run[w] \in HostRuns /\ run[w].rows \in Seq(RowStates) /\ run[w].plan \in Seq(Nat) /\ job[w] \in HostJobs
  BY <1>1 DEF HostTypeOK, HostRuns
<1>3. PICK R : R = [k \in DOMAIN run[w].rows |-> [id |-> job[w].ids[k], status |-> Purge!RowStatus(run[w].rows[k])]]
  OBVIOUS
<1>4. PICK e : e = IF "unknown" \in Purge!ToSet(run[w].rows) THEN "failed"
                   ELSE IF Purge!ToSet(run[w].rows) \subseteq {"moved"} THEN "complete" ELSE "partial"
  OBVIOUS
<1>5. PICK u : u = [run[w] EXCEPT !.at = "done", !.plan = <<>>, !.captured = <<>>, !.rows = <<>>, !.reply = R, !.end = e]
  OBVIOUS
<1>6. run' = [run EXCEPT ![w] = u] /\ job' = [job EXCEPT ![w] = job[w]]
  BY <1>1, <1>3, <1>4, <1>5 DEF HostTypeOK, Purge!Report
<1>7. run[w].plan = job[w].ids /\ Len(run[w].rows) <= Len(run[w].plan) /\ DOMAIN run[w].rows = 1..Len(run[w].rows)
  BY <1>1, <1>2 DEF PairsRows
<1>8. \A k \in 1..Len(run[w].rows) : /\ run[w].rows[k] \in RowStates /\ run[w].plan[k] \in Nat
                                     /\ Purge!RowStatus(run[w].rows[k]) = run[w].rows[k]
  BY <1>2, <1>7 DEF RowStates, Purge!RowStatus
<1>9. /\ R \in [1..Len(run[w].rows) -> [id : Nat, status : RowStates]]
      /\ \A k \in 1..Len(run[w].rows) : R[k].status = run[w].rows[k] /\ R[k].id = run[w].plan[k]
  BY <1>3, <1>7, <1>8
<1>10. R \in Seq([id : Nat, status : RowStates]) /\ Len(R) = Len(run[w].rows)
  <2>1. Len(run[w].rows) \in Nat
    BY <1>2
  <2> QED
    BY <1>9, <2>1, ListOfLength
<1>11. u \in HostRuns /\ u.at = "done" /\ u.reply = R
  <2>1. <<>> \in Seq(Nat) /\ <<>> \in Seq(RowStates) /\ <<>> \in Captures /\ e \in HostEnds
    BY <1>4 DEF Captures, HostEnds
  <2> QED
    BY <1>2, <1>5, <1>10, <2>1 DEF HostRuns
<1>12. run'[w] = u
  BY <1>1, <1>6 DEF HostTypeOK
<1>13. \A i : HasMoved(w, i)' <=> HasMoved(w, i)
  BY <1>1 DEF HasMoved
<1>14. \A i \in Purge!Ids : HasMoved(w, i) <=> \E k \in 1..Len(R) : R[k].status = "moved" /\ R[k].id = i
  <2> SUFFICES ASSUME NEW i \in Purge!Ids
               PROVE  HasMoved(w, i) <=> \E k \in 1..Len(R) : R[k].status = "moved" /\ R[k].id = i
    OBVIOUS
  <2>1. HasMoved(w, i) <=> \E k \in 1..Len(run[w].rows) : run[w].rows[k] = "moved" /\ run[w].plan[k] = i
    BY <1>1 DEF PairsRows
  <2> QED
    BY <1>9, <1>10, <2>1
<1>15. \A k \in 1..Len(R) : R[k].id \in Purge!Ids
  <2> SUFFICES ASSUME NEW k \in 1..Len(R) PROVE R[k].id \in Purge!Ids
    OBVIOUS
  <2>1. k \in 1..Len(run[w].rows) /\ k \in 1..Len(job[w].ids)
    BY <1>2, <1>7, <1>10
  <2>2. Offered(job[w].ids[k])
    BY <1>1, <2>1 DEF Resolves
  <2> QED
    BY <1>7, <1>9, <2>1, <2>2 DEF Offered
<1>16. PairsReply(w)'
  BY <1>1, <1>11, <1>12, <1>13, <1>14, <1>15, HostCaseFixed DEF PairsReply
<1>17. Resolves(w)'
  BY <1>1, <1>11, <1>12 DEF Resolves
<1>18. HostHolds(w)'
  BY <1>11, <1>12, <1>16, <1>17 DEF HostHolds, Pairs
<1> QED
  BY <1>1, <1>2, <1>6, <1>11, <1>18, RequestKeeps

LEMMA HostInitInv == ASSUME Purge!PurgeHostAssumption, Purge!Init PROVE HostInv
<1>1. case \in HostCases /\ Purge!Items \in Seq(Purge!ToSet(Purge!Items)) /\ DOMAIN case.items = Purge!Ids
  BY DEF Purge!Init, Purge!PurgeHostAssumption, Purge!Items, Purge!Ids
<1>2. file \in [HostNames -> FileStates]
  BY <1>1 DEF Purge!Init, HostNames, FileStates, Purge!Items
<1>3. \A w \in HostWorkers : /\ run[w].at = "none" /\ run[w].rows = <<>> /\ moved[w] = {}
                             /\ run[w] \in HostRuns /\ job[w] \in HostJobs
  <2>1. <<>> \in Seq(Nat) /\ <<>> \in Seq(RowStates) /\ <<>> \in Seq([id : Nat, status : RowStates]) /\ <<>> \in Captures
    BY DEF Captures
  <2> QED
    BY <2>1 DEF Purge!Init, HostRuns, HostJobs, HostEnds
<1>4. HostTypeOK
  BY <1>1, <1>2, <1>3 DEF Purge!Init, HostTypeOK
<1>5. HasLeft
  BY <1>3 DEF HasLeft
<1>6. result = <<>>
  BY DEF Purge!Init
<1> QED
  BY <1>3, <1>4, <1>5, <1>6 DEF HostInv, Resolves, Pairs

LEMMA HostNextInv == ASSUME Purge!PurgeHostAssumption, HostInv, Purge!Next PROVE HostInv'
<1>1. ASSUME NEW w \in HostWorkers, Purge!Worker(w) PROVE HostInv'
  BY <1>1, CheckKeeps, PrepareKeeps, MoveKeeps, ReportKeeps DEF Purge!Worker
<1> QED
  BY <1>1, HostCallsKeep, CancelKeeps, ReleaseKeeps, StartKeeps, PreviewReleaseKeeps DEF Purge!Next

\* What the invariant says of the properties.
LEMMA HostCounts == \A S : Purge!Cardinality(S) = Cardinality(S)
  BY DEF Purge!Cardinality, Cardinality

LEMMA HostInvImplies ==
  ASSUME HostInv
  PROVE  Purge!LeavesOncePerPreview /\ Purge!ReplyNamesTheItem /\ Purge!OnlyOfferedLeaves
<1>1. Purge!LeavesOncePerPreview
  <2> SUFFICES ASSUME Identified, NEW i \in Purge!Ids
               PROVE  Cardinality({w \in HostWorkers : \E m \in moved[w] : m.id = i}) <= 1
    BY HostCounts DEF Purge!LeavesOncePerPreview, Identified
  <2>1. PICK S : S = {w \in HostWorkers : \E m \in moved[w] : m.id = i}
    OBVIOUS
  <2>2. \A v, w \in S : v = w
    BY <2>1 DEF HostInv, HasLeft
  <2>3. CASE S = {}
    BY <2>1, <2>3, FS_EmptySet
  <2>4. CASE S # {}
    <3>1. PICK w \in S : TRUE
      BY <2>4
    <3>2. S = {w} /\ Cardinality({w}) = 1
      BY <2>2, <3>1, FS_Singleton
    <3> QED
      BY <2>1, <3>2
  <2> QED
    BY <2>3, <2>4
<1>2. Purge!ReplyNamesTheItem
  <2> SUFFICES ASSUME NEW w \in HostWorkers, run[w].at = "done"
               PROVE  {i \in Purge!Ids : \E m \in moved[w] : m.id = i}
                        = {k.id : k \in {k \in Purge!ToSet(run[w].reply) : k.status = "moved"}}
    BY DEF Purge!ReplyNamesTheItem
  <2>1. PairsReply(w) /\ run[w].reply \in Seq([id : Nat, status : RowStates])
    BY DEF HostInv, Pairs, HostTypeOK, HostRuns
  <2>2. Purge!ToSet(run[w].reply) = {run[w].reply[k] : k \in 1..Len(run[w].reply)}
    BY <2>1, HostSets
  <2>3. ASSUME NEW i
        PROVE  (i \in {n \in Purge!Ids : \E m \in moved[w] : m.id = n})
                 <=> \E k \in 1..Len(run[w].reply) : run[w].reply[k].status = "moved" /\ run[w].reply[k].id = i
    BY <2>1 DEF PairsReply, HasMoved
  <2>4. ASSUME NEW i
        PROVE  (i \in {k.id : k \in {k \in Purge!ToSet(run[w].reply) : k.status = "moved"}})
                 <=> \E k \in 1..Len(run[w].reply) : run[w].reply[k].status = "moved" /\ run[w].reply[k].id = i
    BY <2>2
  <2> QED
    BY <2>3, <2>4
<1>3. Purge!OnlyOfferedLeaves
  <2> SUFFICES ASSUME result # <<>>, NEW w \in HostWorkers, NEW m \in moved[w]
               PROVE  result[1].rows[m.id].supported /\ "protected_by_user" \notin result[1].rows[m.id].reasons
    BY DEF Purge!OnlyOfferedLeaves
  <2>1. Offered(m.id) /\ result = <<Purge!Reply>>
    BY DEF HostInv, HasLeft
  <2>2. Purge!Reply.rows[m.id] = [supported |-> Purge!ShownSupported(Purge!Items[m.id]), reasons |-> Purge!Reasons(Purge!Items[m.id])]
    BY <2>1 DEF Purge!Reply, Offered
  <2>3. "protected_by_user" \notin Purge!Reasons(Purge!Items[m.id])
    BY <2>1 DEF Offered, Purge!Reasons
  <2>4. Purge!Reply.rows[m.id].supported = Purge!ShownSupported(Purge!Items[m.id])
    BY <2>2
  <2> QED
    BY <2>1, <2>2, <2>3, <2>4 DEF Offered
<1> QED
  BY <1>1, <1>2, <1>3

----------------------------------------------------------------------------
(* The commands that move a batch.  Up to the prompt a batch that must     *)
(* leave whole has nothing rejected and nothing excluded; between its last *)
(* look and its native call an item goes wrong only by a change that is    *)
(* noted as fresh.                                                         *)

Aspects == {"file", "proof", "busy", "git", "nested", "policy"}
BatchRows == {"none", "planned", "skipped", "cancelled", "succeeded", "failed", "unknown"}
Early == {"gate", "check", "capture", "prompt", "approve", "open"}
Acting == {"native", "guard", "move"}
Standing == {"prompt", "approve", "open", "next"} \cup Acting

BatchTypeOK ==
  /\ case \in BatchCases /\ pc \in Early \cup Standing \cup {"ended"} /\ pos \in Nat
  /\ file \in [BatchItems -> FileStates] /\ proof \in [BatchItems -> {"shown", "other"}]
  /\ trouble \in [BatchItems -> SUBSET {"busy", "git", "nested"}]
  /\ candidate \in [BatchItems -> FileStates \cup {"none"}]
  /\ witness \in [BatchItems -> {"none", "shown", "other"}]
  /\ rows \in [BatchItems -> BatchRows] /\ DOMAIN moved = BatchItems

\* What the preparation makes sure of.
TogetherKinds == {"projects", "caches", "finder", "installer"}
Together == Sessions!kind \in TogetherKinds => rejected = {} /\ Sessions!Chosen \cap case.excluded = {}
Selected ==
  /\ pc = "capture" => /\ pos \in 1..(Len(Sessions!Order) + 1)
                       /\ \A k \in 1..(pos - 1) :
                            Sessions!Order[k] \in case.excluded => Sessions!Order[k] \in rejected
  /\ pc \in Standing => /\ Together /\ Sessions!Planned # {}
                        /\ Sessions!kind = "finder" => \A x \in Sessions!Chosen : candidate[x] = "shown"
  /\ Sessions!kind \in {"caches", "clean", "installer"} => \A x \in BatchItems : candidate[x] \in {"none", "shown"}
  /\ Sessions!kind = "clean" => rejected \subseteq case.excluded

\* What the looks before a native call make sure of.
OnlyFresh(x, aspects) == \A a \in aspects : a \in Sessions!Wrong(x) => <<x, a>> \in fresh
FilesLooked(x) == {"file"} \cup IF Sessions!BoundByFiles(x) THEN {"proof"} ELSE {}
Looks ==
  /\ pc = "next" => pos \in 1..(Len(Sessions!Order) + 1)
  /\ pc \in Acting => pos \in 1..Len(Sessions!Order)
  /\ pc = "guard" => OnlyFresh(Sessions!Item, FilesLooked(Sessions!Item))
  /\ pc = "move" => OnlyFresh(Sessions!Item, Aspects)

\* What has left, and what is told of it.
BatchLeft ==
  /\ pc \in Early => \A x \in BatchItems : moved[x] = {}
  /\ \A x \in BatchItems : moved[x] # {} => Together
  /\ Sessions!MovedWasRight
  /\ \A x \in BatchItems : rows[x] = "succeeded" => moved[x] # {}
  /\ pc # "ended" => exit = "none"
  /\ Sessions!ZeroMeansAllMoved

BatchInv == BatchTypeOK /\ Selected /\ Looks /\ BatchLeft

LEMMA BatchSets == \A s : Sessions!ToSet(s) = {s[i] : i \in DOMAIN s}
  BY DEF Sessions!ToSet

\* The inputs do not change, nor what is read off them.
LEMMA BatchCaseFixed ==
  ASSUME case' = case
  PROVE  /\ Sessions!kind' = Sessions!kind /\ Sessions!Order' = Sessions!Order /\ Sessions!Chosen' = Sessions!Chosen
         /\ Sessions!WithPolicy' <=> Sessions!WithPolicy
         /\ \A x : Sessions!BoundByFiles(x)' <=> Sessions!BoundByFiles(x)
<1>1. Sessions!kind' = Sessions!kind /\ Sessions!Order' = Sessions!Order
  BY DEF Sessions!kind, Sessions!Order
<1>2. Sessions!Chosen' = Sessions!Chosen
  BY <1>1, BatchSets DEF Sessions!Chosen
<1> QED
  BY <1>1, <1>2 DEF Sessions!WithPolicy, Sessions!BoundByFiles

\* The shape of a selection.
LEMMA BatchOrder ==
  ASSUME Sessions!TrashSessionsAssumption, BatchInv
  PROVE  /\ Sessions!kind \in {"trash", "rule", "clean", "projects", "caches", "finder", "installer", "bundle"}
         /\ Sessions!Order \in Seq(BatchItems) /\ Len(Sessions!Order) \in Nat
         /\ Sessions!kind # "projects" => case.signed = {}
         /\ Sessions!kind = "bundle" => Len(Sessions!Order) = 1
         /\ Sessions!Chosen = {Sessions!Order[k] : k \in 1..Len(Sessions!Order)}
         /\ \A k \in 1..Len(Sessions!Order) : Sessions!Order[k] \in BatchItems /\ Sessions!Order[k] \in Sessions!Chosen
<1>1. /\ Sessions!kind \in {"trash", "rule", "clean", "projects", "caches", "finder", "installer", "bundle"}
      /\ Sessions!Order \in Seq(BatchItems)
      /\ Sessions!kind # "projects" => case.signed = {}
      /\ Sessions!kind = "bundle" => Len(Sessions!Order) = 1
  BY DEF BatchInv, BatchTypeOK, Sessions!TrashSessionsAssumption, Sessions!kind, Sessions!Order
<1>2. /\ Len(Sessions!Order) \in Nat /\ DOMAIN Sessions!Order = 1..Len(Sessions!Order)
      /\ \A k \in 1..Len(Sessions!Order) : Sessions!Order[k] \in BatchItems
  BY <1>1
<1>3. Sessions!Chosen = {Sessions!Order[k] : k \in 1..Len(Sessions!Order)}
  BY <1>2, BatchSets DEF Sessions!Chosen
<1> QED
  BY <1>1, <1>2, <1>3

\* The item in hand, and the position that follows.
LEMMA BatchPosition ==
  ASSUME Sessions!TrashSessionsAssumption, BatchInv
  PROVE  /\ pos \in 1..Len(Sessions!Order) => Sessions!Item \in BatchItems /\ Sessions!Item \in Sessions!Chosen
         /\ \A p \in Nat : \A q \in Sessions!After(p) : q \in 1..(Len(Sessions!Order) + 1)
<1>1. pos \in 1..Len(Sessions!Order) => Sessions!Item \in BatchItems /\ Sessions!Item \in Sessions!Chosen
  BY BatchOrder DEF Sessions!Item
<1>2. \A p \in Nat : \A q \in Sessions!After(p) : q \in 1..(Len(Sessions!Order) + 1)
  BY BatchOrder DEF Sessions!After, Sessions!Planned
<1> QED
  BY <1>1, <1>2

\* What it takes to keep the parts of the invariant.
LEMMA SelectedStays ==
  ASSUME BatchInv, UNCHANGED <<case, rejected, candidate>>, pc' \in Standing => pc \in Standing,
         pc' = "capture" => pc = "capture" /\ pos' = pos
  PROVE  Selected'
<1>1. Selected
  BY DEF BatchInv
<1>2. Sessions!Planned' = Sessions!Planned /\ (Together' <=> Together)
  BY BatchCaseFixed DEF Sessions!Planned, Together
<1> QED
  BY <1>1, <1>2, BatchCaseFixed DEF Selected

LEMMA LeftStays ==
  ASSUME BatchInv, UNCHANGED <<case, rejected, moved, rows>>, pc' \in Early => pc \in Early,
         pc' # "ended" => exit' = "none", exit' = "ok" => exit = "ok"
  PROVE  BatchLeft'
<1>1. BatchLeft
  BY DEF BatchInv
<1>2. Together' <=> Together
  BY BatchCaseFixed DEF Together
<1>3. Sessions!MovedWasRight' /\ Sessions!ZeroMeansAllMoved'
  BY <1>1, BatchCaseFixed DEF BatchLeft, Sessions!MovedWasRight, Sessions!ZeroMeansAllMoved
<1> QED
  BY <1>1, <1>2, <1>3 DEF BatchLeft

\* A step before the execution that looks at nothing for good.
LEMMA EarlyStepKeeps ==
  ASSUME BatchInv, UNCHANGED <<case, Sessions!machine, candidate, rejected, rows, moved>>,
         pc \in Early, pc' \in (Early \ {"capture"}) \cup {"ended"}, pos' \in Nat,
         witness' \in [BatchItems -> {"none", "shown", "other"}],
         pc' \in Standing => pc \in Standing,
         (pc' # "ended" /\ exit' = exit) \/ (pc' = "ended" /\ exit' # "ok")
  PROVE  BatchInv'
<1>1. BatchTypeOK /\ exit = "none"
  BY DEF BatchInv, BatchLeft, Early
<1>2. BatchTypeOK'
  BY <1>1 DEF BatchTypeOK, Sessions!machine
<1>3. Selected'
  BY SelectedStays
<1>4. BatchLeft'
  BY <1>1, LeftStays
<1>5. Looks'
  BY DEF Looks, Early, Acting
<1> QED
  BY <1>2, <1>3, <1>4, <1>5 DEF BatchInv

LEMMA GateKeeps == ASSUME Sessions!TrashSessionsAssumption, BatchInv, Sessions!Gate PROVE BatchInv'
<1>3. /\ Sessions!kind \in {"trash", "rule", "clean", "projects", "caches", "finder", "installer", "bundle"}
      /\ Sessions!kind \in {"caches", "finder"} => case.host = "library"
  BY DEF BatchInv, BatchTypeOK, Sessions!TrashSessionsAssumption, Sessions!kind
<1>1. Sessions!GateExit # "ok"
  BY <1>3 DEF Sessions!GateExit, Sessions!LibraryGate, Sessions!TrashGate, Sessions!RuleGate, Sessions!CleanGate,
     Sessions!ProjectsGate, Sessions!InstallerGate, Sessions!BundleGate
<1>2. BatchTypeOK
  BY DEF BatchInv
<1> QED
  BY <1>1, <1>2, EarlyStepKeeps
     DEF Sessions!Gate, Sessions!Exit, Sessions!Goto, Sessions!prepared, Early, Standing, Acting, BatchTypeOK

\* The checks over the whole selection.
LEMMA CheckBatchKeeps ==
  ASSUME Sessions!TrashSessionsAssumption, BatchInv, Sessions!Check PROVE BatchInv'
<1>1. BatchTypeOK /\ exit = "none" /\ Selected /\ pc = "check" /\ Len(Sessions!Order) \in Nat
  BY BatchOrder DEF BatchInv, BatchLeft, Sessions!Check
<1>2. /\ UNCHANGED <<case, Sessions!machine, candidate, rejected, rows, moved>> /\ pos' = 1
      /\ (pc' = "capture" /\ exit' = exit) \/ (pc' = "ended" /\ exit' = "refused")
  BY DEF Sessions!Check, Sessions!Goto, Sessions!Exit
<1>3. witness' \in [BatchItems -> {"none", "shown", "other"}]
  BY <1>1 DEF Sessions!Check, BatchTypeOK
<1>4. BatchTypeOK'
  BY <1>1, <1>2, <1>3 DEF BatchTypeOK, Sessions!machine, Early
<1>5. Selected'
  BY <1>1, <1>2, BatchCaseFixed DEF Selected, Standing, Acting
<1>6. BatchLeft'
  BY <1>1, <1>2, LeftStays DEF Early
<1>7. Looks'
  BY <1>2 DEF Looks, Acting
<1> QED
  BY <1>4, <1>5, <1>6, <1>7 DEF BatchInv

LEMMA CaptureKeeps ==
  ASSUME Sessions!TrashSessionsAssumption, BatchInv, Sessions!Capture PROVE BatchInv'
<1>1. /\ BatchTypeOK /\ exit = "none" /\ Selected /\ BatchLeft /\ pc = "capture"
      /\ pos \in 1..Len(Sessions!Order) /\ Len(Sessions!Order) \in Nat
  BY BatchOrder DEF BatchInv, BatchLeft, Selected, Sessions!Capture
<1>2. Sessions!Item \in BatchItems /\ Sessions!Item = Sessions!Order[pos]
  BY <1>1, BatchPosition DEF Sessions!Item
<1>3. UNCHANGED <<case, Sessions!machine, rows, moved>>
  BY DEF Sessions!Capture
<1>4. CASE pc' = "ended" /\ exit' # "ok" /\ UNCHANGED <<pos, Sessions!prepared>>
  BY <1>1, <1>3, <1>4, EarlyStepKeeps DEF BatchTypeOK, Sessions!prepared, Early, Standing, Acting
<1>5. CASE ~(pc' = "ended" /\ exit' # "ok" /\ UNCHANGED <<pos, Sessions!prepared>>)
  <2>1. /\ pos' = pos + 1 /\ UNCHANGED <<pc, exit>>
        /\ ~(Sessions!CaptureFails(Sessions!Item) /\ ~Sessions!IssueAllowed)
        /\ Sessions!CaptureFails(Sessions!Item) \/ Sessions!IdentityHolds(Sessions!Item)
        /\ candidate' = IF Sessions!CaptureFails(Sessions!Item) THEN candidate
                        ELSE [candidate EXCEPT ![Sessions!Item] = file[Sessions!Item]]
        /\ witness' = IF Sessions!BoundByFiles(Sessions!Item)
                        THEN [witness EXCEPT ![Sessions!Item] = proof[Sessions!Item]] ELSE witness
        /\ rejected' = IF Sessions!CaptureFails(Sessions!Item) \/ Sessions!Rejects(Sessions!Item)
                         THEN rejected \cup {Sessions!Item} ELSE rejected
    BY <1>5 DEF Sessions!Capture, Sessions!Exit
  <2>2. PICK x \in BatchItems : x = Sessions!Item
    BY <1>2
  <2>3. BatchTypeOK'
    <3>1. candidate' \in [BatchItems -> FileStates \cup {"none"}]
      BY <1>1, <2>1, <2>2 DEF BatchTypeOK
    <3>2. witness' \in [BatchItems -> {"none", "shown", "other"}]
      BY <1>1, <2>1, <2>2 DEF BatchTypeOK
    <3> QED
      BY <1>1, <1>3, <2>1, <3>1, <3>2 DEF BatchTypeOK, Sessions!machine
  <2>4. \A y \in rejected' : y \in rejected \/ (y = x /\ (Sessions!CaptureFails(x) \/ Sessions!Rejects(x)))
    BY <2>1, <2>2
  <2>5. rejected \subseteq rejected' /\ (x \in case.excluded => x \in rejected')
    BY <2>1, <2>2 DEF Sessions!Rejects
  <2>6. Sessions!kind = "clean" => rejected' \subseteq case.excluded
    BY <1>1, <2>1, <2>2, <2>4 DEF Selected, Sessions!Rejects, Sessions!IssueAllowed
  <2>7. Sessions!kind \in {"caches", "clean", "installer"} => \A y \in BatchItems : candidate'[y] \in {"none", "shown"}
    BY <1>1, <2>1, <2>2 DEF Selected, BatchTypeOK, Sessions!IdentityHolds
  <2>8. \A k \in 1..(pos' - 1) : Sessions!Order[k] \in case.excluded => Sessions!Order[k] \in rejected'
    <3> SUFFICES ASSUME NEW k \in 1..(pos' - 1), Sessions!Order[k] \in case.excluded
                 PROVE  Sessions!Order[k] \in rejected'
      OBVIOUS
    <3>1. k \in 1..(pos - 1) \/ k = pos
      BY <1>1, <2>1
    <3>2. CASE k \in 1..(pos - 1)
      BY <1>1, <2>5, <3>2 DEF Selected
    <3>3. CASE k = pos
      BY <1>2, <2>2, <2>5, <3>3
    <3> QED
      BY <3>1, <3>2, <3>3
  <2>9. Selected'
    <3>1. pos' \in 1..(Len(Sessions!Order) + 1) /\ pc' = "capture" /\ pc' \notin Standing
      BY <1>1, <2>1 DEF Standing, Acting
    <3> QED
      BY <1>3, <2>6, <2>7, <2>8, <3>1, BatchCaseFixed DEF Selected
  <2>10. BatchLeft'
    <3>1. \A y \in BatchItems : moved'[y] = {} /\ rows'[y] # "succeeded"
      BY <1>1, <1>3 DEF BatchLeft, Early
    <3> QED
      BY <1>1, <2>1, <3>1 DEF BatchLeft, Sessions!MovedWasRight, Sessions!ZeroMeansAllMoved
  <2>11. Looks'
    BY <1>1, <2>1 DEF Looks, Acting
  <2> QED
    BY <2>3, <2>9, <2>10, <2>11 DEF BatchInv
<1> QED
  BY <1>4, <1>5

\* What stands at the prompt.
LEMMA PreparedKeeps ==
  ASSUME Sessions!TrashSessionsAssumption, BatchInv, Sessions!Prepared PROVE BatchInv'
<1>1. /\ BatchTypeOK /\ exit = "none" /\ Selected /\ pc = "capture" /\ pos > Len(Sessions!Order)
      /\ Len(Sessions!Order) \in Nat /\ pos = Len(Sessions!Order) + 1
  BY BatchOrder DEF BatchInv, BatchLeft, Selected, Sessions!Prepared
<1>2. UNCHANGED <<case, Sessions!machine, pos, Sessions!prepared, rows, moved>>
  BY DEF Sessions!Prepared
<1>3. CASE pc' = "ended"
  <2>1. exit' # "ok"
    BY <1>3 DEF Sessions!Prepared, Sessions!Exit, Sessions!Goto
  <2> QED
    BY <1>1, <1>2, <1>3, <2>1, EarlyStepKeeps DEF BatchTypeOK, Sessions!prepared, Early, Standing, Acting
<1>4. CASE pc' # "ended"
  <2>1. /\ Sessions!FinderHolds /\ Sessions!WholeBatch /\ Sessions!Planned # {} /\ pc' = "prompt" /\ exit' = exit
    BY <1>4 DEF Sessions!Prepared, Sessions!Exit, Sessions!Goto
  <2>2. Together
    <3>1. ASSUME NEW x \in Sessions!Chosen, x \in case.excluded PROVE x \in rejected
      <4>1. PICK k \in 1..Len(Sessions!Order) : x = Sessions!Order[k]
        BY BatchOrder
      <4> QED
        BY <1>1, <3>1, <4>1 DEF Selected
    <3> QED
      BY <2>1, <3>1 DEF Together, TogetherKinds, Sessions!WholeBatch
  <2>3. Sessions!Planned' = Sessions!Planned /\ (Together' <=> Together)
    BY <1>2, BatchCaseFixed DEF Sessions!Planned, Together, Sessions!prepared
  <2>4. Selected'
    BY <1>1, <1>2, <2>1, <2>2, <2>3, BatchCaseFixed DEF Selected, Sessions!FinderHolds, Sessions!prepared
  <2>5. BatchTypeOK'
    BY <1>1, <1>2, <2>1 DEF BatchTypeOK, Sessions!machine, Sessions!prepared, Early
  <2>6. BatchLeft'
    BY <1>1, <1>2, <2>1, LeftStays DEF Early, Sessions!prepared
  <2>7. Looks'
    BY <2>1 DEF Looks, Acting
  <2> QED
    BY <2>4, <2>5, <2>6, <2>7 DEF BatchInv
<1> QED
  BY <1>3, <1>4

\* The answer and the approval.
LEMMA AnswerKeeps == ASSUME BatchInv, Sessions!Answer \/ Sessions!Approve PROVE BatchInv'
<1>1. BatchTypeOK
  BY DEF BatchInv
<1>2. /\ pc \in {"prompt", "approve"} /\ pc' \in {"approve", "open", "ended"}
      /\ (pc' # "ended" /\ exit' = exit) \/ (pc' = "ended" /\ exit' # "ok")
  BY DEF Sessions!Answer, Sessions!Approve, Sessions!Exit, Sessions!Goto
<1>3. UNCHANGED <<case, Sessions!machine, pos, Sessions!prepared, rows, moved>>
  BY DEF Sessions!Answer, Sessions!Approve
<1> QED
  BY <1>1, <1>2, <1>3, EarlyStepKeeps DEF BatchTypeOK, Sessions!prepared, Early, Standing, Acting

\* Store::open and Planner::validate.
LEMMA OpenStoreKeeps ==
  ASSUME Sessions!TrashSessionsAssumption, BatchInv, Sessions!OpenStore PROVE BatchInv'
<1>1. BatchTypeOK /\ BatchLeft /\ exit = "none" /\ pc = "open"
  BY DEF BatchInv, BatchLeft, Sessions!OpenStore
<1>2. UNCHANGED <<case, Sessions!machine, Sessions!prepared, moved>>
  BY DEF Sessions!OpenStore
<1>3. CASE pc' = "ended"
  <2>1. exit' # "ok" /\ UNCHANGED <<rows, pos>>
    BY <1>3 DEF Sessions!OpenStore, Sessions!Exit, Sessions!Goto
  <2> QED
    BY <1>1, <1>2, <1>3, <2>1, EarlyStepKeeps DEF BatchTypeOK, Sessions!prepared, Early, Standing, Acting
<1>4. CASE pc' # "ended"
  <2>1. /\ pc' = "next" /\ exit' = exit /\ pos' \in Sessions!After(0)
        /\ rows' \in [BatchItems -> {"none", "planned", "skipped"}]
    BY <1>4 DEF Sessions!OpenStore, Sessions!Exit, Sessions!Goto
  <2>2. pos' \in 1..(Len(Sessions!Order) + 1) /\ Len(Sessions!Order) \in Nat
    BY <2>1, BatchPosition, BatchOrder
  <2>3. BatchTypeOK'
    BY <1>1, <1>2, <2>1, <2>2 DEF BatchTypeOK, Sessions!machine, Sessions!prepared, Early, Standing, BatchRows
  <2>4. Selected'
    BY <1>1, <1>2, <2>1, SelectedStays DEF Sessions!prepared, Standing
  <2>5. BatchLeft'
    <3>1. \A y \in BatchItems : moved'[y] = {} /\ rows'[y] # "succeeded"
      BY <1>1, <1>2, <2>1 DEF BatchLeft, Early
    <3> QED
      BY <1>1, <2>1, <3>1 DEF BatchLeft, Sessions!MovedWasRight, Sessions!ZeroMeansAllMoved
  <2>6. Looks'
    BY <1>2, <2>1, <2>2, BatchCaseFixed DEF Looks, Acting
  <2> QED
    BY <2>3, <2>4, <2>5, <2>6 DEF BatchInv
<1> QED
  BY <1>3, <1>4

----------------------------------------------------------------------------
(* What is wrong with an item, aspect by aspect, now and after a step.     *)

WrongFile(x) == file[x] # (IF Sessions!kind \in {"caches", "clean", "installer", "finder"} THEN "shown" ELSE candidate[x])
WrongProof(x) ==
  \/ Sessions!BoundByFiles(x) /\ proof[x] # witness[x]
  \/ (x \in case.signed \/ Sessions!kind = "caches") /\ proof[x] # "shown"
  \/ Sessions!kind = "bundle" /\ proof[x] # witness[x]
WrongTrouble(x, a) ==
  /\ a \in trouble[x]
  /\ Sessions!kind = "projects" \/ (a = "busy" /\ Sessions!kind \in {"caches", "bundle"})
WrongPolicy == Sessions!WithPolicy /\ policy # "shown"

WrongBy(x) ==
  /\ Sessions!Wrong(x) \subseteq Aspects
  /\ "file" \in Sessions!Wrong(x) <=> WrongFile(x)
  /\ "proof" \in Sessions!Wrong(x) <=> WrongProof(x)
  /\ \A a \in {"busy", "git", "nested"} : a \in Sessions!Wrong(x) <=> WrongTrouble(x, a)
  /\ "policy" \in Sessions!Wrong(x) <=> WrongPolicy

LEMMA WrongIs == ASSUME NEW x PROVE WrongBy(x) /\ WrongBy(x)'
<1>1. WrongBy(x)
  BY DEF WrongBy, Sessions!Wrong, Aspects, WrongFile, WrongProof, WrongTrouble, WrongPolicy, Sessions!PolicyHolds
<1>2. WrongBy(x)'
  BY DEF WrongBy, Sessions!Wrong, Aspects, WrongFile, WrongProof, WrongTrouble, WrongPolicy, Sessions!PolicyHolds
<1> QED
  BY <1>1, <1>2

\* An aspect that a step leaves as it is.
SameAspect(x, a) ==
  /\ a = "file" => file'[x] = file[x]
  /\ a = "proof" => proof'[x] = proof[x]
  /\ a \in {"busy", "git", "nested"} => (a \in trouble'[x] <=> a \in trouble[x])
  /\ a = "policy" => policy' = policy

LEMMA SameIsAsWrong ==
  ASSUME UNCHANGED <<case, candidate, witness>>, NEW x, NEW a \in Aspects, SameAspect(x, a)
  PROVE  a \in Sessions!Wrong(x)' <=> a \in Sessions!Wrong(x)
<1>1. WrongBy(x) /\ WrongBy(x)'
  BY WrongIs
<1>2. CASE a = "file"
  BY <1>1, <1>2, BatchCaseFixed DEF WrongBy, WrongFile, SameAspect
<1>3. CASE a = "proof"
  BY <1>1, <1>3, BatchCaseFixed DEF WrongBy, WrongProof, SameAspect
<1>4. CASE a \in {"busy", "git", "nested"}
  BY <1>1, <1>4, BatchCaseFixed DEF WrongBy, WrongTrouble, SameAspect
<1>5. CASE a = "policy"
  BY <1>1, <1>5, BatchCaseFixed DEF WrongBy, WrongPolicy, SameAspect
<1> QED
  BY <1>2, <1>3, <1>4, <1>5 DEF Aspects

\* A step that keeps an aspect or notes that it has changed it.
LEMMA FreshIsKept ==
  ASSUME UNCHANGED <<case, candidate, witness>>, fresh \subseteq fresh', NEW x, NEW aspects \in SUBSET Aspects,
         \A a \in aspects : SameAspect(x, a) \/ <<x, a>> \in fresh', OnlyFresh(x, aspects)
  PROVE  OnlyFresh(x, aspects)'
<1> SUFFICES ASSUME NEW a \in aspects, a \in Sessions!Wrong(x)' PROVE <<x, a>> \in fresh'
  BY DEF OnlyFresh
<1>1. CASE SameAspect(x, a)
  BY <1>1, SameIsAsWrong DEF OnlyFresh
<1> QED
  BY <1>1

----------------------------------------------------------------------------
(* The execution of a batch.                                               *)

\* A step of the execution that moves nothing; it may note a row.
LEMMA ExecutionKeeps ==
  ASSUME BatchInv, UNCHANGED <<case, Sessions!machine, Sessions!prepared, moved, exit>>,
         pc \in {"next"} \cup Acting, pc' \in {"next"} \cup Acting, pos' \in Nat,
         rows' \in [BatchItems -> BatchRows], \A x \in BatchItems : rows'[x] = "succeeded" => rows[x] = "succeeded",
         Looks'
  PROVE  BatchInv'
<1>1. BatchTypeOK /\ BatchLeft /\ exit = "none"
  BY DEF BatchInv, BatchLeft, Acting
<1>2. BatchTypeOK'
  BY <1>1 DEF BatchTypeOK, Sessions!machine, Sessions!prepared, Standing
<1>3. Selected'
  BY SelectedStays DEF Sessions!prepared, Standing, Acting
<1>4. Together' <=> Together
  BY BatchCaseFixed DEF Together, Sessions!prepared
<1>5. Sessions!MovedWasRight'
  BY <1>1 DEF BatchLeft, Sessions!MovedWasRight
<1>6. BatchLeft'
  BY <1>1, <1>4, <1>5 DEF BatchLeft, Sessions!ZeroMeansAllMoved, Early, Acting
<1> QED
  BY <1>2, <1>3, <1>6 DEF BatchInv

\* A row for the item in hand.
LEMMA RowKeeps ==
  ASSUME Sessions!TrashSessionsAssumption, BatchInv, pos \in 1..Len(Sessions!Order),
         NEW s \in BatchRows \ {"succeeded"}, Sessions!Row(s), pos' \in Sessions!After(pos), pc' = "next",
         UNCHANGED <<case, Sessions!machine, Sessions!prepared, moved, exit>>, pc \in {"next"} \cup Acting
  PROVE  BatchInv'
<1>1. BatchTypeOK /\ Sessions!Item \in BatchItems /\ Len(Sessions!Order) \in Nat /\ pos' \in 1..(Len(Sessions!Order) + 1)
  BY BatchPosition, BatchOrder DEF BatchInv, BatchTypeOK
<1>2. PICK x \in BatchItems : x = Sessions!Item
  BY <1>1
<1>3. rows' = [rows EXCEPT ![x] = s]
  BY <1>2 DEF Sessions!Row
<1>4. rows' \in [BatchItems -> BatchRows] /\ \A y \in BatchItems : rows'[y] = "succeeded" => rows[y] = "succeeded"
  BY <1>1, <1>3 DEF BatchTypeOK
<1>5. Looks'
  BY <1>1, BatchCaseFixed DEF Looks, Acting
<1> QED
  BY <1>1, <1>4, <1>5, ExecutionKeeps

LEMMA BeginKeeps == ASSUME Sessions!TrashSessionsAssumption, BatchInv, Sessions!Begin PROVE BatchInv'
<1>1. /\ UNCHANGED <<case, Sessions!machine, Sessions!prepared, moved, exit, fresh>> /\ pc = "next"
      /\ pos \in 1..Len(Sessions!Order) /\ BatchTypeOK
  BY BatchOrder DEF Sessions!Begin, BatchInv, Looks
<1>2. CASE pc' = "native"
  <2>1. UNCHANGED <<rows, pos>>
    BY <1>1, <1>2 DEF Sessions!Begin, Sessions!Goto
  <2>2. Looks'
    BY <1>1, <1>2, <2>1, BatchCaseFixed DEF Looks
  <2> QED
    BY <1>1, <1>2, <2>1, <2>2, ExecutionKeeps DEF BatchTypeOK, Acting
<1>3. CASE pc' # "native"
  <2>1. PICK s \in {"cancelled", "skipped"} : Sessions!Row(s) /\ pos' \in Sessions!After(pos) /\ pc' = "next"
    BY <1>1, <1>3 DEF Sessions!Begin, Sessions!Goto
  <2> QED
    BY <1>1, <2>1, RowKeeps DEF BatchRows
<1> QED
  BY <1>2, <1>3

\* The candidate's own look: its file, and the files that bind it.
LEMMA NativeCheckKeeps ==
  ASSUME Sessions!TrashSessionsAssumption, BatchInv, Sessions!NativeCheck PROVE BatchInv'
<1>1. /\ UNCHANGED <<case, Sessions!machine, Sessions!prepared, moved, exit>> /\ pc = "native"
      /\ pos \in 1..Len(Sessions!Order) /\ BatchTypeOK /\ Selected
  BY DEF Sessions!NativeCheck, BatchInv, Looks, Acting
<1>2. CASE pc' = "guard"
  <2>1. UNCHANGED <<rows, pos>> /\ Sessions!CandidateHolds(Sessions!Item)
    BY <1>2 DEF Sessions!NativeCheck, Sessions!Goto
  <2>2. PICK x \in BatchItems : x = Sessions!Item
    BY <1>1, BatchPosition
  <2>3. Sessions!Item' = x
    BY <1>1, <2>1, <2>2, BatchCaseFixed DEF Sessions!Item
  <2>4. ~WrongFile(x)
    <3>1. file[x] = candidate[x] /\ file[x] \in FileStates
      BY <1>1, <2>1, <2>2 DEF Sessions!CandidateHolds, BatchTypeOK
    <3>2. Sessions!kind \in {"caches", "clean", "installer"} => candidate[x] \in {"none", "shown"}
      BY <1>1 DEF Selected
    <3>3. Sessions!kind = "finder" => candidate[x] = "shown"
      BY <1>1, <2>2, BatchPosition DEF Selected, Standing, Acting
    <3> QED
      BY <3>1, <3>2, <3>3 DEF WrongFile, FileStates
  <2>5. Sessions!BoundByFiles(x) => ~WrongProof(x)
    <3>1. Sessions!BoundByFiles(x) => x \notin case.signed /\ Sessions!kind \notin {"caches", "bundle"}
      BY BatchOrder DEF Sessions!BoundByFiles
    <3> QED
      BY <2>1, <2>2, <3>1 DEF WrongProof, Sessions!CandidateHolds
  <2>6. \A a \in FilesLooked(x) : a \notin Sessions!Wrong(x)
    BY <2>4, <2>5, WrongIs DEF FilesLooked, WrongBy
  <2>7. \A a \in FilesLooked(x) : a \in Aspects /\ SameAspect(x, a)
    BY <1>1 DEF FilesLooked, Aspects, SameAspect, Sessions!machine
  <2>8. \A a \in FilesLooked(x) : a \notin Sessions!Wrong(x)'
    BY <1>1, <2>6, <2>7, SameIsAsWrong DEF Sessions!prepared
  <2>9. FilesLooked(x)' = FilesLooked(x)
    BY <1>1, BatchCaseFixed DEF FilesLooked
  <2>10. Looks'
    BY <1>1, <1>2, <2>1, <2>3, <2>8, <2>9, BatchCaseFixed DEF Looks, OnlyFresh
  <2> QED
    BY <1>1, <1>2, <2>1, <2>10, ExecutionKeeps DEF BatchTypeOK, Acting
<1>3. CASE pc' # "guard"
  <2>1. Sessions!Row("skipped") /\ pos' \in Sessions!After(pos) /\ pc' = "next"
    BY <1>1, <1>3 DEF Sessions!NativeCheck, Sessions!Goto
  <2> QED
    BY <1>1, <2>1, RowKeeps DEF BatchRows, Acting
<1> QED
  BY <1>2, <1>3

\* The last guard: what the candidate does not look at.
LEMMA GuardMeans ==
  ASSUME Sessions!TrashSessionsAssumption, BatchInv, NEW x \in BatchItems, Sessions!Guard("lastNative", x)
  PROVE  /\ ~Sessions!BoundByFiles(x) => ~WrongProof(x)
         /\ \A a \in {"busy", "git", "nested"} : ~WrongTrouble(x, a)
         /\ ~WrongPolicy
<1>1. /\ Sessions!kind \in {"trash", "rule", "clean", "projects", "caches", "finder", "installer", "bundle"}
      /\ Sessions!kind # "projects" => x \notin case.signed
  BY BatchOrder
<1>2. CASE Sessions!kind = "projects"
  BY <1>2 DEF Sessions!Guard, Sessions!ProjectsGuard, Sessions!SignatureHolds, Sessions!Idle, Sessions!GitClean,
     Sessions!Nested, Sessions!PolicyHolds, Sessions!BoundByFiles, WrongProof, WrongTrouble, WrongPolicy
<1>3. CASE Sessions!kind = "caches"
  BY <1>1, <1>3 DEF Sessions!Guard, Sessions!CachesGuard, Sessions!CacheHolds, Sessions!OwnerHolds,
     Sessions!PolicyHolds, Sessions!BoundByFiles, WrongProof, WrongTrouble, WrongPolicy
<1>4. CASE Sessions!kind = "bundle"
  BY <1>1, <1>4 DEF Sessions!Guard, Sessions!BundleGuard, Sessions!ManifestHolds, Sessions!Idle,
     Sessions!WithPolicy, Sessions!BoundByFiles, WrongProof, WrongTrouble, WrongPolicy
<1>5. CASE Sessions!kind \in {"trash", "rule", "clean", "finder", "installer"}
  BY <1>1, <1>5 DEF Sessions!Guard, Sessions!CleanGuard, Sessions!FinderGuard, Sessions!PolicyHolds,
     Sessions!WithPolicy, Sessions!BoundByFiles, WrongProof, WrongTrouble, WrongPolicy
<1> QED
  BY <1>1, <1>2, <1>3, <1>4, <1>5

LEMMA LastGuardKeeps ==
  ASSUME Sessions!TrashSessionsAssumption, BatchInv, Sessions!LastGuard PROVE BatchInv'
<1>1. /\ UNCHANGED <<case, Sessions!machine, Sessions!prepared, moved, exit>> /\ pc = "guard"
      /\ pos \in 1..Len(Sessions!Order) /\ BatchTypeOK /\ OnlyFresh(Sessions!Item, FilesLooked(Sessions!Item))
  BY DEF Sessions!LastGuard, BatchInv, Looks, Acting
<1>2. CASE pc' = "move"
  <2>1. /\ UNCHANGED <<rows, pos>> /\ Sessions!Guard("lastNative", Sessions!Item)
        /\ Sessions!Looked(Sessions!Item, {"busy", "git", "nested", "policy"}
                                           \cup IF Sessions!BoundByFiles(Sessions!Item) THEN {} ELSE {"proof"})
    BY <1>2 DEF Sessions!LastGuard, Sessions!Goto
  <2>2. PICK x \in BatchItems : x = Sessions!Item
    BY <1>1, BatchPosition
  <2>3. Sessions!Item' = x
    BY <1>1, <2>1, <2>2, BatchCaseFixed DEF Sessions!Item
  <2>4. ASSUME NEW a \in Aspects PROVE SameAspect(x, a)
    BY <1>1 DEF SameAspect, Sessions!machine
  <2>5. ASSUME NEW a \in Aspects, a \in Sessions!Wrong(x)' PROVE a \in FilesLooked(x) /\ a \in Sessions!Wrong(x)
    <3>1. a \in Sessions!Wrong(x)
      BY <1>1, <2>4, <2>5, SameIsAsWrong DEF Sessions!prepared
    <3>2. WrongBy(x)
      BY WrongIs
    <3>3. /\ ~Sessions!BoundByFiles(x) => ~WrongProof(x)
          /\ \A b \in {"busy", "git", "nested"} : ~WrongTrouble(x, b)
          /\ ~WrongPolicy
      BY <2>1, <2>2, GuardMeans
    <3> QED
      BY <3>1, <3>2, <3>3 DEF WrongBy, FilesLooked, Aspects
  <2>6. ASSUME NEW a \in FilesLooked(x), <<x, a>> \in fresh PROVE <<x, a>> \in fresh'
    BY <2>1, <2>2, <2>6 DEF Sessions!Looked, FilesLooked
  <2>7. OnlyFresh(x, Aspects)'
    BY <1>1, <2>2, <2>5, <2>6 DEF OnlyFresh
  <2>8. Looks'
    BY <1>1, <1>2, <2>1, <2>3, <2>7, BatchCaseFixed DEF Looks
  <2> QED
    BY <1>1, <1>2, <2>1, <2>8, ExecutionKeeps DEF BatchTypeOK, Acting
<1>3. CASE pc' # "move"
  <2>1. Sessions!Row("skipped") /\ pos' \in Sessions!After(pos) /\ pc' = "next"
    BY <1>1, <1>3 DEF Sessions!LastGuard, Sessions!Goto
  <2> QED
    BY <1>1, <2>1, RowKeeps DEF BatchRows, Acting
<1> QED
  BY <1>2, <1>3

\* The native call.
LEMMA BatchMoveKeeps ==
  ASSUME Sessions!TrashSessionsAssumption, BatchInv, Sessions!Move PROVE BatchInv'
<1>1. /\ UNCHANGED <<case, proof, trouble, policy, Sessions!prepared, exit>> /\ pc = "move" /\ pc' = "next"
      /\ pos \in 1..Len(Sessions!Order) /\ pos' \in Sessions!After(pos)
      /\ BatchTypeOK /\ Selected /\ BatchLeft /\ OnlyFresh(Sessions!Item, Aspects)
  BY DEF Sessions!Move, Sessions!Goto, BatchInv, Looks, Acting
<1>2. CASE \E s \in {"cancelled", "failed", "unknown"} : Sessions!Row(s) /\ UNCHANGED <<file, moved>>
  <2>1. PICK s \in {"cancelled", "failed", "unknown"} : Sessions!Row(s) /\ UNCHANGED <<file, moved>>
    BY <1>2
  <2> QED
    BY <1>1, <2>1, RowKeeps DEF BatchRows, Acting, Sessions!machine
<1>3. CASE ~\E s \in {"cancelled", "failed", "unknown"} : Sessions!Row(s) /\ UNCHANGED <<file, moved>>
  <2>1. /\ Sessions!Row("succeeded") /\ file' = [file EXCEPT ![Sessions!Item] = "gone"]
        /\ moved' = [moved EXCEPT ![Sessions!Item] = @ \cup
             {[as |-> file[Sessions!Item],
               wrong |-> {a \in Sessions!Wrong(Sessions!Item) : <<Sessions!Item, a>> \notin fresh}]}]
    BY <1>3 DEF Sessions!Move
  <2>2. PICK x \in BatchItems : x = Sessions!Item
    BY <1>1, BatchPosition
  <2>3. {a \in Sessions!Wrong(x) : <<x, a>> \notin fresh} = {}
    BY <1>1, <2>2, WrongIs DEF OnlyFresh, WrongBy
  <2>4. PICK m : m = [as |-> file[x], wrong |-> {}]
    OBVIOUS
  <2>5. moved' = [moved EXCEPT ![x] = @ \cup {m}] /\ rows' = [rows EXCEPT ![x] = "succeeded"] /\ m.wrong = {}
    BY <2>1, <2>2, <2>3, <2>4 DEF Sessions!Row
  <2>6. /\ pos' \in 1..(Len(Sessions!Order) + 1) /\ Len(Sessions!Order) \in Nat
    BY <1>1, BatchPosition, BatchOrder DEF BatchTypeOK
  <2>7. BatchTypeOK'
    <3>1. file' \in [BatchItems -> FileStates]
      BY <1>1, <2>1, <2>2 DEF BatchTypeOK, FileStates
    <3>2. rows' \in [BatchItems -> BatchRows] /\ DOMAIN moved' = BatchItems
      BY <1>1, <2>5 DEF BatchTypeOK, BatchRows
    <3> QED
      BY <1>1, <2>6, <3>1, <3>2 DEF BatchTypeOK, Standing, Sessions!prepared
  <2>8. Selected'
    BY <1>1, SelectedStays DEF Sessions!prepared, Standing, Acting
  <2>9. Looks'
    BY <1>1, <2>6, BatchCaseFixed DEF Looks, Acting
  <2>10. Together /\ (Together' <=> Together)
    BY <1>1, BatchCaseFixed DEF Selected, Standing, Acting, Together, Sessions!prepared
  <2>11. Sessions!MovedWasRight'
    BY <1>1, <2>5 DEF BatchLeft, BatchTypeOK, Sessions!MovedWasRight
  <2>12. \A y \in BatchItems : rows'[y] = "succeeded" => moved'[y] # {}
    BY <1>1, <2>5 DEF BatchLeft, BatchTypeOK
  <2>13. BatchLeft'
    BY <1>1, <2>10, <2>11, <2>12 DEF BatchLeft, Sessions!ZeroMeansAllMoved, Early
  <2> QED
    BY <2>7, <2>8, <2>9, <2>13 DEF BatchInv
<1> QED
  BY <1>2, <1>3

\* ExecutionReport::exit_code and what the command makes of it.
LEMMA BatchReportKeeps ==
  ASSUME Sessions!TrashSessionsAssumption, BatchInv, Sessions!Report PROVE BatchInv'
<1>1. /\ UNCHANGED <<case, Sessions!machine, pos, Sessions!prepared, rows, moved>> /\ pc = "next" /\ pc' = "ended"
      /\ exit' = Sessions!CommandExit /\ BatchTypeOK /\ Selected /\ BatchLeft
  BY DEF Sessions!Report, Sessions!Exit, BatchInv
<1>2. ASSUME exit' = "ok", NEW x \in Sessions!Chosen \ case.excluded PROVE moved[x] # {} /\ rows[x] = "succeeded"
  <2>1. /\ Sessions!ReportExit = "ok"
        /\ Sessions!kind \in {"trash", "rule"} => rejected \ case.excluded = {}
    BY <1>1, <1>2 DEF Sessions!CommandExit
  <2>2. \A y \in Sessions!Plan : rows[y] = "succeeded"
    BY <2>1 DEF Sessions!ReportExit
  <2>3. PICK k \in 1..Len(Sessions!Order) : x = Sessions!Order[k]
    BY BatchOrder
  <2>4. x \notin rejected
    <3>1. CASE Sessions!kind = "bundle"
      <4>1. Sessions!Planned # {} /\ Len(Sessions!Order) = 1
        BY <1>1, <3>1, BatchOrder DEF Selected, Standing
      <4>2. PICK n \in 1..Len(Sessions!Order) : Sessions!Order[n] \notin rejected
        BY <4>1 DEF Sessions!Planned
      <4>3. n = 1 /\ k = 1
        BY <4>1, <4>2
      <4> QED
        BY <2>3, <4>2, <4>3
    <3>2. CASE Sessions!kind \in TogetherKinds
      BY <1>1, <3>2 DEF Selected, Standing, Together
    <3>3. CASE Sessions!kind \in {"trash", "rule", "clean"}
      BY <1>1, <2>1, <3>3 DEF Selected
    <3> QED
      BY <3>1, <3>2, <3>3, BatchOrder DEF TogetherKinds
  <2>5. rows[x] = "succeeded" /\ x \in BatchItems
    BY <2>2, <2>3, <2>4, BatchOrder DEF Sessions!Plan, Sessions!Planned
  <2> QED
    BY <1>1, <2>5 DEF BatchLeft
<1>3. BatchTypeOK'
  BY <1>1 DEF BatchTypeOK, Sessions!machine, Sessions!prepared
<1>4. Selected'
  BY <1>1, SelectedStays DEF Sessions!prepared, Standing, Acting
<1>5. Looks'
  BY <1>1 DEF Looks, Acting
<1>6. Sessions!ZeroMeansAllMoved' /\ Sessions!MovedWasRight' /\ (Together' <=> Together)
  BY <1>1, <1>2, BatchCaseFixed
     DEF Sessions!ZeroMeansAllMoved, BatchLeft, Sessions!MovedWasRight, Together, Sessions!prepared
<1>7. BatchLeft'
  BY <1>1, <1>6 DEF BatchLeft, Early
<1> QED
  BY <1>3, <1>4, <1>5, <1>7 DEF BatchInv

----------------------------------------------------------------------------
(* The rest of the machine.                                                *)

LEMMA MachineKeeps ==
  ASSUME BatchInv, UNCHANGED <<case, pc, pos, Sessions!prepared, rows, exit, moved>>, fresh \subseteq fresh',
         file' \in [BatchItems -> FileStates], proof' \in [BatchItems -> {"shown", "other"}],
         trouble' \in [BatchItems -> SUBSET {"busy", "git", "nested"}], Looks'
  PROVE  BatchInv'
<1>1. BatchTypeOK /\ BatchLeft
  BY DEF BatchInv
<1>2. BatchTypeOK'
  BY <1>1 DEF BatchTypeOK, Sessions!prepared
<1>3. Selected'
  BY SelectedStays DEF Sessions!prepared
<1>4. BatchLeft'
  BY <1>1, LeftStays DEF BatchLeft, Sessions!prepared
<1> QED
  BY <1>2, <1>3, <1>4 DEF BatchInv

\* Looks are kept when whatever changes is noted.
LEMMA NotedKeeps ==
  ASSUME Sessions!TrashSessionsAssumption, BatchInv, UNCHANGED <<case, pc, pos, Sessions!prepared>>, fresh \subseteq fresh',
         \A y \in BatchItems, a \in Aspects : SameAspect(y, a) \/ <<y, a>> \in fresh'
  PROVE  Looks'
<1>1. Looks
  BY DEF BatchInv
<1>2. Sessions!Item' = Sessions!Item /\ Sessions!Order' = Sessions!Order
  BY BatchCaseFixed DEF Sessions!Item
<1>3. CASE pc \in Acting
  <2>1. PICK x \in BatchItems : x = Sessions!Item
    BY <1>1, <1>3, BatchPosition DEF Looks
  <2>2. FilesLooked(x)' = FilesLooked(x) /\ FilesLooked(x) \subseteq Aspects
    BY BatchCaseFixed DEF FilesLooked, Aspects
  <2>3. pc = "guard" => OnlyFresh(x, FilesLooked(x))'
    <3>1. PICK S \in SUBSET Aspects : S = FilesLooked(x)
      BY <2>2
    <3>2. pc = "guard" => OnlyFresh(x, S)'
      BY <1>1, <2>1, <3>1, FreshIsKept DEF Looks, Sessions!prepared
    <3> QED
      BY <2>2, <3>1, <3>2 DEF OnlyFresh
  <2>4. pc = "move" => OnlyFresh(x, Aspects)'
    BY <1>1, <2>1, FreshIsKept DEF Looks, Sessions!prepared
  <2> QED
    BY <1>1, <1>2, <1>3, <2>1, <2>3, <2>4 DEF Looks
<1>4. CASE pc \notin Acting
  BY <1>1, <1>2, <1>4 DEF Looks, Acting
<1> QED
  BY <1>3, <1>4

\* Changed notes every item and aspect it is given.
LEMMA ChangedNotes ==
  ASSUME NEW xs, NEW a, Sessions!Changed(xs, a)
  PROVE  fresh \subseteq fresh' /\ \A y \in xs : <<y, a>> \in fresh'
  BY DEF Sessions!Changed

LEMMA InterfereKeeps ==
  ASSUME Sessions!TrashSessionsAssumption, BatchInv, NEW x \in BatchItems, Sessions!Interfere(x) PROVE BatchInv'
<1>1. BatchTypeOK /\ UNCHANGED <<case, pc, pos, Sessions!prepared, rows, exit, moved>>
  BY DEF BatchInv, Sessions!Interfere
<1>2. CASE /\ Sessions!Changed({x}, "file") /\ UNCHANGED <<proof, trouble, policy>>
           /\ \E f \in {"other", "gone"} : file' = [file EXCEPT ![x] = f]
  <2>1. fresh \subseteq fresh' /\ <<x, "file">> \in fresh'
    BY <1>2, ChangedNotes
  <2>2. file' \in [BatchItems -> FileStates] /\ \A y \in BatchItems : y # x => file'[y] = file[y]
    BY <1>1, <1>2 DEF BatchTypeOK, FileStates
  <2>3. \A y \in BatchItems, a \in Aspects : SameAspect(y, a) \/ <<y, a>> \in fresh'
    BY <1>2, <2>1, <2>2 DEF SameAspect
  <2>4. Looks'
    BY <1>1, <2>1, <2>3, NotedKeeps
  <2> QED
    BY <1>1, <1>2, <2>1, <2>2, <2>4, MachineKeeps DEF BatchTypeOK
<1>3. CASE /\ Sessions!Changed({x}, "proof") /\ UNCHANGED <<file, trouble, policy>>
           /\ proof' = [proof EXCEPT ![x] = "other"]
  <2>1. fresh \subseteq fresh' /\ <<x, "proof">> \in fresh'
    BY <1>3, ChangedNotes
  <2>2. proof' \in [BatchItems -> {"shown", "other"}] /\ \A y \in BatchItems : y # x => proof'[y] = proof[y]
    BY <1>1, <1>3 DEF BatchTypeOK
  <2>3. \A y \in BatchItems, a \in Aspects : SameAspect(y, a) \/ <<y, a>> \in fresh'
    BY <1>3, <2>1, <2>2 DEF SameAspect
  <2>4. Looks'
    BY <1>1, <2>1, <2>3, NotedKeeps
  <2> QED
    BY <1>1, <1>3, <2>1, <2>2, <2>4, MachineKeeps DEF BatchTypeOK
<1>4. ASSUME NEW b \in {"busy", "git", "nested"}, Sessions!Changed({x}, b), UNCHANGED <<file, proof, policy>>,
             trouble' = [trouble EXCEPT ![x] = IF b \in @ THEN @ \ {b} ELSE @ \cup {b}]
      PROVE  BatchInv'
  <2>1. fresh \subseteq fresh' /\ <<x, b>> \in fresh'
    BY <1>4, ChangedNotes
  <2>2. /\ trouble' \in [BatchItems -> SUBSET {"busy", "git", "nested"}]
        /\ \A y \in BatchItems : y # x => trouble'[y] = trouble[y]
        /\ \A a : a # b => (a \in trouble'[x] <=> a \in trouble[x])
    BY <1>1, <1>4 DEF BatchTypeOK
  <2>3. \A y \in BatchItems, a \in Aspects : SameAspect(y, a) \/ <<y, a>> \in fresh'
    BY <1>4, <2>1, <2>2 DEF SameAspect
  <2>4. Looks'
    BY <1>1, <2>1, <2>3, NotedKeeps
  <2> QED
    BY <1>1, <1>4, <2>1, <2>2, <2>4, MachineKeeps DEF BatchTypeOK
<1> QED
  BY <1>2, <1>3, <1>4 DEF Sessions!Interfere

LEMMA EditPolicyKeeps ==
  ASSUME Sessions!TrashSessionsAssumption, BatchInv, Sessions!EditPolicy PROVE BatchInv'
<1>1. /\ BatchTypeOK /\ UNCHANGED <<case, pc, pos, Sessions!prepared, rows, exit, moved, file, proof, trouble>>
      /\ Sessions!Changed(BatchItems, "policy")
  BY DEF BatchInv, Sessions!EditPolicy
<1>2. fresh \subseteq fresh' /\ \A y \in BatchItems : <<y, "policy">> \in fresh'
  BY <1>1, ChangedNotes
<1>3. \A y \in BatchItems, a \in Aspects : SameAspect(y, a) \/ <<y, a>> \in fresh'
  BY <1>1, <1>2 DEF SameAspect
<1>4. Looks'
  BY <1>1, <1>2, <1>3, NotedKeeps
<1> QED
  BY <1>1, <1>2, <1>4, MachineKeeps DEF BatchTypeOK

LEMMA StopKeeps ==
  ASSUME Sessions!TrashSessionsAssumption, BatchInv, Sessions!Cancel \/ Sessions!Expire PROVE BatchInv'
<1>1. BatchTypeOK /\ UNCHANGED <<case, Sessions!machine, pc, pos, Sessions!prepared, rows, exit, moved, fresh>>
  BY DEF BatchInv, Sessions!Cancel, Sessions!Expire
<1>2. \A y \in BatchItems, a \in Aspects : SameAspect(y, a)
  BY <1>1 DEF SameAspect, Sessions!machine
<1>3. Looks'
  BY <1>1, <1>2, NotedKeeps
<1> QED
  BY <1>1, <1>3, MachineKeeps DEF BatchTypeOK, Sessions!machine

LEMMA BatchInitInv == ASSUME Sessions!Init PROVE BatchInv
<1>1. BatchTypeOK
  BY DEF Sessions!Init, BatchTypeOK, FileStates, BatchRows, Early
<1>2. Selected
  BY DEF Sessions!Init, Selected, Standing, Acting
<1>3. Looks
  BY DEF Sessions!Init, Looks, Acting
<1>4. BatchLeft
  BY DEF Sessions!Init, BatchLeft, Sessions!MovedWasRight, Sessions!ZeroMeansAllMoved
<1> QED
  BY <1>1, <1>2, <1>3, <1>4 DEF BatchInv

LEMMA BatchNextInv == ASSUME Sessions!TrashSessionsAssumption, BatchInv, Sessions!Next PROVE BatchInv'
<1>1. ASSUME Sessions!Session PROVE BatchInv'
  BY <1>1, GateKeeps, CheckBatchKeeps, CaptureKeeps, PreparedKeeps, AnswerKeeps, OpenStoreKeeps, BeginKeeps,
     NativeCheckKeeps, LastGuardKeeps, BatchMoveKeeps, BatchReportKeeps DEF Sessions!Session
<1> QED
  BY <1>1, InterfereKeeps, EditPolicyKeeps, StopKeeps DEF Sessions!Next

\* What the invariant says of the properties.
LEMMA BatchInvImplies ==
  ASSUME BatchInv
  PROVE  Sessions!MovedWasRight /\ Sessions!AllOrNothingApproved /\ Sessions!ZeroMeansAllMoved
  BY DEF BatchInv, BatchLeft, Together, TogetherKinds, Sessions!AllOrNothingApproved

----------------------------------------------------------------------------
(* The ways to the Trash together.                                         *)

TrashInv ==
  /\ which \in {"native", "empty", "sessions", "purge"}
  /\ which = "native" => NativeInv
  /\ which = "empty" => EmptyInv
  /\ which = "sessions" => BatchInv
  /\ which = "purge" => HostInv

\* A step that changes nothing.
LEMMA EmptyStutters == ASSUME EmptyInv, UNCHANGED Empty!vars PROVE EmptyInv'
<1>1. UNCHANGED <<phase, reply, record, holder, disk, may, trash, running, sent, settled, left>>
  BY DEF Empty!vars
<1>2. EmptyTypeOK' /\ EventsAreSettled' /\ Empty!EventIsGuarded'
  BY <1>1 DEF EmptyInv, EmptyTypeOK, EventsAreSettled, Empty!EventIsGuarded
<1>3. \A s, r : Tells(s, r)' <=> Tells(s, r)
  BY <1>1 DEF Tells
<1>4. EntriesTell'
  BY <1>1, <1>3 DEF EmptyInv, EntriesTell
<1>5. ASSUME NEW s \in Emptiers PROVE Excludes(s)' /\ Lays(s)'
  BY <1>1 DEF EmptyInv, Excludes, Lays
<1>6. ASSUME NEW s \in Emptiers PROVE Reckons(s)'
  <2>1. Empty!Known(s)' = Empty!Known(s)
    BY <1>1 DEF Empty!Known
  <2> QED
    BY <1>1, <1>3, <2>1 DEF EmptyInv, Reckons
<1> QED
  BY <1>2, <1>4, <1>5, <1>6 DEF EmptyInv

LEMMA HostStutters == ASSUME HostInv, UNCHANGED Purge!vars PROVE HostInv'
<1>1. UNCHANGED <<case, result, file, moved, run, job>> /\ HostTypeOK
  BY DEF Purge!vars, Purge!machine, HostInv
<1>2. HostTypeOK'
  BY <1>1, HostCaseFixed DEF HostTypeOK
<1>3. \A w \in HostWorkers : HostHolds(w)'
  BY <1>1, IdleWorker
<1>4. HasLeft'
  BY <1>1, NothingLeaves DEF HostTypeOK
<1> QED
  BY <1>1, <1>2, <1>3, <1>4, HostCaseFixed DEF HostInv, HostHolds

LEMMA BatchStutters ==
  ASSUME Sessions!TrashSessionsAssumption, BatchInv, UNCHANGED Sessions!vars PROVE BatchInv'
<1>1. BatchTypeOK /\ UNCHANGED <<case, Sessions!machine, pc, pos, Sessions!prepared, rows, exit, moved, fresh>>
  BY DEF BatchInv, Sessions!vars
<1>2. \A y \in BatchItems, a \in Aspects : SameAspect(y, a)
  BY <1>1 DEF SameAspect, Sessions!machine
<1>3. Looks'
  BY <1>1, <1>2, NotedKeeps
<1> QED
  BY <1>1, <1>3, MachineKeeps DEF BatchTypeOK, Sessions!machine

LEMMA TrashInitInv == ASSUME Init PROVE TrashInv
  BY InputsAreSound, NativeInitInv, EmptyInitInv, BatchInitInv, HostInitInv DEF Init, TrashInv

LEMMA TrashNextInv == ASSUME TrashInv, [Next]_vars PROVE TrashInv'
<1>1. CASE NativeStep
  BY <1>1, InputsAreSound, NativeNextInv DEF NativeStep, NativeTurn, NativeIdle, TrashInv
<1>2. CASE EmptyStep
  BY <1>2, InputsAreSound, EmptyNextInv DEF EmptyStep, EmptyTurn, EmptyIdle, TrashInv
<1>3. CASE SessionsStep
  BY <1>3, InputsAreSound, BatchNextInv DEF SessionsStep, SessionsTurn, SessionsIdle, TrashInv
<1>4. CASE PurgeStep
  BY <1>4, InputsAreSound, HostNextInv DEF PurgeStep, PurgeTurn, PurgeIdle, TrashInv
<1>5. CASE UNCHANGED vars
  <2>1. UNCHANGED <<Native!vars, Empty!vars, Sessions!vars, Purge!vars, which>>
    BY <1>5 DEF vars, Native!vars, Native!world, Native!threads, Native!history, Empty!vars,
       Sessions!vars, Sessions!machine, Sessions!prepared, Purge!vars, Purge!machine
  <2> QED
    BY <2>1, InputsAreSound, OthersInv, EmptyStutters, BatchStutters, HostStutters DEF TrashInv
<1> QED
  BY <1>1, <1>2, <1>3, <1>4, <1>5 DEF Next

----------------------------------------------------------------------------
(* The results.                                                            *)

\* Each way to the Trash keeps its inductive invariant.
THEOREM TrashInvariance == Spec => []TrashInv
<1>1. Init => TrashInv
  BY TrashInitInv
<1>2. TrashInv /\ [Next]_vars => TrashInv'
  BY TrashNextInv
<1> QED
  BY <1>1, <1>2, PTL DEF Spec

\* Code: "This is the ONLY mutation attempt; no fallback": attempted.swap lets
\* one submission through to Foundation; a Finder event is sent under both
\* locks, with its guard on disk and all earlier events settled; and an object
\* that a purge host moved is not there to be moved by a second request.
THEOREM OneMutationAlways == Spec => []OneMutation
<1>1. ASSUME TrashInv PROVE OneMutation
  <2>1. CASE which = "native"
    BY <1>1, <2>1, NativeInvImplies DEF TrashInv, OneMutation
  <2>2. CASE which = "empty"
    BY <1>1, <2>2, EmptyInvImplies DEF TrashInv, OneMutation
  <2>3. CASE which = "purge"
    BY <1>1, <2>3, HostInvImplies DEF TrashInv, OneMutation
  <2>4. CASE which = "sessions"
    BY <2>4 DEF OneMutation
  <2> QED
    BY <1>1, <2>1, <2>2, <2>3, <2>4 DEF TrashInv
<1>2. TrashInv => OneMutation
  BY <1>1
<1> QED
  BY <1>2, TrashInvariance, PTL

\* Code: verify_destination compares identities, so that a replacement that
\* took the path just before the native call is never reported as the approved
\* object; the guards of a session look again at all it promised before each
\* call, and a batch that stands or falls together stops before its approval;
\* resolve_*_by_ids refuses what the reply to the preview did not offer.
THEOREM OnlyTheApprovedIsMovedAlways == Spec => []OnlyTheApprovedIsMoved
<1>1. ASSUME TrashInv PROVE OnlyTheApprovedIsMoved
  <2>1. CASE which = "native"
    BY <1>1, <2>1, NativeInvImplies DEF TrashInv, OnlyTheApprovedIsMoved
  <2>2. CASE which = "sessions"
    BY <1>1, <2>2, BatchInvImplies DEF TrashInv, OnlyTheApprovedIsMoved
  <2>3. CASE which = "purge"
    BY <1>1, <2>3, HostInvImplies DEF TrashInv, OnlyTheApprovedIsMoved
  <2>4. CASE which = "empty"
    BY <2>4 DEF OnlyTheApprovedIsMoved
  <2> QED
    BY <1>1, <2>1, <2>2, <2>3, <2>4 DEF TrashInv
<1>2. TrashInv => OnlyTheApprovedIsMoved
  BY <1>1
<1> QED
  BY <1>2, TrashInvariance, PTL

\* Code: classify_response answers Failed only when Foundation has moved
\* nothing; finish and the readers of the emptying history say no more than
\* was seen, whatever publications and power failures did to it; exit_code is
\* 0 only when all that was chosen left; execution_json pairs ids and rows.
THEOREM ReportsAreTrueAlways == Spec => []ReportsAreTrue
<1>1. ASSUME TrashInv PROVE ReportsAreTrue
  <2>1. CASE which = "native"
    BY <1>1, <2>1, NativeInvImplies DEF TrashInv, ReportsAreTrue
  <2>2. CASE which = "empty"
    BY <1>1, <2>2, EmptyInvImplies DEF TrashInv, ReportsAreTrue
  <2>3. CASE which = "sessions"
    BY <1>1, <2>3, BatchInvImplies DEF TrashInv, ReportsAreTrue
  <2>4. CASE which = "purge"
    BY <1>1, <2>4, HostInvImplies DEF TrashInv, ReportsAreTrue
  <2> QED
    BY <1>1, <2>1, <2>2, <2>3, <2>4 DEF TrashInv
<1>2. TrashInv => ReportsAreTrue
  BY <1>1
<1> QED
  BY <1>2, TrashInvariance, PTL

\* Code: the barrier is asked under both locks before the guard is laid, and
\* again before the event: when a session sends its event, the outcome of
\* every earlier one is known.
THEOREM NoEventOverAmbiguityAlways == Spec => NoEventOverAmbiguity
<1>1. ASSUME TrashInv, [Next]_vars, sent' # sent PROVE sent \subseteq settled
  <2>1. EmptyStep
    BY <1>1 DEF Next, NativeStep, NativeTurn, NativeIdle, SessionsStep, SessionsTurn, SessionsIdle,
       PurgeStep, PurgeTurn, PurgeIdle, vars
  <2> QED
    BY <1>1, <2>1, OnlySettledBefore DEF EmptyStep, EmptyTurn, TrashInv
<1>2. TrashInv /\ [Next]_vars => [sent' # sent => sent \subseteq settled]_(Empty!vars)
  BY <1>1
<1> QED
  BY <1>2, TrashInvariance, PTL DEF Spec, NoEventOverAmbiguity, Empty!NoEventOverAmbiguity

=============================================================================
