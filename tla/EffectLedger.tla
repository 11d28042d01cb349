---------------------------- MODULE EffectLedger ----------------------------
(***************************************************************************)
(* What executing an approved batch promises to the person who approved    *)
(* it and who may read the history afterwards, without any word about      *)
(* files, crashes or power: each item is handed to the system at most once *)
(* and one at a time, in the order of the batch; nothing is moved outside  *)
(* of such a call; and whoever reads the history while no batch is being   *)
(* executed is told the truth or "Unknown", and is never told otherwise    *)
(* later.                                                                  *)
(***************************************************************************)
EXTENDS Naturals

CONSTANTS
  Ops,    \* operations, in the order in which they are executed
  Items   \* the items of each

VARIABLES
  phase,  \* of each item: "untouched", "called" or "returned"
  moved,  \* the item has left its place
  told    \* what the history last said of it

vars == <<phase, moved, told>>

InFlight == {x \in Ops \X Items : phase[x[1]][x[2]] = "called"}

Init ==
  /\ phase = [o \in Ops |-> [i \in Items |-> "untouched"]]
  /\ moved = [o \in Ops |-> [i \in Items |-> FALSE]]
  /\ told = [o \in Ops |-> [i \in Items |-> "Planned"]]

\* The system is asked to move an item, after every earlier call has ended.
Call(o, i) ==
  /\ InFlight = {} /\ phase[o][i] = "untouched"
  /\ \A x \in Ops \X Items :
       x[1] > o \/ (x[1] = o /\ x[2] > i) => phase[x[1]][x[2]] = "untouched"
  /\ phase' = [phase EXCEPT ![o][i] = "called"]
  /\ UNCHANGED <<moved, told>>

Move(o, i) ==
  /\ phase[o][i] = "called"
  /\ moved' = [moved EXCEPT ![o][i] = TRUE]
  /\ UNCHANGED <<phase, told>>

\* The call answers, or the process that waited for it is gone.
Return(o, i) ==
  /\ phase[o][i] = "called"
  /\ phase' = [phase EXCEPT ![o][i] = "returned"]
  /\ UNCHANGED <<moved, told>>

\* What may be said of an item.
True(o, i) ==
  {"Unknown"} \cup
    CASE phase[o][i] = "untouched" -> {"Planned", "Skipped"}
      [] phase[o][i] = "returned" -> {IF moved[o][i] THEN "Succeeded" ELSE "Failed"}
      [] OTHER -> {}

\* What may still be said after v was.
Later(v) ==
  CASE v \in {"Succeeded", "Failed"} -> {v, "Unknown"}
    [] v = "Skipped" -> {"Skipped", "Unknown", "Planned"}
    [] OTHER -> {"Planned", "Skipped", "Succeeded", "Failed", "Unknown"}

\* The history answers for some of the operations.
Tell(R) ==
  /\ InFlight = {}
  /\ told' \in [Ops -> [Items -> Later("Planned")]]
  /\ \A o \in Ops : IF o \in R
                      THEN \A i \in Items : told'[o][i] \in True(o, i) \cap Later(told[o][i])
                      ELSE told'[o] = told[o]
  /\ UNCHANGED <<phase, moved>>

Next ==
  \/ \E o \in Ops, i \in Items : Call(o, i) \/ Move(o, i) \/ Return(o, i)
  \/ \E R \in SUBSET Ops : Tell(R)

Spec == Init /\ [][Next]_vars
=============================================================================
