--------------------------- MODULE LabelRegister ---------------------------
(***************************************************************************)
(* What the labels of power-dash are to those who read and save them: a    *)
(* register that holds what was saved last.  A save that breaks off leaves *)
(* it alone, but until a later one succeeds a restart may put a part of    *)
(* what was being saved in its place.                                      *)
(***************************************************************************)
CONSTANTS
  Keys, Texts,  \* of the labels
  Absent,       \* a key without a label
  Cut,          \* what is left of a text whose end is missing
  NoAttempt     \* no save has been begun and not finished

LabelSets == [Keys -> Texts \cup {Absent, Cut}]

(* What can be read from the beginning of the text of labels. *)
Parts(labels) ==
  {l \in LabelSets : \A k \in Keys :
     l[k] \in {labels[k], Absent} \cup IF labels[k] = Absent THEN {} ELSE {Cut}}

VARIABLES
  held,     \* the labels
  attempt   \* a save that has begun and did not end well, or not yet

registerVars == <<held, attempt>>

RegisterInit == held \in LabelSets /\ attempt = NoAttempt

(* A save begins; any other that had is past. *)
Try == attempt' \in LabelSets /\ UNCHANGED held

(* It succeeds. *)
Store == attempt # NoAttempt /\ held' = attempt /\ attempt' = NoAttempt

(* The process ends, and the next one reads what it finds. *)
Lose == attempt # NoAttempt /\ held' \in Parts(attempt) /\ attempt' = NoAttempt

RegisterNext == Try \/ Store \/ Lose

RegisterSpec == RegisterInit /\ [][RegisterNext]_registerVars
=============================================================================
