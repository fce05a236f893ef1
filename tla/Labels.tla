------------------------------- MODULE Labels -------------------------------
(***************************************************************************)
(* The names users give to metrics and series: the file and its copy in    *)
(* memory (LabelManager, internal/config/labels.go), the handlers that     *)
(* read and replace them (internal/api/labels.go), and the pages on which  *)
(* users edit them (web/src/pages/Labels.tsx).                             *)
(*                                                                         *)
(* Labels map each key to a text or to Absent.  The file is what Load      *)
(* would make of it: text that is not YAML counts as no labels, as a       *)
(* missing file does.  Texts are taken as trimmed; of keys, Trim says what *)
(* trimming makes.                                                         *)
(***************************************************************************)
EXTENDS Naturals

CONSTANTS
  Tabs,        \* browser tabs, each showing the page
  Keys, Texts, Absent, Cut, NoAttempt,   \* see LabelRegister
  Trim,        \* the key without the blanks around it
  Nameless,    \* the empty key
  NewText,     \* the empty text
  Files,       \* what the file may be at first
  MaxEdits,    \* bound: edits of all tabs
  MaxSaves,    \* bound: saves of all tabs
  MaxFaults    \* bound: restarts and failures of files and requests

LabelSets == [Keys -> Texts \cup {Absent, Cut}]
Parts(labels) ==
  {l \in LabelSets : \A k \in Keys :
     l[k] \in {labels[k], Absent} \cup IF labels[k] = Absent THEN {} ELSE {Cut}}
NoLabels == [k \in Keys |-> Absent]

ASSUME LabelsAssumption ==
  /\ Trim \in [Keys -> Keys] /\ \A k \in Keys : Trim[Trim[k]] = Trim[k]
  /\ Files \subseteq LabelSets
  /\ Nameless \in Keys /\ NewText \in Texts
  /\ NoAttempt \notin [Keys -> Texts \cup {Absent, Cut}]
  /\ {MaxEdits, MaxSaves, MaxFaults} \subseteq Nat

VARIABLES
  memory,    \* LabelManager.Config
  file,      \* the file
  torn,      \* history: what was being written to the file, and is not known
             \* to be there
  tab,       \* each tab: loading, writable, localLabels, isDirty, and (history)
             \* what it loaded, which keys were edited since, and
             \* whether the last load failed
  save,      \* each tab's handleSave, and the labels it has posted
  edits, saves, faults

labelVars == <<memory, file, torn, tab, save, edits, saves, faults>>
diskVars == <<memory, file, torn>>

NoSave == [at |-> "none", posted |-> NoLabels]
Opened == [loading |-> TRUE, writable |-> FALSE, labels |-> NoLabels, dirty |-> FALSE,
           loaded |-> NoLabels, edited |-> {}, missed |-> FALSE]

LabelsInit ==
  /\ file \in Files
  /\ memory = file
  /\ torn = NoAttempt
  /\ tab = [t \in Tabs |-> Opened]
  /\ save = [t \in Tabs |-> NoSave]
  /\ edits = 0 /\ saves = 0 /\ faults = 0

Fault == faults < MaxFaults /\ faults' = faults + 1

-----------------------------------------------------------------------------
(* LabelManager.Save of what t has posted, under the lock *)

Locked == \E t \in Tabs : save[t].at = "writing"

(* saveLabels refuses: the file is not writable, or does not open. *)
SaveRefused(t) ==
  /\ save[t].at = "posted" /\ Fault
  /\ save' = [save EXCEPT ![t].at = "failed"]
  /\ UNCHANGED <<diskVars, tab, edits, saves>>

(* SaveTruncates with the copy in memory replaced first. *)
SaveRemembers(t) ==
  /\ save[t].at = "posted" /\ ~Locked
  /\ save' = [save EXCEPT ![t].at = "writing"]
  /\ file' = NoLabels /\ torn' = save[t].posted /\ memory' = save[t].posted
  /\ UNCHANGED <<tab, edits, saves, faults>>

(* os.WriteFile opens the file and empties it. *)
SaveTruncates(t) ==
  /\ save[t].at = "posted" /\ ~Locked
  /\ save' = [save EXCEPT ![t].at = "writing"]
  /\ file' = NoLabels /\ torn' = save[t].posted
  /\ UNCHANGED <<memory, tab, edits, saves, faults>>

(* It fails half way, and Config stays what it was. *)
SaveBreaks(t) ==
  /\ save[t].at = "writing" /\ Fault
  /\ save' = [save EXCEPT ![t].at = "failed"]
  /\ file' \in Parts(save[t].posted)
  /\ UNCHANGED <<memory, torn, tab, edits, saves>>

SaveWrites(t) ==
  /\ save[t].at = "writing"
  /\ save' = [save EXCEPT ![t].at = "stored"]
  /\ file' = save[t].posted /\ memory' = save[t].posted /\ torn' = NoAttempt
  /\ UNCHANGED <<tab, edits, saves, faults>>

(* The process ends, perhaps in the middle of a save, and another starts:    *)
(* NewLabelManager loads the file.  Requests under way get no answer.        *)
Restart ==
  /\ Fault
  /\ memory' = file /\ torn' = NoAttempt
  /\ save' = [t \in Tabs |-> IF save[t].at \in {"posted", "writing", "stored"}
                               THEN [save[t] EXCEPT !.at = "failed"] ELSE save[t]]
  /\ UNCHANGED <<file, tab, edits, saves>>

-----------------------------------------------------------------------------
(* A tab *)

(* fetchLabels is answered with the labels and whether the file is writable. *)
Load(t, writable) ==
  /\ tab[t].loading
  /\ tab' = [tab EXCEPT ![t] = [loading |-> FALSE, writable |-> writable, labels |-> memory,
                                dirty |-> @.dirty, loaded |-> memory, edited |-> {},
                                missed |-> FALSE]]
  /\ UNCHANGED <<diskVars, save, edits, saves>>

FetchLabels(t) == Load(t, TRUE) /\ UNCHANGED faults
FetchReadOnly(t) == Load(t, FALSE) /\ Fault

(* It is not answered: the form comes back as it was. *)
FetchFails(t) ==
  /\ tab[t].loading /\ Fault
  /\ tab' = [tab EXCEPT ![t].loading = FALSE, ![t].missed = TRUE]
  /\ UNCHANGED <<diskVars, save, edits, saves>>

(* Any change makes the page dirty, also while a save is under way. *)
Edit(t, labels, keys) ==
  /\ ~tab[t].loading /\ tab[t].writable
  /\ edits < MaxEdits /\ edits' = edits + 1
  /\ tab' = [tab EXCEPT ![t].labels = labels, ![t].dirty = TRUE,
                        ![t].edited = @ \cup {Trim[k] : k \in keys}]
  /\ UNCHANGED <<diskVars, save, saves, faults>>

HandleAdd(t) == Edit(t, [tab[t].labels EXCEPT ![Nameless] = NewText], {Nameless})

(* The new key takes the text of the old one, whether or not it had a text. *)
HandleUpdateKey(t, old, new) ==
  /\ tab[t].labels[old] # Absent /\ new # old
  /\ Edit(t, [tab[t].labels EXCEPT ![old] = Absent, ![new] = tab[t].labels[old]], {old, new})

HandleUpdateValue(t, k, text) ==
  /\ tab[t].labels[k] \notin {Absent, text}
  /\ Edit(t, [tab[t].labels EXCEPT ![k] = text], {k})

HandleDelete(t, k) ==
  tab[t].labels[k] # Absent /\ Edit(t, [tab[t].labels EXCEPT ![k] = Absent], {k})

(* Cleaned without the trimming: only the empty key is dropped. *)
CleanedUntrimmed(labels) == {[labels EXCEPT ![Nameless] = Absent]}

(* The labels that are posted: trimmed keys that are not empty.  Of keys     *)
(* that become one, the last in the order of the form counts.                *)
Cleaned(labels) ==
  LET Same(k) == {l \in Keys : Trim[l] = k /\ k # Nameless /\ labels[l] # Absent}
  IN  {c \in LabelSets : \A k \in Keys :
         IF Same(k) = {} THEN c[k] = Absent ELSE c[k] \in {labels[l] : l \in Same(k)}}

HandleSave(t) ==
  /\ ~tab[t].loading /\ tab[t].writable /\ tab[t].dirty /\ save[t].at = "none"
  /\ saves < MaxSaves /\ saves' = saves + 1
  /\ \E c \in Cleaned(tab[t].labels) : save' = [save EXCEPT ![t] = [at |-> "posted", posted |-> c]]
  /\ UNCHANGED <<diskVars, tab, edits, faults>>

(* The answer is lost, by a restart, or on its way. *)
SaveLost(t) ==
  /\ save[t].at = "stored" /\ Fault
  /\ save' = [save EXCEPT ![t].at = "failed"]
  /\ UNCHANGED <<diskVars, tab, edits, saves>>

(* "Error Saving": the page stays as it is. *)
SaveFailed(t) ==
  /\ save[t].at = "failed"
  /\ save' = [save EXCEPT ![t] = NoSave]
  /\ UNCHANGED <<diskVars, tab, edits, saves, faults>>

(* SaveDone without the second fetch. *)
SaveDoneHere(t) ==
  /\ save[t].at = "stored"
  /\ save' = [save EXCEPT ![t] = NoSave]
  /\ tab' = [tab EXCEPT ![t].dirty = FALSE]
  /\ UNCHANGED <<diskVars, edits, saves, faults>>

(* "Labels Saved": after the refresh of the label context, which is answered *)
(* in some way, the page is clean and fetches the labels again, the form     *)
(* being hidden meanwhile.                                                   *)
SaveDone(t) ==
  /\ save[t].at = "stored"
  /\ save' = [save EXCEPT ![t] = NoSave]
  /\ tab' = [tab EXCEPT ![t].dirty = FALSE, ![t].loading = TRUE]
  /\ UNCHANGED <<diskVars, edits, saves, faults>>

LabelsNext ==
  \/ Restart
  \/ \E t \in Tabs :
       \/ SaveRefused(t) \/ SaveTruncates(t) \/ SaveBreaks(t) \/ SaveWrites(t)
       \/ FetchLabels(t) \/ FetchReadOnly(t) \/ FetchFails(t)
       \/ HandleAdd(t) \/ HandleSave(t) \/ SaveLost(t) \/ SaveFailed(t) \/ SaveDone(t)
       \/ \E k \in Keys : \/ HandleDelete(t, k)
                          \/ \E l \in Keys : HandleUpdateKey(t, k, l)
                          \/ \E text \in Texts : HandleUpdateValue(t, k, text)

LabelsSpec == LabelsInit /\ [][LabelsNext]_labelVars

(* What comes of itself: requests are answered and handlers run. *)
Fetched(t) == FetchLabels(t) \/ FetchReadOnly(t) \/ FetchFails(t)
SaveRuns(t) == \/ SaveTruncates(t) \/ SaveWrites(t) \/ SaveBreaks(t)
               \/ SaveDone(t) \/ SaveFailed(t)

-----------------------------------------------------------------------------
LabelsTypeOK ==
  /\ {memory, file} \subseteq LabelSets /\ torn \in LabelSets \cup {NoAttempt}
  /\ tab \in [Tabs -> [loading : BOOLEAN, writable : BOOLEAN, labels : LabelSets,
                       dirty : BOOLEAN, loaded : LabelSets, edited : SUBSET Keys,
                       missed : BOOLEAN]]
  /\ save \in [Tabs -> [at : {"none", "posted", "writing", "stored", "failed"},
                        posted : LabelSets]]
  /\ edits \in 0 .. MaxEdits /\ saves \in 0 .. MaxSaves /\ faults \in 0 .. MaxFaults

(* Whoever reads the labels sees those of the last save that succeeded, in   *)
(* whatever order saves of several tabs, their failures and restarts come;   *)
(* only a restart after a save that broke off, which WriteFile leaves the    *)
(* file truncated by, may show a part of that save instead (labels.go).      *)
Register == INSTANCE LabelRegister WITH held <- memory, attempt <- torn
LabelsAreRegister == Register!RegisterSpec

(* A save changes the labels its user has edited and no others, unless a     *)
(* tab that loaded other labels saves them all: the later save undoes the    *)
(* earlier one only if its page was loaded before (handleSave).              *)
SavesOnlyEdits ==
  [][\A t \in Tabs : SaveWrites(t) /\ tab[t].loaded = memory
       => \A k \in Keys : memory'[k] # memory[k] => k \in tab[t].edited]_labelVars

(* Every page shows its form, and no save is under way. *)
LabelsSettled == \A t \in Tabs : ~tab[t].loading /\ save[t].at = "none"

(* A page that offers nothing to save shows labels as it loaded them, also   *)
(* when the user went on editing while it saved; only a fetch that failed    *)
(* leaves other ones (isDirty, fetchLabels).                                 *)
CleanPageShowsLoaded ==
  \A t \in Tabs : ~tab[t].loading /\ ~tab[t].dirty /\ ~tab[t].missed
                    => tab[t].labels = tab[t].loaded
=============================================================================
