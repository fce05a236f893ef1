------------------------------ MODULE Settings ------------------------------
(***************************************************************************)
(* The configuration of a running power-dash: what viper makes of flags,   *)
(* environment and configuration file when the process starts              *)
(* (internal/cli/root.go, run.go), and the settings pages that read and    *)
(* rewrite the file meanwhile (getSettings, saveSettings and their helpers *)
(* in internal/api/query.go; web/src/pages/Settings.tsx).                  *)
(*                                                                         *)
(* A value stands for where it came from.  The file is always in use: with *)
(* none, saving is refused and nothing here changes.                       *)
(***************************************************************************)
EXTENDS Naturals, FiniteSets

CONSTANTS
  Keys,        \* the settings considered
  Pages,       \* settings pages, each with at most one save under way
  MaxStarts,   \* bound: starts of the process
  MaxSaves     \* bound: saves of all pages

(* The keys with a property of their own; the names are those of the file.   *)
Bound == {"endpoint", "password", "storage.path", "storage.retention",
          "storage.partition"}             \* viper.BindPFlag
AlwaysWritten == {"endpoint", "password"}  \* no omitempty in their yaml tag
Booleans == {"auto-refresh", "no-collector"}
ZeroDefault == {"password", "no-collector"}
Fields ==                                  \* what the page has a field for
  {"endpoint", "password", "storage.path", "storage.retention", "storage.partition",
   "default-theme", "log-level"} \cup Booleans
AllKeys == Fields \cup {"collection-interval", "listen"}

ASSUME SettingsAssumption ==
  /\ Keys \subseteq AllKeys /\ "password" \in Keys
  /\ {MaxStarts, MaxSaves} \subseteq Nat

(* Go's zero value, the default of NewDefaultProxyOptions, the value the     *)
(* file begins with, what a user enters, and what a flag or an environment   *)
(* variable says.                                                            *)
Values == {"zero", "default", "file", "user", "flag", "env"}
Absent == "absent"
Default(k) == IF k \in ZeroDefault THEN "zero" ELSE "default"

(* What a user can enter: a switch has two positions, a text can be emptied  *)
(* and a choice taken back.                                                  *)
Choices(k) == IF k \in Booleans THEN {"zero", "default"} ELSE {"zero", "user"}

VARIABLES
  file,        \* the configuration file: its keys
  garbled,     \* two writes have left something that is not YAML
  effective,   \* api.options
  given,       \* what the process was started with, beside the file
  up,          \* the process runs
  page,        \* each settings page
  save,        \* each page's saveSettings
  starts, saves,
  overlapped,  \* history: two saves ran at once, or a page loaded or the process
               \* died while a save had the file truncated
  had,         \* history: the keys the file has had a value for
  emptied      \* history: the keys the saves left without a value because a
               \* user had emptied them

vars == <<file, garbled, effective, given, up, page, save, starts, saves,
          overlapped, had, emptied>>
processVars == <<effective, given, up, starts>>
fileVars == <<file, garbled, had, emptied>>

Empty == [k \in Keys |-> Absent]
DecodeRaw(f) == f               \* Decode that leaves missing keys missing
Decode(f) == [k \in Keys |-> IF f[k] = Absent THEN "zero" ELSE f[k]]

(* An encoded configuration lacks the omitempty keys that are zero. *)
Encode(config) == [k \in Keys |-> IF config[k] = "zero" /\ k \notin AlwaysWritten
                                    THEN Absent ELSE config[k]]

(* viper.Unmarshal overwrites what the flags have set with the value of      *)
(* every key viper knows: the bound ones and those of the file.  There a     *)
(* bound flag comes before the environment, and that before the file.        *)
Effective(f, g) ==
  [k \in Keys |->
     LET flag == IF "flag" \in g[k] THEN "flag" ELSE Default(k)
     IN  CASE k \notin Bound /\ f[k] = Absent -> flag
           [] k \in Bound /\ "flag" \in g[k] -> "flag"
           [] OTHER -> IF "env" \in g[k] THEN "env"
                       ELSE IF f[k] # Absent THEN f[k] ELSE flag]

(* computeOverrides: the keys whose values differ. *)
Overrides(config) == {k \in Keys : config[k] # effective[k]}

(* applyDefaults leaves out the endpoint, the retention and the switches. *)
ApplyDefaults(config) ==
  [k \in Keys |->
     IF k \in {"collection-interval", "listen", "storage.path", "storage.partition",
               "log-level", "default-theme"} /\ config[k] = "zero"
       THEN Default(k) ELSE config[k]]

-----------------------------------------------------------------------------
(* A page: what it shows and lets nobody change, and what its user emptied.  *)
Page(config, disabled) ==
  [shown |-> TRUE, config |-> config, disabled |-> disabled, cleared |-> {}]
NoPage == [Page(Decode(Empty), {}) EXCEPT !.shown = FALSE]
NoSave == [at |-> "none", merged |-> Decode(Empty)]

Truncated == \E p \in Pages : save[p].at = "truncated"

(* A flag or variable for a few keys; a switch's flag says no more than a    *)
(* file could.                                                               *)
Given == [Keys -> SUBSET {"flag", "env"}]
GivenAtStart(g) ==
  /\ \A k \in Keys \cap Booleans : g[k] = {}
  /\ Cardinality({k \in Keys : g[k] # {}}) <= 1

(* Starting without a password fails. *)
Starts(f, g) ==
  /\ GivenAtStart(g)
  /\ Effective(f, g)["password"] # "zero"
  /\ given' = g /\ effective' = Effective(f, g)

Init ==
  /\ \E present \in SUBSET Keys :
       file = [k \in Keys |-> IF k \notin present THEN Absent
                              ELSE IF k \in Booleans THEN "default" ELSE "file"]
  /\ had = {k \in Keys : file[k] # Absent} /\ emptied = {}
  /\ garbled = FALSE
  /\ given = [k \in Keys |-> {}] /\ effective = Decode(Empty)
  /\ up = FALSE /\ starts = 0 /\ saves = 0
  /\ page = [p \in Pages |-> NoPage]
  /\ save = [p \in Pages |-> NoSave]
  /\ overlapped = FALSE

(* newRunCmd; an error of viper.ReadInConfig is ignored. *)
Start ==
  /\ ~up /\ up' = TRUE
  /\ starts < MaxStarts /\ starts' = starts + 1
  /\ \E g \in Given : Starts(IF garbled THEN Empty ELSE file, g)
  /\ UNCHANGED <<fileVars, page, save, saves, overlapped>>

(* The process ends; saves under way go with it. *)
Stop ==
  /\ up /\ up' = FALSE
  /\ overlapped' = (overlapped \/ Truncated)
  /\ save' = [p \in Pages |-> NoSave]
  /\ UNCHANGED <<fileVars, effective, given, starts, page, saves>>

-----------------------------------------------------------------------------
(* GetSettings that answers with the effective settings. *)
GetEffective(p) ==
  /\ up /\ save[p].at = "none"
  /\ page' = [page EXCEPT ![p] = Page(effective, {})]
  /\ UNCHANGED <<fileVars, processVars, save, saves, overlapped>>

(* The page loads: getSettings decodes the file, errors being ignored, fills *)
(* in defaults, and says which settings it finds overridden.                 *)
GetSettings(p) ==
  /\ up /\ save[p].at = "none"
  /\ LET config == ApplyDefaults(Decode(IF garbled THEN Empty ELSE file))
     IN  page' = [page EXCEPT ![p] = Page(config, Overrides(config))]
  /\ overlapped' = (overlapped \/ Truncated)
  /\ UNCHANGED <<fileVars, processVars, save, saves>>

(* The user enters a value where the page lets him. *)
Edit(p) ==
  /\ page[p].shown /\ save[p].at = "none"
  /\ \E k \in (Keys \cap Fields) \ page[p].disabled, v \in Values :
       /\ v \in Choices(k)
       /\ page' = [page EXCEPT
            ![p].config[k] = v,
            ![p].cleared = IF v = "zero" /\ k \notin Booleans THEN @ \cup {k} ELSE @ \ {k}]
  /\ UNCHANGED <<fileVars, processVars, save, saves, overlapped>>

-----------------------------------------------------------------------------
(* saveSettings, first without looking at overrides. *)
MergeAll(old, new) == new

(* updateIfNotOverridden for every key. *)
Merge(old, new) == [k \in Keys |-> IF k \in Overrides(old) THEN old[k] ELSE new[k]]

SaveStep(p, from, to) == save[p].at = from /\ save' = [save EXCEPT ![p].at = to]

(* SaveReads of a file that has been opened for writing first. *)
SaveReadsNothing(p) ==
  /\ up /\ page[p].shown /\ save[p].at = "none"
  /\ saves < MaxSaves /\ saves' = saves + 1
  /\ save' = [save EXCEPT ![p] = [at |-> "merged",
                                  merged |-> Merge(Decode(Empty), page[p].config)]]
  /\ UNCHANGED <<fileVars, processVars, page, overlapped>>

(* The page posts its configuration; the file is read and merged with it.    *)
SaveReads(p) ==
  /\ up /\ page[p].shown /\ save[p].at = "none"
  /\ saves < MaxSaves /\ saves' = saves + 1
  /\ ~garbled
  /\ save' = [save EXCEPT ![p] = [at |-> "merged",
                                  merged |-> Merge(Decode(file), page[p].config)]]
  /\ overlapped' = (overlapped \/ \E q \in Pages : save[q].at \in {"merged", "truncated"})
  /\ UNCHANGED <<fileVars, processVars, page>>

(* os.OpenFile with O_TRUNC. *)
SaveTruncates(p) ==
  /\ SaveStep(p, "merged", "truncated")
  /\ file' = Empty /\ garbled' = FALSE
  /\ UNCHANGED <<had, emptied, processVars, page, saves, overlapped>>

(* The encoder writes from the start of the file, whoever wrote to it since: *)
(* what is left behind a shorter text may not be YAML.                       *)
SaveWrites(p) ==
  /\ SaveStep(p, "truncated", "written")
  /\ file' = Encode(save[p].merged)
  /\ had' = had \cup {k \in Keys : save[p].merged[k] # "zero"}
  /\ emptied' = {k \in emptied \cup page[p].cleared : save[p].merged[k] = "zero"}
  /\ garbled' \in IF file = Empty THEN {FALSE} ELSE {FALSE, TRUE}
  /\ UNCHANGED <<processVars, page, saves, overlapped>>

(* "Settings Saved"; the page keeps what it shows. *)
SaveAnswered(p) ==
  /\ SaveStep(p, "written", "none")
  /\ UNCHANGED <<fileVars, processVars, page, saves, overlapped>>

Next ==
  \/ Start \/ Stop
  \/ \E p \in Pages :
       \/ GetSettings(p) \/ Edit(p)
       \/ SaveReads(p) \/ SaveTruncates(p) \/ SaveWrites(p) \/ SaveAnswered(p)

Spec == Init /\ [][Next]_vars

-----------------------------------------------------------------------------
Config == [Keys -> Values]

TypeOK ==
  /\ file \in [Keys -> Values \cup {Absent}]
  /\ effective \in Config /\ given \in Given
  /\ {garbled, up, overlapped} \subseteq BOOLEAN
  /\ \A p \in Pages :
       /\ page[p].shown \in BOOLEAN /\ page[p].config \in Config
       /\ page[p].disabled \subseteq Keys /\ page[p].cleared \subseteq Keys
       /\ save[p].at \in {"none", "merged", "truncated", "written"}
       /\ save[p].merged \in Config
  /\ starts \in 0 .. MaxStarts /\ saves \in 0 .. MaxSaves
  /\ had \subseteq Keys /\ emptied \subseteq Keys
  /\ (\E p \in Pages : save[p].at # "none") => up

(* What a flag or the environment says never gets into the file by way of a  *)
(* page that loads and saves the settings (getSettings answers with the      *)
(* file's configuration, saveSettings merges it).                            *)
FileKeepsToItself ==
  \A k \in Keys : file[k] \notin {"flag", "env"}

(* Saving loses no setting its user did not empty: unless two saves ran at   *)
(* once, or a page loaded or the process died in the middle of one, every    *)
(* setting that the file ever had a value for still has one, through any     *)
(* sequence of loads, edits, saves, restarts and overrides (saveSettings:    *)
(* "preserve non-overridden values"), save for those that a user has emptied *)
(* on a page and saved, until a save gives them a value again.  Not so a     *)
(* switch, and not the endpoint, which may be empty in the file and in       *)
(* effect: a page that was opened then and is saved after another one has    *)
(* set it, and a restart, empties it again.                                  *)
SettingsSurvive ==
  ~overlapped /\ ~Truncated
    => \A k \in had \ (Booleans \cup {"endpoint"}) :
         file[k] \in {Absent, "zero"} => k \in emptied

(* No page undoes what another one has saved since the process started: in   *)
(* a save by itself, a setting whose saved value awaits the restart keeps it *)
(* (computeOverrides against api.options, which saving leaves alone).        *)
FirstSaveStands ==
  [][\A p \in Pages :
       save[p].at = "merged" /\ save'[p].at = "truncated" /\ ~overlapped
         => \A k \in Keys : Decode(file)[k] # effective[k]
                              => save[p].merged[k] = Decode(file)[k]]_vars

(* "Settings Saved: Configuration updated successfully. Some changes may     *)
(* require a restart": what the page has posted for a setting it let the     *)
(* user change is what a restart would make effective, an emptied field      *)
(* meaning the default, save for settings that a flag or an environment      *)
(* variable overrides.                                                       *)
SavedMeansStored ==
  \A p \in Pages :
    save[p].at = "written" /\ ~overlapped =>
      \A k \in {k \in Keys \ page[p].disabled : given[k] = {}} :
        Effective(file, given)[k] =
          IF k \in page[p].cleared /\ k \notin AlwaysWritten THEN Default(k)
          ELSE page[p].config[k]
=============================================================================
