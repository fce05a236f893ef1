-------------------------- MODULE Settings_proofs --------------------------
(***************************************************************************)
(* Theorems about Settings: what flags and the environment say stays out   *)
(* of the file, saving loses no settings, and no save undoes another that  *)
(* awaits the restart.                                                     *)
(***************************************************************************)
EXTENDS Settings, TLAPS

-----------------------------------------------------------------------------
(* Types *)

Files == [Keys -> Values \cup {Absent}]
PageType == [shown : BOOLEAN, config : Config, disabled : SUBSET Keys, cleared : SUBSET Keys]
SaveType == [at : {"none", "merged", "truncated", "written"}, merged : Config]

Typed ==
  /\ file \in Files /\ effective \in Config /\ given \in Given
  /\ garbled \in BOOLEAN /\ up \in BOOLEAN /\ overlapped \in BOOLEAN
  /\ page \in [Pages -> PageType] /\ save \in [Pages -> SaveType]
  /\ starts \in 0 .. MaxStarts /\ saves \in 0 .. MaxSaves
  /\ had \in SUBSET Keys /\ emptied \in SUBSET Keys
  /\ (\E p \in Pages : save[p].at # "none") => up

LEMMA TypedImplies == Typed => TypeOK
<1> SUFFICES ASSUME Typed PROVE TypeOK
  OBVIOUS
<1>1. ASSUME NEW p \in Pages
      PROVE  /\ page[p].shown \in BOOLEAN /\ page[p].config \in Config
             /\ page[p].disabled \subseteq Keys /\ page[p].cleared \subseteq Keys
             /\ save[p].at \in {"none", "merged", "truncated", "written"}
             /\ save[p].merged \in Config
  <2>1. page[p] \in PageType /\ save[p] \in SaveType
    BY DEF Typed
  <2> QED
    BY <2>1 DEF PageType, SaveType
<1> QED
  BY <1>1 DEF Typed, TypeOK, Files

LEMMA ValuesOfFiles ==
  /\ Absent \notin Values /\ {"zero", "default", "file", "user", "flag", "env"} \subseteq Values
  /\ Empty \in Files
  /\ \A k \in Keys : Default(k) \in Values /\ Choices(k) \subseteq Values
  BY DEF Values, Absent, Empty, Files, Default, Choices

LEMMA DecodeTyped ==
  ASSUME NEW f \in Files
  PROVE  /\ Decode(f) \in Config
         /\ \A k \in Keys : Decode(f)[k] = IF f[k] = Absent THEN "zero" ELSE f[k]
  BY ValuesOfFiles DEF Decode, Files, Config

LEMMA EncodeTyped ==
  ASSUME NEW c \in Config
  PROVE  /\ Encode(c) \in Files
         /\ \A k \in Keys : Encode(c)[k] \in {c[k], Absent}
         /\ \A k \in Keys : c[k] # "zero" => Encode(c)[k] = c[k]
         /\ \A k \in Keys : Encode(c)[k] = "zero" => k \in AlwaysWritten
  BY ValuesOfFiles DEF Encode, Files, Config

LEMMA MergeTyped ==
  ASSUME Typed, NEW old \in Config, NEW new \in Config
  PROVE  /\ Merge(old, new) \in Config
         /\ \A k \in Keys : Merge(old, new)[k] = IF old[k] # effective[k] THEN old[k] ELSE new[k]
  BY DEF Merge, Overrides, Config

LEMMA ApplyTyped ==
  ASSUME NEW c \in Config
  PROVE  /\ ApplyDefaults(c) \in Config
         /\ \A k \in Keys : ApplyDefaults(c)[k] \in {c[k], Default(k)}
         /\ \A k \in Keys : c[k] # "zero" => ApplyDefaults(c)[k] = c[k]
  BY ValuesOfFiles DEF ApplyDefaults, Config

LEMMA EffectiveTyped ==
  ASSUME NEW f \in Files, NEW g \in Given
  PROVE  Effective(f, g) \in Config
<1> SUFFICES ASSUME NEW k \in Keys PROVE
      (LET flag == IF "flag" \in g[k] THEN "flag" ELSE Default(k)
       IN  CASE k \notin Bound /\ f[k] = Absent -> flag
             [] k \in Bound /\ "flag" \in g[k] -> "flag"
             [] OTHER -> IF "env" \in g[k] THEN "env"
                         ELSE IF f[k] # Absent THEN f[k] ELSE flag) \in Values
  BY DEF Effective, Config
<1>1. f[k] \in Values \cup {Absent} /\ Default(k) \in Values
  BY ValuesOfFiles DEF Files
<1>2. (IF "flag" \in g[k] THEN "flag" ELSE Default(k)) \in Values
  BY <1>1, ValuesOfFiles
<1> QED
  BY <1>1, <1>2, ValuesOfFiles

LEMMA PageTyped ==
  ASSUME NEW c \in Config, NEW d \in SUBSET Keys
  PROVE  /\ Page(c, d) \in PageType /\ Page(c, d).shown = TRUE /\ Page(c, d).config = c
         /\ Page(c, d).disabled = d /\ Page(c, d).cleared = {}
  BY DEF Page, PageType

LEMMA NothingTyped ==
  /\ NoPage \in PageType /\ NoPage.config = Decode(Empty) /\ ~NoPage.shown
  /\ NoSave \in SaveType
<1>1. Decode(Empty) \in Config
  BY ValuesOfFiles, DecodeTyped
<1>2. NoSave \in SaveType
  BY <1>1 DEF NoSave, SaveType
<1> DEFINE r == Page(Decode(Empty), {})
<1>3. r \in PageType /\ r.config = Decode(Empty)
  BY <1>1, PageTyped
<1>4. NoPage = [r EXCEPT !.shown = FALSE]
  BY DEF NoPage
<1> HIDE DEF r
<1> QED
  BY <1>2, <1>3, <1>4 DEF PageType

(* A page that becomes r, and a save that becomes s. *)
LEMMA PageBecomes ==
  ASSUME Typed, NEW p \in Pages, NEW r \in PageType, page' = [page EXCEPT ![p] = r]
  PROVE  /\ page' \in [Pages -> PageType]
         /\ \A q \in Pages : page'[q] = IF q = p THEN r ELSE page[q]
  BY DEF Typed

LEMMA SaveBecomes ==
  ASSUME Typed, NEW p \in Pages, NEW s \in SaveType, save' = [save EXCEPT ![p] = s]
  PROVE  /\ save' \in [Pages -> SaveType]
         /\ \A q \in Pages : save'[q] = IF q = p THEN s ELSE save[q]
  BY DEF Typed

LEMMA SaveSteps ==
  ASSUME Typed, NEW p \in Pages, NEW from, NEW to \in {"none", "merged", "truncated", "written"},
         SaveStep(p, from, to)
  PROVE  /\ save[p].at = from /\ save' \in [Pages -> SaveType]
         /\ save'[p].at = to /\ save'[p].merged = save[p].merged
         /\ \A q \in Pages \ {p} : save'[q] = save[q]
<1> DEFINE s == [save[p] EXCEPT !.at = to]
<1>1. save[p] \in SaveType /\ save[p].at = from
  BY DEF Typed, SaveStep
<1>2. s \in SaveType /\ s.at = to /\ s.merged = save[p].merged
  BY <1>1 DEF SaveType
<1>3. save' = [save EXCEPT ![p] = s]
  BY DEF SaveStep
<1> HIDE DEF s
<1> QED
  BY <1>1, <1>2, <1>3, SaveBecomes

-----------------------------------------------------------------------------
(* What the actions do to pages and saves *)

LoadedFile == IF garbled THEN Empty ELSE file

LEMMA GetSettingsDoes ==
  ASSUME Typed, NEW p \in Pages, GetSettings(p)
  PROVE  /\ LoadedFile \in Files /\ save[p].at = "none"
         /\ page' \in [Pages -> PageType]
         /\ page'[p].shown = TRUE
         /\ page'[p].config = ApplyDefaults(Decode(LoadedFile))
         /\ page'[p].disabled = Overrides(page'[p].config) /\ page'[p].cleared = {}
         /\ \A q \in Pages \ {p} : page'[q] = page[q]
<1> DEFINE c == ApplyDefaults(Decode(LoadedFile))
           r == Page(c, Overrides(c))
<1>1. LoadedFile \in Files
  BY ValuesOfFiles DEF Typed, LoadedFile
<1>2. c \in Config
  BY <1>1, DecodeTyped, ApplyTyped
<1>3. Overrides(c) \in SUBSET Keys
  BY DEF Overrides
<1>4. page' = [page EXCEPT ![p] = r] /\ save[p].at = "none"
  BY DEF GetSettings, LoadedFile
<1> HIDE DEF c
<1>5. /\ r \in PageType /\ r.shown = TRUE /\ r.config = c
      /\ r.disabled = Overrides(c) /\ r.cleared = {}
  BY <1>2, <1>3, PageTyped
<1> HIDE DEF r
<1>6. page' \in [Pages -> PageType] /\ \A q \in Pages : page'[q] = IF q = p THEN r ELSE page[q]
  BY <1>4, <1>5, PageBecomes
<1>7. page'[p] = r
  BY <1>6
<1> QED
  BY <1>1, <1>4, <1>5, <1>6, <1>7 DEF c

LEMMA EditDoes ==
  ASSUME Typed, NEW p \in Pages, Edit(p)
  PROVE  /\ save[p].at = "none" /\ page[p].shown
         /\ page' \in [Pages -> PageType]
         /\ page'[p].disabled = page[p].disabled
         /\ \A q \in Pages \ {p} : page'[q] = page[q]
         /\ page'[p].shown
         /\ \E k \in Keys \ page[p].disabled, v \in Values :
              /\ v \in Choices(k)
              /\ page'[p].config = [page[p].config EXCEPT ![k] = v]
              /\ page'[p].cleared = IF v = "zero" /\ k \notin Booleans
                                      THEN page[p].cleared \cup {k} ELSE page[p].cleared \ {k}
<1>1. PICK k \in Keys \ page[p].disabled, v \in Values :
        /\ v \in Choices(k)
        /\ page' = [page EXCEPT
             ![p].config[k] = v,
             ![p].cleared = IF v = "zero" /\ k \notin Booleans THEN @ \cup {k} ELSE @ \ {k}]
  BY DEF Edit
<1> DEFINE c == [page[p].config EXCEPT ![k] = v]
           e == IF v = "zero" /\ k \notin Booleans THEN page[p].cleared \cup {k}
                                                  ELSE page[p].cleared \ {k}
           r == [page[p] EXCEPT !.config = c, !.cleared = e]
<1>2. page[p] \in PageType
  BY DEF Typed
<1>3. page[p].config \in Config /\ page[p].cleared \in SUBSET Keys
  BY <1>2 DEF PageType
<1>4. c \in Config /\ e \in SUBSET Keys
  BY <1>3 DEF Config
<1>5. page' = [page EXCEPT ![p] = r]
  BY <1>1, Zenon
<1>6. page[p].shown
  BY DEF Edit
<1> HIDE DEF c, e
<1>7. /\ r \in PageType /\ r.config = c /\ r.disabled = page[p].disabled
      /\ r.shown = page[p].shown /\ r.cleared = e
  BY <1>2, <1>4 DEF PageType
<1> HIDE DEF r
<1>8. page' \in [Pages -> PageType] /\ \A q \in Pages : page'[q] = IF q = p THEN r ELSE page[q]
  BY <1>5, <1>7, PageBecomes
<1>9. page'[p] = r
  BY <1>8
<1>10. save[p].at = "none"
  BY DEF Edit
<1>11. page'[p].config = c /\ page'[p].cleared = e
  BY <1>7, <1>9
<1> QED
  BY <1>1, <1>6, <1>7, <1>8, <1>9, <1>10, <1>11 DEF c, e

LEMMA SaveReadsDoes ==
  ASSUME Typed, NEW p \in Pages, SaveReads(p)
  PROVE  /\ up /\ ~garbled /\ save[p].at = "none" /\ page[p].shown
         /\ Decode(file) \in Config /\ page[p].config \in Config
         /\ save' \in [Pages -> SaveType]
         /\ save'[p].at = "merged"
         /\ save'[p].merged = Merge(Decode(file), page[p].config)
         /\ \A q \in Pages \ {p} : save'[q] = save[q]
<1> DEFINE m == Merge(Decode(file), page[p].config)
           s == [at |-> "merged", merged |-> m]
<1>1. page[p] \in PageType /\ file \in Files
  BY DEF Typed
<1>2. page[p].config \in Config /\ Decode(file) \in Config
  BY <1>1, DecodeTyped DEF PageType
<1>3. m \in Config
  BY <1>2, MergeTyped
<1>4. save' = [save EXCEPT ![p] = s]
  BY DEF SaveReads
<1> HIDE DEF m
<1>5. s \in SaveType /\ s.at = "merged" /\ s.merged = m
  BY <1>3 DEF SaveType
<1> HIDE DEF s
<1>6. save' \in [Pages -> SaveType] /\ \A q \in Pages : save'[q] = IF q = p THEN s ELSE save[q]
  BY <1>4, <1>5, SaveBecomes
<1>7. save'[p] = s
  BY <1>6
<1>8. up /\ ~garbled /\ save[p].at = "none" /\ page[p].shown
  BY DEF SaveReads
<1> QED
  BY <1>2, <1>5, <1>6, <1>7, <1>8 DEF m

LEMMA StopDoes ==
  ASSUME Typed, Stop
  PROVE  /\ save' \in [Pages -> SaveType]
         /\ \A p \in Pages : save'[p].at = "none" /\ save'[p].merged = Decode(Empty)
<1>1. save' = [p \in Pages |-> NoSave]
  BY DEF Stop
<1>2. NoSave.at = "none" /\ NoSave.merged = Decode(Empty)
  BY DEF NoSave
<1> QED
  BY <1>1, <1>2, NothingTyped

-----------------------------------------------------------------------------
LEMMA TypedInit == Init => Typed
<1> SUFFICES ASSUME Init PROVE Typed
  OBVIOUS
<1>1. PICK present \in SUBSET Keys :
        file = [k \in Keys |-> IF k \notin present THEN Absent
                              ELSE IF k \in Booleans THEN "default" ELSE "file"]
  BY DEF Init
<1>2. file \in Files
  BY <1>1, ValuesOfFiles DEF Files
<1>3. effective \in Config
  BY ValuesOfFiles, DecodeTyped DEF Init
<1>4. given \in Given
  BY DEF Init, Given
<1>5. page \in [Pages -> PageType] /\ save \in [Pages -> SaveType]
  BY NothingTyped DEF Init
<1>6. \A p \in Pages : save[p].at = "none"
  BY DEF Init, NoSave
<1>7. /\ garbled = FALSE /\ up = FALSE /\ overlapped = FALSE /\ starts = 0 /\ saves = 0
      /\ had \in SUBSET Keys /\ emptied = {}
  BY DEF Init
<1>8. starts \in 0 .. MaxStarts /\ saves \in 0 .. MaxSaves
  BY <1>7, SettingsAssumption
<1>9. garbled \in BOOLEAN /\ up \in BOOLEAN /\ overlapped \in BOOLEAN
  BY <1>7
<1> QED
  BY <1>2, <1>3, <1>4, <1>5, <1>6, <1>7, <1>8, <1>9 DEF Typed

LEMMA TypedStep == Typed /\ [Next]_vars => Typed'
<1> SUFFICES ASSUME Typed, [Next]_vars PROVE Typed'
  OBVIOUS
<1>1. CASE Start
  <2>1. PICK g \in Given : Starts(IF garbled THEN Empty ELSE file, g)
    BY <1>1 DEF Start
  <2>2. LoadedFile \in Files
    BY ValuesOfFiles DEF Typed, LoadedFile
  <2>3. given' = g /\ effective' = Effective(LoadedFile, g)
    BY <2>1 DEF Starts, LoadedFile
  <2>4. effective' \in Config
    BY <2>2, <2>3, EffectiveTyped
  <2>5. up' = TRUE /\ starts' \in 0 .. MaxStarts
    BY <1>1, SettingsAssumption DEF Start, Typed
  <2>6. UNCHANGED <<file, garbled, had, emptied, page, save, saves, overlapped>>
    BY <1>1 DEF Start, fileVars
  <2> QED
    BY <2>3, <2>4, <2>5, <2>6 DEF Typed
<1>2. CASE Stop
  <2>1. UNCHANGED <<file, garbled, had, emptied, effective, given, starts, page, saves>>
    BY <1>2 DEF Stop, fileVars
  <2>2. up' = FALSE /\ overlapped' \in BOOLEAN
    BY <1>2 DEF Stop, Typed
  <2> QED
    BY <1>2, <2>1, <2>2, StopDoes DEF Typed
<1>3. ASSUME NEW p \in Pages, GetSettings(p)
      PROVE  Typed'
  <2>1. UNCHANGED <<file, garbled, had, emptied, effective, given, up, starts, save, saves>>
    BY <1>3 DEF GetSettings, fileVars, processVars
  <2>2. page' \in [Pages -> PageType] /\ overlapped' \in BOOLEAN
    BY <1>3, GetSettingsDoes DEF GetSettings, Typed
  <2> QED
    BY <2>1, <2>2 DEF Typed
<1>4. ASSUME NEW p \in Pages, Edit(p)
      PROVE  Typed'
  <2>1. UNCHANGED <<file, garbled, had, emptied, effective, given, up, starts, save, saves, overlapped>>
    BY <1>4 DEF Edit, fileVars, processVars
  <2>2. page' \in [Pages -> PageType]
    BY <1>4, EditDoes
  <2> QED
    BY <2>1, <2>2 DEF Typed
<1>5. ASSUME NEW p \in Pages, SaveReads(p)
      PROVE  Typed'
  <2>1. UNCHANGED <<file, garbled, had, emptied, effective, given, up, starts, page>>
    BY <1>5 DEF SaveReads, fileVars, processVars
  <2>2. saves' \in 0 .. MaxSaves /\ overlapped' \in BOOLEAN
    BY <1>5, SettingsAssumption DEF SaveReads, Typed
  <2>3. save' \in [Pages -> SaveType] /\ up
    BY <1>5, SaveReadsDoes
  <2> QED
    BY <2>1, <2>2, <2>3 DEF Typed
<1>6. ASSUME NEW p \in Pages, SaveTruncates(p)
      PROVE  Typed'
  <2>1. UNCHANGED <<had, emptied, effective, given, up, starts, page, saves, overlapped>>
    BY <1>6 DEF SaveTruncates, processVars
  <2>2. file' \in Files /\ garbled' \in BOOLEAN
    BY <1>6, ValuesOfFiles DEF SaveTruncates
  <2>3. save[p].at # "none" /\ save' \in [Pages -> SaveType]
    BY <1>6, SaveSteps DEF SaveTruncates
  <2> QED
    BY <2>1, <2>2, <2>3 DEF Typed
<1>7. ASSUME NEW p \in Pages, SaveWrites(p)
      PROVE  Typed'
  <2>1. UNCHANGED <<effective, given, up, starts, page, saves, overlapped>>
    BY <1>7 DEF SaveWrites, processVars
  <2>2. save[p].at # "none" /\ save' \in [Pages -> SaveType]
    BY <1>7, SaveSteps DEF SaveWrites
  <2>3. save[p].merged \in Config
    BY DEF Typed, SaveType
  <2>4. file' \in Files
    BY <1>7, <2>3, EncodeTyped DEF SaveWrites
  <2>5. garbled' \in BOOLEAN /\ had' \in SUBSET Keys
    BY <1>7 DEF SaveWrites, Typed
  <2>6. emptied' \in SUBSET Keys
    <3>1. page[p].cleared \in SUBSET Keys
      BY DEF Typed, PageType
    <3> QED
      BY <1>7, <3>1 DEF SaveWrites, Typed
  <2> QED
    BY <2>1, <2>2, <2>4, <2>5, <2>6 DEF Typed
<1>8. ASSUME NEW p \in Pages, SaveAnswered(p)
      PROVE  Typed'
  <2>1. UNCHANGED <<file, garbled, had, emptied, effective, given, up, starts, page, saves, overlapped>>
    BY <1>8 DEF SaveAnswered, fileVars, processVars
  <2>2. save[p].at # "none" /\ save' \in [Pages -> SaveType]
    BY <1>8, SaveSteps DEF SaveAnswered
  <2> QED
    BY <2>1, <2>2 DEF Typed
<1>9. CASE UNCHANGED vars
  BY <1>9 DEF vars, Typed
<1> QED
  BY <1>1, <1>2, <1>3, <1>4, <1>5, <1>6, <1>7, <1>8, <1>9 DEF Next

(* Every definition of the types holds in every state. *)
THEOREM TypeCorrect == Spec => []TypeOK
  BY TypedInit, TypedStep, TypedImplies, PTL DEF Spec

-----------------------------------------------------------------------------
(* What comes from outside the file stays there: it is in no page and no     *)
(* save either.                                                              *)

Outside == {"flag", "env"}

OwnInv ==
  /\ \A k \in Keys : file[k] \notin Outside
  /\ \A p \in Pages : \A k \in Keys : /\ page[p].config[k] \notin Outside
                                      /\ save[p].merged[k] \notin Outside

LEMMA NothingOwn ==
  \A k \in Keys : /\ Empty[k] \notin Outside /\ Decode(Empty)[k] \notin Outside
                  /\ Default(k) \notin Outside /\ Choices(k) \cap Outside = {}
  BY ValuesOfFiles, DecodeTyped DEF Empty, Absent, Outside, Default, Choices

LEMMA OwnInit == Init => OwnInv
<1> SUFFICES ASSUME Init PROVE OwnInv
  OBVIOUS
<1>1. \A k \in Keys : file[k] \notin Outside
  BY DEF Init, Outside, Absent
<1>2. \A p \in Pages : page[p].config = Decode(Empty) /\ save[p].merged = Decode(Empty)
  BY NothingTyped DEF Init, NoSave
<1> QED
  BY <1>1, <1>2, NothingOwn DEF OwnInv

LEMMA OwnStep == Typed /\ OwnInv /\ [Next]_vars => OwnInv'
<1> SUFFICES ASSUME Typed, OwnInv, [Next]_vars PROVE OwnInv'
  OBVIOUS
<1> USE DEF OwnInv
<1>1. CASE Start
  BY <1>1 DEF Start, fileVars
<1>2. CASE Stop
  BY <1>2, StopDoes, NothingOwn DEF Stop, fileVars
<1>3. ASSUME NEW p \in Pages, GetSettings(p)
      PROVE  OwnInv'
  <2>1. LoadedFile \in Files /\ \A k \in Keys : LoadedFile[k] \notin Outside
    BY <1>3, GetSettingsDoes, NothingOwn DEF LoadedFile
  <2>2. Decode(LoadedFile) \in Config /\ \A k \in Keys : Decode(LoadedFile)[k] \notin Outside
    BY <2>1, DecodeTyped DEF Outside
  <2>3. \A k \in Keys : ApplyDefaults(Decode(LoadedFile))[k] \notin Outside
    BY <2>2, ApplyTyped, NothingOwn
  <2>4. file' = file /\ save' = save
    BY <1>3 DEF GetSettings, fileVars
  <2> QED
    BY <1>3, <2>3, <2>4, GetSettingsDoes
<1>4. ASSUME NEW p \in Pages, Edit(p)
      PROVE  OwnInv'
  <2>1. PICK k \in Keys \ page[p].disabled, v \in Values :
          /\ v \in Choices(k)
          /\ page'[p].config = [page[p].config EXCEPT ![k] = v]
          /\ page'[p].cleared = IF v = "zero" /\ k \notin Booleans
                                  THEN page[p].cleared \cup {k} ELSE page[p].cleared \ {k}
    BY <1>4, EditDoes
  <2>2. page[p].config \in Config
    BY DEF Typed, PageType
  <2>3. \A l \in Keys : page'[p].config[l] \in {page[p].config[l], v}
    BY <2>1, <2>2 DEF Config
  <2>4. v \notin Outside /\ file' = file /\ save' = save
    BY <1>4, <2>1, NothingOwn DEF Edit, fileVars
  <2> QED
    BY <1>4, <2>3, <2>4, EditDoes
<1>5. ASSUME NEW p \in Pages, SaveReads(p)
      PROVE  OwnInv'
  <2>1. file \in Files /\ Decode(file) \in Config /\ page[p].config \in Config
    BY <1>5, SaveReadsDoes DEF Typed
  <2>2. \A k \in Keys : Decode(file)[k] \notin Outside
    BY <2>1, DecodeTyped DEF Outside
  <2>3. \A k \in Keys : Merge(Decode(file), page[p].config)[k] \notin Outside
    BY <2>1, <2>2, MergeTyped
  <2>4. file' = file /\ page' = page
    BY <1>5 DEF SaveReads, fileVars
  <2> QED
    BY <1>5, <2>3, <2>4, SaveReadsDoes
<1>6. ASSUME NEW p \in Pages, SaveTruncates(p)
      PROVE  OwnInv'
  BY <1>6, SaveSteps, NothingOwn DEF SaveTruncates
<1>7. ASSUME NEW p \in Pages, SaveWrites(p)
      PROVE  OwnInv'
  <2>1. save[p].merged \in Config
    BY DEF Typed, SaveType
  <2>2. \A k \in Keys : file'[k] \notin Outside
    BY <1>7, <2>1, EncodeTyped DEF SaveWrites, Outside, Absent
  <2>3. page' = page
    BY <1>7 DEF SaveWrites
  <2> QED
    BY <1>7, <2>2, <2>3, SaveSteps DEF SaveWrites
<1>8. ASSUME NEW p \in Pages, SaveAnswered(p)
      PROVE  OwnInv'
  BY <1>8, SaveSteps DEF SaveAnswered, fileVars
<1>9. CASE UNCHANGED vars
  BY <1>9 DEF vars
<1> QED
  BY <1>1, <1>2, <1>3, <1>4, <1>5, <1>6, <1>7, <1>8, <1>9 DEF Next

(* What a flag or the environment says never gets into the file by way of    *)
(* any number of pages that load and save the settings (getSettings and      *)
(* saveSettings).                                                            *)
THEOREM FileKept == Spec => []FileKeepsToItself
<1>1. OwnInv => FileKeepsToItself
  BY DEF OwnInv, FileKeepsToItself, Outside
<1> QED
  BY TypedInit, TypedStep, OwnInit, OwnStep, <1>1, PTL DEF Spec

-----------------------------------------------------------------------------
(* Saves that do not overlap: at most one is under way, and until it writes  *)
(* it holds what is made of the file and of its page.                        *)

Active(p) == save[p].at \in {"merged", "truncated"}

AloneInv ==
  ~overlapped =>
    /\ ~garbled
    /\ \A p, q \in Pages : Active(p) /\ Active(q) => p = q
    /\ \A p \in Pages : save[p].at = "truncated" => file = Empty
    /\ \A p \in Pages : save[p].at = "merged"
                          => save[p].merged = Merge(Decode(file), page[p].config)

LEMMA AloneInit == Init => AloneInv
  BY DEF Init, AloneInv, Active, NoSave

LEMMA AloneStep == Typed /\ AloneInv /\ [Next]_vars => AloneInv'
<1> SUFFICES ASSUME Typed, AloneInv, [Next]_vars, ~overlapped' PROVE AloneInv'
  BY DEF AloneInv
<1>0. ~overlapped
  BY DEF Next, Start, Stop, GetSettings, Edit, SaveReads, SaveTruncates, SaveWrites,
         SaveAnswered, Typed, vars
<1>1. CASE Start
  <2>1. \A p \in Pages : save[p].at = "none" /\ save' = save
    BY <1>1 DEF Start, Typed
  <2>2. garbled' = garbled
    BY <1>1 DEF Start, fileVars
  <2> QED
    BY <1>0, <2>1, <2>2 DEF AloneInv, Active
<1>2. CASE Stop
  <2>1. garbled' = garbled
    BY <1>2 DEF Stop, fileVars
  <2> QED
    BY <1>0, <1>2, <2>1, StopDoes DEF AloneInv, Active
<1>3. ASSUME NEW p \in Pages, GetSettings(p) \/ Edit(p)
      PROVE  AloneInv'
  <2>1. UNCHANGED <<file, garbled, effective, save>>
    BY <1>3 DEF GetSettings, Edit, fileVars, processVars
  <2>2. \A q \in Pages : save[q].at = "merged" => page'[q] = page[q]
    BY <1>3, GetSettingsDoes, EditDoes
  <2>3. \A q \in Pages : save[q].at = "merged"
          => save[q].merged = Merge(Decode(file), page'[q].config)
    BY <1>0, <2>2 DEF AloneInv
  <2>4. \A old, new : Merge(old, new)' = Merge(old, new) /\ Decode(file)' = Decode(file)
    BY <2>1 DEF Merge, Overrides, Decode
  <2> QED
    BY <1>0, <2>1, <2>3, <2>4 DEF AloneInv, Active
<1>4. ASSUME NEW p \in Pages, SaveReads(p)
      PROVE  AloneInv'
  <2>1. \A q \in Pages : ~Active(q)
    BY <1>0, <1>4 DEF SaveReads, Active, Typed
  <2>2. UNCHANGED <<file, garbled, effective, page>> /\ ~garbled
    BY <1>4, SaveReadsDoes DEF SaveReads, fileVars, processVars
  <2>3. save'[p].at = "merged" /\ save'[p].merged = Merge(Decode(file), page[p].config)
    BY <1>4, SaveReadsDoes
  <2>4. \A q \in Pages \ {p} : save'[q].at \notin {"merged", "truncated"}
    BY <1>4, <2>1, SaveReadsDoes DEF Active
  <2>5. \A old, new : Merge(old, new)' = Merge(old, new) /\ Decode(file)' = Decode(file)
    BY <2>2 DEF Merge, Overrides, Decode
  <2> QED
    BY <2>2, <2>3, <2>4, <2>5 DEF AloneInv, Active
<1>5. ASSUME NEW p \in Pages, SaveTruncates(p)
      PROVE  AloneInv'
  <2>1. file' = Empty /\ garbled' = FALSE /\ Active(p)
    BY <1>5, SaveSteps DEF SaveTruncates, Active
  <2>2. \A q \in Pages \ {p} : ~Active(q) /\ save'[q] = save[q]
    BY <1>0, <1>5, <2>1, SaveSteps DEF SaveTruncates, AloneInv
  <2>3. save'[p].at = "truncated"
    BY <1>5, SaveSteps DEF SaveTruncates
  <2> QED
    BY <2>1, <2>2, <2>3 DEF AloneInv, Active, Empty
<1>6. ASSUME NEW p \in Pages, SaveWrites(p)
      PROVE  AloneInv'
  <2>1. save[p].at = "truncated" /\ Active(p)
    BY <1>6, SaveSteps DEF SaveWrites, Active
  <2>2. \A q \in Pages \ {p} : ~Active(q) /\ save'[q] = save[q]
    BY <1>0, <1>6, <2>1, SaveSteps DEF SaveWrites, AloneInv
  <2>3. save'[p].at = "written" /\ garbled' = FALSE
    BY <1>0, <1>6, <2>1, SaveSteps DEF SaveWrites, AloneInv
  <2> QED
    BY <2>2, <2>3 DEF AloneInv, Active
<1>7. ASSUME NEW p \in Pages, SaveAnswered(p)
      PROVE  AloneInv'
  <2>1. UNCHANGED <<file, garbled, effective, page>>
    BY <1>7 DEF SaveAnswered, fileVars, processVars
  <2>2. save'[p].at = "none" /\ \A q \in Pages \ {p} : save'[q] = save[q]
    BY <1>7, SaveSteps DEF SaveAnswered
  <2>3. \A old, new : Merge(old, new)' = Merge(old, new) /\ Decode(file)' = Decode(file)
    BY <2>1 DEF Merge, Overrides, Decode
  <2> QED
    BY <1>0, <2>1, <2>2, <2>3 DEF AloneInv, Active
<1>8. CASE UNCHANGED vars
  <2>1. UNCHANGED <<file, garbled, effective, page, save>>
    BY <1>8 DEF vars
  <2>2. \A old, new : Merge(old, new)' = Merge(old, new) /\ Decode(file)' = Decode(file)
    BY <2>1 DEF Merge, Overrides, Decode
  <2> QED
    BY <1>0, <2>1, <2>2 DEF AloneInv, Active
<1> QED
  BY <1>1, <1>2, <1>3, <1>4, <1>5, <1>6, <1>7, <1>8 DEF Next

(* No page undoes what another one has saved since the process started, for  *)
(* any number of pages, saves and keys (saveSettings: computeOverrides).     *)
THEOREM FirstSaveKept == Spec => FirstSaveStands
<1> DEFINE Stands ==
      \A p \in Pages :
        save[p].at = "merged" /\ save'[p].at = "truncated" /\ ~overlapped
          => \A k \in Keys : Decode(file)[k] # effective[k]
                               => save[p].merged[k] = Decode(file)[k]
<1>1. Typed /\ AloneInv => Stands
  <2> SUFFICES ASSUME Typed, AloneInv, NEW p \in Pages, save[p].at = "merged", ~overlapped,
                      NEW k \in Keys, Decode(file)[k] # effective[k]
               PROVE  save[p].merged[k] = Decode(file)[k]
    OBVIOUS
  <2>1. save[p].merged = Merge(Decode(file), page[p].config)
    BY DEF AloneInv
  <2>2. Decode(file) \in Config /\ page[p].config \in Config
    BY DecodeTyped DEF Typed, PageType
  <2>3. Merge(Decode(file), page[p].config)[k] = Decode(file)[k]
    BY <2>2, MergeTyped
  <2> QED
    BY <2>1, <2>3
<1>2. Typed /\ AloneInv => [Stands]_vars
  BY <1>1
<1> QED
  BY TypedInit, TypedStep, AloneInit, AloneStep, <1>2, PTL DEF Spec, FirstSaveStands

-----------------------------------------------------------------------------
(* Settings survive.  Keys that applyDefaults fills in are zero on a page    *)
(* only when its user has emptied them.  The others of those that survive    *)
(* can only come from the first file: as long as the file has none, what is  *)
(* in effect comes from outside, and no page lets its user enter a value.    *)
(* Once emptied they stay so: what is in effect is never empty.              *)

Bare == Keys \cap {"password", "storage.retention"}
Kept == Keys \ (Booleans \cup {"endpoint"})
Missing(k) == file[k] \in {Absent, "zero"}

SurviveInv ==
  /\ \A k \in Keys : file[k] = "zero" => k \in AlwaysWritten
  /\ up => \A k \in Bare : effective[k] # "zero"
  /\ \A p \in Pages : page[p].shown =>
       \A k \in Kept \ Bare : page[p].config[k] = "zero" => k \in page[p].cleared
  /\ \A k \in Bare \ had : Missing(k)
  /\ \A p \in Pages, k \in Bare \ had :
       /\ page[p].shown => page[p].config[k] = "zero" /\ k \in page[p].disabled
       /\ Active(p) => save[p].merged[k] = "zero"
  /\ ~overlapped =>
       /\ ~Truncated => \A k \in Kept \cap had : Missing(k) => k \in emptied
       /\ \A k \in Bare \cap emptied :
            Missing(k) /\ \A p \in Pages : Active(p) => save[p].merged[k] = "zero"
       /\ \A p \in Pages, k \in Kept \cap had :
            /\ page[p].shown /\ page[p].config[k] = "zero" => k \in page[p].cleared \cup emptied
            /\ Active(p) /\ save[p].merged[k] = "zero" => k \in page[p].cleared \cup emptied

LEMMA EffectiveBare ==
  ASSUME NEW f \in Files, \A k \in Keys : f[k] = "zero" => k \in AlwaysWritten,
         NEW g \in Given, Effective(f, g)["password"] # "zero", NEW k \in Bare
  PROVE  Effective(f, g)[k] # "zero"
<1>1. CASE k = "storage.retention"
  <2>1. k \in Keys /\ k \in Bound /\ f[k] # "zero" /\ Default(k) # "zero"
    BY <1>1 DEF Bare, Bound, AlwaysWritten, Default, ZeroDefault
  <2>2. Effective(f, g)[k] =
          (LET flag == IF "flag" \in g[k] THEN "flag" ELSE Default(k)
           IN  CASE k \notin Bound /\ f[k] = Absent -> flag
                 [] k \in Bound /\ "flag" \in g[k] -> "flag"
                 [] OTHER -> IF "env" \in g[k] THEN "env"
                             ELSE IF f[k] # Absent THEN f[k] ELSE flag)
    BY <2>1 DEF Effective
  <2> QED
    BY <2>1, <2>2
<1> QED
  BY <1>1 DEF Bare

LEMMA SurviveInit == Init => SurviveInv
<1> SUFFICES ASSUME Init PROVE SurviveInv
  OBVIOUS
<1>1. /\ \A k \in Keys : file[k] # "zero"
      /\ had = {k \in Keys : file[k] # Absent}
      /\ up = FALSE /\ emptied = {}
  BY DEF Init, Absent
<1>2. \A p \in Pages : ~page[p].shown /\ ~Active(p)
  BY NothingTyped DEF Init, NoSave, Active
<1> QED
  BY <1>1, <1>2 DEF SurviveInv, Bare, Kept, Missing

LEMMA SurviveStep == Typed /\ AloneInv /\ SurviveInv /\ [Next]_vars => SurviveInv'
<1> SUFFICES ASSUME Typed, AloneInv, SurviveInv, [Next]_vars PROVE SurviveInv'
  OBVIOUS
<1>0. Kept \subseteq Keys /\ Bare \subseteq Kept
  BY DEF Kept, Bare, Booleans
<1>1. CASE Start
  <2>1. PICK g \in Given : Starts(LoadedFile, g)
    BY <1>1 DEF Start, LoadedFile
  <2>2. LoadedFile \in Files /\ \A k \in Keys : LoadedFile[k] = "zero" => k \in AlwaysWritten
    BY ValuesOfFiles DEF LoadedFile, Typed, SurviveInv, Empty, Absent
  <2>3. effective' = Effective(LoadedFile, g) /\ Effective(LoadedFile, g)["password"] # "zero"
    BY <2>1 DEF Starts
  <2>4. \A k \in Bare : effective'[k] # "zero"
    BY <2>2, <2>3, EffectiveBare
  <2>5. UNCHANGED <<file, had, emptied, page, save, overlapped>>
    BY <1>1 DEF Start, fileVars
  <2> QED
    BY <2>4, <2>5 DEF SurviveInv, Active, Truncated, Missing
<1>2. CASE Stop
  <2>1. UNCHANGED <<file, had, emptied, page>> /\ up' = FALSE
    BY <1>2 DEF Stop, fileVars
  <2>2. \A p \in Pages : ~Active(p)'
    BY <1>2, StopDoes DEF Active
  <2>3. ~overlapped' => ~overlapped /\ ~Truncated
    BY <1>2 DEF Stop
  <2> QED
    BY <2>1, <2>2, <2>3 DEF SurviveInv, Missing
<1>3. ASSUME NEW p \in Pages, GetSettings(p)
      PROVE  SurviveInv'
  <2> DEFINE c == page'[p].config
  <2>1. UNCHANGED <<file, had, emptied, up, effective, save>> /\ up
    BY <1>3 DEF GetSettings, fileVars, processVars
  <2>2. ~overlapped' => ~overlapped /\ ~Truncated
    BY <1>3 DEF GetSettings
  <2>3. /\ LoadedFile \in Files /\ page'[p].shown = TRUE /\ ~Active(p)
        /\ c = ApplyDefaults(Decode(LoadedFile)) /\ page'[p].disabled = Overrides(c)
        /\ \A q \in Pages \ {p} : page'[q] = page[q]
    BY <1>3, GetSettingsDoes DEF Active
  <2>4. Decode(LoadedFile) \in Config /\ \A k \in Keys :
          Decode(LoadedFile)[k] = IF LoadedFile[k] = Absent THEN "zero" ELSE LoadedFile[k]
    BY <2>3, DecodeTyped
  <2>5. \A k \in Kept \ Bare : c[k] # "zero"
    <3> SUFFICES ASSUME NEW k \in Kept \ Bare PROVE c[k] # "zero"
      OBVIOUS
    <3>1. /\ k \in Keys /\ Default(k) # "zero"
          /\ k \in {"collection-interval", "listen", "storage.path", "storage.partition",
                    "log-level", "default-theme"}
      BY SettingsAssumption DEF Kept, Bare, AllKeys, Fields, Bound, Booleans, Default, ZeroDefault
    <3>2. c[k] = IF Decode(LoadedFile)[k] = "zero" THEN Default(k) ELSE Decode(LoadedFile)[k]
      BY <2>3, <3>1 DEF ApplyDefaults
    <3> QED
      BY <3>1, <3>2
  <2>6. \A k \in Bare \ had : c[k] = "zero" /\ k \in page'[p].disabled
    <3> SUFFICES ASSUME NEW k \in Bare \ had PROVE c[k] = "zero" /\ k \in Overrides(c)
      BY <2>3
    <3>1. k \in Keys /\ LoadedFile[k] \in {Absent, "zero"}
      BY DEF Bare, SurviveInv, LoadedFile, Empty, Missing
    <3>2. c[k] = Decode(LoadedFile)[k]
      BY <2>3, <3>1 DEF ApplyDefaults, Bare
    <3>3. c[k] = "zero"
      BY <2>4, <3>1, <3>2
    <3>4. effective[k] # "zero"
      BY <2>1 DEF SurviveInv
    <3> QED
      BY <3>1, <3>3, <3>4 DEF Overrides
  <2>7. ~overlapped' => \A k \in Kept \cap had : c[k] = "zero" => k \in emptied
    <3> SUFFICES ASSUME ~overlapped', NEW k \in Kept \cap had, k \notin emptied
                 PROVE  c[k] # "zero"
      OBVIOUS
    <3>1. k \in Keys /\ LoadedFile[k] \notin {Absent, "zero"}
      BY <2>2, <1>0 DEF SurviveInv, AloneInv, LoadedFile, Missing
    <3> QED
      BY <2>3, <2>4, <3>1, ApplyTyped
  <2> HIDE DEF c
  <2>8. \A q \in Pages : page'[q].shown =>
          \A k \in Kept \ Bare : page'[q].config[k] = "zero" => k \in page'[q].cleared
    BY <2>3, <2>5 DEF SurviveInv, c
  <2>9. \A q \in Pages, k \in Bare \ had :
          page'[q].shown => page'[q].config[k] = "zero" /\ k \in page'[q].disabled
    BY <2>3, <2>6 DEF SurviveInv, c
  <2>10. ~overlapped' => \A q \in Pages, k \in Kept \cap had :
           page'[q].shown /\ page'[q].config[k] = "zero" => k \in page'[q].cleared \cup emptied
    BY <2>2, <2>3, <2>7 DEF SurviveInv, c
  <2>11. \A q \in Pages : Active(q) => page'[q].cleared = page[q].cleared
    BY <2>3
  <2> QED
    BY <2>1, <2>2, <2>8, <2>9, <2>10, <2>11 DEF SurviveInv, Active, Truncated, Missing
<1>4. ASSUME NEW p \in Pages, Edit(p)
      PROVE  SurviveInv'
  <2>1. UNCHANGED <<file, had, emptied, up, effective, save, overlapped>>
    BY <1>4 DEF Edit, fileVars, processVars
  <2>2. PICK k \in Keys \ page[p].disabled, v \in Values :
          /\ page'[p].config = [page[p].config EXCEPT ![k] = v]
          /\ page'[p].cleared = IF v = "zero" /\ k \notin Booleans
                                  THEN page[p].cleared \cup {k} ELSE page[p].cleared \ {k}
    BY <1>4, EditDoes
  <2>3. /\ page[p].shown /\ page'[p].shown /\ page'[p].disabled = page[p].disabled /\ ~Active(p)
        /\ \A q \in Pages \ {p} : page'[q] = page[q]
    BY <1>4, EditDoes DEF Active
  <2>4. page[p].config \in Config
    BY DEF Typed, PageType
  <2>5. \A l \in Keys : page'[p].config[l] = IF l = k THEN v ELSE page[p].config[l]
    BY <2>2, <2>4 DEF Config
  <2>6. \A l \in Kept : page'[p].config[l] = "zero"
          => l \in page'[p].cleared \/ (page[p].config[l] = "zero" /\ l \notin page[p].cleared)
    BY <1>0, <2>2, <2>5 DEF Kept
  <2>7. k \notin Bare \ had
    BY <2>2, <2>3 DEF SurviveInv
  <2>8. \A q \in Pages : page'[q].shown =>
          \A l \in Kept \ Bare : page'[q].config[l] = "zero" => l \in page'[q].cleared
    BY <1>0, <2>3, <2>6 DEF SurviveInv
  <2>9. \A q \in Pages, l \in Bare \ had :
          page'[q].shown => page'[q].config[l] = "zero" /\ l \in page'[q].disabled
    BY <1>0, <2>3, <2>5, <2>7 DEF SurviveInv
  <2>10. ~overlapped => \A q \in Pages, l \in Kept \cap had :
           page'[q].shown /\ page'[q].config[l] = "zero" => l \in page'[q].cleared \cup emptied
    BY <1>0, <2>3, <2>6 DEF SurviveInv
  <2>11. \A q \in Pages : Active(q) => page'[q].cleared = page[q].cleared
    BY <2>3
  <2> QED
    BY <2>1, <2>8, <2>9, <2>10, <2>11 DEF SurviveInv, Active, Truncated, Missing
<1>5. ASSUME NEW p \in Pages, SaveReads(p)
      PROVE  SurviveInv'
  <2> DEFINE m == save'[p].merged
  <2>1. UNCHANGED <<file, had, emptied, up, effective, page>> /\ up
    BY <1>5 DEF SaveReads, fileVars, processVars
  <2>2. ~overlapped' => ~overlapped /\ ~Truncated
    BY <1>5 DEF SaveReads, Truncated
  <2>3. /\ Decode(file) \in Config /\ page[p].config \in Config /\ page[p].shown
        /\ save'[p].at = "merged" /\ m = Merge(Decode(file), page[p].config)
        /\ \A q \in Pages \ {p} : save'[q] = save[q]
    BY <1>5, SaveReadsDoes
  <2>4. \A k \in Keys : m[k] = IF Decode(file)[k] # effective[k] THEN Decode(file)[k]
                                                            ELSE page[p].config[k]
    BY <2>3, MergeTyped
  <2>5. file \in Files /\ \A k \in Keys :
          Decode(file)[k] = IF file[k] = Absent THEN "zero" ELSE file[k]
    BY DecodeTyped DEF Typed
  <2> HIDE DEF m
  <2>6. \A k \in Bare \ had : m[k] = "zero"
    BY <1>0, <2>3, <2>4, <2>5 DEF SurviveInv, Missing
  <2>7. ~overlapped' => \A k \in Kept \cap had : m[k] = "zero" => k \in page[p].cleared \cup emptied
    <3> SUFFICES ASSUME ~overlapped', NEW k \in Kept \cap had, m[k] = "zero"
                 PROVE  k \in page[p].cleared \cup emptied
      OBVIOUS
    <3>1. CASE Decode(file)[k] = "zero"
      BY <1>0, <2>2, <2>5, <3>1 DEF SurviveInv, Missing
    <3>2. CASE page[p].config[k] = "zero"
      BY <2>2, <2>3, <3>2 DEF SurviveInv
    <3> QED
      BY <1>0, <2>4, <3>1, <3>2
  <2>11. ~overlapped' => \A k \in Bare \cap emptied : m[k] = "zero"
    <3> SUFFICES ASSUME ~overlapped', NEW k \in Bare \cap emptied PROVE m[k] = "zero"
      OBVIOUS
    <3>1. k \in Keys /\ effective[k] # "zero" /\ Decode(file)[k] = "zero"
      BY <1>0, <2>1, <2>2, <2>5 DEF SurviveInv, Missing
    <3> QED
      BY <2>4, <3>1
  <2>8. \A q \in Pages, k \in Bare \ had :
          save'[q].at \in {"merged", "truncated"} => save'[q].merged[k] = "zero"
    BY <2>3, <2>6 DEF SurviveInv, Active, m
  <2>9. ~overlapped' => \A q \in Pages, k \in Kept \cap had :
          save'[q].at \in {"merged", "truncated"} /\ save'[q].merged[k] = "zero"
            => k \in page[q].cleared \cup emptied
    BY <2>2, <2>3, <2>7 DEF SurviveInv, Active, m
  <2>10. ~overlapped' => \A q \in Pages, k \in Bare \cap emptied :
           save'[q].at \in {"merged", "truncated"} => save'[q].merged[k] = "zero"
    BY <2>2, <2>3, <2>11 DEF SurviveInv, Active, m
  <2> QED
    BY <2>1, <2>2, <2>8, <2>9, <2>10 DEF SurviveInv, Active, Missing
<1>6. ASSUME NEW p \in Pages, SaveTruncates(p)
      PROVE  SurviveInv'
  <2>1. UNCHANGED <<had, emptied, up, effective, page, overlapped>> /\ file' = Empty
    BY <1>6 DEF SaveTruncates, processVars
  <2>2. /\ save[p].at = "merged" /\ save'[p].at = "truncated"
        /\ save'[p].merged = save[p].merged
        /\ \A q \in Pages \ {p} : save'[q] = save[q]
    BY <1>6, SaveSteps DEF SaveTruncates
  <2>3. Truncated' /\ \A q \in Pages : Active(q)' = Active(q) /\ save'[q].merged = save[q].merged
    BY <2>2 DEF Truncated, Active
  <2>4. \A k \in Keys : file'[k] = Absent /\ Absent # "zero"
    BY <2>1 DEF Empty, Absent
  <2> QED
    BY <1>0, <2>1, <2>3, <2>4 DEF SurviveInv, Missing
<1>7. ASSUME NEW p \in Pages, SaveWrites(p)
      PROVE  SurviveInv'
  <2> DEFINE m == save[p].merged
  <2>1. /\ UNCHANGED <<up, effective, page, overlapped>>
        /\ file' = Encode(m) /\ had' = had \cup {k \in Keys : m[k] # "zero"}
        /\ emptied' = {k \in emptied \cup page[p].cleared : m[k] = "zero"}
    BY <1>7 DEF SaveWrites, processVars
  <2>2. /\ save[p].at = "truncated" /\ save'[p].at = "written"
        /\ \A q \in Pages \ {p} : save'[q] = save[q]
    BY <1>7, SaveSteps DEF SaveWrites
  <2>3. m \in Config /\ Active(p)
    BY <2>2 DEF Typed, SaveType, Active
  <2>4. /\ Encode(m) \in Files /\ \A k \in Keys : Encode(m)[k] \in {m[k], Absent}
        /\ \A k \in Keys : m[k] # "zero" => Encode(m)[k] = m[k]
        /\ \A k \in Keys : Encode(m)[k] = "zero" => k \in AlwaysWritten
    BY <2>3, EncodeTyped
  <2> HIDE DEF m
  <2>5. \A k \in Bare \ had : m[k] = "zero"
    BY <2>3 DEF SurviveInv, m
  <2>6. Bare \ had' = Bare \ had /\ Bare \cap had' = Bare \cap had
    BY <1>0, <2>1, <2>5
  <2>7. \A k \in Bare \ had' : file'[k] \in {Absent, "zero"}
    BY <1>0, <2>1, <2>4, <2>5, <2>6
  <2>8. \A q \in Pages : save'[q].at \in {"merged", "truncated"}
                        => q # p /\ Active(q) /\ save'[q] = save[q]
    BY <2>2 DEF Active
  <2>9. \A q \in Pages, k \in Bare \ had' :
          /\ page'[q].shown => page'[q].config[k] = "zero" /\ k \in page'[q].disabled
          /\ save'[q].at \in {"merged", "truncated"} => save'[q].merged[k] = "zero"
    BY <2>1, <2>6, <2>8 DEF SurviveInv
  <2>10. ASSUME ~overlapped
         PROVE  /\ \A k \in Kept \cap had' : file'[k] \in {Absent, "zero"} => k \in emptied'
                /\ \A k \in Bare \cap emptied' : file'[k] \in {Absent, "zero"}
                /\ \A q \in Pages : ~Active(q)'
                /\ \A q \in Pages, k \in Kept \cap had' :
                     page'[q].shown /\ page'[q].config[k] = "zero"
                       => k \in page'[q].cleared \cup emptied'
    <3>1. \A k \in Kept \cap had' : file'[k] \in {Absent, "zero"} => k \in emptied'
      <4> SUFFICES ASSUME NEW k \in Kept \cap had', file'[k] \in {Absent, "zero"}
                   PROVE  k \in emptied'
        OBVIOUS
      <4>1. k \in Keys /\ m[k] = "zero"
        BY <1>0, <2>1, <2>3, <2>4, ValuesOfFiles DEF Config
      <4>2. k \in had
        BY <2>1, <4>1
      <4>3. k \in page[p].cleared \cup emptied
        BY <2>3, <2>10, <4>1, <4>2 DEF SurviveInv, m
      <4> QED
        BY <2>1, <4>1, <4>3
    <3>2. \A k \in Bare \cap emptied' : file'[k] \in {Absent, "zero"}
      BY <1>0, <2>1, <2>4
    <3>3. \A q \in Pages : ~Active(q)'
      BY <2>2, <2>3, <2>8, <2>10 DEF AloneInv, Active
    <3>4. ASSUME NEW q \in Pages, NEW k \in Kept \cap had', page[q].shown,
                 page[q].config[k] = "zero", k \notin page[q].cleared
          PROVE  k \in emptied'
      <4>1. k \in Bare /\ k \in had
        BY <2>6, <3>4 DEF SurviveInv
      <4>2. k \in emptied
        BY <2>10, <3>4, <4>1 DEF SurviveInv
      <4>3. m[k] = "zero"
        BY <2>3, <2>10, <4>1, <4>2 DEF SurviveInv, m
      <4> QED
        BY <2>1, <4>2, <4>3
    <3> QED
      BY <2>1, <3>1, <3>2, <3>3, <3>4
  <2>11. \A k \in Keys : file'[k] = "zero" => k \in AlwaysWritten
    BY <2>1, <2>4
  <2> QED
    BY <2>1, <2>7, <2>9, <2>10, <2>11 DEF SurviveInv, Active, Missing
<1>8. ASSUME NEW p \in Pages, SaveAnswered(p)
      PROVE  SurviveInv'
  <2>1. UNCHANGED <<file, had, emptied, up, effective, page, overlapped>>
    BY <1>8 DEF SaveAnswered, fileVars, processVars
  <2>2. /\ save[p].at = "written" /\ save'[p].at = "none"
        /\ \A q \in Pages \ {p} : save'[q] = save[q]
    BY <1>8, SaveSteps DEF SaveAnswered
  <2>3. /\ Truncated' = Truncated
        /\ \A q \in Pages : save'[q].at \in {"merged", "truncated"}
                           => Active(q) /\ save'[q] = save[q]
    BY <2>2 DEF Truncated, Active
  <2> QED
    BY <2>1, <2>3 DEF SurviveInv, Active, Missing
<1>9. CASE UNCHANGED vars
  BY <1>9 DEF vars, SurviveInv, Active, Truncated, Missing
<1> QED
  BY <1>1, <1>2, <1>3, <1>4, <1>5, <1>6, <1>7, <1>8, <1>9 DEF Next

(* No setting but a switch or the endpoint is lost by saving unless its user *)
(* has emptied it on a page and saved that, through any number of pages,     *)
(* loads, edits, restarts and overrides, as long as no save is met half way  *)
(* (saveSettings, getSettings).                                              *)
THEOREM NoSettingLost == Spec => []SettingsSurvive
<1>1. Typed /\ SurviveInv => SettingsSurvive
  BY DEF Typed, SurviveInv, SettingsSurvive, Kept, Missing
<1> QED
  BY TypedInit, TypedStep, AloneInit, AloneStep, SurviveInit, SurviveStep, <1>1, PTL DEF Spec
=============================================================================
