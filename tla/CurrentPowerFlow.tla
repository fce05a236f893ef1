-------------------------- MODULE CurrentPowerFlow --------------------------
(***************************************************************************)
(* The panel of the power flowing now                                      *)
(* (web/src/components/charts/CurrentPowerFlow.tsx): the values it asks    *)
(* for every fifteen seconds, and the particles it moves along the paths   *)
(* between panels, grid, battery and home.                                 *)
(*                                                                         *)
(* Particles do not touch each other, so the model follows one that is     *)
(* spawned and everything it splits into.  A frame may come before or      *)
(* after any change of the values or of the panel's size.  A point of a    *)
(* path is known by its name and the size of the panel it was placed for;  *)
(* the panel is not of size zero, where all points are one.                *)
(***************************************************************************)
EXTENDS Integers, Sequences, FiniteSets

CONSTANTS
  Readings,   \* the values the site may report: records of Solar, Grid, Battery, Home
  Sizes,      \* the sizes of the panel
  Spawns,     \* bound: particles followed, one after the other
  Changes     \* bound: answers to queries, and resizes

MinPower == 100   \* MIN_POWER, in watts

NoReading == [Solar |-> 0, Grid |-> 0, Battery |-> 0, Home |-> 0]

ASSUME FlowAssumption ==
  /\ Readings \subseteq [{"Solar", "Grid", "Battery", "Home"} -> Int]
  /\ {Spawns, Changes} \subseteq Nat

VARIABLES
  values,     \* values
  connected,  \* isGridConnected
  fetch,      \* fetchData: "idle", awaiting the "values", or the "grid" status
  loading,    \* loading
  size,       \* actualWidth and actualHeight
  pieces,     \* particlesRef: the followed particle and what it has split into
  trail,      \* history: the paths the followed particle and its parts have taken
  spawned, changed

flowVars == <<values, connected, fetch, loading, size, pieces, trail, spawned, changed>>
dataVars == <<values, connected, fetch, loading>>

(* The watts on each path, none if they flow the other way. *)
Flow(v) ==
  LET NonNegative(w) == IF w > 0 THEN w ELSE 0
      bridge == NonNegative(v.Solar) + v.Grid
  IN  [Solar            |-> NonNegative(v.Solar),
       GridImport       |-> NonNegative(v.Grid),
       GridExport       |-> NonNegative(-v.Grid),
       BatteryDischarge |-> NonNegative(v.Battery),
       BatteryCharge    |-> NonNegative(-v.Battery),
       Home             |-> NonNegative(v.Home),
       BridgeLR         |-> NonNegative(bridge),
       BridgeRL         |-> NonNegative(-bridge)]

Sources == DOMAIN Flow(NoReading)
HasPower(v, source) == Flow(v)[source] > MinPower

(* The points a particle passes from where it is spawned or a junction sends *)
(* it, and what the two junctions may send it to, in order.                  *)
Way(source) ==
  CASE source = "Solar"            -> <<"TrunkL_Top", "TrunkL_Mid">>
    [] source = "GridImport"       -> <<"TrunkL_Bot", "TrunkL_Mid">>
    [] source = "BatteryDischarge" -> <<"TrunkR_Bot", "TrunkR_Mid">>
    [] source = "GridExport"       -> <<"TrunkL_Bot", "Grid">>
    [] source = "BatteryCharge"    -> <<"TrunkR_Bot", "Battery">>
    [] source = "Home"             -> <<"TrunkR_Top", "Home">>
    [] source = "BridgeLR"         -> <<"TrunkR_Mid">>
    [] source = "BridgeRL"         -> <<"TrunkL_Mid">>

Junction(point) ==
  CASE point = "TrunkL_Mid" -> {"GridExport", "BridgeLR"}
    [] point = "TrunkR_Mid" -> {"BatteryCharge", "Home", "BridgeRL"}
    [] OTHER -> {}

(* A piece: its source, the points it has still to reach, and the size they  *)
(* were placed for.                                                          *)
Piece(source, at) == [source |-> source, path |-> Way(source), size |-> at]

FlowInit ==
  /\ values = NoReading /\ connected = TRUE
  /\ fetch = "values" /\ loading = TRUE
  /\ size \in Sizes
  /\ pieces = {} /\ trail = {}
  /\ spawned = 0 /\ changed = 0

-----------------------------------------------------------------------------
(* fetchData *)

Change == changed < Changes /\ changed' = changed + 1

(* useDataRefresh calls it again; calls that overlap look like one here. *)
FetchAgain ==
  /\ fetch = "idle" /\ fetch' = "values"
  /\ UNCHANGED <<values, connected, loading, size, pieces, trail, spawned, changed>>

ValuesArrive ==
  /\ fetch = "values" /\ fetch' = "grid"
  /\ \/ values' \in Readings /\ Change
     \/ UNCHANGED <<values, changed>>
  /\ UNCHANGED <<connected, loading, size, pieces, trail, spawned>>

ValuesFail ==
  /\ fetch = "values" /\ fetch' = "idle" /\ loading' = FALSE
  /\ UNCHANGED <<values, connected, size, pieces, trail, spawned, changed>>

(* The grid's status, or an answer that is not ok, or none: the old status   *)
(* is kept.                                                                  *)
GridStatusEnds ==
  /\ fetch = "grid" /\ fetch' = "idle" /\ loading' = FALSE
  /\ connected' \in BOOLEAN
  /\ UNCHANGED <<values, size, pieces, trail, spawned, changed>>

Resize ==
  /\ Change /\ size' \in Sizes \ {size}
  /\ UNCHANGED <<dataVars, pieces, trail, spawned>>

-----------------------------------------------------------------------------
(* animate *)

Powered == {p \in pieces : HasPower(values, p.source)}

(* The frame that spawns the particle to follow, once no other is around. *)
Spawn(source) ==
  /\ pieces = {}
  /\ spawned < Spawns /\ spawned' = spawned + 1
  /\ HasPower(values, source)
  /\ pieces' = {Piece(source, size)} /\ trail' = {source}
  /\ UNCHANGED <<dataVars, size, changed>>

(* What a piece becomes when it gets to its next point: the first target is  *)
(* the piece itself, the others are pushed.  A junction is recognised by its *)
(* place, so a piece on its way to where one was before a resize goes past.  *)
Onward(p) ==
  LET point == Head(p.path)
      targets == {s \in Junction(point) : HasPower(values, s)}
  IN  IF p.size = size /\ Junction(point) # {}
        THEN {Piece(s, size) : s \in targets}
      ELSE IF Len(p.path) > 1 THEN {[p EXCEPT !.path = Tail(@)]}
      ELSE {}

(* Frame that lets pieces run out where the power has gone. *)
FrameKeeping ==
  \E arrived \in SUBSET pieces :
    /\ arrived # {}
    /\ pieces' = (pieces \ arrived) \cup UNION {Onward(p) : p \in arrived}
    /\ trail' = trail \cup {p.source : p \in pieces'}
    /\ UNCHANGED <<dataVars, size, spawned, changed>>

(* A frame drops pieces on paths without power, and some of the others get   *)
(* to their next point.                                                      *)
Frame ==
  \E arrived \in SUBSET Powered :
    /\ arrived # {} \/ Powered # pieces
    /\ pieces' = (Powered \ arrived) \cup UNION {Onward(p) : p \in arrived}
    /\ trail' = trail \cup {p.source : p \in pieces'}
    /\ UNCHANGED <<dataVars, size, spawned, changed>>

FlowNext ==
  \/ FetchAgain \/ ValuesArrive \/ ValuesFail \/ GridStatusEnds \/ Resize
  \/ \E s \in {"Solar", "GridImport", "BatteryDischarge"} : Spawn(s)
  \/ Frame

(* What comes of itself: requests are answered, by the timeout if by nothing *)
(* else, and so are frames in which a particle that moves gets on, as it     *)
(* moves at MIN_SPEED at least.                                              *)
Answer == ValuesArrive \/ ValuesFail \/ GridStatusEnds

FlowSpec == FlowInit /\ [][FlowNext]_flowVars

-----------------------------------------------------------------------------
FlowTypeOK ==
  /\ values \in Readings \cup {NoReading} /\ {connected, loading} \subseteq BOOLEAN
  /\ fetch \in {"idle", "values", "grid"} /\ size \in Sizes
  /\ trail \subseteq Sources
  /\ \A p \in pieces : p.source \in trail /\ p.size \in Sizes /\ p.path # <<>>
  /\ spawned \in 0 .. Spawns /\ changed \in 0 .. Changes

(* However the readings change while a particle is on its way, neither it    *)
(* nor what it splits into crosses the bridge in both directions, and it     *)
(* never becomes more than three (the filter and the junctions of animate).  *)
OneWayAcross ==
  /\ ~({"BridgeLR", "BridgeRL"} \subseteq trail)
  /\ Cardinality(pieces) <= 3

(* The spinner is gone, and no particle is left of those that were spawned   *)
(* (Spawns).                                                                 *)
FlowSettled == ~loading /\ pieces = {}
=============================================================================
