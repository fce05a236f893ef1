----------------------------- MODULE ChartZoom -----------------------------
(***************************************************************************)
(* One chart as its user moves through time on it: the timeframe and the   *)
(* zoom of the chart (web/src/components/charts), the buttons of its panel *)
(* (ChartPanel.tsx), and the range its drawing keeps for itself            *)
(* (BaseChart.tsx).                                                        *)
(*                                                                         *)
(* Times and timeframes are numbers.  A step is one event with the renders *)
(* and effects it causes.                                                  *)
(***************************************************************************)
EXTENDS ChartData, Integers

CONSTANTS
  Timeframes,  \* the lengths of the timeframes offered
  Day,         \* that of "24h"
  Near,        \* a selection as long as the timeframe but for this much is
               \* not taken for one made by hand
  Start, End,  \* bound: the time passes from Start to End
  MaxTouches   \* bound: what the user does

ASSUME ZoomAssumption ==
  /\ Timeframes \subseteq Nat \ {0} /\ Day \in Timeframes
  /\ {Near, Start, End, MaxTouches} \subseteq Nat /\ Start <= End

VARIABLES
  now,      \* Date.now()
  tf,       \* localTf, and currentTimeframe, which follows it at once
  zoom,     \* zoomRange: the range the chart asks for, or Whole
  zoomed,   \* isZoomed of the panel
  visible,  \* visibleRange of the drawing, which its legend is about, or Whole
  touches

zoomVars == <<chart, now, tf, zoom, zoomed, visible, touches>>

Whole == <<>>      \* no range
LastOf(d) == <<now - d, now>>

ZoomInit ==
  /\ chart \in Charts /\ now = Start
  /\ tf \in IF chart.day THEN {Day} ELSE Timeframes
  /\ zoom = Whole /\ zoomed = FALSE /\ visible = Whole
  /\ touches = 0

(* The range useChartData asks for. *)
Queried == IF zoom # Whole THEN zoom ELSE LastOf(tf)

(* The range of the x axis; no point is later than now. *)
Axis ==
  IF zoomed /\ visible # Whole THEN visible
  ELSE IF zoom # Whole THEN zoom
  ELSE LastOf(tf)

(* isManualZoom: the panel offers to reset the zoom instead of moving on. *)
ManualZoom ==
  /\ zoomed /\ zoom # Whole
  /\ LET excess == zoom[2] - zoom[1] - tf IN excess > Near \/ -excess > Near

(* The two effects of the drawing, in their order, after an event has set    *)
(* timeframe, zoom and isZoomed.                                             *)
Settle(timeframe, range, z) ==
  /\ tf' = timeframe /\ zoom' = range /\ zoomed' = z
  /\ visible' = IF range \notin {Whole, zoom} THEN range
                ELSE IF zoomed /\ ~z THEN Whole
                ELSE visible

Touch == touches < MaxTouches /\ touches' = touches + 1 /\ UNCHANGED <<chart, now>>

-----------------------------------------------------------------------------
Tick ==
  /\ now < End /\ now' = now + 1
  /\ UNCHANGED <<chart, tf, zoom, zoomed, visible, touches>>

(* handleTfChange of the panel and of the chart *)
TfChange(timeframe) ==
  /\ Touch /\ timeframe # tf
  /\ Settle(timeframe, IF chart.keepsZoom THEN zoom ELSE Whole, FALSE)

(* The timeframe of the dashboard changes: useSyncedTimeframe, and the       *)
(* panel's effect.                                                           *)
GlobalTfChange(timeframe) ==
  /\ Touch /\ timeframe # tf
  /\ Settle(timeframe, zoom, FALSE)

(* Select that does not tell the chart the range. *)
SelectOnce(range) ==
  /\ Touch /\ Axis[1] <= range[1] /\ range[1] < range[2] /\ range[2] <= Axis[2]
  /\ tf' = tf /\ zoomed' = TRUE /\ visible' = range /\ zoom' = Whole

(* setSelect: the user drags over a part of the axis.  onZoom is called      *)
(* first without, then with the range.                                       *)
Select(range) ==
  /\ Touch /\ Axis[1] <= range[1] /\ range[1] < range[2] /\ range[2] <= Axis[2]
  /\ tf' = tf /\ zoomed' = TRUE /\ visible' = range /\ zoom' = range

(* handleResetZoom *)
HandleReset == Touch /\ ManualZoom /\ Settle(tf, Whole, FALSE)

(* handlePrev *)
HandlePrev == Touch /\ ~ManualZoom /\ Settle(tf, <<Queried[1] - tf, Queried[2] - tf>>, zoomed)

(* handleNext: back to the present once the range would reach it. *)
HandleNext ==
  /\ Touch /\ ~ManualZoom /\ zoom # Whole
  /\ IF zoom[2] + tf >= now
       THEN Settle(tf, Whole, FALSE)
       ELSE Settle(tf, <<zoom[1] + tf, zoom[2] + tf>>, zoomed)

Moves ==
  \/ Tick \/ HandleReset \/ HandlePrev \/ HandleNext
  \/ \E d \in Timeframes : TfChange(d) \/ GlobalTfChange(d)
  \/ \E from, to \in 0 .. End : Select(<<from, to>>)

ZoomSpec == ZoomInit /\ [][Moves]_zoomVars

-----------------------------------------------------------------------------
ZoomTypeOK ==
  /\ chart \in Charts /\ now \in Start .. End /\ tf \in Timeframes
  /\ {zoom, visible} \subseteq {Whole} \cup (Int \X Int)
  /\ zoomed \in BOOLEAN /\ touches \in 0 .. MaxTouches

(* The axis of a chart shows the range its data was asked for, and no future *)
(* in it, though panel, chart and drawing each keep a part of what is shown, *)
(* and timeframes are changed from within and from outside (zoomRange,       *)
(* isZoomed, visibleRange).                                                  *)
AxisMatchesQuery == Axis = Queried /\ Axis[2] <= now
=============================================================================
