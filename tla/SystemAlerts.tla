---------------------------- MODULE SystemAlerts ----------------------------
(***************************************************************************)
(* The panel of alerts over time                                           *)
(* (web/src/components/charts/SystemAlerts.tsx): the points of the series  *)
(* of one alert, which several devices may report, become the bars that    *)
(* are drawn for it.  Time is in minutes.                                  *)
(***************************************************************************)
EXTENDS Integers, Sequences, SequencesExt, FiniteSets

CONSTANTS
  Minutes,    \* when points may be read
  AlertSeries \* what the series of all devices together may be: sequences of
              \* functions from some of the minutes to whether it was active

ASSUME AlertsAssumption ==
  /\ Minutes \subseteq Nat
  /\ \A found \in AlertSeries : IsFiniteSet(DOMAIN found) /\ \A i \in DOMAIN found :
       /\ DOMAIN found[i] \subseteq Minutes /\ IsFiniteSet(DOMAIN found[i])
       /\ \A t \in DOMAIN found[i] : found[i][t] \in BOOLEAN

Gap == 5      \* 300 seconds without an active point end an interval
Nearby == 1   \* intervals 60 seconds apart or less are drawn as one

VARIABLES
  alerts,     \* rawResults: the series of each device
  bars        \* mergedIntervals

alertVars == <<alerts, bars>>

Interval(from, to) == [start |-> from, end |-> to]
Closed == -1  \* currentStart is null

(* Minutes in order; intervals by their start, and by their end. *)
Ascending(times) ==
  [i \in 1 .. Cardinality(times) |->
     CHOOSE t \in times : Cardinality({u \in times : u < t}) = i - 1]

Earlier(i, j) == i.start < j.start \/ (i.start = j.start /\ i.end < j.end)

ByStart(intervals) ==
  [n \in 1 .. Cardinality(intervals) |->
     CHOOSE i \in intervals : Cardinality({j \in intervals : Earlier(j, i)}) = n - 1]

(* One point: a long silence ends the interval that is open at the last      *)
(* active point; an active point opens one or keeps it open, another closes  *)
(* it.                                                                       *)
Point(scan, t, active) ==
  LET silent == scan.from # Closed /\ t - scan.last > Gap
      from == IF silent THEN Closed ELSE scan.from
      found == scan.found \cup IF silent THEN {Interval(scan.from, scan.last)} ELSE {}
  IN  CASE active -> [from |-> IF from = Closed THEN t ELSE from, last |-> t, found |-> found]
        [] ~active /\ from # Closed ->
             [scan EXCEPT !.from = Closed, !.found = found \cup {Interval(from, t)}]
        [] OTHER -> [scan EXCEPT !.from = Closed, !.found = found]

(* The intervals of one series. *)
Intervals(series) ==
  LET scan == FoldLeft(LAMBDA acc, t : Point(acc, t, series[t]),
                       [from |-> Closed, last |-> 0, found |-> {}], Ascending(DOMAIN series))
  IN  scan.found \cup IF scan.from = Closed THEN {} ELSE {Interval(scan.from, scan.last)}

(* Join that takes the end of the later interval. *)
JoinLater(merged, next) ==
  LET current == merged[Len(merged)]
  IN  IF merged # <<>> /\ next.start <= current.end + Nearby
        THEN [merged EXCEPT ![Len(merged)].end = next.end]
      ELSE Append(merged, next)

Join(merged, next) ==
  LET current == merged[Len(merged)]
  IN  IF merged # <<>> /\ next.start <= current.end + Nearby
        THEN [merged EXCEPT ![Len(merged)].end = IF next.end > @ THEN next.end ELSE @]
      ELSE Append(merged, next)

MergedIntervals(found) ==
  FoldLeft(Join, <<>>, ByStart(UNION {Intervals(found[i]) : i \in DOMAIN found}))

AlertsInit == alerts = <<>> /\ bars = <<>>

(* fetchData of useRawMetrics is answered, and the bars are drawn. *)
AlertsArrive ==
  /\ alerts = <<>>
  /\ alerts' \in AlertSeries
  /\ bars' = MergedIntervals(alerts')

AlertsSpec == AlertsInit /\ [][AlertsArrive]_alertVars

-----------------------------------------------------------------------------
(* The bars show the alert: every minute at which a device reported it is in *)
(* a bar, a bar goes no longer than Gap beyond the reports of a device, or a *)
(* minute more where two bars have become one, and bars that touch have      *)
(* become one, however the reports of the devices overlap (SystemAlerts).    *)
BarsShowAlerts ==
  LET active == UNION {{t \in DOMAIN alerts[i] : alerts[i][t]} : i \in DOMAIN alerts}
      In(t, bar) == bar.start <= t /\ t <= bar.end
  IN  /\ \A t \in active : \E b \in DOMAIN bars : In(t, bars[b])
      /\ \A b \in DOMAIN bars :
           /\ bars[b].start \in active
           /\ \A t \in bars[b].start .. bars[b].end :
                \E a \in active : In(a, bars[b]) /\ a <= t /\ t - a <= Gap + Nearby
      /\ \A b \in 1 .. Len(bars) - 1 : bars[b].end + Nearby < bars[b + 1].start
=============================================================================
