----------------------------- MODULE ChartData -----------------------------
(***************************************************************************)
(* What the charts over time draw (web/src/components/charts): the metrics *)
(* each asks for, the columns useChartData makes of the answer             *)
(* (web/src/utils.ts), and the names each chart gives to them.             *)
(*                                                                         *)
(* The server answers under one key per series: the label of the metric,   *)
(* and with "all" what tells its series apart, here their number.  No      *)
(* label begins with another of the same chart.  Readings are known by     *)
(* their series and time; colours and units are left out.                  *)
(***************************************************************************)
EXTENDS Naturals, Sequences, SequencesExt, FiniteSets

CONSTANTS
  Times,      \* times of readings
  Members,    \* the series of one metric
  Series,     \* what one series may have: the times of its readings, and
              \* whether they are all zero
  MaxSeries   \* bound: series of "all" in one answer

ASSUME ChartAssumption ==
  /\ Times \subseteq Nat /\ IsFiniteSet(Members) /\ Members \subseteq Nat \ {0} /\ MaxSeries \in Nat
  /\ Series \subseteq [at : SUBSET Times, zero : BOOLEAN]

(* Labels in the order of their texts. *)
Alphabet ==
  <<"Actual", "Battery", "Current", "Freq", "Grid", "Home", "Inverter", "L1", "L2",
    "Load", "MSA", "Pod Capacity", "Pod Remaining", "Site", "Solar", "Status",
    "String", "Target", "Temp", "Voltage">>

(* A metric is asked for as one series, or as all it has. *)
One(label) == [label |-> label, all |-> FALSE]
All(label) == [label |-> label, all |-> TRUE]

(* How a chart finds the names of its columns: "sorted" sorts all of them,   *)
(* "metrics" goes through the metrics and sorts the names of each,           *)
(* "columns" through the columns, dropping those without a reading, and      *)
(* "inverters" adds up the strings of each inverter.                         *)
Chart(metrics, names) ==
  [metrics |-> metrics, names |-> names, day |-> FALSE, keepsZoom |-> FALSE]

(* A chart that begins with 24 hours. *)
OfDay(c) == [c EXCEPT !.day = TRUE]

GridVoltage   == OfDay(Chart(<<All("Grid"), All("Load"), All("MSA"), All("Inverter")>>, "sorted"))
FanSpeed      == OfDay(Chart(<<All("Actual"), All("Target")>>, "sorted"))
Temperatures  == Chart(<<All("Temp")>>, "sorted")
SolarEfficiency    == OfDay(Chart(<<All("Voltage"), All("Current")>>, "sorted"))
SolarStringVoltage == OfDay(Chart(<<All("String")>>, "sorted"))
SolarStringCurrent == OfDay(Chart(<<All("String")>>, "sorted"))
SolarStringPower   == OfDay(Chart(<<All("String")>>, "sorted"))
InverterVoltage    == OfDay(Chart(<<All("Inverter")>>, "columns"))
GridFrequency == Chart(<<All("Site"), All("Inverter")>>, "columns")
BatteryLevel  == Chart(<<All("Pod Remaining"), All("Pod Capacity")>>, "metrics")
GridHealth    == OfDay(Chart(<<One("Status"), One("Freq"), All("Grid")>>, "metrics"))
PowerFlow     == [Chart(<<One("Grid"), One("Home"), One("Solar"), One("Battery")>>, "metrics")
                    EXCEPT !.keepsZoom = TRUE]
ReactivePower == OfDay(Chart(<<One("Grid"), One("Home"), One("Solar"), One("Battery")>>, "metrics"))
PhaseBalance  == Chart(<<One("L1"), One("L2")>>, "metrics")
InverterPower == OfDay(Chart(<<All("String")>>, "inverters"))

Charts == {GridVoltage, FanSpeed, Temperatures, SolarEfficiency, SolarStringVoltage,
           SolarStringCurrent, SolarStringPower, InverterVoltage, GridFrequency,
           BatteryLevel, GridHealth, PowerFlow, ReactivePower, PhaseBalance, InverterPower}

-----------------------------------------------------------------------------
(* A key, as its label and its number, 0 for a metric asked for as one. *)
Alone(label) == <<label, 0>>

Less(k, l) ==
  LET rank(key) == CHOOSE i \in DOMAIN Alphabet : Alphabet[i] = key[1]
  IN  rank(k) < rank(l) \/ (rank(k) = rank(l) /\ k[2] < l[2])

Sorted(keys) ==
  [i \in 1 .. Cardinality(keys) |->
     CHOOSE k \in keys : Cardinality({l \in keys : Less(l, k)}) = i - 1]

Null == {}
Zero == {<<>>}
Reading(key, t) == <<key, t>>

KeysOf(metric) ==
  IF metric.all THEN {<<metric.label, n>> : n \in Members} ELSE {Alone(metric.label)}
Asked(c) == UNION {KeysOf(c.metrics[i]) : i \in DOMAIN c.metrics}

(* batchQueryMetrics: a series of "all" is in the answer if it has ever been *)
(* written, a metric asked for as one always, either perhaps without points. *)
Answers(c) ==
  LET alone == {k \in Asked(c) : k[2] = 0}
      found == {ks \in SUBSET (Asked(c) \ alone) : Cardinality(ks) <= MaxSeries}
  IN  UNION {[alone \cup ks -> Series] : ks \in found}

(* What was read: a set, of one reading or, for sums, several. *)
Value(found, key, t) ==
  IF key \notin DOMAIN found \/ t \notin found[key].at THEN Null
  ELSE IF found[key].zero THEN Zero ELSE {Reading(key, t)}

-----------------------------------------------------------------------------
(* useChartData: seriesKeys, and a column for each of them, with a place for *)
(* every time any series has (alignTimestamps).                              *)

AlignTimestamps(found) == UNION {found[k].at : k \in DOMAIN found}

SeriesKeys(c, found) ==
  FlattenSeq([i \in DOMAIN c.metrics |->
    IF c.metrics[i].all THEN Sorted(KeysOf(c.metrics[i]) \cap DOMAIN found)
                            ELSE <<Alone(c.metrics[i].label)>>])

(* Column that draws a line at zero where nothing was read. *)
ColumnFilled(found, key) ==
  [t \in AlignTimestamps(found) |->
     IF Value(found, key, t) = Null THEN Zero ELSE Value(found, key, t)]

Column(found, key) == [t \in AlignTimestamps(found) |-> Value(found, key, t)]

(* The strings of an inverter, and their sum, zero where there are none. *)
InverterOf(string) == <<"Inverter", (string[2] + 1) \div 2>>
Strings(inverter) == {k \in KeysOf(All("String")) : InverterOf(k) = inverter}

Sum(found, inverter, t) == UNION {Value(found, k, t) : k \in Strings(inverter)}

Summed(found, inverter) ==
  [t \in AlignTimestamps(found) |->
     IF Sum(found, inverter, t) = Null THEN Zero ELSE Sum(found, inverter, t)]

(* The names are the keys, or stand for them: "Frequency" for "Freq", "Leg   *)
(* 1" for "L1".                                                              *)
Drawn(c, found) ==
  LET keys == SeriesKeys(c, found)
      columns == [i \in DOMAIN keys |-> Column(found, keys[i])]
      HasData(i) == \E t \in DOMAIN columns[i] : columns[i][t] \notin {Null, Zero}
      inverters == Sorted({InverterOf(k) : k \in DOMAIN found})
      kept == {i \in DOMAIN keys : HasData(i)}
      Nth(n) == CHOOSE i \in kept : Cardinality({j \in kept : j < i}) = n - 1
  IN  CASE c.names = "sorted" ->
             [names |-> Sorted(ToSet(keys)), columns |-> columns]
        [] c.names = "metrics" ->
             [names |-> keys, columns |-> columns]
        [] c.names = "columns" ->
             [names |-> [n \in 1 .. Cardinality(kept) |-> keys[Nth(n)]],
              columns |-> [n \in 1 .. Cardinality(kept) |-> columns[Nth(n)]]]
        [] c.names = "inverters" ->
             [names |-> inverters,
              columns |-> [i \in DOMAIN inverters |-> Summed(found, inverters[i])]]

-----------------------------------------------------------------------------
VARIABLES chart, results, drawn

chartVars == <<chart, results, drawn>>

Nothing == [names |-> <<>>, columns |-> <<>>]

ChartInit ==
  /\ chart \in Charts
  /\ results = [k \in {} |-> Null] /\ drawn = Nothing

(* fetchData is answered, and the chart drawn. *)
Draw ==
  /\ drawn = Nothing
  /\ results' \in Answers(chart)
  /\ drawn' = Drawn(chart, results')
  /\ UNCHANGED chart

ChartSpec == ChartInit /\ [][Draw]_chartVars

-----------------------------------------------------------------------------
(* What a chart shows under a name at a time is what was read there then. *)
ReadingsUnderTheirNames ==
  /\ Len(drawn.names) = Len(drawn.columns)
  /\ \A i \in DOMAIN drawn.names : \A t \in DOMAIN drawn.columns[i] :
       LET shown == drawn.columns[i][t]
       IN  IF chart = InverterPower
             THEN shown \ Zero = Sum(results, drawn.names[i], t) \ Zero
             ELSE shown = Value(results, drawn.names[i], t)

(* It does where the metrics come in the order of their labels, or the names *)
(* are not sorted over all of them; and no reading that is not zero is left  *)
(* out (alignTimestamps, useChartData and the charts' names).                *)
InOrder ==
  LET found == SeriesKeys(chart, results)
  IN  chart.names = "sorted" => found = Sorted(ToSet(found))

ChartsShowReadings ==
  InOrder =>
    /\ ReadingsUnderTheirNames
    /\ drawn # Nothing => \A k \in DOMAIN results : \A t \in results[k].at :
         results[k].zero \/ \E i \in DOMAIN drawn.columns : Reading(k, t) \in drawn.columns[i][t]
=============================================================================
