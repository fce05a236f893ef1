---------------------------- MODULE EnergyCharts ----------------------------
(***************************************************************************)
(* The energy of days and hours (web/src/components/charts): the figures   *)
(* MonthlyAnalytics, YearlyAnalytics and DailySummary make of the power    *)
(* that was imported and exported, as the collector                        *)
(* (internal/collector/aggregates.go) or an import                         *)
(* (internal/importer/importer.go) stored it.                              *)
(*                                                                         *)
(* A point of an answer is the energy of one bucket, an hour or a day,     *)
(* which SeriesQuery is about.  Power does not change within an hour.      *)
(***************************************************************************)
EXTENDS Integers, FiniteSetsExt

CONSTANTS
  ReadHours,      \* hours with readings, 0 to the last
  DayHours,   \* hours of a day
  Powers,     \* the power of grid and battery: taken from them, or given to
              \* them when negative
  Writers     \* of the readings: "collector" and "importer"

ASSUME EnergyAssumption ==
  /\ ReadHours \subseteq Nat /\ IsFiniteSet(ReadHours)
  /\ DayHours \in Nat \ {0} /\ Powers \subseteq Int
  /\ Writers \subseteq {"collector", "importer"}

VARIABLES
  power,      \* what there was to read: hour by hour, by whom it was, if at all
  figures     \* what the three charts show

energyVars == <<power, figures>>

EnergyLabels == {"grid_import", "grid_export", "battery_import", "battery_export", "battery"}
Undefined == {}   \* no value; a value v is {v}
NoFigures == [monthly |-> <<>>, zoomed |-> <<>>, yearly |-> <<>>, today |-> <<>>]

DayOf(h) == h \div DayHours
Today == DayOf(Max(ReadHours))
Total(figure, hours) == SumFunctionOnSet(figure, hours)

-----------------------------------------------------------------------------
(* Collect and processSeries: what is stored of an hour. *)

Given(w) == IF w < 0 THEN -w ELSE 0
Taken(w) == IF w > 0 THEN w ELSE 0

(* Positive power is an import, of the battery as well. *)
Collected(r) ==
  [grid_import    |-> Taken(r.grid),    grid_export    |-> Given(r.grid),
   battery_import |-> Taken(r.battery), battery_export |-> Given(r.battery),
   battery        |-> r.battery]

(* Zeros are left out, and taking from the battery is an export. *)
Imported(r) ==
  LET all == [grid_import    |-> Taken(r.grid),    grid_export    |-> Given(r.grid),
              battery_import |-> Given(r.battery), battery_export |-> Taken(r.battery),
              battery        |-> r.battery]
  IN  Restrict(all, {l \in EnergyLabels : all[l] # 0})

Stored(readings) ==
  [h \in DOMAIN readings |->
     IF readings[h].writer = "collector" THEN Collected(readings[h]) ELSE Imported(readings[h])]

(* batchQueryMetrics with "integral": the buckets in which the label has     *)
(* been stored, each with its energy.                                        *)
Results(store, label, step) ==
  LET hours == {h \in DOMAIN store : label \in DOMAIN store[h]}
      energy == [h \in hours |-> store[h][label]]
  IN  [b \in {h \div step : h \in hours} |-> Total(energy, {h \in hours : h \div step = b})]

Get(points, b) == IF b \in DOMAIN points THEN points[b] ELSE 0

-----------------------------------------------------------------------------
(* The panel of the grid in MonthlyAnalytics, by days or, zoomed into a      *)
(* week, by hours.                                                           *)
Monthly(store, step) ==
  LET from == Results(store, "grid_import", step)
      to == Results(store, "grid_export", step)
  IN  [b \in DOMAIN from \cup DOMAIN to |-> [from |-> Get(from, b), to |-> -Get(to, b)]]

(* Yearly that draws nothing where one of the two is missing. *)
YearlyBoth(store) ==
  LET from == Results(store, "grid_import", DayHours)
      to == Results(store, "grid_export", DayHours)
  IN  [d \in {DayOf(h) : h \in {k \in DOMAIN store : DOMAIN store[k] # {}}} |->
         IF d \notin DOMAIN from \cap DOMAIN to THEN Undefined ELSE {from[d] - to[d]}]

(* The curve of the grid in YearlyAnalytics, for all days with a point. *)
Yearly(store) ==
  LET from == Results(store, "grid_import", DayHours)
      to == Results(store, "grid_export", DayHours)
  IN  [d \in {DayOf(h) : h \in {k \in DOMAIN store : DOMAIN store[k] # {}}} |->
         IF d \notin DOMAIN from \cup DOMAIN to THEN Undefined ELSE {Get(from, d) - Get(to, d)}]

(* The net figures of DailySummary: from the beginning of today, by hours.   *)
Daily(store) ==
  LET Sum(label) == LET points == Results(store, label, 1)
                    IN  Total(points, {h \in DOMAIN points : DayOf(h) = Today})
  IN  [grid    |-> Sum("grid_import") - Sum("grid_export"),
       battery |-> Sum("battery_export") - Sum("battery_import")]

EnergyInit == power = <<>> /\ figures = NoFigures

(* The charts have fetched what was read. *)
EnergyArrives ==
  /\ figures = NoFigures
  /\ power' \in UNION {[hours -> [grid : Powers, battery : Powers, writer : Writers]]
                        : hours \in SUBSET ReadHours}
  /\ LET store == Stored(power')
     IN  figures' = [monthly |-> Monthly(store, DayHours), zoomed |-> Monthly(store, 1),
                     yearly |-> Yearly(store), today |-> Daily(store)]

EnergySpec == EnergyInit /\ [][EnergyArrives]_energyVars

-----------------------------------------------------------------------------
(* The three charts tell the same about the grid: for each day that was read *)
(* the energy taken less the energy given, whether zeros are stored or left  *)
(* out, whether by days or by hours; and today's figure of the battery is    *)
(* what went into it, as long as the collector alone has written today.  An  *)
(* import stores battery_import and battery_export the other way round       *)
(* (MonthlyAnalytics, YearlyAnalytics, DailySummary).                        *)
EnergyAgrees ==
  figures # NoFigures =>
    LET read == DOMAIN power
        Of(d) == {h \in read : DayOf(h) = d}
        net == [h \in read |-> power[h].grid]
        Shown(points, hours) ==
          Total([b \in DOMAIN points |-> points[b].from + points[b].to], hours)
    IN  /\ \A d \in {DayOf(h) : h \in read} :
             /\ d \in DOMAIN figures.yearly
                  => figures.yearly[d] \subseteq {Total(net, Of(d))}
             /\ Total(net, Of(d)) # 0
                  => d \in DOMAIN figures.yearly /\ figures.yearly[d] # Undefined
             /\ d \in DOMAIN figures.monthly
                  => Shown(figures.monthly, {d}) = Total(net, Of(d))
             /\ Shown(figures.zoomed, Of(d) \cap DOMAIN figures.zoomed) = Total(net, Of(d))
        /\ figures.today.grid = Total(net, Of(Today))
        /\ (\A h \in Of(Today) : power[h].writer = "collector")
             => figures.today.battery = -Total([h \in read |-> power[h].battery], Of(Today))
=============================================================================
