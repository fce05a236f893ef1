------------------------------ MODULE MCWebApp ------------------------------
(* Values of the constants of the components of WebApp for model checking.   *)
EXTENDS WebApp, TLC

(* Readings in balance: sun for everything; a grid on either side of what    *)
(* the home takes, with the battery charging; and the bridge in either       *)
(* direction.                                                                *)
MCReadings ==
  {[Solar |-> 600, Grid |-> -300, Battery |-> -150, Home |-> 150],
   [Solar |-> 0,   Grid |-> 300,  Battery |-> 0,    Home |-> 300],
   [Solar |-> 0,   Grid |-> -300, Battery |-> 600,  Home |-> 300],
   [Solar |-> 0,   Grid |-> 600,  Battery |-> -300, Home |-> 300]}

(* "a" with and without a blank, and another key. *)
MCKeys == {"", "a", "a ", "b"}
MCTrim == ("" :> "") @@ ("a" :> "a") @@ ("a " :> "a") @@ ("b" :> "b")
MCFiles == {[k \in MCKeys |-> IF k = "a" THEN "x" ELSE "absent"]}

(* A series without points, at one time or the other, and all zero. *)
MCSeries == [at : {{}, {1}, {2}}, zero : {FALSE}] \cup {[at |-> {1, 2}, zero |-> TRUE]}

(* Minutes near each other, a gap away and a little more; one device that    *)
(* reports at up to three of them, or two.                                   *)
MCMinutes == {0, 1, 2, 6, 7, 8}
SeriesOf(n) == UNION {[ts -> BOOLEAN] : ts \in {s \in SUBSET MCMinutes : Cardinality(s) \in 1 .. n}}
MCAlertSeries == {<<s>> : s \in SeriesOf(3)} \cup {<<s, t>> : s \in SeriesOf(3), t \in SeriesOf(2)}

MCPowers == {-1, 0, 2}

(* Periods of every day and of workdays, over the whole day, a part of it    *)
(* and around midnight; a season around the turn of the year; rates for      *)
(* seasons, for all, and both.                                               *)
MCPeriodNames == <<"OFF_PEAK", "ON_PEAK">>
MCPeriods ==
  {[fromDay |-> d[1], toDay |-> d[2], from |-> h[1], to |-> h[2]] :
     d \in {<<0, 6>>, <<0, 4>>}, h \in {<<0, 0>>, <<1, 3>>, <<3, 1>>, <<0, 2>>}}
MCSeasons(periods) == [Summer |-> [from |-> 2, to |-> 2, periods |-> periods],
                       Winter |-> [from |-> 3, to |-> 1, periods |-> periods]]
MCCharges ==
  {[ALL |-> [ALL |-> 7]],
   [ALL |-> [ALL |-> 7], Summer |-> [OFF_PEAK |-> 1, ON_PEAK |-> 2],
    Winter |-> [OFF_PEAK |-> 3, ON_PEAK |-> 4]],
   [ALL |-> [OFF_PEAK |-> 1], Summer |-> [ON_PEAK |-> 2]]}
MCTariffs ==
  {[seasons |-> MCSeasons(periods), charges |-> c] : c \in MCCharges,
     periods \in UNION {[names -> {{p} : p \in MCPeriods}] : names \in SUBSET {"OFF_PEAK", "ON_PEAK"}}}

(* Three devices: in order, missing, missing by one of its flags, without    *)
(* readings of its strings, and with one of temperature and fans.            *)
Device(measured, listed, strings, ambient, fans) ==
  [measured |-> measured, listed |-> listed, strings |-> strings, ambient |-> ambient, fans |-> fans]
MCBuses ==
  LET kinds == {Device(TRUE, TRUE, TRUE, TRUE, TRUE), Device(FALSE, FALSE, TRUE, FALSE, FALSE),
                Device(TRUE, FALSE, TRUE, FALSE, TRUE), Device(FALSE, TRUE, TRUE, TRUE, FALSE),
                Device(TRUE, TRUE, FALSE, TRUE, TRUE)}
  IN  [1 .. 3 -> kinds]

(* A chart with a default timeframe and the one that keeps its zoom. *)
MCPanels == {"GridVoltage", "PowerFlow"}
=============================================================================
