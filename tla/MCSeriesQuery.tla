--------------------------- MODULE MCSeriesQuery ---------------------------
(* Values of the constants of SeriesQuery for model checking: two series of  *)
(* up to three samples within five seconds of two ticks, positive and        *)
(* negative values, gaps that count, that are too long and that are less     *)
(* than a second, in UTC, west of it, and over a change to summer time.      *)
EXTENDS SeriesQuery
Times == {2, 3, 5, 10}
Sample == [t : Times, v : {-1, 2}]
MCSamples ==
  {s \in UNION {[1 .. n -> Sample] : n \in 0 .. 3} :
     \A i, k \in DOMAIN s : i < k => s[i].t < s[k].t}
MCSteps == {0, 2, 3}
MCAggregates == {"integral", "delta", "avg"}
MCZones == {[s \in 1 .. 5 |-> 0], [s \in 1 .. 5 |-> -1],
            [s \in 1 .. 5 |-> IF s < 2 THEN 0 ELSE 1]}
=============================================================================
