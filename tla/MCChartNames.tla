---------------------------- MODULE MCChartNames ----------------------------
(* Values of the constants of ChartData for model checking: answers of up to *)
(* two series of "all", a series being without points, at one time or the    *)
(* other, or all zero.                                                       *)
EXTENDS ChartData
MCSeries == [at : {{}, {1}, {2}}, zero : {FALSE}] \cup {[at |-> {1, 2}, zero |-> TRUE]}
=============================================================================
