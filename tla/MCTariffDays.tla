---------------------------- MODULE MCTariffDays ----------------------------
(* Values of the constants of Tariff for model checking: one season with an  *)
(* off-peak period of the weekend and an on-peak period of workdays, each    *)
(* from one to eleven at night, and a rate for both.                         *)
EXTENDS Tariff
Days(fromDay, toDay) == [fromDay |-> fromDay, toDay |-> toDay, from |-> 1, to |-> 23]
MCTariffs ==
  {[seasons |-> [Summer |-> [from |-> 1, to |-> 1,
                             periods |-> [OFF_PEAK |-> {Days(5, 6)},
                                          ON_PEAK  |-> {Days(0, 4)}]]],
    charges |-> [Summer |-> [OFF_PEAK |-> 1, ON_PEAK |-> 2]]]}
MCPeriodNames == <<"OFF_PEAK", "ON_PEAK">>
=============================================================================
