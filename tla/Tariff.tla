------------------------------- MODULE Tariff -------------------------------
(***************************************************************************)
(* The price of energy by the tariff of the site: the rate the collector   *)
(* stores for the moment (getCurrentRate, internal/collector/config.go),   *)
(* and the schedule of rates the page of costs draws for each season       *)
(* (web/src/pages/Cost.tsx).                                               *)
(*                                                                         *)
(* Dates count from 1 to the end of the year, weekdays from 0 for Sunday;  *)
(* times are whole hours, as the cells of the schedule are, and midnight   *)
(* is 0.  Names of seasons are spelled alike wherever they occur.          *)
(***************************************************************************)
EXTENDS Integers, Sequences, FiniteSetsExt

CONSTANTS
  Dates, Hours,   \* of a year and a day
  PeriodNames,    \* in the order of the answer: sequence of names
  Tariffs         \* records of seasons (name to its dates and periods) and
                  \* charges (name, or ALL, to the rates of periods)

Weekdays == 0 .. 6
ALL == "ALL"    \* the season of rates for all seasons, and its rate
Unknown == 0    \* the rate where the schedule has none

ASSUME TariffAssumption ==
  /\ Dates \subseteq Nat \ {0} /\ Hours \subseteq Nat /\ PeriodNames \in Seq(STRING)
  /\ \A t \in Tariffs : \A s \in DOMAIN t.seasons :
       LET periods == t.seasons[s].periods
       IN  /\ DOMAIN periods \subseteq {PeriodNames[i] : i \in DOMAIN PeriodNames}
           /\ \A n \in DOMAIN periods : \A p \in periods[n] : {p.from, p.to} \subseteq Nat

VARIABLES
  tariff,   \* the tariff in the configuration
  moment,   \* date, weekday and hour of a collection
  price     \* the rate that is stored then

tariffVars == <<tariff, moment, price>>

(* From a first to a last value, perhaps around the end. *)
Around(x, first, last) == IF first <= last THEN first <= x /\ x <= last
                          ELSE first <= x \/ x <= last

-----------------------------------------------------------------------------
(* getCurrentRate *)

InSeason(season, date) == season.from # 0 /\ Around(date, season.from, season.to)

(* InTime that lets a period end with its last hour. *)
InTimeClosed(period, weekday, hour) ==
  /\ period.fromDay <= weekday /\ weekday <= period.toDay
  /\ IF period.from <= period.to THEN period.from <= hour /\ hour <= period.to
     ELSE period.from <= hour \/ hour <= period.to

InTime(period, weekday, hour) ==
  /\ period.fromDay <= weekday /\ weekday <= period.toDay
  /\ IF period.from <= period.to THEN period.from <= hour /\ hour < period.to
     ELSE period.from <= hour \/ hour < period.to

(* The rates it may find: seasons and periods are gone through in any order, *)
(* a period without a rate in its season is passed over, and last there is   *)
(* the rate for all.                                                         *)
CurrentRates(t, m) ==
  LET current == {s \in DOMAIN t.seasons : InSeason(t.seasons[s], m.date)}
      Now(s) == {n \in DOMAIN t.seasons[s].periods :
                   \E p \in t.seasons[s].periods[n] : InTime(p, m.weekday, m.hour)}
      priced == {s \in current : s \in DOMAIN t.charges}
      rates == UNION {{t.charges[s][n] : n \in Now(s) \cap DOMAIN t.charges[s]} : s \in priced}
      flat == IF ALL \in DOMAIN t.charges /\ ALL \in DOMAIN t.charges[ALL]
                THEN t.charges[ALL][ALL] ELSE Unknown
  IN  IF rates # {} THEN rates ELSE {flat}

(* Collect stores the rate of its moment. *)
Collect ==
  /\ price = <<>>
  /\ tariff' \in Tariffs
  /\ moment' \in [date : Dates, weekday : Weekdays, hour : Hours]
  /\ \E rate \in CurrentRates(tariff', moment') : price' = <<rate>>

-----------------------------------------------------------------------------
(* The schedule.  "Tesla 0=Mon, 6=Sun" *)

Matches(period, weekday, hour) ==
  LET teslaDay == (weekday + 6) % 7
  IN  /\ period.fromDay <= teslaDay /\ teslaDay <= period.toDay
      /\ IF period.from < period.to THEN period.from <= hour /\ hour < period.to
         ELSE period.from <= hour \/ hour < period.to

(* The season's periods at this time, by the places of their names; the      *)
(* first is drawn.                                                           *)
Matching(season, weekday, hour) ==
  {i \in DOMAIN PeriodNames :
     /\ PeriodNames[i] \in DOMAIN season.periods
     /\ \E p \in season.periods[PeriodNames[i]] : Matches(p, weekday, hour)}

(* ratesToShow: the rates for all, replaced by those of the season. *)
RatesToShow(t, s) ==
  LET Of(name) == IF name \in DOMAIN t.charges THEN t.charges[name] ELSE <<>>
  IN  [n \in DOMAIN Of(ALL) \cup DOMAIN Of(s) |->
         IF n \in DOMAIN Of(s) THEN Of(s)[n] ELSE Of(ALL)[n]]

(* The cell of a weekday and an hour in the schedule of season s.  (Without  *)
(* periods and these two rates, it is any other rate there is.)              *)
Cell(t, s, weekday, hour) ==
  LET rates == RatesToShow(t, s)
      Rate(name) == IF name \in DOMAIN rates THEN rates[name] ELSE Unknown
      places == Matching(t.seasons[s], weekday, hour)
  IN  IF DOMAIN t.seasons[s].periods = {} THEN Rate(IF s \in DOMAIN rates THEN s ELSE ALL)
      ELSE IF places = {} THEN Unknown ELSE Rate(PeriodNames[Min(places)])

TariffInit == tariff = <<>> /\ moment = <<>> /\ price = <<>>
TariffSpec == TariffInit /\ [][Collect]_tariffVars

-----------------------------------------------------------------------------
(* Nothing is left open: one season has the date, and one period the time,   *)
(* with a rate in its season, and no period begins and ends at one time; or  *)
(* there are no periods and just the one rate.                               *)
Definite(t, s, m) ==
  LET season == t.seasons[s]
  IN  /\ \A r \in DOMAIN t.seasons : InSeason(t.seasons[r], m.date) => r = s
      /\ IF DOMAIN season.periods = {}
           THEN DOMAIN t.charges = {ALL} /\ DOMAIN t.charges[ALL] = {ALL}
           ELSE /\ \E i \in DOMAIN PeriodNames : Matching(season, m.weekday, m.hour) = {i}
                /\ s \in DOMAIN t.charges /\ DOMAIN season.periods \subseteq DOMAIN t.charges[s]
                /\ \A n \in DOMAIN season.periods : \A p \in season.periods[n] : p.from # p.to

EveryDay(season) ==
  \A n \in DOMAIN season.periods : \A p \in season.periods[n] : p.fromDay = 0 /\ p.toDay = 6

Agree(t, s, m) == price = <<Cell(t, s, m.weekday, m.hour)>>

(* The rate that is stored for a moment is the one the schedule shows for    *)
(* it, across midnight and the turn of the year, where periods do not depend *)
(* on the weekday (getCurrentRate, Cost).                                    *)
RateOnSchedule ==
  price # <<>> => \A s \in DOMAIN tariff.seasons :
    InSeason(tariff.seasons[s], moment.date) /\ Definite(tariff, s, moment)
      /\ EveryDay(tariff.seasons[s]) => Agree(tariff, s, moment)

(* The collector reads the days of a period as the page of costs does:       *)
(* "Tesla 0=Mon, 6=Sun" (getCurrentRate, Cost).                              *)
PricedByTheDay ==
  price # <<>> => \A s \in DOMAIN tariff.seasons :
    InSeason(tariff.seasons[s], moment.date) /\ Definite(tariff, s, moment)
      => Agree(tariff, s, moment)
=============================================================================
