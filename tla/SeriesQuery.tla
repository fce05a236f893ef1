---------------------------- MODULE SeriesQuery ----------------------------
(***************************************************************************)
(* Store.Select (internal/store/store.go): the samples of every series     *)
(* that matches are scanned, one series after the other, and gathered in   *)
(* buckets of `step' seconds that follow the local time zone.  A behaviour *)
(* is one query; a step handles one sample.                                *)
(*                                                                         *)
(* Samples are timed in ticks, of which a second has TicksPerSecond (the   *)
(* store counts milliseconds).                                             *)
(***************************************************************************)
EXTENDS Integers, Sequences, FiniteSets, Functions

CONSTANTS
  Matching,        \* how many series match
  Samples,         \* what a series can hold: sequences of [t, v], t increasing
  Steps,           \* bucket widths asked for, in seconds; 0 asks for raw points
  Aggregates,      \* the functions asked for
  Zones,           \* time zones: the UTC offset at each second
  TicksPerSecond,
  MaxGap           \* 120: the seconds that a value may stand for

ASSUME QueryAssumption ==
  /\ Matching \in Nat /\ TicksPerSecond \in Nat \ {0} /\ MaxGap \in Nat
  /\ Steps \subseteq Nat
  /\ Samples \subseteq Seq([t : Nat \ {0}, v : Int])
  /\ Aggregates \subseteq {"sum", "integral", "min", "max", "delta", "avg"}
  /\ \A s \in Samples : \A i, k \in DOMAIN s : i < k => s[i].t < s[k].t
  /\ \A z \in Zones : \A sec \in DOMAIN z : z[sec] \in Int /\ sec + z[sec] >= 0
  /\ \A z \in Zones, s \in Samples :
       \A i \in DOMAIN s : (s[i].t \div TicksPerSecond) \in DOMAIN z

VARIABLES
  data,      \* the samples of each matching series
  query,     \* step and function asked for, and the server's time zone
  at,        \* the series and the position the scan has come to
  prevT,     \* the tick of the sample before, 0 when there is none
  buckets,   \* the start of each bucket |-> its accumulators
  results    \* the points of the answer

vars == <<data, query, at, prevT, buckets, results>>

Init ==
  /\ data \in [1 .. Matching -> Samples]
  /\ query \in [step : Steps, function : Aggregates, zone : Zones]
  /\ at = [series |-> 1, sample |-> 1]
  /\ prevT = 0
  /\ buckets = <<>>
  /\ results = <<>>

Scanning == at.series <= Matching
Current == data[at.series][at.sample]
Seconds(ticks) == ticks \div TicksPerSecond

(* Buckets follow local time; the first of the two does not move back.       *)
LocalBucket(sec, offset, step) == ((sec + offset) \div step) * step
BucketOf(sec, offset, step) == ((sec + offset) \div step) * step - offset

(* What a sample adds to its bucket's sum: under "integral" its value over   *)
(* the whole seconds since the sample before, unless the gap is too long.    *)
Share(p) ==
  LET dt == Seconds(p.t - prevT)
  IN  IF query.function # "integral" THEN p.v
      ELSE IF prevT > 0 /\ dt > 0 /\ dt <= MaxGap THEN p.v * dt ELSE 0

(* A new bucket's extremes are its first sample's value, or else zero. *)
ZeroBucket(v) == [sum |-> 0, count |-> 0, min |-> 0, max |-> 0]
NewBucket(v) == [sum |-> 0, count |-> 0, min |-> v, max |-> v]

Gather(b, p) ==
  [sum |-> b.sum + Share(p), count |-> b.count + 1,
   min |-> IF p.v < b.min THEN p.v ELSE b.min,
   max |-> IF p.v > b.max THEN p.v ELSE b.max]

(* The next sample: into its bucket, or as it is. *)
Scan ==
  /\ Scanning /\ at.sample <= Len(data[at.series])
  /\ LET sec == Seconds(Current.t)
         start == BucketOf(sec, query.zone[sec], query.step)
         b == IF start \in DOMAIN buckets THEN buckets[start] ELSE NewBucket(Current.v)
     IN  IF query.step > 0
           THEN /\ buckets' = [k \in DOMAIN buckets \cup {start} |->
                                IF k = start THEN Gather(b, Current) ELSE buckets[k]]
                /\ UNCHANGED results
           ELSE /\ results' = Append(results, [t |-> sec, v |-> Current.v, over |-> 1])
                /\ UNCHANGED buckets
  /\ prevT' = Current.t
  /\ at' = [at EXCEPT !.sample = @ + 1]
  /\ UNCHANGED <<data, query>>

(* NextSeries that remembers the last sample of the one before. *)
NextSeriesCarrying ==
  /\ Scanning /\ at.sample > Len(data[at.series])
  /\ at' = [series |-> at.series + 1, sample |-> 1]
  /\ UNCHANGED <<data, query, prevT, buckets, results>>

NextSeries ==
  /\ Scanning /\ at.sample > Len(data[at.series])
  /\ at' = [series |-> at.series + 1, sample |-> 1]
  /\ prevT' = 0
  /\ UNCHANGED <<data, query, buckets, results>>

(* The point of a bucket; its value is v / over, so that averages stay exact.*)
PointOf(start) ==
  LET b == buckets[start]
      v == CASE query.function \in {"sum", "integral", "avg"} -> b.sum
             [] query.function = "min" -> b.min
             [] query.function = "max" -> b.max
             [] query.function = "delta" -> b.max - b.min
  IN  [t |-> start, v |-> v, over |-> IF query.function = "avg" THEN b.count ELSE 1]

Before(p, q) == p.t < q.t \/ (p.t = q.t /\ p.v < q.v)

(* The place of a point among all; those that are alike stay as they are.    *)
Upto(points, i) ==
  {k \in DOMAIN points : \/ Before(points[k], points[i])
                         \/ ~Before(points[i], points[k]) /\ k <= i}
Rank(points, i) == Cardinality(Upto(points, i))
Sorted(points) ==
  [n \in 1 .. Cardinality(DOMAIN points) |->
     points[CHOOSE i \in DOMAIN points : Rank(points, i) = n]]

(* The points, sorted by time, are returned. *)
Answer ==
  /\ at.series = Matching + 1
  /\ at' = [at EXCEPT !.series = @ + 1]
  /\ results' = Sorted(IF query.step > 0 THEN [k \in DOMAIN buckets |-> PointOf(k)]
                                          ELSE results)
  /\ UNCHANGED <<data, query, prevT, buckets>>

Next == Scan \/ NextSeries \/ Answer

Spec == Init /\ [][Next]_vars

Answered == at.series = Matching + 2

-----------------------------------------------------------------------------
Abs(n) == IF n < 0 THEN -n ELSE n
SumOf(h) == SumFunctionOnSet(h, DOMAIN h)
Constant(zone) == \A i, k \in DOMAIN zone : zone[i] = zone[k]

(* The samples by series and position, and those of a span of seconds. *)
Points == UNION {{<<s, i>> : i \in DOMAIN data[s]} : s \in 1 .. Matching}
P(x) == data[x[1]][x[2]]
Within(from, to) == {x \in Points : from <= Seconds(P(x).t) /\ Seconds(P(x).t) < to}

TypeOK ==
  /\ at.series \in 1 .. Matching + 2 /\ at.sample \in Nat \ {0}
  /\ prevT \in Nat /\ (at.sample = 1 <=> prevT = 0)
  /\ \A k \in DOMAIN buckets :
       /\ {k, buckets[k].sum, buckets[k].min, buckets[k].max} \subseteq Int
       /\ buckets[k].count \in Nat \ {0}

(* No sample is lost, counted twice or shown at the wrong time: a bucket     *)
(* holds only samples of its span of time, whatever the time zone does, all  *)
(* of them if the zone does not change its offset meanwhile, and the answer  *)
(* is in the order of time (Select's alignment and sort).                    *)
EverySampleInItsBucket ==
  Answered =>
    /\ \A i \in 1 .. Len(results) - 1 :
         results[i].t < results[i + 1].t \/ (query.step = 0 /\ results[i].t = results[i + 1].t)
    /\ IF query.step = 0 THEN Len(results) = Cardinality(Points)
       ELSE /\ SumOf([k \in DOMAIN buckets |-> buckets[k].count]) = Cardinality(Points)
            /\ \A k \in DOMAIN buckets :
                 LET span == Cardinality(Within(k, k + query.step))
                 IN  /\ buckets[k].count <= span
                     /\ Constant(query.zone) => buckets[k].count = span

(* Energy is neither invented nor lost beyond the rounding of times to whole *)
(* seconds: over all buckets the integral is that of the samples of each     *)
(* series, each standing for the time since the one before it in its own     *)
(* series, gaps of more than MaxGap seconds left out, and the error is less  *)
(* than a second's worth of every sample (the "integral" of Select).         *)
EnergyConserved ==
  Answered /\ query.function = "integral" /\ query.step > 0 =>
    LET gap(x) == P(x).t - P(<<x[1], x[2] - 1>>).t
        counted == {x \in Points : x[2] > 1 /\ gap(x) < (MaxGap + 1) * TicksPerSecond}
        exact == SumOf([x \in counted |-> P(x).v * gap(x)])
        answer == SumOf([i \in DOMAIN results |-> results[i].v])
    IN  Abs(exact - answer * TicksPerSecond)
          <= (TicksPerSecond - 1) * SumOf([x \in counted |-> Abs(P(x).v)])

(* What a bucket says of its samples is true of them: the extremes are       *)
(* values of samples in its span and bound the average.                      *)
BucketsSummarise ==
  \A k \in DOMAIN buckets :
    LET b == buckets[k]
        values == {P(x).v : x \in Within(k, k + query.step)}
    IN  /\ {b.min, b.max} \subseteq values
        /\ query.function # "integral" => b.min * b.count <= b.sum /\ b.sum <= b.max * b.count
=============================================================================
