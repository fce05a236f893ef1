------------------------- MODULE SeriesQuery_proofs -------------------------
(***************************************************************************)
(* Theorems about SeriesQuery: whatever the series hold and however they   *)
(* are asked for, a query loses, invents and misplaces no sample, what its *)
(* buckets say is true, and its energy is that of the samples.             *)
(***************************************************************************)
EXTENDS SeriesQuery, Sums_proofs

-----------------------------------------------------------------------------
(* Numbers *)

(* Products keep an order. *)
LEMMA Products ==
  ASSUME NEW a \in Int, NEW b \in Int, a <= b, NEW n \in Nat
  PROVE  a * n <= b * n
  OBVIOUS

(* What is left of a division is less than the divisor. *)
LEMMA Quotient ==
  ASSUME NEW a \in Int, NEW n \in Nat \ {0}
  PROVE  /\ a \div n \in Int /\ (a \div n) * n <= a /\ a < (a \div n) * n + n
         /\ a >= 0 => a \div n >= 0
  OBVIOUS

(* There is one such quotient. *)
LEMMA OneQuotient ==
  ASSUME NEW a \in Int, NEW q \in Int, NEW n \in Nat \ {0}, q * n <= a, a < q * n + n
  PROVE  a \div n = q
<1> DEFINE r == a \div n
<1>1. r \in Int /\ r * n <= a /\ a < r * n + n BY Quotient
<1> HIDE DEF r
<1>2. ~(r < q)
  <2>. SUFFICES ASSUME r + 1 <= q PROVE FALSE BY <1>1
  <2>1. (r + 1) * n <= q * n BY <1>1, Products
  <2>2. (r + 1) * n = r * n + n BY <1>1
  <2>3. r * n \in Int /\ q * n \in Int BY <1>1
  <2>. QED BY <1>1, <2>1, <2>2, <2>3
<1>3. ~(q < r)
  <2>. SUFFICES ASSUME q + 1 <= r PROVE FALSE BY <1>1
  <2>1. (q + 1) * n <= r * n BY <1>1, Products
  <2>2. (q + 1) * n = q * n + n BY <1>1
  <2>3. r * n \in Int /\ q * n \in Int BY <1>1
  <2>. QED BY <1>1, <2>1, <2>2, <2>3
<1>. QED BY <1>1, <1>2, <1>3 DEF r

-----------------------------------------------------------------------------
(* Sorting *)

(* Points that can be compared. *)
Comparable(points) ==
  /\ DOMAIN points \in SUBSET Int /\ IsFiniteSet(DOMAIN points)
  /\ \A i \in DOMAIN points : points[i].t \in Int /\ points[i].v \in Int

(* Of two points one comes first, and the points up to it are fewer.         *)
LEMMA OneFirst ==
  ASSUME NEW points, Comparable(points), NEW i \in DOMAIN points, NEW k \in DOMAIN points, i # k
  PROVE  /\ Rank(points, i) \in 1 .. Cardinality(DOMAIN points)
         /\ \/ k \in Upto(points, i) /\ Rank(points, k) < Rank(points, i)
            \/ i \in Upto(points, k) /\ Rank(points, i) < Rank(points, k)
<1>1. \A x \in DOMAIN points :
        /\ Upto(points, x) \subseteq DOMAIN points /\ x \in Upto(points, x)
        /\ IsFiniteSet(Upto(points, x)) /\ Rank(points, x) \in 1 .. Cardinality(DOMAIN points)
  <2>. SUFFICES ASSUME NEW x \in DOMAIN points
                PROVE  /\ Upto(points, x) \subseteq DOMAIN points /\ x \in Upto(points, x)
                       /\ IsFiniteSet(Upto(points, x))
                       /\ Rank(points, x) \in 1 .. Cardinality(DOMAIN points)
    OBVIOUS
  <2>1. Upto(points, x) \subseteq DOMAIN points BY DEF Upto
  <2>2. x \in Upto(points, x) BY DEF Upto, Before, Comparable
  <2>3. /\ IsFiniteSet(Upto(points, x))
        /\ Cardinality(Upto(points, x)) <= Cardinality(DOMAIN points)
        /\ Cardinality(DOMAIN points) \in Nat
    BY <2>1, FS_Subset, FS_CardinalityType DEF Comparable
  <2>4. Cardinality(Upto(points, x)) \in Nat /\ Cardinality(Upto(points, x)) # 0
    BY <2>2, <2>3, FS_EmptySet, FS_CardinalityType
  <2>. QED BY <2>1, <2>2, <2>3, <2>4 DEF Rank
<1>2. ASSUME NEW x \in DOMAIN points, NEW y \in DOMAIN points, x # y, x \in Upto(points, y)
      PROVE  Rank(points, x) < Rank(points, y)
  <2>1. Upto(points, x) \subseteq Upto(points, y) BY <1>2 DEF Upto, Before, Comparable
  <2>2. y \notin Upto(points, x) BY <1>2 DEF Upto, Before, Comparable
  <2>3. /\ Cardinality(Upto(points, x)) <= Cardinality(Upto(points, y))
        /\ Cardinality(Upto(points, x)) # Cardinality(Upto(points, y))
    BY <1>1, <2>1, <2>2, FS_Subset
  <2>4. Cardinality(Upto(points, x)) \in Nat /\ Cardinality(Upto(points, y)) \in Nat
    BY <1>1, FS_CardinalityType
  <2>. QED BY <2>3, <2>4 DEF Rank
<1>3. k \in Upto(points, i) \/ i \in Upto(points, k) BY DEF Upto, Before, Comparable
<1>. QED BY <1>1, <1>2, <1>3

(* Sorting keeps every point, once, and puts none after a later one.         *)
LEMMA Sorts ==
  ASSUME NEW points, Comparable(points)
  PROVE  \E f \in Bijection(1 .. Cardinality(DOMAIN points), DOMAIN points) :
           /\ Sorted(points) = [n \in 1 .. Cardinality(DOMAIN points) |-> points[f[n]]]
           /\ \A m, n \in 1 .. Cardinality(DOMAIN points) :
                m < n => ~Before(points[f[n]], points[f[m]])
<1> DEFINE D == DOMAIN points
           N == 1 .. Cardinality(D)
           place == [i \in D |-> Rank(points, i)]
           f == [n \in N |-> CHOOSE i \in D : Rank(points, i) = n]
<1>0. IsFiniteSet(D) /\ Cardinality(D) \in Nat BY FS_CardinalityType DEF Comparable
<1>1. \A i, k \in D : i # k =>
        /\ place[i] \in N
        /\ \/ k \in Upto(points, i) /\ place[k] < place[i]
           \/ i \in Upto(points, k) /\ place[i] < place[k]
  BY OneFirst
<1>2. \A i \in D : place[i] \in N
  <2>. SUFFICES ASSUME NEW i \in D PROVE place[i] \in N OBVIOUS
  <2>1. CASE \E k \in D : k # i BY <1>1, <2>1
  <2>2. CASE D = {i}
    <3>1. Upto(points, i) = {i} BY <2>2 DEF Upto, Before, Comparable
    <3>2. Cardinality({i}) = 1 BY FS_Singleton
    <3>. QED BY <2>2, <3>1, <3>2 DEF Rank
  <2>. QED BY <2>1, <2>2
<1>3. place \in Injection(D, N)
  <2>1. \A i \in D : place[i] \in Nat BY <1>0, <1>2
  <2>2. \A i, k \in D : i # k => place[i] # place[k]
    <3>. HIDE DEF place, D, N
    <3>. QED BY <1>1, <2>1
  <2>3. place \in [D -> N] BY <1>2
  <2>. HIDE DEF place, D, N
  <2>. QED BY <2>2, <2>3 DEF Injection, IsInjective
<1>4. place \in Surjection(D, N)
  <2>1. IsFiniteSet(N) /\ Cardinality(N) = Cardinality(D) BY <1>0, FS_Interval
  <2>. HIDE DEF place, D, N
  <2>. QED BY <1>3, <2>1, FS_Injection
<1>5. \A n \in N : f[n] \in D /\ place[f[n]] = n
  <2>1. \A n \in N : \E i \in D : place[i] = n BY <1>4 DEF Surjection
  <2>. QED BY <2>1
<1>6. \A i \in D : f[place[i]] = i
  <2>. HIDE DEF place, D, N, f
  <2>. QED BY <1>2, <1>3, <1>5 DEF Injection, IsInjective
<1>7. f \in Bijection(N, D)
  <2>1. f \in [N -> D] BY <1>5
  <2>. HIDE DEF place, D, N, f
  <2>. QED BY <1>2, <1>5, <1>6, <2>1 DEF Bijection, Injection, Surjection, IsInjective
<1>8. ASSUME NEW m \in N, NEW n \in N, m < n PROVE ~Before(points[f[n]], points[f[m]])
  <2>1. f[m] \in D /\ f[n] \in D /\ place[f[m]] < place[f[n]] /\ f[m] # f[n] BY <1>5, <1>8
  <2>2. place[f[m]] \in Nat /\ place[f[n]] \in Nat BY <1>0, <1>2, <2>1
  <2>. HIDE DEF f, place
  <2>3. f[m] \in Upto(points, f[n])
    <3>. HIDE DEF N, D
    <3>. QED BY <1>1, <2>1, <2>2
  <2>. QED BY <2>1, <2>3 DEF Upto, Before, Comparable
<1>9. Sorted(points) = [n \in N |-> points[f[n]]] BY DEF Sorted
<1>. HIDE DEF f
<1>. QED BY <1>7, <1>8, <1>9

-----------------------------------------------------------------------------
(* Samples *)

(* What every step keeps, but for what was gathered. *)
Typed ==
  /\ data \in [1 .. Matching -> Samples]
  /\ query \in [step : Steps, function : Aggregates, zone : Zones]
  /\ at \in [series : 1 .. Matching + 2, sample : Nat \ {0}]
  /\ Scanning => at.sample <= Len(data[at.series]) + 1
  /\ ~Scanning => at.sample = 1
  /\ prevT = IF at.sample = 1 THEN 0 ELSE data[at.series][at.sample - 1].t

(* The samples scanned so far. *)
Done == {x \in Points : x[1] < at.series \/ (x[1] = at.series /\ x[2] < at.sample)}

(* The second, the bucket, the time before and the part of a sample in a     *)
(* sum, wherever the scan is.                                                *)
Second(x) == Seconds(P(x).t)
Bucket(x) == BucketOf(Second(x), query.zone[Second(x)], query.step)
Gap(x) == P(x).t - (IF x[2] = 1 THEN 0 ELSE P(<<x[1], x[2] - 1>>).t)
Part(x) ==
  LET dt == Seconds(Gap(x))
  IN  IF query.function # "integral" THEN P(x).v
      ELSE IF x[2] > 1 /\ dt > 0 /\ dt <= MaxGap THEN P(x).v * dt ELSE 0

(* What is in a sequence. *)
LEMMA Member ==
  ASSUME NEW S, NEW s \in Seq(S), NEW n \in 1 .. Len(s)
  PROVE  s[n] \in S
  OBVIOUS

(* Samples have a time and a value, and the times of a series increase.      *)
LEMMA PointValues ==
  ASSUME data \in [1 .. Matching -> Samples], NEW x \in Points
  PROVE  /\ x = <<x[1], x[2]>> /\ x[1] \in 1 .. Matching
         /\ data[x[1]] \in Seq([t : Nat \ {0}, v : Int])
         /\ x[2] \in 1 .. Len(data[x[1]]) /\ Len(data[x[1]]) \in Nat
         /\ P(x).t \in Nat \ {0} /\ P(x).v \in Int
         /\ Seconds(P(x).t) \in Nat
         /\ \A z \in Zones : Seconds(P(x).t) \in DOMAIN z
<1>0. PICK s \in 1 .. Matching : \E i \in DOMAIN data[s] : x = <<s, i>> BY DEF Points
<1>1. PICK i \in DOMAIN data[s] : x = <<s, i>> BY <1>0
<1>2. x[1] = s /\ x[2] = i BY <1>1
<1>3. data[s] \in Samples /\ data[s] \in Seq([t : Nat \ {0}, v : Int]) BY QueryAssumption
<1>4. i \in 1 .. Len(data[s]) /\ Len(data[s]) \in Nat BY <1>3
<1>5. data[s][i] \in [t : Nat \ {0}, v : Int] BY <1>3, <1>4, Member
<1>6. P(x) = data[s][i] BY <1>2 DEF P
<1>7. Seconds(P(x).t) \in Nat
  <2>1. TicksPerSecond \in Nat \ {0} /\ P(x).t \in Int /\ P(x).t >= 0
    BY <1>5, <1>6, QueryAssumption
  <2>. QED BY <2>1, Quotient DEF Seconds
<1>8. \A z \in Zones : Seconds(P(x).t) \in DOMAIN z BY <1>3, <1>6, QueryAssumption DEF Seconds
<1>. QED BY <1>1, <1>2, <1>3, <1>4, <1>5, <1>6, <1>7, <1>8

(* There are finitely many. *)
LEMMA PointsFinite ==
  ASSUME data \in [1 .. Matching -> Samples]
  PROVE  IsFiniteSet(Points)
<1> DEFINE column(s) == {<<s, i>> : i \in DOMAIN data[s]}
           columns == {column(s) : s \in 1 .. Matching}
<1>1. ASSUME NEW s \in 1 .. Matching PROVE IsFiniteSet(column(s))
  <2>1. data[s] \in Seq([t : Nat \ {0}, v : Int]) BY QueryAssumption
  <2>2. DOMAIN data[s] = 1 .. Len(data[s]) /\ Len(data[s]) \in Nat BY <2>1
  <2>3. IsFiniteSet(DOMAIN data[s]) BY <2>2, FS_Interval
  <2>4. [i \in DOMAIN data[s] |-> <<s, i>>] \in Surjection(DOMAIN data[s], column(s))
    BY DEF Surjection
  <2>. QED BY <2>3, <2>4, FS_Surjection
<1>2. IsFiniteSet(1 .. Matching) BY QueryAssumption, FS_Interval
<1>3. [s \in 1 .. Matching |-> column(s)] \in Surjection(1 .. Matching, columns)
  <2>. HIDE DEF column
  <2>. QED BY DEF Surjection
<1>4. IsFiniteSet(columns)
  <2>. HIDE DEF columns
  <2>. QED BY <1>2, <1>3, FS_Surjection
<1>5. \A C \in columns : IsFiniteSet(C) BY <1>1
<1>6. Points = UNION columns BY DEF Points
<1>. QED BY <1>4, <1>5, <1>6, FS_UNION

(* The bucket of a sample starts before it, not more than a step. *)
LEMMA InSpan ==
  ASSUME data \in [1 .. Matching -> Samples], query.zone \in Zones, query.step \in Nat \ {0},
         NEW x \in Points
  PROVE  /\ Bucket(x) \in Int
         /\ x \in Within(Bucket(x), Bucket(x) + query.step)
<1> DEFINE sec == Seconds(P(x).t)
           offset == query.zone[sec]
           q == (sec + offset) \div query.step
<1>1. sec \in Nat /\ offset \in Int BY PointValues, QueryAssumption
<1>2. q \in Int /\ q * query.step <= sec + offset /\ sec + offset < q * query.step + query.step
  <2>. HIDE DEF sec, offset
  <2>1. sec + offset \in Int BY <1>1
  <2>. QED BY <2>1, Quotient
<1>3. Bucket(x) = q * query.step - offset BY DEF Bucket, Second, BucketOf
<1>4. q * query.step \in Int BY <1>2
<1>. HIDE DEF q, offset
<1>5. /\ Bucket(x) \in Int /\ Bucket(x) <= sec /\ sec < Bucket(x) + query.step
  <2>. HIDE DEF sec
  <2>. QED BY <1>1, <1>2, <1>3, <1>4
<1>. QED BY <1>5 DEF Within

(* While the zone keeps its offset every sample within a bucket's span is in *)
(* that bucket.                                                              *)
LEMMA SpanInBucket ==
  ASSUME data \in [1 .. Matching -> Samples], query.zone \in Zones, query.step \in Nat \ {0},
         Constant(query.zone), NEW x \in Points, NEW y \in Points,
         y \in Within(Bucket(x), Bucket(x) + query.step)
  PROVE  Bucket(y) = Bucket(x)
<1> DEFINE sx == Seconds(P(x).t)
           sy == Seconds(P(y).t)
           offset == query.zone[sx]
           q == (sx + offset) \div query.step
<1>1. sx \in Nat /\ sy \in Nat /\ offset \in Int BY PointValues, QueryAssumption
<1>2. query.zone[sy] = offset BY PointValues DEF Constant
<1>3. q \in Int
  <2>. HIDE DEF sx, offset
  <2>. QED BY <1>1, Quotient
<1>4. Bucket(x) = q * query.step - offset BY DEF Bucket, Second, BucketOf
<1>5. Bucket(x) <= sy /\ sy < Bucket(x) + query.step BY DEF Within
<1>6. Bucket(y) = ((sy + offset) \div query.step) * query.step - offset
  BY <1>2 DEF Bucket, Second, BucketOf
<1>7. (sy + offset) \div query.step = q
  <2>1. q * query.step \in Int BY <1>3
  <2>. HIDE DEF q, sx, sy, offset
  <2>2. q * query.step <= sy + offset /\ sy + offset < q * query.step + query.step
    BY <1>1, <1>4, <1>5, <2>1
  <2>3. sy + offset \in Int BY <1>1
  <2>. QED BY <1>3, <2>2, <2>3, OneQuotient
<1>. QED BY <1>4, <1>6, <1>7

-----------------------------------------------------------------------------
(* The scan *)

(* The sample the scan has come to is the next one, and its share is its     *)
(* part of the sum.                                                          *)
LEMMA NextSample ==
  ASSUME Typed, Scanning, at.sample <= Len(data[at.series]),
         NEW x, x = <<at.series, at.sample>>
  PROVE  /\ x \in Points /\ x \notin Done /\ Current = P(x)
         /\ Share(Current) = Part(x)
<1>1. at.series \in 1 .. Matching /\ at.sample \in Nat \ {0} /\ Matching \in Nat
  BY QueryAssumption DEF Typed, Scanning
<1>2. data[at.series] \in Seq([t : Nat \ {0}, v : Int])
  BY <1>1, QueryAssumption DEF Typed
<1>3. at.sample \in DOMAIN data[at.series] BY <1>1, <1>2
<1>4. x \in Points BY <1>1, <1>3 DEF Points
<1>5. x \notin Done BY <1>1 DEF Done
<1>6. Current = P(x) BY DEF Current, P
<1>7. Gap(x) = Current.t - prevT BY <1>1, <1>6 DEF Gap, P, Typed
<1>8. prevT > 0 <=> x[2] > 1
  <2>1. CASE at.sample = 1 BY <2>1 DEF Typed
  <2>2. CASE at.sample # 1
    <3>1. at.sample - 1 \in 1 .. Len(data[at.series]) BY <1>1, <1>2, <2>2
    <3>2. data[at.series][at.sample - 1] \in [t : Nat \ {0}, v : Int] BY <1>2, <3>1, Member
    <3>3. prevT = data[at.series][at.sample - 1].t BY <2>2 DEF Typed
    <3>. QED BY <1>1, <2>2, <3>2, <3>3
  <2>. QED BY <2>1, <2>2
<1>9. Share(Current) = Part(x) BY <1>6, <1>7, <1>8 DEF Share, Part
<1>. QED BY <1>4, <1>5, <1>6, <1>9

(* What is known keeps its shape. *)
LEMMA TypedStep ==
  ASSUME Typed, [Next]_vars
  PROVE  Typed'
<1>0. /\ Matching \in Nat /\ at.series \in 1 .. Matching + 2 /\ at.sample \in Nat \ {0}
      /\ at \in [series : 1 .. Matching + 2, sample : Nat \ {0}]
      /\ \A s \in 1 .. Matching : Len(data[s]) \in Nat
  <2>1. \A s \in 1 .. Matching : data[s] \in Seq([t : Nat \ {0}, v : Int])
    BY QueryAssumption DEF Typed
  <2>. QED BY <2>1, QueryAssumption DEF Typed
<1>1. CASE Scan
  <2>1. /\ at.series \in 1 .. Matching /\ at.sample <= Len(data[at.series])
        /\ at' = [at EXCEPT !.sample = @ + 1] /\ data' = data /\ query' = query
        /\ prevT' = data[at.series][at.sample].t
    BY <1>0, <1>1 DEF Scan, Scanning, Current
  <2>2. at'.series = at.series /\ at'.sample = at.sample + 1 BY <1>0, <2>1
  <2>3. at' \in [series : 1 .. Matching + 2, sample : Nat \ {0}] BY <1>0, <2>1
  <2>4. prevT' = data[at'.series][at'.sample - 1].t /\ at'.sample # 1
    <3>1. at'.sample - 1 = at.sample /\ at'.sample # 1 BY <1>0, <2>2
    <3>. QED BY <2>1, <2>2, <3>1
  <2>5. at'.sample <= Len(data[at'.series]) + 1 BY <1>0, <2>1, <2>2
  <2>6. Scanning' BY <1>0, <2>1, <2>2 DEF Scanning
  <2>. QED BY <2>1, <2>3, <2>4, <2>5, <2>6 DEF Typed
<1>2. CASE NextSeries
  <2>1. /\ at.series \in 1 .. Matching /\ data' = data /\ query' = query
        /\ at' = [series |-> at.series + 1, sample |-> 1] /\ prevT' = 0
    BY <1>0, <1>2 DEF NextSeries, Scanning
  <2>2. at'.series = at.series + 1 /\ at'.sample = 1 BY <2>1
  <2>3. at' \in [series : 1 .. Matching + 2, sample : Nat \ {0}] BY <1>0, <2>1
  <2>4. Scanning' => at'.sample <= Len(data[at'.series]) + 1
    BY <1>0, <2>1, <2>2 DEF Scanning
  <2>. QED BY <2>1, <2>2, <2>3, <2>4 DEF Typed
<1>3. CASE Answer
  <2>1. /\ at.series = Matching + 1 /\ data' = data /\ query' = query /\ prevT' = prevT
        /\ at' = [at EXCEPT !.series = @ + 1]
    BY <1>3 DEF Answer
  <2>2. at'.series = at.series + 1 /\ at'.sample = at.sample BY <1>0, <2>1
  <2>3. ~Scanning /\ ~Scanning' BY <1>0, <2>1, <2>2 DEF Scanning
  <2>4. at.sample = 1 /\ prevT = 0 BY <2>3 DEF Typed
  <2>5. at' \in [series : 1 .. Matching + 2, sample : Nat \ {0}] BY <1>0, <2>1
  <2>. QED BY <2>1, <2>2, <2>3, <2>4, <2>5 DEF Typed
<1>4. CASE UNCHANGED vars
  BY <1>4 DEF Typed, vars, Scanning
<1>. QED BY <1>1, <1>2, <1>3, <1>4 DEF Next

(* What is scanned so far after a step. *)
LEMMA DoneStep ==
  ASSUME Typed, [Next]_vars
  PROVE  /\ data' = data /\ query' = query /\ Points' = Points
         /\ Scan => Done' = Done \cup {<<at.series, at.sample>>}
         /\ ~Scan => Done' = Done
<1>0. /\ Matching \in Nat /\ at.series \in 1 .. Matching + 2 /\ at.sample \in Nat \ {0}
      /\ at \in [series : 1 .. Matching + 2, sample : Nat \ {0}]
      /\ data \in [1 .. Matching -> Samples]
  BY QueryAssumption DEF Typed
<1>1. data' = data /\ query' = query BY DEF Next, Scan, NextSeries, Answer, vars
<1>2. Points' = Points BY <1>1 DEF Points
<1>3. \A x \in Points : x[1] \in 1 .. Matching /\ x[2] \in 1 .. Len(data[x[1]])
                        /\ x = <<x[1], x[2]>> /\ Len(data[x[1]]) \in Nat
  BY <1>0, PointValues
<1>4. CASE Scan
  <2>1. /\ Scanning /\ at.sample <= Len(data[at.series])
        /\ at'.series = at.series /\ at'.sample = at.sample + 1
    BY <1>0, <1>4 DEF Scan
  <2>2. <<at.series, at.sample>> \in Points BY <2>1, NextSample
  <2>3. ASSUME NEW x \in Points
        PROVE  x \in Done' <=> x \in Done \/ x = <<at.series, at.sample>>
    <3>1. /\ x \in Done <=> (x[1] < at.series \/ (x[1] = at.series /\ x[2] < at.sample))
          /\ x \in Done' <=> (x[1] < at.series \/ (x[1] = at.series /\ x[2] < at.sample + 1))
      BY <1>2, <2>1 DEF Done
    <3>2. x = <<at.series, at.sample>> <=> x[1] = at.series /\ x[2] = at.sample BY <1>3
    <3>3. x[1] \in Int /\ x[2] \in Int BY <1>3
    <3>. QED BY <1>0, <3>1, <3>2, <3>3
  <2>4. Done \subseteq Points /\ Done' \subseteq Points BY <1>2 DEF Done
  <2>. QED BY <1>1, <1>2, <1>4, <2>2, <2>3, <2>4
<1>5. CASE NextSeries
  <2>1. /\ at.series \in 1 .. Matching /\ at.sample > Len(data[at.series])
        /\ at'.series = at.series + 1 /\ at'.sample = 1
    BY <1>0, <1>5 DEF NextSeries, Scanning
  <2>2. ASSUME NEW x \in Points PROVE x \in Done' <=> x \in Done
    <3>1. /\ x \in Done <=> (x[1] < at.series \/ (x[1] = at.series /\ x[2] < at.sample))
          /\ x \in Done' <=> (x[1] < at.series + 1 \/ (x[1] = at.series + 1 /\ x[2] < 1))
      BY <1>2, <2>1 DEF Done
    <3>2. x[1] \in Int /\ x[2] \in Int /\ x[2] >= 1 BY <1>3
    <3>3. x[1] = at.series => x[2] < at.sample BY <1>0, <1>3, <2>1
    <3>. QED BY <1>0, <3>1, <3>2, <3>3
  <2>3. Done \subseteq Points /\ Done' \subseteq Points BY <1>2 DEF Done
  <2>4. ~Scan BY <1>0, <1>5, <2>1 DEF Scan
  <2>. QED BY <1>1, <1>2, <2>2, <2>3, <2>4
<1>6. CASE Answer
  <2>1. at.series = Matching + 1 /\ at'.series = Matching + 2 BY <1>0, <1>6 DEF Answer
  <2>2. Done = Points /\ Done' = Points BY <1>0, <1>2, <1>3, <2>1 DEF Done
  <2>3. ~Scan BY <1>0, <2>1 DEF Scan, Scanning
  <2>. QED BY <1>1, <1>2, <2>2, <2>3
<1>7. CASE UNCHANGED vars /\ ~Scan
  BY <1>1, <1>2, <1>7 DEF Done, vars
<1>. QED BY <1>4, <1>5, <1>6, <1>7 DEF Next

(* In the end all are scanned. *)
LEMMA AllScanned ==
  ASSUME Typed, at.series > Matching
  PROVE  Done = Points
<1>1. Matching \in Nat /\ at.series \in Nat BY QueryAssumption DEF Typed
<1>2. \A x \in Points : x[1] \in 1 .. Matching BY PointValues DEF Typed
<1>. QED BY <1>1, <1>2 DEF Done

-----------------------------------------------------------------------------
(* The buckets *)

(* A sum of numbers with one of them set, or added. *)
LEMMA SumGathers ==
  ASSUME NEW f, NEW g, NEW y, IsFiniteSet(DOMAIN f), Numeric(f, DOMAIN f), g[y] \in Int,
         DOMAIN g = DOMAIN f \cup {y}, \A x \in DOMAIN f \ {y} : g[x] = f[x]
  PROVE  SumOf(g) = SumOf(f) + g[y] - (IF y \in DOMAIN f THEN f[y] ELSE 0)
<1>1. CASE y \in DOMAIN f
  <2>1. DOMAIN g = DOMAIN f BY <1>1
  <2>. QED BY <1>1, <2>1, SumChanges DEF SumOf
<1>2. CASE y \notin DOMAIN f
  <2>1. Numeric(g, DOMAIN f \cup {y}) BY <1>2 DEF Numeric
  <2>2. SumOf(g) = g[y] + SumFunctionOnSet(g, DOMAIN f) BY <1>2, <2>1, SumGrows DEF SumOf
  <2>3. SumFunctionOnSet(g, DOMAIN f) = SumOf(f) BY <1>2, SumsEqual DEF SumOf
  <2>4. SumOf(f) \in Int BY SumSplits DEF SumOf
  <2>. QED BY <1>2, <2>2, <2>3, <2>4
<1>. QED BY <1>1, <1>2

(* The samples scanned that belong in a bucket. *)
In(k) == {x \in Done : Bucket(x) = k}

(* What a bucket says of them. *)
Summary(b, k) ==
  /\ b \in [sum : Int, count : Nat \ {0}, min : Int, max : Int]
  /\ b.count = Cardinality(In(k))
  /\ {b.min, b.max} \subseteq {P(x).v : x \in In(k)}
  /\ query.function # "integral" => b.min * b.count <= b.sum /\ b.sum <= b.max * b.count

(* What each sample adds, and the totals of all the buckets. *)
Parts == [x \in Points |-> Part(x)]
Sum == SumOf([k \in DOMAIN buckets |-> buckets[k].sum])
Count == SumOf([k \in DOMAIN buckets |-> buckets[k].count])

(* The buckets hold exactly what was scanned; raw points need none. *)
Gathered ==
  IF query.step > 0
    THEN /\ \A k \in DOMAIN buckets : Summary(buckets[k], k)
         /\ DOMAIN buckets = {Bucket(x) : x \in Done}
         /\ Count = Cardinality(Done) /\ Sum = SumFunctionOnSet(Parts, Done)
    ELSE DOMAIN buckets = {}

(* Parts are numbers. *)
LEMMA PartsNumeric ==
  ASSUME Typed
  PROVE  \A x \in Points : Part(x) \in Int /\ Gap(x) \in Int /\ Gap(x) > 0
<1>. SUFFICES ASSUME NEW x \in Points PROVE Part(x) \in Int /\ Gap(x) \in Int /\ Gap(x) > 0
  OBVIOUS
<1>1. data \in [1 .. Matching -> Samples] BY DEF Typed
<1>2. /\ x[1] \in 1 .. Matching /\ x[2] \in 1 .. Len(data[x[1]])
      /\ data[x[1]] \in Seq([t : Nat \ {0}, v : Int])
      /\ Len(data[x[1]]) \in Nat /\ P(x).t \in Nat \ {0} /\ P(x).v \in Int
  BY <1>1, PointValues
<1>3. Gap(x) \in Int /\ Gap(x) > 0
  <2>1. CASE x[2] = 1 BY <1>2, <2>1 DEF Gap
  <2>2. CASE x[2] # 1
    <3> DEFINE s == data[x[1]]
               i == x[2]
    <3>1. /\ i \in 1 .. Len(s) /\ i # 1 /\ Len(s) \in Nat
          /\ s \in Samples /\ s \in Seq([t : Nat \ {0}, v : Int]) /\ s[i].t \in Nat \ {0}
      BY <1>1, <1>2, <2>2 DEF P
    <3>2. Gap(x) = s[i].t - s[i - 1].t BY <2>2 DEF Gap, P
    <3>. HIDE DEF s, i
    <3>3. i - 1 \in 1 .. Len(s) /\ i - 1 < i BY <3>1
    <3>4. s[i - 1] \in [t : Nat \ {0}, v : Int] BY <3>1, <3>3, Member
    <3>5. DOMAIN s = 1 .. Len(s) BY <3>1
    <3>6. s[i - 1].t < s[i].t BY <3>1, <3>3, <3>5, QueryAssumption
    <3>. QED BY <3>1, <3>2, <3>4, <3>6
  <2>. QED BY <2>1, <2>2
<1>4. Seconds(Gap(x)) \in Int BY <1>3, Quotient, QueryAssumption DEF Seconds
<1>5. Part(x) \in Int
  <2> DEFINE dt == Seconds(Gap(x))
  <2>1. P(x).v * dt \in Int BY <1>2, <1>4
  <2>. HIDE DEF dt
  <2>. QED BY <1>2, <2>1 DEF Part, dt
<1>. QED BY <1>3, <1>5

(* A sample is gathered in its bucket. *)
LEMMA GatherKeeps ==
  ASSUME NEW b, b \in [sum : Int, count : Nat, min : Int, max : Int],
         NEW p, p.v \in Int, Share(p) \in Int,
         query.function # "integral" =>
           Share(p) = p.v /\ b.min * b.count <= b.sum /\ b.sum <= b.max * b.count
  PROVE  LET c == Gather(b, p)
         IN  /\ c \in [sum : Int, count : Nat \ {0}, min : Int, max : Int]
             /\ c.sum = b.sum + Share(p) /\ c.count = b.count + 1
             /\ c.min \in {b.min, p.v} /\ c.max \in {b.max, p.v}
             /\ query.function # "integral" =>
                  c.min * c.count <= c.sum /\ c.sum <= c.max * c.count
<1> DEFINE c == Gather(b, p)
           least == IF p.v < b.min THEN p.v ELSE b.min
           most == IF p.v > b.max THEN p.v ELSE b.max
           n == b.count
<1>0. b.sum \in Int /\ n \in Nat /\ b.min \in Int /\ b.max \in Int OBVIOUS
<1>1. c.sum = b.sum + Share(p) /\ c.count = n + 1 /\ c.min = least /\ c.max = most
  BY DEF Gather
<1>2. /\ least \in Int /\ least <= b.min /\ least <= p.v /\ least \in {b.min, p.v}
      /\ most \in Int /\ b.max <= most /\ p.v <= most /\ most \in {b.max, p.v}
  BY <1>0
<1>3. c \in [sum : Int, count : Nat \ {0}, min : Int, max : Int] BY <1>0, <1>2 DEF Gather
<1>. HIDE DEF least, most, c, n
<1>4. ASSUME query.function # "integral"
      PROVE  c.min * c.count <= c.sum /\ c.sum <= c.max * c.count
  <2>1. least * n <= b.min * n /\ b.max * n <= most * n BY <1>0, <1>2, Products
  <2>2. b.min * n <= b.sum /\ b.sum <= b.max * n BY <1>4 DEF n
  <2>3. least * (n + 1) = least * n + least /\ most * (n + 1) = most * n + most
    BY <1>0, <1>2
  <2>4. least * n \in Int /\ most * n \in Int /\ b.min * n \in Int /\ b.max * n \in Int
    BY <1>0, <1>2
  <2>5. least * (n + 1) <= b.sum + p.v /\ b.sum + p.v <= most * (n + 1)
    BY <1>0, <1>2, <2>1, <2>2, <2>3, <2>4
  <2>. QED BY <1>1, <1>4, <2>5
<1>. QED BY <1>1, <1>2, <1>3, <1>4 DEF c, n

(* A sample is where and what it is. *)
LEMMA SamplesStay ==
  ASSUME data' = data, query' = query
  PROVE  /\ \A y : Bucket(y)' = Bucket(y) /\ P(y)' = P(y) /\ Part(y)' = Part(y)
         /\ Points' = Points /\ Parts' = Parts
<1>1. \A y : Bucket(y)' = Bucket(y) /\ P(y)' = P(y) /\ Part(y)' = Part(y)
  BY DEF Bucket, Second, BucketOf, P, Seconds, Part, Gap
<1>2. Points' = Points BY DEF Points
<1>3. Parts' = [y \in Points' |-> Part(y)'] BY DEF Parts
<1>4. Parts' = Parts BY <1>1, <1>2, <1>3 DEF Parts
<1>. QED BY <1>1, <1>2, <1>4

(* The step of a scan, when buckets are asked for. *)
LEMMA ScanGathers ==
  ASSUME Typed, Gathered, Scan, query.step > 0
  PROVE  Gathered'
<1> DEFINE x == <<at.series, at.sample>>
           start == Bucket(x)
           b == IF start \in DOMAIN buckets THEN buckets[start] ELSE NewBucket(P(x).v)
           c == Gather(b, P(x))
<1>0. /\ query \in [step : Steps, function : Aggregates, zone : Zones]
      /\ query.step \in Nat \ {0} /\ query.zone \in Zones
      /\ data \in [1 .. Matching -> Samples]
  <2>1. /\ query \in [step : Steps, function : Aggregates, zone : Zones]
        /\ data \in [1 .. Matching -> Samples]
    BY DEF Typed
  <2>2. query.step \in Nat /\ query.zone \in Zones BY <2>1, QueryAssumption
  <2>. QED BY <2>1, <2>2
<1>1. x \in Points /\ x \notin Done /\ Current = P(x) /\ Share(P(x)) = Part(x)
  BY NextSample DEF Scan
<1>2. data' = data /\ query' = query /\ Points' = Points /\ Done' = Done \cup {x}
  BY DoneStep DEF Next
<1>3. /\ \A y : Bucket(y)' = Bucket(y) /\ P(y)' = P(y) /\ Part(y)' = Part(y)
      /\ Parts' = Parts
  BY <1>2, SamplesStay
<1>4. buckets' = [k \in DOMAIN buckets \cup {start} |->
                    IF k = start THEN c ELSE buckets[k]]
  BY <1>1 DEF Scan, Bucket, Second
<1>5. P(x).v \in Int /\ Part(x) \in Int BY <1>0, <1>1, PointValues, PartsNumeric
<1>6. IsFiniteSet(Done) /\ Done \subseteq Points /\ \A k : IsFiniteSet(In(k))
  BY <1>0, PointsFinite, FS_Subset DEF Done, In
<1>7. /\ \A k \in DOMAIN buckets : Summary(buckets[k], k)
      /\ DOMAIN buckets = {Bucket(y) : y \in Done}
      /\ Count = Cardinality(Done) /\ Sum = SumFunctionOnSet(Parts, Done)
  BY DEF Gathered
<1>8. \A k : In(k)' = IF k = start THEN In(k) \cup {x} ELSE In(k)
  <2>. SUFFICES ASSUME NEW k PROVE In(k)' = IF k = start THEN In(k) \cup {x} ELSE In(k)
    OBVIOUS
  <2>1. In(k)' = {y \in Done \cup {x} : Bucket(y) = k} BY <1>2, <1>3 DEF In
  <2>. QED BY <2>1 DEF In
<1>9. /\ b \in [sum : Int, count : Nat, min : Int, max : Int]
      /\ b.count = Cardinality(In(start))
      /\ {b.min, b.max} \subseteq {P(y).v : y \in In(start) \cup {x}}
      /\ query.function # "integral" => b.min * b.count <= b.sum /\ b.sum <= b.max * b.count
      /\ start \notin DOMAIN buckets => b.sum = 0 /\ b.count = 0
  <2>1. CASE start \in DOMAIN buckets
    <3>1. Summary(buckets[start], start) /\ b = buckets[start] BY <1>7, <2>1
    <3>. HIDE DEF b
    <3>. QED BY <2>1, <3>1 DEF Summary
  <2>2. CASE start \notin DOMAIN buckets
    <3>1. In(start) = {} BY <1>7, <2>2 DEF In
    <3>2. Cardinality(In(start)) = 0 BY <3>1, FS_EmptySet
    <3>3. b = [sum |-> 0, count |-> 0, min |-> P(x).v, max |-> P(x).v]
      BY <2>2 DEF NewBucket
    <3>. HIDE DEF b
    <3>. QED BY <1>5, <2>2, <3>2, <3>3
  <2>. QED BY <2>1, <2>2
<1>10. /\ c \in [sum : Int, count : Nat \ {0}, min : Int, max : Int]
       /\ c.sum = b.sum + Part(x) /\ c.count = b.count + 1
       /\ c.min \in {b.min, P(x).v} /\ c.max \in {b.max, P(x).v}
       /\ query.function # "integral" => c.min * c.count <= c.sum /\ c.sum <= c.max * c.count
  <2>1. query.function # "integral" => Share(P(x)) = P(x).v BY DEF Share
  <2>. HIDE DEF b
  <2>. QED BY <1>1, <1>5, <1>9, <2>1, GatherKeeps
<1>11. start \in Int BY <1>0, <1>1, InSpan
<1>. HIDE DEF b, c, start
<1>12. DOMAIN buckets' = {Bucket(y)' : y \in Done'}
  <2>1. {Bucket(y)' : y \in Done'} = {Bucket(y) : y \in Done \cup {x}} BY <1>2, <1>3
  <2>2. DOMAIN buckets' = DOMAIN buckets \cup {start} BY <1>4
  <2>. QED BY <1>7, <2>1, <2>2 DEF start
<1>13. ASSUME NEW k \in DOMAIN buckets' PROVE Summary(buckets[k], k)'
  <2>1. CASE k = start
    <3>1. buckets'[k] = c BY <1>4, <2>1
    <3>2. In(k)' = In(start) \cup {x} BY <1>8, <2>1
    <3>3. c.count = Cardinality(In(start) \cup {x})
      <4>1. x \notin In(start) BY <1>1 DEF In
      <4>2. Cardinality(In(start) \cup {x}) = Cardinality(In(start)) + 1
        BY <1>6, <4>1, FS_AddElement
      <4>. QED BY <1>9, <1>10, <4>2
    <3>4. {P(y)'.v : y \in In(k)'} = {P(y).v : y \in In(start) \cup {x}} BY <1>3, <3>2
    <3>5. {c.min, c.max} \subseteq {P(y).v : y \in In(start) \cup {x}}
      <4>1. P(x).v \in {P(y).v : y \in In(start) \cup {x}} OBVIOUS
      <4>. QED BY <1>9, <1>10, <4>1
    <3>. QED BY <1>2, <1>10, <3>1, <3>2, <3>3, <3>4, <3>5 DEF Summary
  <2>2. CASE k # start
    <3>1. buckets'[k] = buckets[k] /\ k \in DOMAIN buckets BY <1>4, <2>2
    <3>2. In(k)' = In(k) BY <1>8, <2>2
    <3>3. {P(y)'.v : y \in In(k)'} = {P(y).v : y \in In(k)} BY <1>3, <3>2
    <3>. QED BY <1>2, <1>7, <3>1, <3>2, <3>3 DEF Summary
  <2>. QED BY <2>1, <2>2
<1>14. IsFiniteSet(DOMAIN buckets)
  <2>1. [y \in Done |-> Bucket(y)] \in Surjection(Done, DOMAIN buckets) BY <1>7 DEF Surjection
  <2>. QED BY <1>6, <2>1, FS_Surjection
<1>15. \A k \in DOMAIN buckets :
         buckets[k] \in [sum : Int, count : Nat \ {0}, min : Int, max : Int]
  BY <1>7 DEF Summary
<1>16. Count' = Cardinality(Done')
  <2> DEFINE f == [k \in DOMAIN buckets |-> buckets[k].count]
             g == [k \in DOMAIN buckets' |-> buckets'[k].count]
  <2>1. Numeric(f, DOMAIN f) BY <1>15 DEF Numeric
  <2>2. g[start] = c.count /\ c.count \in Int /\ DOMAIN g = DOMAIN f \cup {start}
    BY <1>4, <1>10
  <2>3. \A k \in DOMAIN f \ {start} : g[k] = f[k] BY <1>4
  <2>4. IsFiniteSet(DOMAIN f) BY <1>14
  <2>5. Count = SumOf(f) /\ Count' = SumOf(g) BY DEF Count, SumOf
  <2>6. (IF start \in DOMAIN f THEN f[start] ELSE 0) = b.count
    BY <1>9 DEF b
  <2>. HIDE DEF f, g
  <2>7. SumOf(g) = SumOf(f) + g[start] - (IF start \in DOMAIN f THEN f[start] ELSE 0)
    <3>1. g[start] \in Int /\ DOMAIN g = DOMAIN f \cup {start} BY <2>2
    <3>. HIDE DEF start
    <3>. QED BY <2>1, <2>3, <2>4, <3>1, SumGathers
  <2>8. Cardinality(Done') = Cardinality(Done) + 1 /\ Cardinality(Done) \in Nat
    BY <1>1, <1>2, <1>6, FS_AddElement, FS_CardinalityType
  <2>9. b.count \in Nat /\ c.count = b.count + 1 BY <1>9, <1>10
  <2>10. SumOf(f) = Cardinality(Done) BY <1>7, <2>5
  <2>11. SumOf(g) = Cardinality(Done) + (b.count + 1) - b.count
    BY <2>2, <2>6, <2>7, <2>9, <2>10
  <2>. QED BY <2>5, <2>8, <2>9, <2>11
<1>17. Sum' = SumFunctionOnSet(Parts', Done')
  <2> DEFINE f == [k \in DOMAIN buckets |-> buckets[k].sum]
             g == [k \in DOMAIN buckets' |-> buckets'[k].sum]
  <2>1. Numeric(f, DOMAIN f) BY <1>15 DEF Numeric
  <2>2. g[start] = c.sum /\ c.sum \in Int /\ DOMAIN g = DOMAIN f \cup {start}
    BY <1>4, <1>10
  <2>3. \A k \in DOMAIN f \ {start} : g[k] = f[k] BY <1>4
  <2>4. IsFiniteSet(DOMAIN f) BY <1>14
  <2>5. Sum = SumOf(f) /\ Sum' = SumOf(g) BY DEF Sum, SumOf
  <2>6. (IF start \in DOMAIN f THEN f[start] ELSE 0) = b.sum
    BY <1>9 DEF b
  <2>. HIDE DEF f, g
  <2>7. SumOf(g) = SumOf(f) + g[start] - (IF start \in DOMAIN f THEN f[start] ELSE 0)
    <3>1. g[start] \in Int /\ DOMAIN g = DOMAIN f \cup {start} BY <2>2
    <3>. HIDE DEF start
    <3>. QED BY <2>1, <2>3, <2>4, <3>1, SumGathers
  <2>8. Numeric(Parts, Done \cup {x}) /\ Parts[x] = Part(x)
    BY <1>1, <1>6, PartsNumeric DEF Numeric, Parts
  <2>9. /\ SumFunctionOnSet(Parts, Done \cup {x}) = Parts[x] + SumFunctionOnSet(Parts, Done)
        /\ SumFunctionOnSet(Parts, Done) \in Int
    BY <1>1, <1>6, <2>8, SumGrows, SumSplits DEF Numeric
  <2>10. b.sum \in Int /\ c.sum = b.sum + Part(x) BY <1>9, <1>10
  <2>. QED BY <1>2, <1>3, <1>5, <1>7, <2>2, <2>5, <2>6, <2>7, <2>8, <2>9, <2>10
<1>. QED BY <1>2, <1>12, <1>13, <1>16, <1>17 DEF Gathered

(* Every other step leaves the buckets alone. *)
LEMMA GatheredStep ==
  ASSUME Typed, Gathered, [Next]_vars
  PROVE  Gathered'
<1>1. data' = data /\ query' = query BY DoneStep
<1>2. /\ \A y : Bucket(y)' = Bucket(y) /\ P(y)' = P(y) /\ Part(y)' = Part(y)
      /\ Parts' = Parts
  BY <1>1, SamplesStay
<1>3. ASSUME buckets' = buckets, Done' = Done PROVE Gathered'
  <2>1. \A k : In(k)' = In(k) BY <1>2, <1>3 DEF In
  <2>2. \A b, k : Summary(b, k)' <=> Summary(b', k)
    <3>. SUFFICES ASSUME NEW b, NEW k PROVE Summary(b, k)' <=> Summary(b', k) OBVIOUS
    <3>1. {P(x)'.v : x \in In(k)'} = {P(x).v : x \in In(k)} BY <1>2, <2>1
    <3>. QED BY <1>1, <2>1, <3>1 DEF Summary
  <2>3. Count' = Count /\ Sum' = Sum BY <1>3 DEF Count, Sum, SumOf
  <2>4. {Bucket(x)' : x \in Done'} = {Bucket(x) : x \in Done} BY <1>2, <1>3
  <2>. QED BY <1>1, <1>2, <1>3, <2>2, <2>3, <2>4 DEF Gathered
<1>4. CASE Scan
  <2>1. CASE query.step > 0 BY <1>4, <2>1, ScanGathers
  <2>2. CASE ~(query.step > 0)
    <3>1. buckets' = buckets BY <1>4, <2>2 DEF Scan
    <3>. QED BY <1>1, <2>2, <3>1 DEF Gathered
  <2>. QED BY <2>1, <2>2
<1>5. CASE ~Scan
  <2>1. Done' = Done BY <1>5, DoneStep
  <2>2. buckets' = buckets BY <1>5 DEF Next, NextSeries, Answer, vars
  <2>. QED BY <1>3, <2>1, <2>2
<1>. QED BY <1>4, <1>5

-----------------------------------------------------------------------------
(* The answer *)

(* A raw point. *)
Raw == [t : Int, v : Int, over : {1}]

(* The points of the buckets. *)
BucketPoints == [k \in DOMAIN buckets |-> PointOf(k)]

(* All the points, each once, and none after a later one. *)
Ordered(points, r) ==
  \E f \in Bijection(1 .. Cardinality(DOMAIN points), DOMAIN points) :
    /\ r = [n \in 1 .. Cardinality(DOMAIN points) |-> points[f[n]]]
    /\ \A m, n \in 1 .. Cardinality(DOMAIN points) :
         m < n => ~Before(points[f[n]], points[f[m]])

(* Raw points gather in the answer itself; in the end it is sorted. *)
Returned ==
  CASE ~Answered /\ query.step > 0 -> results = <<>>
    [] ~Answered /\ ~(query.step > 0) ->
         results \in Seq(Raw) /\ Len(results) = Cardinality(Done)
    [] Answered /\ query.step > 0 -> Ordered(BucketPoints, results)
    [] Answered /\ ~(query.step > 0) ->
         \E s \in Seq(Raw) : Len(s) = Cardinality(Done) /\ Ordered(s, results)

(* The points of the buckets can be sorted. *)
LEMMA BucketsComparable ==
  ASSUME Typed, Gathered, query.step > 0
  PROVE  /\ Comparable(BucketPoints) /\ IsFiniteSet(DOMAIN buckets)
         /\ \A k \in DOMAIN buckets :
              /\ PointOf(k).t = k
              /\ query.function = "integral" => PointOf(k).v = buckets[k].sum
<1>1. IsFiniteSet(DOMAIN buckets) /\ DOMAIN buckets \in SUBSET Int
  <2>1. DOMAIN buckets = {Bucket(x) : x \in Done} BY DEF Gathered
  <2>2. [x \in Done |-> Bucket(x)] \in Surjection(Done, DOMAIN buckets)
    BY <2>1 DEF Surjection
  <2>3. data \in [1 .. Matching -> Samples] /\ Done \subseteq Points BY DEF Typed, Done
  <2>4. IsFiniteSet(Done) BY <2>3, PointsFinite, FS_Subset
  <2>5. query.zone \in Zones /\ query.step \in Steps BY DEF Typed
  <2>6. query.step \in Nat \ {0}
    <3>1. query.step \in Nat BY <2>5, QueryAssumption
    <3>. QED BY <3>1
  <2>7. \A x \in Done : Bucket(x) \in Int BY <2>3, <2>5, <2>6, InSpan
  <2>. QED BY <2>1, <2>2, <2>4, <2>7, FS_Surjection
<1>2. ASSUME NEW k \in DOMAIN buckets
      PROVE  /\ PointOf(k).t = k /\ PointOf(k).v \in Int
             /\ query.function = "integral" => PointOf(k).v = buckets[k].sum
  <2>1. /\ buckets[k].sum \in Int /\ buckets[k].min \in Int /\ buckets[k].max \in Int
    BY DEF Gathered, Summary
  <2>2. query.function \in {"sum", "integral", "min", "max", "delta", "avg"}
    <3>1. query.function \in Aggregates BY DEF Typed
    <3>. QED BY <3>1, QueryAssumption
  <2>. QED BY <2>1, <2>2 DEF PointOf
<1>. QED BY <1>1, <1>2 DEF Comparable, BucketPoints

(* The answer follows what was gathered. *)
LEMMA ReturnedStep ==
  ASSUME Typed, Gathered, Returned, [Next]_vars
  PROVE  Returned'
<1>1. data' = data /\ query' = query BY DoneStep
<1>2. Matching \in Nat /\ at \in [series : 1 .. Matching + 2, sample : Nat \ {0}]
  BY QueryAssumption DEF Typed
<1>3. CASE Scan
  <2>1. ~Answered /\ ~Answered' BY <1>2, <1>3 DEF Scan, Scanning, Answered
  <2>2. CASE query.step > 0
    BY <1>1, <1>3, <2>1, <2>2 DEF Scan, Returned
  <2>3. CASE ~(query.step > 0)
    <3> DEFINE x == <<at.series, at.sample>>
               new == [t |-> Seconds(Current.t), v |-> Current.v, over |-> 1]
    <3>1. x \in Points /\ x \notin Done /\ Current = P(x) BY <1>3, NextSample DEF Scan
    <3>2. data \in [1 .. Matching -> Samples] /\ Done \subseteq Points BY DEF Typed, Done
    <3>3. Done' = Done \cup {x} BY <1>3, DoneStep
    <3>4. IsFiniteSet(Done) BY <3>2, PointsFinite, FS_Subset
    <3>5. Cardinality(Done') = Cardinality(Done) + 1 BY <3>1, <3>3, <3>4, FS_AddElement
    <3>6. new \in Raw BY <3>1, <3>2, PointValues DEF Raw
    <3>7. results' = Append(results, new) BY <1>3, <2>3 DEF Scan
    <3>8. results \in Seq(Raw) /\ Len(results) = Cardinality(Done) BY <2>1, <2>3 DEF Returned
    <3>. HIDE DEF new
    <3>9. results' \in Seq(Raw) /\ Len(results') = Cardinality(Done')
      BY <3>5, <3>6, <3>7, <3>8
    <3>. QED BY <1>1, <2>1, <2>3, <3>9 DEF Returned
  <2>. QED BY <2>2, <2>3
<1>4. CASE NextSeries \/ UNCHANGED vars
  <2>1. Answered' <=> Answered
    BY <1>2, <1>4 DEF NextSeries, Scanning, Answered, vars
  <2>2. Done' = Done
    <3>1. ~Scan \/ UNCHANGED vars BY <1>2, <1>4 DEF NextSeries, Scan
    <3>. QED BY <1>4, <3>1, DoneStep DEF Done, vars, Points
  <2>3. results' = results /\ buckets' = buckets BY <1>4 DEF NextSeries, vars
  <2>4. BucketPoints' = BucketPoints BY <1>1, <2>3 DEF BucketPoints, PointOf
  <2>. QED BY <1>1, <2>1, <2>2, <2>3, <2>4 DEF Returned, Ordered
<1>5. CASE Answer
  <2>1. ~Answered /\ Answered' /\ ~Scan
    BY <1>2, <1>5 DEF Answer, Answered, Scan, Scanning
  <2>2. buckets' = buckets /\ Done' = Done BY <1>5, <2>1, DoneStep DEF Answer
  <2>3. CASE query.step > 0
    <3>1. results' = Sorted(BucketPoints) BY <1>5, <2>3 DEF Answer, BucketPoints
    <3>2. Ordered(BucketPoints, results')
      BY <2>3, <3>1, BucketsComparable, Sorts DEF Ordered
    <3>3. BucketPoints' = BucketPoints BY <1>1, <2>2 DEF BucketPoints, PointOf
    <3>. QED BY <1>1, <2>1, <2>3, <3>2, <3>3 DEF Returned
  <2>4. CASE ~(query.step > 0)
    <3>1. results \in Seq(Raw) /\ Len(results) = Cardinality(Done)
      BY <2>1, <2>4 DEF Returned
    <3>2. results' = Sorted(results) BY <1>5, <2>4 DEF Answer
    <3>3. DOMAIN results = 1 .. Len(results) /\ Len(results) \in Nat BY <3>1
    <3>4. \A i \in DOMAIN results : results[i] \in Raw BY <3>1, <3>3, Member
    <3>5. Comparable(results)
      <4>1. IsFiniteSet(DOMAIN results) BY <3>3, FS_Interval
      <4>. QED BY <3>3, <3>4, <4>1 DEF Comparable, Raw
    <3>6. Ordered(results, results') BY <3>2, <3>5, Sorts DEF Ordered
    <3>. QED BY <1>1, <2>1, <2>2, <2>4, <3>1, <3>6 DEF Returned
  <2>. QED BY <2>3, <2>4
<1>. QED BY <1>3, <1>4, <1>5 DEF Next

-----------------------------------------------------------------------------
(* The theorems *)

(* The inductive invariant of all of them: the scan is somewhere in the      *)
(* series, what it has passed is in the buckets, and only that is answered.  *)
QueryInv == Typed /\ Gathered /\ Returned

(* Nothing is scanned at first. *)
LEMMA QueryStart == Init => QueryInv
<1>. SUFFICES ASSUME Init PROVE QueryInv OBVIOUS
<1>1. /\ data \in [1 .. Matching -> Samples] /\ Matching \in Nat
      /\ query \in [step : Steps, function : Aggregates, zone : Zones]
      /\ at = [series |-> 1, sample |-> 1] /\ prevT = 0 /\ buckets = <<>> /\ results = <<>>
  BY QueryAssumption DEF Init
<1>2. Typed
  <2>1. at \in [series : 1 .. Matching + 2, sample : Nat \ {0}] BY <1>1
  <2>2. Scanning => at.sample <= Len(data[at.series]) + 1
    <3>1. \A s \in 1 .. Matching : Len(data[s]) \in Nat
      <4>1. \A s \in 1 .. Matching : data[s] \in Seq([t : Nat \ {0}, v : Int])
        BY <1>1, QueryAssumption
      <4>. QED BY <4>1
    <3>. QED BY <1>1, <3>1 DEF Scanning
  <2>. QED BY <1>1, <2>1, <2>2 DEF Typed
<1>3. Done = {}
  <2>1. \A x \in Points : x[1] \in 1 .. Matching /\ x[2] \in 1 .. Len(data[x[1]])
    BY <1>1, PointValues
  <2>2. \A x \in Points : ~(x[1] < 1) /\ ~(x[2] < 1) BY <2>1
  <2>. QED BY <1>1, <2>2 DEF Done
<1>4. Cardinality(Done) = 0 BY <1>3, FS_EmptySet
<1>5. DOMAIN buckets = {} BY <1>1
<1>6. Gathered
  <2>1. Count = 0 /\ Sum = 0 BY <1>5, SumOfNone DEF Count, Sum, SumOf
  <2>2. SumFunctionOnSet(Parts, Done) = 0 BY <1>3, SumOfNone
  <2>. QED BY <1>3, <1>4, <1>5, <2>1, <2>2 DEF Gathered
<1>7. Returned
  <2>1. ~Answered BY <1>1 DEF Answered
  <2>2. results \in Seq(Raw) /\ Len(results) = 0 BY <1>1
  <2>. QED BY <1>1, <1>4, <2>1, <2>2 DEF Returned
<1>. QED BY <1>2, <1>6, <1>7 DEF QueryInv

(* The invariant. *)
LEMMA QueryInvariant == Spec => []QueryInv
<1>1. QueryInv /\ [Next]_vars => QueryInv'
  BY TypedStep, GatheredStep, ReturnedStep DEF QueryInv
<1>. QED BY <1>1, QueryStart, PTL DEF Spec

(* The position, the time before and the buckets have their types.           *)
THEOREM TypeCorrect == Spec => []TypeOK
<1>1. QueryInv => TypeOK
  <2>. SUFFICES ASSUME QueryInv PROVE TypeOK OBVIOUS
  <2>1. Typed /\ Gathered BY DEF QueryInv
  <2>2. at.series \in 1 .. Matching + 2 /\ at.sample \in Nat \ {0} BY <2>1 DEF Typed
  <2>3. prevT \in Nat /\ (at.sample = 1 <=> prevT = 0)
    <3>1. CASE at.sample = 1 BY <2>1, <3>1 DEF Typed
    <3>2. CASE at.sample # 1
      <4>1. /\ prevT = data[at.series][at.sample - 1].t /\ at.sample - 1 \in Nat \ {0}
            /\ Scanning /\ at.sample <= Len(data[at.series]) + 1
        BY <2>1, <2>2, <3>2 DEF Typed
      <4>2. at.series \in 1 .. Matching /\ data \in [1 .. Matching -> Samples]
        BY <2>1, <2>2, <4>1, QueryAssumption DEF Typed, Scanning
      <4> DEFINE s == data[at.series]
                 i == at.sample - 1
      <4>3. s \in Seq([t : Nat \ {0}, v : Int]) BY <4>2, QueryAssumption
      <4>4. Len(s) \in Nat /\ at.sample <= Len(s) + 1 BY <4>1, <4>3
      <4>5. i \in 1 .. Len(s)
        <5>. HIDE DEF s
        <5>. QED BY <2>2, <4>1, <4>4
      <4>6. s[i] \in [t : Nat \ {0}, v : Int]
        <5>. HIDE DEF s, i
        <5>. QED BY <4>3, <4>5, Member
      <4>. QED BY <3>2, <4>1, <4>6
    <3>. QED BY <3>1, <3>2
  <2>4. ASSUME NEW k \in DOMAIN buckets
        PROVE  /\ {k, buckets[k].sum, buckets[k].min, buckets[k].max} \subseteq Int
               /\ buckets[k].count \in Nat \ {0}
    <3>1. query.step > 0 /\ Summary(buckets[k], k) BY <2>1 DEF Gathered
    <3>2. k \in Int BY <2>1, <3>1, BucketsComparable DEF Comparable, BucketPoints
    <3>. QED BY <3>1, <3>2 DEF Summary
  <2>. QED BY <2>2, <2>3, <2>4 DEF TypeOK
<1>. QED BY <1>1, QueryInvariant, PTL

(* The samples of a bucket are within its span, and all of them if the zone  *)
(* keeps its offset.                                                         *)
LEMMA BucketSpan ==
  ASSUME Typed, query.step > 0, NEW k
  PROVE  /\ In(k) \subseteq Within(k, k + query.step)
         /\ Done = Points /\ Constant(query.zone) /\ In(k) # {} =>
              In(k) = Within(k, k + query.step)
<1>1. data \in [1 .. Matching -> Samples] /\ query.zone \in Zones /\ query.step \in Steps
  BY DEF Typed
<1>2. query.step \in Nat BY <1>1, QueryAssumption
<1>3. query.step \in Nat \ {0} BY <1>2
<1>4. Done \subseteq Points BY DEF Done
<1>5. In(k) \subseteq Within(k, k + query.step) BY <1>1, <1>3, <1>4, InSpan DEF In
<1>6. ASSUME Done = Points, Constant(query.zone), NEW x \in In(k),
             NEW y \in Within(k, k + query.step)
      PROVE  y \in In(k)
  <2>1. x \in Points /\ y \in Points /\ Bucket(x) = k BY <1>4 DEF In, Within
  <2>2. Bucket(y) = k BY <1>1, <1>3, <1>6, <2>1, SpanInBucket
  <2>. QED BY <1>6, <2>1, <2>2 DEF In
<1>. QED BY <1>5, <1>6

(* What a bucket says of its samples is true, at every step of the scan.     *)
THEOREM BucketsTrue == Spec => []BucketsSummarise
<1>1. QueryInv => BucketsSummarise
  <2>. SUFFICES ASSUME QueryInv, NEW k \in DOMAIN buckets
                PROVE  LET b == buckets[k]
                           values == {P(x).v : x \in Within(k, k + query.step)}
                       IN  /\ {b.min, b.max} \subseteq values
                           /\ query.function # "integral" =>
                                b.min * b.count <= b.sum /\ b.sum <= b.max * b.count
    BY DEF BucketsSummarise
  <2>1. query.step > 0 /\ Typed /\ Summary(buckets[k], k) BY DEF QueryInv, Gathered
  <2>2. In(k) \subseteq Within(k, k + query.step) BY <2>1, BucketSpan
  <2>. QED BY <2>1, <2>2 DEF Summary
<1>. QED BY <1>1, QueryInvariant, PTL

(* Times of sorted points do not decrease. *)
LEMMA TimesInOrder ==
  ASSUME NEW points, Comparable(points), NEW r, Ordered(points, r)
  PROVE  /\ Len(r) = Cardinality(DOMAIN points) /\ DOMAIN r = 1 .. Len(r) /\ Len(r) \in Nat
         /\ \A i \in 1 .. Len(r) - 1 :
              \/ r[i].t < r[i + 1].t
              \/ \E j, k \in DOMAIN points : j # k /\ points[j].t = points[k].t
                                             /\ r[i].t = r[i + 1].t
<1> DEFINE c == Cardinality(DOMAIN points)
<1>1. PICK f \in Bijection(1 .. c, DOMAIN points) :
        /\ r = [n \in 1 .. c |-> points[f[n]]]
        /\ \A m, n \in 1 .. c : m < n => ~Before(points[f[n]], points[f[m]])
  BY DEF Ordered
<1>2. c \in Nat BY FS_CardinalityType DEF Comparable
<1>3. DOMAIN r = 1 .. c /\ Len(r) = c BY <1>1, <1>2
<1>. HIDE DEF c
<1>4. ASSUME NEW i \in 1 .. c - 1
      PROVE  \/ r[i].t < r[i + 1].t
             \/ \E j, k \in DOMAIN points : j # k /\ points[j].t = points[k].t
                                            /\ r[i].t = r[i + 1].t
  <2>1. i \in 1 .. c /\ i + 1 \in 1 .. c /\ i < i + 1 /\ i # i + 1 BY <1>2
  <2>2. r[i] = points[f[i]] /\ r[i + 1] = points[f[i + 1]] BY <1>1, <2>1
  <2>3. f[i] \in DOMAIN points /\ f[i + 1] \in DOMAIN points /\ f[i] # f[i + 1]
    BY <1>1, <2>1 DEF Bijection, Injection, IsInjective
  <2>4. ~Before(points[f[i + 1]], points[f[i]]) BY <1>1, <2>1
  <2>5. points[f[i]].t \in Int /\ points[f[i + 1]].t \in Int BY <2>3 DEF Comparable
  <2>6. points[f[i]].t <= points[f[i + 1]].t BY <2>4, <2>5 DEF Before
  <2>. QED BY <2>2, <2>3, <2>5, <2>6
<1>. QED BY <1>2, <1>3, <1>4 DEF c

(* No sample is lost, counted twice or shown at the wrong time, for any      *)
(* series, steps and zones.                                                  *)
THEOREM SamplesKept == Spec => []EverySampleInItsBucket
<1>1. QueryInv => EverySampleInItsBucket
  <2>. SUFFICES ASSUME QueryInv, Answered PROVE EverySampleInItsBucket
    BY DEF EverySampleInItsBucket
  <2>1. Typed /\ Gathered /\ Returned BY DEF QueryInv
  <2>2. /\ data \in [1 .. Matching -> Samples] /\ query.step \in Nat
        /\ at.series > Matching
    <3>1. data \in [1 .. Matching -> Samples] /\ query.step \in Steps BY <2>1 DEF Typed
    <3>2. query.step \in Nat BY <3>1, QueryAssumption
    <3>3. Matching \in Nat BY QueryAssumption
    <3>4. at.series > Matching BY <3>3 DEF Answered
    <3>. QED BY <3>1, <3>2, <3>4
  <2>3. Done = Points /\ IsFiniteSet(Points) BY <2>1, <2>2, AllScanned, PointsFinite
  <2>4. CASE query.step = 0
    <3>1. PICK s \in Seq(Raw) : Len(s) = Cardinality(Points) /\ Ordered(s, results)
      BY <2>1, <2>3, <2>4 DEF Returned
    <3>2. DOMAIN s = 1 .. Len(s) /\ Len(s) \in Nat /\ \A i \in 1 .. Len(s) : s[i] \in Raw
      BY <3>1, Member
    <3>3. IsFiniteSet(DOMAIN s) /\ Cardinality(DOMAIN s) = Len(s)
      <4> DEFINE n == Len(s)
      <4>1. n \in Nat /\ DOMAIN s = 1 .. n BY <3>2
      <4>. HIDE DEF n
      <4>2. IsFiniteSet(1 .. n) /\ Cardinality(1 .. n) = IF 1 > n THEN 0 ELSE n - 1 + 1
        BY <4>1, FS_Interval
      <4>3. Cardinality(1 .. n) = n BY <4>1, <4>2
      <4>. QED BY <4>1, <4>2, <4>3 DEF n
    <3>4. Comparable(s) BY <3>2, <3>3 DEF Comparable, Raw
    <3>5. /\ Len(results) = Cardinality(Points)
          /\ \A i \in 1 .. Len(results) - 1 :
               results[i].t < results[i + 1].t \/ results[i].t = results[i + 1].t
      BY <3>1, <3>3, <3>4, TimesInOrder
    <3>. QED BY <2>4, <3>5 DEF EverySampleInItsBucket
  <2>5. CASE query.step # 0
    <3>1. query.step > 0 BY <2>2, <2>5
    <3>2. Ordered(BucketPoints, results) BY <2>1, <3>1 DEF Returned
    <3>3. /\ Comparable(BucketPoints) /\ DOMAIN BucketPoints = DOMAIN buckets
          /\ \A k \in DOMAIN buckets : BucketPoints[k].t = k
      BY <2>1, <3>1, BucketsComparable DEF BucketPoints
    <3>4. \A i \in 1 .. Len(results) - 1 : results[i].t < results[i + 1].t
      BY <3>2, <3>3, TimesInOrder
    <3>5. SumOf([k \in DOMAIN buckets |-> buckets[k].count]) = Cardinality(Points)
      BY <2>1, <2>3, <3>1 DEF Gathered, Count
    <3>6. ASSUME NEW k \in DOMAIN buckets
          PROVE  LET span == Cardinality(Within(k, k + query.step))
                 IN  /\ buckets[k].count <= span
                     /\ Constant(query.zone) => buckets[k].count = span
      <4>1. buckets[k].count = Cardinality(In(k)) /\ In(k) # {}
        <5>1. Summary(buckets[k], k) BY <2>1, <3>1 DEF Gathered
        <5>. QED BY <5>1 DEF Summary
      <4>2. In(k) \subseteq Within(k, k + query.step) BY <2>1, <3>1, BucketSpan
      <4>3. Constant(query.zone) => In(k) = Within(k, k + query.step)
        BY <2>1, <2>3, <3>1, <4>1, BucketSpan
      <4>4. IsFiniteSet(Within(k, k + query.step)) BY <2>3, FS_Subset DEF Within
      <4>5. Cardinality(In(k)) <= Cardinality(Within(k, k + query.step))
        BY <4>2, <4>4, FS_Subset
      <4>. QED BY <4>1, <4>3, <4>5
    <3>. QED BY <2>5, <3>4, <3>5, <3>6 DEF EverySampleInItsBucket
  <2>. QED BY <2>4, <2>5
<1>. QED BY <1>1, QueryInvariant, PTL

-----------------------------------------------------------------------------
(* Energy *)

(* Of a gap in ticks less than a second is lost when it is rounded down.     *)
LEMMA Rounding ==
  ASSUME NEW v \in Int, NEW g \in Nat, NEW n \in Nat \ {0}
  PROVE  /\ -((n - 1) * Abs(v)) <= v * g - n * (v * (g \div n))
         /\ v * g - n * (v * (g \div n)) <= (n - 1) * Abs(v)
<1> DEFINE q == g \div n
           a == Abs(v)
<1>1. q \in Int /\ q * n <= g /\ g < q * n + n BY Quotient
<1>2. a \in Nat /\ v <= a /\ -a <= v BY DEF Abs
<1>. HIDE DEF q, a
<1> DEFINE r == g - q * n
<1>3. r \in Nat /\ r <= n - 1 /\ g = r + q * n BY <1>1
<1>. HIDE DEF r
<1>4. v * g - n * (v * q) = v * r
  <2>1. v * (r + q * n) = v * r + n * (v * q) BY <1>1, <1>3
  <2>2. v * r \in Int /\ n * (v * q) \in Int BY <1>1, <1>3
  <2>. QED BY <1>3, <2>1, <2>2
<1>5. v * r <= a * r /\ (-a) * r <= v * r BY <1>2, <1>3, Products
<1>6. r * a <= (n - 1) * a BY <1>2, <1>3, Products
<1>7. a * r = r * a /\ (-a) * r = -(r * a) /\ r * a \in Int /\ (n - 1) * a \in Int
      /\ v * r \in Int
  BY <1>2, <1>3
<1>8. v * r <= (n - 1) * a /\ -((n - 1) * a) <= v * r BY <1>5, <1>6, <1>7
<1>. QED BY <1>4, <1>8 DEF q, a

(* The part of a sample is its value over the whole seconds of its gap, for  *)
(* those that count, and nothing for the others.                             *)
LEMMA PartOfGap ==
  ASSUME Typed, query.function = "integral", NEW x \in Points
  PROVE  Part(x) = IF x[2] > 1 /\ Gap(x) < (MaxGap + 1) * TicksPerSecond
                     THEN P(x).v * (Gap(x) \div TicksPerSecond) ELSE 0
<1> DEFINE n == TicksPerSecond
           g == Gap(x)
           dt == g \div n
           v == P(x).v
           m == MaxGap + 1
<1>1. n \in Nat \ {0} /\ m \in Nat \ {0} BY QueryAssumption
<1>2. g \in Int /\ g > 0 /\ v \in Int BY PartsNumeric, PointValues DEF Typed
<1>3. Part(x) = IF x[2] > 1 /\ dt > 0 /\ dt < m THEN v * dt ELSE 0
  <2>1. Seconds(Gap(x)) = dt BY DEF Seconds
  <2>2. dt <= MaxGap <=> dt < m
    <3>1. dt \in Int /\ MaxGap \in Nat
      <4>. HIDE DEF n, g
      <4>. QED BY <1>1, <1>2, Quotient, QueryAssumption
    <3>. HIDE DEF dt
    <3>. QED BY <3>1
  <2>. QED BY <2>1, <2>2 DEF Part
<1>. HIDE DEF n, g, v, m
<1>4. dt \in Nat /\ dt * n <= g /\ g < dt * n + n BY <1>1, <1>2, Quotient
<1>. HIDE DEF dt
<1>5. dt * n \in Int /\ m * n \in Int BY <1>1, <1>4
<1>6. g < m * n => dt < m
  <2>. SUFFICES ASSUME m <= dt PROVE m * n <= g BY <1>1, <1>2, <1>4, <1>5
  <2>1. m * n <= dt * n BY <1>1, <1>4, Products
  <2>. QED BY <1>2, <1>4, <1>5, <2>1
<1>7. dt < m => g < m * n
  <2>. SUFFICES ASSUME dt + 1 <= m PROVE g < m * n BY <1>1, <1>4
  <2>1. (dt + 1) * n <= m * n BY <1>1, <1>4, Products
  <2>2. (dt + 1) * n = dt * n + n BY <1>1, <1>4
  <2>. QED BY <1>1, <1>2, <1>4, <1>5, <2>1, <2>2
<1>8. dt = 0 => v * dt = 0 BY <1>2
<1>9. Part(x) = IF x[2] > 1 /\ g < m * n THEN v * dt ELSE 0
  BY <1>3, <1>4, <1>6, <1>7, <1>8
<1>. QED BY <1>9 DEF n, g, v, m, dt

(* The values of an answer sum to the parts of all the samples.              *)
LEMMA AnswerSums ==
  ASSUME QueryInv, Answered, query.function = "integral", query.step > 0
  PROVE  SumOf([i \in DOMAIN results |-> results[i].v]) = SumFunctionOnSet(Parts, Points)
<1> DEFINE g == [i \in DOMAIN results |-> results[i].v]
           h == [k \in DOMAIN buckets |-> buckets[k].sum]
           c == Cardinality(DOMAIN buckets)
<1>1. Typed /\ Gathered /\ Returned BY DEF QueryInv
<1>2. Done = Points
  <2>1. Matching \in Nat BY QueryAssumption
  <2>2. at.series > Matching BY <2>1 DEF Answered
  <2>. QED BY <1>1, <2>2, AllScanned
<1>3. SumFunctionOnSet(h, DOMAIN buckets) = SumFunctionOnSet(Parts, Points)
  BY <1>1, <1>2 DEF Gathered, Sum, SumOf
<1>4. IsFiniteSet(DOMAIN buckets) /\ c \in Nat
  BY <1>1, BucketsComparable, FS_CardinalityType
<1>5. DOMAIN BucketPoints = DOMAIN buckets BY DEF BucketPoints
<1>6. PICK f \in Bijection(1 .. c, DOMAIN buckets) :
        results = [n \in 1 .. c |-> BucketPoints[f[n]]]
  BY <1>1, <1>5 DEF Returned, Ordered
<1>7. \A n \in 1 .. c : f[n] \in DOMAIN buckets BY <1>6 DEF Bijection, Injection
<1>8. \A n \in 1 .. c : g[n] = h[f[n]]
  <2>1. \A k \in DOMAIN buckets : BucketPoints[k].v = buckets[k].sum
    BY <1>1, BucketsComparable DEF BucketPoints
  <2>. HIDE DEF c
  <2>. QED BY <1>6, <1>7, <2>1
<1>9. Numeric(h, DOMAIN buckets) BY <1>1 DEF Gathered, Summary, Numeric
<1>10. IsFiniteSet(1 .. c) BY <1>4, FS_Interval
<1>11. DOMAIN g = 1 .. c BY <1>6
<1>. HIDE DEF g, h, c
<1>12. SumFunctionOnSet(g, 1 .. c) = SumFunctionOnSet(h, DOMAIN buckets)
  BY <1>4, <1>6, <1>8, <1>9, <1>10, SumMoves
<1>. QED BY <1>3, <1>11, <1>12 DEF SumOf, g

(* Energy is kept up to the rounding of times, whatever the samples, gaps    *)
(* and buckets.                                                              *)
THEOREM EnergyKept == Spec => []EnergyConserved
<1>1. QueryInv => EnergyConserved
  <2>. SUFFICES ASSUME QueryInv, Answered, query.function = "integral", query.step > 0
                PROVE  EnergyConserved
    BY DEF EnergyConserved
  <2> DEFINE gap(x) == P(x).t - P(<<x[1], x[2] - 1>>).t
             n == TicksPerSecond
             counted == {x \in Points : x[2] > 1 /\ gap(x) < (MaxGap + 1) * n}
             e == [x \in counted |-> P(x).v * gap(x)]
             w == [x \in counted |-> Abs(P(x).v)]
             part == [x \in counted |-> n * Part(x)]
             most == [x \in counted |-> (n - 1) * Abs(P(x).v)]
             answer == SumOf([i \in DOMAIN results |-> results[i].v])
  <2>1. Typed BY DEF QueryInv
  <2>2. n \in Nat \ {0} BY QueryAssumption
  <2>3. IsFiniteSet(Points) /\ IsFiniteSet(counted)
    <3>1. IsFiniteSet(Points) BY <2>1, PointsFinite DEF Typed
    <3>2. counted \subseteq Points OBVIOUS
    <3>. HIDE DEF counted
    <3>. QED BY <3>1, <3>2, FS_Subset
  <2>4. \A x \in Points : x[2] > 1 => Gap(x) = gap(x)
    <3>1. \A x \in Points : x[2] \in Nat BY <2>1, PointValues DEF Typed
    <3>. QED BY <3>1 DEF Gap
  <2>5. \A x \in Points : Part(x) \in Int /\ Gap(x) \in Nat /\ P(x).v \in Int
    BY <2>1, PartsNumeric, PointValues DEF Typed
  <2>6. \A x \in Points \ counted : Part(x) = 0
    <3>. SUFFICES ASSUME NEW x \in Points, x \notin counted PROVE Part(x) = 0 OBVIOUS
    <3>1. ~(x[2] > 1 /\ Gap(x) < (MaxGap + 1) * n) BY <2>4
    <3>. QED BY <2>1, <3>1, PartOfGap
  <2>7. ASSUME NEW x \in counted
        PROVE  /\ e[x] \in Int /\ part[x] \in Int /\ w[x] \in Int /\ most[x] \in Int
               /\ part[x] = n * Parts[x] /\ most[x] = (n - 1) * w[x]
               /\ -most[x] <= e[x] - part[x] /\ e[x] - part[x] <= most[x]
    <3>1. x \in Points /\ Gap(x) = gap(x) /\ x[2] > 1 /\ Gap(x) < (MaxGap + 1) * n
      BY <2>4
    <3>2. Part(x) = P(x).v * (Gap(x) \div n) BY <2>1, <3>1, PartOfGap
    <3> DEFINE v == P(x).v
               d == Gap(x)
    <3>3. v \in Int /\ d \in Nat BY <2>5, <3>1
    <3>4. e[x] = v * d /\ w[x] = Abs(v) /\ part[x] = n * (v * (d \div n))
          /\ most[x] = (n - 1) * Abs(v)
      BY <3>1, <3>2
    <3>5. Parts[x] = Part(x) BY <3>1 DEF Parts
    <3>6. part[x] = n * Parts[x] /\ most[x] = (n - 1) * w[x] BY <3>5
    <3>. HIDE DEF v, d, n
    <3>7. Abs(v) \in Int BY <3>3 DEF Abs
    <3>8. d \div n \in Int BY <2>2, <3>3, Quotient
    <3>9. v * d \in Int /\ n * (v * (d \div n)) \in Int /\ (n - 1) * Abs(v) \in Int
      <4>1. v * (d \div n) \in Int BY <3>3, <3>8
      <4>. HIDE DEF e, w, part, most
      <4>. QED BY <2>2, <3>3, <3>7, <4>1
    <3>10. /\ -((n - 1) * Abs(v)) <= v * d - n * (v * (d \div n))
           /\ v * d - n * (v * (d \div n)) <= (n - 1) * Abs(v)
      BY <2>2, <3>3, Rounding
    <3>. HIDE DEF e, w, part, most
    <3>. QED BY <3>4, <3>6, <3>7, <3>9, <3>10
  <2>8. Numeric(Parts, Points) /\ Numeric(Parts, counted) BY <2>5 DEF Numeric, Parts
  <2>9. answer = SumFunctionOnSet(Parts, Points) BY AnswerSums
  <2>10. \A x \in Points \ counted : Parts[x] = 0 BY <2>6 DEF Parts
  <2>11. /\ DOMAIN e = counted /\ DOMAIN w = counted /\ counted \subseteq Points
    OBVIOUS
  <2>12. /\ EnergyConserved
            <=> Abs(SumOf(e) - answer * TicksPerSecond) <= (TicksPerSecond - 1) * SumOf(w)
    BY DEF EnergyConserved
  <2>. HIDE DEF answer, e, w, part, most, counted
  <2>13. answer = SumFunctionOnSet(Parts, counted)
    BY <2>3, <2>8, <2>9, <2>10, <2>11, SumDrops
  <2>14. Numeric(e, counted) /\ Numeric(part, counted) /\ Numeric(w, counted)
         /\ Numeric(most, counted)
    BY <2>7 DEF Numeric
  <2>15. SumFunctionOnSet(part, counted) = n * SumFunctionOnSet(Parts, counted)
    BY <2>2, <2>3, <2>7, <2>8, SumScales
  <2>16. SumFunctionOnSet(most, counted) = (n - 1) * SumFunctionOnSet(w, counted)
    <3>1. n - 1 \in Int BY <2>2
    <3>. HIDE DEF n
    <3>. QED BY <2>3, <2>7, <2>14, <3>1, SumScales
  <2>17. /\ -SumFunctionOnSet(most, counted)
              <= SumFunctionOnSet(e, counted) - SumFunctionOnSet(part, counted)
         /\ SumFunctionOnSet(e, counted) - SumFunctionOnSet(part, counted)
              <= SumFunctionOnSet(most, counted)
    BY <2>3, <2>7, <2>14, SumsClose
  <2>18. answer \in Int /\ SumFunctionOnSet(e, counted) \in Int
         /\ SumFunctionOnSet(w, counted) \in Int
    BY <2>3, <2>8, <2>13, <2>14, SumSplits
  <2> DEFINE exact == SumFunctionOnSet(e, counted)
             weight == SumFunctionOnSet(w, counted)
  <2>19. -((n - 1) * weight) <= exact - n * answer /\ exact - n * answer <= (n - 1) * weight
    BY <2>13, <2>15, <2>16, <2>17
  <2>20. SumOf(e) = exact /\ SumOf(w) = weight BY <2>11 DEF SumOf
  <2>. HIDE DEF exact, weight, n
  <2>21. exact \in Int /\ weight \in Int /\ answer \in Int BY <2>18 DEF exact, weight
  <2>22. n * answer = answer * n /\ answer * n \in Int /\ (n - 1) * weight \in Int
    BY <2>2, <2>21
  <2>23. Abs(exact - answer * n) <= (n - 1) * weight
    BY <2>19, <2>21, <2>22 DEF Abs
  <2>. QED BY <2>12, <2>20, <2>23 DEF n
<1>. QED BY <1>1, QueryInvariant, PTL
=============================================================================
