--------------------------- MODULE Ingest_proofs ---------------------------
(***************************************************************************)
(* Proofs of what a collection mark and the report of a forced run vouch   *)
(* for, whatever collectors are registered, however many forced runs there *)
(* are, and at any time of a shutdown or a crash.                          *)
(***************************************************************************)
EXTENDS Ingest, TLAPS

-----------------------------------------------------------------------------
(* The store *)

(* A commit that does not fail leaves out only what clashes. *)
LEMMA CommitKeeps ==
  ASSUME NEW before, NEW b, NEW after \in Stored(before, b)
  PROVE  b \ after \subseteq Clashing(before, b)
<1>. DEFINE late == {x \in Clashing(before, b) : x.t < LastTime(before, x.s)}
<1>1. PICK win \in SUBSET late :
        after = (before \ {y \in before : \E x \in win : x.s = y.s /\ x.t = y.t})
                  \cup (b \ (Clashing(before, b) \ win))
  BY Zenon DEF Stored
<1>. QED BY <1>1

(* What a commit can come to. *)
LEMMA CommitEnds ==
  ASSUME NEW open, NEW before, NEW b, NEW c \in Commit(open, before, b)
  PROVE  \/ c.err = TRUE /\ c.db = before
         \/ open /\ c.err = FALSE /\ c.db \in Stored(before, b)
  BY DEF Commit

-----------------------------------------------------------------------------
(* Every loss has a reason.  Nothing is lost to a closed store while it is   *)
(* open; it is closed only when no client waits any more, and opened again   *)
(* only when nothing runs.                                                   *)
Explained(a, l) ==
  /\ l.why \in {"clash", "rollback", "failure", "closed"}
  /\ l.why = "closed" => ~storeOpen
  /\ a \in Forcers /\ l.by = "ConfigCollector" => l.why = "clash"

LossInv ==
  /\ DOMAIN lost = Actors
  /\ \A a \in Actors : \A l \in lost[a] : Explained(a, l)

LifeInv ==
  /\ LossInv
  /\ process = "up" => storeOpen
  /\ attached # {} => process = "up"
  /\ process = "down" => /\ \A a \in Actors : lost[a] = {} /\ run[a].at = "idle"
                         /\ phase = "gone"
  /\ process \in {"up", "stopping", "down"} /\ attached \subseteq Forcers

(* An actor that inserts. *)
LEMMA InsertExplained ==
  ASSUME LossInv, storeOpen' = storeOpen, NEW a \in Actors, NEW b, NEW after, NEW err \in BOOLEAN,
         Insert(a, b, after, err),
         ~err => b \ after \subseteq Clashing(db, b),
         run[a].at # "commit" => Clashing(db, b) # {}
  PROVE  LossInv'
<1>. DEFINE l == [by |-> Current(a), why |-> Reason(a, b, after, err)]
<1>1. CASE lost' = lost BY <1>1 DEF LossInv, Explained
<1>2. CASE lost' # lost
  <2>1. ~Reported(a, err) /\ lost' = [lost EXCEPT ![a] = @ \cup {l}] BY <1>2 DEF Insert
  <2>2. /\ Reason(a, b, after, err) \in {"clash", "rollback", "failure", "closed"}
        /\ Reason(a, b, after, err) = "closed" => ~storeOpen
        /\ ~err => Reason(a, b, after, err) = "clash"
    <3>1. CASE ~err BY <3>1 DEF Reason
    <3>2. CASE err /\ run[a].at = "commit" BY <3>2 DEF Reason
    <3>3. CASE err /\ run[a].at # "commit" BY <3>3 DEF Reason
    <3>. QED BY <3>1, <3>2, <3>3
  <2>3. l.by = Current(a) /\ l.why = Reason(a, b, after, err) OBVIOUS
  <2>. HIDE DEF l
  <2>4. Explained(a, l) BY <2>1, <2>2, <2>3 DEF Explained, Reported
  <2>5. DOMAIN lost' = Actors /\ \A k \in Actors : lost'[k] \subseteq lost[k] \cup (IF k = a THEN {l} ELSE {})
    BY <2>1 DEF LossInv
  <2>6. \A k, m : Explained(k, m)' <=> Explained(k, m) BY DEF Explained
  <2>. QED BY <2>4, <2>5, <2>6 DEF LossInv
<1>. QED BY <1>1, <1>2

LEMMA CollectKeepsLife ==
  ASSUME LifeInv, NEW a \in Actors, Collect(a) PROVE LifeInv' /\ (db' = db \/ storeOpen)
<1>1. run[a].at # "idle" /\ UNCHANGED <<storeOpen, phase, attached, process>>
  BY DEF Collect, CallGateway, GatewayFails, GatewayAnswers, AppendBatch, CommitBatch,
         CollectReturns, storeVars, loopVars, forceVars, lifeVars
<1>2. process # "down" BY <1>1 DEF LifeInv
<1>3. LossInv' => LifeInv' BY <1>1, <1>2 DEF LifeInv
<1>4. CASE CallGateway(a) \/ GatewayFails(a) \/ GatewayAnswers(a) \/ CollectReturns(a)
  <2>1. UNCHANGED <<db, lost>>
    BY <1>4 DEF CallGateway, GatewayFails, GatewayAnswers, CollectReturns, storeVars
  <2>2. LossInv' BY <2>1, <1>1 DEF LifeInv, LossInv, Explained
  <2>. QED BY <2>1, <2>2, <1>3
<1>5. CASE AppendBatch(a)
  <2>1. db' = db /\ run[a].at = "insert" BY <1>5 DEF AppendBatch, storeVars
  <2>2. PICK series \in Inserts(Current(a))[run[a].done + 1], v \in Payloads :
          IF Refuses(db, Batch(series, run[a].time, v))
            THEN Insert(a, Batch(series, run[a].time, v), db, TRUE) ELSE UNCHANGED lost
    BY <1>5 DEF AppendBatch
  <2>. DEFINE b == Batch(series, run[a].time, v)
  <2>. HIDE DEF b
  <2>3. IF Refuses(db, b) THEN Insert(a, b, db, TRUE) ELSE UNCHANGED lost BY <2>2 DEF b
  <2>4. CASE Refuses(db, b)
    <3>1. Clashing(db, b) # {} BY <2>4 DEF Refuses
    <3>2. LossInv' BY <1>1, <2>3, <2>4, <3>1, InsertExplained DEF LifeInv
    <3>. QED BY <2>1, <3>2, <1>3
  <2>5. CASE UNCHANGED lost
    <3>1. LossInv' BY <2>5, <1>1 DEF LifeInv, LossInv, Explained
    <3>. QED BY <2>1, <3>1, <1>3
  <2>. QED BY <2>3, <2>4, <2>5
<1>6. CASE CommitBatch(a)
  <2>. DEFINE b == run[a].batch
  <2>. HIDE DEF b
  <2>1. PICK c \in Commit(storeOpen, db, b) : db' = c.db /\ Insert(a, b, c.db, c.err)
    BY <1>6 DEF CommitBatch, b
  <2>2. run[a].at = "commit" BY <1>6 DEF CommitBatch
  <2>3. \/ c.err = TRUE /\ c.db = db
        \/ storeOpen /\ c.err = FALSE /\ c.db \in Stored(db, b)
    BY CommitEnds
  <2>4. c.err \in BOOLEAN /\ (~c.err => b \ c.db \subseteq Clashing(db, b))
    BY <2>3, CommitKeeps
  <2>5. LossInv' BY <1>1, <2>1, <2>2, <2>4, InsertExplained DEF LifeInv
  <2>. QED BY <1>3, <2>1, <2>3, <2>5
<1>. QED BY <1>4, <1>5, <1>6 DEF Collect

(* A collection that ends forgets what it lost. *)
LEMMA ForgetsLosses ==
  ASSUME LossInv, storeOpen' = storeOpen, NEW a \in Actors, lost' = [lost EXCEPT ![a] = {}]
  PROVE  LossInv'
  BY DEF LossInv, Explained

(* A step keeps the invariant and, on a closed store, all samples. *)
LEMMA LifeSteps == ASSUME LifeInv, [Next]_vars PROVE LifeInv' /\ (db' = db \/ storeOpen)
<1>. USE DEF LossInv, Explained
<1>1. CASE Second
  BY <1>1 DEF Second, LifeInv, storeVars, runVars, forceVars, lifeVars
<1>2. CASE FirstCollection \/ NextCollection
  <2>1. phase # "gone" /\ UNCHANGED <<db, storeOpen, lost, attached, process>>
    BY <1>2 DEF FirstCollection, NextCollection, storeVars, forceVars, lifeVars
  <2>. QED BY <2>1 DEF LifeInv
<1>3. CASE LoopStops
  BY <1>3 DEF LoopStops, LifeInv, storeVars, runVars, forceVars, lifeVars
<1>4. CASE EndCollection
  <2>1. /\ run[Loop].at # "idle" /\ UNCHANGED <<storeOpen, attached, process>>
        /\ lost' = [lost EXCEPT ![Loop] = {}]
    BY <1>4 DEF EndCollection, forceVars, lifeVars
  <2>2. db' = db \/ storeOpen
    <3>. DEFINE mark == Batch({MarkWritten}, run[Loop].began, MarkValue)
    <3>. HIDE DEF mark
    <3>1. PICK c \in Commit(storeOpen, db, mark) : db' = c.db
      BY <1>4 DEF EndCollection, RecordMark, mark
    <3>2. \/ c.err = TRUE /\ c.db = db
          \/ storeOpen /\ c.err = FALSE /\ c.db \in Stored(db, mark)
      BY CommitEnds
    <3>. QED BY <3>1, <3>2
  <2>3. process # "down" /\ Loop \in Actors BY <2>1 DEF LifeInv, Actors
  <2>4. LossInv' BY <2>1, <2>3, ForgetsLosses DEF LifeInv
  <2>. QED BY <2>1, <2>2, <2>3, <2>4 DEF LifeInv
<1>5. ASSUME NEW a \in Actors, Collect(a) PROVE LifeInv' /\ (db' = db \/ storeOpen)
  BY <1>5, CollectKeepsLife
<1>6. ASSUME NEW f \in Forcers, ForceRun(f) PROVE LifeInv' /\ (db' = db \/ storeOpen)
  BY <1>6 DEF ForceRun, LifeInv, storeVars, loopVars, lifeVars
<1>7. ASSUME NEW f \in Forcers, RequestTimeout(f) PROVE LifeInv' /\ (db' = db \/ storeOpen)
  BY <1>7 DEF RequestTimeout, LifeInv, storeVars, loopVars, runVars, lifeVars
<1>8. ASSUME NEW f \in Forcers, ForceRunReturns(f) PROVE LifeInv' /\ (db' = db \/ storeOpen)
  <2>1. process # "down" /\ f \in Actors BY <1>8 DEF ForceRunReturns, LifeInv, Actors
  <2>2. /\ UNCHANGED <<db, storeOpen, phase, process>> /\ attached' = attached \ {f}
        /\ lost' = [lost EXCEPT ![f] = {}]
    BY <1>8 DEF ForceRunReturns, storeVars, loopVars, lifeVars
  <2>3. LossInv' BY <2>1, <2>2, ForgetsLosses DEF LifeInv
  <2>. QED BY <2>1, <2>2, <2>3 DEF LifeInv
<1>9. CASE StopManager
  BY <1>9 DEF StopManager, LifeInv, storeVars, loopVars, runVars, forceVars
<1>10. CASE CloseStore
  BY <1>10 DEF CloseStore, LifeInv, loopVars, runVars, forceVars, lifeVars
<1>11. CASE Exit BY <1>11 DEF Exit, LifeInv, Idle
<1>12. CASE Restart BY <1>12 DEF Restart, LifeInv, runVars, forceVars
<1>13. CASE UNCHANGED vars
  BY <1>13 DEF vars, LifeInv, storeVars, loopVars, runVars, forceVars, lifeVars
<1>. QED
  BY <1>1, <1>2, <1>3, <1>4, <1>5, <1>6, <1>7, <1>8, <1>9, <1>10, <1>11, <1>12, <1>13
  DEF Next

(* Whatever a collection inserts in vain has a reason: on an open store only *)
(* a failed commit or a different reading in the place of a sample; and      *)
(* ConfigCollector reports all but the clash that nobody is told of.         *)
THEOREM LossesExplained == Spec => []LifeInv
<1>1. Init => LifeInv
  <2>. SUFFICES ASSUME Init PROVE LifeInv OBVIOUS
  <2>1. LossInv BY DEF Init, LossInv
  <2>. QED BY <2>1 DEF Init, LifeInv
<1>2. LifeInv /\ [Next]_vars => LifeInv' BY LifeSteps
<1>. QED BY <1>1, <1>2, PTL DEF Spec

(* A mark becomes readable only when its collection lost nothing for another *)
(* reason than a failed commit on an open store or a clash (runCollection,   *)
(* insertData): one that has lost something to the shutdown runs on a closed *)
(* store, and nothing becomes readable there, the mark included.             *)
THEOREM MarksVouch == Spec => MarkCoversCollection
<1>1. ASSUME LifeInv, [Next]_vars,
             Times(db', MarkWritten) # Times(db, MarkWritten)
      PROVE  \A l \in lost[Loop] : l.why \in {"clash", "rollback", "failure"}
  <2>1. storeOpen /\ Loop \in Actors BY <1>1, LifeSteps DEF Actors
  <2>. QED BY <1>1, <2>1 DEF LifeInv, LossInv, Explained
<1>. QED BY <1>1, LossesExplained, PTL DEF Spec, MarkCoversCollection

(* The report of a forced run that reaches its client keeps quiet only about *)
(* failed commits on an open store and clashes, of ConfigCollector only      *)
(* about clashes at the commit: while a client waits the store is open.      *)
THEOREM ReportsHonest == Spec => ForcedReportHonest
<1>1. ASSUME LifeInv, NEW f \in attached \ attached', NEW l \in lost[f]
      PROVE  l.why \in Unreported(l.by)
  <2>1. storeOpen /\ f \in Forcers /\ f \in Actors BY <1>1 DEF LifeInv, Actors
  <2>2. Explained(f, l) BY <1>1, <2>1 DEF LifeInv, LossInv
  <2>. QED BY <2>1, <2>2 DEF Explained, Unreported
<1>2. ASSUME LifeInv, [Next]_vars
      PROVE  \A f \in attached \ attached' :
               process' # "down" /\ run'[f].at = "idle"
                 => \A l \in lost[f] : l.why \in Unreported(l.by)
  BY <1>1, <1>2
<1>. QED BY <1>2, LossesExplained, PTL DEF Spec, ForcedReportHonest

-----------------------------------------------------------------------------
(* Types *)

RunType == [at : {"idle", "next", "calling", "insert", "commit"}, todo : Seq(Collectors),
            done : 0 .. 2, time : 0 .. MaxTime, batch : SUBSET Samples, began : 0 .. MaxTime]

Losses == [by : Collectors, why : Reasons]

(* What an actor is doing fits together. *)
Sound(r) ==
  /\ r.at = "commit" <=> r.batch # {}
  /\ r.at \in {"calling", "insert", "commit"} => r.todo # <<>> /\ r.time \in Clock

RunInv ==
  /\ run \in [Actors -> RunType]
  /\ \A a \in Actors : Sound(run[a])

LoopInv ==
  /\ phase \in Phases /\ wakeAt \in 0 .. MaxTime + Interval /\ tick \in BOOLEAN
  /\ phase \in {"first", "collecting"} <=> run[Loop].at # "idle"
  /\ run[Loop].at # "idle" => run[Loop].began \in Clock

CountInv ==
  /\ now \in Clock /\ passes \in 0 .. MaxPasses /\ forced \in 0 .. MaxForced
  /\ starts \in 1 .. MaxStarts

HoldInv ==
  /\ db \subseteq Samples /\ storeOpen \in BOOLEAN /\ process \in {"up", "stopping", "down"}
  /\ lost \in [Actors -> SUBSET Losses] /\ attached \subseteq Forcers

LEMMA InsertsTyped ==
  ASSUME NEW c \in Collectors
  PROVE  /\ Len(Inserts(c)) \in {1, 2}
         /\ \A i \in 1 .. Len(Inserts(c)) : Inserts(c)[i] \subseteq SUBSET Series
<1>1. CASE c = "DeviceCollector" BY <1>1 DEF Inserts, Series
<1>2. CASE c = "GridCollector" BY <1>2 DEF Inserts, Series
<1>3. CASE c = "AggregatesCollector" BY <1>3 DEF Inserts, Series
<1>4. CASE c = "SoeCollector" BY <1>4 DEF Inserts, Series
<1>5. CASE c = "ConfigCollector" BY <1>5 DEF Inserts, Series
<1>. QED BY <1>1, <1>2, <1>3, <1>4, <1>5 DEF Collectors

LEMMA BatchTyped ==
  ASSUME NEW series \in SUBSET Series, NEW t \in Clock, NEW v \in Payloads \cup {MarkValue}
  PROVE  Batch(series, t, v) \in SUBSET Samples
  BY DEF Batch, Sample, Samples

LEMMA CommitTyped ==
  ASSUME NEW open, NEW before \in SUBSET Samples, NEW b \in SUBSET Samples,
         NEW c \in Commit(open, before, b)
  PROVE  c.db \in SUBSET Samples /\ c.err \in BOOLEAN
<1>1. CASE c.err = TRUE /\ c.db = before BY <1>1
<1>2. CASE c.err = FALSE /\ c.db \in Stored(before, b)
  <2>. DEFINE late == {x \in Clashing(before, b) : x.t < LastTime(before, x.s)}
  <2>1. PICK win \in SUBSET late :
          c.db = (before \ {y \in before : \E x \in win : x.s = y.s /\ x.t = y.t})
                   \cup (b \ (Clashing(before, b) \ win))
    BY <1>2, Zenon DEF Stored
  <2>. QED BY <1>2, <2>1
<1>. QED BY <1>1, <1>2, CommitEnds

LEMMA InsertTyped ==
  ASSUME lost \in [Actors -> SUBSET Losses], NEW a \in Actors, Current(a) \in Collectors,
         NEW b, NEW after, NEW err \in BOOLEAN, Insert(a, b, after, err)
  PROVE  lost' \in [Actors -> SUBSET Losses]
<1>. DEFINE l == [by |-> Current(a), why |-> Reason(a, b, after, err)]
<1>1. Reason(a, b, after, err) \in Reasons
  <2>1. CASE ~err BY <2>1 DEF Reason, Reasons
  <2>2. CASE err /\ run[a].at = "commit" BY <2>2 DEF Reason, Reasons
  <2>3. CASE err /\ run[a].at # "commit" BY <2>3 DEF Reason, Reasons
  <2>. QED BY <2>1, <2>2, <2>3
<1>2. l \in Losses BY <1>1 DEF Losses
<1>3. lost' = lost \/ lost' = [lost EXCEPT ![a] = @ \cup {l}] BY DEF Insert
<1>. HIDE DEF l
<1>. QED BY <1>2, <1>3

(* The clock reads no mark under the name getStartupDelay looks for. *)
LEMMA NoDelay == ASSUME db \subseteq Samples PROVE StartupDelay = 0
<1>1. Times(db, MarkRead) = {} BY DEF Times, Samples, Series, MarkRead, MarkWritten
<1>2. LastTime(db, MarkRead) = 0 BY <1>1 DEF LastTime
<1>. QED BY <1>2 DEF StartupDelay

LEMMA IdleTyped == Idle \in RunType /\ Sound(Idle) /\ Idle.at = "idle"
  BY IngestAssumption DEF Idle, RunType, Sound

LEMMA BegunTyped ==
  ASSUME NEW todo \in Seq(Collectors), NEW began \in 0 .. MaxTime
  PROVE  LET r == [Idle EXCEPT !.at = "next", !.todo = todo, !.began = began]
         IN  r \in RunType /\ Sound(r) /\ r.at = "next"
<1>. DEFINE r == [Idle EXCEPT !.at = "next", !.todo = todo, !.began = began]
<1>1. r \in RunType BY IdleTyped DEF RunType
<1>2. r.at = "next" /\ r.batch = {} BY DEF Idle
<1>3. Sound(r) BY <1>2 DEF Sound
<1>. QED BY <1>1, <1>2, <1>3

(* One actor goes on. *)
LEMMA RunMoves ==
  ASSUME RunInv, NEW a \in Actors, NEW r \in RunType, Sound(r), run' = [run EXCEPT ![a] = r]
  PROVE  RunInv' /\ run'[a] = r /\ \A o \in Actors \ {a} : run'[o] = run[o]
  BY DEF RunInv

LEMMA CollectKeepsRuns ==
  ASSUME RunInv, HoldInv, CountInv, NEW a \in Actors, Collect(a)
  PROVE  /\ RunInv' /\ HoldInv' /\ run[a].at # "idle" /\ run'[a].at # "idle"
         /\ run'[a].began = run[a].began
         /\ \A o \in Actors \ {a} : run'[o] = run[o]
<1>. DEFINE r == run[a]
<1>1. r \in RunType /\ Sound(r) BY DEF RunInv
<1>2. now \in Clock /\ now \in 0 .. MaxTime BY IngestAssumption DEF CountInv, Clock
<1>3. CASE CallGateway(a)
  <2>. DEFINE n == [r EXCEPT !.at = "calling", !.time = now]
  <2>1. run' = [run EXCEPT ![a] = n] BY <1>3, Zenon DEF CallGateway
  <2>2. r.at = "next" /\ r.todo # <<>> BY <1>3 DEF CallGateway
  <2>3. n \in RunType /\ Sound(n) /\ n.at = "calling" /\ n.began = r.began
    BY <1>1, <1>2, <2>2 DEF RunType, Sound
  <2>4. UNCHANGED <<db, storeOpen, process, lost, attached>>
    BY <1>3 DEF CallGateway, storeVars, forceVars, lifeVars
  <2>. HIDE DEF n
  <2>. QED BY <2>1, <2>2, <2>3, <2>4, RunMoves DEF HoldInv
<1>4. CASE GatewayFails(a) \/ CollectReturns(a)
  <2>. DEFINE n == [Idle EXCEPT !.at = "next", !.todo = Tail(r.todo), !.began = r.began]
  <2>1. run' = [run EXCEPT ![a] = n]
    BY <1>4, Zenon DEF GatewayFails, CollectReturns, NextCollector
  <2>2. r.at \in {"calling", "insert"} BY <1>4 DEF GatewayFails, CollectReturns
  <2>3. Tail(r.todo) \in Seq(Collectors) BY <1>1, <2>2 DEF RunType, Sound
  <2>4. r.began \in 0 .. MaxTime BY <1>1 DEF RunType
  <2>5. n \in RunType /\ Sound(n) /\ n.at = "next" /\ n.began = r.began
    BY <2>3, <2>4, BegunTyped DEF Idle
  <2>6. UNCHANGED <<db, storeOpen, process, lost, attached>>
    BY <1>4 DEF GatewayFails, CollectReturns, storeVars, forceVars, lifeVars
  <2>. HIDE DEF n
  <2>. QED BY <2>1, <2>2, <2>5, <2>6, RunMoves DEF HoldInv
<1>5. CASE GatewayAnswers(a)
  <2>. DEFINE time == IF Current(a) = "ConfigCollector" THEN r.time ELSE now
              n == [r EXCEPT !.at = "insert", !.time = time]
  <2>1. run' = [run EXCEPT ![a] = n] BY <1>5, Zenon DEF GatewayAnswers
  <2>2. r.at = "calling" BY <1>5 DEF GatewayAnswers
  <2>3. time \in Clock /\ time \in 0 .. MaxTime BY <1>1, <1>2, <2>2 DEF RunType, Sound
  <2>. HIDE DEF time
  <2>4. n \in RunType /\ Sound(n) /\ n.at = "insert" /\ n.began = r.began
    BY <1>1, <2>2, <2>3 DEF RunType, Sound
  <2>5. UNCHANGED <<db, storeOpen, process, lost, attached>>
    BY <1>5 DEF GatewayAnswers, storeVars, forceVars, lifeVars
  <2>. HIDE DEF n
  <2>. QED BY <2>1, <2>2, <2>4, <2>5, RunMoves DEF HoldInv
<1>6. CASE AppendBatch(a)
  <2>1. r.at = "insert" /\ r.done < Len(Inserts(Current(a))) BY <1>6 DEF AppendBatch
  <2>2. Current(a) \in Collectors BY <1>1, <2>1 DEF Current, RunType, Sound
  <2>3. PICK series \in Inserts(Current(a))[r.done + 1], v \in Payloads :
          LET b == Batch(series, r.time, v)
              refused == Refuses(db, b)
              held == IF refused THEN {} ELSE b
          IN  /\ IF refused THEN Insert(a, b, db, TRUE) ELSE UNCHANGED lost
              /\ run' = [run EXCEPT ![a].at = IF held = {} THEN "insert" ELSE "commit",
                                    ![a].batch = held, ![a].done = @ + 1]
    BY <1>6, Zenon DEF AppendBatch
  <2>. DEFINE b == Batch(series, r.time, v)
              held == IF Refuses(db, b) THEN {} ELSE b
              n == [r EXCEPT !.at = IF held = {} THEN "insert" ELSE "commit",
                             !.batch = held, !.done = @ + 1]
  <2>4. run' = [run EXCEPT ![a] = n] BY <2>3, Zenon
  <2>5. lost' \in [Actors -> SUBSET Losses]
    <3>. HIDE DEF b
    <3>1. Insert(a, b, db, TRUE) \/ lost' = lost BY <2>3 DEF b
    <3>. QED BY <2>2, <3>1, InsertTyped DEF HoldInv
  <2>6. r.done + 1 \in 1 .. Len(Inserts(Current(a))) /\ r.done + 1 \in 0 .. 2
    BY <1>1, <2>1, <2>2, InsertsTyped DEF RunType
  <2>7. series \in SUBSET Series BY <2>2, <2>6, InsertsTyped
  <2>8. b \in SUBSET Samples BY <1>1, <2>1, <2>7, BatchTyped DEF Sound
  <2>9. n \in RunType /\ Sound(n) /\ n.at # "idle" /\ n.began = r.began
    <3>1. held \in SUBSET Samples BY <2>8
    <3>. HIDE DEF held, b
    <3>. QED BY <1>1, <2>1, <2>6, <3>1 DEF RunType, Sound
  <2>10. UNCHANGED <<db, storeOpen, process, attached>>
    BY <1>6 DEF AppendBatch, storeVars, forceVars, lifeVars
  <2>. HIDE DEF n
  <2>. QED BY <2>1, <2>4, <2>5, <2>9, <2>10, RunMoves DEF HoldInv
<1>7. CASE CommitBatch(a)
  <2>. DEFINE n == [r EXCEPT !.at = "insert", !.batch = {}]
  <2>1. PICK c \in Commit(storeOpen, db, r.batch) :
          /\ db' = c.db /\ Insert(a, r.batch, c.db, c.err)
          /\ run' = [run EXCEPT ![a].at = "insert", ![a].batch = {}]
    BY <1>7 DEF CommitBatch
  <2>2. run' = [run EXCEPT ![a] = n] BY <2>1, Zenon
  <2>3. r.at = "commit" BY <1>7 DEF CommitBatch
  <2>4. n \in RunType /\ Sound(n) /\ n.at = "insert" /\ n.began = r.began
    BY <1>1, <2>3 DEF RunType, Sound
  <2>5. r.batch \in SUBSET Samples BY <1>1 DEF RunType
  <2>6. db' \subseteq Samples /\ c.err \in BOOLEAN BY <2>1, <2>5, CommitTyped DEF HoldInv
  <2>7. Current(a) \in Collectors BY <1>1, <2>3 DEF Current, RunType, Sound
  <2>8. lost' \in [Actors -> SUBSET Losses] BY <2>1, <2>6, <2>7, InsertTyped DEF HoldInv
  <2>9. UNCHANGED <<storeOpen, process, attached>>
    BY <1>7 DEF CommitBatch, forceVars, lifeVars
  <2>. HIDE DEF n
  <2>. QED BY <2>2, <2>3, <2>4, <2>6, <2>8, <2>9, RunMoves DEF HoldInv
<1>. QED BY <1>3, <1>4, <1>5, <1>6, <1>7 DEF Collect

(* A collection begins: of the loop, or of a forced run. *)
LEMMA Begins ==
  ASSUME RunInv, NEW a \in Actors, NEW todo \in Seq(Collectors), NEW began \in 0 .. MaxTime,
         Begin(a, todo, began)
  PROVE  RunInv' /\ run'[a].at = "next" /\ run'[a].began = began /\ \A o \in Actors \ {a} : run'[o] = run[o]
<1>. DEFINE n == [Idle EXCEPT !.at = "next", !.todo = todo, !.began = began]
<1>1. run' = [run EXCEPT ![a] = n] BY Zenon DEF Begin
<1>2. n \in RunType /\ Sound(n) /\ n.at = "next" BY BegunTyped
<1>3. n.began = began BY DEF Idle
<1>. HIDE DEF n
<1>. QED BY <1>1, <1>2, <1>3, RunMoves

LEMMA TypeSteps ==
  ASSUME LifeInv, RunInv, LoopInv, CountInv, HoldInv, [Next]_vars
  PROVE  RunInv' /\ LoopInv' /\ CountInv' /\ HoldInv'
<1>c. {Interval, MaxTime, MaxPasses, MaxForced, MaxStarts} \subseteq Nat \ {0}
  BY IngestAssumption
<1>a. Loop \in Actors /\ \A f \in Forcers : f \in Actors /\ f # Loop
  BY IngestAssumption DEF Actors
<1>b. now \in 0 .. MaxTime BY DEF CountInv, Clock
<1>1. CASE Second
  <2>1. UNCHANGED <<run, phase, passes, forced, starts, db, storeOpen, process, lost, attached>>
    BY <1>1 DEF Second, storeVars, runVars, forceVars, lifeVars
  <2>2. now' \in Clock BY <1>1, <1>c DEF Second, CountInv, Clock
  <2>3. wakeAt' \in 0 .. MaxTime + Interval /\ tick' \in BOOLEAN
    <3>1. wakeAt \in Nat /\ wakeAt <= MaxTime + Interval /\ tick \in BOOLEAN
      BY <1>c DEF LoopInv
    <3>2. now' \in Nat /\ now' <= MaxTime BY <1>c, <2>2 DEF Clock
    <3>3. CASE wakeAt' = wakeAt + Interval /\ tick' = TRUE /\ now' >= wakeAt
      BY <1>c, <3>1, <3>2, <3>3
    <3>4. CASE wakeAt' = wakeAt /\ tick' = tick BY <3>1, <3>4, <1>c
    <3>. QED BY <1>1, <3>3, <3>4 DEF Second
  <2>. QED BY <2>1, <2>2, <2>3 DEF RunInv, LoopInv, CountInv, HoldInv
<1>2. CASE FirstCollection \/ NextCollection
  <2>1. /\ phase' \in {"first", "collecting"} /\ tick' \in {tick, FALSE}
        /\ Begin(Loop, Registered, now) /\ passes < MaxPasses /\ passes' = passes + 1
        /\ UNCHANGED <<now, db, storeOpen, lost, wakeAt, forced, starts, attached, process>>
    BY <1>2 DEF FirstCollection, NextCollection, storeVars, forceVars, lifeVars
  <2>2. RunInv' /\ run'[Loop].at = "next" /\ run'[Loop].began = now
    BY <1>a, <1>b, <2>1, Begins, IngestAssumption
  <2>3. passes' \in 0 .. MaxPasses BY <1>c, <2>1 DEF CountInv
  <2>. QED BY <2>1, <2>2, <2>3 DEF LoopInv, CountInv, HoldInv, Phases
<1>3. CASE LoopStops
  BY <1>3 DEF LoopStops, RunInv, LoopInv, CountInv, HoldInv, Phases, storeVars, runVars,
              forceVars, lifeVars
<1>4. CASE EndCollection
  <2>1. run' = [run EXCEPT ![Loop] = Idle] BY <1>4 DEF EndCollection
  <2>2. RunInv' /\ run'[Loop].at = "idle" BY <1>a, <2>1, IdleTyped, RunMoves
  <2>3. run[Loop].began \in Clock BY <1>4 DEF EndCollection, LoopInv
  <2>4. db' \subseteq Samples
    <3>. DEFINE mark == Batch({MarkWritten}, run[Loop].began, MarkValue)
    <3>1. mark \in SUBSET Samples BY <2>3, BatchTyped DEF Series
    <3>2. \E c \in Commit(storeOpen, db, mark) : db' = c.db
      BY <1>4 DEF EndCollection, RecordMark
    <3>. HIDE DEF mark
    <3>. QED BY <3>1, <3>2, CommitTyped DEF HoldInv
  <2>5. /\ lost' = [lost EXCEPT ![Loop] = {}] /\ phase' = "select"
        /\ UNCHANGED <<now, storeOpen, passes, forced, starts, attached, process>>
        /\ wakeAt' = wakeAt \/ wakeAt' = now + Interval
        /\ tick' = tick \/ tick' = FALSE
    BY <1>4 DEF EndCollection, forceVars, lifeVars
  <2>6. wakeAt' \in 0 .. MaxTime + Interval BY <1>b, <1>c, <2>5 DEF LoopInv
  <2>. QED BY <2>2, <2>4, <2>5, <2>6 DEF LoopInv, CountInv, HoldInv, Phases
<1>5. ASSUME NEW a \in Actors, Collect(a) PROVE RunInv' /\ LoopInv' /\ CountInv' /\ HoldInv'
  <2>1. /\ RunInv' /\ HoldInv' /\ run[a].at # "idle" /\ run'[a].at # "idle"
        /\ run'[a].began = run[a].began /\ \A o \in Actors \ {a} : run'[o] = run[o]
    BY <1>5, CollectKeepsRuns
  <2>2. UNCHANGED <<now, phase, wakeAt, tick, passes, forced, starts>>
    BY <1>5 DEF Collect, CallGateway, GatewayFails, GatewayAnswers, AppendBatch, CommitBatch,
                CollectReturns, loopVars, forceVars, lifeVars
  <2>3. /\ run[Loop].at # "idle" <=> run'[Loop].at # "idle"
        /\ run'[Loop].began = run[Loop].began
    BY <1>a, <2>1
  <2>. QED BY <2>1, <2>2, <2>3 DEF LoopInv, CountInv
<1>6. ASSUME NEW f \in Forcers, ForceRun(f) PROVE RunInv' /\ LoopInv' /\ CountInv' /\ HoldInv'
  <2>1. PICK todo \in {Registered} \cup {<<Registered[i]>> : i \in DOMAIN Registered} :
          Begin(f, todo, 0)
    BY <1>6 DEF ForceRun
  <2>2. todo \in Seq(Collectors)
    <3>1. CASE todo = Registered BY <3>1, IngestAssumption
    <3>2. ASSUME NEW i \in DOMAIN Registered, todo = <<Registered[i]>>
          PROVE  todo \in Seq(Collectors)
      <4>1. Registered[i] \in Collectors BY IngestAssumption
      <4>. QED BY <3>2, <4>1
    <3>. QED BY <3>1, <3>2
  <2>3. RunInv' /\ run'[Loop] = run[Loop] BY <1>a, <1>b, <1>c, <1>6, <2>1, <2>2, Begins
  <2>4. /\ forced' \in 0 .. MaxForced /\ attached' \subseteq Forcers
        /\ UNCHANGED <<now, db, storeOpen, phase, wakeAt, tick, passes, lost, starts, process>>
    BY <1>6, <1>c DEF ForceRun, CountInv, HoldInv, storeVars, loopVars, lifeVars
  <2>. QED BY <2>3, <2>4 DEF LoopInv, CountInv, HoldInv
<1>7. ASSUME NEW f \in Forcers, RequestTimeout(f) \/ ForceRunReturns(f)
      PROVE  RunInv' /\ LoopInv' /\ CountInv' /\ HoldInv'
  <2>1. /\ attached' \subseteq Forcers /\ (lost' = lost \/ lost' = [lost EXCEPT ![f] = {}])
        /\ UNCHANGED <<now, db, storeOpen, phase, wakeAt, tick, passes, forced, starts, process>>
    BY <1>7 DEF RequestTimeout, ForceRunReturns, HoldInv, storeVars, loopVars, runVars, lifeVars
  <2>2. run' = run \/ run' = [run EXCEPT ![f] = Idle]
    BY <1>7 DEF RequestTimeout, ForceRunReturns, runVars
  <2>3. RunInv' /\ run'[Loop] = run[Loop] BY <1>a, <1>7, <2>2, IdleTyped, RunMoves DEF RunInv
  <2>4. lost' \in [Actors -> SUBSET Losses] BY <2>1 DEF HoldInv
  <2>. QED BY <2>1, <2>3, <2>4 DEF LoopInv, CountInv, HoldInv
<1>8. CASE StopManager \/ CloseStore
  BY <1>8 DEF StopManager, CloseStore, RunInv, LoopInv, CountInv, HoldInv, storeVars, loopVars,
              runVars, forceVars, lifeVars
<1>9. CASE Exit
  <2>1. RunInv' /\ run'[Loop].at = "idle" BY <1>a, <1>9, IdleTyped DEF Exit, RunInv
  <2>. QED BY <1>9, <2>1 DEF Exit, LoopInv, CountInv, HoldInv, Phases
<1>10. CASE Restart
  <2>1. wakeAt' = now BY <1>10, <1>b, NoDelay DEF Restart, HoldInv
  <2>2. run[Loop].at = "idle" BY <1>10, <1>a DEF Restart, LifeInv
  <2>3. /\ starts' \in 1 .. MaxStarts /\ wakeAt' \in 0 .. MaxTime + Interval
        /\ storeOpen' = TRUE /\ process' = "up" /\ phase' = "delay"
        /\ UNCHANGED <<now, db, tick, passes, run, lost, attached, forced>>
    BY <1>10, <1>b, <1>c, <2>1 DEF Restart, CountInv, runVars, forceVars
  <2>. QED BY <2>2, <2>3 DEF RunInv, LoopInv, CountInv, HoldInv, Phases
<1>11. CASE UNCHANGED vars
  BY <1>11 DEF vars, RunInv, LoopInv, CountInv, HoldInv, storeVars, loopVars, runVars,
               forceVars, lifeVars
<1>. QED BY <1>1, <1>2, <1>3, <1>4, <1>5, <1>6, <1>7, <1>8, <1>9, <1>10, <1>11 DEF Next

(* The types of Ingest, and that an actor holds a batch exactly between      *)
(* append and commit, and the goroutine of the manager is busy exactly       *)
(* within a collection.                                                      *)
THEOREM TypeCorrect == Spec => []TypeOK
<1>. DEFINE TypeInv == RunInv /\ LoopInv /\ CountInv /\ HoldInv
<1>1. Init => TypeInv
  <2>. SUFFICES ASSUME Init PROVE TypeInv OBVIOUS
  <2>1. RunInv /\ run[Loop].at = "idle" BY IdleTyped DEF Init, RunInv, Actors
  <2>2. CountInv /\ wakeAt \in 0 .. MaxTime + Interval
    BY IngestAssumption DEF Init, CountInv, Clock
  <2>. QED BY <2>1, <2>2 DEF Init, LoopInv, HoldInv, Phases
<1>2. TypeInv /\ LifeInv /\ [Next]_vars => TypeInv' BY TypeSteps
<1>3. TypeInv => TypeOK
  <2>. SUFFICES ASSUME TypeInv PROVE TypeOK OBVIOUS
  <2>1. \A a \in Actors : /\ run[a] \in RunType /\ Sound(run[a])
                          /\ lost[a] \subseteq [by : Collectors, why : Reasons]
    BY DEF RunInv, HoldInv, Losses
  <2>. QED BY <2>1 DEF LoopInv, CountInv, HoldInv, TypeOK, RunType, Sound
<1>. QED BY <1>1, <1>2, <1>3, LossesExplained, PTL DEF Spec
=============================================================================
