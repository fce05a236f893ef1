------------------------------- MODULE Ingest -------------------------------
(***************************************************************************)
(* Collection of readings: the manager's goroutine and its ticker          *)
(* (internal/collector/manager.go), collections forced over the HTTP API,  *)
(* the collectors, the batches they insert into the store                  *)
(* (internal/store/store.go), and the life of the process around them      *)
(* (internal/cli/run.go): start, SIGTERM, crash, restart.                  *)
(***************************************************************************)
EXTENDS Naturals, Sequences, SampleStore

CONSTANTS
  Registered,   \* the collectors, in the order run.go registers them
  Forcers,      \* HTTP handlers running forceRunCollectors
  Loop,         \* the manager's goroutine
  Payloads,     \* what a batch of readings can carry
  Interval,     \* seconds between scheduled collections
  MaxTime,      \* bound: the last second
  MaxPasses,    \* bound: scheduled collections
  MaxForced,    \* bound: forced collections
  MaxStarts,    \* bound: starts of the process
  MaxBegun      \* bound: all three together

Collectors == {"DeviceCollector", "GridCollector", "AggregatesCollector",
               "SoeCollector", "ConfigCollector"}
Actors == {Loop} \cup Forcers
Clock == 1 .. MaxTime           \* so that 0 can mean "no sample"

ASSUME IngestAssumption ==
  /\ Registered \in Seq(Collectors)
  /\ Loop \notin Forcers
  /\ {Interval, MaxTime, MaxPasses, MaxForced, MaxStarts, MaxBegun} \subseteq Nat \ {0}

VARIABLES
  now,        \* the clock
  db,         \* the samples a reader finds; they outlive the process
  storeOpen,  \* between NewStore and Close
  process,    \* "up", "stopping" once cm.Stop ran, or "down"
  phase,      \* the manager's goroutine: see Phases
  wakeAt,     \* when the startup delay ends, then when the ticker fires next
  tick,       \* a tick waits in the ticker's channel
  run,        \* what each actor is doing
  attached,   \* the handlers whose client still waits for them
  passes,     \* scheduled collections begun so far
  forced,     \* forced collections begun so far
  starts,     \* starts of the process so far
  lost        \* history: what the collection of each actor inserted in vain
              \* and did not report, by collector and reason

storeVars == <<db, storeOpen>>
loopVars == <<phase, wakeAt, tick, passes>>
runVars == <<run, lost>>
forceVars == <<attached, forced>>
lifeVars == <<process, starts>>
vars == <<now, storeVars, loopVars, runVars, forceVars, lifeVars>>

(* Before the first collection, in it, in the ticker loop, returned. *)
Phases == {"delay", "first", "select", "collecting", "gone"}

(* The name InsertCollectionMark writes and the one getStartupDelay reads. *)
MarkWritten == "collection_mark"
MarkRead == "power_dash_collection_mark"
MarkValue == 1

(* The inserts of one Collect, in order, each as the sets of series it may   *)
(* be about: the series only DeviceCollector writes are one, those of the    *)
(* voltages that both the islander and the aggregates report another.        *)
Inserts(c) ==
  CASE c = "DeviceCollector" -> <<{{}, {"device"}}, {{}, {"voltage"}}>>
    [] c = "GridCollector" -> <<{{"grid"}}>>
    [] c = "AggregatesCollector" -> <<{{"power"}, {"power", "voltage"}}>>
    [] c = "SoeCollector" -> <<{{"soe"}}>>
    [] c = "ConfigCollector" -> <<{{}, {"price"}}>>

(* An actor's progress: the collectors still to run (the first one running), *)
(* how many of its inserts are done, the time its readings carry, the batch  *)
(* in its appender, and when a scheduled collection began.                   *)
Idle == [at |-> "idle", todo |-> <<>>, done |-> 0, time |-> 0, batch |-> {},
         began |-> 0]

(* The bound on all of them together. *)
Bounded == passes + forced + starts < MaxBegun

Begin(a, todo, began) ==
  run' = [run EXCEPT ![a] = [Idle EXCEPT !.at = "next", !.todo = todo, !.began = began]]

Init ==
  /\ now = 1
  /\ db = {} /\ storeOpen = TRUE
  /\ phase = "delay" /\ wakeAt = 1 /\ tick = FALSE /\ passes = 0
  /\ run = [a \in Actors |-> Idle]
  /\ lost = [a \in Actors |-> {}]
  /\ attached = {} /\ forced = 0
  /\ process = "up" /\ starts = 1

-----------------------------------------------------------------------------
(* The manager's goroutine *)

(* The clock.  The ticker's channel holds one tick, the others are dropped.  *)
Second ==
  /\ now < MaxTime
  /\ now' = now + 1
  /\ IF phase \in {"select", "collecting"} /\ now' >= wakeAt
       THEN tick' = TRUE /\ wakeAt' = wakeAt + Interval
       ELSE UNCHANGED <<tick, wakeAt>>
  /\ UNCHANGED <<storeVars, phase, passes, runVars, forceVars, lifeVars>>

(* The delay is over, or there was none: the first collection. *)
FirstCollection ==
  /\ phase = "delay" /\ now >= wakeAt
  /\ passes < MaxPasses /\ passes' = passes + 1 /\ Bounded
  /\ phase' = "first"
  /\ Begin(Loop, Registered, now)
  /\ UNCHANGED <<now, storeVars, lost, wakeAt, tick, forceVars, lifeVars>>

(* case <-ticker.C, also when the stop channel is closed by then: select     *)
(* takes either.                                                             *)
NextCollection ==
  /\ phase = "select" /\ tick
  /\ passes < MaxPasses /\ passes' = passes + 1 /\ Bounded
  /\ tick' = FALSE
  /\ phase' = "collecting"
  /\ Begin(Loop, Registered, now)
  /\ UNCHANGED <<now, storeVars, lost, wakeAt, forceVars, lifeVars>>

(* case <-m.stopCh, of either select. *)
LoopStops ==
  /\ process = "stopping" /\ phase \in {"delay", "select"}
  /\ phase' = "gone"
  /\ UNCHANGED <<now, storeVars, wakeAt, tick, passes, runVars, forceVars, lifeVars>>

(* A mark is a batch of its own, dated when the collection began.  The       *)
(* result of its insert is ignored.                                          *)
RecordMark ==
  \E c \in Commit(storeOpen, db, Batch({MarkWritten}, run[Loop].began, MarkValue)) :
    db' = c.db

(* The end of a scheduled collection: the mark, then back to the loop, with  *)
(* a new ticker after the first one.                                         *)
EndCollection ==
  /\ run[Loop].at = "next" /\ run[Loop].todo = <<>>
  /\ RecordMark
  /\ run' = [run EXCEPT ![Loop] = Idle] /\ lost' = [lost EXCEPT ![Loop] = {}]
  /\ phase' = "select"
  /\ IF phase = "first" THEN wakeAt' = now + Interval /\ tick' = FALSE
                        ELSE UNCHANGED <<wakeAt, tick>>
  /\ UNCHANGED <<now, storeOpen, passes, forceVars, lifeVars>>

-----------------------------------------------------------------------------
(* Collect, whoever runs it *)

Current(a) == Head(run[a].todo)
NextCollector(a) ==
  run' = [run EXCEPT ![a] = [Idle EXCEPT !.at = "next", !.todo = Tail(run[a].todo),
                                         !.began = run[a].began]]

(* Collect calls the gateway.  ConfigCollector looks at the clock before. *)
CallGateway(a) ==
  /\ run[a].at = "next" /\ run[a].todo # <<>>
  /\ run' = [run EXCEPT ![a].at = "calling", ![a].time = now]
  /\ UNCHANGED <<now, storeVars, loopVars, lost, forceVars, lifeVars>>

(* The call failed: Collect returns the error, the next collector runs. *)
GatewayFails(a) ==
  /\ run[a].at = "calling"
  /\ NextCollector(a)
  /\ UNCHANGED <<now, storeVars, loopVars, lost, forceVars, lifeVars>>

(* The call came back; the others look at the clock now. *)
GatewayAnswers(a) ==
  /\ run[a].at = "calling"
  /\ run' = [run EXCEPT ![a].at = "insert",
              ![a].time = IF Current(a) = "ConfigCollector" THEN @ ELSE now]
  /\ UNCHANGED <<now, storeVars, loopVars, lost, forceVars, lifeVars>>

(* Why an insert left out samples of its batch: another reading has their    *)
(* place, and nobody says so; the batch was rolled back because that is true *)
(* of one of its samples; or its commit failed, the store being open or not. *)
Reasons == {"clash", "rollback", "failure", "closed", "none"}
Reason(a, b, after, err) ==
  IF ~err THEN IF b \ after \subseteq Clashing(db, b) THEN "clash" ELSE "none"
  ELSE IF run[a].at = "commit" THEN IF storeOpen THEN "failure" ELSE "closed"
  ELSE IF Clashing(db, b) # {} THEN "rollback" ELSE "none"

(* The collectors drop the error of an insert.  Only ConfigCollector lets it *)
(* end its Collect, which has no other insert, and the report of a forced    *)
(* run says so; runCollection goes on.                                       *)
Reported(a, err) == err /\ a \in Forcers /\ Current(a) = "ConfigCollector"

Insert(a, b, after, err) ==
  lost' = IF b \subseteq after \/ Reported(a, err) THEN lost
          ELSE [lost EXCEPT ![a] = @ \cup
                  {[by |-> Current(a), why |-> Reason(a, b, after, err)]}]

(* The appends of one insert; a batch that is refused is rolled back. *)
AppendBatch(a) ==
  /\ run[a].at = "insert" /\ run[a].done < Len(Inserts(Current(a)))
  /\ \E series \in Inserts(Current(a))[run[a].done + 1], v \in Payloads :
       LET b == Batch(series, run[a].time, v)
           refused == Refuses(db, b)
           held == IF refused THEN {} ELSE b
       IN  /\ IF refused THEN Insert(a, b, db, TRUE) ELSE UNCHANGED lost
           /\ run' = [run EXCEPT ![a].at = IF held = {} THEN "insert" ELSE "commit",
                                 ![a].batch = held, ![a].done = @ + 1]
  /\ UNCHANGED <<now, storeVars, loopVars, forceVars, lifeVars>>

(* CommitBatch with an appender that keeps its samples. *)
CommitBatchKept(a) ==
  /\ run[a].at = "commit"
  /\ \E c \in Commit(storeOpen, db, run[a].batch) :
       /\ db' = c.db
       /\ Insert(a, run[a].batch, c.db, c.err)
       /\ run' = [run EXCEPT ![a].at = "insert"]
  /\ UNCHANGED <<now, storeOpen, loopVars, forceVars, lifeVars>>

CommitBatch(a) ==
  /\ run[a].at = "commit"
  /\ \E c \in Commit(storeOpen, db, run[a].batch) :
       /\ db' = c.db
       /\ Insert(a, run[a].batch, c.db, c.err)
       /\ run' = [run EXCEPT ![a].at = "insert", ![a].batch = {}]
  /\ UNCHANGED <<now, storeOpen, loopVars, forceVars, lifeVars>>

CollectReturns(a) ==
  /\ run[a].at = "insert" /\ run[a].done = Len(Inserts(Current(a)))
  /\ NextCollector(a)
  /\ UNCHANGED <<now, storeVars, loopVars, lost, forceVars, lifeVars>>

Collect(a) ==
  \/ CallGateway(a) \/ GatewayFails(a) \/ GatewayAnswers(a)
  \/ AppendBatch(a) \/ CommitBatch(a) \/ CollectReturns(a)

-----------------------------------------------------------------------------
(* forceRunCollectors: all collectors, or the one that was named.  Nothing   *)
(* keeps it apart from a scheduled collection.                               *)
ForceRun(f) ==
  /\ process = "up" /\ run[f].at = "idle"
  /\ forced < MaxForced /\ forced' = forced + 1 /\ Bounded
  /\ \E todo \in {Registered} \cup {<<Registered[i]>> : i \in DOMAIN Registered} :
       Begin(f, todo, 0)
  /\ attached' = attached \cup {f}
  /\ UNCHANGED <<now, storeVars, loopVars, lost, lifeVars>>

(* After ten seconds the timeout middleware answers 408; the run goes on. *)
RequestTimeout(f) ==
  /\ f \in attached
  /\ attached' = attached \ {f}
  /\ UNCHANGED <<now, storeVars, loopVars, runVars, forced, lifeVars>>

(* The report, delivered if the client still waits. *)
ForceRunReturns(f) ==
  /\ run[f].at = "next" /\ run[f].todo = <<>>
  /\ run' = [run EXCEPT ![f] = Idle] /\ lost' = [lost EXCEPT ![f] = {}]
  /\ attached' = attached \ {f}
  /\ UNCHANGED <<now, storeVars, loopVars, forced, lifeVars>>

-----------------------------------------------------------------------------
(* The process *)

(* StopManager without waiting for the open requests. *)
StopManagerAtOnce ==
  /\ process = "up"
  /\ process' = "stopping"
  /\ UNCHANGED <<now, storeVars, loopVars, runVars, forceVars, starts>>

(* SIGTERM: srv.Shutdown returned, no request being open, and the deferred   *)
(* cm.Stop closed the stop channel.                                          *)
StopManager ==
  /\ process = "up" /\ attached = {}
  /\ process' = "stopping"
  /\ UNCHANGED <<now, storeVars, loopVars, runVars, forceVars, starts>>

(* The deferred st.Close, which waits for nobody. *)
CloseStore ==
  /\ process = "stopping" /\ storeOpen
  /\ storeOpen' = FALSE
  /\ UNCHANGED <<now, db, loopVars, runVars, forceVars, lifeVars>>

(* newRunCmd returns, or the process dies before: a crash, or os.Exit when   *)
(* Shutdown ran into its five seconds.                                       *)
Exit ==
  /\ process # "down"
  /\ process' = "down"
  /\ storeOpen' = FALSE
  /\ phase' = "gone" /\ tick' = FALSE
  /\ run' = [a \in Actors |-> Idle] /\ lost' = [a \in Actors |-> {}]
  /\ attached' = {}
  /\ UNCHANGED <<now, db, wakeAt, passes, forced, starts>>

(* getStartupDelay, at whole seconds. *)
StartupDelay ==
  LET last == LastTime(db, MarkRead)
  IN  IF last = 0 \/ now - last >= Interval THEN 0 ELSE Interval - (now - last)

(* newRunCmd once more: NewStore, and Start with its delay. *)
Restart ==
  /\ process = "down"
  /\ starts < MaxStarts /\ starts' = starts + 1 /\ Bounded
  /\ process' = "up"
  /\ storeOpen' = TRUE
  /\ phase' = "delay" /\ wakeAt' = now + StartupDelay
  /\ UNCHANGED <<now, db, tick, passes, runVars, forceVars>>

Next ==
  \/ Second \/ FirstCollection \/ NextCollection \/ LoopStops \/ EndCollection
  \/ \E a \in Actors : Collect(a)
  \/ \E f \in Forcers : ForceRun(f) \/ RequestTimeout(f) \/ ForceRunReturns(f)
  \/ StopManager \/ CloseStore \/ Exit \/ Restart

Spec == Init /\ [][Next]_vars

-----------------------------------------------------------------------------
Series == {"device", "voltage", "grid", "power", "soe", "price", MarkWritten}
Samples == [s : Series, t : Clock, v : Payloads \cup {MarkValue}]

TypeOK ==
  /\ now \in Clock
  /\ db \subseteq Samples
  /\ storeOpen \in BOOLEAN
  /\ phase \in Phases /\ wakeAt \in 0 .. MaxTime + Interval /\ tick \in BOOLEAN
  /\ passes \in 0 .. MaxPasses /\ forced \in 0 .. MaxForced /\ starts \in 1 .. MaxStarts
  /\ process \in {"up", "stopping", "down"}
  /\ \A a \in Actors :
       /\ run[a].at \in {"idle", "next", "calling", "insert", "commit"}
       /\ run[a].todo \in Seq(Collectors)
       /\ run[a].done \in 0 .. 2
       /\ {run[a].time, run[a].began} \subseteq 0 .. MaxTime
       /\ run[a].batch \subseteq Samples
       /\ run[a].at = "commit" <=> run[a].batch # {}
       /\ lost[a] \subseteq [by : Collectors, why : Reasons]
  /\ phase \in {"first", "collecting"} <=> run[Loop].at # "idle"
  /\ attached \subseteq Forcers

(* A collection mark vouches for its collection as far as the store was      *)
(* able to serve it: when the mark becomes readable, what the collection     *)
(* inserted and a reader does not find was lost to an open store, because    *)
(* its commit failed there, because the batch was rolled back for a sample   *)
(* whose place a different reading had, or because such a reading came       *)
(* between append and commit.  It was not lost to a shutdown or a crash, and *)
(* not for being older than what is stored.  That the first three leave the  *)
(* mark as it is, the collectors and runCollection ignoring what inserts     *)
(* return, is what the code does.                                            *)
MarkCoversCollection ==
  [][Times(db', MarkWritten) # Times(db, MarkWritten)
       => \A l \in lost[Loop] : l.why \in {"clash", "rollback", "failure"}]_vars

(* The report of a forced run that reaches its client calls no collector     *)
(* successful whose readings were lost, except for these reasons: to all of  *)
(* them a clash between append and commit, which the store does not report,  *)
(* and to those that say "Processed ..." whatever the insert returned also a *)
(* failed commit and a batch rolled back.  ConfigCollector owns up to those. *)
Unreported(c) == {"clash"} \cup IF c = "ConfigCollector" THEN {} ELSE {"rollback", "failure"}
ForcedReportHonest ==
  [][\A f \in attached \ attached' :
       process' # "down" /\ run'[f].at = "idle"
         => \A l \in lost[f] : l.why \in Unreported(l.by)]_vars

(* "Delaying first collection based on last poll": after a restart the first *)
(* collection waits until an interval has passed since the last mark.        *)
StartupDelayKept ==
  [][phase = "delay" /\ phase' = "first" /\ LastTime(db, MarkWritten) > 0
       => now - LastTime(db, MarkWritten) >= Interval]_vars
=============================================================================
