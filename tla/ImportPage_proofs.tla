------------------------- MODULE ImportPage_proofs -------------------------
(***************************************************************************)
(* Theorems about imports: the job on the server keeps its progress within *)
(* what it announced and completes only what it has asked for, by itself   *)
(* and when the settings page and other clients talk to it.                *)
(***************************************************************************)
EXTENDS ImportPage, TLAPS

-----------------------------------------------------------------------------
(* What is known of one job by itself, and of its progress goroutine *)

Past == {"closing", "waiting", "inactive", "outcome", "ended"}
Joint == {"waiting", "inactive", "outcome", "ended"}

JobType == [at : Handling \cup Running \cup {"ended"}, length : Int, next : Nat,
            queried : SUBSET Nat, err : BOOLEAN]
RecvType == [at : {"none", "receive", "load", "count", "done"}, count : Nat]
StatusType == [active : BOOLEAN, total : Int, current : Nat, message : Messages, error : BOOLEAN]

Least(m, n) == IF m < n THEN m ELSE n

(* The hours asked for are those before the next chunk, and it has walked    *)
(* past the end once it compacts, or ends well.                              *)
JobGood(j) ==
  /\ j.queried = 0 .. (Least(j.next, j.length) - 1)
  /\ j.at \in Handling \cup {"connect"} => j.next = 0
  /\ j.at = "query" => j.next < j.length
  /\ j.at = "compact" \/ (j.at \in Past /\ ~j.err) => j.next >= j.length
  /\ j.at \notin Past => ~j.err

(* Where its progress goroutine is. *)
RecvGood(j, r) ==
  /\ j.at \in Handling <=> r.at = "none"
  /\ j.at \in Joint <=> r.at = "done"

JobInv ==
  /\ status \in StatusType
  /\ job \in [Imports -> JobType] /\ recv \in [Imports -> RecvType]
  /\ \A i \in Imports : JobGood(job[i]) /\ RecvGood(job[i], recv[i])
  /\ status.message = "completed" => \E i \in Imports : job[i].at = "ended" /\ ~job[i].err
  /\ overlapped \in BOOLEAN

LEMMA JobInit == Init => JobInv
<1> SUFFICES ASSUME Init PROVE JobInv
  OBVIOUS
<1>1. status \in StatusType /\ status.message # "completed" /\ overlapped \in BOOLEAN
  <2>1. status = [active |-> FALSE, total |-> 0, current |-> 0,
                  message |-> "none", error |-> FALSE]
    BY DEF Init
  <2>2. "none" \in Messages
    BY DEF Messages
  <2>3. overlapped = FALSE
    BY DEF Init
  <2>4. status \in StatusType
    BY <2>1, <2>2 DEF StatusType
  <2> QED
    BY <2>1, <2>3, <2>4
<1>2. job \in [Imports -> [at : {"new"}, length : Lengths, next : {0},
                           queried : {{}}, err : {FALSE}]]
  BY DEF Init
<1>3. job \in [Imports -> JobType]
  <2>1. ASSUME NEW j \in [at : {"new"}, length : Lengths, next : {0}, queried : {{}}, err : {FALSE}]
        PROVE  j \in JobType
    <3>1. "new" \in Handling \cup Running \cup {"ended"} /\ {} \in SUBSET Nat
      BY DEF Handling
    <3>2. PICK l \in Lengths :
            j = [at |-> "new", length |-> l, next |-> 0, queried |-> {}, err |-> FALSE]
      OBVIOUS
    <3>3. l \in Int /\ 0 \in Nat /\ FALSE \in BOOLEAN
      BY ImportAssumption
    <3> QED
      BY <3>1, <3>2, <3>3, Zenon DEF JobType
  <2> QED
    BY <1>2, <2>1
<1>4. recv = [i \in Imports |-> [at |-> "none", count |-> 0]]
  BY DEF Init
<1>5. recv \in [Imports -> RecvType] /\ \A i \in Imports : recv[i].at = "none"
  BY <1>4 DEF RecvType
<1>6. ASSUME NEW i \in Imports
      PROVE  JobGood(job[i]) /\ RecvGood(job[i], recv[i])
  <2>1. /\ job[i].at = "new" /\ job[i].length \in Int /\ job[i].next = 0
        /\ job[i].queried = {} /\ job[i].err = FALSE
    BY <1>2, ImportAssumption
  <2>2. Least(0, job[i].length) - 1 < 0 /\ Least(0, job[i].length) - 1 \in Int
    BY <2>1 DEF Least
  <2>3. 0 .. (Least(0, job[i].length) - 1) = {}
    BY <2>2
  <2> QED
    BY <1>5, <2>1, <2>3 DEF JobGood, RecvGood, Handling, Past, Joint
<1> QED
  BY <1>1, <1>3, <1>5, <1>6 DEF JobInv

(* A job that becomes j, its goroutine r. *)
LEMMA JobMoves ==
  ASSUME JobInv, status' \in StatusType, overlapped' \in BOOLEAN,
         NEW i \in Imports, NEW j \in JobType, NEW r \in RecvType,
         job' = [job EXCEPT ![i] = j], recv' = [recv EXCEPT ![i] = r],
         JobGood(j), RecvGood(j, r),
         job[i].at # "ended",
         status'.message = "completed" =>
           status.message = "completed" \/ (j.at = "ended" /\ ~j.err)
  PROVE  JobInv'
<1>1. job' \in [Imports -> JobType] /\ recv' \in [Imports -> RecvType]
  BY DEF JobInv
<1>2. \A k \in Imports : /\ job'[k] = IF k = i THEN j ELSE job[k]
                         /\ recv'[k] = IF k = i THEN r ELSE recv[k]
  BY DEF JobInv
<1>3. \A k \in Imports : JobGood(job'[k]) /\ RecvGood(job'[k], recv'[k])
  BY <1>2 DEF JobInv
<1>4. status'.message = "completed" => \E k \in Imports : job'[k].at = "ended" /\ ~job'[k].err
  BY <1>2 DEF JobInv
<1> QED
  BY <1>1, <1>3, <1>4 DEF JobInv

(* A job that goes on to another place. *)
LEMMA JobGoes ==
  ASSUME NEW j \in JobType, NEW a \in Handling \cup Running \cup {"ended"}
  PROVE  LET k == [j EXCEPT !.at = a]
         IN  /\ k \in JobType /\ k.at = a /\ k.length = j.length /\ k.next = j.next
             /\ k.queried = j.queried /\ k.err = j.err
  BY DEF JobType

LEMMA JobPlaces ==
  ASSUME NEW i \in Imports, JobInv
  PROVE  /\ job[i] \in JobType /\ recv[i] \in RecvType
         /\ JobGood(job[i]) /\ RecvGood(job[i], recv[i])
         /\ recv = [recv EXCEPT ![i] = recv[i]] /\ job = [job EXCEPT ![i] = job[i]]
  BY DEF JobInv

LEMMA JobEnters ==
  ASSUME JobInv, NEW i \in Imports, NEW from, NEW to \in Handling \cup Running \cup {"ended"},
         JobAt(i, from, to)
  PROVE  \E j \in JobType :
           /\ job[i].at = from /\ job' = [job EXCEPT ![i] = j]
           /\ j.at = to /\ j.length = job[i].length /\ j.next = job[i].next
           /\ j.queried = job[i].queried /\ j.err = job[i].err
<1> DEFINE j == [job[i] EXCEPT !.at = to]
<1>1. job[i] \in JobType
  BY JobPlaces
<1>2. /\ j \in JobType /\ j.at = to /\ j.length = job[i].length /\ j.next = job[i].next
      /\ j.queried = job[i].queried /\ j.err = job[i].err
  BY <1>1, JobGoes
<1>3. job' = [job EXCEPT ![i] = j] /\ job[i].at = from
  BY DEF JobAt
<1> HIDE DEF j
<1> QED
  BY <1>2, <1>3

(* The same for its goroutine. *)
LEMMA RecvEnters ==
  ASSUME JobInv, NEW i \in Imports, NEW to \in {"none", "receive", "load", "count", "done"},
         recv' = [recv EXCEPT ![i].at = to]
  PROVE  \E r \in RecvType : recv' = [recv EXCEPT ![i] = r] /\ r.at = to /\ r.count = recv[i].count
<1> DEFINE r == [recv[i] EXCEPT !.at = to]
<1>1. recv[i] \in RecvType
  BY JobPlaces
<1>2. r \in RecvType /\ r.at = to /\ r.count = recv[i].count
  BY <1>1 DEF RecvType
<1>3. recv' = [recv EXCEPT ![i] = r]
  OBVIOUS
<1> HIDE DEF r
<1> QED
  BY <1>2, <1>3

(* Steps by which only the place of the job changes. *)
LEMMA PlaceMoves ==
  ASSUME JobInv, status' \in StatusType, overlapped' \in BOOLEAN, recv' = recv,
         NEW i \in Imports, NEW from, NEW to \in Handling \cup Running \cup {"ended"},
         JobAt(i, from, to), from # "ended",
         from \in Handling <=> to \in Handling, from \in Joint <=> to \in Joint,
         to \in Handling \cup {"connect"} => from \in Handling \cup {"connect"},
         to # "query", from \in Past <=> to \in Past,
         to = "compact" => job[i].next >= job[i].length,
         status'.message = "completed" =>
           status.message = "completed" \/ (to = "ended" /\ ~job[i].err)
  PROVE  JobInv'
<1>1. PICK j \in JobType :
         /\ job[i].at = from /\ job' = [job EXCEPT ![i] = j]
         /\ j.at = to /\ j.length = job[i].length /\ j.next = job[i].next
         /\ j.queried = job[i].queried /\ j.err = job[i].err
  BY JobEnters
<1>2. /\ JobGood(job[i]) /\ RecvGood(job[i], recv[i]) /\ recv[i] \in RecvType
      /\ recv' = [recv EXCEPT ![i] = recv[i]]
  BY JobPlaces
<1>3. JobGood(j)
  <2>1. j.at \in Handling \cup {"connect"} => j.next = 0
    BY <1>1, <1>2 DEF JobGood
  <2>2. j.at = "compact" \/ (j.at \in Past /\ ~j.err) => j.next >= j.length
    BY <1>1, <1>2 DEF JobGood
  <2>3. j.at # "query" /\ (j.at \notin Past => ~j.err)
    BY <1>1, <1>2 DEF JobGood
  <2>4. j.queried = 0 .. (Least(j.next, j.length) - 1)
    BY <1>1, <1>2 DEF JobGood
  <2> QED
    BY <2>1, <2>2, <2>3, <2>4 DEF JobGood
<1>4. RecvGood(j, recv[i])
  BY <1>1, <1>2 DEF RecvGood
<1> QED
  BY <1>1, <1>2, <1>3, <1>4, JobMoves

LEMMA QueryChunkGood ==
  ASSUME JobInv, NEW i \in Imports, QueryChunk(i)
  PROVE  JobInv'
<1> DEFINE from == job[i].next
           to == IF from + Chunk > job[i].length THEN job[i].length ELSE from + Chunk
           q == job[i].queried \cup from .. (to - 1)
           j == [job[i] EXCEPT !.at = "chunks", !.next = from + Chunk, !.queried = q]
<1>1. /\ job[i] \in JobType /\ recv[i] \in RecvType /\ JobGood(job[i])
      /\ RecvGood(job[i], recv[i])
      /\ recv = [recv EXCEPT ![i] = recv[i]]
  BY JobPlaces
<1>2. job[i].at = "query" /\ UNCHANGED <<status, recv, overlapped>>
  BY DEF QueryChunk
<1>3. from \in Nat /\ job[i].length \in Int /\ from < job[i].length /\ Chunk = 2
  BY <1>1, <1>2 DEF JobType, JobGood, Chunk
<1>4. to \in Int /\ from < to /\ to = Least(from + Chunk, job[i].length)
  BY <1>3 DEF Least
<1>5. job[i].queried = 0 .. (from - 1)
  BY <1>1, <1>3 DEF JobGood, Least
<1> HIDE DEF from, to
<1>6. q = 0 .. (to - 1)
  BY <1>3, <1>4, <1>5
<1>7. from + Chunk \in Nat /\ q \in SUBSET Nat
  BY <1>3, <1>4, <1>6
<1>8. job' = [job EXCEPT ![i] = j]
  BY DEF QueryChunk, from, to
<1> HIDE DEF q
<1>9. /\ j \in JobType /\ j.at = "chunks" /\ j.next = from + Chunk /\ j.queried = q
      /\ j.length = job[i].length /\ j.err = job[i].err
  <2>1. "chunks" \in Handling \cup Running \cup {"ended"}
    BY DEF Running
  <2> QED
    BY <1>1, <1>7, <2>1 DEF JobType
<1> HIDE DEF j
<1>10. JobGood(j)
  BY <1>1, <1>2, <1>4, <1>6, <1>9 DEF JobGood, Handling, Past
<1>11. RecvGood(j, recv[i])
  BY <1>1, <1>2, <1>9 DEF RecvGood, Handling, Joint
<1>12. status' \in StatusType /\ overlapped' \in BOOLEAN /\ status' = status
  BY <1>2 DEF JobInv
<1> QED
  BY <1>1, <1>2, <1>8, <1>9, <1>10, <1>11, <1>12, JobMoves

(* The two steps that may fail. *)
LEMMA FailsGood ==
  ASSUME JobInv, NEW i \in Imports, NEW err \in BOOLEAN,
         job[i].at = "compact" \/ (job[i].at = "connect" /\ err),
         job' = [job EXCEPT ![i].at = "closing", ![i].err = err],
         UNCHANGED <<status, recv, overlapped>>
  PROVE  JobInv'
<1> DEFINE j == [job[i] EXCEPT !.at = "closing", !.err = err]
<1>1. /\ job[i] \in JobType /\ recv[i] \in RecvType /\ JobGood(job[i])
      /\ RecvGood(job[i], recv[i])
      /\ recv = [recv EXCEPT ![i] = recv[i]]
  BY JobPlaces
<1>2. job' = [job EXCEPT ![i] = j]
  BY Zenon DEF JobInv
<1>3. /\ j \in JobType /\ j.at = "closing" /\ j.next = job[i].next /\ j.err = err
      /\ j.queried = job[i].queried /\ j.length = job[i].length
  <2>1. "closing" \in Handling \cup Running \cup {"ended"}
    BY DEF Running
  <2> QED
    BY <1>1, <2>1 DEF JobType
<1> HIDE DEF j
<1>4. JobGood(j)
  BY <1>1, <1>3 DEF JobGood, Handling, Past
<1>5. RecvGood(j, recv[i])
  BY <1>1, <1>3 DEF RecvGood, Handling, Joint
<1>6. status' \in StatusType /\ overlapped' \in BOOLEAN /\ status' = status
  BY DEF JobInv
<1> QED
  BY <1>1, <1>2, <1>3, <1>4, <1>5, <1>6, JobMoves

(* Steps of the job together with its goroutine. *)
LEMMA BothMove ==
  ASSUME JobInv, status' \in StatusType, overlapped' \in BOOLEAN,
         status'.message = "completed" => status.message = "completed",
         NEW i \in Imports, NEW from \in Handling \cup Running,
         NEW to \in Handling \cup Running,
         NEW at \in {"none", "receive", "load", "count", "done"},
         JobAt(i, from, to), recv' = [recv EXCEPT ![i].at = at],
         to \in Handling <=> at = "none", to \in Joint <=> at = "done",
         to \in Handling \cup {"connect"} => from \in Handling \cup {"connect"},
         to = "query" => job[i].next < job[i].length,
         from \in Past <=> to \in Past, to # "compact"
  PROVE  JobInv'
<1>1. PICK j \in JobType :
         /\ job[i].at = from /\ job' = [job EXCEPT ![i] = j]
         /\ j.at = to /\ j.length = job[i].length /\ j.next = job[i].next
         /\ j.queried = job[i].queried /\ j.err = job[i].err
  BY JobEnters
<1>2. PICK r \in RecvType :
         recv' = [recv EXCEPT ![i] = r] /\ r.at = at /\ r.count = recv[i].count
  BY RecvEnters, Zenon
<1>3. JobGood(job[i])
  BY JobPlaces
<1>4. JobGood(j)
  <2>1. j.at \in Handling \cup {"connect"} => j.next = 0
    BY <1>1, <1>3 DEF JobGood
  <2>2. j.at = "compact" \/ (j.at \in Past /\ ~j.err) => j.next >= j.length
    BY <1>1, <1>3 DEF JobGood
  <2>3. (j.at = "query" => j.next < j.length) /\ (j.at \notin Past => ~j.err)
    BY <1>1, <1>3 DEF JobGood
  <2>4. j.queried = 0 .. (Least(j.next, j.length) - 1)
    BY <1>1, <1>3 DEF JobGood
  <2> QED
    BY <2>1, <2>2, <2>3, <2>4 DEF JobGood
<1>5. RecvGood(j, r)
  BY <1>1, <1>2 DEF RecvGood
<1>6. from # "ended"
  BY DEF Handling, Running
<1> QED
  BY <1>1, <1>2, <1>4, <1>5, <1>6, JobMoves

(* Steps of the goroutine alone. *)
LEMMA ReceiverMoves ==
  ASSUME JobInv, status' \in StatusType, UNCHANGED <<job, overlapped>>,
         status'.message = "completed" => status.message = "completed",
         NEW i \in Imports, NEW r \in RecvType, recv' = [recv EXCEPT ![i] = r],
         recv[i].at \in {"receive", "load", "count"}, r.at \in {"receive", "load", "count"}
  PROVE  JobInv'
<1>1. \A k \in Imports : recv'[k] = IF k = i THEN r ELSE recv[k]
  BY DEF JobInv
<1>2. recv' \in [Imports -> RecvType]
  BY DEF JobInv
<1>3. \A k \in Imports : RecvGood(job[k], recv'[k])
  BY <1>1 DEF JobInv, RecvGood
<1> QED
  BY <1>2, <1>3 DEF JobInv

LEMMA TotalIsInt ==
  ASSUME NEW length \in Int
  PROVE  Total(length) \in Int
  BY DEF Total, TruncDiv, Chunk

(* Steps of the status. *)
LEMMA ActiveSet ==
  ASSUME status \in StatusType, NEW b \in BOOLEAN, status' = [status EXCEPT !.active = b]
  PROVE  /\ status' \in StatusType /\ status'.message = status.message
         /\ status'.current = status.current /\ status'.total = status.total
<1> DEFINE s == status
<1>1. s \in StatusType
  OBVIOUS
<1> HIDE DEF s
<1>2. LET t == [s EXCEPT !.active = b]
      IN  /\ t \in StatusType /\ t.message = s.message
          /\ t.current = s.current /\ t.total = s.total
  BY <1>1 DEF StatusType
<1> QED
  BY <1>2, Zenon DEF s

LEMMA OutcomeSet ==
  ASSUME status \in StatusType, NEW e,
         status' = IF e THEN [status EXCEPT !.error = TRUE] ELSE [status EXCEPT !.message = "completed"]
  PROVE  /\ status' \in StatusType /\ (e => status'.message = status.message)
         /\ status'.current = status.current /\ status'.total = status.total
<1> DEFINE s == status
<1>1. s \in StatusType /\ "completed" \in Messages
  BY DEF Messages
<1> HIDE DEF s
<1>2. LET t == [s EXCEPT !.error = TRUE]
      IN  /\ t \in StatusType /\ t.message = s.message
          /\ t.current = s.current /\ t.total = s.total
  BY <1>1 DEF StatusType
<1>3. LET t == [s EXCEPT !.message = "completed"]
      IN  /\ t \in StatusType /\ t.current = s.current /\ t.total = s.total
  BY <1>1 DEF StatusType
<1> QED
  BY <1>2, <1>3, Zenon DEF s

LEMMA StartSet ==
  ASSUME status \in StatusType, NEW l \in Int,
         status' = [status EXCEPT !.total = l, !.current = 0, !.message = "starting", !.error = FALSE]
  PROVE  /\ status' \in StatusType /\ status'.message = "starting"
         /\ status'.current = 0 /\ status'.total = l
<1> DEFINE s == status
<1>1. s \in StatusType /\ "starting" \in Messages
  BY DEF Messages
<1> HIDE DEF s
<1>2. LET t == [s EXCEPT !.total = l, !.current = 0, !.message = "starting", !.error = FALSE]
      IN  /\ t \in StatusType /\ t.message = "starting"
          /\ t.current = 0 /\ t.total = l
  BY <1>1 DEF StatusType
<1> QED
  BY <1>2, Zenon DEF s

LEMMA CurrentSet ==
  ASSUME status \in StatusType, NEW n \in Nat,
         status' = [status EXCEPT !.current = n, !.message = "processing"]
  PROVE  /\ status' \in StatusType /\ status'.message = "processing"
         /\ status'.current = n /\ status'.total = status.total
<1> DEFINE s == status
<1>1. s \in StatusType /\ "processing" \in Messages
  BY DEF Messages
<1> HIDE DEF s
<1>2. LET t == [s EXCEPT !.current = n, !.message = "processing"]
      IN  /\ t \in StatusType /\ t.message = "processing"
          /\ t.current = n /\ t.total = s.total
  BY <1>1 DEF StatusType
<1> QED
  BY <1>2, Zenon DEF s

(* What the steps make of the status. *)
LEMMA StatusSteps ==
  ASSUME JobInv, NEW i \in Imports
  PROVE  /\ Activate(i) \/ Deactivate(i) \/ RecordOutcome(i) =>
              /\ status' \in StatusType
              /\ status'.current = status.current /\ status'.total = status.total
         /\ Activate(i) \/ Deactivate(i) \/ (RecordOutcome(i) /\ job[i].err) =>
              status'.message = status.message
         /\ StartJob(i) => /\ status' \in StatusType /\ status'.message = "starting"
                           /\ status'.current = 0 /\ status'.total = Total(job[i].length)
         /\ StoreCurrent(i) => /\ status' \in StatusType /\ status'.message = "processing"
                               /\ status'.current = recv[i].count + 1
                               /\ status'.total = status.total
<1>1. status \in StatusType /\ Total(job[i].length) \in Int /\ recv[i].count + 1 \in Nat
  BY TotalIsInt DEF JobInv, JobType, RecvType
<1>2. Activate(i) => /\ status' \in StatusType /\ status'.message = status.message
                     /\ status'.current = status.current /\ status'.total = status.total
  BY <1>1, ActiveSet DEF Activate
<1>3. Deactivate(i) => /\ status' \in StatusType /\ status'.message = status.message
                       /\ status'.current = status.current /\ status'.total = status.total
  BY <1>1, ActiveSet DEF Deactivate
<1>4. RecordOutcome(i) =>
        /\ status' \in StatusType /\ (job[i].err => status'.message = status.message)
        /\ status'.current = status.current /\ status'.total = status.total
  BY <1>1, OutcomeSet DEF RecordOutcome
<1>5. StartJob(i) => /\ status' \in StatusType /\ status'.message = "starting"
                     /\ status'.current = 0 /\ status'.total = Total(job[i].length)
  BY <1>1, StartSet DEF StartJob
<1>6. StoreCurrent(i) => /\ status' \in StatusType /\ status'.message = "processing"
                         /\ status'.current = recv[i].count + 1
                         /\ status'.total = status.total
  BY <1>1, CurrentSet DEF StoreCurrent
<1> QED
  BY <1>2, <1>3, <1>4, <1>5, <1>6

LEMMA JobStep == JobInv /\ [Next]_vars => JobInv'
<1> SUFFICES ASSUME JobInv, [Next]_vars PROVE JobInv'
  OBVIOUS
<1> DEFINE Places == Handling \cup Running \cup {"ended"}
<1>0. /\ status \in StatusType /\ overlapped \in BOOLEAN
      /\ \A i \in Imports : job[i] \in JobType /\ recv[i] \in RecvType
  BY DEF JobInv
<1>1. ASSUME NEW i \in Imports, Ask(i) \/ CheckActive(i) \/ Activate(i)
      PROVE  JobInv'
  <2>1. status' \in StatusType /\ status'.message = status.message
    BY <1>0, <1>1, StatusSteps DEF Ask, CheckActive
  <2>2. recv' = recv /\ overlapped' = overlapped
    BY <1>1 DEF Ask, CheckActive, Activate
  <2>3. PICK from \in Handling, to \in Handling : JobAt(i, from, to)
    BY <1>1 DEF Ask, CheckActive, Activate, Handling
  <2>4. Handling \cap Past = {} /\ Handling \cap Joint = {} /\ Handling \cap {"query", "compact", "ended"} = {}
    BY DEF Handling, Past, Joint
  <2>5. from \in Places /\ to \in Places /\ from # "ended" /\ to \notin {"query", "compact"}
    BY <2>4
  <2>6. (from \in Joint <=> to \in Joint) /\ (from \in Past <=> to \in Past)
    BY <2>4
  <2> QED
    BY <1>0, <2>1, <2>2, <2>3, <2>5, <2>6, PlaceMoves
<1>2. ASSUME NEW i \in Imports, StartJob(i)
      PROVE  JobInv'
  <2>1. status' \in StatusType /\ status'.message = "starting"
    BY <1>2, StatusSteps
  <2>2. JobAt(i, "starting", "connect") /\ recv' = [recv EXCEPT ![i].at = "receive"]
    BY <1>2 DEF StartJob
  <2>3. overlapped' \in BOOLEAN
    BY <1>0, <1>2 DEF StartJob
  <2>4. /\ "starting" \in Handling /\ "connect" \in Running
        /\ {"starting", "connect"} \cap Joint = {} /\ {"starting", "connect"} \cap Past = {}
        /\ "connect" \notin Handling
    BY DEF Handling, Running, Joint, Past
  <2> QED
    BY <2>1, <2>2, <2>3, <2>4, BothMove
<1>3. ASSUME NEW i \in Imports, Connect(i)
      PROVE  JobInv'
  <2>1. CASE JobAt(i, "connect", "chunks")
    <3>1. /\ {"connect", "chunks"} \cap (Joint \cup Past \cup Handling) = {} /\ {"connect", "chunks"} \subseteq Places
      BY DEF Handling, Running, Joint, Past
    <3> QED
      BY <1>0, <1>3, <2>1, <3>1, PlaceMoves DEF Connect
  <2>2. CASE job[i].at = "connect" /\ job' = [job EXCEPT ![i].at = "closing", ![i].err = TRUE]
    BY <1>3, <2>2, FailsGood DEF Connect
  <2> QED
    BY <1>3, <2>1, <2>2 DEF Connect
<1>4. ASSUME NEW i \in Imports, NextChunk(i)
      PROVE  JobInv'
  <2>1. /\ JobAt(i, "chunks", "query") /\ recv' = [recv EXCEPT ![i].at = "load"]
        /\ job[i].next < job[i].length /\ UNCHANGED <<status, overlapped>>
    BY <1>4 DEF NextChunk
  <2>2. /\ {"query", "chunks"} \cap (Joint \cup Past \cup Handling) = {} /\ {"query", "chunks"} \subseteq Running
    BY DEF Handling, Running, Joint, Past
  <2> QED
    BY <1>0, <2>1, <2>2, BothMove
<1>5. ASSUME NEW i \in Imports, LastChunkDone(i)
      PROVE  JobInv'
  <2>1. /\ {"compact", "chunks"} \cap (Joint \cup Past \cup Handling) = {} /\ {"compact", "chunks"} \subseteq Places
    BY DEF Handling, Running, Joint, Past
  <2> QED
    BY <1>0, <1>5, <2>1, PlaceMoves DEF LastChunkDone
<1>6. ASSUME NEW i \in Imports, QueryChunk(i)
      PROVE  JobInv'
  BY <1>6, QueryChunkGood
<1>7. ASSUME NEW i \in Imports, CompactOOO(i)
      PROVE  JobInv'
  BY <1>7, FailsGood DEF CompactOOO
<1>8. ASSUME NEW i \in Imports, CloseProgress(i)
      PROVE  JobInv'
  <2>1. /\ JobAt(i, "closing", "waiting") /\ recv' = [recv EXCEPT ![i].at = "done"]
        /\ UNCHANGED <<status, overlapped>>
    BY <1>8 DEF CloseProgress
  <2>2. /\ {"closing", "waiting"} \subseteq Past /\ {"closing", "waiting"} \subseteq Running
        /\ "waiting" \in Joint /\ {"closing", "waiting"} \cap Handling = {}
    BY DEF Handling, Running, Joint, Past
  <2> QED
    BY <1>0, <2>1, <2>2, BothMove
<1>9. ASSUME NEW i \in Imports, Joined(i) \/ Deactivate(i) \/ RecordOutcome(i)
      PROVE  JobInv'
  <2>1. status' \in StatusType
    BY <1>0, <1>9, StatusSteps DEF Joined
  <2>2. recv' = recv /\ overlapped' = overlapped
    BY <1>9 DEF Joined, Deactivate, RecordOutcome
  <2>3. PICK from \in {"waiting", "inactive", "outcome"}, to \in {"inactive", "outcome", "ended"} :
          /\ JobAt(i, from, to)
          /\ status'.message = "completed" =>
               status.message = "completed" \/ (to = "ended" /\ ~job[i].err)
    <3>1. CASE Joined(i)
      BY <3>1 DEF Joined
    <3>2. CASE Deactivate(i)
      <4>1. JobAt(i, "inactive", "outcome") /\ status'.message = status.message
        BY <3>2, StatusSteps DEF Deactivate
      <4> QED
        BY <4>1
    <3>3. CASE RecordOutcome(i)
      <4>1. JobAt(i, "outcome", "ended") /\ (job[i].err => status'.message = status.message)
        BY <3>3, StatusSteps DEF RecordOutcome
      <4> QED
        BY <4>1
    <3> QED
      BY <1>9, <3>1, <3>2, <3>3
  <2>4. {from, to} \subseteq Joint /\ {from, to} \subseteq Past /\ {from, to} \cap Handling = {}
        /\ {from, to} \subseteq Places /\ from # "ended"
    BY DEF Handling, Running, Joint, Past
  <2>5. to \notin {"connect", "query", "compact"}
    OBVIOUS
  <2> QED
    BY <1>0, <2>1, <2>2, <2>3, <2>4, <2>5, PlaceMoves
<1>10. ASSUME NEW i \in Imports, LoadCurrent(i)
      PROVE  JobInv'
  <2> DEFINE r == [recv[i] EXCEPT !.at = "count", !.count = status.current]
  <2>1. status.current \in Nat
    BY <1>0 DEF StatusType
  <2>2. r \in RecvType /\ r.at = "count"
    BY <1>0, <2>1 DEF RecvType
  <2>3. recv' = [recv EXCEPT ![i] = r]
    BY <1>10, Zenon DEF LoadCurrent, JobInv
  <2>4. recv[i].at = "load" /\ UNCHANGED <<status, job, overlapped>>
    BY <1>10 DEF LoadCurrent
  <2> HIDE DEF r
  <2> QED
    BY <1>0, <2>2, <2>3, <2>4, ReceiverMoves
<1>11. ASSUME NEW i \in Imports, StoreCurrent(i)
      PROVE  JobInv'
  <2> DEFINE r == [at |-> "receive", count |-> 0]
  <2>1. recv[i].count + 1 \in Nat
    BY <1>0 DEF RecvType
  <2>2. status' \in StatusType /\ status'.message = "processing"
    BY <1>11, StatusSteps
  <2>3. r \in RecvType /\ r.at = "receive"
    BY DEF RecvType
  <2>4. recv[i].at = "count" /\ recv' = [recv EXCEPT ![i] = r] /\ UNCHANGED <<job, overlapped>>
    BY <1>11 DEF StoreCurrent
  <2> HIDE DEF r
  <2> QED
    BY <2>2, <2>3, <2>4, ReceiverMoves
<1>12. CASE UNCHANGED vars
  BY <1>12 DEF vars, JobInv
<1> QED
  BY <1>1, <1>2, <1>3, <1>4, <1>5, <1>6, <1>7, <1>8, <1>9, <1>10, <1>11, <1>12
     DEF Next, ServerStep, Local

(* "Completed" is only said of an import that has asked for every hour of    *)
(* its range, for any imports and ranges (RunImport).                        *)
THEOREM CompletedQueried == Spec => []CompletedMeansQueried
<1>1. JobInv => CompletedMeansQueried
  <2> SUFFICES ASSUME JobInv PROVE CompletedMeansQueried
    OBVIOUS
  <2>1. ASSUME NEW i \in Imports, job[i].at = "ended", ~job[i].err
        PROVE  job[i].queried = 0 .. (job[i].length - 1)
    <3>1. JobGood(job[i]) /\ job[i].at \in Past /\ job[i] \in JobType
      BY <2>1 DEF JobInv, Past
    <3>2. job[i].next >= job[i].length /\ job[i].next \in Nat /\ job[i].length \in Int
      BY <2>1, <3>1 DEF JobGood, JobType
    <3>3. Least(job[i].next, job[i].length) = job[i].length
      BY <3>2 DEF Least
    <3> QED
      BY <3>1, <3>3 DEF JobGood
  <2>2. status.message = "completed" => \E i \in Imports : job[i].at = "ended" /\ ~job[i].err
    BY DEF JobInv
  <2> QED
    BY <2>1, <2>2 DEF CompletedMeansQueried
<1> QED
  BY JobInit, JobStep, <1>1, PTL DEF Spec

-----------------------------------------------------------------------------
(* The progress of the one job that runs: each chunk it has gone to is       *)
(* counted, or is on its way to the counter.                                 *)

Pending(r) == IF r.at \in {"load", "count"} THEN 1 ELSE 0
Ahead(j) == IF j.at = "query" THEN Chunk ELSE 0

InStep(j, r, s) ==
  /\ s.total = Total(j.length)
  /\ Chunk * (s.current + Pending(r)) = j.next + Ahead(j)
  /\ s.current + Pending(r) > 0 => Chunk * (s.current + Pending(r) - 1) < j.length
  /\ r.at = "count" => r.count = s.current

ProgressInv ==
  ~overlapped =>
    /\ status.current > 0 => status.current <= status.total
    /\ \A i, k \in Imports : job[i].at \in Running /\ job[k].at \in Running => i = k
    /\ \A i \in Imports : job[i].at \in Running => InStep(job[i], recv[i], status)

LEMMA WithinTotal ==
  ASSUME NEW n \in Nat, n > 0, NEW length \in Int, Chunk * (n - 1) < length
  PROVE  n <= Total(length)
<1>1. length > 0 /\ 2 * (n - 1) < length
  BY DEF Chunk
<1>2. Total(length) = (length \div 2) + 1
  BY <1>1 DEF Total, TruncDiv, Chunk
<1>3. n - 1 <= length \div 2
  BY <1>1
<1>4. length \div 2 \in Int
  BY <1>1
<1> QED
  BY <1>2, <1>3, <1>4

LEMMA ProgressInit == Init => ProgressInv
<1> SUFFICES ASSUME Init PROVE ProgressInv
  OBVIOUS
<1>1. \A i \in Imports : job[i].at = "new"
  BY DEF Init
<1>2. "new" \notin Running /\ status.current = 0
  BY DEF Init, Running
<1> QED
  BY <1>1, <1>2 DEF ProgressInv

(* A step of one import. *)
LEMMA OneSteps ==
  ASSUME JobInv, JobInv', ProgressInv, ~overlapped, NEW i \in Imports,
         \A k \in Imports \ {i} : job'[k] = job[k] /\ recv'[k] = recv[k],
         status'.current > 0 => status'.current <= status'.total,
         job'[i].at \in Running => /\ InStep(job'[i], recv'[i], status')
                                  /\ \A k \in Imports \ {i} : job[k].at \notin Running,
         \/ status'.current = status.current /\ status'.total = status.total
         \/ \A k \in Imports \ {i} : job[k].at \notin Running
  PROVE  ProgressInv'
<1>1. \A k, l \in Imports : job'[k].at \in Running /\ job'[l].at \in Running => k = l
  BY DEF ProgressInv
<1>2. ASSUME NEW k \in Imports, job'[k].at \in Running
      PROVE  InStep(job'[k], recv'[k], status')
  <2>1. CASE k = i
    BY <1>2, <2>1
  <2>2. CASE k # i
    <3>1. job[k].at \in Running /\ InStep(job[k], recv[k], status)
      BY <1>2, <2>2 DEF ProgressInv
    <3>2. status'.current = status.current /\ status'.total = status.total
      BY <2>2, <3>1
    <3> QED
      BY <2>2, <3>1, <3>2 DEF InStep
  <2> QED
    BY <2>1, <2>2
<1> QED
  BY <1>1, <1>2 DEF ProgressInv

(* One of the job while it runs, which leaves the status alone, or its       *)
(* messages.                                                                 *)
LEMMA RunnerSteps ==
  ASSUME JobInv, JobInv', ProgressInv, ~overlapped, NEW i \in Imports,
         \A k \in Imports \ {i} : job'[k] = job[k] /\ recv'[k] = recv[k],
         status'.current = status.current, status'.total = status.total,
         job[i].at \in Running,
         job'[i].at \in Running => InStep(job'[i], recv'[i], status')
  PROVE  ProgressInv'
<1>1. \A k \in Imports \ {i} : job[k].at \notin Running
  BY DEF ProgressInv
<1>2. status'.current > 0 => status'.current <= status'.total
  BY DEF ProgressInv
<1> QED
  BY <1>1, <1>2, OneSteps

(* What JobAt leaves of the others, and of the job. *)
LEMMA JobAtDoes ==
  ASSUME JobInv, NEW i \in Imports, NEW from, NEW to \in Handling \cup Running \cup {"ended"},
         JobAt(i, from, to)
  PROVE  /\ job[i].at = from /\ job'[i].at = to
         /\ job'[i].next = job[i].next /\ job'[i].length = job[i].length
         /\ \A k \in Imports \ {i} : job'[k] = job[k]
<1>1. PICK j \in JobType :
         /\ job[i].at = from /\ job' = [job EXCEPT ![i] = j]
         /\ j.at = to /\ j.length = job[i].length /\ j.next = job[i].next
         /\ j.queried = job[i].queried /\ j.err = job[i].err
  BY JobEnters
<1>2. job'[i] = j /\ \A k \in Imports \ {i} : job'[k] = job[k]
  BY <1>1 DEF JobInv
<1> QED
  BY <1>1, <1>2

LEMMA RecvAtDoes ==
  ASSUME JobInv, NEW i \in Imports, NEW to \in {"none", "receive", "load", "count", "done"},
         recv' = [recv EXCEPT ![i].at = to]
  PROVE  /\ recv'[i].at = to /\ recv'[i].count = recv[i].count
         /\ \A k \in Imports \ {i} : recv'[k] = recv[k]
<1>1. PICK r \in RecvType :
         recv' = [recv EXCEPT ![i] = r] /\ r.at = to /\ r.count = recv[i].count
  BY RecvEnters, Zenon
<1>2. recv'[i] = r /\ \A k \in Imports \ {i} : recv'[k] = recv[k]
  BY <1>1 DEF JobInv
<1> QED
  BY <1>1, <1>2

LEMMA RunningSteps ==
  ASSUME JobInv, JobInv', ProgressInv, ~overlapped, NEW i \in Imports,
         NEW from \in Running, NEW to \in Running \cup {"ended"}, JobAt(i, from, to),
         from # "query", to # "query", recv' = recv,
         status'.current = status.current, status'.total = status.total
  PROVE  ProgressInv'
<1>1. /\ job[i].at = from /\ job'[i].at = to
      /\ job'[i].next = job[i].next /\ job'[i].length = job[i].length
      /\ \A k \in Imports \ {i} : job'[k] = job[k]
  BY JobAtDoes
<1>2. InStep(job[i], recv[i], status)
  BY <1>1 DEF ProgressInv
<1>3. InStep(job'[i], recv'[i], status')
  BY <1>1, <1>2 DEF InStep, Ahead
<1> QED
  BY <1>1, <1>3, RunnerSteps

LEMMA ProgressStep == JobInv /\ ProgressInv /\ [Next]_vars => ProgressInv'
<1> SUFFICES ASSUME JobInv, ProgressInv, [Next]_vars, ~overlapped' PROVE ProgressInv'
  BY DEF ProgressInv
<1>0. JobInv' /\ ~overlapped
  <2>1. JobInv'
    BY JobStep
  <2>2. ~overlapped
    BY DEF Next, ServerStep, Local, Ask, CheckActive, Activate, StartJob, Connect, NextChunk,
           LastChunkDone, QueryChunk, CompactOOO, CloseProgress, Joined, Deactivate,
           RecordOutcome, LoadCurrent, StoreCurrent, vars
  <2> QED
    BY <2>1, <2>2
<1> USE <1>0
<1>a. \A i \in Imports : /\ job[i] \in JobType /\ recv[i] \in RecvType
                        /\ JobGood(job[i]) /\ RecvGood(job[i], recv[i])
  BY DEF JobInv
<1>b. status.current \in Nat
  BY DEF JobInv, StatusType
<1>c. \A i \in Imports : job[i].at \in Running => InStep(job[i], recv[i], status)
  BY DEF ProgressInv
<1>1. ASSUME NEW i \in Imports, Ask(i) \/ CheckActive(i) \/ Activate(i)
      PROVE  ProgressInv'
  <2>1. PICK from \in Handling, to \in Handling : JobAt(i, from, to)
    BY <1>1 DEF Ask, CheckActive, Activate, Handling
  <2>2. job'[i].at \in Handling /\ \A k \in Imports \ {i} : job'[k] = job[k]
    BY <2>1, JobAtDoes
  <2>3. recv' = recv /\ status'.current = status.current /\ status'.total = status.total
    BY <1>1, StatusSteps DEF Ask, CheckActive, Activate
  <2>4. Handling \cap Running = {}
    BY DEF Handling, Running
  <2>5. status'.current > 0 => status'.current <= status'.total
    BY <2>3 DEF ProgressInv
  <2> QED
    BY <2>2, <2>3, <2>4, <2>5, OneSteps
<1>2. ASSUME NEW i \in Imports, StartJob(i)
      PROVE  ProgressInv'
  <2>1. \A k \in Imports : job[k].at \notin Running
    BY <1>2 DEF StartJob
  <2>2. JobAt(i, "starting", "connect") /\ recv' = [recv EXCEPT ![i].at = "receive"]
    BY <1>2 DEF StartJob
  <2>3. status'.current = 0 /\ status'.total = Total(job[i].length)
    BY <1>2, StatusSteps
  <2>4. "connect" \in Running /\ "starting" \in Handling
    BY DEF Running, Handling
  <2>5. /\ job[i].at = "starting" /\ job'[i].at = "connect"
        /\ job'[i].next = job[i].next /\ job'[i].length = job[i].length
        /\ \A k \in Imports \ {i} : job'[k] = job[k]
    BY <2>2, <2>4, JobAtDoes
  <2>6. recv'[i].at = "receive" /\ \A k \in Imports \ {i} : recv'[k] = recv[k]
    BY <2>2, RecvAtDoes
  <2>7. job'[i].next = 0
    BY <1>a, <2>4, <2>5 DEF JobGood
  <2>8. InStep(job'[i], recv'[i], status')
    BY <2>3, <2>5, <2>6, <2>7 DEF InStep, Pending, Ahead, Chunk
  <2> QED
    BY <2>1, <2>3, <2>5, <2>6, <2>8, OneSteps
<1>3. ASSUME NEW i \in Imports, Joined(i) \/ Deactivate(i) \/ RecordOutcome(i)
      PROVE  ProgressInv'
  <2>1. status'.current = status.current /\ status'.total = status.total /\ recv' = recv
    BY <1>3, StatusSteps DEF Joined, Deactivate, RecordOutcome
  <2>2. PICK from \in {"waiting", "inactive", "outcome"}, to \in {"inactive", "outcome", "ended"} :
          JobAt(i, from, to)
    BY <1>3 DEF Joined, Deactivate, RecordOutcome
  <2>3. from \in Running /\ to \in Running \cup {"ended"} /\ from # "query" /\ to # "query"
    BY DEF Running
  <2> QED
    BY <2>1, <2>2, <2>3, RunningSteps
<1>4. ASSUME NEW i \in Imports, LastChunkDone(i) \/ JobAt(i, "connect", "chunks"),
             UNCHANGED <<status, recv>>
      PROVE  ProgressInv'
  <2>1. {"chunks", "compact", "connect"} \subseteq Running
    BY DEF Running
  <2> QED
    BY <1>4, <2>1, RunningSteps DEF LastChunkDone
<1>5. ASSUME NEW i \in Imports, NEW err, job[i].at \in {"connect", "compact"},
             job' = [job EXCEPT ![i].at = "closing", ![i].err = err], UNCHANGED <<status, recv>>
      PROVE  ProgressInv'
  <2> DEFINE j == [job[i] EXCEPT !.at = "closing", !.err = err]
  <2>1. job' = [job EXCEPT ![i] = j]
    BY <1>5, Zenon DEF JobInv
  <2>2. j.at = "closing" /\ j.next = job[i].next /\ j.length = job[i].length
    BY <1>a DEF JobType
  <2> HIDE DEF j
  <2>3. job'[i] = j /\ \A k \in Imports \ {i} : job'[k] = job[k]
    BY <2>1 DEF JobInv
  <2>4. job[i].at \in Running /\ job[i].at # "query"
    BY <1>5 DEF Running
  <2>5. InStep(job'[i], recv'[i], status')
    BY <1>5, <1>c, <2>2, <2>3, <2>4 DEF InStep, Ahead
  <2> QED
    BY <1>5, <2>3, <2>4, <2>5, RunnerSteps
<1>6. ASSUME NEW i \in Imports, NextChunk(i)
      PROVE  ProgressInv'
  <2>1. "chunks" \in Running /\ "query" \in Running
    BY DEF Running
  <2>2. /\ job[i].at = "chunks" /\ job'[i].at = "query"
        /\ job'[i].next = job[i].next /\ job'[i].length = job[i].length
        /\ \A k \in Imports \ {i} : job'[k] = job[k]
    BY <1>6, <2>1, JobAtDoes DEF NextChunk
  <2>3. /\ recv[i].at = "receive" /\ recv'[i].at = "load"
        /\ \A k \in Imports \ {i} : recv'[k] = recv[k]
    BY <1>6, RecvAtDoes DEF NextChunk
  <2>4. job[i].next < job[i].length /\ status' = status
    BY <1>6 DEF NextChunk
  <2>5. InStep(job[i], recv[i], status)
    BY <1>c, <2>1, <2>2
  <2>6. Chunk * status.current = job[i].next /\ status.total = Total(job[i].length)
    BY <1>a, <1>b, <2>2, <2>3, <2>5 DEF InStep, Pending, Ahead, Chunk, JobType
  <2>7. InStep(job'[i], recv'[i], status')
    BY <1>b, <2>2, <2>3, <2>4, <2>6 DEF InStep, Pending, Ahead, Chunk
  <2> QED
    BY <2>1, <2>2, <2>3, <2>4, <2>7, RunnerSteps
<1>7. ASSUME NEW i \in Imports, QueryChunk(i)
      PROVE  ProgressInv'
  <2> DEFINE from == job[i].next
             to == IF from + Chunk > job[i].length THEN job[i].length ELSE from + Chunk
             q == job[i].queried \cup from .. (to - 1)
             j == [job[i] EXCEPT !.at = "chunks", !.next = from + Chunk, !.queried = q]
  <2>1. job' = [job EXCEPT ![i] = j] /\ job[i].at = "query" /\ UNCHANGED <<status, recv>>
    BY <1>7 DEF QueryChunk
  <2> HIDE DEF q
  <2>2. j.at = "chunks" /\ j.next = job[i].next + Chunk /\ j.length = job[i].length
    BY <1>a DEF JobType
  <2> HIDE DEF j
  <2>3. job'[i] = j /\ \A k \in Imports \ {i} : job'[k] = job[k]
    BY <2>1 DEF JobInv
  <2>4. job[i].at \in Running
    BY <2>1 DEF Running
  <2>5. InStep(job[i], recv[i], status)
    BY <1>c, <2>4
  <2>6. job[i].next \in Nat
    BY <1>a DEF JobType
  <2>7. InStep(job'[i], recv'[i], status')
    BY <2>1, <2>2, <2>3, <2>5, <2>6 DEF InStep, Ahead, Chunk
  <2> QED
    BY <2>1, <2>3, <2>4, <2>7, RunnerSteps
<1>8. ASSUME NEW i \in Imports, CloseProgress(i)
      PROVE  ProgressInv'
  <2>1. "closing" \in Running /\ "waiting" \in Running
    BY DEF Running
  <2>2. /\ job[i].at = "closing" /\ job'[i].at = "waiting"
        /\ job'[i].next = job[i].next /\ job'[i].length = job[i].length
        /\ \A k \in Imports \ {i} : job'[k] = job[k]
    BY <1>8, <2>1, JobAtDoes DEF CloseProgress
  <2>3. /\ recv[i].at = "receive" /\ recv'[i].at = "done"
        /\ \A k \in Imports \ {i} : recv'[k] = recv[k]
    BY <1>8, RecvAtDoes DEF CloseProgress
  <2>4. status' = status /\ InStep(job[i], recv[i], status)
    BY <1>8, <1>c, <2>1, <2>2 DEF CloseProgress
  <2>5. InStep(job'[i], recv'[i], status')
    BY <2>2, <2>3, <2>4 DEF InStep, Pending, Ahead
  <2> QED
    BY <2>1, <2>2, <2>3, <2>4, <2>5, RunnerSteps
<1>9. ASSUME NEW i \in Imports, recv[i].at \in {"load", "count"}
      PROVE  job[i].at \in Running /\ InStep(job[i], recv[i], status)
  <2>1. job[i].at \in Handling \cup Running \cup {"ended"} /\ job[i].at \notin Handling \cup Joint
    BY <1>9, <1>a DEF JobType, RecvGood
  <2>2. job[i].at \in Running
    BY <2>1 DEF Joint
  <2> QED
    BY <2>2, <1>c
<1>10. ASSUME NEW i \in Imports, LoadCurrent(i)
       PROVE  ProgressInv'
  <2> DEFINE r == [recv[i] EXCEPT !.at = "count", !.count = status.current]
  <2>1. recv' = [recv EXCEPT ![i] = r]
    BY <1>10, Zenon DEF LoadCurrent, JobInv
  <2>2. r.at = "count" /\ r.count = status.current
    BY <1>a DEF RecvType
  <2> HIDE DEF r
  <2>3. recv'[i] = r /\ \A k \in Imports \ {i} : recv'[k] = recv[k]
    BY <2>1 DEF JobInv
  <2>4. recv[i].at = "load" /\ UNCHANGED <<status, job>>
    BY <1>10 DEF LoadCurrent
  <2>5. InStep(job'[i], recv'[i], status')
    BY <1>9, <2>2, <2>3, <2>4 DEF InStep, Pending
  <2> QED
    BY <1>9, <2>3, <2>4, <2>5, RunnerSteps
<1>11. ASSUME NEW i \in Imports, StoreCurrent(i)
       PROVE  ProgressInv'
  <2> DEFINE r == [at |-> "receive", count |-> 0]
  <2>1. recv[i].at = "count" /\ recv' = [recv EXCEPT ![i] = r] /\ job' = job
    BY <1>11 DEF StoreCurrent
  <2>2. recv'[i] = r /\ \A k \in Imports \ {i} : recv'[k] = recv[k]
    BY <2>1 DEF JobInv
  <2>3. recv'[i].at = "receive"
    BY <2>2
  <2> HIDE DEF r
  <2>4. status'.current = recv[i].count + 1 /\ status'.total = status.total
    BY <1>11, StatusSteps
  <2>5. job[i].at \in Running /\ InStep(job[i], recv[i], status)
    BY <1>9, <2>1
  <2>6. /\ status'.current = status.current + 1 /\ status.total = Total(job[i].length)
        /\ Chunk * (status.current + 1) = job[i].next + Ahead(job[i])
        /\ Chunk * status.current < job[i].length
    BY <1>b, <2>1, <2>4, <2>5 DEF InStep, Pending, Chunk
  <2>7. InStep(job'[i], recv'[i], status')
    BY <1>b, <2>1, <2>3, <2>4, <2>6 DEF InStep, Pending, Chunk
  <2>8. status'.current <= status'.total
    <3>1. job[i].length \in Int
      BY <1>a DEF JobType
    <3> QED
      BY <1>b, <2>4, <2>6, <3>1, WithinTotal DEF Chunk
  <2>9. \A k \in Imports \ {i} : job[k].at \notin Running
    BY <2>5 DEF ProgressInv
  <2> QED
    BY <2>1, <2>2, <2>7, <2>8, <2>9, OneSteps
<1>12. CASE UNCHANGED vars
  BY <1>12 DEF vars, ProgressInv
<1>13. ASSUME NEW i \in Imports, Connect(i) \/ LastChunkDone(i) \/ CompactOOO(i)
       PROVE  ProgressInv'
  <2>1. UNCHANGED <<status, recv>>
    BY <1>13 DEF Connect, LastChunkDone, CompactOOO
  <2> QED
    BY <1>4, <1>5, <1>13, <2>1 DEF Connect, CompactOOO
<1> QED
  BY <1>1, <1>2, <1>3, <1>6, <1>7, <1>8, <1>10, <1>11, <1>12, <1>13 DEF Next, ServerStep, Local

(* As long as no two imports ran at the same time, no more chunks are        *)
(* reported than were announced, and enough of them at the end, for any range,*)
(* also one that is empty or turned around (runImport, RunImport).           *)
THEOREM ProgressKept == Spec => []ProgressWithinTotal
<1>1. JobInv /\ ProgressInv => ProgressWithinTotal
  <2> SUFFICES ASSUME JobInv, ProgressInv, ~overlapped PROVE ProgressWithinTotal
    BY DEF ProgressWithinTotal
  <2>1. status.current > 0 => status.current <= status.total
    BY DEF ProgressInv
  <2>2. ASSUME NEW i \in Imports, job[i].at = "waiting", ~job[i].err
        PROVE  Chunk * status.current >= job[i].length
    <3>1. job[i] \in JobType /\ JobGood(job[i]) /\ RecvGood(job[i], recv[i]) /\ status.current \in Nat
      BY DEF JobInv, StatusType
    <3>2. job[i].next >= job[i].length /\ recv[i].at = "done" /\ job[i].at \in Running
      BY <2>2, <3>1 DEF JobGood, RecvGood, Past, Joint, Running
    <3>3. InStep(job[i], recv[i], status)
      BY <3>2 DEF ProgressInv
    <3>4. Chunk * status.current = job[i].next
      BY <2>2, <3>1, <3>2, <3>3 DEF InStep, Pending, Ahead, Chunk, JobType
    <3> QED
      BY <3>2, <3>4
  <2> QED
    BY <2>1, <2>2 DEF ProgressWithinTotal
<1> QED
  BY JobInit, JobStep, ProgressInit, ProgressStep, <1>1, PTL DEF Spec

-----------------------------------------------------------------------------
(* A step of the page or of another client is one the server offers.         *)
LEMMA StepServed == [PageNext]_allVars => [Next]_vars
<1> SUFFICES ASSUME [PageNext]_allVars PROVE [Next]_vars
  OBVIOUS
<1>1. CASE UNCHANGED allVars
  BY <1>1 DEF allVars
<1>2. ASSUME NEW i \in Imports, HandleRunImport(i) \/ RunAnswered(i) \/ RunLost(i)
      PROVE  [Next]_vars
  BY <1>2 DEF HandleRunImport, RunAnswered, RunLost, Next
<1>3. ASSUME NEW p \in Polls,
             \/ Mount(p) \/ SendPoll(p) \/ ReadActive(p) \/ ReadError(p)
             \/ StatusArrives(p) \/ PollLost(p)
      PROVE  UNCHANGED vars
  BY <1>3 DEF Mount, SendPoll, ReadActive, ReadError, StatusArrives, PollLost
<1> QED
  BY <1>1, <1>2, <1>3 DEF PageNext, Next

(* The page and other clients only ever ask the server for what it offers:   *)
(* with them, it behaves as by itself (handleRunImport, the polling effect). *)
THEOREM PageServed == PageSpec => Spec
<1>1. PageInit => Init
  BY DEF PageInit
<1> QED
  BY <1>1, StepServed, PTL DEF PageSpec, Spec

(* What the page is told of progress and completion is therefore true.       *)
COROLLARY PageToldTrue == PageSpec => [](ProgressWithinTotal /\ CompletedMeansQueried)
  BY PageServed, ProgressKept, CompletedQueried, PTL

-----------------------------------------------------------------------------
(* The types of the page.  Of the server they need that a request keeps its  *)
(* length and never becomes new again.                                       *)

(* A step of the server changes no length, and makes no request a new one.   *)
LEMMA RequestsStay ==
  ASSUME JobInv, [Next]_vars, NEW k \in Imports
  PROVE  /\ job'[k].length = job[k].length
         /\ job[k].at # "new" => job'[k].at # "new"
<1>1. ASSUME NEW i \in Imports, NEW from,
             NEW to \in Handling \cup Running \cup {"ended"}, JobAt(i, from, to), to # "new"
      PROVE  /\ job'[k].length = job[k].length
             /\ job[k].at # "new" => job'[k].at # "new"
  BY <1>1, JobAtDoes
<1>2. ASSUME NEW i \in Imports,
             Ask(i) \/ CheckActive(i) \/ Activate(i) \/ StartJob(i)
             \/ NextChunk(i) \/ LastChunkDone(i) \/ CloseProgress(i) \/ Joined(i)
             \/ Deactivate(i) \/ RecordOutcome(i)
      PROVE  \E from, to \in Handling \cup Running \cup {"ended"} :
               JobAt(i, from, to) /\ to # "new"
  BY <1>2 DEF Ask, CheckActive, Activate, StartJob, NextChunk, LastChunkDone,
              CloseProgress, Joined, Deactivate, RecordOutcome, Handling, Running
<1>3. ASSUME NEW i \in Imports, NEW err,
             job' = [job EXCEPT ![i].at = "closing", ![i].err = err]
      PROVE  /\ job'[k].length = job[k].length
             /\ job[k].at # "new" => job'[k].at # "new"
  <2> DEFINE j == [job[i] EXCEPT !.at = "closing", !.err = err]
  <2>1. job' = [job EXCEPT ![i] = j]
    BY <1>3, Zenon DEF JobInv
  <2>2. j.at = "closing" /\ j.length = job[i].length
    BY DEF JobInv, JobType
  <2> HIDE DEF j
  <2> QED
    BY <2>1, <2>2 DEF JobInv
<1>4. ASSUME NEW i \in Imports, Connect(i)
      PROVE  /\ job'[k].length = job[k].length
             /\ job[k].at # "new" => job'[k].at # "new"
  <2>1. "chunks" \in Running /\ "chunks" # "new"
    BY DEF Running
  <2> QED
    BY <1>1, <1>3, <1>4, <2>1 DEF Connect
<1>5. ASSUME NEW i \in Imports, QueryChunk(i)
      PROVE  /\ job'[k].length = job[k].length
             /\ job[k].at # "new" => job'[k].at # "new"
  <2> DEFINE from == job[i].next
             to == IF from + Chunk > job[i].length THEN job[i].length ELSE from + Chunk
             q == job[i].queried \cup from .. (to - 1)
             j == [job[i] EXCEPT !.at = "chunks", !.next = from + Chunk, !.queried = q]
  <2>1. job' = [job EXCEPT ![i] = j]
    BY <1>5 DEF QueryChunk
  <2> HIDE DEF q
  <2>2. j.at = "chunks" /\ j.length = job[i].length
    BY DEF JobInv, JobType
  <2> HIDE DEF j
  <2> QED
    BY <2>1, <2>2 DEF JobInv
<1>6. ASSUME NEW i \in Imports, LoadCurrent(i) \/ StoreCurrent(i)
      PROVE  job' = job
  BY <1>6 DEF LoadCurrent, StoreCurrent
<1> QED
  BY <1>1, <1>2, <1>3, <1>4, <1>5, <1>6 DEF Next, ServerStep, Local, CompactOOO, vars

(* The page is the only one to set the fields of its polls.                  *)
PollType == [at : {"none", "sent", "reading", "answered"},
             why : {"mount", "watching", "importing"}, active : BOOLEAN, error : BOOLEAN]
PageType == [loaded : BOOLEAN, importing : BOOLEAN, active : BOOLEAN,
             asking : SUBSET Imports,
             told : {"nothing", "finished", "failed"}]

(* What the page waits for has been asked. *)
PageInv ==
  /\ page \in PageType /\ poll \in [Polls -> PollType] /\ losses \in 0 .. MaxLosses
  /\ \A i \in page.asking : job[i].at # "new"
  /\ \A i \in Imports : job[i].length \in Lengths

LEMMA PageStart == PageInit => PageInv
<1> SUFFICES ASSUME PageInit PROVE PageInv
  OBVIOUS
<1>1. /\ page = [loaded |-> FALSE, importing |-> FALSE, active |-> FALSE,
                 asking |-> {}, told |-> "nothing"]
      /\ poll = [p \in Polls |-> NoPoll] /\ losses = 0
  BY DEF PageInit
<1>2. page \in PageType /\ page.asking = {}
  BY <1>1 DEF PageType
<1>3. NoPoll \in PollType
  BY DEF NoPoll, PollType
<1>4. losses \in 0 .. MaxLosses
  BY <1>1, PageAssumption
<1>5. \A i \in Imports : job[i].length \in Lengths
  BY DEF PageInit, Init
<1> QED
  BY <1>1, <1>2, <1>3, <1>4, <1>5 DEF PageInv

(* What a step must keep of the page. *)
PageStays ==
  /\ page' \in PageType /\ poll' \in [Polls -> PollType] /\ losses' \in 0 .. MaxLosses
  /\ page'.asking \subseteq page.asking \cup {k \in Imports : job'[k].at # "new"}

(* Asking for an import, and its answer. *)
LEMMA RunsStay ==
  ASSUME PageInv, JobInv, NEW i \in Imports, HandleRunImport(i) \/ RunAnswered(i) \/ RunLost(i)
  PROVE  PageStays
<1> USE DEF PageStays
<1>0. /\ page \in PageType /\ poll \in [Polls -> PollType] /\ losses \in 0 .. MaxLosses
  BY DEF PageInv
<1>1. ASSUME losses < MaxLosses, losses' = losses + 1
      PROVE  losses' \in 0 .. MaxLosses
  BY <1>0, <1>1, PageAssumption
<1>2. CASE HandleRunImport(i)
  <2>1. page' \in PageType /\ page'.asking = page.asking \cup {i}
    BY <1>0, <1>2 DEF HandleRunImport, PageType
  <2>2. job'[i].at # "new"
    <3>1. JobAt(i, "new", "asked") /\ "asked" \in Handling
      BY <1>2 DEF HandleRunImport, Ask, Handling
    <3> QED
      BY <3>1, JobAtDoes
  <2> QED
    BY <1>0, <1>2, <2>1, <2>2 DEF HandleRunImport
<1>3. CASE RunAnswered(i) \/ RunLost(i)
  <2>1. page' \in PageType /\ page'.asking = page.asking \ {i}
    <3>1. \/ ImportFailed(i)
          \/ page' = [page EXCEPT !.asking = @ \ {i}]
      BY <1>3 DEF RunAnswered, RunLost
    <3> QED
      BY <1>0, <3>1 DEF ImportFailed, PageType
  <2>2. poll' = poll /\ losses' \in 0 .. MaxLosses
    BY <1>0, <1>1, <1>3 DEF RunAnswered, RunLost
  <2> QED
    BY <1>0, <2>1, <2>2
<1> QED
  BY <1>2, <1>3

(* The polls. *)
LEMMA PollsStay ==
  ASSUME PageInv, JobInv, NEW p \in Polls,
         \/ Mount(p) \/ SendPoll(p) \/ ReadActive(p) \/ ReadError(p)
         \/ StatusArrives(p) \/ PollLost(p)
  PROVE  PageStays
<1> USE DEF PageStays
<1>0. /\ page \in PageType /\ poll \in [Polls -> PollType] /\ losses \in 0 .. MaxLosses
      /\ poll[p] \in PollType
  BY DEF PageInv
<1>1. ASSUME losses < MaxLosses, losses' = losses + 1
      PROVE  losses' \in 0 .. MaxLosses
  BY <1>0, <1>1, PageAssumption
<1>2. CASE Mount(p) \/ SendPoll(p)
  <2>1. \A why \in {"mount", "watching", "importing"} : PollSent(why) \in PollType
    BY DEF PollSent, NoPoll, PollType
  <2>2. poll' \in [Polls -> PollType]
    BY <1>0, <1>2, <2>1 DEF Mount, SendPoll
  <2>3. page' \in PageType /\ page'.asking = page.asking
    BY <1>0, <1>2 DEF Mount, SendPoll, PageType
  <2> QED
    BY <1>0, <1>2, <2>2, <2>3 DEF Mount, SendPoll
<1>3. CASE ReadActive(p)
  <2>1. status.active \in BOOLEAN
    BY DEF JobInv, StatusType
  <2> DEFINE r == [poll[p] EXCEPT !.at = "reading", !.active = status.active]
  <2>2. r \in PollType
    BY <1>0, <2>1 DEF PollType
  <2>3. poll' = [poll EXCEPT ![p] = r]
    BY <1>0, <1>3, Zenon DEF ReadActive
  <2> HIDE DEF r
  <2> QED
    BY <1>0, <1>3, <2>2, <2>3 DEF ReadActive
<1>4. CASE ReadError(p)
  <2> DEFINE e == status.error /\ ~poll[p].active
             r == [poll[p] EXCEPT !.at = "answered", !.error = e]
  <2>1. e \in BOOLEAN
    OBVIOUS
  <2>2. poll' = [poll EXCEPT ![p] = r]
    BY <1>0, <1>4, Zenon DEF ReadError
  <2> HIDE DEF e
  <2>3. r \in PollType
    BY <1>0, <2>1 DEF PollType
  <2> HIDE DEF r
  <2> QED
    BY <1>0, <1>4, <2>2, <2>3 DEF ReadError
<1>5. CASE StatusArrives(p)
  <2> DEFINE seen == [page EXCEPT !.active = poll[p].active]
  <2>1. poll[p].active \in BOOLEAN /\ NoPoll \in PollType
    BY <1>0 DEF PollType, NoPoll
  <2>2. seen \in PageType /\ seen.asking = page.asking
    BY <1>0, <2>1 DEF PageType
  <2>3. \/ page' = seen \/ page' = [seen EXCEPT !.importing = TRUE]
        \/ \E told \in {"failed", "finished"} :
             page' = [seen EXCEPT !.importing = FALSE, !.told = told]
    BY <1>5 DEF StatusArrives
  <2> HIDE DEF seen
  <2>4. page' \in PageType /\ page'.asking = page.asking
    BY <2>2, <2>3 DEF PageType
  <2>5. poll' \in [Polls -> PollType] /\ losses' = losses
    BY <1>0, <1>5, <2>1 DEF StatusArrives
  <2> QED
    BY <1>0, <2>4, <2>5
<1>6. CASE PollLost(p)
  <2>1. NoPoll \in PollType
    BY DEF NoPoll, PollType
  <2>2. poll' \in [Polls -> PollType] /\ page' = page /\ losses' \in 0 .. MaxLosses
    BY <1>0, <1>1, <1>6, <2>1 DEF PollLost
  <2> QED
    BY <1>0, <2>2
<1> QED
  BY <1>2, <1>3, <1>4, <1>5, <1>6

LEMMA PageStep == JobInv /\ PageInv /\ [Next]_vars /\ [PageNext]_allVars => PageInv'
<1> SUFFICES ASSUME JobInv, PageInv, [Next]_vars, [PageNext]_allVars PROVE PageInv'
  OBVIOUS
<1>1. \A i \in Imports : job'[i].length \in Lengths
  BY RequestsStay DEF PageInv
<1>2. PageStays
  <2>1. CASE UNCHANGED pageVars
    BY <2>1 DEF pageVars, PageInv, PageStays
  <2> QED
    BY <2>1, RunsStay, PollsStay DEF PageNext, allVars
<1>3. \A i \in page.asking : i \in Imports /\ job'[i].at # "new"
  BY RequestsStay DEF PageInv, PageType
<1> QED
  BY <1>1, <1>2, <1>3 DEF PageInv, PageStays

(* The page, its polls and the server keep their types however requests and  *)
(* answers are lost or overtake each other, and the page waits only for what *)
(* it asked (handleRunImport, the polling effect, runImport).                *)
THEOREM PageTypesKept == PageSpec => []PageTypeOK
<1>1. [PageNext]_allVars => [Next]_vars
  BY StepServed
<1>2. PageInit => JobInv
  BY JobInit DEF PageInit
<1>3. JobInv /\ PageInv => PageTypeOK
  <2> SUFFICES ASSUME JobInv, PageInv PROVE PageTypeOK
    OBVIOUS
  <2>1. TypeOK
    <3>1. ASSUME NEW i \in Imports
          PROVE  /\ job[i].at \in Handling \cup Running \cup {"ended"}
                 /\ job[i].length \in Lengths /\ job[i].next \in Nat
                 /\ job[i].queried \subseteq Nat /\ job[i].err \in BOOLEAN
                 /\ recv[i].at \in {"none", "receive", "load", "count", "done"}
                 /\ recv[i].count \in Nat
                 /\ recv[i].at = "done" <=>
                      job[i].at \in {"waiting", "inactive", "outcome", "ended"}
      BY DEF JobInv, PageInv, JobType, RecvType, RecvGood, Joint
    <3>2. /\ status \in [active : BOOLEAN, total : Int, current : Nat,
                         message : Messages, error : BOOLEAN]
          /\ overlapped \in BOOLEAN
      BY DEF JobInv, StatusType
    <3> QED
      BY <3>1, <3>2 DEF TypeOK
  <2>2. \A p \in Polls : /\ poll[p].at \in {"none", "sent", "reading", "answered"}
                         /\ poll[p].why \in {"mount", "watching", "importing"}
                         /\ {poll[p].active, poll[p].error} \subseteq BOOLEAN
    BY DEF PageInv, PollType
  <2> QED
    BY <2>1, <2>2 DEF PageInv, PageTypeOK, PageType
<1> QED
  BY <1>1, <1>2, <1>3, PageStart, PageStep, JobStep, PTL DEF PageSpec
=============================================================================
