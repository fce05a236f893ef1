----------------------------- MODULE ImportJob -----------------------------
(***************************************************************************)
(* Historical imports on the server (internal/api/import.go and            *)
(* RunImport of internal/importer/importer.go): the handler that starts an *)
(* import, the background job that walks the requested range in chunks of  *)
(* a day, the goroutine that receives its progress, and the one            *)
(* ImportStatus that all of them write and getImportStatus reads, without  *)
(* a lock.                                                                 *)
(*                                                                         *)
(* Time is counted in half days, so that a range need not be a whole       *)
(* number of chunks; the start of a range is 0.                            *)
(***************************************************************************)
EXTENDS Integers, FiniteSets

CONSTANTS
  Imports,     \* requests to POST /api/v1/import/run, in the order they are sent
  Lengths      \* end - start of a request, in half days; may be negative

ASSUME ImportAssumption == Imports \subseteq Nat /\ Lengths \subseteq Int

VARIABLES
  status,      \* Api.importStatus; Percentage follows from the two counters
  job,         \* each request: its handler first, then its background job
  recv,        \* each job's progress goroutine
  overlapped   \* history: two imports ran at the same time

vars == <<status, job, recv, overlapped>>

Handling == {"new", "asked", "checked", "starting", "refused"}
Running == {"connect", "chunks", "query", "compact", "closing", "waiting",
            "inactive", "outcome"}
Messages == {"none", "starting", "processing", "completed"}

Chunk == 2                                   \* chunkSize, in half days
TruncDiv(n, d) == IF n >= 0 THEN n \div d ELSE -((-n) \div d)

(* TotalChunks: int(hours / 24) + 1, and int truncates towards zero. *)
TotalWithoutLast(length) == TruncDiv(length, Chunk)
Total(length) == TruncDiv(length, Chunk) + 1

Init ==
  /\ status = [active |-> FALSE, total |-> 0, current |-> 0,
               message |-> "none", error |-> FALSE]
  /\ job \in [Imports -> [at : {"new"}, length : Lengths, next : {0},
                          queried : {{}}, err : {FALSE}]]
  /\ recv = [i \in Imports |-> [at |-> "none", count |-> 0]]
  /\ overlapped = FALSE

JobAt(i, from, to) == job[i].at = from /\ job' = [job EXCEPT ![i].at = to]

-----------------------------------------------------------------------------
(* runImport, the handler *)

Ask(i) ==
  /\ JobAt(i, "new", "asked")
  /\ \A k \in Imports : k < i => job[k].at # "new"
  /\ UNCHANGED <<status, recv, overlapped>>

(* The check for an import in progress, answered 409. *)
CheckActive(i) ==
  /\ JobAt(i, "asked", IF status.active THEN "refused" ELSE "checked")
  /\ UNCHANGED <<status, recv, overlapped>>

(* Only now Active is set ... *)
Activate(i) ==
  /\ JobAt(i, "checked", "starting")
  /\ status' = [status EXCEPT !.active = TRUE]
  /\ UNCHANGED <<recv, overlapped>>

(* ... then the other fields; the job starts and the client is answered. *)
StartJob(i) ==
  /\ JobAt(i, "starting", "connect")
  /\ status' = [status EXCEPT !.total = Total(job[i].length), !.current = 0,
                              !.message = "starting", !.error = FALSE]
  /\ recv' = [recv EXCEPT ![i].at = "receive"]
  /\ overlapped' = (overlapped \/ \E k \in Imports : job[k].at \in Running)

-----------------------------------------------------------------------------
(* RunImport *)

Connect(i) ==
  /\ \/ JobAt(i, "connect", "chunks")
     \/ job[i].at = "connect" /\ job' = [job EXCEPT ![i].at = "closing", ![i].err = TRUE]
  /\ UNCHANGED <<status, recv, overlapped>>

(* chunkStart.Before(end): the progress channel is not buffered, the message *)
(* goes out when the progress goroutine is there to take it.                 *)
NextChunk(i) ==
  /\ job[i].next < job[i].length
  /\ JobAt(i, "chunks", "query")
  /\ recv[i].at = "receive" /\ recv' = [recv EXCEPT ![i].at = "load"]
  /\ UNCHANGED <<status, overlapped>>

(* LastChunkDone as soon as no whole chunk is left. *)
LastChunkSkipped(i) ==
  /\ job[i].next + Chunk > job[i].length
  /\ JobAt(i, "chunks", "compact")
  /\ UNCHANGED <<status, recv, overlapped>>

LastChunkDone(i) ==
  /\ job[i].next >= job[i].length
  /\ JobAt(i, "chunks", "compact")
  /\ UNCHANGED <<status, recv, overlapped>>

(* The queries of a chunk up to its end or the end of the range; those that  *)
(* fail are skipped.  What came back is inserted and the store compacted,    *)
(* errors being ignored.                                                     *)
QueryChunk(i) ==
  LET from == job[i].next
      to == IF from + Chunk > job[i].length THEN job[i].length ELSE from + Chunk
  IN  /\ job[i].at = "query"
      /\ job' = [job EXCEPT ![i].at = "chunks", ![i].next = from + Chunk,
                            ![i].queried = @ \cup from .. (to - 1)]
      /\ UNCHANGED <<status, recv, overlapped>>

(* Flush, whose error is ignored, and CompactOOO, whose error is returned. *)
CompactOOO(i) ==
  /\ job[i].at = "compact"
  /\ \E err \in BOOLEAN : job' = [job EXCEPT ![i].at = "closing", ![i].err = err]
  /\ UNCHANGED <<status, recv, overlapped>>

-----------------------------------------------------------------------------
(* The background job after RunImport, and the progress goroutine *)

(* The job goes on without closing the channel. *)
CloseForgotten(i) ==
  /\ JobAt(i, "closing", "waiting")
  /\ UNCHANGED <<status, recv, overlapped>>

(* close(progress): the progress goroutine, between two messages, ends. *)
CloseProgress(i) ==
  /\ JobAt(i, "closing", "waiting")
  /\ recv[i].at = "receive" /\ recv' = [recv EXCEPT ![i].at = "done"]
  /\ UNCHANGED <<status, overlapped>>

(* <-done *)
Joined(i) ==
  /\ recv[i].at = "done"
  /\ JobAt(i, "waiting", "inactive")
  /\ UNCHANGED <<status, recv, overlapped>>

Deactivate(i) ==
  /\ JobAt(i, "inactive", "outcome")
  /\ status' = [status EXCEPT !.active = FALSE]
  /\ UNCHANGED <<recv, overlapped>>

RecordOutcome(i) ==
  /\ JobAt(i, "outcome", "ended")
  /\ status' = IF job[i].err THEN [status EXCEPT !.error = TRUE]
                             ELSE [status EXCEPT !.message = "completed"]
  /\ UNCHANGED <<recv, overlapped>>

(* CurrentChunk++ is a read and a write. *)
LoadCurrent(i) ==
  /\ recv[i].at = "load"
  /\ recv' = [recv EXCEPT ![i].at = "count", ![i].count = status.current]
  /\ UNCHANGED <<status, job, overlapped>>

StoreCurrent(i) ==
  /\ recv[i].at = "count"
  /\ status' = [status EXCEPT !.current = recv[i].count + 1, !.message = "processing"]
  /\ recv' = [recv EXCEPT ![i] = [at |-> "receive", count |-> 0]]
  /\ UNCHANGED <<job, overlapped>>

(* What the server does without waiting for a client or for InfluxDB. *)
Local(i) ==
  \/ CheckActive(i) \/ Activate(i) \/ StartJob(i)
  \/ Connect(i) \/ NextChunk(i) \/ LastChunkDone(i) \/ CompactOOO(i)
  \/ CloseProgress(i) \/ Joined(i) \/ Deactivate(i) \/ RecordOutcome(i)
  \/ LoadCurrent(i) \/ StoreCurrent(i)

ServerStep == \E i \in Imports : Local(i) \/ QueryChunk(i)
Next == ServerStep \/ \E i \in Imports : Ask(i)

Spec == Init /\ [][Next]_vars

-----------------------------------------------------------------------------
TypeOK ==
  /\ status \in [active : BOOLEAN, total : Int, current : Nat,
                 message : Messages, error : BOOLEAN]
  /\ \A i \in Imports :
       /\ job[i].at \in Handling \cup Running \cup {"ended"}
       /\ job[i].length \in Lengths /\ job[i].next \in Nat
       /\ job[i].queried \subseteq Nat /\ job[i].err \in BOOLEAN
       /\ recv[i].at \in {"none", "receive", "load", "count", "done"}
       /\ recv[i].count \in Nat
       /\ recv[i].at = "done" <=> job[i].at \in {"waiting", "inactive", "outcome", "ended"}
  /\ overlapped \in BOOLEAN

(* The progress bar stays within 100 %: as long as no two imports ran at the *)
(* same time, no more chunks are reported than runImport announced, whatever *)
(* the range, and at the end of an import that did not fail those reported   *)
(* cover its range.  The total may still be one more.                        *)
ProgressWithinTotal ==
  ~overlapped =>
    /\ status.current > 0 => status.current <= status.total
    /\ \A i \in Imports : job[i].at = "waiting" /\ ~job[i].err =>
         Chunk * status.current >= job[i].length

(* "Import completed successfully" is only ever said of an import of which   *)
(* every hour was asked for in some chunk, the last partial day too.         *)
CompletedMeansQueried ==
  LET completed == {i \in Imports : job[i].at = "ended" /\ ~job[i].err}
  IN  /\ status.message = "completed" => completed # {}
      /\ \A i \in completed : job[i].queried = 0 .. (job[i].length - 1)

(* "An import is already in progress": runImport lets no import begin while  *)
(* another one runs.                                                         *)
OneImportAtATime ==
  \A i, k \in Imports : job[i].at \in Running /\ job[k].at \in Running => i = k
=============================================================================
