-------------------------------- MODULE Pages --------------------------------
(***************************************************************************)
(* The pages of the web interface that ask the server once, or when told   *)
(* to (web/src): the system's status, the costs, which need the            *)
(* configuration of the site (ConfigContext), the details of one chart,    *)
(* the data explorer, and the page for troubleshooting.                    *)
(*                                                                         *)
(* One visit to one page is followed; leaving it discards what it holds.   *)
(* Answers of the server come in any order.                                *)
(***************************************************************************)
EXTENDS Naturals, FiniteSets

CONSTANTS
  Collectors,   \* those the server runs, and the page lists
  Queries,      \* what is asked in the explorer and in the debugger
  None,
  MaxAsks,      \* bound: what the user asks for
  MaxErrors     \* bound: requests that fail

ASSUME PagesAssumption ==
  /\ None \notin Queries /\ Queries # {} /\ {MaxAsks, MaxErrors} \subseteq Nat

VARIABLES
  visit,       \* the page
  load,        \* what is fetched on entering: "loading", "shown", "missing"
  explorer,    \* Explorer: error and resultData, by their query, loading, and
               \* (history) the last query, and whether two were under way
  pending,     \* the explorer's queries under way
  marks,       \* Troubleshoot: collectorResults
  running,     \* runs of collectors under way: of one, and runningAll
  collected,   \* history: collectors that have worked since the page is there
  debug,       \* selectedQuery, the query under way, and the one of queryResult
  bundling,    \* bundling
  asks, errors

pageVars == <<visit, load, explorer, pending, marks, running, collected, debug,
              bundling, asks, errors>>
explorerVars == <<explorer, pending>>
troubleVars == <<marks, running, collected, debug, bundling>>

Fetching == {"status", "cost", "detail"}
Visits == Fetching \cup {"explorer", "troubleshoot"}

PagesInit ==
  /\ visit \in Visits
  /\ load \in (IF visit \in Fetching THEN {"loading"} ELSE {"shown"})
            \cup (IF visit = "detail" THEN {"shown"} ELSE {})
  /\ explorer = [error |-> None, result |-> None, loading |-> FALSE, last |-> None, mixed |-> FALSE]
  /\ pending = [q \in Queries |-> 0]
  /\ marks = [c \in Collectors |-> [ran |-> FALSE, success |-> FALSE]]
  /\ running = [one |-> [c \in Collectors |-> 0], all |-> FALSE]
  /\ collected = {}
  /\ debug = [selected |-> CHOOSE q \in Queries : TRUE, asked |-> None, result |-> None]
  /\ bundling = FALSE
  /\ asks = 0 /\ errors = 0

Ask == asks < MaxAsks /\ asks' = asks + 1 /\ UNCHANGED <<visit, errors>>
Answered == UNCHANGED <<visit, asks, errors>>
Failed == errors < MaxErrors /\ errors' = errors + 1 /\ UNCHANGED <<visit, asks>>

-----------------------------------------------------------------------------
(* Fetched on entering, unless the panel of a chart came with the link.  The *)
(* status page shows any answer; the configuration has to be one that is ok, *)
(* and a chart one that the dashboards name.                                 *)

PageFetchArrives ==
  /\ load = "loading" /\ Answered
  /\ load' = "shown" \/ (visit = "detail" /\ load' = "missing")
  /\ UNCHANGED <<explorerVars, troubleVars>>

PageFetchFails ==
  /\ load = "loading" /\ load' = "missing" /\ Failed
  /\ UNCHANGED <<explorerVars, troubleVars>>

-----------------------------------------------------------------------------
(* Explorer *)

(* HandleQuery that keeps the error. *)
HandleQueryKeeping(q) ==
  /\ visit = "explorer" /\ Ask
  /\ explorer' = [explorer EXCEPT !.loading = TRUE, !.last = q,
                                  !.mixed = @ \/ \E r \in Queries : pending[r] > 0]
  /\ pending' = [pending EXCEPT ![q] = @ + 1]
  /\ UNCHANGED <<load, troubleVars>>

(* The button waits for loading to end; the Enter key does not. *)
HandleQuery(q) ==
  /\ visit = "explorer" /\ Ask
  /\ explorer' = [explorer EXCEPT !.loading = TRUE, !.error = None, !.last = q,
                                  !.mixed = @ \/ \E r \in Queries : pending[r] > 0]
  /\ pending' = [pending EXCEPT ![q] = @ + 1]
  /\ UNCHANGED <<load, troubleVars>>

QueryEnds(q) ==
  /\ pending[q] > 0 /\ pending' = [pending EXCEPT ![q] = @ - 1]
  /\ UNCHANGED <<load, troubleVars>>

QueryAnswered(q) ==
  /\ QueryEnds(q) /\ Answered
  /\ explorer' = [explorer EXCEPT !.result = q, !.loading = FALSE]

(* QueryFails that goes on waiting. *)
QueryFailsWaiting(q) ==
  /\ QueryEnds(q) /\ Failed
  /\ explorer' = [explorer EXCEPT !.error = q, !.result = None]

(* An answer that is an error, or none. *)
QueryFails(q) ==
  /\ QueryEnds(q) /\ Failed
  /\ explorer' = [explorer EXCEPT !.error = q, !.result = None, !.loading = FALSE]

(* The query of what the page shows. *)
ShownQuery == IF explorer.error # None THEN explorer.error ELSE explorer.result

-----------------------------------------------------------------------------
(* Troubleshoot: forced runs *)

Trouble == visit = "troubleshoot" /\ UNCHANGED <<load, explorerVars>>

RunOne(c) ==
  /\ Trouble /\ Ask /\ ~running.all
  /\ running' = [running EXCEPT !.one[c] = @ + 1]
  /\ UNCHANGED <<marks, collected, debug, bundling>>

RunAll ==
  /\ Trouble /\ Ask /\ ~running.all
  /\ running' = [running EXCEPT !.all = TRUE]
  /\ UNCHANGED <<marks, collected, debug, bundling>>

(* OneEnds that takes every answer for a success, as its notification does. *)
OneEndsWell(c, success) ==
  /\ running.one[c] > 0 /\ running' = [running EXCEPT !.one[c] = @ - 1]
  /\ marks' = [marks EXCEPT ![c] = [ran |-> TRUE, success |-> TRUE]]
  /\ collected' = collected \cup IF success THEN {c} ELSE {}
  /\ Trouble /\ Answered /\ UNCHANGED <<debug, bundling>>

(* The answer is the result, or an object with an error: no collector of     *)
(* this name, or none at all.                                                *)
OneEnds(c, success) ==
  /\ running.one[c] > 0 /\ running' = [running EXCEPT !.one[c] = @ - 1]
  /\ marks' = [marks EXCEPT ![c] = [ran |-> TRUE, success |-> success]]
  /\ collected' = collected \cup IF success THEN {c} ELSE {}
  /\ Trouble /\ Answered /\ UNCHANGED <<debug, bundling>>

(* No answer, or "timeout", while the run goes on. *)
OneLost(c) ==
  /\ running.one[c] > 0 /\ running' = [running EXCEPT !.one[c] = @ - 1]
  /\ collected' \in {collected, collected \cup {c}}
  /\ Trouble /\ Failed /\ UNCHANGED <<marks, debug, bundling>>

(* The report has a result of every collector and replaces all of them. *)
AllEnds(worked) ==
  /\ running.all /\ running' = [running EXCEPT !.all = FALSE]
  /\ marks' = [c \in Collectors |-> [ran |-> TRUE, success |-> c \in worked]]
  /\ collected' = collected \cup worked
  /\ Trouble /\ Answered /\ UNCHANGED <<debug, bundling>>

(* No report: lost, late, or collection is disabled. *)
AllFails ==
  /\ running.all /\ running' = [running EXCEPT !.all = FALSE]
  /\ \E worked \in SUBSET Collectors : collected' = collected \cup worked
  /\ Trouble /\ Failed /\ UNCHANGED <<marks, debug, bundling>>

-----------------------------------------------------------------------------
(* Troubleshoot: the debugger and the bundle *)

SelectQuery(q) ==
  /\ Trouble /\ Ask /\ q # debug.selected /\ debug' = [debug EXCEPT !.selected = q]
  /\ UNCHANGED <<marks, running, collected, bundling>>

RunQuery ==
  /\ Trouble /\ Ask /\ debug.asked = None
  /\ debug' = [debug EXCEPT !.asked = debug.selected]
  /\ UNCHANGED <<marks, running, collected, bundling>>

(* An answer that is JSON is shown; the old one stays otherwise. *)
RunQueryEnds ==
  /\ Trouble /\ debug.asked # None
  /\ \/ debug' = [debug EXCEPT !.asked = None, !.result = debug.asked] /\ Answered
     \/ debug' = [debug EXCEPT !.asked = None] /\ Failed
  /\ UNCHANGED <<marks, running, collected, bundling>>

DownloadBundle ==
  /\ Trouble /\ Ask /\ ~bundling /\ bundling' = TRUE
  /\ UNCHANGED <<marks, running, collected, debug>>

BundleEnds ==
  /\ Trouble /\ bundling /\ bundling' = FALSE /\ (Answered \/ Failed)
  /\ UNCHANGED <<marks, running, collected, debug>>

PagesNext ==
  \/ PageFetchArrives \/ PageFetchFails
  \/ \E q \in Queries : \/ HandleQuery(q) \/ QueryAnswered(q) \/ QueryFails(q)
                        \/ SelectQuery(q)
  \/ \E c \in Collectors : \/ RunOne(c) \/ OneLost(c)
                           \/ \E success \in BOOLEAN : OneEnds(c, success)
  \/ RunAll \/ AllFails \/ \E worked \in SUBSET Collectors : AllEnds(worked)
  \/ RunQuery \/ RunQueryEnds \/ DownloadBundle \/ BundleEnds

PagesSpec == PagesInit /\ [][PagesNext]_pageVars

(* What comes of itself: the server answers within ten seconds, if only that *)
(* it will not.                                                              *)
QueryDone(q) == QueryAnswered(q) \/ QueryFails(q)
OneDone(c) == OneLost(c) \/ \E success \in BOOLEAN : OneEnds(c, success)
AllDone == AllFails \/ \E worked \in SUBSET Collectors : AllEnds(worked)
PageDone == PageFetchArrives \/ PageFetchFails \/ RunQueryEnds \/ BundleEnds

-----------------------------------------------------------------------------
PagesTypeOK ==
  /\ visit \in Visits /\ load \in {"loading", "shown", "missing"}
  /\ explorer \in [error : Queries \cup {None}, result : Queries \cup {None},
                   loading : BOOLEAN, last : Queries \cup {None}, mixed : BOOLEAN]
  /\ pending \in [Queries -> 0 .. MaxAsks]
  /\ marks \in [Collectors -> [ran : BOOLEAN, success : BOOLEAN]]
  /\ running \in [one : [Collectors -> 0 .. MaxAsks], all : BOOLEAN]
  /\ collected \subseteq Collectors
  /\ debug \in [selected : Queries, asked : Queries \cup {None}, result : Queries \cup {None}]
  /\ bundling \in BOOLEAN /\ asks \in 0 .. MaxAsks /\ errors \in 0 .. MaxErrors

(* The explorer shows the answer to the last query or its error, and no      *)
(* other, as long as no query is begun while another is under way, as the    *)
(* Enter key allows.                                                         *)
ExplorerInStep ==
  ~explorer.mixed /\ (\A q \in Queries : pending[q] = 0) => ShownQuery = explorer.last

(* A collector that is marked as working has worked since the page is there, *)
(* whatever the order in which runs of one and of all are answered, refused  *)
(* or lost; the notification says so of every answer.                        *)
MarkedMeansCollected == \A c \in Collectors : marks[c].success => c \in collected

(* Nothing the user waits for is under way. *)
PagesSettled ==
  /\ load # "loading" /\ ~explorer.loading
  /\ ~running.all /\ debug.asked = None /\ ~bundling
=============================================================================
