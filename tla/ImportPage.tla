----------------------------- MODULE ImportPage -----------------------------
(***************************************************************************)
(* The import section of the settings page (web/src/pages/Settings.tsx)    *)
(* together with the server it talks to (ImportJob): the request that      *)
(* starts an import, the polls of the import's status, each answered on    *)
(* its own and in any order, and what the page concludes from them.        *)
(* Requests the page did not send come from other clients.                 *)
(***************************************************************************)
EXTENDS ImportJob

CONSTANTS
  Polls,       \* status requests that may be under way at the same time
  PageLengths, \* bound: the page is shown if the imports are of these lengths
  MaxRequests, \* bound: imports asked for, losses and a poll under way that is
               \* not the first, together
  MaxLosses    \* bound: requests of the page that fail in the network, and
               \* imports asked for by then

ASSUME PageAssumption ==
  /\ Polls \subseteq Nat /\ PageLengths \subseteq Lengths
  /\ {MaxRequests, MaxLosses} \subseteq Nat

VARIABLES
  page,     \* importing, importStatus?.active, the requests not answered yet,
            \* and what it told the user last
  poll,     \* each status request, with the fields read so far
  losses

pageVars == <<page, poll, losses>>
allVars == <<vars, pageVars>>

(* A poll is sent when the page loads, while it watches somebody's import,   *)
(* or while it is importing: the closure its answer runs in.                 *)
NoPoll == [at |-> "none", why |-> "mount", active |-> FALSE, error |-> FALSE]
PollSent(why) == [NoPoll EXCEPT !.at = "sent", !.why = why]

Asked == {i \in Imports : job[i].at # "new"}

(* Polls are numbered; the first goes along with everything, another one     *)
(* only with few imports and losses.                                         *)
Bounded ==
  \A p \in Polls : poll[p].at # "none" =>
    p = 1 \/ p + Cardinality(Asked) + losses <= MaxRequests

PageInit ==
  /\ Init
  /\ page = [loaded |-> FALSE, importing |-> FALSE, active |-> FALSE,
             asking |-> {}, told |-> "nothing"]
  /\ poll = [p \in Polls |-> NoPoll]
  /\ losses = 0

(* Settings is shown: the first status request. *)
Mount(p) ==
  /\ ~page.loaded /\ page' = [page EXCEPT !.loaded = TRUE]
  /\ \A i \in Imports : job[i].length \in PageLengths
  /\ poll' = [poll EXCEPT ![p] = PollSent("mount")]
  /\ UNCHANGED <<vars, losses>>

(* handleRunImport; an import in progress hides the button. *)
HandleRunImport(i) ==
  /\ page.loaded /\ ~page.importing /\ ~page.active
  /\ Ask(i)
  /\ page' = [page EXCEPT !.importing = TRUE, !.asking = @ \cup {i},
                          !.told = "nothing"]
  /\ UNCHANGED <<poll, losses>> /\ Bounded'

ImportFailed(i) ==
  page' = [page EXCEPT !.asking = @ \ {i}, !.importing = FALSE, !.told = "failed"]

(* "Import Started", or "Import Failed" for a request that was refused. *)
RunAnswered(i) ==
  /\ i \in page.asking /\ job[i].at \notin {"asked", "checked", "starting"}
  /\ IF job[i].at = "refused" THEN ImportFailed(i)
                               ELSE page' = [page EXCEPT !.asking = @ \ {i}]
  /\ UNCHANGED <<vars, poll, losses>>

(* The request or its answer is lost, or answered 408. *)
RunLost(i) ==
  /\ i \in page.asking
  /\ losses < MaxLosses /\ losses' = losses + 1 /\ Cardinality(Asked) <= MaxLosses
  /\ ImportFailed(i)
  /\ UNCHANGED <<vars, poll>> /\ Bounded'

(* The interval's callback; the interval is there while the page imports or  *)
(* knows of an active import.  Nothing waits for the poll before.            *)
SendPoll(p) ==
  /\ page.importing \/ page.active
  /\ poll[p].at = "none"
  /\ poll' = [poll EXCEPT ![p] = PollSent(IF page.importing THEN "importing"
                                                            ELSE "watching")]
  /\ UNCHANGED <<vars, page, losses>>
  /\ Bounded'

(* getImportStatus encodes the status field by field; the page looks at the  *)
(* error of an inactive import only.                                         *)
ReadActive(p) ==
  /\ poll[p].at = "sent"
  /\ poll' = [poll EXCEPT ![p].at = "reading", ![p].active = status.active]
  /\ UNCHANGED <<vars, page, losses>>

ReadError(p) ==
  /\ poll[p].at = "reading"
  /\ poll' = [poll EXCEPT ![p].at = "answered", ![p].error = status.error /\ ~poll[p].active]
  /\ UNCHANGED <<vars, page, losses>>

(* The answer without a word of the end of the import. *)
StatusArrivesLate(p) ==
  /\ poll[p].at = "answered"
  /\ page' = [page EXCEPT !.active = poll[p].active]
  /\ poll' = [poll EXCEPT ![p] = NoPoll]
  /\ UNCHANGED <<vars, losses>>

(* The answer arrives: setImportStatus, and what its closure makes of it. *)
StatusArrives(p) ==
  /\ poll[p].at = "answered"
  /\ page' =
       LET seen == [page EXCEPT !.active = poll[p].active]
       IN  CASE poll[p].why = "mount" -> seen
             [] poll[p].why # "mount" /\ poll[p].active -> [seen EXCEPT !.importing = TRUE]
             [] poll[p].why = "importing" /\ ~poll[p].active ->
                  [seen EXCEPT !.importing = FALSE,
                               !.told = IF poll[p].error THEN "failed" ELSE "finished"]
             [] OTHER -> seen
  /\ poll' = [poll EXCEPT ![p] = NoPoll]
  /\ UNCHANGED <<vars, losses>>

PollLost(p) ==
  /\ poll[p].at # "none"
  /\ losses < MaxLosses /\ losses' = losses + 1 /\ Cardinality(Asked) <= MaxLosses
  /\ poll' = [poll EXCEPT ![p] = NoPoll]
  /\ UNCHANGED <<vars, page>> /\ Bounded'

PageNext ==
  \/ ServerStep /\ UNCHANGED pageVars
  \/ \E i \in Imports : Ask(i) /\ UNCHANGED pageVars /\ Bounded'
  \/ \E i \in Imports : HandleRunImport(i) \/ RunAnswered(i) \/ RunLost(i)
  \/ \E p \in Polls : \/ Mount(p) \/ SendPoll(p) \/ ReadActive(p) \/ ReadError(p)
                      \/ StatusArrives(p) \/ PollLost(p)

PageSpec == PageInit /\ [][PageNext]_allVars

(* Goroutines and timers run, and the server answers the page; of InfluxDB   *)
(* nothing is assumed: its client has no timeout.                            *)
Fairness ==
  /\ \A i \in Imports : /\ WF_allVars(Local(i) /\ UNCHANGED pageVars)
                        /\ WF_allVars(RunAnswered(i))
  /\ \A p \in Polls : WF_allVars(SendPoll(p) \/ ReadActive(p) \/ ReadError(p)
                                 \/ StatusArrives(p))
FairPageSpec == PageSpec /\ Fairness

-----------------------------------------------------------------------------
PageTypeOK ==
  /\ TypeOK
  /\ page \in [loaded : BOOLEAN, importing : BOOLEAN, active : BOOLEAN,
               asking : SUBSET Imports,
               told : {"nothing", "finished", "failed"}]
  /\ \A i \in page.asking : job[i].at # "new"
  /\ \A p \in Polls :
       /\ poll[p].at \in {"none", "sent", "reading", "answered"}
       /\ poll[p].why \in {"mount", "watching", "importing"}
       /\ {poll[p].active, poll[p].error} \subseteq BOOLEAN
  /\ losses \in 0 .. MaxLosses

(* The page does not stay busy: unless an import hangs on InfluxDB, every    *)
(* import it shows ends for it too, and the button comes back, whatever      *)
(* answers were lost, or were overtaken by those of later polls: an answer   *)
(* from before the end that arrives after it makes the page busy once more,  *)
(* and poll again (the polling effect).                                      *)
PageReleased ==
  []<>(~page.importing /\ ~page.active) \/ <>[](\E i \in Imports : job[i].at = "query")
=============================================================================
