----------------------------- MODULE Dashboard -----------------------------
(***************************************************************************)
(* The dashboard page of the web interface (web/src): the global timeframe *)
(* and its "mixed" mark (TimeframeContext), the timeframes chosen on       *)
(* single panels (Dashboard.tsx), each chart's own timeframe and zoom, and *)
(* the queries it sends when they change and at intervals (utils.ts),      *)
(* which are answered in any order, or fail.                               *)
(*                                                                         *)
(* A step is one event together with the renders and effects it causes:    *)
(* React finishes them before the next event.  Data is named by the range  *)
(* it was asked for.                                                       *)
(***************************************************************************)
EXTENDS Naturals, FiniteSetsExt

CONSTANTS
  Panels,        \* the panels of the dashboard, named by their component
  Timeframes,    \* the choices of the timeframe controls
  Configured,    \* the timeframe the dashboard is configured with, or None
  None,
  MaxClicks,     \* bound: what the user does
  MaxPending,    \* bound: queries of one panel under way
  MaxFailures    \* bound: requests that fail

(* The charts with a default of their own, and the one that keeps its zoom   *)
(* when a timeframe is chosen on it.                                         *)
Default(p) == IF p \in {"GridVoltage", "FanSpeed"} THEN "24h" ELSE None
KeepsZoom == {"PowerFlow"}

Zoomed == "zoomed"              \* the range of a zoomed chart
Ranges == Timeframes \cup {Zoomed}

VARIABLES
  ctx,        \* globalTimeframe and isMixed
  paused,     \* isPaused
  cached,     \* the promise cachedDashboards: "none", "pending", "ready"
  page,       \* where the page is, its isFirstLoad, the callbacks it has
              \* waiting for the dashboards
  overrides,  \* panelTimeframes
  panel,      \* each chart: localTf, prevPropTf, zoom, and the data it draws
  asked,      \* each chart's queries under way, by range
  clicks, failures

vars == <<ctx, paused, cached, page, overrides, panel, asked, clicks, failures>>

NoOverrides == [p \in Panels |-> None]
Unmounted == [local |-> None, prev |-> None, zoom |-> FALSE, data |-> None]
NoQueries == [p \in Panels |-> [r \in Ranges |-> 0]]

Pending(p) == SumFunction(asked[p])

(* The range a chart asks for. *)
Wanted(chart) == IF chart.zoom THEN Zoomed ELSE chart.local

Init ==
  /\ ctx = [global |-> "24h", mixed |-> FALSE]
  /\ paused \in BOOLEAN
  /\ cached = "pending"
  /\ page = [at |-> "loading", first |-> TRUE, loads |-> 1]
  /\ overrides = NoOverrides
  /\ panel = [p \in Panels |-> Unmounted]
  /\ asked = NoQueries
  /\ clicks = 0 /\ failures = 0

-----------------------------------------------------------------------------
(* A chart whose timeframe property changed follows it (useSyncedTimeframe). *)
Sync(chart, timeframe) ==
  IF chart.prev \in {None, timeframe} THEN chart
  ELSE [chart EXCEPT !.local = timeframe, !.prev = timeframe]

Mount(p, timeframe) ==
  [Unmounted EXCEPT !.prev = timeframe,
                    !.local = IF Default(p) = None THEN timeframe ELSE Default(p)]

(* Renders and effects, given what an event has set: overrides are cleared   *)
(* when the mark goes; a chart that wants another range asks for it; and     *)
(* setGlobalTimeframe being a new function whenever the context changes,     *)
(* the page asks for the dashboards again.                                   *)
Render(c, over, charts, pg) ==
  LET kept == IF ctx.mixed /\ ~c.mixed THEN NoOverrides ELSE over
      prop(p) == IF kept[p] = None THEN c.global ELSE kept[p]
      next == [p \in Panels |-> Sync(charts[p], prop(p))]
      asks(p) == Wanted(next[p]) # Wanted(panel[p])
  IN  /\ \A p \in Panels : asks(p) => Pending(p) < MaxPending
      /\ ctx' = c /\ overrides' = kept /\ panel' = next
      /\ asked' = [p \in Panels |-> IF asks(p) THEN [asked[p] EXCEPT ![Wanted(next[p])] = @ + 1]
                                               ELSE asked[p]]
      /\ IF c = ctx THEN page' = pg /\ UNCHANGED cached
         ELSE /\ page' = [pg EXCEPT !.loads = @ + 1]
              /\ cached' = IF cached = "none" THEN "pending" ELSE cached

-----------------------------------------------------------------------------
(* The dashboards *)

DashboardsArrive ==
  /\ cached = "pending" /\ cached' = "ready"
  /\ UNCHANGED <<ctx, paused, page, overrides, panel, asked, clicks, failures>>

(* fetchDashboards fails: its promise is given up, the page stays empty. *)
DashboardsFail ==
  /\ cached = "pending" /\ cached' = "none"
  /\ failures < MaxFailures /\ failures' = failures + 1
  /\ page' = [page EXCEPT !.at = IF @ = "loading" THEN "empty" ELSE @, !.loads = 0]
  /\ UNCHANGED <<ctx, paused, overrides, panel, asked, clicks>>

(* ShowDashboards without isFirstLoad. *)
ShowSnapping ==
  /\ cached = "ready" /\ page.loads > 0
  /\ LET c == IF Configured # None THEN [global |-> Configured, mixed |-> FALSE] ELSE ctx
     IN  Render(c, overrides,
                [p \in Panels |-> IF page.at = "shown" THEN panel[p] ELSE Mount(p, c.global)],
                [at |-> "shown", first |-> TRUE, loads |-> page.loads - 1])
  /\ UNCHANGED <<paused, clicks, failures>>

(* A callback gets them: the panels are shown, and the first time on this    *)
(* mount the configured timeframe becomes the global one.                    *)
ShowDashboards ==
  /\ cached = "ready" /\ page.loads > 0
  /\ LET snap == page.first /\ Configured # None
         c == IF snap THEN [global |-> Configured, mixed |-> FALSE] ELSE ctx
     IN  Render(c, overrides,
                [p \in Panels |-> IF page.at = "shown" THEN panel[p] ELSE Mount(p, c.global)],
                [at |-> "shown", first |-> page.first /\ ~snap, loads |-> page.loads - 1])
  /\ UNCHANGED <<paused, clicks, failures>>

-----------------------------------------------------------------------------
(* The user.  Callbacks of a promise that is there run before the next click.*)
Click ==
  /\ page.at # "away" /\ (cached = "ready" => page.loads = 0)
  /\ clicks < MaxClicks /\ clicks' = clicks + 1
  /\ UNCHANGED failures

ClickPanel(p) == Click /\ page.at = "shown" /\ UNCHANGED paused

(* The global control, which also reacts to the choice that is already made  *)
(* when the dashboard is mixed.                                              *)
PickGlobal(timeframe) ==
  /\ Click
  /\ timeframe # ctx.global \/ ctx.mixed
  /\ Render([global |-> timeframe, mixed |-> FALSE], overrides, panel, page)
  /\ UNCHANGED paused

(* PickPanel that does not tell the dashboard. *)
PickPanelOnly(p, timeframe) ==
  /\ ClickPanel(p) /\ timeframe # panel[p].local
  /\ Render(ctx, overrides,
            [panel EXCEPT ![p].local = timeframe, ![p].zoom = @ /\ p \in KeepsZoom], page)

(* The control of one panel. *)
PickPanel(p, timeframe) ==
  /\ ClickPanel(p) /\ timeframe # panel[p].local
  /\ Render([ctx EXCEPT !.mixed = @ \/ timeframe # ctx.global],
            [overrides EXCEPT ![p] = timeframe],
            [panel EXCEPT ![p].local = timeframe, ![p].zoom = @ /\ p \in KeepsZoom], page)

ZoomIn(p) ==
  /\ ClickPanel(p) /\ ~panel[p].zoom
  /\ Render([ctx EXCEPT !.mixed = TRUE], overrides, [panel EXCEPT ![p].zoom = TRUE], page)

ResetZoom(p) ==
  /\ ClickPanel(p) /\ panel[p].zoom
  /\ Render(ctx, overrides, [panel EXCEPT ![p].zoom = FALSE], page)

TogglePause ==
  /\ Click
  /\ paused' = ~paused
  /\ UNCHANGED <<ctx, cached, page, overrides, panel, asked>>

(* A query of each chart in ps for what it wants now. *)
Query(ps) ==
  /\ page.at = "shown" /\ \A p \in ps : Pending(p) < MaxPending
  /\ asked' = [p \in Panels |-> IF p \in ps THEN [asked[p] EXCEPT ![Wanted(panel[p])] = @ + 1]
                                            ELSE asked[p]]
  /\ UNCHANGED <<ctx, paused, cached, page, overrides, panel>>

ManualRefresh == Click /\ Query(Panels)

(* The page is left and its state with it; the contexts stay. *)
Unmount ==
  /\ asked' = NoQueries /\ overrides' = NoOverrides
  /\ UNCHANGED <<ctx, paused, cached>>

LeaveKeeping == Click /\ Unmount /\ page' = [page EXCEPT !.at = "away", !.loads = 0]
                      /\ UNCHANGED panel
Leave == Click /\ Unmount /\ page' = [page EXCEPT !.at = "away", !.loads = 0]
               /\ panel' = [p \in Panels |-> Unmounted]

Enter ==
  /\ page.at = "away"
  /\ page' = [at |-> "loading", first |-> TRUE, loads |-> 1]
  /\ cached' = IF cached = "none" THEN "pending" ELSE cached
  /\ UNCHANGED <<ctx, paused, overrides, panel, asked, clicks, failures>>

-----------------------------------------------------------------------------
(* The charts' queries *)

(* Refresh as long as there is nothing to draw. *)
RefreshUntilData(p) ==
  ~paused /\ panel[p].data = None /\ Query({p}) /\ UNCHANGED <<clicks, failures>>

(* The interval of useDataRefresh; its callback is that of the last render.  *)
Refresh(p) == ~paused /\ Query({p}) /\ UNCHANGED <<clicks, failures>>

QueryEnds(p, r) ==
  /\ asked[p][r] > 0
  /\ asked' = [asked EXCEPT ![p][r] = @ - 1]
  /\ UNCHANGED <<ctx, paused, cached, page, overrides, clicks>>

(* Whatever has been asked since, an answer is drawn when it comes. *)
Answer(p, r) ==
  /\ QueryEnds(p, r)
  /\ panel' = [panel EXCEPT ![p].data = r]
  /\ UNCHANGED failures

QueryFails(p, r) ==
  /\ QueryEnds(p, r)
  /\ failures < MaxFailures /\ failures' = failures + 1
  /\ UNCHANGED panel

UserStep ==
  \/ \E tf \in Timeframes : PickGlobal(tf) \/ \E p \in Panels : PickPanel(p, tf)
  \/ \E p \in Panels : ZoomIn(p) \/ ResetZoom(p)
  \/ TogglePause \/ ManualRefresh \/ Leave \/ Enter

Next ==
  \/ DashboardsArrive \/ DashboardsFail \/ ShowDashboards
  \/ UserStep
  \/ \E p \in Panels : Refresh(p) \/ \E r \in Ranges : Answer(p, r) \/ QueryFails(p, r)

Spec == Init /\ [][Next]_vars

(* Timers fire and callbacks run, and the server answers every query: after  *)
(* ten seconds its timeout middleware does.                                  *)
FairSpec ==
  /\ Spec
  /\ WF_vars(ShowDashboards)
  /\ \A p \in Panels : WF_vars(Refresh(p)) /\ \A r \in Ranges : WF_vars(Answer(p, r))

-----------------------------------------------------------------------------
Shown == page.at = "shown"

TypeOK ==
  /\ ctx \in [global : Timeframes, mixed : BOOLEAN] /\ paused \in BOOLEAN
  /\ cached \in {"none", "pending", "ready"}
  /\ page \in [at : {"away", "loading", "empty", "shown"}, first : BOOLEAN, loads : Nat]
  /\ overrides \in [Panels -> Timeframes \cup {None}]
  /\ panel \in [Panels -> [local : Timeframes \cup {None}, prev : Timeframes \cup {None},
                           zoom : BOOLEAN, data : Ranges \cup {None}]]
  /\ asked \in [Panels -> [Ranges -> 0 .. MaxPending]]
  /\ clicks \in 0 .. MaxClicks /\ failures \in 0 .. MaxFailures
  /\ \A p \in Panels : Shown <=> panel[p].prev # None

(* What a chart shows as its timeframe is what the dashboard holds for it,   *)
(* the panel's choice or else the global one, through every order of         *)
(* choices, loads and returns; only a chart with a default of its own may    *)
(* still show that (useSyncedTimeframe, panelTimeframes).                    *)
PanelInStep ==
  Shown => \A p \in Panels :
    panel[p].local # (IF overrides[p] = None THEN ctx.global ELSE overrides[p])
      => overrides[p] = None /\ panel[p].local = Default(p)

(* "Only set global timeframe once on mount to prevent snapping back": while *)
(* the panels are shown only the user changes the global timeframe, although *)
(* every change makes the page ask for the dashboards again.                 *)
NoSnapBack ==
  [][Shown /\ ctx'.global # ctx.global => clicks' > clicks]_vars

(* Late answers do not stay: once the user has done what he does (MaxClicks) *)
(* every chart that refreshes ends up, and stays, with the data of the range *)
(* it shows, in whatever order its queries were answered or failed.          *)
ChartsCatchUp ==
  \A p \in Panels :
    <>[](Shown /\ ~paused => panel[p].data = Wanted(panel[p]))
=============================================================================
