------------------------------- MODULE WebApp -------------------------------
(***************************************************************************)
(* The parts of the web interface that do not depend on each other         *)
(* (web/src/App.tsx and the panels under components): what is in view is   *)
(* one of them, from when it is entered until it is left and its state     *)
(* discarded.  The others are not there, and stay at one initial state.    *)
(* Numbers of devices, which collections give and the status page repeats, *)
(* and the configuration, which the server keeps for the pages and the     *)
(* collector for the costs, count as one of them each.                     *)
(***************************************************************************)
EXTENDS CurrentPowerFlow, Labels, ChartZoom, SystemAlerts, EnergyCharts, Tariff, Pages, Devices,
        ConfigCache

CONSTANTS   \* of the dashboard
  Panels, Offered, Configured, MaxClicks, MaxPending, MaxFailures

ASSUME BoardAssumption ==
  /\ Panels \subseteq {"PowerFlow", "BatteryLevel", "GridVoltage", "FanSpeed"}
  /\ "24h" \in Offered /\ None \notin Offered /\ IsFiniteSet(Offered)
  /\ Configured \in Offered \cup {None}
  /\ {MaxClicks, MaxPending, MaxFailures} \subseteq Nat

VARIABLES
  view,
  ctx, paused, cached, page, overrides, panel, asked, clicks, failures   \* of the dashboard

Board == INSTANCE Dashboard WITH Timeframes <- Offered

boardVars == <<ctx, paused, cached, page, overrides, panel, asked, clicks, failures>>
dataViews == <<chartVars, alertVars, energyVars, tariffVars, deviceVars, configVars>>
webVars == <<view, boardVars, flowVars, labelVars, dataViews, zoomVars, pageVars>>

(* One component each; "chart" is the data of a chart, "zoom" its timeframe. *)
Views == {"dashboard", "flow", "labels", "chart", "zoom", "alerts", "energy", "cost",
          "devices", "config", "page"}

In(v) == view = v

WebInit ==
  /\ view \in Views
  /\ Board!Init /\ FlowInit /\ LabelsInit /\ ChartInit /\ ZoomInit
  /\ AlertsInit /\ EnergyInit /\ TariffInit /\ DevicesInit /\ PagesInit
  /\ ConfigInit
  /\ In("dashboard") \/ ~paused
  /\ In("flow") \/ size = CHOOSE s \in Sizes : TRUE
  /\ In("labels") \/ file = CHOOSE f \in Files : TRUE
  /\ In("chart") \/ In("zoom") \/ chart = PowerFlow
  /\ In("zoom") \/ tf = Day
  /\ In("config") \/ kind = "api"
  /\ In("page") \/ (visit = "explorer" /\ load = "shown")

(* A step of the component in view. *)
WebNext ==
  \/ In("dashboard") /\ Board!Next /\ UNCHANGED <<view, flowVars, labelVars, zoomVars, dataViews, pageVars>>
  \/ In("flow")    /\ FlowNext   /\ UNCHANGED <<view, boardVars, labelVars, zoomVars, dataViews, pageVars>>
  \/ In("labels")  /\ LabelsNext /\ UNCHANGED <<view, boardVars, flowVars, zoomVars, dataViews, pageVars>>
  \/ In("zoom")    /\ Moves      /\ UNCHANGED <<view, boardVars, flowVars, labelVars, dataViews, pageVars>>
  \/ In("page")    /\ PagesNext  /\ UNCHANGED <<view, boardVars, flowVars, labelVars, zoomVars, dataViews>>
  \/ UNCHANGED <<view, boardVars, flowVars, labelVars, zoomVars, pageVars>> /\
       \/ In("chart")   /\ Draw /\ UNCHANGED <<alertVars, energyVars, tariffVars, deviceVars, configVars>>
       \/ In("alerts")  /\ AlertsArrive /\ UNCHANGED <<chartVars, energyVars, tariffVars, deviceVars, configVars>>
       \/ In("energy")  /\ EnergyArrives /\ UNCHANGED <<chartVars, alertVars, tariffVars, deviceVars, configVars>>
       \/ In("cost")    /\ Collect /\ UNCHANGED <<chartVars, alertVars, energyVars, deviceVars, configVars>>
       \/ In("devices") /\ DevicesAnswer /\ UNCHANGED <<chartVars, alertVars, energyVars, tariffVars, configVars>>
       \/ In("config")  /\ ConfigNext
                         /\ UNCHANGED <<chartVars, alertVars, energyVars, tariffVars, deviceVars>>

WebFairness ==
  /\ WF_boardVars(In("dashboard") /\ Board!ShowDashboards)
  /\ \A p \in Panels : /\ WF_boardVars(In("dashboard") /\ Board!Refresh(p))
                        /\ \A r \in Board!Ranges : WF_boardVars(In("dashboard") /\ Board!Answer(p, r))
  /\ WF_flowVars(In("flow") /\ Answer) /\ WF_flowVars(In("flow") /\ Frame)
  /\ \A t \in Tabs : /\ WF_labelVars(In("labels") /\ Fetched(t))
                     /\ WF_labelVars(In("labels") /\ SaveRuns(t))
  /\ \A q \in Queries : WF_pageVars(In("page") /\ QueryDone(q))
  /\ \A c \in Collectors : WF_pageVars(In("page") /\ OneDone(c))
  /\ WF_configVars(In("config") /\ CopyAges)
  /\ WF_pageVars(In("page") /\ AllDone) /\ WF_pageVars(In("page") /\ PageDone)

WebSpec == WebInit /\ [][WebNext]_webVars /\ WebFairness

-----------------------------------------------------------------------------
WebTypeOK ==
  view \in Views /\ Board!TypeOK /\ FlowTypeOK /\ LabelsTypeOK /\ ZoomTypeOK /\ PagesTypeOK /\ ConfigTypeOK

(* What a chart shows as its timeframe is what the dashboard holds for it    *)
(* (PanelInStep of Dashboard).                                               *)
PanelInStep == Board!PanelInStep

(* "Only set global timeframe once on mount to prevent snapping back"        *)
(* (NoSnapBack of Dashboard).                                                *)
NoSnapBack == Board!NoSnapBack

(* Late answers do not stay on the dashboard (ChartsCatchUp of Dashboard).   *)
ChartsCatchUp == Board!ChartsCatchUp

(* What a page says is what the server answered, whatever is answered late,  *)
(* refused or lost in between: a clean page of labels shows those it loaded, *)
(* the explorer the answer to the last query, and a collector is marked as   *)
(* working only if it has worked (fetchLabels, handleQuery, handleForceRun). *)
PagesShowAnswers == CleanPageShowsLoaded /\ ExplorerInStep /\ MarkedMeansCollected

(* Nothing stays under way: pages stop waiting and spinning, saves come to   *)
(* an end, and particles leave the list, through every change of readings    *)
(* and of the panel's size and whatever requests fail (fetchData, handleSave,*)
(* handleQuery, handleForceRun, animate).                                    *)
WebSettles ==
  <>[](/\ In("flow") => FlowSettled
       /\ In("labels") => LabelsSettled
       /\ In("page") => PagesSettled)
=============================================================================
