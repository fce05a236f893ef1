# power-dash in TLA+

Formal models of [power-dash](https://github.com/ygelfand/power-dash), a self-hosted
dashboard for a Tesla Powerwall: a Go process that collects readings from the gateway
into an embedded time series database and serves them, together with a React
interface, over HTTP. Paths below are relative to the repository. The models are TLA+
modules checked by TLC on small instances; what holds for every value of the constants
is proved with TLAPS (`*_proofs.tla`).

`tlc -config MCIngest.cfg MCIngest` runs one check, `tlapm GatewayAuth_proofs.tla`
checks one module of proofs. `PROJECT.json` says which definition models which lines.

## 1. The system

| Part | Code | State it keeps | Operations | Interacts with |
|---|---|---|---|---|
| Gateway client, login | `internal/powerwall/baseapi.go` | `authToken`, the semaphore `authSem` | `MakeAPIRequest` with retries, `refreshAuthToken`, `GetAuthHeaders` | the gateway; called by collectors, status handlers, the reverse proxy (`internal/api/proxy.go`) |
| Gateway client, TEDAPI | `internal/powerwall/tedapi.go`, `update.go` | `connectionMode`, `Din`, key | queries, signing, connectivity check | the gateway; collectors, debug and connect commands |
| Collection manager | `internal/collector/manager.go` | ticker, stop channel, `isCollecting` | `Start`, `runCollection`, `ForceRun`, `ForceRunOne`, `Stop` | collectors, store, API |
| Collectors | `internal/collector/*.go` | the configuration cached by `ConfigCollector` | `Collect`, `getCurrentRate` | gateway client, store |
| Sample store | `internal/store/store.go` | a Prometheus TSDB | the `Insert...` methods, `Select`, `GetLastTimestamp`, ... | collectors, importer, API |
| Settings | `internal/config/settings.go`, `internal/api/query.go`, `internal/cli/{root,run}.go` | the YAML file; options read at start | `getSettings`, `saveSettings` | viper, the settings page |
| Labels | `internal/config/labels.go`, `internal/api/labels.go`, `web/src/pages/Labels.tsx` | a YAML file and a copy under a lock; the form of each tab | load, save, edit | charts, which show the names |
| Imports | `internal/api/import.go`, `internal/importer/importer.go` | one `ImportStatus` for all | `runImport`, its two goroutines, `getImportStatus` | InfluxDB, store, the settings page |
| Configuration caches | `internal/api/system_config.go`, `internal/collector/config.go` | the configuration and its age, twice | `getConfig`, `Collect` | gateway client, pages of costs and status |
| Dashboard page | `web/src/pages/Dashboard.tsx`, `web/src/utils.ts`, `web/src/data.ts`, the contexts | global and per-panel timeframes, zoom, data of each chart | choices, refreshes, queries | `POST /api/v1/query`, `GET /api/v1/dashboards` |
| Charts and their panel | `web/src/components/charts/*.tsx`, `ChartPanel.tsx`, `BaseChart.tsx` | timeframe, zoom, the visible range, the columns drawn | queries, selection, earlier, later, reset | store, labels, dashboard |
| Power flowing now | `web/src/components/charts/CurrentPowerFlow.tsx` | values, particles | a query every 15 s, frames, resizes | store, grid status |
| Other pages | `web/src/pages/{Status,Cost,Explorer,Troubleshoot,Detail}.tsx` | what they fetched, queries and forced runs under way | fetch, query, force a run, download | the handlers of the server |
| Settings page | `web/src/pages/Settings.tsx` | the form, `importing`, `importStatus` | edit, save, run an import, poll its status | settings and import handlers |
| Onboarding | `internal/cli/connect/**`, `internal/fleet` | token file, key files, a callback server | `connect auth`, `connect keys list/add/remove` | Tesla's fleet API, the gateway |
| Process | `internal/cli/run.go` | - | start, SIGTERM, deferred `Stop` and `Close` | everything above |

Further parts (PromQL handlers, debug commands, generated protobuf code) are listed in
`PROJECT.json` with the reason they are left out.

### What is hard about it

* **Shared variables without locks.** `authToken`, `importStatus` and the fields of
  `ConfigCollector` are read and written by several goroutines. The models take every
  read and write of these as a step.
* **Failure is mostly silent.** Collectors drop the store's errors, the importer skips
  queries that fail, the pages retry little. What a mark, a report, a row or
  "completed" still vouches for is the subject of most properties.
* **Order.** Polls and chart queries are sent on timers, whether or not the last one
  was answered, and each answer is applied when it comes. Tabs save all they loaded,
  whoever saved meanwhile.
* **Agreement at a distance.** Names are computed apart from the columns they stand
  for, rows apart from the series they show, the axis apart from the query, the rate
  of the moment apart from the schedule.
* **Files shared by processes.** The connect commands read, write and create the token
  file and the key files without locks, and are interrupted by their user.
* **Restarts and shutdown.** Marks, settings, labels and samples outlive the process;
  shutdown waits for requests but not for collections; a file is empty between
  truncation and write.
* **Waiting.** Nothing that talks to the gateway or to InfluxDB has a timeout; an
  import joins two goroutines over unbuffered channels.
* **Edges.** Chunks of days from truncated hours; buckets aligned to local time;
  integrals over gaps; seasons around the turn of the year, periods around midnight.

What makes each part correct is said with its module in section 3; the hazards, line
by line and with the properties that cover them, are in `PROJECT.json`.

## 2. Plan

The order in which the modules were written, most important first: the login of the
gateway client; collection and its marks; range queries; imports on the server, then
with their page; settings; the dashboard; onboarding; labels; the caches of the
configuration; the rate of the moment; devices; charts, panels and the other pages.

How they compose: `Ingest` runs its collections over `SampleStore`; `ImportPage`
extends `ImportJob` and talks to it; `WebApp` puts the parts of the web interface,
with what of the server they rest on, into one machine of which one part is in view.
Two refinements are stated, both against an abstract module of what is promised:
`GatewayAuth` implements `GatewaySession`, `Labels` implements `LabelRegister`.

Every safety property that a passing run checks is proved for all values of its constants
(section 5). What is left, in this order:

1. The connection mode of the TEDAPI client, once more than the connectivity check of
   a client of its own depends on it.
2. The tables from device fields and InfluxDB series to metrics, once something in the
   repository says what they should be.

## 3. Modules and what they show

### GatewaySession, GatewayAuth - the login of the gateway client

`GatewaySession` promises that the token is replaced by newer ones or cleared, and
never by an older one. `GatewayAuth` has one process per caller: *requesters* run
`MakeAPIRequest`, *proxies* run `GetAuthHeaders`. `call[c]` is a caller's stack:
attempts left, the `AuthCookie`s its `http.Request` carries (each retry appends one,
`baseapi.go:40`), and the login answer it holds. The test of `authToken` (line 39) and
its use (line 42) are two steps, as are reading the login answer and storing it (line
127). The semaphore is only ever tried. The gateway is external: it accepts a request
by its first or last cookie (`Honours`), grants, loses and refuses logins, and answers
or not.

*Run `gateway_auth`* (two requesters, a proxy, three attempts, two logins, two
faults):

* `TokenNeverGoesBack` - the refinement `GatewayAuth => GatewaySession`. Replacing
  `TryAcquire` by a login without the semaphore violates it.
* `ExhaustedOnlyByFaults` - a request that runs out of attempts met a fault in all but
  one of them; a stale token, a missing token and the renewals of others cost one
  attempt together. Stated for a gateway that reads the newest cookie; for one that
  reads the first, the appended cookies do defeat the retries.
* `OnlyTheGatewayBlocks` - a caller that never returns is itself waiting for the
  gateway. Fairness: every step of a caller that needs no answer is weakly fair
  (goroutines are scheduled); nothing is assumed of the gateway, as the HTTP client
  has no timeout.

Bounds: three attempts instead of five leave room for a stale token, a fault and a
success; two logins suffice for one to be older than the other.

### SampleStore, Ingest - collections

`SampleStore` is the part of the TSDB the code relies on: a set of samples; a batch is
refused as a whole when it carries another value at the newest time of a series; of a
sample that is found to clash only at commit, the newest of a series keeps its value,
and for an older one a reader may find either; and a commit may fail at any time, when
the log it writes ahead cannot be written, as it always does on a closed store. `Ingest` has the manager's goroutine
(`Loop`), forced runs (`Forcers`), the collectors each of them is working through
(`run[a].todo`), the batch being appended and committed, SIGTERM with its deferred
calls, crashes and restarts. A collector ends with an error only where its code
returns one. `lost` records what each collection inserted in vain without reporting it:
by which collector, and for which of four reasons (`Reason`). A commit of an open store
failed; the store was closed; the whole batch was rolled back, with samples that met
nothing, because a different reading had the place of one of them; or single samples
met such a reading between append and commit.

*Run `ingest`* (`AggregatesCollector`, which reads the clock after the gateway
answered and inserts twice, `ConfigCollector`, which reads it before; one forced run;
two starts; clock of two seconds; two values):

* `MarkCoversCollection` - when a mark becomes readable, nothing its collection lost
  was lost to the shutdown or for being older than what is stored. It rests on
  `db.Close` making all later inserts fail, the mark's among them, and on out-of-order
  samples being accepted. What is lost to an open store - failed commits, batches
  rolled back, clashes - does not keep the mark away: the collectors drop the errors
  (`aggregates.go:98`), and the property names these reasons as its exceptions.
* `ForcedReportHonest` - the same for the report a client of a forced run gets, except
  that `ConfigCollector`, which hands the error on, keeps quiet about clashes between
  append and commit only. It rests on the shutdown waiting for open requests.

Bounds: two values make a clash, two seconds an older and a newer sample, two starts a
mark after a restart. Two scheduled collections, a forced one and the first start, or a
restart in the place of one of the three collections (`MaxBegun`): a reading meets one
of before the restart either way. Failing commits are not bounded, of batches or of marks.

*Run `startup_delay`* refutes `StartupDelayKept`: see findings.

### SeriesQuery - range queries

`Store.Select`, one sample per step: the series of a metric one after the other,
buckets aligned to local time with the offset of each sample, the five functions, and
the points in order. Constants are ticks per second (the code: 1000), the longest gap
an integral bridges (the code: 120 s), steps, functions and zones.

*Run `series_query`* (all pairs of series of up to three samples, positive and
negative values, four times within five seconds that make gaps shorter than a second,
counted and too long, steps 0, 2, 3, three zones, one with a change of offset):

* `EverySampleInItsBucket`, `EnergyConserved` (up to the rounding of times to seconds,
  which the bound states), `BucketsSummarise`. They compare the scan with definitions
  over sets of samples that know nothing of the order of the scan.

### ImportJob, ImportPage - imports

`ImportJob` has requests that are handlers first (test of `Active`, assignment, reset
of the status: three steps) and background jobs next: connect, then for each chunk
send progress and query, compact, close the channel, join, and report the outcome in
separate assignments, as `import.go:78-84` does. The progress goroutine of each job
loads, increments and stores the shared counter. Time is in half days so that ranges
need not be multiples of a chunk; lengths may be negative. `ImportPage` extends it
with the settings page: the button, the answer to it, polls on a timer with answers
that may be lost or arrive late, and the effect that decides on `importing`.

*Run `import_page`* (two requests to import, of which the page sends one and any other
client the other; two polls, of which both can be under way around one import and one
along with two; one lost answer):

* `ProgressWithinTotal` - while no two imports overlap the counter never passes the
  total computed from truncated hours, and at the end of an import that did not fail
  the chunks counted cover its range. The total may be one more than there are.
* `CompletedMeansQueried` - completion is announced only when every half day was
  queried. A query that fails counts as one: the importer skips it, and nothing
  promises more.
* `PageReleased` - unless an import hangs in a query of InfluxDB the page becomes idle
  again and again, whatever answers were lost. Fairness: goroutines, timers and the
  server's answers; not InfluxDB, whose client has no timeout.

*Run `one_import`* refutes `OneImportAtATime`: see findings.

Bounds: two imports are needed for a race and enough for it. Without a page in view
lengths reach from below zero to more than two chunks; with one they are half a day,
as the page adds nothing that depends on the length. Two polls can
be answered in either order, before, during and after the import; a second poll is
under way only while the imports asked for, the losses and it are three at most
(`MaxRequests`), as two polls around two imports are beyond what TLC finishes. One lost
answer, before the second import, shows the retry while the first one runs.

### Settings - the configuration file

A value is named by its origin: zero, default, the file at first, a user, a flag, the
environment. `Effective` is what viper makes of them at start, `GetSettings` and
`SaveReads`, `SaveTruncates`, `SaveWrites` are the handlers, the last split where the
file is empty in between. Pages hold what they loaded.

A user can change what the page has a field for and has not disabled (`Fields`), and
can empty it (`Choices`): a text that is emptied is posted empty and left out of the
file. `cleared` is what the user of a page has emptied since it loaded, `emptied` what
saves have left empty for that reason.

*Run `settings`* (two pages, three saves, two starts; a key that is bound to a flag and
always written, and one that is left out when empty and filled in when it is read):

* `FileKeepsToItself` - no value of a flag or the environment reaches the file.
* `SettingsSurvive` - unless saves overlapped or one was cut short, a setting the file
  ever had still has a value, or a user has emptied it and saved that. Nobody else's
  save, load or restart takes one away. Switches are excepted, whose false is written as absent,
  and the endpoint, which a page loaded before a restart can empty.
* `FirstSaveStands` - a save never undoes one made since the process started.

Bounds: keys do not influence each other but for the password a process needs to start,
so one beside it is enough; a third save can follow a restart after two that competed.

*Run `settings_saved`* refutes `SavedMeansStored`: see findings.

### WebApp - the web interface

`WebApp` extends the modules below and has an instance of `Dashboard` (`Board`).
`view` names the part that is shown: it alone takes steps, as leaving a page discards
its state, and the others keep one initial state. So one run, `web_app`, checks all of
them (constants in `MCWebApp`), and the fairness is said once: the server answers
every request of a page, if only by the timeout middleware after ten seconds
(`api/app.go:73-80`); interval timers and frames come; time passes. Nothing is assumed
of users and of the gateway.

`WebSettles` says for all parts at once that nothing stays under way: no spinner, no
save, no query, no forced run, no particle, whatever was lost or refused.

#### Dashboard - the dashboard page

A step is an event with the renders and effects React completes before the next one.
Each chart has its timeframe, the one it was given last, its zoom and the range its
data was asked for; `asked` counts its queries under way by range. `Render` carries
what a change of the context sets off: overrides cleared with the mixed mark, charts
that follow and ask again, and the page asking for the dashboards again because
`setGlobalTimeframe` is a new function each time.

* `PanelInStep` - a chart's timeframe is its override or the global one, or its own
  default.
* `NoSnapBack` - while panels are shown only the user changes the global timeframe.
* `ChartsCatchUp` - once the user is done, every chart that refreshes ends up and
  stays with the data of the range it shows. `MaxClicks` is what makes "once the user
  is done" happen.

Bounds: a chart with a default timeframe, and the one that keeps its zoom when a
timeframe is chosen on it; two timeframes; a configured one; four actions of the user;
two queries of a chart under way; one failure. A global timeframe picked while a chart
is zoomed clears the mixed mark and leaves the zoom: `PickGlobal` and `ChartsCatchUp`,
about the range a chart shows, have it so.

#### ChartData - what charts draw

The fifteen charts over time by the metrics they ask for and the way each comes to the
names of its series: sorted all together, sorted metric by metric, one per column, or
one per inverter. `SeriesKeys` and `Column` are `useChartData`, `Answers` what the
server may know of the series asked for, `Drawn` the columns and names of a chart.

* `ChartsShowReadings` - where a name is shown, the column at its place holds the
  readings of that series at their times, and no reading that is not zero is left out.
  Excepted are charts that sort all names while their metrics are in another order:
  for these *run `chart_names`* refutes `ReadingsUnderTheirNames`, see findings.

Bounds: three series of a metric, two of them answered, two times; series without
points, at one time, and all zero, which are those the charts treat differently.

#### ChartZoom - moving through time on a chart

The timeframe of a chart, the zoom it asks for, `isZoomed` of its panel and the range
its drawing keeps for itself, which change in different components and effects.
`Settle` is what two effects of the drawing make of an event.

* `AxisMatchesQuery` - the axis shows the range the data was asked for, and nothing of
  the future, after any selections, steps to earlier and later ranges, resets and
  changes of the timeframe here or on the dashboard, and as time passes.

Bounds: two timeframes, two units of time, four actions of the user. `Near` is 0; the
code ignores ten seconds.

#### CurrentPowerFlow - particles

Particles do not influence each other: one is followed, with all it splits into.
`Frame` drops the pieces whose path has lost its power and lets some of the others
reach their next point, where a junction may send on several.

* `OneWayAcross` - however readings change on the way, a particle and its parts do not
  cross the bridge in both directions, and there are never more than three.

Bounds: four readings that turn grid, battery and bridge around, three changes of
readings or size; a second particle would be as the first.

#### SystemAlerts - bars of an alert

* `BarsShowAlerts` - every minute at which any device reported the alert is in a bar,
  no bar goes further beyond the reports of a device than the gap allows, and bars
  that would touch have become one. All series of one device of up to three reports,
  and of two devices, at minutes that are near, a gap apart and a little more.

#### EnergyCharts - energy by days and hours

From what was read, by the collector or an import, through what each stores to the
figures of three charts that sum it up in their own ways (`Monthly`, `Yearly`,
`Daily`).

* `EnergyAgrees` - they tell the same about the grid, and today's battery figure is
  what went in, unless an import wrote some of today: it stores the battery's energy
  the other way round. Three hours, two to a day, power in either direction or none.

#### Tariff - the rate of the moment

* `RateOnSchedule` - the rate the collector stores is the one the page of costs shows
  for the hour, across midnight and the turn of the year, wherever the tariff leaves
  no choice and does not depend on the weekday.
* *Run `tariff_days`* refutes the same with weekdays, `PricedByTheDay`: see findings.

Bounds: three dates, four hours, two seasons, periods over the whole day, a part of it
and around midnight, with rates by season, for all, and both.

#### Devices - numbers

Inverters, strings, fans and temperatures are stored under numbers the collector
counts in each answer, and the status page counts its rows by itself. `Counted` is
either count.

* `DevicesKeepNumbers` - from one collection to the next a device stays with its
  series unless one before it went missing or came back, and within one collection
  number, string, row and vin are of one device as far as the flags of the devices
  before agree. Three devices of five kinds.

#### ConfigCache - two copies of the configuration

The copy of the API (15 minutes, under `configMutex`) and that of `ConfigCollector`
(an hour, two fields without a lock, the time taken before the fetch): `kind` says
which. Users who find it old fetch side by side, and the last to finish leaves what it
got, be it older.

* `ConfigCatchesUp` - after the last change of the gateway's configuration only that
  one is given out, from some time on, even if some users wait for the gateway for
  ever. Of fairness only time (`CopyAges`) is used. Two users, two configurations.

#### LabelRegister, Labels

`LabelRegister` promises that who reads labels sees those saved last; a restart after
a save that broke off may show a part of that save. `Labels` has the file, the copy in
memory, the lock, and tabs with their forms: `HandleAdd`, `HandleUpdateKey`,
`HandleUpdateValue`, `HandleDelete`, `HandleSave`, the trimming of keys (`Cleaned`),
and what is lost or fails.

* `LabelsAreRegister` - the refinement `Labels => LabelRegister`. Replacing the copy
  in memory before the file is written violates it.
* `SavesOnlyEdits` - a save by a tab that loaded what is there changes only what its
  user edited. A tab that loaded other labels does undo the saves in between: it posts
  all of them.

Bounds: two tabs, two edits, two saves, one fault; keys with and without a blank
around them and the empty one.

#### Pages - what the pages fetch and ask

One visit to a page of the status, the costs, one chart, the explorer or
troubleshooting, with its requests answered in any order, refused or lost.

* `PagesShowAnswers` - a clean page of labels shows what it loaded
  (`CleanPageShowsLoaded`); the explorer shows the answer to the last query, unless
  the Enter key began one while another was under way (`ExplorerInStep`); a collector
  is marked as working only if it has worked (`MarkedMeansCollected`).

Bounds: three actions of the user, one failure, two collectors, two queries.

### Onboarding - the connect commands

`Onboarding` has a command per terminal: `connect auth` (`StartAuth`) and `connect
keys list`, `add` and `remove` (`StartKeys`). `proc[t].at` is how far it has come:

| Code | Actions |
|---|---|
| `LoadTokens`, `IsExpired`, `loadTokens` | `StartAuth`, `StartKeys` |
| `RefreshTokens`, `SaveTokens` | `Refresh`, `RefreshRefused`, `RefreshLost`; `Truncate`, `Write`, `SaveFails` |
| `resolveClient`, `DetectRegion`, `GetEnergySites`, `persistSiteInfo` | `ResolveKnown`, `ResolveUnknown`, `ResolveFails`, `Persisting` |
| `GenerateRSAKey`, `GenerateECKey` | `LoadKey`, `CreateKey`, `WriteKey`, `CreateKeyFails` |
| `RegisterKey`, `pollKeyState` | `Register`, `RegisterLost`, `PollKeyState`, `Enter`, `Announce` |
| `RemoveAuthorizedClient` | `Remove` |
| the login's tunnel, callback handler, `select`, `ExchangeCode`, `Shutdown` | `TunnelUp`, `TunnelFails`, `Callback`, `TakeCode`, `TakeError`, `TimeOut`, `Exchange`, `RegisterPartner`, `Shutdown` |

`os.WriteFile` truncates and then writes, so a file can be read empty, and two saves
at once can leave the tail of the longer one. Requests and their answers are lost
separately (`RefreshLost`, `RegisterLost`); `Kill` is Control-C at any point. The
fleet API is external: of the refresh tokens only the newest is good, a key is
registered as pending or verified at once, and a gateway takes a removal from a
verified key only. `lost` and `collided` are history, set by the events the properties
except.

*Run `onboarding`* (two terminals, two commands, accounts of one and of two sites, two
polls a round, three grants, one fault, two keys, two callbacks):

* `NewestTokensKept` - whenever no save is under way the token file holds the newest
  refresh token, through refreshes and the saves of `persistSiteInfo`, except after a
  lost answer, an interruption before the save, or a command that overwrites what
  another saved after it had loaded.
* `RegisteredKeyKept` - no key is registered whose private half is lost, wherever the
  command was interrupted, unless two commands generated the file at once. It rests on
  the key being written before it is registered, and on one that is found being used.
* `AnnouncedKeyReady` - "VERIFIED and ready" is said of a key that is verified and is
  the one in the file the printed configuration names.
* `CommandsEnd` - a command ends unless it waits for its user, for the tunnel, or for
  a callback handler that cannot send, which takes a second callback. Fairness: what a
  command does by itself is weakly fair, since the fleet client has a timeout of 30 s
  and the `select` one of five minutes; nothing is assumed of the user, the tunnel and
  the browser.

Bounds: two commands make every race of two; three grants are two refreshes after an
earlier login; `--region` and `--site-id` are not given together; time passes at the
start of a command only, where `IsExpired` reads it; a command is started in the first
free terminal, as terminals are alike. The EC key of a login never leaves the machine
and counts as no RSA key; client credentials are left out.

Seen while modelling, and not a property: a refresh drops region, site and DIN, so the
next command looks them up again although `helpers.go:54-56` says future calls skip
that; and a stored DIN is used together with another `--site-id`, for which `Remove`
has the gateway refuse the request.

### Deadlock

Deadlock checking is on for `gateway_auth`: there is always a caller to go on. The
other systems do stop: every bound used up, an import done, a query answered, a
command ended.

## 4. Findings

| Run | What |
|---|---|
| `startup_delay` | The delay of the first collection is computed from `power_dash_collection_mark`; the mark is written as `collection_mark`. It never delays. |
| `one_import` | "An import is already in progress" is tested and set in separate steps; two imports can run. |
| `settings_saved` | Overrides are computed without defaults when saving, with them when loading: an edit of a setting absent from the file is reported as saved and dropped. |
| `chart_names` | `GridVoltage.tsx:53` and `SolarEfficiency.tsx:42` sort the names of all series after the columns were put in the order of the metrics: readings appear under the names of others. |
| `tariff_days` | `config.go:84` compares the days of a period with 0 for Sunday; `Cost.tsx:52` reads the same field as "Tesla 0=Mon". One of the two prices the wrong day. |

Seen while modelling, without a run of their own:

* `import.go:78` clears `Active` before it sets `Error`, so a poll in between makes
  the page announce that a failed import finished. `ImportPage` reaches it.
* A period from midnight to midnight is the whole day on the schedule (`Cost.tsx:67`)
  and no time at all for `getCurrentRate` (`config.go:98`).
* `importer.go:246` stores import and export of the battery the other way round than
  the collector does.
* `Status.tsx:309` takes the vin by the place among the devices that are listed.
* The Enter key of the explorer (`Explorer.tsx:187`) begins queries the button would
  hold back; the earlier answer may come last.
* `Troubleshoot.tsx` notifies success for every answer, also one that is an error.
* `App.tsx:71`: an answer to the first query of the settings that comes late undoes a
  pause the user has chosen meanwhile.
* A settings page loaded before a restart empties the endpoint in the file when the
  new process does not hold it as an override.
* Stepping back and then to the present leaves the legend's range where it was.
* A refresh of the fleet tokens drops region, site and DIN (section 3, Onboarding).

## 5. Proofs

`GatewayAuth_proofs` is about any sets of callers, any number of attempts and any
bounds, from `AuthAssumption` alone (the two kinds of callers are disjoint, the free
value of the semaphore is no caller, bounds are naturals).

* `TypeCorrect`: `Spec => []TypeOK`. Not inductive without saying that a requester has
  attempts left exactly while it is under way, which `TypeOK` therefore says and
  `CallersOK` isolates; the lemmas `MovingOn`, `Standing`, `Answering`, `Returning`,
  `Retrying` carry it over the kinds of steps a caller takes, and the theorem has one
  step per action.
* `LoginsExclude`: `Spec => []OneLogin`, a caller is between `TryAcquire` and
  `Release` exactly if the semaphore names it.
* `SessionImplemented`: `Spec => TokenNeverGoesBack`. With one login at a time, a
  token that was granted and not yet stored is the newest there is (`TokensInOrder`,
  inductive with `OneLogin`), so storing it is a `Renew` of `GatewaySession`, an
  answer without a token a `Drop`, and every other step a stutter.
* `RetriesCovered`: `Spec => ExhaustedOnlyByFaults`. `FaultsCover` compares, for every
  call under way, the attempts it has lost (`Lost`) with the faults it has met (`Met`):
  never more, but for one it may lose while the token is good as it will be read
  (`Good`), because nothing but a fault can cost it the next; and a call that renews
  has that one in hand (`Spare`). A step of somebody else is a fault or takes nothing
  from the token (`StepsSpare`, `OthersCovered`); a caller's own steps are
  `CallerCovered`. `OneLogin` is needed where a token is stored: no other caller is
  about to overwrite it.

`Onboarding_proofs` is about any terminals, accounts, polls and bounds, from
`OnboardingAssumption` (terminals are numbers, each round polls at least once, the
earlier login fits in the grants).

* `KeysKept`: `Spec => []RegisteredKeyKept`. Not inductive: a command must not go on
  to register a key that is no longer in the file. The invariant `KeysSafe` adds that
  a command that has a key relies on the one in the file (`HeldKeysInFile`), and that
  while one makes a key nobody else does and the file is absent or still empty
  (`OneMaker`) - so that no key is registered or relied on when the file is replaced
  (`NoKeyYet`). Most actions leave the RSA key alone (`Quiet`, `QuietKeeps`); those
  that make, use, register or remove one have a lemma each.
* `AnnouncedReady`: `Spec => AnnouncedKeyReady`, from the same invariant, with
  `OnlyAnswers` (a command comes to announce its key by `Register` or `PollKeyState`
  alone) and `AnswerVerified` (from an answer about that key).
* `TypeCorrect`: `Spec => []TypeOK`, `NewestTokensStay`: `Spec =>
  []NewestTokensKept`. The latter is not inductive: a command that is about to save
  the newest tokens might have been one that only saves its site, and such a save may
  fail. `NewestHeld` therefore wants a command that has opened the file for them, or is
  about to and loaded older ones (`Holder`), and `AllSound` says what any command on its
  way holds: no tokens older than those it loaded nor newer than the last grant, and
  attempts exactly while it polls. `TokensInv` joins them with `Typed` and `KeysSafe`.

`Ingest_proofs` is about any collectors among the five, forced runs, payloads and
bounds, from the assumptions of `SampleStore` and `Ingest`.

* `LossesExplained`: `Spec => []LifeInv`. `LossInv` gives every loss one of the four
  reasons, that of a closed store only once it is closed, and to `ConfigCollector` in
  a forced run the clash at the commit alone (`InsertExplained`, from what a commit can
  come to, `CommitEnds` and `CommitKeeps`). Around it `LifeInv`: the store is open
  while the process is up; a client waits only then; nothing runs in a process that is
  down, so that no loss is remembered when the store is opened again.
* `MarksVouch`: `Spec => MarkCoversCollection`, `ReportsHonest`: `Spec =>
  ForcedReportHonest`. A step that stores a mark, or answers a client, finds the store
  open, so no loss has a closed store for its reason, though commits may have failed.
* `TypeCorrect`: `Spec => []TypeOK`, with `RunInv`, `LoopInv`, `CountInv` and
  `HoldInv`: an actor holds a batch exactly between append and commit, and the
  goroutine of the manager is busy exactly within a collection.

`Settings_proofs` is about any keys of those the file knows, any pages and bounds.

* `TypeCorrect`: `Spec => []TypeOK` (from `Typed`).
* `FileKept`: `Spec => []FileKeepsToItself`. Inductive once no form and no save under
  way holds a value of a flag or the environment either (`OwnInv`).
* `FirstSaveKept`: `Spec => FirstSaveStands`. `AloneInv`: unless saves overlapped one
  save is under way at most, what it merged is made of the file as it is, and the file
  is empty exactly because this save truncated it.
* `NoSettingLost`: `Spec => []SettingsSurvive`. `SurviveInv` adds which keys may be
  zero in the file, in what is effective, in forms and in saves: a key that is not filled in
  and that the file never had is zero everywhere and disabled; one it had is zero only
  where the user of that page has emptied it, or a save had left it so; and a key that
  is not filled in stays so, since what is effective is never empty.

`ImportPage_proofs` is about any number of imports, of any lengths, and any polls.

* `CompletedQueried`: `Spec => []CompletedMeansQueried`. `JobInv` ties the chunk a job
  is at to the hours it has asked for, and where it is to where its progress goroutine
  is.
* `ProgressKept`: `Spec => []ProgressWithinTotal`. `ProgressInv`: while no two
  overlap, each chunk begun is counted, or is the one on its way to the counter;
  `WithinTotal` bounds that number by truncated division plus one.
* `PageServed`: `PageSpec => Spec`, the server behind the page does what `ImportJob`
  does; `PageToldTrue` carries both properties over.
* `PageTypesKept`: `PageSpec => []PageTypeOK`. `PageInv` adds that what the page waits
  for has been asked of the server, which never makes a request new again
  (`RequestsStay`).

`WebApp_proofs` is about the parts of the web interface and their composition, for any
readings, timeframes, queries, collectors and bounds, from the assumptions of the
modules `WebApp` extends.

* `NeverBackAcross`: `FlowSpec => []OneWayAcross`. `FlowInv`: the pieces of a particle
  have different sources, of one of the `Stages` (sources that can be there together);
  each has its way before it or only the last point of it; and before a piece reaches
  its first junction nothing has crossed the bridge. `OneDirection` is the one place
  where the power decides. `FrameStays` shows that a frame, in which some pieces
  arrive and turn and others stay, leads from one stage to another.
* `ZoomInvKept`, `AxisInStep`: `ZoomSpec => []AxisMatchesQuery`. `ZoomInv`: a zoom has
  ended in the past, and while the panel counts as zoomed the drawing keeps exactly
  that range. For this, the shifts of `HandlePrev` and `HandleNext` must never be zero
  and the two effects must come in their order.
* `PagesHonest`: `PagesSpec => [](ExplorerInStep /\ MarkedMeansCollected)`.
  `PagesInv`: unless the Enter key mixed queries, one is under way at most, and it is
  the last.
* `PanelsFollow`: `WebSpec => []PanelInStep`; `NothingSnapsBack`: `WebSpec =>
  NoSnapBack`, under `BoardAssumption` (24 hours is offered, what is configured is
  offered, "no choice" is neither, and the choices are finitely many). `BoardInv`: a chart has followed what
  it was given last, and a configured timeframe is no longer waiting to be applied once
  panels have been shown, which is why asking for the dashboards again changes nothing.
* `DiskCorrect`, `RegisterImplemented`: `LabelsSpec => LabelsAreRegister`. `DiskInv`:
  either file and copy agree, or the file is a part of what `torn` names; one tab
  writes at most, and that is what it posted. Then truncating is `Try`, writing is
  `Store`, a restart `Lose` or nothing.
* `SavesOnlyEdited`: `LabelsSpec => SavesOnlyEdits` if no key of the first file has
  blanks around it (`Tidy`). `EditInv`: everything stored or posted is tidy, a form
  differs from what was loaded in edited keys only, and so does what is posted.
* `CleanPagesLoaded`: `LabelsSpec => []CleanPageShowsLoaded`, from `CleanInv`, which
  says so of each tab.
* `FiguresOfTheGridAgree`: `EnergySpec => []EnergyAgrees`. `EnergyInv`: the
  figures are those of the hours read. `DailySum` takes the figures of a day apart into
  those of its hours, and `BucketEnergy` compares what is stored of both directions with
  the energy that was read.
* `TheRateIsTheSchedules`: `TariffSpec => []RateOnSchedule`. `FlatRate` and
  `PeriodRate` compare the rates of the collector with the cell of the page, without
  periods and with them; `SamePeriod` compares the two tests of an hour, about midnight
  too.
* `NumbersKept`: `DevicesSpec => DevicesKeepNumbers`. A device is numbered by how many
  come before it (`NumberOfAll`), so its number can only change with those (`SameNumber`).
* `AlertsAreShown`: `AlertsSpec => []BarsShowAlerts`. `AlertsInv`: the bars are
  `MergedIntervals` of what was read. Each place of the fold over the points of a series
  has `ScanInv` (every report so far is in an interval that was made, or in the open
  one), each place of the fold over the sorted intervals `BarsInv` (bars show reports,
  apart from each other) and covers every interval before it.
* `ReadingsAreShown`: `ChartSpec => []ChartsShowReadings`. `ChartInv`: what is drawn is
  `Drawn` of the answer. `KeysFound` finds every key of the answer among the columns;
  then each way to name them has its lemma (`KeysDrawn`, `ColumnsDrawn`,
  `InvertersDrawn`). Of the fifteen charts only their metrics' types and their way of
  naming are used (`Known`).
* `PartsRun`: a step of the whole is a step of each of these parts or leaves it alone,
  so `WebSpec` implies the specifications of all of them. `PartsKeep` then carries their
  properties over to the specification the run checks.
* `TypesKept`: `WebSpec => []WebTypeOK`. Most parts' types need more than themselves: a
  count of queries under way stays below what was asked for (`ExplorerTyped`,
  `TroubleTyped`), a chart asks only while the sum of its queries is below the bound, so
  each of them is (`AsksMore`, with `SumsNatural`), and a chart that is not shown has
  been given no timeframe (`BoardCounted`). From `PagesAssumption` it uses that the page
  of troubleshooting knows some query (`KNOWN_QUERIES`).

`Sums_proofs` is about the sums of `Functions` and `Folds` (`SumFunctionOnSet`), which
every total of the model is. The library's induction theorems take an operator and
cannot be used here; but a set of naturals that is not empty has a least element, and
what holds of every smaller finite set is a set of sets, so induction over finite sets
can be written out without them. `SumExists` gives the sum its recursive equation;
from it: a sum does not depend on what lies outside (`SumSame`), it is moved along a
bijection (`SumMoves`), scaled (`SumScales`), split (`SumUnion`), and stays as close as
its terms are close (`SumsClose`). The folds of the library over sequences are
recursive functions too: `FoldsExist` gives the intermediate results of one as a
function of the place, `Flattens` the parts of a flattened sequence in it, and
`RankSorts` shows that choosing elements by rank sorts a finite set.

`SeriesQuery_proofs` is about any series, steps, functions, zones and ticks.

* `TypeCorrect`, `BucketsTrue`: `Spec => []BucketsSummarise`, `SamplesKept`: `Spec =>
  []EverySampleInItsBucket`, `EnergyKept`: `Spec => []EnergyConserved`. The invariant
  is `Typed`, `Gathered` (what each bucket holds is what the samples scanned so far put
  there, and its extremes are those of its samples) and `Returned` (the points are the
  buckets, or the samples, in order). Sorting by rank is a bijection, since no two
  points have one rank and a rank is never more than their number. The energy follows
  by exchanging sums over buckets and samples, with at most a second of rounding for
  each pair of neighbours.

Only model-checked: liveness (`OnlyTheGatewayBlocks`, `PageReleased`, `ChartsCatchUp`,
`CommandsEnd`, `WebSettles`, `ConfigCatchesUp`), as the prover treats neither `ENABLED`
nor fairness.

## 6. What is left out, and why

* TEDAPI messages (`tedapi.go`, `update.go`): byte layouts and cryptography; the one
  piece of state, the connection mode, is switched by a connectivity check on a client
  of its own.
* Generated protobuf code, record types, the PromQL handlers (parameter parsing around
  a library), the other commands (one request each, printed).
* Contents: the tables from device fields and InfluxDB series to metrics, except for
  the meters of grid and battery; formatting, colours, layout and drawing.
* Components of the web interface nothing imports, `MultiChartPanel` among them.
* The Prometheus TSDB beyond what `SampleStore` says, the gateway, InfluxDB and React
  itself are external; they are modelled by what the code relies on.
* The weak memory effects of data races: a racing read returns some value that was
  written, not a torn one (the racing variables are words or strings whose headers the
  model treats as one), except for the time in `ConfigCache`, which may be torn.
