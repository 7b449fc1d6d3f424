# Docker Swarm Dashboard: TLA+ models and proofs

Docker Swarm Dashboard shows the state of a Docker swarm in a browser. A Go
server (`server-src/`) translates HTTP and websocket requests into calls of the
Docker API, a release feed and metrics exporters; a React application
(`app-src/src/`) polls the server and keeps its settings in the URL hash.

All paths below are relative to the repository's root.

## Inventory

| Component | State | Operations | Hard behaviour |
|---|---|---|---|
| Log streaming (`server-src/docker_service_logs_handler.go`) | per request: websocket, context, bounded channel, idle timer, write deadline | open, forward a line, ping, collect and send a tail, close, disconnect | four goroutines, backpressure, cancellation, deadlines, an engine that hangs or breaks off |
| Log framing and options (same file) | none (pure) | cut the response into lines, find or strip frame headers, parse options | header bytes that look like text, buffer limits |
| Log view (`app-src/src/components/logs`, `common/store/atoms/logsAtoms.js`) | shown service, lines, error, socket | show, hide, receive, close, reconnect | reconnecting repeats the tail; late messages; the cap on lines |
| Version cache (`server-src/internal/version/checker.go`, `version_handler.go`) | last check, cached release | check, report | concurrent requests around one cache, failing fetches |
| Shared Docker client (`server-src/internal/docker/client.go`) | one client, created on demand | get, set, reset | first use from several requests, a failing creation |
| Metrics fan-out (`node_metrics_handler.go`, `service_metrics_handler.go`, `task_metrics_handler.go`, `metrics_utils.go`) | per request: a task list, one goroutine for each exporter task or node, a result channel | list, resolve, fetch, aggregate, answer | tasks that move or die between the list and the fetch, partial failure |
| Metrics parsing (same files) | none (pure) | samples to summaries | missing families, zero limits |
| Snapshots (`dashboard_h_handler.go`, `dashboard_v_handler.go`, `tasks_handler.go`, `timeline_handler.go`, `stacks_handler.go`, `ports_handler.go`, `nodes_handler.go`, `logs_handler.go`, `docker_*_handler.go`) | none: lists read one after the other | list and join nodes, services, tasks | the swarm changes between two lists |
| Environment masking (`env_masking.go`) | none (pure) | replace the values of variables | which values stay visible |
| Settings and wiring (`dashboard_settings_handler.go`, `origin_policy.go`, `main.go`, `health_handler.go`) | environment variables | defaults, origin check, routes | unparsable values |
| Frontend store (`app-src/src/common/store`) | atoms, URL hash, the tab's history | read, write, reset, go back | two sources for one value; what is pushed and what is replaced |
| Fetch counter and loading bar (`app-src/src/index.jsx`, `components/layout/LoadingBar.jsx`) | requests in flight, bar, timers | start, settle, finish | overlapping requests and timers |
| Refresh and navigation (`components/layout/DashboardNavbar.jsx`, `ContentRouter.jsx`, `common/hooks/useEntityActions.js`) | interval, view, detail | tick, navigate, open, change the interval | view and detail are written by a dozen components |
| Metrics panels (`NodeMetricsComponent.jsx`, `ServiceMetricsComponent.jsx`, `TaskMetricsContent.jsx`, `ClusterMetricsHeader.jsx` and their sections) | answer, error, loading | fetch, answer, unmount, draw | an answer that arrives after the selection changed; zeros and missing values |
| Filters, sorting, error boundary (`FilterComponent.jsx`, `sortUtils.js`, `ErrorBoundary.jsx`) | filter text and kind, caught error | type, switch, sort, reset, retry | two copies of one value |
| Pages and details (`components/dashboard`, `tasks`, `nodes`, `stacks`, `ports`, `timeline`, `services`) | none beyond the store | join, filter, hide, sort, show | lists that do not fit together |


Interaction: the browser calls the server over HTTP (snapshots, metrics,
version, settings) and one websocket (logs); every handler gets the one shared
Docker client; the metrics handlers also call exporters in the swarm; the
version handler calls the release feed through its cache. Nothing is persisted:
a restart of the server loses only the caches and the open websockets.

What makes each component correct: a log client sees the engine's lines in
order and knows whether it has all of them, and nothing of a request outlives
it; the version reported is one that was published, and no older than the cache
may be; every metrics request is answered, by what the reachable instances said;
a page shows what is in the swarm and the user's choice lets through, and pairs
objects that belong together; a panel shows the answer to the selection on
display; the URL says what is shown. `PROJECT.json` lists the hazards line by line.

## Modules

| Module | What it is |
|---|---|
| `LogDelivery` | what one logs request promises: the abstract specification |
| `LogStream` | `dockerServiceLogsHandler`, its goroutines, Docker and the browser |
| `MCLogStream` | its instances for TLC |
| `LogStreamProofs` | theorems about it |
| `LogFrames` | the bytes of the log response: `ReadLine`, `processPayload`, `stripFramePrefix` |
| `MCLogFrames`, `LogFramesProofs` | its payloads for TLC, theorems about it |
| `LogsView` | the Logs view of the browser and its websockets |
| `MCLogsView`, `LogsViewProofs` | its instances for TLC, theorems about it |
| `VersionCache` | `CheckVersion`, `LastCheckTime` and `versionHandler`, the release feed and a clock |
| `MCVersionCache` | its instances for TLC |
| `MetricsRequest` | one request to any of the four metrics handlers, its workers, the agents and the swarm |
| `MCMetricsRequest` | its instances for TLC |
| `ServerHandlerProofs` | theorems about `MetricsRequest` and `VersionCache` |
| `SwarmPages` | the pages and details, from the server's lists of a changing swarm to the rows on display |
| `MCSwarmPages`, `SwarmPagesProofs` | its instances for TLC, theorems about it |
| `Dashboard` | the browser tab: pages, details, filters, settings, history, reload and interval |
| `MCDashboard`, `DashboardProofs` | its instances for TLC, theorems about it |
| `LoadingBar` | the counter of requests in flight and the bar that follows it |
| `MetricsPanel` | a panel that asks for metrics, over `LoadingBar` |
| `MCMetricsPanel`, `MetricsPanelProofs` | its instances for TLC, theorems about it |
| `MetricsCharts` | the charts, bars and colors made of an answer |
| `MCMetricsCharts`, `MetricsChartsProofs` | its instances for TLC, theorems about it |

`LogsView` takes the server's side of a connection from `LogDelivery`: messages
in order, then at most one close frame, an error one only when nothing was sent.
`MetricsPanel` extends `LoadingBar`: the panels' requests are what its counter
counts. `Dashboard` and `SwarmPages` share the filter, the hidden states and the
sort column: the one says how they come to be set, the other, for every value of
them, what the pages make of it. The other modules are independent of each
other, as the components are.

### LogStream

One step is what one goroutine does between two points where it can block.

| Variable | In the code |
|---|---|
| `follow` | `opts.follow` |
| `pc`, `rpc`, `watcher`, `closer` | where the handler, `readLogLines` and the two anonymous goroutines are |
| `conn`, `closeFrame`, `wire` | the `websocket.Conn`, the close frame and the text messages written to it |
| `wdl` | the connection's write deadline; a text message or a ping sets it, a close frame does not |
| `ctxDone`, `readerClosed` | `ctx`, `logReader.Close()` |
| `chan`, `chanClosed` | `lines` of `streamLogs`, `raw` of `collectLogLines` |
| `cur` | the line received from the channel last |
| `collected`, `timer` | `lines` and `timer` of `collectLogLines` |
| `source`, `emitted`, `readPos` | Docker's response, what it has sent, what `ReadLine` has returned |
| `peer`, `unread` | the browser, and what the socket holds for it |

A line is its number. `Blank` is the set of lines without a payload, which
`collectLogLines` skips. A line is one message here; `LogFrames` looks inside.
A socket holds `SockCap` messages for a client that does not read; then a write
blocks, and fails once its deadline passes. "Stalled" means that the browser
neither reads nor answers pings within the deadlines; a browser that recovers
earlier is a slow reader, and "reading" includes those (weak fairness only says
that it reads some day).

`LogStream` implements `LogDelivery` with `produced <- readPos`,
`delivered <- wire`, `closed <- closeFrame`: what is sent is a gap-free stretch
of the log in order, the normal close of a follow stream comes after everything
read, an error close before anything was read, and nothing follows a close.

### LogFrames

A response is a sequence of frames, each eight bytes of header and a payload.
The state is what is left of the response, the line in the writer's hands and
what has been sent. `ReadLine` is bufio's (external): it cuts at a newline byte
wherever that stands, or at a full buffer, and the handler ignores `isPrefix`.
The loops over lines and over frames are recursive functions: `NonEmptyLines` of
the length of a prefix, `FrameLines` of the number of bytes that are left.

For a `Plain` frame what `ReadLine` returns is the frame without its newline: the
payload is one line, it fits the buffer, and no byte of the header is a newline.
The last condition is about all eight bytes, since a payload of 266 bytes has a
ten in its size as much as one of ten bytes has. What the code does with other
frames is the run `log_frames_lines`.

### LogsView

A session is what the user asked for in the form; every websocket of it is a
numbered connection, and a message is its number on the connection.

| Variable | In the code |
|---|---|
| `mounted` | whether `ContentRouter` shows `LogsComponent` |
| `showing`, `config` | `logsShowLogsAtom`, `logsConfigAtom` (the service and `follow`) |
| `lines`, `error` | `logsLinesAtom`; `logsErrorAtom`, by the connection that set it |
| `conn`, `retry` | the connection and the pending timer of `useWebSocket` |
| `opened`, `service`, `sock` | the connections there have been, what each is for, its `readyState` |
| `sent`, `closeFrame`, `got` | what the server sent on each, and what `handleMessage` was called for |

The handlers of a connection stay in place after it was told to close, as in
`react-use-websocket`: its close event still reaches `handleClose`. `Hide`,
`Leave` and `OpenLogs` end a session in three different ways: the controls, the
unmounting of the view (the atoms stay, so that `Return` connects anew), and the
logs button of a service in another view. `Cap` is
`max(2 * logsNumberOfLines, 20)`.

### VersionCache

| Variable | In the code |
|---|---|
| `checked`, `age`, `cached` | `lastCheckTime` (not zero, and how long ago), `cachedRemoteVersion` |
| `stage`, `remote` | where each request is between two uses of the lock, its `remoteVersion` |
| `reply` | the last `UpdateResponse` of each request |
| `latest`, `healthy` | the release feed: its newest release, whether it answers with it |
| `since` | history: how long ago the request stored an answer |

Releases are numbers in the order of their versions. A feed that is not healthy
fails, or answers with JSON that is not a release: the code does not look at the
status, and decodes an empty tag.

### MetricsRequest

| Variable | In the code |
|---|---|
| `request`, `pc` | which handler serves what, and how far it is |
| `nodeCount`, `jobs` | `len(nodes)`, the tasks or nodes a goroutine was started for |
| `expected` | `startedGoroutines`, or `len(nodeIDs)`: the results to wait for |
| `worker`, `target`, `sample` | each goroutine, the endpoint it resolved, what it measured |
| `chan`, `received` | `resultsChan`, the results the handler has counted |
| `answer` | the response: `available`, error or message, and the workers whose results it holds |
| `members`, `deployed`, `agent`, `running` | the swarm: nodes, whether the exporter's service exists, the state of each of its tasks, the service's running tasks |

An agent is a task of node-exporter or cAdvisor; a node may have several, and one
that runs may have no address (`Addressed`). `clusterMetricsHandler` starts a
worker for each agent that runs, `serviceMetricsHandler` one for each node with a
task of the service, so a worker is named after an agent or a node. The handlers
for one node and one task have no goroutine of their own: there the handler is the
one worker. An endpoint is the address of an agent on the node, or the name of the
service, which leads to any agent that runs (`Resolve`, `Fetch`). Text that does
not parse is an error for node-exporter and no containers for cAdvisor (`Misread`).
`faults` counts what changes or fails while the
request runs, so that a property can speak of a swarm that stood still.

### SwarmPages

| Variable | In the code |
|---|---|
| `services`, `nodes`, `tasks`, `state`, `removed` | the swarm, as Docker's lists would show it now |
| `page`, `subject` | the handler asked, and the ID in its path |
| `phase`, `todo`, `got` | how far the handler is, the calls it has still to make, the lists it has |
| `joined` | the tasks of a detail that were looked up one by one: what each was joined with, and whether the call failed |
| `kept`, `seen` | history: what was there all the time, and at some time, since the request |

Each call to Docker is a step, between which services come and go, tasks start,
change their state and vanish, and nodes leave. What a handler sends and a
component shows is a function of `got` and of the user's choice: one operator per
page, named after its component. Text is abstract: `Includes` says which filters
a name contains, `Rank` is the order of names and times, `Value` what a column
holds. Two entities never have the same rank: `sort.SliceStable` leaves those with
equal names in the order of Docker's list, which the rank stands for
(`RankAssumption`). `Sorted(set, order)` enumerates a set in a strict total order;
a stable sort is that for the order of the key and then of the place before
(`Compare`). A detail asks for the service or node of each task by a call of its
own, whose error the code ignores: `Found` is what Docker has for the ID, `Enrich`
attaches it, and leaves the row blank when there is none or the call fails. The
node of a task that has none yet is asked for by the empty ID, with which every ID
begins, so that `Found` is all nodes.

### Dashboard

| Variable | In the code |
|---|---|
| `history`, `here` | the tab's history, each entry the decoded URL hash |
| an entry's `id`, `detail`, `sortBy`, `descending`, `timestamp` | `viewAtom` |
| its `base`, `interval` | `baseUrlAtom`, `refreshIntervalAtom` |
| its `keys` | the atoms of `createHashAtomWithDefault`; `Unset` when not in the hash |
| `shown`, `pending` | the page on display; whether its data is still being waited for, with the page before it left in place (`startTransition`) or not |
| `broken` | the state of the outermost `ErrorBoundary` |
| `box` | the state of `FilterComponent`: its text, its kind and the filters its effect saw last |

`viewAtom`, `baseUrlAtom` and `refreshIntervalAtom` push an entry, the others
replace the one there is. An action is a click, a key or a tick of the interval;
`Commit` runs the effect of the box after each. `Served` are the server's
settings and `Links` the URLs the tab may be opened with, which have to be ones a
tab can have (`LinkAssumption`).

### LoadingBar and MetricsPanel

| Variable | In the code |
|---|---|
| `count` | `networkRequestsAtom`, kept by the wrapper of `window.fetch` |
| `bar`, `seen`, `visible` | whether the bar is mounted, the count its effect ran for, `visible` |
| `armed`, `hides` | the pair of timers of `start()`, and the timeouts of `stop()` that nothing cancels |
| `kind`, `alive`, `entity` | which panel, whether it is mounted, what it is about |
| `run`, `first`, `live` | the runs of its effect, the first of this mount, the one whose `mounted` flag is set |
| `asked`, `answer` | of each run: whom it asked for, what came back |
| `loading`, `available`, `error`, `data` | the panel's state; the last two name the run they come from |

A request goes through two steps: its answer arrives (the wrapper counts down),
then its body is read and the effect goes on. The entity of a panel may be `Absent`:
the detail of what has gone is `{}`, which the components take for an entity. Those
of a node and a service then ask for the ID "undefined" (`Asks`), those of a task
and of a service's tasks return before they change anything (`BeginNothing`).

### MetricsCharts

A chart is its labels and one value per label, an operator per component. The
state is the answer on display, which the next one replaces. The shares of the CPU
are rounded to hundredths of a percent and the load to tenths, as `toFixed` does
(`Rounded`); a percentage that is compared with thresholds only is in whole percent
and rounded up, which keeps on which side of them it is (`Percent`).
`Answers` says which answers the server can send: its structs, with what the
kernel and Docker guarantee of the numbers in them. Services that mix containers
with and without a limit are excepted from `ChartsAreDrawable`, since their total
usage may exceed the total of the limits.

## Runs

| Run | Shows |
|---|---|
| `log_stream` | the safety properties of one logs request, the refinement of `LogDelivery` and the liveness properties; five lines, channel of two, tail of two, socket of two |
| `log_frames` | all responses of up to three frames out of eight payloads: plain lines, lines of ten bytes, lines longer than the buffer, several lines in one payload, `\r\n`, no newline |
| `logs_view` | the output belongs to one service, is gap-free and ordered; one live connection; retries belong to the session on display |
| `version_cache` | answers are consistent, the feed is asked once per timeout and request, a release is noticed in the end |
| `metrics_request` | every request is answered, with what each worker that was started and succeeded measured; exactly, when the swarm stood still |
| `metrics_panel` | a panel shows the answer to its own request, for its own entity unless a task has gone, and stops loading; the bar goes away |
| `metrics_charts` | one percentage has one color wherever it is shown; donuts add up; nothing negative or unlabelled is drawn |
| `swarm_pages` | what stays in the swarm is on a page exactly when the user's choice lets it through; nothing is shown that was not there; a detail is its subject's, whichever of its lookups fail; sorting is stable |
| `dashboard` | a detail fits its page in every entry of the history, at most one filter is set, the box says what is filtered by, what is shown is what the URL says |
| `log_stream_close_frame`, `log_frames_lines`, `hidden_states` | each finds a disagreement, see below |

Bounds. Five lines fill the socket, the hand of the writer, the channel and the
hand of the reader at once (2 + 1 + 2 + 1 would be six places for five lines
and the end of the response), so that every goroutine can be blocked on the next
one; a tail of two is shorter, as long as and longer than what is collected. Lines one
and three have no payload, so that an answer can be empty though lines came.
bufio's buffer is 16 bytes, its minimum; a payload of twenty bytes is cut twice.

`logs_view` has two services (symmetric: no property and no action tells them
apart), three connections, which allow an old one to end beside a retry and a new
session, two messages on each and a cap of three lines, which two connections
together exceed. `version_cache` has two requests, two releases and a timeout of
two ticks: one request can hold the older release while the other stores the
newer, at every age. `metrics_request` has two nodes, one with two of the
service's tasks and with two agents, of which one has no address, and two changes or failures per request, enough for an agent to
stop between the list and the address and another to start, and a node to be
measured twice or by another's agent.

`metrics_panel` has two entities, two runs of the effect and two requests: each
way one answer can overtake or supersede another; `MaxHides` bounds the short
timers that run at once. `metrics_charts` enumerates values up to three with
every comparison the code makes (zero, equal, above a limit), and all percentages
from 0 to 100. `swarm_pages` has two services in stacks and one in none, two
nodes, four tasks of which one has no node yet, two states and two changes of the
swarm per request, enough for something to vanish and something else to appear
between two lists; the filters match all, some and one of the names.
`dashboard` has one node, service and task, three words of which the server's
default is one, a link that filters by the other filter than the default, and
four operations: enough to filter, open, go back and type. Its runs end when the
operations are used up, so deadlock is not checked there; nor is it in the runs
of `LogFrames`, which end with the response. The proofs have no such bound.

Fairness. `LogStream!FairSpec`: every goroutine that can run does (the Go
scheduler); the read deadline and the idle timer fire; a browser that reads goes
on reading; `ServiceLogs` returns. Nothing is assumed of when Docker sends, ends
or breaks off. The last assumption has a name of its own (`DockerAnswers`), since
the code sets no limit on that call. `PingFails` needs no fairness of its own: it
is part of the handler, whose loop is fair. `VersionCache!FairVersionSpec`: browsers
keep asking, time passes, and a request to the feed ends (`http.Get` is called
without a timeout, so this is an assumption about the network). Whether the feed
recovers is the premise of `ReleaseIsNoticed`, not fairness.
`MetricsRequest!FairSpec`: Docker answers (the calls have no deadline), and the
agents' HTTP client gives up after five seconds, which the code sets.
`MetricsPanel!FairSpec`: a request is answered or fails, its effect goes on, React
runs the effects of the bar and the browser fires its timers; nothing is assumed
of the user. `BarGoesAway` and `LoadingEnds` have that the count, or the run,
stays as it is as their premise.

## Disagreements between the code and its comments

Each of these is a run that finds the counterexample:

- `log_stream_close_frame`: the normal close frame is written under the deadline
  of the last line or ping. More than `writeWait` later it fails, and the browser
  sees an abnormal closure, which the Logs view takes for an error and answers by
  reconnecting.
- `log_frames_lines`: `ReadLine` removes the newline that the frame's size
  counts, so the frame never fits and its header is sent with the line to a
  follow client (the test of the handler looks for the text with
  `strings.Contains`). `stripFramePrefix`, for the others, takes what `ReadLine`
  returns for a frame; it is not when the header contains a newline byte (size
  10) or the line is longer than 4096 bytes. `FollowSendsLogLines` and
  `TailSendsLogLines` can be checked one by one.
- `hidden_states`: with the vertical layout the states the user hides give way to
  those of the server's settings.

These are stated in the modules and refuted by TLC when they are given as an
invariant or a property of the run named; they have no run of their own:

- `OneShotEnds` (`log_stream`): without a first line the idle timer never starts.
- `CheckedMeansFetched` (`version_cache`): a JSON error of the feed counts as a
  successful check and replaces the cached release by an empty tag.
- `SuccessHasMetrics` (`metrics_request`): when every agent should run and none
  does yet, the cluster's metrics are a success with zeros; the message meant for
  that case is not given, since the list holds tasks that should run.
- `BarWhilePending` (`metrics_panel`): the bar goes away after fifteen seconds
  although a request is in flight, and 120 ms after it was told to stop although
  another request has begun since;
- `GoneShowsNoMetrics` (`metrics_panel`): the server answers `{}` for a task
  that has gone, which is no falsy value, so "Task doesn't exist" is never shown
  for it: a page that is open keeps the metrics, or the spinner, of the task
  before.
- `RowsNameTheirNode` (`swarm_pages`): a task without a node has the empty
  `NodeID`; Docker's filter matches IDs by prefix, so the detail of a service
  shows it with the node that is listed first.
- `BoxIsInSync` (`dashboard`, with `MCServedStack` for the settings, `MCLinksSettings`
  for the links and three operations): the effect that copies the filter into the
  box runs when a filter changes, and not when the kind alone does. With
  `DSD_STACK_NAME_FILTER` and the default kind, the effect corrects the kind in the
  entry on display; going back to an entry where it was not corrected leaves the
  box with the stack's word and the kind "service", and the next key filters
  services by it.

What else the models show or the reading of the code found:

- a response that breaks off is closed normally, like one that ended
  (`ReadError`, `SendClose`);
- a client that leaves while `ServiceLogs` is pending is not noticed
  (`WatcherSees` needs the watcher, which starts afterwards);
- a node whose agent does not run, or has no address, is asked for by the
  service's name, so that another node's measurements are shown (`Resolve`, `Fetch`);
- two exporter tasks on one node are both asked and both counted, so that the sums
  and `nodesAvailable` of the cluster hold the node twice (`OnePerNode`);
- text of cAdvisor that does not parse is a success without containers
  (`Misread`), while that of node-exporter is an error;
- the name of a task's service is asked for after its measurements were fetched;
  when that call fails, the measurements are filtered out (`Answer`);
- an ignored error of a lookup leaves the row of a detail blank, as if its service
  or node had gone (`Enrich`);
- the late close of a previous session's connection sets the error of the next
  (`Closed`), and a retry repeats the tail below the lines already there
  (`Reconnect`);
- in the details of a service and a task a superseded request that fails late
  takes the place of the newer one's answer (`EarlierFailure`);
- `nodeMetricsAtomFamily` keeps the first answer for a node, a failure included,
  until the application is loaded anew (`dashboardAtoms.js:71`);
- the server's default interval is not used: `refreshIntervalAtom` starts with
  null (`uiAtoms.js:21`), and resetting the settings leaves the interval as it is;
- the repository's README says `fixed` for `DSD_MAX_CONTENT_WIDTH`, the code
  compares with `centered`;
- services without a stack are found by "(without stack)" on the Stacks page
  only; a task without a node is on no dashboard; the detail of an entity that
  has gone is an empty object, which the detail of a node shows as a node without
  properties; two ports with one number and different protocols share a React
  key; a node's or service's ID is also matched by prefix by Docker's filters, and
  the models match whole IDs, but for the empty one.

## Proofs

`LogStreamProofs` proves, for every number of lines, channel size, tail, socket
size and set of blank lines (`ConstantsAssumption`):

1. `TypeCorrect`: `Spec => []TypeOK`.
2. `Invariance`: `Spec => []IInv`, where `IInv` is the conjunction of
   - `NotStarted`: nothing was read before the reader started;
   - `CancelOrder`: who may have cancelled or closed by when;
   - `Ends`: which ends of the request imply which others;
   - `Pipeline`: where each line of a follow request is: on the wire, in the
     writer's hands, in the channel, in the reader's hands, one after the other;
   - `Collection`: the same for a one-shot request.
3. From these `FollowInOrder`, `NormalCloseIsComplete`, `BoundedReadAhead` and
   `CancelAfterClose`.
4. `Implementation`: `Spec => DeliverySpec`.

None of the properties is inductive: that a line sent is the next one needs where
all the others are (`Pipeline`), and that a normal close is complete needs that a
reader which dropped its line was cancelled, and that a stream is cancelled only
with its connection closed (`CancelOrder`). The pipeline's count is exact while
the reader lives or the connection is open, and only a bound afterwards.

For a one-shot request `Gathered` adds what has been put aside: `collected`
enumerates the lines with a payload of those taken so far, and the request goes on
to its answer for one of three reasons (the idle timer, the end of the response, a
closed connection). `GatheredAlways` is its theorem, and `ExhaustedAlways` that the
idle timer runs from the first line on, and that a request which goes on without it
has taken all lines of a response that had ended;
`TailIsRecent` and `EmptyAnswerIsTrue` follow. That a sequence holds the lines of an interval that
have a payload is said by `Enumerates`, since the library's `SelectSeq` cannot be
expanded by the prover.

`LogFramesProofs` proves, for any payloads of bytes, any buffer and any number of
frames (`FramesAssumption`), `AggregateIsSplit`, `TailLinesArePlain` and
`FollowKeepsText`. The first is about functions: that the size in a header is the
payload's (`SizeIs`), so that the loop finds the first frame and goes on with the
others (`FrameLinesCons`, `LoopSplits`). The other two need that a plain response
is read frame by frame, which is the inductive invariant `IInv`: what is left to
read is the response of the frames from some k on, and the line in hand, if any,
is the frame before. One frame is read, sent and stripped whole (`PlainIsRead`,
`PlainIsSent`, `PlainIsStripped`). The recursive functions of the model exist
(`RecursionExists`, from partial solutions of growing length), and what holds of
every prefix of a sequence is shown by the shortest prefix that would be an
exception (`LeastNumber`, `UpTo`), since the induction theorems take an operator.
`TypeCorrect` is about every response, plain or not: what is left to read is always
an end of it, and nothing is sent that is not made of its bytes.

`LogsViewProofs` proves, for every set of services, number of connections and
messages and every cap, `IInv` and from it `TypeOK`, `NoForeignLines`,
`BurstIsKept`, `OneLiveConnection` and `RetryIsForFollow`. The properties are
inductive only together and with two more facts: `Held` (the connection that
`useWebSocket` holds is the newest one and the session's, and a connection that
has delivered a message has its last line at the end of the output) and
`NotYetOpened`. `LastOfKeepsTheEnd` is the lemma about `slice(-cap)`.

`ServerHandlerProofs` proves, of `MetricsRequest`, for every finite set of nodes and
of agents, any tasks and places and any number of changes, `IInv`, `TypeOK`, `NothingLeftBehind`,
`PartialFailureIsTolerated`, `StillSwarmIsExact` and `TaskIsItsOwn`. The argument
is one of counting: a worker's result is in the channel or received exactly when
the worker is done (`WorkersReport`), so that as many results as workers means
all of them (`FS_Subset` of the library, on finite sets); `StillSwarm` carries
what was listed, resolved and measured as long as nothing changes. That a worker
measured its own node has as premise that an agent there can be reached by an
address, and that no node is counted twice that none has two agents that run: both
are what the code relies on and Docker does not promise.

Of `VersionCache` it proves, for every set of requests, number of releases,
timeout and local version, `VersionInv`, `VersionTypeOK`, `ReleaseHasDate`,
`UpdateIsReal` and the action property `OneCallPerTimeout`. What is added to the properties: a
request that is about to answer with a release got it when the time of the check
was set, and the cache is never older than what any request stored last.

`DashboardProofs` proves, for any nodes, services, tasks, words, server settings
and links and any number of operations, `Inductive` (`Spec => []IInv`) and from it
`TypeOK`, `DetailMatchesPage` and `AtMostOneFilter`. It assumes of the server that
its settings have a value for every key, and of a link that a tab could have had
it (`ServedAssumption`, `LinkAssumption`). The three properties are about every
entry of the history, not only the one on display, since going back makes any of
them current; they are inductive only together and with the box, whose text is
written into the hash (`BoxOK`). An entry is `Good` when it has its type, fits its
page and has at most one filter; each way to write an entry keeps it good
(`WriteGood`, `WriteFilterGood`, `EditedGood`, `EffectGood` and their like), and pushing,
replacing and going back keep a history of good entries one (`GoodHistory`).

What is on display is related to the entry by `ShownOK` (`ShownAlways`), which
gives `UrlIsShown`, and the box to it by `BoxInv`, which gives `BoxAgrees`. The
latter has a hypothesis, `LinksTyped`: every URL the tab is opened with says of its
filter which kind it is. Links that were copied from a tab do; the bare URL does
unless the server filters by a stack and names no kind, and that is the exception
`BoxIsInSync` fails on.

`MetricsPanelProofs` proves, for any entities and any number of effects, requests
and timers, `TypeCorrect`, `ShowsItsOwnAnswer` and `MetricsAreOfEntity`. The
invariant says of the run of the effect that is live that it is the last one of
this mount and asked for the entity on display (`LiveOK`), when a panel is loading
(`LoadingOK`), that an error on display is of an earlier run only where the code
lets one be (`ErrorIsEarlier`), and where the data come from (`AnswerOK`,
`DataIsLast`). A panel
that is unmounted keeps nothing, which is what makes a late answer harmless.

`SwarmPagesProofs` proves, for any swarm, any number of changes during a request
and every filter, set of hidden states and column, `NothingInvented`,
`RowsAreExplained`, `DetailIsOfSubject` and `SortIsStable`. The properties speak of
the end of a request only, and the invariant of every point of it: what is there
now has been `seen`, and what was there all the time is there now (`SeenOK`); what
has been got was seen, a task with its service and in the state it is listed with
(`GotOK`); a list that is no longer to be asked for has all that stayed
(`ListsOK`); and a detail's tasks are those of its subject, each joined once with
what its ID finds, or with nothing when that has gone or the call failed (`DetailOK`,
`JoinOK`). `SortedEnumerates` shows that `Sorted` has every member of a
finite set once and in order: the number of members before one is its place.
`TypeCorrect` follows with what is left to be asked for, the end of the list of a
page (`RestsAreRests`); of the states of a task one comes first
(`PagesAssumption`).

`MetricsChartsProofs` proves `SeveritiesAgree`, `DonutsAddUp` and
`ChartsAreDrawable` for every answer in `Answers`: any numbers, and any number of
processors, filesystems, interfaces, devices and containers. Each is a statement
about one answer, so the invariant is only that answers are such (`Measured`); the
work is in the arithmetic. `Sum` is a recursive function, of which `SumIs` shows
that it exists and `SumsCompare` that what holds of every pair of numbers, in
proportion, holds of their sums: shares that are rounded one by one miss the
whole by half a unit each at most, and usages stay within limits that hold one by one. Both are shown
by the least number that would be an exception, which needs no induction schema.

The assumptions on constants (`ConstantsAssumption`, `ServedAssumption`,
`PagesAssumption`, `EntitiesAssumption`, `RankAssumption`, `SamplesAssumption` and
the like) are evaluated by TLC in every run of their module.

The type invariants, `NothingLeftBehind`, `CancelAfterClose`, `GatheredAlways`,
`ExhaustedAlways`, `ShownAlways` and the inductive invariants are proved and not
listed in a run.

Model-checked only: all liveness properties, since fairness is beyond the prover.
Every invariant, the action property and the refinement of the passing runs are
theorems.

## Plan

Done, in this order: log streaming, framing and the Logs view; the version cache;
the metrics request; the loading bar and the panels; the charts; the pages; the
dashboard. What could follow:

1. pure functions against reference definitions: log options and their defaults,
   environment masking, metrics summaries (`AveragePercent` of
   `service_metrics_handler.go:626`, which divides the usage of all containers by
   the limits of those that have one);
2. calls of the Docker API that never return: they have no deadline, and the
   models assume that they do.

## Not modelled

Styles and markup; the options of the timeline's chart; the about page; the tests,
the mock server and the build; the router and the listener; the parsing of the
server's environment and of the metrics text, and the masking of variables, which
are functions on strings. The shared Docker client, a double-checked lock around
one pointer: the handlers see a client or an error. The detail of a task and the
handlers that pass on one list unchanged. The text of messages and log lines,
except where `LogFrames` looks at bytes. Concurrent setup of the connection's read
side (`SetReadDeadline` while the watcher reads) is taken as done when the watcher
starts. Services with a TTY, whose response carries no headers, so that eight
characters of every line are removed. A service whose `EndpointSpec` is missing.
