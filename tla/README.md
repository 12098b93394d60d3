# litellm-proxy in TLA+

litellm-proxy (`src/`) is an LLM API proxy in Python: clients speak OpenAI
Chat, OpenAI Responses or Anthropic Messages to it, and it forwards each
request to one of several configured providers, each with several API keys and
several wire formats, retrying elsewhere when an attempt fails. This directory
holds a model of it in TLA+, the configurations that check the model with TLC,
and theorems about it checked by TLAPS.

Two parts carry most of the program's own logic. The **router** remembers the
health of keys, providers and model/format pairs, and requests walk through the
candidates that are left. The **console**, a single-page application in
JavaScript (`src/dashboard_src/`), keeps a copy of the proxy's configuration,
history, models and statistics, changes the configuration optimistically, and
has to stay right while answers of several loads arrive in any order. The
models of the two meet in the console's catalog of a provider's models, which
must agree with what the proxy does with a request.

## 1. The system

One process, a bounded thread pool (`sse2json.py` 7022), one thread per client
connection, and daemon threads for probes, model discovery, history, prices and
diagnostics. State is in memory behind one lock per object, with SQLite or JSON
files for what must survive a restart.

| Component | Where | State it keeps | Operations | What makes it correct |
|---|---|---|---|---|
| Upstream health | `router.py` | cooldown, disabling, strikes per key; cooldown, switch per provider; circuits per (key, format, model, profile) | report success/failure, cool, prune, operator commands, persist, migrate | penalties bounded, never shortened by a late report, earned |
| Failure policy | `scheduler_policy.py` | none | classify, base policy, override, ladders | clamped, total |
| Attempt iteration | `router.py` `iter_attempts` | rotation per model; locals of each request | choose order, scan, select key, check circuit | best candidate first, none twice, none forgotten, ends |
| Request driver | `sse2json.py` | locals of each thread | send, stream, report, retry, give up | no retry after output, right party blamed |
| Health probes | `sse2json.py`, `probe_coordinator.py` | active slot, strike counts | idle, patrol and manual probes | one at a time, yield to requests, two strikes |
| Runtime swap | `sse2json.py` 2309 | the published set of live objects | build, migrate, publish, retire | a request sees one set; nothing reported is lost |
| Config overlay | `config_manager.py` | overlay, merged config, revision, file | edit, clear, reload | no lost update, file always readable |
| Model discovery | `model_discovery_queue.py` | queue, urgent, active, next time | enqueue, pop, defer, fetch, reschedule | one fetch per provider, nobody forgotten |
| Model registry | `model_registry.py` | catalogues, snapshot files | refresh, merge, resolve | a catalogue never moves backwards |
| Session store | `conversion_core/session_store.py` | chains of responses in SQLite, two counters | save, load chain, delete, prune | bounded, counters exact, chains whole |
| Signature store | `thought_signature_store.py` | signatures in SQLite | save, get, trim | bounded, fresh |
| Client keys | `client_key_store.py` | keys, usage, rate windows | check, stamp, account | limits and quotas hold |
| History | `history_store.py` | write queue, SQLite | record, write batch, prune, shut down | each record once, or counted as lost |
| Usage statistics | `usage_statistics.py` | ledger, hourly and daily aggregates | reconcile, backfill, prune, clear | aggregates are the sum of the ledger |
| Observability | `observability.py` | counters, active and recent requests | start, attempt, end, migrate | in-flight count exact across reloads |
| Pricing | `pricing_resolver.py` | queue, retries, resolved prices | enqueue, fetch, retry, defer | each model priced or marked |
| Audit, diagnostics | `audit_store.py`, `conversion_diagnostics.py` | tails, JSONL files | record, prune, rotate, hand over | newest records survive |
| Console: configuration store | `optimistic-config.mjs` | confirmed configuration, its mark, pending and settled edits | begin, confirm, reject, accept, clear | never older than what was confirmed; previews end |
| Console: saves and refreshes | `app.js`, `operation-guard.mjs`, `mutation-ui.mjs` | saves under way, unsaved input, timers, two kinds of refresh, session | preview, send, take, refuse, log in and out | the screen ends up with the server's configuration |
| Console: history and polling | `app.js`, `request-pagination.mjs` | rows, page, navigation, the poll and the full refresh under way | poll, page, filter, delete, hide, pause | the rows shown belong to the page and filter shown |
| Console: models' capabilities | `app.js`, `model-capability-order.mjs` | models, version last seen, follow-up timer | accept, fetch again | never backwards, never left behind |
| Console: statistics page | `app.js`, `state.js` | selections, parts shown, newest load | select, page, clear, load | the parts shown belong to the selection |
| Console: catalog of models | `provider-model-config.mjs`, `app.js` | drafts of switches | rows, sources, filter, stage, apply | agrees with what the proxy does |
| Streams and codecs | `stream_adapters.py`, `protocol_adapters.py`, `conversion_core/codecs` | per stream | translate events | well-formed event order |

How they interact: a request thread takes the live set (`_request_runtime`),
asks the router for attempts one by one (a Python generator, so the router's
locals live exactly as long as the request's loop), sends each with the
upstream client, relays the answer through the stream adapters and reports the
outcome to the router and to observability, which writes history and
statistics and calls the client-key store. Probes and operators (through
`admin_routes.py`) report to the same router. A configuration change goes
through the overlay and then builds a new set of everything, beside requests
that keep the old one.

Hard behaviours: reports that land in any order after the fact; steps of one
request split over several lock sections; cooldowns renewed by those who wait
for them; two generations of every object during a reload; queues that drop;
counters kept beside a transactional table. In the console: answers overtaken by
other answers, by saves, by navigation and by logout; requests aborted that had
already been answered; loads that drop what was asked for meanwhile; a server
that restarts and counts revisions anew. `PROJECT.json` lists each at the line
where it bites ("hazards").

## 2. Modules

| Module | Models | State |
|---|---|---|
| `Fleet` | providers, keys and owners (constants only) | |
| `FailurePolicy` | `scheduler_policy.py` and the ladders of `router.py` | pure |
| `RouterHealth` | every writer of the router's health state | `keyState`, `providerState`, `circuit` |
| `AttemptOrder` | `_select_provider_attempts`, weights, rotations, slots | reads `setting` |
| `Failover` | the abstract promise of failover to a client | `phase`, `prefers`, `steady`, `tried` |
| `Router` | requests walking the order, beside probes, operators and the clock; refines `RouterHealth` and `Failover` | health and `setting`, `req`, `rotation`, `interference`, history |
| `DiscoveryQueue` | `model_discovery_queue.py` and its callers | queue, cooldowns, workers, snapshots |
| `Probes` | `ProbeCoordinator`, patrol and readiness rounds, dashboard tests | slot, schedule, rounds, clicks |
| `ConfigContent` | what one write does to a configuration: the server's `PATCH` handlers and the console's previews | pure |
| `OptimisticConfig` | `OptimisticConfigStore`, operators from a store to a store | pure |
| `DashboardConfig` | the console's saves, refreshes, forms and sessions, and the server that answers | `srv`, `store`, `shown`, `edits`, `static`, `all`, ... |
| `RequestsPage` | paging and the order of two snapshots of the models | pure |
| `DashboardPages` | polls, full refreshes, the request history, the providers' models | `srv`, `ui`, `rows`, `nav`, `poll`, `all`, `caps`, ... |
| `UsagePanel` | the statistics page | `sel`, `shown`, `loads`, `newest`, `table`, ... |
| `ModelCatalog` | the rows of a provider's models beside resolution, gates and listing in the proxy | pure |
| `MCRouterHealth`, `MCRouter`, `MCDiscoveryQueue`, `MCProbes`, `MCDashboardConfig`, `MCDashboardPages` | instances for TLC | |
| `RouterHealthProofs`, `AttemptOrderProofs`, `RouterProofs`, `DiscoveryQueueProofs`, `ProbesProofs`, `DashboardConfigProofs`, `DashboardPagesProofs`, `ModelCatalogProofs` | theorems | |

### RouterHealth

`_keys_state[(provider, i)]` is `keyState[k]`, `_providers_state` is
`providerState`, `_compatibility_state` is `circuit` (a record with no failures
stands for a missing entry). The code stores deadlines and compares them with
the clock; the model stores what is left until the deadline, so
`max(deadline, now + d)` is the larger remainder, `now >= deadline` is zero and
time is one action, `Tick`. Each public operation takes the one lock for its
whole body, hence one action each. Strike counters are unbounded in the code
and stop mattering one past the end of their ladder; `CountStrike` stops
there. `fails`, `successes` and `last_error` are displayed and decide nothing,
so they are left out, as is the size limit of `_prune_compatibility_locked`
(at least 100 entries, beyond any instance checked here).

`HealthSpec` lets any report arrive for any key at any moment. That is more
than the program does (somebody must have sent the attempt), which is what
makes it the right abstraction of "reports arrive late and in any order";
`Router` then shows that requests do no more than that.

### AttemptOrder and Router

A request chooses its order in one or more lock sections (`ChooseOrder`: in
the rotating modes the native and the fallback list are rotated one after the
other), then scans slots (`SelectKey`), looks a second time when it found no
key (`NoKey`), cools the provider (`Cool`), looks at the candidate's circuit
(`CheckCircuit`) and sends. While `pc = "sent"` it holds nothing; `Serve`,
`AttemptFails`, `ConversionFails` and `StartStream` are what may come back, and
after `StartStream` only `Serve`, `StreamBreaks` and `StreamEndsUnreported`
remain: no other attempt is made once headers went out. The four client
endpoints have the same loop; the chat loop is the one mapped.

A router's configuration does not change during its life: a reload builds a
new `UpstreamRouter`. It is therefore a variable, `setting`, drawn from the
constant `Settings` in the initial state and never changed, so that one run
checks several configurations side by side.

Three variables are history only. `tried[r]` collects the candidates sent;
`steady[r]` holds those that have been usable in every state since the order
was chosen; `prefers[r]` freezes the preference the order is to be judged by
(auto mode lowers priorities by a health score at that moment). They make it
possible to say what is fair to ask of a program that checks one candidate at
a time while everything moves: *what was usable all along must have been
considered, and considered first if it is better.*

What the request loop does on its own connection and the router never sees is
left out: compatibility retries with the same key (no report in between), the
durations of timeouts (an attempt simply may fail while sent), and an answer
without visible text that is kept as a fallback, which ends the request as
served to the client but as refused in the router's loop.

### DiscoveryQueue

`queue` is `_queue` (its set `_queued` is derived), `cooldown` stands for
`_next_eligible`, `active`, `urgent` and `deferredFor` for the fields of these
names; times are again what is left or has passed. A worker's turn of `_run` is
split where it leaves the lock: `PopDue`, `LookUrgent` (which reads `_urgent`
before the lock is taken), `Weigh`, `StartFetch`, `EndFetch`, `ReadOutcome`,
`ScheduleOk` or `ScheduleRetry`, `Finish`. `snapshot` is the status of a
provider's entry in `provider_model_capabilities`, which lives outside the
queue and is written by fetches, by edits (`pending`) and by a changed
configuration signature (`stale`). `Reload`, `EditProvider`, `Refresh` and
`Restart` are the callers; what they publish and what they enqueue are separate
steps (`owed`), so workers run in between. `asked` is history: whether somebody
forced a fetch since the last one began. The wake event is left out, for a
worker looks again by itself after 30 s at most; the liveness property would
otherwise rest on it.

### Probes

`holder` is `ProbeCoordinator._active`; a round's step is one section under the
coordinator's lock, one look at `requests_in_flight`, or one write of the
shared schedule. The seven ways a patrol round ends (`Postpone`,
`NothingToSweep`, `Interrupt`, `CompleteSweep`, `FailRound` at three places)
write `running` and `cursor` as the code does. `TakeAuto` and `StartAuto` are
the two lock sections of `run_auto`, between which a real request cancels the
probe (`Cancel`). What a probe finds, whether a key had a success of late, when
rounds fall due and how long the readiness plan is are choices: none of the
properties depends on them. `min_interval_s` is 0 in the program
(`sse2json.py` 514). `swept`, `passed` and `disturbed` are history; rounds that
overlapped or that saw priorities change are excused from the two sweep
properties, because the cursor is a place in an order.

### ConfigContent, OptimisticConfig and DashboardConfig

A configuration is cut down to the kinds of content whose edits behave
differently: `knob` (a block or flag that is replaced whole), `keys` (a list
edited by position), `static` (a list rewritten whole) and `group` (variant
groups). For each editor of the console `ConfigContent` has the writes it
sends and the resource key it saves under; `Preview` is what the console
expects of a write, `ServerApply` what `config_manager.py` does with it, and
`ServerAccepts` when it refuses.

A store is a record, and the methods of `OptimisticConfigStore` are operators;
`confirmed`, `mark` (epoch and revision), `pending`, `settled` and `nextId` are
its fields. Previews are laid over each other by recursive functions (`Laid`,
`Preview`) and an edit is taken out at its place (`PlaceOf`), where the code
filters by an id that no other edit has. In `DashboardConfig` `store` is the store, `shown` is
`state.data.config`, `phase` is `state.staticDataState`, `edits` are the runs of
`runOptimisticConfigAction`, `runConfigMutation` and `runFormatMutation` under
way, `depth`, `dirty` and the `disturbed` flag of a refresh stand for the
refresh coordinator of `operation-guard.mjs` with its `interactionVersion`,
`timer` is the coalesced background refresh, `static` and `all` are
`refreshStaticAdminData` and `refreshAll`. A request is sent, handled and
answered in three steps. The server commits and then answers with a snapshot
that it reads without the commit lock, so a snapshot may be torn (`Snapshot`).
`missed`, `blind`, `orphan` and `sees` are history: that the server changed
behind the console's back, that the screen was behind when a save began, that a
save's session has ended, and which keys were on the screen. They name the
cases in which nobody could expect the screen to be right. `missed` ends when
the store is given the server's present epoch and revision; equal contents are
not enough, for the store could have them by chance under an older revision and
then take an answer from between the two.

### RequestsPage and DashboardPages

`poll` is `refreshRuntimeData`: the run under way, what was asked for meanwhile
and whether the view's data are due; `all` is `refreshAll`; `nav` is
`_requestPageNavigation`; `caps`, `last`, `fetches` and `followUp` are
`state.data.status.models`, `_lastModelsVersion`, the requests of
`refreshCapabilitiesOnly` and its timer. Content of history rows is a number
that changes with the history (`rev`).

An answer may have been read at any moment between the request and its use. The
model does not split every request in three; each request under way keeps the
set `could` of the states the server was in meanwhile, and an answer takes one
of them. That is the same nondeterminism with far fewer states. `excused` is
history: one of the events after which the models are known not to be fetched
again (section 4, b).

### UsagePanel

`sel` is the selection of usage statistics, `shown` says for each of the three
parts which selection it is for, `newest` is `usageStatisticsLoadSeq` and
`loads` the loads under way. `table` is the models' table with its own rule:
one load at a time, and what is asked for meanwhile is dropped. `missed` and
`table.dropped` are history for exactly these droppings.

### ModelCatalog

A catalog is a record of the four sources both sides read: `groups` (variant
groups), `renames` (`provider_model_map`), `found` (discovered ids with their
vendor copies), `static` declarations, with `routes`, the ids the provider
itself lists (`listed`) and the switched-off ids (`off`). The first half is the
proxy: how an id is resolved (`First`), the gates of the pool (`Supports`) and
of routes (`RequestOff`), what is listed in `GET /v1/models`
(`AdvertisedFound`, `AdvertisedConfigured`). The second half is the console:
the rows (`Rows`), what a row says it is sent as (`ShownFirst`), its switch
(`ShownOff`), the status filter, the warnings, and the drafts of switches
(`Staged`, `BulkModels`, `Applied`). The agreements at the end relate the two
halves. `Lower` maps a spelling to its lower-case one: the sides look names up
exactly in some places and in lower case in others, which is what the
exceptions are about.

## 3. What is checked

| Run | Module | Expect | States | Shows |
|---|---|---|---|---|
| `health` | MCRouterHealth | pass | 292 128 | health state: types, bounds, earned disabling, monotone penalties, open circuits hold |
| `router_safety` | MCRouter | pass | 490 612 | implements `Failover`; every provider considered; types |
| `router_liveness` | MCRouter | pass | 19 396 | every request ends; cooled providers return; implements `HealthSpec` |
| `router_starved` | MCRouter | violation | | finding 1 |
| `router_ladder` | MCRouter | violation | | finding 2 |
| `router_cap` | MCRouter | violation | | finding 3 |
| `discovery` | MCDiscoveryQueue | pass | 1 274 784 | no provider fetched twice at once, forgotten or starved; trusted catalogues fetched on request only |
| `discovery_expired` | MCDiscoveryQueue | violation | | finding 4 |
| `probes` | MCProbes | pass | 387 342 | one probe at a time; sweeps complete and without repetition; clicks answered |
| `probes_overlap` | MCProbes | violation | | finding 5 |
| `config_view` | MCDashboardConfig | pass | 445 000 | the store holds what it claims and never goes back; pending edits stay visible; the screen ends up with the server's configuration; deletion by position hits its key; renames keep the group; late answers of an ended session change nothing; previews and loading end |
| `console_pages` | MCDashboardPages | pass | 537 000 | rows settle on page and filter; navigations end with the page shown; models never go back and catch up; both statistics panels settle on the selection |

The ASSUMEs of `MCDashboardConfig`, evaluated with `config_view`, check the
agreements of `ModelCatalog` on every small catalog (`SmallCatalogs`: enough for
one id to have all four sources and for a source to name the id of another, in
another case), that each exception does happen, and that drafts do what they
show.

**Bounds.** `health`: two keys of one provider and one lane; the interplay of
health state is between keys of one provider and between a key and its
circuits, and keys are interchangeable (symmetry). Ladders and durations are
one or two ticks, so that "longer than one rung" and "still running when the
next report lands" both occur, `Retry-After` exceeds `MaxCooldown`, and two
overrides widen a key's failure to its provider. `router_safety`: at most two
providers, three keys and two requests per setting; each setting is there for a
reason given at its definition in `MCRouter` (racing, two formats with
penalties that invert priorities, native first without discovery data, two
model names of which a key lacks one, rotation by two requests, random order).
`maxInterference` bounds probe reports and operator commands to one where there
are any; `clients` bounds the requests. `CHECK_DEADLOCK FALSE` is used because
requests that are not recurring end and then nothing is left to do.
`router_liveness`: one setting where two requests never stop coming, one with a
race over two keys, one with a probe.

`discovery`: two workers and two providers, so that one provider can be queued
and active while the other worker looks; one administrative call or restart at
any moment; `MaxDefer` is twice the pause, so a fetch yields more than once.
The initial state of this run is a first start; snapshots saved by an earlier
life are met after `Restart`. `discovery_expired` starts from any snapshots.
`probes`: two providers with two keys and one, so that a sweep is interrupted
within a provider and between providers, in three settings: two overlapping
rounds; one round while providers are removed (down to none) or reordered;
patrol, readiness checker and two clicks together.

`config_view` and `console_pages` start from a set of budgets (`MCBudgets`,
`MCScenarios`, `MCUsageScenarios`): each behaviour has one record that says how
often the operator, the server and the network may do each of the things that
may happen at any time. One record allows two or three kinds of event that can
disturb each other (two forms; a switch beside two pressed refreshes; a save
across a logout and a login with another key; paging while an answer is lost),
which keeps every pair of interest and leaves out their product. `MaxEdits` is
two saves, the least that can race; `MaxPages` is three, so that a page can be
first, middle, last and gone; `MaxFetches` bounds what follow-up timers may add
and is above what one change of version needs. Two model ids, two groups and one
declared model suffice for edits of the same and of different resources.
`DashboardPages` and `UsagePanel` share no state and are explored one at a time
in one run (`OneAtATime`). Both runs end when the budget is spent, hence
`CHECK_DEADLOCK FALSE`.

**Fairness.** `FairSpec` assumes that a thread which can go on does
(`WF(Step(r))`: the scheduler runs every thread and every upstream call has a
timeout, so a sent attempt eventually comes back) and that time passes
(`WF(ClockTick)`). Nothing is assumed of probes, operators, or of new requests
beyond the thread's own steps. Liveness properties are checked without
symmetry. In `DiscoveryQueue` workers, running calls and the clock are fair, and
traffic is not assumed ever to pause. In `Probes` every actor finishes what it
began (probes have timeouts), and a waiting test takes the slot if it is free
again and again (`SF`): `run_manual` is woken when the slot is freed and looks
four times a second, while the checkers take it with pauses of seconds between
probes; Python's condition variable itself promises no order.

In the console requests end and timers fire: `WF(NetworkStep)` in
`DashboardConfig`; in `DashboardPages` answers, the five-second tick, the
follow-up and background timers and the age after which a view is due; in
`UsagePanel` the answers. `fetch` settles every promise, if only with an error.
Losses are actions beside, limited by the budget. Nothing obliges the operator
or other administrators to do anything, so "ends up with" means: once they leave
the console alone.

**Mutants.** Each property of a passing run has a mutant of the code that it
catches (the definitions commented `Mutant`): a bound forgotten, an off-by-one
in a ladder, a wrap forgotten, a native flag left out of the sort key, and so
on.

## 4. Disagreements between the code and what is said of it

Shown by a run:

1. `router_starved`: a request that finds no usable key renews the provider's
   2 s cooldown even if it is already running, and without discovery data
   cooling providers are offered again. Requests that keep arriving keep a
   provider cooling for ever, against the docstring of
   `_key_failure_ladder_decision`.
2. `router_ladder`: looking at an expired circuit removes its failure count,
   so the 10/60/3600 s ladder of the design document never climbs unless
   failures overlap.
3. `router_cap`: outside `priority_failover` the attempt cap counts slots and
   not, as the comment says, provider and key candidates.
4. `discovery_expired`: a provider whose fetch succeeded leaves the queue, so
   an expired catalogue is not "re-queued automatically" as the module's
   docstring says; it waits for a restart, a reload, an edit or a refresh.
5. `probes_overlap`: the patrol checker starts a round beside a triggered one;
   the lock that is documented to prevent this is taken by triggers only.

Read in the code, not run:

- `docs/FEATURES.md:224` calls `max_attempts` the total cap; `router.py:257`
  raises it.
- `scheduler_policy.py:428` says "stop attempts" for 422 and for a missing
  model; no branch sets `stop_attempts` (operator `StopAttempts`).
- The circuit design document says probes use an isolated profile; they use
  `plain` (`sse2json.py:810`), the profile of ordinary requests, so a probe's
  success clears their circuit (`ProbeLane`).
- A refresh that arrives while its provider is being fetched is queued, but the
  running fetch, when it succeeds, sets the cooldown of four hours and removes
  the urgency: the fetch that began before the request is its only answer.
- A provider that was removed is fetched (and fails) every five minutes:
  `_schedule_retry` does not look whether it is still configured, against the
  comment at `sse2json.py:2389-2391`.
- A patrol round that finds no enabled provider leaves `running` set
  (`sse2json.py:1848`), and triggers are declined from then on; the comment at
  1938-1941 is about preventing exactly that for another return.
- The look at the traffic precedes a pause of seconds, and `run_auto` looks for
  requests that came within its own microseconds only, so probes may start
  beside a request that arrived during the pause.
- A snapshot of the configuration pairs the old content with the new revision
  when a commit falls between its two reads (`config_manager.py:128`). The
  console takes it for the newer one; it is modelled (`torn`) and excepted from
  `HoldsWhatItClaims`. The capability snapshot (`sse2json.py` 3474-3530) is read
  in parts in the same way.
- The readiness checker's streak of failed rounds counts rounds whose probes
  were all skipped; the comment at `sse2json.py:486` speaks of executed ones.

In the console (`dashboard_src/src/app.js` unless said otherwise):

- a. *Paging stuck.* Next, and then a filter, a deletion or a shrunken history
  before the answer: `_requestPageNavigation` is never cleared and both buttons
  stay disabled (`NavigationEnds` excepts it).
- b. *Models left behind.* They are not fetched again after a failed fetch, after
  a version seen while the page was hidden or logged out, when the metrics of a
  full refresh are newer than the models it brought along, or when a restarted
  server has the same version number (`excused`). The comment at 1943-1957 says
  "best-effort; next poll will retry"; the next poll sees an unchanged version.
- c. A full refresh writes its rows without looking at the page that is open by
  then; the poll's signature of what it applied last does not know of rows that
  others wrote, and skips them (the exceptions of `RowsSettle`).
- d. After a logout a save that is refused late publishes an empty
  configuration, so the next login does not ask for one; a 401 for the old key
  ends the new session.
  A static refresh that was answered before a logout fills the cleared store
  when it arrives after it (`refreshStaticAdminData` looks at the key when it
  starts only); the next login finds a configuration, asks for none and shows
  an outdated one until something else fetches it (`Leftover`; the proof of
  `ScreensAgree` had to name this case).
- e. A configuration dropped because an interaction was going on is not asked
  for again; the health-monitor form is overwritten by `renderAll`.
- f. `loadModelUsage` drops a selection that changes while it loads
  (`table.dropped`); turning a page of the breakdown overtakes a full load,
  whose other two parts stay on the old range (`missed`); so do parts cleared
  while the page is away.
- g. The drawers of requests, models and keys check no sequence: an answer that
  arrives late is shown in the drawer opened since; `closeFormModal` after a
  success closes whatever is open.
- h. Static models are saved under two resource keys, each with the whole list,
  and the editor uses the list it was opened on (8843): one save undoes another.
- i. A key is edited by position while a deletion is under way; a deletion whose
  answer was lost, repeated, removes another key (`blind`, `orphan`).
- j. Two opposite renames of variant groups lose the group; a rename that fails
  halfway is shown as if nothing had happened (8685-8688).
- k. Drafts of switched-off models made during a save are discarded when it
  succeeds (8527); the success of one save clears the dirty marks of all forms
  (11689); taking back a hot-priority change writes to a detached object
  (11178-11199).
- l. Changing the console's own admin key (3058-3098) beside a full refresh with
  the old one ends the session.
- m. Playground: with history included, `pgBuildRequest` sends the message that
  was just typed twice, with the empty answer between (14312, after the pushes
  of `pgSend`); `pgAppendStreamText` takes a delta that begins with all the text
  so far for a snapshot, so "ha" + "ha" is "ha"; the last line of a stream is
  dropped when no newline follows; another format chosen while an answer streams
  drops the rest; Stop has no effect on the trace fetched afterwards.

Between the catalog and the proxy (`model_registry.py`, `ModelCatalogProofs`):

- A group whose id a rename also uses cannot be switched off:
  `provider_model_request_disabled` returns early, against the comment at
  `app.js:5794` and the design document of 2026-10-10 on variant groups.
- The two gates disagree where copies of one model are switched separately: with
  the primary copy off and a sibling on, the id is offered in `GET /v1/models`
  and served from the pool, and refused on a route (docstring at 185-192).
- Candidates that come from a variant group are not filtered by
  `provider_model_disabled` (1048-1066), against that design document; the
  warning "1 of 3 upstreams disabled" counts members that are still used.
- A declared id whose discovered model a rename took over is sent as that model,
  and its row does not say so. A disabled id left behind by a deleted group
  refuses a row shown as on. Groups that differ only by case show the last one's
  members. The status filter looks at the raw name of an item as well as at its
  row. Without a map of canonical ids nothing is hidden automatically.

## 5. What is proved

TLAPS checks, for every fleet, ladder, policy and number of requests allowed by
the assumptions `FleetAssumption`, `LadderAssumption`, `PolicyAssumption`,
`RouterAssumption` and `RequestAssumption`, for every set of providers and
workers and all times (`NoProviderAssumption`, `TimesAssumption`), for any
number of rounds and clicks, any order without repetition and any numbers of
keys (`ActorsAssumption`, `OrderAssumption`, `KeysAssumption`,
`SettingsAssumption`), for every set of models, groups,
keys, filters, pages, scenarios and budgets of the console
(`ContentAssumption`, `BudgetAssumption`, `PageAssumption`,
`ScenariosAssumption`, and `UsageAssumption`: there is a range to choose) and for all catalogs
over any set of ids and any idempotent `Lower` (`IdsAssumption`); TLC evaluates
the assumptions in the runs:

| Theorem | Statement |
|---|---|
| `TypeCorrect` | `HealthSpec => []HealthTypeOK` |
| `BlocksStayBounded` | `HealthSpec => []BlocksAreBounded` |
| `DisabledKeysEarnedIt` | `HealthSpec => []DisabledIsEarned` |
| `PenaltiesGrow` | `HealthSpec => PenaltiesOnlyGrow` |
| `OpenCircuitsStay` | `HealthSpec => OpenCircuitsHold` |
| `RouterImplementsHealth` | `RouterSpec => RequestsRespectHealth` |
| `LoadIsBounded` | `RouterSpec => [](BlocksAreBounded /\ DisabledIsEarned)` |
| `RouterTypeCorrect` | `RouterSpec => []RouterTypeOK` |
| `ProvidersAreConsidered` | `RouterSpec => []EveryProviderConsidered` |
| `FailoverPromiseKept` | `RouterSpec => KeepsFailoverPromise` (implements `Failover`) |
| `QueueTypeCorrect` | `Spec => []DiscoveryTypeOK` |
| `FetchesExclude` | `Spec => []NeverFetchedTwice` |
| `NobodyForgotten` | `Spec => []NeverForgotten` |
| `TrustedRest` | `Spec => TrustedIsNotRefetched` |
| `ProbesExclude` | `Spec => []OneProbeAtATime` |
| `ProbesTypeCorrect` | `Spec => []ProbesTypeOK` |
| `SweepsVisitEveryKey` | `Spec => SweepsAreComplete` |
| `NoKeySweptTwice` | `Spec => NothingSweptTwice` |
| `ClaimsAreTold` | `Spec => []ClaimsInv` |
| `StoreHoldsWhatItClaims` | `Spec => []HoldsWhatItClaims` |
| `MarksOnlyGrow` | `Spec => MarkNeverGoesBack` |
| `LateAnswersAreIdle` | `Spec => LateAnswerChangesNothing` |
| `ConfigTypeCorrect` | `Spec => []ConfigTypeOK` |
| `PendingEditsStayVisible` | `Spec => []PendingEditStaysVisible` |
| `ScreensAgree` | `Spec => []Agreement` |
| `RenamesKeepAGroup` | `Spec => RenameKeepsTheGroup` |
| `DeletesHitTheirKey` | `Spec => DeleteHitsItsKey` |
| `ModelsAreTheServers` | `Spec => []ModelsInv` |
| `ModelsOnlyAdvance` | `Spec => ModelsNeverGoBack` |
| `PagesTypeCorrect` | `Spec => []PagesTypeOK` |
| `NavigationsStayAligned` | `Spec => NavigationKeepsRowsAligned` |
| `UsageTypeCorrect` | `UsageSpec => []UsageTypeOK` |
| `RowsNameTheirUpstream` | a row that is on names the model requests go to first |
| `SwitchedOffIsRefused`, `SwitchesAreObeyed` | a row shown as off, or switched by an applied draft, is refused |
| `AdvertisedIdsHaveRows` | what is listed to clients has a row |
| `TheGatesAgree` | pool and routes refuse the same ids, outside the named exceptions |
| `TakeoversAreSaid` | a group that takes an id over says so |
| `FilterShowsWhatItNames` | the status filter shows what it names |

The argument. The lemmas first bound what a policy can ask for (`PolicyFor`
yields a policy whose durations respect the two maxima, for any Retry-After)
and what a ladder returns. `HealthInv` is the conjunction of the types with the
bounds: types alone are inductive, but the bounds on what is left are needed as
part of the invariant because a penalty is the maximum of an old remainder and
a new one. One lemma per operation shows that it keeps `HealthInv`.
`DisabledIsEarned` needs the types (a counter is at most its bound) and the
case split of `Penalty`. The action properties follow from the invariant, one
step per action.

For the router's refinement of `RouterHealth` one fact about a request is
enough, `RouterInv`: in `circuit`, `sent` or `streaming` it holds a candidate
whose key is a key. Then each step of a request is a step of `HealthNext` or
leaves the health state alone; boundedness under load follows by combining it
with the first theorems.

The promises about order need the whole walk. `AttemptOrderProofs` says what an
order is made of, for every mode: each visit of the pool is in it, and in
`priority_failover` the slots of a visit come in one block, as many in a row as
the provider has keys, blocks of superior visits first (`FailoverBlocks`,
`FailoverOrdered`, `SlotsBlock`). Sequences built by folds and recursion are
reached without induction: `Flatten` is shown to have a layout by taking the
least length at which it would not. `FlowInv` then holds of every request
(`ThreadInv`): its walk stands at the slot of its last scan (`WalkShape`); every
provider whose slot was scanned has a judged candidate (`Covering`); and in a
block every scan has judged one more key before the candidate that is still
open (`Preferred`, counted by `Ahead`), so when the block is over the candidate
itself is judged. A cap is never shorter than one round (`CapIsARound`).
`ProvidersAreConsidered` follows for all modes; the refinement of `Failover`
goes action by action (`BeginRefines`, `MoveRefines`): what is tried has no
superior left that was usable all along (`SuperiorsFirst`), and who is refused
has tried all of those.

For the discovery queue three invariants are built on each other. `QueueInv`
adds to the types that a busy worker's provider is active: only `PopDue` hands
out a provider, and only one that is not active. With exclusion, a step of a
worker leaves every provider but its own alone (`WorkersTouchTheirOwn`), so the
other two invariants are about one worker and its provider. `MemoryInv` adds
what a worker must have done before it lets go (`LeavesRemembered`): by then its
provider is queued, known, or about to be enqueued. `RestInv` adds that the
cooldown of a trusted, unasked provider outlasts the trust (`Rests`), except
while a worker is at it, and that a worker on the way to a fetch is at a
provider that is not trusted or was asked for. Facts about the queue itself
(`AppendedQueue`, `PushedQueue`, `ShortenedQueue`) say what its three updates do
to the set of the queued. TLC checked `MemoryInv` and `RestInv` on the instance
of run `discovery` before they were proved.

For the probes `OneProbeAtATime` is inductive once the places are typed: it
says of every actor that it holds the slot exactly when it is inside, and each
action keeps it by one of three lemmas (slot untouched, taken, released).
The two sweep properties need `SweepInv`: a round stands at a place of its own
list (`PlaceOK`); while rounds do not overlap and priorities stay
(`~disturbed`), an active round is alone (`AloneOK`), what lies before its place
in the order is swept or passed by and nothing behind it is swept (`SweepOK`),
and the same holds of the place the cursor names (`CursorOK`). Providers may be
removed meanwhile: the list left is a part of the list the round has, in the
same order (`Within`), so "before" and "behind" survive.

For the configuration store `ClaimsInv` says that everything the store holds,
and every answer on its way (of saves, of both refreshes), pairs a content with
a mark the server gave it: `Told(srv, c, m)`, where a mark equal to the server's
own means its content. `Advances` says how the server changes: to a newer mark,
or to the same content under the same mark; so what was told stays told
(`ToldStays`). The store's operators keep what they hold among what they were
given, and compare marks, which gives both theorems. Contents are opaque to
this part: it uses nothing of what an edit does. Torn snapshots are excluded
where the property excludes them.

Three more invariants are built on it. `SavesInv` matches previews and saves: the
pending edits are exactly the saves under way of the present session, their ids
grow in the order in which they were begun, no two are of one resource, and what
is shown is what the store says. As ids are never used again, an answer to a
save of an ended session finds no edit to confirm or reject
(`LateAnswersAreIdle`). `TypesInv` follows contents through edits: every edit an
editor offers sends writes that are typed (`FormsAreOffered`), previews and
commits keep configurations typed, and `depth` is the number of open scopes. A
configuration under a list of previews is typed because there is no least
preview after which it is not; the same argument shows that after the preview
of a save the block it writes has its value until a later save of the same block
overwrites it, which is `PendingEditsStayVisible`. `ViewInv` is what `Agreement`
needs and is about all that is on its way: unless something was missed there is
a mark `L` since which the server's content has not changed, whatever is known
under `L` or a later mark is that content (`Since`), and either the store has
it (`Caught`), or a save under way will bring it or fail halfway (`Covered`), or
the store is empty and nothing older will be let in (`Waiting`). Each action
keeps such an `L` or gives a new one, the server's present mark. When no save is
under way and a configuration is shown, only `Caught` is left. Looking for this
invariant found two faults of the model's history variable `missed`: it was
cleared by contents that were equal by chance, and it did not count a leftover
refresh (section 4 d). TLC showed both as counterexamples before they were
mended; it evaluates the properties themselves, not `ViewInv`, whose `L` ranges
over all marks.

The two properties of single steps look at the run between the commits.
`EveryStep` divides the steps: one write is committed (`Committing`), or the step
is `Uneventful`: the server's keys and groups stay, no save gets further than an
answer, and a save that is new was begun as `begin()` allows. `RenameInv` says
that the new id of a rename, once written, is there for as long as the rename is
under way; only another save of a group could take it back. For the deleted key
the argument of `ViewInv` is made a second time, for the ids of the keys alone
(`Kinds`: the whole configuration, or its key ids): only saves that add or delete
a key change them, the store holds all of those off while one is pending
(`OneKeySave`), and previews show no other ids unless a key is being added
(`NamesLaid`). So a delete begins on a screen that lists the server's keys
(`ScreenListsTheKeys`), and none of the steps until its commit changes them
(`DeleteInv`).

For the models on the screen, `ModelsInv` says that they, and every state in
every `could` set, are from the server's past: a state that is not newer than
the present one. The past only grows (`PastStays`), a request starts with the
present, and what is accepted is from some request's set; `ShouldAccept` then
gives the step property. The invariant needs the `could` sets of the full
refresh and of each fetch; nothing about rows or pages enters.

`NavInv` is about the navigation under way while nothing disturbed it: the page
that is open is its target or one before; the target exists, unless the page of
the rows does not either; and the rows are those it started from, or the
operator has left the target and no run asks for it any more. A poll that
confirms or rolls back then finds rows and page in step, which is
`NavigationsStayAligned`. Typing `PagesTypeOK` is proved along with it
(`ScreenTypes`), one lemma per action for both.

`UsageInv` says of the statistics page that no two loads have one number, none a
greater one than the newest, and that the page is loading exactly while the
newest is among those under way. `UsageSpec` is the page by itself: it shares no
state with the rest of the console, and the run explores both side by side
(`Console`), so its part of the run is a behaviour of `UsageSpec`.

The catalog's theorems are about the operators alone. An id with one spelling
in the configuration is found by every lookup in the same way (`OneSpelling`,
the lemmas on plain lookups); then what stands behind a row is decided by its
first source, group before rename before declaration before discovery, and each
theorem goes through these cases on both sides. The exceptions in the statements
are the ones listed in section 4, and `ExceptionsHappen` shows that they occur.

Model-checked only: everything under fairness (`EveryRequestEnds`,
`ProviderReturns`, `NeverStarved`, `EveryClickAnswered`,
`PreviewsEnd`, `LoadingEnds`, `RowsSettle`, `NavigationEnds`, `ModelsCatchUp`,
`UsageSettles`, `ModelUsageSettles`), which the prover's treatment of fairness
and `ENABLED` does not reach. Every invariant and every property of single steps
that a passing run checks is proved, with `KeepsFailoverPromise` and
`RequestsRespectHealth`, the two refinements.

## 6. Not modelled

Left for an extension of this project, in the order of what it would add:

1. Persistence and reload of the router (`dump_state`, `load_state`,
   `migrate_state_from`) and the publication of a new runtime set beside
   requests that hold the old one, with the promise of the `RuntimeContext`
   docstring; observability's two generations that share counters.
2. The two-strike gate of the probes, and the bounded stores with counters
   beside a table: session store, signatures, audit, client keys; an abstract
   bounded store for them to implement.
3. The overlay file: lost updates of the legacy commit, crashes in the middle
   of a write, `clear_overlay`.
4. The history writer (written + dropped + failed = accepted), usage statistics
   (aggregates equal to the sum of the ledger), the pricing resolver, the worker
   pool and the event order of converted streams.
5. In the console: adding and deleting providers, the change of its own admin
   key, hot priority of routes, drafts of switches interleaved with saves, the
   loads of drawers (they check no order, section 4 g) and the playground
   (section 4 m).

The hazards of these parts are listed in `PROJECT.json` with a note where no
property covers them.

Left out for good: SQL reports (queries without state), the field-by-field
translation of payloads (data, not control), `tools/`, `deploy/` and `docs/`,
and I/O of the upstream client, whose outcomes are the environment of `Router`.
Of the JavaScript, `src/dashboard/app.js` (more than half of its lines) is the
bundle that the build writes from `src/dashboard_src/`: modelling it would be
modelling the same code twice. Most of `dashboard_src/src/app.js` builds markup
and charts from the state, and `i18n.js` and `model-brand-icons.js` are tables:
they change nothing and have no order of steps to get wrong. The control of the
console, what decides which data it holds, is what is modelled.
