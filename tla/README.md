# Verification of the trading terminal

This directory holds TLA+ models of *blank*, a desktop terminal in which Claude
agents trade a simulated ("paper") account or a broker's account, and of the server
that keeps its accounts: the TLC configurations that check the models on small
instances, and TLAPS proofs of every safety property of the runs, for every value of
the constants. `PROJECT.json` is the index: components, runs, the source lines behind every
definition, hazards, findings, theorems.

## 1. The system

One Python process holds the desktop (Qt), the agents' threads, the paper broker and
the background threads; a FastAPI server keeps the accounts and licences.

| Component | State it keeps | Operations | Talks to |
|---|---|---|---|
| Paper broker, `core/paper_broker.py` | cash, holdings with cost basis, pending orders, stop list (`_State`), all in `paper_state.json`; audit rows in `paper_orders.jsonl` | `submit_order`, `cancel_order`, `modify_order`, `deposit`, `reset`, reads; each first fills the pending orders that can be filled (`_reconcile_pending`), as does a one-second monitor thread | called by agents, stop engine, desktop; reads price feed, FX, exchange hours |
| Agent runner, `core/agent/runner.py` | stop, interrupt and urgency flags, the usage-limit deadline, the wait it chose | loop: pause, iterate, choose a wait, sleep; `request_stop`, `notify_chat_activity`, `force_fast_iteration` | started, stopped, killed by the pool; woken by chat and scrapers; waits for the swarm |
| Stop engine, `core/stop_engine.py`, `stop_tools.py`, `momentum_tools.py` | none of its own but the fired-buffers; its stops and momentum triggers are the broker's | tick: snapshot, fetch, evaluate, trade, remove; agents set, adjust and cancel | paper broker, price feed |
| Order tools, `broker_tools.py`, `_smart_execution.py` | none | `place_order` (check, then submit), limit-first execution, `cancel_order` | brokers |
| Agent pool, `core/agent/pool.py`, `chat_worker.py` | live chat workers, queued messages, supervisor and engine threads | spawn, queue, drain, kill | GUI, runner, stop engine |
| Research swarm, `swarm.py`, `research_queue.py`, `research_worker.py` | tasks in SQLite (pending, running, ended), live workers, cadences | plan, claim, complete, purge | database, runner |
| Session slot, `session_manager.py`, `server/app.py` | on the server the active device of an account; on the desktop a heartbeat timer | register, heartbeat, take over | each other over HTTP |
| Update service, `desktop/update_service.py` | dismissed, skipped and scheduled versions | check, schedule, cancel, install | server, configuration |
| Letters, `server/app.py`, `server/email_rules.py` | which letter has been claimed (`email_sent`), drafts for the administrator | send once, tick with its sweeps, fill a draft | mail provider, cron |
| Sign-up and licences, `server/app.py` | licence rows, pending sign-ups, links | note a card, register, sign up, resend and open a link, create, revoke, delete | payment provider, letters |
| The rest | see `PROJECT.json` | brokers' facade, Trading 212, database, scrapers, configuration, data and forecasting, UI, other server endpoints | |

What is hard here:

* *Failure inside a call.* The broker's lock orders its callers, but a call makes
  several writes (memory, state file, audit file) that a crash or an I/O error can
  separate; one pass fills several orders and saves once.
* *Check, then act.* The lock covers one call of the broker, a transaction one request's
  write. Everything that reads a holding, then sells (order tools, stop engine), or
  looks an address up, then inserts it (sign-up), runs unguarded in between.
* *Snapshots.* The engine's tick and the swarm's pass work on copies taken earlier.
* *Flags and sleeps.* The runner's loop clears and reads flags that other threads
  raise, with three kinds of sleep and several deadlines.
* *Two parties and a network.* The session slot, the updates and the letters: answers
  are lost or late, posts are given up while their requests live on.
* *One piece of state in several copies.* The configuration of the update service, the
  drain's view of the chat cap, the swarm's list of its workers.

What makes each component correct:

* Paper broker: no money appears or vanishes; an order waits or is closed, fills at
  most once, and holds exactly its reservation while it waits; a restart finds what
  the last call left; the audit file has every fill.
* Runner: iterations are never closer than the cadence floor unless somebody asks;
  never inside a usage-limit window; a stop stops; a busy swarm cannot hold the
  supervisor for ever; a wake-up is not lost.
* Stop engine: a stop or trigger fires once; a cancelled one is dead; a trailing mark
  never falls; what is due leaves the list; only real sales are reported; no oversell.
* Order tools: no sale of what is not held, limit-first executes a request once, every
  call is answered.
* Pool and swarm: caps hold, each message and each task is taken once and in order,
  none is lost or left waiting.
* Session slot: two terminals do not run side by side for long, a terminal that keeps
  its heartbeat is not taken for dead, and a free slot is recovered.
* Updates: what is installed was asked for and not called off, no downgrade, a due
  update is carried out.
* Letters: each goes out once, none is held back by a claim that nobody holds.
* Sign-up: one account for an address and a card, whoever was told "ok" can sign in, an
  address is verified only by its link.

## 2. The plan

Ordered by what a defect would cost. All of it is written.

1. **Paper broker** (money): `PaperLedger` (the account and pure operations) <-
   `PaperBroker` (calls, files, faults), which implements the abstract
   `OrderLifecycle`; `MCPaperBroker`, `PaperBrokerProofs`.
2. **Agent runner** (timing, flags): `AgentRunner`, proved about in `DesktopProofs`.
3. **Stop engine** (snapshots, partial failure): `StopEngine`, `MCStopEngine`,
   `StopEngineProofs`.
4. **Session slot** (two parties, a lossy network): `SessionSlot`, proved about in
   `ServerProofs`.
5. **Order tools** (check, then act): `OrderTools` with the agents, the engine's sale, the
   momentum triggers and the brokers as far as they see them; `MCOrderTools`,
   `OrderToolsProofs`.
6. **Research swarm** and **agent pool**: `ResearchSwarm`, whose tasks obey a life cycle
   of their own (`Lifecycle`), `ResearchSwarmProofs`, and `ChatPool`, `ChatPoolProofs`.
7. **Update service**: `UpdateService`, proved about in `DesktopProofs`.
8. **Letters** and **sign-up** of the server: `MailLedger`, `MCMailLedger`,
   `MailLedgerProofs`; `SignUp`, `MCSignUp`, proved about in `ServerProofs`.

`ServerProofs` extends two components of the server, `DesktopProofs` two of the desktop;
neither pair shares state. That is why `SignUp` and `UpdateService` prefix the names
every module has (`SignUpInit`, `UpdateSpec`, ...).

What could follow: the invariants behind the liveness properties, that is, why each step
that has to happen can; the scrapers' cooldown, the configuration file with its several
writers, the advisor loop of the server.

## 3. The modules

**`PaperLedger`** is the account as a record (`cash`, `pos` with cost basis,
`pending`, `deposits`, `realised`) and the pure operations on it: reservation with
gap buffer, affordability, `FillOrder` (buy, sell with its share of the basis),
cancel, modify, deposit, `LoadState` with its no-activity heuristic. Ghost fields
(`fate`, `flow`, `fills`, `overrun`, `unbacked`, `base`) record what happened to each
order and to the money; no guard reads them. Money is integral and the cost share is
rounded down, floats are not modelled.

**`PaperBroker`** is the object: `mem` (`self._state`), `disk` (the state file),
`audit` (last row per order) and the call that holds the lock. A public call is
`BeginCall`, then one `KeepOrder` or `FillQueued` per pending order and
`EndReconcile`, then its own step (`RejectOrder`, `QueueOrder`, `FillNow`, `Cancel`,
`Modify`), with `SaveFill` and `WriteRow` where a write follows separately.
`Restart` may strike at any of these places. `Persist` and `Row` may fail if `Faults`
has `"save"` or `"audit"`. A save is atomic, as the code writes a temporary file and
renames it. `FillNow` asks for the rate twice, as the cash leg and the fill do. `Reset`
unlinks and saves in one step; when the save fails there is no file, or the old one if the
unlinking, whose failure is only logged, had failed too. `behind` is history: a change
that could not be written is in memory only. `Reloaded` is the account that a restart
would make of the file. A sale does not have to find a holding: `submit_order` does not
ask (`paper_broker.py:860-863`), and a momentum trigger sends such sales
(`stop_engine.py:421-427`).

**`OrderLifecycle`** is what an account promises about its orders, whatever happens
to the process: closed stays closed, one execution at most. The orders in the state
file implement it (`DurableLifecycle`).

**`AgentRunner`** is the supervisor's thread: `Begin`, `PauseSleep`, `LeavePause`,
`Iterate`, `EndIteration`, `ChooseWait`, `ReadSwarm`, `EnterSleep`, `SleepOver`,
`HoldCap`, `SwarmDone`, `Wake`, `Exit`, against the calls of other threads (`Start`,
`RequestStop`, `Kill`, `KillReturns`, `Chat`, `BreakingNews`, `EnterUsagePause`) and a
`Tick` that moves every clock. `gap`, `quota`, `woken`, `owed`, `quick`, `nudged` are
history variables. What an iteration does is left out, as is the arithmetic of the
cadence: any cadence may be asked for, and the code's floor is applied to it. What
the swarm's poll says is nondeterministic.

**`StopEngine`** is the engine's thread over one ticker, with its two lists,
`active_stops` and the momentum triggers: `BeginTick` (snapshot of both), `Fetch` or
`FetchFails`, per stop `Evaluate` (raise the mark, compare), `ReadHeld`, `Submit` (or
`SubmitFails`, `SubmitFailsLate`), `RemoveStop`; per trigger `EvaluateTrigger`,
`SubmitTrade` or `TradeFails`, `RemoveTrigger`; then `EndTick`, or `TickAborts` and
`TickLost` when the broker cannot save a change of a list. Agents run between any two of
these: `SetStop`, `SetTrigger`, `AdjustStop`, `Cancel`, `Trade`. Whether a trigger's
momentum has been reached is a free choice, as is `Lapse` (its expiry): the window of
prices behind it is arithmetic. The broker is seen through its interface: orders fill,
wait for the opening (`FillQueued`) or are refused; whether the exchange is open is
free at each order. `file` is what the state file has of the holding, the queue and the
two lists: every change of the broker writes it or, as one of `MaxFaults`, does not
(`Saved`, `NotSaved`), and memory goes on without it. `Restart`, one of `MaxRestarts`, is
the end of the process at any place, by a crash or not: it drops the tick and has what
`Loaded` makes of the file, so that a failed save and an ordinary restart after it bring
back a removed entry or take back a mark. A position that cannot be read counts as none. Entries of different tickers meet only as neighbours in one snapshot,
which two entries on one ticker are too. Left out: `stop()` (nothing is lost when the
thread ends between ticks), pence and pounds, percentage distances (one of two ways to
name the same distance below the mark).

**`OrderTools`** is `place_order` and `cancel_order` as tools call them, on one
instrument. A call is `Ask`, `Refuse` or `Check` (the holding), and, for a market order,
`Quote`, `SubmitLimit`, `Poll` until the order is no longer pending or `Polls` are used
up, `GiveUp` (cancel, whose answer is ignored) and `Submit`. Each `...Fails` is the broker
raising there. `SubmitUnnamed` is `_smart_execution.py:157-165`: the answers of
`Trading212Broker` and `LogBroker` have no `order_id` at the top, so the limit order stays
with the broker and the market order follows it at once. Beside the calls run `Fill`, which
is the broker's monitor, the stop engine's read and sale (`EngineReads`, `EngineSells`) and
`TriggerTrades`, a momentum trigger's order, which looks at no holding. `held` and `short`
are the holding and what calls and stops sold without one; `crowded` and `lost` are history:
sales that were on their way together, and calls that may still have their limit order.

**`ResearchSwarm`** is the coordinator's pass (`CollectFinished`, `GenerateTasks`,
`InsertTask`, `AssignTasks`, `ClaimTask`, `SpawnWorker`, `AssignmentDone`, `Purge`,
`ShutDown`), its workers (`Enter`, `Finish`, `Crash`), the table of tasks and the user's
`Start`, `Stop`, `ClearAgentHistory`, `Exit`. The claim is one transaction. Ids grow as
AUTOINCREMENT has it. What a task asks and finds is left out; `CadenceElapses` makes a
role due at any time. A task provider that raises ends the pass; a worker whose thread
cannot be started stays registered until it is collected.

**`ChatPool`** is the GUI thread's part (`SpawnChatWorker`, `OnWorkerDone`,
`OnChatError`, `Shutdown`, `SetCap`) and a thread per message (`Enter`, `Crash`, `End`);
signals are a queue, as Qt delivers those of other threads. `shown` is what the window
shows as thinking.

**`SessionSlot`** composes the server's row and the terminals over the network: a post
(`Launch`, `Beat`, `TakeOver`) is a message, `Serve` is the endpoint (for `register` two
steps, `SessionRegister` and `ClaimSessionSlot`, as the row is read and written by
different statements), `Receive` the answer. `TimedOut` and `PostFails` give a post up,
`Lose` drops a message, and a request may be obeyed after it was given up. `Tick` is
a second: every running terminal's timer has fired. `window` says that the terminal has a
`MainWindow`, which is who hears `session_taken_over` (`app.py:341`); the heartbeat starts
before it, through the start-up dialogs (`main.py:165-448`), and `OpenWindow` ends that. A
terminal that is told off stops beating. With a window it is "taken over" (or "expired") and
shows a modal dialog (`app.py:1223-1246`) that its user answers when he likes
(`Acknowledge`), the agents trading meanwhile; without one it is "deaf": the signal reaches
nobody, and it trades on for good.

**`UpdateService`** has the configuration three times, as the code has: the dict the
service was given, the one the window saves, the file. The user clicks (`ClickInstall`,
`ScheduleInstall`, `CancelSchedule`, `DismissVersion`, `Later`), the timer fires
(`FireSchedule`), the download ends (`DownloadOk`, `DownloadFails`), the installer
replaces the program (`InstallerRuns`), the application starts, closes, crashes.
Versions are numbers, times are "later", "soon", "due" and "past". `SaveConfigKey` parts the
dict of the window from that of the service, as locking a ticker does (`app.py:1903`,
`1930-1940`): what the service then calls off or replaces, the window saves as it was, and
the next start (`StartProgram`) finds it. `revived` is the history of such finds.

**`MailLedger`** is `send_template_once` as steps (`Reserve`, `Post`, `Answer` or
`NoAnswer`, `Release`), called from an event's handler (`Event`), a draft (`FillForm`),
and the tick, which queries (`Query`) and then walks what it has found. `CutOff`,
`Abort` and `Restart` end a request anywhere; a commit whose answer is lost leaves
a claim that nobody holds. The sending of `fill_form_post` holds the
event loop, the model lets others in, which allows more than the code does. What makes
a licence enter a sweep's window is outside (`Opens`, `Closes`).

**`SignUp`** is the requests by which an account comes to be: `SetupCard` and `SaveCard`;
`Register`, `Check`, then `Promote` (of a row without a password) or `Insert`,
`DropPending`, `SetLink`, `MailLink`; `SignUp` of the older page; `Resend`; `Open` and
`Verify`; the administrator's `AdminCreate`, `AdminRevoke`, `AdminHardDelete`; `Crash`.
Transactions are READ COMMITTED and `created_at` is the time a transaction began, so the
"latest" row is by the first query and not by the insertion. A request that is refused
at its first query changes nothing and is no step. `Marked` are the cards the payment
provider gives a fingerprint of; for the others the check of the owner is skipped
(`app.py:2931-2932`), and nothing is promised of them.


## 4. What is checked

| Run | Question | Bounds |
|---|---|---|
| `paper_broker` | Do queue, reservations, cash and state file agree through interleaved calls, crashes and failing saves inside them, deposits, resets, a moving FX rate, another starting cash: `BookIsExact`, `ReservationsExact`, `Durable`, `Conservation`, `Solvency`, `FillsAreAudited`, and the refinement `DurableLifecycle`? | 2 orders out of 8 shapes, 2 prices, 2 rates, 2 starting cash, one deposit |
| `runner` | Are iterations far enough apart (`FloorUnlessWoken`), outside a usage window (`PauseHonoured`); does a stop stop (`StopHonoured`); does every sleep end (`WakesEventually`)? | floor 2, swarm minimum 3, hard cap 4, cadences 1, 2, 5, pauses 2, 3 |
| `runner_urgent` | Is an urgent wait short (`UrgentWait`)? No. | as `runner` |
| `stops` | Does an arming trade once (`FiresOnce`), is a cancelled entry dead (`CancelTakesEffect`), a mark kept (`MarkOnlyRises`), does what is due leave (`NothingLingers`)? | 2 entries of either kind: 3 shapes of stop, one buying trigger; 2 prices, holding 0 or 1, one failing write and one restart |
| `stops_phantom` | Are only real sales reported (`NoPhantomFill`)? No. | 2 entries, one shape of each kind, holding up to 2, no fault, no restart |
| `orders` | Does a call trade once (`TradesOnce`), is nothing sold that is not held (`GateHolds`), does a call return (`Answered`)? | 2 calls out of 3 requests, brokers that name the order and that do not, a selling trigger, holding 1, one poll, 3 orders, one fault |
| `chat` | Is the cap kept (`WithinCap`), a message run once (`OnceEach`), in order (`NoOvertaking`), and in the end (`Settled`)? | 4 messages, caps 1 and 2, one fault |
| `swarm` | Is the cap kept, a task claimed once (`ClaimedOnce`), does it move forward only (`Lifecycle`), are quick tasks served (`QuickServed`)? | a quick and a deep role, 3 worker names, 2 slots, 4 tasks, one fault |
| `session` | Is a prompt terminal never dead to the server (`Healthy`), do two not go on beating (`OneTerminal`), is a slot recovered (`NoLockout`)? | 2 devices, dead after 4, timeout 5, prompt 1, one fault |
| `updates` | Is the schedule what the user made of it (`ScheduleInForce`), was what is installed asked for (`Consented`), never older (`NoDowngrade`), both but for what a restart revives, is a due one carried out (`DueCarriedOut`)? | 2 releases, one fault |
| `mail` | Does a letter go out once (`OnceUnlessUnheard`), is none held back (`NotSuppressed`), does a swept one arrive (`SweptGoOut`)? | 2 requests and the cron, a letter of an event, one of a sweep, one draft, 2 faults |
| `signup` | Do accounts share an address or card only when requests ran side by side (`AccountsApart`), can everybody sign in who was told so (`SignInWorks`), is an address verified by its own link (`VerifiedByLink`)? | 2 addresses, 1 card, 4 calls, 2 acts of the administrator or restarts |

Why the bounds are enough to be interesting.

* *Broker*: two orders are a holding and the protective order on it, or two orders one
  pass may die between; prices are multiples of 20, so the 15% gap buffer is exact; a
  cash of 60 makes buys succeed, fail and overrun. All its properties are proved for
  every set of orders.
* *Runner*: the constants keep the source's order (floor < swarm minimum < hard cap, a
  cadence below, at and above the floor and the cap) at a few units each.
* *Stops*: a stop-loss can be moved into the price and out of it, a trailing stop has a
  mark to raise and a retreat to fire at; the holding is smaller than two stops together,
  so caps, orphans and competition for one holding occur, and a trigger buys what a
  stop sells; one fault is a lost answer or a failing save, and the restart comes at any
  place of a tick, without it or any time after it. The theorems hold for any number of both.
* *Orders*: two sales of the only share, beside the engine's and a trigger's; three orders
  are the limit and the market order of one call and the order of the other.
* *Chat, swarm*: more messages and tasks than slots, a cap that shrinks below the number
  of workers; three names for two slots let a worker that ended meet its successor.
* *Session*: 4 is the least limit that leaves room for two prompt posts and a beat; the
  timeout of a post is longer than the limit, as in the code (8 s against
  5 s, with a beat each second).
* *Updates*: two releases are a schedule and a newer release that arrives meanwhile.
* *Letters*: two requests for one letter and the cron, one failure for the first
  attempt and one for the repair.
* *Sign-up*: the second address makes the shared card tell apart from the shared address;
  four calls are two registrations side by side, a resend and an opened link. The one card
  has a fingerprint; with a second one that has none (`Cards = {k1, k2}`, `Marked = {k1}`) the
  run passes as well but takes twice as long, and the theorems hold for any `Marked`.

Bounds inside guards: `MaxFaults`, `MaxRestarts`, `MaxHeld`, `MaxDeposits`, `MaxOrders`, `MaxTasks`,
`MaxCalls`, `MaxEvents`, `MaxVersion`, and the finite sets of identifiers, which are never
used twice, as in the code. `CHECK_DEADLOCK FALSE` stands where everything may have
been done: every order placed, every request answered.

`TypeOK` of a module whose proof shows it is not repeated in its run; TLC found it to
hold on the run's constants before it was proved.

Histories in the properties say where the code itself allows an exception.

* `FiresOnce` allows one more order for each time that the broker raised after it took the
  order, or that the state file still had the entry when, its order taken, the process
  ended or its removal or cancellation was not saved (`again`).
* `CancelTakesEffect` lets the running tick finish with its snapshot, and is about cancels
  that returned: one whose save fails raises.
* `MarkOnlyRises` is about memory while the process lives and about the file always; a mark
  whose save failed is lost with the process.
* `Durable` excepts, besides a failed save (`behind`), the account that shows no activity
  because all it ever kept are the proceeds of sales that found nothing to sell: the loader
  (`paper_broker.py:426-450`) takes its file for stale, and these proceeds are lost.
* `GateHolds` excepts sales that overlapped, a trigger's too (`crowded`), and calls that may
  have traded twice; it is not about a trigger's own sale, which looks at no holding.
  `TradesOnce` excepts the calls in `lost`: their limit order was taken and not named, or the
  broker raised, or the cancel came too late.
* `Consented` and `NoDowngrade` except versions whose schedule a restart found in the file
  although the service had called it off or replaced it (`revived`). `ScheduleInForce` is
  about the time before a save fails or the dicts part (`astray`).
* `OneTerminal` counts a terminal as put out once it shows the dialog that closes it, or when
  it was told before it had a window.
* `OnceUnlessUnheard` excepts lost answers, `NotSuppressed` requests that were cut off
  (`stuck`), `AccountsApart` requests that looked before the other had inserted (`saw`).

Each exception is a hazard in `PROJECT.json` or a row of the table of refuted properties
below, and the property says that there is no other.

### Fairness

`PaperBroker` and `SignUp` have none: all their properties are safety. The others:

* `AgentRunner`: the loop's own steps (a thread runs; an iteration is a subprocess whose
  stream is assumed to end), the return of `kill_supervisor` (its wait has a timeout) and
  time; nothing of users, scrapers or the swarm, so `WakesEventually` holds for a swarm
  that never finishes.
* `StopEngine`: weak fairness of the tick and of its start at program start; strong
  fairness of a price fetch and of each entry's order: feed and broker may fail any number
  of times but not every time they are asked, which is what the engine's retry at
  the next tick relies on.
* `OrderTools`: each call's own step; the broker answers or raises.
* `ChatPool`: the GUI thread handles its signals, a worker's thread runs and ends.
* `ResearchSwarm`: the coordinator's thread, and workers that were entered end. This is
  an assumption on the session they run: `research_worker.py:237-299` reads its stream
  without a timeout, and a session that hangs keeps its slot.
* `SessionSlot`: the clock, the heartbeat timer, the requests' timeout, the network and
  the server (a message not lost is served); nothing of users, who may leave the start-up
  dialogs and the closing one open for ever.
* `UpdateService`: the timer of a schedule and the end of a download.
* `MailLedger`: the cron's tick and each request's steps.

### Disagreements found

Two are runs with `expect: violation`; the quoted text is in `PROJECT.json`.

* `runner_urgent`: the urgency flag is consumed before the swarm-aware minimum tests
  it, so an urgent message with research pending waits the swarm's 300 seconds, not 30.
* `stops_phantom`: the engine ignores the broker's answer; a refused sale removes the
  stop and is reported as fired.

The following properties are in their modules, TLC refutes them too, and they are not
among the runs; adding the name to the module's configuration shows the trace.

| Property | What the code does | Who says otherwise |
|---|---|---|
| `LimitBuyAtOrBelowLimit` | a limit BUY in an open market fills at its limit, whatever the market is | `core/paper_broker.py:757` |
| `RestartKeepsAccount` | a sale that finds nothing to sell is paid, but leaves no trace that the loader counts as activity: the next start discards the account | `core/paper_broker.py:419-421` |
| `WakeKept`, `NewsWakes` | a message during an iteration does not shorten the next sleep; the breaking-news callback calls a property and swallows the `TypeError` | `core/agent/runner.py` |
| `EngineNeverOversells`, `NothingSoldUnowned` | the holding can change between its read and the sale, capped sales can wait together for the opening | `docs/ARCHITECTURE.md:81-83` |
| `NeverTwice` | a broker whose answer names no order keeps the limit order and gets the market order too | `core/agent/tools/_smart_execution.py:17` |
| `Drained` | a chat message leaves the queue before its worker is built | `core/agent/pool.py:24-25` |
| `RunningLands` | a task claimed by a worker that was never spawned stays running | `core/agent/runner.py:488-492` |
| `DropTolerated`, `EvictedForAnother` | one lost heartbeat can lose the slot, since the post waits longer for it than the server does; a terminal is evicted without another one | `desktop/session_manager.py:36-37`, `desktop/main.py:194` |
| `OnlyOneRuns` | a terminal that is told off trades on until its user answers a dialog, and for good if it had no window yet | `desktop/dialogs/session_takeover.py:24`, `desktop/main.py:313` |
| `ConsentKept`, `NeverBack` | with a ticker locked meanwhile, cancelling a schedule or installing another version clears it in one dict; the window saves the other, and the next start installs it | `desktop/update_service.py:403` |
| `SchedulesSurvive` | the window saves its older copy of the configuration over the schedule (constants: `MaxVersion` 1, `MaxFaults` 0) | `desktop/update_service.py:22` |
| `FilledIsSent`, `EventsGoOut` | a draft is marked filled when its sending failed; a letter of an event is not retried | `server/app.py:4762`, `:4427-4430` |
| `UniqueAccounts` | two registrations side by side insert two rows for an address | `server/app.py:2861` |

Met while reading, in no property:

* `stop_engine.py:344`: positions that cannot be read count as none, and the stop is
  removed as an orphan. `stop_tools.py:279`: `adjust_stop` does not validate levels.
* `watchlist_tools.py:57` loses concurrent edits; `chat_worker.py:108` keeps the slot of a
  worker whose session could not be built; a configuration that cannot be read
  gives the cap 5 (`pool.py:138`).
* `update_service.py:521-526`: a stranded schedule is said to re-raise the manifest, but
  `_latest_seen` equals it by then; the same for `dismiss_version`.
* `desktop/app.py:2055-2057`: "Release the active-session slot" sends nothing.
* `server/app.py:1893-1905`: a second resend within a second replaces the link, and its
  letter is eaten by the key of the first. A renewal's key (3672-3675) uses the new
  expiry date. `public_signup` is said to resend the key and answers 409.
* The server's advisor loop works on a snapshot of accounts: it may trade after a stop or
  on an account that was reset meanwhile; "live" can be set while its key is deleted
  (5508).

## 5. What is proved

Every theorem holds for all sets of orders, messages, tasks, devices, prices, rates,
floors and timeouts that satisfy the named assumptions of the modules, without a
bound on the state. Each follows one pattern: an invariant `IInv` is shown to hold
initially and to be kept by every action (a lemma per action where it is long), and
the listed properties follow from it.

* **`PaperBrokerProofs`** begins with lemmas on what each pure operation of `PaperLedger`
  does to types, money, fates and the queue. `TypeCorrect` and `Solvent` hold
  with every fault; `TypeOK` is inductive by itself, `Solvency` must be known of `disk`
  too, because a restart loads it. `Inductive`: `IInv` is `TypeOK`, `Good(mem, Book)`,
  `Good(disk, disk.pending)`, `Ahead(disk, mem)`, `IdsFresh` and `RowsGood`. `Good`
  (distinct ids, fate "pending" exactly while waiting, one execution per fill, flow equal
  to minus the reservation) is needed of the disk, since a restart makes it memory, and
  of `Book`, not of `pending`, since a pass in progress has not replaced the queue yet.
  `Ahead` says that the disk closes no order that memory still holds open: without it a
  save could reopen one. `RowsGood` is that the audit row precedes the fate in memory.
  From it `BookCorrect`, `ReservationsCorrect`, `AuditCorrect` and `Refinement`.

  `Conserved` needs sums. The model adds up with folds, which take the elements in an order
  nobody knows; `SumExists`, `SumUnique` and `SumOfImage` show by induction over finite sets
  that the result is the sum in any order, and `TotalOfRemoval` and `BasisMoves` what one
  order or one position less makes of it. With `IInv` the invariant is that both accounts
  are `Even`: the balance, and that a position without quantity has no cost (`Covered`).
  It has to hold of the disk too, because a restart loads it. A sale must have reserved
  nothing, which `Good` says. `Durability` adds `Synced` (unless something is unsaved, the
  file holds the account or memory is what the file was read as) and `Untouched` (a pass
  that filled nothing gives the queue back). Its hard case is the loader's heuristic,
  which discards a file without activity whose cash is stale: by conservation such an
  account has exactly the cash it was opened with, and the proceeds of sales without a
  holding, so that what the heuristic discards are these proceeds and nothing else.

  All but `TypeCorrect` and `Solvent` assume `"audit" \notin Faults`: when the row of a
  queued fill cannot be written the order stays in the queue, and the next pass fills it
  again (a hazard). The sums assume that there are finitely many instruments
  (`TickersAssumption`).
* **`DesktopProofs`, `AgentRunner`**: `IInv` adds to `TypeOK` that the pause covers the quota window
  (`QuotaCovered`), that what remains to be waited, wherever the thread is, makes up
  for what is missing to the floor (`Spaced`), and that only a request breaks a sleep
  (`BrokenByRequest`). From it `RunnerTypes`, `FloorKept`, `PauseKept`. They assume that a
  pause is at least as long as the floor, as the source's minute and backoff are.
* **`DesktopProofs`, `UpdateService`**: `UpdateInv` is `UpdateTypeOK`, `Shown` (a banner
  and a manifest have a version), `Asked` (what is planned, downloading or in the
  service's dict was asked for or is revived), `Forward` (what is planned, shown,
  downloading or launched is not older than the program, unless it is revived, and a launched installer
  leaves nothing planned) and, until a save fails or the dicts part (`astray`), `Steady`:
  the copies of the configuration are one. `Asked` and `Forward` hold whatever fails, so
  that `Consented` and `NoDowngrade` do not depend on `astray`. From it
  `ScheduleInForceHolds`, `ConsentedHolds`, `NoDowngradeHolds`.
* **`StopEngineProofs`**: `IInv` is `TypeOK`, `Apart` (stops and triggers share no
  id), `Gone` (a cancelled entry is in no list, and in no later snapshot), `Answered` (an
  answer of the broker is about the entry to be removed next) and `Account` (what is in
  reach, in a list, the snapshot or the state file, has not been traded for, but for the
  times that `again` counts); `Marks` for the trailing marks. "In a list" includes the
  file's lists, since a restart arms what they have. From it `TypesHold`, `FiresOnceHolds`,
  `CancelHolds`, `MarksRise`, for any number of failing writes and restarts.
* **`OrderToolsProofs`**: `IInv` is `TypeOK`, `Linked` (a call's limit order
  is known to it, and the one it asked for), `Singular` (which order of a call can be alive,
  at each of its places) and
  `Quiet => OneSale` (without overlap a seller finds what it checked). From it `TypesHold`,
  `CallsTradeOnce`, `OwnershipGate`, for any brokers, named orders or not, and any triggers.
* **`ChatPoolProofs`**: `IInv` is `TypeOK`, `CapsSeen`, `Dones` and `DoneOnce` (a done
  signal is of a worker that is over and in the pool, and each sends one), with the three
  properties: `TypesHold`, `CapHolds`,
  `MessagesOnce`, `QueueFirst`.
* **`ResearchSwarmProofs`**: `IInv` is `TypeOK`, `Room` (the live workers, the slots a pass
  has counted as free and the task in hand fit under the cap together) and `Taken` (what a
  worker or the coordinator holds is not pending, no two hold one task, and no row has an
  id above the last). `Room` is inductive since a slot counted at the start of a pass
  can only be joined by slots of workers that end. From it `SwarmInvariant`,
  `WithinCapHolds`, `ClaimedOnceHolds`, `LifecycleHolds`. The queries are minima over
  finite sets, so that they return a waiting task is a lemma by induction over sets
  (`LeastOf`, `NextTaskWaits`). `SwarmAssumption` asks for a name free for every slot: the
  code draws a fresh uuid for each worker (`core/agent/swarm.py:192`), and the name of a
  worker that was reaped is free again.
* **`ServerProofs`, `SessionSlot`**: `IInv` is `TypeOK`, `Posts` (one open request, and it is the
  one waited for), `Counted` and `HoldersFresh` (the age of a running holder is bounded by
  what its posts have taken): `TypesHold`, `HealthyHolds`. It assumes that two
  prompt posts and one beat of the timer stay below the server's limit.
* **`ServerProofs`, `SignUp`**: `SignUpInv` ties each request to the row it wrote (`Formed`,
  `Refers`), each row to the request whose password and card it has (`Owned`), each link to
  its row and its letter (`Linked`, `Opened`), and, for addresses no administrator has
  touched, each request to those it has seen (`Untouched`). `AccountsApart` is about
  pairs of rows but is not inductive over them: `CardsApart` and `Checked` say what the
  check of a registration has established by the time it writes, namely that a row of another
  address with its card comes from a request it has not seen, so that the two ran side by
  side. From it `SignUpTypesHold`, `AccountsApartHolds`,
  `SignInWorksHolds`, `VerifiedByLinkHolds`, for any number of requests.
* **`MailLedgerProofs`**: `IInv` is `TypeOK`, `Forms`, `Claims`, `Account` and `Claimed` (a
  claim is in one pair of hands; out without a lost answer is claimed for good; unsent
  is held or known to be stuck): `TypesHold`, `SentOnce`, `NoneSuppressed`.

**Model-checked only**: the liveness properties (`StopHonoured`, `WakesEventually`,
`NothingLingers`, `Answered`, `Settled`, `QuickServed`, `OneTerminal`, `NoLockout`,
`DueCarriedOut`, `SweptGoOut`), which rest on fairness and on `ENABLED`, out of the proof
system's reach. Every invariant, every action property and the refinement of
`OrderLifecycle` in the passing runs have a theorem.

## 6. What is not modelled

* *Server* beyond the slot, the letters and the sign-up: the phone steps, change of
  password, the administrator's edits, payments, statistics and pages are endpoints of one
  statement each; the advisor loop is remote to the terminal and next in the plan.
* *Scraper runner*, *history database*, *watchlist and configuration file*: their
  hazards are in `PROJECT.json`; the swarm's table and the update service's copies of the
  configuration are the parts modelled.
* *Broker facade, Trading 212, market hours and FX*: remote or tables; their answers
  are drawn from sets by the models that ask them.
* *Risk sizing, personality, data providers, forecasting, NLP*: numbers and text, no
  protocol. *Desktop user interface, releases*: widgets and scripts.

The map covers about a tenth of the implementation's lines: the bulk is user
interface, data providers, single-statement endpoints, prompts and letters.
