# TLA+ models of knarr

knarr is a peer-to-peer node on which agents offer and call skills. Nodes find
each other, send signed task requests, run them, keep a credit ledger per peer,
settle it, and exchange mail. This directory holds TLA+ models of its core and
of its plugins, the TLC configurations that check them on small instances, and
TLAPS proofs of results that hold for all values of the constants. Paths are
relative to the repository, whose package is `src/src/knarr` (here `knarr/`);
part of the plugins is under `src/plugins` (here `plugins/`). Every definition
that models code is listed with its file and lines in `PROJECT.json` under
`map`.

## The system

One asyncio loop runs the protocol: message handlers, task workers, the
heartbeat and a dozen background loops. Skill handlers and plugins may run in
threads. SQLite holds what survives a restart; all writes go through a writer
loop with two queues. Between two `await`s a coroutine is not interrupted, so
the hazards are state read before an `await` and used after it, steps that are
abandoned half-way, messages that overtake each other, and what a restart finds.

| Component | Code | State | Talks to | What makes it correct | Module |
|---|---|---|---|---|---|
| Task pipeline, admission, billing | `knarr/dht/node.py` 711-1433, 4437-4836; `commerce/admission_*.py`, `prepaid_engine.py` | queue, futures, price cache, `tasks`, `async_jobs`, balances, meter | storage, mail, bus, ledger | bounded debt, one charge, one outcome, nothing left open | TaskPipeline |
| Caller side of tasks | `node.py` 3019-3437, `cli/main.py`, `dashboard/server.py`, `dht/mail_handlers.py` | waits for results, `tasks`, `async_jobs`, ledger | pool, mail | a caller learns the outcome, a job is debited once | CallerSide |
| Pricing | `node.py` 5870-6010, `commerce/pricing_engine.py` | none | pipeline | both engines give one price | Pricing |
| Event bus | `knarr/dht/eventbus.py` | ring, cursors, deferred list | everything | no lost wake-up, order, deferred events once | EventBus |
| Scoped bus and loops | `knarr/dht/plugins.py`, loops in `node.py` | buffer, inner tasks | event bus | nothing swallowed between bus and handler | BusLoop |
| Mail | `knarr/mail/sync.py`, mail tables | outbox, inbox, push in flight | pool, storage, handlers | nothing released unsettled, stored once, dispatched once | MailSync, MailDelivery |
| Netting and settlement | `knarr/commerce/settlement_*.py`, `netting.py`, `handlers.py`, `node.py` 6186-6490, 6870 | ledger, settlement queue, cadence | mail, receipts | ledger backed by what happened, one request per window, no row stuck | Settlement |
| Chain payments | `knarr/plugins/10-bcw`, `commerce/bcw_credit.py` | watches, cursors, seen transfers, receipts | bus, ledger, chain | each transfer credited once, and none missed | Payments |
| Warehouse | `knarr/core/warehouse_manager.py`, `plugins/00-warehouse-membrane` | quarantine rows | mail dispatch, bus | nothing promoted unchecked or twice, what is held is announced | Warehouse |
| Peers | `node.py` 1944-2210, 6812-7030, 7230; `cli/main.py` | `peers`, active peers, backoff | pool, storage, Kademlia | an isolated node comes back | Membership |
| Announcements | `node.py` 2400-2604, 3438-4436; `cli/skill.py` | `skills` at every node | pool, storage | a skill that is gone is forgotten, one that stays is known | Gossip |
| Connection pool | `knarr/dht/pool.py` | connections, locks | every sender | an answer reaches its own request | ConnectionPool |
| Kademlia | `plugins/01-kademlia` | buckets, pending contacts, records, tokens | plugin hooks | no newcomer waits for ever; the oldest record goes | KadRouting, KadProviders |
| Circuit budget | `knarr/plugins/tor/handler.py` | three logs of times | pool | the window is not exceeded | CircuitBudget |
| Tor plugin | `knarr/plugins/tor` | one stream, advertised address | Tor process, node | what is published was live | TorPlugin |
| Watchman | `knarr/watchman` | the process, restarts, upgrade | the node process | one node at a time, none left behind | Watchman |
| Punchhole cache | `knarr/plugins/08-*`, `09-*` | signed objects per group | bus, peers | an old object is not served as fresh | PunchholeCache |
| Firewall | `plugins/01-firewall` | history, queues, bans, deferred sends | dispatcher, peers | a message is delivered once | Firewall |
| Storage strategy | `plugins/00-storage-strategy`, `node.py` 7128 | archive tick, read cache | storage | archived before deleted; a read is recent | Archive, ReadCache |
| Storage, writer queue | `knarr/dht/storage.py`, `node.py` 579-709 | some thirty tables, two queues | everything | each statement atomic, guards in the WHERE clause | in the modules that use the rows |

`PROJECT.json` gives each component's status with what is left out of it, and
the components that are not modelled with the reason; `hazards` lists what is
hard to test in this code, at its line, with the properties that cover it.

## The modules

A step is the code between two awaits, or, where threads meet, one access to
shared state. Tables survive a crash, queues, futures and events do not. Every
module has one type invariant, its properties at its end, and the mutants (see
below) next to the definitions they change.

### Tasks

`TaskPipeline.tla` is the provider: `_handle_task_request`,
`_task_worker_loop`, `_execute_queued_task`, `_execute_local_fast_path`,
`_apply_provider_billing`, `_stale_task_watchdog`. `rpc[r]` is where the
message handler of a request is and `epc[r]` where its execution is; `idle`
counts the worker loops that wait for work. `seenBal`, `seenMeter` and
`seenActive` are the local variables that carry a value over an await. Every
write goes through the writer loop, whose future may raise in the coroutine that
awaits it, with or without having taken effect (`Raises`); where that happened
is kept in the history `raised`. A note or a mail that fails is only logged
(`NoteRaises`, `MailRaises`); metering, billing and the writes of the task and
the job enter the failure path, also when the result has left already
(`BillingRaises`, `RunRaises`); a call outside that `try`, or in its except
clause, takes the worker loop down (`LoopRaises`); and one of the message
handler closes the connection without an answer (`HandlerRaises`).

| Code | Actions |
|---|---|
| admission up to the gate | `Receive`, `Reject`, `ReadEntry`, `ReadMeter`, `Block`, `PollExisting`, `Admit` |
| inserts and submission | `InsertTask`, `InsertJob`, `SubmitAsync`, `SubmitSlow`, `SubmitFast`, `RefuseSaturated`, `RefuseFull`, `FailTask`, `FailJob` |
| the reply of a fast request | `ReplyResult`, `ReplyTimeout` |
| self-calls | `AdmitLocal`, `InsertLocal`, `LocalHandlerEnds`, `FinishLocal` |
| a worker | `Dequeue`, `MarkRunning`, `HandlerReturns`, `HandlerFails`, `WorkerDies`, `CompleteTask`, `IssueNote`, `CompleteJob`, `PushResult`, `MeterTask`, `Bill`, `DeductFails`, `FailRun`, `FailRunJob`, `PushFailure`, `Finish`, `WorkerExits` |
| a storage call that raises | `HandlerRaises`, `RunRaises`, `NoteRaises`, `MailRaises`, `BillingRaises`, `LoopRaises` |
| background | `WatchdogRead`, `WatchdogReap`, `ExpireJob`, `Credit`, `Crash`, `Stop`, `WriterExits`, `Exit` |

`CallerSide.tla` is the other end. `CallStarts` to `CallReturns` are the awaits
of `request_task()`, `PushArrives` is the dispatch of a pushed result, and
`CliDecides` is the loop of `cmd_request()`. `Execute`,
`Acknowledged`, `ResultMail`, `NoteStored`, `Debited`, `FailureMail`,
`JobExpires` and `JobPurged` all write one row of `async_jobs`. The provider is
reduced to its replies and the outcome of its executions.

`Pricing.tla` has both engines as functions of a request: group discounts in
four modes, their cap and the floors. They keep no state, so its next-state
relation only asks for quotes.

### Bus and mail

`EventBus.tla` models `eventbus.py` where threads meet: `emit` and `cancel`
take the lock, a subscriber reads head and ring without it, `tick` takes due
events from the deferred list. A slot is overwritten before the head moves, the
wake-up runs later on the loop (`RunSoon`), and the subscriber clears its flag
before it looks again. `BusLoop.tla` models the consumer: `ScopedSubscriber.next`
starts a task per bus, awaits the first, cancels the rest and buffers what was
simultaneous; the loops call it under `wait_for`. A bus is a sequence with a
cursor there, which is what EventBus shows it to be as long as a subscriber is
not a whole ring behind (`InOrderUnlessOverrun`).

`MailSync.tla` has a sender and a receiver. `PushStart`, `MarkSending`, `Send`,
then `MarkDelivered` or `PushFails` and `MarkPending` are the awaits of
`_push_to_peer_inner`; `PushCancelled` is the deadline of `_flush_outbox_loop`
or a restart at any of them, and `ReceiveEarlier` what comes of the first: the
connection stays in the pool, and the next push reads the answer to that
message. `Revert`, `Abandon`, `PurgeDelivered` and `PurgeExpired` are the
cleanup. `Receive`, `ReceiveTwice` and `ReceiveSome` are
`handle_mail_sync` with its answer in time, lost, or partial; `PullAnswer`,
`PullStore` and `PullAck` are the pull. A message in `wire` is `live` as long
as the push that sent it waits for the answer. The times of backoff and breaker
only decide when a push starts, which is open.

`MailDelivery.tla` is what mail promises without any of that: an item is
posted, settled (stored or declined) at the receiver, and released by the
sender only when it is settled or has lapsed; a row that is kept is not stored
again; a handler is due once per store. `MailSync` implements it under the
mapping at its end (`Delivery == INSTANCE MailDelivery WITH ...`): `MailDelivers`
is checked as a property and proved.

### Money

`Settlement.tla` is one node. `NettingCycle` and `CockpitExecute` fill the
queue, `Tick` claims its rows, and the rows are worked on concurrently
(`asyncio.gather`): `SoftStart`, `SoftEnqueued`, `SoftCadence` send a request,
`RequestAccepted`, `RequestAnswered` countersign one, `ConfirmationStart` reads
the balance and `ConfirmationWritten` applies what follows from it, `Marked`
closes a row. Credit notes (`CreditNote`, `RefundApplied`), charges and crashes
run in between.

`Payments.tla` is the watcher plugin and the credit loop. A poll is in `polls`
between asking for a page and handling it (`PollRead`, `PollDone`); polls come
from the tick, from a reconnect and from a notification, with different cursors.
Seen transfers, announcements, receipts and ledger credits are separate writes.
The credit loop takes its events under `wait_for` as BusLoop has it: five idle
seconds leave a task behind (`CreditIdles`, counted in `strays`) that takes a
later event and drops it (`Swallow`).
The chain is external: it grows (`Land`), answers a page, or fails.

`Warehouse.tla`: a document is the record of what the gates find out about it;
`Ingest` and `IngestEnds` run in a thread, `IngestTimeout` and `IngestReturns`
are the coroutine that waits for it, `Approve`, `Reject` the reviewers,
`Recover` the list read at start.

### Peers

`Gossip.tla`: one skill from the configuration of its provider to the tables of
others and back (`LoadSkills`, `Announced`, `Republish`, `Deregistered`,
`GossipReceive`, `SyncFrom`, `Query`, `Expire`, `PruneSkills`). Messages
overtake each other, are lost, and go round; ids are reused once no message
carries them. A sheet that does not validate becomes an own skill without a row
(`BeginAnnounce`, `raw`), the write of a row raises (`WriteRaises`), and a row is
evicted from a full table (`Evict`); `lost` and `kept` remember what that did to
the own row. `Membership.tla`: what enters and leaves the peers table
(`StoreOwnRow`, `JoinSteps`, `Reconnect`, `Rejoin`, `Sweep`, `EvictSteps`, `PruneSteps`,
messages and introductions), with seconds as classes. The node's own row is in
the table, is never pruned and counts with the others (`Counted`). `KadRouting.tla` is one
bucket with its pending newcomer and the tick in three parts; `KadProviders.tla`
the record cache with its heap (old entries included), the table behind it and
the write tokens. `ConnectionPool.tla` is `send()` under the lock of its peer:
`Acquire`, `Write`, `GetsReply`, `Closed`, `Open`, `Dialled`, `GiveUp`, against
evictions and closes that do not take that lock. `SendCancelled` is the deadline
of a caller: what is left of the send does not happen.

### Processes and plugins

`Watchman.tla` has the three loops of the supervisor, which share the handle of
the process, and the processes themselves. `TorPlugin.tla` has the control
stream, whose reader changes from the handshake to the event loop and back to a
command once that loop has ended (`ReadsDirectly`), the task that verifies or
polls, the status panel that reads the hostname first (`StatusAsked`), and the shutdown inside `DHTNode.stop()`.
`CircuitBudget.tla` is `allow()` with its sweep. `PunchholeCache.tla` has the
tables, the backend that pushes objects and the frontend that serves them, with
the two buses between them. `Firewall.tla` has the inbound half (history, limits,
queue) and the outbound half (spacing, deferral, drain). `Archive.tla` is the
hourly rotation against the bucket GC of the node; `ReadCache.tla` one key of
the read cache, read by threads while writes go through and while the drop of a
prefix raises because a thread added a key to the dict (`DropRaises`).

### Composition

`MCTaskPipeline`, `MCEventBus`, `MCBusLoop`, `MCSettlement` and `MCPool`
instantiate one module. `MCServices`, `MCEconomy` and `MCGossip` are sums of modules that do
not call each other: a behaviour is one scene, chosen initially; the scene's
module takes its steps and the variables of the others keep their first values.
The states of a sum are the states of its parts, and an invariant of one part is
checked in all of that part's states and once in the first state of each other
scene. Fairness of a part is no constraint on the other scenes, in whose first
states none of its fair actions is enabled. Where modules do interact, they are
joined by what the one shows and the other assumes: BusLoop assumes of its buses
what EventBus shows, and Settlement, CallerSide and Warehouse assume of mail
what MailDelivery says, that a handler runs at most once for each time a mail
was stored; CallerSide also takes a
repeated dispatch.

## The runs

Passing runs:

| Run | Instance | Shows |
|---|---|---|
| `pipeline_safety` | 3 requests, two of them the same async job of one caller and one a self-call; 1 worker, queue of 1, meter limit 2, one raising storage call | `OverdraftBound`, `ChargeBacked`, `OneOutcome`, `RefusedNeverRuns`, `PriceCached`, `NothingLeftOpen` in every interleaving of handlers, worker and watchdog |
| `pipeline_faults` | 3 remote requests of which two arrive: a prepaid async one and a fast one with plain handlers, a slow one on hold; 1 worker; one of a raising storage call, a crash and a stop, and the drain timeout | calls are answered, accepted work is reported, job rows settle |
| `event_bus` | 3 events (1 immediate, 2 deferred, 1 that expires), 1 subscriber, ring of 2 | order, no lost wake-up, a deferred event fired once or not at all |
| `services` | 16 scenes, see `services.cfg` | the refinement of mail and one safety property for each service |
| `economy` | settlement (1 peer, 3 charges, 2 rows, 1 crash), payments (3 transfers, two of one transaction, pages of 1, 2 faults or crashes, 1 leftover of the credit loop at a time), warehouse (1 document of any kind, 1 crash), mail (1 item, 2 retries, 4 faults), routing (3 contacts, bucket of 1) | `OneRequestPerWindow`, `LedgerBacked`, `OnlyCleanPasses`, and five liveness properties |
| `gossip` | 1 provider and 2 peers, 2 ids in flight, 2 hops, an edit, an outage, tables and query answers copied as often as they like (one query at a time); in the other scene a node with its own row, a bootstrap peer and another peer that come and go as often as they like, floors of 2 | own rows, forgetting and coming back, an isolated node finds its way back |

What the properties of `services` say, each about one scene:

| Property | In words |
|---|---|
| `MailDelivers` | mail by push and pull implements MailDelivery |
| `LossBound` | between a bus and its loop at most one event per bus and timeout is lost |
| `OldIsAnnounced` | an object older than its rows is marked stale or about to be, unless the rows changed without an event |
| `ExitedIsDead` | when `run()` has returned no node is left behind, short of automatic upgrades (for those see `node_orphaned`) |
| `PublishedWasLive` | the service is shown as live only if its descriptor was published, whatever replies were late, cut off or taken by another command |
| `AnswersOwn` | a reply read from a pooled connection is the reply to that request, unless a send was cancelled on that connection (`stale_answer`) |
| `WithinBudget` | no window holds more dials than allowed, for a peer, a key and all, also after a sweep |
| `OldestGoes` | a store beyond the limit evicts the record that is oldest now, not one that an old heap entry names |
| `PaidOnce` | with websocket, polling, page faults, a crash and a credit loop that may lose an event: announced and credited at most once |
| `CommandRunsOnce` | a command that goes from provider to provider is executed once, unless the second call of a provider ended without its outcome |
| `ToldIsRecorded` | a caller is told that its task completed exactly when it was charged for it, once, and its row says so |
| `DebitedOnce` | a job is debited once, and again only after its finished row was put back |
| `ArchivedFirst` | a row leaves its log only in a written file, except by the two routes named there |
| `ServedIsRecent` | a cached value is not older than its lifetime, and is outdated only for a named reason |
| `OnceEach` | a message reaches the node again only if its copy was forgotten; a deferred one waits, is kept or is sent, once |
| `EnginesAgree` | with percentages of 0 to 100 and a known mode both engines quote one price, between the floors and the price of the skill |

Properties that name exceptions. Several promises hold only short of an event
the code gives no answer to. The property then names that event, by a history
variable that only the step of that event sets, and says what holds of
everything else:

* `ChargeBacked`: a charge has its note unless storing the note raised, and its
  task is not reported failed unless the billing call raised after it had taken
  the price (then `get_ledger_balance` or `_check_credit_restored` did).
  `OneOutcome`: two outcomes leave only if metering or billing raised. So a mail
  or a note that fails never turns a delivered result into a failure.
* `NothingLeftOpen`, `PriceCached`, `AcceptedIsDelivered`, `CallAnswered`: short
  of the raising call that would have closed the row, the entry or the
  connection.
* `PaidIsCredited`: an event that a leftover of an idle timeout took is lost
  (`bus_timeout` shows the mechanism); so are the routes named at the property.
* `ServedIsRecent`: a value is outdated only if it was overwritten by a write
  that does not look at the cache, is about to be dropped, crossed the drop in a
  thread, or its drop raised and left it.
* `OwnRowMatches`: an own skill without a row had its sheet refused, its write
  raise, or its row evicted from a full table; a row without an own skill had
  its removal raise.
* `GoneIsForgotten` is stated for the time after the last copy by a sync or a
  query: each copy starts a full time to live, and nodes that go on asking each
  other keep a skill that is gone for as long as they do. TLC finds that cycle
  when the condition is left out.
* `FindsPeers`: the floor keeps rows of dead peers, if there are no more than
  `min_peers` with the own one, and with two or more rows the sweep sees no
  isolation. The property excludes that state and nothing else: a node with an
  empty table, with its own row alone, or with more rows than the floor comes
  back.

Runs that expect a violation are under "Where code and text disagree".

Why the bounds are enough. The pipeline needs two requests in the window at once
for overdraft and twins, and a third that finds worker and queue taken
(`QueueMax = 1`, so `RefuseFull` and `RefuseSaturated` happen). One raising
call per behaviour (`MaxFaults = 1`, which a crash or a stop counts against)
meets every stage of a request beside two undisturbed ones; the run with liveness
lets two of its three requests arrive, in each combination, so that a fast
remote request waits behind one whose plain handler took the only worker. A ring of two
slots with three events is the smallest that can be overrun. Two timeouts let
two leftover tasks compete. For mail two items make an answer partial; four
faults are more than the retries, which is how an item becomes `failed`. Two
transfers of one transaction are needed to have one receipt for both, and pages
of one transfer to have a backlog; two rows at the settlement queue are worked
on by one tick concurrently. A bucket of one contact is full with the second
and has its waiting newcomer replaced by the third. Two records of one key and
four stores let a record be replaced, withdrawn, come back and be the oldest. A
pool of one connection for two peers evicts on every change of peer. Two peers
under one key, a third with its own and a sweep every third call let the sweep
fall between two dials of one window. Three arrivals of which two are duplicates
with a history of one drop the duplicate from the history. Two readers and two
writes let a read cross a write. Two nodes besides the provider are needed for a
message to go round, for a table to be copied from one that is out of date, and
for two nodes to renew each other's copy; how often they do is not bounded. For
the peers `MIN_PEER_FLOOR` is scaled from 8 to 2, above the one row that is the
node's own, so that a table at the floor, below it and above it all occur with
two peers, and the arrivals and departures of peers and node are not bounded.
One leftover of the credit loop is enough to lose an event to; `BusLoop` has
several.

Counters that the code does not bound are bounded by constants in the guards,
named `Max...` in the modules; none cuts off a step of the code in the middle.

`CHECK_DEADLOCK FALSE` is used throughout: each instance has finitely many
requests, events, faults or writes, and the system rests when they are done.

`mutants` in `PROJECT.json` names for each property a slip in the code (a
dropped guard, a missing reset, a wrong order) under which TLC finds the
property violated in its run. They stand before the definition they change,
marked "Mutant of".

### Fairness

Nothing is ever assumed of crashes, faults, stops, traffic or users.

* TaskPipeline: weak fairness of each handler, worker and watchdog step. asyncio
  runs ready coroutines in turn, queues wake their waiters, and a handler of a
  skill is cut off by its timeout. That a storage call raises is never assumed.
* EventBus: weak fairness of threads inside `emit` and of the subscriber's
  steps, strong fairness of taking the loop and the lock, for which others
  compete for a bounded time.
* MailSync: `_flush_outbox_loop` and `cleanup` keep turning (`PushStart`,
  `Revert`), a push goes on from one await to the next, and a message that is
  not lost arrives while its push waits. There are finitely many faults: a peer
  that fails for ever fails the item after its retries or lets it expire.
* Settlement: weak fairness of the consumer (`ConsumerStep`), a loop of the
  heartbeat that takes pending rows and finishes each.
* Payments: the tick of the plugin polls, a poll that was sent is answered and
  handled, and the credit loop takes events; idling and swallowing are not
  assumed. Each is weakly fair on its own;
  in particular a page without failures comes in the end (`PollDone(q, {})`).
* Warehouse: weak fairness of the thread of `ingest()` and of the recovery at
  start.
* KadRouting: the tick goes through its parts, a ping times out, and a contact
  that is not heard falls silent.
* Gossip: loading, republishing (every five minutes), dropping a skill, expiry
  and pruning are weakly fair loops, and a query ends. Hearing an announcement is strongly fair
  for each node: announcements are sent again and again, and one of them
  arrives; any single one may be lost.
* Membership: join steps, sweep, eviction and pruning are loops of the
  heartbeat; the clocks pass (`FiveMinutes`, `BackoffPasses`, `Ages`,
  `GoesQuiet`).

## Where code and text disagree

* `timeout_loses_worker`: a plain handler that times out raises an
  UnboundLocalError in the except clause (`node.py` 1059); the worker loop ends
  and the future stays pending.
* `prepaid_never_deducted`: `_apply_provider_billing` calls a storage method
  that does not exist (`node.py` 6150); the task is reported as succeeded and
  then as failed, and nothing is deducted.
* `bus_timeout`: cancelling `asyncio.wait` leaves its tasks behind
  (`plugins.py` 70); each takes one later event.
* `settled_not_zeroed`: a confirmation names a receipt that only the confirming
  node has (`commerce/handlers.py` 196), so the node that asked for a settlement
  drops it and its ledger is not zeroed.
* `node_orphaned`: the monitor takes the stop of an upgrade for a crash
  (`watchman/supervisor.py` 215); two nodes are started and one is not tracked.
* `stale_answer`: a caller with a deadline shorter than that of `pool.send()`,
  as the flush of the outbox has, cancels it; no `except Exception` sees that
  (`dht/pool.py` 528), the connection stays in the pool, and the next send reads
  the late answer as its own, and so on with each send until one fails.

In passing runs the parameters keep the first two apart: `pipeline_safety` has
no plain handler and no prepaid caller; `pipeline_faults` has both, and states
`AcceptedIsDelivered` and `UnfinishedJobSettles` "unless a worker loop is lost",
but `CallAnswered` also then.

Three observations have no run. The first two because no text of the repository
promises otherwise: two self-calls both read `_skill_active` before
either counts itself (`node.py` 4641), and `mark_outbox_sending` does not look
at the status it changes (`storage.py` 1937), so that an item a pull has
delivered is sent again and only the receiver's row keeps it single. The third
is another CancelledError: `on_shutdown()` of the Tor plugin awaits the task it
cancelled under `except Exception` (`plugins/tor/handler.py` 1286), which ends
`DHTNode.stop()` before its remaining steps; `TorPlugin` has it as the value
`aborted` of `torStop`.

## The proofs

TLAPS checks the following for all values of the constants that satisfy the
named assumptions of each module. Nothing else is assumed except where the
statement says so.

| Module | Theorem | Statement |
|---|---|---|
| TaskPipelineProofs | `TypeCorrect`, `Invariance` | `Spec => []TypeOK`, `Spec => []IInv` |
| | `PriceIsCached`, `RefusedNeverRunsTheorem` | `Spec => []PriceCached`, `Spec => []RefusedNeverRuns` |
| | `Overdraft` | without the tit-for-tat exemption, `Spec => []OverdraftBound` |
| | `ChargeIsBacked`, `OneOutcomeTold` | without prepaid callers, `Spec => []ChargeBacked`, `Spec => []OneOutcome` |
| | `NothingIsLeftOpen` | without plain handlers, `Spec => []NothingLeftOpen` |
| MailProofs | `MailTypeCorrect`, `MailInvariance` | types and the invariant of mail |
| | `NothingDropped`, `StoredOnceTheorem`, `DispatchedOnceTheorem` | `DroppedIsSettled`, `StoredOnce`, `DispatchedOnce` |
| | `MailImplements` | `Spec => MailDelivers` |
| EconomyProofs | `PaidOnceTheorem` | `PaymentsSpec => []PaidOnce` |
| | `OnlyCleanPassesTheorem` | `WarehouseSpec => []OnlyCleanPasses` |
| | `SettlementInvTheorem` | `SettlementSpec => []SettlementInv` |
| | `OneRequestPerWindowTheorem`, `LedgerBackedTheorem` | `SettlementSpec => []OneRequestPerWindow`, `SettlementSpec => []LedgerBacked` |
| | `EnginesAgreeTheorem` | `PricingSpec => []EnginesAgree` |
| CallerSideProofs | `DebitedOnceTheorem` | `CallerSpec => []DebitedOnce` |
| | `ToldIsRecordedTheorem`, `CommandRunsOnceTheorem` | `CallerSpec => []ToldIsRecorded`, `CallerSpec => []CommandRunsOnce` |
| EventBusProofs | `InOrderTheorem` | `Spec => []InOrderUnlessOverrun` |
| PeerProofs | `OwnRowTheorem` | `GossipSpec => []OwnRowMatches` |
| | `PoolInvTheorem`, `AnswersOwnTheorem` | `PoolSpec => []PoolInv`, `PoolSpec => []AnswersOwn` |
| | `LossBoundTheorem` | `LoopSpec => []LossBound` |
| | `OldestGoesTheorem` | `ProviderSpec => OldestGoes` |
| | `WithinBudgetTheorem` | `BudgetSpec => []WithinBudget` |
| PluginProofs | `ServedIsRecentTheorem` | `CacheSpec => []ServedIsRecent` |
| | `ArchivedFirstTheorem` | `ArchiveSpec => ArchivedFirst` |
| | `ExitedIsDeadTheorem` | `WatchmanSpec => []ExitedIsDead` |
| | `PublishedWasLiveTheorem` | `TorSpec => []PublishedWasLive` |
| | `OnceEachTheorem` | `FirewallSpec => []OnceEach` |
| | `OldIsAnnouncedTheorem` | `PunchSpec => []OldIsAnnounced` |

`DataOpsTheorems` has the lemmas about sequences that these proofs rest on:
removal of an element, selections, sums, and sequences that have an element at
most once. The recursive functions of `DataOps` (`SumTo`, `Kept`) replace the
folds and `SelectSeq` where something is proved: that such a function exists,
and what holds of its values, is shown for the least number of elements for
which it would fail (`NatLessThanWellFounded` and `WFMin` of the library, whose
parameter is a set), as the induction theorems of the library take an operator.

The assumptions of `Overdraft`, `ChargeIsBacked`, `OneOutcomeTold` and
`NothingIsLeftOpen` are needed: the exemption lets a caller pass the gate
whatever its balance is, and the other two are the two faults of the pipeline
found above (`prepaid_never_deducted`, `timeout_loses_worker`), under which the
statements are false.

Along which argument:

* `TypeOK` of the pipeline is not inductive: that `idle` stays at most
  `TaskSlots` needs to know that busy workers are not idle, and that the queue
  holds each request once needs to know where its execution is. `IInv` adds
  `SlotsOK`, `QueueOK` (the execution of each entry is `queued`, so no worker has
  it) and `PhaseOK` (a request is executed only after its handler let go of it).
  Lemmas say what a handler step, a worker step and `Dequeue` change, so that
  each invariant looks only at the actions that touch it.
* `RefusedNeverRuns` needs that a refused request was never touched
  (`Untouched`, `RefusedIdle`). `OverdraftBound` needs that a request past the
  gate saw enough credit for itself (`Gated`), and that the balance covers the
  limit even if every committed request were charged, up to the requests that
  were in the window together (`Solvent`).
* `OutcomeOK` says for each request where handler and worker may be once a
  charge was made or an outcome told, and which raising call explains a note that
  is missing or a failure after a success; `AllTended` says for each open row and
  future who will close it: the handler, the queue or a worker, or at which stage
  the call that should have done it raised.
* Mail: that an answer confirms only settled items has to be known while it is
  on its way (`ConfirmedOK`), and that it names items of the batch rests on
  there being one message whose answer is awaited (`FlightOK`). `RowsOK` ties the
  rows of the receiver to the history of stores. The refinement maps every step
  of `MailSync` to posting, settling, releasing, dispatching, or no step at all,
  one action at a time, under that invariant.
* Payments: what was announced is in `bcw_seen` (`SeenOK`), and a receipt stands
  for one credit, made or waiting for the writer, of one of the transfers of its
  transaction (`ReceiptOK`).
* Warehouse: `Handled(d)` ties the thread, its verdict, the row and the rulings
  of a document together; the verdict is always the decision about it, and a row
  is pending only while its promotions do not exceed the crashes.
* Read cache: a thread that carries a value is as good as the entry it will
  make; `RecentFrom` and `Explained` say the same of both, a drop that raised among
  the explanations.
* Rotation: what a thread will delete it has selected and then written
  (`ThreadOK`), and while the tick is alive the old rows of a table it has noted
  are in a file, late, or not read (`CycleOK`). That a noted table is not visited
  again is needed, and is why the tables are assumed to differ.
* Caller: `JobOK(j)` counts the debits made and under way (`Due`) against the
  times the row was put back, separately for rows that still take a result.
  `CallOK(c)` ties what a call was told to its row, its debit and what the
  provider has done; `LoopOK(k)` says that the loop of a command went past a
  call only after a refusal, or after the second call to one provider.
* Settlement: the rows of a tick are worked on concurrently on a balance read
  earlier, so `JobsOK` says what each handler is at against its row, and
  `CadenceOK` that a request that is about to be enqueued found the window open
  and that one that was counted has opened it or is about to. For the ledger
  `EffectsOK` counts how often a row had its effect, which is as often as the
  process died before the row was marked, and `BalanceOK` and `SettledOK` compare
  the balance with sums over the refunds and over the rows.
* Own rows: what the loader of skills is at tells what is own; that nobody else
  writes the row of the provider needs that only an own skill is announced. What
  a refused sheet, a raising write or an eviction leaves behind is remembered until
  the next write of the row puts it right.
* Pool: `LockOK` ties the lock of a peer to the send that holds it, `PooledOK`
  keeps connections apart, and `EmptyBetween` and `OwnInFlight` say that short of
  a cancellation nothing is in flight on a pooled connection but the message of
  the send that waits on it.
* Event bus: `RingOK` says which event each slot holds. The slot that is being
  written is the one a reader may see too early or too late; `SubsOK` says that a
  subscriber that is not a ring behind has all that it has passed.
  `PlacesOK` keeps an event in one place, so that `tick` and `cancel` cannot both
  have it.
* Loops: what was read from a bus was taken by one task (`ReadOK`); what a task
  took is lost only with its call, and calls are lost one per timeout
  (`CountOK`). `PhaseOK` says that at most one event of a bus is between `next()`
  and the handler, which gives the order.
* Watchman: without automatic upgrades only the monitor spawns, and only when
  the process it knows has exited (`OneNode`).
* Tor: a line that says `published` is in the stream, in the queue or in the
  hands of a reader only if the descriptor was published (`Told`), whoever reads
  it.
* Firewall: `KeyOK` weighs the copies of a message that wait or were handed on
  against what was forgotten of it; a deferred message is in one place
  (`OutboundOK`).
* Punchhole: an object whose rows the frontend has old is named by a stale event
  behind the old fill, or the node or the backend still has the word of its
  change (`ObjectOK`).
* Provider records: `Shape` says that each cached record has a row and a heap
  entry that is still valid, and that no two rows come from one store, so the
  least valid entry is the oldest record. It also says that the count of records,
  which `store()` compares with the capacity, covers the cache, and exceeds the
  capacity only where at most one record is left to evict.
* Dials: a log does not hold every dial, as it is pruned and swept. `Covers`
  says that for any moment of the current window it holds at least as many
  later entries as there were later dials, which is what bounds a window that
  ends now; windows that ended before are `Bounded` and take no new dial.
* Prices: the engines discount alike but where percentages add up to more than
  100 (`DiscountsAgree`): there one goes below zero and the other stops at zero,
  and the cap keeps that difference or removes it in both (`CapAgrees`). The
  floors, which are not negative, hide what is left of it.

Only model-checked: all liveness (the progress of the pipeline, the bus, the
loops, mail, settlement, payments, the warehouse, gossip, peers and the routing
table), which is out of the prover's reach. Every other property of the passing
runs is stated by a theorem.

## External parts

Modelled from how the code uses them: the chain and its RPC service (`Land`, the
pages and their failures), the Tor daemon (`Publishes`, `WritesHostname`,
`AnswersCommand`, `TorDies`), the operating system's side of the node process
under the watchman (`NodeExits`, the kill after the grace period), and peers
that are not the subject of a module (arrivals, lost sends, absences).

## Not modelled

* Cryptography and conversions (canonical JSON, signatures, key derivation,
  certificates, vault): pure functions of libraries. That a check is made and
  what follows from its result is part of the modules that make it.
* Float arithmetic: prices, balances and percentages are integers in a unit in
  which the comparisons are exact. Rounding is left out.
* The dispatcher with its replay set and rate limits, parsing and validation of
  frames: counters in front of every handler. The replay set drops half of its
  entries when it is full, so that a message of the dropped half is accepted
  again. The eviction of ledger rows beyond their cap is listed as a hazard
  without a property.
* The writer queue's batching and priorities: a write is atomic, and takes
  effect in a step of its own after the await where the order matters. That
  application writes wait as long as protocol writes come is not covered.
* In modelled components: chained inputs, sidecar assets and sub-process
  isolation of tasks; partial refunds, netting policies per peer and decay;
  several chains; the iterative Kademlia lookup, which shares no state but the
  table; upgrade decisions of the watchman; encryption of archives; plugin
  discovery and permission scopes. `PROJECT.json` has the list per component.
* Configuration, migrations, identities, UPnP, dashboard, command line, MCP and
  bridges: sequential I/O, user interfaces and adapters. Where the dashboard or
  the command line drives a protocol (tasks, settlement, joins) it is in the
  module of that protocol.
