# cqrs-htmx: TLA+ models

Models of the parts of cqrs-htmx whose correctness depends on the order of things:
the offline-first sync protocol (the command queue of the shared worker, the pull
and the event cache, the batch push with its acknowledgements), the journal-backed
SSE feed, and user management: registration and the user read model, grants and the
Casbin projection, the sweeps after a deletion, WebAuthn logins with the lockout,
and sessions with their audit journal. TLC checks every module on small instances;
TLAPS proves, for all values of the constants, every invariant, every action property
and the refinement that the passing runs check; two liveness properties stay with TLC.

Contents: [inventory](#inventory) · [modules](#modules) · [runs](#runs) ·
[bounds](#bounds) · [fairness](#fairness) · [proofs](#proofs) ·
[disagreements](#where-code-and-words-disagree) · [not modelled](#not-modelled) ·
[plan](#plan)

Running, inside this directory:

    tlc -workers 2 -config SyncWorker_queue.cfg MCSyncWorker.tla
    tlapm SyncWorker_proofs.tla      # likewise the other *_proofs.tla

## Inventory

| component | source | state it keeps | operations | hard behaviour | what makes it correct |
|---|---|---|---|---|---|
| offline command queue | `sync/sync-worker.js` | IndexedDB store `commands`, `memQueue`, `ports`, `rrIndex`, `flushing`/`flushPending`, timers | `hello`, `bye`, `enqueue`, `ack`, `flush`, online/offline, boot, the flush cycle and its follow-up | several tabs, asynchronous IndexedDB, snapshots used late, commits behind the writes, aborts, crashed tabs, worker killed with its last tab | nothing queued is lost and nothing settled returns but what an abort, an opening database or a dying worker touched; bounded retries; a retried command is looked at again |
| pull and event cache | `sync_pull.go`, `sync/sync-client.js`, `sync/sync-worker.js` | journal, stores `events` and `meta`, the pull in flight of each tab | `GET /sync/pull`, `pullEvents`, `getSyncState`, `cacheEvents` | racing tabs, late answers, failing pages, aborted transactions, a rebuilt backend | the cache holds every visible event up to its cursor |
| batch push and acknowledgements | `sync_push.go`, `ack.go`, `handler.go`, `sync/sync-client.js` | rows of a page, the queue, requests in flight, SSE acknowledgements | htmx events, `POST /sync/push`, `BroadcastOnAck`, `handleSyncAck` | lost responses, two confirmation paths, partial failure of a batch, reload | a command stays queued until its fate is known; "confirmed" is only shown for executed commands |
| journal-backed SSE feed | `transport/serve.go`, `transport/journalsse.go`, `setup/sse.go`, `dashboardui/sse.go` | subscription buffer, ring of replayed ids, the browser's Last-Event-ID | connect, replay, live pump, broadcast, disconnect | events published during the replay, caps and filters, full buffers, failing reads | no event lost or doubled at the seam of replay and live |
| SSE hub | `sse_broadcaster.go`, go-sse | subscriptions with bounded buffers | subscribe, broadcast (drops when full), shutdown | slow consumers | publishers never wait |
| dispatch pipeline | `handler.go`, `app.go`, `authz_dispatch.go` | none across requests | authorize, decode, guard, dispatch, respond, hook | timeouts, order of the checks | no dispatch without authorization, a hook for every dispatch |
| registration and accounts | `usermgmt/service_register.go`, `service_oauth2*.go`, `es_decide*.go`, `es_readmodel.go`, `sql_readmodel.go`, `identity-model/fold.go` | the stream of each user, the user read model with its two indexes, view rows, checkpoint, `registrationMu` | register, first OAuth2 login with provisioning and linking, email, credential, TOTP and verification commands, deletion | checks on a read model that lags, replays over state, crashes between view and checkpoint | the limit holds; a look-up finds the right user or none; model, rows and folds converge |
| grants: memberships, tenants, bots | `usermgmt/service_membership.go`, `service_tenant.go`, `service_bot.go`, `service_grants.go`, `es_*_decide.go`, `es_casbin_projection.go`, `es_membership_readmodel.go`, `es_bot_readmodel.go` | streams, Casbin rows, the role hierarchy, membership and bot read models with views | add, change, remove, create, suspend, reactivate, delete, register | replay over rows already there, deletions that cut grants, sweeps over lagging snapshots | what is enforced is what the streams say; nothing older than a deletion survives its sweep |
| logins | `usermgmt/webauthn_service.go`, `webauthn_session.go`, `lockout.go`, `es_decide_credentials.go` | challenges, signature counters, failures and locks (in memory) | begin and finish of registration and login, lock, unlock, sweep | parallel and repeated answers, a lock that expires between two looks | an answer logs in once; locks are earned and end on time |
| sessions and their journal | `usermgmt/session_audit.go`, `store.go`, `sql_session_store.go`, `service_login.go`, `service_impersonation.go` | session rows, audit journal | create, authenticate, log out, impersonate, revoke, sweep | a store and a journal that fail one without the other, a login behind a deletion, a read model that replays | the journal tells nothing false and little is missing; a deleted user stays out |
| OAuth2 state, TOTP ceremonies, email tokens | `usermgmt/oauth2.go`, `totp.go`, `email_verification.go` | pending secrets and tokens | begin, finish | expiry, leftovers | used once |
| setup bundle | `setup/` | construction order, close flags, the SSE bridge | `New`, `Run`, `Close` | late callbacks after close, partial construction | everything built is closed once |
| readiness and health | `projection_readiness.go`, `readiness.go`, `health/` | positions of projections | probes | staleness | ready only when caught up |
| dashboards, admin UI, login page, DataStar, OpenAPI, huma, event catalog, htmx, httperr, audit log, upgrade command, examples | directories of these names | little or none | rendering, documents, headers, source rewriting | little | — |

How they interact: a tab issues a command over htmx; when the network fails, the
client hands the envelope to the worker, which asks some tab to replay it, one by
one or as a batch to `/sync/push`. The server dispatches it and the after-dispatch
hook broadcasts `sync:ack` over the hub; results and acknowledgements make the tab
send `ack` to the worker, which deletes the record. After a push, on SSE reconnect
and when the network returns, the client pulls events after the persisted cursor
and posts them to the worker. Committed events also reach the hub through the
event bus, and from there every SSE connection, which first replays the journal.

In user management a service call checks a read model, then dispatches a command; the
decider checks the fold of one stream and appends one event; the projection host hands
the journal to the read models and to the Casbin projection, and `Dispatch` returns
when the live ones have applied the event. Nothing but the read models relates two
streams, so what concerns several users or memberships (an address, the user limit, a
deletion's clean-up) rests on their being looked at in the right order. Sessions,
challenges and the lockout are stores beside the journal.

## Modules

| module | models | composes |
|---|---|---|
| `CommandQueue` | the promise of the queue: a durable, bounded, at-least-once queue | — |
| `SyncWorker` | the command queue of `sync-worker.js`, turn by turn | refines `CommandQueue` (`ImplementsQueue`) |
| `SyncWorker_proofs` | the inductive invariant of `SyncWorker` and its refinement of `CommandQueue`, eight theorems | extends `SyncWorker` |
| `EventCache` | `SyncPullHandler`, `pullEvents` of each tab, `cacheEvents` of the worker | server, tabs and worker together |
| `EventCache_proofs` | honest cursors: the cache and the pulls in flight, three theorems | extends `EventCache` |
| `SyncPush` | a command's way through the client, the queue, `SyncPushHandler` and `BroadcastOnAck` | uses the queue as `CommandQueue` abstracts it, with the envelopes |
| `SyncPush_proofs` | where a command is, and what a confirmation stands for, three theorems | extends `SyncPush` |
| `SSEFeed` | a browser on `ServeDomainEvents` over `JournalSSEStore` | hub, handler and store together |
| `SSEFeed_proofs` | the rolling tail and the seam of replay and live, four theorems | extends `SSEFeed` |
| `Accounts` | registration, first OAuth2 login, the other account commands, the user read model and its views | services, deciders, projection host and store together |
| `Accounts_proofs` | the user read model, facet by facet, and the user limit, five theorems | extends `Accounts` |
| `Grants` | the streams of users, tenants, bots and memberships: deciders, folds, dispatch | — |
| `Policy` | the Casbin projection | extends `Grants` |
| `Policy_proofs` | replay, agreement and hierarchy of `Policy`, four theorems | extends `Policy` |
| `Memberships` | the membership and bot read models, the sweeps of deletions, `GrantRoles` | extends `Grants` |
| `Memberships_proofs` | the two read models against the folds, and the sweeps, two theorems | extends `Memberships` |
| `Sessions` | sessions behind the auditing store, the calls that use them, and the read model that says who exists | — |
| `Login` | WebAuthn ceremonies and the lockout | extends `Sessions`: a login ends in its `Create` |
| `Login_proofs` | the inductive invariant of `Login` and `Sessions`, seven theorems | extends `Login` |
| `MCSyncWorker`, `MCEventCache`, `MCSyncPush`, `MCAccounts`, `MCLogin` | model values and symmetry sets for TLC | the other modules need none |

### SyncWorker

The worker is single threaded. An action is one turn of its event loop, and a
function that waits for IndexedDB is split at the wait. Overlapping IndexedDB
transactions run in the order they were created, so `idb`, what the next transaction
will find, changes in the turn that issues a write, and a read takes its snapshot of it
in the turn that issues the read; only the continuation comes later. That is why
`DoFlush` works on the oldest element of `loads`, the result of `getAll`, while
acknowledgements and enqueues change `idb` in between.

What has been committed is another matter: `disk` is what a dead worker leaves behind,
and it lags behind `idb` until `Commit`. `Kill` may come between a retry that was posted
and the commit of its count (`incrementRetryCount` reads and then puts), between an
enqueue and its record, between an acknowledgement and its deletion; the transactions
still running are then aborted. A cycle ends when its counts are in (`counting`).

* `db` is the worker's life: `down`, `opening` (the handle is null and the helpers
  use `memQueue`), `open`, or `null` when IndexedDB is unavailable.
* `Record` keeps the retry count, whether the record is past `RETRY_TTL_MS`, and
  its place by `queuedAt`, which decides the order of the round-robin. Envelopes
  are reduced to the sets `Valid` and `Batched`; `originatingTab`, which is
  only kept up to date and decides nothing, is left out.
* `Flush` is the coalescing of `flush()`; `DoFlush` is the whole continuation
  (eviction, port choice, retry counts, messages); `FlushEnd` the end of the cycle
  with the remembered call or the two-second follow-up; `FollowUp` its timer.
* `PostRetry` is the timer of `sendRetry`. A crashed tab's port swallows the
  message or throws (`DeadPortThrows`), then the port is dropped and another tried.
  Every `broadcast` drops the ports that throw (`Reachable`).
* `Expire`, `Crash`, `Kill`, `Open` are the environment. `Faults` selects what may
  happen: `early` messages while the database opens, `txFail` aborts, `expiry`,
  `crash`, `requeue`.

`fate`, `sends`, `tried` and `starved` are history: what the worker told the tabs
about a command, how many retries it issued, which it has retried, and which it
retried only through crashed tabs while a live one waited. Three more name the
exceptions the promises have, command by command, so that the promises can be checked
with every fault at once: `astray` (the last add or delete went to the memory of an
opening worker, was aborted, or died with the worker), `uncounted` (the same of a count)
and `renewed` (settled and stored anew while a `getAll` was pending).

### EventCache

Ids are numbers in the order the events were made. `Page` is one round trip:
`Window` takes at most `PageLimit` events after the cursor, `Visible` hides what
`WithSyncPullFilter` rejects, `Last` moves the cursor past hidden events too.
`GetState` has the answer of the worker, the two-second timeout, and the late
answer that settles a later question. `Post` hands the batch over, where
`cacheEvents` reads the state (`reads`) and later writes (`Write`) events and
cursor in one transaction. `Rebuild` replaces the journal by a prefix of itself
under a new `backendId`. `owed` and `aborted` are history.

### SyncPush

`Submit`, `Serve`, `Respond`, `SendError` are the direct request of a command;
`Flush`, `PushStep`, `PushReply`, `PushFails` a batch, each command of which is
dispatched in a step of its own; `AckArrives` is `handleSyncAck` on an
acknowledgement from SSE; `Reload` loses rows, acknowledgements and open requests.
A row is what the client finds by `data-command-id`; several commands may be
issued on one row (`RowOf`). A dispatch succeeds, is refused for good, or fails for
now. `executed` and `settled` are history.

### SSEFeed

`Commit` and `Broadcast` are two steps, and up to `Publishers` events are between
them and may overtake each other. `Connect` subscribes before the reading loop
starts; `ReadPage` is one `ReadFrom` with the rolling tail (a short page ends the
loop, which then filters, caps and records the ids); `ReadFails` is the error that
is only logged; `ReplayOne`, `GoLive` and `Pump` write. `Disconnect` may happen
at any time, and the browser comes back with the last id it was sent. The
full-scan path of a journal without `ReadFrom` looks once, as the loop does when one page
holds everything, and has no definition of its own. `base`,
`written` and `forgone` are history of the connection.

### Accounts

A request of `Register` or `FinishLogin` runs through `Slots` step by step: it reads
the read model, dispatches, looks again. `Gate` is `registrationMu`, taken only under a
limit and held until the request ends; `Returned` is the bus, which lets a dispatch
return when the live projection has applied its event. `Project` hands the next event
to the read model (`Handle`, with the keep-first `Claim` and `Evict` of the two
indexes) and, when `Durable`, writes the user's row, which may fail. `SaveCheckpoint`,
`Restart` (hydration from the rows, in an order nobody fixes) and `Rebuild` (replay
over the same maps) are the start-up and repair paths. `UserCall` is any other
command at any time: what `Unlink` and `DisableTOTP` saw in the read model before may be
stale when they dispatch, so only the decider restricts them. `shared` is history:
addresses and subjects that two users have had at once.

### Grants, Policy, Memberships

`Grants` has the streams: `entity` is the state of users, tenants and bots, `member`
the roles of a membership in effect. `Emit` loads, decides, appends and folds. `Policy`
reads the journal into rows `<<subject, role, domain>>`: `Takes` and `Gives` say what
each event removes and writes, `edges` where the role hierarchy is mirrored. One event is
one step, although `CasbinProjection.Handle` makes several calls of the enforcer without
a lock: only the projection's worker writes, so what a request could see in between is a
part of one event's rows. Calls of the enforcer do not fail.
`Memberships` reads the same journal into its maps, its index by actor and its views,
and runs `DeleteUser` and `DeleteTenant` command by command: tombstone (`Delete`),
snapshot of the memberships and later of the bots (`FindMembers`, `FindBots`), one
dispatch per entry (`Sweep`), each of which may be refused or fail and is then only
logged. `missed` is history: entities whose sweep was cut short.

### Sessions, Login

One record per request, `req`, carries what the handler holds in its locals, and one
action is what the handler does between two accesses of shared state. `Login` splits
`FinishLogin` at each store it touches: the user and the challenge are read
(`Finish`), the answer is verified and the counter recorded by the decider
(`RecordUse`) or refused (`Refuse`, a lockout failure), the challenge dropped, the
lockout reset, and the session made. `IsLocked` is two steps when the lock has expired,
because the code looks again under the write lock (`Unlock`). `SignIn` is the tail of an
OAuth2 login, which makes a session too.

The row of a session and its journal entry are two steps, and either may fail: the
session store before or after its commit, the append to the audit journal always, since
`authAuditor.append` only logs an error (`auth_audit.go:40-44`). `SessionStarted` entries
are not kept: the token is handed out with or without one and nothing reads it back.

Who exists is asked of the read model, `found`, and not of the journal, `active`. The host
applies the events in `ahead` one by one: those just published, or, after `Rebuild` and
after `Restart`, the whole journal again, over the same maps or over empty ones, with
requests going on as `AsyncStartup` lets them. A replay brings a deleted user back until it
comes to the `UserDeleted`, and shows older counters of a credential (`Shown`). `Restart`
also forgets the challenges, the lockout and the requests in flight. `via` on a session
names the ceremony it came of; `given`, `left` and `silent` are history.

## Runs

| run | config | expected | distinct states | question |
|---|---|---|---|---|
| `worker_queue` | `SyncWorker_queue` | pass | 370 178 | the queue over IndexedDB with crashed tabs and dying workers: one load at a time, refinement, liveness |
| `worker_tabs` | `SyncWorker_tabs` | pass | 1 837 350 | two tabs whose dead ports throw and every fault at once: nothing lost, nothing back, budget, follow-up, deaths |
| `cache_pulls` | `EventCache_pulls` | pass | 76 322 | one tab, every fault, one rebuild |
| `cache_race` | `EventCache_race` | pass | 266 505 | two tabs racing |
| `push_queue` | `SyncPush_queue` | pass | 1 055 195 | two commands, two batches in flight, with and without the hook |
| `push_transient` | `SyncPush_transient` | violation | — | transient failures with `BroadcastOnAck` |
| `sse_replay` | `SSEFeed_replay` | pass | 53 566 | the seam of replay and live |
| `accounts_models` | `Accounts_models` | pass | 725 359 | two users, two addresses, one subject, over crashes, failing rows and rebuilds: model, rows and indexes |
| `accounts_gate` | `Accounts_gate` | pass | 298 786 | two requests at a limit of one user, every account command |
| `policy_replay` | `Policy_replay` | pass | 846 808 | the Casbin rows over lag, restart and rebuild |
| `memberships_sweeps` | `Memberships_sweeps` | pass | 2 404 176 | the read models and the sweeps of deletions under four kinds of fault |
| `login_ceremonies` | `Login_ceremonies` | pass | 690 342 | two requests, two ceremonies, a lock after two failures, a store and a journal that fail, a rebuild or a restart |

What the passing runs say:

* **SyncWorker.** `NoSilentLoss`: after the database is open, a command that was
  accepted and not reported settled is in the store, unless it is `astray`.
  `NoResurrection`: a settled command is in the store only if its deletion went astray.
  `RetryBudget`: at most `MAX_RETRIES` retries per stay, restarts included, of a command
  none of whose counts was lost. `OneLoad`: flush cycles never overlap.
  `FollowUpScheduled`: while a retried command is stored, a flush is running or has a
  timer. `DeadHasSpentItsBudget`: a command is given up on its own record, unless it
  was `renewed`. `EventuallySettled`: a stored command that a cycle looks after is
  eventually settled, unless the tabs leave. `ImplementsQueue`: every step is a step of
  `CommandQueue` or a stutter; its `Save` is a commit and its `Restart` finds what was
  saved: what a dying worker loses are its last writes, and with them the counts of
  retries that were sent.
* **EventCache.** `CacheCoversCursor`: on one backend the cache has every visible
  event up to the persisted cursor, even though the cursor itself may rewind.
  `RequestedPullSeesIt`: an event made before the last call of `pullEvents` was
  passed when the tab is idle (or the pull failed or met the page cap).
  `RebuildIsNoticed`: a pull answered by a rebuilt backend reaches the worker
  even without events.
* **SyncPush.** `NothingLost`: without the hook, a command whose fate nobody
  knows is in the queue. `ConfirmedWasExecuted`: whichever way the
  confirmation took.
* **Accounts.** `CaughtUpAgrees`: once every event is applied the read model is the
  fold of each stream, and the rows are the read model. `LookupsAreSound`: an index
  never points to a user the map does not have (the code would clone nil), and an
  address or subject that never had two users finds its user. `KeepFirst`: no event
  takes an address from a user that still has it. `CapHolds`: `MaxUsers` bounds the
  active users over `Register` and first OAuth2 logins together.
* **Policy.** `PolicyConverges`: the rows are those the journal owes, whatever they
  were replayed over. `PolicyAgrees`: these are the roles of the memberships and the
  default roles of active users, less what deletions cut. `HierarchySeeded`: no role
  without its hierarchy, in every state.
* **Memberships.** `ModelAgrees`: models, views and index agree with the streams.
  `SweptClean`: a sweep that ran to its end left nothing older than the deletion.
* **Login and Sessions.** `AnswerLogsInOnce`, `OwnChallenge`, `LockedIffSpent`,
  `LockEndsOnTime` (only a login of the user or a restart ends a lock early);
  `JournalExplains`: what the journal calls ended is gone, after a revocation nothing is
  left that was opened before the deletion, and a row that went before its time is
  explained, unless it is `silent` (the row was not found first, the deletion failed after
  its commit, the append failed, or the process ended before it). `DeletedStaysOut`: who
  comes after `DeleteUser` has returned is not served, unless the look-up fell into a
  replay.
* **SSEFeed.** `WrittenOnce` per connection, if the ring holds a whole replay (it
  does with the defaults: 1024 ids, 1000 events). `NothingLostOnConnection`: what
  follows the cursor is written, on its way, or given up for a named reason.
  `ReplayIsNewest`: the paged loop returns what a single look at the journal would.

Deadlock checking is off: the instances stop when their bounds are used up, and an
idle worker has nothing to do.

## Bounds

| bound | where | why it is enough |
|---|---|---|
| 2 commands, one single and one batched, `MaxRetries` 2 | `worker_queue` | both message kinds and their order in a cycle; a count below and at the limit. A count stops at `MaxRetries`, which is all it is compared with, and `sends` one past it |
| 2 tabs, 1 command | `worker_tabs` | a live and a crashed tab; the port list shrinks and `rrIndex` wraps; the promises of this run speak of one command at a time. `MaxRetries` is 1 here, so that every fault and the ageing of a record fit in one run; counts up to 2 are in `worker_queue`, and the theorems need no bound |
| 2 tabs | `SyncWorker_roundRobin` | a live and a crashed tab; the port list shrinks and `rrIndex` wraps |
| `MaxChains` 2 | SyncWorker | environment triggers stop when two flush chains are under way: a running cycle and a pending one, the case coalescing is about; chains otherwise multiply without limit |
| `MaxId` 2 or 3, `PageLimit` 1, `MaxPages` 0 or 1 | EventCache | several pages and the page cap; a hidden event in the middle |
| `Rebuilds` 1, `MaxReads` 2 | EventCache | old and new backend; two batches between read and write, the racing case |
| `Slots` 2, `MaxAcks` 1, `MaxRetries` 2 | SyncPush | a late batch against a fresh one; a full subscriber |
| `MaxId` 6, `StoreCap` 3, `HandlerCap` 2, `Ring` 2, `Buffer` 2, `Publishers` 2, `MaxDials` 2 | `sse_replay` | two full pages and a short one, both caps at work, a full buffer, overtaking publishers, a reconnect |
| `MaxEvents` 5, 2 users, 2 addresses, 1 subject | `accounts_models` | two users on one address, a rename away and back, a deletion; replays of every prefix |
| 3 ids, `MaxUsers` 1, 2 slots | `accounts_gate` | a register and an OAuth2 login at the limit, a third user after a deletion |
| 1 user, 1 bot, 1 tenant, 2 role sets, `MaxEvents` 5 | `policy_replay` | grant, change, revoke, deletion and a grant after it, for each kind of actor; the theorems need no bound |
| the same with 1 role set, 1 slot | `memberships_sweeps` | a sweep of a membership and a bot with commands of others between its steps |
| 1 user, 2 tokens, 2 slots, `MaxAttempts` 2, `LockFor` 1, `MaxTime` 2, 2 ceremonies, `MaxCalls` 4 | `login_ceremonies` | one answer in two requests; a lock that expires while two requests look; two sessions; a sign-in, a deletion, a rebuild and an authentication; the theorems need no bound |

`MaxCalls` bounds calls, ceremonies begun, ticks, rebuilds and restarts together,
`MaxCeremonies` the ceremonies and `MaxTime` the clock: answers have no bound of their
own, a ceremony may be answered as often as TLC likes.

`c1`, `c2` are strings where their order or kind matters; tabs and slots are model
values, with symmetry in `SyncWorker_tabs`, `EventCache_race` and
`SyncPush_queue`, and ids, addresses, tokens and slots in `Accounts_*` and
`Login_ceremonies`; none of them checks liveness.

## Fairness

`SyncWorker`: weak fairness of `DoFlush`, `FlushEnd`, `FollowUp`, `Boot`, `PostRetry`
and `Commit`: a resolved promise and a due timer are run by the event loop of a
living worker, and IndexedDB finishes the transactions it has. `EventCache`: weak fairness of `Write`, `DbOpens` and of the steps
of a pull in flight, for the same reason; `fetch` ends with a page or an error.
Nothing is assumed of users, tabs, the network or acknowledgements. `SyncPush`,
`SSEFeed` and the modules of user management state no liveness: their promises are
about what a step may do, or about the moment a projection has caught up.

## Proofs

Each `*_proofs` module proves what the runs check of its component, for every value
of the constants, `MaxEvents`, `MaxId` and the other bounds of the runs included. What
a theorem assumes is in its row; everything else is an `ASSUME` of the
module it extends, which TLC evaluates on every run.

### SyncWorker_proofs

For any finite sets of tabs and commands, any `MaxRetries > 0`, with and without
IndexedDB, and for any `Faults`:

| theorem | statement | assuming |
|---|---|---|
| `TypeCorrect` | `Spec => []TypeOK` | — |
| `FlushesDoNotOverlap` | `Spec => []OneLoad` | — |
| `NothingIsLost` | `Spec => []NoSilentLoss` | — |
| `NothingComesBack` | `Spec => []NoResurrection` | — |
| `RetriesAreBounded` | `Spec => []RetryBudget` | — |
| `SentIsFollowedUp` | `Spec => []FollowUpScheduled` | — |
| `DeadOnItsOwnRecord` | `Spec => DeadHasSpentItsBudget` | — |
| `WorkerImplementsQueue` | `Spec => ImplementsQueue` | `StoredOnce` |

Commands that arrive while IndexedDB opens, aborted transactions, dying workers, old
records, crashed tabs and late re-enqueues are all in. What they do to a command is
counted against that command alone (`astray`, `uncounted`, `renewed`), and the theorems
say that they do no harm to any other. `StoredOnce` is a condition on `Faults`: no
command while the database opens (`early`), and no enqueue of a command whose fate is
known (`requeue`). Aborts, expiry, crashes and restarts stay. Both exclusions are needed:
a command in `memQueue` is not in the durable store, and a fresh record may be given up
on the count of its last stay, which `CommandQueue` forbids.

The argument. None of the safety promises is inductive. The store a promise is about
changes with the worker's phase, so `PhaseOK` ties the stores to `db`: where the database
can be opened, all a worker has got hold of before is astray. `OwedOK` relates the durable
store to `fate` in both directions, which is `NoSilentLoss` and `NoResurrection` with the
phases in which they do not speak. For the budget, `RetryBudget` alone says nothing about
the count the next cycle will compare with the limit. `CountOK` adds that no command was
sent more often than its record counts, and that the same holds of every snapshot in
`loads`. A cycle sends what its snapshot shows below the limit, so the send it is about to
make is within the budget; cycles do not overlap (`OneLoad`), so nothing else is sent
between the snapshot and its use. A command stored anew starts again at `sends` 0. A worker
that dies leaves the counts of `disk`, and those that differ from `idb` are `uncounted` from
then on. `SnapshotOK` says that what a flush has loaded of a command still stored has not
been overtaken, since nothing but the flush itself writes a count; so what it gives up is
spent on its own record.

The refinement adds that a worker without a handle has stored and loaded nothing
(`Untouched`), that only time makes a record too old (`Kept`), and that what a flush has
loaded is still stored or settled (`Current`). A cycle then is one `Round` of the abstract
queue with the records it really has, `Commit` and `getAll` are a `Save`, `Kill` is a
`Restart`.

The proofs have a step per action, each split into the parts the action disturbs;
lemmas state what `Add`, `Without`, `Increment` and `Committed` do to a store.

### EventCache_proofs

For any tabs, filter, page limit and faults:

| theorem | statement |
|---|---|
| `TypesKept` | `Spec => []TypeOK` |
| `CursorIsCovered` | `Spec => []CacheCoversCursor` |
| `CallIsSeenThrough` | `Spec => []RequestedPullSeesIt` |

The persisted cursor may go back, and a batch may be written over one that came from a
pull with another start, so `CacheCoversCursor` says too little about what the next
write brings. `AllHonest` speaks of every cursor that can still reach IndexedDB: the
one in the store, the one a pull started from, the one it has reached, those in batches
that wait for `getSyncState` and those in answers that come too late. Each is honest,
that is, the visible events up to it are in the cache or travel with it (`Collected`,
`Delivers`). A rebuilt backend has only a prefix of the old events, which makes less to
cover. What a page brings is the lemma `PageCollects`: everything visible between the old cursor
and the new, whatever the filter cut. `Waited` adds to `RequestedPullSeesIt` that a
pull that is posting has passed what was asked of it.

### SyncPush_proofs

For any tabs, commands, batches in flight, `MAX_RETRIES` and SSE buffer:

| theorem | statement | assuming |
|---|---|---|
| `TypesKept` | `Spec => []TypeOK` | — |
| `ConfirmedRowsWereExecuted` | `Spec => []ConfirmedWasExecuted` | `OwnRows` |
| `QueuedUntilSettled` | `Spec => []NothingLost` | `OwnRows` |

`OwnRows`: no two commands are issued on one row. A row carries one id, and `sendError`
queues the envelope under the id its row has by then; `SyncPush_sameRow.cfg` shows a
command lost otherwise. The invariant `Sound`: an id stands for one command wherever it
occurs (`SameId`); a confirmation is of an executed command on the row, in a batch's
results and in an acknowledgement on its way (`Honest`); and a command is in the queue,
or its request is out, or its fate is known (`Held`).

### SSEFeed_proofs

For any filter, any caps, ring, buffer and publishers:

| theorem | statement |
|---|---|
| `TypesKept` | `Spec => [](TypeOK /\ FromJournal /\ SkippedAreWritten)` |
| `NothingIsLostAtTheSeam` | `Spec => []NothingLostOnConnection` |
| `NoEventIsWrittenTwice` | `Spec => []WrittenOnce` |
| `AReplayIsTheNewest` | `Spec => ReplayIsNewest` |

`Rolling`: while the handler reads it has written nothing, and its tail is the newest
part of the one stretch of the journal it has passed, whatever the pages were. From it
follows what a replay consists of. `FromJournal` says that nothing is buffered, replayed or
written that has not been committed. `NothingLostOnConnection` is then inductive: an event
that leaves the unread part goes to the tail, from the tail to the script, from there to
what is written, and one that is skipped by the ring is written or about to be
(`SkippedAreWritten`). Once: an event is written by the replay, which is injective
(`ReplayedOnce`), or from the subscription, to which it is handed once
(`HandedOverOnce`), and the overlap is in the ring (`WrittenIsOver`), provided the ring
holds a whole replay, which is the condition in `WrittenOnce` itself. The loop that
filters the tail (`Matching`) is a recursive function; its existence and its values are
proved by a least counterexample, since the induction theorems cannot be applied.

### Accounts_proofs

For any users, addresses, subjects, requests, length of the journal and faults, in
memory or over SQL, from `IdsAssumption` (finitely many ids), `NoneAssumption` and
`ViewAssumption` (`None` is no id, address, slot or view):

| theorem | statement | assuming |
|---|---|---|
| `TypesKept` | `Spec => [](TypeOK /\ saved <= pos /\ \A r \in Slots : Carries(req[r]))` | — |
| `ReadModelsConverge` | `Spec => []CaughtUpAgrees` | — |
| `LookupsFindTheirUser` | `Spec => []LookupsAreSound` | — |
| `EntriesAreKept` | `Spec => KeepFirst` | — |
| `CapIsKept` | `Spec => []CapHolds` | no `Async`, no `rebuild` |

What a user looks like is cut into facets (it exists, has an address, is verified, uses
TOTP, has a credential, is linked). Every event gives a facet, takes it away or leaves
it alone, so the journal alone says which facets a user `Holds` at a position and which
it `Stays` with to the end. The fold has those held at the end; the map, and with views
the row, has those held at the position, up to facets that later events decide anyway
(`Follows`): that is what survives a replay over state that is already there, which
makes plain equality with the fold of a prefix false. The indexes are compared with the
map (`Points`) and, for keys that never had two users, with the facets that stay
(`Finds`).

The limit: `Gated` says that between `registrationMu` being taken and the append the
count that was read is still at least the number of active users, as every registration
has been applied (`Steady`) and only the holder of the mutex appends one. The two
exclusions are needed: with either the count is taken from a model that is behind, and
TLC finds the limit passed.

### Policy_proofs

For any users, bots, tenants, role sets and any length of the journal, from
`GrantsAssumption` (users, bots and tenants are disjoint, `None` is none of them):

| theorem | statement |
|---|---|
| `TypeCorrect` | `Spec => []TypeOK` |
| `ReplayConverges` | `Spec => []PolicyConverges` |
| `HierarchyHolds` | `Spec => []HierarchySeeded` |
| `EnforcedAsGranted` | `Spec => []PolicyAgrees` |

`PolicyConverges` speaks of the end of the journal only. `Owed` strengthens it: a row
that is held is owed by the events applied so far, or an event still to come grants it
(what a rebuild leaves behind), and a row that is owed is held. `OneMore` says what one
more event does to what is owed. `Agreed` is about the journal and the folds alone: a
row is owed by the whole journal exactly when the default roles of an active user or a
membership no deletion has cut says so. It is kept by every dispatch, and with
`ReplayConverges` it gives `PolicyAgrees`.

### Memberships_proofs

For any users, bots, tenants, role sets, requests and faults, with and without views,
from `GrantsAssumption` and `TenantsAssumption` (finitely many tenants, so that the
index can be rebuilt from the rows in some order):

| theorem | statement |
|---|---|
| `ReadModelsConverge` | `Spec => []ModelAgrees` |
| `DeletionsSweepClean` | `Spec => []SweptClean` |

A replay takes the models back, so they are compared with the folds entry by entry: an
entry is that of the fold unless an event of its membership is still to come, and it is
there or not as in the fold unless one that adds or removes is (`MembersFollow`,
`BotsFollow`, the same of the views). `Indexed` ties the index by actor to the map, each
tenant once. `Logged` relates the journal to the folds: the last word on a membership or
bot is its fold, and what is in effect was added or registered and not ended since.

`Caught` is the promise of a sweep while it runs: what is older than a deletion and
still there is on the list of a request (`WillRemove`, `WillDelete`) or will be listed,
unless the sweep of that entity was cut short. A request lists the model only when it
is past the tombstone; the model then shows every membership that is older and in
effect, by `MembersFollow` and because what is in effect was added before (`Grounded`).
`Final` says that a deletion is final and its sweep came later.

### Login_proofs

For any users, admins, tokens, requests, devices, any lockout configuration and
without the bounds mattering, from `SessionsAssumption`, `NoneAssumption` and
`LoginAssumption` (admins are not users, `None` is no value, `MaxAttempts > 0`):

| theorem | statement |
|---|---|
| `TypeCorrect` | `Spec => [](TypeOK /\ \A s \in Slots : Carried(req[s], given, Made, Len(ceremonies)))` |
| `OneLoginPerAnswer` | `Spec => []AnswerLogsInOnce` |
| `DeletedUsersStayOut` | `Spec => []DeletedStaysOut` |
| `JournalIsEnough` | `Spec => []JournalExplains` |
| `LocksAreEarned` | `Spec => []LockedIffSpent` |
| `LocksEndOnTime` | `Spec => LockEndsOnTime` |
| `ChallengesAreOwn` | `Spec => []OwnChallenge` |

The inductive invariant `Sound` is made of these parts. `LockSound` is the types of the
lockout with `LockedIffSpent`. `Typed` adds to the types what a request carries at each
of its steps (`Carried`). `Left` says what the read model knows of a deletion: it shows
the user only while `UserDeleted` is ahead of it (`Heard`), a deletion has returned only
when a live host has applied it or the host is replaying, and a later request that looks
meanwhile is `replayed`. `Attest` says that what a request is about to journal is already
true of the rows; with it `JournalIsTrue` is inductive, and `GoneIsExplained` over `Typed`.
`Once` is the argument about answers: a request that checks an answer has
read a count that has only grown since (`Checked`), an answer that has logged in is
`Spent`, its count being at most the stored one, and whoever uses one answer of a
counting device uses it alone (`Unique`). The decider lets an answer through only when
its count is above the stored one, so it was not spent before (`RecordUseOnce`), and
from then on it is. Devices that do not count are outside the promise: `Reported` is 0
and `CounterRegressed` lets 0 after 0 pass.

### Only model-checked

The two liveness properties, `EventuallySettled` and `RebuildIsNoticed`: liveness under
fairness is beyond the prover. The configurations under
[disagreements](#where-code-and-words-disagree) show counterexamples.

## Where code and words disagree

One run expects a violation, `push_transient`: `BroadcastOnAck` reports a transient
failure as rejected and the tab deletes the queued command, while the push path says
"transient rejections: stay queued" (`sync/sync-client.js:582-583`).

Seven more configurations show a counterexample each; they are kept beside the runs and
run by hand:

| configuration | what it shows | the words |
|---|---|---|
| `SyncWorker_opening` | commands accepted while IndexedDB opens go to `memQueue` and stay there (`sync-worker.js:216`) | `sync-worker.js:38-39` |
| `SyncWorker_restarts` | a worker that dies between the post of a retry and the commit of its count forgets the count, and the command is sent more than `MAX_RETRIES` times over restarts (`sync-worker.js:252-285`, 586) | `sync-worker.js:42-44` |
| `SyncWorker_roundRobin` | one pick per command keeps `rrIndex` in step with the number of ports, and the same command meets the dead port until it dies (`sync-worker.js:142`) | `sync-worker.js:138-139` |
| `EventCache_rewind` | the guard on the cursor reads in one transaction and writes in another (`sync-worker.js:405`) | `docs/guides/frontend-sync.md:175` |
| `EventCache_rebuild` | after a rebuild the client goes on from the old cursor: the cache is wiped, not bootstrapped (`sync-client.js:443`) | `docs/guides/frontend-sync.md:86` |
| `SyncPush_sameRow` | `htmx:sendError` reads the command id from a row a second command has marked (`sync-client.js:731`) | `sync-client.js:725` |
| `Login_rebuild` | a login in flight leaves a session behind `DeleteUser`; a rebuild applies `UserRegistered` again, and the session is served until `UserDeleted` is replayed (`es_readmodel.go:81-93`, `es_projection_health.go:63`, `service_login.go:36`) | `service_misc.go:96` |

Seen while reading, without a run of their own so far:

* A retry is not sent to the originating tab (comment at `sync-worker.js:26-27`,
  code at 140-144).
* An aborted IndexedDB transaction does not degrade to memory (147, 199).
* An acknowledgement while the database opens leaves the persisted copy (24, 243).
* A flush that took its snapshot before an acknowledgement still sends the retry
  (24, 527), and one that took it before an acknowledgement and a new enqueue may
  give up the fresh record (42, 543).
* `dead` may be broadcast when no tab is registered (34, 542).
* The "enqueue-after-online-immediate-retry path" (732) does not exist.
* Every flush request that finds commands starts a follow-up chain of its own (519).
* A coalesced `pullEvents()` resolves at once, so the flush on `online` need not
  come after the pull (`sync-client.js:330-343`, 432-435).
* `PULL_MAX_PAGES` allows one request more than it says (463).
* `sync.queued` only grows through `pending` messages (289) and is not reduced by a
  confirmed batch.
* "A burst of non-matching events can never consume a scoped feed's backfill
  budget" (`transport/serve.go`, `WithSSEMaxReplay`) holds for the cap of the
  handler (`ReplayIsNewest`), not for the cap of the store, which counts before the
  filter, and which `setup/sse.go:33` is the one to set.
* A dropped or unreplayed event is passed by the next one and does not come back
  with `Last-Event-ID` (`sse_drop_stats.go:19-21`, `transport/serve.go:378`).
* The ring of replayed ids is smaller than a replay when the cap is raised above
  1024; the buffer then keeps the first events published since the subscription,
  not the newest (`transport/serve.go:471-475`).
* `EventsAfter` documents an empty slice for an unknown cursor
  (`journalsse.go:138`), the seekable path returns a full backfill.

In user management:

* "Global uniqueness: a given provider subject can only be linked to one user at a
  time" (`es_readmodel.go:336-337`) is not enforced by the decider: two links in flight
  may give two users one subject, and the index keeps the first. The same goes for
  addresses. When the user the index shows leaves, the other one is not found; after a
  hydration the index may show another of them than before.
* With `AsyncStartup` requests are served while the start-up drain runs, and
  `MaxUsers` counts a read model that is not there yet (`service_core.go:250-262`);
  `accounts_gate` therefore has `Async = FALSE`.
* A verification token names the user and not the address it was sent to. A user that
  was provisioned for a link that is then refused stays.
* "Re-adding the same actor replaces its role set" (`service_membership.go:8`); the
  decider answers a conflict (`GrantRoles` is what replaces).
* "Bots derive no durable rows today" (`es_casbin_projection.go:124-126`); a membership
  of a bot writes rows.
* Memberships and grants of deleted users and in deleted tenants are accepted;
  `PolicyAgrees` and `SweptClean` count them as granted after the deletion. A deleted
  tenant cannot be created again. `RegisterBot` does not ask whether the owner is
  active, `DeleteBot` leaves the bot's memberships.
* A rebuild replays revoked roles, which are in force again until it is through; a
  sweep that runs during a rebuild may miss members.
* `FinishLogin` drops the user's challenge by key, so the challenge of a second tab
  goes with it (`webauthn_service.go:298`); of two overlapping logins the first finished
  one may count as a failure. It does not ask `IsLocked` again, and its `Reset` ends a
  lock that was set meanwhile (`LockEndsOnTime` allows it by name).
* `DeleteUser` may journal the revocation of a user's sessions before the start of one
  that a login in flight then stores; the session is of no use but during a replay
  (`DeletedStaysOut`).
* The audit journal is best-effort, as its comments say (`auth_audit.go:40-44`,
  `session_audit.go:16-21`): a client may hold a session without a `SessionStarted`, and a
  session may end without an entry. "After the session rows are gone, the journal alone
  answers" (`session_audit.go:12-13`) is true up to that; `GoneIsExplained` names the
  sessions concerned (`silent`). The sweeper's evictions are not journaled.
* Requests that all saw an unlocked account may together make more guesses than
  `MaxAttempts` before the lock is set (`webauthn_service.go:208`); `LockedIffSpent` speaks
  of the maps, not of the guesses.

## Not modelled

* Request formats, form encoding, JSON, ETags, headers, toasts and the counters of
  the indicator: no property is about them.
* The per-command htmx replay (`retryQueuedCommand`, `rebuildAndRetry`) and the
  retry button: they issue the command again as a new direct request.
* Reads of IndexedDB that fail (`getAll`, `count`), and quota errors other than an abort.
* `BroadcastOnAckFunc` with a mapper of its own.
* The go-sse hub, the journal, the event bus and go-cqrs-lite are external, modelled
  from their use: bounded buffers that drop, an append-only log, one callback per
  event.
* SSE heartbeats, retry hints and shutdown of the hub; per-request filters are the
  set `Hidden`.
* External to user management and modelled from their use: a bus that returns when its
  subscribers have acknowledged (`usermgmt/CHANGELOG.md:224`), a projection host that
  applies the journal in order and delivers a failed event again, an append that is
  atomic per stream, rows scanned in any order. The membership and the bot read model
  share one position. Events that a projection
  fails on for good and the host puts aside (dead letters), and errors of the Casbin
  enforcer, do not occur. `SessionStarted` entries are not kept. One credential and one
  address per user in `Login`, and no `RemoveCredential`; an OAuth2 login is there the
  session it makes (`SignIn`), its first part is in `Accounts`.
* Names, profiles, scopes, tokens and credential payloads; TOTP ceremonies (their
  pending secret may be left over), OAuth2 state, email verification tokens.
* SQL statements, dialects and migrations.
* The dispatch pipeline, readiness, the setup bundle and what the inventory lists after
  it; the plan says what comes next. Dashboards, admin UI, documents, header helpers and
  tools render or translate and keep no state that steps could disagree about.

## Plan

Done in this order: `CommandQueue`, `SyncWorker`, `EventCache`, `SyncPush`, `SSEFeed`,
`Accounts`, `Grants`, `Policy`, `Memberships`, `Sessions`, `Login`, and proofs about
each of them. Next, most important first:

1. **Weaker conditions on the proofs**: `CapHolds` under a rebuild of another
   projection than the users'; the refinement with `requeue`, against a queue whose
   rounds may act on an older state.
2. **`DispatchGate`** (`authz_dispatch.go`): declarations copied on write while
   commands run, the handler that is registered before it is declared, fail-closed
   dispatch and audit-only mode.
3. **`SSEFeed` over several connections**: the reconnect promise after drops, failed
   reads and overtaking publishers.
4. **`Secrets`**: TOTP enrolment, OAuth2 state and email verification tokens used once.
5. **`Lifecycle`**: construction and close of the setup bundle against late bus
   callbacks; projection readiness.
