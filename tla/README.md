# Verification of checkin-bridge

TLA+ models, model-checking runs and machine-checked proofs for `checkin-bridge`, the Go service that
connects a UniFi Access hub (door readers, "UA-Hub") with Redpoint HQ (the climbing gym's membership system).
Every definition that models code is named in `PROJECT.json` under `map`, with the lines it stands for.

Contents: [Inventory](#inventory) · [What is hard](#what-is-hard) · [Modules](#modules) · [Runs](#runs) ·
[Bounds](#bounds) · [Fairness](#fairness) · [Proofs](#proofs) · [Findings](#findings) ·
[Not modelled](#not-modelled) · [Plan](#plan)

## Inventory

| Component | State it keeps | Operations | Correct when |
|---|---|---|---|
| UniFi client, tap delivery (`internal/unifi/client.go`, `app/reconnect.go`) | WebSocket connection, `lastEventAt`; poller `cursor` and `maxLogID`, in memory | read loop, reconnect with backoff, REST poll every 5 s, backfill after a reconnect | each tap in scope reaches the handler; none is skipped behind the high-water mark |
| UniFi client, REST calls (`unifi/client.go`, `provisioning.go`) | none | paginated lists, single records, enrolment sessions, card binding, status updates | a walk of the pages finds everybody who stays |
| Check-in handler (`checkin/handler.go`, `store.DoorPolicy`) | none of its own; goroutine per Redpoint write | `HandleEvent`: look up, decide, recheck, unlock, record, push | one door opening per tap; one `checkins` row per tap; a bounded number of Redpoint check-ins |
| Circuit breaker (`recheck/breaker.go`) | `state`, `failures`, `openedAt`, `probing` under a mutex | `allow`, `success`, `failure`, `forceReset` | bounded load on a failing Redpoint; recovers; alerts tell the truth |
| Denied-tap recheck (`recheck/recheck.go`) | none | live query, write the row, reactivate the user | lets in whom Redpoint lets in, and nobody else |
| Redpoint client and pacer (`redpoint`) | token bucket, `pausedUntil` | GraphQL queries with retry and pacing, refresh in two passes | requests stay under the rate; a 429 slows everybody; each customer accounted for once |
| Members store and cache syncer (`store/members.go`, `cache/sync.go`) | `members`: a row per card | refresh of all statuses, upsert, delete | an outage is never read as a deletion; rows converge to Redpoint |
| Status sync (`statusync/syncer.go`) | `running`, `lastResult` | matching phase, then the card loop or the mapping pass with its mass-deactivation guard | hub status follows Redpoint; a run never deactivates more than the cap |
| Identity matching (`statusync/matcher.go`, `orchestrator.go`) | `ua_user_mappings`, `ua_user_mappings_pending`, `match_audit` | decide, persist the decision | a user is bound, pending or absent, never bound and pending; bindings survive races |
| UA-Hub mirror (`unifimirror`) | `ua_users` | refresh (list, upsert, hydrate e-mails), recheck of the pending queue | the copy is whole and recent; pending users bind once they can |
| Customer mirror walk (`mirror`, `api/mirror_admin.go`) | `customers`, `sync_state` (cursor) | paginated walk with resumption | a walk that ends has copied every customer |
| Directory sync (`api/routes_admin.go`) | the same two tables | paginated load from the top, by schedule and by button | a load that ends has copied every customer; the button is not locked for good |
| UniFi ingest (`ingest`) | none (writes `members`) | match hub users to customers, upsert rows | a row says what Redpoint says |
| Staff routes (`api/*.go`) | none (write mappings, pending, members) | match, skip, snooze, unbind, create, reassign, enrol, remove, reactivate | a decision of the staff is not undone behind its back |
| Enrolment of a card (`api/members_new.go`, `fragments_*`) | sessions at the hub; a count in the page | start, poll, cancel, check the owner, bind, backfill | no card changes hands, no reader is left waiting, no panel polls for ever |
| Jobs and scheduler (`jobs`, `app/scheduler.go`, `api/sync_ux.go`) | `jobs` table | `Track`, `Start`, `Loop` with backoff, unstick | no job is listed as running that is not; a verdict is that of its run |
| Process lifecycle (`app/app.go`, `bg/group.go`, `cmd/bridge`) | goroutine group, handler semaphores | boot, supervised goroutines, ordered shutdown | what an orderly stop calls drained is drained; a stop ends |
| Databases (`store/store.go`, `migrations.go`, `split*.go`) | `cache.db`, `audit.db`, `bridge.db` and its backup | detect, split, prune, migrate, heal, serve | no history is lost whatever is cut off; what is served has its schema |
| Fragment cache (`api/htmlcache.go`) | version-stamped fragments | get / set / invalidate | no page older than it may be |
| Card overrides (`cardmap`) | a map and a JSON file | set, delete, load | an acknowledged override survives a restart |
| Sessions, middleware (`api/session.go`, `middleware.go`) | session and lockout maps | login, expiry, CSRF, rate limit | a revoked session is dead |
| Watchdog, notifications (`watchdog`, `notify`) | last alert per condition | evaluate, alert, re-alert | an outage is reported once per period, and its end too |
| Configuration (`config`) | settings | layers, defaults, validation | every accepted setting is one the parts can run with |
| Metrics, audit log, rendering, tools | see `PROJECT.json` | | |

How they interact. A tap enters through one of three deliverers (WebSocket, poller, backfill) into `HandleEvent`.
The handler reads `members`, the overrides and the mappings, may ask the recheck (which asks the breaker, then
Redpoint), sends the unlock command to the hub, inserts a `checkins` row whose unique index on `unifi_log_id` is the
only synchronisation between the deliverers, and starts a goroutine for the Redpoint write. Independently, loops and
HTTP requests write the tables the decision depends on: walk and directory sync copy customers into the directory
(the walk with their badges, on request; the sync without, every round), the refresh copies Redpoint's statuses into
member rows, the ingest copies directory rows into member rows, the matching phase and the mirror bind users, the
status engine moves users between ACTIVE and DEACTIVATED in the hub, and staff requests do all of these by hand. They
share one SQLite store and almost never a transaction: each statement is atomic, a sequence of statements is not.
All of them share one Redpoint client, whose pacer makes each wait for the others.

## What is hard

The full list, at its lines, is `hazards` in `PROJECT.json`. In short:

* **Overlapping deliverers.** A tap is delivered by up to three goroutines at once and again after each restart.
* **Marks in memory, rows on disk.** The poller's cursor dies with the process and advances before rows are written.
* **Reads held across slow calls.** Refresh, pass, recheck, ingest, mirror and page cache all act on snapshots that
  are seconds to minutes old, against tables that other writers change.
* **No transactions around decisions.** Bind then dequeue, delete then queue, copy then prune then rename: a failure
  or crash in between leaves a state no single function ever writes.
* **One row, several loops.** Walk and directory sync keep their cursors to themselves and write them to one row;
  a job's verdict is read back from it.
* **A breaker whose calls outlive its states.** A call admitted while closed reports while open.
* **Waiting outside the lock.** The pacer sleeps outside its mutex: whoever wakes has to look again.
* **Outages that look like data.** A Redpoint that does not answer must not read as "this customer is gone".
* **Stopping.** Six phases with a deadline each, and work that enters while it is being drained.

## Modules

| Module | Models | Its threads |
|---|---|---|
| `TapPipeline` | from the access log of the hub to a `checkins` row, a door opening and a Redpoint check-in | `ws`, `poller`, `Backfills`; asynchronous pushes; crash and boot |
| `Breaker` | the circuit breaker and the recheck gate | one goroutine per denied tap, staff reset, clock |
| `Outage` | the Redpoint client that the rechecks and the cache refresh share; **implements `Breaker`** | `Taps`, `Walker`; Redpoint; clock |
| `Binding` | which customer a hub user is bound to | `sync`, `mirror`, staff `Requests`; crash; the hub and Redpoint |
| `Membership` | what the bridge believes of a member's standing, and what it does to the hub | refresh, pass, recheck, ingest, staff, directory sync, walk; crash; Redpoint |
| `Directory` | how the customers get into the directory, page by page | `Walks`, `Loads`, the scheduled load; crash; Redpoint; clock |
| `Lifecycle` | runs and their rows of the jobs table, taps and their writes, through shutdown, crash and boot | `Loops`, `Posted`, `Started`, the mirror's walk; `Pushes`, `Polls`; the shutdown; clock |
| `StoreOpen` | opening the databases: split, pruning, migrations, healing | one boot after the other; faults, kills and the operator between |
| `HubUsers` | the hub's user list, its mirror, and the search by card | overlapping `Refreshes` and `Searches`; the hub's admin |
| `Enrollment` | binding a card at a reader | `Panels` with their polls and cancellations; the hub |
| `MembersPage` | **abstract**: how old the members' table may be that the staff sees | `Readers` |
| `FragmentCache` | the cache of the rendered table; **implements `MembersPage`** | `Readers`, `Writers`; loops; clock |
| `Overrides` | the card overrides, in memory and on disk | `Desks`; restart |
| `StaffDesk` | `HubUsers`, `Enrollment`, `FragmentCache` and `Overrides` **composed** | all of theirs |
| `Matching`, `NameFallback` | the decision whom a hub user is taken for, in its four variants | pure; one step |
| `DoorAccess` | door policies, the decision after a recheck, the capabilities | pure |
| `Schedules` | backoff, daily times, staleness, alerts, retries, the verdict of a refresh | pure |
| `Settings` | layers of a setting, validation, intervals | pure |
| `StatusEngines` | the card loop against the mapping pass | pure |
| `*_proofs` | the theorems about the module of that name (`Outage_proofs`: also about `Breaker`; `StaffDesk_proofs`: about its parts) | |
| `MC*` | the constants, symmetry and mixes of a run | |

The modules cut the system where its data does. `TapPipeline` treats the decision about a tap as a choice: how it is
made is `DoorAccess`, on which rows `Membership`, and whether Redpoint is asked `Outage`. `Membership` takes the
copying of the directory as one step per customer; `Directory` is where it is a loop. `Membership` takes the
binding as fixed; `Binding` is where bindings move. `Binding` takes what a lookup yields as given
(`answer`): the decision tree is in `Matching`. All of these take a process for granted that runs; `Lifecycle` is how
it ends, and `StoreOpen` how it begins.

Conventions. A thread is a record or program counter that names its next statement; one action is one statement,
one upstream call, or one critical section, with everything the code does up to the next point where another
goroutine can intervene. Variables are grouped by where they live: outside world, tables (durable), process (lost in
`Crash`), and history (read by properties only, never by a guard). Counters that only bound the exploration are
guards (`Mishap`, `Happens`, `Fault`). A definition preceded by a one-line `\*` comment that says what is broken, standing right
before a definition of similar name (`MayUnlockIgnoringPoller` before `MayUnlock`), is no part of the model: it is a
plausible mistake in that code, and exchanging it for the definition makes the property that `PROJECT.json` pairs it
with fail. It shows that the property can fail, and for what reason.
Where a run composes things that do not touch each other, a constant `Mixes` says which of them take part in one
behaviour; the theorems do not depend on it.

### TapPipeline

| In the model | In the code |
|---|---|
| `logged`, `ts`, `isNfc`, `frames` | the hub's system log, its time stamps, WebSocket frames in flight |
| `cursor`, `maxLogID`, `pollBatch` | locals of `StartEventPoller` |
| `th[d]` with phases `decide … deny` | the goroutine of a deliverer inside `HandleEvent` |
| `asyncs[k]` | goroutines of `recordInRedpoint` not yet run |
| `keyedRows`, `bareRows` | `checkins` rows with and without a `unifi_log_id` (poller and backfill set one, WebSocket frames carry none) |
| `PollFetch`, `PollSkip`, `PollDispatch` | one poll: window `since - 30 s`, dedupe by `maxLogID`, dispatch in time-stamp order |
| `Boot`, `Crash` | `pollerStart` (midnight), loss of everything in memory |

The hub is assumed to number its entries in the order of their time stamps and to show each at once (`HubLog`): the poller's
marks rest on both. A fetch that fails moves no mark and is a stutter (`client.go:1325-1328`); what `execWithRetry` repeats
within one check-in (up to three requests) is one call.

Time is in ticks; the poller's lookback, the freshness window and the backfill overlap keep their order of magnitude
(each one tick of a three-tick day) rather than their seconds.

### Binding

`mapping` and `pending` are the two tables; `pending[u]` is the `grace_until` of the row. There are two windows: `Grace`, which the
sync and the mirror give (`UnmatchedGraceDays`), and `Snooze`, that of a snooze or an unbind, always 7 days. `job[w]` is the writer and its
next statement: `bind`, `unpend`, `queue`, `unmap`, `unbind`, `requeue`, `skip`, `defer`, `create`, `bindNew`. Any write
may fail (`WriteFails`, charged to `MaxMishaps`) and each writer then goes on exactly as the code does: log and continue,
return 500, or abort the phase. `entangled` remembers the users on whom two writers worked at the same time or whose
writer was cut short; two properties speak of the others only.

### Breaker and Outage

`openFor` is `now - openedAt`, counted up to the cooldown. `at` and `age` are the rechecks in flight. `fired` is the
transition handed to the hook. There is no half-open state in the code: the first call after the cooldown *closes* the
breaker with its failures reset and `probing` set, so it takes `Threshold` failures again to trip. The model keeps that.

`Outage` gives each recheck the call it makes, and puts the cache refresh beside it:

| In the model | In the code |
|---|---|
| `tokens`, `pausedFor` | the pacer's bucket, `pausedUntil - now` |
| `call[c]` with phases `pacing`, `sent`, `backoff` | a goroutine in `execWithRetry`; `wait` is what it sleeps, outside the mutex |
| `Granted`, `SleepsForToken`, `SleepsOutCooldown` | one turn of the pacer's `wait` |
| `RateLimited`, `Transient`, `Permanent`, `Replied`, `Expires` | the outcomes of one request |
| `walk` | `RefreshCustomers`: `todo`, `reached`, `failed`, the run of failures that aborts a pass, the second pass |
| `since`, `granted`, `first` | history: the time since the last cooldown and the requests since |

A recheck's outcome is what its call comes to, so `OutageSpec` implements `Spec` of `Breaker` (the same variables, no
mapping needed): the theorem `OutageImplementsBreaker`.

### Membership

One row per card, `row[k]`, with the customer it names, the status it shows and (history) the customer that status
was read of. `rfSnap`/`rfGot`/`rfLeft` are the snapshot, the answers and the rows still to be written of the refresh;
`psSeen`/`psOn`/`psOff`/`psHeld` what the pass listed and decided; `rcAt[k]`/`rcRow[k]` the recheck of a card and the
row it read; `igPlan` and `stPlan` what ingest and staff are going to write. `holder[k]` is the user a card has at the hub,
`mirrored[k]` the one the mirror shows (`HubSync` copies it), which is what the ingest goes by. Of a row it took the refresh
reads again only what `Taken` keeps: that there is one, whose it is, and its active flag. A snapshot is stored as it was read, so a
late write writes old data. An entry of a snapshot that nothing will read again is dropped.

`DirectorySync(m)` is the customer's turn in the scheduled load, which knows no badge; `Walk(m)` its turn in a walk, which
does. Constants choose what takes part: `MirrorWalks` (somebody asks for walks), `Rechecks` (a denied tap may
ask Redpoint; without it the configured staleness outlasts every row, which the code then refuses to recheck), and `Walked`
(the directory starts as a first walk has filled it).

`SettlesIfWalked` has three hypotheses: walks come again and again, each customer ends up one the walk sees, and no row keeps
changing hands (`NoRowIsHandedOn`). It has one alternative: the mass-deactivation guard holds the pass back for ever, which is its purpose;
then the deactivations do not happen, but whoever is in good standing is let in.

### Directory

| In the model | In the code |
|---|---|
| `active` | the customers that Redpoint's filter `active: ACTIVE` returns |
| `listed` | the customers with a row in `customers` |
| `sync` | the row of `sync_state`: `status`, `last_cursor`, `started_at` (none, recent or old by the stale window) |
| `th[t]` with phases `begin … final` | a goroutine in `Walker.Walk` or `bulkLoadCustomers`; each phase is its next statement |
| `th[t].cursor`, `.page`, `.more` | the local cursor, the page in hand, `hasNextPage` |
| `th[t].owed`, `.whole`; `owedAt`, `wholeAt` | history: whom a loop still owes a copy, and whether its cursor goes back to the top by walks; the same for the cursor in the row |

A page holds one customer, so a cursor is the customer it ends with. A posted load is refused while the status says running, unless
the status cannot be read: that error is not looked at (`routes_admin.go:531`). Both loops share `Fetch`, `Copy` and `Fails`; they differ
in what they write to `sync_state`, in which of those writes they look at, and in the walk's resumption. What a loop
owes is a ghost: a customer is owed from its start, is paid by the commit of its page or by lapsing, and a resumed walk
inherits what the writer of its cursor still owed. A load that writes the cursor leaves everybody owed, since it copies no
badges. A walk that has ended leaves its cursor until it resets it, and everybody owed to whoever would take it up; nobody does unless an
overlapping walk fails just then and sets the status to error, and such a cursor vouches for nothing (`wholeAt`).

### Lifecycle

| In the model | In the code |
|---|---|
| `phase`: `run → http → ws → drain → group → closing → down` | `App.Run`, the steps of `App.shutdown`, `App.Close` |
| `pc[r]`, `outcome`, `verdict` | a run between `jobs.Start` (or `startSyncJob`) and `Finish` |
| `jobs[<<type, millisecond>>]` | a row of `jobs`; two runs of a type within a millisecond share an id |
| `syncState`, `LoadWrites`, `ReadBack` | the row a load writes at its start, with each page and at its end, and from which `RunDirectorySync` reads its verdict; each write and the read may fail, and nobody looks |
| `Walk` | a walk of the mirror writing the same row |
| `staff` | the row that `handleSyncUnstick` found and is about to fail |
| `socket`, `polling`, `tap[t]` | `connectLoop`, `StartEventPoller`, the answers and asynchronous writes of taps |
| `drained`, `settled` | whether `Handler.Shutdown` and `Group.Shutdown` returned before their deadlines |

A run started by a request holds the request's context (`Posted`) or is handed to the group (`Started`); a client that goes
away (`Leave`) cancels the first, and the verdict is written under a context detached from it. A connection that was
closed under the reader still yields the frames it had received, and a dial under way when the client is closed survives
it: both let taps in after the drain has begun, which is why `DrainsAreComplete` speaks of what came before.

### StoreOpen

| In the model | In the code |
|---|---|
| `at` | how far `store.Open` is: looking, copying, pruning, renaming, migrating, healing, serving, failed |
| `audit`, `cache` | the files: absent, torn or a database; its objects, its version, its history |
| `bridge` | `bridge.db`: absent, whole, incomplete, put aside, renamed to the backup |
| `indexed` | whether `bridge.db` had the search index, or was one migration behind |
| `step` | the next statement of a pruning or of a migration that runs without a transaction |
| `clean`, `cut` | history: nothing has failed in this boot; something was cut off half-way |

One name stands for the tables that one script creates together. Init is every installation the code accepts from an earlier release:
none; a `bridge.db` with all audit tables, at the last version of the old numbering (6) or the one before, without the search index (5), or
one that lacks an audit table;
the files of either after their split, at each version since. Older levels are those that lack a table: they are put aside. The supervisor restarts a boot
that fails; the operator may delete the backup, remove `cache.db`, or roll a split back by deleting both files as long as there is a `bridge.db`, whether or
not what was left of the split has served meanwhile.

### The staff's desk: HubUsers, Enrollment, FragmentCache, Overrides

| In the model | In the code |
|---|---|
| `hub`, `version[u]` | the users of the hub in the order of its list; how often a record has changed |
| `walk[w]`: `listing`, `writing`, `hydrating` | a refresh of `unifimirror.Syncer`: the paginated list, the upserts, one `GET` per missing e-mail; of a search, the list |
| `session[s]`, `holder[c]` | an enrolment session at the hub; whom the hub has bound a card to |
| `panel[p]`, `poll[s]`, `cancel[s]` | what the browser shows; the two requests that may be under way about a session |
| `ver`, `entry` | `htmlCache.ver` and the entry of the members' table |
| `browser[r]` | the copy a browser may show again for five seconds (`Cache-Control: private, max-age=5`) |
| `reader[r]`, `owing` | a request between its look-up and its `Set`; a writer between its write and its `Invalidate` |
| `overrides`, `file`, `desk[d]` | `Mapper.overrides`, its JSON file, a request between changing, marshalling and renaming |

In the browser a panel is replaced by the answer to its request; an answer to a panel that has left the page is dropped
(htmx 2.0.4, vendored in `internal/ui/static`). Binding a card changes the user's record at the hub (`HubLearns`), writes a row of
the table (`TableGrows`) and invalidates the cache; an override invalidates it too. Those are the joints of `StaffDesk`.

`MembersPage` is what the cache promises: each table shown stood at some moment of the last `Window`, and `Delay` after a change
that was announced while nobody was reading, no table from before it is shown. `FragmentCache` implements it with
`Window <- TTL + MaxRender + MaxAge`, `Delay <- MaxAge` and `reading <- Rendering` (`ServesThePage`, checked and proved). That `Set` stamps the version of
the moment it stores is why the window is not `TTL`, and why the second half is about changes announced in quiet only. `MaxAge` is the
browser: an answer carries `max-age=5` (`routes_fragments.go:97`, `:122`), so a page may be shown once more without asking (`ShowsAgain`),
also by the request that `member-updated` makes (`members.html:54`) because of the change.

### The pure modules

`Matching`, `DoorAccess`, `Schedules`, `Settings` and `StatusEngines` have no variables. Each definition is a decision of the code,
and each `ASSUME` compares it with what it should be, over every input of a small sample; TLC evaluates them at the
start of the run whose MC module extends them (`binding`, `outage`, `lifecycle`, `membership`).

| Module | `ASSUME` | Says |
|---|---|---|
| `Matching` | `UniqueEmailAssumption` | an e-mail that one customer has decides, whatever the names are, in all four variants |
| | `HouseholdAssumption` | of customers who share an e-mail, only the one with the user's full name is taken, and nobody if there is not exactly one |
| | `IngestAgreesAssumption`, `FormAgreesAssumption` | where sync and ingest both decide, they decide alike (the ingest goes further, with half a name); whom the form resolves, the next sync binds |
| `DoorAccess` | `PoliciesNarrowAssumption`, `BlankListAssumption` | a policy only narrows whom it lets in, "open" excepted; a list of separators is no list |
| | `RenewalAssumption` | a recheck opens exactly where the fresh row would have, and a second denial keeps the first reason |
| | `StageObservesAssumption` | a stage instance that boots does nothing to doors, hub or Redpoint; shadow mode without overrides holds every rung of the ladder |
| `Schedules` | `BackoffAssumption`, `RetriesAssumption` | the backoff doubles up to its ceiling and ends with a success; waits between retries grow, and a hint only lengthens them |
| | `DailyAssumption` | the next daily run is the first occurrence of its hour; around a change of the clock it is up to an hour off |
| | `StalenessAssumption`, `AlertsAssumption` | a daily sync that succeeds is never stale and is stale before the next if one fails; a lasting condition is told at once and then once per period, its end once |
| | `RefreshAssumption` | a refresh that reached nobody fails under every tolerance, and fewer reached never fares better |
| `Settings` | `LayersAssumption` | environment over `.env` over file over default, for values that can be read |
| | `PortsAssumption`, `AcceptedAssumption`, `IntervalAssumption` | what validation guarantees to the other modules, and what it lets through |
| `StatusEngines` | `ReplacementAssumption`, `UnknownAssumption`, `ModesAssumption` | where pass and loop write the same, what each does about users it knows nothing of, and that a mode below "full" takes no access away |

## Runs

| Run | Configuration | Shows |
|---|---|---|
| `tap_pipeline` | 1 tap, 4 ticks, 2 crashes, 1 failed insert, 1 backfill, WebSocket emitting | rows, check-ins and door openings of one tap stay bounded whatever the three deliverers and restarts do |
| `poller` | 3 taps, 4 ticks, midnight at tick 3, 1 crash, no WebSocket | REST alone: nothing is skipped silently, every tap gets its row |
| `binding` | 2 users, 2 customers, every staff operation, 1 mishap | no user in both tables, no binding undone except by staff or by a conflict |
| `binding_sync` | 2 users, 1 contested customer, unbind, 2 ticks, a configured window longer than the staff's | the first grace deadline survives; a user without a rival is in the end listed somewhere |
| `outage` | 2 taps, or a tap and a refresh of 2 customers; threshold 2, cooldown 4, timeout 2, 2 attempts | bounded pressure, the rate after a 429, no early closing of the breaker but by an answer or a reset, truthful labels, every customer accounted for, recovery |
| `membership` | 2 members, four statuses, cap 1, 1 event, directory filled by a first walk, rechecks and walks, symmetry | "gone" is only ever written of customers Redpoint denied knowing; the cap holds |
| `settles` | 2 members, active or expired, cap 1, 1 event, walks, no rechecks | walked again and again, the hub agrees with Redpoint in the end, or the guard holds the deactivations for ever and nobody in good standing is shut out |
| `directory` | 3 customers, a walk, a posted and the scheduled load, 1 event | a loop that ends is whole, the button opens again, everybody who stays gets listed |
| `lifecycle` | 2 overlapping loads, or a load and a walk of the mirror, or a run in a request, or a pushed and a polled tap; 2 ms, 2 runs, 1 fault | the jobs table tells the truth; complete drains leave nothing behind; a shutdown ends |
| `staff_desk` | pairs of refreshes, search, panels, readers, desks; 3 users, 1 card | the mirror is whole and recent, cards stay, readers are freed, spinners end, the page is as old as promised, overrides survive |
| `store_open` | every old installation the code accepts, 3 faults | the history of `bridge.db` is never lost, and what was recorded since only by the rollback; what is served has its schema (but for the search index, if `bridge.db` had none); a boot succeeds in the end |
| `name_prefix` | every user and directory of `Matching`'s sample | **violation**: the name fallback binds a user to a customer of another name |

The properties of each run are in its `.cfg`; each is stated in words at its definition. `CHECK_DEADLOCK FALSE` stands where the
system rightly stops: no tap is left (`tap_pipeline`, `poller`), the process is down and its bounds are spent (`lifecycle`),
everybody has gone home (`staff_desk`), the one user has been decided (`name_prefix`).

* `CheckinsBounded` (TapPipeline): a tap is pushed to Redpoint at most once per process that lived while it was fresh,
  and once more if the WebSocket emitted it. It is the strongest bound the code keeps.
* `NoSilentSkip`: an entry at or below the poller's high-water mark was dispatched, or an entry of the same second with a
  higher id was dispatched before it.
* `AtMostOneTable`, `BindingsAreKept` (Binding): a user is bound or pending, not both, and only the staff changes or
  removes a binding; both for users no two writers held at once. Entangled users can break both: that is the hazard,
  and `entangled` isolates it, so that what remains is exactly what the statement order of each writer guarantees.
* `GraceIsAnchored`, `NobodyIsLost`: a pending row's deadline moves back only by a snooze or an unbinding, or, if the
  configured window exceeds the 7 days, by a sync that overlaps an unbinding (see Findings); an active user that
  has no rival for its customer does not stay out of both tables for ever.
* `PressureIsBounded`, `StaysShut`, `LabelsAreTrue`, `Recovers` (Breaker): an outage costs at most
  `Threshold - 1 + |Taps|` rechecks per cooldown however calls overlap; an open breaker closes by a reset, after its
  cooldown, or by the late success of a call that began before the trip, within that call's timeout; a trip is labelled
  "after probe" exactly when nothing relieved the one before; with denied taps arriving and Redpoint back it closes for
  good, also when a refresh competes for the tokens.
* `BudgetIsKept`, `EveryCustomerOnce` (Outage): nobody sends during a cooldown, and after it the callers together get one
  request and then `Rate` a tick, however many slept through it; a refresh accounts for each customer exactly once, through
  the abort, the second pass and a cancellation.
* `DeletionsAreReal`, `GuardHolds`, `SettlesIfWalked` (Membership): as in the table; the hypotheses of the last are above.
* `CompleteIsWhole` (Directory): a loop about to declare itself complete owes nobody a copy, across cut-offs, resumptions and
  other loops writing to the row; of walks, those whose cursor goes back to a walk, and not to one that had ended when an
  overlapping one failed. `LockOpens`: the status never stays at
  running for good. `EverybodyListed`: a customer who stays active gets a row, however many joined and lapsed meanwhile.
* `RunningIsTrue`, `VerdictIsTheRuns` (Lifecycle): a row that says running is that of a run under way, or of one that ended
  without a word; a verdict is that of the run, unless two took one id, the operator cleared it, or it is a load that did
  not read back what it wrote (another load or a walk wrote in between, or its write or its read failed). The exceptions are hazards the
  code has; each is a named set, so that nothing else hides in it.
* `DrainsAreComplete`, `StopsInTime`: a drain that ended before its deadline left behind no write but of taps that were
  still being answered or came in afterwards, and no run but those handed over afterwards; a shutdown ends whatever hangs.
* `WalksAreWhole`, `RowsAreRecent` (HubUsers): a refresh that had the mirror to itself, lost no call and saw nobody leave
  ends with everybody in the mirror, as recent as its start; no row is ever put back behind the moment the running
  refreshes began.
* `CardsStay`, `ReadersAreFreed`, `SpinnersEnd` (Enrollment): the bridge never takes a card from whom it is bound to, between
  the check of the owner and the binding; a reader waits for a card only while somebody concerns himself with it, or a call
  failed or the page was closed; every panel stops polling.
* `ServesThePage`, `OverridesSurvive`: above; with no request at work the file is the map, unless a save failed or two
  overlapped since the last save that had the map to itself.
* `HistoryIsKept`, `SchemaIsServed`, `FailuresHaveCauses`, `OpensInTheEnd` (StoreOpen): the history of `bridge.db` is lost
  by no fault, no kill and no act of the operator at any point, and what was recorded since only by the rollback of a split that was
  interrupted and served all the same;
  what is served has exactly the tables of `audit.db`, and those of `cache.db` unless a change was cut off, the search index excepted if
  `bridge.db` had none; a boot fails only by an operation of its own or after a cut; in the end one serves the history.

## Bounds

Every bound is a constant whose name starts with `Max`, or a set in the `.cfg`, and is commented where it is declared.
Why they are enough:

* One tap suffices for duplication (all the duplicates of a tap are about that tap); two crashes give three processes,
  so "once per process" differs from both "once" and "twice". Three taps with equal or swapped time stamps are needed
  to overtake the high-water mark and still have a later one that hides it. A day of three ticks inside four makes
  the midnight start of the poller matter.
* Two users and one customer make a contested customer; a second customer lets the pairing change under a writer.
  Mappings of a third user would only repeat one of the two. One staff request at a time already interleaves with sync
  and mirror at each statement; one mishap separates each pair of statements.
* Two taps and threshold two: enough calls to trip while others are in flight. A cooldown of two timeouts lets a call
  admitted before the trip end before, at, and after the probe. Two customers and an abort after one failure reach the abort, the
  second pass and its cancellation. A bucket of two tells a burst from the one request a cooldown leaves; `Horizon` two covers
  the ticks in which a bucket that was not drained would show.
* Two members and a cap of one make the guard bite, in the safety run and in the liveness run: both may have lapsed. The liveness
  run keeps the two statuses between which the walk's copy decides; they may differ from the start on, and its one event is a change of
  one of them, a failure, a crash, or a reassignment, reactivation or other act of the staff while stale values are held.
* Three customers are a first, a middle and a last page: a walk can be cut off before, between and after cursors that
  are neither the top nor the end. One walk, one posted and one scheduled load give a writer of each kind, and one
  that never looks at the status; one event cuts off one of them, or changes who is owed.
* Two runs in the milliseconds 1 and 2 of a second of three: ids may or may not collide, and `created_at`, which holds the second,
  orders no two of their rows, so that the operator may get either. One fault is
  one crash, panic, lost write or abandoned request anywhere; a write or a read of `sync_state` may fail without one. The mixes pair what
  shares a row (two loads, a load and a walk), and the two
  taps that leave a write behind in different phases.
* Two users fill a page of two, so the list's end is a full page, and the third opens a second one; a change of the
  directory shifts the pages. Two panels and one card collide; one poll more than the cap is the cap. Two readers and a
  writer put a change before, between and after the steps of two renderings that overlap; a clock of four lets a table grow older than
  TTL, rendering and the browser's copy, one tick each, so that the window can be exceeded.
  Two desks and three edits let a third save mend what two overlapping ones did.
* Three faults cut off a boot, the boot that repairs it, and the next one.

The proofs below hold for all values of these constants.

## Fairness

Fairness is assumed only of what a scheduler, a ticker, a deadline or a running goroutine guarantees:

* TapPipeline: `WF` of `Boot` (the service manager restarts the process), of `PollBatch` (a loop over an answer in hand) and of
  the poller's handler call (each of its steps has a context with a deadline). Nothing is assumed of the hub, the WebSocket, the
  backfills, or the asynchronous pushes. That the poller's fetches succeed again and again is no fairness of the specification
  but the hypothesis `FetchesSucceed` of `EveryTapRecorded`.
* Binding: `WF` of the sync and mirror steps and of their statements (loops under the supervisor). Staff and hub owe nothing.
* Outage: `WF` of the tick; for each tap of its asking and of its lookup or the expiry of its context; of the steps of the
  refresh's lookups, whose requests end by the HTTP client's timeout. Recovery is a statement about a gate that is being
  asked: with no denied tap it rightly stays as it is.
* Membership: `WF` of the steps of refresh, pass, recheck, ingest, directory sync, of the copying of the hub's list, and of the
  staff's remaining statements. None of the walk: no loop runs it, an operator posts it. That it comes again and again, and that no row
  keeps changing hands, are hypotheses of `SettlesIfWalked`, not assumptions. Nobody has to tap or to act.
* Directory: `WF` of the scheduled load as a whole (the loop ticks, and a load that runs goes on: its calls have deadlines).
  Nothing of the posted loads and of the walks, which may stop anywhere.
* Lifecycle: `WF` of the shutdown's own steps, each of which has a deadline. A run may hang on a server for as long as it likes.
* StaffDesk: `WF` of each session's round: a browser that polls, and handlers whose calls have deadlines. Nobody has to tap a
  card, cancel, read or write.
* StoreOpen: `WF` of the boot: its statements return, and a supervisor starts it again.

## Proofs

`tlapm` checks every theorem to the last leaf, for all values of the constants, from the named `ASSUME`s of the module
(`BoundsAssumption`, `WindowAssumption`, `NoneAssumption`, …), which TLC evaluates in the runs.

| Theorem | States | Argument |
|---|---|---|
| `TapPipeline_proofs!TypeCorrect` | `[]TypeOK` | inductive |
| `…!NothingSkipped` | `[]NoSilentSkip` | `LogInv` (ids and time stamps of the log grow together) and `MarkInv` (the batch is exactly what separates the mark from the log window): whatever leaves the batch without dispatch lies at or below a dispatched id |
| `…!CheckinsCorrect` | `[]CheckinsBounded` | `ClaimInv` counts *claims*: check-ins made, pushes not yet run, and live handler calls about to push. Every step keeps claims within the allowance; a crash turns claims of the dead process into nothing, a boot raises the allowance |
| `…!DoorOpenedOnce` | `[]OpenedOnce` | `OpenInv`: only a live WebSocket delivery may unlock, and a frame is consumed by the call that does |
| `Binding_proofs!TypeCorrect` | `[]TypeOK`, which contains UNIQUE(customer) | with `KindInv` (which statement which writer can be at) |
| `…!OneTable` | `[]AtMostOneTable` | `BindingInv`: for each user that is not entangled, a writer in hand determines what the tables hold (`HandInv`), and what a snapshot saw is still so (`SeenInv`) |
| `…!BindingsKept`, `…!GraceAnchored` | the action properties | from `BindingInv`, action by action; for the second `GraceInv`: the window the sync holds is not beyond the row's, unless it was overwritten (`Overwritten`) |
| `Outage_proofs!OutageImplementsBreaker` | `OutageSpec => Spec` of `Breaker` | `OutageTypeOK` ties a call to the recheck that makes it: every step of a lookup is a stutter of the breaker or the outcome of one recheck |
| `…!OutagePressureBounded` | `[]PressureIsBounded` | proved of `Breaker` with `LateCalls` (a call in flight while the breaker is open began before the trip, so it is at least as old as the open state), carried over by the refinement |
| `…!OutageShutStays`, `…!OutageLabelsTrue` | the action properties | from `BreakerInv`; `Unrelieved` ties the `probing` flag to the history; carried over likewise |
| `…!BudgetKept` | `[]BudgetIsKept` | `Bucket`: the tokens left and those granted never exceed the first and what has dripped in since; a 429 empties both |
| `…!CustomersAccounted` | `[]EveryCustomerOnce` | each turn moves one customer between three counts, the abort and the second pass move all of one |
| `…!OutageTypeCorrect` | `[]OutageTypeOK` | inductive |
| `Membership_proofs!TypeCorrect` | `[]TypeOK` | inductive |
| `…!DeletionsReal` | `[]DeletionsAreReal` | `Founded`: every "gone" in a row, in a snapshot, in an answer or in a plan was once Redpoint's answer about that customer |
| `…!GuardAlwaysHolds` | `[]GuardHolds` | `Capped`: users done plus users still decided off never exceed the cap once the guard has passed |
| `…!EnginesAgree`, `…!PassIsGuarded`, `…!EnginesRest` | of `StatusEngines`, for any number of users and cards: where loop and pass write the same; the cap; a second run writes nothing | the loop stops at the first known card (`FirstCard`, by the least number), and who trips the guard is still there after what the guard lets through has been written |
| `Directory_proofs!TypeCorrect` | `[]TypeOK` (in no run) | inductive |
| `…!CompleteWhole` | `[]CompleteIsWhole` | `Sound`: whatever a loop that can vouch for its cursor still owes lies beyond that cursor, is in the page in hand, or is nothing once no page is left; `Ahead`, `SyncSound`: the same of the cursor in the row, whoever wrote it, which is what a resumption takes over |
| `Lifecycle_proofs!TypeCorrect` | `[]TypeOK` (in no run) | inductive |
| `…!RunningTrue` | `[]RunningIsTrue` | `RowInv`: a live run's row exists and is its own unless two took the id; what ends without closing it is stranded |
| `…!VerdictTrue`, `…!VerdictsKept` | `[]VerdictIsTheRuns`; a closed row keeps its verdict but for collisions and the operator | `LoadInv`: a load that is about to read `sync_state` and is not muddled finds there what it wrote: whoever writes in between, load or walk, muddles it, and so does a write or read of its own that fails |
| `…!DrainsComplete` | `[]DrainsAreComplete` | `ShutInv`: once drained, what still answers or writes is in `late`; once settled, what is still alive was handed over afterwards |
| `…!AlertsAreInTime` | of `Schedules`, for any run of observations: a condition is told at once, then every `renotify` observations, its end once | `WatchSteps` says what the loop's recursive function is at each step; the rest is induction over the observations since the last alert |
| `StoreOpen_proofs!ServesItsSchema` | `[]SchemaIsServed` | `AuditInv`, `CacheInv`: at each step, what the file has and lacks; of `audit.db` whatever was cut off, of `cache.db` unless something was, up to what the install lacks (`Lacking`) |
| `…!KeepsTheHistory` | `HistoryIsKept`, step by step: each action, the rollback at any moment included | `HistoryInv`: `bridge.db` is renamed only when `audit.db` holds its history, so that while there is one to roll back to it has all of it; a split runs only over files that hold nothing newer |
| `…!FailuresAreExplained` | `[][FailuresHaveCauses]` | `LeavesOrder`, which is `[]OrderInv`: unless something was cut off, a boot finds no torn file, no `cache.db` in the way of a split, no copy that was not pruned and no half of a migration; so each statement finds what it alters and misses what it creates. `Fresh` says of each phase which objects the statements run so far have left, `Sound` what the version of an older file implies |
| `…!TypesOK` | `[]TypeOK` (in no run) | inductive |
| `StaffDesk_proofs!RowsStayRecent` | `[][RowsAreRecent]` | `MirrorInv`: what a refresh lists or keeps for a later write (`Keeps`, `Refreshing`) is no older than the moment the running ones began |
| `…!NobodyIsLeftOut` | `WalksAreWhole` | `WalkInv` (what a walk holds at each point, nobody twice in the list), `MissesNobody`: until a walk ends, each user it began with has been read (`Seen`) or stands in the hub's list at a place its next page has not passed; the loops pass on all they hold (`Covered`), and an undisturbed refresh is the only writer (`Only`) |
| `…!FreesTheReaders` | `[]ReadersAreFreed` | `Watched`: until the answer of a poll is shown, its panel stands or a request still concerns the session; `PanelsKnow`, `PollsKnow` (who knows of which session), `TellingTheHub` (a cancellation on its way) |
| `…!CardsAreLeft` | `[][CardsStay]` | with `EnrolInv`, action by action: the hub refuses the binding of a card that has a holder, and the bridge never forces it |
| `…!ServesWhatThePagePromises` | `DeskSpec => Page!PageSpec` | `CacheInv`: every body in the cache, in a rendering or in a browser stood at some moment within the window (`StoodAt`, `Rendered`, `Cached`, `Kept`); each step of the composition is one of `MembersPage` or a stutter |
| `…!OverridesAreKept` | `[]OverridesSurvive` | `OverrideInv`: a save that has the map to itself carries the whole map (`LoneSavesAreWhole`, `OneAtATime`) |
| `…!TypesOK` | `[]DeskTypeOK` | with the four invariants above, and `CacheBounds` and `OverrideCounts` for the bounds of a mix |

The theorems about the desk are about the composition: each begins with a lemma that a step of `DeskNext` is, for the
variables of one part, a step of that part or a stutter (`MirrorProjection` and its like), so that the invariant of the part is
proved from its own actions.

Why a strengthening is needed is the same each time: the property speaks of what has been written, and the next write
comes from a snapshot, a frame or a thread. The inductive invariant says of everything in flight what the property says of
what has landed.

Two assumptions are there for the proofs. `HubAssumption` says that the directory lists nobody twice at first
(`IsInjective(Known)`: user ids are unique at the hub); `MixAssumption`, that a mix asks for no more changes and failures than the bounds.

A walk's claim is about the order of a list that users join, at any place, and leave while it is read by page. `InsertingShifts` says that a
new user moves the others to the same or a later place, so that nobody slips back behind the page read next; who leaves makes the others move up,
which is why the claim excepts such walks (`shrunk`). What `ListUsers` keeps of a page is a loop over its rows
(`WithCard`). The library's induction takes an operator as its parameter, which the provers cannot instantiate; `EveryNumber` states induction over the
naturals for a set instead, from `NatLessThanWellFounded`, and `FilterKeeps` and `WatchSteps` say with it what a loop over a page, or over
the observations of the watchdog, computes for any length.

Only model-checked: the liveness properties (`EveryTapRecorded`, `NobodyIsLost`, `Recovers`, `SettlesIfWalked`, `LockOpens`,
`EverybodyListed`, `StopsInTime`, `SpinnersEnd`, `OpensInTheEnd`), since the prover has no rule for fairness here; the `ASSUME`s of the pure
modules, which TLC evaluates over bounded inputs (what `EnginesAgree`, `PassIsGuarded`, `EnginesRest` and `AlertsAreInTime` say of them
holds without the bounds); and the refuted statement. Every other property of a
passing run is a theorem.

## Findings

`name_prefix` is a **violation** run, with the quoted text in `PROJECT.json`: the name fallback of the matching phase searches with
`LIKE 'first%' AND LIKE 'last%'` (`store/customers.go:75`) and takes a single row for a definite match without comparing the names,
while `docs/architecture-review.md:124` says "filter client-side for normalized-equal". A hub user called Jo Lee whose e-mail
no customer has is bound to the only customer whose name begins that way, John Lee. Conversely an exact match beside a longer name
is "ambiguous".

Disagreements of text and code that have no run:

Taps and shutdown
* `app/build.go:531` calls the poller's rolling window "safe against restart-duplicates"; a restart within the freshness
  window (45 s, `unifi/client.go:1269`) pushes a second check-in, because nothing in the push path looks at the outcome of
  the INSERT. `CheckinsBounded` is the bound that holds.
* `handler.go:449-452` says of a polled tap that the unlock after a recheck "happens inside the recheck service". It does not: the service reactivates the user
  and returns, and the handler goes on (`:398`) with the function that just suppressed the unlock, so that nobody opens the door for a
  polled tap. `OpenedOnce` holds with or without it.
* `app.go:180` and `handler.go:560` say the WebSocket is closed so that no new events appear during the drain. A dial under
  way survives `Close` (`unifi/client.go:391`), frames already received are still read, and the poller and backfills run in
  the background group that is stopped afterwards.
* `session.go:152` persists the key so that "active staff sessions survive restarts"; the sessions are a map in memory.

Membership and directory
* `cache/sync.go:122` says the refresh "does NOT add or remove members"; it writes whole rows from its snapshot (`:158`,
  `:241`), re-creating removed ones and reverting reassignments made meanwhile.
* `members_reassign.go:273` says of a row left with the old customer "The next sync pass will reconcile it". A refresh that took its snapshot
  before the ingest corrected the row writes the old customer back (`cache/sync.go:127-158`, `182-244`), and the next one that straddles
  the ingest does so again: nothing in the code ends it, which is why `SettlesIfWalked` has the hypothesis `NoRowIsHandedOn`.
* `ingest/unifi.go:322` says the directory row "carries the customer's real badge status"; the scheduled load asks for no badge
  (`routes_admin.go:656`), so the row has none, or the one of the last walk. Each ingest writes that over what the refresh
  learned (`:331`), and a status pass before the next refresh (`syncer.go:738`) deactivates active members.
* `mirror/walk.go:340` says the cursor is kept so that recovery never "skips data"; the walk takes up whatever cursor
  `sync_state` holds (`:239`), also one of a load that is running or was cut off, and declares itself complete without the
  pages before it.
* `store/customers.go:406` says check and claim are under one lock, so that there is no race; they are two statements in two
  functions, and a fresh walk clears `started_at` (`routes_admin.go:733` likewise), on which the check rests, after its first page.
* `routes_admin.go:599` says an error status in `sync_state` surfaces as an error of the job; a load whose error state could
  not be written, could not be read back, or was overwritten by another load or a walk, is recorded as
  completed: the errors of `UpdateSyncState` (`:664`, `:693`, `:717`, `:740`) and `GetSyncState` (`:618`) are dropped, under a live
  context as under the cancelled one of a shutdown. Line 607 says both callers read the guard first; the scheduled one does not.

Status sync and matching
* `syncer.go:534` says of users without a row "Not in our store … Leave alone". `GetMemberByNFC` returns an empty member along
  with an error (`members.go:57-64`); the card loop (the default engine, `config.go:372`) counts the error and then treats the
  empty member as not allowed: a failed read deactivates an active user, and no mass-deactivation guard holds that loop. The
  mapping pass leaves such users alone.
* `orchestrator.go` states as an invariant of `persistDecision` that the first deadline stays. With `UNMATCHED_GRACE_DAYS` above 7, a sync
  that read the queue before an unbind put the
  user there with 7 days writes its longer window over them (`:178-189`); `GraceIsAnchored` excepts that (`Overwritten`).
* `docs/architecture-review.md:226` says a user who cannot be bound falls into the pending table; one refused by UNIQUE
  (`orchestrator.go:145`) does not, and is listed nowhere. The same line, `syncer.go:619` and comments in `config.go`
  say default-deactivated where the code only alerts.
* `ingest/unifi.go:193` claims "the same disambiguation rule the statusync matcher applies"; without an e-mail it also searches with half a
  name. A bound customer who is missing
  from the directory falls through to the heuristics. SQL compares untrimmed, the matcher trimmed.

Breaker and client
* `breaker.go:39` says every state transition is announced; the late success of a call admitted before the trip
  (`breaker.go:155`) closes the open breaker and announces nothing. `StaysShut` bounds how early that can be. The file also
  says that the next outcome, success or failure, clears `probing` (a failure that does not trip leaves it set) and that
  two near-simultaneous probe calls are the worst case (every call after the cooldown is admitted until the threshold is
  reached again).
* A recheck that spends its deadline waiting for the pacer counts as a failure of Redpoint (`recheck.go:279`): a bucket emptied by
  the bridge's own walk can open the breaker.
* `unifi/client.go:815`: a full page means that `ListUsers` asks for another; when the number of users is a multiple of 100
  that one is empty, and `:795` takes its wrapped empty list for an unwrapped one and fails the walk.
  `store/ua_users.go:18` says ingest and status sync refresh the mirror on the side; only `unifimirror` writes it.

Jobs and schedules
* `jobs.go` says production sets a backoff of five minutes where `scheduler.go` sets an hour. A panic inside a run of `jobs.Loop`
  ends that scheduler without a word and leaves its row running; the loops of `statusync` have a supervisor. `startSyncJob`
  inserts under the request's context where `jobs.Start` detaches.
* `scheduleNext` adds 24 hours, not a day: runs move around clock changes, and in the last hour of a day of 25 they follow
  each other at once. The watchdog's grace starts anew with each process, so a bridge that keeps crashing never reports a
  stale sync; an alert whose delivery failed is not sent again before its period ends.
* "Clear stuck" is offered after 15 minutes (`ui/fragments.go:451`, "comfortably exceed"), less than the 20 to 25 minutes that
  `app/scheduler.go:11` gives a walk.

Configuration
* `SYNC_INTERVAL_HOURS` of 0 or less is accepted: three loops run once and stop, the user mirror falls back to a day, and a
  status sync without a time of day never rests. `UNMATCHED_GRACE_DAYS` 0 is accepted as a mode of its own and read as 7.
  A value that cannot be parsed is passed over without a word and hides the one in `.env`: a misspelt
  `BRIDGE_SHADOW_MODE` leaves the default, off. The "waiver" policy and `RequireWaiver` are stored and never read.

The staff's desk and the databases
* `members_new.go:464` speaks of 60 seconds of polling; it is 120 round trips. A cancellation that races a poll can still
  see the card bound. `members_new.go:582` says no session is left open; one is after a failed status poll.
* `members.html:54` fetches the table again upon `member-updated` so that it shows the change. The table's own `max-age=5` allows the
  browser to answer that request with the table from before it; `Delay` in `MembersPage` is that lag, and not zero.
* A refresh of the mirror that is cancelled half-way reports success; the list's row without an e-mail overwrites a hydrated
  one until it is hydrated again. `mapper.go`: a save that failed leaves the map changed though the request was refused, and of two saves
  that overlap (`:117`: the map is
  copied under the lock, the file replaced without it) the older may be renamed last: an override the staff was told is saved is not in the file, and
  gone at the next restart. `OverridesSurvive` excepts just these.
* `store.go:611-613` says that after the split `cache.db` contains `customers_fts`, and `migrations.go:40-44`, `:136-141` that a `bridge.db`
  embodies it already. One of
  version 5 has all the tables `legacyBridgeHasAuditTables` looks for (`store.go:29-36`), is split, pinned at 3, and never gets the index.
* `store.go:436-437` tells the operator to roll back by deleting `audit.db` and `cache.db`, since `bridge.db` is unchanged. A kill within
  the split lets the next
  boot serve what was left of it and record into it; the rollback then loses those rows. `HistoryIsKept` excepts them.
* `store.go:118` says the split "preserves every byte of audit history". It does (`HistoryIsKept`), but a kill right after
  `audit.db` was created lets the next boot serve without it (`bridge.db` still has it); an exclusively created `cache.db`
  left over makes each split fail until it is removed. `migrations.go:548-551` wraps a migration in a transaction that makes it
  "all-or-nothing"; its number is recorded by a statement after it (`:213`), and a kill between the two has it repeated, which
  fails as the comment fears.
* `unifimirror/recheck.go:75` promises that the next refresh cleans up a pending row it fails to delete.

## Not modelled

Each component with its reason is in `PROJECT.json`.

* **Sessions and middleware** (`session.go`, `middleware.go`): authentication of the staff. Maps under one mutex, each operation
  complete within it, and nothing in the tap and membership logic reads them.
* **Rendering, metrics, audit log**: output that nothing reads back. Of the fragments, the one that carries a count (the
  enrolment's polling) is in `Enrollment`.
* **Legacy JSON member cache, legacy customer directory**: no program imports them.
* **Tools and test doubles**: no part of the running bridge.
* Read-only queries and reports, request formatting, SQL text and JSON parsing, except where a property is about them
  (`Matching`'s searches, `HubUsers`' pages).
* Of partly modelled components, what is missing is a single statement or a single call without a decision around it: setting
  a door policy, progress of a job, the heartbeat, the health probes, the list of doors.
* SQLite's own guarantees (a statement is atomic and durable; torn copies are refused) and htmx's queueing of requests
  per panel are assumed.

## Plan

Done: everything above. What could still be added, in this order:

1. `TapPipeline` over `Outage`: the decision about a tap through the gate, with the deadline of the handler, so that the time a
   member waits at the door is bounded by a property instead of by two.
2. `Membership` with two cards per member and the card loop as an alternative to the pass, in the presence of reads that fail.
3. An abstract "a status follows Redpoint" specification that `Membership` implements outside of the hazards it names.
4. Theorems about the other pure modules (`Matching`, `Settings`, the times of `Schedules`), with induction in set form where they need it.
