# FieldStay: TLA+ models, model checks and proofs

FieldStay runs short-term-rental operations: bookings come in from calendar feeds
and property management systems, cleaning turnovers are generated from them, crews
do the work on an offline PWA, vendors are invoiced and paid through Stripe. Most of
its source is server actions over Postgres, forms and rendering. This
project models the parts that have a protocol of their own: the offline outboxes and
pulls of the devices, and on the server the durable jobs, webhooks and locks.

| module | what it is | checked | proved |
|---|---|---|---|
| `CrewOutbox` | the crew outbox engine: queue, drain, failures, tabs, lock, retry, discard, sign-out | `order`, `tabs` | yes |
| `OrderedWrites` | what an outbox promises, seen from outside | as a property | |
| `DeltaSync` | the delta pull of a cached table against the outbox and other writers | `pull` | yes |
| `ScopeSync` | which turnovers and checklists a crew device holds: removal, known and fresh ids, overlapping pulls | `scope` | yes |
| `Resync` | when the crew PWA pulls: signals, triggers, coalescing, backstop | `triggers` | yes |
| `PhotoQueue` | photos from the capture to the bucket, and the orphan sweep | `photos` | yes |
| `DashboardOutbox` | the second outbox engine, under the dashboard | `attended` | yes |
| `FeedSync` | the sync of one calendar feed as durable steps | `feed` | yes |
| `Turnovers` | the turnover generator of one property | `generate` | yes |
| `CircuitBreaker` | the provider circuit breaker on three Redis keys | `calls` | yes |
| `TokenRefresh` | one rotating OAuth connection and its refresh lock | `refresh` | yes |
| `InvoicePayment` | a work order invoice: checkout, Stripe webhook, refunds | `invoice` | yes |

A run's `.cfg` gives a module its small instance; where the instance needs definitions of its own
(symmetry, a function) `MC<module>` holds them (`CrewOutbox`, `DeltaSync`, `PhotoQueue`). `<module>Proofs` holds the
theorems; those about `ScopeSync` and `Resync` are in
`PullProofs`, those about `CircuitBreaker`, `Turnovers` and `FeedSync` in `IntegrationProofs`. Each extends the first of its
modules and instantiates the others, with constants and variables of their own; the assumption of
such a module is then a hypothesis of its theorems (`ResyncConstants`, `TurnoverConstants`, `FeedConstants`).

How they hang together: on the crew device `CrewOutbox` sends what the screens write,
`DeltaSync` is one pull of a table that the outbox writes too, `ScopeSync` is what such pulls ask for
and remove, `Resync` decides when such
pulls run, and `PhotoQueue` hands its pointer writes to the outbox. On the server `FeedSync`
announces a stay with booking/detected, whose handler is `Turnovers`; a sync that reaches a
provider goes through `TokenRefresh` for the token and `CircuitBreaker` for the request.
Each module takes what its neighbours do as the smallest set of actions that covers
them (`Generate` in `FeedSync`, `Arrive` in `Turnovers`, `Upload` in `DeltaSync`).

## 1. Inventory

**Crew outbox engine** (`lib/dexie/syncService.ts`, `net.ts`,
`outbox-primitives.ts`). State: the `mutations` table (id, target record,
`failed`, `retryCount`, `nextAttemptAt`), shared by all tabs; per tab
`isProcessing`, `redrainRequested`, `heldBack` and the drain's locals.
Operations: enqueue, drain (snapshot, push, confirm, fail), hold back the later
writes of a record that dead-letters. Hard: every `await` is an interleaving
point with other tabs, with the crew member's taps and with the network; a
request whose answer is lost may still be executed; a tab can be reclaimed
anywhere. Correct when the writes of a record reach the server in the order
they were made, nothing is forgotten before it landed, dead letters were earned
by refusals, no row is sent once failed, and no live row waits forever.

**Outbox helpers** (`helpers.ts`, `prune.ts`): retry one or all, discard, prune
after 30 days. They run beside a drain, one row per await.

**Database lifecycle** (`schema.ts`, `crew-shell.tsx`): sign-out latches the
tab, broadcasts, deletes the database. Correct when nothing touches it later.

**Delta pull** (`sync/cursors.ts`, `shadow.ts`, `turnovers.ts`): per table a
cursor (newest `updated_at` seen, less ten seconds); rows newer than it are
fetched, queued local writes are laid over them, the result is put in the
cache, and the cursor moves. Discarding a write rewinds the cursor. Correct
when a stale cached row is always one that the next pull repairs.

**Assignment scope** (`sync/turnovers.ts`): a pull reads the assigned ids, removes what is
cached and no longer assigned unless work is queued on it, fetches turnovers new to the
device in full and the others as a delta, then their checklists the same way. Hard: each
read, deletion and put is a transaction of its own; the resync, the turnovers signal and the checklists
signal are coalesced apart and overlap; a pull can end between a turnover and its
checklist. Correct when the device ends up with the assigned turnovers, current and with their
checklists, and nothing with queued work is removed.

**Signals and coalescing** (`sync/signals.ts`, `context.tsx`, `full-resync.ts`): a
broadcast starts a pull of its entity after a debounce; mount, reconnect, online,
foreground and a safety poll start full resyncs, which all reconcile except three
polls of four. Each kind of pull is coalesced into one in flight and one asked for.
Hard: a request for a pull that arrives during one must not be taken for
served; a channel that is not joined hears nothing; a pull that is never answered keeps those behind it
waiting. Correct when what changed is fetched without waiting for the poll, and the poll repairs what
failures lost.

**Photo queue** (`photo-sync.ts`, `prune.ts`): bytes in one database, rows in another,
upload, then a pointer write through the outbox; orphan collection by two
generations. Hard: no transaction spans the two; without Web Locks every tab
drains; an upload that is never answered keeps the drain. Correct when no bytes go
before their path is queued, what is pointed at exists, every photo arrives or is
shown as failed, and orphans go.

**Second outbox engine** (`outboxEngine.ts` with its vendor and dashboard
users): globally ordered drain, stops at the first failure, one timer, no
hold-back. Hard: its kicks are dropped while it drains, and nothing but another
write, its timer or a retry tap starts it.

**Calendar sync and turnover generation** (`inngest/functions/ical-sync.ts`,
`booking-events.ts`, `lib/turnovers/generator.ts`): durable steps, each retried from its
start with what it had written left behind; runs overlap; the generator keeps its rows
unique with partial indexes and upgrades a standalone turnover when the next stay
comes in. Correct when bookings converge to the feed, a stay is announced and
served, a crew whose clean is cancelled is told, and begun work is never undone.

**Integrations** (`lib/integrations`, `lib/cache/single-flight.ts`): a circuit
breaker shared by all instances on three Redis keys without transactions; OAuth
connections whose refresh token rotates, refreshed by sync jobs and a cron behind
a Redis lock that fails open. Correct when one trial request goes out at a time
and an open circuit tries again; when Vault is left with the token the provider
accepts, and an expiring connection is renewed or handed to a person.

**Invoices** (`api/invoices/[invoiceId]/checkout`, `api/webhooks/stripe`): sessions
created on demand, events claimed before they are handled and released on an
error, refunds under optimistic locks. Correct when refunds recorded never shrink,
credits are backed by refunds, and a paid session settles the invoice.

**The rest**: crew route handlers, dispatch, quotes and reminders,
subscription billing, dashboards, guidebook, marketing pages. `PROJECT.json` lists
each with its status, and under "hazards" the places that are hard to test.

## 2. How the models correspond to the code

### CrewOutbox

A mutation is its auto-increment id. `state` joins presence and the failed flag:
`none`, `live`, `dead` (failed itself) and `held` (held back; the code
tells the two apart by `lastError`). `owner` is the record (table and target id).
Each tab has a program counter: `idle`, `lock` (in `withTabLock`), `loop`,
`push` (awaiting `uploadOne`), `hold` (before the successors are read) and
`holding` (in their loop). One action stands for what happens between two awaits:

| code | actions |
|---|---|
| `enqueueMutation(Tx)`, `writeAndQueue` | `Enqueue` (row, freeze check and the kick) |
| `processOutbox`, `withTabLock` | `Kick`, `Wake`, `Snapshot`, `SkipPass`, `FinishPass`, `Abort` |
| the loop of `drain` | `BackOff`, `Send` |
| the request | `Accept`, `ApplyFirst` (applied, then an error from a second step), `Refuse`, `TimeOut`, `Disconnect`, `Straggle` (executed after the client gave up) |
| `pushOne`, `handleFailure` | `Confirm`, `Requeue`, `DeadLetter` |
| `holdBackSuccessors` | `HoldRead`, `HoldOne`, `HoldDone` |
| `retryFailedMutation`, `retryAllFailedMutations` | `Retry`, `ClearOne` |
| `discardFailedMutation`, `pruneExpiredDeadLetters` | `PickDiscards`, `DropOne` |
| sign-out | `Logout`, `RemoteShutdown`, `Wipe` |
| device | `GoOffline`, `GoOnline`, `Crash`, `Elapse` (a backoff runs out) |

A drain works from values its snapshot read: `seen` keeps the retry count, and
`todo` the ids, as the code does. What a mutation writes is abstracted to
its record: the server holds, per record, the id of the last write applied
(`latest`). History variables exist only to state properties: `landed`,
`abandoned`, `refusals`, and `intact`, the records whose order no step has
cost. `intact` loses a record in three cases only: a step leaves a live row exposed
behind a failed one (`Exposed`: a crash between dead-lettering and holding
back, a drain overtaking a retry loop); a lost request is executed after a
newer write of the record has landed (`Straggle`); a discard or prune deletes a
row that has become live again (`DropOne`). Nothing else may break the order,
and that is what the refinement says.

Left out: retry delays (a Boolean and the action `Elapse`), the network retry
count and sync incidents (monitoring), storage errors, browsers without Web
Locks, signing in again in the same document, and a tab crash after sign-out. A
blocked database deletion is a `Wipe` that comes late. The enqueue transaction
and the kick that follows it are one step, and so are the lock grant and the
snapshot.

### DeltaSync

One cursored table (turnovers). A row is one field, whose value is the number of the write
that put it there, so equality of values is identity of writes. The server
holds `val` and `stamp` per row and a set of open transactions: `updated_at` is
`NOW()`, the start of the transaction, and they commit in any order. The
assumption behind the ten seconds of overlap is explicit in `Tick`: no
transaction stays open as long as `Overlap`.

| code | actions |
|---|---|
| `writeAndQueue` | `Edit` (cache and outbox in one transaction) |
| upload, as `CrewOutbox` has it in detail | `Upload`, `Retire`, `FailUpload`, `RetryAll` |
| `discardFailedMutation`, `pruneExpiredDeadLetters` | `Discard`, then `invalidateCursorsFor` as `Rewind`; `Interrupt` is a reload between |
| `syncAssignedTurnovers` | `Begin` (cursor read), `Fetch`, `Overlay` (outbox read), `Put`, `ReadAgain` and `Advance` (`advanceCursor`), `Stop` (an error or a reload) |
| `pullTurnoversOnly` | `Refetch`, then `Overlay` and `Put` |
| everyone else | `Elsewhere`, `Commit`, `Tick` |

History: `overtaken` marks a pull under which another one has put rows or the
cursor has been moved, `pinned` the rows such a pull may leave behind, those
whose landed write was overwritten before its answer came, and those hit by a reload
between discard and rewind. `NothingElsePinned` says these are the only ways to
lose a row; `NothingPinned`, what the comments promise, is refuted.

Left out: the assignment scope and child tables (`ScopeSync`), chunked fetches, more than one discard at a time. Retry and
failure of uploads are single steps here because `CrewOutbox` has their awaits.

### ScopeSync

A row is the stamp of its version. A turnover has one row in each of the tables `turnovers` and
`checklists`; the instances and items of a checklist are one row, as one function pulls them in turn.

| code | actions |
|---|---|
| `fetchAssignedTurnoverIds` | `FetchScope` (`want` is `assignedIds`); `ReadLocal` (`localIds`) |
| `reconcileRemovedTurnovers` | `ReadChildren`, `ReadBusy` (`idsWithPendingWork`, `retained`), `DropRows`, `DropChildren`, in either order, `Reconciled` |
| `partitionByKnown`, `getCursor`, `fetchTurnoverRows`, `fetchWithCursorSplit` | `Request` (cursor read), `Fresh`, `Answer`, `Fetch` |
| `bulkPutShadowed`, `advanceCursor` | `Put`, `Advance` |
| `syncScopeReferenceData` | `Reference`: an await that may fail |
| `syncChecklistsV2` | `ReadList`, then the checklist half of the above |
| early returns, a reload | `Fail`, `Reload` |
| everyone else | `Work`, `Land` (an outbox write on a checklist), `Move` (assignments), `Change` (rows) |

History: `overtaken` marks a pull with rows in hand that another one has gone past, `severed` the rows
which a named step has cut off from the delta (an early end between turnover and checklist, a removal, a cursor moved
by a pull whose scope misses the row, an overtaken pull; a cached row is taken off again when a pull that nobody has
overtaken puts it in full, unless another pull in hand will not bring it and may move the cursor past it), `caught` the turnovers with work queued where a removal no
longer looks. `DeltaCovers` says that every other row of an assigned turnover is current or
will be brought by the delta; `NothingSevered` and `RowsOutlastWork`, without the exceptions, are what
the comments promise and are refuted.

Left out: queued writes over pulled rows, discards and the ten-second overlap (`DeltaSync`; rows
commit in the order of their stamps here), forced pulls, which no application code makes, the prune
of settled items, co-assignee names, crew-note isolation, several tabs. The full and the delta request of a fetch
are one step, and so are the read and the write of a cursor: in between a cursor can only be put back.
Work on the turnover row itself is retained without the children's read and is the easier case.

### Resync

A part is an entity with signals (turnovers, checklists, work orders) or `membership`: which
open work orders are still assigned, which only a reconciling pull sees. A pull brings the
server's version of a part.

| code | actions |
|---|---|
| `runCoalesced`, `runAction` | `Ask` starts a pull or sets `queued`; `Start`, `Settle` (run the follow-up) |
| `runV2` after the mount resync | `Boot`: triggers and channel; no channel, or nothing at all, when a step of it rejects |
| `fullCrewResync`, `syncAssignedTurnovers`, `syncWorkOrders` | `Fetch` one part; `Fail`: an early return or a throw, after which the part, or the rest, is not fetched; `Hang`: a request is never answered |
| database triggers, `handleSignal` | `Change` (a change and its broadcast), `Signal` (the debounce has run out) |
| `subscribeV2`, `scheduleV2Reconnect`, `retrySubscribeV2` | `Join`, `Subscribed` (the callback), `Drop`, `Reconnect` |
| `onlineHandler`, `visibilityHandler`, `installSafetyPoll` | `GoOnline`, `Visible`, `Tick` |

`spoiled` is history: parts whose news a failure has lost. `hung` are the pullers with a request that
is never answered: nothing ends one, since the browser's client has no timeout. What only such a pull would
fetch is excepted from `MissedIsFetched` (`Blocked`); `BackstopArrives` holds through hung signal pulls
and excepts only a hung resync, behind which every later poll waits. `Tick` waits until the light pull the
poll started, and its follow-up, are over or hang: two poll periods overlapping is not covered. Left
out: the v1 path behind the flag, unmounting, property assets (their pull is skipped while the
assigned properties stay the same) and inventory.

### PhotoQueue

| code | actions |
|---|---|
| the capture handler | `SaveBlob`, `AddRow`, `LoseRow` (the second write fails, or the tab goes) |
| `drainPhotoQueue` | `Begin`, `Take`, `MissBlob`, `Upload`, `Finish`; `Hang`: the upload is never answered; `Stop`: the tab is killed |
| `applyUploadedPath` | `ApplyPath` (the path into the target row and into the outbox) |
| `discardPendingPhoto` | `DeleteRow`, `DeleteBlob`, `KeepBlob` (the second deletion fails) |
| `recordPhotoFailure` | `Unreachable`, `Rejected`; `BackoffEnds` |
| `retryFailedPhotoUploads` | `Retry` |
| `pruneExpiredDeadLetters` | `ReadExpired`, `DeleteExpired`, `DeleteExpiredBlob`, `KeepExpiredBlob` (the deletion fails) |
| `pruneOrphanPhotoBlobs` | `FindOrphans`, `Collect` (a blob found without a row twice running), `CollectPart` (deletions fail, or the tab is killed) |

History: `pointed` (paths queued), `expired`, and `slow`: photos that two sweeps in a row met between
their two writes. The sweep takes their bytes, and `EvidenceIsKept` excepts them: the code's comment argues
from the poll interval that there are none, and coalesced resyncs or a second tab can undercut it (section 5).
`Wedged` is the other exception: an upload through supabase-js has no timeout, a hung one keeps the
tab's flag and the lock until the tab goes, and `PhotosArrive` promises nothing while that keeps every
drain from running. Sweeps follow one another; two tabs sweeping at the same instant is not covered.

### DashboardOutbox

One engine instance per tab; rows are sent in id order whatever their record.

| code | actions |
|---|---|
| `enqueueDashboardMutation` | `Enqueue` (row and kick) |
| `processOutbox`, `drain` | `Skip` (the lock is taken), `Snapshot`, `GiveUpOffline`, `BackOff` (stop, timer), `Send`, `Finish` |
| `scheduleRetry` | `ScheduleRetry`; `Fire` |
| the request | `Accept`, `Refuse` (retryable or terminal), `Disconnect`, `Straggle` |
| `handleFailure` | `Confirm`, `DeadLetter` (and go on), `Requeue` (and stop) |
| banner | `RetryAll`, `ClearOne`, `Discard` |
| device | `GoOffline`, `GoOnline`, `Reload`, `Elapse` |

A drain decides on what it read: `tries` and `held` are the retry counts and the rows in their retry window
as its snapshot saw them, which a retry tapped in another tab may have cleared since.

It implements `OrderedWrites` too: its `intact` loses a record when a dead letter leaves a later
row of the record exposed, or a request outlives its answer. `missed` holds the rows whose
kick nobody serves: dropped while the engine drains, offline, or the tab reloaded.

### FeedSync

| code | actions |
|---|---|
| `syncIcalFeed`, step by step | `Download`, `ReadExisting`, `Upsert`, `CancelAbsent`, `CancelTurnovers`, `Notify`, `Build`, `Fire` |
| a step that throws, or whose result is lost | `Throw` (before it wrote), `LoseBookings`, `LoseCrew` (after) |
| everyone else | `Publish`, `Unpublish`, `Pass` (a stay's checkout goes by), `CancelBooking`, `Generate` (the booking/detected handler), `StartWork` |

A retried step reads again what its own first attempt wrote (`Again`). History: `settled`
(announced or ever unconfirmed), `lapsed` (published stays a feed left out), `unheard` (crews
not yet told), `forgot` (what a lost result cost). Left out: block detection, date changes.

### Turnovers

A row is named by its booking columns, the keys of the two partial unique indexes:
`<<None, b>>` the standalone clean after stay b, `<<a, b>>` the clean between a and b.

| code | actions |
|---|---|
| `handleBookingDetected` (one run per property), a PMS sync's loop (no lock) | `Start`, `Fire`, `Throw` |
| `generateTurnoversForProperty` | `ReadBookings`, `LoadContext` |
| `runStandalonePass`, `insertStandaloneTurnover` | `InsertStandalone`, `ConflictStandalone` (23505) and then `Reread` or `RereadFails`, `DropStandalone` (any other error is passed over), `EndStandalones` |
| `runPairPass`, `upgradeStandaloneToPair`, `insertPairTurnover` | `Upgrade`, `MissUpgrade`, `DropRedundant`, `FailUpgrade`, `InsertPair`, `MissPair` (23505), `DropPair` (any other error) |
| everyone else | `Arrive`, `CancelStay`, `CancelTurnovers`, `Assign`, `Work` |

`Throw` ends an attempt: the handler runs the step again or, its retries spent, loses the event
(`GiveUp`; how many retries are left is open, so that it may come after any throw); a sync goes on
without. History: `fired` (turnover/created sent), `dropped` (stays whose insert failed, or whose
event was lost), `lost` (rows of an attempt that threw).

### CircuitBreaker

Each Redis request of each caller is a step, so that callers interleave key by key. A key is
the time it has left; `Tick` ages all keys and all requests in flight.

| code | actions |
|---|---|
| `evaluateBreaker` | `ReadFailures`, `ReadMarker` (two GETs, in either order), `Proceed`, `Skip`, `ClaimProbe`, `LoseProbe`, `FailOpen` |
| the client's fetch | `Succeed`, `Refuse` (a 4xx), `Fail` |
| `recordFailure` | `Incr`, `Expire`, `Open`, `Release` |
| `recordSuccess` | `ClearFailures`, `ClearOpened`, `ClearProbe` |
| errors | `FailOpen`, `GiveUp` |

The client is mapped at Hostex, whose wrapper the others share and whose calls last longest: up to three
attempts of 30 s, against 20 s for the claim and 60 s for the window. So `CallTime` is longer than both
in the run, and nothing relates it to them; a Kroger call (15 s) ends within its claim and is then
`Young` for all its life. `probing` says how a caller was admitted: as a `trial`, or `late`, by a claim made after the
marker it had read was rewritten. A clock unit does not pass between a caller's Redis requests.

### TokenRefresh

The provider knows one refresh token and an exchange consumes it, so every copy is `live` or
`dead`. There is no clock: the lock's TTL exceeds the provider call's timeout by ten seconds, so it lapses
only on a job that is gone, and the wait lasts as long.

| code | actions |
|---|---|
| `getValidHostexToken`, the cron | `NeedToken`, `Dispatch` |
| `refreshHostexTokenLocked` | `Acquire`, `LoseLock`, `Poll`, `PollFails`, `GiveUpWaiting`, `ReleaseLock`; `AcquireOpen` (Redis fails), `Lapse` |
| `refreshHostexToken` | `ReadRefresh`, `Exchange`, `ExchangeKeeps` (an answer without a refresh token), `Reject`, `ExchangeFails`, `StoreAccess`, `StoreRefresh`, `LoseToken` |
| the cron's handler | `Revoke` |
| `finalizeIntegrationConnection`, `disconnectIntegrationToken` | `Reconnect`, `Connect`, `Disconnect` |
| environment | `Expire`, `Killed` |

`mailed` is `reconnect_email_sent_at`: `Revoke` marks a connection only while it is unset. History: `excused`, a
granted token was lost or the user acted during a refresh; `unlocked`, a job went on without the key and the
section has not been empty since; `crowded`, the cron's refresh ran beside another writer's.

### InvoicePayment

| code | actions |
|---|---|
| `complete_work_order_via_token` | `Complete` |
| checkout route | `ReadInvoice`, `Reuse`, `CreateSession`, `StoreSession`, `MissSession` |
| Stripe | `Pay`, `GiveBack`; an event stays in `pending` until acknowledged, is delivered in no order, and again while a worker has it |
| webhook | `Claim`, `TakeUnclaimed` (the insert fails otherwise), `Duplicate`, `Ack`, `Throw` (claim released), `Die` (claim kept) |
| `handleWorkOrderInvoicePaid` | `MarkPaid`, `AlreadyPaid`, `PostExpense`, `SetCost` |
| `handleWorkOrderInvoiceRefunded` | `LookUp`, `Ignore`, `MarkRefunded`, `LoseRace`, `PostCredit`, `AdjustCost` |

`lost` and `missed` are history: payments whose delivery died, and payments whose handler threw after a
redelivery had been acknowledged as a duplicate. Amounts are whole units up to `Captured`, the invoice total plus the
card surcharge, of which Stripe reports the refunds. Nothing in the repository writes the status "cancelled".

## 3. Runs

Two TLC workers; the longest run takes about two minutes.

| run | instance | shows |
|---|---|---|
| `order` | 1 tab, 2 records, 3 writes, 1 retry, 2 faults, 1 crash, 1 tap | `TypeOK`, `FrozenBehindDeadLetter`, `KeepsOrder`, `OrderedUntilTap` |
| `tabs` | 2 tabs, 1 record with timeouts, 2 writes, 2 retries, circuit breaker at 1, 1 fault, 1 tap; fair | `DeadLettersWereRefused`, `SendsOnlyLiveRows`, `SignedOutIsInert`, `LiveRowsLeave` |
| `pull` | 2 rows, 1 pull, overlap 2, 2 writes, 2 ticks, 1 fault, 1 discard; fair | `NothingElsePinned`, `Converges` |
| `triggers` | turnovers and work orders, a reconciling poll every 2, 2 changes, 1 fault; fair | `MissedIsFetched`, `BackstopArrives` |
| `photos` | 2 photos of one item, 2 tabs without Web Locks, 1 fault; fair | `EvidenceIsKept`, `PointersResolve`, `PhotosArrive`, `OrphansGo` |
| `attended` | 2 tabs, 1 record, 2 writes, 2 retries, 2 faults, 1 reload, 2 taps; fair | `KeepsOrder`, `RowsAreAttended`, `AttendedRowsLeave` |
| `feed` | 2 stays, 1 known, the hourly and a manual sync, 2 changes, 1 fault; fair | `Converges`, `Detected`, `CrewIsTold` |
| `generate` | 2 stays, the handler and a PMS sync, 1 row taken, 1 upset; fair | `WorkIsKept`, `EveryStayIsServed`, `RowsAreAnnounced` |
| `calls` | 2 callers, threshold 2, window 3, probe claim 2, call up to 4, 2 faults; fair | `OneProbe`, `CounterExpires`, `OpenTriesAgain` |
| `refresh` | 2 sync jobs, the cron, the user, 2 faults, Redis may fail; fair | `OneRefreshAtATime`, `HoldsLiveToken`, `RevokedForAReason`, `RenewedOrReported` |
| `invoice` | 2 clicks, 2 workers, total 1 and surcharge 1, 2 refunds, 1 fault; fair | `CreditIsBacked`, `RefundsOnlyGrow`, `PaymentsAreHeld`, `PaymentsAreMarked` |
| `scope` | 2 turnovers, 1 assigned at first, the resync and the checklists signal, 1 change, 2 upsets; fair | `TypeOK`, `DeltaCovers`, `WorkKeepsItsRows`, `ScopeSettles` |

Other configurations are kept to print the counterexamples of section 5; they are run by hand:

| configuration | refutes |
|---|---|
| `CrewOutbox_crash`, `CrewOutbox_retry` | `ReplaysInOrder` |
| `CrewOutbox_prune`, `CrewOutbox_hang` | `RequeuedRowsAreKept`, `PushesEnd` |
| `DeltaSync_landed`, `DeltaSync_discard`, `DeltaSync_stale` | `NothingPinned` |
| `DeltaSync_revert` | `ShowsOwnWork` |
| `ScopeSync_stranded`, `ScopeSync_queued` | `NothingSevered`, `RowsOutlastWork` |
| `InvoicePayment_booked`, `InvoicePayment_redelivered`, `InvoicePayment_surcharge` | `PaidIsBooked`, `ThrownIsRetried`, `CreditNets` |
| `CircuitBreaker_probe`, `CircuitBreaker_slow` | `ProbeDecides`, `SlowProbeIsAlone` |
| `TokenRefresh_ceiling`, `TokenRefresh_unrevoked` | `RevokedOnlyWhenDead`, `RevokedUntilReconnected` |
| `FeedSync_overlap` | `CancelledOnlyWhenGone` |
| `Turnovers_stays` | `OneTurnoverPerCheckout` |
| `PhotoQueue_retake` | `NewestWins` |
| `DashboardOutbox_unattended`, `DashboardOutbox_overtaken` | `RaisedWhenOnline`, `NothingOvertakes` |
| `Resync_reassign` | `ReassignmentArrives` |

**Why the bounds are enough for the cases of interest.**

- `order`, `tabs`: ordering needs two writes of one record and a third queued while the first two
  are being held back, a second record to show that blocking is per record, and a crash or
  tap in the middle. Exclusion needs two tabs. With `MaxRetries` 2 a row goes
  through a transient refusal before its last one.
- `pull`: two rows, one to move the cursor past the other, one write on each side, a clock long
  enough for the overlap to expire. A second pull is only in `DeltaSync_stale`, a third write only
  in `DeltaSync_landed`; `NothingElsePinned` is proved for any number of both.
- `scope`: one turnover assigned from the start and one that can be, so that a pull sees a known and a
  fresh one; two upsets (an assignment and its withdrawal, or an assignment and a failure); a change that moves
  a cursor past the other row. Two pulls of the whole scope at once, with one change and one upset, pass the safety
  properties as well.
- `triggers`: two entities, so that a resync fetches one before and one after a change; a second
  change while the first one's pull runs. With all three entities, one change and two faults it passes as well.
- `photos`: two photos of one target overtake each other; two tabs race on one photo; a hung upload
  stops one of them. With Web Locks, where it stops both, it passes as well.
- `attended`: the second tab finds the lock taken, the second write the engine busy; a refusal leads
  to a backoff and the next one to a dead letter; with two taps a dead letter is retried while
  another row's drain still has its own reading of the queue. Three writes with one tap pass as well.
- `feed`: overlapping syncs, one stay to announce and one to cancel; a step fails before or after
  its write. Two changes publish and withdraw the same stay.
- `generate`: two stays make one pair; two generators race on each row.
- `calls`: the window is longer than the probe claim, as in the code, and a call may outlast both; one caller is the
  trial while the other goes from straggler to rival; the second fault can hit what the first left. Three callers pass the
  safety properties as well.
- `refresh`: the wait ceiling needs a holder, a waiter and a newcomer. The second fault can be a kill after a Redis error.
- `invoice`: two sessions, two refunds of one that arrive in either order at two workers, one of which may take
  a redelivery of what the other one is handling.

Each fault is counted so that its budget can be spent at any point of a run. Where a
cfg says `CHECK_DEADLOCK FALSE`, a bounded instance stops when its budgets are spent, and the
system does stop there: a signed-out device, an empty queue, a settled invoice.

**Fairness** is stated where the code has a timer, a retry or a scheduler that goes on:

- Crew outbox, `ClientFairness`: a tab's own steps are not suspended for good, the
  30-second interval and the backoff timers fire, a request with an `AbortSignal` times out,
  the sign-out broadcast arrives. `EnvironmentFairness`: the device comes back online, and a server
  asked again and again eventually accepts (strong fairness, since a request is
  not continuously outstanding).
- `DeltaSync`: pulls are started again and again by the safety poll, strongly fair because
  single-row re-fetches may keep the context busy; a pull that is not stopped continues; a
  discard rewinds; the server ends its transactions. That a pull goes on is assumed here and in `ScopeSync`:
  a request of it that is never answered holds up all that follow, which is `Resync`'s `Hang`, so `Converges`
  and `ScopeSettles` are promises of a device whose requests are answered or fail.
- `ScopeSync`: the safety poll starts the scope pull again and a started one goes on. Nothing is
  assumed of the checklists signal.
- `Resync`: pulls end unless they hang (`Hang` is a fault), debounce and reconnect timers fire, a join is answered while online.
  Nothing is assumed of the poll: `BackstopArrives` has it as a premise.
- `PhotoQueue`: the capture's second write, the backoff, the drains that the interval starts in every
  tab, a drain's next step while its upload is not one that hangs, and the sweep at the end of each
  resync, for which resyncs must end. Nothing ends a hung upload.
- `DashboardOutbox`: a drain goes on, a request is answered or fails, timers fire, a retry tap's
  loop ends. Nothing brings the device online and nothing reloads a tab.
- `FeedSync`: Inngest retries a step within its retries (`MaxFaults` stays below them) and the
  hourly cron comes again. `Turnovers`: a queued event is handled; a PMS sync that has
  started goes on, none has to start.
- `CircuitBreaker`: time passes; a caller's steps end. `TokenRefresh`: a job's steps, the lapse of
  a dead job's lock, the hourly cron, and the end of a connect the user has begun.
- `InvoicePayment`: Stripe delivers until acknowledged, to a worker that is free, and a handler goes on.

No fairness is given to people, refusals, crashes or faults.

**Symmetry** is used only in runs without liveness (`order`).

Every property of a passing run has a mutant: the model with one definition replaced by a
plausible bug (a lock that is not released, a probe claimed without NX, a refund written without
its optimistic lock, a sweep that collects at once, a follow-up pull that is forgotten, ...), on which
TLC reports the property violated. The mutated forms stand beside their originals in the modules,
under a comment "Faulty form".

## 4. Proofs

All constants are arbitrary: any number of tabs, records, rows, callers, jobs, stays, photos, events
and faults. The assumptions are the named `ASSUME`s of each module (bounds are naturals, names
are distinct) and the two stated below; TLC evaluates them in every run.

**Crew outbox.**

- **`TypeCorrect`**: `Spec => []TypeOK`. `TypeOK` is not inductive: a retry count
  stays within `MAX_RETRIES` only because the drain holds rows whose count had
  budget left when read, and ids stay in range only because rows below `nextId`
  are the only ones known to a pass, a push or a stray request. `TypeInv` adds
  that (`BudgetLeft`, `FreshIds`, `RowsKnown`, `StraysKnown`, `PassKnown`, `PushKnown`).
- **`FrozenTheorem`**: `Spec => []FrozenBehindDeadLetter`. **`SendsLiveTheorem`**:
  `Spec => SendsOnlyLiveRows`. Both come from `OrderInv`: one tab at a time is
  in a pass (`OnePass`, from the lock); what the pass still has to do is what is
  live, held back or discarded since the snapshot; the server's latest write of an intact
  record is older than everything still waiting in it (`LatestKnown`,
  `WaitingNewer`); stray requests are older too (`StraysOlder`). Most actions leave
  the variables these talk about alone or only take rows away; the frame lemmas
  (`OrderFrame`, `OrderRows`, `OrderWithin`) carry them, and the rest of the
  proof is one lemma per action.
- **`KeepsOrderTheorem`**: `Spec => KeepsOrder`. Initial states map to initial states
  and every step to an `OrderedWrites` step or a stutter (`PromiseStep`), with the
  further invariant that an "ok" answer means the write has landed (`AnswersLanded`).
  So, for every value of the constants: as long as a record's order has not been
  cost by one of the named steps, no older write is ever applied over a newer
  one, and a write leaves the device only after it landed or was given up.

- **`RefusedTheorem`**: `Spec => []DeadLettersWereRefused`. `RefusalInv` follows the attempts: a live row's count, the
  count a pass has read and the count it is about to write are all earned by refusals since the row was last queued
  (`CountEarned`, `SeenEarned`, `AnswerEarned`), and a row given up stays gone (`AbandonedGone`).
- **`OrderedUntilTapTheorem`**: `Spec => OrderedUntilTap`. `KeepsOrder` excepts the records whose order a step has cost, so one may
  ask what is left of it. This theorem has no such exception: until the first retry or discard, no write is answered "ok"
  over a newer one of its record, whatever crashes, signs out or straggles. `ReplaysInOrder`, which `CrewOutbox_crash` and `CrewOutbox_retry` refute,
  therefore cannot fail before one: a crash exposes a record, and only a dead row that comes back is sent over what went ahead of it.
  `Forward` relates every row that may still be sent to the server: nothing newer of its record has landed or may yet land
  (`NothingNewer`), and nothing live of the record is older but what the pass sends first (`PassForward`, `PushForward`).
  All the ways a write reaches the server share one lemma (`ForwardReached`).
- **`SignedOutTheorem`**: `Spec => SignedOutIsInert`, one case per action: each checks the tab's latch before it writes.

**Delta pull.** `DeltaTypeCorrect`, and **`NothingElsePinnedTheorem`**: with any number of pulls at
once, every stale row is one the next pull repairs, or one a named step has pinned. A commit
after a pull's fetch is stamped later than the fetch's clock less the overlap, so it is
above whatever cursor that pull can write. The invariant adds to the types how
writes are numbered (`Numbered`); that an unpinned row shows the server's value or lies above the cursor
(`Covered`); and, for each stage of a pull nobody has overtaken, that what it has asked for, fetched, rebased or
put is right for every row its cursor would pass (`Sound`). Everything outside the pulls changes a row only
by a commit stamped later than any such cursor (`Settles`), so those steps share one lemma.
**`CursorMovesForwardTheorem`**: with
one pull the cursor goes back only by a rewind.

**Dashboard outbox.** `DashboardTypeCorrect`: a retry count stays within its bound because a drain sends live
rows only (`DrainsLive`), and these have an attempt left (`AttemptLeft`). **`DashboardKeepsOrder`**:
`Spec => KeepsOrder`, the refinement of `OrderedWrites`. This engine does not hold a record back as the crew's
does; it reads the whole outbox once and stops at the first row that does not go through. So the invariant is about
what the drain has read: of a record whose order no step has cost, it has every row older than one it
still has (`DrainsClosed`), so the row it sends is the oldest (`PushedOldest`); a request that outlives its drain is then
the oldest too (`StraysOldest`), and what the server has is older than all that waits (`LatestOlder`).
`OrderFrame` carries the steps that leave the drains alone, `OrderWithin` those that take rows away.
**`RowsAreAttendedTheorem`**, what `AttendedRowsLeave` rests on: a live row whose kick was not lost (`missed`) has a drain that
still has it to do, a tab waiting for the lock, a retry timer or a retry tap to end in a drain. The engine drops every call
that finds it busy, so the invariant is about what a drain leaves behind on each of its ways out;
the further conjunct is that a tab that is not pushing holds no row (`HandsEmpty`).

**Assignment scope.** `ScopeTypeCorrect`. **`WorkKeepsItsRowsTheorem`**: a removal deletes no row of a turnover with
work queued, but for the work in `caught`. Its invariant says that no removal is about to take work it has had the chance to see (`Heeded`), and
that a pull holds rows to remove only while it looks and deletes (`Emptied`). **`DeltaCoversTheorem`**, for any number of
overlapping pulls of both kinds: every cached row of an assigned turnover that no named step has cut off is current,
or newer than the cursor, or on its way. `DeltaInv` says it of every cached row (`Covered`), that a pull fetches from a cursor that has only moved
on since (`Behind`), and per stage of each pull: what it has in hand is the server's or will be replaced by the
delta (`InHand`); a row it has asked for is not passed over by the cursor it will write, before its put (`Asked`,
`Missed`) and after it (`Stored`); and between its put and its cursor it goes past no other pull's rows (`Left`). Looking for the invariant corrected the model: the history `severed`
used to be cleared by any full fetch, also when a pull in flight was about to move the cursor past the row; TLC
found the state with two scope pulls, which the `scope` run does not have. **`UndisturbedTheorem`** shows that `severed` is no way out:
with one caller, no checklists signal, no failure and no reassignment, no row is ever cut off.

**Resync.** **`OnItsWayTheorem`** is what `MissedIsFetched` rests on, without fairness and without bounds: whenever
the device is online and lacks something of an entity, a broadcast, a pull in flight that does not hang, the pull queued behind it, the boot
or a join to be greeted will bring it, unless a failed or hung pull, a lost broadcast or a failed boot has cost it. A queued pull counts
because it repeats the one in flight, and the entity itself is among what either fetches (`WantsParts`);
asking takes nothing out of a pull (`AskFacts`); a pull that hangs had no more to do than a hung pull blocks (`TodoWanted`). **`ResyncTypeCorrect`**: a version stays within the bound because every change
is counted and a part's version is at most that count (`VersionsCounted`).

**Photos.** `PhotoTypeCorrect`. **`EvidenceTheorem`**: no bytes go while a row
needs them, but for `slow`, no row goes before its path is queued. `EvidenceInv` is `Typed`, `Kept` (a photo being queued has its bytes, and bytes
belong to a photo), `Drained` (a drain deletes bytes only after the row is gone, and the row only after
the path is queued) and `Swept` (what a sweep found twice can never be queued again, or is `slow`). **`PointersTheorem`**: what is pointed at is in the bucket
(`Resolved`: so is what a drain is about to point at).

**Invoices.** `InvoiceTypeCorrect`. **`RefundsOnlyGrowTheorem`** and **`CreditTheorem`** from `Refunds`:
no event reports more than Stripe gave back (`Reported`), only the session that paid has a refund recorded
(`OneIntent`), and a worker past its lookup holds an event of that session and an amount larger than it
read (`Locked`). **`PaymentsAreHeldTheorem`**, what `PaymentsAreMarked` rests on: once a session is paid the invoice is settled, or the
event is in hand, or is pending and no abandoned claim turns it away, or it was forgotten in one of the two ways
the route has (`lost`, `missed`). A session exists
once its request has made it (`Fresh`), only what Stripe has sent is claimed (`Genuine`), and a worker past its
first step works for a settled invoice and acknowledges the event it belongs to (`Kinds`).
**`BooksFollowTheorem`**: until something fails, the expense of a settled invoice is posted or its worker is about to
post it. `PaidIsBooked` is refuted, so the faults alone are to blame.

**Circuit breaker.** `BreakerTypeCorrect`, **`CounterExpiresTheorem`**, and **`OneProbeTheorem`**, which needs no more of
the constants than that a claim is no longer than the window. `Trials` says why one claim is enough: while a trial's claim would
live, either it is there, or the straggler that deleted it had in the same clock unit rewritten or deleted
the marker (`JustWritten`), and nobody finds that one elapsed before the claim would have lapsed (`Shut`).

**Tokens.** `TokenTypeCorrect`. **`OneRefreshAtATimeTheorem`**: until a job goes on without the key, whoever is in the
section set the key that is there (`Holders`), with any number of kills and lapsed keys. **`HoldsLiveTokenTheorem`**: there is at most one live copy (`OnlyCopy`), and
unless excused it is in Vault or in the hands of a job that will store it (`Somewhere`). It holds with
faults, and without mutual exclusion. **`RevokedForAReasonTheorem`**: a refresh of the cron that runs beside no other
(`Alone`) finds the live token, which nobody can consume meanwhile, so it is not refused (`Accepted`).

**Turnovers.** `TurnoversTypeCorrect`, **`WorkIsKeptTheorem`**: every step leaves each begun clean with a
begun row of the same stay (`Kept`, one case per action; the deletes and cancellations of the code are
conditional on the status, and the rekeying of a standalone keeps its stay).
**`StaysAreRememberedTheorem`**, what `EveryStayIsServed` rests on: a confirmed stay has a turnover, or its insert failed
or its event was lost (`SeenTo`), or its event is queued, or the handler's run is at that event and has the stay in its list or the list
to read (`InHand`). No step takes a stay's turnover away without leaving it
another (`StillSeenTo`): a row is rekeyed or replaced within its stay. `PassSeenTo` says that the stays the standalone
pass has gone by are seen to. The pass ends where no stay is its next; that none of the others needs a row either takes
the least of them (`LeastElement`, from the well-foundedness of the naturals).
**`RowsAreAttributedTheorem`**, what `RowsAreAnnounced` rests on: a row is announced, or a generator in flight will announce it, or the
attempt that made it threw.

**Feed sync.** `FeedTypeCorrect`. **`NewsIsHeldTheorem`**: however the runs of a feed overlap and fail, a stay that came in
and has not been announced is in the `new` of some run (`Announced`), and a crew that lost its turnover and has not been told
in the `crew` of one (`Told`), unless an attempt that failed after its writes has lost it (`forgot`); `Detected`
and `CrewIsTold` add that runs end. A run that upserts overwrites its `new` and one that cancels its
`crew`: both are empty by then (`HoldsWhileReporting`). A stay that a run has read as known was announced, or is
held by the run that brought it (`RowsLast`).

**Only model-checked**: the liveness properties, which are out of the prover's reach; for `AttendedRowsLeave`, `MissedIsFetched`,
`Detected`, `CrewIsTold`, `EveryStayIsServed`, `RowsAreAnnounced` and `PaymentsAreMarked` what is left to TLC is that the steps
the theorems above count on are taken. The types of `CircuitBreaker`, `TokenRefresh`, `PhotoQueue`, `InvoicePayment`, `Turnovers`,
`DashboardOutbox`, `DeltaSync`, `FeedSync` and `Resync` are proved and not checked again by a run.

## 5. Disagreements with the code's own comments, and faults

`PROJECT.json` lists all of them under "findings" with the quoted lines; those with a
configuration have a counterexample TLC prints.

On the device:

- `CrewOutbox_crash`: a tab reclaimed between dead-lettering a row and holding back the
  record's later ones lets a later write go first, and a retry replays the
  older one over it. `CrewOutbox_retry`: the same, when a drain starts in the middle of "Retry all".
- `CrewOutbox_prune`: a row re-queued while a prune or discard is under way is deleted unsent.
- `CrewOutbox_hang`: writes through supabase-js have no timeout, so an unanswered one stops the
  outbox, which `lib/http/timeout.ts` explains must not happen.
- `DeltaSync_landed`: a write that has landed and was overwritten before its answer came
  hides the newer value from a pull, whose cursor then passes it. `DeltaSync_discard`: the
  rewind after a discard is undone by a pull in flight. `DeltaSync_stale`: two pulls that are not
  coalesced put a row's versions in the wrong order. A pinned row stays wrong until it is
  written again: `forceFullCrewResync` would repair it, and no application code calls it.
- `DeltaSync_revert`: an edit between a pull's two transactions is taken off the screen.
- `ScopeSync_stranded`: a pull that ends between a new turnover's row and its checklist makes the turnover
  known, and the checklist is asked for as a delta from then on, which leaves out an older one.
  `ScopeSync_queued`: work queued after a removal has looked for it loses its rows.
- `Resync_reassign`: a signal's pull does not reconcile, so a work order reassigned away stays until
  the next reconciling poll.
- A pull that is never answered stops all later resyncs of the page, the backstop's included (`Hang` in `Resync`).
- A photo upload that is never answered wedges the photo queue of the device (`Hang`), and two sweeps within one
  capture take the photo's bytes (`slow`).
- `PhotoQueue_retake`: a retake is uploaded while the older photo backs off, and the older one then
  takes the pointer.
- `DashboardOutbox_unattended`: a row queued offline is not raised when the connection returns.
  `DashboardOutbox_overtaken`: a dead-lettered create does not stop the submit that depends on it.

On the server:

- `InvoicePayment_booked`: a retry of a payment event finds the invoice paid and posts no expense; the refund
  handler has the same shape. `InvoicePayment_redelivered`: a redelivery is answered 200 while the first delivery
  is being handled; when that handler then throws, the claim is released for a retry that never comes.
  `InvoicePayment_surcharge`: the owner is credited with the surcharge, which was never expensed.
- `CircuitBreaker_probe`: a failed probe does not re-open the circuit, the counter has expired.
  `CircuitBreaker_slow`: a call that outlasts its claim is joined by a second probe.
- `TokenRefresh_ceiling`: a waiter at its ceiling and a newcomer with the lock exchange the same token.
  `TokenRefresh_unrevoked`: a refused sync job puts a revoked connection back to `error`, and nothing marks it again.
- `FeedSync_overlap`: an older download cancels the stay a newer one has just inserted.
- `Turnovers_stays`: an upgraded standalone is generated again: two turnovers for one checkout.

## 6. Not modelled, and what is left

- Crew route handlers, dispatch, quotes, reminders: stateless checks around one insert or update each,
  or messages; their idempotency is a database constraint, and a model would only restate it.
- Sync incidents, demo readiness: written by the engines, read by screens, no feedback.
- Dashboards, guidebook, marketing, generated types: rendering and forms over server actions. They are
  by far most of the repository's lines, which is why the models stand for a small share of it.
- The v1 sync path: kept behind the flag for a rollback only.
- Subscription billing and the other providers' tokens repeat the claims and locks of
  `InvoicePayment` and `TokenRefresh`; where they differ, a finding says so.
- What the models take as external (Stripe, Inngest, Redis, browsers) are modelled from
  how the code uses them.

Next, in this order:

1. The vendor portal's use of the second engine, and its inspection photos.
2. `OrderedUntilTap` for the dashboard engine, and `CancelledOnlyWhenGone` for a feed whose runs do not overlap: the refuted properties,
   proved where they hold.
3. PMS webhooks and their deduplication against the reservation pipelines; work order dispatch.
