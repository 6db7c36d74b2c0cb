# Hotelia: specification, model checking and proofs

TLA+ modules of the parts of Hotelia that carry its state: the console's
offline queue and its flusher, the local broker, the door-lock bridge, the
event stream with the kitchen display, the folio ledger, the payment ledger with
its page, and the front office: room inventory, front desk and point of sale.
TLC checks them on small instances. TLAPS proves, for every value of the
constants, all safety and action properties that the passing runs check, and the
three refinements (section 5); liveness is TLC's alone. Source paths below are relative to the repository; `console/` stands for
`apps/console/src/main/` and `views/` for `apps/console/src/renderer/views/`.

Run from this directory:

    tlasany SyncEngine.tla
    tlc -config SyncSafety.cfg MCSyncEngine
    tlapm SyncEngineProofs.tla          # and the other *Proofs modules

`PROJECT.json` holds the index: components, runs, the source lines every
definition stands for, hazards, findings, the broken forms the properties are
tested with, and the theorems.

## 1. The system

| Component | Source | State it keeps | Operations |
|---|---|---|---|
| Offline action store | `console/offline/store.ts` | SQLite table `offline_actions` | insert, claimNext, markComplete, markFailed, requeueStaleProcessing, counts |
| Offline sync engine | `console/offline/sync.ts` | the passes under way, last probe, timer | start, enqueue, flush (probe, claim, deliver, settle), badge pushes |
| Packet ingress of the broker | `console/server.ts` POST `/packet` | token bucket, 60 s window of idempotency keys | rate limit, registry check, deduplicate, publish |
| Event stream and bus | `console/server.ts` GET `/stream`, `packages/events` | handlers on the bus, open responses | filter check, subscribe, publish, heartbeat, cleanup |
| Door-lock bridge | `console/hardware/lockBridge.ts` | a circuit breaker per encoder, retry timer, encodes under way | encode, persistOffline, drainRetryQueue |
| Console main process | `console/index.ts` | all of the above in one event loop | boot order, IPC, quit |
| Kitchen display | `apps/kds/app/page.tsx` | the cards on its board, one connection | connect and reconnect, handle frames |
| Folio ledger | `packages/database/src/ledger.ts`, `console/pms.ts` posPostCharge | PostgreSQL: folios, line items, transfers, business days | post, reverse, transfer, close the day, charge from the point of sale |
| Payment ledger | `console/offline/store.ts` 315-494, `views/Reconciliation.tsx` | SQLite table `mpesa_ledger`; the page's list, chips and busy flag | record intent, record confirmation (automatic match), manual match, list, summary |
| Room inventory | `packages/database/src/inventory.ts` | PostgreSQL: rooms, reservations, channel counters | atomicReserveRoom, lockChannelInventory |
| PMS reads | `console/pms.ts` | none | frontDeskBoard, posVerifyGuest, housekeepingTasks |
| Database loader, IPC wrapper | `console/db.ts`, `console/ipcWrap.ts`, `preload` | the client or the error of its first loading | getDb, isDbAvailable, wrapIpc |
| Console renderer | `App.tsx`, `views/FrontDesk.tsx`, `views/Pos.tsx` and others | the view, the configuration, the board, a page's form and busy flag | switch views, reload, check in, post a charge, refresh the board |
| The rest | guest app, channels, tax | static pages, stubs, pure functions | see section 7 |

How they interact. The renderer calls the main process over IPC. `sync:enqueue`
inserts a row and starts a flush pass; the pass POSTs the row to the broker, in
the same process, which publishes it on the bus; the open responses of
`/stream` are written to, and the kitchen display turns the frames into cards.
`lock:encode` drives a hardware encoder over TCP and falls back to a row in the
*same* table, which the bridge drains every 10 s. So three things share state:
flush passes among themselves, drains among themselves, and the two kinds with
each other. The ledger and the inventory are libraries on one PostgreSQL
database that several processes call at once; the pages of the console read and
charge the same reservations through `pms:*` and `pos:*`, and fall back to the
offline queue. The reconciliation page and its handlers are two processes joined
by a pipe each way; the handlers have no await, the page does.

What is hard, and what each component must get right:

* *Store and flusher.* Passes overlap (every enqueue, the 30 s timer and the
  boot start one and nothing excludes two); a POST is given up after 8 s and
  may arrive before, after or never; the process may die between claim and
  settle; a claimed row is only released by the next boot, and only when it is
  30 s old. Correct means: one holder per row, no row beyond its retry budget,
  nothing completed that was not published, nothing settled reopened, nothing
  lost, and nothing published again that the broker still remembers.
* *Broker.* Deduplicates for 60 s, in memory, which dies with the process; answers 202, 208, 400 and 429, of
  which the flusher takes only 202 for success.
* *Bridge.* A drain gives up the thread only at its encode; its failure paths
  claim again at once. The retry timer is started by a failed live encode only.
  Correct means: only a written card completes a row, a queued encode is
  written or given up, an open breaker always has somebody to retry.
* *Console.* Two consumers with no filter on the kind of row. Correct means the
  same guarantees for the two together, and that each leaves alone what is not
  its own.
* *Stream and display.* Lost connections lose frames and there is no replay.
  Correct means: a board that missed nothing is true, no frame is handled
  twice, the display always comes back to a stream that has subscribed it, and
  the handlers of dead connections leave the bus.
* *Folio ledger.* READ COMMITTED transactions that read, decide and then write.
  Correct means: balances add up, an item is reversed once, a closed day stays
  closed, the report of a day is complete.

* *Payment ledger.* The store links what it is told to link; the page may be
  left and opened again while a call is under way, and sends a fresh key each
  time. Correct means: matched rows are pairs of one price, a receipt is posted
  once, the page at rest shows the ledger, and its buttons come back.
* *Room inventory.* Two transactions want one row. Correct means: what an atomic
  seller would do, one at a time.
* *Front desk and POS.* Each click is several calls; each call may fail, the
  guest in a room changes between them, a board that comes late moves the page
  to another room, the clerk switches views. Correct means: a charge goes to a
  guest of the name and room that were typed, a key belongs to the room of its
  check-in, nobody is on the board twice, and success is said only of what is
  kept.

`PROJECT.json` lists the hazards one by one, at the line where each bites.

## 2. Modules

| Module | What it is |
|---|---|
| `OfflineStore` | the table and every statement on it, as operators from a table to a table |
| `LocalBroker` | POST `/packet`, one action per packet |
| `DurableOutbox` | abstract: an item is kept until it is done or has failed too often, and is sent at least once, again only after the receiver forgot it |
| `SyncEngine` | the flusher, its passes, the packets in flight, crash and boot; instantiates `LocalBroker`; `ImplementsOutbox` is the refinement |
| `LockBridge` | encodes, breakers and drains over the same kind of table |
| `SharedQueue` | abstract: items that two kinds of consumers finish or fail, one at a time, and only after what they ask for was done |
| `Console` | `SyncEngine` and `LockBridge` over one table and one thread; `ImplementsQueue` is the refinement |
| `EventStream` | connections of `/stream` and the bus |
| `KitchenDisplay` | the page that reads the stream; extends `EventStream` |
| `FolioLedger` | the transactions of the ledger, with the calendar and the night audit |
| `PaymentLedger` | the ledger table and every statement on it, as operators from a ledger to a ledger |
| `PaymentDesk` | the reconciliation page, the `payments:*` handlers and the pipe between them; extends `PaymentLedger` |
| `RoomSales` | abstract: a room goes to one buyer until it is vacated, a slot sells what it was allotted |
| `RoomInventory` | the two locking transactions, with waits, snapshots and failures; `ImplementsSales` is the refinement |
| `IpcHandlers` | what the handlers share: the database loader and the offline queue; extends `RoomInventory` |
| `PointOfSale`, `FrontDesk` | a page each, with the handlers it calls; extend `IpcHandlers` |
| `FrontOffice` | the window with both pages, next to the sales and the staff; extends both |
| `MC...` | instances for TLC: constants that need an expression, symmetry |
| `OfflineStoreProofs` | lemmas about the statements on the table |
| `SyncEngineProofs`, `LockBridgeProofs`, `ConsoleProofs` | theorems about the engine, the bridge and the two over one table; they use the lemmas |
| `FolioLedgerProofs`, `PaymentDeskProofs`, `KitchenDisplayProofs` | theorems about the module of that name |
| `FrontOfficeProofs` | first the inventory alone implements the seller, then the window with its pages next to it |

### How the modules correspond to the code

`OfflineStore`. A row is `[status, retryCount, payload, createdAt]`; keys are the
idempotency keys. `createdAt` is the rank of the insert, so rows of one
millisecond are told apart (in SQLite their order is undefined). `Claim` is the
one UPDATE of `claimNext`; `IsNext` its ORDER BY: pending before failed, oldest
first. `RequeueStaleProcessing` takes the set of rows old enough.

`SyncEngine`. JavaScript runs one callback at a time, so an action is what runs
between two awaits. A pass is `idle`, `probing` (await of the probe), `posting`
(await of the POST) or `answered` (the broker has handled the packet and its
answer is on the way). `AnswerReturns` settles the row *and* claims the next
one, as the loop body does. `PostTimesOut` is the 8 s abort: its packet goes to
`late` if the broker has not seen it. `Crash` may leave the table between the
settling statement and the next claim. `Boot` is `start()`.

`LocalBroker` and `SyncEngine` share the process, so `ProcessLost` empties the
window and fills the bucket. `repeated` is a history variable: the keys whose
event reached the bus more than once. `DurableOutbox` has it as `again`, and the
window as `known`.

`LockBridge`. A session is one activation of `encode()` or `drainRetryQueue()`.
`thread` names the drain that has the JavaScript thread: the failure paths of
`drainRetryQueue` contain no await, and one round of its loop is one step
(`DrainRejects`, `DrainEncodes`, `DrainEnds`) during which nobody else acts.
`cooled` says that a breaker's cooldown is over. `loopOn` is `retryTimer`.

`Console` conjoins the two: a handler of the engine acts only while no drain has
the thread, and `Crash` takes both down.

`EventStream` and `KitchenDisplay`. A socket has the state of the response
(`open`, `destroyed`, `ended`), its filter, whether the client still reads, and
the frames on the wire; a frame is the place of its event in `log`. `Cut` is
what `res.destroy()` or a dead process does to buffered frames: a prefix may
have got through. The page is `fetching`, `reading` or in `retry` (its 3 s
timer), as `connect()` is. A board maps an order to its column.

`FolioLedger`. Every function is a begin (its reads and refusals), where it reads
again a step of its own (`PickDay`, `SumItems`), and a commit (its writes): at
READ COMMITTED the writes of a transaction appear together (that a rollback
leaves none of them is PostgreSQL's part, and taken from it), and the row lock of
an increment is held to the commit. `posPostCharge` is serializable and one
step. Days are numbers; `MonthStart` gives them months, because postLineItem
moves a date with `setDate`. `Rollback` and `OpenToday` are external: the
database, and whoever opens a business day (no function of the repository does).

`PaymentLedger`. A ledger is the sequence of its rows in the order of
`recorded_at`; a row's id is its place. Method and amount together are the
price, and a receipt has one. The partial unique index on receipts is `IsTaken`;
a receipt under a second key is ignored by the insert, not found by the read and
makes `rowToPayment` throw, which is `ok = FALSE` and no change. Each recording
is a function from a ledger to the ledger after it and the answer.

`PaymentDesk`. `requests` and `answers` are the two pipes; a request is answered
in the order it was sent, because no handler awaits. `Promise.all` of list and
summary is one read: both are sent in one tick and nothing gets between them.
`mount` numbers the pages: a continuation of an earlier page sets no state.
`valid` says whether the schema takes what was typed.

`RoomInventory`. `Ask` is the SELECT ... FOR UPDATE, which takes the snapshot of
a SERIALIZABLE transaction; one that has to wait is told of a change of its row
by `stale` and then fails, as PostgreSQL does. `CommitRoom` and `CommitSlot` are
the writes. Who checks guests in and out and vacates rooms is external: the
repository has no function for it. `holders` is a history variable.

`IpcHandlers`. `loader` is the pair `db`, `loadError`: "bare" is a console
without `DATABASE_URL` that has not tried yet, and `getDb` latches how it ended.

`PointOfSale`, `FrontDesk`. A click is a record with a `pc` that says which call
comes next; a call and its handler are one step, the continuation the next, and
any of them may find the window gone. A board read is in a bag, with the room
its closure captured; `QueryRoomsLast` shows why the order of its queries
matters. `FrontOffice` has the shell: `Hydrate` (conf.get, once), `Navigate`
(a page's state goes, its calls go on) and `Reload` (they go too, but not an
open transaction).

## 3. Runs

| Run | Instance | Shows |
|---|---|---|
| `SyncSafety` | 2 rows, 3 passes, budget 2, ceiling 2, bucket 2, 1 crash, quick restarts allowed | type invariant, exclusive claims, completed implies published, badge right at rest, first attempts in order, settled rows final, refinement of `DurableOutbox` (the budget is kept, and an event is published again only after the broker forgot its key; that it *is* published again, see section 6) |
| `SyncLive` | 2 rows, 1 pass, ceiling 8, bucket 1, 2 crashes, slow restarts | no stranded claim; every action settles |
| `SyncRetry` | as `SyncSafety`, no crash | *violation*: the 208 of a retry counts as a failure |
| `LockDrain` | one room, 2 encoders (one unregistered), 2 drains, 1 live encode, threshold 2 | rows in hand, breaker and retry loop, completed implies written, the thread comes back, queued encodes settle |
| `ConsoleSafety` | an order and a key request, 1 pass, 1 drain, 1 encode, 1 crash | one holder, completed implies done, settled is final, refinement of `SharedQueue` (one budget), for both consumers together |
| `ConsoleKeyCard` | the same, ceiling 5, no crash | *violation*: the engine completes a queued encode, no card is written |
| `KitchenBoard` | 1 order, 3 events, 2 sockets, 2 faults | a board that missed nothing is true, frames move forward, the stream is restored, dead clients leave the bus |
| `KitchenShipped` | the page's real filter | *violation*: `order.cancelled` is not in the registry, the display never listens |
| `FolioSafety` | 3 transactions of any kind, 2 folios, 2 days | balances, repeats, closed days, reports, reversals |
| `FolioFrozen` | the same | *violation*: a charge is dated on a day that the night audit has closed |
| `PaymentDesk` | 3 bills (two of one price), 2 receipts, 5 forms, 2 mounts, 3 rows listed | pairs, matches are final, receipts, the page at rest, the buttons come back |
| `FrontOffice` | 2 buyers, 1 room, 1 slot, 1 click, 2 board reads, 1 reload | charges, keys, the board, acknowledgements; the inventory implements `RoomSales` |

Bounds, and why they are enough. Two rows are what exclusivity, order and
"one settled, one claimed" take; three passes let two collide while a third
claims. A budget of 2 has a first failure, a last one and the boundary; a
ceiling of 2 is reached with rows left, which is the only thing the ceiling of
500 can do; a bucket of 1 or 2 runs empty within a pass. One crash gives every
pair of lives; the second one in `SyncLive` adds a crash during recovery. In
`LockDrain` two drains overlap with a live encode on one breaker, and the
unregistered encoder and the other kind of row give each failure path.
In `ConsoleSafety` each side has one session, so that all of a pass, a drain, an
encode and a crash interleave; overlaps within a side are the business of the
other runs. `KitchenBoard` has two sockets, so that the broker still has the old
connection when the page is back on a new one; three events are a placing, a
move and one more to be lost, repeated or overtaken, and orders do not interact.
`FolioSafety` needs three transactions for a charge, its reversal and a third
that races either, and two days for a close with midnight in between; the
instance starts on the last day of a month.
In `KitchenBoard` the filter is the part of the page's that the registry
holds: with the filter as shipped nothing after the connect ever happens
(`KitchenShipped`), and the run is about what the page does once the names
agree. A filter holds at least one name: the broker takes an empty one for all
events.

In `PaymentDesk` two bills and two receipts of one price are what an ambiguous
match takes, the third bill has a price nobody pays; five forms record them and
leave one to repeat; the list is shorter than the ledger, so that a row drops
out of it. The page gets an operator id that the schema takes: as shipped it
sends `manual`, which is refused, and no manual match would ever happen (section
6). In `FrontOffice` one room with two buyers is the race for the last room, and
the guest that changes under a charge; one click at a time is all a busy page
allows, two reads overtake each other, and a reload cuts either off. The room
the page knows by itself and the board does not (`other`) is what moves the
selection. `Watched` is one guest, as the boards of two do not interact.

Every property of a passing run is also run against a broken form of some
modelled definition that must violate it; they are the definitions marked
"Broken" or "broken form" in the modules and listed under "mutants".

## 4. Fairness and conditions

`FairSpec` (SyncEngine): weak fairness of every pass that runs, because each
await ends (`AbortSignal` after 4 s and 8 s); of the timer, because `setInterval`
keeps firing; of the boot, because somebody starts the console again. The broker
owes nothing: no refill, no good answer. `NoStrandedClaim` and
`EveryActionSettles` hold under two conditions that are constants of the run:
restarts take longer than the 30 s of staleness (`PromptRestart = FALSE`), and
no pass reaches the ceiling. Without either the code strands a row
in PROCESSING until a later boot. Those two are hazards of their own that no
property covers; what `NoStrandedClaim` covers is a boot that misses a row.

`FairBridgeSpec`: strong fairness of a session's step, because an encode ends
within 5 s and the event loop runs each ready callback, although a drain that
takes the thread disables the others again and again; and of the timer that
starts drains. `QueuedEncodeSettles` is stated while the retry loop is on.

`KitchenDisplay`: weak fairness of the page's fetch, reads and timer, and of
Node's close events. Faults and publications are bounded and owe nothing, a
heartbeat need not fail.

`PaymentDesk`: weak fairness of the handlers, because the main process takes
what is sent, and of the page's continuations. Nobody has to click.

`FolioLedger` and `FrontOffice` have safety only: whether a transaction is
retried is up to its caller, and locks may time out.

## 5. What is proved

Every theorem is about the specification of its module, for any values of the
constants that meet the named assumptions of the modules, and each rests on one
inductive invariant. The properties of the runs are seldom inductive; what had
to be added is said below, because it is the reason why the code works. Every
invariant was checked by TLC on an instance of its module before it was proved.
What the assumptions ask is what the code gives: finite sets of keys, positive
limits, bounds that are numbers, values that mark an absence and are no member
of the set they are absent from, a key for every key request, one price for
every bill and receipt.

Each proof has a lemma per action (or group of actions with one effect), and
lemmas about operators that many of them cite: what a claim, a completion, a
failure and a requeue do to the table (`OfflineStoreProofs`), what the three
operations of a breaker keep, what a recording or a match makes of a ledger,
what a prefix, a tail or one frame more makes of a wire.

**`SyncEngineProofs`**, over `IInv`:

* `TypeCorrectness`, `ClaimsAreExclusive`, `BudgetIsKept`,
  `CompletionIsEarned`: the invariants `TypeOK`, `ExclusiveClaim`,
  `RetryBudget` and `CompletedWasPublished`. The budget has no place of its own
  in a run, because the refinement that is checked there fails with it;
* `SettledStaysSettled`: the action property `TerminalIsFinal`;
* `Refinement`: `Spec => ImplementsOutbox`. An event is published only while its
  key is not in the window; a crash, which empties the window, is a step that
  forgets, and that fails or finishes a row as well if it came after the
  settling statement;
* `BadgeIsTrue`: `BadgeTrueAtRest`. Inductive is: the badge is the status
  whenever no pass holds a row (a pass that lets go pushes what it leaves), and
  blank while the console is down;
* `OldestGoesFirst`: `FirstAttemptsInOrder`. Inductive is: until the first
  crash rows are numbered as they come, none was tried before an older one, and
  no row exists before the first boot;
* `NoThirdWayToStrand`: `NoStrandedClaim`, under the two conditions of section
  4, as hypotheses. They are not there to get the proof through: without either
  the code strands a row, and the theorem says that there is no third way.

The properties are not inductive together. That a completed row was published
needs that an `answered` pass whose answer is 202 has its key in `published`
(`AcceptedWasPublished`); that a claim is exclusive after a requeue needs that a
pass of a console that is down is idle (`DownIsIdle`); and a late packet must
name a row (`PacketsHaveRows`) for the refinement, which publishes submitted
items only.

**`LockBridgeProofs`**, over `LInv`: `BridgeTypeCorrectness`,
`DrainsAreExclusive`, `QueueHasItsLoop`, `CompletionIsOnACard`. Added: whoever
waits for an encoder has a request for a registered one (`AwaitsRequest`), a
session that was answered OK has its card (`OkMeansWritten`), and a drain runs
only while the retry loop is on (`DrainsHaveRetryLoop`): a drain that fails
opens a breaker without starting the loop, as a live encode does.

**`ConsoleProofs`**, over `CInv`: `OneHolderAlways`, `OneBudgetForBoth`,
`CompletionIsDeserved` and the action property `SettledStaysSettled`. The
engine and the bridge are instances here, and what is proved of an instance's
module cannot be cited; `SyncStatements` and `LockStatements` say that both mean
the same statements on the one table, and the lemmas about the table do the
rest. Added: rows in hand are PROCESSING (`HandsHoldRows`) and a console that is
down holds nothing (`DownHoldsNothing`): a boot requeues what nobody has.
`QueueRefinement` is `Spec => ImplementsQueue`: each step of either consumer is
one step of `SharedQueue` or a stutter. A claim and a requeue are stutters, since
the queue tells apart only what is open and what is done; a failure is `Fail`
because a row in hand is within its budget; a completion is `Finish` because of
what `CInv` says of the answer in hand. The one thing added (`QInv`) is that a
packet on the wire is of a row: it is kept because no queue step takes a row
away.

**`FolioLedgerProofs`**, over `FInv`: `LedgerTypeCorrectness`,
`OnlyOverlapsRepeat`, `ClosedDayRefuses`, `ReportCountsTheDay`,
`ReversalsCancel`, `BalancesAddUp`. `FInv` is one predicate for each transaction, `Orderly`: what
it saw had committed, it writes at its commit only, it would not repeat what it
saw done, it heeds the closes it saw, an audit that is past its reads counts at
least what it saw, a reversal is of the charge it read. A step of one
transaction leaves the others orderly because rows are never changed and closed
days stay closed.

`BalancesAddUp` is `BalanceIsAccounted`, over `AccountsInv`: on top of `FInv`,
the transfers recorded are those of done transactions (`TransfersAreDone`), so
that a commit adds a row to the sums and never overwrites one. The sums are
folds over sets, in no particular order. What `SumFunctionOnSet` gives for a set
with one element more is a lemma, and takes that the order does not matter; it
is proved without the library's induction (whose operator parameter the provers
cannot instantiate), from a smallest counterexample: proper inclusion is well
founded on the finite sets (`FS_StrictSubsetOrderingWellFounded`, `WFMin`).

**`FrontOfficeProofs`**. First the inventory alone, over `SalesInv`:
`SalesInvariance` and `NothingSoldTwice` (`InventorySpec => ImplementsSales`).
Who is about to write a row holds its lock and has read what the row holds
(`ReadersLock`), so a commit maps to `Reserve` or `Sell`: the refusals were
tested on the value that is still there. Every other step of a transaction is
a stutter, and declaring a room vacant is `Vacate`. Then the office, over
`OfficeInv`: `ChargeIsTheGuests`, `KeyIsForItsCheckIn`, `BoardShowsOnce`,
`SuccessIsKept` and `OfficeSells`, the refinement with the pages next to the
sales. A charge is right because a reservation, once made, keeps guest and room
(`BookingsKept`), so what a lookup found stays true until the posting. A guest
is not on a board twice because those whom the first query of a read has seen
in a room have arrived (`ReadsInv`) and arrive no second time, so the second
query does not list them; the argument turns on the order of the two queries.

**`PaymentDeskProofs`**, over `DeskInv`: `DeskTypesHold`, `MatchesHold`,
`ReceiptsHold`, `PageHolds` and the action property `MatchIsFinal`
(`MatchesAreKept`). The ledger is `Sound`: a receipt is one row, and
matched rows are partners. The store checks nothing when it is told to match by
hand; the match is safe because of the page. A page has one call under way
(`CallsAlone`), answers come back in the order in which pages asked (`InOrder`,
`EarlierFirst`), an answer to a read that nothing is going to follow is what the
ledger holds (`ReadsAreTrue`), so an idle page with rows on it shows the ledger
as it is (`ListIsTrue`) and what its operator ticks is unmatched and of the
kinds it says (`MatchesAreSafe`).

**`KitchenDisplayProofs`**, over `KitchenInv`: `FramesAreInOrder`
(`FramesMoveForward`) and `BoardIsTrue` (`CompleteBoardIsTrue`). Frames on a
wire are in the order of the log and of names the filter wants, and what has
been handled is behind every wire the page may still read (`SeenIsBehind`). That
there is a last placing of an order among the events seen would take induction;
`LastPlacement` carries it through the behaviour instead, and
`BoardFollowsFrames` says that a card is where the frames since then put it.
`KitchenDisplayAssumption` asks for a filter that is not empty, because the
broker takes an empty one for all events, and that holds only names for which
`handleFrame` has a case.

Only model-checked: `EveryActionSettles`, `ThreadIsReleased`,
`QueuedEncodeSettles`, `StreamIsRestored`, `GoneClientsLeaveTheBus` and
`BusyEnds`. They are liveness, whose fairness has ENABLED in it.

No module that is proved about reaches a RECURSIVE operator.

## 6. Findings

| Where | What | Run |
|---|---|---|
| `apps/kds/app/page.tsx:36` | the display's filter has a name the registry does not hold, so its stream is ended at once, forever | `KitchenShipped` |
| `console/offline/sync.ts:51` | 208, the answer to a safe retry, is not in `HTTP_OK` | `SyncRetry` |
| `console/offline/sync.ts:46` | the flusher delivers and completes queued encodes as events | `ConsoleKeyCard` |
| `console/pms.ts:409` | a charge is dated today even when today is closed | `FolioFrozen` |

Further divergences met while modelling, without a run of their own:

* `console/offline/store.ts:219` says that "a crash mid-delivery cannot
  double-send", and `console/offline/sync.ts:12` that the backend "can dedupe
  post-retry and across restarts". Neither holds. The window of keys is a `Map`
  in the process that crashes (`console/server.ts:160`). In `SyncEngine`, with
  the constants of `SyncSafety`, the broker publishes and answers 202, the
  process dies before `markComplete`, the boot requeues the row, the window is
  empty, and the packet is published again: `repeated` holds its key. No crash
  is needed either: an answer that is lost, and a retry that comes after the
  60 s of the window, publish twice. `ImplementsOutbox` does not hide it
  (`again` is the second publication) and says how far it goes: an event is
  repeated only after the broker forgot its key. What is on offer is delivery at
  least once, so whoever reads the bus must bear repetitions.
* `packages/database/src/ledger.ts:75`: `assertBusinessDayOpen` reads before the
  transaction that posts and outside it. In `FolioLedger` an audit that commits
  in between closes the day, and the posting commits on it afterwards: this
  violates `ClosedDayIsFrozen` with no charge of the point of sale in it (the
  finding is the shorter way). `ClosedDayRefusesGuardedWrites` is what remains:
  a guarded write that begins after the close has committed is refused.
* `views/Pos.tsx:102` tells the clerk of a queued order that the "barrier
  re-runs when DB is online". Nothing does that: the flusher posts the row to
  the broker as an event and completes it, and no charge reaches a folio. In
  `AcknowledgedIsKept` a queued order is kept in the sense that its row is in
  the queue, no more; and a key that was said to be encoded was handed to the
  bridge, whose model says what becomes of it.
* `console/pms.ts:192`: the board reads arrivals after rooms and outside any
  transaction. A guest whose check-in commits in between is no longer an arrival
  and not yet in the rooms: the board shows them nowhere until the next read.
  The order of the queries is the better one, since with the other a guest is
  shown twice (`NobodyShownTwice`, `QueryRoomsLast`).

* `console/hardware/lockBridge.ts:356`: the key of a queued encode leaves out
  the credential, so a second request for a room is answered `queued_offline`
  and kept nowhere; :25 calls the exact request durable. In `LockBridge`, with
  two credentials for one room, a promised request is then in no row and on no
  card.
* `console/hardware/lockBridge.ts:363`: the bridge inserts, completes and fails
  rows without a push, which only the sync engine makes; `console/offline/sync.ts:15`
  says that the badge never drifts from the disk. In `Console` a failed live
  encode leaves the badge behind the table with everything at rest;
  `BadgeTrueAtRest` is of the engine alone.
* `packages/database/src/ledger.ts:84` moves the posting date by the day of the
  month only, while :83 says that posting happens on the active day. In
  `FolioLedger` a posting that took its date before midnight, with the first of
  the next month opened meanwhile, is dated on the first of the month that has
  ended (`PickDay`).
* `console/hardware/lockBridge.ts:401`: "put it back for the sync engine" fails
  a row up to its last retry in one go. The models of `LockBridge` and `Console`
  have it; `ThreadIsReleased` and `ImplementsQueue` bound it.
* `views/Reconciliation.tsx:140` sends `operatorId: 'manual'`; the schema
  (`packages/shared/src/validators/index.ts:176`) wants a UUID, so "the
  accountant decides those by hand" (`console/offline/store.ts:402`) cannot
  happen from the page.
* A receipt recorded again under a fresh key is not the idempotent success of
  `console/offline/store.ts:358` but an error; the first recording stands. The
  row that `recordConfirmation` returns names itself as its intent (:411).
* `packages/database/src/inventory.ts:42`: the second transaction does not
  re-read the row, it fails to serialize and is not retried. The first half of
  the sentence, that no overbooking is written, is what is proved. Dates are not
  compared: a room is taken from the booking on, whenever the stay is.
* `renderer/App.tsx:156` reads `dbAvailable` once, before `getDb` has tried: a
  console without a database is told that it has one, and its orders end in
  errors, not in the queue.
* `apps/guest/public/sw.js:29`: on activation the worker deletes every cache but
  `hotelia-guest-v1`, a name no cache has; the shell that `install` cached in
  `hotelia-guest-v1-static` is gone. Line 2 promises an offline-first app shell.

## 7. What is not modelled

* In the modelled parts: pause and resume of a breaker (no caller), the display
  flag `online` of a device, requests that name an unknown device in `encode()`
  (no effect), a write an encoder makes after its request was given up, rows
  of the same millisecond, loss of committed rows on power failure
  (`synchronous=NORMAL`), token checks and CORS, frames split
  over chunks, the split of an amount into net and tax, audit log rows, several
  hotels in one database, unmounting the kitchen page; a receipt typed with
  another amount the second time, `markEtims` (no caller), totals of the day; a
  room or slot that does not exist, several stays in one room at once; the room
  that the command palette asks for while another view is shown (its event is
  dispatched before the page listens).
* `housekeepingTasks` and the pages Housekeeping, Settings and Revenue: reads
  that nothing acts on. Messaging and WorkOrders are static.
* Window control, shortcuts, toasts, the title bar: no state of the hotel.
* Guest app and channel stubs: no state of their own. Validators beyond those
  named in section 2, and the tax split: pure functions of their input.

## 8. Plan

Modelled, in this order: `OfflineStore`, `LocalBroker`, `DurableOutbox`,
`SyncEngine`; `LockBridge`; `Console` and `SharedQueue`; `FolioLedger`;
`EventStream` and `KitchenDisplay`; `PaymentLedger` and `PaymentDesk`; `RoomSales`
and `RoomInventory`; `IpcHandlers`, `PointOfSale`, `FrontDesk`, `FrontOffice`.
Proved: the safety of all of them (section 5).

What would come next:

1. `PaymentDesk`: an abstract ledger that is told of bills and receipts and
   pairs them off, implemented by the page with its pipes. Its safety is proved
   in the form of `MatchesArePairs`, `MatchIsFinal` and `ReceiptPostedOnce`.
2. The hazards that no property covers. Three the models have, and break
   (section 6): the key without a credential, the badge and the bridge, the date
   across a month. Two it also has and excludes by a condition (section 4): a
   restart within 30 s (`console/offline/store.ts:272`) and the ceiling of a pass
   (`console/offline/sync.ts:100`). For the others the code promises nothing or
   the part is not modelled: the retry loop after a restart
   (`console/hardware/lockBridge.ts:387`), the operator id of a manual match
   (`views/Reconciliation.tsx:140`), repeated clicks (`views/Pos.tsx:76`), the
   configuration read once (`renderer/App.tsx:156`) and the worker of the guest
   app (`apps/guest/public/sw.js:29`).
