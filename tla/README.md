# A TLA+ model of tokohobby-orders

The specifications in this directory model the order service of this repository: what
happens to orders, stock, caches, events and HTTP answers when requests run concurrently,
answers are lost, other services change and processes die. TLC checks the models on small
instances; TLAPS proves the most important safety properties for every instance. `PROJECT.json` lists every
run, the lines each definition models, the hazards and the findings.

## 1. The system

The service is a Go HTTP server (`cmd/web`) with two companion worker processes. It owns
two PostgreSQL tables and calls four other systems.

| component | state it keeps | operations | talks to |
|---|---|---|---|
| tables (`db/`, `internal/pkg/db`, `internal/repositories`) | rows of `orders` and `order_items` | the generated SQL statements | PostgreSQL, at READ COMMITTED, pool of 100 connections |
| service core (`internal/services/order_svc.go`) | none of its own; local variables of a request | `CreateOrder`, `CancelOrder`, `UpdateOrderStatus`, `MarkOrderAs...`, two reads, `ResetAllOrderCaches` | tables, catalog and account services (gRPC), Redis, publisher |
| catalog service (external) | stock | `DecreaseStock`, `IncreaseStock`, `GetProducts` | called by the core |
| caches (Redis) | `orders_user:<user>`, `order_items:<order>` | Get, Set with a time to live, Del, Scan | core, and goroutines it starts |
| publisher (`internal/messaging`) | none | one method per event | RabbitMQ exchange `order.events` |
| email and history workers (`cmd/worker`) | none | declare a queue, handle a message, acknowledge it | RabbitMQ queues |
| HTTP layer (`internal/handlers`, `internal/delivery`) | none | bind, authenticate, map errors | core, account service |
| start-up (`cmd/web`, `internal/configs`, `db/postgres.go`) | connections | sequential | all of the above |

What is hard:

* **A gRPC call inside a database transaction.** `CreateOrder` calls `DecreaseStock` and
  `CancelOrder` calls `IncreaseStock` between their statements and their commit. Two
  systems change and only one can be rolled back. The client may leave, a deadline may
  pass, an answer may be lost, a commit may fail or succeed without an answer.
* **Row locks over network calls.** A cancellation locks its order while the catalog works.
* **Goroutines started after the commit**: an event, a Del, a Set. They run in any order,
  and die with the process.
* **Cache-aside reads** whose Set may land after the Del of a change they have not seen.
* **At-least-once delivery** to five concurrent workers, from a queue that exists only once
  its worker has run.
* **Other services' data shown with one's own**: an order is stored with prices and sellers of
  its day and shown with the products and accounts of today.
* **A start-up that goes on after an error**, and migrations that can be killed half-way.

What makes each part correct: a visible order is backed by units the catalog set aside,
in the same quantities; units come back once; nothing is oversold; a cancelled order stays
cancelled; every request ends; a cached list was once true and does not stay wrong for
ever; nobody is told of a change that was not made, neither by an event nor by an HTTP
status; a refund is announced once; what is shown of an order adds up to what was paid; the
server listens only on a complete schema.

## 2. The modules

| module | models | state and actions |
|---|---|---|
| `OrderTable` | `internal/pkg/db/*.sql.go` | no variables: rows, the WHERE clauses (`Cancellable`, `Updatable`), what statements return |
| `OrderLedger` | nothing in the code: the abstract promise about stock | `Hold`, `Open`, `Release`, `Close` |
| `OrderLifecycle` | nothing in the code: what a reader of committed rows may see of an order | `Place`, `CancelBy`, `Set` |
| `OrderSaga` | `CreateOrder`, `CancelOrder`, `UpdateOrderStatus` against database and catalog | `pc`/`call` = where a request's goroutine is and its locals; `rpc` = its gRPC call as the catalog sees it; `orders` = committed rows; `stock`; `ledger` = history of what the catalog did |
| `OrderService` | the same methods from their first statement to the publish of their event, in a process that may die | `OrderSaga` plus `due` = methods about to start a goroutine, `outbox` = goroutines about to publish, `log`, `told`, `lost` = history |
| `OrderEvents` | events of every service method, `MarkOrderAs...`, the email and the history worker | `serving` = calls; `outbox`; `declared`, `queue` = the broker; `held` = workers; `log`, `told`, `lost`, `emails` = history |
| `OrderCache` | both read paths, `InvalidateCachesForOrderChange`, `ResetAllOrderCaches` | `cache` = Redis; `reading` = a reader between Get, query, gRPC calls and Set; `wrote` = goroutines with a Del to send; `sweep` = the SCAN loop |
| `OrderAssembly` | how an order is put together from a cart and shown again | no variables: carts, rows, totals, stock items, the two views |
| `OrderHttp` | start-up and death of the web process, middleware, routes, handlers, error mapping, reads over a changing catalog | `server`, `conn`, `schema`, `exchange` = the process; `catalog`, `accounts` = other services; `input`, `at`, `code`, `work` = requests; `placed` = orders; `stored` = what readers cached |
| `OrderSagaProofs`, `OrderServiceProofs`, `OrderEventsProofs`, `OrderCacheProofs`, `OrderHttpProofs` | theorems about `OrderSaga`, `OrderService`, `OrderEvents`, `OrderCache`, `OrderHttp` | |
| `OrderHttpAmounts` | theorems about the amounts of `OrderHttp` and `OrderAssembly` | |
| `SumTheorems` | nothing in the code: lemmas about sums over finite sets | |
| `MCOrderSaga`, `MCOrderService`, `MCOrderCache`, `MCOrderHttp` | values of constants and symmetry sets for TLC (`OrderEvents` needs neither) | |

The models cut the system where its parts can be told apart by what they see of each other.
`OrderSaga` has the statements, locks and gRPC calls of a transaction. To everybody else a
transaction is one step, so `OrderCache`, `OrderEvents` and `OrderHttp` take it as one. That
this is right is not assumed. `OrderSaga` implements `OrderLifecycle` (run `saga_all_faults`
and theorem `LifeOfOrders`), and so do the four others (theorems `ServiceLife`, `EventsLife`,
`WritersLife`, `HttpLife`): whichever module one reads, an order lives the same life.
`OrderService` implements the service half of `OrderEvents` (`RefinesEvents`, run `service` and
theorem `EventsAreImplemented`), with statements, deadlines, lost answers and crashes below;
and while its process lives it is `OrderSaga` (`ServiceIsSaga`).

**How `OrderSaga` follows the code.** A request waits in `begin` until the pool has a
connection (`ConnFree`; `db/postgres.go` sets the bound). `CreateBegin` is the transaction,
the inserts and the sending of `DecreaseStock` (lines 154-174); nothing it inserts can be
seen, so `orders` changes only in `Commit`. `CancelBegin` reads the items (413), before
`CancelRow` runs the UPDATE (418), which waits for the row lock, fails when no row matches,
and otherwise sends `IncreaseStock`. `HoldsRow` is the lock of that UPDATE until the
transaction ends. `BreakOff` is every way a handler can stop once its call is out: client
gone (the request's context rolls the transaction back), answer lost, commit failed,
process dead. It leaves `rpc` as it is, so the catalog may still act on the call.
`IncreaseTimesOut` is the deadline of ten seconds. `TurnAway` is every earlier return.

**How `OrderService` follows the code.** It joins a committing step of `OrderSaga` with what
the method goes on to do: `Answered` (the method continues to the `go func()`) or `Unanswered`
(the error of the commit is returned and the event never exists). `Crash` ends every request
and every goroutine at once, while the catalog may go on with the calls it was sent.

**How `OrderEvents` follows the code.** `Change` commits, `Spawn` starts the goroutine,
`Publish` reaches the broker. An event carries the number of the change it tells of, which
is history and not part of the message. `Start` is a worker declaring its queue for the first
time: before that, `Publish` drops a status change, as the broker does with an unroutable
message that is not mandatory. What the queues are bound to is taken from the comments of the
workers ("consume ALL status changes"; "selective binding (paid & delivered only)"), because
the bindings are made by a library that is not part of this repository.

**How `OrderCache` follows the code.** `Lookup`, `Query`, `Enrich`, `Store` are the four
stages of both reads. A list shows the status of each of the user's orders; an item view is
the set of products shown. `ResetBatch` is one SCAN and its Del; `ResetTurn` relies on what
Redis promises of SCAN, that a key present all the time is returned by the time the cursor
is 0 again.

**How `OrderAssembly` and `OrderHttp` follow the code.** A cart is a list and may name a
product twice. `CartError` is the loop of `CreateOrder` (107-115), which returns the first
error; quantity 0 stands for every quantity the code refuses (`<= 0`). Prices are counted in
parts of a cent (`Parts` of them), because the two amounts of an order are rounded apart from
each other: `LinesOf` is the loop with the prices as the catalog gave them, `RowsOf` stores each
of them with two decimals (133), `TotalOf` adds up what is not rounded and rounds the sum (146);
`TwoDecimals` is that rounding and `Fits` the columns both must fit. `Parts` is odd, so that no
amount lies halfway between two cents. `Parsed` is `uuid.Parse` with its error thrown away
(122-123): an id outside `Uuid` is stored as `Nil`, although `DecreaseStock` was sent the id of
the cart. The list of orders is built from the stored rows
(`ListView`); the items of one order are matched against the catalog's seller while accounts
were asked for by the stored seller (`ItemsView`), as `assembleOrderItems` does. `Connect`,
`Migrate` and `Broker` are the steps of `main` that can fail; a failed ping goes on with a nil
handle, and a request that then needs the database panics (`Panic`: no recovery middleware is
installed, so `net/http` closes the connection). `AuthMiddleware` answers by what the header
and the account service yield; `Refusal` is what the handlers check, in their order; the
`handle...Error` operators are the two switches of `respond.go`. `ReadLookup` answers from the
cache any view that a reader has stored before, which covers every invalidation, expiry and
sweep. The handlers of `UpdateOrderStatus` and `MarkOrderAs...` and `RequireRoles` have no
route and are not in `OrderHttp`.

## 3. The runs

Names of bounds: `Request`, `Writer`, `Reader`, `EmailWorker`, `HistoryWorker` bound how many
calls and goroutines there are (each request and writer acts once, readers and workers for
ever); `MaxDeaths` bounds the deaths of worker processes, a lost connection
to the broker counted as one; `MaxChanges` bounds how often the
catalog or an account changes; `Faults`, `Losses`, `Lossy` switch faults on; `MaxOpenConns`,
`MaxPrice`, `MaxTotal` are the code's own bounds, made small; `Parts` is
how finely prices are told apart. The web process may die and start
again without bound.

| run | instance | shows |
|---|---|---|
| `saga_calm` | 4 requests, pool of 2, no faults, catalog answers | `StockConserved`, `EveryRequestEnds` |
| `saga_create_faults` | 4 requests, 2 users, creations break off | `IInv` (the inductive invariant), `RestockedOnlyByCancel`, `NeverOversold`, `RefinesLedger` |
| `saga_all_faults` | 4 requests, 2 users, everything breaks off | `TypeOK`, `StockBacked`, `CancelledMeansRestocked`, `OrdersOnlyMoveForward`, `CancelsOnlyPendingOrderOfCaller`, `RefinesLifecycle` |
| `service` | 3 requests, 2 orders, catalog may hang, process may die, publish may fail | `ServiceTypeOK`, `AnnouncedIsDone`, `RefundsAccounted`, `RefinesEvents`, `CancelEnds`, `ChangesAreAnnounced` |
| `events` | 3 calls, 2 email workers, a history worker, 1 death, crash, failing publish, lost answers | `TypeOK`, `EventsTellCommitted`, `RefundedAtMostOnce`, `NewsAccounted`, `RepeatedOnlyByDeath`, `FailedCallsAreSilent`, `HistoryHearsNothing`, `EveryChangeIsEmailed` |
| `cache_live` | 3 writers, 1 reader, 2 users, a status update, Redis loses commands | `TypeOK`, `CacheShowsThePast`, `CachesCatchUp` |
| `cache_quiet` | 2 writers, 2 readers, 2 orders, nothing lost, no status updates | `StaleHasCause`, `ResetEvicts` |
| `http` | 3 requests, 3 products (one whose id is no uuid), 2 sellers, 2 users, 1 outside change, 5 carts, prices in thirds of a cent, requests with one thing wrong | `TypeOK`, `ViewsAddUp`, `MissingHasCause`, `WrongSellerHasCause`, `StockBothWays`, `SuccessIsTrue`, `RefusedMeansUntouched`, `ServingIsReady`, `SilenceHasCause` |

Why the bounds are enough for the cases of interest. Four requests are two creations and
two competing cancellations or updates, which is where every race in `OrderSaga` lives, or a
creation that sells the units of a cancelled one again. In `saga_calm` two transactions fill
the pool. The stock (two units of one product, one of the other) covers one order and not the
second, so that refusals, exhaustion and resale all happen; the two carts overlap in one
product. In `service` and `events` three calls are a creation and two changes, so two
cancellations, or a cancellation and an update, compete while the process dies. Two writers
and two readers let an old Set land after a Del and another Set; three writers are the
creation, update and cancellation of one order. In `http` three requests are a creation, its
cancellation and a reader, or a creation and two readers, the second of which may be answered
from the cache; a single outside change can fall between any two of their steps. The carts
include a product twice, both sellers, nothing at all, a zero quantity and an amount that is
too large; a price of four thirds of a cent is rounded down and one of five up, so that items
come to less than their total, to more, and to just as much. The product whose id is no uuid is
bought with two others. Symmetry is used only where no order on the values is used, and in no liveness run.

**Fairness.** `FairSpec` of `OrderSaga`: the steps of a handler are weakly fair, because the
Go scheduler runs every goroutine and a statement on a free row is answered; the catalog is
fair. `FairServiceSpec`: the catalog is not fair and may hang for ever; the deadline in the
code (line 431), the handlers and the goroutines are fair. Its pool is as large as the number
of calls, since a creation with a hung catalog keeps its connection until its client leaves.
Weak fairness is enough for a handler that waits for the pool or for a row: in these instances
another request cannot take the same thing for ever, since every request is made once.
`OrderCache`: invalidation goroutines, readers and expiry are fair (entries have a time to
live); writers are not. `OrderEvents`: goroutines, publishing and workers are fair (a publish
may fail instead); calls, crashes, deaths and the first start of a worker are not.

Deadlock is checked in the saga, service and http runs (`Idle`, or the death of the process,
is always possible there). It is off in the cache and event runs: their writers and calls are
used up in the end.

**Findings.** Four runs are expected to end in a violation of what the code says of itself:

* `saga_cancel_rollback`: "order cancellation rolled back" is reported although the catalog
  may have restocked. The next cancellation restocks again; `RestockedOnlyByCancel` is
  therefore claimed only where no cancellation breaks off.
* `cache_reset_lossy`: the sweep counts keys as deleted whose Del failed.
* `events_original`: `original_status` is always the status after the cancellation.
* `events_pay`: `MarkOrderAsPaid` and its siblings compare with statuses no row can have.

The spelling behind `events_pay` has two more effects. Routing keys carry enum labels
(`order.status.SHIPPED`, where publisher.go:49 says `order.status.shipped`), so the email worker
finds none of its templates; and the history worker, bound to paid and delivered only, never
receives anything (`HistoryHearsNothing`, which is also a theorem).

Also visible in the models and not counted as findings: `UpdateOrderStatus` with `CANCELED`
cancels without restocking (so `CancelledMeansRestocked` is claimed for other statuses); units
leak when a creation breaks off after `DecreaseStock` (so conservation is claimed only without
faults, and `NeverOversold` as long as no cancellation breaks off); a cart without items makes an order of total zero; every error
of the service is answered 500, an exhausted stock and an unknown order included
(`RefusedMeansUntouched` is therefore about the middleware and the handlers' own checks);
`.env.example` has no entry for `PRODUCT_GRPC_SERVER_ADDRESS`.

## 4. The proofs

All theorems hold for every set of requests, orders, products and users, and every other value
of the constants that satisfies the named ASSUMEs of their module (sentinels are not data, carts
and stock are quantities, statuses are labels, the two worker processes share no goroutine, there
are finitely many uuids, the width of a column is a number, no amount lies halfway between two
cents).

| module | theorem | states | extra hypothesis |
|---|---|---|---|
| `OrderSagaProofs` | `Invariance` | `Spec => []IInv` | |
| | `TypeCorrect` | `Spec => []TypeOK` | |
| | `OrdersAreBacked` | `Spec => []StockBacked` | |
| | `RestockedOnce` | `Spec => []RestockedOnlyByCancel` | no cancellation breaks off |
| | `CancelledAreRestocked` | `Spec => []CancelledMeansRestocked` | `CANCELED` is not set by `UpdateOrderStatus` |
| | `MoveForward` | `Spec => OrdersOnlyMoveForward` | |
| | `CancelsArePendingOnly` | `Spec => CancelsOnlyPendingOrderOfCaller` | `CANCELED` is not set by `UpdateOrderStatus` |
| | `NothingOversold` | `Spec => []NeverOversold` | no cancellation breaks off |
| | `NothingLost` | `Spec => []StockConserved` | no creation or cancellation breaks off, `CANCELED` is not set by `UpdateOrderStatus` |
| | `Refinement` | `Spec => RefinesLedger` | no cancellation breaks off, `CANCELED` is not set by `UpdateOrderStatus` |
| | `LifeOfOrders` | `Spec => RefinesLifecycle` | |
| `OrderEventsProofs` | `EInvariance` | `Spec => []EInv` | |
| | `TypeCorrect` | `Spec => []TypeOK` | |
| | `ToldIsCommitted` | `Spec => []EventsTellCommitted` | |
| | `FailureIsSilent` | `Spec => []FailedCallsAreSilent` | |
| | `RefundsOnce` | `Spec => []RefundedAtMostOnce` | |
| | `RepeatsNeedDeaths` | `Spec => []RepeatedOnlyByDeath` | |
| | `HistoryIsDeaf` | `Spec => []HistoryHearsNothing` | |
| | `NewsIsAccounted` | `Spec => []NewsAccounted` | |
| | `EventsLife` | `Spec => RefinesLifecycle` | |
| `OrderCacheProofs` | `CacheInvariance` | `Spec => []CInv` | |
| | `TypeCorrect` | `Spec => []TypeOK` | |
| | `CachesShowThePast` | `Spec => []CacheShowsThePast` | |
| | `SweepsEvict` | `Spec => []ResetEvicts` | Redis loses nothing |
| | `StalenessHasCause` | `Spec => []StaleHasCause` | Redis loses nothing, no status updates |
| | `WritersLife` | `Spec => Lifecycle!Spec` | |
| `OrderServiceProofs` | `ServiceInvariance` | `ServiceSpec => []SInv` | |
| | `ServiceTypeCorrect` | `ServiceSpec => []ServiceTypeOK` | |
| | `AnnouncementsAreDone` | `ServiceSpec => []AnnouncedIsDone` | |
| | `RefundsAreAccounted` | `ServiceSpec => []RefundsAccounted` | `CANCELED` is not set by `UpdateOrderStatus` |
| | `EventsAreImplemented` | `ServiceSpec => RefinesEvents` | |
| | `ServiceLife` | `ServiceSpec => RefinesLifecycle` | |
| | `ServiceIsSaga` | `ServiceSpec => Spec` | the process does not die |
| | `ServiceNeverOversells` | `ServiceSpec => []NeverOversold` | the process does not die, no cancellation breaks off |
| `OrderHttpProofs` | `HttpInvariance` | `Spec => []HInv` | |
| | `SuccessesAreTrue` | `Spec => []SuccessIsTrue` | |
| | `RefusalsAreClean` | `Spec => []RefusedMeansUntouched` | |
| | `StockGoesBothWays` | `Spec => []StockBothWays` | |
| | `MissingHasItsCause` | `Spec => []MissingHasCause` | |
| | `SellersAreOfTheOrder` | `Spec => []WrongSellerHasCause` | |
| | `ServersAreReady` | `Spec => []ServingIsReady` | |
| | `SilenceHasItsCause` | `Spec => SilenceHasCause` | |
| | `HttpLife` | `Spec => Lifecycle!Spec` | |
| `OrderHttpAmounts` | `AmountsInvariance` | `Spec => []AInv` | |
| | `HttpTypeCorrect` | `Spec => []TypeOK` | |
| | `ViewsAlwaysAddUp` | `Spec => []ViewsAddUp` | |

The extra hypotheses are the switches of the runs, and each is needed: without it one of the
findings, or one of the effects listed under them, is a counterexample.

**The saga.** None of the safety properties is inductive. `StockBacked` speaks of visible
rows, but what makes it true is what the invisible ones are doing: a request may commit only
after its own call was applied, the units recorded for an order are those of its only
creation, and no other request ever writes that entry. `IInv` adds this:

* `PlacesAgree` ties where a request is to its kind and to the progress of its gRPC call;
* `CreateAccounts` says that an order id has one creation, and that the ledger and the
  visibility of the order follow from how far that creation has come;
* `CancelAccounts` says that a cancellation works on a visible order, carries the items of
  its row although it read them before it had the lock (they never change), that a held row
  is still cancellable, and that a row has one holder;
* `RestockAccounts` counts what came back while a cancellation holds the row. It needs
  every cancellation to wait for its answer, hence its hypothesis;
* `StockAccounts` is the catalog's book-keeping: what it no longer offers of a product is what it
  holds for orders it took units for and never gave them back (`Held`). It speaks of the ledger
  only, so that a step of the catalog changes one term of the sum by what the stock changes;
* `CreationsFinish` says that units set aside are for an order that is shown or on its way.

`NeverOversold` and `StockConserved` follow by comparing held with live orders. A live order is
held (`LiveIsHeld`), so the live units are at most the held ones; at rest, and if every creation
waits for its answers, a held order is live (`HeldIsLive`), so they are equal. When a cancellation
breaks off, units may come back for an order that stays live, and are sold again: that is the
effect of the finding `saga_cancel_rollback`, and the reason for the hypothesis. When a creation
breaks off, units stay held for an order nobody sees, which is why the two theorems differ.
`StockAccounts` is checked by `saga_create_faults` as part of `IInv`; `CreationsFinish` has its
hypothesis only in the constants of `saga_calm`, on which TLC has checked `IInv` as well.

The proof goes conjunct by conjunct (`TypeStep`, `PlacesStep`, `CreateStep`, `BackedStep`,
`CancelStep`, `RestockStep`, `CancelledStep`), each with one case per action that can disturb
it; `RowStep` and `LedgerStep` name the only writers of a row and of a ledger entry, and
`HolderStep` the only way to a lock. `Refinement` maps an order's ledger entry and row to a
phase (`PhaseOf`) and shows (`LedgerSimulation`) that every step is a step of the ledger or
a stutter; `LifecycleSimulation` does the same for the life of an order.

**Sums.** `LiveUnits`, `HeldUnits`, totals and views are sums over finite sets (`SumFunction` of
the community modules). `SumTheorems` proves what is needed of them: that a sum over a finite set
exists and is unique, that any element may be taken first, that a change at one element changes it
by as much, that fewer and smaller numbers add up to no more, that zeros may be left out and
elements renamed. The induction behind this is first-order: `FiniteInduction` is about the set of
the subsets that have the property, and takes a smallest one that has not.

**The events.** `RefundedAtMostOnce` compares two events and two changes. What makes it true
is spread over the system: the WHERE clause lets one cancellation of an order through and
nothing after it (`LogAccounts`), a call announces only the change it made itself, once, and
no other call has that change (`CallAccounts`), an event is with its goroutine or with the
broker but not with both (`EventAccounts`). `NewsAccounted` needs to know how many emails a
change may have had by the time its news is in the queue, with a worker that has not handled
it, or with one that has (`NewsOf`): at most as many as there were deaths in the first two
cases, at least one in the last. `EInv` is the conjunction. `HistoryIsDeaf` follows because every event
names a label of the enum and the history queue is bound to two texts that are not labels.

**The caches.** `CacheShowsThePast` is not inductive because a reader holds a value between its
query and its Set: `ReadAccounts` says that what it carries is something the table has shown
this user, and `PastAccounts` that the table's present list is in that history, which only
grows. `SweepsEvict` adds that a key which has been there throughout is still to be returned by
SCAN, or is gone; `StalenessHasCause` adds which keys a goroutine has still to delete.

**Whole calls.** `SInv` adds to the saga's accounts what a call owes after its commit. A
change belongs to one request, which has ended, and what the log says of it stays true of its
order (`ChangeAccounts`); an order is cancelled by one request at most, because the WHERE clause
lets nobody through after the first (`NotCancelledTwice`). The news of a change is with its
call, with an event, or lost, and in one of these places only (`NewsAccounts`); the event is
the one that `EventOf` makes of its request, so what it says follows from the log. The lemma
`ServiceStep` sorts all steps into five kinds, and the accounts are kept kind by kind.
`EventsAreImplemented` shows for each kind the step of `OrderEvents` it is: a commit is
`Change` or `ChangeUnconfirmed` (`CommitSimulation`: what the lock and the earlier statements
guarantee is what `Matches` asks for), a death is `Crash`, and every other step of a call is
an arrival, a refusal, or nothing at all (`QuietSimulation`). `ServiceLife` and `ServiceIsSaga`
use the same five kinds. A death is a stuttering step of the life of an order, but no step of the
saga: it ends calls that have already succeeded.

**HTTP.** `SuccessIsTrue` and `StockBothWays` need who may write an order: `PlacedAccounts` says
that an order was placed by the request that is answered 201 or 500, with as many units as
its rows have, and cancelled by a request of the same user, answered 200 or 500. The rows have
the units of the cart (`PlacingAccounts`), since the two sums are the same function of the same
numbers; that is shown without computing either, product by product, and leaves out the products
whose id did not parse, of which no row speaks (`RowsGiveBack`, `NoneOf`). `MissingHasCause` and `WrongSellerHasCause`
speak of an answer that may have been read from a cache long after the catalog moved on:
`ViewAccounts` says of what a reader carries, and of what any reader has stored, that it is
made of rows of placed orders, which never change. `ServingIsReady` follows from the order of
the steps of `main`, with `ProcessAccounts` for the steps between.

**Amounts.** `ViewsAddUp` relates a sum over what is shown to a total computed when the order was
placed, by another sum over other records, and each of them was rounded. `Rounding` bounds what
`TwoDecimals` adds or takes away; multiplied by the quantities and summed over the rows
(`LineByLine`, `SumLinear`) that is the `Slack` of `RowsComeToTotal`: the rows come to the total,
give or take less than half a cent for each unit and for the total, and exactly if prices are in
whole cents. The list is built from the stored rows, so each item has the amount of its row and
the sums are renamings of each other (`ListAddsUp`); the items of one order leave rows out, so
they add up to no more (`ItemsAddUp`). `AInv` carries this from the cart to the client: only
lines that can be bought reach the transaction (`PlacingBuyable`, from the loop that rejects the
first line in error), only a total that fits is committed and it is what the rows come to
(`OrdersTyped`), a list is of its reader's own orders when it is put together (`OwnOrders`), and
it adds up in the answer and in Redis (`ReadsAddUp`, `StoredAddUp`). That no quantity is zero, no
amount negative and no total wider than its column is then `HttpTypeCorrect`. TLC has checked
`AInv` on the instance of `http`.

**The life of an order.** Each module that changes rows is mapped to `OrderLifecycle`: the status
and the owner of its rows in `OrderSaga`, `OrderService`, `OrderEvents` and `OrderCache`; in
`OrderHttp`, where an order has no status, `absent` before it is placed, `PENDING_PAYMENT` while
it is open and `CANCELED` after (`StatusOf`), and nothing may be set, as no route does. TLC has
checked these maps on the instances of `service`, `cache_live` and `http`.

**Only model-checked.** Every liveness property (`EveryRequestEnds`, `CancelEnds`,
`ChangesAreAnnounced`, `EveryChangeIsEmailed`, `CachesCatchUp`): the prover has no rule for
fairness that reaches them. The four expected violations are false, and so not theorems. Every
other property of a run is a theorem.

## 5. What is not modelled

* Addresses, names, descriptions and timestamps.
* Amounts exactly halfway between two cents, where the binary fraction decides which way `%.2f`
  rounds, and the error of adding `float64` numbers. Ids that `uuid.Parse` accepts and writes
  differently (upper case, braces) count as not parsing.
* Log lines, configuration parsing and the fields of requests that no decision depends on.
* `Store.ExecTx`, `UpdateOrderWithTrackingCode`, `PublishOrderRefunded`, `RequireRoles`: never
  called. The handler of `UpdateOrderStatus` has no route; its service method, and
  `MarkOrderAs...`, are modelled because they are the service's interface.
* Isolation below READ COMMITTED and failures of PostgreSQL other than a lost connection.
* Outside code, by what the repository relies on: the catalog applies a call atomically and at
  most once; a queue that was declared stays; an unacknowledged message is delivered again;
  golang-migrate marks a schema dirty before it runs a migration and refuses a dirty one; SCAN
  returns every key that is there throughout; Redis applies a Del of several keys at once.
* The order of events and of emails, which nothing in the code promises.

## 6. Plan

1. Done: tables, ledger, life of an order, saga, whole calls, caches, events, both workers,
   assembly, HTTP and start-up; proofs of every safety property of the runs, of the sums they
   rest on, and of the refinements between the modules.
2. Left: `OrderHttp` with the invalidations of `OrderCache` instead of "any answer stored
   before"; what a death of the process does to the stock, as a bound on the units that leak.
