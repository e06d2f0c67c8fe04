----------------------------- MODULE OrderSaga ------------------------------
(***************************************************************************)
(* Orders against stock: CreateOrder, CancelOrder and UpdateOrderStatus of *)
(* internal/services/order_svc.go, run by concurrent requests against one  *)
(* PostgreSQL database (READ COMMITTED, row locks, a bounded pool of       *)
(* connections) and the catalog service, which owns the stock and is       *)
(* called over gRPC while a database transaction is open.                  *)
(*                                                                         *)
(* A request is one goroutine serving one HTTP call.  Its gRPC call lives  *)
(* in rpc: the catalog may act on it after the request has given up, and   *)
(* the request may never learn that the catalog has acted.                 *)
(***************************************************************************)
EXTENDS OrderTable, FiniteSets, Functions

CONSTANTS
  Request,        \* the requests served, each once (bounds the model)
  OrderID,        \* the uuids that uuid.New may return
  NoOrder,        \* "no order id yet"
  Carts,          \* the quantities a customer may ask for
  InitStock,      \* the catalog's stock before the first request
  AdminStatus,    \* the statuses UpdateOrderStatus is called with
  MaxOpenConns,   \* db.SetMaxOpenConns
  Faults          \* which handlers may break off once their gRPC call is sent, or
                  \* lose the answer of their commit

\* A uuid has 16 bytes.
ASSUME OrderIDAssumption == IsFiniteSet(OrderID)
ASSUME NoOrderAssumption == NoOrder \notin OrderID
ASSUME NoUserAssumption == NoUser \notin User
ASSUME CartsAssumption == Carts \subseteq Items
ASSUME StockAssumption == InitStock \in Items
ASSUME AdminAssumption == AdminStatus \subseteq (OrderStatus \cup EventStatus)
ASSUME PoolAssumption == MaxOpenConns \in Nat \ {0}
ASSUME FaultsAssumption == Faults \subseteq {"create", "cancel", "update"}

VARIABLES
  pc,       \* where each request is in its handler
  call,     \* what each request was asked to do, and what it has read
  rpc,      \* the gRPC call of each request, as the catalog sees it
  orders,   \* the committed rows
  stock,    \* the catalog's stock
  ledger    \* history: what the catalog did for each order, and how often

vars == <<pc, call, rpc, orders, stock, ledger>>

Call == [kind: {"none", "create", "cancel", "update"}, order: OrderID \cup {NoOrder},
         user: User \cup {NoUser}, items: Items, to: AdminStatus \cup {Absent}]
NoCall == [kind |-> "none", order |-> NoOrder, user |-> NoUser,
           items |-> NoItems, to |-> Absent]

Working == {"begin", "decreasing", "cancelling", "increasing", "updating", "committing"}
Ended == {"ok", "failed"}
Entry == [taken: Nat, restocked: Nat, items: Items]

-----------------------------------------------------------------------------
Visible(o) == orders[o].status # Absent

\* Requests that hold a connection of the pool: those inside a transaction or
\* a statement.
Connected == {r \in Request : pc[r] \in Working \ {"begin"}}
ConnFree == Cardinality(Connected) < MaxOpenConns

\* Mutant: the lock ends with the gRPC call, before the commit.
HoldsRowUntilReturn(r, o) ==
  call[r].kind = "cancel" /\ call[r].order = o /\ pc[r] = "increasing"

\* A cancelling transaction locks the row from its UPDATE to its end.
HoldsRow(r, o) ==
  /\ call[r].kind = "cancel"
  /\ call[r].order = o
  /\ pc[r] \in {"increasing", "committing"}
RowLocked(o) == \E r \in Request : HoldsRow(r, o)

\* uuid.New: an id no order and no other request has.
Fresh(o) == ~Visible(o) /\ \A r \in Request : call[r].order # o

Covers(have, need) == \A p \in Product : need[p] <= have[p]
Minus(a, b) == [p \in Product |-> a[p] - b[p]]
Plus(a, b) == [p \in Product |-> a[p] + b[p]]

GoTo(r, place) == pc' = [pc EXCEPT ![r] = place]
Send(r) == rpc' = [rpc EXCEPT ![r] = "sent"]

-----------------------------------------------------------------------------
Init ==
  /\ pc = [r \in Request |-> "idle"]
  /\ call = [r \in Request |-> NoCall]
  /\ rpc = [r \in Request |-> "none"]
  /\ orders = [o \in OrderID |-> NoRow]
  /\ stock = InitStock
  /\ ledger = [o \in OrderID |-> [taken |-> 0, restocked |-> 0, items |-> NoItems]]

(***************************************************************************)
(* Requests come in.  CreateOrder has validated the request, fetched the   *)
(* products and built its parameters, ids included; CancelOrder and        *)
(* UpdateOrderStatus name an order the client knows, so a committed one,   *)
(* though not necessarily the client's own.                                *)
(***************************************************************************)
ArriveCreate(r, o, u, items) ==
  /\ pc[r] = "idle"
  /\ Fresh(o)
  /\ call' = [call EXCEPT ![r] = [NoCall EXCEPT !.kind = "create", !.order = o,
                                                !.user = u, !.items = items]]
  /\ GoTo(r, "begin")
  /\ UNCHANGED <<rpc, orders, stock, ledger>>

ArriveCancel(r, o, u) ==
  /\ pc[r] = "idle"
  /\ Visible(o)
  /\ call' = [call EXCEPT ![r] = [NoCall EXCEPT !.kind = "cancel", !.order = o,
                                                !.user = u]]
  /\ GoTo(r, "begin")
  /\ UNCHANGED <<rpc, orders, stock, ledger>>

ArriveUpdate(r, o, s) ==
  /\ pc[r] = "idle"
  /\ Visible(o)
  /\ call' = [call EXCEPT ![r] = [NoCall EXCEPT !.kind = "update", !.order = o,
                                                !.to = s]]
  /\ GoTo(r, "begin")
  /\ UNCHANGED <<rpc, orders, stock, ledger>>

\* An early return, a failing statement or a client that leaves, before any
\* gRPC call that changes stock has been sent.
TurnAway(r) ==
  /\ pc[r] \in {"begin", "cancelling", "updating"}
  /\ GoTo(r, "failed")
  /\ UNCHANGED <<call, rpc, orders, stock, ledger>>

-----------------------------------------------------------------------------
\* Mutant: the rows are inserted outside the transaction, so everybody sees them.
CreateBeginAutoCommit(r) ==
  /\ pc[r] = "begin" /\ call[r].kind = "create"
  /\ ConnFree
  /\ Send(r)
  /\ GoTo(r, "decreasing")
  /\ orders' = [orders EXCEPT ![call[r].order] = InsertedRow(call[r].user, call[r].items)]
  /\ UNCHANGED <<call, stock, ledger>>

\* CreateOrder opens a transaction, inserts the order and its items (visible
\* to nobody yet) and calls DecreaseStock with the same items.
CreateBegin(r) ==
  /\ pc[r] = "begin" /\ call[r].kind = "create"
  /\ ConnFree
  /\ Send(r)
  /\ GoTo(r, "decreasing")
  /\ UNCHANGED <<call, orders, stock, ledger>>

\* Mutant: the error of DecreaseStock is ignored.
DecreaseReturnsAnything(r) ==
  /\ pc[r] = "decreasing"
  /\ rpc[r] \in {"applied", "refused"}
  /\ GoTo(r, "committing")
  /\ UNCHANGED <<call, rpc, orders, stock, ledger>>

\* The error of DecreaseStock, out of stock or any other, ends the request and
\* rolls the transaction back.
DecreaseReturns(r) ==
  /\ pc[r] = "decreasing"
  /\ \/ rpc[r] = "applied" /\ GoTo(r, "committing")
     \/ rpc[r] = "refused" /\ GoTo(r, "failed")
  /\ UNCHANGED <<call, rpc, orders, stock, ledger>>

\* What the commit of r makes visible.
Committed(r) ==
  LET c == call[r] IN
  IF c.kind = "create"
    THEN [orders EXCEPT ![c.order] = InsertedRow(c.user, c.items)]
    ELSE [orders EXCEPT ![c.order] = CancelledRow(@)]

Commit(r) ==
  /\ pc[r] = "committing"
  /\ orders' = Committed(r)
  /\ GoTo(r, "ok")
  /\ UNCHANGED <<call, rpc, stock, ledger>>

\* CancelOrder opens a transaction and reads the items it will give back,
\* before it knows whether the order may be cancelled.
CancelBegin(r) ==
  /\ pc[r] = "begin" /\ call[r].kind = "cancel"
  /\ ConnFree
  /\ call' = [call EXCEPT ![r].items = ItemsForRestock(orders[call[r].order])]
  /\ GoTo(r, "cancelling")
  /\ UNCHANGED <<rpc, orders, stock, ledger>>

\* Mutant: that the UPDATE matched no row is not an error.
CancelRowUnchecked(r) ==
  /\ pc[r] = "cancelling"
  /\ ~RowLocked(call[r].order)
  /\ Send(r)
  /\ GoTo(r, "increasing")
  /\ UNCHANGED <<call, orders, stock, ledger>>

\* Mutant: the UPDATE runs on a connection of its own, not in the transaction.
CancelRowSecondConnection(r) ==
  LET o == call[r].order IN
  /\ pc[r] = "cancelling"
  /\ ConnFree
  /\ ~RowLocked(o)
  /\ \/ Cancellable(orders[o], call[r].user) /\ Send(r) /\ GoTo(r, "increasing")
     \/ ~Cancellable(orders[o], call[r].user) /\ GoTo(r, "failed") /\ UNCHANGED rpc
  /\ UNCHANGED <<call, orders, stock, ledger>>

\* Its UPDATE waits for the row; no matching row ends the request, a matching
\* one is locked and IncreaseStock is called with the items read before.
CancelRow(r) ==
  LET o == call[r].order IN
  /\ pc[r] = "cancelling"
  /\ ~RowLocked(o)
  /\ \/ Cancellable(orders[o], call[r].user) /\ Send(r) /\ GoTo(r, "increasing")
     \/ ~Cancellable(orders[o], call[r].user) /\ GoTo(r, "failed") /\ UNCHANGED rpc
  /\ UNCHANGED <<call, orders, stock, ledger>>

\* Mutant: the error of IncreaseStock is ignored.
IncreaseReturnsAnything(r) ==
  /\ pc[r] = "increasing"
  /\ rpc[r] \in {"applied", "refused"}
  /\ GoTo(r, "committing")
  /\ UNCHANGED <<call, rpc, orders, stock, ledger>>

IncreaseReturns(r) ==
  /\ pc[r] = "increasing"
  /\ \/ rpc[r] = "applied" /\ GoTo(r, "committing")
     \/ rpc[r] = "refused" /\ GoTo(r, "failed")
  /\ UNCHANGED <<call, rpc, orders, stock, ledger>>

\* UpdateOrderStatus is one statement outside any transaction.
UpdateBegin(r) ==
  /\ pc[r] = "begin" /\ call[r].kind = "update"
  /\ ConnFree
  /\ GoTo(r, "updating")
  /\ UNCHANGED <<call, rpc, orders, stock, ledger>>

\* Mutant: the statement does not wait for the row lock of a cancellation.
UpdateRowUnlocked(r) ==
  /\ pc[r] = "updating"
  /\ Updatable(orders[call[r].order], call[r].to)
  /\ orders' = [orders EXCEPT ![call[r].order] = UpdatedRow(@, call[r].to)]
  /\ GoTo(r, "ok")
  /\ UNCHANGED <<call, rpc, stock, ledger>>

\* Its statement waits for the row; the answer of one that matched may be lost.
UpdateRow(r) ==
  LET o == call[r].order IN
  /\ pc[r] = "updating"
  /\ ~RowLocked(o)
  /\ \/ /\ Updatable(orders[o], call[r].to)
        /\ orders' = [orders EXCEPT ![o] = UpdatedRow(@, call[r].to)]
        /\ GoTo(r, "ok") \/ ("update" \in Faults /\ GoTo(r, "failed"))
     \/ /\ ~Updatable(orders[o], call[r].to)
        /\ GoTo(r, "failed")
        /\ UNCHANGED orders
  /\ UNCHANGED <<call, rpc, stock, ledger>>

-----------------------------------------------------------------------------
(***************************************************************************)
(* The catalog service (external).  It applies a call at most once, all    *)
(* products or none, and never below zero.                                 *)
(***************************************************************************)
CatalogDecrease(r) ==
  LET c == call[r] IN
  /\ rpc[r] = "sent" /\ c.kind = "create"
  /\ Covers(stock, c.items)
  /\ stock' = Minus(stock, c.items)
  /\ ledger' = [ledger EXCEPT ![c.order] =
                  [taken |-> @.taken + 1, restocked |-> @.restocked, items |-> c.items]]
  /\ rpc' = [rpc EXCEPT ![r] = "applied"]
  /\ UNCHANGED <<pc, call, orders>>

CatalogIncrease(r) ==
  LET c == call[r] IN
  /\ rpc[r] = "sent" /\ c.kind = "cancel"
  /\ stock' = Plus(stock, c.items)
  /\ ledger' = [ledger EXCEPT ![c.order].restocked = @ + 1]
  /\ rpc' = [rpc EXCEPT ![r] = "applied"]
  /\ UNCHANGED <<pc, call, orders>>

\* Out of stock (FailedPrecondition), unreachable, or any error without effect.
CatalogRefuse(r) ==
  /\ rpc[r] = "sent"
  /\ rpc' = [rpc EXCEPT ![r] = "refused"]
  /\ UNCHANGED <<pc, call, orders, stock, ledger>>

-----------------------------------------------------------------------------
(***************************************************************************)
(* Breaking off once the gRPC call is out.  The transaction is rolled back *)
(* (deferred Rollback, or database/sql when the request's context ends)    *)
(* and the catalog is told nothing.                                        *)
(***************************************************************************)

\* The client leaves, the answer is lost, the commit fails, the process dies.
BreakOff(r) ==
  /\ pc[r] \in {"decreasing", "increasing", "committing"}
  /\ call[r].kind \in Faults
  /\ GoTo(r, "failed")
  /\ UNCHANGED <<call, rpc, orders, stock, ledger>>

\* Mutant: the deadline is given to the UPDATE and not to IncreaseStock.
UpdateTimesOut(r) ==
  /\ pc[r] = "cancelling"
  /\ "cancel" \in Faults
  /\ GoTo(r, "failed")
  /\ UNCHANGED <<call, rpc, orders, stock, ledger>>

\* IncreaseStock has ten seconds, whatever happens to the client.
IncreaseTimesOut(r) ==
  /\ pc[r] = "increasing"
  /\ "cancel" \in Faults
  /\ GoTo(r, "failed")
  /\ UNCHANGED <<call, rpc, orders, stock, ledger>>

\* The commit succeeds but the connection is lost before its answer.
CommitUnconfirmed(r) ==
  /\ pc[r] = "committing"
  /\ call[r].kind \in Faults
  /\ orders' = Committed(r)
  /\ GoTo(r, "failed")
  /\ UNCHANGED <<call, rpc, stock, ledger>>

\* Nothing is being served: the server waits for more.
Resting == \A r \in Request : pc[r] \in {"idle"} \cup Ended
Idle == Resting /\ UNCHANGED vars

-----------------------------------------------------------------------------
Handler(r) ==
  \/ CreateBegin(r) \/ DecreaseReturns(r)
  \/ CancelBegin(r) \/ CancelRow(r) \/ IncreaseReturns(r)
  \/ UpdateBegin(r) \/ UpdateRow(r)
  \/ Commit(r)

Catalog(r) == CatalogDecrease(r) \/ CatalogIncrease(r) \/ CatalogRefuse(r)

Arrive(r) ==
  \E o \in OrderID :
    \/ \E u \in User, items \in Carts : ArriveCreate(r, o, u, items)
    \/ \E u \in User : ArriveCancel(r, o, u)
    \/ \E s \in AdminStatus : ArriveUpdate(r, o, s)

Next ==
  \/ \E r \in Request :
       \/ Arrive(r) \/ TurnAway(r) \/ Handler(r) \/ Catalog(r)
       \/ BreakOff(r) \/ IncreaseTimesOut(r) \/ CommitUnconfirmed(r)
  \/ Idle

Spec == Init /\ [][Next]_vars

\* The goroutines run, and the catalog answers what it is sent.
FairSpec == Spec /\ \A r \in Request : WF_vars(Handler(r)) /\ WF_vars(Catalog(r))

-----------------------------------------------------------------------------
(***************************************************************************)
(* Properties.                                                             *)
(***************************************************************************)

\* Every variable has its type: a status is a label of the database enum, and
\* no quantity, the stock included, is ever negative.
TypeOK ==
  /\ pc \in [Request -> {"idle"} \cup Working \cup Ended]
  /\ call \in [Request -> Call]
  /\ rpc \in [Request -> {"none", "sent", "applied", "refused"}]
  /\ orders \in [OrderID -> Row]
  /\ stock \in Items
  /\ ledger \in [OrderID -> Entry]

\* A customer never sees an order the catalog has not set units aside for,
\* once and in the quantities the order shows, whatever broke off on the way:
\* CreateOrder commits only after DecreaseStock has succeeded.
StockBacked ==
  \A o \in OrderID :
    Visible(o) => ledger[o].taken = 1 /\ ledger[o].items = orders[o].items

\* The catalog gets units back at most once per order, and only for one that is
\* cancelled or is being cancelled by a request that holds its row, however
\* many clients cancel it at once.
RestockedOnlyByCancel ==
  \A o \in OrderID :
    ledger[o].restocked > 0 =>
      /\ ledger[o].restocked = 1
      /\ \/ orders[o].status = "CANCELED"
         \/ \E r \in Request : HoldsRow(r, o) /\ rpc[r] = "applied"

\* An order shown as cancelled has had its units given back: CancelOrder commits
\* only after IncreaseStock has succeeded.
CancelledMeansRestocked ==
  \A o \in OrderID : orders[o].status = "CANCELED" => ledger[o].restocked >= 1

\* Orders a customer counts on: visible, not cancelled, and not in the hands of
\* a cancellation that has already given the units back.
Live(o) ==
  /\ orders[o].status \notin {Absent, "CANCELED"}
  /\ ~ \E r \in Request : HoldsRow(r, o) /\ rpc[r] = "applied"

LiveUnits(p) == SumFunction([o \in {x \in OrderID : Live(x)} |-> orders[o].items[p]])

\* The live orders never add up to more than there was to sell, also when
\* CreateOrder breaks off after DecreaseStock and when freed units are sold again.
NeverOversold == \A p \in Product : stock[p] + LiveUnits(p) <= InitStock[p]

\* When nothing breaks off, no unit is lost either: once every request has been
\* answered, what is not on sale is in a live order.
StockConserved ==
  Resting =>
    \A p \in Product : stock[p] + LiveUnits(p) = InitStock[p]

\* A committed order is never deleted, keeps its owner and its items, and stays
\* cancelled once it is (the WHERE clauses of CancelOrder and UpdateOrderStatus).
OrdersOnlyMoveForward ==
  [][\A o \in OrderID : Visible(o) =>
       /\ orders'[o].user = orders[o].user
       /\ orders'[o].items = orders[o].items
       /\ orders[o].status = "CANCELED" => orders'[o].status = "CANCELED"
       /\ orders'[o].status # Absent]_vars

\* An order becomes cancelled only from PENDING_PAYMENT, and by a request of its
\* owner: an UpdateOrderStatus cannot ship it between the check and the commit,
\* because the cancelling transaction holds the row over the gRPC call.
CancelsOnlyPendingOrderOfCaller ==
  [][\A o \in OrderID :
       (orders[o].status # "CANCELED" /\ orders'[o].status = "CANCELED") =>
         /\ orders[o].status = "PENDING_PAYMENT"
         /\ \E r \in Request : HoldsRow(r, o) /\ call[r].user = orders[o].user]_vars

\* What the error of CancelOrder says of a failed gRPC call: the cancellation
\* has been rolled back, so the catalog has not restocked for it.
CancelRollbackIsComplete ==
  \A r \in Request :
    (call[r].kind = "cancel" /\ pc[r] = "failed") => rpc[r] # "applied"

\* Where an order stands in the ledger.
PhaseOf(o) ==
  CASE ledger[o].taken = 0 -> "none"
    [] ledger[o].taken > 0 /\ ~Visible(o) -> "held"
    [] orders[o].status = "CANCELED" -> "closed"
    [] OTHER -> IF ledger[o].restocked = 0 THEN "open" ELSE "released"

Ledger == INSTANCE OrderLedger WITH
  available <- stock,
  phase <- [o \in OrderID |-> PhaseOf(o)],
  content <- [o \in OrderID |-> ledger[o].items]

\* The saga implements the ledger: no interleaving of creations, cancellations
\* and status updates shows more than orders that set units aside and give the
\* same units back once.
RefinesLedger == Ledger!Spec

Lifecycle == INSTANCE OrderLifecycle WITH
  Settable <- AdminStatus \cap OrderStatus,
  status <- [o \in OrderID |-> orders[o].status],
  owner <- [o \in OrderID |-> orders[o].user]

\* To a reader of committed rows every creation, cancellation and update is one
\* step, of its owner where it cancels, whatever the requests do between their
\* statements, their gRPC calls and their commits.
RefinesLifecycle == Lifecycle!Spec

-----------------------------------------------------------------------------
(***************************************************************************)
(* The inductive invariant behind the safety properties, in named parts.   *)
(***************************************************************************)

\* Where a request is, what it was asked to do and how far its gRPC call has
\* come go together.
PlacesAgree ==
  \A r \in Request :
    /\ pc[r] = "idle" <=> call[r].kind = "none"
    /\ call[r].kind = "none" => call[r].order = NoOrder
    /\ call[r].kind # "none" => call[r].order \in OrderID
    /\ call[r].kind \in {"create", "cancel"} => call[r].user \in User
    /\ pc[r] = "decreasing" => call[r].kind = "create"
    /\ pc[r] \in {"cancelling", "increasing"} => call[r].kind = "cancel"
    /\ pc[r] = "updating" => call[r].kind = "update"
    /\ pc[r] = "committing" => call[r].kind \in {"create", "cancel"} /\ rpc[r] = "applied"
    /\ pc[r] \in {"idle", "begin", "cancelling", "updating"} => rpc[r] = "none"
    /\ pc[r] \in {"decreasing", "increasing"} => rpc[r] # "none"
    /\ rpc[r] # "none" => call[r].kind \in {"create", "cancel"}

\* Every order id has at most one creation, units were set aside for it exactly
\* if the catalog applied its DecreaseStock, and its row appears only after that.
CreateAccounts ==
  /\ \A r, s \in Request :
       (call[r].kind = "create" /\ call[s].kind = "create" /\ call[r].order = call[s].order)
         => r = s
  /\ \A r \in Request : call[r].kind = "create" =>
       LET o == call[r].order IN
       /\ rpc[r] = "applied" => ledger[o].taken = 1 /\ ledger[o].items = call[r].items
       /\ rpc[r] # "applied" => ledger[o].taken = 0 /\ ~Visible(o)
       /\ pc[r] \in {"begin", "decreasing", "committing"} => ~Visible(o)
  /\ \A o \in OrderID :
       (\A r \in Request : call[r].order # o) => ledger[o].taken = 0 /\ ~Visible(o)

\* A cancellation names a visible order, carries the items of its row once it
\* has read them, and while it holds the row nobody else does and the row stays
\* as the UPDATE found it.  What its IncreaseStock did stays done.
CancelAccounts ==
  /\ \A r \in Request : call[r].kind \in {"cancel", "update"} => Visible(call[r].order)
  /\ \A r \in Request :
       (call[r].kind = "cancel" /\ (rpc[r] # "none" \/ pc[r] = "cancelling"))
         => call[r].items = orders[call[r].order].items
  /\ \A r \in Request, o \in OrderID :
       HoldsRow(r, o) => Cancellable(orders[o], call[r].user)
  /\ \A r, s \in Request, o \in OrderID : HoldsRow(r, o) /\ HoldsRow(s, o) => r = s
  /\ \A r \in Request :
       (call[r].kind = "cancel" /\ rpc[r] = "applied") => ledger[call[r].order].restocked >= 1

\* Units come back only while a cancellation holds the row, as long as every
\* cancellation waits for the answer of its IncreaseStock.
RestockAccounts ==
  "cancel" \notin Faults =>
    /\ \A r \in Request : (call[r].kind = "cancel" /\ rpc[r] = "sent") => pc[r] = "increasing"
    /\ \A r \in Request, o \in OrderID :
         HoldsRow(r, o) => ledger[o].restocked = (IF rpc[r] = "applied" THEN 1 ELSE 0)
    /\ RestockedOnlyByCancel

\* The catalog's books balance: what it no longer offers of a product it holds for
\* orders it took units for and never gave them back.
Held(o) == ledger[o].taken = 1 /\ ledger[o].restocked = 0
HeldUnits(p) == SumFunction([o \in {x \in OrderID : Held(x)} |-> ledger[o].items[p]])
StockAccounts ==
  "cancel" \notin Faults => \A p \in Product : stock[p] + HeldUnits(p) = InitStock[p]

\* A creation whose units are asked for is waiting for them, and one whose units were
\* set aside is shown or on its way, as long as every creation waits for its answers.
CreationsFinish ==
  "create" \notin Faults =>
    \A r \in Request : call[r].kind = "create" =>
      /\ rpc[r] = "sent" => pc[r] = "decreasing"
      /\ rpc[r] = "applied" =>
           pc[r] \in {"decreasing", "committing"} \/ Visible(call[r].order)

IInv ==
  /\ TypeOK
  /\ PlacesAgree
  /\ StockBacked
  /\ CreateAccounts
  /\ CancelAccounts
  /\ RestockAccounts
  /\ StockAccounts
  /\ CreationsFinish
  /\ "CANCELED" \notin AdminStatus => CancelledMeansRestocked

-----------------------------------------------------------------------------
(***************************************************************************)
(* Liveness.                                                               *)
(***************************************************************************)

\* Every request is answered when the catalog answers, also when requests hold all
\* connections of the pool: no handler needs a second one while it holds one.
EveryRequestEnds == \A r \in Request : pc[r] = "begin" ~> pc[r] \in Ended

\* A cancellation ends even when the catalog hangs, and so does every one that
\* waits for its row: IncreaseStock has a deadline of its own.
CancelEnds ==
  \A r \in Request : (pc[r] = "begin" /\ call[r].kind = "cancel") ~> pc[r] \in Ended
=============================================================================
