----------------------------- MODULE OrderTable -----------------------------
(***************************************************************************)
(* The orders and order_items tables and the SQL statements that touch     *)
(* them (db/migrations, db/query, internal/pkg/db).  A row of orders and   *)
(* the item rows that reference it are inserted by one transaction and the *)
(* items are never updated, so a Row carries the quantities of its items.  *)
(* Addresses, payment data, prices and timestamps are left out.            *)
(***************************************************************************)
EXTENDS Naturals

CONSTANTS
  Product,   \* product ids, owned by the catalog service
  User,      \* user ids, owned by the account service
  NoUser     \* user_id of a row that does not exist

\* The enum order_status of the database.
OrderStatus ==
  {"PENDING_PAYMENT", "PROCESSING", "SHIPPED", "COMPLETED", "CANCELED", "REFUNDED"}

\* The statuses the service and its events spell; none of them is a label of
\* the database enum.
EventStatus == {"pending", "paid", "shipped", "delivered", "cancelled"}

Absent == "absent"   \* the status of a row that does not exist

\* Units per product, summed over the item rows of one order.
Items == [Product -> Nat]
NoItems == [p \in Product |-> 0]

Row == [status: OrderStatus \cup {Absent}, user: User \cup {NoUser}, items: Items]
NoRow == [status |-> Absent, user |-> NoUser, items |-> NoItems]

-----------------------------------------------------------------------------
\* Mutant: the status is written as the service spells it.
InsertedRowPending(user, items) == [status |-> "pending", user |-> user, items |-> items]

\* INSERT INTO orders / order_items: the status column takes its default.
InsertedRow(user, items) ==
  [status |-> "PENDING_PAYMENT", user |-> user, items |-> items]

\* Mutant: CancelOrder's WHERE clause without the status.
CancellableInAnyStatus(row, user) == row.user = user

\* The WHERE clause of CancelOrder.
Cancellable(row, user) ==
  /\ row.user = user
  /\ row.status = "PENDING_PAYMENT"

CancelledRow(row) == [row EXCEPT !.status = "CANCELED"]

\* Mutants of Updatable: a text column instead of the enum; a WHERE clause that
\* does not exclude cancelled orders.
UpdatableToAnyText(row, status) == row.status \notin {Absent, "CANCELED"}
UpdatableWhenCancelled(row, status) == row.status # Absent /\ status \in OrderStatus

\* UpdateOrderStatus: any row that is not cancelled, and any label of the enum
\* (PostgreSQL refuses a text that is not one).
Updatable(row, status) ==
  /\ row.status \notin {Absent, "CANCELED"}
  /\ status \in OrderStatus

UpdatedRow(row, status) == [row EXCEPT !.status = status]

\* Mutant: the items are counted, their quantities are not read.
ItemsForRestockOneEach(row) == [p \in Product |-> IF row.items[p] > 0 THEN 1 ELSE 0]

\* GetItemsForRestock: what the item rows of the order hold.
ItemsForRestock(row) == row.items
=============================================================================
