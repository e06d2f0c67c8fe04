----------------------------- MODULE OrderCache -----------------------------
(***************************************************************************)
(* The Redis caches of internal/services/order_svc.go: the order list of a *)
(* user (GetOrdersByUserID) and the items of an order                      *)
(* (GetOrderItemsByOrderID), filled by readers on a miss, invalidated by   *)
(* CreateOrder and CancelOrder in goroutines of their own, left alone by   *)
(* UpdateOrderStatus, and swept by ResetAllOrderCaches.                    *)
(*                                                                         *)
(* Writes are the commits of OrderSaga, one step each.  A reader's query,  *)
(* its gRPC calls and its Set are steps of their own, so a list may be     *)
(* stored long after the rows it shows have changed.                       *)
(***************************************************************************)
EXTENDS OrderTable, FiniteSets

CONSTANTS
  OrderID,
  Writer,       \* the writes made, each once (bounds the model)
  Reader,       \* readers, for ever; each has at most one Set outstanding
  AdminStatus,  \* the statuses UpdateOrderStatus is called with
  Lossy,        \* whether a Redis command may fail or its goroutine be lost
  NoEntry       \* the value of a key that is not in Redis

ASSUME LossyAssumption == Lossy \in BOOLEAN
ASSUME AdminAssumption == AdminStatus \subseteq OrderStatus
ASSUME NoEntryAssumption ==
  /\ \A list \in [OrderID -> OrderStatus \cup {Absent}] : list # NoEntry
  /\ \A items \in SUBSET Product : items # NoEntry

VARIABLES
  rows,      \* the committed rows
  catalog,   \* whether the catalog returns a product
  wrote,     \* where each writer is: the keys its goroutine has yet to delete
  reading,   \* where each reader is
  cache,     \* Redis
  sweep,     \* the run of ResetAllOrderCaches, and the keys SCAN has yet to return
  past,      \* history: every list the table has shown a user
  kept,      \* history: keys present ever since the sweep began
  late       \* history: users whose list was stored when it was already old

vars == <<rows, catalog, wrote, reading, cache, sweep, past, kept, late>>

-----------------------------------------------------------------------------
\* What GetOrdersByUserID selects: a user's orders that are not cancelled.
ListOf(table, u) ==
  [o \in OrderID |-> IF table[o].user = u /\ table[o].status # "CANCELED"
                       THEN table[o].status ELSE Absent]
List(u) == ListOf(rows, u)
EmptyList == [o \in OrderID |-> Absent]

\* What assembleOrderItems makes of the item rows: items whose product the
\* catalog does not return are skipped.
Listed == {p \in Product : catalog[p] # "gone"}
ItemsOf(o) == {p \in Product : rows[o].items[p] > 0}
ItemList(o) == ItemsOf(o) \cap Listed

ListKey(u) == <<"orders_user", u>>
ItemsKey(o) == <<"order_items", o>>
ListKeys == {ListKey(u) : u \in User}
ItemsKeys == {ItemsKey(o) : o \in OrderID}
Key == ListKeys \cup ItemsKeys
Present == {k \in Key : cache[k] # NoEntry}

\* What a request for key k reads from the database and the other services.
ValueOf(k) == IF k \in ListKeys THEN List(k[2]) ELSE ItemList(k[2])
Stale(k) == cache[k] # NoEntry /\ cache[k] # ValueOf(k)

Idle == [at |-> "idle"]
Evict(keys) ==
  /\ cache' = [k \in Key |-> IF k \in keys THEN NoEntry ELSE cache[k]]
  /\ kept' = kept \ keys
  /\ late' = late \ {u \in User : ListKey(u) \in keys}

Init ==
  /\ rows = [o \in OrderID |-> NoRow]
  /\ catalog = [p \in Product |-> "listed"]
  /\ wrote = [w \in Writer |-> [at |-> "idle", keys |-> {}]]
  /\ reading = [r \in Reader |-> Idle]
  /\ cache = [k \in Key |-> NoEntry]
  /\ sweep = [at |-> "idle", left |-> {}]
  /\ past = [u \in User |-> {EmptyList}]
  /\ kept = {}
  /\ late = {}

-----------------------------------------------------------------------------
(***************************************************************************)
(* Writers.                                                                *)
(***************************************************************************)
Change(o, row) ==
  /\ rows' = [rows EXCEPT ![o] = row]
  /\ past' = [u \in User |-> past[u] \cup {ListOf(rows', u)}]
  /\ UNCHANGED <<catalog, reading, cache, sweep, kept, late>>

\* Mutant: only the key of the order is deleted.
InvalidatedItemsOnly(u, o) == {ItemsKey(o)}

\* InvalidateCachesForOrderChange names the list of the user and the items of
\* the order, and deletes them in a goroutine.
Invalidated(u, o) == {ListKey(u), ItemsKey(o)}

Create(w, o, u, items) ==
  /\ wrote[w].at = "idle" /\ rows[o] = NoRow
  /\ \A p \in Product : items[p] > 0 => p \in Listed
  /\ Change(o, InsertedRow(u, items))
  /\ wrote' = [wrote EXCEPT ![w] = [at |-> "invalidating", keys |-> Invalidated(u, o)]]

Cancel(w, o, u) ==
  /\ wrote[w].at = "idle" /\ Cancellable(rows[o], u)
  /\ Change(o, CancelledRow(rows[o]))
  /\ wrote' = [wrote EXCEPT ![w] = [at |-> "invalidating", keys |-> Invalidated(u, o)]]

\* UpdateOrderStatus publishes an event but leaves the caches alone.
UpdateStatus(w, o, s) ==
  /\ wrote[w].at = "idle" /\ Updatable(rows[o], s)
  /\ Change(o, UpdatedRow(rows[o], s))
  /\ wrote' = [wrote EXCEPT ![w].at = "done"]

Invalidate(w) ==
  /\ wrote[w].at = "invalidating"
  /\ wrote' = [wrote EXCEPT ![w] = [at |-> "done", keys |-> {}]]
  /\ \/ Evict(wrote[w].keys)
     \/ Lossy /\ UNCHANGED <<cache, kept, late>>
  /\ UNCHANGED <<rows, catalog, reading, sweep, past>>

-----------------------------------------------------------------------------
(***************************************************************************)
(* Readers.                                                                *)
(***************************************************************************)

\* Mutant: a hit refreshes the entry (the value is set again).
LookupSliding(r, k) ==
  /\ reading[r] = Idle
  /\ k \in ItemsKeys => rows[k[2]] # NoRow
  /\ IF cache[k] # NoEntry
       THEN reading' = [reading EXCEPT ![r] = [at |-> "storing", key |-> k, value |-> cache[k]]]
       ELSE reading' = [reading EXCEPT ![r] = [at |-> "missed", key |-> k]]
  /\ UNCHANGED <<rows, catalog, wrote, cache, sweep, past, kept, late>>

\* A hit answers the reader and changes nothing; an error of Redis is a miss.
\* Nobody knows the id of an order before it is committed.
Lookup(r, k) ==
  /\ reading[r] = Idle
  /\ k \in ItemsKeys => rows[k[2]] # NoRow
  /\ cache[k] = NoEntry \/ Lossy
  /\ reading' = [reading EXCEPT ![r] = [at |-> "missed", key |-> k]]
  /\ UNCHANGED <<rows, catalog, wrote, cache, sweep, past, kept, late>>

\* Mutant: a user without orders is cached like any other.
QueryKeepsEmpty(r) ==
  /\ reading[r].at = "missed"
  /\ LET k == reading[r].key IN
     reading' = [reading EXCEPT ![r] =
                   [at |-> "enriching", key |-> k,
                    value |-> IF k \in ListKeys THEN List(k[2]) ELSE ItemsOf(k[2])]]
  /\ UNCHANGED <<rows, catalog, wrote, cache, sweep, past, kept, late>>

\* The rows are read; no order at all is answered at once and not stored.
Query(r) ==
  /\ reading[r].at = "missed"
  /\ LET k == reading[r].key IN
     reading' = [reading EXCEPT ![r] =
                   IF k \in ListKeys /\ List(k[2]) = EmptyList
                     THEN Idle
                     ELSE [at |-> "enriching", key |-> k,
                           value |-> IF k \in ListKeys THEN List(k[2]) ELSE ItemsOf(k[2])]]
  /\ UNCHANGED <<rows, catalog, wrote, cache, sweep, past, kept, late>>

\* The catalog and the account service are asked: an error ends the request,
\* an answer is stored, for a list in a goroutine that outlives the request.
Enrich(r) ==
  /\ reading[r].at = "enriching"
  /\ \/ reading' = [reading EXCEPT ![r].at = "storing",
                      ![r].value = IF reading[r].key \in ListKeys THEN @ ELSE @ \cap Listed]
     \/ reading' = [reading EXCEPT ![r] = Idle]
  /\ UNCHANGED <<rows, catalog, wrote, cache, sweep, past, kept, late>>

Store(r) ==
  /\ reading[r].at = "storing"
  /\ LET k == reading[r].key  v == reading[r].value IN
     \/ /\ cache' = [cache EXCEPT ![k] = v]
        /\ late' = IF k \in ListKeys
                     THEN IF v = ValueOf(k) THEN late \ {k[2]} ELSE late \cup {k[2]}
                     ELSE late
     \/ Lossy /\ UNCHANGED <<cache, late>>
  /\ reading' = [reading EXCEPT ![r] = Idle]
  /\ UNCHANGED <<rows, catalog, wrote, sweep, past, kept>>

-----------------------------------------------------------------------------
(***************************************************************************)
(* Redis and the catalog (external).                                       *)
(***************************************************************************)

\* Five minutes after a list was stored, ten after the items.
Expire(k) ==
  /\ cache[k] # NoEntry
  /\ Evict({k})
  /\ UNCHANGED <<rows, catalog, wrote, reading, sweep, past>>

\* A product disappears from the catalog, and may come back (each once: this
\* bounds the model).
Relist(p) ==
  /\ \/ catalog[p] = "listed" /\ catalog' = [catalog EXCEPT ![p] = "gone"]
     \/ catalog[p] = "gone" /\ catalog' = [catalog EXCEPT ![p] = "back"]
  /\ UNCHANGED <<rows, wrote, reading, cache, sweep, past, kept, late>>

-----------------------------------------------------------------------------
(***************************************************************************)
(* ResetAllOrderCaches: one run, the lists first, then the items.          *)
(***************************************************************************)
Pattern(at) == IF at = "lists" THEN ListKeys ELSE ItemsKeys

ResetBegin ==
  /\ sweep.at = "idle"
  /\ sweep' = [at |-> "lists", left |-> Present]
  /\ kept' = Present
  /\ UNCHANGED <<rows, catalog, wrote, reading, cache, past, late>>

\* A SCAN returns some keys of the pattern; those are deleted.  That the Del
\* fails is only logged.
ResetBatch ==
  /\ sweep.at \in {"lists", "items"}
  /\ \E batch \in SUBSET (Present \cap Pattern(sweep.at)) :
       /\ batch # {}
       /\ sweep' = [sweep EXCEPT !.left = @ \ batch]
       /\ \/ Evict(batch)
          \/ Lossy /\ UNCHANGED <<cache, kept, late>>
  /\ UNCHANGED <<rows, catalog, wrote, reading, past>>

\* Mutant: one batch is all that is looked at, whatever cursor it returns.
ResetTurnFirstBatch ==
  /\ sweep.at \in {"lists", "items"}
  /\ sweep' = IF sweep.at = "lists"
                THEN [sweep EXCEPT !.at = "items"]
                ELSE [at |-> "ok", left |-> {}]
  /\ UNCHANGED <<rows, catalog, wrote, reading, cache, past, kept, late>>

\* The cursor is 0 again: every key that was there all the time was returned.
ResetTurn ==
  /\ sweep.at \in {"lists", "items"}
  /\ sweep.left \cap kept \cap Pattern(sweep.at) = {}
  /\ sweep' = IF sweep.at = "lists"
                THEN [sweep EXCEPT !.at = "items"]
                ELSE [at |-> "ok", left |-> {}]
  /\ UNCHANGED <<rows, catalog, wrote, reading, cache, past, kept, late>>

\* The error of a SCAN, the deadline of 30 seconds included, is returned.
ResetFails ==
  /\ sweep.at \in {"lists", "items"} /\ Lossy
  /\ sweep' = [at |-> "failed", left |-> {}]
  /\ UNCHANGED <<rows, catalog, wrote, reading, cache, past, kept, late>>

-----------------------------------------------------------------------------
Write(w) ==
  \E o \in OrderID :
    \/ \E u \in User, items \in [Product -> {0, 1}] : Create(w, o, u, items)
    \/ \E u \in User : Cancel(w, o, u)
    \/ \E s \in AdminStatus : UpdateStatus(w, o, s)

Read(r) == Query(r) \/ Enrich(r) \/ Store(r)
Reset == ResetBegin \/ ResetBatch \/ ResetTurn \/ ResetFails

Next ==
  \/ \E w \in Writer : Write(w) \/ Invalidate(w)
  \/ \E r \in Reader : Read(r) \/ \E k \in Key : Lookup(r, k)
  \/ \E k \in Key : Expire(k)
  \/ \E p \in Product : Relist(p)
  \/ Reset

Spec == Init /\ [][Next]_vars

\* Goroutines and requests run, and entries have a time to live.
FairSpec ==
  /\ Spec
  /\ \A w \in Writer : WF_vars(Invalidate(w))
  /\ \A r \in Reader : WF_vars(Read(r))
  /\ \A k \in Key : WF_vars(Expire(k))

-----------------------------------------------------------------------------
(***************************************************************************)
(* Properties.                                                             *)
(***************************************************************************)
Lists == [OrderID -> OrderStatus \cup {Absent}]
ValuesOf(k) == IF k \in ListKeys THEN Lists ELSE SUBSET Product

\* Every variable has its type; in particular a key of one kind never holds a
\* value of the other.
TypeOK ==
  /\ rows \in [OrderID -> Row]
  /\ catalog \in [Product -> {"listed", "gone", "back"}]
  /\ wrote \in [Writer -> [at: {"idle", "invalidating", "done"}, keys: SUBSET Key]]
  /\ DOMAIN reading = Reader
  /\ \A r \in Reader :
       \/ reading[r] = Idle
       \/ reading[r] \in [at: {"missed"}, key: Key]
       \/ \E k \in Key :
            reading[r] \in [at: {"enriching", "storing"}, key: {k}, value: ValuesOf(k)]
  /\ DOMAIN cache = Key
  /\ \A k \in Key : cache[k] \in {NoEntry} \cup ValuesOf(k)
  /\ sweep \in [at: {"idle", "lists", "items", "ok", "failed"}, left: SUBSET Key]
  /\ past \in [User -> SUBSET Lists]
  /\ kept \subseteq Key /\ late \subseteq User

\* A cached list is one the database has shown for this very user, never a
\* mixture of two moments and never another user's, and it is never the empty
\* list; cached items belong to their order.  (GetOrdersByUserID stores what one
\* SELECT returned, whatever happened since.)
CacheShowsThePast ==
  /\ \A u \in User : cache[ListKey(u)] \in {NoEntry} \cup (past[u] \ {EmptyList})
  /\ \A o \in OrderID : cache[ItemsKey(o)] # NoEntry => cache[ItemsKey(o)] \subseteq ItemsOf(o)

\* Where Redis loses nothing and only CreateOrder and CancelOrder write, a list
\* is old only while its invalidation is under way, or because a reader stored
\* what it had read before the change.
StaleHasCause ==
  \A u \in User : Stale(ListKey(u)) =>
    u \in late \/ \E w \in Writer : ListKey(u) \in wrote[w].keys

\* A sweep that reports success has deleted every key that was there from its
\* beginning to its end.
ResetEvicts == sweep.at = "ok" => kept = {}

\* Once nothing changes any more the caches stop showing the past, for ever,
\* whatever was lost and however often they are read: entries have a time to
\* live that a hit does not prolong.
CachesCatchUp == <>[](\A k \in Key : ~Stale(k))
=============================================================================
