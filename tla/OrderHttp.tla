----------------------------- MODULE OrderHttp ------------------------------
(***************************************************************************)
(* The web process seen from HTTP: cmd/web/main.go bringing it up, the     *)
(* authentication middleware, the handlers with their error mapping, and   *)
(* what a client is shown of an order while the catalog, which belongs to  *)
(* other services, changes between and during requests.                    *)
(*                                                                         *)
(* The transaction of a change is one step here (it is OrderSaga), and a   *)
(* cache holds any answer a reader has stored before (what it may still    *)
(* hold is OrderCache).  An order is named by the request that placed it.  *)
(***************************************************************************)
EXTENDS OrderAssembly

CONSTANTS
  Request,      \* the requests served, each once (bounds the model)
  User,
  Inputs,       \* what may be asked for
  Carts,        \* the lists of items a customer may send
  Offers,       \* the offers a product may have
  InitCatalog,
  None,         \* no order, no user, no answer
  MaxChanges    \* how often the catalog or an account changes (bounds the model)

ASSUME CartsAssumption == Carts \subseteq Seq(CartLine)
ASSUME OffersAssumption == Offers \subseteq Offer /\ Gone \notin Offer
ASSUME CatalogAssumption == InitCatalog \in [Product -> Offers \cup {Gone}]
ASSUME ChangesAssumption == MaxChanges \in Nat
ASSUME NoneAssumption == None \notin Request \cup User \cup 0 .. 599

VARIABLES
  server,     \* how far the process has come
  conn,       \* whether it has a database handle (a *sql.DB that is not nil)
  schema,     \* what golang-migrate has recorded: "none", "dirty" or "current"
  exchange,   \* whether the broker knows the exchange "order.events"
  catalog, accounts, changes,   \* products and sellers now; how often they changed
  input,      \* what each request asks for
  at,         \* where each request is
  code,       \* its HTTP status; None before it is answered
  work,       \* what its handler has read so far, and shown in the end
  placed,     \* the order of each request that placed one
  stored      \* history: what readers have put into Redis

process == <<server, conn, schema, exchange>>
outside == <<catalog, accounts, changes>>
requests == <<input, at, code, work>>
vars == <<process, outside, requests, placed, stored>>

-----------------------------------------------------------------------------
Route == {"create", "list", "items", "cancel", "reset"}
Form == {"well", "unreadable", "incomplete"}   \* of a body
Token == {"none", "malformed", "refused", "otherAudience", "noUser", "valid"}

\* A request; fields its route does not read have one value.
Input == [route: Route, token: Token, user: User, order: Request \cup {None},
          path: BOOLEAN, form: Form, cart: Carts]
NoInput == [route |-> None]
ASSUME InputsAssumption == Inputs \subseteq Input
NoOrder == [user |-> None]
NoWork == [lines |-> <<>>, orders |-> {}, details |-> <<>>, sellers |-> {}, view |-> <<>>]

Placed(o) == placed[o].user # None
Open(o) == Placed(o) /\ placed[o].cancelledBy = None
Stages == {"idle", "auth", "service", "placing", "querying", "products", "accounts"}
Ended == {"answered", "dropped"}

Init ==
  /\ server = "down" /\ conn = FALSE
  /\ schema = "none" /\ exchange = FALSE
  /\ catalog = InitCatalog /\ accounts = Seller /\ changes = 0
  /\ input = [r \in Request |-> NoInput]
  /\ at = [r \in Request |-> "idle"]
  /\ code = [r \in Request |-> None]
  /\ work = [r \in Request |-> NoWork]
  /\ placed = [r \in Request |-> NoOrder]
  /\ stored = {}

-----------------------------------------------------------------------------
(***************************************************************************)
(* main: every step either succeeds or ends the process (log.Fatalf),      *)
(* except the ping of the database, whose error is only logged.            *)
(***************************************************************************)
GoOn(stage) == server' = stage /\ UNCHANGED <<conn, outside, requests, placed, stored>>
Fatal ==
  server' = "down" /\ conn' = FALSE /\ UNCHANGED <<outside, requests, placed, stored>>

\* The configuration was read; without it the process ends here.
Start ==
  /\ server = "down"
  /\ GoOn("connecting")
  /\ UNCHANGED <<schema, exchange>>

\* Connect: a handle, or an error and a nil handle.
Connect ==
  /\ server = "connecting"
  /\ server' = "migrating" /\ conn' \in BOOLEAN
  /\ UNCHANGED <<schema, exchange, outside, requests, placed, stored>>

\* Mutant: the error of Up is logged.
MigrateOrLog ==
  /\ server = "migrating"
  /\ schema' = IF schema = "none" THEN "current" ELSE schema
  /\ GoOn("broker")
  /\ UNCHANGED exchange

\* migrate.Up over a connection of its own: a dirty schema is refused, a migration
\* that breaks off leaves one, a database that is not there leaves things alone.
Migrate ==
  /\ server = "migrating"
  /\ \/ schema # "dirty" /\ schema' = "current" /\ GoOn("broker")
     \/ schema = "none" /\ schema' = "dirty" /\ Fatal
     \/ UNCHANGED schema /\ Fatal
  /\ UNCHANGED exchange

\* Redis and gRPC connect when they are first used; RabbitMQ and the exchange must
\* be there before the server listens.
Broker ==
  /\ server = "broker"
  /\ \/ exchange' = TRUE /\ GoOn("serving")
     \/ UNCHANGED exchange /\ Fatal
  /\ UNCHANGED <<schema>>

\* The process is killed, and nobody answers what it was serving.
Die ==
  /\ server # "down"
  /\ server' = "down" /\ conn' = FALSE
  /\ \/ UNCHANGED schema
     \/ server = "migrating" /\ schema = "none" /\ schema' = "dirty"
  /\ at' = [r \in Request |-> IF at[r] \in {"idle"} \cup Ended THEN at[r] ELSE "dropped"]
  /\ work' = [r \in Request |-> IF at[r] \in Ended THEN work[r] ELSE NoWork]
  /\ UNCHANGED <<exchange, outside, input, code, placed, stored>>

-----------------------------------------------------------------------------
(***************************************************************************)
(* Catalog and account service (external): another offer for a product, a  *)
(* product or a seller that disappears.                                    *)
(***************************************************************************)
Reoffer(p) ==
  /\ changes < MaxChanges
  /\ \E offer \in (Offers \cup {Gone}) \ {catalog[p]} :
       catalog' = [catalog EXCEPT ![p] = offer]
  /\ changes' = changes + 1
  /\ UNCHANGED <<process, accounts, requests, placed, stored>>

SellerLeaves(s) ==
  /\ changes < MaxChanges
  /\ s \in accounts
  /\ accounts' = accounts \ {s}
  /\ changes' = changes + 1
  /\ UNCHANGED <<process, catalog, requests, placed, stored>>

-----------------------------------------------------------------------------
(***************************************************************************)
(* Requests, from the middleware to the service.                           *)
(***************************************************************************)
To(r, stage) == at' = [at EXCEPT ![r] = stage] /\ UNCHANGED code
Answer(r, status) ==
  at' = [at EXCEPT ![r] = "answered"] /\ code' = [code EXCEPT ![r] = status]
Fail(r, status) == Answer(r, status) /\ work' = [work EXCEPT ![r] = NoWork]
Unchanged == UNCHANGED <<process, outside, placed, stored>>

\* A panic: nothing in main recovers it, net/http closes the connection.
Panic(r) ==
  /\ at' = [at EXCEPT ![r] = "dropped"] /\ work' = [work EXCEPT ![r] = NoWork]
  /\ UNCHANGED <<code, placed>>

Arrive(r, in) ==
  /\ server = "serving" /\ at[r] = "idle"
  /\ in.order # None => Placed(in.order)
  /\ input' = [input EXCEPT ![r] = in]
  /\ To(r, "auth")
  /\ UNCHANGED work /\ Unchanged

\* What the handlers take from the request: the user of the token, the id in the
\* path, the body; None if all is there.
Refusal(in) ==
  CASE in.route \in {"items", "cancel"} /\ ~in.path -> 400
    [] in.route \in {"create", "list", "cancel"} /\ in.token = "noUser" -> 401
    [] in.route = "create" /\ in.form = "unreadable" -> 400
    [] OTHER -> None

\* AuthMiddleware: the header; ValidateToken of the account service, whose error,
\* Unauthenticated and its deadline included, is the server's fault; the
\* signature and the audience, checked here.  Then the handler itself begins.
AuthMiddleware(r) ==
  LET token == input[r].token IN
  /\ at[r] = "auth"
  /\ \/ token = "none" /\ Answer(r, 401)
     \/ token = "malformed" /\ Answer(r, 400)
     \/ token \notin {"none", "malformed"} /\ Answer(r, 500)
     \/ token \in {"refused", "otherAudience"} /\ Answer(r, 401)
     \/ /\ token \in {"noUser", "valid"}
        /\ IF Refusal(input[r]) # None THEN Answer(r, Refusal(input[r])) ELSE To(r, "service")
  /\ UNCHANGED <<input, work>> /\ Unchanged

\* Mutant: what is not listed is the client's fault.
handleGetErrorBlamed(error) == 400

\* The codes of service errors.  None of those the service returns is listed.
handleGetError(error) ==
  CASE error \in {"ErrInvalidUserInput", "ErrInvalidCartOperation"} -> 400
    [] error \in {"ErrInsufficientStock", "ErrCartAlreadyCheckedOut"} -> 403
    [] OTHER -> 500
handleOperationError(error) ==
  CASE error \in {"ErrProductNotBelongToSeller", "ErrInvalidUserInput",
                  "ErrInvalidCartOperation"} -> 403
    [] error \in {"ErrInvalidProductUpdatePayload", "ErrInsufficientStock",
                  "ErrCartAlreadyCheckedOut"} -> 400
    [] OTHER -> 500

-----------------------------------------------------------------------------
(***************************************************************************)
(* CreateOrder, CancelOrder and ResetAllOrderCaches of the service.        *)
(***************************************************************************)

\* The request is validated, the products fetched, the order put together.
CreateAssemble(r) ==
  LET in == input[r]
      details == fetchProductDetails(catalog, ProductsOf(in.cart))
      error == CartError(in.cart, details)
  IN
  /\ at[r] = "service" /\ in.route = "create"
  /\ \/ in.form = "incomplete" /\ Answer(r, handleOperationError("ErrInvalidRequestPayload"))
          /\ UNCHANGED work
     \/ in.form = "well" /\ Answer(r, handleOperationError("other")) /\ UNCHANGED work
     \/ in.form = "well" /\ error # "none" /\ Answer(r, handleOperationError(error))
          /\ UNCHANGED work
     \/ /\ in.form = "well" /\ error = "none"
        /\ To(r, "placing")
        /\ work' = [work EXCEPT ![r].lines = LinesOf(in.cart, details)]
  /\ UNCHANGED input /\ Unchanged

\* What is committed for r; taken is what DecreaseStock was sent.
OrderOf(r) ==
  [user |-> input[r].user, rows |-> RowsOf(work[r].lines), total |-> TotalOf(work[r].lines),
   taken |-> Units(input[r].cart), cancelledBy |-> None, back |-> Units(<<>>)]

\* The transaction: a panic without a handle, an error of any step, and a commit
\* whose answer may be lost.
CreatePlace(r) ==
  /\ at[r] = "placing"
  /\ \/ ~conn /\ Panic(r)
     \/ /\ conn /\ UNCHANGED placed
        /\ \E error \in {"ErrProductOutOfStock", "other"} : Fail(r, handleOperationError(error))
     \/ /\ conn /\ Fits(work[r].lines)
        /\ placed' = [placed EXCEPT ![r] = OrderOf(r)]
        /\ work' = [work EXCEPT ![r] = NoWork]
        /\ Answer(r, 201) \/ Answer(r, handleOperationError("other"))
  /\ UNCHANGED <<input, process, outside, stored>>

\* Mutant: the order is looked up by its id alone.
MayCancelAny(in) == Open(in.order)

\* The WHERE clause of CancelOrder.
MayCancel(in) == Open(in.order) /\ placed[in.order].user = in.user

Cancel(r) ==
  LET in == input[r] IN
  /\ at[r] = "service" /\ in.route = "cancel"
  /\ \/ ~conn /\ Panic(r)
     \/ conn /\ Answer(r, handleGetError("other")) /\ UNCHANGED <<placed, work>>
     \/ /\ conn /\ in.order # None /\ MayCancel(in)
        /\ placed' = [placed EXCEPT ![in.order] =
             [@ EXCEPT !.cancelledBy = r, !.back = UnitsBack(placed[in.order].rows)]]
        /\ Answer(r, 200) \/ Answer(r, handleGetError("other"))
        /\ UNCHANGED work
  /\ UNCHANGED <<input, process, outside, stored>>

\* The sweep, whose errors may leave any key behind.
ResetAllOrderCaches(r) ==
  /\ at[r] = "service" /\ input[r].route = "reset"
  /\ stored' \in SUBSET stored
  /\ Answer(r, 200) \/ Answer(r, handleOperationError("other"))
  /\ UNCHANGED <<input, work, process, outside, placed>>

-----------------------------------------------------------------------------
(***************************************************************************)
(* GetOrdersByUserID ("list") and GetOrderItemsByOrderID ("items").        *)
(***************************************************************************)
Key(in) == IF in.route = "list" THEN <<"orders_user", in.user>> ELSE <<"order_items", in.order>>
Success(in) == IF in.route = "list" THEN 201 ELSE 200
Reads(r) == input[r].route \in {"list", "items"}

\* The nil id has no items; a hit is answered as it was stored; anything else,
\* an error of Redis included, is a miss.
ReadLookup(r) ==
  LET in == input[r] IN
  /\ at[r] = "service" /\ Reads(r)
  /\ \/ in.route = "items" /\ in.order = None /\ Answer(r, 200) /\ UNCHANGED work
     \/ \E entry \in stored :
          /\ entry.key = Key(in)
          /\ work' = [work EXCEPT ![r] = entry.work]
          /\ Answer(r, Success(in))
     \/ To(r, "querying") /\ UNCHANGED work
  /\ UNCHANGED input /\ Unchanged

\* The orders whose rows are selected.
Selected(in) ==
  IF in.route = "items" THEN {in.order} \ {None}
  ELSE {o \in Request : Open(o) /\ placed[o].user = in.user}

ReadQuery(r) ==
  LET in == input[r] IN
  /\ at[r] = "querying"
  /\ \/ ~conn /\ Panic(r)
     \/ conn /\ Answer(r, handleGetError("other")) /\ UNCHANGED work
     \/ conn /\ in.route = "list" /\ Selected(in) = {} /\ Answer(r, 201) /\ UNCHANGED work
     \/ /\ conn /\ (in.route = "list" => Selected(in) # {})
        /\ work' = [work EXCEPT ![r].orders = Selected(in)]
        /\ To(r, "products")
  /\ UNCHANGED <<input, placed>> /\ Unchanged

\* Whether a read asks the other services at all: a list without items does not.
Asks(r) == input[r].route = "items" \/ \E o \in work[r].orders : placed[o].rows # <<>>

ReadProducts(r) ==
  LET products == UNION {ProductsOf(placed[o].rows) : o \in work[r].orders} IN
  /\ at[r] = "products"
  /\ \/ Asks(r) /\ Fail(r, handleGetError("other"))
     \/ /\ To(r, "accounts")
        /\ work' = [work EXCEPT ![r].details = fetchProductDetails(catalog, products)]
  /\ UNCHANGED input /\ Unchanged

\* What r is shown of order o.
ViewOf(r, o, sellers) ==
  IF input[r].route = "list" THEN ListView(placed[o].rows, work[r].details)
  ELSE ItemsView(placed[o].rows, work[r].details, sellers)

\* Mutant: a product that was not returned is used all the same.
ReadAccountsUnchecked(r) ==
  /\ at[r] = "accounts"
  /\ IF \E o \in work[r].orders : ~ (ProductsOf(placed[o].rows) \subseteq DOMAIN work[r].details)
       THEN Panic(r)
       ELSE Answer(r, Success(input[r])) /\ UNCHANGED <<work, placed>>
  /\ UNCHANGED <<input, process, outside, stored>>

\* The sellers are looked up, the view is put together and stored, if Redis can.
ReadAccounts(r) ==
  LET wanted == UNION {SellersOf(placed[o].rows) : o \in work[r].orders}
      sellers == fetchAccountDetails(accounts, wanted)
  IN
  /\ at[r] = "accounts"
  /\ \/ Asks(r) /\ Fail(r, handleGetError("other")) /\ UNCHANGED stored
     \/ /\ work' = [work EXCEPT ![r].sellers = sellers,
                   ![r].view = [o \in work[r].orders |-> ViewOf(r, o, sellers)]]
        /\ Answer(r, Success(input[r]))
        /\ stored' \in {stored, stored \cup {[key |-> Key(input[r]), work |-> work'[r]]}}
  /\ UNCHANGED <<input, process, outside, placed>>

-----------------------------------------------------------------------------
Main == Start \/ Connect \/ Migrate \/ Broker \/ Die

Serve(r) ==
  \/ AuthMiddleware(r)
  \/ CreateAssemble(r) \/ CreatePlace(r) \/ Cancel(r) \/ ResetAllOrderCaches(r)
  \/ ReadLookup(r) \/ ReadQuery(r) \/ ReadProducts(r) \/ ReadAccounts(r)

Next ==
  \/ Main
  \/ \E p \in Product : Reoffer(p)
  \/ \E s \in Seller : SellerLeaves(s)
  \/ \E r \in Request : Serve(r) \/ \E in \in Inputs : Arrive(r, in)

Spec == Init /\ [][Next]_vars

-----------------------------------------------------------------------------
(***************************************************************************)
(* Properties.                                                             *)
(***************************************************************************)
PlacedOrder ==
  [user: User, rows: Seq(ItemRow), total: 0 .. MaxTotal, taken: [Product -> Nat],
   cancelledBy: Request \cup {None}, back: [Product -> Nat]]

\* Every variable has its type; in particular no total is wider than its column and
\* every ordered quantity is positive.
TypeOK ==
  /\ server \in {"down", "connecting", "migrating", "broker", "serving"}
  /\ conn \in BOOLEAN /\ exchange \in BOOLEAN
  /\ schema \in {"none", "dirty", "current"}
  /\ changes \in 0 .. MaxChanges
  /\ catalog \in [Product -> Offers \cup {Gone}] /\ accounts \subseteq Seller
  /\ at \in [Request -> Stages \cup Ended]
  /\ code \in [Request -> {None, 200, 201, 400, 401, 403, 500}]
  /\ \A r \in Request :
       /\ input[r] \in Input \cup {NoInput}
       /\ at[r] = "answered" <=> code[r] # None
       /\ Placed(r) =>
            /\ placed[r] \in PlacedOrder
            /\ \A i \in DOMAIN placed[r].rows : placed[r].rows[i].quantity > 0

\* What a view shows, for a request that was shown something.
Shown(r) == code[r] \in {200, 201} /\ Reads(r)
SumOf(items) == SumFunction([item \in items |-> item.price * item.quantity])

\* What rounding can add to each unit and to the total, in half parts of a cent: less
\* than half a cent, and nothing if every price is in whole cents (Parts = 1).
Slack(rows) == (Parts - 1) * (SumFunction([i \in DOMAIN rows |-> rows[i].quantity]) + 1)
NoMore(cents, others, slack) == 2 * Parts * cents <= 2 * Parts * others + slack

\* Whatever the catalog did since, and from whatever cache the answer came, the items
\* of every order in a list add up to the total the order was placed for, and it is
\* the reader's own; the items of one order never add up to more than its total.  Both
\* up to what rounding the prices and the total, each for itself, makes of them.
ViewsAddUp ==
  \A r \in Request : Shown(r) => \A o \in DOMAIN work[r].view :
    LET sum == SumOf(work[r].view[o])
        slack == Slack(placed[o].rows)
    IN
    /\ NoMore(sum, placed[o].total, slack)
    /\ input[r].route = "list" =>
         NoMore(placed[o].total, sum, slack) /\ placed[o].user = input[r].user

\* An item is missing from the items of its order only if, when the catalog and the
\* accounts were asked, the product was gone, had another seller, or its seller had
\* left: a change of its price hides nothing.  (A row whose product's id did not parse
\* is of no product of the catalog.)
MissingHasCause ==
  \A r \in Request : Shown(r) /\ input[r].route = "items" =>
    \A o \in DOMAIN work[r].view : \A i \in DOMAIN placed[o].rows :
      LET row == placed[o].rows[i] IN
      (\A item \in work[r].view[o] : item.id # i) =>
        \/ row.product \notin DOMAIN work[r].details
        \/ work[r].details[row.product].seller # row.seller
        \/ row.seller \notin work[r].sellers

\* An item is shown under a seller it was not bought from only if another item of the
\* same order was bought from that seller: the accounts are looked up by the stored
\* sellers and the items matched by the catalog's.
WrongSellerHasCause ==
  \A r \in Request : Shown(r) => \A o \in DOMAIN work[r].view : \A item \in work[r].view[o] :
    item.seller \in SellersOf(placed[o].rows)

\* A cancellation gives back what the creation took, product by product, although
\* one is summed over the cart and the other over the rows, and a product may be in
\* either more than once; only a product whose id is no uuid gets nothing back.
StockBothWays ==
  \A o \in Request : Placed(o) => \A p \in Product :
    placed[o].back[p] = IF Open(o) \/ p \notin Uuid THEN 0 ELSE placed[o].taken[p]

\* Success is never told for something that did not happen, or happened to somebody
\* else's order.
SuccessIsTrue ==
  \A r \in Request : code[r] \in {200, 201} =>
    /\ input[r].route = "create" => Placed(r) /\ placed[r].user = input[r].user
    /\ input[r].route = "cancel" =>
         /\ placed[input[r].order].cancelledBy = r
         /\ placed[input[r].order].user = input[r].user

\* A client that is told that its request was wrong has changed nothing: a failing
\* commit, after which nobody knows, is never the client's fault.
RefusedMeansUntouched ==
  \A r \in Request : code[r] \in 400 .. 499 =>
    ~Placed(r) /\ \A o \in Request : Placed(o) => placed[o].cancelledBy # r

\* The server listens only when its tables are there, whole, and the exchange is
\* known to the broker, whatever was killed in the middle before.
ServingIsReady == server = "serving" => schema = "current" /\ exchange

\* A request ends without an answer only if the process dies, or was started when
\* the database did not answer its ping: then it serves without a handle.
SilenceHasCause ==
  [][\A r \in Request : (at[r] # "dropped" /\ at'[r] = "dropped") =>
       server' = "down" \/ ~conn]_vars
=============================================================================
