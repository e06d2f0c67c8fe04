--------------------------- MODULE OrderHttpProofs ---------------------------
(***************************************************************************)
(* Theorems about OrderHttp, for every set of requests, users, products,   *)
(* sellers, inputs, carts and offers and any number of changes.            *)
(***************************************************************************)
EXTENDS OrderHttp, SumTheorems

\* The process has made sure of its tables before it goes on to the broker.
ProcessAccounts ==
  /\ server \in {"down", "connecting", "migrating", "broker", "serving"}
  /\ server \in {"broker", "serving"} => schema = "current"
  /\ server = "serving" => exchange

\* The shapes the steps rely on; amounts are left open.
Shaped(w) ==
  w = [lines |-> w.lines, orders |-> w.orders, details |-> w.details,
       sellers |-> w.sellers, view |-> w.view]
Shapes ==
  /\ at \in [Request -> Stages \cup Ended]
  /\ code \in [Request -> {None, 200, 201, 400, 401, 403, 500}]
  /\ input \in [Request -> Input \cup {NoInput}]
  /\ work = [r \in Request |-> work[r]] /\ \A r \in Request : Shaped(work[r])
  /\ placed = [r \in Request |-> placed[r]]
  /\ \A o \in Request : Placed(o) =>
       placed[o] = [user |-> placed[o].user, rows |-> placed[o].rows,
                    total |-> placed[o].total, taken |-> placed[o].taken,
                    cancelledBy |-> placed[o].cancelledBy, back |-> placed[o].back]

\* A request goes only where its route leads, names an order that was placed, and
\* has a code only when it was answered.
StageAgrees(r) ==
  /\ at[r] # "answered" => code[r] = None
  /\ at[r] # "idle" =>
       /\ input[r] \in Input
       /\ input[r].order # None => Placed(input[r].order)
  /\ at[r] = "placing" => input[r].route = "create"
  /\ at[r] \in {"querying", "products", "accounts"} => Reads(r)
StagesAgree == \A r \in Request : StageAgrees(r)

\* What rows give back of what was taken: nothing of a product whose id is no uuid.
GivesBack(units, taken) ==
  \A p \in Product : units[p] = IF p \in Uuid THEN taken[p] ELSE 0

\* An order was placed by its creation, and cancelled by a request for that, of the
\* same user; neither was told that it was wrong.
OrderAccounted(o) ==
  /\ at[o] = "answered" /\ code[o] \in {201, 500} /\ input[o].route = "create"
  /\ placed[o].user = input[o].user
  /\ GivesBack(Units(placed[o].rows), placed[o].taken)
CancelAccounted(o, c) ==
  /\ GivesBack(placed[o].back, placed[o].taken)
  /\ c \in Request /\ at[c] = "answered" /\ code[c] \in {200, 500}
  /\ input[c].route = "cancel" /\ input[c].order = o
  /\ input[c].user = placed[o].user
PlacedAccounts ==
  \A o \in Request : Placed(o) =>
    /\ OrderAccounted(o)
    /\ IF placed[o].cancelledBy = None THEN placed[o].back = Units(<<>>)
       ELSE CancelAccounted(o, placed[o].cancelledBy)

\* The lines of an order on its way in are of as many units as its cart.
PlacingAccounts ==
  \A r \in Request : at[r] = "placing" => Units(work[r].lines) = Units(input[r].cart)

\* A success was one.
SuccessAccounts ==
  \A r \in Request : code[r] \in {200, 201} =>
    /\ input[r].route = "create" => Placed(r)
    /\ input[r].route = "cancel" =>
         LET o == input[r].order IN o \in Request /\ Placed(o) /\ placed[o].cancelledBy = r

\* What is read of orders, on its way to the client or kept in Redis.
OfPlaced(table, w) ==
  /\ w.orders \subseteq Request /\ \A o \in w.orders : table[o].user # None
  /\ DOMAIN w.view \subseteq w.orders
  /\ \A o \in DOMAIN w.view : \A item \in w.view[o] : item.seller \in SellersOf(table[o].rows)
NothingHidden(table, w) ==
  \A o \in DOMAIN w.view : \A i \in DOMAIN table[o].rows :
    LET row == table[o].rows[i] IN
    (\A item \in w.view[o] : item.id # i) =>
      \/ row.product \notin DOMAIN w.details
      \/ w.details[row.product].seller # row.seller
      \/ row.seller \notin w.sellers
WorkAccounted(table, asked, stage, w) ==
  /\ OfPlaced(table, w)
  /\ stage # "answered" => w.view = <<>>
  /\ asked.route = "items" =>
       /\ NothingHidden(table, w)
       /\ stage \in {"products", "accounts"} => w.orders \subseteq {asked.order}
EntryAccounted(table, entry) ==
  /\ Shaped(entry.work) /\ OfPlaced(table, entry.work)
  /\ entry.key[1] = "order_items" => NothingHidden(table, entry.work)
ViewAccounts ==
  /\ \A r \in Request : WorkAccounted(placed, input[r], at[r], work[r])
  /\ \A entry \in stored : EntryAccounted(placed, entry)

HInv ==
  /\ ProcessAccounts /\ Shapes /\ StagesAgree /\ PlacedAccounts /\ PlacingAccounts
  /\ SuccessAccounts /\ ViewAccounts

-----------------------------------------------------------------------------
\* The stages of a request are apart.
LEMMA StagesApart ==
  /\ "answered" \notin Stages /\ "dropped" \notin Stages
  /\ {"answered", "dropped"} = Ended
  /\ {"idle", "auth", "service", "placing", "querying", "products", "accounts"} = Stages
  BY DEF Stages, Ended

\* Nothing has been read yet.
LEMMA NoWorkIsFine ==
  /\ Shaped(NoWork)
  /\ \A table, asked, stage : WorkAccounted(table, asked, stage, NoWork)
<1>1. DOMAIN NoWork.view = {}
  BY DEF NoWork
<1> QED
  BY <1>1 DEF NoWork, Shaped, OfPlaced, NothingHidden, WorkAccounted

\* The initial state.
LEMMA InitHInv == Init => HInv
<1> SUFFICES ASSUME Init PROVE HInv
  OBVIOUS
<1>1. ASSUME NEW r \in Request PROVE at[r] = "idle" /\ code[r] = None /\ work[r] = NoWork
  BY DEF Init
<1>2. \A o \in Request : ~Placed(o)
  BY DEF Init, NoOrder, Placed
<1>3. Shapes
  <2>1. at \in [Request -> Stages \cup Ended] /\ code \in [Request -> {None, 200, 201, 400, 401, 403, 500}]
    BY DEF Init, Stages
  <2>2. input \in [Request -> Input \cup {NoInput}] /\ placed = [r \in Request |-> placed[r]]
    BY DEF Init
  <2>3. work = [r \in Request |-> work[r]]
    BY DEF Init
  <2> QED
    BY <1>1, <1>2, <2>1, <2>2, <2>3, NoWorkIsFine DEF Shapes
<1>4. ProcessAccounts
  BY DEF Init, ProcessAccounts
<1>5. StagesAgree /\ PlacingAccounts
  BY <1>1 DEF StagesAgree, StageAgrees, PlacingAccounts
<1>6. PlacedAccounts
  BY <1>2 DEF PlacedAccounts
<1>7. ViewAccounts
  BY <1>1, NoWorkIsFine DEF ViewAccounts, Init
<1>8. SuccessAccounts
  BY <1>1, NoneAssumption DEF SuccessAccounts
<1> QED
  BY <1>3, <1>4, <1>5, <1>6, <1>7, <1>8 DEF HInv

\* Who takes a step.
ServeOrArrive(r) == Serve(r) \/ \E in \in Inputs : Arrive(r, in)
Outside == (\E p \in Product : Reoffer(p)) \/ (\E s \in Seller : SellerLeaves(s))

\* A step is of the process, of other services, or of one request.
LEMMA NextSplits ==
  ASSUME Next
  PROVE  Main \/ Outside \/ \E r \in Request : ServeOrArrive(r)
  BY DEF Next, ServeOrArrive, Outside

\* A request leaves the process alone.
LEMMA ServingKeepsProcess ==
  ASSUME NEW r \in Request, ServeOrArrive(r)
  PROVE  UNCHANGED process
<1>1. CASE \E in \in Inputs : Arrive(r, in)
  BY <1>1 DEF Arrive, Unchanged
<1>2. CASE AuthMiddleware(r) \/ CreateAssemble(r) \/ ReadLookup(r) \/ ReadQuery(r) \/ ReadProducts(r)
  BY <1>2 DEF AuthMiddleware, CreateAssemble, ReadLookup, ReadQuery, ReadProducts, Unchanged
<1>3. CASE CreatePlace(r) \/ Cancel(r) \/ ResetAllOrderCaches(r) \/ ReadAccounts(r)
  BY <1>3 DEF CreatePlace, Cancel, ResetAllOrderCaches, ReadAccounts
<1> QED
  BY <1>1, <1>2, <1>3 DEF ServeOrArrive, Serve

\* The order of start-up: no way to the broker but over a whole schema.
LEMMA ProcessStep ==
  ASSUME ProcessAccounts, [Next]_vars
  PROVE  ProcessAccounts'
<1>1. CASE UNCHANGED process
  BY <1>1 DEF ProcessAccounts, process
<1>2. CASE Main
  <2>1. CASE Start
    BY <2>1 DEF Start, GoOn, ProcessAccounts
  <2>2. CASE Connect
    BY <2>2 DEF Connect, ProcessAccounts
  <2>3. CASE Migrate
    BY <2>3 DEF Migrate, GoOn, Fatal, ProcessAccounts
  <2>4. CASE Broker
    BY <2>4 DEF Broker, GoOn, Fatal, ProcessAccounts
  <2>5. CASE Die
    BY <2>5 DEF Die, ProcessAccounts
  <2> QED
    BY <1>2, <2>1, <2>2, <2>3, <2>4, <2>5 DEF Main
<1>3. CASE Outside
  BY <1>1, <1>3 DEF Outside, Reoffer, SellerLeaves
<1>4. CASE \E r \in Request : ServeOrArrive(r)
  BY <1>1, <1>4, ServingKeepsProcess
<1>5. CASE UNCHANGED vars
  BY <1>1, <1>5 DEF vars
<1> QED
  BY <1>2, <1>3, <1>4, <1>5, NextSplits

-----------------------------------------------------------------------------
\* Where a request goes: to another stage, or to its answer.
Moves(r) ==
  \/ \E stage \in Stages \ {"idle"} : To(r, stage)
  \/ \E status \in {200, 201, 400, 401, 403, 500} : Answer(r, status)
  \/ at' = [at EXCEPT ![r] = "dropped"] /\ UNCHANGED code

\* Every error of the service has a code of its switch.
LEMMA Errors ==
  \A error : handleGetError(error) \in {400, 403, 500} /\ handleOperationError(error) \in {400, 403, 500}
  BY DEF handleGetError, handleOperationError

\* A step of a request moves it on, and changes what it has read.
LEMMA OneMoves ==
  ASSUME NEW r \in Request, ServeOrArrive(r)
  PROVE  /\ Moves(r)
         /\ at[r] \in Stages
         /\ input' = input \/ \E in \in Inputs : Arrive(r, in)
<1>1. ASSUME NEW in \in Inputs, Arrive(r, in)
      PROVE  Moves(r) /\ at[r] \in Stages
  BY <1>1 DEF Arrive, Moves, Stages
<1>2. CASE AuthMiddleware(r)
  <2>1. Refusal(input[r]) # None => Refusal(input[r]) \in {400, 401}
    BY DEF Refusal
  <2> QED
    BY <1>2, <2>1 DEF AuthMiddleware, Moves, Stages
<1>3. CASE CreateAssemble(r)
  BY <1>3, Errors DEF CreateAssemble, Moves, Stages
<1>4. CASE CreatePlace(r)
  BY <1>4, Errors DEF CreatePlace, Panic, Fail, Moves, Stages
<1>5. CASE Cancel(r)
  BY <1>5, Errors DEF Cancel, Panic, Moves, Stages
<1>6. CASE ResetAllOrderCaches(r)
  BY <1>6, Errors DEF ResetAllOrderCaches, Moves, Stages
<1>7. CASE ReadLookup(r) \/ ReadQuery(r)
  BY <1>7, Errors DEF ReadLookup, ReadQuery, Panic, Success, Moves, Stages
<1>8. CASE ReadProducts(r) \/ ReadAccounts(r)
  BY <1>8, Errors DEF ReadProducts, ReadAccounts, Fail, Success, Moves, Stages
<1>9. Serve(r) => input' = input
  BY DEF Serve, AuthMiddleware, CreateAssemble, CreatePlace, Cancel, ResetAllOrderCaches,
         ReadLookup, ReadQuery, ReadProducts, ReadAccounts
<1> QED
  BY <1>1, <1>2, <1>3, <1>4, <1>5, <1>6, <1>7, <1>8, <1>9 DEF ServeOrArrive, Serve

\* What a step of r does to what has been read.
LEMMA OneWorks ==
  ASSUME Shapes, NEW r \in Request, ServeOrArrive(r)
  PROVE  /\ work' = [q \in Request |-> work'[q]]
         /\ \A q \in Request \ {r} : work'[q] = work[q]
         /\ \/ work'[r] \in {work[r], NoWork}
            \/ CreateAssemble(r) /\ at'[r] = "placing" /\ work'[r].lines =
                 LinesOf(input[r].cart, fetchProductDetails(catalog, ProductsOf(input[r].cart)))
                 /\ work'[r] = [work[r] EXCEPT !.lines = work'[r].lines]
            \/ ReadLookup(r) /\ \E entry \in stored : entry.key = Key(input[r]) /\ work'[r] = entry.work
            \/ ReadQuery(r) /\ work'[r] = [work[r] EXCEPT !.orders = Selected(input[r])]
            \/ ReadProducts(r) /\ work'[r] = [work[r] EXCEPT !.details = work'[r].details]
            \/ ReadAccounts(r) /\ LET sellers == work'[r].sellers IN
                 /\ sellers \subseteq UNION {SellersOf(placed[o].rows) : o \in work[r].orders}
                 /\ work'[r] = [work[r] EXCEPT !.sellers = sellers,
                                  !.view = [o \in work[r].orders |-> ViewOf(r, o, sellers)]]
<1>0. work = [q \in Request |-> work[q]] /\ Shaped(work[r])
  BY DEF Shapes
<1>1. CASE UNCHANGED work \/ work' = [work EXCEPT ![r] = NoWork]
  BY <1>0, <1>1
<1>2. CASE CreateAssemble(r) /\ ~UNCHANGED work
  <2> DEFINE lines == LinesOf(input[r].cart, fetchProductDetails(catalog, ProductsOf(input[r].cart)))
  <2>1. work' = [work EXCEPT ![r] = [work[r] EXCEPT !.lines = lines]] /\ To(r, "placing")
    BY <1>2 DEF CreateAssemble
  <2>2. at'[r] = "placing"
    BY <2>1 DEF To, Shapes
  <2> HIDE DEF lines
  <2>3. work'[r] = [work[r] EXCEPT !.lines = lines]
    BY <1>0, <2>1
  <2>4. work'[r].lines = lines
    BY <1>0, <2>3 DEF Shaped
  <2> QED
    BY <1>0, <1>2, <2>1, <2>2, <2>3, <2>4 DEF lines
<1>3. CASE ReadLookup(r) /\ ~UNCHANGED work
  BY <1>0, <1>3 DEF ReadLookup
<1>4. CASE ReadQuery(r) /\ ~UNCHANGED work /\ work' # [work EXCEPT ![r] = NoWork]
  <2>1. work' = [work EXCEPT ![r] = [work[r] EXCEPT !.orders = Selected(input[r])]]
    BY <1>4 DEF ReadQuery, Panic
  <2> QED
    BY <1>0, <1>4, <2>1
<1>5. CASE ReadProducts(r) /\ ~UNCHANGED work /\ work' # [work EXCEPT ![r] = NoWork]
  <2>1. PICK details : work' = [work EXCEPT ![r] = [work[r] EXCEPT !.details = details]]
    BY <1>5 DEF ReadProducts, Fail
  <2>2. work'[r] = [work[r] EXCEPT !.details = details] /\ work'[r].details = details
    BY <1>0, <2>1 DEF Shaped
  <2> QED
    BY <1>0, <1>5, <2>1, <2>2
<1>6. CASE ReadAccounts(r) /\ work' # [work EXCEPT ![r] = NoWork]
  <2> DEFINE wanted == UNION {SellersOf(placed[o].rows) : o \in work[r].orders}
             found == fetchAccountDetails(accounts, wanted)
             view == [o \in work[r].orders |-> ViewOf(r, o, found)]
  <2>1. work' = [work EXCEPT ![r] = [work[r] EXCEPT !.sellers = found, !.view = view]]
    BY <1>6 DEF ReadAccounts, Fail
  <2>2. found \subseteq wanted
    BY DEF fetchAccountDetails
  <2> HIDE DEF found
  <2>3. work'[r] = [work[r] EXCEPT !.sellers = found, !.view = view]
    BY <1>0, <2>1
  <2>4. work'[r].sellers = found
    BY <1>0, <2>3 DEF Shaped
  <2> QED
    BY <1>0, <1>6, <2>1, <2>2, <2>3, <2>4
<1>7. \/ UNCHANGED work \/ work' = [work EXCEPT ![r] = NoWork]
      \/ CreateAssemble(r) \/ ReadLookup(r) \/ ReadQuery(r) \/ ReadProducts(r) \/ ReadAccounts(r)
  BY DEF ServeOrArrive, Serve, Arrive, AuthMiddleware, CreatePlace, Cancel, ResetAllOrderCaches, Panic, Fail
<1> QED
  BY <1>1, <1>2, <1>3, <1>4, <1>5, <1>6, <1>7

\* The steps of others: where a request is changes only when the process dies.
LEMMA OthersStep ==
  ASSUME Shapes, Main \/ Outside \/ UNCHANGED vars
  PROVE  /\ UNCHANGED <<input, code, placed, stored>>
         /\ at' = [r \in Request |-> at'[r]] /\ work' = [r \in Request |-> work'[r]]
         /\ \A r \in Request :
              \/ at'[r] = at[r] /\ work'[r] = work[r]
              \/ at[r] \in Stages \ {"idle"} /\ at'[r] = "dropped" /\ work'[r] = NoWork
              \/ at[r] = "idle" /\ at'[r] = at[r] /\ work'[r] = NoWork
<1>1. CASE Start \/ Connect \/ Migrate \/ Broker \/ Outside \/ UNCHANGED vars
  <2>1. UNCHANGED <<requests, placed, stored>>
    BY <1>1 DEF Start, Connect, Migrate, Broker, GoOn, Fatal, Outside, Reoffer, SellerLeaves, vars
  <2> QED
    BY <2>1 DEF requests, Shapes
<1>2. CASE Die
  <2>1. \A r \in Request : at[r] \in Stages \cup Ended
    BY DEF Shapes
  <2> QED
    BY <1>2, <2>1 DEF Die
<1> QED
  BY <1>1, <1>2 DEF Main

\* A step of r leaves the other requests where they are.
LEMMA OthersStay ==
  ASSUME Shapes, NEW r \in Request, ServeOrArrive(r), NEW q \in Request, q # r
  PROVE  at'[q] = at[q] /\ code'[q] = code[q] /\ input'[q] = input[q] /\ work'[q] = work[q]
<1>1. at'[q] = at[q] /\ code'[q] = code[q]
  BY OneMoves DEF Moves, To, Answer, Shapes
<1>2. input'[q] = input[q]
  BY OneMoves DEF Arrive, Shapes
<1> QED
  BY <1>1, <1>2, OneWorks

\* The two steps that change an order: r places its own, or cancels another.
Places(r) ==
  /\ at[r] = "placing" /\ input' = input
  /\ placed' = [placed EXCEPT ![r] = OrderOf(r)]
  /\ at'[r] = "answered" /\ code'[r] \in {201, 500}
Cancels(r) ==
  LET o == input[r].order IN
  /\ at[r] = "service" /\ input[r].route = "cancel" /\ input' = input
  /\ o # None /\ MayCancel(input[r])
  /\ placed' = [placed EXCEPT ![o] =
       [placed[o] EXCEPT !.cancelledBy = r, !.back = UnitsBack(placed[o].rows)]]
  /\ at'[r] = "answered" /\ code'[r] \in {200, 500}

\* A step of r that changes an order is one of these.
LEMMA OnePlaces ==
  ASSUME Shapes, NEW r \in Request, ServeOrArrive(r)
  PROVE  UNCHANGED placed \/ Places(r) \/ Cancels(r)
<1>1. handleGetError("other") = 500 /\ handleOperationError("other") = 500
  BY DEF handleGetError, handleOperationError
<1>2. CASE CreatePlace(r)
  BY <1>1, <1>2 DEF CreatePlace, Panic, Answer, Shapes, Places
<1>3. CASE Cancel(r) /\ ~UNCHANGED placed
  <2> DEFINE o == input[r].order
             units == UnitsBack(placed[o].rows)
  <2>1. at'[r] = "answered" /\ code'[r] \in {200, 500}
    BY <1>1, <1>3 DEF Cancel, Panic, Answer, Shapes
  <2>2. /\ at[r] = "service" /\ input[r].route = "cancel" /\ o # None /\ MayCancel(input[r])
        /\ input' = input
    BY <1>3 DEF Cancel, Panic
  <2>3. placed' = [placed EXCEPT ![o] = [placed[o] EXCEPT !.cancelledBy = r, !.back = units]]
    BY <1>3 DEF Cancel, Panic
  <2> QED
    BY <2>1, <2>2, <2>3 DEF Cancels
<1>4. CASE ~CreatePlace(r) /\ ~Cancel(r)
  BY <1>4 DEF ServeOrArrive, Serve, Arrive, Unchanged, AuthMiddleware, CreateAssemble,
              ResetAllOrderCaches, ReadLookup, ReadQuery, ReadProducts, ReadAccounts, Panic
<1> QED
  BY <1>2, <1>3, <1>4

\* A cancellation is of an order that was placed, and changes nothing else of it.
LEMMA OneCancels ==
  ASSUME Shapes, StagesAgree, NEW r \in Request, Cancels(r), NEW o, o = input[r].order
  PROVE  /\ o \in Request /\ Placed(o) /\ input[r] \in Input
         /\ placed'[o] = [placed[o] EXCEPT !.cancelledBy = r, !.back = UnitsBack(placed[o].rows)]
         /\ placed'[o].cancelledBy = r /\ placed'[o].back = UnitsBack(placed[o].rows)
         /\ placed'[o].user = placed[o].user /\ placed'[o].rows = placed[o].rows
         /\ placed'[o].taken = placed[o].taken
         /\ \A p \in Request : p # o => placed'[p] = placed[p]
<1>1. input[r] \in Input /\ (input[r].order # None => Placed(input[r].order))
  BY DEF Cancels, StagesAgree, StageAgrees
<1>2. o \in Request /\ Placed(o)
  BY <1>1 DEF Cancels, Input
<1>3. placed'[o] = [placed[o] EXCEPT !.cancelledBy = r, !.back = UnitsBack(placed[o].rows)]
  BY <1>2 DEF Cancels, Shapes
<1>4. \A p \in Request : p # o => placed'[p] = placed[p]
  BY <1>2 DEF Cancels, Shapes
<1> QED
  BY <1>1, <1>2, <1>3, <1>4 DEF Shapes

\* An order that was placed stays, of the same user and with the same rows.
LEMMA PlacedKept ==
  ASSUME Shapes, StagesAgree, PlacedAccounts, Next \/ UNCHANGED vars
  PROVE  /\ placed' = [o \in Request |-> placed'[o]]
         /\ \A o \in Request : Placed(o) =>
              Placed(o)' /\ placed'[o].user = placed[o].user /\ placed'[o].rows = placed[o].rows
<1>0. placed = [o \in Request |-> placed[o]]
  BY DEF Shapes
<1>1. CASE UNCHANGED placed
  BY <1>0, <1>1 DEF Placed
<1>2. ASSUME NEW r \in Request, ServeOrArrive(r), ~UNCHANGED placed
      PROVE  /\ placed' = [o \in Request |-> placed'[o]]
             /\ \A o \in Request : Placed(o) =>
                  Placed(o)' /\ placed'[o].user = placed[o].user /\ placed'[o].rows = placed[o].rows
  <2>1. CASE Places(r)
    <3>1. placed' = [o \in Request |-> placed'[o]] /\ \A o \in Request \ {r} : placed'[o] = placed[o]
      BY <1>0, <2>1 DEF Places
    <3>2. ~Placed(r)
      BY <2>1 DEF Places, PlacedAccounts, OrderAccounted
    <3> QED
      BY <3>1, <3>2 DEF Placed
  <2>2. CASE Cancels(r)
    <3>1. placed' = [o \in Request |-> placed'[o]]
      BY <1>0, <2>2 DEF Cancels
    <3> QED
      BY <2>2, <3>1, OneCancels DEF Placed
  <2> QED
    BY <1>2, <2>1, <2>2, OnePlaces
<1> QED
  BY <1>1, <1>2, NextSplits, OthersStep

\* What a step of r does to its stage and its code.
LEMMA OneAnswers ==
  ASSUME Shapes, NEW r \in Request, ServeOrArrive(r)
  PROVE  /\ at' \in [Request -> Stages \cup Ended]
         /\ code' \in [Request -> {None, 200, 201, 400, 401, 403, 500}]
         /\ at'[r] # "idle" /\ (at'[r] # "answered" => code'[r] = code[r])
BY OneMoves, StagesApart DEF Moves, To, Answer, Shapes

\* An order has a user, so that it counts as placed.
LEMMA OrderOfPlaces ==
  ASSUME NEW r \in Request, input[r] \in Input
  PROVE  OrderOf(r).user # None
  BY NoneAssumption DEF OrderOf, Input

\* Every step keeps the shapes.
LEMMA ShapesStep ==
  ASSUME Shapes, StagesAgree, PlacedAccounts, ViewAccounts, Next \/ UNCHANGED vars
  PROVE  Shapes'
<1>1. placed' = [o \in Request |-> placed'[o]]
  BY PlacedKept
<1>2. CASE Main \/ Outside \/ UNCHANGED vars
  <2>1. \A r \in Request : at'[r] \in Stages \cup Ended /\ Shaped(work'[r])
    BY <1>2, OthersStep, StagesApart, NoWorkIsFine DEF Shapes
  <2>2. at' \in [Request -> Stages \cup Ended] /\ work' = [r \in Request |-> work'[r]]
    BY <1>2, <2>1, OthersStep
  <2>3. UNCHANGED <<input, code, placed>>
    BY <1>2, OthersStep
  <2> QED
    BY <2>1, <2>2, <2>3 DEF Shapes, Placed, Shaped
<1>3. ASSUME NEW r \in Request, ServeOrArrive(r) PROVE Shapes'
  <2>1. at' \in [Request -> Stages \cup Ended]
        /\ code' \in [Request -> {None, 200, 201, 400, 401, 403, 500}]
    BY <1>3, OneAnswers
  <2>2. input' \in [Request -> Input \cup {NoInput}]
    BY <1>3, OneMoves, InputsAssumption DEF Arrive, Shapes
  <2>3. work' = [q \in Request |-> work'[q]]
    BY <1>3, OneWorks
  <2>4. ASSUME NEW q \in Request PROVE Shaped(work'[q])
    <3>1. CASE q # r
      <4>1. work'[q] = work[q] /\ Shaped(work[q])
        BY <1>3, <3>1, OthersStay DEF Shapes
      <4> QED
        BY <4>1
    <3>2. CASE q = r
      <4>1. Shaped(work[r]) /\ Shaped(NoWork) /\ \A entry \in stored : Shaped(entry.work)
        BY NoWorkIsFine DEF Shapes, ViewAccounts, EntryAccounted
      <4>2. ASSUME NEW lines, NEW orders, NEW details, NEW sellers, NEW view,
                   \/ work'[r] = [work[r] EXCEPT !.lines = lines]
                   \/ work'[r] = [work[r] EXCEPT !.orders = orders]
                   \/ work'[r] = [work[r] EXCEPT !.details = details]
                   \/ work'[r] = [work[r] EXCEPT !.sellers = sellers, !.view = view]
            PROVE  Shaped(work'[r])
        BY <4>1, <4>2 DEF Shaped
      <4>3. CASE work'[r] \in {work[r], NoWork} \/ \E entry \in stored : work'[r] = entry.work
        BY <3>2, <4>1, <4>3 DEF Shaped
      <4>4. CASE \/ work'[r] = [work[r] EXCEPT !.lines = work'[r].lines]
                 \/ work'[r] = [work[r] EXCEPT !.orders = Selected(input[r])]
                 \/ work'[r] = [work[r] EXCEPT !.details = work'[r].details]
        BY <3>2, <4>2, <4>4
      <4>5. CASE LET sellers == work'[r].sellers IN
                 work'[r] = [work[r] EXCEPT !.sellers = sellers,
                               !.view = [o \in work[r].orders |-> ViewOf(r, o, sellers)]]
        BY <3>2, <4>2, <4>5
      <4> QED
        BY <1>3, <3>2, <4>3, <4>4, <4>5, OneWorks
    <3> QED
      BY <3>1, <3>2
  <2>5. ASSUME NEW o \in Request, Placed(o)'
        PROVE  placed'[o] = [user |-> placed'[o].user, rows |-> placed'[o].rows,
                             total |-> placed'[o].total, taken |-> placed'[o].taken,
                             cancelledBy |-> placed'[o].cancelledBy, back |-> placed'[o].back]
    <3>1. CASE placed'[o] = placed[o]
      BY <2>5, <3>1 DEF Shapes, Placed
    <3>2. CASE Places(r)
      <4>1. CASE o = r
        BY <3>2, <4>1 DEF Shapes, Places, OrderOf
      <4>2. CASE o # r
        BY <3>1, <3>2, <4>2 DEF Shapes, Places
      <4> QED
        BY <4>1, <4>2
    <3>3. CASE Cancels(r)
      <4>1. CASE o = input[r].order
        <5>1. Placed(o) /\ placed'[o] = [placed[o] EXCEPT !.cancelledBy = r,
                                           !.back = UnitsBack(placed[o].rows)]
          BY <3>3, <4>1, OneCancels
        <5> QED
          BY <5>1 DEF Shapes
      <4>2. CASE o # input[r].order
        BY <3>1, <3>3, <4>2 DEF Cancels, Shapes
      <4> QED
        BY <4>1, <4>2
    <3> QED
      BY <1>3, <3>1, <3>2, <3>3, OnePlaces
  <2> QED
    BY <1>1, <2>1, <2>2, <2>3, <2>4, <2>5 DEF Shapes
<1> QED
  BY <1>2, <1>3, NextSplits

\* Every step keeps requests on their route.
LEMMA StagesStep ==
  ASSUME Shapes, StagesAgree, PlacedAccounts, Next \/ UNCHANGED vars
  PROVE  StagesAgree'
<1>0. \A o : o \in Request /\ Placed(o) => Placed(o)'
  BY PlacedKept
<1>1. CASE Main \/ Outside \/ UNCHANGED vars
  BY <1>1, OthersStep, StagesApart DEF StagesAgree, StageAgrees, Reads, Placed
<1>2. ASSUME NEW r \in Request, ServeOrArrive(r) PROVE StagesAgree'
  <2> SUFFICES ASSUME NEW q \in Request PROVE StageAgrees(q)'
    BY DEF StagesAgree
  <2>0. input[q] \in Input => input[q].order \in Request \cup {None}
    BY DEF Input
  <2>1. CASE q # r
    <3>1. at'[q] = at[q] /\ code'[q] = code[q] /\ input'[q] = input[q]
      BY <1>2, <2>1, OthersStay
    <3> QED
      BY <1>0, <2>0, <3>1 DEF StagesAgree, StageAgrees, Reads
  <2>2. CASE q = r
    <3>1. at'[r] # "answered" => code'[r] = None
      BY <1>2, OneMoves, OneAnswers, StagesApart DEF StagesAgree, StageAgrees
    <3>2. ASSUME NEW in \in Inputs, Arrive(r, in)
          PROVE  /\ input'[r] = in /\ in \in Input /\ at'[r] = "auth"
                 /\ in.order # None => Placed(in.order)'
      <4>1. input'[r] = in /\ at'[r] = "auth" /\ (in.order # None => Placed(in.order))
        BY <3>2 DEF Arrive, To, Shapes
      <4>2. in \in Input /\ in.order \in Request \cup {None}
        BY InputsAssumption DEF Input
      <4> QED
        BY <1>0, <4>1, <4>2
    <3>3. CASE Serve(r)
      <4>1. at[r] # "idle" /\ input' = input
        BY <3>3 DEF Serve, AuthMiddleware, CreateAssemble, CreatePlace, Cancel,
             ResetAllOrderCaches, ReadLookup, ReadQuery, ReadProducts, ReadAccounts
      <4>2. at'[r] = "placing" => CreateAssemble(r)
        BY <3>3, <4>1 DEF Serve, AuthMiddleware, CreatePlace, Cancel, Shapes,
             ResetAllOrderCaches, ReadLookup, ReadQuery, ReadProducts, ReadAccounts,
             To, Answer, Panic, Fail
      <4>3. at'[r] \in {"querying", "products", "accounts"} =>
              ReadLookup(r) \/ ReadQuery(r) \/ ReadProducts(r)
        BY <3>3, <4>1 DEF Serve, AuthMiddleware, CreatePlace, Cancel, Shapes,
             ResetAllOrderCaches, CreateAssemble, ReadAccounts, To, Answer, Panic, Fail
      <4>4. ReadLookup(r) \/ ReadQuery(r) \/ ReadProducts(r) => Reads(r)
        BY DEF ReadLookup, ReadQuery, ReadProducts, StagesAgree, StageAgrees
      <4>5. CreateAssemble(r) => input[r].route = "create"
        BY DEF CreateAssemble
      <4> QED
        BY <1>0, <2>0, <2>2, <3>1, <4>1, <4>2, <4>3, <4>4, <4>5 DEF StagesAgree, StageAgrees, Reads
    <3> QED
      BY <1>2, <2>2, <3>1, <3>2, <3>3 DEF ServeOrArrive, StageAgrees, Reads
  <2> QED
    BY <2>1, <2>2
<1> QED
  BY <1>1, <1>2, NextSplits

\* The lines of a cart are of as many units as the cart.
LEMMA LinesAreTheCart ==
  ASSUME NEW cart, NEW details
  PROVE  Units(LinesOf(cart, details)) = Units(cart)
<1> DEFINE lines == LinesOf(cart, details)
<1>1. DOMAIN lines = DOMAIN cart
  BY DEF LinesOf
<1>2. \A i \in DOMAIN cart :
        lines[i].product = cart[i].product /\ lines[i].quantity = cart[i].quantity
  BY DEF LinesOf
<1> HIDE DEF lines
<1>3. ASSUME NEW p \in Product
      PROVE  [i \in {j \in DOMAIN lines : lines[j].product = p} |-> lines[i].quantity]
               = [i \in {j \in DOMAIN cart : cart[j].product = p} |-> cart[i].quantity]
  BY <1>1, <1>2
<1>4. Units(lines) = Units(cart)
  BY <1>3 DEF Units
<1> QED
  BY <1>4 DEF lines

\* Of nothing there are no units.
LEMMA NoneOf == ASSUME NEW f, DOMAIN f = {} PROVE SumFunction(f) = 0
<1>1. SumFunction(f) = SumFunctionOnSet(f, {})
  BY Zenon DEF SumFunction
<1> QED
  BY <1>1, SumEmpty

\* The rows give back what the lines took, of products with a uuid.
LEMMA RowsGiveBack ==
  ASSUME NEW lines
  PROVE  GivesBack(Units(RowsOf(lines)), Units(lines))
<1> DEFINE rows == RowsOf(lines)
<1> SUFFICES ASSUME NEW p \in Product
             PROVE  Units(rows)[p] = IF p \in Uuid THEN Units(lines)[p] ELSE 0
  BY DEF GivesBack
<1>1. /\ DOMAIN rows = DOMAIN lines
      /\ \A i \in DOMAIN lines :
           rows[i].product = Parsed(lines[i].product) /\ rows[i].quantity = lines[i].quantity
  BY DEF RowsOf
<1> HIDE DEF rows
<1>2. PICK ours : ours = {j \in DOMAIN rows : rows[j].product = p}
  OBVIOUS
<1>3. PICK units : units = [i \in ours |-> rows[i].quantity]
  OBVIOUS
<1>4. Units(rows)[p] = SumFunction(units)
  BY <1>2, <1>3, Zenon DEF Units
<1>5. Nil # p
  BY NilAssumption
<1>6. CASE p \in Uuid
  <2>1. ours = {j \in DOMAIN lines : lines[j].product = p}
    BY <1>1, <1>2, <1>5, <1>6 DEF Parsed
  <2>2. units = [i \in {j \in DOMAIN lines : lines[j].product = p} |-> lines[i].quantity]
    BY <1>1, <1>3, <2>1
  <2>3. Units(lines)[p] = SumFunction(units)
    BY <2>2, Zenon DEF Units
  <2> QED
    BY <1>4, <1>6, <2>3
<1>7. CASE p \notin Uuid
  <2>1. ours = {}
    BY <1>1, <1>2, <1>5, <1>7 DEF Parsed
  <2>2. DOMAIN units = {}
    BY <1>3, <2>1
  <2> QED
    BY <1>4, <1>7, <2>2, NoneOf
<1> QED
  BY <1>6, <1>7

\* Only the assembly of the lines puts a request before its transaction.
LEMMA PlacingStep ==
  ASSUME Shapes, PlacingAccounts, Next \/ UNCHANGED vars
  PROVE  PlacingAccounts'
<1>1. CASE Main \/ Outside \/ UNCHANGED vars
  <2> SUFFICES ASSUME NEW r \in Request, at'[r] = "placing"
               PROVE  Units(work'[r].lines) = Units(input'[r].cart)
    BY DEF PlacingAccounts
  <2>1. at[r] = "placing" /\ work'[r] = work[r] /\ input' = input
    BY <1>1, OthersStep
  <2> QED
    BY <2>1 DEF PlacingAccounts
<1>2. ASSUME NEW r \in Request, ServeOrArrive(r) PROVE PlacingAccounts'
  <2> SUFFICES ASSUME NEW q \in Request, at'[q] = "placing"
               PROVE  Units(work'[q].lines) = Units(input'[q].cart)
    BY DEF PlacingAccounts
  <2>1. CASE q # r
    <3>1. at[q] = "placing" /\ work'[q] = work[q] /\ input'[q] = input[q]
      BY <1>2, <2>1, OthersStay
    <3> QED
      BY <3>1 DEF PlacingAccounts
  <2>2. CASE q = r
    <3> DEFINE details == fetchProductDetails(catalog, ProductsOf(input[r].cart))
               lines == LinesOf(input[r].cart, details)
    <3>1. CreateAssemble(r) /\ input' = input
      <4>0. at'[r] = "placing"
        BY <2>2
      <4>1. ~ \E in \in Inputs : Arrive(r, in)
        BY <4>0 DEF Arrive, To, Shapes
      <4>2. ~ (AuthMiddleware(r) \/ CreatePlace(r) \/ Cancel(r) \/ ResetAllOrderCaches(r))
        BY <4>0 DEF AuthMiddleware, CreatePlace, Cancel, ResetAllOrderCaches,
                    To, Answer, Panic, Fail, Shapes
      <4>3. ~ (ReadLookup(r) \/ ReadQuery(r) \/ ReadProducts(r) \/ ReadAccounts(r))
        BY <4>0 DEF ReadLookup, ReadQuery, ReadProducts, ReadAccounts, To, Answer, Panic, Fail, Shapes
      <4> QED
        BY <1>2, <4>1, <4>2, <4>3 DEF ServeOrArrive, Serve, CreateAssemble
    <3>2. work' = [work EXCEPT ![r] = [work[r] EXCEPT !.lines = lines]]
      BY <2>2, <3>1 DEF CreateAssemble, Answer, Shapes
    <3> HIDE DEF lines
    <3>3. work'[r] = [work[r] EXCEPT !.lines = lines]
      BY <3>2 DEF Shapes
    <3>4. work'[r].lines = lines
      BY <3>3 DEF Shapes, Shaped
    <3>5. Units(lines) = Units(input[r].cart)
      BY LinesAreTheCart DEF lines
    <3> QED
      BY <2>2, <3>1, <3>4, <3>5
  <2> QED
    BY <2>1, <2>2
<1> QED
  BY <1>1, <1>2, NextSplits

\* A request that was answered stays as it is.
LEMMA AnsweredStays ==
  ASSUME Shapes, Next \/ UNCHANGED vars, NEW q \in Request, at[q] = "answered"
  PROVE  at'[q] = "answered" /\ code'[q] = code[q] /\ input'[q] = input[q] /\ work'[q] = work[q]
<1>1. CASE Main \/ Outside \/ UNCHANGED vars
  BY <1>1, OthersStep, StagesApart
<1>2. ASSUME NEW r \in Request, ServeOrArrive(r) PROVE q # r
  BY <1>2, OneMoves, StagesApart
<1> QED
  BY <1>1, <1>2, OthersStay, NextSplits

\* The two steps that change an order account for it.
LEMMA PlacedStep ==
  ASSUME Shapes, StagesAgree, PlacedAccounts, PlacingAccounts, Next \/ UNCHANGED vars
  PROVE  PlacedAccounts'
<1> SUFFICES ASSUME NEW o \in Request, Placed(o)'
             PROVE  /\ OrderAccounted(o)'
                    /\ IF placed'[o].cancelledBy = None THEN placed'[o].back = Units(<<>>)
                       ELSE CancelAccounted(o, placed[o].cancelledBy)'
  BY DEF PlacedAccounts
<1>1. CASE placed'[o] = placed[o]
  <2>1. Placed(o) /\ OrderAccounted(o)
    BY <1>1 DEF Placed, PlacedAccounts
  <2>2. OrderAccounted(o)'
    BY <1>1, <2>1, AnsweredStays DEF OrderAccounted
  <2>3. ASSUME placed[o].cancelledBy # None PROVE CancelAccounted(o, placed[o].cancelledBy)'
    <3> DEFINE c == placed[o].cancelledBy
    <3>1. CancelAccounted(o, c)
      BY <2>1, <2>3 DEF PlacedAccounts
    <3>2. c \in Request /\ at'[c] = at[c] /\ code'[c] = code[c] /\ input'[c] = input[c]
      BY <3>1, AnsweredStays DEF CancelAccounted
    <3> QED
      BY <1>1, <3>1, <3>2 DEF CancelAccounted
  <2> QED
    BY <1>1, <2>1, <2>2, <2>3 DEF PlacedAccounts
<1>2. ASSUME NEW r \in Request, Places(r), o = r
      PROVE  /\ OrderAccounted(o)'
             /\ placed'[o].cancelledBy = None /\ placed'[o].back = Units(<<>>)
  <2>1. placed'[o] = OrderOf(o)
    BY <1>2 DEF Shapes, Places
  <2>2. at'[o] = "answered" /\ code'[o] \in {201, 500} /\ input' = input
    BY <1>2 DEF Places
  <2>3. input[o].route = "create" /\ Units(work[o].lines) = Units(input[o].cart)
    BY <1>2 DEF StagesAgree, StageAgrees, PlacingAccounts, Places
  <2>4. PICK rows : rows = RowsOf(work[o].lines)
    OBVIOUS
  <2>5. GivesBack(Units(rows), Units(input[o].cart))
    BY <2>3, <2>4, RowsGiveBack
  <2>6. /\ placed'[o].rows = rows /\ placed'[o].taken = Units(input[o].cart)
        /\ placed'[o].user = input[o].user
        /\ placed'[o].cancelledBy = None /\ placed'[o].back = Units(<<>>)
    BY <2>1, <2>4 DEF OrderOf
  <2> QED
    BY <1>2, <2>2, <2>3, <2>5, <2>6 DEF OrderAccounted
<1>3. ASSUME NEW r \in Request, Cancels(r), o = input[r].order
      PROVE  /\ OrderAccounted(o)'
             /\ placed'[o].cancelledBy # None /\ CancelAccounted(o, placed[o].cancelledBy)'
  <2>1. Placed(o) /\ placed[o].user = input[r].user
    BY <1>3, OneCancels DEF MayCancel, Cancels
  <2>2. /\ placed'[o].cancelledBy = r /\ placed'[o].back = Units(placed[o].rows)
        /\ placed'[o].user = placed[o].user /\ placed'[o].rows = placed[o].rows
        /\ placed'[o].taken = placed[o].taken
    BY <1>3, OneCancels DEF UnitsBack
  <2>3. OrderAccounted(o) /\ GivesBack(Units(placed[o].rows), placed[o].taken)
    BY <2>1 DEF PlacedAccounts, OrderAccounted
  <2>4. at'[o] = at[o] /\ code'[o] = code[o]
    BY <2>3, AnsweredStays DEF OrderAccounted
  <2>5. at'[r] = "answered" /\ code'[r] \in {200, 500} /\ input' = input
        /\ input[r].route = "cancel" /\ input[r].order = o
    BY <1>3 DEF Cancels
  <2>6. OrderAccounted(o)'
    BY <2>2, <2>3, <2>4, <2>5 DEF OrderAccounted
  <2>7. CancelAccounted(o, placed[o].cancelledBy)'
    BY <1>3, <2>1, <2>2, <2>3, <2>5 DEF CancelAccounted
  <2> QED
    BY <2>2, <2>6, <2>7, NoneAssumption
<1>4. CASE Main \/ Outside \/ UNCHANGED vars
  BY <1>1, <1>4, OthersStep
<1>5. ASSUME NEW r \in Request, ServeOrArrive(r), placed'[o] # placed[o]
      PROVE  /\ OrderAccounted(o)'
             /\ IF placed'[o].cancelledBy = None THEN placed'[o].back = Units(<<>>)
                ELSE CancelAccounted(o, placed[o].cancelledBy)'
  <2>1. CASE Places(r)
    <3>1. o = r
      BY <1>5, <2>1 DEF Places
    <3> QED
      BY <1>2, <2>1, <3>1
  <2>2. CASE Cancels(r)
    <3>1. o = input[r].order
      BY <1>5, <2>2 DEF Cancels, Shapes
    <3> QED
      BY <1>3, <2>2, <3>1
  <2> QED
    BY <1>5, <2>1, <2>2, OnePlaces
<1> QED
  BY <1>1, <1>4, <1>5, NextSplits

\* An order that is cancelled stays as it is.
LEMMA CancelledKept ==
  ASSUME Shapes, StagesAgree, PlacedAccounts, Next \/ UNCHANGED vars,
         NEW o \in Request, Placed(o), placed[o].cancelledBy # None
  PROVE  placed'[o] = placed[o]
<1>1. CASE Main \/ Outside \/ UNCHANGED vars
  BY <1>1, OthersStep
<1>2. ASSUME NEW r \in Request, ServeOrArrive(r), placed'[o] # placed[o] PROVE FALSE
  <2>1. CASE Places(r)
    <3>1. o = r
      BY <1>2, <2>1 DEF Places
    <3> QED
      BY <2>1, <3>1 DEF Places, PlacedAccounts, OrderAccounted
  <2>2. CASE Cancels(r)
    <3>1. o = input[r].order
      BY <1>2, <2>2 DEF Cancels, Shapes
    <3> QED
      BY <2>2, <3>1 DEF Cancels, MayCancel, Open
  <2> QED
    BY <1>2, <2>1, <2>2, OnePlaces
<1> QED
  BY <1>1, <1>2, NextSplits

\* Whether a step of r tells a success, and of what.
LEMMA OneSucceeds ==
  ASSUME Shapes, StagesAgree, NEW r \in Request, ServeOrArrive(r), code'[r] \in {200, 201}
  PROVE  /\ input' = input
         /\ input[r].route = "create" => placed' = [placed EXCEPT ![r] = OrderOf(r)] /\ input[r] \in Input
         /\ input[r].route = "cancel" => LET o == input[r].order IN
              /\ o # None /\ input[r] \in Input /\ at[r] = "service"
              /\ placed' = [placed EXCEPT ![o] =
                   [placed[o] EXCEPT !.cancelledBy = r, !.back = UnitsBack(placed[o].rows)]]
<1>0. code[r] = None /\ None \notin {200, 201}
  BY OneMoves, StagesApart, NoneAssumption DEF StagesAgree, StageAgrees
<1>1. \A error : handleGetError(error) \notin {200, 201} /\ handleOperationError(error) \notin {200, 201}
  BY DEF handleGetError, handleOperationError
<1>2. ASSUME NEW in \in Inputs, Arrive(r, in) PROVE FALSE
  BY <1>0, <1>2 DEF Arrive, To
<1>3. CASE AuthMiddleware(r)
  <2>1. Refusal(input[r]) # None => Refusal(input[r]) \in {400, 401}
    BY DEF Refusal
  <2> QED
    BY <1>0, <1>3, <2>1 DEF AuthMiddleware, To, Answer, Shapes
<1>4. CASE CreateAssemble(r)
  BY <1>0, <1>1, <1>4 DEF CreateAssemble, To, Answer, Shapes
<1>5. CASE CreatePlace(r)
  <2>1. at[r] = "placing" /\ input' = input /\ placed' = [placed EXCEPT ![r] = OrderOf(r)]
    BY <1>0, <1>1, <1>5 DEF CreatePlace, Panic, Fail, Answer, Shapes
  <2>2. input[r].route = "create" /\ input[r] \in Input
    BY <2>1 DEF StagesAgree, StageAgrees
  <2> QED
    BY <2>1, <2>2
<1>6. CASE Cancel(r)
  <2>1. ~Answer(r, handleGetError("other")) /\ ~Panic(r)
    BY <1>0, <1>1 DEF Panic, Answer, Shapes
  <2>2. at[r] = "service" /\ input[r].route = "cancel" /\ input' = input /\ input[r].order # None
    BY <1>6, <2>1 DEF Cancel
  <2>3. LET o == input[r].order IN placed' = [placed EXCEPT ![o] =
          [placed[o] EXCEPT !.cancelledBy = r, !.back = UnitsBack(placed[o].rows)]]
    BY <1>6, <2>1 DEF Cancel
  <2>4. input[r] \in Input
    BY <2>2 DEF StagesAgree, StageAgrees
  <2> QED
    BY <2>2, <2>3, <2>4
<1>7. CASE ResetAllOrderCaches(r)
  BY <1>7 DEF ResetAllOrderCaches
<1>8. CASE ReadLookup(r) \/ ReadQuery(r) \/ ReadProducts(r) \/ ReadAccounts(r)
  <2>1. input' = input /\ at[r] \in {"service", "querying", "products", "accounts"}
        /\ (at[r] = "service" => Reads(r))
    BY <1>8 DEF ReadLookup, ReadQuery, ReadProducts, ReadAccounts
  <2> QED
    BY <2>1 DEF StagesAgree, StageAgrees, Reads
<1> QED
  BY <1>2, <1>3, <1>4, <1>5, <1>6, <1>7, <1>8 DEF ServeOrArrive, Serve

\* A success stays one: nothing undoes an order or its cancellation.
LEMMA SuccessStep ==
  ASSUME Shapes, StagesAgree, PlacedAccounts, PlacingAccounts, SuccessAccounts, Next \/ UNCHANGED vars
  PROVE  SuccessAccounts'
<1> SUFFICES ASSUME NEW q \in Request, code'[q] \in {200, 201}
             PROVE  /\ input'[q].route = "create" => Placed(q)'
                    /\ input'[q].route = "cancel" =>
                         LET o == input'[q].order IN
                         o \in Request /\ placed'[o].user # None /\ placed'[o].cancelledBy = q
  BY DEF SuccessAccounts, Placed
<1>0. q # None /\ None \notin {200, 201}
  BY NoneAssumption
<1>1. CASE at[q] = "answered"
  <2>1. code'[q] = code[q] /\ input'[q] = input[q]
    BY <1>1, AnsweredStays
  <2>2. input[q].route = "create" => Placed(q)'
    BY <2>1, PlacedKept DEF SuccessAccounts
  <2>3. ASSUME input[q].route = "cancel"
        PROVE  LET o == input[q].order IN
               o \in Request /\ placed'[o].user # None /\ placed'[o].cancelledBy = q
    <3> DEFINE o == input[q].order
    <3>1. o \in Request /\ Placed(o) /\ placed[o].cancelledBy = q
      BY <2>1, <2>3 DEF SuccessAccounts
    <3>2. placed'[o] = placed[o]
      BY <1>0, <3>1, CancelledKept
    <3> QED
      BY <3>1, <3>2 DEF Placed
  <2> QED
    BY <2>1, <2>2, <2>3
<1>2. CASE at[q] # "answered"
  <2>1. code[q] = None
    BY <1>2 DEF StagesAgree, StageAgrees
  <2>2. PICK r \in Request : ServeOrArrive(r) /\ r = q
    BY <1>0, <2>1, OthersStep, OthersStay, NextSplits
  <2>3. input' = input /\ placed = [o \in Request |-> placed[o]]
    BY <2>2, OneSucceeds DEF Shapes
  <2>4. ASSUME input[q].route = "create" PROVE Placed(q)'
    <3>1. placed' = [placed EXCEPT ![q] = OrderOf(q)] /\ input[q] \in Input
      BY <2>2, <2>4, OneSucceeds
    <3>2. placed'[q] = OrderOf(q)
      BY <2>3, <3>1
    <3> QED
      BY <3>1, <3>2, OrderOfPlaces DEF Placed
  <2>5. ASSUME input[q].route = "cancel"
        PROVE  LET o == input[q].order IN
               o \in Request /\ placed'[o].user # None /\ placed'[o].cancelledBy = q
    <3> DEFINE o == input[q].order
    <3>1. /\ o # None /\ input[q] \in Input /\ at[q] = "service"
          /\ placed' = [placed EXCEPT ![o] =
               [placed[o] EXCEPT !.cancelledBy = q, !.back = UnitsBack(placed[o].rows)]]
      BY <2>2, <2>5, OneSucceeds
    <3>2. o \in Request
      BY <3>1 DEF Input
    <3>3. Placed(o)
      BY <3>1, <3>2 DEF StagesAgree, StageAgrees
    <3>4. placed'[o] = [placed[o] EXCEPT !.cancelledBy = q, !.back = UnitsBack(placed[o].rows)]
      BY <2>3, <3>1, <3>2
    <3> QED
      BY <3>2, <3>3, <3>4 DEF Shapes, Placed
  <2> QED
    BY <2>3, <2>4, <2>5
<1> QED
  BY <1>1, <1>2

\* What was read of an order goes on holding of it.
LEMMA ReadKept ==
  ASSUME Shapes, StagesAgree, PlacedAccounts, Next \/ UNCHANGED vars
  PROVE  /\ \A asked, stage, w :
              WorkAccounted(placed, asked, stage, w) => WorkAccounted(placed', asked, stage, w)
         /\ \A entry : EntryAccounted(placed, entry) => EntryAccounted(placed', entry)
<1>1. \A o \in Request : placed[o].user # None =>
        placed'[o].user # None /\ placed'[o].rows = placed[o].rows
  BY PlacedKept, NoneAssumption DEF Placed
<1>2. ASSUME NEW w, OfPlaced(placed, w)
      PROVE  OfPlaced(placed', w) /\ (NothingHidden(placed, w) => NothingHidden(placed', w))
  <2>1. \A o \in w.orders : placed'[o].user # None /\ placed'[o].rows = placed[o].rows
    BY <1>1, <1>2 DEF OfPlaced
  <2>2. \A o \in DOMAIN w.view : placed'[o].rows = placed[o].rows
    BY <1>2, <2>1 DEF OfPlaced
  <2>3. OfPlaced(placed', w)
    BY <1>2, <2>1, <2>2 DEF OfPlaced
  <2>4. NothingHidden(placed, w) => NothingHidden(placed', w)
    BY <2>2 DEF NothingHidden
  <2> QED
    BY <2>3, <2>4
<1> QED
  BY <1>2 DEF WorkAccounted, EntryAccounted

\* The view that is put together in the end.
LEMMA ViewIsFine ==
  ASSUME NEW r \in Request, NEW w, NEW sellers,
         w = [work[r] EXCEPT !.sellers = sellers,
                !.view = [o \in work[r].orders |-> ViewOf(r, o, sellers)]],
         sellers \subseteq UNION {SellersOf(placed[o].rows) : o \in work[r].orders},
         Shaped(work[r]), OfPlaced(placed, work[r]), Reads(r),
         input[r].route = "items" => work[r].orders \subseteq {input[r].order}
  PROVE  OfPlaced(placed, w) /\ (input[r].route = "items" => NothingHidden(placed, w))
<1> DEFINE orders == work[r].orders
           details == work[r].details
<1>1. /\ w.orders = orders /\ w.details = details /\ w.sellers = sellers
      /\ w.view = [o \in orders |-> ViewOf(r, o, sellers)]
  BY DEF Shaped
<1>2. ASSUME NEW o \in orders, NEW item \in ViewOf(r, o, sellers)
      PROVE  item.seller \in SellersOf(placed[o].rows)
  <2>1. CASE input[r].route = "list"
    <3>1. item \in ListView(placed[o].rows, details)
      BY <1>2, <2>1 DEF ViewOf
    <3>2. PICK i \in DOMAIN placed[o].rows : item = ListedItem(placed[o].rows, i, details)
      BY <3>1 DEF ListView
    <3> QED
      BY <3>2 DEF ListedItem, SellersOf
  <2>2. CASE input[r].route = "items"
    <3>1. item.seller \in sellers
      <4>1. item \in ItemsView(placed[o].rows, details, sellers)
        BY <1>2, <2>2 DEF ViewOf
      <4>2. PICK i \in DOMAIN placed[o].rows :
              /\ ItemShown(placed[o].rows[i], details, sellers)
              /\ item.seller = details[placed[o].rows[i].product].seller
        BY <4>1 DEF ItemsView
      <4> QED
        BY <4>2 DEF ItemShown
    <3>2. orders = {o}
      BY <2>2
    <3> QED
      BY <3>1, <3>2
  <2> QED
    BY <2>1, <2>2 DEF Reads
<1>3. OfPlaced(placed, w)
  BY <1>1, <1>2 DEF OfPlaced
<1>4. ASSUME input[r].route = "items", NEW o \in orders, NEW i \in DOMAIN placed[o].rows,
             \A item \in ViewOf(r, o, sellers) : item.id # i
      PROVE  ~ItemShown(placed[o].rows[i], details, sellers)
  <2> DEFINE rows == placed[o].rows
             item == [id |-> i, product |-> rows[i].product, quantity |-> rows[i].quantity,
                      seller |-> details[rows[i].product].seller, price |-> rows[i].price]
  <2>1. ItemShown(rows[i], details, sellers) => item \in ViewOf(r, o, sellers)
    BY <1>4 DEF ViewOf, ItemsView
  <2>2. item.id = i
    OBVIOUS
  <2> QED
    BY <1>4, <2>1, <2>2
<1>5. input[r].route = "items" => NothingHidden(placed, w)
  <2> SUFFICES ASSUME input[r].route = "items", NEW o \in orders, NEW i \in DOMAIN placed[o].rows,
                      \A item \in ViewOf(r, o, sellers) : item.id # i
               PROVE  LET row == placed[o].rows[i] IN
                      \/ row.product \notin DOMAIN details
                      \/ details[row.product].seller # row.seller
                      \/ row.seller \notin sellers
    BY <1>1 DEF NothingHidden
  <2>1. ~ItemShown(placed[o].rows[i], details, sellers)
    BY <1>4
  <2> QED
    BY <2>1 DEF ItemShown
<1> QED
  BY <1>3, <1>5

\* What a step of r leaves of what it has read.
LEMMA OneReads ==
  ASSUME Shapes, StagesAgree, ViewAccounts, NEW r \in Request, ServeOrArrive(r)
  PROVE  WorkAccounted(placed, input'[r], at'[r], work'[r])
<1>1. at[r] \in Stages /\ at[r] # "answered" /\ WorkAccounted(placed, input[r], at[r], work[r])
  BY OneMoves, StagesApart DEF ViewAccounts
<1>2. work[r].view = <<>> /\ DOMAIN work[r].view = {} /\ OfPlaced(placed, work[r])
  BY <1>1 DEF WorkAccounted
<1>3. Shaped(work[r])
  BY DEF Shapes
<1>4. CASE \E in \in Inputs : Arrive(r, in)
  <2>1. at'[r] = "auth" /\ work'[r] = work[r]
    BY <1>4 DEF Arrive, To, Shapes
  <2> QED
    BY <1>2, <2>1 DEF WorkAccounted, NothingHidden
<1>5. ASSUME work'[r].view = work[r].view, work'[r].orders = work[r].orders, input' = input,
             \/ at'[r] \notin {"products", "accounts"}
             \/ at'[r] = "accounts" /\ at[r] = "products"
      PROVE  WorkAccounted(placed, input'[r], at'[r], work'[r])
  BY <1>1, <1>2, <1>5 DEF WorkAccounted, NothingHidden, OfPlaced
<1>6. CASE AuthMiddleware(r) \/ CreateAssemble(r) \/ CreatePlace(r) \/ Cancel(r) \/ ResetAllOrderCaches(r)
  <2>1. input' = input /\ at'[r] \notin {"products", "accounts"}
    BY <1>6 DEF AuthMiddleware, CreateAssemble, CreatePlace, Cancel, ResetAllOrderCaches,
                To, Answer, Fail, Panic, Shapes
  <2>2. \/ UNCHANGED work
        \/ work' = [work EXCEPT ![r] = NoWork]
        \/ \E lines : work' = [work EXCEPT ![r] = [work[r] EXCEPT !.lines = lines]]
    BY <1>6 DEF AuthMiddleware, CreateAssemble, CreatePlace, Cancel, ResetAllOrderCaches, Panic, Fail
  <2>3. \/ work'[r] = NoWork
        \/ work'[r].view = work[r].view /\ work'[r].orders = work[r].orders
    <3>1. ASSUME NEW lines, work' = [work EXCEPT ![r] = [work[r] EXCEPT !.lines = lines]]
          PROVE  work'[r].view = work[r].view /\ work'[r].orders = work[r].orders
      <4>1. work'[r] = [work[r] EXCEPT !.lines = lines]
        BY <3>1 DEF Shapes
      <4> QED
        BY <1>3, <4>1 DEF Shaped
    <3>2. CASE UNCHANGED work \/ work' = [work EXCEPT ![r] = NoWork]
      BY <3>2 DEF Shapes
    <3> QED
      BY <2>2, <3>1, <3>2, Zenon
  <2>4. CASE work'[r] = NoWork
    BY <2>4, NoWorkIsFine
  <2>5. CASE work'[r].view = work[r].view /\ work'[r].orders = work[r].orders
    BY <1>5, <2>1, <2>5
  <2> QED
    BY <2>3, <2>4, <2>5
<1>7. CASE ReadLookup(r)
  <2>1. input' = input /\ at'[r] \in {"answered", "querying"}
    <3>1. To(r, "querying") \/ \E status : Answer(r, status)
      BY <1>7 DEF ReadLookup
    <3> QED
      BY <1>7, <3>1 DEF ReadLookup, To, Answer, Shapes
  <2>2. CASE UNCHANGED work
    BY <1>5, <2>1, <2>2
  <2>3. ASSUME NEW entry \in stored, entry.key = Key(input[r]), work'[r] = entry.work, at'[r] = "answered"
        PROVE  WorkAccounted(placed, input[r], "answered", work'[r])
    <3>1. input[r].route = "items" => entry.key[1] = "order_items"
      BY <2>3 DEF Key
    <3> QED
      BY <2>3, <3>1 DEF ViewAccounts, EntryAccounted, WorkAccounted
  <2>4. ~UNCHANGED work => \E entry \in stored :
          entry.key = Key(input[r]) /\ work'[r] = entry.work /\ at'[r] = "answered"
    BY <1>7 DEF ReadLookup, Answer, Shapes
  <2> QED
    BY <2>1, <2>2, <2>3, <2>4
<1>8. CASE ReadQuery(r)
  <2>1. input' = input /\ at[r] = "querying"
    BY <1>8 DEF ReadQuery
  <2>2. CASE work' = [work EXCEPT ![r].orders = Selected(input[r])] /\ at'[r] = "products"
    <3>1. work'[r] = [work[r] EXCEPT !.orders = Selected(input[r])]
      BY <2>2 DEF Shapes
    <3>2. work'[r].orders = Selected(input[r]) /\ work'[r].view = work[r].view
      BY <1>3, <3>1 DEF Shaped
    <3>3. input[r] \in Input /\ (input[r].order # None => Placed(input[r].order))
      BY <2>1 DEF StagesAgree, StageAgrees
    <3>4. \A o \in Selected(input[r]) : o \in Request /\ placed[o].user # None
      BY <3>3 DEF Selected, Input, Open, Placed
    <3>5. input[r].route = "items" => Selected(input[r]) \subseteq {input[r].order}
      BY DEF Selected
    <3>6. work'[r].view = <<>> /\ DOMAIN work'[r].view = {}
      BY <1>2, <3>2
    <3>7. OfPlaced(placed, work'[r])
      BY <3>2, <3>4, <3>6 DEF OfPlaced
    <3>8. NothingHidden(placed, work'[r])
      BY <3>6 DEF NothingHidden
    <3> QED
      BY <2>1, <3>2, <3>5, <3>6, <3>7, <3>8 DEF WorkAccounted
  <2>3. CASE work'[r] \in {work[r], NoWork} /\ at'[r] \in Ended
    <3>1. at'[r] \notin {"products", "accounts"}
      BY <2>3 DEF Ended
    <3> QED
      BY <1>5, <2>1, <2>3, <3>1, NoWorkIsFine
  <2>4. \/ work' = [work EXCEPT ![r].orders = Selected(input[r])] /\ at'[r] = "products"
        \/ work'[r] \in {work[r], NoWork} /\ at'[r] \in Ended
    BY <1>8 DEF ReadQuery, Panic, Answer, To, Shapes, Ended
  <2> QED
    BY <2>2, <2>3, <2>4
<1>9. CASE ReadProducts(r)
  <2>1. input' = input /\ at[r] = "products" /\ at'[r] \in {"accounts", "answered"}
    BY <1>9 DEF ReadProducts, Fail, Answer, To, Shapes
  <2>2. \/ work' = [work EXCEPT ![r] = NoWork]
        \/ \E details : work' = [work EXCEPT ![r] = [work[r] EXCEPT !.details = details]]
    BY <1>9 DEF ReadProducts, Fail
  <2>3. \/ work'[r] = NoWork
        \/ work'[r].view = work[r].view /\ work'[r].orders = work[r].orders
    <3>1. ASSUME NEW details, work' = [work EXCEPT ![r] = [work[r] EXCEPT !.details = details]]
          PROVE  work'[r].view = work[r].view /\ work'[r].orders = work[r].orders
      <4>1. work'[r] = [work[r] EXCEPT !.details = details]
        BY <3>1 DEF Shapes
      <4> QED
        BY <1>3, <4>1 DEF Shaped
    <3>2. CASE UNCHANGED work \/ work' = [work EXCEPT ![r] = NoWork]
      BY <3>2 DEF Shapes
    <3> QED
      BY <2>2, <3>1, <3>2, Zenon
  <2>4. CASE work'[r] = NoWork
    BY <2>4, NoWorkIsFine
  <2>5. CASE work'[r].view = work[r].view /\ work'[r].orders = work[r].orders
    BY <1>5, <2>1, <2>5
  <2> QED
    BY <2>3, <2>4, <2>5
<1>10. CASE ReadAccounts(r)
  <2> DEFINE s == work'[r].sellers
  <2>1. input' = input /\ at[r] = "accounts" /\ at'[r] = "answered" /\ Reads(r)
    BY <1>10 DEF ReadAccounts, Fail, Answer, Shapes, StagesAgree, StageAgrees
  <2>2. CASE work'[r] = NoWork
    BY <2>2, NoWorkIsFine
  <2>3. CASE /\ s \subseteq UNION {SellersOf(placed[o].rows) : o \in work[r].orders}
             /\ work'[r] = [work[r] EXCEPT !.sellers = s,
                              !.view = [o \in work[r].orders |-> ViewOf(r, o, s)]]
    <3>1. input[r].route = "items" => work[r].orders \subseteq {input[r].order}
      BY <1>1, <2>1 DEF WorkAccounted
    <3>2. OfPlaced(placed, work'[r]) /\ (input[r].route = "items" => NothingHidden(placed, work'[r]))
      BY <1>2, <1>3, <2>1, <2>3, <3>1, ViewIsFine
    <3> QED
      BY <2>1, <3>2 DEF WorkAccounted
  <2>4. CASE work' = [work EXCEPT ![r] = NoWork]
    BY <2>2, <2>4 DEF Shapes
  <2>5. ~ (work' = [work EXCEPT ![r] = NoWork]) =>
          /\ s \subseteq UNION {SellersOf(placed[o].rows) : o \in work[r].orders}
          /\ work'[r] = [work[r] EXCEPT !.sellers = s,
                           !.view = [o \in work[r].orders |-> ViewOf(r, o, s)]]
    <3> DEFINE wanted == UNION {SellersOf(placed[o].rows) : o \in work[r].orders}
               found == fetchAccountDetails(accounts, wanted)
    <3> SUFFICES ASSUME ~ (work' = [work EXCEPT ![r] = NoWork])
                 PROVE  s \subseteq wanted /\ work'[r] = [work[r] EXCEPT !.sellers = s,
                           !.view = [o \in work[r].orders |-> ViewOf(r, o, s)]]
      OBVIOUS
    <3>1. work' = [work EXCEPT ![r] = [work[r] EXCEPT !.sellers = found,
                     !.view = [o \in work[r].orders |-> ViewOf(r, o, found)]]]
      BY <1>10 DEF ReadAccounts, Fail
    <3>2. found \subseteq wanted
      BY DEF fetchAccountDetails
    <3> HIDE DEF found
    <3>3. work'[r] = [work[r] EXCEPT !.sellers = found,
                        !.view = [o \in work[r].orders |-> ViewOf(r, o, found)]]
      BY <3>1 DEF Shapes
    <3>4. s = found
      BY <1>3, <3>3 DEF Shaped
    <3> QED
      BY <3>2, <3>3, <3>4
  <2> QED
    BY <2>3, <2>4, <2>5
<1> QED
  BY <1>4, <1>6, <1>7, <1>8, <1>9, <1>10 DEF ServeOrArrive, Serve

\* What a step of r leaves in Redis: what was there, or what it shows itself.
LEMMA OneStores ==
  ASSUME NEW r \in Request, ServeOrArrive(r)
  PROVE  \/ stored' \subseteq stored
         \/ /\ at[r] = "accounts" /\ input' = input
            /\ stored' = stored \cup {[key |-> Key(input[r]), work |-> work'[r]]}
BY DEF ServeOrArrive, Serve, Arrive, AuthMiddleware, CreateAssemble, CreatePlace, Cancel,
       ResetAllOrderCaches, ReadLookup, ReadQuery, ReadProducts, ReadAccounts, Unchanged

\* Reads of all requests and of Redis stay accounted for.
LEMMA ViewStep ==
  ASSUME Shapes, Shapes', StagesAgree, PlacedAccounts, ViewAccounts, Next \/ UNCHANGED vars
  PROVE  ViewAccounts'
<1>1. ASSUME NEW q \in Request PROVE WorkAccounted(placed', input[q], at[q], work[q])
  BY ReadKept DEF ViewAccounts
<1>2. ASSUME NEW entry \in stored PROVE EntryAccounted(placed', entry)
  BY ReadKept DEF ViewAccounts
<1>3. CASE Main \/ Outside \/ UNCHANGED vars
  <2>1. ASSUME NEW q \in Request PROVE WorkAccounted(placed', input'[q], at'[q], work'[q])
    <3>1. input' = input
      BY <1>3, OthersStep
    <3>2. CASE work'[q] = NoWork
      BY <3>2, NoWorkIsFine
    <3>3. CASE at'[q] = at[q] /\ work'[q] = work[q]
      BY <1>1, <3>1, <3>3
    <3> QED
      BY <1>3, <3>2, <3>3, OthersStep
  <2>2. stored' = stored
    BY <1>3, OthersStep
  <2> QED
    BY <1>2, <2>1, <2>2 DEF ViewAccounts
<1>4. ASSUME NEW r \in Request, ServeOrArrive(r) PROVE ViewAccounts'
  <2>1. WorkAccounted(placed', input'[r], at'[r], work'[r])
    BY <1>4, OneReads, ReadKept
  <2>2. ASSUME NEW q \in Request PROVE WorkAccounted(placed', input'[q], at'[q], work'[q])
    <3>1. CASE q # r
      <4>1. at'[q] = at[q] /\ input'[q] = input[q] /\ work'[q] = work[q]
        BY <1>4, <3>1, OthersStay
      <4> QED
        BY <1>1, <4>1
    <3> QED
      BY <2>1, <3>1
  <2>3. ASSUME input' = input, Reads(r)
        PROVE  EntryAccounted(placed', [key |-> Key(input[r]), work |-> work'[r]])
    <3>1. Key(input[r])[1] = "order_items" => input[r].route = "items"
      BY <2>3 DEF Key, Reads
    <3>2. Shaped(work'[r])
      BY DEF Shapes
    <3>3. OfPlaced(placed', work'[r]) /\ (input[r].route = "items" => NothingHidden(placed', work'[r]))
      BY <2>1, <2>3 DEF WorkAccounted
    <3> QED
      BY <3>1, <3>2, <3>3 DEF EntryAccounted
  <2>4. at[r] = "accounts" => Reads(r)
    BY DEF StagesAgree, StageAgrees
  <2>5. \A entry \in stored' : EntryAccounted(placed', entry)
    BY <1>2, <1>4, <2>3, <2>4, OneStores
  <2> QED
    BY <2>2, <2>5 DEF ViewAccounts
<1> QED
  BY <1>3, <1>4, NextSplits

\* The invariant is inductive.
LEMMA StepHInv == HInv /\ [Next]_vars => HInv'
<1> SUFFICES ASSUME HInv, Next \/ UNCHANGED vars PROVE HInv'
  OBVIOUS
<1>1. ProcessAccounts'
  BY ProcessStep DEF HInv
<1>2. Shapes'
  BY ShapesStep DEF HInv
<1>3. StagesAgree'
  BY StagesStep DEF HInv
<1>4. PlacedAccounts' /\ PlacingAccounts'
  BY PlacedStep, PlacingStep DEF HInv
<1>5. SuccessAccounts'
  BY SuccessStep DEF HInv
<1>6. ViewAccounts'
  BY <1>2, ViewStep DEF HInv
<1> QED
  BY <1>1, <1>2, <1>3, <1>4, <1>5, <1>6 DEF HInv

\* Every reachable state satisfies HInv, whatever is asked, killed and changed.
THEOREM HttpInvariance == Spec => []HInv
<1>1. Init => HInv
  BY InitHInv
<1>2. HInv /\ [Next]_vars => HInv'
  BY StepHInv
<1> QED
  BY <1>1, <1>2, PTL DEF Spec

-----------------------------------------------------------------------------
\* Success is never told for something that did not happen, or that happened to an
\* order of somebody else.
THEOREM SuccessesAreTrue == Spec => []SuccessIsTrue
<1>1. HInv => SuccessIsTrue
  <2> SUFFICES ASSUME HInv, NEW r \in Request, code[r] \in {200, 201}
               PROVE  /\ input[r].route = "create" => Placed(r) /\ placed[r].user = input[r].user
                      /\ input[r].route = "cancel" =>
                           /\ placed[input[r].order].cancelledBy = r
                           /\ placed[input[r].order].user = input[r].user
    BY DEF SuccessIsTrue
  <2>1. input[r].route = "create" => Placed(r) /\ placed[r].user = input[r].user
    BY DEF HInv, SuccessAccounts, PlacedAccounts, OrderAccounted
  <2>2. ASSUME input[r].route = "cancel"
        PROVE  LET o == input[r].order IN placed[o].cancelledBy = r /\ placed[o].user = input[r].user
    <3> DEFINE o == input[r].order
    <3>1. o \in Request /\ Placed(o) /\ placed[o].cancelledBy = r /\ r # None
      BY <2>2, NoneAssumption DEF HInv, SuccessAccounts
    <3>2. CancelAccounted(o, r)
      BY <3>1 DEF HInv, PlacedAccounts
    <3> QED
      BY <3>1, <3>2 DEF CancelAccounted
  <2> QED
    BY <2>1, <2>2
<1> QED
  BY <1>1, HttpInvariance, PTL

\* A client that is told that its request was wrong has changed nothing.
THEOREM RefusalsAreClean == Spec => []RefusedMeansUntouched
<1>1. HInv => RefusedMeansUntouched
  <2> SUFFICES ASSUME HInv, NEW r \in Request, code[r] \in 400 .. 499
               PROVE  ~Placed(r) /\ \A o \in Request : Placed(o) => placed[o].cancelledBy # r
    BY DEF RefusedMeansUntouched
  <2>0. code[r] \in {None, 200, 201, 400, 401, 403, 500} /\ None \notin 0 .. 599 /\ r # None
    BY NoneAssumption DEF HInv, Shapes
  <2>1. code[r] \notin {200, 201, 500}
    OBVIOUS
  <2>2. ~Placed(r)
    BY <2>1 DEF HInv, PlacedAccounts, OrderAccounted
  <2>3. ASSUME NEW o \in Request, Placed(o), placed[o].cancelledBy = r PROVE FALSE
    <3>1. CancelAccounted(o, r)
      BY <2>0, <2>3 DEF HInv, PlacedAccounts
    <3> QED
      BY <2>1, <3>1 DEF CancelAccounted
  <2> QED
    BY <2>2, <2>3
<1> QED
  BY <1>1, HttpInvariance, PTL

\* A cancellation gives back what the creation took, product by product, although one
\* is summed over the cart and the other over the rows; only a product whose id is no uuid
\* gets nothing back.
THEOREM StockGoesBothWays == Spec => []StockBothWays
<1>1. HInv => StockBothWays
  <2> SUFFICES ASSUME HInv, NEW o \in Request, Placed(o), NEW p \in Product
               PROVE  placed[o].back[p] = IF Open(o) \/ p \notin Uuid THEN 0 ELSE placed[o].taken[p]
    BY DEF StockBothWays
  <2>1. CASE Open(o)
    <3>1. placed[o].back = Units(<<>>)
      BY <2>1 DEF HInv, PlacedAccounts, Open
    <3>2. PICK f : f = [i \in {j \in DOMAIN <<>> : <<>>[j].product = p} |-> <<>>[i].quantity]
      OBVIOUS
    <3>3. Units(<<>>)[p] = SumFunction(f)
      BY <3>2, Zenon DEF Units
    <3>4. DOMAIN f = {}
      BY <3>2
    <3> QED
      BY <2>1, <3>1, <3>3, <3>4, NoneOf
  <2>2. CASE ~Open(o)
    BY <2>2 DEF HInv, PlacedAccounts, CancelAccounted, GivesBack, Open
  <2> QED
    BY <2>1, <2>2
<1> QED
  BY <1>1, HttpInvariance, PTL

\* An item that is missing from the items of its order has a cause other than its price.
THEOREM MissingHasItsCause == Spec => []MissingHasCause
<1>1. HInv => MissingHasCause
  <2> SUFFICES ASSUME HInv, NEW r \in Request, input[r].route = "items"
               PROVE  NothingHidden(placed, work[r])
    BY DEF MissingHasCause, NothingHidden
  <2> QED
    BY DEF HInv, ViewAccounts, WorkAccounted
<1> QED
  BY <1>1, HttpInvariance, PTL

\* An item is shown only under a seller something of its order was bought from.
THEOREM SellersAreOfTheOrder == Spec => []WrongSellerHasCause
<1>1. HInv => WrongSellerHasCause
  BY DEF HInv, ViewAccounts, WorkAccounted, OfPlaced, WrongSellerHasCause
<1> QED
  BY <1>1, HttpInvariance, PTL

\* The server listens only when its tables are there, whole, and the exchange is known.
THEOREM ServersAreReady == Spec => []ServingIsReady
<1>1. HInv => ServingIsReady
  BY DEF HInv, ProcessAccounts, ServingIsReady
<1> QED
  BY <1>1, HttpInvariance, PTL

\* A request ends without an answer only if the process dies or has no handle.
THEOREM SilenceHasItsCause == Spec => SilenceHasCause
<1> DEFINE A == \A r \in Request : (at[r] # "dropped" /\ at'[r] = "dropped") =>
                  server' = "down" \/ ~conn
<1>1. HInv /\ [Next]_vars => [A]_vars
  <2> SUFFICES ASSUME HInv, Next, NEW q \in Request, at[q] # "dropped", at'[q] = "dropped"
               PROVE  server' = "down" \/ ~conn
    OBVIOUS
  <2>0. Shapes
    BY DEF HInv
  <2>1. CASE Die
    BY <2>1 DEF Die
  <2>2. CASE Outside \/ Start \/ Connect \/ Migrate \/ Broker
    BY <2>2 DEF Start, Connect, Migrate, Broker, GoOn, Fatal, Outside, Reoffer, SellerLeaves, requests, outside
  <2>3. ASSUME NEW r \in Request, ServeOrArrive(r) PROVE ~conn
    <3>1. q = r
      BY <2>0, <2>3, OthersStay
    <3>2. \/ \E stage \in Stages : To(r, stage)
          \/ \E status : Answer(r, status)
          \/ ~conn
      BY <2>3 DEF ServeOrArrive, Serve, Arrive, AuthMiddleware, CreateAssemble, CreatePlace, Cancel,
         ResetAllOrderCaches, ReadLookup, ReadQuery, ReadProducts, ReadAccounts, Fail, Stages
    <3> QED
      BY <2>0, <3>1, <3>2, StagesApart DEF To, Answer, Shapes
  <2> QED
    BY <2>1, <2>2, <2>3, NextSplits DEF Main
<1> QED
  BY <1>1, HttpInvariance, PTL DEF Spec, SilenceHasCause

-----------------------------------------------------------------------------
(***************************************************************************)
(* A change made in one step here is one that the saga makes: both         *)
(* implement the life of an order, whose status no route sets.             *)
(***************************************************************************)
StatusOf(o) ==
  IF ~Placed(o) THEN "absent" ELSE IF Open(o) THEN "PENDING_PAYMENT" ELSE "CANCELED"

Lifecycle == INSTANCE OrderLifecycle WITH
  OrderID <- Request, NoUser <- None, Settable <- {},
  status <- [o \in Request |-> StatusOf(o)],
  owner <- [o \in Request |-> placed[o].user]

\* Each step places one order, cancels one for its owner, or touches none.
LEMMA HttpLives ==
  ASSUME HInv, Next \/ UNCHANGED vars
  PROVE  [Lifecycle!Next]_(Lifecycle!orderVars)
<1> DEFINE status == [o \in Request |-> StatusOf(o)]
           owner == [o \in Request |-> placed[o].user]
<1>0. Shapes /\ StagesAgree /\ PlacedAccounts
  BY DEF HInv
<1>1. CASE placed' = placed
  BY <1>1 DEF Lifecycle!orderVars, StatusOf, Placed, Open
<1>2. ASSUME NEW r \in Request, Places(r) PROVE Lifecycle!Next
  <2>1. ~Placed(r) /\ input[r] \in Input
    BY <1>0, <1>2 DEF Places, PlacedAccounts, OrderAccounted, StagesAgree, StageAgrees
  <2>2. PICK u \in User : u = input[r].user
    BY <2>1 DEF Input
  <2>3. placed'[r].user = u /\ placed'[r].cancelledBy = None /\ u # None
    <3>1. placed'[r] = OrderOf(r)
      BY <1>0, <1>2 DEF Places, Shapes
    <3>2. OrderOf(r).user = u /\ OrderOf(r).cancelledBy = None
      BY <2>2 DEF OrderOf
    <3> QED
      BY <3>1, <3>2, NoneAssumption
  <2>4. \A o \in Request : o # r => placed'[o] = placed[o]
    BY <1>0, <1>2 DEF Places, Shapes
  <2>5. StatusOf(r) = "absent" /\ StatusOf(r)' = "PENDING_PAYMENT"
    BY <2>1, <2>3 DEF StatusOf, Placed, Open
  <2>6. \A o \in Request : o # r => StatusOf(o)' = StatusOf(o)
    BY <2>4 DEF StatusOf, Placed, Open
  <2>7. status' = [status EXCEPT ![r] = "PENDING_PAYMENT"]
    BY <2>5, <2>6
  <2>8. owner' = [owner EXCEPT ![r] = u]
    BY <2>3, <2>4
  <2>9. Lifecycle!Place(r, u)
    BY <2>5, <2>7, <2>8 DEF Lifecycle!Place
  <2> QED
    BY <2>9 DEF Lifecycle!Next
<1>3. ASSUME NEW r \in Request, Cancels(r) PROVE Lifecycle!Next
  <2>1. PICK o : o = input[r].order
    OBVIOUS
  <2>2. /\ o \in Request /\ Placed(o) /\ input[r] \in Input
        /\ placed'[o].cancelledBy = r /\ placed'[o].user = placed[o].user
        /\ \A p \in Request : p # o => placed'[p] = placed[p]
    <3>1. o \in Request /\ Placed(o) /\ input[r] \in Input
      BY <1>0, <1>3, <2>1, OneCancels
    <3>2. placed'[o].cancelledBy = r /\ placed'[o].user = placed[o].user
      BY <1>0, <1>3, <2>1, OneCancels
    <3>3. \A p \in Request : p # o => placed'[p] = placed[p]
      BY <1>0, <1>3, <2>1, <3>1 DEF Cancels, Shapes
    <3> QED
      BY <3>1, <3>2, <3>3
  <2>3. PICK u \in User : u = input[r].user
    BY <2>2 DEF Input
  <2>4. Open(o) /\ placed[o].user = u
    BY <1>3, <2>1, <2>3 DEF Cancels, MayCancel
  <2>5. StatusOf(o) = "PENDING_PAYMENT" /\ StatusOf(o)' = "CANCELED"
    BY <2>2, <2>4, NoneAssumption DEF StatusOf, Placed, Open
  <2>6. \A p \in Request : p # o => StatusOf(p)' = StatusOf(p)
    BY <2>2 DEF StatusOf, Placed, Open
  <2>7. status' = [status EXCEPT ![o] = "CANCELED"]
    BY <2>2, <2>5, <2>6
  <2>8. owner' = owner
    BY <2>2
  <2>9. Lifecycle!CancelBy(o, u)
    BY <2>2, <2>4, <2>5, <2>7, <2>8 DEF Lifecycle!CancelBy
  <2> QED
    BY <2>2, <2>9 DEF Lifecycle!Next
<1> QED
  BY <1>0, <1>1, <1>2, <1>3, NextSplits, OthersStep, OnePlaces

\* The requests are answered from orders that live as the saga lets them: whatever is
\* asked, killed and changed, an order is placed once and cancelled once, by its owner.
THEOREM HttpLife == Spec => Lifecycle!Spec
<1>1. Init => Lifecycle!Init
  BY DEF Init, Lifecycle!Init, StatusOf, Placed, NoOrder
<1>2. HInv /\ [Next]_vars => [Lifecycle!Next]_(Lifecycle!orderVars)
  BY HttpLives
<1> QED
  BY <1>1, <1>2, HttpInvariance, PTL DEF Spec, Lifecycle!Spec
=============================================================================
