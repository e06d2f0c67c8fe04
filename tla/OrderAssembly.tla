--------------------------- MODULE OrderAssembly ----------------------------
(***************************************************************************)
(* How internal/services/order_svc.go puts an order together from a cart   *)
(* and what the catalog says of its products, and how it shows an order    *)
(* again later, when the catalog may say something else.  No state.        *)
(*                                                                         *)
(* A catalog maps each product to an offer, or to Gone when GetProducts    *)
(* does not return it.  A cart and the rows of an order are sequences, in  *)
(* which a product may come up more than once.  A price of the catalog is a *)
(* number of parts of a cent; what is stored and shown is in cents.  Names  *)
(* and descriptions are left out.                                           *)
(***************************************************************************)
EXTENDS Naturals, Sequences, FiniteSetsExt

CONSTANTS
  Product, Seller,
  Gone,        \* the offer of a product the catalog does not return
  Uuid,        \* the ids of products and sellers that uuid.Parse takes as they are
  Nil,         \* uuid.Nil, which it returns for the others
  Parts,       \* how many parts of a cent a price is counted in
  MaxPrice,    \* what DECIMAL(10,2) of order_items.price holds
  MaxTotal     \* what DECIMAL(12,2) of orders.total_price holds

ASSUME TotalAssumption == MaxTotal \in Nat
ASSUME NilAssumption == Nil \notin Product \cup Seller

\* Odd: no amount lies halfway between two cents, where the binary fraction nearest
\* to it would decide.
ASSUME PartsAssumption == Parts \in Nat /\ Parts % 2 = 1

Offer == [price: Nat, seller: Seller]
CartLine == [product: Product, quantity: Nat]
OrderLine == [product: Product, quantity: Nat, price: Nat, seller: Seller]
ItemRow ==
  [product: Product \cup {Nil}, quantity: Nat, price: Nat, seller: Seller \cup {Nil}]

-----------------------------------------------------------------------------
\* fetchProductDetails: a map of what the catalog returned.
fetchProductDetails(catalog, products) ==
  [p \in {q \in products \cap DOMAIN catalog : catalog[q] # Gone} |-> catalog[p]]

\* fetchAccountDetails: those of the sellers that still have an account.
fetchAccountDetails(accounts, sellers) == sellers \cap accounts

ProductsOf(lines) == {lines[i].product : i \in DOMAIN lines}
SellersOf(rows) == {rows[i].seller : i \in DOMAIN rows}

\* The error of the first line that cannot be ordered, "none" if all can.  The
\* tags of the lines ("min=1") are not looked at: the validator does not enter the
\* list, so that CreateOrder's own test is the only one.
LineError(line, details) ==
  CASE line.product \notin DOMAIN details -> "other"
    [] line.quantity = 0 -> "ErrInvalidQuantity"
    [] OTHER -> "none"
CartError(cart, details) ==
  LET bad == {i \in DOMAIN cart : LineError(cart[i], details) # "none"} IN
  IF bad = {} THEN "none" ELSE LineError(cart[Min(bad)], details)

\* The lines of the order: those of the cart, at the price and of the seller of now.
LinesOf(cart, details) ==
  [i \in DOMAIN cart |->
     [product |-> cart[i].product, quantity |-> cart[i].quantity,
      price |-> details[cart[i].product].price, seller |-> details[cart[i].product].seller]]

\* Sprintf("%.2f", amount): the nearest number of cents.
TwoDecimals(amount) == (2 * amount + Parts) \div (2 * Parts)

\* uuid.Parse without its error.
Parsed(id) == IF id \in Uuid THEN id ELSE Nil

\* The item rows of the lines: the ids parsed, each price rounded.
RowsOf(lines) ==
  [i \in DOMAIN lines |->
     [product |-> Parsed(lines[i].product), quantity |-> lines[i].quantity,
      price |-> TwoDecimals(lines[i].price), seller |-> Parsed(lines[i].seller)]]

\* Mutant: the price is added once per line.
TotalOfPrices(lines) == TwoDecimals(SumFunction([i \in DOMAIN lines |-> lines[i].price]))

\* total_price: summed in the loop of CreateOrder from prices that are not rounded,
\* and rounded once; the client's total is not looked at.
TotalOf(lines) ==
  TwoDecimals(SumFunction([i \in DOMAIN lines |-> lines[i].price * lines[i].quantity]))

\* Mutant: only the prices of the items are limited.
FitsPrices(lines) == \A i \in DOMAIN lines : TwoDecimals(lines[i].price) <= MaxPrice

\* An amount its column cannot hold makes the INSERT fail.
Fits(lines) ==
  /\ \A i \in DOMAIN lines : TwoDecimals(lines[i].price) <= MaxPrice
  /\ TotalOf(lines) <= MaxTotal

\* Mutant: a map from product to quantity, where the last line of a product wins.
UnitsLastLine(lines) ==
  [p \in Product |->
     LET at == {i \in DOMAIN lines : lines[i].product = p} IN
     IF at = {} THEN 0 ELSE lines[Max(at)].quantity]

\* What the stock items of a cart (DecreaseStock) or of the rows of an order
\* (IncreaseStock) add up to.
Units(lines) ==
  [p \in Product |->
     SumFunction([i \in {j \in DOMAIN lines : lines[j].product = p} |-> lines[i].quantity])]
UnitsBack(rows) == Units(rows)

-----------------------------------------------------------------------------
\* toDomainOrderItem: every row of the list of orders is shown as it was bought; a
\* product or a seller that was not returned only leaves a name blank.
ListedItem(rows, i, details) ==
  [id |-> i, product |-> rows[i].product, quantity |-> rows[i].quantity,
   seller |-> rows[i].seller, price |-> rows[i].price]
ListView(rows, details) == {ListedItem(rows, i, details) : i \in DOMAIN rows}

\* Mutants of ItemShown: the catalog's seller need not have been asked for; an item
\* is shown only at the price it was bought at.
ItemShownAnySeller(row, details, sellers) == row.product \in DOMAIN details
ItemShownInStockOnly(row, details, sellers) ==
  /\ row.product \in DOMAIN details
  /\ details[row.product].seller \in sellers
  /\ TwoDecimals(details[row.product].price) = row.price

\* assembleOrderItems: an item is skipped when its product was not returned, or the
\* seller the catalog names for it now is not among the accounts that were asked
\* for, which are those the items were bought from.
ItemShown(row, details, sellers) ==
  /\ row.product \in DOMAIN details
  /\ details[row.product].seller \in sellers
ItemsView(rows, details, sellers) ==
  {[id |-> i, product |-> rows[i].product, quantity |-> rows[i].quantity,
    seller |-> details[rows[i].product].seller, price |-> rows[i].price] :
     i \in {j \in DOMAIN rows : ItemShown(rows[j], details, sellers)}}
=============================================================================
