-------------------------- MODULE OrderHttpAmounts ---------------------------
(***************************************************************************)
(* Theorems about the amounts of OrderHttp: every total fits its column,   *)
(* and what a client is shown of an order adds up to it, up to rounding,   *)
(* for every cart, however long, and whatever the catalog says.            *)
(***************************************************************************)
EXTENDS OrderHttpProofs

\* The lines, and the rows, of an order that can be bought.
Buyable(lines) == lines \in Seq(OrderLine) /\ \A i \in DOMAIN lines : lines[i].quantity > 0
Bought(rows) == rows \in Seq(ItemRow) /\ \A i \in DOMAIN rows : rows[i].quantity > 0

-----------------------------------------------------------------------------
(***************************************************************************)
(* OrderAssembly.                                                          *)
(***************************************************************************)

\* A list has finitely many lines.
LEMMA LinesAreFinite ==
  ASSUME NEW S, NEW lines \in Seq(S)
  PROVE  IsFiniteSet(DOMAIN lines) /\ DOMAIN lines \subseteq Nat
<1>1. DOMAIN lines = 1 .. Len(lines) /\ Len(lines) \in Nat
  OBVIOUS
<1>2. IsFiniteSet(1 .. Len(lines))
  BY <1>1, FS_Interval
<1> QED
  BY <1>1, <1>2

\* An amount is a natural number.
LEMMA ProductIsNat == ASSUME NEW m \in Nat, NEW n \in Nat PROVE m * n \in Nat
OBVIOUS

\* A row has natural amounts.
LEMMA RowIsTyped ==
  ASSUME NEW rows \in Seq(ItemRow), NEW i \in DOMAIN rows
  PROVE  rows[i].price \in Nat /\ rows[i].quantity \in Nat
<1>1. rows[i] \in ItemRow
  OBVIOUS
<1> QED
  BY <1>1 DEF ItemRow

\* So has a line.
LEMMA LineIsTyped ==
  ASSUME NEW lines \in Seq(OrderLine), NEW i \in DOMAIN lines
  PROVE  /\ lines[i].product \in Product /\ lines[i].seller \in Seller
         /\ lines[i].price \in Nat /\ lines[i].quantity \in Nat
<1>1. lines[i] \in OrderLine
  OBVIOUS
<1> QED
  BY <1>1 DEF OrderLine

\* The amounts of rows, and what they come to.
AmountsOf(rows) == [i \in DOMAIN rows |-> rows[i].price * rows[i].quantity]
CentsOf(rows) == SumFunctionOnSet(AmountsOf(rows), DOMAIN rows)
LEMMA AmountsAreNat ==
  ASSUME NEW rows \in Seq(ItemRow)
  PROVE  \A i \in DOMAIN rows :
           AmountsOf(rows)[i] = rows[i].price * rows[i].quantity /\ AmountsOf(rows)[i] \in Nat
<1>1. ASSUME NEW i \in DOMAIN rows
      PROVE  AmountsOf(rows)[i] = rows[i].price * rows[i].quantity /\ AmountsOf(rows)[i] \in Nat
  BY RowIsTyped, ProductIsNat DEF AmountsOf
<1> QED
  BY <1>1

\* They come to a natural number.
LEMMA CentsAreNat == ASSUME NEW rows \in Seq(ItemRow) PROVE CentsOf(rows) \in Nat
BY AmountsAreNat, LinesAreFinite, SumNat DEF CentsOf

\* The sum of a function is that over its domain.
LEMMA SumOfAll ==
  ASSUME NEW fun, NEW S, DOMAIN fun = S
  PROVE  SumFunction(fun) = SumFunctionOnSet(fun, S)
BY Zenon DEF SumFunction

\* A division leaves a rest.
LEMMA Quotient ==
  ASSUME NEW a \in Nat, NEW b \in Nat, b > 0
  PROVE  (a \div b) \in Nat /\ b * (a \div b) <= a /\ a < b * (a \div b) + b
OBVIOUS

\* A rounded amount is off by less than half a cent, and not at all if there are only
\* whole cents.
LEMMA Rounding ==
  ASSUME NEW m \in Nat
  PROVE  /\ TwoDecimals(m) \in Nat
         /\ 2 * Parts * TwoDecimals(m) <= 2 * m + (Parts - 1)
         /\ 2 * m <= 2 * Parts * TwoDecimals(m) + (Parts - 1)
<1>1. PICK j \in Nat : Parts = 2 * j + 1
  BY PartsAssumption
<1>2. PICK a \in Nat : a = 2 * m + Parts
  BY <1>1
<1>3. PICK b \in Nat : b = 2 * Parts /\ b > 0
  BY <1>1
<1>4. PICK c \in Nat : c = TwoDecimals(m) /\ b * c <= a /\ a < b * c + b
  BY <1>2, <1>3, Quotient DEF TwoDecimals
<1>5. PICK d \in Nat : d = Parts * c
  BY <1>1, ProductIsNat
<1>6. b * c = 2 * d
  BY <1>1, <1>3, <1>5
<1>7. 2 * d <= 2 * m + (Parts - 1) /\ 2 * m <= 2 * d + (Parts - 1)
  BY <1>1, <1>2, <1>3, <1>4, <1>6
<1>8. 2 * Parts * c = 2 * d
  BY <1>3, <1>6
<1> QED
  BY <1>4, <1>7, <1>8

\* A bound on a unit is one on several.
LEMMA Multiplied ==
  ASSUME NEW a \in Nat, NEW b \in Nat, NEW d \in Nat, NEW x \in Nat, NEW y \in Nat, NEW q \in Nat,
         a * x <= b * y + d
  PROVE  a * (x * q) <= b * (y * q) + d * q
<1>1. PICK u \in Nat, v \in Nat : u = a * x /\ v = b * y + d
  OBVIOUS
<1>2. u * q <= v * q
  BY <1>1
<1>3. u * q = a * (x * q)
  BY <1>1
<1>4. v * q = b * (y * q) + d * q
  BY <1>1
<1> QED
  BY <1>2, <1>3, <1>4

\* The rows of lines are rows, of as many units.
LEMMA RowsAreTyped ==
  ASSUME NEW lines \in Seq(OrderLine)
  PROVE  /\ RowsOf(lines) \in Seq(ItemRow) /\ DOMAIN RowsOf(lines) = DOMAIN lines
         /\ \A i \in DOMAIN lines : /\ RowsOf(lines)[i].quantity = lines[i].quantity
                                    /\ RowsOf(lines)[i].price = TwoDecimals(lines[i].price)
<1> DEFINE rows == RowsOf(lines)
<1>1. ASSUME NEW i \in DOMAIN lines
      PROVE  /\ rows[i] \in ItemRow /\ rows[i].quantity = lines[i].quantity
             /\ rows[i].price = TwoDecimals(lines[i].price)
  <2>1. PICK product, seller, price : /\ product = Parsed(lines[i].product)
                                      /\ seller = Parsed(lines[i].seller)
                                      /\ price = TwoDecimals(lines[i].price)
    OBVIOUS
  <2>2. product \in Product \cup {Nil} /\ seller \in Seller \cup {Nil}
    BY <2>1, LineIsTyped DEF Parsed
  <2>3. price \in Nat /\ lines[i].quantity \in Nat
    BY <2>1, LineIsTyped, Rounding
  <2>4. rows[i] = [product |-> product, quantity |-> lines[i].quantity,
                   price |-> price, seller |-> seller]
    BY <2>1 DEF RowsOf
  <2> QED
    BY <2>1, <2>2, <2>3, <2>4 DEF ItemRow
<1>2. DOMAIN lines = 1 .. Len(lines) /\ Len(lines) \in Nat
  OBVIOUS
<1>3. rows = [i \in 1 .. Len(lines) |-> rows[i]] /\ DOMAIN rows = DOMAIN lines
  BY <1>2 DEF RowsOf
<1> HIDE DEF rows
<1>4. rows \in Seq(ItemRow)
  <2>1. \A i \in 1 .. Len(lines) : rows[i] \in ItemRow
    BY <1>1, <1>2
  <2> QED
    BY <1>2, <1>3, <2>1
<1> QED
  BY <1>1, <1>3, <1>4 DEF rows

\* What rounding may add is a natural number.
UnitsIn(rows) == SumFunction([i \in DOMAIN rows |-> rows[i].quantity])
LEMMA SlackIsNat ==
  ASSUME NEW rows \in Seq(ItemRow)
  PROVE  UnitsIn(rows) \in Nat /\ Slack(rows) \in Nat /\ Slack(rows) = (Parts - 1) * (UnitsIn(rows) + 1)
<1>1. PICK f : f = [i \in DOMAIN rows |-> rows[i].quantity]
  OBVIOUS
<1>2. DOMAIN f = DOMAIN rows /\ \A i \in DOMAIN rows : f[i] \in Nat
  BY <1>1, RowIsTyped
<1>3. SumFunctionOnSet(f, DOMAIN rows) \in Nat
  BY <1>2, LinesAreFinite, SumNat
<1>4. UnitsIn(rows) = SumFunctionOnSet(f, DOMAIN rows)
  BY <1>1, <1>2, SumOfAll, Zenon DEF UnitsIn
<1>5. Slack(rows) = (Parts - 1) * (UnitsIn(rows) + 1)
  BY DEF Slack, UnitsIn
<1>6. Parts - 1 \in Nat /\ UnitsIn(rows) + 1 \in Nat
  BY <1>3, <1>4, PartsAssumption
<1> QED
  BY <1>3, <1>4, <1>5, <1>6, ProductIsNat

\* What each row costs and what its line cost: a bound for both directions.
LEMMA LineByLine ==
  ASSUME NEW lines \in Seq(OrderLine), NEW i \in DOMAIN lines
  PROVE  LET cents == TwoDecimals(lines[i].price) * lines[i].quantity
             parts == lines[i].price * lines[i].quantity
         IN
         /\ cents \in Nat /\ parts \in Nat
         /\ (2 * Parts) * cents <= 2 * parts + (Parts - 1) * lines[i].quantity
         /\ 2 * parts <= (2 * Parts) * cents + (Parts - 1) * lines[i].quantity
<1>1. PICK p \in Nat, q \in Nat : p = lines[i].price /\ q = lines[i].quantity
  BY LineIsTyped
<1>2. PICK c \in Nat : c = TwoDecimals(p) /\ 2 * Parts * c <= 2 * p + (Parts - 1)
                                          /\ 2 * p <= 2 * Parts * c + (Parts - 1)
  BY Rounding
<1>3. PICK k \in Nat, d \in Nat : k = 2 * Parts /\ d = Parts - 1
  BY PartsAssumption
<1>4. k * c <= 2 * p + d /\ 2 * p <= k * c + d
  BY <1>2, <1>3
<1>5. k * (c * q) <= 2 * (p * q) + d * q /\ 2 * (p * q) <= k * (c * q) + d * q
  BY <1>4, Multiplied
<1>6. c * q \in Nat /\ p * q \in Nat
  BY ProductIsNat
<1> QED
  BY <1>1, <1>2, <1>3, <1>5, <1>6

\* The rows of an order come to its total, up to rounding.
LEMMA RowsComeToTotal ==
  ASSUME NEW lines \in Seq(OrderLine), NEW rows, rows = RowsOf(lines)
  PROVE  /\ TotalOf(lines) \in Nat
         /\ NoMore(CentsOf(rows), TotalOf(lines), Slack(rows))
         /\ NoMore(TotalOf(lines), CentsOf(rows), Slack(rows))
<1>1. rows \in Seq(ItemRow) /\ DOMAIN rows = DOMAIN lines
  BY RowsAreTyped
<1>2. PICK S : S = DOMAIN lines /\ IsFiniteSet(S)
  BY LinesAreFinite
<1>3. PICK cents, parts, units :
        /\ cents = AmountsOf(rows)
        /\ parts = [i \in DOMAIN lines |-> lines[i].price * lines[i].quantity]
        /\ units = [i \in DOMAIN rows |-> rows[i].quantity]
  OBVIOUS
<1>4. PICK k \in Nat, d \in Nat : k = 2 * Parts /\ d = Parts - 1
  BY PartsAssumption
<1>5. ASSUME NEW i \in S
      PROVE  /\ cents[i] \in Nat /\ parts[i] \in Nat /\ units[i] \in Nat
             /\ k * cents[i] <= 2 * parts[i] + d * units[i]
             /\ 2 * parts[i] <= k * cents[i] + d * units[i]
  <2>1. /\ cents[i] = TwoDecimals(lines[i].price) * lines[i].quantity
        /\ parts[i] = lines[i].price * lines[i].quantity
        /\ units[i] = lines[i].quantity
    BY <1>1, <1>2, <1>3, RowsAreTyped DEF AmountsOf
  <2>2. units[i] \in Nat
    BY <1>2, <2>1, LineIsTyped
  <2> QED
    BY <1>2, <1>4, <2>1, <2>2, LineByLine
<1>6. PICK C \in Nat, A \in Nat, Q \in Nat :
        /\ C = SumFunctionOnSet(cents, S) /\ A = SumFunctionOnSet(parts, S)
        /\ Q = SumFunctionOnSet(units, S)
  BY <1>2, <1>5, SumNat
<1>7. k * C <= 2 * A + d * Q /\ 2 * A <= k * C + d * Q
  <2>1. \A i \in S : cents[i] \in Int /\ parts[i] \in Int /\ units[i] \in Int
    BY <1>5
  <2>2. PICK n \in Int, two \in Int, e \in Int : n = k /\ two = 2 /\ e = d
    OBVIOUS
  <2>3. /\ \A i \in S : n * cents[i] <= two * parts[i] + e * units[i]
        /\ \A i \in S : two * parts[i] <= n * cents[i] + e * units[i]
    BY <1>5, <2>2
  <2>4. n * SumFunctionOnSet(cents, S) <= two * SumFunctionOnSet(parts, S) + e * SumFunctionOnSet(units, S)
    BY <1>2, <2>1, <2>3, SumLinear, Zenon
  <2>5. two * SumFunctionOnSet(parts, S) <= n * SumFunctionOnSet(cents, S) + e * SumFunctionOnSet(units, S)
    BY <1>2, <2>1, <2>3, SumLinear, Zenon
  <2> QED
    BY <1>6, <2>2, <2>4, <2>5
<1>8. CentsOf(rows) = C
  BY <1>1, <1>2, <1>3, <1>6 DEF CentsOf
<1>9. TotalOf(lines) = TwoDecimals(A)
  <2>1. DOMAIN parts = S
    BY <1>2, <1>3
  <2>2. SumFunction(parts) = A
    BY <1>6, <2>1, SumOfAll
  <2> QED
    BY <1>3, <2>2, Zenon DEF TotalOf
<1>10. UnitsIn(rows) = Q
  <2>1. DOMAIN units = S
    BY <1>1, <1>2, <1>3
  <2>2. SumFunction(units) = Q
    BY <1>6, <2>1, SumOfAll
  <2> QED
    BY <1>3, <2>2, Zenon DEF UnitsIn
<1>11. Slack(rows) = d * Q + d
  <2>1. Slack(rows) = d * (Q + 1)
    BY <1>1, <1>4, <1>10, SlackIsNat
  <2>2. d * (Q + 1) = d * Q + d * 1
    BY Distribute
  <2> QED
    BY <2>1, <2>2
<1>12. PICK T \in Nat : T = TotalOf(lines) /\ k * T <= 2 * A + d /\ 2 * A <= k * T + d
  BY <1>4, <1>9, Rounding
<1>13. k * C \in Nat /\ k * T \in Nat /\ d * Q \in Nat
  BY ProductIsNat
<1>14. k * C <= k * T + Slack(rows) /\ k * T <= k * C + Slack(rows)
  BY <1>7, <1>11, <1>12, <1>13
<1> QED
  BY <1>4, <1>8, <1>12, <1>14 DEF NoMore

\* Less is no more either.
LEMMA LessIsNoMore ==
  ASSUME NEW a \in Nat, NEW b \in Nat, NEW c \in Nat, NEW slack \in Nat, a <= b, NoMore(b, c, slack)
  PROVE  NoMore(a, c, slack)
<1>1. PICK k \in Nat : k = 2 * Parts
  BY PartsAssumption
<1>2. k * a <= k * b
  OBVIOUS
<1>3. k * b <= k * c + slack
  BY <1>1 DEF NoMore
<1>4. k * a \in Nat /\ k * b \in Nat /\ k * c \in Nat
  BY ProductIsNat
<1>5. k * a <= k * c + slack
  BY <1>2, <1>3, <1>4
<1> QED
  BY <1>1, <1>5 DEF NoMore

\* The units of a list are natural numbers, product by product.
LEMMA UnitsAreNat ==
  ASSUME NEW lines, IsFiniteSet(DOMAIN lines), \A i \in DOMAIN lines : lines[i].quantity \in Nat
  PROVE  Units(lines) \in [Product -> Nat]
<1> SUFFICES ASSUME NEW p \in Product
             PROVE  SumFunction([i \in {j \in DOMAIN lines : lines[j].product = p}
                                   |-> lines[i].quantity]) \in Nat
  BY DEF Units
<1>1. PICK S : S = {j \in DOMAIN lines : lines[j].product = p}
  OBVIOUS
<1>2. PICK f : f = [i \in S |-> lines[i].quantity]
  OBVIOUS
<1>3. DOMAIN f = S /\ \A i \in S : f[i] \in Nat
  BY <1>1, <1>2
<1>4. IsFiniteSet(S)
  BY <1>1, FS_Subset
<1>5. SumFunctionOnSet(f, S) \in Nat
  BY <1>3, <1>4, SumNat
<1> QED
  BY <1>1, <1>2, <1>3, <1>5, Zenon DEF SumFunction

\* No line, no units.
LEMMA NoUnits == Units(<<>>) \in [Product -> Nat]
<1>1. DOMAIN <<>> = {}
  OBVIOUS
<1>2. IsFiniteSet({})
  BY FS_EmptySet
<1> QED
  BY <1>1, <1>2, UnitsAreNat

\* The items show the amounts of the rows N, each once.
ItemsOf(items, name, rows, N) ==
  /\ N \in SUBSET DOMAIN rows
  /\ items = {name[i] : i \in N}
  /\ \A i \in N : /\ name[i].id = i
                  /\ name[i].price = rows[i].price /\ name[i].quantity = rows[i].quantity

\* Such items add up to the sum of those rows.
LEMMA ItemsAddUpTo ==
  ASSUME NEW rows \in Seq(ItemRow), NEW N, NEW name, NEW items, ItemsOf(items, name, rows, N)
  PROVE  SumOf(items) = SumFunctionOnSet(AmountsOf(rows), N)
<1>1. PICK f : f = [item \in items |-> item.price * item.quantity]
  OBVIOUS
<1>2. SumOf(items) = SumFunctionOnSet(f, items)
  <2>1. DOMAIN f = items
    BY <1>1
  <2> QED
    BY <1>1, <2>1, Zenon DEF SumOf, SumFunction
<1>3. ASSUME NEW m \in N, NEW n \in N, name[m] = name[n] PROVE m = n
  BY <1>3, Zenon DEF ItemsOf
<1>4. ASSUME NEW i \in N PROVE f[name[i]] = AmountsOf(rows)[i] /\ AmountsOf(rows)[i] \in Int
  <2>1. i \in DOMAIN rows /\ name[i] \in items
    BY DEF ItemsOf
  <2>2. name[i].price = rows[i].price /\ name[i].quantity = rows[i].quantity
    BY DEF ItemsOf
  <2>3. f[name[i]] = name[i].price * name[i].quantity
    BY <1>1, <2>1
  <2>4. AmountsOf(rows)[i] = rows[i].price * rows[i].quantity /\ AmountsOf(rows)[i] \in Int
    BY <2>1, AmountsAreNat
  <2> QED
    BY <2>2, <2>3, <2>4
<1>5. Renamed(f, items, name, AmountsOf(rows), N)
  <2>1. items = {name[i] : i \in N}
    BY Zenon DEF ItemsOf
  <2> QED
    BY <1>3, <1>4, <2>1, Zenon DEF Renamed
<1>6. IsFiniteSet(N)
  BY LinesAreFinite, FS_Subset DEF ItemsOf
<1> QED
  BY <1>2, <1>5, <1>6, SumRename

\* The list of orders shows every row of an order.
LEMMA ListAddsUp ==
  ASSUME NEW rows \in Seq(ItemRow), NEW details
  PROVE  SumOf(ListView(rows, details)) = CentsOf(rows)
<1>1. PICK name : name = [i \in DOMAIN rows |-> ListedItem(rows, i, details)]
  OBVIOUS
<1>2. ItemsOf(ListView(rows, details), name, rows, DOMAIN rows)
  BY <1>1 DEF ListedItem, ListView, ItemsOf
<1> QED
  BY <1>2, ItemsAddUpTo DEF CentsOf

\* The items of one order leave rows out, and never add one.
LEMMA ItemsAddUp ==
  ASSUME NEW rows \in Seq(ItemRow), NEW details, NEW sellers
  PROVE  /\ SumOf(ItemsView(rows, details, sellers)) \in Nat
         /\ SumOf(ItemsView(rows, details, sellers)) <= CentsOf(rows)
<1>1. PICK N : N = {j \in DOMAIN rows : ItemShown(rows[j], details, sellers)}
  OBVIOUS
<1>2. PICK name : name = [i \in N |->
        [id |-> i, product |-> rows[i].product, quantity |-> rows[i].quantity,
         seller |-> details[rows[i].product].seller, price |-> rows[i].price]]
  OBVIOUS
<1>3. ItemsOf(ItemsView(rows, details, sellers), name, rows, N)
  BY <1>1, <1>2 DEF ItemsView, ItemsOf
<1>4. N \in SUBSET DOMAIN rows
  BY <1>1
<1>5. SumFunctionOnSet(AmountsOf(rows), N) <= SumFunctionOnSet(AmountsOf(rows), DOMAIN rows)
  <2>1. \A i \in DOMAIN rows : AmountsOf(rows)[i] \in Nat
    BY AmountsAreNat
  <2>2. \A i \in N : AmountsOf(rows)[i] \in Int /\ AmountsOf(rows)[i] <= AmountsOf(rows)[i]
    BY <1>4, <2>1
  <2> QED
    BY <1>4, <2>1, <2>2, LinesAreFinite, SumMonotone
<1>6. SumFunctionOnSet(AmountsOf(rows), N) \in Nat
  BY <1>4, AmountsAreNat, LinesAreFinite, FS_Subset, SumNat
<1> QED
  BY <1>3, <1>5, <1>6, ItemsAddUpTo DEF CentsOf

\* Of finitely many natural numbers, one is the least.
LEMMA MinIsThere ==
  ASSUME NEW S \in SUBSET Nat, IsFiniteSet(S), S # {}
  PROVE  Min(S) \in S
<1> DEFINE Least(T, m) == m \in T /\ \A n \in T : m <= n
           Good == {T \in SUBSET S : T = {} \/ \E m : Least(T, m)}
<1>1. ASSUME NEW T \in SUBSET S, \A U \in SUBSET T : U # T => U \in Good PROVE T \in Good
  <2> SUFFICES ASSUME NEW k \in T PROVE \E m : Least(T, m)
    OBVIOUS
  <2>1. PICK U : U = T \ {k}
    OBVIOUS
  <2>2. U = {} \/ \E m : Least(U, m)
    BY <1>1, <2>1
  <2>3. CASE U = {}
    BY <2>1, <2>3
  <2>4. ASSUME NEW m, Least(U, m) PROVE Least(T, m) \/ Least(T, k)
    BY <2>1, <2>4
  <2> QED
    BY <2>2, <2>3, <2>4
<1>2. S \in Good
  <2> HIDE DEF Good
  <2> QED
    BY <1>1, FiniteInduction
<1>3. \E m \in S : \A n \in S : m <= n
  BY <1>2
<1> QED
  BY <1>3, Zenon DEF Min

\* A cart without an error has no line in error.
LEMMA NoErrorNoLine ==
  ASSUME NEW cart \in Seq(CartLine), NEW details, CartError(cart, details) = "none"
  PROVE  \A i \in DOMAIN cart : cart[i].product \in DOMAIN details /\ cart[i].quantity # 0
<1>1. PICK bad : bad = {i \in DOMAIN cart : LineError(cart[i], details) # "none"}
  OBVIOUS
<1>2. bad \in SUBSET Nat /\ IsFiniteSet(bad)
  BY <1>1, LinesAreFinite, FS_Subset
<1>3. bad = {}
  <2> SUFFICES ASSUME bad # {} PROVE FALSE
    OBVIOUS
  <2>1. Min(bad) \in bad
    BY <1>2, MinIsThere
  <2>2. LineError(cart[Min(bad)], details) = "none"
    BY <1>1 DEF CartError
  <2> QED
    BY <1>1, <2>1, <2>2
<1>4. ASSUME NEW i \in DOMAIN cart PROVE LineError(cart[i], details) = "none"
  BY <1>1, <1>3
<1> QED
  BY <1>4 DEF LineError

\* The lines of a cart without an error can be bought.
LEMMA LinesAreBuyable ==
  ASSUME NEW cart \in Seq(CartLine), NEW offers \in [Product -> Offers \cup {Gone}], NEW details,
         details = fetchProductDetails(offers, ProductsOf(cart)),
         CartError(cart, details) = "none"
  PROVE  Buyable(LinesOf(cart, details))
<1> DEFINE lines == LinesOf(cart, details)
<1>1. ASSUME NEW i \in DOMAIN cart
      PROVE  lines[i] \in OrderLine /\ lines[i].quantity > 0
  <2>1. cart[i].product \in DOMAIN details /\ cart[i].quantity # 0
    BY NoErrorNoLine
  <2>2. cart[i].product \in Product /\ cart[i].quantity \in Nat
    <3>1. cart[i] \in CartLine
      OBVIOUS
    <3> QED
      BY <3>1 DEF CartLine
  <2>3. details[cart[i].product] \in Offer
    BY <2>1, <2>2, OffersAssumption DEF fetchProductDetails
  <2>4. /\ details[cart[i].product].price \in Nat /\ details[cart[i].product].seller \in Seller
    BY <2>3 DEF Offer
  <2> QED
    BY <2>1, <2>2, <2>4 DEF LinesOf, OrderLine
<1>2. lines \in Seq(OrderLine) /\ DOMAIN lines = DOMAIN cart
  <2>1. DOMAIN cart = 1 .. Len(cart) /\ Len(cart) \in Nat
    OBVIOUS
  <2>2. lines = [i \in 1 .. Len(cart) |-> lines[i]]
    BY <2>1 DEF LinesOf
  <2> HIDE DEF lines
  <2>3. \A i \in 1 .. Len(cart) : lines[i] \in OrderLine
    BY <1>1, <2>1
  <2> QED
    BY <2>1, <2>2, <2>3
<1> QED
  BY <1>1, <1>2 DEF Buyable

\* What can be bought is bought.
LEMMA BuyableIsBought == ASSUME NEW lines, Buyable(lines) PROVE Bought(RowsOf(lines))
BY RowsAreTyped DEF Buyable, Bought

-----------------------------------------------------------------------------
(***************************************************************************)
(* The invariant.                                                          *)
(***************************************************************************)

\* What surrounds the requests.
WorldTyped ==
  /\ conn \in BOOLEAN /\ exchange \in BOOLEAN
  /\ schema \in {"none", "dirty", "current"}
  /\ changes \in 0 .. MaxChanges
  /\ catalog \in [Product -> Offers \cup {Gone}] /\ accounts \subseteq Seller

\* Only what can be bought goes into the transaction, and only what fits comes out.
AnswersCoded == \A r \in Request : at[r] = "answered" => code[r] # None
PlacingBuyable == \A r \in Request : at[r] = "placing" => Buyable(work[r].lines)
OrderTyped(order) ==
  /\ order \in PlacedOrder /\ Bought(order.rows)
  /\ NoMore(CentsOf(order.rows), order.total, Slack(order.rows))
  /\ NoMore(order.total, CentsOf(order.rows), Slack(order.rows))
OrdersTyped == \A o \in Request : Placed(o) => OrderTyped(placed[o])

\* What is shown of orders, to a client or kept in Redis under the key of a user or of
\* an order, adds up; a list on its way is of the orders of its user.
ShownAddsUp(order, listed, user, sum) ==
  /\ NoMore(sum, order.total, Slack(order.rows))
  /\ listed => NoMore(order.total, sum, Slack(order.rows)) /\ order.user = user
AddsUp(table, listed, user, w) ==
  \A o \in DOMAIN w.view : ShownAddsUp(table[o], listed, user, SumOf(w.view[o]))
OwnOrders ==
  \A r \in Request : at[r] \in {"products", "accounts"} /\ input[r].route = "list" =>
    \A o \in work[r].orders : placed[o].user = input[r].user
ReadsAddUp ==
  \A r \in Request : Reads(r) => AddsUp(placed, input[r].route = "list", input[r].user, work[r])
StoredAddUp ==
  \A entry \in stored :
    AddsUp(placed, entry.key[1] = "orders_user", entry.key[2], entry.work)

AInv ==
  /\ WorldTyped /\ AnswersCoded /\ PlacingBuyable /\ OrdersTyped
  /\ OwnOrders /\ ReadsAddUp /\ StoredAddUp

\* The initial state.
LEMMA InitAInv == Init => AInv
<1> SUFFICES ASSUME Init PROVE AInv
  OBVIOUS
<1>1. WorldTyped
  <2>1. changes \in 0 .. MaxChanges
    BY ChangesAssumption DEF Init
  <2> QED
    BY <2>1, CatalogAssumption DEF Init, WorldTyped
<1>2. ASSUME NEW r \in Request PROVE at[r] = "idle" /\ input[r].route = None
  BY DEF Init, NoInput
<1>3. \A o \in Request : ~Placed(o)
  BY DEF Init, NoOrder, Placed
<1>4. ASSUME NEW r \in Request PROVE DOMAIN work[r].view = {}
  BY DEF Init, NoWork
<1>5. stored = {}
  BY DEF Init
<1> QED
  BY <1>1, <1>2, <1>3, <1>4, <1>5
  DEF AInv, AnswersCoded, PlacingBuyable, OrdersTyped, OwnOrders, ReadsAddUp, StoredAddUp, AddsUp

\* A request leaves the other services alone.
LEMMA ServingKeepsOutside ==
  ASSUME NEW r \in Request, ServeOrArrive(r)
  PROVE  UNCHANGED outside
<1>1. CASE \E in \in Inputs : Arrive(r, in)
  BY <1>1 DEF Arrive, Unchanged
<1>2. CASE AuthMiddleware(r) \/ CreateAssemble(r) \/ ReadLookup(r) \/ ReadQuery(r) \/ ReadProducts(r)
  BY <1>2 DEF AuthMiddleware, CreateAssemble, ReadLookup, ReadQuery, ReadProducts, Unchanged
<1>3. CASE CreatePlace(r) \/ Cancel(r) \/ ResetAllOrderCaches(r) \/ ReadAccounts(r)
  BY <1>3 DEF CreatePlace, Cancel, ResetAllOrderCaches, ReadAccounts
<1> QED
  BY <1>1, <1>2, <1>3 DEF ServeOrArrive, Serve

\* What surrounds the requests keeps its type.
LEMMA WorldStep ==
  ASSUME WorldTyped, Next \/ UNCHANGED vars
  PROVE  WorldTyped'
<1>1. CASE UNCHANGED <<process, outside>>
  BY <1>1 DEF WorldTyped, process, outside
<1>2. CASE Main
  <2>1. UNCHANGED outside
    BY <1>2 DEF Main, Start, Connect, Migrate, Broker, Die, GoOn, Fatal
  <2>2. conn' \in BOOLEAN /\ exchange' \in BOOLEAN /\ schema' \in {"none", "dirty", "current"}
    <3>1. CASE Start \/ Connect
      BY <3>1 DEF Start, Connect, GoOn, WorldTyped
    <3>2. CASE Migrate
      BY <3>2 DEF Migrate, GoOn, Fatal, WorldTyped
    <3>3. CASE Broker
      BY <3>3 DEF Broker, GoOn, Fatal, WorldTyped
    <3>4. CASE Die
      BY <3>4 DEF Die, WorldTyped
    <3> QED
      BY <1>2, <3>1, <3>2, <3>3, <3>4 DEF Main
  <2> QED
    BY <2>1, <2>2 DEF WorldTyped, outside
<1>3. CASE Outside
  <2>0. UNCHANGED process
    BY <1>3 DEF Outside, Reoffer, SellerLeaves
  <2>1. ASSUME NEW p \in Product, Reoffer(p) PROVE WorldTyped'
    <3>1. changes' \in 0 .. MaxChanges
      BY <2>1, ChangesAssumption DEF Reoffer, WorldTyped
    <3>2. catalog' \in [Product -> Offers \cup {Gone}] /\ accounts' = accounts
      BY <2>1 DEF Reoffer, WorldTyped
    <3> QED
      BY <2>0, <3>1, <3>2 DEF WorldTyped, process
  <2>2. ASSUME NEW s \in Seller, SellerLeaves(s) PROVE WorldTyped'
    <3>1. changes' \in 0 .. MaxChanges
      BY <2>2, ChangesAssumption DEF SellerLeaves, WorldTyped
    <3>2. catalog' = catalog /\ accounts' \subseteq Seller
      BY <2>2 DEF SellerLeaves, WorldTyped
    <3> QED
      BY <2>0, <3>1, <3>2 DEF WorldTyped, process
  <2> QED
    BY <1>3, <2>1, <2>2 DEF Outside
<1>4. CASE \E r \in Request : ServeOrArrive(r)
  BY <1>1, <1>4, ServingKeepsProcess, ServingKeepsOutside
<1>5. CASE UNCHANGED vars
  BY <1>1, <1>5 DEF vars
<1> QED
  BY <1>2, <1>3, <1>4, <1>5, NextSplits

\* An answer has a code.
LEMMA AnswersStep ==
  ASSUME Shapes, AnswersCoded, Next \/ UNCHANGED vars
  PROVE  AnswersCoded'
<1>1. CASE Main \/ Outside \/ UNCHANGED vars
  <2> SUFFICES ASSUME NEW q \in Request, at'[q] = "answered" PROVE code'[q] # None
    BY DEF AnswersCoded
  <2>1. at[q] = "answered" /\ code' = code
    BY <1>1, OthersStep
  <2> QED
    BY <2>1 DEF AnswersCoded
<1>2. ASSUME NEW r \in Request, ServeOrArrive(r) PROVE AnswersCoded'
  <2> SUFFICES ASSUME NEW q \in Request, at'[q] = "answered" PROVE code'[q] # None
    BY DEF AnswersCoded
  <2>1. CASE q # r
    <3>1. at[q] = "answered" /\ code'[q] = code[q]
      BY <1>2, <2>1, OthersStay
    <3> QED
      BY <3>1 DEF AnswersCoded
  <2>2. CASE q = r
    <3>1. PICK status \in {200, 201, 400, 401, 403, 500} : Answer(r, status)
      BY <1>2, <2>2, OneMoves, StagesApart DEF Moves, To, Shapes
    <3>2. code'[r] = status
      BY <3>1 DEF Answer, Shapes
    <3> QED
      BY <2>2, <3>2, NoneAssumption
  <2> QED
    BY <2>1, <2>2
<1> QED
  BY <1>1, <1>2, NextSplits

\* Only the assembly of lines that can be bought puts a request before its transaction.
LEMMA BuyableStep ==
  ASSUME Shapes, StagesAgree, WorldTyped, PlacingBuyable, Next \/ UNCHANGED vars
  PROVE  PlacingBuyable'
<1>1. CASE Main \/ Outside \/ UNCHANGED vars
  <2> SUFFICES ASSUME NEW q \in Request, at'[q] = "placing" PROVE Buyable(work'[q].lines)
    BY DEF PlacingBuyable, Buyable
  <2>1. at[q] = "placing" /\ work'[q] = work[q]
    BY <1>1, OthersStep
  <2> QED
    BY <2>1 DEF PlacingBuyable
<1>2. ASSUME NEW r \in Request, ServeOrArrive(r) PROVE PlacingBuyable'
  <2> SUFFICES ASSUME NEW q \in Request, at'[q] = "placing" PROVE Buyable(work'[q].lines)
    BY DEF PlacingBuyable, Buyable
  <2>1. CASE q # r
    <3>1. at[q] = "placing" /\ work'[q] = work[q]
      BY <1>2, <2>1, OthersStay
    <3> QED
      BY <3>1 DEF PlacingBuyable
  <2>2. CASE q = r
    <3> DEFINE cart == input[r].cart
               details == fetchProductDetails(catalog, ProductsOf(cart))
    <3>1. CreateAssemble(r) /\ ~ \E status : Answer(r, status)
      <4>0. at'[r] = "placing"
        BY <2>2
      <4>1. ~ \E in \in Inputs : Arrive(r, in)
        BY <4>0 DEF Arrive, To, Shapes
      <4>2. ~ (AuthMiddleware(r) \/ CreatePlace(r) \/ Cancel(r) \/ ResetAllOrderCaches(r))
        BY <4>0 DEF AuthMiddleware, CreatePlace, Cancel, ResetAllOrderCaches,
                    To, Answer, Panic, Fail, Shapes
      <4>3. ~ (ReadLookup(r) \/ ReadQuery(r) \/ ReadProducts(r) \/ ReadAccounts(r))
        BY <4>0 DEF ReadLookup, ReadQuery, ReadProducts, ReadAccounts, To, Answer, Panic, Fail, Shapes
      <4>4. ~ \E status : Answer(r, status)
        BY <4>0 DEF Answer, Shapes
      <4> QED
        BY <1>2, <4>1, <4>2, <4>3, <4>4 DEF ServeOrArrive, Serve
    <3>2. /\ CartError(cart, details) = "none"
          /\ work' = [work EXCEPT ![r] = [work[r] EXCEPT !.lines = LinesOf(cart, details)]]
          /\ at[r] = "service"
      BY <3>1 DEF CreateAssemble
    <3>3. cart \in Seq(CartLine)
      BY <3>2, CartsAssumption DEF StagesAgree, StageAgrees, Input
    <3>4. Buyable(LinesOf(cart, details))
      <4>1. catalog \in [Product -> Offers \cup {Gone}]
        BY DEF WorldTyped
      <4> QED
        BY <3>2, <3>3, <4>1, LinesAreBuyable
    <3> HIDE DEF cart, details
    <3>5. PICK lines : lines = LinesOf(cart, details)
      OBVIOUS
    <3>6. work'[r] = [work[r] EXCEPT !.lines = lines]
      BY <3>2, <3>5 DEF Shapes
    <3>7. work'[r].lines = lines
      BY <3>6 DEF Shapes, Shaped
    <3> QED
      BY <2>2, <3>4, <3>5, <3>7
  <2> QED
    BY <2>1, <2>2
<1> QED
  BY <1>1, <1>2, NextSplits

\* What a transaction writes has its type.
LEMMA OrderOfIsTyped ==
  ASSUME NEW r \in Request, input[r] \in Input, Buyable(work[r].lines), Fits(work[r].lines)
  PROVE  OrderTyped(OrderOf(r))
<1> DEFINE lines == work[r].lines
           cart == input[r].cart
<1>1. PICK rows : rows = RowsOf(lines) /\ Bought(rows) /\ rows \in Seq(ItemRow)
  BY BuyableIsBought DEF Bought
<1>2. /\ TotalOf(lines) \in 0 .. MaxTotal
      /\ NoMore(CentsOf(rows), TotalOf(lines), Slack(rows))
      /\ NoMore(TotalOf(lines), CentsOf(rows), Slack(rows))
  <2>1. lines \in Seq(OrderLine)
    BY DEF Buyable
  <2> QED
    BY <1>1, <2>1, RowsComeToTotal, TotalAssumption DEF Fits
<1>3. Units(cart) \in [Product -> Nat]
  <2>1. cart \in Seq(CartLine)
    BY CartsAssumption DEF Input
  <2>2. \A i \in DOMAIN cart : cart[i].quantity \in Nat
    <3> SUFFICES ASSUME NEW i \in DOMAIN cart PROVE cart[i].quantity \in Nat
      OBVIOUS
    <3>1. cart[i] \in CartLine
      BY <2>1
    <3> QED
      BY <3>1 DEF CartLine
  <2> HIDE DEF cart
  <2> QED
    BY <2>1, <2>2, LinesAreFinite, UnitsAreNat
<1>4. input[r].user \in User
  BY DEF Input
<1>5. PICK total, taken, back :
        total = TotalOf(lines) /\ taken = Units(cart) /\ back = Units(<<>>)
  OBVIOUS
<1>6. OrderOf(r) = [user |-> input[r].user, rows |-> rows, total |-> total,
                    taken |-> taken, cancelledBy |-> None, back |-> back]
  BY <1>1, <1>5, Zenon DEF OrderOf
<1>7. total \in 0 .. MaxTotal /\ taken \in [Product -> Nat] /\ back \in [Product -> Nat]
  BY <1>2, <1>3, <1>5, NoUnits, Zenon
<1>8. OrderOf(r) \in PlacedOrder
  BY <1>1, <1>4, <1>6, <1>7 DEF PlacedOrder
<1>9. OrderOf(r).rows = rows /\ OrderOf(r).total = TotalOf(lines)
  BY <1>5, <1>6
<1> QED
  BY <1>1, <1>2, <1>8, <1>9 DEF OrderTyped

\* A cancellation keeps the type of an order.
LEMMA CancelIsTyped ==
  ASSUME NEW order, OrderTyped(order), NEW r \in Request, NEW new,
         new = [order EXCEPT !.cancelledBy = r, !.back = UnitsBack(order.rows)]
  PROVE  OrderTyped(new) /\ new.total = order.total
<1>1. order \in PlacedOrder /\ order.rows \in Seq(ItemRow)
  BY DEF OrderTyped, Bought
<1>2. PICK back : back = UnitsBack(order.rows)
  OBVIOUS
<1>3. back \in [Product -> Nat]
  <2>1. \A i \in DOMAIN order.rows : order.rows[i].quantity \in Nat
    BY <1>1, RowIsTyped
  <2>2. Units(order.rows) \in [Product -> Nat]
    BY <1>1, <2>1, LinesAreFinite, UnitsAreNat
  <2> QED
    BY <1>2, <2>2 DEF UnitsBack
<1>4. new = [order EXCEPT !.cancelledBy = r, !.back = back]
  BY <1>2
<1>5. new.rows = order.rows /\ new.total = order.total
  BY <1>1, <1>4 DEF PlacedOrder
<1>6. new \in PlacedOrder
  BY <1>1, <1>3, <1>4 DEF PlacedOrder
<1> QED
  BY <1>5, <1>6 DEF OrderTyped

\* A transaction is of an amount that fits.
LEMMA PlacedFits ==
  ASSUME Shapes, NEW r \in Request, ServeOrArrive(r), placed' # placed, Places(r)
  PROVE  Fits(work[r].lines)
<1>1. CreatePlace(r)
  <2>1. ~Cancel(r)
    BY DEF Places, Cancel
  <2> QED
    BY <2>1 DEF ServeOrArrive, Serve, Arrive, Unchanged, AuthMiddleware, CreateAssemble,
                ResetAllOrderCaches, ReadLookup, ReadQuery, ReadProducts, ReadAccounts, Panic
<1> QED
  BY <1>1 DEF CreatePlace, Panic

\* Every order keeps its type, and an order that was placed its total.
LEMMA OrdersStep ==
  ASSUME Shapes, StagesAgree, PlacedAccounts, PlacingBuyable, OrdersTyped, Next \/ UNCHANGED vars
  PROVE  /\ OrdersTyped'
         /\ \A o \in Request : Placed(o) =>
              placed'[o].total = placed[o].total /\ placed'[o].user = placed[o].user
<1>1. ASSUME NEW o \in Request, placed'[o] = placed[o]
      PROVE  Placed(o)' => OrderTyped(placed'[o])
  BY <1>1 DEF OrdersTyped, Placed
<1>2. CASE UNCHANGED placed
  BY <1>1, <1>2 DEF OrdersTyped, OrderTyped, Placed
<1>3. ASSUME NEW r \in Request, ServeOrArrive(r), placed' # placed, NEW o \in Request
      PROVE  /\ Placed(o)' => OrderTyped(placed'[o])
             /\ Placed(o) => placed'[o].total = placed[o].total
  <2>1. CASE Places(r)
    <3>1. ~Placed(r) /\ input[r] \in Input /\ Buyable(work[r].lines)
      BY <2>1 DEF Places, PlacedAccounts, OrderAccounted, StagesAgree, StageAgrees, PlacingBuyable
    <3>2. OrderTyped(OrderOf(r))
      BY <1>3, <2>1, <3>1, PlacedFits, OrderOfIsTyped
    <3>3. placed'[r] = OrderOf(r) /\ (o # r => placed'[o] = placed[o])
      BY <2>1 DEF Places, Shapes
    <3> QED
      BY <1>1, <3>1, <3>2, <3>3
  <2>2. CASE Cancels(r)
    <3>1. CASE o = input[r].order
      <4>1. /\ Placed(o)
            /\ placed'[o] = [placed[o] EXCEPT !.cancelledBy = r, !.back = UnitsBack(placed[o].rows)]
        BY <2>2, <3>1, OneCancels
      <4>2. OrderTyped(placed[o])
        BY <4>1 DEF OrdersTyped
      <4> QED
        BY <4>1, <4>2, CancelIsTyped
    <3>2. CASE o # input[r].order
      <4>1. placed'[o] = placed[o]
        BY <2>2, <3>2 DEF Cancels, Shapes
      <4> QED
        BY <1>1, <4>1
    <3> QED
      BY <3>1, <3>2
  <2> QED
    BY <1>3, <2>1, <2>2, OnePlaces
<1>4. CASE \E r \in Request : ServeOrArrive(r) /\ placed' # placed
  <2>1. OrdersTyped'
    BY <1>3, <1>4 DEF OrdersTyped, OrderTyped
  <2>2. \A o \in Request : Placed(o) => placed'[o].total = placed[o].total
    BY <1>3, <1>4
  <2> QED
    BY <2>1, <2>2, PlacedKept
<1> QED
  BY <1>2, <1>4, NextSplits, OthersStep

\* What adds up goes on doing so.
LEMMA AddsUpKept ==
  ASSUME Shapes, StagesAgree, PlacedAccounts, PlacingBuyable, OrdersTyped, Next \/ UNCHANGED vars,
         NEW w, OfPlaced(placed, w), NEW listed, NEW user, AddsUp(placed, listed, user, w)
  PROVE  AddsUp(placed', listed, user, w)
<1>1. ASSUME NEW o \in DOMAIN w.view
      PROVE  /\ placed'[o].total = placed[o].total /\ placed'[o].user = placed[o].user
             /\ placed'[o].rows = placed[o].rows
  <2>1. o \in Request /\ Placed(o)
    BY DEF OfPlaced, Placed
  <2> QED
    BY <2>1, OrdersStep, PlacedKept
<1>2. ASSUME NEW o \in DOMAIN w.view, NEW sum, ShownAddsUp(placed[o], listed, user, sum)
      PROVE  ShownAddsUp(placed'[o], listed, user, sum)
  BY <1>1, <1>2, Zenon DEF ShownAddsUp
<1> QED
  BY <1>2, Zenon DEF AddsUp

\* A list on its way is of the orders of its user.
LEMMA OwnStep ==
  ASSUME Shapes, StagesAgree, PlacedAccounts, PlacingBuyable, OrdersTyped, ViewAccounts, OwnOrders,
         Next \/ UNCHANGED vars
  PROVE  OwnOrders'
<1> SUFFICES ASSUME NEW q \in Request, at'[q] \in {"products", "accounts"},
                    input'[q].route = "list", NEW o \in work'[q].orders
             PROVE  placed'[o].user = input'[q].user
  BY DEF OwnOrders
<1>1. ASSUME at[q] \in {"products", "accounts"}, work'[q].orders = work[q].orders,
             input'[q] = input[q]
      PROVE  placed'[o].user = input'[q].user
  <2>1. o \in Request /\ Placed(o)
    BY <1>1 DEF ViewAccounts, WorkAccounted, OfPlaced, Placed
  <2>2. placed[o].user = input[q].user
    BY <1>1 DEF OwnOrders
  <2> QED
    BY <1>1, <2>1, <2>2, OrdersStep
<1>2. CASE Main \/ Outside \/ UNCHANGED vars
  <2>1. at'[q] = at[q] /\ work'[q] = work[q] /\ input' = input
    BY <1>2, OthersStep
  <2> QED
    BY <1>1, <2>1
<1>3. ASSUME NEW r \in Request, ServeOrArrive(r) PROVE placed'[o].user = input'[q].user
  <2>1. CASE q # r
    <3>1. at'[q] = at[q] /\ work'[q] = work[q] /\ input'[q] = input[q]
      BY <1>3, <2>1, OthersStay
    <3> QED
      BY <1>1, <3>1
  <2>2. CASE q = r
    <3>0. Shaped(work[r])
      BY DEF Shapes
    <3>1. ReadQuery(r) \/ ReadProducts(r)
      <4>0. at'[r] \in {"products", "accounts"}
        BY <2>2
      <4>1. ~ \E in \in Inputs : Arrive(r, in)
        BY <4>0 DEF Arrive, To, Shapes
      <4>2. ~ (AuthMiddleware(r) \/ CreateAssemble(r) \/ CreatePlace(r) \/ Cancel(r))
        BY <4>0 DEF AuthMiddleware, CreateAssemble, CreatePlace, Cancel,
                    To, Answer, Panic, Fail, Shapes
      <4>3. ~ (ResetAllOrderCaches(r) \/ ReadLookup(r) \/ ReadAccounts(r))
        BY <4>0 DEF ResetAllOrderCaches, ReadLookup, ReadAccounts, To, Answer, Panic, Fail, Shapes
      <4> QED
        BY <1>3, <4>1, <4>2, <4>3 DEF ServeOrArrive, Serve
    <3>2. CASE ReadQuery(r)
      <4>1. input' = input /\ work' = [work EXCEPT ![r] = [work[r] EXCEPT !.orders = Selected(input[r])]]
        BY <2>2, <3>2 DEF ReadQuery, Answer, Panic, Shapes
      <4>2. work'[r].orders = Selected(input[r]) /\ UNCHANGED placed
        <5>1. work'[r] = [work[r] EXCEPT !.orders = Selected(input[r])]
          BY <4>1 DEF Shapes
        <5>2. UNCHANGED placed
          BY <3>2 DEF ReadQuery
        <5> QED
          BY <3>0, <5>1, <5>2 DEF Shaped
      <4>3. placed[o].user = input[r].user
        BY <2>2, <4>1, <4>2 DEF Selected
      <4> QED
        BY <2>2, <4>1, <4>2, <4>3
    <3>3. CASE ReadProducts(r)
      <4>1. at[r] = "products" /\ input' = input
        BY <3>3 DEF ReadProducts
      <4>2. PICK details : work' = [work EXCEPT ![r] = [work[r] EXCEPT !.details = details]]
        BY <2>2, <3>3 DEF ReadProducts, Fail, Answer, Shapes
      <4>3. work'[r] = [work[r] EXCEPT !.details = details]
        BY <4>2 DEF Shapes
      <4>4. work'[r].orders = work[r].orders
        BY <3>0, <4>3 DEF Shaped
      <4> QED
        BY <1>1, <2>2, <4>1, <4>4
    <3> QED
      BY <3>1, <3>2, <3>3
  <2> QED
    BY <2>1, <2>2
<1> QED
  BY <1>2, <1>3, NextSplits

\* A view that is put together from the rows adds up.
LEMMA ViewAddsUp ==
  ASSUME Shapes, ViewAccounts, OrdersTyped, OwnOrders, NEW r \in Request, at[r] = "accounts",
         Reads(r), NEW sellers, NEW w,
         w = [work[r] EXCEPT !.sellers = sellers,
                !.view = [o \in work[r].orders |-> ViewOf(r, o, sellers)]]
  PROVE  AddsUp(placed, input[r].route = "list", input[r].user, w)
<1>1. w.view = [o \in work[r].orders |-> ViewOf(r, o, sellers)]
  BY DEF Shapes, Shaped
<1>2. ASSUME NEW o \in work[r].orders
      PROVE  ShownAddsUp(placed[o], input[r].route = "list", input[r].user, SumOf(ViewOf(r, o, sellers)))
  <2>1. o \in Request /\ Placed(o)
    BY DEF ViewAccounts, WorkAccounted, OfPlaced, Placed
  <2>2. PICK rows, total, slack :
          rows = placed[o].rows /\ total = placed[o].total /\ slack = Slack(rows)
    OBVIOUS
  <2>3. OrderTyped(placed[o])
    BY <2>1 DEF OrdersTyped
  <2>4. /\ rows \in Seq(ItemRow) /\ total \in Nat
        /\ NoMore(CentsOf(rows), total, slack) /\ NoMore(total, CentsOf(rows), slack)
    <3>1. total \in 0 .. MaxTotal
      BY <2>2, <2>3 DEF OrderTyped, PlacedOrder
    <3> QED
      BY <2>2, <2>3, <3>1, TotalAssumption DEF OrderTyped, Bought
  <2>5. CASE input[r].route = "list"
    <3>1. placed[o].user = input[r].user
      BY <2>5 DEF OwnOrders
    <3>2. SumOf(ViewOf(r, o, sellers)) = CentsOf(rows)
      BY <2>2, <2>4, <2>5, ListAddsUp DEF ViewOf
    <3> QED
      BY <2>2, <2>4, <3>1, <3>2 DEF ShownAddsUp
  <2>6. CASE input[r].route # "list"
    <3>1. PICK sum \in Nat : sum = SumOf(ViewOf(r, o, sellers)) /\ sum <= CentsOf(rows)
      BY <2>2, <2>4, <2>6, ItemsAddUp DEF ViewOf
    <3>2. CentsOf(rows) \in Nat /\ slack \in Nat
      BY <2>2, <2>4, CentsAreNat, SlackIsNat
    <3>3. NoMore(sum, total, slack)
      BY <2>4, <3>1, <3>2, LessIsNoMore
    <3> QED
      BY <2>2, <2>6, <3>1, <3>3 DEF ShownAddsUp
  <2> QED
    BY <2>5, <2>6
<1> QED
  BY <1>1, <1>2 DEF AddsUp

\* What r reads adds up.
LEMMA OneAddsUp ==
  ASSUME Shapes, StagesAgree, ViewAccounts, OrdersTyped, OwnOrders, ReadsAddUp, StoredAddUp,
         NEW r \in Request, ServeOrArrive(r), Reads(r)'
  PROVE  AddsUp(placed, input'[r].route = "list", input'[r].user, work'[r])
<1>1. work[r].view = <<>> /\ DOMAIN <<>> = {} /\ Shaped(work[r])
  <2>1. at[r] # "answered"
    BY OneMoves, StagesApart
  <2>2. work[r].view = <<>>
    BY <2>1 DEF ViewAccounts, WorkAccounted
  <2>3. Shaped(work[r])
    BY DEF Shapes
  <2> QED
    BY <2>2, <2>3
<1>2. ASSUME work'[r].view = <<>>
      PROVE  AddsUp(placed, input'[r].route = "list", input'[r].user, work'[r])
  BY <1>1, <1>2 DEF AddsUp
<1>3. CASE work'[r] \in {work[r], NoWork}
  BY <1>1, <1>2, <1>3 DEF NoWork
<1>4. ASSUME NEW v, \/ work'[r] = [work[r] EXCEPT !.lines = v]
                    \/ work'[r] = [work[r] EXCEPT !.orders = v]
                    \/ work'[r] = [work[r] EXCEPT !.details = v]
      PROVE  work'[r].view = <<>>
  BY <1>1, <1>4 DEF Shaped
<1>5. ASSUME ReadLookup(r), NEW entry \in stored, entry.key = Key(input[r]), work'[r] = entry.work
      PROVE  AddsUp(placed, input'[r].route = "list", input'[r].user, work'[r])
  <2>1. input' = input
    BY <1>5 DEF ReadLookup
  <2>2. AddsUp(placed, entry.key[1] = "orders_user", entry.key[2], entry.work)
    BY <1>5 DEF StoredAddUp
  <2>3. CASE input[r].route = "list"
    <3>1. entry.key[1] = "orders_user" /\ entry.key[2] = input[r].user
      BY <1>5, <2>3 DEF Key
    <3> QED
      BY <1>5, <2>1, <2>2, <2>3, <3>1 DEF AddsUp
  <2>4. CASE input[r].route # "list"
    <3>1. entry.key[1] # "orders_user"
      BY <1>5, <2>4 DEF Key
    <3> QED
      BY <1>5, <2>1, <2>2, <2>4, <3>1 DEF AddsUp, ShownAddsUp
  <2> QED
    BY <2>3, <2>4
<1>6. ASSUME ReadAccounts(r), NEW sellers,
             work'[r] = [work[r] EXCEPT !.sellers = sellers,
                           !.view = [o \in work[r].orders |-> ViewOf(r, o, sellers)]]
      PROVE  AddsUp(placed, input'[r].route = "list", input'[r].user, work'[r])
  <2>1. input' = input /\ at[r] = "accounts" /\ Reads(r)
    BY <1>6 DEF ReadAccounts, StagesAgree, StageAgrees
  <2>2. AddsUp(placed, input[r].route = "list", input[r].user, work'[r])
    BY <1>6, <2>1, ViewAddsUp
  <2> QED
    BY <2>1, <2>2
<1>7. CASE \/ work'[r] = [work[r] EXCEPT !.lines = work'[r].lines]
           \/ work'[r] = [work[r] EXCEPT !.orders = Selected(input[r])]
           \/ work'[r] = [work[r] EXCEPT !.details = work'[r].details]
  BY <1>2, <1>4, <1>7
<1>8. CASE ReadAccounts(r) /\ LET sellers == work'[r].sellers IN
             work'[r] = [work[r] EXCEPT !.sellers = sellers,
                           !.view = [o \in work[r].orders |-> ViewOf(r, o, sellers)]]
  BY <1>6, <1>8
<1>9. CASE ReadLookup(r) /\ \E entry \in stored : entry.key = Key(input[r]) /\ work'[r] = entry.work
  BY <1>5, <1>9
<1> QED
  BY <1>3, <1>7, <1>8, <1>9, OneWorks

\* What all requests have read, and what is in Redis, goes on adding up.
LEMMA AddingStep ==
  ASSUME HInv, OrdersTyped, PlacingBuyable, OwnOrders, ReadsAddUp, StoredAddUp,
         Next \/ UNCHANGED vars
  PROVE  ReadsAddUp' /\ StoredAddUp'
<1>0. Shapes /\ StagesAgree /\ PlacedAccounts /\ ViewAccounts
  BY DEF HInv
<1>1. ASSUME NEW q \in Request, Reads(q)
      PROVE  AddsUp(placed', input[q].route = "list", input[q].user, work[q])
  <2>1. OfPlaced(placed, work[q]) /\ AddsUp(placed, input[q].route = "list", input[q].user, work[q])
    BY <1>0, <1>1 DEF ViewAccounts, WorkAccounted, ReadsAddUp
  <2> QED
    BY <1>0, <2>1, AddsUpKept
<1>2. ASSUME NEW entry \in stored
      PROVE  AddsUp(placed', entry.key[1] = "orders_user", entry.key[2], entry.work)
  <2>1. /\ OfPlaced(placed, entry.work)
        /\ AddsUp(placed, entry.key[1] = "orders_user", entry.key[2], entry.work)
    BY <1>0 DEF ViewAccounts, EntryAccounted, StoredAddUp
  <2> QED
    BY <1>0, <2>1, AddsUpKept
<1>3. CASE Main \/ Outside \/ UNCHANGED vars
  <2>1. UNCHANGED <<input, stored>>
    BY <1>0, <1>3, OthersStep
  <2>2. ASSUME NEW q \in Request, Reads(q)'
        PROVE  AddsUp(placed', input'[q].route = "list", input'[q].user, work'[q])
    <3>1. CASE work'[q] = work[q]
      BY <1>1, <2>1, <2>2, <3>1 DEF Reads
    <3>2. CASE work'[q] = NoWork
      BY <3>2 DEF NoWork, AddsUp
    <3> QED
      BY <1>0, <1>3, <3>1, <3>2, OthersStep
  <2> QED
    BY <1>2, <2>1, <2>2 DEF ReadsAddUp, StoredAddUp
<1>4. ASSUME NEW r \in Request, ServeOrArrive(r) PROVE ReadsAddUp' /\ StoredAddUp'
  <2>1. ASSUME Reads(r)' PROVE AddsUp(placed', input'[r].route = "list", input'[r].user, work'[r])
    <3>1. AddsUp(placed, input'[r].route = "list", input'[r].user, work'[r])
      BY <1>0, <1>4, <2>1, OneAddsUp
    <3>2. OfPlaced(placed, work'[r])
      BY <1>0, <1>4, OneReads DEF WorkAccounted
    <3> QED
      BY <1>0, <3>1, <3>2, AddsUpKept
  <2>2. ASSUME NEW q \in Request, Reads(q)'
        PROVE  AddsUp(placed', input'[q].route = "list", input'[q].user, work'[q])
    <3>1. CASE q # r
      <4>1. input'[q] = input[q] /\ work'[q] = work[q]
        BY <1>0, <1>4, <3>1, OthersStay
      <4> QED
        BY <1>1, <2>2, <4>1 DEF Reads
    <3> QED
      BY <2>1, <2>2, <3>1
  <2>3. ASSUME input' = input, at[r] = "accounts", NEW entry,
               entry = [key |-> Key(input[r]), work |-> work'[r]]
        PROVE  AddsUp(placed', entry.key[1] = "orders_user", entry.key[2], entry.work)
    <3>1. Reads(r)
      BY <1>0, <2>3 DEF StagesAgree, StageAgrees
    <3>2. AddsUp(placed', input[r].route = "list", input[r].user, work'[r])
      BY <2>1, <2>3, <3>1 DEF Reads
    <3>3. CASE input[r].route = "list"
      <4>1. entry.key[1] = "orders_user" /\ entry.key[2] = input[r].user /\ entry.work = work'[r]
        BY <2>3, <3>3 DEF Key
      <4> QED
        BY <3>2, <3>3, <4>1 DEF AddsUp
    <3>4. CASE input[r].route # "list"
      <4>1. entry.key[1] # "orders_user" /\ entry.work = work'[r]
        BY <2>3, <3>4 DEF Key
      <4> QED
        BY <3>2, <3>4, <4>1 DEF AddsUp, ShownAddsUp
    <3> QED
      BY <3>3, <3>4
  <2>4. \A entry \in stored' : AddsUp(placed', entry.key[1] = "orders_user", entry.key[2], entry.work)
    BY <1>2, <1>4, <2>3, OneStores
  <2> QED
    BY <2>2, <2>4 DEF ReadsAddUp, StoredAddUp
<1> QED
  BY <1>3, <1>4, NextSplits

\* The invariants are inductive together.
LEMMA StepAInv == HInv /\ AInv /\ [Next]_vars => AInv'
<1> SUFFICES ASSUME HInv, AInv, Next \/ UNCHANGED vars PROVE AInv'
  OBVIOUS
<1>1. Shapes /\ StagesAgree /\ PlacedAccounts /\ ViewAccounts
  BY DEF HInv
<1>2. WorldTyped' /\ AnswersCoded'
  BY <1>1, WorldStep, AnswersStep DEF AInv
<1>3. PlacingBuyable'
  BY <1>1, BuyableStep DEF AInv
<1>4. OrdersTyped'
  BY <1>1, OrdersStep DEF AInv
<1>5. OwnOrders'
  BY <1>1, OwnStep DEF AInv
<1>6. ReadsAddUp' /\ StoredAddUp'
  BY AddingStep DEF AInv
<1> QED
  BY <1>2, <1>3, <1>4, <1>5, <1>6 DEF AInv

\* Every reachable state satisfies AInv, whatever the catalog says and when.
THEOREM AmountsInvariance == Spec => []AInv
<1>1. Init => AInv
  BY InitAInv
<1>2. HInv /\ AInv /\ [Next]_vars => AInv'
  BY StepAInv
<1> QED
  BY <1>1, <1>2, HttpInvariance, PTL DEF Spec

-----------------------------------------------------------------------------
\* Every variable of the web process has its type; no total is wider than its column,
\* and nobody orders nothing of a product.
THEOREM HttpTypeCorrect == Spec => []TypeOK
<1>1. HInv /\ AInv => TypeOK
  <2> SUFFICES ASSUME HInv, AInv PROVE TypeOK
    OBVIOUS
  <2>1. /\ server \in {"down", "connecting", "migrating", "broker", "serving"}
        /\ conn \in BOOLEAN /\ exchange \in BOOLEAN
        /\ schema \in {"none", "dirty", "current"}
        /\ changes \in 0 .. MaxChanges
        /\ catalog \in [Product -> Offers \cup {Gone}] /\ accounts \subseteq Seller
    BY DEF HInv, AInv, ProcessAccounts, WorldTyped
  <2>2. /\ at \in [Request -> Stages \cup Ended]
        /\ code \in [Request -> {None, 200, 201, 400, 401, 403, 500}]
    BY DEF HInv, Shapes
  <2>3. ASSUME NEW r \in Request
        PROVE  input[r] \in Input \cup {NoInput} /\ (at[r] = "answered" <=> code[r] # None)
    BY DEF HInv, AInv, Shapes, StagesAgree, StageAgrees, AnswersCoded
  <2>4. ASSUME NEW r \in Request, Placed(r)
        PROVE  /\ placed[r] \in PlacedOrder
               /\ \A i \in DOMAIN placed[r].rows : placed[r].rows[i].quantity > 0
    BY <2>4 DEF AInv, OrdersTyped, OrderTyped, Bought
  <2> QED
    BY <2>1, <2>2, <2>3, <2>4 DEF TypeOK
<1> QED
  BY <1>1, HttpInvariance, AmountsInvariance, PTL

\* Whatever the catalog did since, and from whatever cache the answer came, the items of
\* every order in a list add up to the total the order was placed for, and it is the
\* reader's own; the items of one order never add up to more than its total; all of it up
\* to rounding, and exactly if prices are in whole cents.
THEOREM ViewsAlwaysAddUp == Spec => []ViewsAddUp
<1>1. AInv => ViewsAddUp
  BY DEF AInv, ReadsAddUp, AddsUp, ShownAddsUp, ViewsAddUp, Shown
<1> QED
  BY <1>1, AmountsInvariance, PTL
=============================================================================
