-------------------------- MODULE OrderSagaProofs ---------------------------
(***************************************************************************)
(* Theorems about OrderSaga, for every set of requests, orders, products,  *)
(* users and carts, every stock and every size of the connection pool.     *)
(***************************************************************************)
EXTENDS OrderSaga, SumTheorems, TLAPS

\* The initial state satisfies the inductive invariant.
LEMMA InitIInv == Init => IInv
<1> SUFFICES ASSUME Init PROVE IInv
  OBVIOUS
<1> USE NoOrderAssumption, StockAssumption
<1>1. TypeOK
  BY DEF Init, TypeOK, Working, Ended, Call, NoCall, Row, NoRow, Entry, Items, NoItems
<1>2. PlacesAgree
  BY DEF Init, PlacesAgree, NoCall
<1>3. StockBacked /\ CancelledMeansRestocked /\ RestockedOnlyByCancel
  BY DEF Init, StockBacked, CancelledMeansRestocked, RestockedOnlyByCancel,
         Visible, NoRow, Absent
<1>4. CreateAccounts
  BY DEF Init, CreateAccounts, NoCall, Visible, NoRow, Absent
<1>5. CancelAccounts
  BY DEF Init, CancelAccounts, HoldsRow, NoCall
<1>6. RestockAccounts
  BY <1>3 DEF Init, RestockAccounts, HoldsRow, NoCall
<1>7. CreationsFinish
  BY DEF Init, CreationsFinish, NoCall
<1>8. StockAccounts
  <2>1. \A p \in Product : HeldUnits(p) = 0
    <3> TAKE p \in Product
    <3>1. {o \in OrderID : Held(o)} = {}
      BY DEF Init, Held
    <3>2. PICK H : H = {o \in OrderID : Held(o)}
      OBVIOUS
    <3>3. PICK f : f = [o \in H |-> ledger[o].items[p]]
      OBVIOUS
    <3>4. HeldUnits(p) = SumFunction(f)
      BY <3>2, <3>3, Zenon DEF HeldUnits
    <3>5. DOMAIN f = {}
      BY <3>1, <3>2, <3>3, Zenon
    <3> QED
      BY <3>4, <3>5, SumEmpty, Zenon DEF SumFunction
  <2>2. \A p \in Product : stock[p] = InitStock[p] /\ stock[p] \in Nat
    BY DEF Init, Items
  <2> QED
    <3>1. ASSUME NEW p \in Product PROVE stock[p] + HeldUnits(p) = InitStock[p]
      <4>1. HeldUnits(p) = 0
        BY <2>1
      <4> QED
        BY <2>2, <4>1
    <3> QED
      BY <3>1 DEF StockAccounts
<1> QED
  BY <1>1, <1>2, <1>3, <1>4, <1>5, <1>6, <1>7, <1>8 DEF IInv

\* No step leaves the types.
LEMMA TypeStep == TypeOK /\ PlacesAgree /\ [Next]_vars => TypeOK'
<1> SUFFICES ASSUME TypeOK, PlacesAgree, [Next]_vars PROVE TypeOK'
  OBVIOUS
<1> USE CartsAssumption, AdminAssumption DEF TypeOK, PlacesAgree, GoTo, Send, Working, Ended
<1>1. ASSUME NEW r \in Request, Arrive(r) PROVE TypeOK'
  <2>1. \E c \in Call : call' = [call EXCEPT ![r] = c]
    <3>1. ASSUME NEW o \in OrderID, NEW u \in User, NEW items \in Carts, ArriveCreate(r, o, u, items)
          PROVE  [NoCall EXCEPT !.kind = "create", !.order = o, !.user = u, !.items = items] \in Call
      BY DEF Call, NoCall
    <3>2. ASSUME NEW o \in OrderID, NEW u \in User
          PROVE  [NoCall EXCEPT !.kind = "cancel", !.order = o, !.user = u] \in Call
      BY DEF Call, NoCall, Items, NoItems
    <3>3. ASSUME NEW o \in OrderID, NEW s \in AdminStatus
          PROVE  [NoCall EXCEPT !.kind = "update", !.order = o, !.to = s] \in Call
      BY DEF Call, NoCall, Items, NoItems
    <3> QED
      BY <1>1, <3>1, <3>2, <3>3 DEF Arrive, ArriveCreate, ArriveCancel, ArriveUpdate
  <2>2. pc' = [pc EXCEPT ![r] = "begin"] /\ UNCHANGED <<rpc, orders, stock, ledger>>
    BY <1>1 DEF Arrive, ArriveCreate, ArriveCancel, ArriveUpdate
  <2> QED
    BY <2>1, <2>2
<1>2. ASSUME NEW r \in Request, TurnAway(r) \/ BreakOff(r) \/ IncreaseTimesOut(r) PROVE TypeOK'
  BY <1>2 DEF TurnAway, BreakOff, IncreaseTimesOut
<1>3. ASSUME NEW r \in Request, CreateBegin(r) \/ DecreaseReturns(r) PROVE TypeOK'
  BY <1>3 DEF CreateBegin, DecreaseReturns
<1>4. ASSUME NEW r \in Request, CancelBegin(r) PROVE TypeOK'
  <2>1. orders[call[r].order].items \in Items
    BY <1>4 DEF CancelBegin, Row
  <2> QED
    BY <1>4, <2>1 DEF CancelBegin, ItemsForRestock, Call
<1>5. ASSUME NEW r \in Request, CancelRow(r) \/ IncreaseReturns(r) \/ UpdateBegin(r) PROVE TypeOK'
  BY <1>5 DEF CancelRow, IncreaseReturns, UpdateBegin
<1>6. ASSUME NEW r \in Request, UpdateRow(r) PROVE TypeOK'
  <2>1. CASE orders' = orders
    BY <1>6, <2>1 DEF UpdateRow
  <2>2. CASE orders' # orders
    <3>1. /\ call[r].order \in OrderID /\ call[r].to \in OrderStatus
          /\ orders' = [orders EXCEPT ![call[r].order].status = call[r].to]
      BY <1>6, <2>2 DEF UpdateRow, Updatable, UpdatedRow
    <3>2. orders' \in [OrderID -> Row]
      BY <3>1 DEF Row
    <3> QED
      BY <1>6, <3>2 DEF UpdateRow
  <2> QED
    BY <2>1, <2>2
<1>7. ASSUME NEW r \in Request, Commit(r) \/ CommitUnconfirmed(r) PROVE TypeOK'
  <2>1. Committed(r) \in [OrderID -> Row]
    <3>1. pc[r] = "committing" /\ call[r].kind \in {"create", "cancel"}
      BY <1>7 DEF Commit, CommitUnconfirmed
    <3>2. call[r].order \in OrderID /\ call[r].user \in User /\ call[r].items \in Items
      BY <3>1 DEF Call
    <3>3. CASE call[r].kind = "create"
      BY <3>2, <3>3 DEF Committed, InsertedRow, Row, OrderStatus
    <3>4. CASE call[r].kind = "cancel"
      BY <3>2, <3>4 DEF Committed, CancelledRow, Row, OrderStatus
    <3> QED
      BY <3>1, <3>3, <3>4
  <2> QED
    BY <1>7, <2>1 DEF Commit, CommitUnconfirmed
<1>8. ASSUME NEW r \in Request, CatalogDecrease(r) PROVE TypeOK'
  BY <1>8 DEF CatalogDecrease, Covers, Minus, Items, Call, Entry
<1>9. ASSUME NEW r \in Request, CatalogIncrease(r) PROVE TypeOK'
  <2>1. Plus(stock, call[r].items) \in Items
    BY DEF Plus, Items, Call
  <2> QED
    BY <1>9, <2>1 DEF CatalogIncrease, Entry
<1>10. ASSUME NEW r \in Request, CatalogRefuse(r) PROVE TypeOK'
  BY <1>10 DEF CatalogRefuse
<1>11. CASE UNCHANGED vars
  BY <1>11 DEF vars
<1> QED
  BY <1>1, <1>2, <1>3, <1>4, <1>5, <1>6, <1>7, <1>8, <1>9, <1>10, <1>11
     DEF Next, Handler, Catalog, Idle

\* No step breaks the agreement of a request's place, kind and gRPC call: each
\* changes only the entries of the request that takes it.
LEMMA PlacesStep == TypeOK /\ PlacesAgree /\ [Next]_vars => PlacesAgree'
<1> SUFFICES ASSUME TypeOK, PlacesAgree, [Next]_vars PROVE PlacesAgree'
  OBVIOUS
<1> USE DEF TypeOK, PlacesAgree, GoTo, Send
<1>1. ASSUME NEW r \in Request, Arrive(r) PROVE PlacesAgree'
  <2>1. CASE \E o \in OrderID, u \in User, items \in Carts : ArriveCreate(r, o, u, items)
    BY <2>1 DEF ArriveCreate, NoCall
  <2>2. CASE \E o \in OrderID, u \in User : ArriveCancel(r, o, u)
    BY <2>2 DEF ArriveCancel, NoCall
  <2>3. CASE \E o \in OrderID, s \in AdminStatus : ArriveUpdate(r, o, s)
    BY <2>3 DEF ArriveUpdate, NoCall
  <2> QED
    BY <1>1, <2>1, <2>2, <2>3 DEF Arrive
<1>2. ASSUME NEW r \in Request, TurnAway(r) PROVE PlacesAgree'
  BY <1>2 DEF TurnAway
<1>3. ASSUME NEW r \in Request, BreakOff(r) \/ IncreaseTimesOut(r) PROVE PlacesAgree'
  BY <1>3 DEF BreakOff, IncreaseTimesOut
<1>4. ASSUME NEW r \in Request, CreateBegin(r) \/ DecreaseReturns(r) PROVE PlacesAgree'
  BY <1>4 DEF CreateBegin, DecreaseReturns
<1>5. ASSUME NEW r \in Request, CancelBegin(r) PROVE PlacesAgree'
  BY <1>5 DEF CancelBegin, Call
<1>6. ASSUME NEW r \in Request, CancelRow(r) \/ IncreaseReturns(r) PROVE PlacesAgree'
  BY <1>6 DEF CancelRow, IncreaseReturns
<1>7. ASSUME NEW r \in Request, UpdateBegin(r) \/ UpdateRow(r) PROVE PlacesAgree'
  BY <1>7 DEF UpdateBegin, UpdateRow
<1>8. ASSUME NEW r \in Request, Commit(r) \/ CommitUnconfirmed(r) PROVE PlacesAgree'
  BY <1>8 DEF Commit, CommitUnconfirmed
<1>9. ASSUME NEW r \in Request, Catalog(r) PROVE PlacesAgree'
  BY <1>9 DEF Catalog, CatalogDecrease, CatalogIncrease, CatalogRefuse
<1>10. CASE UNCHANGED vars
  BY <1>10 DEF vars
<1> QED
  BY <1>1, <1>2, <1>3, <1>4, <1>5, <1>6, <1>7, <1>8, <1>9, <1>10 DEF Next, Handler, Idle

\* The steps that write the row of o: the commit of the request that creates it,
\* the commit of the cancellation that holds it, and UpdateOrderStatus.
WritesRow(r, o) ==
  /\ call[r].order = o /\ call' = call /\ rpc' = rpc /\ ledger' = ledger
  /\ pc'[r] \in Ended
  /\ \/ /\ call[r].kind = "create" /\ pc[r] = "committing"
        /\ orders'[o] = InsertedRow(call[r].user, call[r].items)
     \/ /\ HoldsRow(r, o) /\ pc[r] = "committing"
        /\ orders'[o] = CancelledRow(orders[o])
     \/ /\ call[r].kind = "update" /\ ~RowLocked(o)
        /\ Updatable(orders[o], call[r].to)
        /\ orders'[o] = UpdatedRow(orders[o], call[r].to)

\* Nothing else writes the table.
LEMMA RowStep ==
  ASSUME TypeOK, PlacesAgree, [Next]_vars, NEW o \in OrderID, orders'[o] # orders[o]
  PROVE  \E r \in Request : WritesRow(r, o)
<1> USE DEF TypeOK, PlacesAgree
<1>1. \E r \in Request : UpdateRow(r) \/ Commit(r) \/ CommitUnconfirmed(r)
  BY DEF Next, vars, Arrive, ArriveCreate, ArriveCancel, ArriveUpdate, TurnAway, Handler,
         CreateBegin, DecreaseReturns, CancelBegin, CancelRow, IncreaseReturns, UpdateBegin,
         Catalog, CatalogDecrease, CatalogIncrease, CatalogRefuse, BreakOff,
         IncreaseTimesOut, Idle
<1>2. PICK r \in Request : UpdateRow(r) \/ Commit(r) \/ CommitUnconfirmed(r)
  BY <1>1
<1>3. CASE UpdateRow(r)
  BY <1>3 DEF UpdateRow, WritesRow, GoTo, Ended
<1>4. CASE Commit(r) \/ CommitUnconfirmed(r)
  <2>1. /\ orders' = Committed(r) /\ pc[r] = "committing" /\ UNCHANGED <<call, rpc, ledger>>
        /\ pc'[r] \in Ended
    BY <1>4 DEF Commit, CommitUnconfirmed, GoTo, Ended
  <2>2. call[r].order = o
    BY <2>1 DEF Committed
  <2> QED
    BY <2>1, <2>2 DEF Committed, HoldsRow, WritesRow
<1> QED
  BY <1>2, <1>3, <1>4

\* The steps that write the ledger of o: the catalog acting on a call it was sent.
WritesLedger(r, o) ==
  /\ call[r].order = o /\ rpc[r] = "sent"
  /\ rpc' = [rpc EXCEPT ![r] = "applied"]
  /\ pc' = pc /\ call' = call /\ orders' = orders
  /\ \/ /\ call[r].kind = "create"
        /\ ledger'[o] = [taken |-> ledger[o].taken + 1, restocked |-> ledger[o].restocked,
                         items |-> call[r].items]
     \/ /\ call[r].kind = "cancel"
        /\ ledger'[o] = [ledger[o] EXCEPT !.restocked = @ + 1]

\* Nothing else writes the ledger.
LEMMA LedgerStep ==
  ASSUME TypeOK, PlacesAgree, [Next]_vars, NEW o \in OrderID, ledger'[o] # ledger[o]
  PROVE  \E r \in Request : WritesLedger(r, o)
<1> USE DEF TypeOK, PlacesAgree
<1>1. PICK r \in Request : CatalogDecrease(r) \/ CatalogIncrease(r)
  BY DEF Next, vars, Arrive, ArriveCreate, ArriveCancel, ArriveUpdate, TurnAway, Handler,
         CreateBegin, DecreaseReturns, CancelBegin, CancelRow, IncreaseReturns, UpdateBegin,
         UpdateRow, Commit, CommitUnconfirmed, Catalog, CatalogRefuse, BreakOff,
         IncreaseTimesOut, Idle
<1>2. CASE CatalogDecrease(r)
  BY <1>2 DEF CatalogDecrease, Entry, WritesLedger
<1>3. CASE CatalogIncrease(r)
  <2>1. call[r].order = o
    BY <1>3 DEF CatalogIncrease
  <2> QED
    BY <1>3, <2>1 DEF CatalogIncrease, WritesLedger
<1> QED
  BY <1>1, <1>2, <1>3

\* The accounts of creations are kept: a fresh id belongs to one request only,
\* and that request's commit and its DecreaseStock are all that writes them.
LEMMA CreateStep ==
  TypeOK /\ PlacesAgree /\ CreateAccounts /\ CancelAccounts /\ [Next]_vars => CreateAccounts'
<1> SUFFICES ASSUME TypeOK, PlacesAgree, CreateAccounts, CancelAccounts, [Next]_vars
             PROVE  CreateAccounts'
  OBVIOUS
<1> USE NoOrderAssumption DEF TypeOK, PlacesAgree, CreateAccounts, Visible, GoTo, Send
<1>1. ASSUME NEW r \in Request, Arrive(r) PROVE CreateAccounts'
  <2>1. ASSUME NEW o \in OrderID, NEW u \in User, NEW items \in Carts, ArriveCreate(r, o, u, items)
        PROVE  CreateAccounts'
    BY <2>1 DEF ArriveCreate, Fresh, NoCall
  <2>2. ASSUME NEW o \in OrderID, NEW u \in User, ArriveCancel(r, o, u) PROVE CreateAccounts'
    BY <2>2 DEF ArriveCancel, NoCall
  <2>3. ASSUME NEW o \in OrderID, NEW s \in AdminStatus, ArriveUpdate(r, o, s) PROVE CreateAccounts'
    BY <2>3 DEF ArriveUpdate, NoCall
  <2> QED
    BY <1>1, <2>1, <2>2, <2>3 DEF Arrive
<1>2. ASSUME NEW r \in Request, TurnAway(r) \/ BreakOff(r) \/ IncreaseTimesOut(r)
      PROVE  CreateAccounts'
  BY <1>2 DEF TurnAway, BreakOff, IncreaseTimesOut
<1>3. ASSUME NEW r \in Request, CreateBegin(r) \/ DecreaseReturns(r) PROVE CreateAccounts'
  BY <1>3 DEF CreateBegin, DecreaseReturns
<1>4. ASSUME NEW r \in Request, CancelBegin(r) PROVE CreateAccounts'
  BY <1>4 DEF CancelBegin, Call
<1>5. ASSUME NEW r \in Request, CancelRow(r) \/ IncreaseReturns(r) PROVE CreateAccounts'
  BY <1>5 DEF CancelRow, IncreaseReturns
<1>6. ASSUME NEW r \in Request, UpdateBegin(r) PROVE CreateAccounts'
  BY <1>6 DEF UpdateBegin
<1>7. ASSUME NEW r \in Request, UpdateRow(r) PROVE CreateAccounts'
  <2>1. /\ pc' \in {[pc EXCEPT ![r] = "ok"], [pc EXCEPT ![r] = "failed"]}
        /\ pc[r] = "updating" /\ UNCHANGED <<call, rpc, ledger>>
    BY <1>7 DEF UpdateRow
  <2>2. \A o \in OrderID : Visible(o)' <=> Visible(o)
    BY <1>7 DEF UpdateRow, Updatable, UpdatedRow, Row, OrderStatus, Absent
  <2> QED
    BY <2>1, <2>2
<1>8. ASSUME NEW r \in Request, Commit(r) \/ CommitUnconfirmed(r) PROVE CreateAccounts'
  <2>1. /\ orders' = Committed(r) /\ pc[r] = "committing" /\ UNCHANGED <<call, rpc, ledger>>
        /\ pc' \in {[pc EXCEPT ![r] = "ok"], [pc EXCEPT ![r] = "failed"]}
    BY <1>8 DEF Commit, CommitUnconfirmed
  <2>2. CASE call[r].kind = "create"
    BY <2>1, <2>2 DEF Committed
  <2>3. CASE call[r].kind = "cancel"
    BY <2>1, <2>3 DEF Committed, CancelledRow, CancelAccounts, Row
  <2> QED
    BY <2>1, <2>2, <2>3
<1>9. ASSUME NEW r \in Request, CatalogDecrease(r) PROVE CreateAccounts'
  BY <1>9 DEF CatalogDecrease, Entry
<1>10. ASSUME NEW r \in Request, CatalogIncrease(r) PROVE CreateAccounts'
  BY <1>10 DEF CatalogIncrease, Entry
<1>11. ASSUME NEW r \in Request, CatalogRefuse(r) PROVE CreateAccounts'
  BY <1>11 DEF CatalogRefuse
<1>12. CASE UNCHANGED vars
  BY <1>12 DEF vars
<1> QED
  BY <1>1, <1>2, <1>3, <1>4, <1>5, <1>6, <1>7, <1>8, <1>9, <1>10, <1>11, <1>12
     DEF Next, Handler, Catalog, Idle

\* A visible row stays backed: it appears after its units were set aside, and
\* neither its items nor what the catalog took for it change any more.
LEMMA BackedStep ==
  TypeOK /\ PlacesAgree /\ CreateAccounts /\ CancelAccounts /\ StockBacked /\ [Next]_vars
    => StockBacked'
<1> SUFFICES ASSUME TypeOK, PlacesAgree, CreateAccounts, CancelAccounts, StockBacked, [Next]_vars,
                    NEW o \in OrderID, Visible(o)'
             PROVE  ledger'[o].taken = 1 /\ ledger'[o].items = orders'[o].items
  BY DEF StockBacked
<1>1. CASE orders'[o] # orders[o]
  <2>1. PICK r \in Request : WritesRow(r, o)
    BY <1>1, RowStep
  <2>2. CASE call[r].kind = "create"
    BY <2>1, <2>2 DEF CreateAccounts, PlacesAgree, InsertedRow, HoldsRow, WritesRow
  <2>3. CASE call[r].kind # "create"
    <3>1. Visible(o) /\ orders'[o].items = orders[o].items
      BY <2>1, <2>3 DEF CancelAccounts, HoldsRow, CancelledRow, UpdatedRow, TypeOK, Row, WritesRow
    <3> QED
      BY <2>1, <3>1 DEF StockBacked, WritesRow
  <2> QED
    BY <2>2, <2>3
<1>2. CASE orders'[o] = orders[o]
  <2>1. ledger[o].taken = 1 /\ ledger[o].items = orders[o].items
    BY <1>2 DEF StockBacked, Visible
  <2>2. CASE ledger'[o] # ledger[o]
    <3>1. PICK r \in Request : WritesLedger(r, o)
      BY <2>2, LedgerStep
    <3>2. call[r].kind # "create"
      BY <1>2, <3>1 DEF CreateAccounts, Visible, WritesLedger
    <3>3. ledger'[o] = [ledger[o] EXCEPT !.restocked = @ + 1]
      BY <3>1, <3>2 DEF WritesLedger
    <3> QED
      BY <1>2, <2>1, <3>3 DEF TypeOK, Entry
  <2> QED
    BY <1>2, <2>1, <2>2
<1> QED
  BY <1>1, <1>2

\* What a visible row keeps in any step, whoever writes it.
LEMMA VisibleRowKeeps ==
  ASSUME TypeOK, PlacesAgree, CreateAccounts, CancelAccounts, [Next]_vars,
         NEW o \in OrderID, Visible(o)
  PROVE  /\ Visible(o)'
         /\ orders'[o].user = orders[o].user
         /\ orders'[o].items = orders[o].items
         /\ orders[o].status = "CANCELED" => orders'[o] = orders[o]
         /\ RowLocked(o) /\ orders'[o] # orders[o]
              => \E r \in Request : HoldsRow(r, o) /\ ~HoldsRow(r, o)'
<1>1. CASE orders'[o] = orders[o]
  BY <1>1 DEF Visible
<1>2. CASE orders'[o] # orders[o]
  <2>1. PICK r \in Request : WritesRow(r, o)
    BY <1>2, RowStep
  <2>2. call[r].kind # "create"
    BY <2>1 DEF CreateAccounts, WritesRow
  <2>3. CASE HoldsRow(r, o) /\ orders'[o] = CancelledRow(orders[o])
    <3>1. orders[o].status = "PENDING_PAYMENT"
      BY <2>3 DEF CancelAccounts, Cancellable
    <3>2. ~HoldsRow(r, o)'
      BY <2>1 DEF HoldsRow, WritesRow, Ended
    <3> QED
      BY <2>3, <3>1, <3>2 DEF CancelledRow, TypeOK, Row, Visible, Absent
  <2>4. CASE /\ ~RowLocked(o) /\ Updatable(orders[o], call[r].to)
             /\ orders'[o] = UpdatedRow(orders[o], call[r].to)
    BY <2>4 DEF Updatable, UpdatedRow, TypeOK, Row, Visible, OrderStatus, Absent
  <2> QED
    BY <2>1, <2>2, <2>3, <2>4 DEF WritesRow
<1> QED
  BY <1>1, <1>2

\* A request holds a row because it held it before, or because its UPDATE has
\* just found the row cancellable and not locked by anybody.
LocksRow(r, o) ==
  /\ ~RowLocked(o) /\ Cancellable(orders[o], call[r].user)
  /\ rpc[r] = "none" /\ rpc' = [rpc EXCEPT ![r] = "sent"]
  /\ call' = call /\ orders' = orders /\ ledger' = ledger
  /\ \A s \in Request \ {r} : pc'[s] = pc[s]

\* Whoever holds a row after a step held it before, or has just locked it, and is
\* still asked the same.
LEMMA HolderStep ==
  ASSUME TypeOK, PlacesAgree, [Next]_vars,
         NEW r \in Request, NEW o \in OrderID, HoldsRow(r, o)'
  PROVE  call'[r] = call[r] /\ (HoldsRow(r, o) \/ LocksRow(r, o))
<1> USE DEF TypeOK, PlacesAgree, HoldsRow, LocksRow, GoTo, Send
<1> DEFINE Goal == call'[r] = call[r] /\ (HoldsRow(r, o) \/ LocksRow(r, o))
<1>1. ASSUME NEW s \in Request, Arrive(s) PROVE Goal
  BY <1>1 DEF Arrive, ArriveCreate, ArriveCancel, ArriveUpdate, NoCall
<1>2. ASSUME NEW s \in Request, TurnAway(s) \/ BreakOff(s) \/ IncreaseTimesOut(s) PROVE Goal
  BY <1>2 DEF TurnAway, BreakOff, IncreaseTimesOut
<1>3. ASSUME NEW s \in Request, CreateBegin(s) \/ DecreaseReturns(s) PROVE Goal
  BY <1>3 DEF CreateBegin, DecreaseReturns
<1>4. ASSUME NEW s \in Request, CancelBegin(s) PROVE Goal
  BY <1>4 DEF CancelBegin, Call
<1>5. ASSUME NEW s \in Request, CancelRow(s) PROVE Goal
  BY <1>5 DEF CancelRow
<1>6. ASSUME NEW s \in Request, IncreaseReturns(s) PROVE Goal
  BY <1>6 DEF IncreaseReturns
<1>7. ASSUME NEW s \in Request, UpdateBegin(s) \/ UpdateRow(s) PROVE Goal
  BY <1>7 DEF UpdateBegin, UpdateRow
<1>8. ASSUME NEW s \in Request, Commit(s) \/ CommitUnconfirmed(s) PROVE Goal
  BY <1>8 DEF Commit, CommitUnconfirmed
<1>9. ASSUME NEW s \in Request, Catalog(s) PROVE Goal
  BY <1>9 DEF Catalog, CatalogDecrease, CatalogIncrease, CatalogRefuse
<1>10. CASE UNCHANGED vars
  BY <1>10 DEF vars
<1> QED
  BY <1>1, <1>2, <1>3, <1>4, <1>5, <1>6, <1>7, <1>8, <1>9, <1>10 DEF Next, Handler, Idle

\* What a cancellation or a status update knows: the order it was given when it
\* arrived, and the items it read from the row.
NamesOrder(r) ==
  /\ call[r].kind = "none" => Visible(call'[r].order) /\ orders' = orders
  /\ call[r].kind # "none" =>
       call'[r].kind = call[r].kind /\ call'[r].order = call[r].order
  /\ (rpc'[r] # "none" \/ pc'[r] = "cancelling") =>
       \/ call'[r] = call[r] /\ (rpc[r] # "none" \/ pc[r] = "cancelling")
       \/ orders' = orders /\ call'[r].items = orders[call'[r].order].items
  /\ rpc[r] = "applied" => rpc'[r] = "applied"
  /\ rpc'[r] = "applied" => (rpc[r] = "applied" \/ CatalogIncrease(r))
  /\ rpc'[r] = "sent" => (rpc[r] = "sent" \/ pc'[r] = "increasing")

\* Every cancellation and update names an order that was visible when it came in.
LEMMA NamesOrderStep ==
  ASSUME TypeOK, PlacesAgree, [Next]_vars,
         NEW r \in Request, call'[r].kind \in {"cancel", "update"}
  PROVE  NamesOrder(r)
<1> USE DEF TypeOK, PlacesAgree, NamesOrder, GoTo, Send
<1> DEFINE Goal == NamesOrder(r)
<1>1. ASSUME NEW s \in Request, Arrive(s) PROVE Goal
  <2>1. CASE s # r
    BY <1>1, <2>1 DEF Arrive, ArriveCreate, ArriveCancel, ArriveUpdate
  <2>2. CASE s = r
    <3>1. pc[r] = "idle" /\ pc'[r] = "begin" /\ UNCHANGED <<rpc, orders>>
      BY <1>1, <2>2 DEF Arrive, ArriveCreate, ArriveCancel, ArriveUpdate
    <3>2. Visible(call'[r].order)
      <4>1. ASSUME NEW o \in OrderID, NEW u \in User, NEW items \in Carts
            PROVE  ArriveCreate(r, o, u, items) => call'[r].kind = "create"
        BY DEF ArriveCreate, NoCall
      <4>2. ASSUME NEW o \in OrderID, NEW u \in User, ArriveCancel(r, o, u)
            PROVE  Visible(call'[r].order)
        BY <4>2 DEF ArriveCancel, NoCall
      <4>3. ASSUME NEW o \in OrderID, NEW s1 \in AdminStatus, ArriveUpdate(r, o, s1)
            PROVE  Visible(call'[r].order)
        BY <4>3 DEF ArriveUpdate, NoCall
      <4> QED
        BY <1>1, <2>2, <4>1, <4>2, <4>3 DEF Arrive
    <3> QED
      BY <3>1, <3>2
  <2> QED
    BY <2>1, <2>2
<1>2. ASSUME NEW s \in Request, TurnAway(s) \/ BreakOff(s) \/ IncreaseTimesOut(s) PROVE Goal
  BY <1>2 DEF TurnAway, BreakOff, IncreaseTimesOut
<1>3. ASSUME NEW s \in Request, CreateBegin(s) \/ DecreaseReturns(s) PROVE Goal
  BY <1>3 DEF CreateBegin, DecreaseReturns
<1>4. ASSUME NEW s \in Request, CancelBegin(s) PROVE Goal
  BY <1>4 DEF CancelBegin, Call, ItemsForRestock
<1>5. ASSUME NEW s \in Request, CancelRow(s) \/ IncreaseReturns(s) PROVE Goal
  BY <1>5 DEF CancelRow, IncreaseReturns
<1>6. ASSUME NEW s \in Request, UpdateBegin(s) \/ UpdateRow(s) PROVE Goal
  BY <1>6 DEF UpdateBegin, UpdateRow
<1>7. ASSUME NEW s \in Request, Commit(s) \/ CommitUnconfirmed(s) PROVE Goal
  BY <1>7 DEF Commit, CommitUnconfirmed
<1>8. ASSUME NEW s \in Request, CatalogDecrease(s) \/ CatalogRefuse(s) PROVE Goal
  BY <1>8 DEF CatalogDecrease, CatalogRefuse
<1>9. ASSUME NEW s \in Request, CatalogIncrease(s) PROVE Goal
  BY <1>9 DEF CatalogIncrease
<1>10. CASE UNCHANGED vars
  BY <1>10 DEF vars
<1> QED
  BY <1>1, <1>2, <1>3, <1>4, <1>5, <1>6, <1>7, <1>8, <1>9, <1>10
     DEF Next, Handler, Catalog, Idle

\* The accounts of cancellations are kept: what a cancellation read stays true,
\* because rows keep their items, and a held row keeps its owner and status too.
LEMMA CancelStep ==
  TypeOK /\ PlacesAgree /\ CreateAccounts /\ CancelAccounts /\ [Next]_vars => CancelAccounts'
<1> SUFFICES ASSUME TypeOK, PlacesAgree, CreateAccounts, CancelAccounts, [Next]_vars
             PROVE  CancelAccounts'
  OBVIOUS
<1>0. TypeOK' /\ PlacesAgree'
  BY TypeStep, PlacesStep
<1>1. ASSUME NEW r \in Request, call'[r].kind \in {"cancel", "update"}
      PROVE  Visible(call[r].order)'
  <2>1. NamesOrder(r)
    BY <1>1, NamesOrderStep
  <2>2. call'[r].order \in OrderID
    BY <1>0, <1>1 DEF PlacesAgree
  <2>3. Visible(call'[r].order)
    BY <1>1, <2>1 DEF NamesOrder, CancelAccounts
  <2> QED
    BY <2>2, <2>3, VisibleRowKeeps DEF Visible
<1>2. ASSUME NEW r \in Request, call'[r].kind = "cancel", rpc'[r] # "none" \/ pc'[r] = "cancelling"
      PROVE  call'[r].items = orders'[call'[r].order].items
  <2>1. NamesOrder(r)
    BY <1>2, NamesOrderStep
  <2>2. CASE orders' = orders /\ call'[r].items = orders[call'[r].order].items
    BY <2>2
  <2>3. CASE call'[r] = call[r] /\ (rpc[r] # "none" \/ pc[r] = "cancelling")
    <3>1. call[r].items = orders[call[r].order].items /\ Visible(call[r].order)
      BY <1>2, <2>3 DEF CancelAccounts
    <3>2. call[r].order \in OrderID
      BY <1>2, <2>3 DEF PlacesAgree
    <3> QED
      BY <2>3, <3>1, <3>2, VisibleRowKeeps
  <2> QED
    BY <1>2, <2>1, <2>2, <2>3 DEF NamesOrder
<1>3. ASSUME NEW r \in Request, NEW o \in OrderID, HoldsRow(r, o)'
      PROVE  Cancellable(orders'[o], call'[r].user)
  <2>1. call'[r] = call[r] /\ (HoldsRow(r, o) \/ LocksRow(r, o))
    BY <1>3, HolderStep
  <2>2. CASE LocksRow(r, o)
    BY <2>1, <2>2 DEF LocksRow
  <2>3. CASE HoldsRow(r, o)
    <3>1. Cancellable(orders[o], call[r].user)
      BY <2>3 DEF CancelAccounts
    <3>2. CASE orders'[o] # orders[o]
      <4>1. \E s \in Request : HoldsRow(s, o) /\ ~HoldsRow(s, o)'
        BY <2>3, <3>1, <3>2, VisibleRowKeeps DEF Visible, Absent, Cancellable, RowLocked
      <4> QED
        BY <1>3, <2>3, <4>1 DEF CancelAccounts
    <3> QED
      BY <2>1, <3>1, <3>2
  <2> QED
    BY <2>1, <2>2, <2>3
<1>4. ASSUME NEW r \in Request, NEW s \in Request, NEW o \in OrderID,
             HoldsRow(r, o)', HoldsRow(s, o)'
      PROVE  r = s
  <2>1. (HoldsRow(r, o) \/ LocksRow(r, o)) /\ (HoldsRow(s, o) \/ LocksRow(s, o))
    BY <1>4, HolderStep
  <2>2. ~LocksRow(r, o) \/ ~LocksRow(s, o) \/ r = s
    BY DEF LocksRow, TypeOK
  <2> QED
    BY <2>1, <2>2 DEF LocksRow, RowLocked, CancelAccounts
<1>5. ASSUME NEW r \in Request, call'[r].kind = "cancel", rpc'[r] = "applied"
      PROVE  ledger'[call'[r].order].restocked >= 1
  <2>1. NamesOrder(r)
    BY <1>5, NamesOrderStep
  <2> DEFINE o == call'[r].order
  <2>2. o \in OrderID
    BY <1>0, <1>5 DEF PlacesAgree
  <2>3. CASE CatalogIncrease(r)
    BY <2>2, <2>3 DEF CatalogIncrease, TypeOK, Entry
  <2>4. CASE rpc[r] = "applied"
    <3>1. call[r].kind = "cancel" /\ call[r].order = o
      BY <1>5, <2>1, <2>4 DEF NamesOrder, PlacesAgree
    <3>2. ledger[o].restocked >= 1
      BY <2>4, <3>1 DEF CancelAccounts
    <3>3. CASE ledger'[o] # ledger[o]
      <4>1. PICK s \in Request : WritesLedger(s, o)
        BY <2>2, <3>3, LedgerStep
      <4> QED
        BY <2>2, <3>2, <4>1 DEF WritesLedger, TypeOK, Entry
    <3> QED
      BY <3>2, <3>3
  <2> QED
    BY <1>5, <2>1, <2>3, <2>4 DEF NamesOrder
<1> QED
  BY <1>1, <1>2, <1>3, <1>4, <1>5 DEF CancelAccounts

\* A cancellation that nothing may break off leaves its place only on the answer
\* of IncreaseStock, and then only by its commit.
LEMMA PatientStep ==
  ASSUME TypeOK, PlacesAgree, [Next]_vars, "cancel" \notin Faults,
         NEW r \in Request, call[r].kind = "cancel", pc[r] \in {"increasing", "committing"}
  PROVE  call'[r] = call[r] /\ (pc'[r] = pc[r] \/ IncreaseReturns(r) \/ Commit(r))
<1> USE DEF TypeOK, PlacesAgree, GoTo, Send
<1> DEFINE Goal == call'[r] = call[r] /\ (pc'[r] = pc[r] \/ IncreaseReturns(r) \/ Commit(r))
<1>1. ASSUME NEW s \in Request, Arrive(s) PROVE Goal
  BY <1>1 DEF Arrive, ArriveCreate, ArriveCancel, ArriveUpdate
<1>2. ASSUME NEW s \in Request, TurnAway(s) \/ BreakOff(s) \/ IncreaseTimesOut(s) PROVE Goal
  BY <1>2 DEF TurnAway, BreakOff, IncreaseTimesOut
<1>3. ASSUME NEW s \in Request, CreateBegin(s) \/ DecreaseReturns(s) PROVE Goal
  BY <1>3 DEF CreateBegin, DecreaseReturns
<1>4. ASSUME NEW s \in Request, CancelBegin(s) PROVE Goal
  BY <1>4 DEF CancelBegin
<1>5. ASSUME NEW s \in Request, CancelRow(s) PROVE Goal
  BY <1>5 DEF CancelRow
<1>6. ASSUME NEW s \in Request, IncreaseReturns(s) PROVE Goal
  BY <1>6 DEF IncreaseReturns
<1>7. ASSUME NEW s \in Request, UpdateBegin(s) \/ UpdateRow(s) PROVE Goal
  BY <1>7 DEF UpdateBegin, UpdateRow
<1>8. ASSUME NEW s \in Request, Commit(s) \/ CommitUnconfirmed(s) PROVE Goal
  BY <1>8 DEF Commit, CommitUnconfirmed
<1>9. ASSUME NEW s \in Request, Catalog(s) PROVE Goal
  BY <1>9 DEF Catalog, CatalogDecrease, CatalogIncrease, CatalogRefuse
<1>10. CASE UNCHANGED vars
  BY <1>10 DEF vars
<1> QED
  BY <1>1, <1>2, <1>3, <1>4, <1>5, <1>6, <1>7, <1>8, <1>9, <1>10 DEF Next, Handler, Idle

\* The accounts of restocking are kept: the row lock makes the cancellation that
\* calls IncreaseStock the only one, from its check of the status to its commit.
LEMMA RestockStep ==
  ASSUME TypeOK, PlacesAgree, CreateAccounts, CancelAccounts, RestockAccounts, [Next]_vars
  PROVE  RestockAccounts'
<1> SUFFICES ASSUME "cancel" \notin Faults
             PROVE  /\ \A r \in Request :
                         (call'[r].kind = "cancel" /\ rpc'[r] = "sent") => pc'[r] = "increasing"
                    /\ \A r \in Request, o \in OrderID :
                         HoldsRow(r, o)' =>
                           ledger'[o].restocked = (IF rpc'[r] = "applied" THEN 1 ELSE 0)
                    /\ RestockedOnlyByCancel'
  BY DEF RestockAccounts
<1>0. TypeOK' /\ PlacesAgree' /\ CancelAccounts'
  BY TypeStep, PlacesStep, CancelStep
\* A call in flight belongs to the request that holds the row.
<1>1. ASSUME NEW s \in Request, NEW o \in OrderID, WritesLedger(s, o), call[s].kind = "cancel"
      PROVE  HoldsRow(s, o) /\ ledger'[o] = [ledger[o] EXCEPT !.restocked = 1]
  <2>1. HoldsRow(s, o)
    BY <1>1 DEF WritesLedger, RestockAccounts, HoldsRow
  <2>2. ledger[o].restocked = 0
    BY <1>1, <2>1 DEF WritesLedger, RestockAccounts
  <2> QED
    BY <1>1, <2>1, <2>2 DEF WritesLedger
\* What was never visible was never restocked.
<1>2. ASSUME NEW s \in Request, NEW o \in OrderID, WritesLedger(s, o), call[s].kind = "create"
      PROVE  ledger[o].restocked = 0 /\ ledger'[o].restocked = 0
  <2>1. ~Visible(o)
    BY <1>2 DEF WritesLedger, CreateAccounts
  <2>2. ~(ledger[o].restocked > 0)
    BY <2>1 DEF RestockAccounts, RestockedOnlyByCancel, CancelAccounts, Cancellable,
                Visible, Absent
  <2> QED
    BY <1>2, <2>2 DEF WritesLedger, TypeOK, Entry
<1>3. ASSUME NEW r \in Request, call'[r].kind = "cancel", rpc'[r] = "sent"
      PROVE  pc'[r] = "increasing"
  <2>1. NamesOrder(r)
    BY <1>3, NamesOrderStep
  <2>2. CASE rpc[r] = "sent"
    <3>1. call[r].kind = "cancel" /\ pc[r] = "increasing"
      BY <1>3, <2>1, <2>2 DEF NamesOrder, PlacesAgree, RestockAccounts
    <3> QED
      BY <2>2, <3>1, PatientStep DEF IncreaseReturns, Commit
  <2> QED
    BY <1>3, <2>1, <2>2 DEF NamesOrder
<1>4. ASSUME NEW r \in Request, NEW o \in OrderID, HoldsRow(r, o)'
      PROVE  ledger'[o].restocked = (IF rpc'[r] = "applied" THEN 1 ELSE 0)
  <2>1. call'[r] = call[r] /\ (HoldsRow(r, o) \/ LocksRow(r, o))
    BY <1>4, HolderStep
  <2>2. NamesOrder(r) /\ call[r].kind = "cancel" /\ call[r].order = o
    BY <1>4, <2>1, NamesOrderStep DEF HoldsRow
  <2>3. CASE LocksRow(r, o)
    <3>1. ~(ledger[o].restocked > 0)
      BY <2>3 DEF LocksRow, RowLocked, Cancellable, RestockAccounts, RestockedOnlyByCancel
    <3> QED
      BY <2>3, <3>1 DEF LocksRow, TypeOK, Entry
  <2>4. CASE HoldsRow(r, o) /\ ledger'[o] = ledger[o]
    <3>1. ~CatalogIncrease(r)
      BY <2>2, <2>4 DEF CatalogIncrease, TypeOK, Entry
    <3> QED
      BY <2>2, <2>4, <3>1 DEF NamesOrder, RestockAccounts
  <2>5. CASE HoldsRow(r, o) /\ ledger'[o] # ledger[o]
    <3>1. PICK s \in Request : WritesLedger(s, o)
      BY <2>5, LedgerStep
    <3>2. CASE call[s].kind = "cancel"
      <4>1. s = r
        BY <1>1, <2>5, <3>1, <3>2 DEF CancelAccounts
      <4>2. ledger'[o] = [ledger[o] EXCEPT !.restocked = 1]
        BY <1>1, <3>1, <3>2
      <4>3. rpc'[r] = "applied"
        BY <3>1, <4>1 DEF WritesLedger, TypeOK
      <4> QED
        BY <4>2, <4>3 DEF TypeOK, Entry
    <3>3. CASE call[s].kind = "create"
      BY <1>2, <2>2, <2>5, <3>1, <3>3 DEF WritesLedger, RestockAccounts, TypeOK
    <3> QED
      BY <3>1, <3>2, <3>3 DEF WritesLedger
  <2> QED
    BY <2>1, <2>3, <2>4, <2>5
<1>5. ASSUME NEW o \in OrderID, ledger'[o].restocked > 0
      PROVE  /\ ledger'[o].restocked = 1
             /\ \/ orders'[o].status = "CANCELED"
                \/ \E r \in Request : HoldsRow(r, o)' /\ rpc'[r] = "applied"
  <2>1. CASE ledger'[o] # ledger[o]
    <3>1. PICK s \in Request : WritesLedger(s, o)
      BY <2>1, LedgerStep
    <3>2. call[s].kind = "cancel"
      <4>1. call[s].kind \in {"create", "cancel"}
        BY <3>1 DEF WritesLedger
      <4> QED
        BY <1>2, <1>5, <3>1, <4>1
    <3>3. HoldsRow(s, o) /\ ledger'[o] = [ledger[o] EXCEPT !.restocked = 1]
      BY <1>1, <3>1, <3>2
    <3>4. HoldsRow(s, o)' /\ rpc'[s] = "applied"
      BY <3>1, <3>3 DEF WritesLedger, HoldsRow, TypeOK
    <3> QED
      BY <3>3, <3>4 DEF TypeOK, Entry
  <2>2. CASE ledger'[o] = ledger[o]
    <3>1. ledger[o].restocked = 1
      BY <1>5, <2>2 DEF RestockAccounts, RestockedOnlyByCancel
    <3>2. CASE orders[o].status = "CANCELED"
      BY <2>2, <3>1, <3>2, VisibleRowKeeps DEF Visible, Absent
    <3>3. ASSUME NEW r \in Request, HoldsRow(r, o), rpc[r] = "applied"
          PROVE  orders'[o].status = "CANCELED" \/ (HoldsRow(r, o)' /\ rpc'[r] = "applied")
      <4>1. call[r].kind = "cancel" /\ call[r].order = o /\ pc[r] \in {"increasing", "committing"}
        BY <3>3 DEF HoldsRow
      <4>2. call'[r] = call[r] /\ (pc'[r] = pc[r] \/ IncreaseReturns(r) \/ Commit(r))
        BY <4>1, PatientStep
      <4>3. rpc'[r] = "applied"
        BY <3>3, <4>1, <4>2, NamesOrderStep DEF NamesOrder
      <4>4. CASE pc'[r] = pc[r]
        BY <4>1, <4>2, <4>3, <4>4 DEF HoldsRow
      <4>5. CASE IncreaseReturns(r)
        BY <3>3, <4>1, <4>2, <4>3, <4>5 DEF IncreaseReturns, HoldsRow, GoTo, TypeOK
      <4>6. CASE Commit(r)
        BY <4>1, <4>6 DEF Commit, Committed, CancelledRow, TypeOK, Row
      <4> QED
        BY <4>2, <4>4, <4>5, <4>6
    <3> QED
      BY <1>5, <2>2, <3>1, <3>2, <3>3 DEF RestockAccounts, RestockedOnlyByCancel
  <2> QED
    BY <2>1, <2>2
<1> QED
  BY <1>3, <1>4, <1>5 DEF RestockedOnlyByCancel

\* No order becomes cancelled without its restocking, as long as nobody sets that
\* status with UpdateOrderStatus.
LEMMA CancelledStep ==
  ASSUME TypeOK, PlacesAgree, CreateAccounts, CancelAccounts, CancelledMeansRestocked,
         "CANCELED" \notin AdminStatus, [Next]_vars
  PROVE  CancelledMeansRestocked'
<1> SUFFICES ASSUME NEW o \in OrderID, orders'[o].status = "CANCELED"
             PROVE  ledger'[o].restocked >= 1
  BY DEF CancelledMeansRestocked
<1>1. ledger[o].restocked >= 1
  <2>1. CASE orders[o].status = "CANCELED"
    BY <2>1 DEF CancelledMeansRestocked
  <2>2. CASE orders[o].status # "CANCELED"
    <3>1. PICK r \in Request : WritesRow(r, o)
      BY <2>2, RowStep
    <3>2. HoldsRow(r, o) /\ pc[r] = "committing"
      BY <3>1 DEF WritesRow, InsertedRow, Updatable, UpdatedRow, TypeOK, Call, Row, Absent
    <3> QED
      BY <3>2 DEF HoldsRow, PlacesAgree, CancelAccounts
  <2> QED
    BY <2>1, <2>2
<1>2. CASE ledger'[o] # ledger[o]
  <2>1. PICK r \in Request : WritesLedger(r, o)
    BY <1>2, LedgerStep
  <2> QED
    BY <1>1, <2>1 DEF WritesLedger, TypeOK, Entry
<1> QED
  BY <1>1, <1>2

-----------------------------------------------------------------------------
(***************************************************************************)
(* The catalog's books.                                                    *)
(***************************************************************************)

\* The units of p that an entry of the ledger holds, and those of all entries.
HeldBy(entry, p) == IF entry.taken = 1 /\ entry.restocked = 0 THEN entry.items[p] ELSE 0
HeldIn(L, p) == SumFunctionOnSet([o \in OrderID |-> HeldBy(L[o], p)], OrderID)

\* An entry holds a natural number of units.
LEMMA HeldByType == ASSUME NEW entry \in Entry, NEW p \in Product PROVE HeldBy(entry, p) \in Nat
BY DEF HeldBy, Entry, Items

\* The sum over the orders held is the sum over all orders of what each holds.
LEMMA HeldUnitsSum ==
  ASSUME NEW L \in [OrderID -> Entry], NEW p \in Product,
         NEW H, H = {o \in OrderID : L[o].taken = 1 /\ L[o].restocked = 0}
  PROVE  /\ SumFunction([o \in H |-> L[o].items[p]]) = HeldIn(L, p)
         /\ HeldIn(L, p) \in Nat
<1> DEFINE f == [o \in H |-> L[o].items[p]]
           g == [o \in OrderID |-> HeldBy(L[o], p)]
<1>1. H \in SUBSET OrderID
  OBVIOUS
<1>2. \A o \in OrderID : g[o] \in Nat
  BY HeldByType
<1>3. \A o \in H : f[o] \in Int /\ f[o] = g[o]
  BY <1>1, <1>2 DEF HeldBy
<1>4. \A o \in OrderID \ H : g[o] = 0
  BY DEF HeldBy
<1>5. SumFunction(f) = SumFunctionOnSet(f, H)
  BY DEF SumFunction
<1>6. HeldIn(L, p) = SumFunctionOnSet(g, OrderID)
  BY DEF HeldIn
<1> HIDE DEF f, g
<1>7. SumFunctionOnSet(f, H) = SumFunctionOnSet(g, OrderID)
  BY <1>1, <1>3, <1>4, OrderIDAssumption, SumZeros
<1>8. SumFunctionOnSet(g, OrderID) \in Nat
  BY <1>2, OrderIDAssumption, SumNat
<1> QED
  BY <1>5, <1>6, <1>7, <1>8 DEF f

\* What HeldUnits says of the ledger of a state.
LEMMA HeldUnitsNow ==
  ASSUME TypeOK, NEW p \in Product
  PROVE  HeldUnits(p) = HeldIn(ledger, p) /\ HeldIn(ledger, p) \in Nat
<1>1. PICK L : L = ledger
  OBVIOUS
<1>2. PICK H : H = {o \in OrderID : L[o].taken = 1 /\ L[o].restocked = 0}
  OBVIOUS
<1>3. L \in [OrderID -> Entry]
  BY <1>1 DEF TypeOK
<1>4. SumFunction([o \in H |-> L[o].items[p]]) = HeldIn(L, p) /\ HeldIn(L, p) \in Nat
  BY <1>2, <1>3, HeldUnitsSum
<1>5. {o \in OrderID : Held(o)} = H
  BY <1>1, <1>2 DEF Held
<1>6. HeldUnits(p) = SumFunction([o \in H |-> L[o].items[p]])
  BY <1>1, <1>5, Zenon DEF HeldUnits
<1> QED
  BY <1>1, <1>4, <1>6

\* The same of the next state.
LEMMA HeldUnitsThen ==
  (TypeOK => \A p \in Product : HeldUnits(p) = HeldIn(ledger, p))'
<1>1. TypeOK => \A p \in Product : HeldUnits(p) = HeldIn(ledger, p)
  BY HeldUnitsNow
<1> QED
  BY <1>1, PTL

\* Another entry for one order changes the units held by what that order holds.
LEMMA HeldInChange ==
  ASSUME NEW L \in [OrderID -> Entry], NEW o \in OrderID, NEW entry \in Entry, NEW p \in Product,
         NEW M, M = [L EXCEPT ![o] = entry]
  PROVE  HeldIn(M, p) = HeldIn(L, p) - HeldBy(L[o], p) + HeldBy(entry, p)
<1> DEFINE f == [x \in OrderID |-> HeldBy(L[x], p)]
           g == [x \in OrderID |-> HeldBy(M[x], p)]
<1>1. M \in [OrderID -> Entry] /\ M[o] = entry /\ \A x \in OrderID \ {o} : M[x] = L[x]
  OBVIOUS
<1>2. \A x \in OrderID : f[x] \in Int /\ g[x] \in Int
  <2>1. \A x \in OrderID : HeldBy(L[x], p) \in Nat /\ HeldBy(M[x], p) \in Nat
    BY <1>1, HeldByType
  <2> QED
    BY <2>1
<1>3. \A x \in OrderID \ {o} : f[x] = g[x]
  BY <1>1
<1>4. f[o] = HeldBy(L[o], p) /\ g[o] = HeldBy(entry, p)
  BY <1>1
<1>5. HeldIn(L, p) = SumFunctionOnSet(f, OrderID) /\ HeldIn(M, p) = SumFunctionOnSet(g, OrderID)
  BY DEF HeldIn
<1> HIDE DEF f, g
<1>6. SumFunctionOnSet(g, OrderID) = SumFunctionOnSet(f, OrderID) - f[o] + g[o]
  BY <1>2, <1>3, OrderIDAssumption, SumChange
<1> QED
  BY <1>4, <1>5, <1>6

\* The books stay balanced: DecreaseStock takes for an order that holds nothing yet
\* what it then holds, IncreaseStock gives back what the order held until then,
\* which are the quantities its cancellation read.
LEMMA StockStep ==
  ASSUME TypeOK, TypeOK', PlacesAgree, StockBacked, CreateAccounts, CancelAccounts,
         RestockAccounts, StockAccounts, [Next]_vars
  PROVE  StockAccounts'
<1> SUFFICES ASSUME "cancel" \notin Faults, NEW p \in Product
             PROVE  stock'[p] + HeldUnits(p)' = InitStock[p]
  BY DEF StockAccounts
<1>1. stock[p] + HeldUnits(p) = InitStock[p] /\ stock[p] \in Nat
  BY DEF StockAccounts, TypeOK, Items
<1>2. HeldUnits(p) = HeldIn(ledger, p) /\ HeldIn(ledger, p) \in Nat
  BY HeldUnitsNow
<1>3. HeldUnits(p)' = HeldIn(ledger', p)
  BY HeldUnitsThen
<1>4. ASSUME NEW r \in Request, CatalogDecrease(r) PROVE stock'[p] + HeldUnits(p)' = InitStock[p]
  <2>1. PICK o \in OrderID : o = call[r].order
    BY <1>4 DEF CatalogDecrease, PlacesAgree
  <2>2. PICK n \in Nat : n = call[r].items[p]
    BY DEF TypeOK, Call, Items
  <2>3. ledger[o].taken = 0 /\ ~Visible(o)
    BY <1>4, <2>1 DEF CatalogDecrease, CreateAccounts
  <2>4. ledger[o].restocked = 0
    BY <2>3 DEF RestockAccounts, RestockedOnlyByCancel, CancelAccounts, Cancellable, Visible,
                Absent, TypeOK, Entry
  <2>5. PICK entry : entry = [taken |-> ledger[o].taken + 1, restocked |-> ledger[o].restocked,
                              items |-> call[r].items]
    OBVIOUS
  <2>e. /\ entry \in Entry
        /\ entry.taken = 1 /\ entry.restocked = 0 /\ entry.items = call[r].items
    BY <2>3, <2>4, <2>5 DEF TypeOK, Call, Entry
  <2>6. ledger' = [ledger EXCEPT ![o] = entry]
    BY <1>4, <2>1, <2>5, Zenon DEF CatalogDecrease
  <2>7. HeldIn(ledger', p) = HeldIn(ledger, p) - HeldBy(ledger[o], p) + HeldBy(entry, p)
    <3>1. ledger \in [OrderID -> Entry]
      BY DEF TypeOK
    <3> QED
      BY <2>6, <2>e, <3>1, HeldInChange
  <2>8. HeldBy(ledger[o], p) = 0 /\ HeldBy(entry, p) = n
    BY <2>2, <2>3, <2>e DEF HeldBy
  <2>9. stock'[p] = stock[p] - n
    BY <1>4, <2>2 DEF CatalogDecrease, Minus
  <2> QED
    BY <1>1, <1>2, <1>3, <2>7, <2>8, <2>9
<1>5. ASSUME NEW r \in Request, CatalogIncrease(r) PROVE stock'[p] + HeldUnits(p)' = InitStock[p]
  <2>1. PICK o \in OrderID : o = call[r].order
    BY <1>5 DEF CatalogIncrease, PlacesAgree
  <2>2. PICK n \in Nat : n = call[r].items[p]
    BY DEF TypeOK, Call, Items
  <2>3. HoldsRow(r, o) /\ ledger[o].restocked = 0
    BY <1>5, <2>1 DEF CatalogIncrease, RestockAccounts, HoldsRow
  <2>4. Visible(o)
    BY <2>3 DEF CancelAccounts, Cancellable, Visible, Absent
  <2>5. ledger[o].taken = 1 /\ call[r].items = ledger[o].items
    BY <1>5, <2>1, <2>4 DEF StockBacked, CancelAccounts, CatalogIncrease
  <2>6. PICK entry : entry = [ledger[o] EXCEPT !.restocked = @ + 1]
    OBVIOUS
  <2>e. entry \in Entry /\ entry.restocked = 1
    BY <2>3, <2>6 DEF TypeOK, Entry
  <2>7. ledger' = [ledger EXCEPT ![o] = entry]
    BY <1>5, <2>1, <2>6, Zenon DEF CatalogIncrease
  <2>8. HeldIn(ledger', p) = HeldIn(ledger, p) - HeldBy(ledger[o], p) + HeldBy(entry, p)
    <3>1. ledger \in [OrderID -> Entry]
      BY DEF TypeOK
    <3> QED
      BY <2>7, <2>e, <3>1, HeldInChange
  <2>9. HeldBy(ledger[o], p) = n /\ HeldBy(entry, p) = 0
    BY <2>2, <2>3, <2>5, <2>e DEF HeldBy
  <2>10. stock'[p] = stock[p] + n
    BY <1>5, <2>2 DEF CatalogIncrease, Plus
  <2> QED
    BY <1>1, <1>2, <1>3, <2>8, <2>9, <2>10
<1>6. CASE UNCHANGED <<stock, ledger>>
  BY <1>1, <1>2, <1>3, <1>6
<1>7. UNCHANGED <<stock, ledger>> \/ \E r \in Request : CatalogDecrease(r) \/ CatalogIncrease(r)
  BY DEF Next, vars, Arrive, ArriveCreate, ArriveCancel, ArriveUpdate, TurnAway, Handler,
         CreateBegin, DecreaseReturns, CancelBegin, CancelRow, IncreaseReturns, UpdateBegin,
         UpdateRow, Commit, CommitUnconfirmed, Catalog, CatalogRefuse, BreakOff,
         IncreaseTimesOut, Idle
<1> QED
  BY <1>4, <1>5, <1>6, <1>7

\* A creation that nothing may break off gets from the catalog's answer to its commit.
LEMMA CreationStep ==
  ASSUME TypeOK, TypeOK', PlacesAgree, PlacesAgree', CreateAccounts, CancelAccounts,
         CreationsFinish, [Next]_vars
  PROVE  CreationsFinish'
<1> SUFFICES ASSUME "create" \notin Faults, NEW r \in Request, call'[r].kind = "create"
             PROVE  /\ rpc'[r] = "sent" => pc'[r] = "decreasing"
                    /\ rpc'[r] = "applied" =>
                         pc'[r] \in {"decreasing", "committing"} \/ Visible(call[r].order)'
  BY DEF CreationsFinish
<1> DEFINE Goal == /\ rpc'[r] = "sent" => pc'[r] = "decreasing"
                   /\ rpc'[r] = "applied" =>
                        pc'[r] \in {"decreasing", "committing"} \/ Visible(call[r].order)'
<1>0. ASSUME call'[r] = call[r], call[r].kind = "create", Visible(call[r].order)
      PROVE  Visible(call[r].order)'
  <2>1. call[r].order \in OrderID
    BY <1>0 DEF PlacesAgree
  <2>2. orders'[call[r].order].status # Absent
    BY <1>0, <2>1, VisibleRowKeeps DEF Visible
  <2> QED
    BY <1>0, <2>2 DEF Visible
<1>a. ASSUME call'[r] = call[r], rpc'[r] = rpc[r], pc'[r] = pc[r] PROVE Goal
  BY <1>0, <1>a DEF CreationsFinish
<1> USE DEF TypeOK, PlacesAgree, GoTo, Send
<1>1. ASSUME NEW s \in Request, Arrive(s) PROVE Goal
  <2>1. CASE s = r
    BY <1>1, <2>1 DEF Arrive, ArriveCreate, ArriveCancel, ArriveUpdate
  <2>2. CASE s # r
    BY <1>1, <1>a, <2>2 DEF Arrive, ArriveCreate, ArriveCancel, ArriveUpdate
  <2> QED
    BY <2>1, <2>2
<1>2. ASSUME NEW s \in Request, TurnAway(s) \/ BreakOff(s) \/ IncreaseTimesOut(s) PROVE Goal
  <2>1. CASE s = r
    BY <1>2, <2>1 DEF TurnAway, BreakOff, IncreaseTimesOut
  <2>2. CASE s # r
    BY <1>2, <1>a, <2>2 DEF TurnAway, BreakOff, IncreaseTimesOut
  <2> QED
    BY <2>1, <2>2
<1>3. ASSUME NEW s \in Request, CreateBegin(s) \/ DecreaseReturns(s) PROVE Goal
  <2>1. CASE s = r
    BY <1>3, <2>1 DEF CreateBegin, DecreaseReturns
  <2>2. CASE s # r
    BY <1>3, <1>a, <2>2 DEF CreateBegin, DecreaseReturns
  <2> QED
    BY <2>1, <2>2
<1>4. ASSUME NEW s \in Request, CancelBegin(s) PROVE Goal
  <2>1. CASE s = r
    BY <1>4, <2>1 DEF CancelBegin, Call
  <2>2. CASE s # r
    BY <1>4, <1>a, <2>2 DEF CancelBegin
  <2> QED
    BY <2>1, <2>2
<1>5. ASSUME NEW s \in Request, CancelRow(s) \/ IncreaseReturns(s) PROVE Goal
  <2>1. CASE s = r
    BY <1>5, <2>1 DEF CancelRow, IncreaseReturns
  <2>2. CASE s # r
    BY <1>5, <1>a, <2>2 DEF CancelRow, IncreaseReturns
  <2> QED
    BY <2>1, <2>2
<1>6. ASSUME NEW s \in Request, UpdateBegin(s) \/ UpdateRow(s) PROVE Goal
  <2>1. CASE s = r
    BY <1>6, <2>1 DEF UpdateBegin, UpdateRow
  <2>2. CASE s # r
    BY <1>6, <1>a, <2>2 DEF UpdateBegin, UpdateRow
  <2> QED
    BY <2>1, <2>2
<1>7. ASSUME NEW s \in Request, Commit(s) \/ CommitUnconfirmed(s) PROVE Goal
  <2>1. CASE s = r
    <3>1. /\ call' = call /\ rpc'[r] = "applied" /\ orders' = Committed(r)
          /\ call[r].order \in OrderID
      BY <1>7, <2>1 DEF Commit, CommitUnconfirmed
    <3>2. orders'[call[r].order].status = "PENDING_PAYMENT"
      BY <3>1 DEF Committed, InsertedRow
    <3> QED
      BY <3>1, <3>2 DEF Visible, Absent
  <2>2. CASE s # r
    BY <1>7, <1>a, <2>2 DEF Commit, CommitUnconfirmed
  <2> QED
    BY <2>1, <2>2
<1>8. ASSUME NEW s \in Request, Catalog(s) PROVE Goal
  <2>1. CASE s = r
    <3>1. CASE CatalogDecrease(r)
      BY <3>1 DEF CatalogDecrease, CreationsFinish
    <3>2. CASE CatalogIncrease(r) \/ CatalogRefuse(r)
      BY <3>2 DEF CatalogIncrease, CatalogRefuse
    <3> QED
      BY <1>8, <2>1, <3>1, <3>2 DEF Catalog
  <2>2. CASE s # r
    BY <1>8, <1>a, <2>2 DEF Catalog, CatalogDecrease, CatalogIncrease, CatalogRefuse
  <2> QED
    BY <2>1, <2>2
<1>9. CASE UNCHANGED vars
  BY <1>9, <1>a DEF vars
<1> QED
  BY <1>1, <1>2, <1>3, <1>4, <1>5, <1>6, <1>7, <1>8, <1>9 DEF Next, Handler, Idle

\* The invariant is inductive.
LEMMA StepIInv == IInv /\ [Next]_vars => IInv'
  BY TypeStep, PlacesStep, BackedStep, CreateStep, CancelStep, RestockStep, CancelledStep,
     StockStep, CreationStep
     DEF IInv

-----------------------------------------------------------------------------
(***************************************************************************)
(* The safety properties.                                                  *)
(***************************************************************************)

\* Every reachable state satisfies the inductive invariant.
THEOREM Invariance == Spec => []IInv
<1>1. Init => IInv
  BY InitIInv
<1>2. IInv /\ [Next]_vars => IInv'
  BY StepIInv
<1> QED
  BY <1>1, <1>2, PTL DEF Spec

\* Types hold always: in particular the stock never becomes negative and a row
\* never has a status outside the enum.
THEOREM TypeCorrect == Spec => []TypeOK
<1>1. IInv => TypeOK
  BY DEF IInv
<1> QED
  BY <1>1, Invariance, PTL

\* Every order a customer can see was paid for in stock, whatever breaks off.
THEOREM OrdersAreBacked == Spec => []StockBacked
<1>1. IInv => StockBacked
  BY DEF IInv
<1> QED
  BY <1>1, Invariance, PTL

\* Units come back at most once per order if no cancellation breaks off between
\* its IncreaseStock and its commit.
THEOREM RestockedOnce ==
  ASSUME "cancel" \notin Faults
  PROVE  Spec => []RestockedOnlyByCancel
<1>1. IInv => RestockedOnlyByCancel
  BY DEF IInv, RestockAccounts
<1> QED
  BY <1>1, Invariance, PTL

\* A cancelled order has given its units back, also when cancellations break off,
\* if UpdateOrderStatus is not used to cancel.
THEOREM CancelledAreRestocked ==
  ASSUME "CANCELED" \notin AdminStatus
  PROVE  Spec => []CancelledMeansRestocked
<1>1. IInv => CancelledMeansRestocked
  BY DEF IInv
<1> QED
  BY <1>1, Invariance, PTL

\* Committed orders keep their owner and items and never leave CANCELED.
THEOREM MoveForward == Spec => OrdersOnlyMoveForward
<1>1. ASSUME IInv, [Next]_vars, NEW o \in OrderID, Visible(o)
      PROVE  /\ orders'[o].user = orders[o].user
             /\ orders'[o].items = orders[o].items
             /\ orders[o].status = "CANCELED" => orders'[o].status = "CANCELED"
             /\ orders'[o].status # Absent
  BY <1>1, VisibleRowKeeps DEF IInv, Visible
<1>2. IInv /\ [Next]_vars =>
        [\A o \in OrderID : Visible(o) =>
           /\ orders'[o].user = orders[o].user
           /\ orders'[o].items = orders[o].items
           /\ orders[o].status = "CANCELED" => orders'[o].status = "CANCELED"
           /\ orders'[o].status # Absent]_vars
  BY <1>1
<1> QED
  BY <1>2, Invariance, PTL DEF Spec, OrdersOnlyMoveForward

\* Orders become cancelled only from PENDING_PAYMENT and by their owner.
THEOREM CancelsArePendingOnly ==
  ASSUME "CANCELED" \notin AdminStatus
  PROVE  Spec => CancelsOnlyPendingOrderOfCaller
<1>1. ASSUME IInv, [Next]_vars, NEW o \in OrderID,
             orders[o].status # "CANCELED", orders'[o].status = "CANCELED"
      PROVE  /\ orders[o].status = "PENDING_PAYMENT"
             /\ \E r \in Request : HoldsRow(r, o) /\ call[r].user = orders[o].user
  <2>1. PICK r \in Request : WritesRow(r, o)
    BY <1>1, RowStep DEF IInv
  <2>2. HoldsRow(r, o)
    BY <1>1, <2>1 DEF WritesRow, InsertedRow, Updatable, UpdatedRow, IInv, TypeOK, Call, Row, Absent
  <2> QED
    BY <1>1, <2>2 DEF IInv, CancelAccounts, Cancellable
<1>2. IInv /\ [Next]_vars =>
        [\A o \in OrderID :
           (orders[o].status # "CANCELED" /\ orders'[o].status = "CANCELED") =>
             /\ orders[o].status = "PENDING_PAYMENT"
             /\ \E r \in Request : HoldsRow(r, o) /\ call[r].user = orders[o].user]_vars
  BY <1>1
<1> QED
  BY <1>2, Invariance, PTL DEF Spec, CancelsOnlyPendingOrderOfCaller

\* A live order is held, with the quantities it shows.
LEMMA LiveIsHeld ==
  ASSUME IInv, "cancel" \notin Faults, NEW o \in OrderID, Live(o)
  PROVE  Held(o) /\ orders[o].items = ledger[o].items
<1>1. ledger[o].taken = 1 /\ ledger[o].items = orders[o].items
  BY DEF IInv, StockBacked, Live, Visible
<1>2. ~ (ledger[o].restocked > 0)
  BY DEF IInv, RestockAccounts, RestockedOnlyByCancel, Live
<1> QED
  BY <1>1, <1>2 DEF Held, IInv, TypeOK, Entry

\* At rest an order that is held is live, as long as nothing breaks off and nobody
\* cancels with UpdateOrderStatus.
LEMMA HeldIsLive ==
  ASSUME IInv, Resting, "create" \notin Faults, "cancel" \notin Faults,
         "CANCELED" \notin AdminStatus, NEW o \in OrderID, Held(o)
  PROVE  Live(o)
<1>1. Visible(o)
  <2>1. PICK r \in Request : call[r].order = o
    BY DEF IInv, CreateAccounts, Held
  <2>2. call[r].kind # "none"
    BY <2>1, NoOrderAssumption DEF IInv, PlacesAgree
  <2>3. CASE call[r].kind = "create"
    <3>1. rpc[r] = "applied"
      BY <2>1, <2>3 DEF IInv, CreateAccounts, Held
    <3> QED
      BY <2>1, <2>3, <3>1 DEF IInv, CreationsFinish, Resting, Ended
  <2>4. CASE call[r].kind \in {"cancel", "update"}
    BY <2>1, <2>4 DEF IInv, CancelAccounts
  <2> QED
    BY <2>2, <2>3, <2>4 DEF IInv, TypeOK, Call
<1>2. orders[o].status # "CANCELED"
  BY DEF IInv, CancelledMeansRestocked, Held
<1>3. ~ \E r \in Request : HoldsRow(r, o)
  BY DEF Resting, Ended, HoldsRow
<1> QED
  BY <1>1, <1>2, <1>3 DEF Live, Visible

\* Sums over the live orders, compared with those over the orders held.
LEMMA LiveUnitsSum ==
  ASSUME IInv, "cancel" \notin Faults, NEW p \in Product
  PROVE  /\ LiveUnits(p) \in Int /\ HeldUnits(p) \in Int
         /\ LiveUnits(p) <= HeldUnits(p)
         /\ (\A o \in OrderID : Held(o) => Live(o)) => LiveUnits(p) = HeldUnits(p)
<1>1. PICK H : H = {o \in OrderID : Held(o)}
  OBVIOUS
<1>2. PICK V : V = {o \in OrderID : Live(o)}
  OBVIOUS
<1>3. PICK f : f = [o \in V |-> orders[o].items[p]]
  OBVIOUS
<1>4. PICK g : g = [o \in H |-> ledger[o].items[p]]
  OBVIOUS
<1>5. LiveUnits(p) = SumFunctionOnSet(f, V) /\ HeldUnits(p) = SumFunctionOnSet(g, H)
  <2>1. LiveUnits(p) = SumFunction(f) /\ HeldUnits(p) = SumFunction(g)
    BY <1>1, <1>2, <1>3, <1>4, Zenon DEF LiveUnits, HeldUnits
  <2>2. DOMAIN f = V /\ DOMAIN g = H
    BY <1>3, <1>4
  <2> QED
    BY <2>1, <2>2, Zenon DEF SumFunction
<1>6. V \in SUBSET H /\ \A o \in V : f[o] = g[o]
  BY <1>1, <1>2, <1>3, <1>4, LiveIsHeld
<1>7. \A o \in H : g[o] \in Nat
  BY <1>1, <1>4 DEF IInv, TypeOK, Entry, Items
<1>8. IsFiniteSet(H) /\ IsFiniteSet(V)
  BY <1>1, <1>2, OrderIDAssumption, FS_Subset
<1>9. SumFunctionOnSet(f, V) \in Int /\ SumFunctionOnSet(g, H) \in Int
  BY <1>6, <1>7, <1>8, SumInt
<1>10. SumFunctionOnSet(f, V) <= SumFunctionOnSet(g, H)
  BY <1>6, <1>7, <1>8, SumMonotone
<1>11. ASSUME \A o \in OrderID : Held(o) => Live(o)
       PROVE  SumFunctionOnSet(f, V) = SumFunctionOnSet(g, H)
  <2>1. H = V
    BY <1>1, <1>2, <1>6, <1>11
  <2>2. SumFunctionOnSet(f, V) = SumFunctionOnSet(g, V)
    BY <1>6, <1>8, SumSame
  <2> QED
    BY <2>1, <2>2, Zenon
<1> QED
  BY <1>5, <1>9, <1>10, <1>11

\* The live orders never add up to more than there was to sell, whatever creations
\* break off, if no cancellation does.
THEOREM NothingOversold ==
  ASSUME "cancel" \notin Faults
  PROVE  Spec => []NeverOversold
<1>1. ASSUME IInv, NEW p \in Product PROVE stock[p] + LiveUnits(p) <= InitStock[p]
  <2>1. stock[p] + HeldUnits(p) = InitStock[p] /\ stock[p] \in Nat
    BY <1>1 DEF IInv, StockAccounts, TypeOK, Items
  <2> QED
    BY <1>1, <2>1, LiveUnitsSum
<1>2. IInv => NeverOversold
  BY <1>1 DEF NeverOversold
<1> QED
  BY <1>2, Invariance, PTL

\* Nor is a unit lost, if neither breaks off and UpdateOrderStatus is not used to
\* cancel: at rest every unit not on sale is in a live order.
THEOREM NothingLost ==
  ASSUME "create" \notin Faults, "cancel" \notin Faults, "CANCELED" \notin AdminStatus
  PROVE  Spec => []StockConserved
<1>1. ASSUME IInv, Resting, NEW p \in Product PROVE stock[p] + LiveUnits(p) = InitStock[p]
  <2>1. stock[p] + HeldUnits(p) = InitStock[p]
    BY <1>1 DEF IInv, StockAccounts
  <2>2. \A o \in OrderID : Held(o) => Live(o)
    BY <1>1, HeldIsLive
  <2>3. LiveUnits(p) = HeldUnits(p)
    BY <1>1, <2>2, LiveUnitsSum
  <2> QED
    BY <2>1, <2>3
<1>2. IInv => StockConserved
  BY <1>1 DEF StockConserved
<1> QED
  BY <1>2, Invariance, PTL

-----------------------------------------------------------------------------
(***************************************************************************)
(* The saga implements the ledger.                                         *)
(***************************************************************************)

\* The phase of an order depends only on its ledger entry and on whether its row
\* is there and cancelled.
LEMMA PhaseKept ==
  ASSUME NEW o \in OrderID, ledger'[o] = ledger[o], Visible(o)' <=> Visible(o),
         orders'[o].status = "CANCELED" <=> orders[o].status = "CANCELED"
  PROVE  PhaseOf(o)' = PhaseOf(o)
  BY DEF PhaseOf

\* Each step that moves stock or shows an order is a step of the ledger; the
\* others, status updates included, change nothing in it.
LEMMA LedgerSimulation ==
  ASSUME IInv, [Next]_vars, "cancel" \notin Faults, "CANCELED" \notin AdminStatus
  PROVE  [Ledger!Next]_(Ledger!ledgerVars)
<1> DEFINE phase == [o \in OrderID |-> PhaseOf(o)]
           content == [o \in OrderID |-> ledger[o].items]
<1>0. TypeOK /\ PlacesAgree /\ CreateAccounts /\ CancelAccounts /\ RestockAccounts /\ StockBacked
  BY DEF IInv
\* A step that leaves stock and ledger alone, and every row as visible and as
\* cancelled as it was, is a stuttering step.
<1>1. ASSUME stock' = stock, ledger' = ledger,
             \A o \in OrderID : /\ Visible(o)' <=> Visible(o)
                                /\ orders'[o].status = "CANCELED" <=> orders[o].status = "CANCELED"
      PROVE  UNCHANGED Ledger!ledgerVars
  <2>1. ASSUME NEW o \in OrderID PROVE PhaseOf(o)' = PhaseOf(o)
    <3>1. /\ ledger'[o] = ledger[o]
          /\ Visible(o)' <=> Visible(o)
          /\ orders'[o].status = "CANCELED" <=> orders[o].status = "CANCELED"
      BY <1>1 DEF Visible
    <3> QED
      BY <3>1, PhaseKept DEF Visible
  <2> QED
    BY <1>1, <2>1 DEF Ledger!ledgerVars
<1>2. ASSUME NEW r \in Request, CatalogDecrease(r), NEW o \in OrderID, o = call[r].order
      PROVE  Ledger!Hold(o)
  <2>1. ledger[o].taken = 0 /\ ~Visible(o)
    BY <1>0, <1>2 DEF CatalogDecrease, CreateAccounts
  <2>2. /\ ledger' = [ledger EXCEPT ![o] = [taken |-> ledger[o].taken + 1,
                                            restocked |-> ledger[o].restocked,
                                            items |-> call[r].items]]
        /\ orders' = orders
    BY <1>2 DEF CatalogDecrease
  <2>3. PhaseOf(o) = "none" /\ PhaseOf(o)' = "held"
    <3>1. ledger'[o].taken = 1 /\ orders'[o] = orders[o]
      BY <1>0, <2>1, <2>2 DEF TypeOK
    <3> QED
      BY <2>1, <3>1 DEF PhaseOf, Visible, Absent
  <2>4. \A x \in OrderID \ {o} : PhaseOf(x)' = PhaseOf(x)
    BY <1>0, <2>2, PhaseKept DEF Visible, TypeOK
  <2>5. phase' = [phase EXCEPT ![o] = "held"]
    BY <2>1, <2>3, <2>4
  <2>6. content' = [content EXCEPT ![o] = call[r].items]
    BY <1>0, <2>1, <2>2 DEF TypeOK
  <2>7. call[r].items \in Ledger!Covered
    BY <1>0, <1>2 DEF CatalogDecrease, Ledger!Covered, Covers, TypeOK, Call, Items
  <2>8. stock' = [p \in Product |-> stock[p] - call[r].items[p]]
    BY <1>2 DEF CatalogDecrease, Minus
  <2> QED
    BY <2>1, <2>3, <2>5, <2>6, <2>7, <2>8 DEF Ledger!Hold
<1>3. ASSUME NEW r \in Request, CatalogIncrease(r), NEW o \in OrderID, o = call[r].order
      PROVE  Ledger!Release(o)
  <2>1. HoldsRow(r, o) /\ ledger[o].restocked = 0
    BY <1>0, <1>3 DEF CatalogIncrease, RestockAccounts, HoldsRow
  <2>2. Visible(o) /\ orders[o].status = "PENDING_PAYMENT"
    BY <1>0, <2>1 DEF CancelAccounts, Cancellable, Visible, Absent
  <2>3. ledger[o].taken = 1 /\ call[r].items = ledger[o].items
    BY <1>0, <1>3, <2>1, <2>2 DEF StockBacked, CancelAccounts, CatalogIncrease
  <2>4. ledger' = [ledger EXCEPT ![o].restocked = 1] /\ orders' = orders
    BY <1>3, <2>1 DEF CatalogIncrease
  <2>5. PhaseOf(o) = "open" /\ PhaseOf(o)' = "released"
    BY <1>0, <2>1, <2>2, <2>3, <2>4 DEF PhaseOf, Visible, TypeOK, Entry
  <2>6. \A x \in OrderID \ {o} : PhaseOf(x)' = PhaseOf(x)
    BY <1>0, <2>4, PhaseKept DEF Visible, TypeOK
  <2>7. phase' = [phase EXCEPT ![o] = "released"]
    BY <2>1, <2>5, <2>6
  <2>8. content' = content
    BY <1>0, <2>1, <2>4 DEF TypeOK, Entry
  <2>9. stock' = [p \in Product |-> stock[p] + content[o][p]]
    BY <1>3, <2>1, <2>3 DEF CatalogIncrease, Plus
  <2> QED
    BY <2>1, <2>5, <2>7, <2>8, <2>9 DEF Ledger!Release
<1>4. ASSUME NEW r \in Request, Commit(r) \/ CommitUnconfirmed(r),
             NEW o \in OrderID, o = call[r].order
      PROVE  Ledger!Open(o) \/ Ledger!Close(o)
  <2>1. /\ pc[r] = "committing" /\ rpc[r] = "applied"
        /\ call[r].kind \in {"create", "cancel"}
        /\ orders' = Committed(r) /\ stock' = stock /\ ledger' = ledger
    BY <1>0, <1>4 DEF Commit, CommitUnconfirmed, PlacesAgree
  <2>2. \A x \in OrderID \ {o} : PhaseOf(x)' = PhaseOf(x)
    BY <1>0, <1>4, <2>1, PhaseKept DEF Committed, Visible, TypeOK
  <2>3. content' = content
    BY <2>1
  <2>4. CASE call[r].kind = "create"
    <3>1. ~Visible(o) /\ ledger[o].taken = 1
      BY <1>0, <1>4, <2>1, <2>4 DEF CreateAccounts
    <3>2. ledger[o].restocked = 0
      BY <1>0, <2>1, <3>1
         DEF RestockAccounts, RestockedOnlyByCancel, CancelAccounts, Cancellable, Visible,
             Absent, TypeOK, Entry
    <3>3. orders'[o].status = "PENDING_PAYMENT"
      BY <1>0, <1>4, <2>1, <2>4 DEF Committed, InsertedRow, TypeOK
    <3>4. PhaseOf(o) = "held" /\ PhaseOf(o)' = "open"
      BY <2>1, <3>1, <3>2, <3>3 DEF PhaseOf, Visible, Absent
    <3>5. phase' = [phase EXCEPT ![o] = "open"]
      BY <2>1, <2>2, <3>4
    <3> QED
      BY <2>1, <2>3, <3>4, <3>5 DEF Ledger!Open
  <2>5. CASE call[r].kind = "cancel"
    <3>1. HoldsRow(r, o)
      BY <1>4, <2>1, <2>5 DEF HoldsRow
    <3>2. orders[o].status = "PENDING_PAYMENT" /\ ledger[o].restocked = 1
      BY <1>0, <2>1, <3>1 DEF CancelAccounts, Cancellable, RestockAccounts
    <3>3. ledger[o].taken = 1
      BY <1>0, <2>1, <3>2 DEF StockBacked, Visible, Absent
    <3>4. orders'[o].status = "CANCELED"
      BY <1>0, <1>4, <2>1, <2>5 DEF Committed, CancelledRow, TypeOK, Row
    <3>5. PhaseOf(o) = "released" /\ PhaseOf(o)' = "closed"
      BY <2>1, <3>2, <3>3, <3>4 DEF PhaseOf, Visible, Absent
    <3>6. phase' = [phase EXCEPT ![o] = "closed"]
      BY <2>1, <2>2, <3>5
    <3> QED
      BY <2>1, <2>3, <3>5, <3>6 DEF Ledger!Close
  <2> QED
    BY <2>1, <2>4, <2>5
<1>5. ASSUME NEW r \in Request, UpdateRow(r) PROVE UNCHANGED Ledger!ledgerVars
  <2>1. stock' = stock /\ ledger' = ledger /\ call[r].to # "CANCELED"
    BY <1>0, <1>5 DEF UpdateRow, TypeOK, Call, Absent
  <2>2. \A o \in OrderID : /\ Visible(o)' <=> Visible(o)
                           /\ orders'[o].status = "CANCELED" <=> orders[o].status = "CANCELED"
    BY <1>0, <1>5, <2>1 DEF UpdateRow, Updatable, UpdatedRow, Visible, TypeOK, Row, OrderStatus, Absent
  <2> QED
    BY <1>1, <2>1, <2>2
<1>6. CASE UNCHANGED <<orders, stock, ledger>>
  BY <1>1, <1>6 DEF Visible
<1>7. \/ UNCHANGED <<orders, stock, ledger>>
      \/ \E r \in Request : \/ CatalogDecrease(r) \/ CatalogIncrease(r) \/ UpdateRow(r)
                            \/ Commit(r) \/ CommitUnconfirmed(r)
  BY DEF Next, vars, Arrive, ArriveCreate, ArriveCancel, ArriveUpdate, TurnAway, Handler,
         CreateBegin, DecreaseReturns, CancelBegin, CancelRow, IncreaseReturns, UpdateBegin,
         Catalog, CatalogRefuse, BreakOff, IncreaseTimesOut, Idle
<1>8. ASSUME NEW r \in Request, \/ CatalogDecrease(r) \/ CatalogIncrease(r)
                                \/ Commit(r) \/ CommitUnconfirmed(r)
      PROVE  Ledger!Next
  <2>1. PICK o \in OrderID : o = call[r].order
    BY <1>0, <1>8 DEF PlacesAgree, CatalogDecrease, CatalogIncrease, Commit, CommitUnconfirmed
  <2>2. Ledger!Hold(o) \/ Ledger!Release(o) \/ Ledger!Open(o) \/ Ledger!Close(o)
    BY <1>2, <1>3, <1>4, <1>8, <2>1
  <2> QED
    BY <2>2 DEF Ledger!Next
<1> QED
  BY <1>5, <1>6, <1>7, <1>8

\* The saga implements the ledger, unless a cancellation breaks off or
\* UpdateOrderStatus is used to cancel.
THEOREM Refinement ==
  ASSUME "cancel" \notin Faults, "CANCELED" \notin AdminStatus
  PROVE  Spec => RefinesLedger
<1>1. Init => Ledger!Init
  <2> SUFFICES ASSUME Init PROVE Ledger!Init
    OBVIOUS
  <2>1. ASSUME NEW o \in OrderID PROVE PhaseOf(o) = "none"
    BY DEF Init, PhaseOf, Visible, NoRow, Absent
  <2> QED
    BY <2>1 DEF Init, Ledger!Init, NoItems
<1>2. IInv /\ [Next]_vars => [Ledger!Next]_(Ledger!ledgerVars)
  BY LedgerSimulation
<1> QED
  BY <1>1, <1>2, Invariance, PTL DEF Spec, RefinesLedger, Ledger!Spec

-----------------------------------------------------------------------------
(***************************************************************************)
(* The saga implements the life of an order.                               *)
(***************************************************************************)

\* A step that writes one row, to its insertion, its cancellation or an update, is
\* a step of that order's life; one that writes none is a stuttering step.
LEMMA LifecycleSimulation ==
  ASSUME TypeOK, PlacesAgree, CreateAccounts, CancelAccounts, [Next]_vars
  PROVE  [Lifecycle!Next]_(Lifecycle!orderVars)
<1> DEFINE status == [o \in OrderID |-> orders[o].status]
           owner == [o \in OrderID |-> orders[o].user]
<1>0. TypeOK /\ PlacesAgree /\ CreateAccounts /\ CancelAccounts
  OBVIOUS
<1>1. CASE orders' = orders
  BY <1>1 DEF Lifecycle!orderVars
<1>2. CASE orders' # orders
  <2>1. PICK r \in Request : UpdateRow(r) \/ Commit(r) \/ CommitUnconfirmed(r)
    BY <1>2 DEF Next, vars, Arrive, ArriveCreate, ArriveCancel, ArriveUpdate, TurnAway, Handler,
           CreateBegin, DecreaseReturns, CancelBegin, CancelRow, IncreaseReturns, UpdateBegin,
           Catalog, CatalogDecrease, CatalogIncrease, CatalogRefuse, BreakOff,
           IncreaseTimesOut, Idle
  <2>2. PICK o \in OrderID : o = call[r].order
    BY <1>0, <2>1 DEF PlacesAgree, UpdateRow, Commit, CommitUnconfirmed
  <2>3. CASE UpdateRow(r)
    <3>1. /\ Updatable(orders[o], call[r].to)
          /\ orders' = [orders EXCEPT ![o].status = call[r].to]
      BY <1>2, <2>2, <2>3 DEF UpdateRow, UpdatedRow
    <3>2. PICK s \in AdminStatus \cap OrderStatus : s = call[r].to
      BY <1>0, <3>1 DEF TypeOK, Call, Updatable, OrderStatus, Absent
    <3>3. status' = [status EXCEPT ![o] = s] /\ owner' = owner
      BY <1>0, <3>1, <3>2 DEF TypeOK, Row
    <3>4. Lifecycle!Set(o, s)
      BY <3>1, <3>3 DEF Lifecycle!Set, Updatable, Absent
    <3> QED
      BY <3>2, <3>4 DEF Lifecycle!Next
  <2>4. CASE Commit(r) \/ CommitUnconfirmed(r)
    <3>1. pc[r] = "committing" /\ call[r].kind \in {"create", "cancel"} /\ orders' = Committed(r)
      BY <1>0, <2>4 DEF Commit, CommitUnconfirmed, PlacesAgree
    <3>u. PICK u \in User : u = call[r].user
      BY <1>0, <3>1 DEF PlacesAgree
    <3>2. CASE call[r].kind = "create"
      <4>1. orders' = [orders EXCEPT ![o] = InsertedRow(u, call[r].items)]
        BY <2>2, <3>1, <3>u, <3>2 DEF Committed
      <4>2. orders[o].status = Absent
        BY <1>0, <2>2, <3>1, <3>2 DEF CreateAccounts, Visible
      <4>3. /\ status' = [status EXCEPT ![o] = "PENDING_PAYMENT"]
            /\ owner' = [owner EXCEPT ![o] = u]
        BY <1>0, <4>1 DEF TypeOK, Row, InsertedRow
      <4>4. Lifecycle!Place(o, u)
        BY <4>2, <4>3 DEF Lifecycle!Place, Absent
      <4> QED
        BY <4>4 DEF Lifecycle!Next
    <3>3. CASE call[r].kind = "cancel"
      <4>1. HoldsRow(r, o)
        BY <2>2, <3>1, <3>3 DEF HoldsRow
      <4>2. Cancellable(orders[o], u)
        BY <1>0, <3>u, <4>1 DEF CancelAccounts
      <4>3. orders' = [orders EXCEPT ![o].status = "CANCELED"]
        BY <2>2, <3>1, <3>3 DEF Committed, CancelledRow
      <4>4. status' = [status EXCEPT ![o] = "CANCELED"] /\ owner' = owner
        BY <1>0, <4>3 DEF TypeOK, Row
      <4>5. Lifecycle!CancelBy(o, u)
        BY <4>2, <4>4 DEF Lifecycle!CancelBy, Cancellable
      <4> QED
        BY <4>5 DEF Lifecycle!Next
    <3> QED
      BY <3>1, <3>2, <3>3
  <2> QED
    BY <2>1, <2>3, <2>4
<1> QED
  BY <1>1, <1>2

\* Whatever breaks off, and whatever UpdateOrderStatus is used for, the saga
\* implements the life of an order.
THEOREM LifeOfOrders == Spec => RefinesLifecycle
<1>1. Init => Lifecycle!Init
  BY DEF Init, Lifecycle!Init, NoRow, Absent
<1>2. IInv /\ [Next]_vars => [Lifecycle!Next]_(Lifecycle!orderVars)
  BY LifecycleSimulation DEF IInv
<1> QED
  BY <1>1, <1>2, Invariance, PTL DEF Spec, RefinesLifecycle, Lifecycle!Spec
=============================================================================
