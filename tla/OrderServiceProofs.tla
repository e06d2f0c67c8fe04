------------------------ MODULE OrderServiceProofs -------------------------
(***************************************************************************)
(* Theorems about OrderService, for every set of requests, orders, users,  *)
(* products and carts, every stock and every combination of faults.        *)
(***************************************************************************)
EXTENDS OrderService, OrderSagaProofs, FiniteSetTheorems

\* The part of the saga's invariant that needs no hypothesis.
SagaAccounts == TypeOK /\ PlacesAgree /\ StockBacked /\ CreateAccounts /\ CancelAccounts

\* A placed order has an owner, and one that was not placed is blank.
RowAccounts ==
  \A o \in OrderID : IF Visible(o) THEN orders[o].user \in User ELSE orders[o] = NoRow

\* A record of the log: the statement matched a row, which has an owner and a status.
ChangeRecord ==
  [kind: {"create", "cancel", "update"}, order: OrderID, from: OrderStatus \cup {Absent},
   row: [status: OrderStatus, user: User, items: Items]]

\* A logged change is of the order it names, and what it says stays true of it.
Tells(c, r) ==
  /\ c.kind = call[r].kind /\ c.order = call[r].order
  /\ c.row.user = orders[c.order].user
  /\ c.kind = "update" => c.row.status = call[r].to
  /\ c.kind = "cancel" =>
       /\ c.row.status = "CANCELED" /\ orders[c.order].status = "CANCELED"
       /\ rpc[r] = "applied"
\* A request that has changed an order has ended, and its order is there for good.
ChangeAccounted(r) ==
  change[r] # 0 =>
    /\ change[r] \in 1 .. Len(log) /\ Tells(log[change[r]], r)
    /\ pc[r] \in Ended /\ Visible(call[r].order)

\* A request that has committed a cancellation of o.
HasCancelled(r, o) == change[r] # 0 /\ call[r].kind = "cancel" /\ call[r].order = o

\* Every change is of one request, and an order is cancelled by one request.
ChangeAccounts ==
  /\ log \in Seq(ChangeRecord)
  /\ change \in [Request -> Nat]
  /\ \A r \in Request : ChangeAccounted(r)
  /\ \A r, s \in Request : change[r] = change[s] /\ change[r] # 0 => r = s
  /\ \A n \in 1 .. Len(log) : \E r \in Request : change[r] = n
  /\ \A r, s \in Request, o \in OrderID : HasCancelled(r, o) /\ HasCancelled(s, o) => r = s

\* The news of a change is in one place.
WithCall(r) == r \in due /\ change[r] \notin lost /\ EventOf(r) \notin Events
WithEvents(r) == r \notin due /\ change[r] \notin lost /\ EventOf(r) \in Events
Gone(r) == r \notin due /\ change[r] \in lost /\ EventOf(r) \notin Events
Accounted(r) == WithCall(r) \/ WithEvents(r) \/ Gone(r)

\* Every event is of a change, and the news of every change is accounted for.
NewsAccounts ==
  /\ due \subseteq Request /\ \A r \in due : change[r] # 0 /\ pc[r] = "ok"
  /\ lost \subseteq 1 .. Len(log)
  /\ \A e \in Events : \E r \in Request : change[r] # 0 /\ e = EventOf(r)
  /\ \A e \in outbox : e \notin told
  /\ \A r \in Request : change[r] # 0 => Accounted(r)

\* Unless UpdateOrderStatus may set it, only a cancellation makes an order cancelled.
CancelledAccounts ==
  "CANCELED" \notin AdminStatus =>
    \A o \in OrderID : orders[o].status = "CANCELED" => \E r \in Request : HasCancelled(r, o)

\* The inductive invariant.
SInv ==
  /\ SagaAccounts /\ RowAccounts /\ ChangeAccounts /\ NewsAccounts /\ CancelledAccounts

-----------------------------------------------------------------------------
\* The initial state.
LEMMA InitSInv == ServiceInit => SInv
<1> SUFFICES ASSUME ServiceInit PROVE SInv
  OBVIOUS
<1>1. Init /\ IInv
  BY InitIInv DEF ServiceInit
<1>2. SagaAccounts
  BY <1>1 DEF IInv, SagaAccounts
<1>3. RowAccounts /\ CancelledAccounts
  BY <1>1 DEF Init, RowAccounts, CancelledAccounts, NoRow, Visible, Absent
<1>4. /\ log = <<>> /\ change = [r \in Request |-> 0]
      /\ due = {} /\ outbox = {} /\ told = {} /\ lost = {}
  BY DEF ServiceInit
<1>5. ChangeAccounts
  BY <1>4 DEF ChangeAccounts, ChangeAccounted, HasCancelled
<1>6. NewsAccounts
  BY <1>4 DEF NewsAccounts, Events
<1> QED
  BY <1>2, <1>3, <1>5, <1>6 DEF SInv

(***************************************************************************)
(* What a step of the service is: a step of the saga that commits nothing, *)
(* the commit of a request, a step of a goroutine, or the end of the       *)
(* process.                                                                *)
(***************************************************************************)
Moves(r) ==
  /\ pc[r] \in Working /\ pc'[r] \in Working \cup {"failed"}
  /\ pc' = [pc EXCEPT ![r] = pc'[r]]
  /\ \/ call' = call
     \/ call' = [call EXCEPT ![r].items = ItemsForRestock(orders[call[r].order])]
\* A step that commits nothing: the rows and the news stay as they are.
Quiet ==
  /\ [Next]_vars /\ UNCHANGED <<orders, news>>
  /\ UNCHANGED <<pc, call>> \/ \E r \in Request : Arrive(r) \/ Moves(r)

\* r commits and goes on, or never learns that it did.
Commits(r) ==
  /\ [Next]_vars
  /\ pc[r] \in {"committing", "updating"} /\ call[r].order \in OrderID
  /\ WritesRow(r, call[r].order)
  /\ orders' = [orders EXCEPT ![call[r].order] = orders'[call[r].order]]
  /\ Record(r)
  /\ \/ pc' = [pc EXCEPT ![r] = "ok"] /\ due' = due \cup {r} /\ lost' = lost
     \/ pc' = [pc EXCEPT ![r] = "failed"] /\ due' = due /\ lost' = lost \cup {Len(log) + 1}

\* A commit of a creation or a cancellation makes one row.
LEMMA CommitWrites ==
  ASSUME TypeOK, PlacesAgree, NEW r \in Request, pc[r] = "committing",
         orders' = Committed(r), UNCHANGED <<call, rpc, ledger>>, pc'[r] \in Ended
  PROVE  /\ call[r].order \in OrderID /\ WritesRow(r, call[r].order)
         /\ orders' = [orders EXCEPT ![call[r].order] = orders'[call[r].order]]
<1>1. call[r].order \in OrderID /\ call[r].kind \in {"create", "cancel"}
  BY DEF PlacesAgree
<1>2. CASE call[r].kind = "create"
  BY <1>1, <1>2 DEF Committed, TypeOK, WritesRow
<1>3. CASE call[r].kind = "cancel"
  BY <1>1, <1>3 DEF Committed, TypeOK, WritesRow, HoldsRow
<1> QED
  BY <1>1, <1>2, <1>3

\* A status update that matches makes one row.
LEMMA UpdateWrites ==
  ASSUME TypeOK, PlacesAgree, NEW r \in Request, UpdateRow(r),
         Updatable(orders[call[r].order], call[r].to)
  PROVE  /\ call[r].order \in OrderID /\ WritesRow(r, call[r].order)
         /\ orders' = [orders EXCEPT ![call[r].order] = orders'[call[r].order]]
         /\ pc[r] = "updating"
         /\ pc' = [pc EXCEPT ![r] = "ok"] \/ pc' = [pc EXCEPT ![r] = "failed"]
<1>1. pc[r] = "updating" /\ call[r].kind = "update" /\ call[r].order \in OrderID
  BY DEF PlacesAgree, UpdateRow
<1>2. /\ ~RowLocked(call[r].order) /\ UNCHANGED <<call, rpc, stock, ledger>>
      /\ orders' = [orders EXCEPT ![call[r].order] = UpdatedRow(@, call[r].to)]
      /\ pc' = [pc EXCEPT ![r] = "ok"] \/ pc' = [pc EXCEPT ![r] = "failed"]
  BY DEF UpdateRow, GoTo
<1> QED
  BY <1>1, <1>2 DEF WritesRow, TypeOK, Ended

\* Every step of the service is of one of these kinds.
LEMMA ServiceStep ==
  ASSUME TypeOK, PlacesAgree, [ServiceNext]_serviceVars
  PROVE  \/ Quiet
         \/ \E r \in Request : Commits(r)
         \/ \E r \in Request : Spawn(r)
         \/ \E e \in outbox : Publish(e) \/ PublishFails(e)
         \/ Crash
<1>1. ASSUME NEW r \in Request, Silent(r) PROVE Quiet
  <2>1. Next /\ UNCHANGED news
    BY <1>1 DEF Silent, Next, Handler
  <2>2. orders' = orders
    BY <1>1 DEF Silent, Arrive, ArriveCreate, ArriveCancel, ArriveUpdate, TurnAway, Catalog,
         CatalogDecrease, CatalogIncrease, CatalogRefuse, BreakOff, IncreaseTimesOut,
         CreateBegin, DecreaseReturns, CancelBegin, CancelRow, IncreaseReturns, UpdateBegin
  <2>3. UNCHANGED <<pc, call>> \/ Arrive(r) \/ Moves(r)
    <3>1. Catalog(r) => UNCHANGED <<pc, call>>
      BY DEF Catalog, CatalogDecrease, CatalogIncrease, CatalogRefuse
    <3>2. ASSUME \/ TurnAway(r) \/ BreakOff(r) \/ IncreaseTimesOut(r) \/ CreateBegin(r)
                 \/ DecreaseReturns(r) \/ CancelRow(r) \/ IncreaseReturns(r) \/ UpdateBegin(r)
          PROVE  Moves(r)
      BY <3>2 DEF TurnAway, BreakOff, IncreaseTimesOut, CreateBegin, DecreaseReturns, CancelRow,
           IncreaseReturns, UpdateBegin, Moves, GoTo, Working, TypeOK
    <3>3. ASSUME CancelBegin(r) PROVE Moves(r)
      BY <3>3 DEF CancelBegin, Moves, GoTo, Working, TypeOK
    <3> QED
      BY <1>1, <3>1, <3>2, <3>3 DEF Silent
  <2> QED
    BY <2>1, <2>2, <2>3 DEF Quiet
<1>2. ASSUME NEW r \in Request, CommitStep(r) PROVE Commits(r)
  <2>1. Next
    BY <1>2 DEF CommitStep, Next, Handler
  <2>2. /\ pc[r] = "committing" /\ orders' = Committed(r) /\ pc' = [pc EXCEPT ![r] = "ok"]
        /\ UNCHANGED <<call, rpc, stock, ledger>>
    BY <1>2 DEF CommitStep, Commit, GoTo
  <2>3. pc'[r] \in Ended
    BY <2>2 DEF TypeOK, Ended
  <2> QED
    BY <1>2, <2>1, <2>2, <2>3, CommitWrites DEF CommitStep, Answered, Commits
<1>3. ASSUME NEW r \in Request, CommitUnconfirmedStep(r) PROVE Commits(r)
  <2>1. Next
    BY <1>3 DEF CommitUnconfirmedStep, Next
  <2>2. /\ pc[r] = "committing" /\ orders' = Committed(r) /\ pc' = [pc EXCEPT ![r] = "failed"]
        /\ UNCHANGED <<call, rpc, stock, ledger>>
    BY <1>3 DEF CommitUnconfirmedStep, CommitUnconfirmed, GoTo
  <2>3. pc'[r] \in Ended
    BY <2>2 DEF TypeOK, Ended
  <2> QED
    BY <1>3, <2>1, <2>2, <2>3, CommitWrites DEF CommitUnconfirmedStep, Unanswered, Commits
<1>4. ASSUME NEW r \in Request, UpdateStep(r) PROVE Quiet \/ Commits(r)
  <2>1. Next
    BY <1>4 DEF UpdateStep, Next, Handler
  <2>2. CASE ~Updatable(orders[call[r].order], call[r].to)
    <3>1. /\ pc[r] = "updating" /\ pc' = [pc EXCEPT ![r] = "failed"]
          /\ UNCHANGED <<call, orders, news>>
      BY <1>4, <2>2 DEF UpdateStep, UpdateRow, GoTo
    <3>2. Moves(r)
      BY <3>1 DEF Moves, Working, TypeOK
    <3> QED
      BY <2>1, <3>1, <3>2 DEF Quiet
  <2>3. CASE Updatable(orders[call[r].order], call[r].to)
    <3>1. UpdateRow(r) /\ (IF pc'[r] = "ok" THEN Answered(r) ELSE Unanswered(r))
      BY <1>4, <2>3 DEF UpdateStep
    <3>2. /\ call[r].order \in OrderID /\ WritesRow(r, call[r].order)
          /\ orders' = [orders EXCEPT ![call[r].order] = orders'[call[r].order]]
          /\ pc[r] = "updating"
          /\ pc' = [pc EXCEPT ![r] = "ok"] \/ pc' = [pc EXCEPT ![r] = "failed"]
      BY <2>3, <3>1, UpdateWrites
    <3>3. CASE pc' = [pc EXCEPT ![r] = "ok"]
      <4>1. pc'[r] = "ok"
        BY <3>3 DEF TypeOK
      <4> QED
        BY <2>1, <3>1, <3>2, <3>3, <4>1 DEF Answered, Commits
    <3>4. CASE pc' = [pc EXCEPT ![r] = "failed"]
      <4>1. pc'[r] # "ok"
        BY <3>4 DEF TypeOK
      <4> QED
        BY <2>1, <3>1, <3>2, <3>4, <4>1 DEF Unanswered, Commits
    <3> QED
      BY <3>2, <3>3, <3>4
  <2> QED
    BY <2>2, <2>3
<1>5. CASE Idle /\ UNCHANGED news
  BY <1>5 DEF Idle, Quiet, vars
<1>6. CASE UNCHANGED serviceVars
  BY <1>6 DEF serviceVars, vars, Quiet
<1> QED
  BY <1>1, <1>2, <1>3, <1>4, <1>5, <1>6 DEF ServiceNext, Committing

-----------------------------------------------------------------------------
\* A request that has ended stays as it is, and what the catalog applied stays applied.
LEMMA EndedStays ==
  ASSUME TypeOK, PlacesAgree, [Next]_vars, NEW r \in Request, pc[r] \in Ended
  PROVE  pc'[r] = pc[r] /\ call'[r] = call[r] /\ (rpc[r] = "applied" => rpc'[r] = "applied")
<1> USE DEF TypeOK, PlacesAgree, Ended, GoTo, Send
<1> DEFINE Goal ==
      pc'[r] = pc[r] /\ call'[r] = call[r] /\ (rpc[r] = "applied" => rpc'[r] = "applied")
<1>1. ASSUME NEW s \in Request, Arrive(s) PROVE Goal
  BY <1>1 DEF Arrive, ArriveCreate, ArriveCancel, ArriveUpdate
<1>2. ASSUME NEW s \in Request, TurnAway(s) \/ BreakOff(s) \/ IncreaseTimesOut(s) PROVE Goal
  BY <1>2 DEF TurnAway, BreakOff, IncreaseTimesOut
<1>3. ASSUME NEW s \in Request, CreateBegin(s) \/ DecreaseReturns(s) PROVE Goal
  BY <1>3 DEF CreateBegin, DecreaseReturns
<1>4. ASSUME NEW s \in Request, CancelBegin(s) \/ CancelRow(s) \/ IncreaseReturns(s) PROVE Goal
  BY <1>4 DEF CancelBegin, CancelRow, IncreaseReturns
<1>5. ASSUME NEW s \in Request, UpdateBegin(s) \/ UpdateRow(s) PROVE Goal
  BY <1>5 DEF UpdateBegin, UpdateRow
<1>6. ASSUME NEW s \in Request, Commit(s) \/ CommitUnconfirmed(s) PROVE Goal
  BY <1>6 DEF Commit, CommitUnconfirmed
<1>7. ASSUME NEW s \in Request, Catalog(s) PROVE Goal
  BY <1>7 DEF Catalog, CatalogDecrease, CatalogIncrease, CatalogRefuse
<1>8. CASE UNCHANGED vars
  BY <1>8 DEF vars
<1> QED
  BY <1>1, <1>2, <1>3, <1>4, <1>5, <1>6, <1>7, <1>8 DEF Next, Handler, Idle

\* A death of the process: who worked has failed, and nothing else of the saga changes.
LEMMA CrashEnds ==
  ASSUME TypeOK, NewsAccounts, Crash
  PROVE  /\ pc' \in [Request -> {"idle"} \cup Working \cup Ended]
         /\ \A r \in Request : pc'[r] = pc[r] \/ (pc'[r] = "failed" /\ pc[r] # "idle")
         /\ UNCHANGED <<call, rpc, orders, stock, ledger, log, change, told>>
<1>1. /\ pc' = [r \in Request |-> IF pc[r] \in Working \/ r \in due THEN "failed" ELSE pc[r]]
      /\ UNCHANGED <<call, rpc, orders, stock, ledger, log, change, told>>
  BY DEF Crash
<1>2. \A r \in due : pc[r] = "ok"
  BY DEF NewsAccounts
<1> QED
  BY <1>1, <1>2 DEF TypeOK, Working, Ended

\* The accounts of the saga are kept, also when the process dies.
LEMMA SagaStep ==
  ASSUME SInv, [ServiceNext]_serviceVars
  PROVE  SagaAccounts'
<1>1. ASSUME [Next]_vars PROVE SagaAccounts'
  BY <1>1, TypeStep, PlacesStep, BackedStep, CreateStep, CancelStep DEF SInv, SagaAccounts
<1>2. ASSUME UNCHANGED vars PROVE SagaAccounts'
  BY <1>1, <1>2
<1>3. ASSUME Crash PROVE SagaAccounts'
  <2>1. /\ pc' \in [Request -> {"idle"} \cup Working \cup Ended]
        /\ \A r \in Request : pc'[r] = pc[r] \/ (pc'[r] = "failed" /\ pc[r] # "idle")
        /\ UNCHANGED <<call, rpc, orders, stock, ledger>>
    BY <1>3, CrashEnds DEF SInv, SagaAccounts
  <2>2. TypeOK'
    BY <2>1 DEF SInv, SagaAccounts, TypeOK
  <2>3. PlacesAgree'
    BY <2>1 DEF SInv, SagaAccounts, PlacesAgree
  <2>4. StockBacked'
    BY <2>1 DEF SInv, SagaAccounts, StockBacked, Visible
  <2>5. CreateAccounts'
    BY <2>1 DEF SInv, SagaAccounts, CreateAccounts, Visible
  <2>6. CancelAccounts'
    <3>1. \A r \in Request : pc'[r] = "cancelling" => pc[r] = "cancelling"
      BY <2>1
    <3>2. \A r \in Request, o \in OrderID : HoldsRow(r, o)' => HoldsRow(r, o)
      BY <2>1 DEF HoldsRow
    <3> QED
      BY <2>1, <3>1, <3>2 DEF SInv, SagaAccounts, CancelAccounts, Visible, Cancellable
  <2> QED
    BY <2>2, <2>3, <2>4, <2>5, <2>6 DEF SagaAccounts
<1>4. ASSUME NEW r \in Request, Commits(r) PROVE SagaAccounts'
  BY <1>1, <1>4 DEF Commits
<1>5. ASSUME NEW r \in Request, Spawn(r) PROVE SagaAccounts'
  BY <1>2, <1>5 DEF Spawn
<1>6. ASSUME NEW e \in outbox, Publish(e) \/ PublishFails(e) PROVE SagaAccounts'
  BY <1>2, <1>6 DEF Publish, PublishFails
<1>7. ASSUME Quiet PROVE SagaAccounts'
  BY <1>1, <1>7 DEF Quiet
<1> QED
  BY <1>3, <1>4, <1>5, <1>6, <1>7, ServiceStep DEF SInv, SagaAccounts

\* Committed rows are written by commits only.
LEMMA RowsOf ==
  ASSUME SInv, [ServiceNext]_serviceVars
  PROVE  orders' = orders \/ \E r \in Request : Commits(r)
<1>1. \A r \in Request : Spawn(r) => orders' = orders
  BY DEF Spawn, vars
<1>2. \A e \in outbox : Publish(e) \/ PublishFails(e) => orders' = orders
  BY DEF Publish, PublishFails, vars
<1>3. Crash \/ Quiet => orders' = orders
  BY DEF Crash, Quiet
<1> QED
  BY <1>1, <1>2, <1>3, ServiceStep DEF SInv, SagaAccounts

\* Rows keep their accounts: a creation writes an owner, and nothing takes it away.
LEMMA RowAccountsStep ==
  ASSUME SInv, [ServiceNext]_serviceVars
  PROVE  RowAccounts'
<1> SUFFICES ASSUME NEW o \in OrderID
             PROVE  IF Visible(o)' THEN orders'[o].user \in User ELSE orders'[o] = NoRow
  BY DEF RowAccounts
<1>1. CASE orders'[o] = orders[o]
  BY <1>1 DEF SInv, RowAccounts, Visible
<1>2. CASE orders'[o] # orders[o]
  <2>1. [Next]_vars
    BY <1>2, RowsOf DEF Commits
  <2>2. CASE Visible(o)
    BY <2>1, <2>2, VisibleRowKeeps DEF SInv, SagaAccounts, RowAccounts
  <2>3. CASE ~Visible(o)
    <3>1. PICK r \in Request : WritesRow(r, o)
      BY <1>2, <2>1, RowStep DEF SInv, SagaAccounts
    <3>2. call[r].kind = "create"
      BY <2>3, <3>1 DEF WritesRow, SInv, SagaAccounts, CancelAccounts, HoldsRow, Updatable, Visible
    <3>3. orders'[o] = InsertedRow(call[r].user, call[r].items) /\ call[r].user \in User
      BY <3>1, <3>2 DEF WritesRow, HoldsRow, SInv, SagaAccounts, PlacesAgree
    <3> QED
      BY <3>3 DEF InsertedRow, Visible, Absent
  <2> QED
    BY <2>2, <2>3
<1> QED
  BY <1>1, <1>2

-----------------------------------------------------------------------------
\* What a request that has committed can rely on, in any step.
Lasts(r) ==
  /\ pc'[r] \in Ended /\ call'[r] = call[r]
  /\ rpc[r] = "applied" => rpc'[r] = "applied"
  /\ Visible(call[r].order)'
  /\ orders'[call[r].order].user = orders[call[r].order].user
  /\ orders[call[r].order].status = "CANCELED" => orders'[call[r].order].status = "CANCELED"

\* It stays as it is, and so does what it says of its order.
LEMMA ChangeLasts ==
  ASSUME SInv, [ServiceNext]_serviceVars, NEW r \in Request, change[r] # 0
  PROVE  Lasts(r)
<1>1. /\ pc[r] \in Ended /\ call[r].order \in OrderID /\ Visible(call[r].order)
  BY DEF SInv, ChangeAccounts, ChangeAccounted, SagaAccounts, PlacesAgree, Ended
<1>2. ASSUME [Next]_vars PROVE Lasts(r)
  <2>1. pc'[r] = pc[r] /\ call'[r] = call[r] /\ (rpc[r] = "applied" => rpc'[r] = "applied")
    BY <1>1, <1>2, EndedStays DEF SInv, SagaAccounts
  <2>2. /\ Visible(call[r].order)'
        /\ orders'[call[r].order].user = orders[call[r].order].user
        /\ orders[call[r].order].status = "CANCELED" => orders'[call[r].order].status = "CANCELED"
    <3>1. PICK o \in OrderID : o = call[r].order
      BY <1>1
    <3>2. /\ Visible(o)' /\ orders'[o].user = orders[o].user
          /\ orders[o].status = "CANCELED" => orders'[o] = orders[o]
      BY <1>1, <1>2, <3>1, VisibleRowKeeps DEF SInv, SagaAccounts
    <3> QED
      BY <2>1, <3>1, <3>2 DEF Visible
  <2> QED
    BY <1>1, <2>1, <2>2 DEF Lasts
<1>3. ASSUME Crash PROVE Lasts(r)
  <2>1. /\ pc'[r] = pc[r] \/ pc'[r] = "failed"
        /\ UNCHANGED <<call, rpc, orders>>
    BY <1>3, CrashEnds DEF SInv, SagaAccounts
  <2> QED
    BY <1>1, <2>1 DEF Lasts, Ended, Visible
<1>4. ASSUME UNCHANGED vars PROVE Lasts(r)
  BY <1>2, <1>4
<1>5. ASSUME NEW s \in Request, Commits(s) PROVE Lasts(r)
  BY <1>2, <1>5 DEF Commits
<1>6. ASSUME NEW s \in Request, Spawn(s) PROVE Lasts(r)
  BY <1>4, <1>6 DEF Spawn
<1>7. ASSUME NEW e \in outbox, Publish(e) \/ PublishFails(e) PROVE Lasts(r)
  BY <1>4, <1>7 DEF Publish, PublishFails
<1>8. ASSUME Quiet PROVE Lasts(r)
  BY <1>2, <1>8 DEF Quiet
<1> QED
  BY <1>3, <1>5, <1>6, <1>7, <1>8, ServiceStep DEF SInv, SagaAccounts

\* The log grows by the commit of one request, or not at all.
LEMMA LogStep ==
  ASSUME SInv, [ServiceNext]_serviceVars
  PROVE  UNCHANGED <<log, change>> \/ \E r \in Request : Commits(r)
<1>1. \A r \in Request : Spawn(r) => UNCHANGED <<log, change>>
  BY DEF Spawn
<1>2. \A e \in outbox : Publish(e) \/ PublishFails(e) => UNCHANGED <<log, change>>
  BY DEF Publish, PublishFails
<1>3. Crash \/ Quiet => UNCHANGED <<log, change>>
  BY DEF Crash, Quiet, news
<1> QED
  BY <1>1, <1>2, <1>3, ServiceStep DEF SInv, SagaAccounts

\* What a commit adds to the log.
EntryOf(r) == [kind |-> call[r].kind, order |-> call[r].order,
              from |-> orders[call[r].order].status, row |-> Header(orders'[call[r].order])]

\* It is one record at the end, of a request that had made no change.
LEMMA CommitLogs ==
  ASSUME SInv, [ServiceNext]_serviceVars, NEW r \in Request, Commits(r)
  PROVE  /\ change[r] = 0 /\ EntryOf(r) \in ChangeRecord
         /\ log' = Append(log, EntryOf(r)) /\ Len(log') = Len(log) + 1
         /\ log' \in Seq(ChangeRecord)
         /\ log'[Len(log) + 1] = EntryOf(r) /\ \A n \in 1 .. Len(log) : log'[n] = log[n]
         /\ change' = [change EXCEPT ![r] = Len(log) + 1]
         /\ Len(log) \in Nat
<1>1. change[r] = 0
  BY DEF SInv, ChangeAccounts, ChangeAccounted, Commits, Ended
<1>2. call[r].order \in OrderID /\ call[r].kind \in {"create", "cancel", "update"}
  BY DEF Commits, WritesRow, HoldsRow
<1>3. orders[call[r].order].status \in OrderStatus \cup {Absent}
  BY <1>2 DEF SInv, SagaAccounts, TypeOK, Row
<1>4. Header(orders'[call[r].order]) \in [status: OrderStatus, user: User, items: Items]
  <2>1. PICK o \in OrderID : o = call[r].order
    BY <1>2
  <2>2. orders'[o] \in Row
    BY SagaStep DEF SagaAccounts, TypeOK
  <2>3. orders'[o].status # Absent
    <3>1. CASE orders'[o] = InsertedRow(call[r].user, call[r].items)
      BY <3>1 DEF InsertedRow, Absent
    <3>2. CASE orders'[o] = CancelledRow(orders[o])
      BY <3>2 DEF CancelledRow, Absent, SInv, SagaAccounts, TypeOK, Row
    <3>3. CASE orders'[o] = UpdatedRow(orders[o], call[r].to) /\ Updatable(orders[o], call[r].to)
      BY <3>3 DEF UpdatedRow, Updatable, OrderStatus, Absent, SInv, SagaAccounts, TypeOK, Row
    <3> QED
      BY <2>1, <3>1, <3>2, <3>3 DEF Commits, WritesRow
  <2>4. orders'[o].user \in User
    BY <2>3, RowAccountsStep DEF RowAccounts, Visible
  <2> QED
    BY <2>1, <2>2, <2>3, <2>4 DEF Header, Row, Items, NoItems
<1>5. EntryOf(r) \in ChangeRecord
  BY <1>2, <1>3, <1>4 DEF EntryOf, ChangeRecord
<1>6. log' = Append(log, EntryOf(r)) /\ change' = [change EXCEPT ![r] = Len(log) + 1]
  BY DEF Commits, Record, EntryOf
<1>7. log \in Seq(ChangeRecord)
  BY DEF SInv, ChangeAccounts
<1> QED
  BY <1>1, <1>5, <1>6, <1>7

\* What a commit says of its own order is true.
LEMMA CommitTells ==
  ASSUME SInv, [ServiceNext]_serviceVars, NEW r \in Request, Commits(r)
  PROVE  /\ pc'[r] \in Ended /\ call' = call /\ rpc' = rpc
         /\ Visible(call[r].order)'
         /\ EntryOf(r).row.user = orders'[call[r].order].user
         /\ call[r].kind = "update" => EntryOf(r).row.status = call[r].to
         /\ call[r].kind = "cancel" =>
              /\ EntryOf(r).row.status = "CANCELED" /\ orders'[call[r].order].status = "CANCELED"
              /\ orders[call[r].order].status = "PENDING_PAYMENT" /\ rpc[r] = "applied"
<1>1. PICK o \in OrderID : o = call[r].order
  BY DEF Commits
<1>2. WritesRow(r, o)
  BY <1>1 DEF Commits
<1>3. orders[o] \in Row /\ orders'[o] \in Row
  BY SagaStep DEF SInv, SagaAccounts, TypeOK
<1>4. EntryOf(r).row.user = orders'[o].user /\ EntryOf(r).row.status = orders'[o].status
  BY <1>1, <1>3 DEF EntryOf, Header, Row
<1>5. Visible(o)'
  <2>1. EntryOf(r) \in ChangeRecord
    BY CommitLogs
  <2> QED
    BY <1>4, <2>1 DEF ChangeRecord, Visible, Absent, OrderStatus
<1>6. ASSUME call[r].kind = "update" PROVE orders'[o].status = call[r].to
  BY <1>2, <1>3, <1>6 DEF WritesRow, UpdatedRow, HoldsRow, Row
<1>7. ASSUME call[r].kind = "cancel"
      PROVE  /\ orders'[o].status = "CANCELED" /\ orders[o].status = "PENDING_PAYMENT"
             /\ rpc[r] = "applied"
  <2>1. HoldsRow(r, o) /\ pc[r] = "committing" /\ orders'[o] = CancelledRow(orders[o])
    BY <1>2, <1>7 DEF WritesRow
  <2> QED
    BY <1>3, <2>1 DEF CancelledRow, Row, SInv, SagaAccounts, CancelAccounts, Cancellable, PlacesAgree
<1>8. pc'[r] \in Ended /\ call' = call /\ rpc' = rpc
  BY <1>2 DEF WritesRow
<1> QED
  BY <1>1, <1>4, <1>5, <1>6, <1>7, <1>8 DEF Visible

\* A request other than the one that commits keeps its change and its record.
LEMMA TellsStep ==
  ASSUME SInv, [ServiceNext]_serviceVars, NEW r \in Request, change[r] # 0,
         change'[r] = change[r], log'[change[r]] = log[change[r]], Len(log') >= Len(log)
  PROVE  ChangeAccounted(r)'
<1>1. Lasts(r)
  BY ChangeLasts
<1>2. /\ change[r] \in 1 .. Len(log) /\ Tells(log[change[r]], r)
      /\ pc[r] \in Ended /\ Visible(call[r].order)
  BY DEF SInv, ChangeAccounts, ChangeAccounted
<1>3. log \in Seq(ChangeRecord) /\ Len(log) \in Nat
  BY DEF SInv, ChangeAccounts
<1>4. Len(log') \in Nat
  <2>1. CASE log' = log
    BY <1>3, <2>1
  <2>2. CASE \E s \in Request : Commits(s)
    BY <1>3, <2>2, CommitLogs
  <2> QED
    BY <2>1, <2>2, LogStep
<1>5. change'[r] \in 1 .. Len(log')
  BY <1>2, <1>3, <1>4
<1>6. call'[r] = call[r]
  BY <1>1 DEF Lasts
<1>7. /\ log'[change'[r]].kind = call'[r].kind /\ log'[change'[r]].order = call'[r].order
      /\ log'[change'[r]].row.user = orders'[log'[change'[r]].order].user
      /\ log'[change'[r]].kind = "update" => log'[change'[r]].row.status = call'[r].to
      /\ log'[change'[r]].kind = "cancel" =>
           /\ log'[change'[r]].row.status = "CANCELED"
           /\ orders'[log'[change'[r]].order].status = "CANCELED"
           /\ rpc'[r] = "applied"
  BY <1>1, <1>2, <1>6 DEF Lasts, Tells
<1>8. pc'[r] \in Ended /\ Visible(call[r].order)'
  BY <1>1 DEF Lasts
<1>9. Tells(log[change[r]], r)'
  BY <1>7 DEF Tells
<1> QED
  BY <1>5, <1>8, <1>9 DEF ChangeAccounted

\* An order that somebody has cancelled is in no cancellation's hands.
LEMMA NotCancelledTwice ==
  ASSUME SInv, [ServiceNext]_serviceVars, NEW r \in Request, Commits(r), call[r].kind = "cancel",
         NEW s \in Request, NEW o \in OrderID, o = call[r].order
  PROVE  ~HasCancelled(s, o)
<1>1. orders[o].status = "PENDING_PAYMENT"
  BY CommitTells
<1>2. HasCancelled(s, o) => orders[o].status = "CANCELED"
  BY DEF SInv, ChangeAccounts, ChangeAccounted, Tells, HasCancelled
<1> QED
  BY <1>1, <1>2

\* The accounts of changes are kept.
LEMMA ChangeStep ==
  ASSUME SInv, [ServiceNext]_serviceVars
  PROVE  ChangeAccounts'
<1>0. /\ log \in Seq(ChangeRecord) /\ Len(log) \in Nat /\ change \in [Request -> Nat]
      /\ \A r \in Request : change[r] # 0 => change[r] \in 1 .. Len(log)
      /\ \A r, s \in Request : change[r] = change[s] /\ change[r] # 0 => r = s
      /\ \A n \in 1 .. Len(log) : \E r \in Request : change[r] = n
      /\ \A r, s \in Request, o \in OrderID : HasCancelled(r, o) /\ HasCancelled(s, o) => r = s
  BY DEF SInv, ChangeAccounts, ChangeAccounted
<1>1. CASE UNCHANGED <<log, change>>
  <2>1. \A r \in Request : ChangeAccounted(r)'
    <3> SUFFICES ASSUME NEW r \in Request, change[r] # 0 PROVE ChangeAccounted(r)'
      BY <1>1 DEF ChangeAccounted
    <3> QED
      BY <1>0, <1>1, TellsStep
  <2>2. ASSUME NEW r \in Request, NEW o \in OrderID, HasCancelled(r, o)' PROVE HasCancelled(r, o)
    <3>1. change[r] # 0
      BY <1>1, <2>2 DEF HasCancelled
    <3> QED
      BY <2>2, <3>1, ChangeLasts DEF HasCancelled, Lasts
  <2>3. \A r, s \in Request, o \in OrderID : HasCancelled(r, o)' /\ HasCancelled(s, o)' => r = s
    BY <1>0, <2>2
  <2> QED
    BY <1>0, <1>1, <2>1, <2>3 DEF ChangeAccounts
<1>2. ASSUME NEW r \in Request, Commits(r) PROVE ChangeAccounts'
  <2>1. /\ change[r] = 0 /\ EntryOf(r) \in ChangeRecord
        /\ Len(log') = Len(log) + 1 /\ log' \in Seq(ChangeRecord)
        /\ log'[Len(log) + 1] = EntryOf(r) /\ \A n \in 1 .. Len(log) : log'[n] = log[n]
        /\ change' = [change EXCEPT ![r] = Len(log) + 1]
    BY <1>2, CommitLogs
  <2>2. /\ change' \in [Request -> Nat] /\ change'[r] = Len(log) + 1
        /\ \A s \in Request \ {r} : change'[s] = change[s]
    BY <1>0, <2>1
  <2>3. ASSUME NEW s \in Request PROVE ChangeAccounted(s)'
    <3>1. CASE s # r /\ change[s] # 0
      BY <1>0, <2>1, <2>2, <3>1, TellsStep
    <3>2. CASE s # r /\ change[s] = 0
      BY <2>2, <3>2 DEF ChangeAccounted
    <3>3. CASE s = r
      <4>1. /\ pc'[r] \in Ended /\ call' = call /\ rpc' = rpc
            /\ Visible(call[r].order)'
            /\ EntryOf(r).row.user = orders'[call[r].order].user
            /\ call[r].kind = "update" => EntryOf(r).row.status = call[r].to
            /\ call[r].kind = "cancel" =>
                 /\ EntryOf(r).row.status = "CANCELED" /\ orders'[call[r].order].status = "CANCELED"
                 /\ rpc[r] = "applied"
        BY <1>2, CommitTells
      <4>2. log'[change'[r]] = EntryOf(r) /\ change'[r] \in 1 .. Len(log')
        BY <1>0, <2>1, <2>2
      <4>3. EntryOf(r).kind = call[r].kind /\ EntryOf(r).order = call[r].order
        BY DEF EntryOf
      <4>4. Tells(log[change[r]], r)'
        BY <4>1, <4>2, <4>3 DEF Tells
      <4> QED
        BY <3>3, <4>1, <4>2, <4>4 DEF ChangeAccounted
    <3> QED
      BY <3>1, <3>2, <3>3
  <2>4. \A s, t \in Request : change'[s] = change'[t] /\ change'[s] # 0 => s = t
    BY <1>0, <2>1, <2>2
  <2>5. \A n \in 1 .. Len(log') : \E s \in Request : change'[s] = n
    <3> SUFFICES ASSUME NEW n \in 1 .. Len(log') PROVE \E s \in Request : change'[s] = n
      OBVIOUS
    <3>1. CASE n = Len(log) + 1
      BY <2>2, <3>1
    <3>2. CASE n # Len(log) + 1
      <4>1. n \in 1 .. Len(log)
        BY <1>0, <2>1, <3>2
      <4>2. PICK s \in Request : change[s] = n
        BY <1>0, <4>1
      <4>3. s # r
        BY <2>1, <4>1, <4>2
      <4> QED
        BY <2>2, <4>2, <4>3
    <3> QED
      BY <3>1, <3>2
  <2>6. call' = call
    BY <1>2, CommitTells
  <2>7. ASSUME NEW s \in Request, NEW o \in OrderID, HasCancelled(s, o)'
        PROVE  \/ s = r /\ call[r].kind = "cancel" /\ call[r].order = o
               \/ s # r /\ HasCancelled(s, o)
    BY <2>2, <2>6, <2>7 DEF HasCancelled
  <2>8. \A s, t \in Request, o \in OrderID : HasCancelled(s, o)' /\ HasCancelled(t, o)' => s = t
    BY <1>0, <1>2, <2>7, NotCancelledTwice
  <2> QED
    BY <2>1, <2>2, <2>3, <2>4, <2>5, <2>8 DEF ChangeAccounts
<1> QED
  BY <1>1, <1>2, LogStep

\* Only a cancellation, or an update that may, makes an order cancelled.
LEMMA CancelledAccountsStep ==
  ASSUME SInv, [ServiceNext]_serviceVars
  PROVE  CancelledAccounts'
<1> SUFFICES ASSUME "CANCELED" \notin AdminStatus, NEW o \in OrderID,
                    orders'[o].status = "CANCELED"
             PROVE  \E r \in Request : HasCancelled(r, o)'
  BY DEF CancelledAccounts
<1>1. CASE orders[o].status = "CANCELED"
  <2>1. PICK r \in Request : HasCancelled(r, o)
    BY <1>1 DEF SInv, CancelledAccounts
  <2>2. change[r] # 0 /\ call'[r] = call[r]
    BY <2>1, ChangeLasts DEF HasCancelled, Lasts
  <2>3. change'[r] = change[r]
    <3>1. CASE UNCHANGED <<log, change>>
      BY <3>1
    <3>2. ASSUME NEW s \in Request, Commits(s) PROVE change'[r] = change[r]
      BY <2>2, <3>2, CommitLogs DEF SInv, ChangeAccounts
    <3> QED
      BY <3>1, <3>2, LogStep
  <2> QED
    BY <2>1, <2>2, <2>3 DEF HasCancelled
<1>2. CASE orders[o].status # "CANCELED"
  <2>1. PICK r \in Request : Commits(r)
    BY <1>2, RowsOf
  <2>2. change'[r] # 0 /\ call' = call
    BY <2>1, CommitLogs, CommitTells DEF SInv, ChangeAccounts
  <2>3. o = call[r].order
    BY <1>2, <2>1 DEF Commits, SInv, SagaAccounts, TypeOK
  <2>4. call[r].kind = "cancel"
    <3>1. WritesRow(r, o)
      BY <2>1, <2>3 DEF Commits
    <3>2. orders'[o] # InsertedRow(call[r].user, call[r].items)
      BY DEF InsertedRow
    <3>3. ~(Updatable(orders[o], call[r].to) /\ orders'[o] = UpdatedRow(orders[o], call[r].to))
      BY AdminAssumption DEF Updatable, UpdatedRow, SInv, SagaAccounts, TypeOK, Row, Call, OrderStatus, Absent
    <3> QED
      BY <3>1, <3>2, <3>3 DEF WritesRow, HoldsRow
  <2> QED
    BY <2>2, <2>3, <2>4 DEF HasCancelled
<1> QED
  BY <1>1, <1>2

-----------------------------------------------------------------------------
\* A change keeps its number and its event.
LEMMA EventLasts ==
  ASSUME SInv, [ServiceNext]_serviceVars, NEW r \in Request, change[r] # 0
  PROVE  change'[r] = change[r] /\ EventOf(r)' = EventOf(r)
<1>1. call'[r] = call[r]
  BY ChangeLasts DEF Lasts
<1>2. change[r] \in 1 .. Len(log)
  BY DEF SInv, ChangeAccounts, ChangeAccounted
<1>3. change'[r] = change[r] /\ log'[change[r]] = log[change[r]]
  <2>1. CASE UNCHANGED <<log, change>>
    BY <2>1
  <2>2. ASSUME NEW s \in Request, Commits(s) PROVE change'[r] = change[r] /\ log'[change[r]] = log[change[r]]
    BY <1>2, <2>2, CommitLogs DEF SInv, ChangeAccounts
  <2> QED
    BY <2>1, <2>2, LogStep
<1> QED
  BY <1>1, <1>3 DEF EventOf

\* The event of a change carries its number, and no two requests have the same event.
LEMMA EventsApart ==
  ASSUME SInv
  PROVE  /\ \A r \in Request : EventOf(r).change = change[r]
         /\ \A r, s \in Request : change[r] # 0 /\ EventOf(r) = EventOf(s) => r = s
<1>1. \A r \in Request : EventOf(r).change = change[r]
  BY DEF EventOf
<1> QED
  BY <1>1 DEF SInv, ChangeAccounts

\* What the accounts of news ask for, request by request and event by event.
LEMMA NewsFacts ==
  ASSUME SInv
  PROVE  /\ due \subseteq Request /\ \A r \in due : change[r] # 0 /\ pc[r] = "ok"
         /\ lost \subseteq 1 .. Len(log) /\ Len(log) \in Nat
         /\ \A e \in Events : \E r \in Request : change[r] # 0 /\ e = EventOf(r)
         /\ \A e \in outbox : e \notin told
         /\ \A r \in Request : change[r] # 0 =>
              /\ Accounted(r) /\ change[r] \in 1 .. Len(log) /\ EventOf(r).change = change[r]
         /\ \A r, s \in Request : change[r] # 0 /\ EventOf(r) = EventOf(s) => r = s
         /\ \A r, s \in Request : change[r] = change[s] /\ change[r] # 0 => r = s
  BY EventsApart DEF SInv, NewsAccounts, ChangeAccounts, ChangeAccounted

\* After the step the news of the change that r has made is in one place.
Placed(r) ==
  \/ /\ r \in due' /\ change[r] \notin lost' /\ EventOf(r) \notin Events'
  \/ /\ r \notin due' /\ change[r] \notin lost' /\ EventOf(r) \in Events'
  \/ /\ r \notin due' /\ change[r] \in lost' /\ EventOf(r) \notin Events'

\* The accounts of news are kept when the log does not change.
LEMMA NewsKept ==
  ASSUME SInv, [ServiceNext]_serviceVars, UNCHANGED <<log, change>>,
         due' \subseteq due, \A r \in due' : pc'[r] = "ok",
         lost' \subseteq 1 .. Len(log),
         \A e \in Events' : \E r \in Request : change[r] # 0 /\ e = EventOf(r),
         \A e \in outbox' : e \notin told',
         \A r \in Request : change[r] # 0 => Placed(r)
  PROVE  NewsAccounts'
<1>1. \A r \in Request : change[r] # 0 => EventOf(r)' = EventOf(r)
  BY EventLasts
<1>2. ASSUME NEW r \in Request, change'[r] # 0 PROVE Accounted(r)'
  BY <1>1, <1>2 DEF Accounted, WithCall, WithEvents, Gone, Placed
<1>3. ASSUME NEW e \in Events' PROVE \E r \in Request : change'[r] # 0 /\ e = EventOf(r)'
  <2>1. PICK r \in Request : change[r] # 0 /\ e = EventOf(r)
    BY <1>3
  <2> QED
    BY <1>1, <2>1
<1>4. due' \subseteq Request /\ \A r \in due' : change'[r] # 0 /\ pc'[r] = "ok"
  BY NewsFacts
<1> QED
  BY <1>2, <1>3, <1>4 DEF NewsAccounts

\* Starting a goroutine takes the news from the call to its event.
LEMMA SpawnNews ==
  ASSUME SInv, [ServiceNext]_serviceVars, NEW r \in Request, Spawn(r) PROVE NewsAccounts'
<1>1. /\ r \in due /\ due' = due \ {r} /\ outbox' = outbox \cup {EventOf(r)}
      /\ told' = told /\ lost' = lost /\ pc' = pc /\ UNCHANGED <<log, change>>
  BY DEF Spawn, vars
<1>2. Events' = Events \cup {EventOf(r)}
  BY <1>1 DEF Events
<1>3. WithCall(r) /\ change[r] # 0
  BY <1>1, NewsFacts DEF Accounted, WithEvents, Gone
<1>4. \A s \in Request : change[s] # 0 => Placed(s)
  <2> SUFFICES ASSUME NEW s \in Request, change[s] # 0 PROVE Placed(s)
    OBVIOUS
  <2>1. CASE s = r
    <3>1. r \notin due' /\ EventOf(r) \in Events'
      BY <1>1, <1>2
    <3>2. change[r] \notin lost'
      BY <1>1, <1>3 DEF WithCall
    <3> QED
      BY <2>1, <3>1, <3>2 DEF Placed
  <2>2. CASE s # r
    <3>1. EventOf(s) # EventOf(r)
      BY <2>2, NewsFacts
    <3>2. (s \in due' <=> s \in due) /\ lost' = lost /\ (EventOf(s) \in Events' <=> EventOf(s) \in Events)
      BY <1>1, <1>2, <2>2, <3>1
    <3>3. Accounted(s)
      BY NewsFacts
    <3> QED
      BY <3>2, <3>3 DEF Accounted, WithCall, WithEvents, Gone, Placed
  <2> QED
    BY <2>1, <2>2
<1>5. \A e \in Events' : \E s \in Request : change[s] # 0 /\ e = EventOf(s)
  BY <1>2, <1>3, NewsFacts
<1>6. \A e \in outbox' : e \notin told'
  BY <1>1, <1>3, NewsFacts DEF WithCall, Events
<1>7. due' \subseteq due /\ (\A s \in due' : pc'[s] = "ok") /\ lost' \subseteq 1 .. Len(log)
  BY <1>1, NewsFacts
<1> QED
  BY <1>1, <1>4, <1>5, <1>6, <1>7, NewsKept

\* An event in the outbox is of a change that is with its goroutine.
LEMMA OutboxNews ==
  ASSUME SInv, NEW e \in outbox
  PROVE  \E r \in Request : change[r] # 0 /\ e = EventOf(r) /\ e.change = change[r] /\ WithEvents(r)
<1>1. e \in Events
  BY DEF Events
<1>2. PICK r \in Request : change[r] # 0 /\ e = EventOf(r)
  BY <1>1, NewsFacts
<1> QED
  BY <1>1, <1>2, NewsFacts DEF Accounted, WithCall, Gone

\* Publishing takes the event from the goroutine to the broker.
LEMMA PublishNews ==
  ASSUME SInv, [ServiceNext]_serviceVars, NEW e \in outbox, Publish(e) PROVE NewsAccounts'
<1>1. /\ outbox' = outbox \ {e} /\ told' = told \cup {e}
      /\ due' = due /\ lost' = lost /\ pc' = pc /\ UNCHANGED <<log, change>>
  BY DEF Publish, vars
<1>2. Events' = Events
  BY <1>1 DEF Events
<1> QED
  BY <1>1, <1>2, NewsKept, NewsFacts DEF Accounted, WithCall, WithEvents, Gone, Placed

\* A publish that fails loses the event, of one change, and no other.
LEMMA FailureNews ==
  ASSUME SInv, [ServiceNext]_serviceVars, NEW e \in outbox, PublishFails(e) PROVE NewsAccounts'
<1>1. /\ outbox' = outbox \ {e} /\ told' = told
      /\ due' = due /\ lost' = lost \cup {e.change} /\ pc' = pc /\ UNCHANGED <<log, change>>
  BY DEF PublishFails, vars
<1>2. Events' = Events \ {e}
  BY <1>1, NewsFacts DEF Events
<1>3. PICK r \in Request : change[r] # 0 /\ e = EventOf(r) /\ e.change = change[r] /\ WithEvents(r)
  BY OutboxNews
<1>4. \A s \in Request : change[s] # 0 => Placed(s)
  <2> SUFFICES ASSUME NEW s \in Request, change[s] # 0 PROVE Placed(s)
    OBVIOUS
  <2>1. CASE s = r
    BY <1>1, <1>2, <1>3, <2>1 DEF WithEvents, Placed
  <2>2. CASE s # r
    <3>1. EventOf(s) # EventOf(r) /\ change[s] # change[r]
      BY <2>2, NewsFacts
    <3>2. /\ s \in due' <=> s \in due
          /\ change[s] \in lost' <=> change[s] \in lost
          /\ EventOf(s) \in Events' <=> EventOf(s) \in Events
      BY <1>1, <1>2, <1>3, <3>1
    <3>3. Accounted(s)
      BY NewsFacts
    <3> QED
      BY <3>2, <3>3 DEF Accounted, WithCall, WithEvents, Gone, Placed
  <2> QED
    BY <2>1, <2>2
<1>5. \A f \in Events' : \E s \in Request : change[s] # 0 /\ f = EventOf(s)
  BY <1>2, NewsFacts
<1>6. \A f \in outbox' : f \notin told'
  BY <1>1, NewsFacts
<1>7. due' \subseteq due /\ (\A s \in due' : pc'[s] = "ok") /\ lost' \subseteq 1 .. Len(log)
  BY <1>1, <1>3, NewsFacts
<1> QED
  BY <1>1, <1>4, <1>5, <1>6, <1>7, NewsKept

\* A death loses the news that was with calls and goroutines; the broker keeps its own.
LEMMA CrashNews ==
  ASSUME SInv, [ServiceNext]_serviceVars, Crash PROVE NewsAccounts'
<1>1. /\ outbox' = {} /\ told' = told /\ due' = {} /\ UNCHANGED <<log, change>>
      /\ lost' = lost \cup {change[r] : r \in due} \cup {e.change : e \in outbox}
  BY DEF Crash
<1>2. Events' = told /\ Events = outbox \cup told
  BY <1>1 DEF Events
<1>3. \A s \in Request : change[s] # 0 => Placed(s)
  <2> SUFFICES ASSUME NEW s \in Request, change[s] # 0 PROVE Placed(s)
    OBVIOUS
  <2>1. CASE WithCall(s)
    BY <1>1, <1>2, <2>1 DEF WithCall, Placed
  <2>2. CASE Gone(s)
    BY <1>1, <1>2, <2>2 DEF Gone, Placed
  <2>3. CASE WithEvents(s) /\ EventOf(s) \in outbox
    <3>1. EventOf(s).change = change[s] /\ EventOf(s) \notin told
      BY <2>3, NewsFacts
    <3> QED
      BY <1>1, <1>2, <2>3, <3>1 DEF Placed
  <2>4. CASE WithEvents(s) /\ EventOf(s) \notin outbox
    <3>1. EventOf(s) \in told /\ s \notin due /\ change[s] \notin lost
      BY <1>2, <2>4 DEF WithEvents
    <3>2. \A r \in due : change[r] # change[s]
      BY <3>1, NewsFacts
    <3>3. \A e \in outbox : e.change # change[s]
      <4> SUFFICES ASSUME NEW e \in outbox, e.change = change[s] PROVE FALSE
        OBVIOUS
      <4>1. PICK r \in Request : change[r] # 0 /\ e = EventOf(r) /\ e.change = change[r]
        BY OutboxNews
      <4>2. r = s
        BY <4>1, NewsFacts
      <4> QED
        BY <2>4, <4>1, <4>2
    <3> QED
      BY <1>1, <1>2, <3>1, <3>2, <3>3 DEF Placed
  <2> QED
    BY <2>1, <2>2, <2>3, <2>4, NewsFacts DEF Accounted
<1>4. \A e \in Events' : \E s \in Request : change[s] # 0 /\ e = EventOf(s)
  BY <1>2, NewsFacts
<1>5. lost' \subseteq 1 .. Len(log)
  <2>1. \A r \in due : change[r] \in 1 .. Len(log)
    BY NewsFacts
  <2>2. \A e \in outbox : e.change \in 1 .. Len(log)
    BY OutboxNews, NewsFacts
  <2> QED
    BY <1>1, <2>1, <2>2, NewsFacts
<1> QED
  BY <1>1, <1>3, <1>4, <1>5, NewsKept

\* A commit adds one change, whose news is with the call or lost at once.
LEMMA CommitNews ==
  ASSUME SInv, [ServiceNext]_serviceVars, NEW r \in Request, Commits(r) PROVE NewsAccounts'
<1>1. /\ change[r] = 0 /\ Len(log') = Len(log) + 1 /\ Len(log) \in Nat
      /\ change' = [change EXCEPT ![r] = Len(log) + 1]
  BY CommitLogs
<1>2. change'[r] = Len(log) + 1 /\ \A s \in Request \ {r} : change'[s] = change[s]
  BY <1>1 DEF SInv, ChangeAccounts
<1>3. outbox' = outbox /\ told' = told
  BY DEF Commits, Record
<1>4. Events' = Events
  BY <1>3 DEF Events
<1>5. r \notin due /\ Len(log) + 1 \notin lost
  BY <1>1, NewsFacts
<1>6. \A e \in Events : e.change # Len(log) + 1
  <2> SUFFICES ASSUME NEW e \in Events PROVE e.change # Len(log) + 1
    OBVIOUS
  <2>1. PICK s \in Request : change[s] # 0 /\ e = EventOf(s)
    BY NewsFacts
  <2>2. change[s] \in 1 .. Len(log) /\ e.change = change[s]
    BY <2>1, NewsFacts
  <2> QED
    BY <1>1, <2>2
<1>7. EventOf(r)' \notin Events
  <2>1. (EventOf(r)').change = Len(log) + 1
    BY <1>2 DEF EventOf
  <2> QED
    BY <1>6, <2>1
<1>8. /\ \A s \in Request \ {r} : s \in due' <=> s \in due
      /\ \A s \in Request \ {r} : change[s] # 0 => (change[s] \in lost' <=> change[s] \in lost)
      /\ due' \subseteq Request
      /\ lost' \subseteq 1 .. Len(log')
      /\ r \in due' <=> Len(log) + 1 \notin lost'
      /\ r \in due' => pc'[r] = "ok"
  <2>1. \A s \in Request : change[s] # 0 => change[s] # Len(log) + 1
    BY <1>1, NewsFacts
  <2>2. lost \subseteq 1 .. Len(log') /\ Len(log) + 1 \in 1 .. Len(log')
    BY <1>1, NewsFacts
  <2>3. CASE pc' = [pc EXCEPT ![r] = "ok"] /\ due' = due \cup {r} /\ lost' = lost
    BY <1>5, <2>1, <2>2, <2>3, NewsFacts DEF SInv, SagaAccounts, TypeOK
  <2>4. CASE pc' = [pc EXCEPT ![r] = "failed"] /\ due' = due /\ lost' = lost \cup {Len(log) + 1}
    BY <1>5, <2>1, <2>2, <2>4, NewsFacts
  <2> QED
    BY <2>3, <2>4 DEF Commits
<1>9. ASSUME NEW s \in Request, change'[s] # 0 PROVE Accounted(s)'
  <2>1. CASE s = r
    <3>1. EventOf(s)' \notin Events' /\ change'[s] = Len(log) + 1
      BY <1>2, <1>4, <1>7, <2>1
    <3>2. s \in due' <=> change'[s] \notin lost'
      BY <1>8, <2>1, <3>1
    <3> QED
      BY <3>1, <3>2 DEF Accounted, WithCall, Gone
  <2>2. CASE s # r
    <3>1. change[s] # 0 /\ change'[s] = change[s] /\ EventOf(s)' = EventOf(s)
      BY <1>2, <1>9, <2>2, EventLasts
    <3>2. /\ s \in due' <=> s \in due
          /\ change[s] \in lost' <=> change[s] \in lost
      BY <1>8, <2>2, <3>1
    <3>3. Accounted(s)
      BY <3>1, NewsFacts
    <3> QED
      BY <1>4, <3>1, <3>2, <3>3 DEF Accounted, WithCall, WithEvents, Gone
  <2> QED
    BY <2>1, <2>2
<1>10. ASSUME NEW e \in Events' PROVE \E s \in Request : change'[s] # 0 /\ e = EventOf(s)'
  <2>1. PICK s \in Request : change[s] # 0 /\ e = EventOf(s)
    BY <1>4, <1>10, NewsFacts
  <2> QED
    BY <2>1, EventLasts
<1>11. ASSUME NEW s \in due' PROVE change'[s] # 0 /\ pc'[s] = "ok"
  <2>1. CASE s = r
    BY <1>1, <1>2, <1>8, <1>11, <2>1
  <2>2. CASE s # r
    <3>1. s \in due /\ change[s] # 0 /\ pc[s] = "ok" /\ s \in Request
      BY <1>8, <1>11, <2>2, NewsFacts
    <3>2. pc'[s] = pc[s]
      BY <3>1, EndedStays DEF Commits, SInv, SagaAccounts, Ended
    <3> QED
      BY <1>2, <2>2, <3>1, <3>2
  <2> QED
    BY <2>1, <2>2
<1> QED
  BY <1>3, <1>8, <1>9, <1>10, <1>11, NewsFacts DEF NewsAccounts

\* A step that commits nothing moves no news.
LEMMA QuietNews ==
  ASSUME SInv, [ServiceNext]_serviceVars, Quiet PROVE NewsAccounts'
<1>1. UNCHANGED <<log, change, due, outbox, told, lost>> /\ [Next]_vars
  BY DEF Quiet, news
<1>2. Events' = Events
  BY <1>1 DEF Events
<1>3. \A r \in due' : pc'[r] = "ok"
  BY <1>1, NewsFacts, EndedStays DEF SInv, SagaAccounts, Ended
<1> QED
  BY <1>1, <1>2, <1>3, NewsKept, NewsFacts DEF Accounted, WithCall, WithEvents, Gone, Placed

\* The accounts of news are kept.
LEMMA NewsStep ==
  ASSUME SInv, [ServiceNext]_serviceVars PROVE NewsAccounts'
<1>1. ASSUME NEW e \in outbox, Publish(e) \/ PublishFails(e) PROVE NewsAccounts'
  BY <1>1, PublishNews, FailureNews
<1> QED
  BY <1>1, QuietNews, CommitNews, SpawnNews, CrashNews, ServiceStep DEF SInv, SagaAccounts

-----------------------------------------------------------------------------
\* Every reachable state satisfies SInv, whatever breaks off, dies or is lost.
THEOREM ServiceInvariance == ServiceSpec => []SInv
<1>1. ServiceInit => SInv
  BY InitSInv
<1>2. SInv /\ [ServiceNext]_serviceVars => SInv'
  <2> SUFFICES ASSUME SInv, [ServiceNext]_serviceVars PROVE SInv'
    OBVIOUS
  <2> QED
    BY SagaStep, RowAccountsStep, ChangeStep, NewsStep, CancelledAccountsStep DEF SInv
<1> QED
  BY <1>1, <1>2, PTL DEF ServiceSpec

\* The event of a change, and what it says.
LEMMA EventSays ==
  ASSUME SInv, NEW r \in Request, change[r] # 0
  PROVE  /\ EventOf(r).type = TypeOf(call[r].kind)
         /\ EventOf(r).order = call[r].order /\ call[r].order \in OrderID
         /\ EventOf(r).user = orders[call[r].order].user /\ EventOf(r).user \in User
         /\ EventOf(r).status \in OrderStatus /\ EventOf(r).change \in Nat \ {0}
         /\ call[r].kind \in {"create", "cancel", "update"}
<1>1. /\ change[r] \in 1 .. Len(log) /\ Tells(log[change[r]], r)
      /\ log[change[r]] \in ChangeRecord
  BY DEF SInv, ChangeAccounts, ChangeAccounted
<1> QED
  BY <1>1 DEF Tells, ChangeRecord, EventOf

\* Every variable keeps its type, the news included.
THEOREM ServiceTypeCorrect == ServiceSpec => []ServiceTypeOK
<1>1. ASSUME SInv PROVE ServiceTypeOK
  <2>1. TypeOK /\ due \subseteq Request /\ lost \subseteq 1 .. Len(log)
    BY <1>1, NewsFacts DEF SInv, SagaAccounts
  <2>2. ASSUME NEW n \in 1 .. Len(log)
        PROVE  log[n] \in [kind: {"create", "cancel", "update"}, order: OrderID,
                           from: OrderStatus \cup {Absent}, row: Row]
    <3>1. log[n] \in ChangeRecord
      BY <1>1 DEF SInv, ChangeAccounts
    <3> QED
      BY <3>1 DEF ChangeRecord, Row
  <2>3. change \in [Request -> 0 .. Len(log)]
    BY <1>1 DEF SInv, ChangeAccounts, ChangeAccounted
  <2>4. ASSUME NEW e \in Events PROVE e \in Event
    <3>1. PICK r \in Request : change[r] # 0 /\ e = EventOf(r)
      BY <1>1, NewsFacts
    <3>2. e = [change |-> e.change, type |-> e.type, order |-> e.order,
               user |-> e.user, status |-> e.status]
      BY <3>1 DEF EventOf
    <3>3. e.type \in {TypeOf(k) : k \in {"create", "cancel", "update"}}
      BY <1>1, <3>1, EventSays
    <3> QED
      BY <1>1, <3>1, <3>2, <3>3, EventSays DEF Event
  <2> QED
    BY <2>1, <2>2, <2>3, <2>4 DEF ServiceTypeOK
<1> QED
  BY <1>1, ServiceInvariance, PTL

\* What is announced has been done by the catalog and the database, whatever deadline
\* passes, answer is lost or process dies.
THEOREM AnnouncementsAreDone == ServiceSpec => []AnnouncedIsDone
<1>1. ASSUME SInv PROVE AnnouncedIsDone
  <2> SUFFICES ASSUME NEW e \in Events
               PROVE  /\ e.user = orders[e.order].user
                      /\ e.type = "order.created" =>
                           ledger[e.order].taken = 1 /\ ledger[e.order].items = orders[e.order].items
                      /\ e.type = "order.cancelled" =>
                           orders[e.order].status = "CANCELED" /\ ledger[e.order].restocked >= 1
    BY DEF AnnouncedIsDone
  <2>1. PICK r \in Request : change[r] # 0 /\ e = EventOf(r)
    BY <1>1, NewsFacts
  <2>2. /\ e.type = TypeOf(call[r].kind) /\ e.order = call[r].order /\ call[r].order \in OrderID
        /\ e.user = orders[call[r].order].user /\ call[r].kind \in {"create", "cancel", "update"}
    BY <1>1, <2>1, EventSays
  <2>3. Visible(e.order) /\ Tells(log[change[r]], r)
    BY <1>1, <2>1, <2>2 DEF SInv, ChangeAccounts, ChangeAccounted
  <2>4. ledger[e.order].taken = 1 /\ ledger[e.order].items = orders[e.order].items
    BY <1>1, <2>2, <2>3 DEF SInv, SagaAccounts, StockBacked
  <2>5. ASSUME e.type = "order.cancelled"
        PROVE  orders[e.order].status = "CANCELED" /\ ledger[e.order].restocked >= 1
    <3>1. call[r].kind = "cancel"
      BY <2>2, <2>5 DEF TypeOf
    <3>2. orders[e.order].status = "CANCELED" /\ rpc[r] = "applied"
      BY <2>2, <2>3, <3>1 DEF Tells
    <3> QED
      BY <1>1, <2>2, <3>1, <3>2 DEF SInv, SagaAccounts, CancelAccounts
  <2> QED
    BY <2>2, <2>4, <2>5
<1> QED
  BY <1>1, ServiceInvariance, PTL

\* The refunds of an order are the changes of the requests that have cancelled it.
LEMMA RefundsAre ==
  ASSUME SInv, NEW o \in OrderID
  PROVE  /\ \A n \in Refunds(o) : \E r \in Request : HasCancelled(r, o) /\ change[r] = n
         /\ \A r \in Request : HasCancelled(r, o) =>
              Refunds(o) = {change[r]} /\ orders[o].status = "CANCELED"
<1>1. ASSUME NEW n \in Refunds(o) PROVE \E r \in Request : HasCancelled(r, o) /\ change[r] = n
  <2>1. n \in 1 .. Len(log) /\ log[n].kind = "cancel" /\ log[n].order = o
    BY DEF Refunds
  <2>2. PICK r \in Request : change[r] = n
    BY <2>1 DEF SInv, ChangeAccounts
  <2>3. n # 0
    BY <2>1 DEF SInv, ChangeAccounts
  <2>4. Tells(log[n], r)
    BY <2>2, <2>3 DEF SInv, ChangeAccounts, ChangeAccounted
  <2> QED
    BY <2>1, <2>2, <2>3, <2>4 DEF Tells, HasCancelled
<1>2. ASSUME NEW r \in Request, HasCancelled(r, o)
      PROVE  change[r] \in Refunds(o) /\ orders[o].status = "CANCELED"
  BY <1>2 DEF HasCancelled, SInv, ChangeAccounts, ChangeAccounted, Tells, Refunds
<1>3. \A r, s \in Request : HasCancelled(r, o) /\ HasCancelled(s, o) => r = s
  BY DEF SInv, ChangeAccounts
<1> QED
  BY <1>1, <1>2, <1>3

\* However many clients cancel an order, and whatever dies or is lost on the way, one
\* refund is due for it and is in one place.
THEOREM RefundsAreAccounted ==
  ASSUME "CANCELED" \notin AdminStatus
  PROVE  ServiceSpec => []RefundsAccounted
<1>1. ASSUME SInv PROVE RefundsAccounted
  <2> SUFFICES ASSUME NEW o \in OrderID
               PROVE  IF orders[o].status # "CANCELED" THEN Refunds(o) = {}
                      ELSE \E n \in Refunds(o) :
                             /\ Refunds(o) = {n}
                             /\ Cardinality({r \in due : change[r] = n})
                                  + Cardinality({e \in Events : e.change = n})
                                  + Cardinality({n} \cap lost) = 1
    BY DEF RefundsAccounted
  <2>1. CASE orders[o].status # "CANCELED"
    BY <1>1, <2>1, RefundsAre
  <2>2. CASE orders[o].status = "CANCELED"
    <3>1. PICK r \in Request : HasCancelled(r, o)
      BY <1>1, <2>2 DEF SInv, CancelledAccounts
    <3> DEFINE n == change[r]
    <3>2. Refunds(o) = {n} /\ n # 0
      BY <1>1, <3>1, RefundsAre DEF HasCancelled
    <3>3. {s \in due : change[s] = n} = IF r \in due THEN {r} ELSE {}
      BY <1>1, <3>2, NewsFacts
    <3>4. {e \in Events : e.change = n} = IF EventOf(r) \in Events THEN {EventOf(r)} ELSE {}
      <4>1. EventOf(r).change = n
        BY <1>1, <3>2, NewsFacts
      <4>2. ASSUME NEW e \in Events, e.change = n PROVE e = EventOf(r)
        <5>1. PICK s \in Request : change[s] # 0 /\ e = EventOf(s)
          BY <1>1, NewsFacts
        <5>2. change[s] = n
          BY <1>1, <4>2, <5>1, NewsFacts
        <5>3. s = r
          BY <1>1, <3>2, <5>2, NewsFacts
        <5> QED
          BY <5>1, <5>3
      <4> QED
        BY <4>1, <4>2
    <3>5. {n} \cap lost = IF n \in lost THEN {n} ELSE {}
      OBVIOUS
    <3>6. /\ Cardinality({s \in due : change[s] = n}) = IF r \in due THEN 1 ELSE 0
          /\ Cardinality({e \in Events : e.change = n}) = IF EventOf(r) \in Events THEN 1 ELSE 0
          /\ Cardinality({n} \cap lost) = IF n \in lost THEN 1 ELSE 0
      BY <3>3, <3>4, <3>5, FS_EmptySet, FS_Singleton
    <3>7. Accounted(r)
      BY <1>1, <3>2, NewsFacts
    <3>8. Cardinality({s \in due : change[s] = n}) + Cardinality({e \in Events : e.change = n})
            + Cardinality({n} \cap lost) = 1
      <4>1. CASE WithCall(r)
        BY <3>6, <4>1 DEF WithCall
      <4>2. CASE WithEvents(r)
        BY <3>6, <4>2 DEF WithEvents
      <4>3. CASE Gone(r)
        BY <3>6, <4>3 DEF Gone
      <4> QED
        BY <3>7, <4>1, <4>2, <4>3 DEF Accounted
    <3> QED
      BY <2>2, <3>2, <3>8
  <2> QED
    BY <2>1, <2>2
<1> QED
  BY <1>1, ServiceInvariance, PTL

-----------------------------------------------------------------------------
(***************************************************************************)
(* The service implements the service half of OrderEvents.                 *)
(***************************************************************************)

\* The tables of both modules are the same.
LEMMA SameTable ==
  /\ News!NoRow = NoRow /\ News!Absent = Absent /\ News!NoItems = NoItems
  /\ News!OrderStatus = OrderStatus
  /\ \A row, user : News!Cancellable(row, user) = Cancellable(row, user)
  /\ \A row, status : News!Updatable(row, status) = Updatable(row, status)
  /\ \A row : News!CancelledRow(row) = CancelledRow(row)
  /\ \A row, status : News!UpdatedRow(row, status) = UpdatedRow(row, status)
  /\ \A user, items : News!InsertedRow(user, items) = InsertedRow(user, items)
  BY DEF News!NoRow, NoRow, News!Absent, Absent, News!NoItems, NoItems, News!OrderStatus, OrderStatus,
         News!Cancellable, Cancellable, News!Updatable, Updatable, News!CancelledRow, CancelledRow,
         News!UpdatedRow, UpdatedRow, News!InsertedRow, InsertedRow

\* A call as the events see it.
CallerOf(r) == IF call[r].kind = "update" THEN CHOOSE u \in User : TRUE ELSE call[r].user
\* The record of r with a place, a row and a change.
ServedAs(r, place, row, n) ==
  [at |-> place, kind |-> call[r].kind, order |-> call[r].order, user |-> CallerOf(r),
   to |-> call[r].to, row |-> row, change |-> n]

\* What the accounts say of a request that has made no change.
LEMMA ServingIs ==
  ASSUME SInv, NEW r \in Request
  PROVE  /\ Serving[r] = ServingOf(r)
         /\ pc[r] = "idle" => ServingOf(r) = News!NoCall
         /\ pc[r] # "idle" => ServingOf(r) # News!NoCall /\ ServingOf(r).order = call[r].order
         /\ pc[r] \notin Ended => change[r] = 0
         /\ pc[r] \in Working => At(r) = "changing" /\ pc[r] # "idle"
         /\ pc[r] = "failed" => At(r) = "failed"
<1>1. Serving[r] = ServingOf(r)
  BY DEF Serving
<1>2. pc[r] = "idle" => ServingOf(r) = News!NoCall
  BY DEF ServingOf, News!NoCall
<1>3. ASSUME pc[r] # "idle" PROVE ServingOf(r) # News!NoCall /\ ServingOf(r).order = call[r].order
  <2>1. ServingOf(r).order = call[r].order
    BY <1>3 DEF ServingOf
  <2>2. ServingOf(r).at = At(r)
    BY <1>3 DEF ServingOf
  <2>3. At(r) # "idle"
    BY <1>3 DEF At
  <2> QED
    BY <2>1, <2>2, <2>3 DEF News!NoCall
<1>4. pc[r] \notin Ended => change[r] = 0
  BY DEF SInv, ChangeAccounts, ChangeAccounted
<1>5. pc[r] \in Working => At(r) = "changing" /\ pc[r] # "idle"
  BY DEF At, Working
<1>6. pc[r] = "failed" => At(r) = "failed"
  BY DEF At, Working
<1> QED
  BY <1>1, <1>2, <1>3, <1>4, <1>5, <1>6

\* A call is shown the same after a step that keeps what it is shown by.
LEMMA ServingKept ==
  ASSUME NEW r \in Request, At(r)' = At(r), pc'[r] = "idle" <=> pc[r] = "idle",
         call'[r].kind = call[r].kind, call'[r].order = call[r].order,
         call'[r].user = call[r].user, call'[r].to = call[r].to,
         change'[r] = change[r], change[r] # 0 => log'[change[r]] = log[change[r]]
  PROVE  ServingOf(r)' = ServingOf(r)
  BY DEF ServingOf

\* Steps that change no row and no news: what the events see of them is a call coming
\* in, a call turned away, or nothing.
LEMMA QuietSimulation ==
  ASSUME SInv, [ServiceNext]_serviceVars, Quiet
  PROVE  [News!Next]_(News!vars)
<1>1. /\ [Next]_vars
      /\ UNCHANGED <<orders, log, change, due, outbox, told, lost>>
  BY DEF Quiet, news
<1>2. UNCHANGED <<Shown, outbox, log, told, Unheard, NoEmails>>
  BY <1>1 DEF Shown, Unheard, NoEmails, Header
<1>3. ASSUME Serving' = Serving PROVE UNCHANGED News!vars
  BY <1>2, <1>3 DEF News!vars
<1>4. ASSUME NEW s \in Request, pc'[s] = pc[s], call'[s] = call[s] PROVE ServingOf(s)' = ServingOf(s)
  <2>1. At(s)' = At(s)
    BY <1>1, <1>4 DEF At
  <2> QED
    BY <1>1, <1>4, <2>1, ServingKept
<1>5. CASE UNCHANGED <<pc, call>>
  <2>1. Serving' = Serving
    BY <1>4, <1>5 DEF Serving
  <2> QED
    BY <1>3, <2>1
<1>6. ASSUME NEW r \in Request, Moves(r) PROVE [News!Next]_(News!vars)
  <2>1. /\ pc[r] \in Working /\ pc'[r] \in Working \cup {"failed"}
        /\ pc' = [pc EXCEPT ![r] = pc'[r]]
        /\ \A s \in Request \ {r} : pc'[s] = pc[s] /\ call'[s] = call[s]
        /\ call'[r].kind = call[r].kind /\ call'[r].order = call[r].order
        /\ call'[r].user = call[r].user /\ call'[r].to = call[r].to
    BY <1>6 DEF Moves, SInv, SagaAccounts, TypeOK, Call
  <2>2. \A s \in Request \ {r} : ServingOf(s)' = ServingOf(s)
    BY <1>4, <2>1
  <2>3. CASE pc'[r] \in Working
    <3>1. At(r)' = At(r) /\ pc[r] # "idle" /\ pc'[r] # "idle"
      BY <2>1, <2>3 DEF At, Working
    <3>2. ServingOf(r)' = ServingOf(r)
      BY <1>1, <2>1, <3>1, ServingKept
    <3>3. Serving' = Serving
      BY <2>2, <3>2 DEF Serving
    <3> QED
      BY <1>3, <3>3
  <2>4. CASE pc'[r] = "failed"
    <3>1. /\ At(r) = "changing" /\ At(r)' = "failed" /\ pc[r] # "idle" /\ pc'[r] # "idle"
      BY <2>1, <2>4 DEF At, Working
    <3>2. ServingOf(r)' = [ServingOf(r) EXCEPT !.at = "failed"]
      <4>1. change[r] = 0 /\ change'[r] = 0
        BY <1>1, <2>1, ServingIs DEF Ended, Working
      <4>2. ServingOf(r) = ServedAs(r, "changing", NoRow, 0)
        BY <3>1, <4>1 DEF ServingOf, ServedAs, CallerOf
      <4>3. ServingOf(r)' = ServedAs(r, "failed", NoRow, 0)
        BY <2>1, <3>1, <4>1 DEF ServingOf, ServedAs, CallerOf
      <4>4. ServedAs(r, "failed", NoRow, 0)' = ServedAs(r, "failed", NoRow, 0)
        BY <2>1 DEF ServedAs, CallerOf
      <4>5. ServedAs(r, "failed", NoRow, 0) = [ServedAs(r, "changing", NoRow, 0) EXCEPT !.at = "failed"]
        BY DEF ServedAs
      <4> QED
        BY <4>2, <4>3, <4>4, <4>5
    <3>3. Serving' = [Serving EXCEPT ![r] = [Serving[r] EXCEPT !.at = "failed"]]
      BY <2>2, <3>2 DEF Serving
    <3>4. Serving[r].at = "changing"
      BY <3>1 DEF Serving, ServingOf
    <3>5. News!TurnAway(r)
      BY <1>2, <3>3, <3>4 DEF News!TurnAway, News!broker
    <3> QED
      BY <3>5 DEF News!Next
  <2> QED
    BY <2>1, <2>3, <2>4
<1>7. ASSUME NEW r \in Request, Arrive(r) PROVE News!Call(r)
  <2>1. PICK o \in OrderID :
          \/ \E u \in User, items \in Carts : ArriveCreate(r, o, u, items)
          \/ \E u \in User : ArriveCancel(r, o, u)
          \/ \E s \in AdminStatus : ArriveUpdate(r, o, s)
    BY <1>7 DEF Arrive
  <2>2. /\ pc[r] = "idle" /\ pc' = [pc EXCEPT ![r] = "begin"]
        /\ \A s \in Request \ {r} : pc'[s] = pc[s] /\ call'[s] = call[s]
    BY <2>1 DEF ArriveCreate, ArriveCancel, ArriveUpdate, GoTo, SInv, SagaAccounts, TypeOK
  <2>3. \A s \in Request \ {r} : ServingOf(s)' = ServingOf(s)
    BY <1>4, <2>2
  <2>4. Serving[r] = News!NoCall
    BY <2>2, ServingIs
  <2>5. ServingOf(r)' = ServedAs(r, "changing", NoRow, 0)'
    <3>1. change'[r] = 0
      BY <1>1, <2>2, ServingIs DEF Ended
    <3>2. pc'[r] = "begin"
      BY <2>2 DEF SInv, SagaAccounts, TypeOK
    <3>3. At(r)' = "changing"
      BY <3>2 DEF At, Working
    <3> QED
      BY <3>1, <3>2, <3>3 DEF ServingOf, ServedAs, CallerOf
  <2>6. Serving' = [Serving EXCEPT ![r] = ServedAs(r, "changing", NoRow, 0)']
    BY <2>3, <2>5 DEF Serving
  <2>7. ASSUME NEW u \in User, NEW items \in Carts, ArriveCreate(r, o, u, items)
        PROVE  News!Arrive(r, "create", o, u, Absent)
    <3>1. call'[r].kind = "create" /\ call'[r].order = o /\ call'[r].user = u /\ call'[r].to = Absent
      BY <2>7 DEF ArriveCreate, NoCall, SInv, SagaAccounts, TypeOK
    <3>2. ServedAs(r, "changing", NoRow, 0)' =
            [at |-> "changing", kind |-> "create", order |-> o, user |-> u, to |-> Absent,
             row |-> NoRow, change |-> 0]
      BY <3>1 DEF ServedAs, CallerOf
    <3>3. Shown[o] = NoRow
      BY <2>7 DEF ArriveCreate, Fresh, SInv, RowAccounts, Shown, Header, NoRow
    <3>4. \A q \in Request : Serving[q] # News!NoCall => Serving[q].order # o
      BY <2>7, ServingIs DEF ArriveCreate, Fresh
    <3> QED
      BY <1>2, <2>4, <2>6, <3>2, <3>3, <3>4, SameTable DEF News!Arrive, News!Mark, News!broker
  <2>8. Visible(o) => Shown[o] # NoRow
    BY DEF Visible, Shown, Header, NoRow, SInv, SagaAccounts, TypeOK, Row
  <2>9. ASSUME NEW u \in User, ArriveCancel(r, o, u)
        PROVE  News!Arrive(r, "cancel", o, u, Absent)
    <3>1. call'[r].kind = "cancel" /\ call'[r].order = o /\ call'[r].user = u /\ call'[r].to = Absent
      BY <2>9 DEF ArriveCancel, NoCall, SInv, SagaAccounts, TypeOK
    <3>2. ServedAs(r, "changing", NoRow, 0)' =
            [at |-> "changing", kind |-> "cancel", order |-> o, user |-> u, to |-> Absent,
             row |-> NoRow, change |-> 0]
      BY <3>1 DEF ServedAs, CallerOf
    <3>3. Shown[o] # NoRow
      BY <2>8, <2>9 DEF ArriveCancel
    <3> QED
      BY <1>2, <2>4, <2>6, <3>2, <3>3, SameTable DEF News!Arrive, News!Mark, News!broker
  <2> DEFINE somebody == CHOOSE u \in User : TRUE
  <2>10. ASSUME NEW s \in AdminStatus, ArriveUpdate(r, o, s)
         PROVE  somebody \in User /\ News!Arrive(r, "update", o, somebody, s)
    <3>1. call'[r].kind = "update" /\ call'[r].order = o /\ call'[r].to = s
      BY <2>10 DEF ArriveUpdate, NoCall, SInv, SagaAccounts, TypeOK
    <3>2. ServedAs(r, "changing", NoRow, 0)' =
            [at |-> "changing", kind |-> "update", order |-> o, user |-> somebody, to |-> s,
             row |-> NoRow, change |-> 0]
      BY <3>1 DEF ServedAs, CallerOf
    <3>3. Visible(o)
      BY <2>10 DEF ArriveUpdate
    <3>4. Shown[o] # NoRow
      BY <2>8, <3>3
    <3>5. somebody \in User
      BY <3>3 DEF SInv, RowAccounts
    <3> HIDE DEF somebody
    <3> QED
      BY <1>2, <2>4, <2>6, <3>2, <3>4, <3>5, SameTable DEF News!Arrive, News!Mark, News!broker
  <2> HIDE DEF somebody
  <2> QED
    <3>1. ASSUME NEW u \in User, NEW items \in Carts, ArriveCreate(r, o, u, items) PROVE News!Call(r)
      BY <2>7, <3>1, SameTable DEF News!Call, News!Kind
    <3>2. ASSUME NEW u \in User, ArriveCancel(r, o, u) PROVE News!Call(r)
      BY <2>9, <3>2, SameTable DEF News!Call, News!Kind
    <3>3. ASSUME NEW s \in AdminStatus, ArriveUpdate(r, o, s) PROVE News!Call(r)
      BY <2>10, <3>3 DEF News!Call, News!Kind
    <3> QED
      BY <2>1, <3>1, <3>2, <3>3
<1>8. ASSUME NEW r \in Request, Arrive(r) PROVE News!Next
  BY <1>7, <1>8 DEF News!Next
<1> QED
  BY <1>5, <1>6, <1>8 DEF Quiet
\* What the events see of the log: a change more, or the same.
LEMMA NoEmailsGrow ==
  ASSUME Len(log) \in Nat, Len(log') = Len(log) + 1
  PROVE  NoEmails' = Append(NoEmails, 0)
<1>1. NoEmails \in Seq(Nat) /\ Len(NoEmails) = Len(log)
  BY DEF NoEmails
<1>2. NoEmails' = [n \in 1 .. Len(log) + 1 |-> 0]
  BY DEF NoEmails
<1> QED
  BY <1>1, <1>2 DEF NoEmails

\* A commit is one step to the events: the whole change, answered or not.
LEMMA CommitSimulation ==
  ASSUME SInv, [ServiceNext]_serviceVars, NEW r \in Request, Commits(r)
  PROVE  News!Change(r) \/ News!ChangeUnconfirmed(r)
<1>1. PICK o \in OrderID : o = call[r].order
  BY DEF Commits
<1>2. /\ WritesRow(r, o) /\ orders' = [orders EXCEPT ![o] = orders'[o]]
      /\ pc[r] \in Working /\ pc[r] # "idle" /\ call' = call
      /\ outbox' = outbox /\ told' = told
  BY <1>1 DEF Commits, Record, WritesRow, Working
<1>3. /\ change[r] = 0 /\ log' = Append(log, EntryOf(r)) /\ Len(log') = Len(log) + 1
      /\ change'[r] = Len(log) + 1 /\ \A s \in Request \ {r} : change'[s] = change[s]
      /\ Len(log) \in Nat /\ log'[Len(log) + 1] = EntryOf(r)
      /\ \A n \in 1 .. Len(log) : log'[n] = log[n]
  BY CommitLogs DEF SInv, ChangeAccounts
<1>4. orders[o] \in Row /\ orders'[o] \in Row
  BY SagaStep DEF SInv, SagaAccounts, TypeOK
<1> DEFINE row == Header(orders'[o])
<1>5. Serving[r] = ServedAs(r, "changing", NoRow, 0)
  <2>1. At(r) = "changing"
    BY <1>2, ServingIs
  <2> QED
    BY <1>2, <1>3, <2>1 DEF Serving, ServingOf, ServedAs, CallerOf
\* The row that the events see the call make.
<1>6. News!Matches(Serving[r]) /\ News!Made(Serving[r]) = row
  <2>1. /\ Serving[r].kind = call[r].kind /\ Serving[r].order = o /\ Serving[r].to = call[r].to
        /\ call[r].kind # "update" => Serving[r].user = call[r].user
    BY <1>1, <1>5 DEF ServedAs, CallerOf
  <2>2. Shown[o] = Header(orders[o])
    BY DEF Shown
  <2>3. CASE call[r].kind = "create"
    <3>1. orders'[o] = InsertedRow(call[r].user, call[r].items)
      BY <1>2, <2>3 DEF WritesRow, HoldsRow
    <3>2. row = InsertedRow(call[r].user, NoItems)
      BY <3>1 DEF Header, InsertedRow
    <3> QED
      BY <2>1, <2>3, <3>2, SameTable DEF News!Matches, News!Made
  <2>4. CASE call[r].kind = "cancel"
    <3>1. HoldsRow(r, o) /\ orders'[o] = CancelledRow(orders[o])
      BY <1>2, <2>4 DEF WritesRow
    <3>2. Cancellable(orders[o], call[r].user)
      BY <3>1 DEF SInv, SagaAccounts, CancelAccounts
    <3>3. Cancellable(Shown[o], call[r].user)
      BY <1>4, <2>2, <3>2 DEF Cancellable, Header, Row
    <3>4. row = CancelledRow(Shown[o])
      BY <1>4, <2>2, <3>1 DEF Header, CancelledRow, Row
    <3> QED
      BY <2>1, <2>4, <3>3, <3>4, SameTable DEF News!Matches, News!Made
  <2>5. CASE call[r].kind = "update"
    <3>1. Updatable(orders[o], call[r].to) /\ orders'[o] = UpdatedRow(orders[o], call[r].to)
      BY <1>2, <2>5 DEF WritesRow, HoldsRow
    <3>2. Updatable(Shown[o], call[r].to)
      BY <1>4, <2>2, <3>1 DEF Updatable, Header, Row
    <3>3. row = UpdatedRow(Shown[o], call[r].to)
      BY <1>4, <2>2, <3>1 DEF Header, UpdatedRow, Row
    <3> QED
      BY <2>1, <2>5, <3>2, <3>3, SameTable DEF News!Matches, News!Made
  <2> QED
    BY <1>2, <2>3, <2>4, <2>5 DEF WritesRow, HoldsRow
<1>7. Shown' = [Shown EXCEPT ![o] = row]
  <2>1. \A p \in OrderID \ {o} : orders'[p] = orders[p]
    BY <1>2 DEF SInv, SagaAccounts, TypeOK
  <2>2. \A p \in OrderID : Shown'[p] = Header(orders'[p]) /\ Shown[p] = Header(orders[p])
    BY DEF Shown
  <2>3. \A p \in OrderID : Shown'[p] = IF p = o THEN row ELSE Shown[p]
    BY <2>1, <2>2
  <2>4. Shown' = [p \in OrderID |-> Shown'[p]] /\ Shown = [p \in OrderID |-> Shown[p]]
    BY DEF Shown
  <2> HIDE DEF row
  <2> QED
    BY <2>3, <2>4
<1>8. EntryOf(r) = [kind |-> Serving[r].kind, order |-> Serving[r].order,
                   from |-> Shown[Serving[r].order].status, row |-> row]
  <2>1. Serving[r].kind = call[r].kind /\ Serving[r].order = o
    BY <1>1, <1>5 DEF ServedAs
  <2>2. Shown[o].status = orders[o].status
    BY <1>4 DEF Shown, Header, Row
  <2> QED
    BY <1>1, <2>1, <2>2 DEF EntryOf
<1>9. NoEmails' = Append(NoEmails, 0)
  BY <1>3, NoEmailsGrow
<1>10. Serving[r].at = "changing" /\ Serving[r].order = o
  BY <1>1, <1>5 DEF ServedAs
<1>11. News!CommitChange(r)
  <2> HIDE DEF row
  <2> QED
    BY <1>2, <1>3, <1>6, <1>7, <1>8, <1>9, <1>10 DEF News!CommitChange, News!broker
\* What it sees of the calls.
<1>12. ASSUME NEW s \in Request \ {r}, s \in due' <=> s \in due, pc'[s] = pc[s]
       PROVE  ServingOf(s)' = ServingOf(s)
  <2>1. At(s)' = At(s)
    BY <1>12 DEF At
  <2>2. change[s] # 0 => log'[change[s]] = log[change[s]]
    BY <1>3, NewsFacts
  <2> QED
    BY <1>2, <1>3, <1>12, <2>1, <2>2, ServingKept
<1>13. ASSUME NEW place, pc'[r] # "idle", At(r)' = place,
              \A s \in Request \ {r} : ServingOf(s)' = ServingOf(s)
       PROVE  Serving' = [Serving EXCEPT ![r] =
                [Serving[r] EXCEPT !.at = place, !.row = row, !.change = Len(log) + 1]]
  <2>1. ServingOf(r)' = ServedAs(r, place, row, Len(log) + 1)
    <3>1. log'[change'[r]].row = row /\ change'[r] = Len(log) + 1 /\ change'[r] # 0
      BY <1>1, <1>3 DEF EntryOf
    <3>2. CallerOf(r)' = CallerOf(r)
      BY <1>2 DEF CallerOf
    <3>3. ServingOf(r)' = [at |-> At(r)', kind |-> call'[r].kind, order |-> call'[r].order,
                           user |-> CallerOf(r)', to |-> call'[r].to,
                           row |-> log'[change'[r]].row, change |-> change'[r]]
      BY <1>13, <3>1 DEF ServingOf, CallerOf
    <3> HIDE DEF row
    <3> QED
      BY <1>2, <1>13, <3>1, <3>2, <3>3 DEF ServedAs
  <2>2. ServedAs(r, place, row, Len(log) + 1) =
          [Serving[r] EXCEPT !.at = place, !.row = row, !.change = Len(log) + 1]
    <3> HIDE DEF row
    <3>1. PICK c : c = Serving[r]
      OBVIOUS
    <3>2. PICK n : n = Len(log) + 1
      OBVIOUS
    <3>3. PICK w : w = row
      OBVIOUS
    <3>4. [c EXCEPT !.at = place, !.row = w, !.change = n] =
            [[[c EXCEPT !.at = place] EXCEPT !.row = w] EXCEPT !.change = n]
      BY <1>5, <3>1 DEF ServedAs
    <3>5. [c EXCEPT !.at = place] = ServedAs(r, place, NoRow, 0)
      BY <1>5, <3>1 DEF ServedAs
    <3>6. [ServedAs(r, place, NoRow, 0) EXCEPT !.row = w] = ServedAs(r, place, w, 0)
      BY DEF ServedAs
    <3>7. [ServedAs(r, place, w, 0) EXCEPT !.change = n] = ServedAs(r, place, w, n)
      BY DEF ServedAs
    <3> QED
      BY <3>1, <3>2, <3>3, <3>4, <3>5, <3>6, <3>7
  <2> HIDE DEF row
  <2> QED
    BY <1>13, <2>1, <2>2 DEF Serving
<1>14. CASE pc' = [pc EXCEPT ![r] = "ok"] /\ due' = due \cup {r} /\ lost' = lost
  <2>1. \A s \in Request \ {r} : ServingOf(s)' = ServingOf(s)
    BY <1>12, <1>14 DEF SInv, SagaAccounts, TypeOK
  <2>2. pc'[r] # "idle" /\ At(r)' = "committed"
    BY <1>14 DEF SInv, SagaAccounts, TypeOK, At, Working
  <2>3. Unheard' = Unheard
    BY <1>2, <1>14 DEF Unheard
  <2> HIDE DEF row
  <2> QED
    BY <1>6, <1>11, <1>13, <2>1, <2>2, <2>3 DEF News!Change
<1>15. CASE pc' = [pc EXCEPT ![r] = "failed"] /\ due' = due /\ lost' = lost \cup {Len(log) + 1}
  <2>1. \A s \in Request \ {r} : ServingOf(s)' = ServingOf(s)
    BY <1>12, <1>15 DEF SInv, SagaAccounts, TypeOK
  <2>2. pc'[r] # "idle" /\ At(r)' = "failed"
    BY <1>15 DEF SInv, SagaAccounts, TypeOK, At, Working
  <2>3. Unheard' = Unheard \cup {Len(log) + 1}
    BY <1>2, <1>15 DEF Unheard
  <2> HIDE DEF row
  <2> QED
    BY <1>6, <1>11, <1>13, <2>1, <2>2, <2>3 DEF News!ChangeUnconfirmed
<1> QED
  BY <1>14, <1>15 DEF Commits


\* A call that has come in differs, to the events, only in where it is and in its change.
LEMMA ServedBefore ==
  ASSUME NEW r \in Request, pc[r] # "idle"
  PROVE  \E w : /\ Serving[r] = ServedAs(r, At(r), w, change[r])
                /\ change[r] # 0 => w = log[change[r]].row
                /\ (pc'[r] # "idle" /\ UNCHANGED <<call, log, change>>) =>
                     ServingOf(r)' = ServedAs(r, At(r)', w, change[r])
<1>1. PICK w : w = IF change[r] = 0 THEN NoRow ELSE log[change[r]].row
  OBVIOUS
<1>2. Serving[r] = ServedAs(r, At(r), w, change[r])
  BY <1>1 DEF Serving, ServingOf, ServedAs, CallerOf
<1>3. ASSUME pc'[r] # "idle", UNCHANGED <<call, log, change>>
      PROVE  ServingOf(r)' = ServedAs(r, At(r)', w, change[r])
  BY <1>1, <1>3 DEF ServingOf, ServedAs, CallerOf
<1> QED
  BY <1>1, <1>2, <1>3

\* Where a call is changes one field of what the events see.
LEMMA ServedMoves ==
  ASSUME NEW r, NEW p, NEW q, NEW w, NEW n
  PROVE  ServedAs(r, q, w, n) = [ServedAs(r, p, w, n) EXCEPT !.at = q]
  BY DEF ServedAs

\* A goroutine is started with the event that the call's row and statuses make.
LEMMA SpawnSimulation ==
  ASSUME SInv, NEW r \in Request, Spawn(r)
  PROVE  News!Spawn(r)
<1>1. /\ r \in due /\ due' = due \ {r} /\ outbox' = outbox \cup {EventOf(r)}
      /\ UNCHANGED <<pc, call, orders, log, change, told, lost>>
  BY DEF Spawn, vars
<1>2. /\ pc[r] = "ok" /\ change[r] # 0 /\ Tells(log[change[r]], r)
      /\ call[r].kind \in {"create", "cancel", "update"}
  BY <1>1, NewsFacts, EventSays DEF SInv, ChangeAccounts, ChangeAccounted
<1>3. At(r) = "committed" /\ At(r)' = "ok" /\ pc[r] # "idle" /\ pc'[r] # "idle"
  BY <1>1, <1>2 DEF At, Working
<1>4. PICK w : /\ Serving[r] = ServedAs(r, "committed", w, change[r])
               /\ w = log[change[r]].row
               /\ ServingOf(r)' = ServedAs(r, "ok", w, change[r])
  BY <1>1, <1>2, <1>3, ServedBefore
<1>5. ServingOf(r)' = [Serving[r] EXCEPT !.at = "ok"]
  BY <1>4, ServedMoves
<1>6. \A s \in Request \ {r} : ServingOf(s)' = ServingOf(s)
  <2> SUFFICES ASSUME NEW s \in Request \ {r} PROVE ServingOf(s)' = ServingOf(s)
    OBVIOUS
  <2>1. At(s)' = At(s)
    BY <1>1 DEF At
  <2> QED
    BY <1>1, <2>1, ServingKept
<1>7. Serving' = [Serving EXCEPT ![r].at = "ok"]
  BY <1>5, <1>6 DEF Serving
<1>8. News!EventOf(Serving[r]) = EventOf(r)
  <2>1. /\ Serving[r].kind = call[r].kind /\ Serving[r].order = call[r].order
        /\ Serving[r].to = call[r].to /\ Serving[r].row = log[change[r]].row
        /\ Serving[r].change = change[r]
    BY <1>4 DEF ServedAs
  <2>2. News!TypeOf(call[r].kind) = TypeOf(call[r].kind)
    BY <1>2 DEF News!TypeOf, TypeOf
  <2>3. call[r].kind = "update" => log[change[r]].row.status = call[r].to
    BY <1>2 DEF Tells
  <2> QED
    BY <2>1, <2>2, <2>3 DEF News!EventOf, EventOf
<1>9. UNCHANGED <<Shown, Unheard, NoEmails>>
  BY <1>1 DEF Shown, Unheard, NoEmails, Header
<1>10. Serving[r].at = "committed"
  BY <1>4 DEF ServedAs
<1> QED
  BY <1>1, <1>7, <1>8, <1>9, <1>10 DEF News!Spawn, News!broker

\* Steps that touch neither the calls nor the rows nor the log.
LEMMA ServiceKept ==
  ASSUME UNCHANGED <<pc, call, orders, log, change, due>>
  PROVE  UNCHANGED <<Shown, Serving, log, NoEmails>>
<1>1. \A s \in Request : ServingOf(s)' = ServingOf(s)
  <2> SUFFICES ASSUME NEW s \in Request PROVE ServingOf(s)' = ServingOf(s)
    OBVIOUS
  <2>1. At(s)' = At(s)
    BY DEF At
  <2> QED
    BY <2>1, ServingKept
<1> QED
  BY <1>1 DEF Serving, Shown, Header, NoEmails

\* A published status change is at once unheard of, as no email worker has ever run.
LEMMA PublishSimulation ==
  ASSUME NEW e \in outbox, Publish(e)
  PROVE  News!Publish(e)
<1>1. /\ outbox' = outbox \ {e} /\ told' = told \cup {e}
      /\ UNCHANGED <<pc, call, orders, log, change, due, lost>>
  BY DEF Publish, vars
<1>2. UNCHANGED <<Shown, Serving, log, NoEmails>>
  BY <1>1, ServiceKept
<1>3. News!Routed(e) = [q \in {"email", "history"} |-> {}]
  BY DEF News!Routed, News!Queue
<1>4. Unheard' = IF News!Bound("email", e) /\ "email" \notin {}
                   THEN Unheard \cup {e.change} ELSE Unheard
  <2>1. News!Bound("email", e) <=> e.type = "order.status"
    BY DEF News!Bound
  <2>2. CASE e.type = "order.status"
    BY <1>1, <2>1, <2>2 DEF Unheard
  <2>3. CASE e.type # "order.status"
    BY <1>1, <2>1, <2>3 DEF Unheard
  <2> QED
    BY <2>2, <2>3
<1> QED
  BY <1>1, <1>2, <1>3, <1>4 DEF News!Publish

\* A publish that fails loses its event.
LEMMA FailureSimulation ==
  ASSUME NEW e \in outbox, PublishFails(e)
  PROVE  News!PublishFails(e)
<1>1. /\ outbox' = outbox \ {e} /\ lost' = lost \cup {e.change}
      /\ UNCHANGED <<pc, call, orders, log, change, due, told>>
  BY DEF PublishFails, vars
<1>2. UNCHANGED <<Shown, Serving, log, NoEmails>>
  BY <1>1, ServiceKept
<1>3. Unheard' = Unheard \cup {e.change}
  BY <1>1 DEF Unheard
<1> QED
  BY <1>1, <1>2, <1>3 DEF News!PublishFails, News!broker

\* A death ends the calls that were changing or had yet to announce their change.
LEMMA CrashSimulation ==
  ASSUME SInv, Crash
  PROVE  News!Crash
<1>1. /\ pc' = [r \in Request |-> IF pc[r] \in Working \/ r \in due THEN "failed" ELSE pc[r]]
      /\ due' = {} /\ outbox' = {}
      /\ lost' = lost \cup {change[r] : r \in due} \cup {e.change : e \in outbox}
      /\ UNCHANGED <<call, orders, log, change, told>>
  BY DEF Crash
<1>2. UNCHANGED <<Shown, NoEmails>>
  BY <1>1 DEF Shown, Header, NoEmails
<1>3. ASSUME NEW r \in Request
      PROVE  /\ ServingOf(r)' = IF Serving[r].at \in {"idle", "ok", "failed"} THEN Serving[r]
                                ELSE [Serving[r] EXCEPT !.at = "failed"]
             /\ Serving[r].at = "committed" <=> r \in due
             /\ r \in due => Serving[r].change = change[r]
  <2>1. r \in due => pc[r] = "ok"
    BY NewsFacts
  <2>2. CASE pc[r] = "idle"
    <3>1. pc'[r] = "idle" /\ r \notin due
      BY <1>1, <2>1, <2>2 DEF Working
    <3>2. ServingOf(r)' = [at |-> "idle"] /\ Serving[r] = [at |-> "idle"]
      BY <2>2, <3>1 DEF ServingOf, Serving
    <3> QED
      BY <3>1, <3>2
  <2>3. CASE pc[r] # "idle"
    <3>1. pc'[r] # "idle"
      BY <1>1, <2>3
    <3>2. PICK w : /\ Serving[r] = ServedAs(r, At(r), w, change[r])
                   /\ ServingOf(r)' = ServedAs(r, At(r)', w, change[r])
      BY <1>1, <2>3, <3>1, ServedBefore
    <3>3. Serving[r].at = At(r) /\ Serving[r].change = change[r]
      BY <3>2 DEF ServedAs
    <3>4. CASE pc[r] \in Working \/ r \in due
      <4>1. At(r)' = "failed" /\ At(r) \in {"changing", "committed"}
        BY <1>1, <2>1, <3>4 DEF At, Working
      <4>2. At(r) = "committed" <=> r \in due
        BY <2>1, <3>4 DEF At, Working
      <4> QED
        BY <3>2, <3>3, <4>1, <4>2, ServedMoves
    <3>5. CASE pc[r] \notin Working /\ r \notin due
      <4>1. pc[r] \in {"ok", "failed"}
        BY <2>3, <3>5 DEF SInv, SagaAccounts, TypeOK, Working, Ended
      <4>2. At(r) = pc[r] /\ At(r)' = pc[r]
        BY <1>1, <3>5, <4>1 DEF At, Working
      <4> QED
        BY <3>2, <3>3, <3>5, <4>1, <4>2
    <3> QED
      BY <3>4, <3>5
  <2> QED
    BY <2>2, <2>3
<1>4. Serving' = [r \in Request |->
        IF Serving[r].at \in {"idle", "ok", "failed"} THEN Serving[r]
        ELSE [Serving[r] EXCEPT !.at = "failed"]]
  BY <1>3 DEF Serving
<1>5. {Serving[r].change : r \in {q \in Request : Serving[q].at = "committed"}} = {change[r] : r \in due}
  <2>1. {q \in Request : Serving[q].at = "committed"} = due
    BY <1>3, NewsFacts
  <2> QED
    BY <1>3, <2>1, NewsFacts
<1>6. Unheard' = Unheard \cup {e.change : e \in outbox}
        \cup {Serving[r].change : r \in {q \in Request : Serving[q].at = "committed"}}
  BY <1>1, <1>5 DEF Unheard
<1>7. "crash" \in {"crash", "publish", "answer"}
  OBVIOUS
<1> QED
  BY <1>1, <1>2, <1>4, <1>6, <1>7 DEF News!Crash, News!broker

\* The initial states map to initial states.
LEMMA InitSimulation == ServiceInit => News!Init
<1> SUFFICES ASSUME ServiceInit PROVE News!Init
  OBVIOUS
<1>1. /\ log = <<>> /\ outbox = {} /\ told = {} /\ lost = {}
      /\ pc = [r \in Request |-> "idle"] /\ orders = [o \in OrderID |-> NoRow]
  BY DEF ServiceInit, Init
<1>2. Shown = [o \in OrderID |-> News!NoRow]
  <2>1. Header(NoRow) = NoRow
    BY DEF Header, NoRow
  <2> QED
    BY <1>1, <2>1, SameTable DEF Shown
<1>3. Serving = [r \in Request |-> News!NoCall]
  BY <1>1 DEF Serving, ServingOf, News!NoCall
<1>4. NoEmails = <<>>
  <2>1. NoEmails \in Seq(Nat) /\ Len(NoEmails) = 0
    BY <1>1 DEF NoEmails
  <2> QED
    BY <2>1
<1>5. Unheard = {}
  BY <1>1 DEF Unheard
<1>6. [w \in {} |-> 0] = [w \in News!Worker |-> News!Nothing]
  BY DEF News!Worker
<1> QED
  BY <1>1, <1>2, <1>3, <1>4, <1>5, <1>6 DEF News!Init, News!Queue

\* What OrderEvents assumes of a call is what the statements, transactions and gRPC calls
\* of the service do: each commits once at most, in what is one step to a reader, and
\* then starts one goroutine, or none after an error or a death.
THEOREM EventsAreImplemented == ServiceSpec => RefinesEvents
<1>1. ServiceInit => News!Init
  BY InitSimulation
<1>2. SInv /\ [ServiceNext]_serviceVars => [News!Next]_(News!vars)
  <2> SUFFICES ASSUME SInv, [ServiceNext]_serviceVars PROVE [News!Next]_(News!vars)
    OBVIOUS
  <2>1. ASSUME NEW r \in Request, Commits(r) \/ Spawn(r) PROVE News!Next
    BY <2>1, CommitSimulation, SpawnSimulation DEF News!Next
  <2>2. ASSUME NEW e \in outbox, Publish(e) \/ PublishFails(e) PROVE News!Next
    BY <2>2, PublishSimulation, FailureSimulation DEF News!Next
  <2>3. Crash => News!Next
    BY CrashSimulation DEF News!Next
  <2> QED
    BY <2>1, <2>2, <2>3, QuietSimulation, ServiceStep DEF SInv, SagaAccounts
<1> QED
  BY <1>1, <1>2, ServiceInvariance, PTL DEF ServiceSpec, RefinesEvents, News!Spec

-----------------------------------------------------------------------------
(***************************************************************************)
(* The service implements what the other modules take for it: the life of  *)
(* an order, and without deaths of the process the saga.                   *)
(***************************************************************************)

\* Committed rows show the life of their order also where the process dies at any
\* point: a step that is no commit shows a reader nothing.
THEOREM ServiceLife == ServiceSpec => RefinesLifecycle
<1>1. ServiceInit => Lifecycle!Init
  BY DEF ServiceInit, Init, Lifecycle!Init, NoRow, Absent
<1>2. SInv /\ [ServiceNext]_serviceVars => [Lifecycle!Next]_(Lifecycle!orderVars)
  <2> SUFFICES ASSUME SInv, [ServiceNext]_serviceVars
               PROVE  [Lifecycle!Next]_(Lifecycle!orderVars)
    OBVIOUS
  <2>1. CASE orders' = orders
    BY <2>1 DEF Lifecycle!orderVars
  <2>2. CASE \E r \in Request : Commits(r)
    <3>1. [Next]_vars
      BY <2>2 DEF Commits
    <3> QED
      BY <3>1, LifecycleSimulation DEF SInv, SagaAccounts
  <2> QED
    BY <2>1, <2>2, RowsOf
<1> QED
  BY <1>1, <1>2, ServiceInvariance, PTL DEF ServiceSpec, RefinesLifecycle, Lifecycle!Spec

\* As long as the process lives, what the methods do after a commit disturbs nothing
\* before it: every theorem about the saga holds of the service.
THEOREM ServiceIsSaga ==
  ASSUME "crash" \notin Losses
  PROVE  ServiceSpec => Spec
<1>1. ServiceInit => Init
  BY DEF ServiceInit
<1>2. SInv /\ [ServiceNext]_serviceVars => [Next]_vars
  <2> SUFFICES ASSUME SInv, [ServiceNext]_serviceVars PROVE [Next]_vars
    OBVIOUS
  <2>1. ~Crash
    BY DEF Crash
  <2>2. ASSUME NEW r \in Request, Spawn(r) PROVE UNCHANGED vars
    BY <2>2 DEF Spawn
  <2>3. ASSUME NEW e \in outbox, Publish(e) \/ PublishFails(e) PROVE UNCHANGED vars
    BY <2>3 DEF Publish, PublishFails
  <2> QED
    BY <2>1, <2>2, <2>3, ServiceStep DEF SInv, SagaAccounts, Quiet, Commits
<1> QED
  BY <1>1, <1>2, ServiceInvariance, PTL DEF ServiceSpec, Spec

\* In particular no unit is sold twice while its creation or cancellation is announced.
COROLLARY ServiceNeverOversells ==
  ASSUME "crash" \notin Losses, "cancel" \notin Faults
  PROVE  ServiceSpec => []NeverOversold
  BY ServiceIsSaga, NothingOversold
=============================================================================
