---------------------------- MODULE OrderEvents -----------------------------
(***************************************************************************)
(* The events of internal/messaging: a service method that has changed an  *)
(* order starts a goroutine, the goroutine publishes one event to the      *)
(* exchange "order.events", and two worker processes (cmd/worker) consume  *)
(* status changes, each from the queue it declares when it first starts.   *)
(*                                                                         *)
(* A change is committed in one step here (its transaction is OrderSaga).  *)
(* Between the commit and the goroutine, between the goroutine and the     *)
(* broker, and between the delivery and its acknowledgement a process may  *)
(* die.                                                                    *)
(***************************************************************************)
EXTENDS OrderTable, Sequences, FiniteSets

CONSTANTS
  OrderID,
  Request,        \* the calls of the service, each once (bounds the model)
  EmailWorker,    \* the goroutines of the email worker
  HistoryWorker,  \* the goroutines of the history worker
  AdminStatus,    \* the statuses UpdateOrderStatus is called with
  Faults,         \* what may go wrong in the web process
  MaxDeaths       \* how often the worker processes die (bounds the model)

ASSUME WorkersAssumption == EmailWorker \cap HistoryWorker = {}
ASSUME EventUserAssumption == NoUser \notin User
ASSUME EventAdminAssumption == AdminStatus \subseteq (OrderStatus \cup EventStatus)
ASSUME EventFaultsAssumption == Faults \subseteq {"crash", "publish", "answer"}
ASSUME DeathsAssumption == MaxDeaths \in Nat

VARIABLES
  rows,      \* the committed rows
  serving,   \* where each call is, and the row its statement made
  outbox,    \* goroutines that have yet to publish their event
  declared,  \* the queues the broker knows
  queue,     \* the events of each queue that no worker has been handed
  held,      \* the event each worker has not acknowledged yet
  log,       \* history: the committed changes
  told,      \* history: the events the broker has accepted
  lost,      \* history: the changes whose event is gone for good
  emails,    \* history: how many emails told of each change
  deaths     \* how often a worker process has died, or lost its connection

vars == <<rows, serving, outbox, declared, queue, held, log, told, lost, emails, deaths>>

-----------------------------------------------------------------------------
Queue == {"email", "history"}   \* order.email.notifications, order.user.history
Worker == EmailWorker \cup HistoryWorker
QueueOf(w) == IF w \in EmailWorker THEN "email" ELSE "history"

Mark == {"markPaid", "markShipped", "markDelivered"}
Kind == {"create", "cancel", "update"} \cup Mark

\* The status a MarkOrderAs... method asks for, and the one it sets.
Required(kind) ==
  CASE kind = "markPaid" -> "pending"
    [] kind = "markShipped" -> "paid"
    [] kind = "markDelivered" -> "shipped"
Target(kind) ==
  CASE kind = "markPaid" -> "paid"
    [] kind = "markShipped" -> "shipped"
    [] kind = "markDelivered" -> "delivered"

\* The event each method publishes.
TypeOf(kind) ==
  CASE kind = "create" -> "order.created"
    [] kind = "cancel" -> "order.cancelled"
    [] kind = "update" -> "order.status"
    [] OTHER -> Target(kind)

Nothing == [change |-> 0, sent |-> FALSE]   \* a worker without an event
NoCall == [at |-> "idle"]

\* The event of a call: the change it made, and what the closure captured.
\* status is new_status, or original_status of a cancellation: of the row that
\* CancelOrder RETURNING gave.
EventOf(c) ==
  [change |-> c.change, type |-> TypeOf(c.kind), order |-> c.order, user |-> c.row.user,
   status |-> IF c.kind = "update" THEN c.to ELSE c.row.status]

\* Mutants: the email queue is bound like the other; both are bound to all.
BoundPaidAndDelivered(q, e) == e.type = "order.status" /\ e.status \in {"paid", "delivered"}
BoundAlike(q, e) == e.type = "order.status"

\* The routing key of a status change is "order.status." and the status: the
\* email queue is bound to all of them, the other to two.
Bound(q, e) ==
  /\ e.type = "order.status"
  /\ q = "history" => e.status \in {"paid", "delivered"}

Init ==
  /\ rows = [o \in OrderID |-> NoRow]
  /\ serving = [r \in Request |-> NoCall]
  /\ outbox = {}
  /\ declared = {}
  /\ queue = [q \in Queue |-> {}]
  /\ held = [w \in Worker |-> Nothing]
  /\ log = <<>>
  /\ told = {} /\ lost = {}
  /\ emails = <<>>
  /\ deaths = 0

-----------------------------------------------------------------------------
(***************************************************************************)
(* The service.                                                            *)
(***************************************************************************)
broker == <<declared, queue, held, told, deaths>>

\* A call comes in; only existing orders have an id to call with, and a new
\* order gets an id no other call has.
Arrive(r, kind, o, u, s) ==
  /\ serving[r] = NoCall
  /\ IF kind = "create"
       THEN rows[o] = NoRow /\ \A q \in Request : serving[q] # NoCall => serving[q].order # o
       ELSE rows[o] # NoRow
  /\ serving' = [serving EXCEPT ![r] =
       [at |-> IF kind \in Mark THEN "checking" ELSE "changing", kind |-> kind, order |-> o,
        user |-> u, to |-> IF kind \in Mark THEN Target(kind) ELSE s,
        row |-> NoRow, change |-> 0]]
  /\ UNCHANGED <<rows, outbox, log, lost, emails, broker>>

\* MarkOrderAs... reads the order and compares its status, long before it
\* updates it.
MarkCheck(r) ==
  LET c == serving[r] IN
  /\ c.at = "checking"
  /\ serving' = [serving EXCEPT ![r].at =
       IF rows[c.order].status = Required(c.kind) THEN "changing" ELSE "failed"]
  /\ UNCHANGED <<rows, outbox, log, lost, emails, broker>>

\* Whether the statement of a call matches its row, and the row it makes.
Matches(c) ==
  CASE c.kind = "create" -> TRUE
    [] c.kind = "cancel" -> Cancellable(rows[c.order], c.user)
    [] OTHER -> Updatable(rows[c.order], c.to)
Made(c) ==
  CASE c.kind = "create" -> InsertedRow(c.user, NoItems)
    [] c.kind = "cancel" -> CancelledRow(rows[c.order])
    [] OTHER -> UpdatedRow(rows[c.order], c.to)

\* The change is committed, and the row it made is on its way to the call.
CommitChange(r) ==
  LET c == serving[r] IN
  /\ c.at = "changing" /\ Matches(c)
  /\ rows' = [rows EXCEPT ![c.order] = Made(c)]
  /\ log' = Append(log, [kind |-> c.kind, order |-> c.order,
                         from |-> rows[c.order].status, row |-> Made(c)])
  /\ emails' = Append(emails, 0)
  /\ UNCHANGED <<outbox, broker>>

Change(r) ==
  /\ CommitChange(r)
  /\ serving' = [serving EXCEPT ![r].at = "committed", ![r].row = Made(serving[r]),
                                ![r].change = Len(log) + 1]
  /\ UNCHANGED lost

\* Mutant: the goroutine is started before the error of the commit is looked at.
ChangeUnconfirmedTold(r) ==
  /\ "answer" \in Faults
  /\ serving[r].at = "changing" /\ Matches(serving[r])
  /\ LET c == [serving[r] EXCEPT !.at = "failed", !.row = Made(serving[r]), !.change = Len(log) + 1] IN
     /\ rows' = [rows EXCEPT ![c.order] = c.row]
     /\ log' = Append(log, [kind |-> c.kind, order |-> c.order,
                            from |-> rows[c.order].status, row |-> c.row])
     /\ emails' = Append(emails, 0)
     /\ serving' = [serving EXCEPT ![r] = c]
     /\ outbox' = outbox \cup {EventOf(c)}
  /\ UNCHANGED <<lost, broker>>

\* The connection is lost before the answer: the method returns the error and
\* starts no goroutine.
ChangeUnconfirmed(r) ==
  /\ "answer" \in Faults
  /\ CommitChange(r)
  /\ serving' = [serving EXCEPT ![r].at = "failed", ![r].row = Made(serving[r]),
                                ![r].change = Len(log) + 1]
  /\ lost' = lost \cup {Len(log) + 1}

\* The statement matches no row, a gRPC call fails, the client leaves.
TurnAway(r) ==
  /\ serving[r].at = "changing"
  /\ serving' = [serving EXCEPT ![r].at = "failed"]
  /\ UNCHANGED <<rows, outbox, log, lost, emails, broker>>

\* Mutant: the goroutine is started before the change is made.
SpawnEarly(r) ==
  /\ serving[r].at = "changing"
  /\ serving' = [serving EXCEPT ![r].at = "ok"]
  /\ outbox' = outbox \cup
       {EventOf([serving[r] EXCEPT !.change = Len(log) + 1, !.row = Made(serving[r])])}
  /\ UNCHANGED <<rows, log, lost, emails, broker>>

\* The goroutine is started and the method returns.
Spawn(r) ==
  /\ serving[r].at = "committed"
  /\ serving' = [serving EXCEPT ![r].at = "ok"]
  /\ outbox' = outbox \cup {EventOf(serving[r])}
  /\ UNCHANGED <<rows, log, lost, emails, broker>>

\* The queues as the exchange leaves them when e arrives.
Routed(e) ==
  [q \in Queue |-> IF q \in declared /\ Bound(q, e) THEN queue[q] \cup {e} ELSE queue[q]]

\* Mutant: the goroutine publishes again what it has published.
PublishAgain(e) ==
  /\ e \in outbox
  /\ told' = told \cup {e}
  /\ queue' = Routed(e)
  /\ UNCHANGED <<rows, serving, outbox, declared, held, log, lost, emails, deaths>>

\* The goroutine publishes.  The message is not mandatory: a status change that
\* comes before the email worker has ever run reaches no queue.
Publish(e) ==
  /\ e \in outbox
  /\ outbox' = outbox \ {e}
  /\ told' = told \cup {e}
  /\ queue' = Routed(e)
  /\ lost' = IF Bound("email", e) /\ "email" \notin declared
                THEN lost \cup {e.change} ELSE lost
  /\ UNCHANGED <<rows, serving, declared, held, log, emails, deaths>>

\* An error of Publish is only logged.  (Cancellations and MarkOrderAs... give it five
\* seconds; creations and updates publish without a deadline.)
PublishFails(e) ==
  /\ "publish" \in Faults /\ e \in outbox
  /\ outbox' = outbox \ {e}
  /\ lost' = lost \cup {e.change}
  /\ UNCHANGED <<rows, serving, log, emails, broker>>

\* The web process dies, and with it its calls and its goroutines.
Crash ==
  /\ "crash" \in Faults
  /\ serving' = [r \in Request |->
       IF serving[r].at \in {"idle", "ok", "failed"} THEN serving[r]
       ELSE [serving[r] EXCEPT !.at = "failed"]]
  /\ outbox' = {}
  /\ lost' = lost \cup {e.change : e \in outbox}
       \cup {serving[r].change : r \in {q \in Request : serving[q].at = "committed"}}
  /\ UNCHANGED <<rows, log, emails, broker>>

-----------------------------------------------------------------------------
(***************************************************************************)
(* The worker processes.  Both run the consumer of an external library     *)
(* with options that differ in the queue and in the number of goroutines.  *)
(***************************************************************************)
service == <<rows, serving, outbox, log, told, lost>>

\* SetupOrderEmailQueue, SetupOrderHistoryQueue: the queue outlives the process.
Start(q) ==
  /\ q \notin declared
  /\ declared' = declared \cup {q}
  /\ UNCHANGED <<service, queue, held, emails, deaths>>

\* Mutant: what is delivered counts as acknowledged.
AutoAckOn == TRUE

\* The option of both consumers.
AutoAck == FALSE

Deliver(w, e) ==
  /\ held[w] = Nothing /\ e \in queue[QueueOf(w)]
  /\ queue' = [queue EXCEPT ![QueueOf(w)] = @ \ {e}]
  /\ held' = [held EXCEPT ![w] = [change |-> e.change, event |-> e, sent |-> FALSE]]
  /\ UNCHANGED <<service, declared, emails, deaths>>

\* SendOrderStatusEmail or UpdateUserOrderHistory; neither ever fails.
Handle(w) ==
  /\ held[w] # Nothing /\ ~held[w].sent
  /\ emails' = IF w \in EmailWorker THEN [emails EXCEPT ![held[w].change] = @ + 1] ELSE emails
  /\ held' = [held EXCEPT ![w].sent = TRUE]
  /\ UNCHANGED <<service, declared, queue, deaths>>

\* The handler has returned nil: the message is acknowledged.
Ack(w) ==
  /\ held[w].sent
  /\ held' = [held EXCEPT ![w] = Nothing]
  /\ UNCHANGED <<service, declared, queue, emails, deaths>>

\* What the workers of q have not acknowledged.
Unacknowledged(q) ==
  {held[w].event : w \in {v \in Worker : QueueOf(v) = q /\ held[v] # Nothing}}

\* A worker process dies, loses its connection to the broker, or is told to stop (it
\* does not wait for its handlers); what it has not acknowledged is queued again.
WorkerDies(q) ==
  /\ deaths < MaxDeaths /\ q \in declared
  /\ queue' = IF AutoAck THEN queue ELSE [queue EXCEPT ![q] = @ \cup Unacknowledged(q)]
  /\ held' = [w \in Worker |-> IF QueueOf(w) = q THEN Nothing ELSE held[w]]
  /\ deaths' = deaths + 1
  /\ UNCHANGED <<service, declared, emails>>

-----------------------------------------------------------------------------
Call(r) ==
  \E kind \in Kind, o \in OrderID, u \in User :
    \E s \in IF kind = "update" THEN AdminStatus ELSE {Absent} : Arrive(r, kind, o, u, s)

Work(w) == Handle(w) \/ Ack(w) \/ \E e \in queue[QueueOf(w)] : Deliver(w, e)

Next ==
  \/ \E r \in Request :
       \/ Call(r) \/ MarkCheck(r) \/ TurnAway(r)
       \/ Change(r) \/ ChangeUnconfirmed(r) \/ Spawn(r)
  \/ \E e \in outbox : Publish(e) \/ PublishFails(e)
  \/ Crash
  \/ \E w \in Worker : Work(w)
  \/ \E q \in Queue : Start(q) \/ WorkerDies(q)

Spec == Init /\ [][Next]_vars

\* The goroutines of both processes run and give up or succeed, and the broker
\* delivers.
FairSpec ==
  /\ Spec
  /\ \A r \in Request : WF_vars(Spawn(r))
  /\ WF_vars(\E e \in outbox : Publish(e) \/ PublishFails(e))
  /\ \A w \in Worker : WF_vars(Work(w))

-----------------------------------------------------------------------------
(***************************************************************************)
(* Properties.                                                             *)
(***************************************************************************)
Status == OrderStatus \cup EventStatus
Event == [change: Nat \ {0}, order: OrderID, user: User, status: Status,
          type: {TypeOf(kind) : kind \in Kind}]
CallRecord ==
  [at: {"checking", "changing", "committed", "ok", "failed"}, kind: Kind, order: OrderID,
   user: User, to: AdminStatus \cup EventStatus \cup {Absent}, row: Row,
   change: Nat]
LogEntry == [kind: Kind, order: OrderID, from: OrderStatus \cup {Absent}, row: Row]
Delivery == [change: Nat \ {0}, event: Event, sent: BOOLEAN]

\* Every variable has its type; in particular no row ever holds a status that is
\* not a label of the database enum.
TypeOK ==
  /\ rows \in [OrderID -> Row]
  /\ DOMAIN serving = Request
  /\ \A r \in Request : serving[r] = NoCall \/ serving[r] \in CallRecord
  /\ outbox \subseteq Event
  /\ declared \subseteq Queue
  /\ DOMAIN queue = Queue
  /\ \A q \in Queue : queue[q] \subseteq Event
  /\ DOMAIN held = Worker
  /\ \A w \in Worker :
       held[w] = Nothing \/ (held[w] \in Delivery /\ held[w].change = held[w].event.change)
  /\ log \in Seq(LogEntry)
  /\ told \subseteq Event
  /\ lost \subseteq 1 .. Len(log)
  /\ emails \in Seq(Nat) /\ Len(emails) = Len(log)
  /\ deaths \in 0 .. MaxDeaths

\* Nobody is ever told of a change that was not made: every event, on its way or
\* accepted by the broker, belongs to a committed change and names its order, its
\* owner and the status it left.
EventsTellCommitted ==
  \A e \in outbox \cup told :
    /\ e.change <= Len(log)
    /\ LET c == log[e.change] IN
       /\ e.type = TypeOf(c.kind) /\ e.order = c.order /\ e.user = c.row.user
       /\ e.status = c.row.status

\* A refund is announced at most once for an order, however many clients cancel
\* it, only for an order that is cancelled for good, and only for one that nobody
\* had moved on from PENDING_PAYMENT.
RefundedAtMostOnce ==
  \A e \in outbox \cup told : e.type = "order.cancelled" =>
    /\ rows[e.order].status = "CANCELED"
    /\ log[e.change].from = "PENDING_PAYMENT"
    /\ \A f \in outbox \cup told :
         (f.type = "order.cancelled" /\ f.order = e.order) => f = e

Emailed(n) == n \in DOMAIN emails /\ emails[n] > 0

\* Where the news of change n is: with a call that has to start its goroutine, with
\* a goroutine, in the email queue, with an email worker, or nowhere any more.
Places(n) ==
  {<<"call", r>> : r \in {q \in Request : serving[q].at = "committed" /\ serving[q].change = n}}
    \cup {<<"outbox", e>> : e \in {f \in outbox : f.change = n}}
    \cup {<<"queue", e>> : e \in {f \in queue["email"] : f.change = n}}
    \cup {<<"worker", w>> : w \in {v \in EmailWorker : held[v].change = n}}
    \cup {<<"lost", m>> : m \in lost \cap {n}}

\* The news of a status change is at one place at a time, and leaves the last one
\* only when an email was sent: a dying worker loses nothing, and what is lost was
\* lost before it reached the queue, so nobody has heard of it.
NewsAccounted ==
  \A n \in 1 .. Len(log) : log[n].kind = "update" =>
    /\ \A p, q \in Places(n) : p = q
    /\ Places(n) = {} => Emailed(n)
    /\ n \in lost => emails[n] = 0

\* No change is told twice by email unless a worker process died in between.
RepeatedOnlyByDeath == \A n \in 1 .. Len(emails) : emails[n] <= 1 + deaths

\* A call that was answered with an error says nothing to anybody, although its
\* change may have been committed: then its news is lost.
FailedCallsAreSilent ==
  \A r \in Request : (serving[r].at = "failed" /\ serving[r].change # 0) =>
    /\ serving[r].change \in lost
    /\ \A e \in outbox \cup told : e.change # serving[r].change

\* The history worker, bound to two statuses that no row can take, is never
\* handed an event, whatever UpdateOrderStatus is asked for.
HistoryHearsNothing == queue["history"] = {} /\ \A w \in HistoryWorker : held[w] = Nothing

\* To a reader of rows every change is one step, and events, workers, crashes and
\* lost answers change nothing: they never undo, repeat or redo what was committed.
Lifecycle == INSTANCE OrderLifecycle WITH
  Settable <- AdminStatus \cap OrderStatus,
  status <- [o \in OrderID |-> rows[o].status],
  owner <- [o \in OrderID |-> rows[o].user]
RefinesLifecycle == Lifecycle!Spec

\* The customer hears of every status change, however often the email worker dies,
\* unless its event was lost: with the web process, by an error of the publish or of
\* the commit, or because the email worker had never run.
EveryChangeIsEmailed ==
  \A n \in 1 .. Cardinality(Request) :
    (n <= Len(log) /\ log[n].kind = "update") ~> (Emailed(n) \/ n \in lost)

-----------------------------------------------------------------------------
(***************************************************************************)
(* The inductive invariant behind the safety properties, in named parts.   *)
(***************************************************************************)

\* A placed order has an owner.  A logged change says who was concerned; a logged
\* cancellation found the order waiting and is the last change of its order.
LogAccounts ==
  /\ \A o \in OrderID : rows[o].status # Absent => rows[o].user \in User
  /\ \A n \in 1 .. Len(log) :
       /\ log[n].row.user \in User /\ log[n].row.status \in OrderStatus
       /\ log[n].kind = "cancel" =>
            /\ log[n].from = "PENDING_PAYMENT" /\ log[n].row.status = "CANCELED"
            /\ rows[log[n].order].status = "CANCELED"
  /\ \A m, n \in 1 .. Len(log) :
       (log[m].kind = "cancel" /\ log[n].kind = "cancel" /\ log[m].order = log[n].order) => m = n

\* A call makes one change at most and no two calls the same; a call that creates an
\* order is the only one that knows its id; what a call has yet to announce has
\* neither been announced nor lost.
CallAccounts ==
  \A r \in Request : LET c == serving[r] IN
    /\ (c.at = "changing" /\ c.kind = "create") =>
         /\ rows[c.order] = NoRow
         /\ \A q \in Request \ {r} : serving[q].at = "idle" \/ serving[q].order # c.order
    /\ c.at = "checking" => c.kind \in Mark
    /\ c.at \in {"checking", "changing"} => c.change = 0
    /\ c.at \in {"committed", "ok"} => c.change # 0
    /\ (c.at # "idle" /\ c.change # 0) =>
         /\ c.change <= Len(log)
         /\ log[c.change].kind = c.kind /\ log[c.change].order = c.order
         /\ log[c.change].row = c.row /\ (c.kind = "update" => c.to = c.row.status)
         /\ \A q \in Request \ {r} : serving[q].at = "idle" \/ serving[q].change # c.change
    /\ c.at = "committed" =>
         /\ c.change \notin lost
         /\ \A e \in outbox \cup told : e.change # c.change

\* A goroutine publishes its event once; what is queued or in the hands of a worker
\* was accepted by the broker and is bound to that queue.
EventAccounts ==
  /\ \A e \in outbox : e \notin told /\ e.change \notin lost
  /\ \A q \in Queue : \A e \in queue[q] : e \in told /\ Bound(q, e)
  /\ \A w \in Worker : held[w] # Nothing =>
       held[w].event \in told /\ Bound(QueueOf(w), held[w].event)

\* Which email worker, if any, has the news of change n; whether it is anywhere.
HeldBy(w, n) == w \in EmailWorker /\ held[w].change = n
Queued(n) == \E e \in queue["email"] : e.change = n
Early(n) ==
  \/ \E r \in Request : serving[r].at = "committed" /\ serving[r].change = n
  \/ \E e \in outbox : e.change = n
  \/ n \in lost

\* News is emailed only from a worker that holds it, once per delivery, and a change
\* whose news has not reached the queue, or never will, has not been emailed.
NewsOf(n) ==
  /\ log[n].kind # "update" => emails[n] = 0
  /\ emails[n] <= 1 + deaths
  /\ Early(n) => emails[n] = 0
  /\ Queued(n) => n \notin lost /\ emails[n] <= deaths /\ \A w \in Worker : ~HeldBy(w, n)
  /\ \A w \in Worker : HeldBy(w, n) =>
       /\ n \notin lost
       /\ IF held[w].sent THEN emails[n] > 0 ELSE emails[n] <= deaths
       /\ \A v \in Worker : HeldBy(v, n) => v = w
  /\ log[n].kind = "update" =>
       Early(n) \/ Queued(n) \/ emails[n] > 0 \/ \E w \in Worker : HeldBy(w, n)
NewsKept == \A n \in 1 .. Len(log) : NewsOf(n)

EInv ==
  /\ TypeOK /\ EventsTellCommitted
  /\ LogAccounts /\ CallAccounts /\ EventAccounts /\ NewsKept
  /\ FailedCallsAreSilent

-----------------------------------------------------------------------------
(***************************************************************************)
(* What comments say of the events, and the code does not do.              *)
(***************************************************************************)

\* original_status of a cancellation is the "status before cancellation".
CancelEventTellsOriginal ==
  \A e \in told : e.type = "order.cancelled" => e.status = log[e.change].from

\* MarkOrderAsPaid: the "order must be pending to be marked as paid", and an
\* order that waits for its payment is.
PendingOrderCanBePaid ==
  [][\A r \in Request :
       (/\ MarkCheck(r)
        /\ serving[r].kind = "markPaid"
        /\ rows[serving[r].order].status = "PENDING_PAYMENT")
         => serving'[r].at = "changing"]_vars
=============================================================================
