---------------------------- MODULE OrderService ----------------------------
(***************************************************************************)
(* The whole life of a call of internal/services/order_svc.go: OrderSaga   *)
(* up to the commit, and then what the method does once its change is      *)
(* visible, which is to start a goroutine that publishes one event.  The   *)
(* web process may die at any point, between two statements of one call    *)
(* and between the commit and the publish of another.                      *)
(*                                                                         *)
(* No worker has run yet here: what becomes of an event after the broker   *)
(* has accepted it is OrderEvents.                                         *)
(***************************************************************************)
EXTENDS OrderSaga, Sequences

CONSTANT Losses   \* what may go wrong after a commit: "crash", "publish"

ASSUME LossesAssumption == Losses \subseteq {"crash", "publish"}

VARIABLES
  log,      \* history: the committed changes
  change,   \* history: the change each request has committed; 0 if none
  due,      \* requests that have yet to start their goroutine
  outbox,   \* goroutines that have yet to publish their event
  told,     \* history: the events the broker has accepted
  lost      \* history: the changes whose event never got there

news == <<log, change, due, outbox, told, lost>>
serviceVars == <<vars, news>>

-----------------------------------------------------------------------------
\* An order without its items, which no event carries.
Header(row) == [row EXCEPT !.items = NoItems]

TypeOf(kind) ==
  CASE kind = "create" -> "order.created"
    [] kind = "cancel" -> "order.cancelled"
    [] OTHER -> "order.status"

\* The event of a request, from the row its statement returned.
EventOf(r) ==
  LET row == log[change[r]].row IN
  [change |-> change[r], type |-> TypeOf(call[r].kind), order |-> call[r].order,
   user |-> row.user, status |-> row.status]

ServiceInit ==
  /\ Init
  /\ log = <<>>
  /\ change = [r \in Request |-> 0]
  /\ due = {} /\ outbox = {} /\ told = {} /\ lost = {}

\* The change r makes in this step, as the database keeps it.
Record(r) ==
  LET o == call[r].order IN
  /\ log' = Append(log, [kind |-> call[r].kind, order |-> o,
                         from |-> orders[o].status, row |-> Header(orders'[o])])
  /\ change' = [change EXCEPT ![r] = Len(log) + 1]
  /\ UNCHANGED <<outbox, told>>

\* The statement that commits is answered: the method goes on.
Answered(r) ==
  /\ Record(r)
  /\ due' = due \cup {r}
  /\ UNCHANGED lost

\* Its answer is lost: the method returns the error, and its change goes untold.
Unanswered(r) ==
  /\ Record(r)
  /\ lost' = lost \cup {Len(log) + 1}
  /\ UNCHANGED due

-----------------------------------------------------------------------------
CommitStep(r) == Commit(r) /\ Answered(r)

\* Mutant: the method goes on after the error of the commit.
CommitUnconfirmedGoesOn(r) == CommitUnconfirmed(r) /\ Answered(r)

CommitUnconfirmedStep(r) == CommitUnconfirmed(r) /\ Unanswered(r)

\* Mutant: a status change starts no goroutine.
UpdateStepSilent(r) ==
  /\ UpdateRow(r)
  /\ IF ~Updatable(orders[call[r].order], call[r].to) THEN UNCHANGED news
     ELSE Record(r) /\ UNCHANGED <<due, lost>>

UpdateStep(r) ==
  /\ UpdateRow(r)
  /\ IF ~Updatable(orders[call[r].order], call[r].to) THEN UNCHANGED news
     ELSE IF pc'[r] = "ok" THEN Answered(r) ELSE Unanswered(r)

\* Mutant: the goroutine is started before the gRPC call and the commit.
SpawnBeforeCommit(r) ==
  /\ pc[r] = "increasing"
  /\ call[r].order \notin {e.order : e \in outbox}
  /\ outbox' = outbox \cup
       {[change |-> Len(log) + 1, type |-> "order.cancelled", order |-> call[r].order,
         user |-> call[r].user, status |-> "CANCELED"]}
  /\ UNCHANGED <<vars, log, change, due, told, lost>>

\* The goroutine is started and the method returns.
Spawn(r) ==
  /\ r \in due
  /\ due' = due \ {r}
  /\ outbox' = outbox \cup {EventOf(r)}
  /\ UNCHANGED <<vars, log, change, told, lost>>

Publish(e) ==
  /\ e \in outbox
  /\ outbox' = outbox \ {e}
  /\ told' = told \cup {e}
  /\ UNCHANGED <<vars, log, change, due, lost>>

PublishFails(e) ==
  /\ "publish" \in Losses /\ e \in outbox
  /\ outbox' = outbox \ {e}
  /\ lost' = lost \cup {e.change}
  /\ UNCHANGED <<vars, log, change, due, told>>

\* The web process dies with everything it was doing: its transactions are rolled
\* back, the catalog goes on with the calls it was sent, and nothing is recovered.
Crash ==
  /\ "crash" \in Losses
  /\ pc' = [r \in Request |-> IF pc[r] \in Working \/ r \in due THEN "failed" ELSE pc[r]]
  /\ due' = {} /\ outbox' = {}
  /\ lost' = lost \cup {change[r] : r \in due} \cup {e.change : e \in outbox}
  /\ UNCHANGED <<call, rpc, orders, stock, ledger, log, change, told>>

-----------------------------------------------------------------------------
\* Steps of OrderSaga that commit nothing.
Silent(r) ==
  /\ \/ Arrive(r) \/ TurnAway(r) \/ Catalog(r) \/ BreakOff(r) \/ IncreaseTimesOut(r)
     \/ CreateBegin(r) \/ DecreaseReturns(r)
     \/ CancelBegin(r) \/ CancelRow(r) \/ IncreaseReturns(r)
     \/ UpdateBegin(r)
  /\ UNCHANGED news

Committing(r) == CommitStep(r) \/ CommitUnconfirmedStep(r) \/ UpdateStep(r)

ServiceNext ==
  \/ \E r \in Request : Silent(r) \/ Committing(r) \/ Spawn(r)
  \/ \E e \in outbox : Publish(e) \/ PublishFails(e)
  \/ Crash
  \/ Idle /\ UNCHANGED news

ServiceSpec == ServiceInit /\ [][ServiceNext]_serviceVars

\* The goroutines of the process run, until it dies; nothing is asked of the
\* catalog, whose call only the deadline of a cancellation ends.
FairServiceSpec ==
  /\ ServiceSpec
  /\ \A r \in Request :
       /\ WF_serviceVars(Handler(r) /\ (Silent(r) \/ Committing(r)))
       /\ WF_serviceVars(IncreaseTimesOut(r) /\ Silent(r))
       /\ WF_serviceVars(Spawn(r))
  /\ WF_serviceVars(\E e \in outbox : Publish(e) \/ PublishFails(e))

-----------------------------------------------------------------------------
(***************************************************************************)
(* Properties.                                                             *)
(***************************************************************************)
Events == outbox \cup told
Event == [change: Nat \ {0}, type: {TypeOf(k) : k \in {"create", "cancel", "update"}}, order: OrderID,
          user: User, status: OrderStatus]

\* Every variable has its type, those of OrderSaga included.
ServiceTypeOK ==
  /\ TypeOK
  /\ \A n \in 1 .. Len(log) :
       log[n] \in [kind: {"create", "cancel", "update"}, order: OrderID,
                  from: OrderStatus \cup {Absent}, row: Row]
  /\ change \in [Request -> 0 .. Len(log)]
  /\ due \subseteq Request
  /\ Events \subseteq Event
  /\ lost \subseteq 1 .. Len(log)

\* What is announced has been done, in all the systems it concerns: a created
\* order had its units set aside once and in the quantities it shows; a refund is
\* of an order that is cancelled for good, whose owner asked for it and whose units
\* the catalog has taken back.  Crashes, deadlines and lost answers between the gRPC
\* call, the commit and the goroutine never break this.
AnnouncedIsDone ==
  \A e \in Events :
    /\ e.user = orders[e.order].user
    /\ e.type = "order.created" =>
         ledger[e.order].taken = 1 /\ ledger[e.order].items = orders[e.order].items
    /\ e.type = "order.cancelled" =>
         /\ orders[e.order].status = "CANCELED"
         /\ ledger[e.order].restocked >= 1

\* Where the refund of o stands.
Refunds(o) == {n \in 1 .. Len(log) : log[n].kind = "cancel" /\ log[n].order = o}

\* An order is cancelled exactly if one refund is due for it, and that refund is
\* with the call, with its goroutine, with the broker, or lost, and never twice.
RefundsAccounted ==
  \A o \in OrderID :
    IF orders[o].status # "CANCELED" THEN Refunds(o) = {}
    ELSE \E n \in Refunds(o) :
           /\ Refunds(o) = {n}
           /\ Cardinality({r \in due : change[r] = n})
                + Cardinality({e \in Events : e.change = n})
                + Cardinality({n} \cap lost) = 1

(***************************************************************************)
(* The service implements the service half of OrderEvents: there a         *)
(* transaction is one step, here it is statements, locks and gRPC calls.   *)
(***************************************************************************)
At(r) ==
  CASE pc[r] \in Working -> "changing"
    [] pc[r] = "ok" /\ r \in due -> "committed"
    [] OTHER -> pc[r]

\* An update has no user; OrderEvents does not look at the one it is given.
ServingOf(r) ==
  IF pc[r] = "idle" THEN [at |-> "idle"]
  ELSE [at |-> At(r), kind |-> call[r].kind, order |-> call[r].order,
        user |-> IF call[r].kind = "update" THEN CHOOSE u \in User : TRUE ELSE call[r].user,
        to |-> call[r].to,
        row |-> IF change[r] = 0 THEN NoRow ELSE log[change[r]].row,
        change |-> change[r]]

Shown == [o \in OrderID |-> Header(orders[o])]
Serving == [r \in Request |-> ServingOf(r)]

\* No worker has run, so the news of a status change is lost when the broker has it.
Unheard == lost \cup {e.change : e \in {f \in told : f.type = "order.status"}}
NoEmails == [n \in 1 .. Len(log) |-> 0]

News == INSTANCE OrderEvents WITH
  EmailWorker <- {}, HistoryWorker <- {}, MaxDeaths <- 0,
  Faults <- {"crash", "publish", "answer"},
  rows <- Shown, serving <- Serving, lost <- Unheard, emails <- NoEmails,
  declared <- {}, queue <- [q \in {"email", "history"} |-> {}],
  held <- [w \in {} |-> 0], deaths <- 0

\* What OrderEvents assumes of a call is what a call does: one commit or none, in one
\* step, then one goroutine, and on an error or a death of the process neither.
RefinesEvents == News!Spec

\* Every change is announced in the end, or lost with the process, with the answer of
\* its commit or by a failing publish, whatever the catalog does meanwhile.
ChangesAreAnnounced ==
  \A n \in 1 .. Cardinality(Request) :
    n <= Len(log) ~> (n \in lost \/ \E e \in told : e.change = n)
=============================================================================
