------------------------- MODULE OrderEventsProofs --------------------------
(***************************************************************************)
(* Theorems about OrderEvents, for every set of calls, orders, users and   *)
(* workers, all faults and any number of deaths.                           *)
(***************************************************************************)
EXTENDS OrderEvents, SequenceTheorems, TLAPS

\* The initial state satisfies the inductive invariant.
LEMMA InitEInv == Init => EInv
<1> SUFFICES ASSUME Init PROVE EInv
  OBVIOUS
<1> USE DEF Init
<1>1. TypeOK
  BY EmptySeq, DeathsAssumption DEF TypeOK, Row, NoRow, NoItems, Items, NoCall, Nothing
<1>2. EventsTellCommitted /\ LogAccounts /\ NewsKept
  BY DEF EventsTellCommitted, LogAccounts, NewsKept, NewsOf, NoRow
<1>3. CallAccounts /\ FailedCallsAreSilent
  BY DEF CallAccounts, FailedCallsAreSilent, NoCall
<1>4. EventAccounts
  BY DEF EventAccounts
<1> QED
  BY <1>1, <1>2, <1>3, <1>4 DEF EInv

\* A request that is being served has a whole record.
LEMMA Served ==
  ASSUME TypeOK, NEW r \in Request, serving[r].at # "idle"
  PROVE  serving[r] \in CallRecord
  BY DEF TypeOK, NoCall

\* The row a matching statement makes is whole, and belongs to a user; none makes
\* anything of a cancelled one.
LEMMA MadeRow ==
  ASSUME TypeOK, LogAccounts, CallAccounts, NEW r \in Request,
         serving[r].at = "changing", Matches(serving[r])
  PROVE  LET c == serving[r] IN
         /\ c \in CallRecord
         /\ Made(c) \in Row /\ Made(c).user \in User /\ Made(c).status \in OrderStatus
         /\ rows[c.order].status # "CANCELED"
         /\ c.kind = "update" => c.to = Made(c).status
         /\ c.kind = "cancel" =>
              rows[c.order].status = "PENDING_PAYMENT" /\ Made(c).status = "CANCELED"
<1> DEFINE c == serving[r]
<1>1. c \in CallRecord
  BY Served
<1>2. c.order \in OrderID /\ c.user \in User /\ c.kind \in Kind /\ rows[c.order] \in Row
  BY <1>1 DEF CallRecord, TypeOK
<1>3. rows[c.order].status # Absent => rows[c.order].user \in User
  BY <1>2 DEF LogAccounts
<1>4. CASE c.kind = "create"
  <2>1. Made(c) = InsertedRow(c.user, NoItems) /\ rows[c.order] = NoRow
    BY <1>4 DEF Made, CallAccounts
  <2> QED
    BY <1>1, <1>2, <1>4, <2>1 DEF InsertedRow, NoRow, NoItems, Items, Row, OrderStatus, Absent
<1>5. CASE c.kind = "cancel"
  <2>1. Made(c) = CancelledRow(rows[c.order]) /\ Cancellable(rows[c.order], c.user)
    BY <1>5 DEF Made, Matches
  <2> QED
    BY <1>1, <1>2, <1>3, <1>5, <2>1 DEF CancelledRow, Cancellable, Row, OrderStatus, Absent
<1>6. CASE c.kind \notin {"create", "cancel"}
  <2>1. Made(c) = UpdatedRow(rows[c.order], c.to) /\ Updatable(rows[c.order], c.to)
    BY <1>6 DEF Made, Matches
  <2> QED
    BY <1>1, <1>2, <1>3, <1>6, <2>1 DEF UpdatedRow, Updatable, Row, OrderStatus, Absent
<1> QED
  BY <1>4, <1>5, <1>6

\* The log and the emails after a commit: one entry more.
LEMMA CommitAppends ==
  ASSUME TypeOK, LogAccounts, CallAccounts, NEW r \in Request, CommitChange(r)
  PROVE  /\ log' \in Seq(LogEntry) /\ Len(log') = Len(log) + 1 /\ Len(log) \in Nat
         /\ \A n \in 1 .. Len(log) : log'[n] = log[n]
         /\ log'[Len(log) + 1] =
              [kind |-> serving[r].kind, order |-> serving[r].order,
               from |-> rows[serving[r].order].status, row |-> Made(serving[r])]
         /\ emails' \in Seq(Nat) /\ Len(emails') = Len(emails) + 1
         /\ \A n \in 1 .. Len(log) : emails'[n] = emails[n]
         /\ emails'[Len(log) + 1] = 0
<1> DEFINE c == serving[r]
           entry == [kind |-> c.kind, order |-> c.order, from |-> rows[c.order].status,
                     row |-> Made(c)]
<1>1. c \in CallRecord /\ Made(c) \in Row
  BY MadeRow DEF CommitChange
<1>2. entry \in LogEntry
  BY <1>1 DEF CallRecord, LogEntry, TypeOK, Row
<1>3. log \in Seq(LogEntry) /\ emails \in Seq(Nat) /\ Len(emails) = Len(log)
  BY DEF TypeOK
<1>4. log' = Append(log, entry) /\ emails' = Append(emails, 0)
  BY DEF CommitChange
<1> HIDE DEF entry
<1>5. Len(log) \in Nat
  BY <1>3, LenProperties
<1>6. /\ log' \in Seq(LogEntry) /\ Len(log') = Len(log) + 1
      /\ \A n \in 1 .. Len(log) : log'[n] = log[n]
      /\ log'[Len(log) + 1] = entry
  BY <1>2, <1>3, <1>4, AppendProperties
<1>7. /\ emails' \in Seq(Nat) /\ Len(emails') = Len(emails) + 1
      /\ \A n \in 1 .. Len(emails) : emails'[n] = emails[n]
      /\ emails'[Len(emails) + 1] = 0
  BY <1>3, <1>4, AppendProperties
<1> QED
  BY <1>3, <1>5, <1>6, <1>7 DEF entry

\* What a committed call will say is the change it made.
LEMMA EventOfCall ==
  ASSUME TypeOK, LogAccounts, CallAccounts, NEW r \in Request, serving[r].at = "committed"
  PROVE  LET c == serving[r]
             e == EventOf(c)
         IN  /\ e \in Event /\ e.change = c.change /\ c.change \in 1 .. Len(log)
             /\ e.type = TypeOf(log[e.change].kind) /\ e.order = log[e.change].order
             /\ e.user = log[e.change].row.user /\ e.status = log[e.change].row.status
<1> DEFINE c == serving[r]
           e == EventOf(c)
<1>1. c \in CallRecord /\ c.kind \in Kind /\ c.order \in OrderID /\ c.change \in Nat
  BY Served DEF CallRecord
<1>2. /\ c.change \in 1 .. Len(log) /\ c.change # 0
      /\ log[c.change].kind = c.kind /\ log[c.change].order = c.order
      /\ log[c.change].row = c.row /\ (c.kind = "update" => c.to = c.row.status)
  <2>1. c.change # 0 /\ c.change <= Len(log)
    BY DEF CallAccounts
  <2>2. Len(log) \in Nat
    BY LenProperties DEF TypeOK
  <2>3. c.change \in 1 .. Len(log)
    BY <1>1, <2>1, <2>2
  <2> QED
    BY <2>1, <2>3 DEF CallAccounts
<1>3. c.row.user \in User /\ c.row.status \in OrderStatus
  BY <1>2 DEF LogAccounts
<1>4. e = [change |-> c.change, type |-> TypeOf(c.kind), order |-> c.order,
           user |-> c.row.user, status |-> c.row.status]
  BY <1>2 DEF EventOf
<1>5. e \in Event
  BY <1>1, <1>2, <1>3, <1>4 DEF Event, Status
<1> QED
  BY <1>2, <1>4, <1>5

\* Two events of one change are one event.
LEMMA EventDetermined ==
  ASSUME TypeOK, EventsTellCommitted, NEW e \in outbox \cup told, NEW f \in outbox \cup told,
         e.change = f.change
  PROVE  e = f
<1>1. e \in Event /\ f \in Event
  BY DEF TypeOK
<1>2. /\ e.type = f.type /\ e.order = f.order /\ e.user = f.user /\ e.status = f.status
  BY DEF EventsTellCommitted
<1> QED
  BY <1>1, <1>2 DEF Event

\* Both ways of committing.
LEMMA Committing ==
  ASSUME NEW r \in Request, Change(r) \/ ChangeUnconfirmed(r)
  PROVE  /\ CommitChange(r) /\ serving[r].at = "changing" /\ Matches(serving[r])
         /\ rows' = [rows EXCEPT ![serving[r].order] = Made(serving[r])]
         /\ \E at \in {"committed", "failed"} :
              /\ serving' = [serving EXCEPT ![r].at = at, ![r].row = Made(serving[r]),
                                            ![r].change = Len(log) + 1]
              /\ lost' = IF at = "failed" THEN lost \cup {Len(log) + 1} ELSE lost
         /\ UNCHANGED <<outbox, declared, queue, held, told, deaths>>
  BY DEF Change, ChangeUnconfirmed, CommitChange, broker

\* No step leaves the types.
LEMMA TypeStep ==
  ASSUME TypeOK, EventsTellCommitted, LogAccounts, CallAccounts, EventAccounts, [Next]_vars
  PROVE  TypeOK'
<1>0. Len(log) \in Nat /\ Len(log) = Len(emails)
  BY LenProperties DEF TypeOK
<1>1. ASSUME NEW r \in Request, Call(r) PROVE TypeOK'
  <2>1. PICK kind \in Kind, o \in OrderID, u \in User :
          \E s \in IF kind = "update" THEN AdminStatus ELSE {Absent} : Arrive(r, kind, o, u, s)
    BY <1>1 DEF Call
  <2>2. PICK s \in AdminStatus \cup {Absent} : Arrive(r, kind, o, u, s)
    BY <2>1
  <2> DEFINE c == [at |-> IF kind \in Mark THEN "checking" ELSE "changing", kind |-> kind,
                   order |-> o, user |-> u, to |-> IF kind \in Mark THEN Target(kind) ELSE s,
                   row |-> NoRow, change |-> 0]
  <2>3. kind \in Mark => Target(kind) \in EventStatus
    BY DEF Mark, Target, EventStatus
  <2>4. NoRow \in Row
    BY DEF Row, NoRow, NoItems, Items
  <2>5. c \in CallRecord
    BY <2>3, <2>4 DEF CallRecord
  <2>6. serving' = [serving EXCEPT ![r] = c] /\ UNCHANGED <<rows, outbox, log, lost, emails, broker>>
    BY <2>2 DEF Arrive
  <2> HIDE DEF c
  <2> QED
    BY <2>5, <2>6 DEF TypeOK, broker
<1>2. ASSUME NEW r \in Request, MarkCheck(r) \/ TurnAway(r) PROVE TypeOK'
  <2>1. serving[r] \in CallRecord
    BY <1>2, Served DEF MarkCheck, TurnAway
  <2>2. PICK at \in {"changing", "failed"} : serving' = [serving EXCEPT ![r].at = at]
    BY <1>2 DEF MarkCheck, TurnAway
  <2>3. [serving[r] EXCEPT !.at = at] \in CallRecord
    BY <2>1, <2>2 DEF CallRecord
  <2> QED
    BY <1>2, <2>2, <2>3 DEF TypeOK, MarkCheck, TurnAway, broker
<1>3. ASSUME NEW r \in Request, Change(r) \/ ChangeUnconfirmed(r) PROVE TypeOK'
  <2>1. /\ CommitChange(r) /\ serving[r].at = "changing" /\ Matches(serving[r])
        /\ rows' = [rows EXCEPT ![serving[r].order] = Made(serving[r])]
        /\ UNCHANGED <<outbox, declared, queue, held, told, deaths>>
    BY <1>3, Committing
  <2>2. PICK at \in {"committed", "failed"} :
          /\ serving' = [serving EXCEPT ![r].at = at, ![r].row = Made(serving[r]),
                                        ![r].change = Len(log) + 1]
          /\ lost' = IF at = "failed" THEN lost \cup {Len(log) + 1} ELSE lost
    BY <1>3, Committing
  <2>3. serving[r] \in CallRecord /\ Made(serving[r]) \in Row
    BY <2>1, MadeRow
  <2>4. /\ log' \in Seq(LogEntry) /\ Len(log') = Len(log) + 1
        /\ emails' \in Seq(Nat) /\ Len(emails') = Len(log')
    BY <1>0, <2>1, CommitAppends
  <2>5. rows' \in [OrderID -> Row]
    BY <2>1, <2>3 DEF TypeOK
  <2>6. [serving[r] EXCEPT !.at = at, !.row = Made(serving[r]), !.change = Len(log) + 1]
          \in CallRecord
    <3>1. ASSUME NEW c \in CallRecord, NEW made \in Row, NEW n \in Nat
          PROVE  [c EXCEPT !.at = at, !.row = made, !.change = n] \in CallRecord
      BY <2>2 DEF CallRecord
    <3>2. Len(log) + 1 \in Nat
      BY <1>0
    <3> QED
      BY <2>3, <3>1, <3>2, Zenon
  <2>7. DOMAIN serving' = Request /\ \A q \in Request : serving'[q] = NoCall \/ serving'[q] \in CallRecord
    BY <2>2, <2>6 DEF TypeOK
  <2>8. lost' \subseteq 1 .. Len(log')
    BY <1>0, <2>2, <2>4 DEF TypeOK
  <2> QED
    BY <2>1, <2>4, <2>5, <2>7, <2>8 DEF TypeOK
<1>4. ASSUME NEW r \in Request, Spawn(r) PROVE TypeOK'
  <2>1. serving[r] \in CallRecord /\ EventOf(serving[r]) \in Event
    BY <1>4, Served, EventOfCall DEF Spawn
  <2>2. [serving[r] EXCEPT !.at = "ok"] \in CallRecord
    BY <2>1 DEF CallRecord
  <2> QED
    BY <1>4, <2>1, <2>2 DEF TypeOK, Spawn, broker
<1>5. ASSUME NEW e \in outbox, Publish(e) \/ PublishFails(e) PROVE TypeOK'
  <2>1. e \in Event /\ e.change \in 1 .. Len(log)
    BY <1>0 DEF TypeOK, EventsTellCommitted, Event
  <2>2. CASE Publish(e)
    <3>1. queue' = Routed(e)
      BY <2>2 DEF Publish
    <3>2. DOMAIN queue' = Queue /\ \A q \in Queue : queue'[q] \subseteq Event
      BY <2>1, <3>1 DEF TypeOK, Routed
    <3> QED
      BY <2>1, <2>2, <3>2 DEF TypeOK, Publish
  <2>3. CASE PublishFails(e)
    BY <2>1, <2>3 DEF TypeOK, PublishFails, broker
  <2> QED
    BY <1>5, <2>2, <2>3
<1>6. ASSUME Crash PROVE TypeOK'
  <2>1. ASSUME NEW r \in Request PROVE serving'[r] = NoCall \/ serving'[r] \in CallRecord
    <3>1. CASE serving'[r] = serving[r]
      BY <3>1 DEF TypeOK
    <3>2. CASE serving[r].at # "idle" /\ serving'[r] = [serving[r] EXCEPT !.at = "failed"]
      BY <3>2, Served DEF CallRecord
    <3> QED
      BY <1>6, <3>1, <3>2 DEF Crash
  <2>2. lost' \subseteq 1 .. Len(log)
    <3>1. \A r \in Request : serving[r].at = "committed" => serving[r].change \in 1 .. Len(log)
      BY EventOfCall
    <3>2. \A e \in outbox : e.change \in 1 .. Len(log)
      BY <1>0 DEF TypeOK, EventsTellCommitted, Event
    <3> QED
      BY <1>6, <3>1, <3>2 DEF Crash, TypeOK
  <2> QED
    BY <1>6, <2>1, <2>2 DEF TypeOK, Crash, broker
<1>7. ASSUME NEW w \in Worker, Work(w) PROVE TypeOK'
  <2>1. CASE Handle(w)
    <3>1. held[w] \in Delivery /\ held[w].change = held[w].event.change
      BY <2>1 DEF Handle, TypeOK
    <3>2. [held[w] EXCEPT !.sent = TRUE] \in Delivery
      BY <3>1 DEF Delivery
    <3>3. held[w].change \in 1 .. Len(emails)
      <4>1. held[w].event \in told
        BY <2>1 DEF EventAccounts, Handle
      <4> QED
        BY <1>0, <3>1, <4>1 DEF EventsTellCommitted, Delivery
    <3>4. emails[held[w].change] + 1 \in Nat
      BY <3>3, ElementOfSeq DEF TypeOK
    <3>5. emails' \in Seq(Nat) /\ Len(emails') = Len(emails)
      BY <2>1, <3>3, <3>4, ExceptSeq DEF Handle, TypeOK
    <3> QED
      BY <2>1, <3>1, <3>2, <3>5 DEF TypeOK, Handle, service
  <2>2. CASE Ack(w)
    BY <2>2 DEF TypeOK, Ack, service
  <2>3. ASSUME NEW e \in queue[QueueOf(w)], Deliver(w, e) PROVE TypeOK'
    <3>1. e \in Event
      BY DEF TypeOK, QueueOf, Queue
    <3>2. [change |-> e.change, event |-> e, sent |-> FALSE] \in Delivery
      BY <3>1 DEF Delivery, Event
    <3> QED
      BY <2>3, <3>2 DEF TypeOK, Deliver, service
  <2> QED
    BY <1>7, <2>1, <2>2, <2>3 DEF Work
<1>8. ASSUME NEW q \in Queue, Start(q) PROVE TypeOK'
  BY <1>8 DEF TypeOK, Start, service
<1>9. ASSUME NEW q \in Queue, WorkerDies(q) PROVE TypeOK'
  <2>1. Unacknowledged(q) \subseteq Event
    BY DEF TypeOK, Unacknowledged, Delivery
  <2>2. deaths' \in 0 .. MaxDeaths
    BY <1>9, DeathsAssumption DEF TypeOK, WorkerDies
  <2>3. DOMAIN queue' = Queue /\ \A p \in Queue : queue'[p] \subseteq Event
    BY <1>9, <2>1 DEF TypeOK, WorkerDies
  <2>4. DOMAIN held' = Worker
    BY <1>9 DEF WorkerDies
  <2>5. \A w \in Worker : held'[w] = Nothing \/ held'[w] = held[w]
    BY <1>9 DEF WorkerDies
  <2> QED
    BY <1>9, <2>2, <2>3, <2>4, <2>5 DEF TypeOK, WorkerDies, service
<1>10. CASE UNCHANGED vars
  BY <1>10 DEF TypeOK, vars
<1> QED
  BY <1>1, <1>2, <1>3, <1>4, <1>5, <1>6, <1>7, <1>8, <1>9, <1>10 DEF Next

\* Which steps write the rows and the log.
LEMMA LogWriters ==
  ASSUME [Next]_vars
  PROVE  \/ UNCHANGED <<rows, log>>
         \/ \E r \in Request : Change(r) \/ ChangeUnconfirmed(r)
<1>1. ASSUME NEW r \in Request, Call(r) \/ MarkCheck(r) \/ TurnAway(r) \/ Spawn(r)
      PROVE  UNCHANGED <<rows, log>>
  BY <1>1 DEF Call, Arrive, MarkCheck, TurnAway, Spawn
<1>2. ASSUME NEW e \in outbox, Publish(e) \/ PublishFails(e) PROVE UNCHANGED <<rows, log>>
  BY <1>2 DEF Publish, PublishFails
<1>3. ASSUME NEW w \in Worker, Work(w) PROVE UNCHANGED <<rows, log>>
  BY <1>3 DEF Work, Handle, Ack, Deliver, service
<1>4. ASSUME NEW q \in Queue, Start(q) \/ WorkerDies(q) PROVE UNCHANGED <<rows, log>>
  BY <1>4 DEF Start, WorkerDies, service
<1>5. CASE Crash
  BY <1>5 DEF Crash
<1>6. CASE UNCHANGED vars
  BY <1>6 DEF vars
<1> QED
  BY <1>1, <1>2, <1>3, <1>4, <1>5, <1>6 DEF Next

\* What is logged stays logged.
LEMMA LogGrows ==
  ASSUME TypeOK, LogAccounts, CallAccounts, [Next]_vars
  PROVE  Len(log) \in Nat /\ Len(log') \in Nat /\ Len(log) <= Len(log')
         /\ \A n \in 1 .. Len(log) : log'[n] = log[n]
<1>1. Len(log) \in Nat
  BY LenProperties DEF TypeOK
<1>2. CASE UNCHANGED <<rows, log>>
  BY <1>1, <1>2
<1>3. ASSUME NEW r \in Request, Change(r) \/ ChangeUnconfirmed(r)
      PROVE  Len(log') = Len(log) + 1 /\ \A n \in 1 .. Len(log) : log'[n] = log[n]
  BY <1>3, Committing, CommitAppends
<1> QED
  BY <1>1, <1>2, <1>3, LogWriters

\* Events keep telling what was committed: only a committed call brings a new one.
LEMMA TellStep ==
  ASSUME TypeOK, EventsTellCommitted, LogAccounts, CallAccounts, [Next]_vars
  PROVE  EventsTellCommitted'
<1>0. Len(log) \in Nat /\ Len(log') \in Nat /\ Len(log) <= Len(log')
      /\ \A n \in 1 .. Len(log) : log'[n] = log[n]
  BY LogGrows
<1>1. SUFFICES ASSUME NEW e \in outbox' \cup told'
               PROVE  /\ e.change \in 1 .. Len(log)
                      /\ e.type = TypeOf(log[e.change].kind) /\ e.order = log[e.change].order
                      /\ e.user = log[e.change].row.user /\ e.status = log[e.change].row.status
  <2>1. \A e \in outbox' \cup told' : e.change <= Len(log') /\ log'[e.change] = log[e.change]
    BY <1>0, <1>1
  <2> QED
    BY <1>1, <2>1 DEF EventsTellCommitted
<1>2. CASE e \in outbox \cup told
  <2>1. e \in Event
    BY <1>2 DEF TypeOK
  <2>2. e.change \in 1 .. Len(log)
    BY <1>0, <1>2, <2>1 DEF EventsTellCommitted, Event
  <2> QED
    BY <1>2, <2>2 DEF EventsTellCommitted
<1>3. CASE e \notin outbox \cup told
  <2>1. PICK r \in Request : Spawn(r) /\ e = EventOf(serving[r])
    <3>1. ASSUME NEW r \in Request, Call(r) \/ MarkCheck(r) \/ TurnAway(r) PROVE FALSE
      BY <1>3, <3>1 DEF Call, Arrive, MarkCheck, TurnAway, broker
    <3>2. ASSUME NEW r \in Request, Change(r) \/ ChangeUnconfirmed(r) PROVE FALSE
      BY <1>3, <3>2, Committing
    <3>3. ASSUME NEW f \in outbox, Publish(f) \/ PublishFails(f) PROVE FALSE
      BY <1>3, <3>3 DEF Publish, PublishFails, broker
    <3>4. ASSUME NEW w \in Worker, Work(w) PROVE FALSE
      BY <1>3, <3>4 DEF Work, Handle, Ack, Deliver, service
    <3>5. ASSUME NEW q \in Queue, Start(q) \/ WorkerDies(q) PROVE FALSE
      BY <1>3, <3>5 DEF Start, WorkerDies, service
    <3>6. CASE Crash
      BY <1>3, <3>6 DEF Crash, broker
    <3>7. CASE UNCHANGED vars
      BY <1>3, <3>7 DEF vars
    <3>8. ASSUME NEW r \in Request, Spawn(r) PROVE e = EventOf(serving[r])
      BY <1>3, <3>8 DEF Spawn, broker
    <3> QED
      BY <3>1, <3>2, <3>3, <3>4, <3>5, <3>6, <3>7, <3>8 DEF Next
  <2> QED
    BY <2>1, EventOfCall DEF Spawn
<1> QED
  BY <1>2, <1>3

\* The accounts of the log are kept: a commit appends a change of a user, and never
\* touches an order that was cancelled.
LEMMA LogStep ==
  ASSUME TypeOK, LogAccounts, CallAccounts, [Next]_vars
  PROVE  LogAccounts'
<1>1. CASE UNCHANGED <<rows, log>>
  BY <1>1 DEF LogAccounts
<1>2. ASSUME NEW r \in Request, Change(r) \/ ChangeUnconfirmed(r) PROVE LogAccounts'
  <2> DEFINE c == serving[r]
             N == Len(log) + 1
  <2>1. /\ CommitChange(r) /\ c.at = "changing" /\ Matches(c)
        /\ rows' = [rows EXCEPT ![c.order] = Made(c)]
    BY <1>2, Committing
  <2>2. /\ c.order \in OrderID /\ Made(c).user \in User /\ Made(c).status \in OrderStatus
        /\ rows[c.order].status # "CANCELED"
        /\ c.kind = "cancel" =>
             rows[c.order].status = "PENDING_PAYMENT" /\ Made(c).status = "CANCELED"
    <3>1. c.order \in OrderID
      BY <2>1, Served DEF CallRecord
    <3> QED
      BY <2>1, <3>1, MadeRow
  <2>3. /\ Len(log) \in Nat /\ Len(log') = N
        /\ \A n \in 1 .. Len(log) : log'[n] = log[n]
        /\ log'[N].kind = c.kind /\ log'[N].order = c.order
        /\ log'[N].from = rows[c.order].status /\ log'[N].row = Made(c)
    <3>1. /\ Len(log) \in Nat /\ Len(log') = N
          /\ \A n \in 1 .. Len(log) : log'[n] = log[n]
          /\ log'[N] = [kind |-> c.kind, order |-> c.order, from |-> rows[c.order].status,
                        row |-> Made(c)]
      BY <2>1, CommitAppends
    <3> QED
      BY <3>1
  <2>4. /\ rows'[c.order] = Made(c)
        /\ \A o \in OrderID : o # c.order => rows'[o] = rows[o]
    BY <2>1, <2>2 DEF TypeOK
  <2>5. \A n \in 1 .. Len(log) : log[n] \in LogEntry
    BY ElementOfSeq DEF TypeOK
  <2>6. \A n \in 1 .. Len(log') : n \in 1 .. Len(log) \/ n = N
    BY <2>3
  <2>7. ASSUME NEW n \in 1 .. Len(log), log[n].kind = "cancel"
        PROVE  log[n].order # c.order /\ log[n].order \in OrderID
    <3>1. log[n].order \in OrderID
      BY <2>5 DEF LogEntry
    <3>2. rows[log[n].order].status = "CANCELED"
      BY <2>7 DEF LogAccounts
    <3> QED
      BY <2>2, <3>1, <3>2
  <2> HIDE DEF c, N
  <2>8. \A o \in OrderID : rows'[o].status # Absent => rows'[o].user \in User
    BY <2>2, <2>4 DEF LogAccounts
  <2>9. ASSUME NEW n \in 1 .. Len(log')
        PROVE  /\ log'[n].row.user \in User /\ log'[n].row.status \in OrderStatus
               /\ log'[n].kind = "cancel" =>
                    /\ log'[n].from = "PENDING_PAYMENT" /\ log'[n].row.status = "CANCELED"
                    /\ rows'[log'[n].order].status = "CANCELED"
    <3>1. CASE n \in 1 .. Len(log)
      BY <2>3, <2>4, <2>7, <3>1 DEF LogAccounts
    <3>2. CASE n = N
      BY <2>2, <2>3, <2>4, <3>2
    <3> QED
      BY <2>6, <3>1, <3>2
  <2>10. ASSUME NEW m \in 1 .. Len(log'), NEW n \in 1 .. Len(log'),
                log'[m].kind = "cancel", log'[n].kind = "cancel", log'[m].order = log'[n].order
         PROVE  m = n
    BY <2>3, <2>6, <2>7, <2>10 DEF LogAccounts
  <2> QED
    BY <2>8, <2>9, <2>10 DEF LogAccounts
<1> QED
  BY <1>1, <1>2, LogWriters

\* A call that has not come in is the only one without an order.
LEMMA NotServed ==
  ASSUME TypeOK, NEW r \in Request
  PROVE  serving[r] = NoCall <=> serving[r].at = "idle"
  BY DEF TypeOK, NoCall, CallRecord

\* A call knows a change only once it is committed, and events tell of committed
\* changes only.
LEMMA ChangesKnown ==
  ASSUME TypeOK, EventsTellCommitted, CallAccounts
  PROVE  /\ Len(log) \in Nat
         /\ \A e \in outbox \cup told : e.change \in 1 .. Len(log)
         /\ \A r \in Request : serving[r].at # "idle" =>
              serving[r].change = 0 \/ serving[r].change \in 1 .. Len(log)
<1>1. Len(log) \in Nat
  BY LenProperties DEF TypeOK
<1>2. \A e \in outbox \cup told : e.change \in 1 .. Len(log)
  BY <1>1 DEF TypeOK, EventsTellCommitted, Event
<1>3. ASSUME NEW r \in Request, serving[r].at # "idle", serving[r].change # 0
      PROVE  serving[r].change \in 1 .. Len(log)
  <2>1. serving[r].change \in Nat
    BY <1>3, Served DEF CallRecord
  <2>2. serving[r].change <= Len(log)
    BY <1>3 DEF CallAccounts
  <2> QED
    BY <1>1, <1>3, <2>1, <2>2
<1> QED
  BY <1>1, <1>2, <1>3

\* The accounts of the calls are kept.
LEMMA CallStep ==
  ASSUME TypeOK, EventsTellCommitted, LogAccounts, CallAccounts, [Next]_vars
  PROVE  CallAccounts'
<1>0. /\ Len(log) \in Nat
      /\ \A e \in outbox \cup told : e.change \in 1 .. Len(log)
      /\ \A r \in Request : serving[r].at # "idle" =>
           serving[r].change = 0 \/ serving[r].change \in 1 .. Len(log)
  BY ChangesKnown
<1>d. DOMAIN serving = Request /\ DOMAIN rows = OrderID
  BY DEF TypeOK
<1>1. ASSUME NEW r \in Request, Call(r) PROVE CallAccounts'
  <2>1. PICK kind \in Kind, o \in OrderID, u \in User :
          \E s \in IF kind = "update" THEN AdminStatus ELSE {Absent} : Arrive(r, kind, o, u, s)
    BY <1>1 DEF Call
  <2>2. PICK s : Arrive(r, kind, o, u, s)
    BY <2>1
  <2> DEFINE c == [at |-> IF kind \in Mark THEN "checking" ELSE "changing", kind |-> kind,
                   order |-> o, user |-> u, to |-> IF kind \in Mark THEN Target(kind) ELSE s,
                   row |-> NoRow, change |-> 0]
  <2>3. /\ serving[r].at = "idle" /\ serving' = [serving EXCEPT ![r] = c]
        /\ UNCHANGED <<rows, outbox, log, lost, told>>
    BY <2>2, NotServed DEF Arrive, broker
  <2>4. /\ c.kind = kind /\ c.order = o /\ c.change = 0 /\ c.at \in {"checking", "changing"}
        /\ c.at = "checking" => kind \in Mark
        /\ c.at # "idle" /\ c.at # "committed" /\ c.at # "ok"
    OBVIOUS
  <2>5. IF kind = "create"
          THEN rows[o] = NoRow /\ \A q \in Request : serving[q].at # "idle" => serving[q].order # o
          ELSE rows[o] # NoRow
    BY <2>2, NotServed DEF Arrive
  <2> HIDE DEF c
  <2>6. /\ serving'[r] = c
        /\ \A q \in Request : q # r => serving'[q] = serving[q]
    BY <1>d, <2>3
  <2>7. ASSUME NEW q \in Request, q # r, serving[q].at = "changing", serving[q].kind = "create"
        PROVE  serving[q].order # o
    BY <2>5, <2>7 DEF CallAccounts
  <2> QED
    BY <1>0, <2>3, <2>4, <2>5, <2>6, <2>7 DEF CallAccounts
<1>2. ASSUME NEW r \in Request, MarkCheck(r) \/ TurnAway(r) PROVE CallAccounts'
  <2>1. PICK at \in {"changing", "failed"} :
          /\ serving' = [serving EXCEPT ![r].at = at]
          /\ serving[r].at \in {"checking", "changing"}
          /\ at = "changing" => serving[r].at = "checking"
    BY <1>2 DEF MarkCheck, TurnAway
  <2>2. serving[r] \in CallRecord
    BY <2>1, Served
  <2>3. /\ serving'[r].at = at /\ serving'[r].kind = serving[r].kind
        /\ serving'[r].order = serving[r].order /\ serving'[r].change = serving[r].change
        /\ serving[r].change = 0
        /\ at = "changing" => serving[r].kind \in Mark
        /\ \A q \in Request : q # r => serving'[q] = serving[q]
    BY <1>d, <2>1, <2>2 DEF CallAccounts, CallRecord
  <2>4. UNCHANGED <<rows, outbox, log, lost, told>>
    BY <1>2 DEF MarkCheck, TurnAway, broker
  <2> QED
    BY <1>0, <2>1, <2>3, <2>4 DEF CallAccounts, Mark
<1>3. ASSUME NEW r \in Request, Change(r) \/ ChangeUnconfirmed(r) PROVE CallAccounts'
  <2> DEFINE c == serving[r]
             N == Len(log) + 1
  <2>1. /\ CommitChange(r) /\ c.at = "changing" /\ Matches(c)
        /\ rows' = [rows EXCEPT ![c.order] = Made(c)]
        /\ UNCHANGED <<outbox, told>>
    BY <1>3, Committing
  <2>2. PICK at \in {"committed", "failed"} :
          /\ serving' = [serving EXCEPT ![r].at = at, ![r].row = Made(c), ![r].change = N]
          /\ lost' = IF at = "failed" THEN lost \cup {N} ELSE lost
    BY <1>3, Committing
  <2>3. c \in CallRecord /\ c.order \in OrderID
    BY <2>1, Served DEF CallRecord
  <2>4. c.kind = "update" => c.to = Made(c).status
    BY <2>1, MadeRow
  <2>5. /\ Len(log') = N /\ \A n \in 1 .. Len(log) : log'[n] = log[n]
        /\ log'[N] = [kind |-> c.kind, order |-> c.order, from |-> rows[c.order].status,
                      row |-> Made(c)]
    BY <2>1, CommitAppends
  <2>6. /\ serving'[r].at = at /\ serving'[r].kind = c.kind /\ serving'[r].order = c.order
        /\ serving'[r].to = c.to /\ serving'[r].row = Made(c) /\ serving'[r].change = N
        /\ \A q \in Request : q # r => serving'[q] = serving[q]
    BY <1>d, <2>2, <2>3 DEF CallRecord
  <2>7. ASSUME NEW q \in Request, q # r, serving[q].at = "changing", serving[q].kind = "create"
        PROVE  rows'[serving[q].order] = NoRow
    <3>1. c.order # serving[q].order
      BY <2>1, <2>7 DEF CallAccounts
    <3> QED
      BY <2>1, <2>7, <3>1 DEF CallAccounts
  <2>8. /\ log'[N].kind = c.kind /\ log'[N].order = c.order /\ log'[N].row = Made(c)
        /\ N \notin lost /\ N # 0 /\ N \notin 1 .. Len(log)
    BY <1>0, <2>5 DEF TypeOK
  <2>9. ASSUME NEW q \in Request, q # r, serving[q].at # "idle", serving[q].change # 0
        PROVE  /\ serving[q].change <= Len(log') /\ serving[q].change # N
               /\ log'[serving[q].change] = log[serving[q].change]
    BY <1>0, <2>5, <2>9
  <2> HIDE DEF N
  <2>10. ASSUME NEW q \in Request, q # r
         PROVE  /\ (serving[q].at = "changing" /\ serving[q].kind = "create") =>
                     /\ rows'[serving[q].order] = NoRow
                     /\ \A p \in Request \ {q} : serving'[p].at = "idle" \/ serving'[p].order # serving[q].order
                /\ serving[q].at = "checking" => serving[q].kind \in Mark
                /\ serving[q].at \in {"checking", "changing"} => serving[q].change = 0
                /\ serving[q].at \in {"committed", "ok"} => serving[q].change # 0
                /\ (serving[q].at # "idle" /\ serving[q].change # 0) =>
                     /\ serving[q].change <= Len(log')
                     /\ log'[serving[q].change].kind = serving[q].kind
                     /\ log'[serving[q].change].order = serving[q].order
                     /\ log'[serving[q].change].row = serving[q].row
                     /\ (serving[q].kind = "update" => serving[q].to = serving[q].row.status)
                     /\ \A p \in Request \ {q} :
                          serving'[p].at = "idle" \/ serving'[p].change # serving[q].change
                /\ serving[q].at = "committed" =>
                     /\ serving[q].change \notin lost'
                     /\ \A e \in outbox \cup told : e.change # serving[q].change
    <3>1. c.at = "changing" /\ serving'[r].at # "idle"
      BY <2>1, <2>2, <2>6
    <3>2. ASSUME serving[q].at = "changing", serving[q].kind = "create"
          PROVE  /\ rows'[serving[q].order] = NoRow
                 /\ \A p \in Request \ {q} : serving'[p].at = "idle" \/ serving'[p].order # serving[q].order
      BY <2>6, <2>7, <2>10, <3>1, <3>2 DEF CallAccounts
    <3>3. ASSUME serving[q].at # "idle", serving[q].change # 0
          PROVE  \A p \in Request \ {q} :
                   serving'[p].at = "idle" \/ serving'[p].change # serving[q].change
      BY <2>6, <2>9, <2>10, <3>3 DEF CallAccounts
    <3>4. ASSUME serving[q].at # "idle", serving[q].change # 0
          PROVE  /\ serving[q].change <= Len(log')
                 /\ log'[serving[q].change].kind = serving[q].kind
                 /\ log'[serving[q].change].order = serving[q].order
                 /\ log'[serving[q].change].row = serving[q].row
                 /\ (serving[q].kind = "update" => serving[q].to = serving[q].row.status)
      BY <2>9, <2>10, <3>4 DEF CallAccounts
    <3>5. ASSUME serving[q].at = "committed"
          PROVE  /\ serving[q].change \notin lost'
                 /\ \A e \in outbox \cup told : e.change # serving[q].change
      <4>1. serving[q].change # 0 /\ serving[q].change # N /\ serving[q].change \notin lost
        BY <2>9, <2>10, <3>5 DEF CallAccounts
      <4> QED
        BY <2>2, <3>5, <4>1 DEF CallAccounts
    <3> QED
      BY <3>2, <3>3, <3>4, <3>5 DEF CallAccounts
  <2>11. \A p \in Request \ {r} : serving'[p].at = "idle" \/ serving'[p].change # N
    BY <1>0, <2>6, <2>8, <2>9
  <2>12. at = "committed" => N \notin lost' /\ \A e \in outbox \cup told : e.change # N
    BY <1>0, <2>2, <2>8
  <2>13. N <= Len(log')
    BY <1>0, <2>5 DEF N
  <2> QED
    BY <2>1, <2>4, <2>6, <2>8, <2>10, <2>11, <2>12, <2>13 DEF CallAccounts
<1>4. ASSUME NEW r \in Request, Spawn(r) PROVE CallAccounts'
  <2>1. /\ serving[r].at = "committed" /\ serving' = [serving EXCEPT ![r].at = "ok"]
        /\ outbox' = outbox \cup {EventOf(serving[r])} /\ UNCHANGED <<rows, log, lost, told>>
    BY <1>4 DEF Spawn, broker
  <2>2. serving[r] \in CallRecord /\ EventOf(serving[r]).change = serving[r].change
    BY <2>1, Served, EventOfCall
  <2>3. /\ serving'[r].at = "ok" /\ serving'[r].kind = serving[r].kind
        /\ serving'[r].order = serving[r].order /\ serving'[r].change = serving[r].change
        /\ serving'[r].row = serving[r].row /\ serving'[r].to = serving[r].to
        /\ \A q \in Request : q # r => serving'[q] = serving[q]
    BY <1>d, <2>1, <2>2 DEF CallRecord
  <2> QED
    BY <2>1, <2>2, <2>3 DEF CallAccounts
<1>5. ASSUME NEW e \in outbox, Publish(e) \/ PublishFails(e) PROVE CallAccounts'
  <2>1. /\ outbox' \cup told' \subseteq outbox \cup told /\ lost' \subseteq lost \cup {e.change}
        /\ UNCHANGED <<rows, serving, log>>
    BY <1>5 DEF Publish, PublishFails, broker
  <2> QED
    BY <2>1 DEF CallAccounts
<1>6. ASSUME Crash PROVE CallAccounts'
  <2>1. /\ serving' = [r \in Request |->
             IF serving[r].at \in {"idle", "ok", "failed"} THEN serving[r]
             ELSE [serving[r] EXCEPT !.at = "failed"]]
        /\ UNCHANGED <<rows, log, told>>
    BY <1>6 DEF Crash, broker
  <2>2. ASSUME NEW r \in Request
        PROVE  /\ serving'[r].at \in {"idle", "ok", "failed"}
               /\ serving'[r].at = "idle" <=> serving[r].at = "idle"
               /\ serving'[r].at = "ok" <=> serving[r].at = "ok"
               /\ serving[r].at # "idle" =>
                    /\ serving'[r].kind = serving[r].kind /\ serving'[r].order = serving[r].order
                    /\ serving'[r].to = serving[r].to /\ serving'[r].row = serving[r].row
                    /\ serving'[r].change = serving[r].change
    <3>1. CASE serving[r].at \in {"idle", "ok", "failed"}
      BY <2>1, <3>1
    <3>2. CASE serving[r].at \notin {"idle", "ok", "failed"}
      <4>1. serving[r] \in CallRecord /\ serving'[r] = [serving[r] EXCEPT !.at = "failed"]
        BY <2>1, <3>2, Served
      <4> QED
        BY <3>2, <4>1 DEF CallRecord
    <3> QED
      BY <3>1, <3>2
  <2> QED
    BY <2>1, <2>2 DEF CallAccounts
<1>7. ASSUME NEW w \in Worker, Work(w) PROVE CallAccounts'
  BY <1>7 DEF CallAccounts, Work, Handle, Ack, Deliver, service
<1>8. ASSUME NEW q \in Queue, Start(q) \/ WorkerDies(q) PROVE CallAccounts'
  BY <1>8 DEF CallAccounts, Start, WorkerDies, service
<1>9. CASE UNCHANGED vars
  BY <1>9 DEF CallAccounts, vars
<1> QED
  BY <1>1, <1>2, <1>3, <1>4, <1>5, <1>6, <1>7, <1>8, <1>9 DEF Next

\* A failed call stays silent.
LEMMA SilentStep ==
  ASSUME TypeOK, EventsTellCommitted, LogAccounts, CallAccounts, FailedCallsAreSilent, [Next]_vars
  PROVE  FailedCallsAreSilent'
<1>0. /\ Len(log) \in Nat
      /\ \A e \in outbox \cup told : e.change \in 1 .. Len(log)
  BY ChangesKnown
<1>d. DOMAIN serving = Request
  BY DEF TypeOK
<1>1. ASSUME NEW r \in Request, Call(r) PROVE FailedCallsAreSilent'
  <2>1. /\ serving'[r].at # "failed" /\ UNCHANGED <<outbox, told, lost>>
        /\ \A q \in Request : q # r => serving'[q] = serving[q]
    BY <1>1, <1>d DEF Call, Arrive, broker
  <2> QED
    BY <2>1 DEF FailedCallsAreSilent
<1>2. ASSUME NEW r \in Request, MarkCheck(r) \/ TurnAway(r) PROVE FailedCallsAreSilent'
  <2>1. PICK at : /\ serving' = [serving EXCEPT ![r].at = at]
                  /\ serving[r].at \in {"checking", "changing"}
    BY <1>2 DEF MarkCheck, TurnAway
  <2>2. serving[r] \in CallRecord /\ serving[r].change = 0
    BY <2>1, Served DEF CallAccounts
  <2>3. serving'[r].change = 0 /\ \A q \in Request : q # r => serving'[q] = serving[q]
    BY <1>d, <2>1, <2>2 DEF CallRecord
  <2> QED
    BY <1>2, <2>3 DEF FailedCallsAreSilent, MarkCheck, TurnAway, broker
<1>3. ASSUME NEW r \in Request, Change(r) \/ ChangeUnconfirmed(r) PROVE FailedCallsAreSilent'
  <2>1. serving[r].at = "changing" /\ UNCHANGED <<outbox, told>>
    BY <1>3, Committing
  <2>2. PICK at \in {"committed", "failed"} :
          /\ serving' = [serving EXCEPT ![r].at = at, ![r].row = Made(serving[r]),
                                        ![r].change = Len(log) + 1]
          /\ lost' = IF at = "failed" THEN lost \cup {Len(log) + 1} ELSE lost
    BY <1>3, Committing
  <2>3. serving[r] \in CallRecord
    BY <2>1, Served
  <2>4. /\ serving'[r].at = at /\ serving'[r].change = Len(log) + 1
        /\ \A q \in Request : q # r => serving'[q] = serving[q]
    BY <1>d, <2>2, <2>3 DEF CallRecord
  <2>5. \A e \in outbox \cup told : e.change # Len(log) + 1
    BY <1>0
  <2>6. lost \subseteq lost' /\ (at = "failed" => Len(log) + 1 \in lost')
    BY <2>2
  <2>7. ASSUME NEW q \in Request, serving'[q].at = "failed", serving'[q].change # 0
        PROVE  /\ serving'[q].change \in lost'
               /\ \A e \in outbox \cup told : e.change # serving'[q].change
    <3>1. CASE q = r
      BY <2>4, <2>5, <2>6, <2>7, <3>1
    <3>2. CASE q # r
      BY <2>4, <2>6, <2>7, <3>2 DEF FailedCallsAreSilent
    <3> QED
      BY <3>1, <3>2
  <2> QED
    BY <2>1, <2>7 DEF FailedCallsAreSilent
<1>4. ASSUME NEW r \in Request, Spawn(r) PROVE FailedCallsAreSilent'
  <2>1. /\ serving[r].at = "committed" /\ serving' = [serving EXCEPT ![r].at = "ok"]
        /\ outbox' = outbox \cup {EventOf(serving[r])} /\ UNCHANGED <<lost, told>>
    BY <1>4 DEF Spawn, broker
  <2>2. serving[r] \in CallRecord /\ EventOf(serving[r]).change = serving[r].change
    BY <2>1, Served, EventOfCall
  <2>3. serving'[r].at = "ok" /\ \A q \in Request : q # r => serving'[q] = serving[q]
    BY <1>d, <2>1, <2>2 DEF CallRecord
  <2>4. \A q \in Request : (serving[q].at = "failed" /\ serving[q].change # 0) =>
          serving[q].change # serving[r].change
    BY <2>1 DEF CallAccounts
  <2> QED
    BY <2>1, <2>2, <2>3, <2>4 DEF FailedCallsAreSilent
<1>5. ASSUME NEW e \in outbox, Publish(e) \/ PublishFails(e) PROVE FailedCallsAreSilent'
  <2>1. /\ outbox' \cup told' \subseteq outbox \cup told /\ lost \subseteq lost'
        /\ UNCHANGED serving
    BY <1>5 DEF Publish, PublishFails, broker
  <2> QED
    BY <2>1 DEF FailedCallsAreSilent
<1>6. ASSUME Crash PROVE FailedCallsAreSilent'
  <2> SUFFICES ASSUME NEW r \in Request, serving'[r].at = "failed", serving'[r].change # 0
               PROVE  serving'[r].change \in lost' /\ \A e \in told : e.change # serving'[r].change
    BY <1>6 DEF FailedCallsAreSilent, Crash, broker
  <2>1. lost \subseteq lost'
        /\ (serving[r].at = "committed" => serving[r].change \in lost')
    BY <1>6 DEF Crash
  <2>2. CASE serving[r].at = "failed"
    BY <1>6, <2>1, <2>2 DEF Crash, FailedCallsAreSilent
  <2>3. CASE serving[r].at # "failed"
    <3>1. serving'[r] = [serving[r] EXCEPT !.at = "failed"] /\ serving[r].at \notin {"idle", "ok"}
      BY <1>6, <2>3 DEF Crash
    <3>2. serving[r] \in CallRecord
      BY <3>1, Served
    <3>3. serving'[r].change = serving[r].change /\ serving[r].at \in {"checking", "changing", "committed"}
      BY <2>3, <3>1, <3>2 DEF CallRecord
    <3>4. serving[r].at = "committed"
      BY <3>3 DEF CallAccounts
    <3> QED
      BY <2>1, <3>3, <3>4 DEF CallAccounts
  <2> QED
    BY <2>2, <2>3
<1>7. ASSUME NEW w \in Worker, Work(w) PROVE FailedCallsAreSilent'
  BY <1>7 DEF FailedCallsAreSilent, Work, Handle, Ack, Deliver, service
<1>8. ASSUME NEW q \in Queue, Start(q) \/ WorkerDies(q) PROVE FailedCallsAreSilent'
  BY <1>8 DEF FailedCallsAreSilent, Start, WorkerDies, service
<1>9. CASE UNCHANGED vars
  BY <1>9 DEF FailedCallsAreSilent, vars
<1> QED
  BY <1>1, <1>2, <1>3, <1>4, <1>5, <1>6, <1>7, <1>8, <1>9 DEF Next

\* An event is with one goroutine until it is accepted or lost, and then where it is
\* bound to.
LEMMA EventStep ==
  ASSUME TypeOK, EventsTellCommitted, LogAccounts, CallAccounts, EventAccounts, [Next]_vars
  PROVE  EventAccounts'
<1>0. /\ Len(log) \in Nat
      /\ \A e \in outbox \cup told : e.change \in 1 .. Len(log)
  BY ChangesKnown
<1>d. DOMAIN queue = Queue /\ DOMAIN held = Worker
  BY DEF TypeOK
<1>1. ASSUME NEW r \in Request, Call(r) \/ MarkCheck(r) \/ TurnAway(r) PROVE EventAccounts'
  BY <1>1 DEF EventAccounts, Call, Arrive, MarkCheck, TurnAway, broker
<1>2. ASSUME NEW r \in Request, Change(r) \/ ChangeUnconfirmed(r) PROVE EventAccounts'
  <2>1. /\ UNCHANGED <<outbox, queue, held, told>> /\ lost' \subseteq lost \cup {Len(log) + 1}
    BY <1>2, Committing
  <2>2. \A e \in outbox : e.change # Len(log) + 1
    BY <1>0
  <2> QED
    BY <2>1, <2>2 DEF EventAccounts
<1>3. ASSUME NEW r \in Request, Spawn(r) PROVE EventAccounts'
  <2>1. /\ serving[r].at = "committed" /\ outbox' = outbox \cup {EventOf(serving[r])}
        /\ UNCHANGED <<queue, held, told, lost>>
    BY <1>3 DEF Spawn, broker
  <2>2. EventOf(serving[r]).change = serving[r].change
    BY <2>1, EventOfCall
  <2>3. EventOf(serving[r]) \notin told /\ EventOf(serving[r]).change \notin lost
    BY <2>1, <2>2 DEF CallAccounts
  <2> QED
    BY <2>1, <2>3 DEF EventAccounts
<1>4. ASSUME NEW e \in outbox, Publish(e) PROVE EventAccounts'
  <2>1. /\ outbox' = outbox \ {e} /\ told' = told \cup {e} /\ lost' \subseteq lost \cup {e.change}
        /\ held' = held
    BY <1>4 DEF Publish
  <2>2. \A f \in outbox' : f.change # e.change
    BY <2>1, EventDetermined
  <2>3. \A q \in Queue : \A f \in queue'[q] : f \in queue[q] \/ (f = e /\ Bound(q, e))
    BY <1>4 DEF Publish, Routed
  <2> QED
    BY <2>1, <2>2, <2>3 DEF EventAccounts
<1>5. ASSUME NEW e \in outbox, PublishFails(e) PROVE EventAccounts'
  <2>1. /\ outbox' = outbox \ {e} /\ lost' = lost \cup {e.change} /\ UNCHANGED <<queue, held, told>>
    BY <1>5 DEF PublishFails, broker
  <2>2. \A f \in outbox' : f.change # e.change
    BY <2>1, EventDetermined
  <2> QED
    BY <2>1, <2>2 DEF EventAccounts
<1>6. CASE Crash
  BY <1>6 DEF EventAccounts, Crash, broker
<1>7. ASSUME NEW w \in Worker, Handle(w) PROVE EventAccounts'
  <2>1. held[w] \in Delivery
    BY <1>7 DEF TypeOK, Handle
  <2>2. held'[w].event = held[w].event /\ \A v \in Worker : v # w => held'[v] = held[v]
    BY <1>7, <1>d, <2>1 DEF Handle, Delivery
  <2>3. UNCHANGED <<outbox, told, lost, queue>>
    BY <1>7 DEF Handle, service
  <2> QED
    BY <1>7, <2>2, <2>3 DEF EventAccounts, Handle
<1>8. ASSUME NEW w \in Worker, Ack(w) PROVE EventAccounts'
  BY <1>8, <1>d DEF EventAccounts, Ack, service
<1>9. ASSUME NEW w \in Worker, NEW e \in queue[QueueOf(w)], Deliver(w, e) PROVE EventAccounts'
  <2>1. QueueOf(w) \in Queue
    BY DEF QueueOf, Queue
  <2>2. /\ held'[w].event = e /\ \A v \in Worker : v # w => held'[v] = held[v]
        /\ \A q \in Queue : queue'[q] \subseteq queue[q]
    BY <1>9, <1>d, <2>1 DEF Deliver
  <2> QED
    BY <1>9, <2>1, <2>2 DEF EventAccounts, Deliver, service
<1>10. ASSUME NEW q \in Queue, Start(q) PROVE EventAccounts'
  BY <1>10 DEF EventAccounts, Start, service
<1>11. ASSUME NEW q \in Queue, WorkerDies(q) PROVE EventAccounts'
  <2>1. \A e \in Unacknowledged(q) : e \in told /\ Bound(q, e)
    BY DEF Unacknowledged, EventAccounts
  <2>2. \A p \in Queue : \A e \in queue'[p] : e \in queue[p] \/ (p = q /\ e \in Unacknowledged(q))
    BY <1>11, <1>d DEF WorkerDies
  <2>3. \A w \in Worker : held'[w] = Nothing \/ held'[w] = held[w]
    BY <1>11 DEF WorkerDies
  <2>4. UNCHANGED <<outbox, told, lost>>
    BY <1>11 DEF WorkerDies, service
  <2> QED
    BY <2>1, <2>2, <2>3, <2>4 DEF EventAccounts
<1>12. CASE UNCHANGED vars
  BY <1>12 DEF EventAccounts, vars
<1> QED
  BY <1>1, <1>2, <1>3, <1>4, <1>5, <1>6, <1>7, <1>8, <1>9, <1>10, <1>11, <1>12 DEF Next, Work

\* What email workers hold and what is queued for them: status changes that were
\* accepted, and that are with no call and no goroutine any more.
LEMMA LateNews ==
  ASSUME TypeOK, EventsTellCommitted, CallAccounts, EventAccounts,
         NEW n \in Nat \ {0}, Queued(n) \/ \E w \in Worker : HeldBy(w, n)
  PROVE  /\ \E e \in told : e.change = n /\ Bound("email", e)
         /\ log[n].kind = "update"
         /\ \A r \in Request : ~(serving[r].at = "committed" /\ serving[r].change = n)
         /\ \A e \in outbox : e.change # n
<1>1. PICK e \in told : e.change = n /\ Bound("email", e)
  <2>1. CASE Queued(n)
    BY <2>1 DEF Queued, EventAccounts, Queue
  <2>2. ASSUME NEW w \in Worker, HeldBy(w, n) PROVE \E f \in told : f.change = n /\ Bound("email", f)
    <3>1. held[w] # Nothing /\ w \in EmailWorker
      BY <2>2 DEF HeldBy, Nothing
    <3>2. held[w].change = held[w].event.change
      BY <3>1 DEF TypeOK
    <3> QED
      BY <2>2, <3>1, <3>2 DEF EventAccounts, QueueOf, HeldBy
  <2> QED
    BY <2>1, <2>2
<1>2. log[n].kind = "update"
  <2>1. e.type = "order.status" /\ e.type = TypeOf(log[n].kind)
    BY <1>1 DEF Bound, EventsTellCommitted
  <2>2. n \in 1 .. Len(log)
    BY <1>1, ChangesKnown
  <2>3. log[n].kind \in Kind
    <3>1. log[n] \in LogEntry
      BY <2>2, ElementOfSeq DEF TypeOK
    <3> QED
      BY <3>1 DEF LogEntry
  <2> QED
    BY <2>1, <2>3 DEF TypeOf, Kind, Mark, Target
<1>3. \A r \in Request : ~(serving[r].at = "committed" /\ serving[r].change = n)
  BY <1>1 DEF CallAccounts
<1>4. ASSUME NEW f \in outbox, f.change = n PROVE FALSE
  <2>1. f = e
    BY <1>1, <1>4, EventDetermined
  <2> QED
    BY <1>1, <2>1 DEF EventAccounts
<1> QED
  BY <1>1, <1>2, <1>3, <1>4

\* News that nobody touches stays where it is.
LEMMA NewsUntouched ==
  ASSUME NEW n, NewsOf(n), log'[n] = log[n], emails'[n] = emails[n], deaths' = deaths,
         Early(n)' <=> Early(n), Queued(n)' <=> Queued(n), n \in lost' => n \in lost \/ Early(n),
         \A w \in Worker : HeldBy(w, n)' <=> HeldBy(w, n),
         \A w \in Worker : HeldBy(w, n) => held'[w] = held[w],
         (Queued(n) \/ \E w \in Worker : HeldBy(w, n)) => n \notin lost'
  PROVE  NewsOf(n)'
  BY DEF NewsOf

\* The news of every change is kept.
LEMMA NewsStep ==
  ASSUME TypeOK, EventsTellCommitted, LogAccounts, CallAccounts, EventAccounts, NewsKept,
         [Next]_vars
  PROVE  NewsKept'
<1>0. /\ Len(log) \in Nat
      /\ \A e \in outbox \cup told : e.change \in 1 .. Len(log)
      /\ \A r \in Request : serving[r].at # "idle" =>
           serving[r].change = 0 \/ serving[r].change \in 1 .. Len(log)
  BY ChangesKnown
<1>d. DOMAIN serving = Request /\ DOMAIN queue = Queue /\ DOMAIN held = Worker
  BY DEF TypeOK
<1>e. \A n \in 1 .. Len(log) : n \in Nat \ {0} /\ NewsOf(n) /\ emails[n] \in Nat
  BY <1>0, ElementOfSeq DEF NewsKept, TypeOK
<1>f. deaths \in Nat
  BY DeathsAssumption DEF TypeOK
<1>g. ASSUME NEW n \in 1 .. Len(log), Queued(n) \/ \E w \in Worker : HeldBy(w, n)
      PROVE  /\ log[n].kind = "update" /\ n \notin lost /\ ~Early(n)
             /\ \A r \in Request : ~(serving[r].at = "committed" /\ serving[r].change = n)
             /\ \A e \in outbox : e.change # n
  BY <1>e, <1>g, LateNews DEF NewsOf, Early
<1>1. ASSUME NEW r \in Request, Call(r) \/ MarkCheck(r) \/ TurnAway(r) PROVE NewsKept'
  <2>1. /\ UNCHANGED <<log, emails, outbox, lost, queue, held, deaths>>
        /\ serving[r].at # "committed" /\ serving'[r].at # "committed"
        /\ \A q \in Request : q # r => serving'[q] = serving[q]
    <3>1. CASE Call(r)
      BY <3>1, <1>d DEF Call, Arrive, broker, NoCall
    <3>2. CASE MarkCheck(r) \/ TurnAway(r)
      <4>1. PICK at \in {"changing", "failed"} :
              serving' = [serving EXCEPT ![r].at = at] /\ serving[r].at \in {"checking", "changing"}
        BY <3>2 DEF MarkCheck, TurnAway
      <4>2. serving'[r].at = at
        BY <1>d, <4>1, Served DEF CallRecord
      <4> QED
        BY <1>d, <3>2, <4>1, <4>2 DEF MarkCheck, TurnAway, broker
    <3> QED
      BY <1>1, <3>1, <3>2
  <2>2. ASSUME NEW n \in 1 .. Len(log) PROVE NewsOf(n)'
    <3>1. Early(n)' <=> Early(n)
      BY <2>1 DEF Early
    <3> QED
      BY <1>e, <1>g, <2>1, <3>1, NewsUntouched DEF Queued, HeldBy
  <2> QED
    BY <2>1, <2>2 DEF NewsKept
<1>2. ASSUME NEW r \in Request, Change(r) \/ ChangeUnconfirmed(r) PROVE NewsKept'
  <2> DEFINE N == Len(log) + 1
  <2>1. /\ CommitChange(r) /\ serving[r].at = "changing"
        /\ UNCHANGED <<outbox, queue, held, told, deaths>>
    BY <1>2, Committing
  <2>2. PICK at \in {"committed", "failed"} :
          /\ serving' = [serving EXCEPT ![r].at = at, ![r].row = Made(serving[r]),
                                        ![r].change = N]
          /\ lost' = IF at = "failed" THEN lost \cup {N} ELSE lost
    BY <1>2, Committing
  <2>3. /\ serving'[r].at = at /\ serving'[r].change = N
        /\ \A q \in Request : q # r => serving'[q] = serving[q]
    <3>1. serving[r] \in CallRecord
      BY <2>1, Served
    <3> QED
      BY <1>d, <2>2, <3>1 DEF CallRecord
  <2>4. /\ Len(log') = N /\ \A n \in 1 .. Len(log) : log'[n] = log[n] /\ emails'[n] = emails[n]
        /\ emails'[N] = 0
    BY <2>1, CommitAppends
  <2>5. ASSUME NEW n \in 1 .. Len(log) PROVE NewsOf(n)'
    <3>1. n # N /\ (n \in lost' <=> n \in lost)
      BY <1>0, <2>2
    <3>2. Early(n)' <=> Early(n)
      BY <2>1, <2>3, <3>1 DEF Early
    <3>3. (Queued(n)' <=> Queued(n)) /\ \A w \in Worker : HeldBy(w, n)' <=> HeldBy(w, n)
      BY <2>1 DEF Queued, HeldBy
    <3> QED
      BY <1>e, <1>g, <2>1, <2>4, <3>1, <3>2, <3>3, NewsUntouched
  <2>6. ASSUME NEW n \in 1 .. Len(log'), n = N PROVE NewsOf(n)'
    <3>1. Early(n)'
      <4>1. n \in lost' \/ serving'[r].at = "committed"
        BY <2>2, <2>3, <2>6
      <4> QED
        BY <2>3, <2>6, <4>1 DEF Early
    <3>2. ~Queued(n)'
      <4>1. \A e \in queue["email"] : e \in told
        BY DEF EventAccounts, Queue
      <4> QED
        BY <1>0, <2>1, <2>6, <4>1 DEF Queued
    <3>3. \A w \in Worker : ~HeldBy(w, n)'
      <4>1. ASSUME NEW w \in Worker, held[w].change = n PROVE FALSE
        <5>1. held[w] # Nothing
          BY <1>0, <2>6, <4>1 DEF Nothing
        <5>2. held[w].event \in told /\ held[w].change = held[w].event.change
          BY <5>1 DEF EventAccounts, TypeOK
        <5> QED
          BY <1>0, <2>6, <4>1, <5>2
      <4> QED
        BY <2>1, <4>1 DEF HeldBy
    <3> QED
      BY <1>f, <2>1, <2>4, <2>6, <3>1, <3>2, <3>3 DEF NewsOf
  <2>7. \A n \in 1 .. Len(log') : n \in 1 .. Len(log) \/ n = N
    BY <1>0, <2>4
  <2> QED
    BY <2>5, <2>6, <2>7 DEF NewsKept
<1>3. ASSUME NEW r \in Request, Spawn(r) PROVE NewsKept'
  <2>1. /\ serving[r].at = "committed" /\ serving' = [serving EXCEPT ![r].at = "ok"]
        /\ outbox' = outbox \cup {EventOf(serving[r])}
        /\ UNCHANGED <<log, emails, lost, queue, held, deaths>>
    BY <1>3 DEF Spawn, broker
  <2>2. EventOf(serving[r]).change = serving[r].change
    BY <2>1, EventOfCall
  <2>3. /\ serving'[r].at = "ok" /\ \A q \in Request : q # r => serving'[q] = serving[q]
    BY <1>d, <2>1, Served DEF CallRecord
  <2>4. ASSUME NEW n \in 1 .. Len(log) PROVE NewsOf(n)'
    <3>1. Early(n)' <=> Early(n)
      BY <2>1, <2>2, <2>3 DEF Early
    <3> QED
      BY <1>e, <1>g, <2>1, <3>1, NewsUntouched DEF Queued, HeldBy
  <2> QED
    BY <2>1, <2>4 DEF NewsKept
<1>4. ASSUME NEW e \in outbox, Publish(e) \/ PublishFails(e) PROVE NewsKept'
  <2> DEFINE m == e.change
  <2>1. /\ outbox' = outbox \ {e} /\ UNCHANGED <<serving, log, emails, held, deaths>>
        /\ lost \subseteq lost' /\ lost' \subseteq lost \cup {m}
    BY <1>4 DEF Publish, PublishFails, broker
  <2>2. /\ \A f \in outbox' : f.change # m
        /\ m \in 1 .. Len(log) /\ Early(m) /\ e.type = TypeOf(log[m].kind)
    BY <1>0, <2>1, EventDetermined DEF Early, EventsTellCommitted
  <2>3. /\ emails[m] = 0 /\ ~Queued(m) /\ \A w \in Worker : ~HeldBy(w, m)
    BY <1>e, <1>g, <2>2 DEF NewsOf
  <2>4. queue'["email"] = queue["email"] \cup (IF Publish(e) /\ "email" \in declared /\ Bound("email", e)
                                                THEN {e} ELSE {})
        \/ (PublishFails(e) /\ queue' = queue)
    BY <1>4 DEF Publish, PublishFails, Routed, broker, Queue
  <2>5. ASSUME NEW n \in 1 .. Len(log), n # m PROVE NewsOf(n)'
    <3>1. Early(n)' <=> Early(n)
      BY <2>1, <2>5 DEF Early
    <3>2. Queued(n)' <=> Queued(n)
      BY <2>4, <2>5 DEF Queued
    <3> QED
      BY <1>e, <1>g, <2>1, <2>5, <3>1, <3>2, NewsUntouched DEF HeldBy
  <2>6. CASE Publish(e) /\ "email" \in declared /\ Bound("email", e)
    <3>1. queue'["email"] = queue["email"] \cup {e} /\ lost' = lost
      BY <2>6 DEF Publish, Routed, Queue
    <3>2. Queued(m)' /\ m \notin lost'
      BY <3>1 DEF Queued, EventAccounts
    <3>3. NewsOf(m)'
      BY <1>f, <2>1, <2>3, <3>2 DEF NewsOf, HeldBy
    <3> QED
      BY <2>1, <2>5, <3>3 DEF NewsKept
  <2>7. CASE ~(Publish(e) /\ "email" \in declared /\ Bound("email", e))
    <3>1. queue'["email"] = queue["email"]
      BY <2>4, <2>7
    <3>2. ~Queued(m)'
      BY <2>3, <3>1 DEF Queued
    <3>3. log[m].kind = "update" => m \in lost'
      <4>1. CASE PublishFails(e)
        BY <4>1 DEF PublishFails
      <4>2. CASE Publish(e)
        BY <2>2, <2>7, <4>2 DEF Publish, Bound, TypeOf
      <4> QED
        BY <1>4, <4>1, <4>2
    <3>4. NewsOf(m)'
      BY <1>f, <2>1, <2>3, <3>2, <3>3 DEF NewsOf, HeldBy, Early
    <3> QED
      BY <2>1, <2>5, <3>4 DEF NewsKept
  <2> QED
    BY <2>6, <2>7
<1>5. CASE Crash
  <2>1. /\ outbox' = {} /\ UNCHANGED <<log, emails, queue, held, deaths>>
        /\ lost' = lost \cup {e.change : e \in outbox}
             \cup {serving[r].change : r \in {q \in Request : serving[q].at = "committed"}}
    BY <1>5 DEF Crash, broker
  <2>2. \A r \in Request : serving'[r].at # "committed"
    BY <1>5, Served DEF Crash, CallRecord
  <2>3. ASSUME NEW n \in 1 .. Len(log) PROVE NewsOf(n)'
    <3>1. Early(n)' <=> Early(n)
      BY <2>1, <2>2 DEF Early
    <3>2. n \in lost' => Early(n)
      BY <2>1 DEF Early
    <3> QED
      BY <1>e, <1>g, <2>1, <3>1, <3>2, NewsUntouched DEF Queued, HeldBy
  <2> QED
    BY <2>1, <2>3 DEF NewsKept
<1>6. ASSUME NEW w \in Worker, Handle(w) PROVE NewsKept'
  <2> DEFINE m == held[w].change
  <2>1. /\ held[w] # Nothing /\ ~held[w].sent /\ held' = [held EXCEPT ![w].sent = TRUE]
        /\ UNCHANGED <<serving, outbox, log, lost, queue, deaths>>
    BY <1>6 DEF Handle, service
  <2>2. held[w] \in Delivery /\ m = held[w].event.change
    BY <2>1 DEF TypeOK
  <2>3. /\ held'[w].change = m /\ held'[w].sent
        /\ \A v \in Worker : v # w => held'[v] = held[v]
    BY <1>d, <2>1, <2>2 DEF Delivery
  <2>4. m \in 1 .. Len(log)
    BY <1>0, <2>1, <2>2 DEF EventAccounts
  <2>5. \A n : (Early(n)' <=> Early(n)) /\ (Queued(n)' <=> Queued(n))
    BY <2>1 DEF Early, Queued
  <2>6. \A v \in Worker, n \in Nat : HeldBy(v, n)' <=> HeldBy(v, n)
    BY <2>3 DEF HeldBy
  <2>7. CASE w \in EmailWorker
    <3>1. HeldBy(w, m)
      BY <2>7 DEF HeldBy
    <3>2. emails[m] <= deaths /\ ~Queued(m) /\ \A v \in Worker : HeldBy(v, m) => v = w
      BY <1>e, <2>1, <2>4, <3>1 DEF NewsOf
    <3>3. emails'[m] = emails[m] + 1 /\ \A n \in 1 .. Len(log) : n # m => emails'[n] = emails[n]
      <4>1. emails' = [emails EXCEPT ![m] = @ + 1]
        BY <1>6, <2>7 DEF Handle
      <4> QED
        BY <2>4, <4>1, ExceptSeq DEF TypeOK
    <3>4. NewsOf(m)'
      <4>1. log[m].kind = "update" /\ m \notin lost /\ ~Early(m) /\ emails[m] \in Nat
        BY <1>e, <1>g, <2>4, <3>1
      <4>2. emails'[m] <= 1 + deaths /\ emails'[m] > 0
        BY <1>f, <3>2, <3>3, <4>1
      <4> QED
        BY <2>1, <2>3, <2>4, <2>5, <2>6, <3>2, <4>1, <4>2 DEF NewsOf
    <3>5. ASSUME NEW n \in 1 .. Len(log), n # m PROVE NewsOf(n)'
      <4>1. \A v \in Worker : HeldBy(v, n) => held'[v] = held[v]
        BY <2>3, <3>5 DEF HeldBy
      <4> QED
        BY <1>e, <1>g, <2>1, <2>5, <2>6, <3>3, <3>5, <4>1, NewsUntouched
    <3> QED
      BY <2>1, <3>4, <3>5 DEF NewsKept
  <2>8. CASE w \notin EmailWorker
    <3>1. emails' = emails
      BY <1>6, <2>8 DEF Handle
    <3>2. ASSUME NEW n \in 1 .. Len(log) PROVE NewsOf(n)'
      <4>1. \A v \in Worker : HeldBy(v, n) => held'[v] = held[v]
        BY <2>3, <2>8 DEF HeldBy
      <4> QED
        BY <1>e, <1>g, <2>1, <2>5, <2>6, <3>1, <4>1, NewsUntouched
    <3> QED
      BY <2>1, <3>2 DEF NewsKept
  <2> QED
    BY <2>7, <2>8
<1>7. ASSUME NEW w \in Worker, Ack(w) PROVE NewsKept'
  <2>1. /\ held[w].sent /\ held' = [held EXCEPT ![w] = Nothing]
        /\ UNCHANGED <<serving, outbox, log, lost, emails, queue, deaths>>
    BY <1>7 DEF Ack, service
  <2>2. held'[w] = Nothing /\ \A v \in Worker : v # w => held'[v] = held[v]
    BY <1>d, <2>1
  <2>3. ASSUME NEW n \in 1 .. Len(log) PROVE NewsOf(n)'
    <3>1. \A v \in Worker : HeldBy(v, n)' => v # w /\ HeldBy(v, n)
      BY <1>0, <2>2, <2>3 DEF HeldBy, Nothing
    <3>2. HeldBy(w, n) => emails[n] > 0
      BY <1>e, <2>1 DEF NewsOf
    <3>3. \A v \in Worker : HeldBy(v, n) /\ v # w => HeldBy(v, n)'
      BY <2>2 DEF HeldBy
    <3>4. (Early(n)' <=> Early(n)) /\ (Queued(n)' <=> Queued(n))
      BY <2>1 DEF Early, Queued
    <3> QED
      BY <1>e, <2>1, <2>2, <3>1, <3>2, <3>3, <3>4 DEF NewsOf
  <2> QED
    BY <2>1, <2>3 DEF NewsKept
<1>8. ASSUME NEW w \in Worker, NEW e \in queue[QueueOf(w)], Deliver(w, e) PROVE NewsKept'
  <2> DEFINE m == e.change
  <2>1. /\ held[w] = Nothing
        /\ queue' = [queue EXCEPT ![QueueOf(w)] = @ \ {e}]
        /\ held' = [held EXCEPT ![w] = [change |-> m, event |-> e, sent |-> FALSE]]
        /\ UNCHANGED <<serving, outbox, log, lost, emails, deaths>>
    BY <1>8 DEF Deliver, service
  <2>2. /\ held'[w].change = m /\ ~held'[w].sent
        /\ \A v \in Worker : v # w => held'[v] = held[v]
    BY <1>d, <2>1
  <2>3. \A n \in Nat : Early(n)' <=> Early(n)
    BY <2>1 DEF Early
  <2>4. CASE w \in EmailWorker
    <3>1. e \in queue["email"] /\ queue'["email"] = queue["email"] \ {e}
      BY <1>d, <2>1, <2>4 DEF QueueOf, Queue
    <3>2. /\ \A f \in queue["email"] : f \in told
          /\ m \in 1 .. Len(log) /\ Queued(m)
      BY <1>0, <3>1 DEF EventAccounts, Queue, Queued
    <3>3. /\ m \notin lost /\ emails[m] <= deaths /\ (\A v \in Worker : ~HeldBy(v, m))
          /\ log[m].kind = "update" /\ ~Early(m) /\ emails[m] \in Nat
      BY <1>e, <1>g, <3>2 DEF NewsOf
    <3>4. ~Queued(m)'
      BY <3>1, <3>2, EventDetermined DEF Queued
    <3>5. HeldBy(w, m)' /\ \A v \in Worker : v # w => ~HeldBy(v, m)'
      BY <2>2, <2>4, <3>3 DEF HeldBy
    <3>6. NewsOf(m)'
      <4>1. emails[m] <= 1 + deaths
        BY <1>f, <3>3
      <4> QED
        BY <2>1, <2>2, <2>3, <3>2, <3>3, <3>4, <3>5, <4>1 DEF NewsOf
    <3>7. ASSUME NEW n \in 1 .. Len(log), n # m PROVE NewsOf(n)'
      <4>1. Queued(n)' <=> Queued(n)
        BY <3>1, <3>7 DEF Queued
      <4>2. ~HeldBy(w, n) /\ ~HeldBy(w, n)'
        BY <1>0, <2>1, <2>2, <3>7 DEF HeldBy, Nothing
      <4>3. \A v \in Worker : (HeldBy(v, n)' <=> HeldBy(v, n)) /\ (HeldBy(v, n) => held'[v] = held[v])
        BY <2>2, <4>2 DEF HeldBy
      <4> QED
        BY <1>e, <1>g, <2>1, <2>3, <3>7, <4>1, <4>3, NewsUntouched
    <3> QED
      BY <2>1, <3>6, <3>7 DEF NewsKept
  <2>5. CASE w \notin EmailWorker
    <3>1. queue'["email"] = queue["email"]
      BY <1>d, <2>1, <2>5 DEF QueueOf, Queue
    <3>2. ASSUME NEW n \in 1 .. Len(log) PROVE NewsOf(n)'
      <4>1. Queued(n)' <=> Queued(n)
        BY <3>1 DEF Queued
      <4>2. \A v \in Worker : (HeldBy(v, n)' <=> HeldBy(v, n)) /\ (HeldBy(v, n) => held'[v] = held[v])
        BY <2>2, <2>5 DEF HeldBy
      <4> QED
        BY <1>e, <1>g, <2>1, <2>3, <4>1, <4>2, NewsUntouched
    <3> QED
      BY <2>1, <3>2 DEF NewsKept
  <2> QED
    BY <2>4, <2>5
<1>9. ASSUME NEW q \in Queue, Start(q) PROVE NewsKept'
  <2>1. UNCHANGED <<serving, outbox, log, lost, emails, queue, held, deaths>>
    BY <1>9 DEF Start, service
  <2> QED
    BY <2>1 DEF NewsKept, NewsOf, Early, Queued, HeldBy
<1>10. ASSUME NEW q \in Queue, WorkerDies(q) PROVE NewsKept'
  <2>1. /\ queue' = [queue EXCEPT ![q] = @ \cup Unacknowledged(q)]
        /\ held' = [w \in Worker |-> IF QueueOf(w) = q THEN Nothing ELSE held[w]]
        /\ deaths' = deaths + 1
        /\ UNCHANGED <<serving, outbox, log, lost, emails>>
    BY <1>10 DEF WorkerDies, AutoAck, service
  <2>2. \A n \in Nat : Early(n)' <=> Early(n)
    BY <2>1 DEF Early
  <2>3. CASE q = "email"
    <3>1. ASSUME NEW n \in 1 .. Len(log) PROVE NewsOf(n)'
      <4>1. \A w \in Worker : ~HeldBy(w, n)'
        BY <1>0, <2>1, <2>3, <3>1 DEF HeldBy, QueueOf, Nothing
      <4>2. Queued(n)' <=> Queued(n) \/ \E w \in Worker : HeldBy(w, n)
        <5>1. queue'["email"] = queue["email"] \cup Unacknowledged("email")
          BY <1>d, <2>1, <2>3
        <5>2. \A w \in Worker : held[w] # Nothing => held[w].change = held[w].event.change
          BY DEF TypeOK
        <5>3. (\E e \in Unacknowledged("email") : e.change = n) <=> \E w \in Worker : HeldBy(w, n)
          BY <1>e, <5>2 DEF Unacknowledged, HeldBy, QueueOf, Nothing
        <5> QED
          BY <5>1, <5>3 DEF Queued
      <4>3. (Queued(n)' => n \notin lost) /\ emails[n] <= deaths'
        BY <1>e, <1>f, <1>g, <2>1, <4>2 DEF NewsOf
      <4>4. emails[n] <= 1 + deaths'
        BY <1>e, <1>f, <2>1, <4>3
      <4> QED
        BY <1>e, <2>1, <2>2, <4>1, <4>2, <4>3, <4>4 DEF NewsOf
    <3> QED
      BY <2>1, <3>1 DEF NewsKept
  <2>4. CASE q # "email"
    <3>1. queue'["email"] = queue["email"]
      BY <2>1, <2>4
    <3>2. \A w \in Worker : w \in EmailWorker => held'[w] = held[w]
      BY <2>1, <2>4 DEF QueueOf
    <3>3. ASSUME NEW n \in 1 .. Len(log) PROVE NewsOf(n)'
      <4>1. (Queued(n)' <=> Queued(n)) /\ \A w \in Worker : HeldBy(w, n)' <=> HeldBy(w, n)
        BY <3>1, <3>2 DEF Queued, HeldBy
      <4>2. \A w \in Worker : HeldBy(w, n) => held'[w] = held[w]
        BY <3>2 DEF HeldBy
      <4>3. /\ emails[n] <= 1 + deaths => emails[n] <= 1 + deaths'
            /\ emails[n] <= deaths => emails[n] <= deaths'
        BY <1>e, <1>f, <2>1
      <4> QED
        BY <1>e, <2>1, <2>2, <4>1, <4>2, <4>3 DEF NewsOf
    <3> QED
      BY <2>1, <3>3 DEF NewsKept
  <2> QED
    BY <2>3, <2>4
<1>11. CASE UNCHANGED vars
  BY <1>11 DEF NewsKept, NewsOf, Early, Queued, HeldBy, vars
<1> QED
  BY <1>1, <1>2, <1>3, <1>4, <1>5, <1>6, <1>7, <1>8, <1>9, <1>10, <1>11 DEF Next, Work

\* Every step keeps the inductive invariant.
LEMMA StepEInv == EInv /\ [Next]_vars => EInv'
<1> SUFFICES ASSUME EInv, [Next]_vars PROVE EInv'
  OBVIOUS
<1> USE DEF EInv
<1>1. TypeOK'
  BY TypeStep
<1>2. EventsTellCommitted'
  BY TellStep
<1>3. LogAccounts'
  BY LogStep
<1>4. CallAccounts'
  BY CallStep
<1>5. EventAccounts'
  BY EventStep
<1>6. NewsKept'
  BY NewsStep
<1>7. FailedCallsAreSilent'
  BY SilentStep
<1> QED
  BY <1>1, <1>2, <1>3, <1>4, <1>5, <1>6, <1>7

\* The invariant that the safety properties rest on.
THEOREM EInvariance == Spec => []EInv
<1>1. Init => EInv
  BY InitEInv
<1>2. EInv /\ [Next]_vars => EInv'
  BY StepEInv
<1> QED
  BY <1>1, <1>2, PTL DEF Spec

\* Every variable keeps its type.
THEOREM TypeCorrect == Spec => []TypeOK
<1>1. EInv => TypeOK
  BY DEF EInv
<1> QED
  BY <1>1, EInvariance, PTL

\* No event tells of anything but a committed change, whoever dies when.
THEOREM ToldIsCommitted == Spec => []EventsTellCommitted
<1>1. EInv => EventsTellCommitted
  BY DEF EInv
<1> QED
  BY <1>1, EInvariance, PTL

\* A call that was answered with an error has announced nothing.
THEOREM FailureIsSilent == Spec => []FailedCallsAreSilent
<1>1. EInv => FailedCallsAreSilent
  BY DEF EInv
<1> QED
  BY <1>1, EInvariance, PTL

\* A refund is announced once, for an order that is cancelled and was waiting.
THEOREM RefundsOnce == Spec => []RefundedAtMostOnce
<1>1. ASSUME EInv PROVE RefundedAtMostOnce
  <2> USE <1>1 DEF EInv
  <2>1. ASSUME NEW e \in outbox \cup told, e.type = "order.cancelled"
        PROVE  /\ e.change \in 1 .. Len(log) /\ log[e.change].kind = "cancel"
               /\ log[e.change].order = e.order
    <3>1. e.change \in 1 .. Len(log)
      BY ChangesKnown
    <3>2. log[e.change] \in LogEntry
      BY <3>1, ElementOfSeq DEF TypeOK
    <3>3. log[e.change].kind \in Kind /\ TypeOf(log[e.change].kind) = "order.cancelled"
      BY <2>1, <3>2 DEF LogEntry, EventsTellCommitted
    <3>4. log[e.change].kind = "cancel"
      BY <3>3 DEF TypeOf, Kind, Mark, Target
    <3> QED
      BY <3>1, <3>4 DEF EventsTellCommitted
  <2>2. ASSUME NEW e \in outbox \cup told, NEW f \in outbox \cup told,
               e.type = "order.cancelled", f.type = "order.cancelled", f.order = e.order
        PROVE  f = e
    <3>1. e.change = f.change
      BY <2>1, <2>2 DEF LogAccounts
    <3> QED
      BY <3>1, EventDetermined
  <2>3. \A e \in outbox \cup told : e.type = "order.cancelled" =>
          log[e.change].from = "PENDING_PAYMENT" /\ rows[e.order].status = "CANCELED"
    BY <2>1 DEF LogAccounts
  <2> QED
    BY <2>2, <2>3 DEF RefundedAtMostOnce
<1> QED
  BY <1>1, EInvariance, PTL

\* No change is emailed more often than once and once per death of a worker process.
THEOREM RepeatsNeedDeaths == Spec => []RepeatedOnlyByDeath
<1>1. EInv => RepeatedOnlyByDeath
  BY DEF EInv, NewsKept, NewsOf, RepeatedOnlyByDeath, TypeOK
<1> QED
  BY <1>1, EInvariance, PTL

\* The queue of the history worker stays empty: no order takes a status it is bound to.
THEOREM HistoryIsDeaf == Spec => []HistoryHearsNothing
<1>1. ASSUME EInv PROVE HistoryHearsNothing
  <2> USE <1>1 DEF EInv
  <2>1. ASSUME NEW e \in told PROVE ~Bound("history", e)
    <3>1. e.change \in 1 .. Len(log) /\ e.status = log[e.change].row.status
      BY ChangesKnown DEF EventsTellCommitted
    <3>2. e.status \in OrderStatus
      BY <3>1 DEF LogAccounts
    <3> QED
      BY <3>2 DEF Bound, OrderStatus
  <2>2. queue["history"] = {}
    BY <2>1 DEF EventAccounts, Queue
  <2>3. \A w \in HistoryWorker : held[w] = Nothing
    BY <2>1, WorkersAssumption DEF EventAccounts, Worker, QueueOf
  <2> QED
    BY <2>2, <2>3 DEF HistoryHearsNothing
<1> QED
  BY <1>1, EInvariance, PTL

\* Every step is a step of the life of one order, or none of them.
LEMMA EventsLifecycle ==
  ASSUME EInv, [Next]_vars
  PROVE  [Lifecycle!Next]_(Lifecycle!orderVars)
<1> DEFINE status == [o \in OrderID |-> rows[o].status]
           owner == [o \in OrderID |-> rows[o].user]
<1>0. TypeOK /\ LogAccounts /\ CallAccounts
  BY DEF EInv
<1>1. CASE rows' = rows
  BY <1>1 DEF Lifecycle!orderVars
<1>2. CASE rows' # rows
  <2>1. PICK r \in Request : Change(r) \/ ChangeUnconfirmed(r)
    BY <1>2, LogWriters
  <2>2. /\ serving[r].at = "changing" /\ Matches(serving[r])
        /\ rows' = [rows EXCEPT ![serving[r].order] = Made(serving[r])]
    BY <2>1, Committing
  <2>3. serving[r] \in CallRecord
    BY <1>0, <2>2, Served
  <2>4. PICK o \in OrderID, u \in User : o = serving[r].order /\ u = serving[r].user
    BY <2>3 DEF CallRecord
  <2>5. CASE serving[r].kind = "create"
    <3>1. rows[o] = NoRow /\ rows' = [rows EXCEPT ![o] = InsertedRow(u, NoItems)]
      BY <1>0, <2>2, <2>4, <2>5 DEF CallAccounts, Made
    <3>2. status' = [status EXCEPT ![o] = "PENDING_PAYMENT"] /\ owner' = [owner EXCEPT ![o] = u]
      BY <1>0, <3>1 DEF TypeOK, Row, InsertedRow
    <3>3. Lifecycle!Place(o, u)
      BY <3>1, <3>2 DEF Lifecycle!Place, NoRow, Absent
    <3> QED
      BY <3>3 DEF Lifecycle!Next
  <2>6. CASE serving[r].kind = "cancel"
    <3>1. Cancellable(rows[o], u) /\ rows' = [rows EXCEPT ![o].status = "CANCELED"]
      BY <2>2, <2>4, <2>6 DEF Matches, Made, CancelledRow
    <3>2. status' = [status EXCEPT ![o] = "CANCELED"] /\ owner' = owner
      BY <1>0, <3>1 DEF TypeOK, Row
    <3>3. Lifecycle!CancelBy(o, u)
      BY <3>1, <3>2 DEF Lifecycle!CancelBy, Cancellable
    <3> QED
      BY <3>3 DEF Lifecycle!Next
  <2>7. CASE serving[r].kind \notin {"create", "cancel"}
    <3>1. /\ Updatable(rows[o], serving[r].to)
          /\ rows' = [rows EXCEPT ![o].status = serving[r].to]
      BY <2>2, <2>4, <2>7 DEF Matches, Made, UpdatedRow
    <3>2. PICK s \in AdminStatus \cap OrderStatus : s = serving[r].to
      BY <2>3, <3>1 DEF CallRecord, Updatable, OrderStatus, EventStatus, Absent
    <3>3. status' = [status EXCEPT ![o] = s] /\ owner' = owner
      BY <1>0, <3>1, <3>2 DEF TypeOK, Row
    <3>4. Lifecycle!Set(o, s)
      BY <3>1, <3>3 DEF Lifecycle!Set, Updatable, Absent
    <3> QED
      BY <3>2, <3>4 DEF Lifecycle!Next
  <2> QED
    BY <2>5, <2>6, <2>7
<1> QED
  BY <1>1, <1>2

\* Events, workers and lost answers add nothing to what a reader of rows may see.
THEOREM EventsLife == Spec => RefinesLifecycle
<1>1. Init => Lifecycle!Init
  BY DEF Init, Lifecycle!Init, NoRow, Absent
<1>2. EInv /\ [Next]_vars => [Lifecycle!Next]_(Lifecycle!orderVars)
  BY EventsLifecycle
<1> QED
  BY <1>1, <1>2, EInvariance, PTL DEF Spec, RefinesLifecycle, Lifecycle!Spec

\* The places of a change's news exclude each other, and each has it once.
LEMMA OnePlace ==
  ASSUME EInv, NEW n \in 1 .. Len(log), NEW p \in Places(n), NEW q \in Places(n)
  PROVE  p = q
<1> DEFINE Calls == {r \in Request : serving[r].at = "committed" /\ serving[r].change = n}
           Goroutines == {e \in outbox : e.change = n}
           Queues == {e \in queue["email"] : e.change = n}
           Holders == {w \in EmailWorker : held[w].change = n}
<1>0. TypeOK /\ EventsTellCommitted /\ CallAccounts /\ EventAccounts /\ NewsKept
  BY DEF EInv
<1>n. n \in Nat \ {0} /\ NewsOf(n)
  <2>1. Len(log) \in Nat
    BY <1>0, LenProperties DEF TypeOK
  <2> QED
    BY <1>0, <2>1 DEF NewsKept
<1>1. \A x \in Places(n) :
        \/ \E r \in Calls : x = <<"call", r>>
        \/ \E e \in Goroutines : x = <<"outbox", e>>
        \/ \E e \in Queues : x = <<"queue", e>>
        \/ \E w \in Holders : x = <<"worker", w>>
        \/ x = <<"lost", n>> /\ n \in lost
  BY DEF Places
<1>2. \A r, s \in Calls : r = s
  BY <1>0, <1>n DEF CallAccounts
<1>3. \A r \in Calls : Goroutines = {} /\ n \notin lost
  BY <1>0 DEF CallAccounts
<1>4. (\A e, f \in Goroutines : e = f) /\ (\A e \in Goroutines : n \notin lost)
  BY <1>0, EventDetermined DEF EventAccounts
<1>5. \A e, f \in Queues : e = f
  BY <1>0, EventDetermined DEF EventAccounts, Queue
<1>6. (\E e \in Queues : TRUE) \/ (\E w \in Holders : TRUE) => Calls = {} /\ Goroutines = {} /\ n \notin lost
  <2>1. (\E e \in Queues : TRUE) \/ (\E w \in Holders : TRUE)
          => Queued(n) \/ \E w \in Worker : HeldBy(w, n)
    BY DEF Queued, HeldBy, Worker
  <2>2. Queued(n) \/ (\E w \in Worker : HeldBy(w, n)) => n \notin lost
    BY <1>n DEF NewsOf
  <2> QED
    BY <1>0, <1>n, <2>1, <2>2, LateNews
<1>7. \A w \in Holders : Queues = {} /\ \A v \in Holders : v = w
  BY <1>n DEF NewsOf, Queued, HeldBy, Worker
<1> HIDE DEF Calls, Goroutines, Queues, Holders
<1>8. CASE \E r \in Calls : p = <<"call", r>>
  BY <1>1, <1>2, <1>3, <1>6, <1>8
<1>9. CASE \E e \in Goroutines : p = <<"outbox", e>>
  BY <1>1, <1>3, <1>4, <1>6, <1>9
<1>10. CASE \E e \in Queues : p = <<"queue", e>>
  BY <1>1, <1>5, <1>6, <1>7, <1>10
<1>11. CASE \E w \in Holders : p = <<"worker", w>>
  BY <1>1, <1>6, <1>7, <1>11
<1>12. CASE p = <<"lost", n>> /\ n \in lost
  BY <1>1, <1>3, <1>4, <1>6, <1>12
<1> QED
  BY <1>1, <1>8, <1>9, <1>10, <1>11, <1>12

\* The news of a status change is at one place at a time until an email was sent.
THEOREM NewsIsAccounted == Spec => []NewsAccounted
<1>1. ASSUME EInv PROVE NewsAccounted
  <2> SUFFICES ASSUME NEW n \in 1 .. Len(log), log[n].kind = "update"
               PROVE  /\ \A p, q \in Places(n) : p = q
                      /\ Places(n) = {} => Emailed(n)
                      /\ n \in lost => emails[n] = 0
    BY DEF NewsAccounted
  <2>1. NewsOf(n) /\ n \in DOMAIN emails
    BY <1>1, LenProperties DEF EInv, NewsKept, TypeOK
  <2>2. \A p, q \in Places(n) : p = q
    BY <1>1, OnePlace
  <2>3. Places(n) = {} => ~Early(n) /\ ~Queued(n) /\ \A w \in Worker : ~HeldBy(w, n)
    BY DEF Places, Early, Queued, HeldBy
  <2>4. Places(n) = {} => Emailed(n)
    BY <2>1, <2>3 DEF NewsOf, Emailed
  <2>5. n \in lost => emails[n] = 0
    BY <2>1 DEF NewsOf, Early
  <2> QED
    BY <2>2, <2>4, <2>5
<1> QED
  BY <1>1, EInvariance, PTL
=============================================================================
