-------------------------- MODULE OrderCacheProofs --------------------------
(***************************************************************************)
(* Theorems about OrderCache, for every set of orders, users, products,    *)
(* writers and readers.                                                    *)
(***************************************************************************)
EXTENDS OrderCache, TLAPS

\* What the table shows now is among what it has shown.
PastAccounts == \A u \in User : ListOf(rows, u) \in past[u]

\* What a reader carries to the cache is what the table has shown.
ReadAccounts ==
  \A r \in Reader : reading[r].at \in {"enriching", "storing"} =>
    /\ \A u \in User : reading[r].key = ListKey(u) => reading[r].value \in past[u] \ {EmptyList}
    /\ \A o \in OrderID : reading[r].key = ItemsKey(o) => reading[r].value \subseteq ItemsOf(o)

CInv == TypeOK /\ PastAccounts /\ ReadAccounts /\ CacheShowsThePast

-----------------------------------------------------------------------------
\* A key names its kind and its user or order.
LEMMA Keys ==
  /\ \A u, v \in User : ListKey(u) = ListKey(v) => u = v
  /\ \A o, p \in OrderID : ItemsKey(o) = ItemsKey(p) => o = p
  /\ \A u \in User, o \in OrderID : ListKey(u) # ItemsKey(o)
  /\ \A u \in User : ListKey(u) \in Key /\ ListKey(u) \in ListKeys /\ ListKey(u)[2] = u
  /\ \A o \in OrderID : ItemsKey(o) \in Key /\ ItemsKey(o) \notin ListKeys /\ ItemsKey(o)[2] = o
  /\ \A k \in Key : (\E u \in User : k = ListKey(u)) \/ (\E o \in OrderID : k = ItemsKey(o))
  BY DEF ListKey, ItemsKey, ListKeys, ItemsKeys, Key

\* The initial state.
LEMMA InitCInv == Init => CInv
<1> SUFFICES ASSUME Init PROVE CInv
  OBVIOUS
<1> USE DEF Init
<1>1. TypeOK
  <2>1. NoRow \in Row
    BY DEF Row, NoRow, NoItems, Items
  <2>2. past \in [User -> SUBSET Lists]
    BY DEF Lists, EmptyList
  <2> QED
    BY <2>1, <2>2 DEF TypeOK, Idle
<1>2. PastAccounts
  BY DEF PastAccounts, ListOf, EmptyList, NoRow
<1>3. ReadAccounts
  BY DEF ReadAccounts, Idle
<1>4. CacheShowsThePast
  BY Keys DEF CacheShowsThePast
<1> QED
  BY <1>1, <1>2, <1>3, <1>4 DEF CInv

\* A list the table shows is a list.
LEMMA ListType ==
  ASSUME NEW table \in [OrderID -> Row], NEW u \in User
  PROVE  ListOf(table, u) \in Lists
  BY DEF ListOf, Lists, Row

\* Evicting keys leaves the others as they are.
LEMMA Evicting ==
  ASSUME TypeOK, NEW keys, Evict(keys)
  PROVE  /\ DOMAIN cache' = Key
         /\ \A k \in Key : cache'[k] = IF k \in keys THEN NoEntry ELSE cache[k]
         /\ kept' = kept \ keys /\ kept' \subseteq Key
         /\ late' \subseteq User
         /\ \A u \in User : u \in late' <=> u \in late /\ ListKey(u) \notin keys
  BY DEF Evict, TypeOK

\* A write changes one row, whose items were none or stay the same.
LEMMA Writing ==
  ASSUME TypeOK, PastAccounts, NEW w \in Writer, Write(w)
  PROVE  /\ rows' \in [OrderID -> Row]
         /\ past' \in [User -> SUBSET Lists]
         /\ \A u \in User : past[u] \subseteq past'[u] /\ ListOf(rows', u) \in past'[u]
         /\ \A o \in OrderID : ItemsOf(o) \subseteq ItemsOf(o)'
         /\ \E keys \in SUBSET Key :
              wrote' = [wrote EXCEPT ![w] = [at |-> "invalidating", keys |-> keys]]
                \/ wrote' = [wrote EXCEPT ![w].at = "done"]
         /\ UNCHANGED <<catalog, reading, cache, sweep, kept, late>>
<1>1. PICK o \in OrderID :
        \/ \E u \in User, items \in [Product -> {0, 1}] : Create(w, o, u, items)
        \/ \E u \in User : Cancel(w, o, u)
        \/ \E s \in AdminStatus : UpdateStatus(w, o, s)
  BY DEF Write
<1> DEFINE ChangesTo(row) ==
             /\ rows' = [rows EXCEPT ![o] = row]
             /\ past' = [u \in User |-> past[u] \cup {ListOf(rows', u)}]
             /\ \A p \in Product : rows[o].items[p] > 0 => row.items[p] > 0
             /\ UNCHANGED <<catalog, reading, cache, sweep, kept, late>>
<1>2. PICK row \in Row : ChangesTo(row)
  <2>1. ASSUME NEW u \in User, NEW items \in [Product -> {0, 1}], Create(w, o, u, items)
        PROVE  \E row \in Row : ChangesTo(row)
    <3>1. InsertedRow(u, items) \in Row
      BY DEF InsertedRow, Row, OrderStatus, Items
    <3>2. \A p \in Product : ~(rows[o].items[p] > 0)
      BY <2>1 DEF Create, NoRow, NoItems
    <3>3. ChangesTo(InsertedRow(u, items))
      BY <2>1, <3>2 DEF Create, Change
    <3> QED
      BY <3>1, <3>3
  <2>2. ASSUME NEW u \in User, Cancel(w, o, u)
        PROVE  \E row \in Row : ChangesTo(row)
    <3>1. CancelledRow(rows[o]) \in Row /\ CancelledRow(rows[o]).items = rows[o].items
      BY DEF CancelledRow, Row, OrderStatus, TypeOK
    <3>2. ChangesTo(CancelledRow(rows[o]))
      BY <2>2, <3>1 DEF Cancel, Change
    <3> QED
      BY <3>1, <3>2
  <2>3. ASSUME NEW s \in AdminStatus, UpdateStatus(w, o, s)
        PROVE  \E row \in Row : ChangesTo(row)
    <3>1. UpdatedRow(rows[o], s) \in Row /\ UpdatedRow(rows[o], s).items = rows[o].items
      BY AdminAssumption DEF UpdatedRow, Row, TypeOK
    <3>2. ChangesTo(UpdatedRow(rows[o], s))
      BY <2>3, <3>1 DEF UpdateStatus, Change
    <3> QED
      BY <3>1, <3>2
  <2> QED
    BY <1>1, <2>1, <2>2, <2>3
<1>3. rows' \in [OrderID -> Row]
  BY <1>2 DEF TypeOK
<1>4. \A u \in User : past'[u] = past[u] \cup {ListOf(rows', u)}
  BY <1>2
<1>5. past' \in [User -> SUBSET Lists]
  <2>1. \A u \in User : ListOf(rows', u) \in Lists
    BY <1>3, ListType
  <2>2. \A u \in User : past[u] \cup {ListOf(rows', u)} \in SUBSET Lists
    BY <2>1 DEF TypeOK
  <2> QED
    BY <1>2, <2>2
<1>6. \A x \in OrderID : ItemsOf(x) \subseteq ItemsOf(x)'
  BY <1>2 DEF ItemsOf, TypeOK
<1>7. \E keys \in SUBSET Key :
        \/ wrote' = [wrote EXCEPT ![w] = [at |-> "invalidating", keys |-> keys]]
        \/ wrote' = [wrote EXCEPT ![w].at = "done"]
  BY <1>1, Keys DEF Create, Cancel, UpdateStatus, Invalidated
<1> QED
  BY <1>2, <1>3, <1>4, <1>5, <1>6, <1>7

\* No step leaves the types.
LEMMA TypeStep ==
  ASSUME CInv, [Next]_vars
  PROVE  TypeOK'
<1>0. TypeOK /\ PastAccounts
  BY DEF CInv
<1>1. ASSUME NEW w \in Writer, Write(w) PROVE TypeOK'
  <2>1. PICK keys \in SUBSET Key :
          \/ wrote' = [wrote EXCEPT ![w] = [at |-> "invalidating", keys |-> keys]]
          \/ wrote' = [wrote EXCEPT ![w].at = "done"]
    BY <1>0, <1>1, Writing
  <2>2. wrote' \in [Writer -> [at: {"idle", "invalidating", "done"}, keys: SUBSET Key]]
    BY <1>0, <2>1 DEF TypeOK
  <2>3. /\ rows' \in [OrderID -> Row] /\ past' \in [User -> SUBSET Lists]
        /\ UNCHANGED <<catalog, reading, cache, sweep, kept, late>>
    BY <1>0, <1>1, Writing
  <2> QED
    BY <1>0, <2>2, <2>3 DEF TypeOK
<1>2. ASSUME NEW w \in Writer, Invalidate(w) PROVE TypeOK'
  <2>1. wrote' \in [Writer -> [at: {"idle", "invalidating", "done"}, keys: SUBSET Key]]
    BY <1>0, <1>2 DEF TypeOK, Invalidate
  <2>2. /\ DOMAIN cache' = Key /\ kept' \subseteq Key /\ late' \subseteq User
        /\ \A k \in Key : cache'[k] \in {NoEntry, cache[k]}
    BY <1>0, <1>2, Evicting DEF Invalidate, TypeOK
  <2> QED
    BY <1>0, <1>2, <2>1, <2>2 DEF TypeOK, Invalidate
<1>r. ASSUME NEW r \in Reader, NEW at,
             \/ at = Idle
             \/ at \in [at: {"missed"}, key: Key]
             \/ \E k \in Key : at \in [at: {"enriching", "storing"}, key: {k}, value: ValuesOf(k)],
             reading' = [reading EXCEPT ![r] = at],
             UNCHANGED <<rows, catalog, wrote, cache, sweep, past, kept, late>>
      PROVE  TypeOK'
  BY <1>0, <1>r DEF TypeOK, ValuesOf
<1>3. ASSUME NEW r \in Reader, NEW k \in Key, Lookup(r, k) PROVE TypeOK'
  BY <1>3, <1>r DEF Lookup
<1>4. ASSUME NEW r \in Reader, Query(r) PROVE TypeOK'
  <2>1. PICK k \in Key : k = reading[r].key
    BY <1>0, <1>4 DEF TypeOK, Query, Idle
  <2> DEFINE v == IF k \in ListKeys THEN List(k[2]) ELSE ItemsOf(k[2])
  <2>2. v \in ValuesOf(k)
    <3>1. ASSUME NEW u \in User, k = ListKey(u) PROVE v \in ValuesOf(k)
      BY <1>0, <3>1, Keys, ListType DEF ValuesOf, List, TypeOK
    <3>2. ASSUME NEW o \in OrderID, k = ItemsKey(o) PROVE v \in ValuesOf(k)
      BY <3>2, Keys DEF ValuesOf, ItemsOf
    <3> QED
      BY <3>1, <3>2, Keys
  <2>3. \/ reading' = [reading EXCEPT ![r] = Idle]
        \/ reading' = [reading EXCEPT ![r] = [at |-> "enriching", key |-> k, value |-> v]]
    BY <1>4, <2>1 DEF Query
  <2>4. UNCHANGED <<rows, catalog, wrote, cache, sweep, past, kept, late>>
    BY <1>4 DEF Query
  <2> HIDE DEF v
  <2>5. [at |-> "enriching", key |-> k, value |-> v]
          \in [at: {"enriching", "storing"}, key: {k}, value: ValuesOf(k)]
    BY <2>2
  <2> QED
    BY <1>r, <2>3, <2>4, <2>5
<1>5. ASSUME NEW r \in Reader, Enrich(r) PROVE TypeOK'
  <2>1. PICK k \in Key :
          reading[r] \in [at: {"enriching", "storing"}, key: {k}, value: ValuesOf(k)]
    BY <1>0, <1>5 DEF TypeOK, Enrich, Idle
  <2> DEFINE v == IF k \in ListKeys THEN reading[r].value ELSE reading[r].value \cap Listed
  <2>2. v \in ValuesOf(k)
    BY <2>1 DEF ValuesOf
  <2>3. \/ reading' = [reading EXCEPT ![r] = Idle]
        \/ reading' = [reading EXCEPT ![r].at = "storing", ![r].value = v]
    BY <1>5, <2>1 DEF Enrich
  <2>4. UNCHANGED <<rows, catalog, wrote, cache, sweep, past, kept, late>>
    BY <1>5 DEF Enrich
  <2> HIDE DEF v
  <2>5. [reading[r] EXCEPT !.at = "storing", !.value = v]
          \in [at: {"enriching", "storing"}, key: {k}, value: ValuesOf(k)]
    BY <2>1, <2>2
  <2>6. reading' = [reading EXCEPT ![r] = Idle]
        \/ reading' = [reading EXCEPT ![r] = [reading[r] EXCEPT !.at = "storing", !.value = v]]
    BY <1>0, <2>3 DEF TypeOK
  <2> QED
    BY <1>r, <2>4, <2>5, <2>6
<1>6. ASSUME NEW r \in Reader, Store(r) PROVE TypeOK'
  <2>1. PICK k \in Key :
          reading[r] \in [at: {"enriching", "storing"}, key: {k}, value: ValuesOf(k)]
    BY <1>0, <1>6 DEF TypeOK, Store, Idle
  <2>2. /\ reading' = [reading EXCEPT ![r] = Idle]
        /\ cache' = cache \/ cache' = [cache EXCEPT ![k] = reading[r].value]
        /\ UNCHANGED <<rows, catalog, wrote, sweep, past, kept>>
    BY <1>6, <2>1 DEF Store
  <2>3. late' \subseteq User
    <3>1. k \in ListKeys => k[2] \in User
      BY Keys DEF ListKeys
    <3> QED
      BY <1>0, <1>6, <2>1, <3>1 DEF Store, TypeOK
  <2>4. DOMAIN cache' = Key /\ \A x \in Key : cache'[x] \in {NoEntry} \cup ValuesOf(x)
    BY <1>0, <2>1, <2>2 DEF TypeOK
  <2> QED
    BY <1>0, <2>2, <2>3, <2>4 DEF TypeOK, ValuesOf
<1>7. ASSUME NEW k \in Key, Expire(k) PROVE TypeOK'
  <2>1. /\ DOMAIN cache' = Key /\ kept' \subseteq Key /\ late' \subseteq User
        /\ \A x \in Key : cache'[x] \in {NoEntry, cache[x]}
    BY <1>0, <1>7, Evicting DEF Expire
  <2> QED
    BY <1>0, <1>7, <2>1 DEF TypeOK, Expire, ValuesOf
<1>8. ASSUME NEW p \in Product, Relist(p) PROVE TypeOK'
  BY <1>0, <1>8 DEF TypeOK, Relist, ValuesOf
<1>9. CASE ResetBegin
  BY <1>0, <1>9 DEF TypeOK, ResetBegin, Present, ValuesOf
<1>10. CASE ResetBatch
  <2>1. PICK batch \in SUBSET (Present \cap Pattern(sweep.at)) :
          /\ sweep' = [sweep EXCEPT !.left = @ \ batch]
          /\ Evict(batch) \/ UNCHANGED <<cache, kept, late>>
    BY <1>10 DEF ResetBatch
  <2>2. /\ DOMAIN cache' = Key /\ kept' \subseteq Key /\ late' \subseteq User
        /\ \A x \in Key : cache'[x] \in {NoEntry, cache[x]}
    BY <1>0, <2>1, Evicting DEF TypeOK
  <2>3. sweep' \in [at: {"idle", "lists", "items", "ok", "failed"}, left: SUBSET Key]
    BY <1>0, <2>1 DEF TypeOK
  <2> QED
    BY <1>0, <1>10, <2>2, <2>3 DEF TypeOK, ResetBatch, ValuesOf
<1>11. CASE ResetTurn \/ ResetFails
  <2>1. sweep' \in [at: {"idle", "lists", "items", "ok", "failed"}, left: SUBSET Key]
    BY <1>0, <1>11 DEF TypeOK, ResetTurn, ResetFails
  <2> QED
    BY <1>0, <1>11, <2>1 DEF TypeOK, ResetTurn, ResetFails, ValuesOf
<1>12. CASE UNCHANGED vars
  BY <1>0, <1>12 DEF TypeOK, vars, ValuesOf
<1> QED
  BY <1>1, <1>2, <1>3, <1>4, <1>5, <1>6, <1>7, <1>8, <1>9, <1>10, <1>11, <1>12
     DEF Next, Read, Reset

\* A step of a reader touches nothing but where it is, and for Store the cache.
LEMMA Reading ==
  ASSUME CInv, NEW r \in Reader, Query(r) \/ Enrich(r)
  PROVE  /\ UNCHANGED <<rows, catalog, wrote, cache, sweep, past, kept, late>>
         /\ \A q \in Reader : q # r => reading'[q] = reading[q]
         /\ \/ reading'[r] = Idle
            \/ \E k \in Key :
                 /\ reading'[r].key = k
                 /\ \A u \in User : k = ListKey(u) => reading'[r].value \in past[u] \ {EmptyList}
                 /\ \A o \in OrderID : k = ItemsKey(o) => reading'[r].value \subseteq ItemsOf(o)
<1>0. TypeOK /\ PastAccounts /\ ReadAccounts
  BY DEF CInv
<1>1. UNCHANGED <<rows, catalog, wrote, cache, sweep, past, kept, late>>
  BY DEF Query, Enrich
<1>2. \A q \in Reader : q # r => reading'[q] = reading[q]
  <2>1. DOMAIN reading = Reader
    BY <1>0 DEF TypeOK
  <2>2. CASE Query(r)
    BY <2>1, <2>2 DEF Query
  <2>3. CASE Enrich(r)
    BY <2>1, <2>3 DEF Enrich
  <2> QED
    BY <2>2, <2>3
<1>3. CASE Query(r)
  <2>1. PICK k \in Key : k = reading[r].key
    BY <1>0, <1>3 DEF TypeOK, Query, Idle
  <2> DEFINE v == IF k \in ListKeys THEN List(k[2]) ELSE ItemsOf(k[2])
  <2>2. \/ reading'[r] = Idle
        \/ /\ ~(k \in ListKeys /\ List(k[2]) = EmptyList)
           /\ reading'[r] = [at |-> "enriching", key |-> k, value |-> v]
    BY <1>0, <1>3, <2>1 DEF Query, TypeOK
  <2>3. \A u \in User : k = ListKey(u) => v = ListOf(rows, u) /\ v \in past[u]
    BY <1>0, Keys DEF PastAccounts, List
  <2>4. \A o \in OrderID : k = ItemsKey(o) => v = ItemsOf(o)
    BY Keys
  <2>5. \A u \in User : k = ListKey(u) => k \in ListKeys /\ List(k[2]) = v
    BY Keys
  <2> HIDE DEF v
  <2> QED
    BY <1>1, <1>2, <2>2, <2>3, <2>4, <2>5
<1>4. CASE Enrich(r)
  <2>1. PICK k \in Key :
          reading[r] \in [at: {"enriching", "storing"}, key: {k}, value: ValuesOf(k)]
    BY <1>0, <1>4 DEF TypeOK, Enrich, Idle
  <2> DEFINE v == IF k \in ListKeys THEN reading[r].value ELSE reading[r].value \cap Listed
  <2>2. \/ reading'[r] = Idle
        \/ reading'[r] = [reading[r] EXCEPT !.at = "storing", !.value = v]
    BY <1>0, <1>4, <2>1 DEF Enrich, TypeOK
  <2>3. \A u \in User : k = ListKey(u) => v \in past[u] \ {EmptyList}
    BY <1>0, <2>1, Keys DEF ReadAccounts
  <2>4. \A o \in OrderID : k = ItemsKey(o) => v \subseteq ItemsOf(o)
    BY <1>0, <2>1, Keys DEF ReadAccounts
  <2> HIDE DEF v
  <2>5. \/ reading'[r] = Idle
        \/ reading'[r].key = k /\ reading'[r].value = v
    BY <2>1, <2>2
  <2> QED
    BY <1>1, <1>2, <2>3, <2>4, <2>5
<1> QED
  BY <1>3, <1>4

\* What a Store puts into the cache.
LEMMA Storing ==
  ASSUME CInv, NEW r \in Reader, Store(r)
  PROVE  /\ UNCHANGED <<rows, catalog, wrote, sweep, past, kept>>
         /\ reading' = [reading EXCEPT ![r] = Idle]
         /\ \/ UNCHANGED <<cache, late>>
            \/ \E k \in Key :
                 /\ cache' = [cache EXCEPT ![k] = reading[r].value]
                 /\ \A u \in User : k = ListKey(u) =>
                      /\ reading[r].value \in past[u] \ {EmptyList}
                      /\ late' = IF reading[r].value = ListOf(rows, u) THEN late \ {u}
                                 ELSE late \cup {u}
                 /\ \A o \in OrderID : k = ItemsKey(o) =>
                      reading[r].value \subseteq ItemsOf(o) /\ late' = late
<1>0. TypeOK /\ ReadAccounts
  BY DEF CInv
<1>1. UNCHANGED <<rows, catalog, wrote, sweep, past, kept>> /\ reading' = [reading EXCEPT ![r] = Idle]
  BY DEF Store
<1>2. PICK k \in Key : k = reading[r].key
  BY <1>0 DEF TypeOK, Store, Idle
<1>3. \A u \in User : k = ListKey(u) => reading[r].value \in past[u] \ {EmptyList}
  BY <1>0, <1>2 DEF ReadAccounts, Store
<1>4. \A o \in OrderID : k = ItemsKey(o) => reading[r].value \subseteq ItemsOf(o)
  BY <1>0, <1>2 DEF ReadAccounts, Store
<1>5. CASE UNCHANGED <<cache, late>>
  BY <1>1, <1>5
<1>6. CASE ~ UNCHANGED <<cache, late>>
  <2>1. /\ cache' = [cache EXCEPT ![k] = reading[r].value]
        /\ late' = IF k \in ListKeys
                     THEN IF reading[r].value = ValueOf(k) THEN late \ {k[2]} ELSE late \cup {k[2]}
                     ELSE late
    BY <1>2, <1>6 DEF Store
  <2>2. \A u \in User : k = ListKey(u) =>
          late' = IF reading[r].value = ListOf(rows, u) THEN late \ {u} ELSE late \cup {u}
    BY <2>1, Keys DEF ValueOf, List
  <2>3. \A o \in OrderID : k = ItemsKey(o) => late' = late
    BY <2>1, Keys
  <2> QED
    BY <1>1, <1>3, <1>4, <2>1, <2>2, <2>3
<1> QED
  BY <1>5, <1>6

\* Every step keeps the invariant.
LEMMA StepCInv == CInv /\ [Next]_vars => CInv'
<1> SUFFICES ASSUME CInv, [Next]_vars PROVE CInv'
  OBVIOUS
<1>0. TypeOK /\ PastAccounts /\ ReadAccounts /\ CacheShowsThePast
  BY DEF CInv
<1>t. TypeOK'
  BY TypeStep
<1>p. /\ PastAccounts'
      /\ \A u \in User : past[u] \subseteq past'[u]
      /\ \A o \in OrderID : ItemsOf(o) \subseteq ItemsOf(o)'
  <2>1. CASE UNCHANGED <<rows, past>>
    BY <1>0, <2>1 DEF PastAccounts, ItemsOf
  <2>2. ASSUME NEW w \in Writer, Write(w) 
        PROVE  /\ PastAccounts'
               /\ \A u \in User : past[u] \subseteq past'[u]
               /\ \A o \in OrderID : ItemsOf(o) \subseteq ItemsOf(o)'
    BY <1>0, <2>2, Writing DEF PastAccounts
  <2>3. UNCHANGED <<rows, past>> \/ \E w \in Writer : Write(w)
    BY DEF Next, vars, Invalidate, Lookup, Read, Query, Enrich, Store, Expire, Relist, Reset,
           ResetBegin, ResetBatch, ResetTurn, ResetFails
  <2> QED
    BY <2>1, <2>2, <2>3
<1>c. CASE UNCHANGED reading /\ \A k \in Key : cache'[k] \in {NoEntry, cache[k]}
  <2>1. ReadAccounts'
    BY <1>0, <1>p, <1>c DEF ReadAccounts
  <2>2. CacheShowsThePast'
    BY <1>0, <1>p, <1>c, Keys DEF CacheShowsThePast
  <2> QED
    BY <1>t, <1>p, <2>1, <2>2 DEF CInv
<1>1. ASSUME NEW w \in Writer, Write(w) \/ Invalidate(w) PROVE CInv'
  BY <1>0, <1>1, <1>c, Writing, Evicting DEF Invalidate
<1>2. ASSUME NEW r \in Reader, NEW k \in Key, Lookup(r, k) PROVE CInv'
  <2>1. UNCHANGED <<rows, cache, past>> /\ reading' = [reading EXCEPT ![r] = [at |-> "missed", key |-> k]]
    BY <1>2 DEF Lookup
  <2>2. ReadAccounts'
    BY <1>0, <2>1 DEF ReadAccounts, TypeOK, ItemsOf
  <2>3. CacheShowsThePast'
    BY <1>0, <2>1 DEF CacheShowsThePast, ItemsOf
  <2> QED
    BY <1>t, <1>p, <2>2, <2>3 DEF CInv
<1>3. ASSUME NEW r \in Reader, Query(r) \/ Enrich(r) PROVE CInv'
  <2>1. UNCHANGED <<rows, cache, past>> /\ \A q \in Reader : q # r => reading'[q] = reading[q]
    BY <1>3, Reading
  <2>2. \/ reading'[r] = Idle
        \/ \E k \in Key :
             /\ reading'[r].key = k
             /\ \A u \in User : k = ListKey(u) => reading'[r].value \in past[u] \ {EmptyList}
             /\ \A o \in OrderID : k = ItemsKey(o) => reading'[r].value \subseteq ItemsOf(o)
    BY <1>3, Reading
  <2>3. ReadAccounts'
    BY <1>0, <2>1, <2>2 DEF ReadAccounts, ItemsOf, Idle
  <2>4. CacheShowsThePast'
    BY <1>0, <2>1 DEF CacheShowsThePast, ItemsOf
  <2> QED
    BY <1>t, <1>p, <2>3, <2>4 DEF CInv
<1>4. ASSUME NEW r \in Reader, Store(r) PROVE CInv'
  <2>1. UNCHANGED <<rows, past>> /\ reading' = [reading EXCEPT ![r] = Idle]
    BY <1>4, Storing
  <2>2. \/ UNCHANGED cache
        \/ \E k \in Key :
             /\ cache' = [cache EXCEPT ![k] = reading[r].value]
             /\ \A u \in User : k = ListKey(u) => reading[r].value \in past[u] \ {EmptyList}
             /\ \A o \in OrderID : k = ItemsKey(o) => reading[r].value \subseteq ItemsOf(o)
    BY <1>4, Storing
  <2>3. ReadAccounts'
    BY <1>0, <2>1 DEF ReadAccounts, TypeOK, ItemsOf, Idle
  <2>4. CacheShowsThePast'
    BY <1>0, <2>1, <2>2, Keys DEF CacheShowsThePast, ItemsOf, TypeOK
  <2> QED
    BY <1>t, <1>p, <2>3, <2>4 DEF CInv
<1>5. ASSUME NEW k \in Key, Expire(k) PROVE CInv'
  BY <1>0, <1>5, <1>c, Evicting DEF Expire
<1>6. ASSUME NEW p \in Product, Relist(p) PROVE CInv'
  BY <1>6, <1>c DEF Relist
<1>7. CASE Reset
  <2>1. ASSUME NEW batch, Evict(batch) PROVE \A k \in Key : cache'[k] \in {NoEntry, cache[k]}
    BY <1>0, <2>1, Evicting
  <2> QED
    BY <1>7, <1>c, <2>1 DEF Reset, ResetBegin, ResetBatch, ResetTurn, ResetFails
<1>8. CASE UNCHANGED vars
  BY <1>8, <1>c DEF vars
<1> QED
  BY <1>1, <1>2, <1>3, <1>4, <1>5, <1>6, <1>7, <1>8 DEF Next, Read

\* The invariant that the properties of the caches rest on.
THEOREM CacheInvariance == Spec => []CInv
<1>1. Init => CInv
  BY InitCInv
<1>2. CInv /\ [Next]_vars => CInv'
  BY StepCInv
<1> QED
  BY <1>1, <1>2, PTL DEF Spec

\* Every variable keeps its type, and no key holds a value of the other kind.
THEOREM TypeCorrect == Spec => []TypeOK
<1>1. CInv => TypeOK
  BY DEF CInv
<1> QED
  BY <1>1, CacheInvariance, PTL

\* A cached list was shown by the table for this very user.
THEOREM CachesShowThePast == Spec => []CacheShowsThePast
<1>1. CInv => CacheShowsThePast
  BY DEF CInv
<1> QED
  BY <1>1, CacheInvariance, PTL

-----------------------------------------------------------------------------
\* While Redis loses nothing a sweep keeps only what it has yet to see.
SweepAccounts ==
  /\ kept \subseteq Present
  /\ sweep.at \in {"lists", "items"} => kept \subseteq sweep.left
  /\ sweep.at = "items" => kept \cap ListKeys = {}
  /\ sweep.at = "ok" => kept = {}

\* A step that evicts keys and leaves the sweep alone keeps its accounts.
LEMMA EvictingKeeps ==
  ASSUME CInv, SweepAccounts, NEW keys, Evict(keys), sweep' = sweep
  PROVE  SweepAccounts'
<1>1. /\ DOMAIN cache' = Key /\ kept' = kept \ keys
      /\ \A k \in Key : cache'[k] = IF k \in keys THEN NoEntry ELSE cache[k]
  BY Evicting DEF CInv
<1> QED
  BY <1>1 DEF SweepAccounts, Present

\* Where Redis loses nothing every step keeps the accounts of the sweep: storing adds
\* keys, a batch is deleted when it is returned.
LEMMA StepSweep ==
  ASSUME ~Lossy, CInv, SweepAccounts, [Next]_vars
  PROVE  SweepAccounts'
<1>0. TypeOK
  BY DEF CInv
<1>1. ASSUME UNCHANGED <<cache, sweep, kept>> PROVE SweepAccounts'
  BY <1>1 DEF SweepAccounts, Present
<1>2. ASSUME NEW w \in Writer, Write(w) PROVE SweepAccounts'
  BY <1>0, <1>1, <1>2, Writing DEF CInv
<1>3. ASSUME NEW w \in Writer, Invalidate(w) PROVE SweepAccounts'
  BY <1>3, EvictingKeeps DEF Invalidate
<1>4. ASSUME NEW r \in Reader, NEW k \in Key, Lookup(r, k) PROVE SweepAccounts'
  BY <1>1, <1>4 DEF Lookup
<1>5. ASSUME NEW r \in Reader, Query(r) \/ Enrich(r) PROVE SweepAccounts'
  BY <1>1, <1>5, Reading
<1>6. ASSUME NEW r \in Reader, Store(r) PROVE SweepAccounts'
  <2>1. PICK k \in Key :
          reading[r] \in [at: {"enriching", "storing"}, key: {k}, value: ValuesOf(k)]
    BY <1>0, <1>6 DEF TypeOK, Store, Idle
  <2>2. /\ UNCHANGED <<sweep, kept>>
        /\ cache' = cache \/ cache' = [cache EXCEPT ![k] = reading[r].value]
    BY <1>6, <2>1 DEF Store
  <2>3. reading[r].value # NoEntry
    BY <2>1, NoEntryAssumption DEF ValuesOf, Lists
  <2>4. Present \subseteq Present'
    BY <1>0, <2>2, <2>3 DEF Present, TypeOK
  <2> QED
    BY <2>2, <2>4 DEF SweepAccounts
<1>7. ASSUME NEW k \in Key, Expire(k) PROVE SweepAccounts'
  BY <1>7, EvictingKeeps DEF Expire
<1>8. ASSUME NEW p \in Product, Relist(p) PROVE SweepAccounts'
  BY <1>1, <1>8 DEF Relist
<1>9. CASE ResetBegin
  BY <1>9 DEF ResetBegin, SweepAccounts, Present
<1>10. CASE ResetBatch
  <2>1. PICK batch : /\ sweep' = [sweep EXCEPT !.left = @ \ batch]
                     /\ sweep.at \in {"lists", "items"}
                     /\ Evict(batch)
    BY <1>10 DEF ResetBatch
  <2>2. /\ kept' = kept \ batch
        /\ \A k \in Key : cache'[k] = IF k \in batch THEN NoEntry ELSE cache[k]
    BY <1>0, <2>1, Evicting
  <2>3. sweep'.at = sweep.at /\ sweep'.left = sweep.left \ batch
    BY <1>0, <2>1 DEF TypeOK
  <2> QED
    BY <2>1, <2>2, <2>3 DEF SweepAccounts, Present
<1>11. CASE ResetTurn
  <2>1. CASE sweep.at = "lists"
    <3>1. sweep'.at = "items" /\ sweep'.left = sweep.left /\ UNCHANGED <<cache, kept>>
      BY <1>0, <1>11, <2>1 DEF ResetTurn, TypeOK
    <3>2. kept \cap ListKeys = {}
      BY <1>11, <2>1 DEF ResetTurn, Pattern, SweepAccounts
    <3> QED
      BY <2>1, <3>1, <3>2 DEF SweepAccounts, Present
  <2>2. CASE sweep.at = "items"
    <3>1. sweep'.at = "ok" /\ UNCHANGED <<cache, kept>>
      BY <1>11, <2>2 DEF ResetTurn
    <3>2. kept \cap ItemsKeys = {} /\ kept \cap ListKeys = {}
      BY <1>11, <2>2 DEF ResetTurn, Pattern, SweepAccounts
    <3>3. kept = {}
      BY <1>0, <3>2 DEF TypeOK, Key
    <3> QED
      BY <3>1, <3>3 DEF SweepAccounts
  <2> QED
    BY <1>11, <2>1, <2>2 DEF ResetTurn
<1>12. CASE ResetFails
  BY <1>12 DEF ResetFails
<1>13. CASE UNCHANGED vars
  BY <1>1, <1>13 DEF vars
<1> QED
  BY <1>2, <1>3, <1>4, <1>5, <1>6, <1>7, <1>8, <1>9, <1>10, <1>11, <1>12, <1>13
     DEF Next, Read, Reset

\* Where Redis loses nothing, a sweep that reports success has deleted every key that
\* was there from its beginning to its end.
THEOREM SweepsEvict ==
  ASSUME ~Lossy
  PROVE  Spec => []ResetEvicts
<1>1. Init => SweepAccounts
  BY DEF Init, SweepAccounts
<1>2. CInv /\ SweepAccounts /\ [Next]_vars => SweepAccounts'
  BY StepSweep
<1>3. SweepAccounts => ResetEvicts
  BY DEF SweepAccounts, ResetEvicts
<1> QED
  BY <1>1, <1>2, <1>3, CacheInvariance, PTL DEF Spec

-----------------------------------------------------------------------------
\* A goroutine is given its keys by the write that starts it.
KeysAccounts == \A w \in Writer : wrote[w].keys # {} => wrote[w].at = "invalidating"

\* A step that evicts keys, and leaves the rows and the goroutines alone, makes no
\* list stale and drops no cause of one that is.
LEMMA EvictingFreshens ==
  ASSUME CInv, StaleHasCause, KeysAccounts, NEW keys, Evict(keys), UNCHANGED <<rows, wrote>>
  PROVE  StaleHasCause' /\ KeysAccounts'
<1>1. /\ \A u \in User : cache'[ListKey(u)] = IF ListKey(u) \in keys THEN NoEntry ELSE cache[ListKey(u)]
      /\ \A u \in User : u \in late' <=> u \in late /\ ListKey(u) \notin keys
  BY Evicting, Keys DEF CInv
<1> QED
  BY <1>1, Keys DEF StaleHasCause, KeysAccounts, Stale, ValueOf, List, ListOf

\* A write without status updates changes the list of one user, and starts a goroutine
\* that will delete it.
LEMMA WritingTells ==
  ASSUME AdminStatus = {}, CInv, KeysAccounts, NEW w \in Writer, Write(w)
  PROVE  \E u0 \in User :
           /\ \A u \in User \ {u0} : ListOf(rows', u) = ListOf(rows, u)
           /\ wrote'[w].at = "invalidating" /\ ListKey(u0) \in wrote'[w].keys
           /\ wrote[w].keys = {} /\ \A v \in Writer : v # w => wrote'[v] = wrote[v]
<1>0. TypeOK
  BY DEF CInv
<1>1. PICK o \in OrderID, u0 \in User :
        \/ \E items \in [Product -> {0, 1}] : Create(w, o, u0, items)
        \/ Cancel(w, o, u0)
  BY DEF Write
<1>2. /\ wrote[w].at = "idle"
      /\ wrote' = [wrote EXCEPT ![w] = [at |-> "invalidating", keys |-> Invalidated(u0, o)]]
  BY <1>1 DEF Create, Cancel
<1>3. /\ wrote'[w].at = "invalidating" /\ ListKey(u0) \in wrote'[w].keys
      /\ wrote[w].keys = {} /\ \A v \in Writer : v # w => wrote'[v] = wrote[v]
  BY <1>0, <1>2 DEF TypeOK, Invalidated, KeysAccounts
<1>4. ASSUME NEW u \in User \ {u0} PROVE ListOf(rows', u) = ListOf(rows, u)
  <2>1. \A x \in OrderID : x # o => rows'[x] = rows[x]
    BY <1>0, <1>1 DEF Create, Cancel, Change, TypeOK
  <2>2. /\ rows[o].user # u \/ rows[o].status = Absent
        /\ rows'[o].user = u0
    BY <1>0, <1>1, <1>4 DEF Create, Cancel, Change, TypeOK, NoRow, InsertedRow, Cancellable,
                            CancelledRow, Row
  <2> QED
    BY <1>4, <2>1, <2>2 DEF ListOf
<1> QED
  BY <1>3, <1>4

\* Where Redis loses nothing and no status is updated, every step keeps the causes.
LEMMA StepStale ==
  ASSUME ~Lossy, AdminStatus = {}, CInv, StaleHasCause, KeysAccounts, [Next]_vars
  PROVE  StaleHasCause' /\ KeysAccounts'
<1>0. TypeOK
  BY DEF CInv
<1>1. ASSUME UNCHANGED <<rows, wrote, cache, late>> PROVE StaleHasCause' /\ KeysAccounts'
  <2>1. \A u \in User : Stale(ListKey(u))' <=> Stale(ListKey(u))
    BY <1>1, Keys DEF Stale, ValueOf, List, ListOf
  <2> QED
    BY <1>1, <2>1 DEF StaleHasCause, KeysAccounts
<1>2. ASSUME NEW w \in Writer, Write(w) PROVE StaleHasCause' /\ KeysAccounts'
  <2>1. PICK u0 \in User :
          /\ \A u \in User \ {u0} : ListOf(rows', u) = ListOf(rows, u)
          /\ wrote'[w].at = "invalidating" /\ ListKey(u0) \in wrote'[w].keys
          /\ wrote[w].keys = {} /\ \A v \in Writer : v # w => wrote'[v] = wrote[v]
    BY <1>2, WritingTells
  <2>2. UNCHANGED <<cache, late>>
    BY <1>0, <1>2, Writing DEF CInv
  <2>3. KeysAccounts'
    BY <2>1 DEF KeysAccounts
  <2>4. ASSUME NEW u \in User, Stale(ListKey(u))'
        PROVE  u \in late' \/ \E v \in Writer : ListKey(u) \in wrote'[v].keys
    <3>1. CASE u = u0
      BY <2>1, <3>1
    <3>2. CASE u # u0
      <4>1. Stale(ListKey(u))
        BY <2>1, <2>2, <2>4, <3>2, Keys DEF Stale, ValueOf, List
      <4> QED
        BY <2>1, <2>2, <4>1 DEF StaleHasCause
    <3> QED
      BY <3>1, <3>2
  <2> QED
    BY <2>3, <2>4 DEF StaleHasCause
<1>3. ASSUME NEW w \in Writer, Invalidate(w) PROVE StaleHasCause' /\ KeysAccounts'
  <2>1. /\ wrote' = [wrote EXCEPT ![w] = [at |-> "done", keys |-> {}]]
        /\ Evict(wrote[w].keys) /\ rows' = rows
    BY <1>3 DEF Invalidate
  <2>2. wrote'[w].keys = {} /\ \A v \in Writer : v # w => wrote'[v] = wrote[v]
    BY <1>0, <2>1 DEF TypeOK
  <2>3. /\ \A u \in User : cache'[ListKey(u)] =
             IF ListKey(u) \in wrote[w].keys THEN NoEntry ELSE cache[ListKey(u)]
        /\ \A u \in User : u \in late' <=> u \in late /\ ListKey(u) \notin wrote[w].keys
    BY <1>0, <2>1, Evicting, Keys
  <2>4. KeysAccounts'
    BY <2>2 DEF KeysAccounts
  <2>5. ASSUME NEW u \in User, Stale(ListKey(u))'
        PROVE  u \in late' \/ \E v \in Writer : ListKey(u) \in wrote'[v].keys
    <3>1. ListKey(u) \notin wrote[w].keys /\ Stale(ListKey(u))
      BY <2>1, <2>3, <2>5, Keys DEF Stale, ValueOf, List, ListOf
    <3>2. u \in late \/ \E v \in Writer : ListKey(u) \in wrote[v].keys
      BY <3>1 DEF StaleHasCause
    <3> QED
      BY <2>2, <2>3, <3>1, <3>2
  <2> QED
    BY <2>4, <2>5 DEF StaleHasCause
<1>4. ASSUME NEW r \in Reader, NEW k \in Key, Lookup(r, k) PROVE StaleHasCause' /\ KeysAccounts'
  BY <1>1, <1>4 DEF Lookup
<1>5. ASSUME NEW r \in Reader, Query(r) \/ Enrich(r) PROVE StaleHasCause' /\ KeysAccounts'
  BY <1>1, <1>5, Reading
<1>6. ASSUME NEW r \in Reader, Store(r) PROVE StaleHasCause' /\ KeysAccounts'
  <2>1. UNCHANGED <<rows, wrote>>
    BY <1>6, Storing
  <2>2. CASE UNCHANGED <<cache, late>>
    BY <1>1, <2>1, <2>2
  <2>3. CASE ~ UNCHANGED <<cache, late>>
    <3>1. PICK k \in Key :
            /\ cache' = [cache EXCEPT ![k] = reading[r].value]
            /\ \A u \in User : k = ListKey(u) =>
                 late' = IF reading[r].value = ListOf(rows, u) THEN late \ {u} ELSE late \cup {u}
            /\ \A o \in OrderID : k = ItemsKey(o) => late' = late
      BY <1>6, <2>3, Storing
    <3>2. ASSUME NEW u \in User, Stale(ListKey(u))'
          PROVE  u \in late' \/ \E v \in Writer : ListKey(u) \in wrote'[v].keys
      <4>1. CASE k = ListKey(u)
        <5>1. cache'[ListKey(u)] = reading[r].value
          BY <1>0, <3>1, <4>1 DEF TypeOK
        <5>2. reading[r].value # ListOf(rows, u)
          BY <2>1, <3>2, <5>1, Keys DEF Stale, ValueOf, List, ListOf
        <5> QED
          BY <3>1, <4>1, <5>2
      <4>2. CASE k # ListKey(u)
        <5>1. cache'[ListKey(u)] = cache[ListKey(u)]
          BY <1>0, <3>1, <4>2, Keys DEF TypeOK
        <5>2. Stale(ListKey(u))
          BY <2>1, <3>2, <5>1, Keys DEF Stale, ValueOf, List, ListOf
        <5>3. u \in late => u \in late'
          BY <3>1, <4>2, Keys
        <5> QED
          BY <2>1, <5>2, <5>3 DEF StaleHasCause
      <4> QED
        BY <4>1, <4>2
    <3> QED
      BY <2>1, <3>2 DEF StaleHasCause, KeysAccounts
  <2> QED
    BY <2>2, <2>3
<1>7. ASSUME NEW k \in Key, Expire(k) PROVE StaleHasCause' /\ KeysAccounts'
  BY <1>7, EvictingFreshens DEF Expire
<1>8. ASSUME NEW p \in Product, Relist(p) PROVE StaleHasCause' /\ KeysAccounts'
  BY <1>1, <1>8 DEF Relist
<1>9. CASE Reset
  <2>1. UNCHANGED <<rows, wrote>>
    BY <1>9 DEF Reset, ResetBegin, ResetBatch, ResetTurn, ResetFails
  <2>2. UNCHANGED <<cache, late>> \/ \E batch : Evict(batch)
    BY <1>9 DEF Reset, ResetBegin, ResetBatch, ResetTurn, ResetFails
  <2> QED
    BY <1>1, <2>1, <2>2, EvictingFreshens
<1>10. CASE UNCHANGED vars
  BY <1>1, <1>10 DEF vars
<1> QED
  BY <1>2, <1>3, <1>4, <1>5, <1>6, <1>7, <1>8, <1>9, <1>10 DEF Next, Read

\* Where Redis loses nothing and only CreateOrder and CancelOrder write, a list is old
\* only while its invalidation is under way or because a reader stored it late.
THEOREM StalenessHasCause ==
  ASSUME ~Lossy, AdminStatus = {}
  PROVE  Spec => []StaleHasCause
<1>1. Init => StaleHasCause /\ KeysAccounts
  BY Keys DEF Init, StaleHasCause, KeysAccounts, Stale
<1>2. CInv /\ StaleHasCause /\ KeysAccounts /\ [Next]_vars => StaleHasCause' /\ KeysAccounts'
  BY StepStale
<1> QED
  BY <1>1, <1>2, CacheInvariance, PTL DEF Spec

-----------------------------------------------------------------------------
(***************************************************************************)
(* The writes made here are those of the saga: both implement the life of  *)
(* an order.                                                               *)
(***************************************************************************)
Lifecycle == INSTANCE OrderLifecycle WITH
  Settable <- AdminStatus,
  status <- [o \in OrderID |-> rows[o].status],
  owner <- [o \in OrderID |-> rows[o].user]

\* A write is a step of the life of its order; readers, Redis and the sweep touch none.
LEMMA WritesLive ==
  ASSUME TypeOK, [Next]_vars
  PROVE  [Lifecycle!Next]_(Lifecycle!orderVars)
<1> DEFINE status == [o \in OrderID |-> rows[o].status]
           owner == [o \in OrderID |-> rows[o].user]
<1>0. rows \in [OrderID -> Row]
  BY DEF TypeOK
<1>1. CASE rows' = rows
  BY <1>1 DEF Lifecycle!orderVars
<1>2. ASSUME NEW w \in Writer, NEW o \in OrderID, NEW u \in User,
             NEW items \in [Product -> {0, 1}], Create(w, o, u, items)
      PROVE  Lifecycle!Next
  <2>1. rows[o] = NoRow /\ rows' = [rows EXCEPT ![o] = InsertedRow(u, items)]
    BY <1>2 DEF Create, Change
  <2>2. status' = [status EXCEPT ![o] = "PENDING_PAYMENT"] /\ owner' = [owner EXCEPT ![o] = u]
    BY <1>0, <2>1 DEF Row, InsertedRow
  <2>3. Lifecycle!Place(o, u)
    BY <2>1, <2>2 DEF Lifecycle!Place, NoRow, Absent
  <2> QED
    BY <2>3 DEF Lifecycle!Next
<1>3. ASSUME NEW w \in Writer, NEW o \in OrderID, NEW u \in User, Cancel(w, o, u)
      PROVE  Lifecycle!Next
  <2>1. Cancellable(rows[o], u) /\ rows' = [rows EXCEPT ![o].status = "CANCELED"]
    BY <1>3 DEF Cancel, Change, CancelledRow
  <2>2. status' = [status EXCEPT ![o] = "CANCELED"] /\ owner' = owner
    BY <1>0, <2>1 DEF Row
  <2>3. Lifecycle!CancelBy(o, u)
    BY <2>1, <2>2 DEF Lifecycle!CancelBy, Cancellable
  <2> QED
    BY <2>3 DEF Lifecycle!Next
<1>4. ASSUME NEW w \in Writer, NEW o \in OrderID, NEW s \in AdminStatus, UpdateStatus(w, o, s)
      PROVE  Lifecycle!Next
  <2>1. Updatable(rows[o], s) /\ rows' = [rows EXCEPT ![o].status = s]
    BY <1>4 DEF UpdateStatus, Change, UpdatedRow
  <2>2. status' = [status EXCEPT ![o] = s] /\ owner' = owner
    BY <1>0, <2>1 DEF Row
  <2>3. Lifecycle!Set(o, s)
    BY <2>1, <2>2 DEF Lifecycle!Set, Updatable, Absent
  <2> QED
    BY <2>3 DEF Lifecycle!Next
<1>5. rows' = rows \/ \E w \in Writer : Write(w)
  BY DEF Next, vars, Invalidate, Read, Query, Enrich, Store, Lookup, Expire, Relist, Reset,
         ResetBegin, ResetBatch, ResetTurn, ResetFails
<1> QED
  BY <1>1, <1>2, <1>3, <1>4, <1>5 DEF Write

\* The caches are checked against writes the saga makes: whatever the writers do is in the
\* life of an order, and nothing that happens to the caches is seen in the rows.
THEOREM WritersLife == Spec => Lifecycle!Spec
<1>1. Init => Lifecycle!Init
  BY DEF Init, Lifecycle!Init, NoRow, Absent
<1>2. CInv /\ [Next]_vars => [Lifecycle!Next]_(Lifecycle!orderVars)
  BY WritesLive DEF CInv
<1> QED
  BY <1>1, <1>2, CacheInvariance, PTL DEF Spec, Lifecycle!Spec
=============================================================================
