-------------------------- MODULE CacheServer_proofs ---------------------------
(***************************************************************************)
(* Proofs about CacheServer, for any number of connections and keys, any   *)
(* limits and any bounds on the clock and the restarts.                    *)
(***************************************************************************)
EXTENDS CacheServer, FiniteSetTheorems, WellFoundedInduction, TLAPS

-------------------------------------------------------------------------------
(* What the eviction leaves *)

\* A table as the cache keeps it: stamps of finitely many keys.
Stamped(table) ==
  /\ IsFiniteSet(DOMAIN table) /\ DOMAIN table \subseteq Int
  /\ \A k \in DOMAIN table : table[k] \in Int

\* The rows that go no later than row k, and those that go no earlier.
Before(table, k) == {j \in DOMAIN table : NotAfter(table, j, k)}
After(table, k) == {j \in DOMAIN table : NotAfter(table, k, j)}

\* The order of eviction is a total order.
LEMMA EvictionOrder ==
  ASSUME NEW table, Stamped(table)
  PROVE  \A i, j, k \in DOMAIN table :
           /\ NotAfter(table, i, j) \/ NotAfter(table, j, i)
           /\ NotAfter(table, i, j) /\ NotAfter(table, j, i) => i = j
           /\ NotAfter(table, i, j) /\ NotAfter(table, j, k) => NotAfter(table, i, k)
BY DEF Stamped, NotAfter

\* Of some rows one goes first.
LEMMA OneGoesFirst ==
  ASSUME NEW table, Stamped(table), NEW S \in SUBSET DOMAIN table, S # {}
  PROVE  \E k \in S : \A m \in S : NotAfter(table, k, m)
<1> DEFINE D == DOMAIN table
           R == StrictSubsetOrdering(D)
           T == {Before(table, k) : k \in S}
<1>1. IsWellFoundedOn(R, FiniteSubsetsOf(D))
  BY FS_StrictSubsetOrderingWellFounded
<1>2. T \subseteq FiniteSubsetsOf(D)
  BY FS_Subset DEF Stamped, Before, FiniteSubsetsOf
<1>3. T # {}
  OBVIOUS
<1>4. \E x \in T : \A y \in T : ~(<<y, x>> \in R)
  <2> HIDE DEF T, R
  <2> QED
    BY <1>1, <1>2, <1>3, WFMin
<1>5. PICK k \in S : \A m \in S : <<Before(table, m), Before(table, k)>> \notin R
  BY <1>4
<1>6. ASSUME NEW m \in S PROVE NotAfter(table, k, m)
  <2> SUFFICES ASSUME ~NotAfter(table, k, m) PROVE FALSE
    OBVIOUS
  <2>1. NotAfter(table, m, k)
    BY EvictionOrder
  <2>2. Before(table, m) \subseteq Before(table, k)
    BY <2>1, EvictionOrder DEF Before
  <2>3. k \in Before(table, k) /\ k \notin Before(table, m)
    BY EvictionOrder DEF Before
  <2>4. Before(table, m) \in SUBSET D /\ Before(table, k) \in SUBSET D
    BY DEF Before
  <2> QED
    BY <1>5, <2>2, <2>3, <2>4 DEF StrictSubsetOrdering
<1> QED
  BY <1>6

\* Of some rows one goes last.
LEMMA OneGoesLast ==
  ASSUME NEW table, Stamped(table), NEW S \in SUBSET DOMAIN table, S # {}
  PROVE  \E k \in S : \A m \in S : NotAfter(table, m, k)
<1> DEFINE D == DOMAIN table
           R == StrictSubsetOrdering(D)
           T == {After(table, k) : k \in S}
<1>1. IsWellFoundedOn(R, FiniteSubsetsOf(D))
  BY FS_StrictSubsetOrderingWellFounded
<1>2. T \subseteq FiniteSubsetsOf(D)
  BY FS_Subset DEF Stamped, After, FiniteSubsetsOf
<1>3. T # {}
  OBVIOUS
<1>4. \E x \in T : \A y \in T : ~(<<y, x>> \in R)
  <2> HIDE DEF T, R
  <2> QED
    BY <1>1, <1>2, <1>3, WFMin
<1>5. PICK k \in S : \A m \in S : <<After(table, m), After(table, k)>> \notin R
  BY <1>4
<1>6. ASSUME NEW m \in S PROVE NotAfter(table, m, k)
  <2> SUFFICES ASSUME ~NotAfter(table, m, k) PROVE FALSE
    OBVIOUS
  <2>1. NotAfter(table, k, m)
    BY EvictionOrder
  <2>2. After(table, m) \subseteq After(table, k)
    BY <2>1, EvictionOrder DEF After
  <2>3. k \in After(table, k) /\ k \notin After(table, m)
    BY EvictionOrder DEF After
  <2>4. After(table, m) \in SUBSET D /\ After(table, k) \in SUBSET D
    BY DEF After
  <2> QED
    BY <1>5, <2>2, <2>3, <2>4 DEF StrictSubsetOrdering
<1> QED
  BY <1>6

\* The eviction leaves a table that fits as it is, and of one that does not
\* exactly as many rows as fit: those that every evicted row goes before.
LEMMA EvictionTrims ==
  ASSUME NEW table, Stamped(table)
  PROVE  LET kept == DOMAIN EvictOldest(table) IN
         /\ Cardinality(DOMAIN table) <= MaxEntries => kept = DOMAIN table
         /\ Cardinality(DOMAIN table) > MaxEntries => Cardinality(kept) = MaxEntries
         /\ \A j \in DOMAIN table \ kept, k \in kept : ~NotAfter(table, k, j)
<1> DEFINE D == DOMAIN table
           n == Cardinality(D)
           V == {k \in D : Cardinality(Before(table, k)) <= n - MaxEntries}
           K == D \ V
<1>1. DOMAIN EvictOldest(table) = K
  BY DEF EvictOldest, Before
<1>2. n \in Nat /\ MaxEntries \in Nat \ {0} /\ IsFiniteSet(D) /\ IsFiniteSet(V) /\ IsFiniteSet(K)
  BY CacheServerAssumption, FS_CardinalityType, FS_Subset DEF Stamped
<1>3. Cardinality(V) \in Nat /\ Cardinality(K) = n - Cardinality(V)
  <2>1. V = D \cap V
    OBVIOUS
  <2> HIDE DEF V
  <2> QED
    BY <1>2, <2>1, FS_Difference, FS_CardinalityType
<1>4. \A k \in D : /\ Before(table, k) \in SUBSET D /\ IsFiniteSet(Before(table, k))
                   /\ Cardinality(Before(table, k)) \in Nat \ {0}
  <2> SUFFICES ASSUME NEW k \in D
               PROVE  /\ Before(table, k) \in SUBSET D /\ IsFiniteSet(Before(table, k))
                      /\ Cardinality(Before(table, k)) \in Nat \ {0}
    OBVIOUS
  <2>1. Before(table, k) \in SUBSET D /\ k \in Before(table, k)
    BY EvictionOrder DEF Before
  <2> QED
    BY <1>2, <2>1, FS_Subset, FS_CardinalityType, FS_EmptySet
<1>5. \A i, j \in D : NotAfter(table, i, j) =>
        Cardinality(Before(table, i)) <= Cardinality(Before(table, j))
  <2> SUFFICES ASSUME NEW i \in D, NEW j \in D, NotAfter(table, i, j)
               PROVE  Cardinality(Before(table, i)) <= Cardinality(Before(table, j))
    OBVIOUS
  <2>1. Before(table, i) \subseteq Before(table, j)
    BY EvictionOrder DEF Before
  <2> QED
    BY <1>4, <2>1, FS_Subset
<1>6. \A j \in V, k \in K : ~NotAfter(table, k, j)
  <2> SUFFICES ASSUME NEW j \in V, NEW k \in K, NotAfter(table, k, j) PROVE FALSE
    OBVIOUS
  <2>1. Cardinality(Before(table, k)) <= Cardinality(Before(table, j))
    BY <1>5
  <2> QED
    BY <1>2, <1>4, <2>1
<1>7. n <= MaxEntries => K = D
  BY <1>2, <1>4
<1>8. ASSUME n > MaxEntries PROVE Cardinality(K) <= MaxEntries
  <2>1. CASE K = {}
    BY <1>2, <2>1, FS_EmptySet
  <2>2. CASE K # {}
    <3>1. PICK k \in K : \A m \in K : NotAfter(table, k, m)
      <4> HIDE DEF V
      <4> QED
        BY <2>2, OneGoesFirst
    <3>2. Before(table, k) = V \cup {k}
      <4>1. ASSUME NEW j \in V PROVE j \in Before(table, k)
        BY <1>6, EvictionOrder DEF Before
      <4>2. ASSUME NEW j \in Before(table, k), j # k PROVE j \in V
        <5> SUFFICES ASSUME j \in K PROVE FALSE
          BY DEF Before
        <5> QED
          BY <3>1, <4>2, EvictionOrder DEF Before
      <4>3. k \in Before(table, k)
        BY EvictionOrder DEF Before
      <4> QED
        BY <4>1, <4>2, <4>3
    <3>3. Cardinality(Before(table, k)) = Cardinality(V) + 1
      <4>1. k \notin V
        BY <3>1
      <4> HIDE DEF V
      <4> QED
        BY <1>2, <3>2, <4>1, FS_AddElement
    <3>4. ~(Cardinality(Before(table, k)) <= n - MaxEntries)
      BY <3>1
    <3> QED
      <4> HIDE DEF V, K, n
      <4> QED
        BY <1>2, <1>3, <3>3, <3>4
  <2> QED
    BY <2>1, <2>2
<1>9. ASSUME n > MaxEntries PROVE Cardinality(K) >= MaxEntries
  <2>1. Cardinality(V) <= n - MaxEntries
    <3>1. CASE V = {}
      <4> HIDE DEF V
      <4> QED
        BY <1>2, <1>9, <3>1, FS_EmptySet
    <3>2. CASE V # {}
      <4>1. PICK k \in V : \A m \in V : NotAfter(table, m, k)
        <5>1. V \in SUBSET D
          OBVIOUS
        <5> HIDE DEF V
        <5> QED
          BY <3>2, <5>1, OneGoesLast
      <4>2. V \in SUBSET Before(table, k)
        BY <4>1 DEF Before
      <4>3. Cardinality(V) <= Cardinality(Before(table, k))
        <5>1. IsFiniteSet(Before(table, k))
          BY <1>4, <4>1
        <5> HIDE DEF V
        <5> QED
          BY <4>2, <5>1, FS_Subset
      <4>4. Cardinality(Before(table, k)) <= n - MaxEntries /\ Cardinality(Before(table, k)) \in Nat
        BY <1>4, <4>1
      <4> HIDE DEF V, n
      <4> QED
        BY <1>2, <1>3, <4>3, <4>4
    <3> QED
      BY <3>1, <3>2
  <2> HIDE DEF V, K, n
  <2> QED
    BY <1>2, <1>3, <2>1
<1>10. Cardinality(K) \in Nat
  BY <1>2, FS_CardinalityType
<1> QED
  <2>1. D \ K = V
    OBVIOUS
  <2>2. n > MaxEntries => Cardinality(K) = MaxEntries
    <3> HIDE DEF V, K, n
    <3> QED
      BY <1>2, <1>8, <1>9, <1>10
  <2> HIDE DEF V
  <2> QED
    BY <1>1, <1>6, <1>7, <2>1, <2>2

-------------------------------------------------------------------------------
(* The inductive invariant *)

\* A response waiting to be stored was stamped after the row it replaces, and
\* no row comes from the future.
StampsInOrder ==
  /\ \A k \in DOMAIN rows : rows[k] <= now
  /\ \A r \in Readers : pc[r] = "store" =>
       /\ fetched[r] \in Row /\ fetched[r] <= now
       /\ key[r] \in DOMAIN rows => rows[key[r]] <= fetched[r]

CacheInv == TypeOK /\ OneFetchPerKey /\ StampsInOrder

\* The types of the variables that belong to the handlers.
HandlersTyped ==
  /\ pc \in [Readers -> PCs]
  /\ key \in [Readers -> Keys \cup {NoKey}]
  /\ \A r \in Readers : key[r] = NoKey <=> pc[r] = "idle"
  /\ force \in [Readers -> BOOLEAN]
  /\ cached \in [Readers -> Row \cup {NoRow}]
  /\ fetched \in [Readers -> Row \cup {NoRow}]
  /\ polls \in [Readers -> 0..MaxPolls]
  /\ answer \in [Readers -> Served \cup Errors \cup {"none"}]

\* The types of the table, the in-flight set and the clock.
SharedTyped ==
  /\ DOMAIN rows \subseteq Keys /\ rows \in [DOMAIN rows -> Row]
  /\ inflight \in SUBSET Keys
  /\ now \in 0..MaxTime
  /\ crashes \in 0..MaxCrashes

LEMMA TypeParts == TypeOK <=> SharedTyped /\ HandlersTyped
BY DEF TypeOK, SharedTyped, HandlersTyped

-------------------------------------------------------------------------------
(* What the steps that many actions share do *)

\* A handler that returns keeps its variables in their types.
LEMMA ReturnTyped ==
  ASSUME HandlersTyped, NEW r \in Readers,
         NEW how \in Served \cup Errors \cup {"none"}, Return(r, how)
  PROVE  HandlersTyped'
<1>1. 0 \in 0..MaxPolls
  BY CacheServerAssumption
<1> QED
  BY <1>1 DEF HandlersTyped, Return, PCs

\* What a handler looks up in the table is a row or NoRow.
LEMMA LookupTyped ==
  ASSUME SharedTyped, NEW k
  PROVE  Lookup(k) \in Row \cup {NoRow}
BY DEF SharedTyped, Lookup

\* A table that gets a row still holds rows of known keys, this one included.
LEMMA UpsertTyped ==
  ASSUME SharedTyped, NEW k \in Keys, NEW at \in Row
  PROVE  /\ DOMAIN Upsert(k, at) = DOMAIN rows \cup {k}
         /\ Upsert(k, at) \in [DOMAIN rows \cup {k} -> Row]
         /\ \A j \in DOMAIN rows \cup {k} :
              Upsert(k, at)[j] = IF j = k THEN at ELSE rows[j]
BY DEF SharedTyped, Upsert

\* The eviction only takes rows out.
LEMMA EvictShrinks ==
  ASSUME NEW table
  PROVE  /\ DOMAIN EvictOldest(table) \subseteq DOMAIN table
         /\ \A k \in DOMAIN EvictOldest(table) : EvictOldest(table)[k] = table[k]
         /\ EvictOldest(table) = [k \in DOMAIN EvictOldest(table) |-> EvictOldest(table)[k]]
BY DEF EvictOldest

\* A step that moves no handler in or out of a fetch and leaves the in-flight
\* set alone keeps one fetch per key.
LEMMA GuardsKept ==
  ASSUME OneFetchPerKey, inflight' = inflight,
         \A q \in Readers : Guarding(q)' <=> Guarding(q),
         \A q \in Readers : Guarding(q) => key'[q] = key[q]
  PROVE  OneFetchPerKey'
BY DEF OneFetchPerKey

\* A handler that drops its guard takes its key out, and nobody else's.
LEMMA GuardDropped ==
  ASSUME CacheInv, NEW r \in Readers, Guarding(r), NEW how, Return(r, how),
         inflight' = inflight \ {key[r]}
  PROVE  OneFetchPerKey'
<1>1. \A q \in Readers : Guarding(q)' <=> Guarding(q) /\ q # r
  BY DEF CacheInv, TypeOK, Return, Guarding, PCs
<1>2. \A q \in Readers : q # r => key'[q] = key[q]
  BY DEF CacheInv, TypeOK, Return
<1>3. \A q \in Readers : Guarding(q) /\ q # r => key[q] # key[r]
  BY DEF CacheInv, OneFetchPerKey
<1> QED
  BY <1>1, <1>2, <1>3 DEF CacheInv, OneFetchPerKey

\* A step that changes neither the table nor the clock and stamps no response
\* keeps the stamps in order.
LEMMA StampsKept ==
  ASSUME StampsInOrder, rows' = rows, now' = now,
         \A q \in Readers : pc'[q] = "store" =>
           pc[q] = "store" /\ fetched'[q] = fetched[q] /\ key'[q] = key[q]
  PROVE  StampsInOrder'
BY DEF StampsInOrder

\* A handler that returns without a guard, whatever it answers, keeps the
\* invariant.
LEMMA ReturnKeeps ==
  ASSUME CacheInv, NEW r \in Readers, ~Guarding(r), UNCHANGED shared,
         NEW how \in Served \cup Errors \cup {"none"}, Return(r, how)
  PROVE  CacheInv'
<1>1. HandlersTyped /\ SharedTyped
  BY TypeParts DEF CacheInv
<1>2. HandlersTyped'
  BY <1>1, ReturnTyped
<1>3. SharedTyped'
  BY <1>1 DEF SharedTyped, shared
<1>4. /\ \A q \in Readers : Guarding(q)' <=> Guarding(q)
      /\ \A q \in Readers : Guarding(q) => key'[q] = key[q]
  BY <1>1 DEF HandlersTyped, Return, Guarding, PCs
<1>5. OneFetchPerKey'
  BY <1>4, GuardsKept DEF CacheInv, shared
<1>6. \A q \in Readers : pc'[q] = "store" =>
        pc[q] = "store" /\ fetched'[q] = fetched[q] /\ key'[q] = key[q]
  BY <1>1 DEF HandlersTyped, Return, PCs
<1>7. StampsInOrder'
  BY <1>6, StampsKept DEF CacheInv, shared
<1> QED
  BY <1>2, <1>3, <1>5, <1>7, TypeParts DEF CacheInv, TypeOK, HandlersTyped, SharedTyped

\* A handler that returns and drops its guard keeps the invariant.
LEMMA ReturnDropsGuard ==
  ASSUME CacheInv, NEW r \in Readers, Guarding(r),
         UNCHANGED <<rows, now, crashes>>, inflight' = inflight \ {key[r]},
         NEW how \in Served \cup Errors \cup {"none"}, Return(r, how)
  PROVE  CacheInv'
<1>1. HandlersTyped /\ SharedTyped
  BY TypeParts DEF CacheInv
<1>2. HandlersTyped'
  BY <1>1, ReturnTyped
<1>3. SharedTyped'
  BY <1>1 DEF SharedTyped
<1>4. OneFetchPerKey'
  BY GuardDropped
<1>5. \A q \in Readers : pc'[q] = "store" =>
        pc[q] = "store" /\ fetched'[q] = fetched[q] /\ key'[q] = key[q]
  BY <1>1 DEF HandlersTyped, Return, PCs
<1>6. StampsInOrder'
  BY <1>5, StampsKept DEF CacheInv
<1> QED
  BY <1>2, <1>3, <1>4, <1>6 DEF CacheInv, TypeOK, HandlersTyped, SharedTyped

\* A handler that moves on before it fetches, changing only its own variables,
\* keeps the invariant.
LEMMA MoveKeeps ==
  ASSUME CacheInv, NEW r \in Readers, UNCHANGED shared,
         NEW to \in PCs \ {"idle"}, pc' = [pc EXCEPT ![r] = to],
         to # "store", pc[r] # "idle", key' = key, fetched' = fetched,
         Guarding(r) <=> to \in {"fetch", "store", "release"},
         HandlersTyped'
  PROVE  CacheInv'
<1>1. HandlersTyped /\ SharedTyped
  BY TypeParts DEF CacheInv
<1>2. SharedTyped'
  BY <1>1 DEF SharedTyped, shared
<1>3. \A q \in Readers : Guarding(q)' <=> Guarding(q)
  BY <1>1 DEF HandlersTyped, Guarding
<1>4. OneFetchPerKey'
  BY <1>3, GuardsKept DEF CacheInv, shared
<1>5. StampsInOrder'
  BY <1>1, StampsKept DEF CacheInv, shared, HandlersTyped
<1> QED
  BY <1>2, <1>4, <1>5 DEF CacheInv, TypeOK, HandlersTyped, SharedTyped

-------------------------------------------------------------------------------
(* One lemma for each action with a shape of its own *)

\* A new request: the connection was idle, so nothing it guards changes.
LEMMA ArriveKeeps ==
  ASSUME CacheInv, NEW r \in Readers, Arrive(r)
  PROVE  CacheInv'
<1>1. HandlersTyped /\ SharedTyped
  BY TypeParts DEF CacheInv
<1>2. HandlersTyped'
  BY <1>1, CacheServerAssumption DEF HandlersTyped, Arrive, PCs
<1>3. SharedTyped'
  BY <1>1 DEF SharedTyped, Arrive, shared
<1>4. /\ \A q \in Readers : Guarding(q)' <=> Guarding(q)
      /\ \A q \in Readers : Guarding(q) => key'[q] = key[q]
  BY <1>1 DEF HandlersTyped, Arrive, Guarding, PCs
<1>5. OneFetchPerKey'
  BY <1>4, GuardsKept DEF CacheInv, Arrive, shared
<1>6. \A q \in Readers : pc'[q] = "store" =>
        pc[q] = "store" /\ fetched'[q] = fetched[q] /\ key'[q] = key[q]
  BY <1>1 DEF HandlersTyped, Arrive, PCs
<1>7. StampsInOrder'
  BY <1>6, StampsKept DEF CacheInv, Arrive, shared
<1> QED
  BY <1>2, <1>3, <1>5, <1>7 DEF CacheInv, TypeOK, HandlersTyped, SharedTyped

\* try_start only lets a key in that nobody is fetching.
LEMMA StartKeeps ==
  ASSUME CacheInv, NEW r \in Readers, Start(r)
  PROVE  CacheInv'
<1>1. HandlersTyped /\ SharedTyped
  BY TypeParts DEF CacheInv
<1>2. HandlersTyped'
  BY <1>1 DEF HandlersTyped, Start, PCs, request
<1>3. key[r] \in Keys
  BY <1>1 DEF HandlersTyped, Start
<1>4. SharedTyped'
  BY <1>1, <1>3 DEF SharedTyped, Start
<1>5. \A q \in Readers : Guarding(q)' <=> Guarding(q) \/ q = r
  BY <1>1 DEF HandlersTyped, Start, Guarding
<1>6. \A q \in Readers : Guarding(q) => key[q] # key[r]
  BY DEF CacheInv, OneFetchPerKey, Start
<1>7. OneFetchPerKey'
  BY <1>5, <1>6 DEF CacheInv, OneFetchPerKey, Start, request
<1>8. \A q \in Readers : pc'[q] = "store" =>
        pc[q] = "store" /\ fetched'[q] = fetched[q] /\ key'[q] = key[q]
  BY <1>1 DEF HandlersTyped, Start, request
<1>9. StampsInOrder'
  BY <1>8, StampsKept DEF CacheInv, Start
<1> QED
  BY <1>2, <1>4, <1>7, <1>9 DEF CacheInv, TypeOK, HandlersTyped, SharedTyped

\* A fetched response is stamped with the time of its arrival, which is no
\* earlier than the stamp of any row.
LEMMA FetchOkKeeps ==
  ASSUME CacheInv, NEW r \in Readers, FetchOk(r)
  PROVE  CacheInv'
<1>1. HandlersTyped /\ SharedTyped
  BY TypeParts DEF CacheInv
<1>2. HandlersTyped'
  BY <1>1 DEF HandlersTyped, SharedTyped, FetchOk, PCs, request, Row
<1>3. SharedTyped'
  BY <1>1 DEF SharedTyped, FetchOk, shared
<1>4. /\ \A q \in Readers : Guarding(q)' <=> Guarding(q)
      /\ key' = key
  BY <1>1 DEF HandlersTyped, FetchOk, Guarding, request
<1>5. OneFetchPerKey'
  BY <1>4, GuardsKept DEF CacheInv, FetchOk, shared
<1>6. ASSUME NEW q \in Readers, pc'[q] = "store"
      PROVE  /\ fetched'[q] \in Row /\ fetched'[q] <= now
             /\ key[q] \in DOMAIN rows => rows[key[q]] <= fetched'[q]
  <2>1. CASE q = r
    <3>1. fetched'[r] = now
      BY <1>1 DEF HandlersTyped, FetchOk
    <3> QED
      BY <1>1, <2>1, <3>1 DEF CacheInv, StampsInOrder, SharedTyped, Row
  <2>2. CASE q # r
    BY <1>1, <1>6, <2>2 DEF HandlersTyped, FetchOk, CacheInv, StampsInOrder
  <2> QED
    BY <2>1, <2>2
<1>7. StampsInOrder'
  BY <1>4, <1>6 DEF CacheInv, StampsInOrder, FetchOk, shared
<1> QED
  BY <1>2, <1>3, <1>5, <1>7 DEF CacheInv, TypeOK, HandlersTyped, SharedTyped

\* What a store writes, whether it comes to the eviction or not: the rows of a
\* table that has the response, or the table as it was.
Written(r) ==
  \/ rows' = rows
  \/ /\ DOMAIN rows' \subseteq DOMAIN rows \cup {key[r]}
     /\ rows' = [k \in DOMAIN rows' |-> IF k = key[r] THEN fetched[r] ELSE rows[k]]

LEMMA StoreWrites ==
  ASSUME NEW r \in Readers, Store(r) \/ StoreFails(r)
  PROVE  /\ Written(r)
         /\ pc[r] = "store" /\ pc' = [pc EXCEPT ![r] = "release"]
         /\ UNCHANGED <<inflight, now, crashes, key, force, cached, fetched, polls>>
<1>1. CASE Store(r)
  <2>1. /\ DOMAIN rows' \subseteq DOMAIN Upsert(key[r], fetched[r])
        /\ rows' = [k \in DOMAIN rows' |-> Upsert(key[r], fetched[r])[k]]
    BY <1>1, EvictShrinks DEF Store
  <2> QED
    BY <1>1, <2>1 DEF Store, Written, Upsert, request
<1>2. CASE StoreFails(r)
  BY <1>2 DEF StoreFails, FallBack, Written, Upsert, request
<1> QED
  BY <1>1, <1>2

\* Storing a response replaces the row of its key by a later one and may evict
\* rows; the other handlers that are about to store have other keys.
LEMMA StoreKeeps ==
  ASSUME CacheInv, NEW r \in Readers, Store(r) \/ StoreFails(r)
  PROVE  CacheInv'
<1>1. HandlersTyped /\ SharedTyped
  BY TypeParts DEF CacheInv
<1>2. /\ Written(r) /\ pc[r] = "store" /\ pc' = [pc EXCEPT ![r] = "release"]
      /\ UNCHANGED <<inflight, now, crashes, key, force, cached, fetched, polls>>
  BY StoreWrites
<1>3. HandlersTyped'
  BY <1>1, <1>2 DEF HandlersTyped, Store, StoreFails, FallBack, PCs, Served, Errors
<1>4. key[r] \in Keys /\ fetched[r] \in Row /\ fetched[r] <= now
  BY <1>1, <1>2 DEF HandlersTyped, CacheInv, StampsInOrder
<1>5. /\ DOMAIN rows' \subseteq DOMAIN rows \cup {key[r]}
      /\ \A k \in DOMAIN rows' :
           \/ k \in DOMAIN rows /\ rows'[k] = rows[k]
           \/ k = key[r] /\ rows'[k] = fetched[r]
      /\ rows' = [k \in DOMAIN rows' |-> rows'[k]]
  BY <1>2, <1>1 DEF Written, SharedTyped
<1>6. \A k \in DOMAIN rows' : rows'[k] \in Row
  BY <1>1, <1>4, <1>5 DEF SharedTyped
<1>7. SharedTyped'
  <2>1. DOMAIN rows' \subseteq Keys
    BY <1>1, <1>4, <1>5 DEF SharedTyped
  <2>2. rows' \in [DOMAIN rows' -> Row]
    BY <1>5, <1>6
  <2> QED
    BY <1>2, <1>1, <2>1, <2>2 DEF SharedTyped, Row
<1>8. \A q \in Readers : Guarding(q)' <=> Guarding(q)
  BY <1>2, <1>1 DEF HandlersTyped, Guarding
<1>9. OneFetchPerKey'
  BY <1>2, <1>8, GuardsKept DEF CacheInv
<1>10. StampsInOrder'
  <2>1. \A k \in DOMAIN rows' : rows'[k] <= now
    BY <1>4, <1>5 DEF CacheInv, StampsInOrder
  <2>2. ASSUME NEW q \in Readers, pc'[q] = "store"
        PROVE  /\ pc[q] = "store" /\ key[q] # key[r]
               /\ fetched[q] \in Row /\ fetched[q] <= now
               /\ key[q] \in DOMAIN rows' => rows'[key[q]] <= fetched[q]
    <3>1. pc[q] = "store" /\ q # r
      BY <1>2, <1>1, <2>2 DEF HandlersTyped
    <3>2. key[q] # key[r]
      BY <1>2, <3>1 DEF CacheInv, OneFetchPerKey, Guarding
    <3> QED
      BY <3>1, <3>2, <1>5 DEF CacheInv, StampsInOrder
  <2> QED
    BY <1>2, <2>1, <2>2 DEF StampsInOrder
<1> QED
  BY <1>3, <1>7, <1>9, <1>10 DEF CacheInv, TypeOK, HandlersTyped, SharedTyped

\* A fetch that fails still holds its guard.
LEMMA FetchFailsKeeps ==
  ASSUME CacheInv, NEW r \in Readers, FetchFails(r)
  PROVE  CacheInv'
<1>1. HandlersTyped /\ SharedTyped
  BY TypeParts DEF CacheInv
<1>2. /\ pc[r] = "fetch" /\ pc' = [pc EXCEPT ![r] = "release"]
      /\ UNCHANGED shared /\ key' = key /\ fetched' = fetched
  BY DEF FetchFails, FallBack, request
<1>3. HandlersTyped'
  BY <1>1 DEF HandlersTyped, FetchFails, FallBack, PCs, request, Served, Errors
<1> QED
  BY <1>2, <1>3, MoveKeeps DEF Guarding, PCs

\* The clock only goes forward, so no stamp comes to lie in the future.
LEMMA TickKeeps ==
  ASSUME CacheInv, Tick
  PROVE  CacheInv'
<1>1. HandlersTyped /\ SharedTyped
  BY TypeParts DEF CacheInv
<1>2. HandlersTyped'
  BY <1>1 DEF HandlersTyped, Tick, request
<1>3. SharedTyped'
  BY <1>1, CacheServerAssumption DEF SharedTyped, Tick
<1>4. OneFetchPerKey'
  BY GuardsKept DEF CacheInv, Tick, Guarding, request
<1>5. StampsInOrder'
  BY <1>1 DEF CacheInv, StampsInOrder, Tick, SharedTyped, request, Row
<1> QED
  BY <1>2, <1>3, <1>4, <1>5 DEF CacheInv, TypeOK, HandlersTyped, SharedTyped

\* A restart empties the in-flight set with the handlers, and the row it may
\* have left without eviction was about to be stored.
LEMMA CrashKeeps ==
  ASSUME CacheInv, Crash
  PROVE  CacheInv'
<1>1. HandlersTyped /\ SharedTyped
  BY TypeParts DEF CacheInv
<1>2. HandlersTyped'
  BY CacheServerAssumption DEF HandlersTyped, Crash, PCs
<1>3. OneFetchPerKey'
  BY DEF OneFetchPerKey, Guarding, Crash
<1> DEFINE TableInOrder == /\ DOMAIN rows \subseteq Keys /\ rows \in [DOMAIN rows -> Row]
                           /\ \A k \in DOMAIN rows : rows[k] <= now
<1>4. TableInOrder'
  <2>1. CASE rows' = rows
    BY <1>1, <2>1 DEF SharedTyped, CacheInv, StampsInOrder, Crash
  <2>2. ASSUME NEW r \in Readers, pc[r] = "store", rows' = Upsert(key[r], fetched[r])
        PROVE  TableInOrder'
    <3>1. key[r] \in Keys /\ fetched[r] \in Row /\ fetched[r] <= now
      BY <1>1, <2>2 DEF HandlersTyped, CacheInv, StampsInOrder
    <3>2. /\ DOMAIN rows' = DOMAIN rows \cup {key[r]}
          /\ rows' \in [DOMAIN rows \cup {key[r]} -> Row]
          /\ \A j \in DOMAIN rows \cup {key[r]} :
               rows'[j] = IF j = key[r] THEN fetched[r] ELSE rows[j]
      BY <1>1, <2>2, <3>1, UpsertTyped
    <3>3. \A k \in DOMAIN rows' : rows'[k] <= now
      BY <3>1, <3>2 DEF CacheInv, StampsInOrder
    <3> QED
      BY <1>1, <3>1, <3>2, <3>3 DEF SharedTyped, Crash
  <2> HIDE DEF TableInOrder
  <2> QED
    BY <2>1, <2>2 DEF Crash
<1>5. SharedTyped'
  BY <1>1, <1>4, CacheServerAssumption DEF SharedTyped, Crash, Row
<1>6. StampsInOrder'
  BY <1>4 DEF StampsInOrder, Crash
<1> QED
  BY <1>2, <1>3, <1>5, <1>6 DEF CacheInv, TypeOK, HandlersTyped, SharedTyped

\* Handlers that load, wait and poll change nothing that others see.
LEMMA WaitersKeep ==
  ASSUME CacheInv, NEW r \in Readers,
         Load(r) \/ BeginWait(r) \/ PollAgain(r) \/ PollFinds(r)
  PROVE  CacheInv'
<1>1. HandlersTyped /\ SharedTyped
  BY TypeParts DEF CacheInv
<1>2. CASE Load(r)
  <2>1. HandlersTyped'
    BY <1>1, <1>2, LookupTyped DEF HandlersTyped, Load, PCs, request
  <2> QED
    BY <1>2, <2>1, MoveKeeps DEF Load, Guarding, PCs, request
<1>3. CASE BeginWait(r)
  <2>1. HandlersTyped'
    BY <1>1, <1>3 DEF HandlersTyped, BeginWait, PCs, request
  <2> QED
    BY <1>3, <2>1, MoveKeeps DEF BeginWait, Guarding, PCs, request
<1>4. CASE PollAgain(r)
  <2>1. pc' = [pc EXCEPT ![r] = "wait"]
    BY <1>1, <1>4 DEF HandlersTyped, PollAgain
  <2>2. HandlersTyped'
    BY <1>1, <1>4, CacheServerAssumption DEF HandlersTyped, PollAgain, PCs, request
  <2> QED
    BY <1>4, <2>1, <2>2, MoveKeeps DEF PollAgain, Guarding, PCs, request
<1>5. CASE PollFinds(r)
  <2>1. HandlersTyped'
    BY <1>1, <1>5 DEF HandlersTyped, PollFinds, PCs, request
  <2> QED
    BY <1>5, <2>1, MoveKeeps DEF PollFinds, Guarding, PCs, request
<1> QED
  BY <1>2, <1>3, <1>4, <1>5

-------------------------------------------------------------------------------
(* The invariant and the theorems *)

LEMMA InvInit == Init => CacheInv
<1> SUFFICES ASSUME Init PROVE CacheInv
  OBVIOUS
<1>1. TypeOK
  BY CacheServerAssumption DEF Init, TypeOK, PCs
<1>2. OneFetchPerKey
  BY DEF Init, OneFetchPerKey, Guarding
<1>3. StampsInOrder
  BY DEF Init, StampsInOrder
<1> QED
  BY <1>1, <1>2, <1>3 DEF CacheInv

\* Each handler's steps, by how they end.
LEMMA HandlerKeeps ==
  ASSUME CacheInv, NEW r \in Readers, Arrive(r) \/ Handler(r) \/ HangUp(r)
  PROVE  CacheInv'
<1>1. HandlersTyped /\ SharedTyped
  BY TypeParts DEF CacheInv
<1>2. CASE Arrive(r)
  BY <1>2, ArriveKeeps
<1>3. CASE Refuse(r) \/ LoadFails(r) \/ Hit(r) \/ ServeStale(r) \/ PollGivesUp(r)
  BY <1>3, ReturnKeeps
     DEF Refuse, LoadFails, Hit, ServeStale, PollGivesUp, Guarding, Served, Errors
<1>4. CASE Reload(r)
  BY <1>4, ReturnKeeps DEF Reload, Guarding, Served, Errors
<1>5. CASE Load(r) \/ BeginWait(r) \/ PollAgain(r) \/ PollFinds(r)
  BY <1>5, WaitersKeep
<1>6. CASE Start(r)
  BY <1>6, StartKeeps
<1>7. CASE FetchOk(r)
  BY <1>7, FetchOkKeeps
<1>8. CASE FetchFails(r)
  BY <1>8, FetchFailsKeeps
<1>9. CASE Store(r) \/ StoreFails(r)
  BY <1>9, StoreKeeps
<1>10. CASE Release(r)
  <2>1. answer[r] \in Served \cup Errors \cup {"none"}
    BY <1>1 DEF HandlersTyped
  <2>2. /\ Guarding(r) /\ UNCHANGED <<rows, now, crashes>>
        /\ inflight' = inflight \ {key[r]} /\ Return(r, answer[r])
    BY <1>10 DEF Release, Guarding
  <2> QED
    BY <2>1, <2>2, ReturnDropsGuard
<1>11. CASE HangUp(r)
  <2>1. CASE Guarding(r)
    BY <1>11, <2>1, ReturnDropsGuard DEF HangUp
  <2>2. CASE ~Guarding(r)
    BY <1>11, <2>2, ReturnKeeps DEF HangUp, shared
  <2> QED
    BY <2>1, <2>2
<1> QED
  BY <1>2, <1>3, <1>4, <1>5, <1>6, <1>7, <1>8, <1>9, <1>10, <1>11 DEF Handler

LEMMA InvNext == CacheInv /\ [Next]_vars => CacheInv'
<1> SUFFICES ASSUME CacheInv, [Next]_vars PROVE CacheInv'
  OBVIOUS
<1>1. CASE Tick
  BY <1>1, TickKeeps
<1>2. CASE Crash
  BY <1>2, CrashKeeps
<1>3. ASSUME NEW r \in Readers, Arrive(r) \/ Handler(r) \/ HangUp(r) PROVE CacheInv'
  BY <1>3, HandlerKeeps
<1>4. CASE UNCHANGED vars
  BY <1>4 DEF CacheInv, TypeOK, OneFetchPerKey, StampsInOrder, Guarding, vars
<1> QED
  BY <1>1, <1>2, <1>3, <1>4 DEF Next

THEOREM CacheInvariant == Spec => []CacheInv
BY InvInit, InvNext, PTL DEF Spec

\* The table, the in-flight set and the handlers keep their types.
THEOREM CacheTyped == Spec => []TypeOK
<1>1. CacheInv => TypeOK
  BY DEF CacheInv
<1> QED
  BY <1>1, CacheInvariant, PTL

\* No two handlers fetch the same key at once, and a key is in flight only
\* while one does, for any number of connections and restarts.
THEOREM FetchesExclusive == Spec => []OneFetchPerKey
<1>1. CacheInv => OneFetchPerKey
  BY DEF CacheInv
<1> QED
  BY <1>1, CacheInvariant, PTL

-------------------------------------------------------------------------------
(* Rows only get newer *)

RowsNewer == \A k \in DOMAIN rows \cap DOMAIN rows' : rows'[k] >= rows[k]

\* What a store writes, or a crash in the middle of one, is newer than what the
\* table holds.
LEMMA WrittenNewer ==
  ASSUME CacheInv, NEW r \in Readers, pc[r] = "store", Written(r)
  PROVE  RowsNewer
<1>1. HandlersTyped /\ SharedTyped
  BY TypeParts DEF CacheInv
<1>2. fetched[r] \in Row /\ (key[r] \in DOMAIN rows => rows[key[r]] <= fetched[r])
  BY DEF CacheInv, StampsInOrder
<1>3. \A k \in DOMAIN rows : rows[k] \in Int
  BY <1>1 DEF SharedTyped, Row
<1>4. \A k \in DOMAIN rows \cap DOMAIN rows' :
        rows'[k] = rows[k] \/ (k = key[r] /\ rows'[k] = fetched[r])
  BY DEF Written
<1> QED
  BY <1>2, <1>3, <1>4 DEF RowsNewer, Row

LEMMA StepNewer ==
  ASSUME CacheInv, Next
  PROVE  RowsNewer
<1>1. SharedTyped
  BY TypeParts DEF CacheInv
<1>2. CASE rows' = rows
  BY <1>1, <1>2 DEF RowsNewer, SharedTyped, Row
<1>3. ASSUME NEW r \in Readers, Store(r) \/ StoreFails(r) PROVE RowsNewer
  BY <1>3, StoreWrites, WrittenNewer
<1>4. ASSUME NEW r \in Readers, pc[r] = "store", rows' = Upsert(key[r], fetched[r])
      PROVE  RowsNewer
  BY <1>4, WrittenNewer DEF Written, Upsert
<1>5. ASSUME NEW r \in Readers, Arrive(r) \/ Handler(r) \/ HangUp(r), ~Store(r), ~StoreFails(r)
      PROVE  rows' = rows
  BY <1>5 DEF Handler, Arrive, HangUp, Refuse, LoadFails, Hit, Load, ServeStale, BeginWait,
              PollAgain, PollGivesUp, PollFinds, Reload, Start, FetchOk, FetchFails,
              Release, shared
<1>6. CASE Tick
  BY <1>2, <1>6 DEF Tick
<1>7. CASE Crash
  BY <1>2, <1>4, <1>7 DEF Crash
<1> QED
  BY <1>2, <1>3, <1>5, <1>6, <1>7 DEF Next

\* No interleaving of fetches, evictions and crashes puts an older response
\* over a newer one.
THEOREM NoRowGoesBack == Spec => RowsGetNewer
<1>1. CacheInv /\ [Next]_vars => [RowsNewer]_vars
  BY StepNewer
<1>2. Spec => [][RowsNewer]_vars
  BY <1>1, CacheInvariant, PTL DEF Spec
<1> QED
  BY <1>2, PTL DEF RowsGetNewer, RowsNewer

-------------------------------------------------------------------------------
(* What a request has when *)

\* Where a handler stands tells what it has loaded, fetched and answered: who
\* has loaded may fetch and has to, and only who releases has an answer.
InOrder(r) ==
  /\ pc[r] \in {"idle", "load", "wait", "reload"} => cached[r] = NoRow
  /\ pc[r] \notin {"store", "release"} => fetched[r] = NoRow
  /\ pc[r] \notin {"idle", "load"} =>
       /\ key[r] \in AllowedKeys
       /\ force[r] \/ cached[r] = NoRow \/ now - cached[r] > Ttl
  /\ pc[r] \notin {"idle", "release"} => answer[r] = "none"
  /\ pc[r] = "release" => answer[r] # "none"

RequestsInOrder == \A r \in Readers : InOrder(r)

\* A handler's step leaves the other handlers and the clock alone.
LEMMA OthersStand ==
  ASSUME HandlersTyped, NEW r \in Readers, Arrive(r) \/ Handler(r) \/ HangUp(r)
  PROVE  /\ now' = now
         /\ \A q \in Readers \ {r} :
              /\ pc'[q] = pc[q] /\ key'[q] = key[q] /\ force'[q] = force[q]
              /\ cached'[q] = cached[q] /\ fetched'[q] = fetched[q] /\ answer'[q] = answer[q]
<1> USE DEF HandlersTyped
<1>1. CASE Arrive(r)
  BY <1>1 DEF Arrive, shared
<1>2. CASE Refuse(r) \/ LoadFails(r) \/ Hit(r) \/ ServeStale(r) \/ PollGivesUp(r) \/ Reload(r)
           \/ Release(r) \/ HangUp(r)
  <2>1. now' = now /\ \E how : Return(r, how)
    BY <1>2 DEF Refuse, LoadFails, Hit, ServeStale, PollGivesUp, Reload, Release, HangUp, shared
  <2> QED
    BY <2>1 DEF Return
<1>3. CASE Load(r) \/ BeginWait(r) \/ PollAgain(r) \/ PollFinds(r) \/ Start(r) \/ FetchOk(r)
  BY <1>3 DEF Load, BeginWait, PollAgain, PollFinds, Start, FetchOk, shared, request
<1>4. CASE FetchFails(r) \/ Store(r) \/ StoreFails(r)
  BY <1>4 DEF FetchFails, Store, StoreFails, FallBack, shared, request
<1> QED
  BY <1>1, <1>2, <1>3, <1>4 DEF Handler

\* A handler that returns stands at the beginning again.
LEMMA ReturnInOrder ==
  ASSUME HandlersTyped, NEW r \in Readers, NEW how, Return(r, how)
  PROVE  InOrder(r)'
BY DEF HandlersTyped, Return, InOrder

LEMMA HandlerInOrder ==
  ASSUME CacheInv, NEW r \in Readers, InOrder(r), Arrive(r) \/ Handler(r) \/ HangUp(r)
  PROVE  InOrder(r)'
<1>1. HandlersTyped /\ SharedTyped
  BY TypeParts DEF CacheInv
<1>2. CASE Arrive(r)
  BY <1>1, <1>2 DEF Arrive, InOrder, HandlersTyped
<1>3. CASE Refuse(r) \/ LoadFails(r) \/ Hit(r) \/ ServeStale(r) \/ PollGivesUp(r) \/ Reload(r)
           \/ Release(r) \/ HangUp(r)
  BY <1>1, <1>3, ReturnInOrder
     DEF Refuse, LoadFails, Hit, ServeStale, PollGivesUp, Reload, Release, HangUp
<1>4. CASE Load(r)
  <2>1. force[r] \/ Lookup(key[r]) = NoRow \/ now - Lookup(key[r]) > Ttl
    BY <1>1, <1>4, CacheServerAssumption DEF Load, HoldsFresh, Lookup, SharedTyped, Row
  <2> QED
    BY <1>1, <1>4, <2>1 DEF Load, InOrder, HandlersTyped, request, shared
<1>5. CASE BeginWait(r) \/ PollAgain(r) \/ PollFinds(r) \/ Start(r)
  BY <1>1, <1>5 DEF BeginWait, PollAgain, PollFinds, Start, InOrder, HandlersTyped, request, shared
<1>6. CASE FetchOk(r)
  BY <1>1, <1>6 DEF FetchOk, InOrder, HandlersTyped, request, shared
<1>7. CASE FetchFails(r) \/ StoreFails(r)
  BY <1>1, <1>7 DEF FetchFails, StoreFails, FallBack, InOrder, HandlersTyped, request, shared
<1>8. CASE Store(r)
  BY <1>1, <1>8 DEF Store, InOrder, HandlersTyped, request, shared
<1> QED
  BY <1>2, <1>3, <1>4, <1>5, <1>6, <1>7, <1>8 DEF Handler

LEMMA InOrderNext ==
  ASSUME CacheInv, RequestsInOrder, [Next]_vars
  PROVE  RequestsInOrder'
<1>1. HandlersTyped /\ SharedTyped
  BY TypeParts DEF CacheInv
<1>2. ASSUME NEW r \in Readers, Arrive(r) \/ Handler(r) \/ HangUp(r)
      PROVE  RequestsInOrder'
  <2> SUFFICES ASSUME NEW q \in Readers PROVE InOrder(q)'
    BY DEF RequestsInOrder
  <2>1. CASE q = r
    BY <1>2, <2>1, HandlerInOrder DEF RequestsInOrder
  <2>2. CASE q # r
    BY <1>1, <1>2, <2>2, OthersStand DEF RequestsInOrder, InOrder
  <2> QED
    BY <2>1, <2>2
<1>3. CASE Tick
  <2>1. \A r \in Readers : cached[r] # NoRow => cached[r] \in Int
    BY <1>1 DEF HandlersTyped, Row
  <2>2. now \in Int /\ Ttl \in Int
    BY <1>1, CacheServerAssumption DEF SharedTyped
  <2> QED
    BY <1>3, <2>1, <2>2 DEF Tick, RequestsInOrder, InOrder, request
<1>4. CASE Crash
  BY <1>4 DEF Crash, RequestsInOrder, InOrder
<1>5. CASE UNCHANGED vars
  BY <1>5 DEF vars, RequestsInOrder, InOrder
<1> QED
  BY <1>2, <1>3, <1>4, <1>5 DEF Next

LEMMA InOrderInit == Init => RequestsInOrder
BY DEF Init, RequestsInOrder, InOrder

THEOREM EveryRequestInOrder == Spec => []RequestsInOrder
<1>1. CacheInv /\ RequestsInOrder /\ [Next]_vars => RequestsInOrder'
  BY InOrderNext
<1> QED
  BY <1>1, InOrderInit, CacheInvariant, PTL DEF Spec

-------------------------------------------------------------------------------
(* Each step is a step of ReadThrough *)

\* The pending requests are the ones that have a handler and no answer yet.
LEMMA PendingRequests ==
  ASSUME CacheInv, RequestsInOrder, NEW r \in Readers
  PROVE  /\ key[r] # NoKey <=> pc[r] # "idle"
         /\ Promise!Pending(r) <=> pc[r] \notin {"idle", "release"}
BY DEF CacheInv, TypeOK, RequestsInOrder, InOrder, Promise!Pending

\* Who has loaded and was not refused may fetch.
LEMMA MayFetch ==
  ASSUME CacheInv, RequestsInOrder, NEW r \in Readers, pc[r] \notin {"idle", "load"}
  PROVE  Promise!Allowed(r) /\ Promise!NeedsFetch(r)
BY DEF RequestsInOrder, InOrder, Promise!Allowed, Promise!NeedsFetch

\* A handler that returns sends the answer it has, or one that needs no fetch.
LEMMA ReturnReplies ==
  ASSUME CacheInv, RequestsInOrder, NEW r \in Readers, NEW how \in Promise!Answers,
         pc[r] # "idle", rows' = rows, now' = now, Return(r, how),
         \/ pc[r] = "release" /\ how = answer[r]
         \/ pc[r] \notin {"store", "release"} /\ (Promise!Deserved(r, how) \/ how = "none")
  PROVE  Promise!Next
<1>1. key[r] # NoKey
  BY PendingRequests
<1>2. \/ answer[r] # "none" /\ how = answer[r]
      \/ answer[r] = "none" /\ fetched[r] = NoRow /\ (Promise!Deserved(r, how) \/ how = "none")
  BY DEF RequestsInOrder, InOrder
<1>3. Promise!Reply(r, how)
  BY <1>1, <1>2 DEF Promise!Reply, Return
<1> QED
  BY <1>3 DEF Promise!Next

\* Every early answer is deserved.
LEMMA EarlyAnswers ==
  ASSUME CacheInv, RequestsInOrder, NEW r \in Readers,
         \/ Refuse(r) \/ LoadFails(r) \/ Hit(r) \/ ServeStale(r) \/ PollGivesUp(r)
         \/ Reload(r) \/ Release(r) \/ HangUp(r)
  PROVE  Promise!Next
<1>1. /\ pc[r] \in {"load", "wait", "reload"} => cached[r] = NoRow
      /\ pc[r] \notin {"idle", "load"} => key[r] \in AllowedKeys
      /\ NoRow \notin Row
  BY CacheServerAssumption DEF RequestsInOrder, InOrder, Row
<1>2. CASE Refuse(r)
  <2>1. Promise!Deserved(r, "refused")
    BY <1>1, <1>2 DEF Refuse, Promise!Deserved, Promise!Allowed
  <2> QED
    BY <1>2, <2>1, ReturnReplies DEF Refuse, Promise!Answers, shared
<1>3. CASE LoadFails(r)
  <2>1. Promise!Deserved(r, "server_error")
    BY <1>1, <1>3 DEF LoadFails, Promise!Deserved
  <2> QED
    BY <1>3, <2>1, ReturnReplies DEF LoadFails, Promise!Answers, shared
<1>4. CASE Hit(r)
  <2>1. Promise!Deserved(r, "HIT")
    BY <1>1, <1>4 DEF Hit, HoldsFresh, Promise!Deserved, Promise!Allowed
  <2> QED
    BY <1>4, <2>1, ReturnReplies DEF Hit, Promise!Answers, shared
<1>5. CASE ServeStale(r)
  <2>1. Promise!Deserved(r, "STALE")
    BY <1>5, MayFetch DEF ServeStale, Promise!Deserved
  <2> QED
    BY <1>5, <2>1, ReturnReplies DEF ServeStale, Promise!Answers, shared
<1>6. CASE PollGivesUp(r)
  <2>1. Promise!Deserved(r, "unavailable")
    BY <1>1, <1>6 DEF PollGivesUp, Promise!Deserved, Promise!Allowed
  <2> QED
    BY <1>6, <2>1, ReturnReplies DEF PollGivesUp, Promise!Answers, shared
<1>7. CASE Reload(r)
  <2>1. CASE Lookup(key[r]) # NoRow
    <3>1. key[r] \in DOMAIN rows
      BY <2>1 DEF Lookup
    <3>2. Promise!Deserved(r, "HIT")
      BY <1>1, <1>7, <3>1 DEF Reload, Promise!Deserved, Promise!Allowed
    <3> QED
      BY <1>7, <2>1, <3>2, ReturnReplies DEF Reload, Promise!Answers, shared
  <2>2. CASE Lookup(key[r]) = NoRow
    <3>1. Promise!Deserved(r, "unavailable")
      BY <1>1, <1>7 DEF Reload, Promise!Deserved, Promise!Allowed
    <3> QED
      BY <1>7, <2>2, <3>1, ReturnReplies DEF Reload, Promise!Answers, shared
  <2> QED
    BY <2>1, <2>2
<1>8. CASE Release(r)
  <2>1. answer[r] \in Promise!Answers
    BY DEF CacheInv, TypeOK, Served, Errors, Promise!Answers
  <2> QED
    BY <1>8, <2>1, ReturnReplies DEF Release
<1>9. CASE HangUp(r)
  BY <1>9, ReturnReplies DEF HangUp, Promise!Answers
<1> QED
  BY <1>2, <1>3, <1>4, <1>5, <1>6, <1>7, <1>8, <1>9

\* A handler that loads finds the row of its key, or has nothing to find.
LEMMA LoadFinds ==
  ASSUME CacheInv, RequestsInOrder, NEW r \in Readers, Load(r)
  PROVE  Promise!Next \/ UNCHANGED Promise!vars
<1>1. pc[r] = "load" /\ cached[r] = NoRow /\ fetched[r] = NoRow
  BY DEF Load, RequestsInOrder, InOrder
<1>2. UNCHANGED <<rows, now, key, force, fetched, answer>>
  BY DEF Load, shared, request
<1>3. cached' = [cached EXCEPT ![r] = Lookup(key[r])]
  BY DEF Load
<1>4. cached \in [Readers -> Row \cup {NoRow}]
  BY DEF CacheInv, TypeOK
<1>5. CASE key[r] \in DOMAIN rows
  <2>1. cached' = [cached EXCEPT ![r] = rows[key[r]]] /\ cached'[r] = rows[key[r]]
    BY <1>3, <1>4, <1>5 DEF Lookup
  <2>2. rows[key[r]] \in Int /\ now \in Int /\ Ttl \in Int
    BY <1>5, CacheServerAssumption DEF CacheInv, TypeOK, Row
  <2>3. force[r] \/ now - rows[key[r]] > Ttl
    BY <1>5, <2>2 DEF Load, HoldsFresh
  <2>4. Promise!NeedsFetch(r)'
    BY <1>2, <2>1, <2>3 DEF Promise!NeedsFetch
  <2>5. Promise!Pending(r) /\ Promise!Allowed(r)
    BY <1>1, PendingRequests DEF Load, Promise!Allowed
  <2>6. Promise!Find(r)
    BY <1>1, <1>2, <1>5, <2>1, <2>4, <2>5 DEF Promise!Find
  <2> QED
    BY <2>6 DEF Promise!Next
<1>6. CASE key[r] \notin DOMAIN rows
  <2>1. cached' = cached
    BY <1>1, <1>3, <1>4, <1>6 DEF Lookup
  <2> QED
    BY <1>2, <2>1 DEF Promise!vars
<1> QED
  BY <1>5, <1>6

\* A fetch is the only one of its key, and needed.
LEMMA FetchFetches ==
  ASSUME CacheInv, RequestsInOrder, NEW r \in Readers, FetchOk(r)
  PROVE  Promise!Next
<1>1. ASSUME NEW q \in Readers, key[q] = key[r] PROVE fetched[q] = NoRow
  <2>1. CASE Guarding(q)
    <3>1. q = r
      BY <1>1, <2>1 DEF FetchOk, CacheInv, OneFetchPerKey, Guarding
    <3> QED
      BY <3>1 DEF FetchOk, RequestsInOrder, InOrder
  <2>2. CASE ~Guarding(q)
    BY <2>2 DEF Guarding, RequestsInOrder, InOrder
  <2> QED
    BY <2>1, <2>2
<1>2. Promise!Pending(r) /\ Promise!Allowed(r) /\ Promise!NeedsFetch(r)
  BY MayFetch, PendingRequests DEF FetchOk
<1>3. Promise!Fetch(r)
  BY <1>1, <1>2 DEF FetchOk, Promise!Fetch, shared, request
<1> QED
  BY <1>3 DEF Promise!Next

\* A response about to be stored is a response that was got, and is no older
\* than the row of its key.
LEMMA ToBeStored ==
  ASSUME CacheInv, RequestsInOrder, NEW r \in Readers, pc[r] = "store"
  PROVE  /\ Promise!Pending(r) /\ fetched[r] # NoRow /\ Promise!NoOlder(r)
         /\ Upsert(key[r], fetched[r]) = Promise!Put(key[r], fetched[r])
         /\ Stamped(Upsert(key[r], fetched[r]))
<1>1. HandlersTyped /\ SharedTyped
  BY TypeParts DEF CacheInv
<1>2. key[r] \in Keys /\ fetched[r] \in Row
  BY <1>1 DEF HandlersTyped, CacheInv, StampsInOrder
<1>3. Promise!Pending(r) /\ fetched[r] # NoRow /\ Promise!NoOlder(r)
  BY <1>2, PendingRequests, CacheServerAssumption
     DEF CacheInv, StampsInOrder, Promise!NoOlder, Row
<1>4. Stamped(Upsert(key[r], fetched[r]))
  <2> DEFINE table == Upsert(key[r], fetched[r])
  <2>1. /\ DOMAIN table = DOMAIN rows \cup {key[r]}
        /\ table \in [DOMAIN rows \cup {key[r]} -> Row]
    BY <1>1, <1>2, UpsertTyped
  <2> HIDE DEF table
  <2>2. DOMAIN table \in SUBSET Keys
    BY <1>1, <1>2, <2>1 DEF SharedTyped
  <2>3. IsFiniteSet(DOMAIN table) /\ DOMAIN table \subseteq Int
    BY <2>2, CacheServerAssumption, FS_Subset
  <2>4. \A k \in DOMAIN table : table[k] \in Int
    BY <2>1 DEF Row
  <2>5. Stamped(table)
    BY <2>3, <2>4 DEF Stamped
  <2> QED
    BY <2>5 DEF table
<1> QED
  BY <1>3, <1>4 DEF Upsert, Promise!Put

\* A store that completes leaves the rows that fit.
LEMMA StoreStores ==
  ASSUME CacheInv, RequestsInOrder, NEW r \in Readers, Store(r)
  PROVE  Promise!Next
<1> DEFINE table == Promise!Put(key[r], fetched[r])
           kept == DOMAIN rows'
<1>1. pc[r] = "store"
  BY DEF Store
<1>2. /\ Promise!Pending(r) /\ fetched[r] # NoRow /\ Promise!NoOlder(r)
      /\ table = Upsert(key[r], fetched[r]) /\ Stamped(table)
  BY <1>1, ToBeStored
<1>3. rows' = EvictOldest(table)
  BY <1>2 DEF Store
<1>4. /\ kept \subseteq DOMAIN table
      /\ rows' = [k \in kept |-> table[k]]
  BY <1>3, EvictShrinks
<1>5. Promise!Trimmed(table, kept)
  <2>1. \A j \in DOMAIN table \ kept, k \in kept : Promise!GoesFirst(table, j, k)
    <3> SUFFICES ASSUME NEW j \in DOMAIN table \ kept, NEW k \in kept
                 PROVE  Promise!GoesFirst(table, j, k)
      OBVIOUS
    <3>1. ~NotAfter(table, k, j)
      BY <1>2, <1>3, EvictionTrims
    <3>2. j \in Int /\ k \in Int /\ table[j] \in Int /\ table[k] \in Int
      BY <1>2, <1>4 DEF Stamped
    <3> QED
      <4> HIDE DEF table, kept
      <4> QED
        BY <3>1, <3>2 DEF NotAfter, Promise!GoesFirst
  <2>2. /\ Cardinality(DOMAIN table) <= MaxEntries => kept = DOMAIN table
        /\ Cardinality(DOMAIN table) > MaxEntries => Cardinality(kept) = MaxEntries
    BY <1>2, <1>3, EvictionTrims
  <2> QED
    BY <1>4, <2>1, <2>2 DEF Promise!Trimmed, Promise!Cardinality, Cardinality
<1>6. kept \in SUBSET (DOMAIN rows \cup {key[r]})
  BY <1>4 DEF Promise!Put
<1>7. /\ answer' = [answer EXCEPT ![r] = IF cached[r] # NoRow THEN "REFRESHED" ELSE "MISS"]
      /\ UNCHANGED <<now, key, force, cached, fetched>>
  BY DEF Store, request
<1>8. Promise!Store(r)
  <2> HIDE DEF table, kept
  <2>1. \E kp \in SUBSET (DOMAIN rows \cup {key[r]}) :
          Promise!Trimmed(table, kp) /\ rows' = [k \in kp |-> table[k]]
    BY <1>4, <1>5, <1>6
  <2> QED
    BY <1>2, <1>7, <2>1 DEF Promise!Store, table
<1> QED
  BY <1>8 DEF Promise!Next

\* A fetch or a store that fails is given up.
LEMMA FailureGivesUp ==
  ASSUME CacheInv, RequestsInOrder, NEW r \in Readers, FetchFails(r) \/ StoreFails(r)
  PROVE  Promise!Next
<1>1. pc[r] \in {"fetch", "store"}
  BY DEF FetchFails, StoreFails
<1>2. Promise!Pending(r) /\ Promise!Allowed(r) /\ Promise!NeedsFetch(r)
  BY <1>1, MayFetch, PendingRequests
<1>3. rows' = rows \/ Promise!CutShort(r)
  <2>1. CASE StoreFails(r)
    BY <2>1, ToBeStored DEF StoreFails, Promise!CutShort
  <2> QED
    BY <2>1 DEF FetchFails, shared
<1>4. /\ answer' = [answer EXCEPT ![r] = IF cached[r] # NoRow THEN "STALE" ELSE "bad_gateway"]
      /\ UNCHANGED <<now, key, force, cached, fetched>>
  BY DEF FetchFails, StoreFails, FallBack, shared, request
<1>5. Promise!GiveUp(r)
  BY <1>2, <1>3, <1>4 DEF Promise!GiveUp
<1> QED
  BY <1>5 DEF Promise!Next

\* The steps that clients do not see.
LEMMA HiddenSteps ==
  ASSUME NEW r \in Readers, BeginWait(r) \/ PollAgain(r) \/ PollFinds(r) \/ Start(r)
  PROVE  UNCHANGED Promise!vars
BY DEF BeginWait, PollAgain, PollFinds, Start, shared, request, Promise!vars

LEMMA ArriveAsks ==
  ASSUME CacheInv, RequestsInOrder, NEW r \in Readers, Arrive(r)
  PROVE  Promise!Next
<1>1. key[r] = NoKey
  BY PendingRequests DEF Arrive
<1>2. Promise!Ask(r)
  BY <1>1 DEF Arrive, Promise!Ask, shared
<1> QED
  BY <1>2 DEF Promise!Next

LEMMA CrashRestarts ==
  ASSUME CacheInv, RequestsInOrder, Crash
  PROVE  Promise!Next
<1>1. rows' = rows \/ \E r \in Readers : Promise!CutShort(r)
  BY ToBeStored DEF Crash, Promise!CutShort
<1>2. Promise!Restart
  BY <1>1 DEF Crash, Promise!Restart
<1> QED
  BY <1>2 DEF Promise!Next

LEMMA StepsKeepPromise ==
  ASSUME CacheInv, RequestsInOrder, [Next]_vars
  PROVE  Promise!Next \/ UNCHANGED Promise!vars
<1>1. ASSUME NEW r \in Readers, Arrive(r) \/ Handler(r) \/ HangUp(r)
      PROVE  Promise!Next \/ UNCHANGED Promise!vars
  BY <1>1, ArriveAsks, EarlyAnswers, LoadFinds, HiddenSteps, FetchFetches, StoreStores,
     FailureGivesUp DEF Handler
<1>2. CASE Tick
  <2>1. Promise!Tick
    BY <1>2 DEF Tick, Promise!Tick, request
  <2> QED
    BY <2>1 DEF Promise!Next
<1>3. CASE Crash
  BY <1>3, CrashRestarts
<1>4. CASE UNCHANGED vars
  BY <1>4 DEF vars, Promise!vars
<1> QED
  BY <1>1, <1>2, <1>3, <1>4 DEF Next

\* Whatever its handlers interleave with, fetches that fail, clients that hang
\* up and restarts, the cache keeps the promise of ReadThrough.
THEOREM CacheKeepsPromise == Spec => ImplementsReadThrough
<1>1. Init => Promise!Init
  BY DEF Init, Promise!Init
<1>2. CacheInv /\ RequestsInOrder /\ [Next]_vars => [Promise!Next]_(Promise!vars)
  BY StepsKeepPromise
<1> QED
  BY <1>1, <1>2, CacheInvariant, EveryRequestInOrder, PTL
     DEF Spec, ImplementsReadThrough, Promise!Spec
===============================================================================
