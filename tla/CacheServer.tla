------------------------------ MODULE CacheServer ------------------------------
(***************************************************************************)
(* The read-through cache of public sandbox reads: handlers that answer    *)
(* from a SQLite table, or fetch from the upstream and store what they got.*)
(*                                                                         *)
(* A handler that means to fetch first enters its key in the in-flight set;*)
(* one that finds its key there serves the row it has loaded, or waits for *)
(* the other's fetch.  The table and the set have a mutex each, so a       *)
(* handler acts on a row it loaded some steps before.  The table survives  *)
(* a crash and the set does not.                                           *)
(***************************************************************************)
EXTENDS Integers, FiniteSets

CONSTANTS
  Readers,          \* connections, each with one request at a time
  Keys,             \* cache keys: numbers in the order of their names
  RegistrationKeys, \* the keys of the registration-certificates endpoint
  AllowedKeys,      \* the keys that enforce_allowed_rp lets pass
  MaxEntries,       \* AppState::max_entries
  Ttl,              \* AppState::ttl
  MaxPolls,         \* the polls of wait_for_inflight_cache, 80 in the code
  MaxTime,          \* bound: the clock stops here
  MaxCrashes,       \* bound: how often the server restarts
  NoKey,            \* the key of a handler without a request
  NoRow             \* what load_cached returns for an absent key

ASSUME CacheServerAssumption ==
  /\ IsFiniteSet(Readers) /\ IsFiniteSet(Keys)
  /\ Keys \subseteq Int
  /\ Keys \ RegistrationKeys \subseteq AllowedKeys /\ AllowedKeys \subseteq Keys
  /\ MaxEntries \in Nat \ {0}
  /\ {Ttl, MaxPolls, MaxTime, MaxCrashes} \subseteq Nat
  /\ NoRow \notin 0..MaxTime /\ NoKey \notin Keys

VARIABLES
  rows,      \* the table cached_responses: fetched_at of each stored key
  inflight,  \* AppState::inflight
  now,       \* Utc::now
  crashes,   \* how often the server restarted
  pc,        \* where each handler stands
  key,       \* CacheRequest::key of each request
  force,     \* whether the request is a forced refresh
  cached,    \* the row that cached_or_fetch loaded
  fetched,   \* fetched_at of the response that is to be stored
  polls,     \* the polls made by wait_for_inflight_cache
  answer     \* x-augenmass-cache of the response, or the kind of error

shared == <<rows, inflight, now, crashes>>
request == <<key, force>>
vars == <<rows, inflight, now, crashes, pc, key, force, cached, fetched, polls, answer>>

\* What the upstream may answer, by what the code tells apart.
Responses ==
  {"unreachable", "error_status", "over_cap", "not_json", "json", "registrations"}

\* The responses that fetch_and_store accepts for key k: a success within the
\* body cap that validate_upstream_body lets pass.
Storable(k) == IF k \in RegistrationKeys THEN {"registrations"} ELSE {"json", "registrations"}

Row == 0..MaxTime

Served == {"HIT", "MISS", "REFRESHED", "STALE"}
Errors == {"refused", "unavailable", "bad_gateway", "server_error"}

PCs == {"idle", "load", "start", "wait", "reload", "fetch", "store", "release"}

TypeOK ==
  /\ DOMAIN rows \subseteq Keys /\ rows \in [DOMAIN rows -> Row]
  /\ inflight \in SUBSET Keys
  /\ now \in 0..MaxTime
  /\ crashes \in 0..MaxCrashes
  /\ pc \in [Readers -> PCs]
  /\ key \in [Readers -> Keys \cup {NoKey}]
  /\ \A r \in Readers : key[r] = NoKey <=> pc[r] = "idle"
  /\ force \in [Readers -> BOOLEAN]
  /\ cached \in [Readers -> Row \cup {NoRow}]
  /\ fetched \in [Readers -> Row \cup {NoRow}]
  /\ polls \in [Readers -> 0..MaxPolls]
  /\ answer \in [Readers -> Served \cup Errors \cup {"none"}]

Lookup(k) == IF k \in DOMAIN rows THEN rows[k] ELSE NoRow

\* is_fresh, of the row that the table holds now
HoldsFresh(k) == k \in DOMAIN rows /\ now - rows[k] <= Ttl

\* A handler that owns an InflightGuard.
Guarding(r) == pc[r] \in {"fetch", "store", "release"}

-------------------------------------------------------------------------------
(* The table *)

\* order by fetched_at asc, key asc
NotAfter(table, j, k) ==
  \/ table[j] < table[k]
  \/ table[j] = table[k] /\ j <= k

\* Mutant: order by fetched_at desc.
EvictOldest_Youngest(table) ==
  LET overflow == Cardinality(DOMAIN table) - MaxEntries
      victims == {k \in DOMAIN table :
                    Cardinality({j \in DOMAIN table : NotAfter(table, k, j)}) <= overflow}
  IN  [k \in DOMAIN table \ victims |-> table[k]]

EvictOldest(table) ==
  LET overflow == Cardinality(DOMAIN table) - MaxEntries
      victims == {k \in DOMAIN table :
                    Cardinality({j \in DOMAIN table : NotAfter(table, j, k)}) <= overflow}
  IN  [k \in DOMAIN table \ victims |-> table[k]]

Upsert(k, row) == [j \in DOMAIN rows \cup {k} |-> IF j = k THEN row ELSE rows[j]]

Init ==
  /\ rows = [k \in {} |-> NoRow]
  /\ inflight = {}
  /\ now = 0
  /\ crashes = 0
  /\ pc = [r \in Readers |-> "idle"]
  /\ key = [r \in Readers |-> NoKey]
  /\ force = [r \in Readers |-> FALSE]
  /\ cached = [r \in Readers |-> NoRow]
  /\ fetched = [r \in Readers |-> NoRow]
  /\ polls = [r \in Readers |-> 0]
  /\ answer = [r \in Readers |-> "none"]

-------------------------------------------------------------------------------
(* A request *)

\* The handler returns: what it held is forgotten with it.
Return(r, how) ==
  /\ pc' = [pc EXCEPT ![r] = "idle"]
  /\ key' = [key EXCEPT ![r] = NoKey]
  /\ force' = [force EXCEPT ![r] = FALSE]
  /\ answer' = [answer EXCEPT ![r] = how]
  /\ cached' = [cached EXCEPT ![r] = NoRow]
  /\ fetched' = [fetched EXCEPT ![r] = NoRow]
  /\ polls' = [polls EXCEPT ![r] = 0]

Arrive(r) ==
  /\ pc[r] = "idle"
  /\ \E k \in Keys, f \in BOOLEAN :
       /\ key' = [key EXCEPT ![r] = k]
       /\ force' = [force EXCEPT ![r] = f]
  /\ pc' = [pc EXCEPT ![r] = "load"]
  /\ answer' = [answer EXCEPT ![r] = "none"]
  /\ UNCHANGED <<shared, cached, fetched, polls>>

\* A refresh without the admin token, or a key of an RP that is not allowed.
Refuse(r) ==
  /\ pc[r] = "load"
  /\ force[r] \/ key[r] \notin AllowedKeys
  /\ Return(r, "refused")
  /\ UNCHANGED shared

\* The table cannot be read.
LoadFails(r) ==
  /\ pc[r] \in {"load", "reload"}
  /\ Return(r, "server_error")
  /\ UNCHANGED shared

Hit(r) ==
  /\ pc[r] = "load" /\ key[r] \in AllowedKeys
  /\ ~force[r] /\ HoldsFresh(key[r])
  /\ Return(r, "HIT")
  /\ UNCHANGED shared

Load(r) ==
  /\ pc[r] = "load" /\ key[r] \in AllowedKeys
  /\ force[r] \/ ~HoldsFresh(key[r])
  /\ cached' = [cached EXCEPT ![r] = Lookup(key[r])]
  /\ pc' = [pc EXCEPT ![r] = "start"]
  /\ UNCHANGED <<shared, request, fetched, polls, answer>>

-------------------------------------------------------------------------------
(* Somebody else is fetching *)

ServeStale(r) ==
  /\ pc[r] = "start" /\ key[r] \in inflight
  /\ cached[r] # NoRow
  /\ Return(r, "STALE")
  /\ UNCHANGED shared

BeginWait(r) ==
  /\ pc[r] = "start" /\ key[r] \in inflight
  /\ cached[r] = NoRow
  /\ pc' = [pc EXCEPT ![r] = "wait"]
  /\ UNCHANGED <<shared, request, cached, fetched, polls, answer>>

\* Mutant: one poll more.
PollAgain_OneMore(r) ==
  /\ pc[r] = "wait" /\ polls[r] <= MaxPolls
  /\ key[r] \in inflight
  /\ polls' = [polls EXCEPT ![r] = @ + 1]
  /\ UNCHANGED <<shared, request, pc, cached, fetched, answer>>

\* Mutant: the polls are not counted.
PollAgain_Uncounted(r) ==
  /\ pc[r] = "wait" /\ polls[r] < MaxPolls
  /\ key[r] \in inflight
  /\ UNCHANGED vars

PollAgain(r) ==
  /\ pc[r] = "wait" /\ polls[r] < MaxPolls
  /\ key[r] \in inflight
  /\ polls' = [polls EXCEPT ![r] = @ + 1]
  /\ UNCHANGED <<shared, request, pc, cached, fetched, answer>>

PollGivesUp(r) ==
  /\ pc[r] = "wait" /\ polls[r] = MaxPolls
  /\ Return(r, "unavailable")
  /\ UNCHANGED shared

PollFinds(r) ==
  /\ pc[r] = "wait" /\ polls[r] < MaxPolls
  /\ key[r] \notin inflight
  /\ pc' = [pc EXCEPT ![r] = "reload"]
  /\ UNCHANGED <<shared, request, cached, fetched, polls, answer>>

Reload(r) ==
  /\ pc[r] = "reload"
  /\ Return(r, IF Lookup(key[r]) # NoRow THEN "HIT" ELSE "unavailable")
  /\ UNCHANGED shared

-------------------------------------------------------------------------------
(* Fetching *)

\* Mutant: try_start does not look for the key.
Start_NoCheck(r) ==
  /\ pc[r] = "start"
  /\ inflight' = inflight \cup {key[r]}
  /\ pc' = [pc EXCEPT ![r] = "fetch"]
  /\ UNCHANGED <<rows, now, crashes, request, cached, fetched, polls, answer>>

\* InflightGuard::try_start, which does not load the row again.
Start(r) ==
  /\ pc[r] = "start" /\ key[r] \notin inflight
  /\ inflight' = inflight \cup {key[r]}
  /\ pc' = [pc EXCEPT ![r] = "fetch"]
  /\ UNCHANGED <<rows, now, crashes, request, cached, fetched, polls, answer>>

\* Mutant: the guard covers the fetch and not the store.
FetchOk_DropsGuard(r) ==
  /\ pc[r] = "fetch"
  /\ fetched' = [fetched EXCEPT ![r] = now]
  /\ pc' = [pc EXCEPT ![r] = "store"]
  /\ inflight' = inflight \ {key[r]}
  /\ UNCHANGED <<rows, now, crashes, request, cached, polls, answer>>

FetchOk(r) ==
  /\ pc[r] = "fetch"
  /\ \E response \in Responses : response \in Storable(key[r])
  /\ fetched' = [fetched EXCEPT ![r] = now]
  /\ pc' = [pc EXCEPT ![r] = "store"]
  /\ UNCHANGED <<shared, request, cached, polls, answer>>

\* The answer to a request whose fetch or store failed.
FallBack(r) ==
  /\ answer' = [answer EXCEPT ![r] = IF cached[r] # NoRow THEN "STALE" ELSE "bad_gateway"]
  /\ pc' = [pc EXCEPT ![r] = "release"]

FetchFails(r) ==
  /\ pc[r] = "fetch"
  /\ \E response \in Responses : response \notin Storable(key[r])
  /\ FallBack(r)
  /\ UNCHANGED <<shared, request, cached, fetched, polls>>

\* store_cached holds the mutex of the table over the insert and the eviction.
Store(r) ==
  /\ pc[r] = "store"
  /\ rows' = EvictOldest(Upsert(key[r], fetched[r]))
  /\ answer' = [answer EXCEPT ![r] = IF cached[r] # NoRow THEN "REFRESHED" ELSE "MISS"]
  /\ pc' = [pc EXCEPT ![r] = "release"]
  /\ UNCHANGED <<inflight, now, crashes, request, cached, fetched, polls>>

\* The insert fails, or what comes after it: the two are no transaction.
StoreFails(r) ==
  /\ pc[r] = "store"
  /\ rows' \in {rows, Upsert(key[r], fetched[r])}
  /\ FallBack(r)
  /\ UNCHANGED <<inflight, now, crashes, request, cached, fetched, polls>>

\* The guard is dropped as cached_or_fetch returns the response it built.
Release(r) ==
  /\ pc[r] = "release"
  /\ inflight' = inflight \ {key[r]}
  /\ Return(r, answer[r])
  /\ UNCHANGED <<rows, now, crashes>>

\* A client that disconnects drops its handler at an await, guard included.
HangUp(r) ==
  /\ pc[r] \in {"wait", "fetch"}
  /\ inflight' = IF Guarding(r) THEN inflight \ {key[r]} ELSE inflight
  /\ Return(r, "none")
  /\ UNCHANGED <<rows, now, crashes>>

-------------------------------------------------------------------------------
(* The process and its clock *)

Tick ==
  /\ now < MaxTime
  /\ now' = now + 1
  /\ UNCHANGED <<rows, inflight, crashes, pc, request, cached, fetched, polls, answer>>

\* The server is killed and started again.  The insert and the eviction of a
\* store are statements of their own, so the row may be there without it.
Crash ==
  /\ crashes < MaxCrashes
  /\ crashes' = crashes + 1
  /\ \/ rows' = rows
     \/ \E r \in Readers : pc[r] = "store" /\ rows' = Upsert(key[r], fetched[r])
  /\ inflight' = {}
  /\ pc' = [r \in Readers |-> "idle"]
  /\ key' = [r \in Readers |-> NoKey]
  /\ force' = [r \in Readers |-> FALSE]
  /\ answer' = [r \in Readers |-> "none"]
  /\ cached' = [r \in Readers |-> NoRow]
  /\ fetched' = [r \in Readers |-> NoRow]
  /\ polls' = [r \in Readers |-> 0]
  /\ UNCHANGED now

Handler(r) ==
  \/ Refuse(r) \/ LoadFails(r) \/ Hit(r) \/ Load(r)
  \/ ServeStale(r) \/ BeginWait(r) \/ PollAgain(r) \/ PollGivesUp(r) \/ PollFinds(r) \/ Reload(r)
  \/ Start(r) \/ FetchOk(r) \/ FetchFails(r) \/ Store(r) \/ StoreFails(r) \/ Release(r)

Next ==
  \/ Tick
  \/ Crash
  \/ \E r \in Readers : Arrive(r) \/ Handler(r) \/ HangUp(r)

Spec == Init /\ [][Next]_vars

\* The runtime schedules every handler that can run; a fetch ends by the
\* timeout of the HTTP client.
FairSpec == Spec /\ \A r \in Readers : WF_vars(Handler(r))

-------------------------------------------------------------------------------
(* Properties *)

\* A key is in flight exactly while a handler is fetching it, and never two
\* are: every way out of a fetch, a disconnected client and a restart too,
\* takes the key out.
OneFetchPerKey ==
  /\ inflight = {key[r] : r \in {q \in Readers : Guarding(q)}}
  /\ \A r, q \in Readers : Guarding(r) /\ Guarding(q) /\ key[r] = key[q] => r = q

\* However fetches, stores and crashes interleave, the row of a key is only
\* replaced by one that was fetched later.
RowsGetNewer ==
  [][\A k \in DOMAIN rows \cap DOMAIN rows' : rows'[k] >= rows[k]]_vars

\* What clients see of the handlers: hits that are hits, one fetch of a key at
\* a time and only for who needs it, answers that tell what became of the
\* response, rows that only get newer, and a table that loses its oldest rows
\* to every response it stores and outgrows its limit only by those whose store
\* was cut short.
Promise == INSTANCE ReadThrough WITH
  held <- rows, time <- now, wanted <- key, forced <- force,
  seen <- cached, got <- fetched, told <- answer

ImplementsReadThrough == Promise!Spec

\* A wait for another's fetch is bounded, even when one fetch follows another.
RequestAnswered == \A r \in Readers : (pc[r] # "idle") ~> (pc[r] = "idle")

===============================================================================
