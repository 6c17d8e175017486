------------------------------ MODULE ReadThrough ------------------------------
(***************************************************************************)
(* What the cache promises to those who read through it, without the       *)
(* in-flight set, the polling and the critical sections that achieve it.   *)
(*                                                                         *)
(* A request is answered from the table, or by a fetch of its own.  No two *)
(* requests fetch a key at once; a fetch is made for a request that nobody *)
(* refuses and that no fresh row answers; what was fetched is stored, or   *)
(* the request is told that it was not; a row is never replaced by an      *)
(* older one; and the table outgrows its room by the rows of stores that   *)
(* were cut short only, losing its oldest rows to the next that is not.    *)
(*                                                                         *)
(* CacheServer implements this specification.                              *)
(***************************************************************************)
EXTENDS Integers, FiniteSets

CONSTANTS
  Readers,     \* those who make requests, one at a time each
  Keys,        \* what is read: numbers in the order of their names
  AllowedKeys, \* the keys that may be read
  MaxEntries,  \* the rows that the table has room for
  Ttl,         \* how long a row is fresh
  NoKey,       \* the key of a reader without a request
  NoRow        \* what is seen or got when nothing is

VARIABLES
  held,    \* the table: when the row of each key was fetched
  time,    \* the clock
  wanted,  \* the key that each reader asks for
  forced,  \* whether it asks for a forced refresh
  seen,    \* the row that was found for it
  got,     \* when the response that was fetched for it came in
  told     \* what it is answered

vars == <<held, time, wanted, forced, seen, got, told>>

Put(k, row) == [j \in DOMAIN held \cup {k} |-> IF j = k THEN row ELSE held[j]]

\* Row j goes before row k when one of them has to.
GoesFirst(table, j, k) == table[j] < table[k] \/ (table[j] = table[k] /\ j < k)

\* A row that is stored is no older than the one it replaces.
NoOlder(r) == wanted[r] \in DOMAIN held => held[wanted[r]] <= got[r]

\* What of a table there is room for: all of it, or its youngest rows.
Trimmed(table, kept) ==
  /\ kept \subseteq DOMAIN table
  /\ Cardinality(DOMAIN table) <= MaxEntries => kept = DOMAIN table
  /\ Cardinality(DOMAIN table) > MaxEntries => Cardinality(kept) = MaxEntries
  /\ \A j \in DOMAIN table \ kept, k \in kept : GoesFirst(table, j, k)

Init ==
  /\ held = [k \in {} |-> NoRow]
  /\ time = 0
  /\ wanted = [r \in Readers |-> NoKey]
  /\ forced = [r \in Readers |-> FALSE]
  /\ seen = [r \in Readers |-> NoRow]
  /\ got = [r \in Readers |-> NoRow]
  /\ told = [r \in Readers |-> "none"]

\* Asked for, and neither answered nor about to be.
Pending(r) == wanted[r] # NoKey /\ told[r] = "none"

Allowed(r) == wanted[r] \in AllowedKeys

\* No fresh row answers the request.
NeedsFetch(r) == forced[r] \/ seen[r] = NoRow \/ time - seen[r] > Ttl

-------------------------------------------------------------------------------

Ask(r) ==
  /\ wanted[r] = NoKey
  /\ \E k \in Keys, f \in BOOLEAN :
       /\ wanted' = [wanted EXCEPT ![r] = k]
       /\ forced' = [forced EXCEPT ![r] = f]
  /\ told' = [told EXCEPT ![r] = "none"]
  /\ UNCHANGED <<held, time, seen, got>>

Find(r) ==
  /\ Pending(r) /\ Allowed(r) /\ got[r] = NoRow
  /\ wanted[r] \in DOMAIN held
  /\ seen' = [seen EXCEPT ![r] = held[wanted[r]]]
  /\ NeedsFetch(r)'
  /\ UNCHANGED <<held, time, wanted, forced, got, told>>

Fetch(r) ==
  /\ Pending(r) /\ Allowed(r) /\ NeedsFetch(r)
  /\ \A q \in Readers : wanted[q] = wanted[r] => got[q] = NoRow
  /\ got' = [got EXCEPT ![r] = time]
  /\ UNCHANGED <<held, time, wanted, forced, seen, told>>

Store(r) ==
  /\ Pending(r) /\ got[r] # NoRow
  /\ NoOlder(r)
  /\ \E kept \in SUBSET (DOMAIN held \cup {wanted[r]}) :
       /\ Trimmed(Put(wanted[r], got[r]), kept)
       /\ held' = [k \in kept |-> Put(wanted[r], got[r])[k]]
  /\ told' = [told EXCEPT ![r] = IF seen[r] # NoRow THEN "REFRESHED" ELSE "MISS"]
  /\ UNCHANGED <<time, wanted, forced, seen, got>>

\* A store that is cut short has put its row into the table or has not, and
\* has not trimmed the table for it.
CutShort(r) ==
  /\ Pending(r) /\ got[r] # NoRow /\ NoOlder(r)
  /\ held' = Put(wanted[r], got[r])

\* The fetch or the store failed.
GiveUp(r) ==
  /\ Pending(r) /\ Allowed(r) /\ NeedsFetch(r)
  /\ held' = held \/ CutShort(r)
  /\ told' = [told EXCEPT ![r] = IF seen[r] # NoRow THEN "STALE" ELSE "bad_gateway"]
  /\ UNCHANGED <<time, wanted, forced, seen, got>>

\* What a request may be answered that did not fetch.
Deserved(r, how) ==
  \/ how = "HIT" /\ Allowed(r) /\ seen[r] = NoRow /\ wanted[r] \in DOMAIN held
  \/ how = "STALE" /\ Allowed(r) /\ seen[r] # NoRow /\ NeedsFetch(r)
  \/ how = "refused" /\ seen[r] = NoRow /\ (forced[r] \/ ~Allowed(r))
  \/ how = "unavailable" /\ Allowed(r) /\ seen[r] = NoRow
  \/ how = "server_error" /\ seen[r] = NoRow

\* The answer goes out, and the request is forgotten.
Reply(r, how) ==
  /\ wanted[r] # NoKey
  /\ \/ told[r] # "none" /\ how = told[r]
     \/ told[r] = "none" /\ got[r] = NoRow /\ (Deserved(r, how) \/ how = "none")
  /\ wanted' = [wanted EXCEPT ![r] = NoKey]
  /\ forced' = [forced EXCEPT ![r] = FALSE]
  /\ seen' = [seen EXCEPT ![r] = NoRow]
  /\ got' = [got EXCEPT ![r] = NoRow]
  /\ told' = [told EXCEPT ![r] = how]
  /\ UNCHANGED <<held, time>>

Tick ==
  /\ time' = time + 1
  /\ UNCHANGED <<held, wanted, forced, seen, got, told>>

\* Every request is lost, and a store may be cut short.
Restart ==
  /\ held' = held \/ \E r \in Readers : CutShort(r)
  /\ wanted' = [r \in Readers |-> NoKey]
  /\ forced' = [r \in Readers |-> FALSE]
  /\ seen' = [r \in Readers |-> NoRow]
  /\ got' = [r \in Readers |-> NoRow]
  /\ told' = [r \in Readers |-> "none"]
  /\ UNCHANGED time

Answers == {"HIT", "MISS", "REFRESHED", "STALE", "refused", "unavailable", "bad_gateway",
            "server_error", "none"}

Next ==
  \/ Tick
  \/ Restart
  \/ \E r \in Readers : Ask(r) \/ Find(r) \/ Fetch(r) \/ Store(r) \/ GiveUp(r)
  \/ \E r \in Readers, how \in Answers : Reply(r, how)

Spec == Init /\ [][Next]_vars
===============================================================================
