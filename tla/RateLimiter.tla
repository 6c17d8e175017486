------------------------------ MODULE RateLimiter -----------------------------
(***************************************************************************)
(* The relay's rate limiter: one fixed window per address and bucket, in a *)
(* map of bounded size.  `allow` reads the clock before it waits for the   *)
(* mutex, so a caller may decide with a time that others have overtaken.   *)
(***************************************************************************)
EXTENDS Naturals, FiniteSets, Functions

CONSTANTS
  Askers,      \* the calls of RateLimiter::allow in a behaviour
  Window,      \* RateLimiter::window, at least one
  MaxEntries,  \* RateLimiter::max_entries, at least one
  LastTick     \* bound on the clock

ASSUME RateLimiterAssumptions ==
  Window \in Nat \ {0} /\ MaxEntries \in Nat \ {0} /\ LastTick \in Nat

VARIABLES
  clock,    \* Instant::now, in ticks
  entries,  \* RateLimiter::entries
  sampled,  \* the `now` of each caller
  ruled     \* each caller's answer, and when it was given

limiterVars == <<clock, entries, sampled, ruled>>

Buckets == {"tunnel create", "wallet forward"}

\* A plausible bug, for mutation.
RateKey_AnyBucket(ip, bucket) == [ip |-> ip, bucket |-> "wallet forward"]

RateKey(ip, bucket) == [ip |-> ip, bucket |-> bucket]

NotRuled == [answer |-> "none", at |-> 0]

LimiterTypeOK ==
  /\ clock \in 0..LastTick
  /\ \A k \in DOMAIN entries :
       /\ k.bucket \in Buckets
       /\ entries[k].started <= clock
       /\ entries[k].count > 0
  /\ sampled \in [Askers -> 0..LastTick]
  /\ ruled \in [Askers -> [answer : {"none", "allowed", "denied"}, at : 0..LastTick]]

LimiterInit ==
  /\ clock = 0
  /\ entries = << >>
  /\ sampled = [a \in Askers |-> 0]
  /\ ruled = [a \in Askers |-> NotRuled]

-------------------------------------------------------------------------------

\* Instant::duration_since saturates at zero.
Elapsed(now, start) == IF start <= now THEN now - start ELSE 0

Retained(now) ==
  Restrict(entries, {k \in DOMAIN entries : Elapsed(now, entries[k].started) < Window})

With(map, k, window) == [j \in DOMAIN map \cup {k} |-> IF j = k THEN window ELSE map[j]]

Opened(map, k, now) == IF k \in DOMAIN map THEN map[k] ELSE [started |-> now, count |-> 0]

Oldest(map) == {k \in DOMAIN map : \A j \in DOMAIN map : map[k].started <= map[j].started}

\* The maps `allow` may leave behind once it let k in: an oldest window goes
\* when there are too many, unless it is the caller's own.
Evicted(map, k) ==
  IF Cardinality(DOMAIN map) <= MaxEntries THEN {map}
  ELSE {Restrict(map, DOMAIN map \ ({old} \ {k})) : old \in Oldest(map)}

Rule(a, answer) == ruled' = [ruled EXCEPT ![a] = [answer |-> answer, at |-> clock]]

\* The caller reads the clock.
Sample(a) ==
  /\ sampled' = [sampled EXCEPT ![a] = clock]
  /\ UNCHANGED <<clock, entries, ruled>>

DenyAll(a) ==
  /\ Rule(a, "denied")
  /\ UNCHANGED <<clock, entries, sampled>>

Deny(a, k, limit) ==
  LET kept == Retained(sampled[a]) IN
  /\ Opened(kept, k, sampled[a]).count >= limit
  /\ entries' = kept
  /\ Rule(a, "denied")
  /\ UNCHANGED <<clock, sampled>>

Admit(a, k, limit) ==
  LET kept == Retained(sampled[a])
      window == Opened(kept, k, sampled[a])
  IN
  /\ window.count < limit
  /\ entries' \in Evicted(With(kept, k, [window EXCEPT !.count = @ + 1]), k)
  /\ Rule(a, "allowed")
  /\ UNCHANGED <<clock, sampled>>

\* Under the mutex, with the time the caller came with.
Allow(a, k, limit) ==
  \/ limit = 0 /\ DenyAll(a)
  \/ limit > 0 /\ (Deny(a, k, limit) \/ Admit(a, k, limit))

PassTime ==
  /\ clock < LastTick
  /\ clock' = clock + 1
  /\ UNCHANGED <<entries, sampled, ruled>>
===============================================================================
