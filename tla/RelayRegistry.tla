----------------------------- MODULE RelayRegistry -----------------------------
(***************************************************************************)
(* The relay's registry of runs, shared by the tunnel handlers that mint   *)
(* and end runs, the wallet handlers that look them up, and the sweeper    *)
(* that removes the expired ones every few seconds.                        *)
(*                                                                         *)
(* Two mutexes protect it.  A section that neither awaits nor calls while  *)
(* it holds its mutex is one action.  One section does: lookup binds the   *)
(* run in the condition of an if-let, and the guard of the runs mutex it   *)
(* takes there is a temporary that lives to the end of the if-let, so on   *)
(* the branch of an expired run it is still held across the call of        *)
(* remove.  The variable lock is that guard.                               *)
(***************************************************************************)
EXTENDS Naturals, Sequences, FiniteSets

CONSTANTS
  Runs,        \* run ids, each minted at most once
  UnknownRun,  \* a run id the relay never minted
  Wallets,     \* wallet requests, each looking up one run
  MaxRuns,     \* RelayConfig::max_runs
  MaxTombs,    \* RelayConfig::max_tombstones
  Free         \* the value of lock when nobody holds it

ASSUME RelayRegistryAssumption ==
  /\ IsFiniteSet(Runs)
  /\ UnknownRun \notin Runs
  /\ MaxRuns \in Nat
  /\ MaxTombs \in Nat
  /\ Free \notin Wallets

VARIABLES
  runs,      \* RunRegistry::runs
  expired,   \* the minted runs past their expires_at
  tombs,     \* RunRegistry::tombstones, in the order they expire
  aged,      \* how many of the tombstones, from the front, have expired
  lock,      \* the wallet handler that holds the runs mutex across an await
  wpc,       \* where each wallet handler stands in lookup
  target,    \* the run each wallet handler looks up
  verdict,   \* what its lookup returned
  tpc,       \* where the tunnel handler of each run stands
  spc,       \* where the sweeper stands
  todo,      \* the expired runs the sweeper collected
  burying,   \* the run the sweeper took out and has not buried
  closeCode, \* the code of the Close frame put in each run's channel
  forgotten  \* history: runs whose tombstone is gone

registry == <<runs, tombs, aged, closeCode, forgotten>>
wallets == <<lock, wpc, target, verdict>>
sweeper == <<spc, todo, burying>>
vars == <<runs, expired, tombs, aged, lock, wpc, target, verdict, tpc, spc,
          todo, burying, closeCode, forgotten>>

InTombs(r) == \E i \in DOMAIN tombs : tombs[i] = r

\* Taken out of the map by remove, not yet in the tombstones.
BeingBuried ==
  {r \in Runs : tpc[r] = "bury"} \cup {r \in Runs : spc = "bury" /\ burying = r}

Minted == {r \in Runs : tpc[r] \notin {"none", "refused"}}

TypeOK ==
  /\ runs \subseteq Runs
  /\ expired \subseteq Runs
  /\ tombs \in Seq(Runs)
  /\ aged \in 0..Len(tombs)
  /\ lock \in Wallets \cup {Free}
  /\ wpc \in [Wallets -> {"start", "remove", "evict", "check", "done", "dropped"}]
  /\ target \in [Wallets -> Runs \cup {UnknownRun}]
  /\ verdict \in [Wallets -> {"none", "active", "tombstoned", "missing"}]
  /\ tpc \in [Runs -> {"none", "refused", "up", "remove", "bury", "down"}]
  /\ spc \in {"asleep", "sweep", "bury"}
  /\ todo \subseteq Runs
  /\ burying \in Runs \cup {UnknownRun}
  /\ Cardinality(runs) <= MaxRuns /\ Len(tombs) <= MaxTombs
  /\ closeCode \in [Runs -> {"none", "expired", "ended"}]
  /\ forgotten \subseteq Runs

Init ==
  /\ runs = {}
  /\ expired = {}
  /\ tombs = <<>>
  /\ aged = 0
  /\ lock = Free
  /\ wpc = [w \in Wallets |-> "start"]
  /\ target = [w \in Wallets |-> UnknownRun]
  /\ verdict = [w \in Wallets |-> "none"]
  /\ tpc = [r \in Runs |-> "none"]
  /\ spc = "asleep"
  /\ todo = {}
  /\ burying = UnknownRun
  /\ closeCode = [r \in Runs |-> "none"]
  /\ forgotten = {}

-------------------------------------------------------------------------------
(* The two halves of remove, each in its own mutex section *)

\* The first half on a run the map holds: take it out, queue a Close frame.
TakeOut(r, code) ==
  /\ runs' = runs \ {r}
  /\ closeCode' = [closeCode EXCEPT ![r] = code]

\* Drop the first n tombstones, those that expire first.
DropOldest(s, n) ==
  /\ tombs' = SubSeq(s, n + 1, Len(s))
  /\ aged' = IF n < aged THEN aged - n ELSE 0
  /\ forgotten' = forgotten \cup {s[i] : i \in 1..n}

\* Mutant: the tombstone is inserted without evicting down to the limit.
Bury_NoCap(r) == DropOldest(Append(tombs, r), 0)

\* The second half: insert the tombstone, then evict down to the limit.
Bury(r) ==
  LET s == Append(tombs, r)
  IN DropOldest(s, IF Len(s) > MaxTombs THEN Len(s) - MaxTombs ELSE 0)

EvictOldTombstones == DropOldest(tombs, aged)

-------------------------------------------------------------------------------
(* handle_socket *)

\* mint counts every run in the map, the expired ones not yet swept too.
Mint(r) ==
  /\ tpc[r] = "none"
  /\ lock = Free
  /\ IF Cardinality(runs) >= MaxRuns
     THEN /\ tpc' = [tpc EXCEPT ![r] = "refused"]
          /\ UNCHANGED runs
     ELSE /\ tpc' = [tpc EXCEPT ![r] = "up"]
          /\ runs' = runs \cup {r}
  /\ UNCHANGED <<expired, tombs, aged, wallets, sweeper, closeCode, forgotten>>

\* The welcome could not be sent, or one of the two socket tasks ended.
TunnelEnds(r) ==
  /\ tpc[r] = "up"
  /\ tpc' = [tpc EXCEPT ![r] = "remove"]
  /\ UNCHANGED <<registry, expired, wallets, sweeper>>

\* Mutant: a tombstone is inserted whether or not the map held the run.
TunnelTakesOut_AlwaysBuries(r) ==
  /\ tpc[r] = "remove"
  /\ lock = Free
  /\ TakeOut(r, "ended")
  /\ tpc' = [tpc EXCEPT ![r] = "bury"]
  /\ UNCHANGED <<expired, tombs, aged, wallets, sweeper, forgotten>>

TunnelTakesOut(r) ==
  /\ tpc[r] = "remove"
  /\ lock = Free
  /\ IF r \in runs
     THEN /\ TakeOut(r, "ended")
          /\ tpc' = [tpc EXCEPT ![r] = "bury"]
     ELSE /\ tpc' = [tpc EXCEPT ![r] = "down"]
          /\ UNCHANGED <<runs, closeCode>>
  /\ UNCHANGED <<expired, tombs, aged, wallets, sweeper, forgotten>>

TunnelBuries(r) ==
  /\ tpc[r] = "bury"
  /\ Bury(r)
  /\ tpc' = [tpc EXCEPT ![r] = "down"]
  /\ UNCHANGED <<runs, expired, wallets, sweeper, closeCode>>

-------------------------------------------------------------------------------
(* lookup *)

LookupActive(w, r) ==
  /\ wpc[w] = "start"
  /\ lock = Free
  /\ r \in runs \ expired
  /\ target' = [target EXCEPT ![w] = r]
  /\ verdict' = [verdict EXCEPT ![w] = "active"]
  /\ wpc' = [wpc EXCEPT ![w] = "done"]
  /\ UNCHANGED <<registry, expired, lock, tpc, sweeper>>

\* remove locks the runs mutex again, and waits for the guard that this very
\* task holds: no step follows but the drop of the task.
LookupExpired(w, r) ==
  /\ wpc[w] = "start"
  /\ lock = Free
  /\ r \in runs \cap expired
  /\ target' = [target EXCEPT ![w] = r]
  /\ lock' = w
  /\ wpc' = [wpc EXCEPT ![w] = "remove"]
  /\ UNCHANGED <<registry, expired, verdict, tpc, sweeper>>

LookupAbsent(w, r) ==
  /\ wpc[w] = "start"
  /\ lock = Free
  /\ r \in (Minted \cup {UnknownRun}) \ runs
  /\ target' = [target EXCEPT ![w] = r]
  /\ wpc' = [wpc EXCEPT ![w] = "evict"]
  /\ UNCHANGED <<registry, expired, lock, verdict, tpc, sweeper>>

LookupEvicts(w) ==
  /\ wpc[w] = "evict"
  /\ EvictOldTombstones
  /\ wpc' = [wpc EXCEPT ![w] = "check"]
  /\ UNCHANGED <<runs, expired, lock, target, verdict, tpc, sweeper, closeCode>>

LookupChecksTombs(w) ==
  /\ wpc[w] = "check"
  /\ verdict' = [verdict EXCEPT ![w] =
                   IF InTombs(target[w]) THEN "tombstoned" ELSE "missing"]
  /\ wpc' = [wpc EXCEPT ![w] = "done"]
  /\ UNCHANGED <<registry, expired, lock, target, tpc, sweeper>>

Lookup(w) ==
  \/ \E r \in Runs : LookupActive(w, r) \/ LookupExpired(w, r)
  \/ \E r \in Runs \cup {UnknownRun} : LookupAbsent(w, r)
  \/ LookupEvicts(w)
  \/ LookupChecksTombs(w)

\* Mutant: the guard survives the drop of its task.
HangUp_KeepsGuard(w) ==
  /\ wpc[w] \in {"start", "remove", "evict", "check"}
  /\ wpc' = [wpc EXCEPT ![w] = "dropped"]
  /\ UNCHANGED <<registry, expired, lock, target, verdict, tpc, sweeper>>

\* The wallet hangs up: its handler's future is dropped, with any guard in it.
HangUp(w) ==
  /\ wpc[w] \in {"start", "remove", "evict", "check"}
  /\ wpc' = [wpc EXCEPT ![w] = "dropped"]
  /\ lock' = IF lock = w THEN Free ELSE lock
  /\ UNCHANGED <<registry, expired, target, verdict, tpc, sweeper>>

-------------------------------------------------------------------------------
(* sweep_expired *)

SweepCollects ==
  /\ spc = "asleep"
  /\ lock = Free
  /\ todo' = runs \cap expired
  /\ spc' = "sweep"
  /\ UNCHANGED <<registry, expired, wallets, tpc, burying>>

SweepTakesOut(r) ==
  /\ spc = "sweep"
  /\ r \in todo
  /\ lock = Free
  /\ todo' = todo \ {r}
  /\ IF r \in runs
     THEN /\ TakeOut(r, "expired")
          /\ spc' = "bury"
          /\ burying' = r
     ELSE UNCHANGED <<runs, closeCode, spc, burying>>
  /\ UNCHANGED <<expired, tombs, aged, wallets, tpc, forgotten>>

SweepBuries ==
  /\ spc = "bury"
  /\ Bury(burying)
  /\ spc' = "sweep"
  /\ burying' = UnknownRun
  /\ UNCHANGED <<runs, expired, wallets, tpc, todo, closeCode>>

SweepEvicts ==
  /\ spc = "sweep"
  /\ todo = {}
  /\ EvictOldTombstones
  /\ spc' = "asleep"
  /\ UNCHANGED <<runs, expired, wallets, tpc, todo, burying, closeCode>>

Sweep ==
  SweepCollects \/ (\E r \in Runs : SweepTakesOut(r)) \/ SweepBuries \/ SweepEvicts

-------------------------------------------------------------------------------
(* The clock *)

RunExpires(r) ==
  /\ r \in Minted \ expired
  /\ expired' = expired \cup {r}
  /\ UNCHANGED <<registry, wallets, tpc, sweeper>>

TombAges ==
  /\ aged < Len(tombs)
  /\ aged' = aged + 1
  /\ UNCHANGED <<runs, expired, tombs, wallets, tpc, sweeper, closeCode, forgotten>>

-------------------------------------------------------------------------------

Next ==
  \/ \E r \in Runs :
       Mint(r) \/ TunnelEnds(r) \/ TunnelTakesOut(r) \/ TunnelBuries(r) \/ RunExpires(r)
  \/ \E w \in Wallets : Lookup(w) \/ HangUp(w)
  \/ Sweep
  \/ TombAges

Spec == Init /\ [][Next]_vars

\* Tasks that can run are scheduled, and the sweeper's timer keeps ticking.
TaskFairness ==
  /\ WF_vars(Sweep)
  /\ \A w \in Wallets : WF_vars(Lookup(w))
  /\ \A r \in Runs : WF_vars(TunnelTakesOut(r) \/ TunnelBuries(r))

\* A wallet whose request gets no answer hangs up in the end.
ImpatientWallets == \A w \in Wallets : WF_vars(wpc[w] = "remove" /\ HangUp(w))

PatientSpec == Spec /\ TaskFairness
FairSpec == Spec /\ TaskFairness /\ ImpatientWallets

-------------------------------------------------------------------------------
(* Properties *)

\* A run is in the map, or on its way out of it, or in the tombstones, or
\* forgotten: never in two of these places, and never in none once minted,
\* though the sweeper acts on a list it collected before it let go of the
\* mutex; and only a run past its expiry is closed as expired.
RunAccounted ==
  /\ Minted = runs \cup BeingBuried \cup {r \in Runs : InTombs(r)} \cup forgotten
  /\ runs \cap BeingBuried = {}
  /\ \A i \in DOMAIN tombs : tombs[i] \notin runs \cup BeingBuried \cup forgotten
  /\ forgotten \cap (runs \cup BeingBuried) = {}
  /\ \A i, j \in DOMAIN tombs : tombs[i] = tombs[j] => i = j
  /\ \A r \in Runs : closeCode[r] = "expired" => r \in expired

\* What clients see of a run: it lives, leaves, is buried and forgotten, and
\* never goes back; what a lookup returns holds at that moment, though it looked
\* into the map and the tombstones one after the other.
PhaseOf(r) ==
  CASE r \in runs -> "live"
    [] r \in BeingBuried -> "leaving"
    [] InTombs(r) -> "buried"
    [] r \in forgotten -> "forgotten"
    [] tpc[r] = "none" -> "unborn"
    [] tpc[r] = "refused" -> "refused"

Promise == INSTANCE RunLife WITH
  phase <- [r \in Runs |-> PhaseOf(r)],
  about <- [w \in Wallets |-> IF verdict[w] = "none" THEN UnknownRun ELSE target[w]],
  told <- verdict

ImplementsRunLife == Promise!Spec

\* A run that expired leaves the map.
ExpiredLeaves == \A r \in Runs : (r \in runs \cap expired) ~> (r \notin runs)

\* A lookup that found its run in the map past its expiry returns, and lets go
\* of the mutex it took.
ExpiredLookupReturns == \A w \in Wallets : (wpc[w] = "remove") ~> (lock # w)
===============================================================================
