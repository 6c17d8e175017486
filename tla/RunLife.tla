-------------------------------- MODULE RunLife --------------------------------
(***************************************************************************)
(* What the relay promises of its runs.  A run goes one way: it is minted  *)
(* while there is room, lives, leaves, is remembered by a tombstone while  *)
(* there is room for one, and is forgotten.  What a lookup says of a run   *)
(* holds when it says so.                                                  *)
(*                                                                         *)
(* RelayRegistry implements this specification.                            *)
(***************************************************************************)
EXTENDS Naturals, FiniteSets

CONSTANTS
  Runs,        \* the runs
  UnknownRun,  \* a run that is none of them
  Wallets,     \* lookups
  MaxRuns,     \* how many runs may live at once
  MaxTombs     \* how many may be remembered

VARIABLES
  phase,  \* how far each run is
  about,  \* the run each lookup said something of
  told    \* what it said

vars == <<phase, about, told>>

In(ph) == {r \in Runs : phase[r] = ph}

Init ==
  /\ phase = [r \in Runs |-> "unborn"]
  /\ about = [w \in Wallets |-> UnknownRun]
  /\ told = [w \in Wallets |-> "none"]

-------------------------------------------------------------------------------

Mint(r) ==
  /\ phase[r] = "unborn" /\ Cardinality(In("live")) < MaxRuns
  /\ phase' = [phase EXCEPT ![r] = "live"]
  /\ UNCHANGED <<about, told>>

Refuse(r) ==
  /\ phase[r] = "unborn" /\ Cardinality(In("live")) >= MaxRuns
  /\ phase' = [phase EXCEPT ![r] = "refused"]
  /\ UNCHANGED <<about, told>>

Leave(r) ==
  /\ phase[r] = "live"
  /\ phase' = [phase EXCEPT ![r] = "leaving"]
  /\ UNCHANGED <<about, told>>

\* A tombstone is put up, and as many go as have to.
Bury(r, gone) ==
  /\ phase[r] = "leaving" /\ gone \subseteq In("buried") \cup {r}
  /\ Cardinality((In("buried") \cup {r}) \ gone) <= MaxTombs
  /\ phase' = [q \in Runs |-> IF q \in gone THEN "forgotten"
                              ELSE IF q = r THEN "buried" ELSE phase[q]]
  /\ UNCHANGED <<about, told>>

Forget(gone) ==
  /\ gone \subseteq In("buried")
  /\ phase' = [q \in Runs |-> IF q \in gone THEN "forgotten" ELSE phase[q]]
  /\ UNCHANGED <<about, told>>

\* A run that is leaving has no tombstone yet and is missing, as one that is
\* forgotten or never was.
Tell(w, r, what) ==
  /\ told[w] = "none"
  /\ CASE what = "active" -> r \in In("live")
       [] what = "tombstoned" -> r \in In("buried")
       [] what = "missing" -> r \in In("leaving") \cup In("forgotten") \cup {UnknownRun}
  /\ about' = [about EXCEPT ![w] = r]
  /\ told' = [told EXCEPT ![w] = what]
  /\ UNCHANGED phase

Next ==
  \/ \E r \in Runs : Mint(r) \/ Refuse(r) \/ Leave(r)
  \/ \E r \in Runs, gone \in SUBSET Runs : Bury(r, gone)
  \/ \E gone \in SUBSET Runs : Forget(gone)
  \/ \E w \in Wallets, r \in Runs \cup {UnknownRun},
        what \in {"active", "tombstoned", "missing"} : Tell(w, r, what)

Spec == Init /\ [][Next]_vars
===============================================================================
