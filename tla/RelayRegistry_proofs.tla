-------------------------- MODULE RelayRegistry_proofs -------------------------
(***************************************************************************)
(* Proofs about RelayRegistry, for any runs, wallets and limits.           *)
(***************************************************************************)
EXTENDS RelayRegistry, FiniteSetTheorems, TLAPS

-------------------------------------------------------------------------------
(* Where a run is kept *)

\* Every minted run is in exactly one of four places: the map R, the hands B of
\* who took it out and has not buried it, the tombstones s, the forgotten F.
Accounted(M, R, B, s, F) ==
  /\ M = R \cup B \cup {s[i] : i \in DOMAIN s} \cup F
  /\ R \cap B = {}
  /\ \A i \in DOMAIN s : s[i] \notin R \cup B \cup F
  /\ F \cap (R \cup B) = {}
  /\ \A i, j \in DOMAIN s : s[i] = s[j] => i = j

\* A new run enters the map.
LEMMA AccountedMint ==
  ASSUME NEW M, NEW R, NEW B, NEW s, NEW F, Accounted(M, R, B, s, F),
         NEW r, r \notin M
  PROVE  Accounted(M \cup {r}, R \cup {r}, B, s, F)
BY DEF Accounted

\* A run goes from the map to the hands of a remover.
LEMMA AccountedTake ==
  ASSUME NEW M, NEW R, NEW B, NEW s, NEW F, Accounted(M, R, B, s, F),
         NEW r \in R
  PROVE  Accounted(M, R \ {r}, B \cup {r}, s, F)
BY DEF Accounted

\* It goes from there to the end of the tombstones.
LEMMA AccountedAppend ==
  ASSUME NEW M, NEW R, NEW B, NEW s \in Seq(Runs), NEW F, Accounted(M, R, B, s, F),
         NEW r \in B, r \in Runs
  PROVE  Accounted(M, R, B \ {r}, Append(s, r), F)
<1> DEFINE t == Append(s, r)
<1>1. /\ DOMAIN t = 1..(Len(s) + 1)
      /\ DOMAIN s = 1..Len(s)
      /\ Len(s) \in Nat
      /\ t[Len(s) + 1] = r
      /\ \A i \in DOMAIN s : t[i] = s[i]
  OBVIOUS
<1> HIDE DEF t
<1>2. {t[i] : i \in DOMAIN t} = {s[i] : i \in DOMAIN s} \cup {r}
  BY <1>1
<1>3. \A i \in DOMAIN s : s[i] # r
  BY DEF Accounted
<1>4. \A i \in DOMAIN t : t[i] \notin R \cup (B \ {r}) \cup F
  BY <1>1 DEF Accounted
<1>5. \A i, j \in DOMAIN t : t[i] = t[j] => i = j
  BY <1>1, <1>3 DEF Accounted
<1> QED
  BY <1>2, <1>4, <1>5 DEF Accounted, t

\* The oldest tombstones go from there to the forgotten.
LEMMA AccountedDrop ==
  ASSUME NEW M, NEW R, NEW B, NEW s \in Seq(Runs), NEW F, Accounted(M, R, B, s, F),
         NEW n \in 0..Len(s)
  PROVE  Accounted(M, R, B, SubSeq(s, n + 1, Len(s)), F \cup {s[i] : i \in 1..n})
<1> DEFINE t == SubSeq(s, n + 1, Len(s))
           G == {s[i] : i \in 1..n}
<1>1. /\ DOMAIN t = 1..(Len(s) - n)
      /\ DOMAIN s = 1..Len(s)
      /\ Len(s) \in Nat
      /\ \A i \in DOMAIN t : i + n \in DOMAIN s /\ t[i] = s[i + n]
  OBVIOUS
<1> HIDE DEF t
<1>2. \A i \in DOMAIN s : i \in 1..n \/ (i - n \in DOMAIN t /\ t[i - n] = s[i])
  BY <1>1
<1>3. {s[i] : i \in DOMAIN s} = {t[i] : i \in DOMAIN t} \cup G
  <2>1. ASSUME NEW i \in DOMAIN s PROVE s[i] \in {t[j] : j \in DOMAIN t} \cup G
    BY <1>2
  <2>2. ASSUME NEW i \in DOMAIN t PROVE t[i] \in {s[j] : j \in DOMAIN s}
    BY <1>1
  <2>3. ASSUME NEW i \in 1..n PROVE s[i] \in {s[j] : j \in DOMAIN s}
    BY <1>1
  <2> QED
    BY <2>1, <2>2, <2>3
<1>4. \A i \in DOMAIN t : t[i] \notin R \cup B \cup F \cup G
  <2> SUFFICES ASSUME NEW i \in DOMAIN t, t[i] \in G PROVE FALSE
    BY <1>1 DEF Accounted
  <2> PICK j \in 1..n : t[i] = s[j]
    OBVIOUS
  <2>1. i + n \in DOMAIN s /\ j \in DOMAIN s /\ s[i + n] = s[j]
    BY <1>1
  <2>2. i + n = j
    BY <2>1 DEF Accounted
  <2> QED
    BY <1>1, <2>2
<1>5. \A i, j \in DOMAIN t : t[i] = t[j] => i = j
  BY <1>1 DEF Accounted
<1>6. G \cap (R \cup B) = {}
  BY <1>1 DEF Accounted
<1>7. Accounted(M, R, B, t, F \cup G)
  BY <1>3, <1>4, <1>5, <1>6 DEF Accounted
<1> QED
  BY <1>7 DEF t
-------------------------------------------------------------------------------
(* The inductive invariant *)

\* Only the sweeper holds the run it is burying, and what it collected had
\* expired by then.
SweeperInv ==
  /\ spc = "bury" => burying \in Runs /\ tpc[burying] # "bury"
  /\ todo \subseteq expired
  /\ \A r \in Runs : closeCode[r] = "expired" => r \in expired

RegistryInv ==
  /\ TypeOK
  /\ Accounted(Minted, runs, BeingBuried, tombs, forgotten)
  /\ SweeperInv

LEMMA InvAccounts == RegistryInv => RunAccounted
<1> SUFFICES ASSUME RegistryInv PROVE RunAccounted
  OBVIOUS
<1>1. {r \in Runs : InTombs(r)} = {tombs[i] : i \in DOMAIN tombs}
  <2>1. \A i \in DOMAIN tombs : tombs[i] \in Runs
    BY DEF RegistryInv, TypeOK
  <2> QED
    BY <2>1 DEF InTombs
<1> QED
  BY <1>1 DEF RegistryInv, Accounted, SweeperInv, RunAccounted

LEMMA InitInv == Init => RegistryInv
<1> SUFFICES ASSUME Init PROVE RegistryInv
  OBVIOUS
<1>1. TypeOK
  <2>1. Cardinality(runs) <= MaxRuns
    BY FS_EmptySet, RelayRegistryAssumption DEF Init
  <2>2. tombs \in Seq(Runs) /\ Len(tombs) = 0 /\ aged \in 0..Len(tombs) /\ Len(tombs) <= MaxTombs
    BY RelayRegistryAssumption DEF Init
  <2> QED
    BY <2>1, <2>2 DEF Init, TypeOK
<1>2. Minted = {} /\ BeingBuried = {}
  BY DEF Init, Minted, BeingBuried
<1>3. Accounted(Minted, runs, BeingBuried, tombs, forgotten)
  BY <1>2 DEF Init, Accounted
<1>4. SweeperInv
  BY DEF Init, SweeperInv
<1> QED
  BY <1>1, <1>3, <1>4 DEF RegistryInv

-------------------------------------------------------------------------------
(* The tombstones *)

\* Dropping the oldest of the tombstones s keeps the types, and accounts for
\* the same runs.
LEMMA DropOldestKeeps ==
  ASSUME TypeOK, NEW s \in Seq(Runs), NEW n \in 0..Len(s), aged <= Len(s),
         Len(s) - n <= MaxTombs, DropOldest(s, n),
         NEW M, NEW R, NEW B, Accounted(M, R, B, s, forgotten)
  PROVE  /\ tombs' \in Seq(Runs) /\ Len(tombs') <= MaxTombs
         /\ aged' \in 0..Len(tombs')
         /\ forgotten' \subseteq Runs
         /\ Accounted(M, R, B, tombs', forgotten')
<1>1. tombs' \in Seq(Runs) /\ Len(tombs') = Len(s) - n
  BY DEF DropOldest
<1>2. aged' \in 0..Len(tombs')
  BY <1>1 DEF DropOldest, TypeOK
<1>3. forgotten' \subseteq Runs
  BY DEF DropOldest, TypeOK
<1>4. Accounted(M, R, B, tombs', forgotten')
  BY AccountedDrop DEF DropOldest
<1> QED
  BY <1>1, <1>2, <1>3, <1>4

\* Burying a run that somebody holds keeps the types and accounts for it.
LEMMA BuryKeeps ==
  ASSUME TypeOK, NEW r \in Runs, Bury(r),
         NEW M, NEW R, NEW B, Accounted(M, R, B, tombs, forgotten), r \in B
  PROVE  /\ tombs' \in Seq(Runs) /\ Len(tombs') <= MaxTombs
         /\ aged' \in 0..Len(tombs')
         /\ forgotten' \subseteq Runs
         /\ Accounted(M, R, B \ {r}, tombs', forgotten')
<1> DEFINE s == Append(tombs, r)
           n == IF Len(s) > MaxTombs THEN Len(s) - MaxTombs ELSE 0
<1>1. /\ s \in Seq(Runs) /\ n \in 0..Len(s) /\ aged <= Len(s)
      /\ Len(s) - n <= MaxTombs
  BY RelayRegistryAssumption DEF TypeOK
<1>2. DropOldest(s, n)
  BY DEF Bury
<1>3. Accounted(M, R, B \ {r}, s, forgotten)
  BY AccountedAppend DEF TypeOK
<1> QED
  BY <1>1, <1>2, <1>3, DropOldestKeeps

\* So does dropping those that expired.
LEMMA EvictKeeps ==
  ASSUME TypeOK, EvictOldTombstones,
         NEW M, NEW R, NEW B, Accounted(M, R, B, tombs, forgotten)
  PROVE  /\ tombs' \in Seq(Runs) /\ Len(tombs') <= MaxTombs
         /\ aged' \in 0..Len(tombs')
         /\ forgotten' \subseteq Runs
         /\ Accounted(M, R, B, tombs', forgotten')
<1>1. /\ tombs \in Seq(Runs) /\ aged \in 0..Len(tombs) /\ aged <= Len(tombs)
      /\ Len(tombs) - aged <= MaxTombs
  BY RelayRegistryAssumption DEF TypeOK
<1> QED
  BY <1>1, DropOldestKeeps DEF EvictOldTombstones

-------------------------------------------------------------------------------
(* The steps of the tunnel handlers *)

LEMMA MintKeepsInv ==
  ASSUME RegistryInv, NEW r \in Runs, Mint(r)
  PROVE  RegistryInv'
<1>1. \A q \in Runs : q # r => tpc'[q] = tpc[q]
  BY DEF Mint, RegistryInv, TypeOK
<1>2. BeingBuried' = BeingBuried /\ tpc'[r] \in {"up", "refused"} /\ tpc[r] = "none"
  BY <1>1 DEF Mint, RegistryInv, TypeOK, BeingBuried, sweeper
<1>3. r \notin Minted /\ tombs' = tombs /\ forgotten' = forgotten
  BY DEF Mint, Minted
<1>4. CASE Cardinality(runs) >= MaxRuns
  <2>1. tpc' = [tpc EXCEPT ![r] = "refused"] /\ runs' = runs
    BY <1>4 DEF Mint
  <2>2. Minted' = Minted
    BY <1>1, <1>2, <2>1 DEF Minted, RegistryInv, TypeOK
  <2>3. TypeOK'
    BY <2>1 DEF RegistryInv, TypeOK, Mint, wallets, sweeper
  <2> QED
    BY <1>1, <1>2, <1>3, <2>1, <2>2, <2>3 DEF RegistryInv, SweeperInv, Mint, sweeper
<1>5. CASE ~(Cardinality(runs) >= MaxRuns)
  <2>1. tpc' = [tpc EXCEPT ![r] = "up"] /\ runs' = runs \cup {r}
    BY <1>5 DEF Mint
  <2>2. Minted' = Minted \cup {r}
    BY <1>1, <1>2, <2>1 DEF Minted, RegistryInv, TypeOK
  <2>3. Cardinality(runs') <= MaxRuns
    <3>1. IsFiniteSet(runs) /\ Cardinality(runs) \in Nat
      BY RelayRegistryAssumption, FS_Subset, FS_CardinalityType DEF RegistryInv, TypeOK
    <3>2. \/ Cardinality(runs \cup {r}) = Cardinality(runs)
          \/ Cardinality(runs \cup {r}) = Cardinality(runs) + 1
      BY <3>1, FS_AddElement
    <3> QED
      BY <1>5, <2>1, <3>1, <3>2, RelayRegistryAssumption
  <2>4. TypeOK'
    BY <2>1, <2>3 DEF RegistryInv, TypeOK, Mint, wallets, sweeper
  <2>5. Accounted(Minted', runs', BeingBuried', tombs', forgotten')
    BY <1>2, <1>3, <2>1, <2>2, AccountedMint DEF RegistryInv
  <2> QED
    BY <1>1, <1>2, <2>4, <2>5 DEF RegistryInv, SweeperInv, Mint, sweeper
<1> QED
  BY <1>4, <1>5

LEMMA TunnelEndsKeepsInv ==
  ASSUME RegistryInv, NEW r \in Runs, TunnelEnds(r)
  PROVE  RegistryInv'
<1>1. \A q \in Runs : tpc'[q] = IF q = r THEN "remove" ELSE tpc[q]
  BY DEF TunnelEnds, RegistryInv, TypeOK
<1>2. Minted' = Minted /\ BeingBuried' = BeingBuried
  BY <1>1 DEF TunnelEnds, Minted, BeingBuried, sweeper
<1>3. TypeOK'
  BY DEF TunnelEnds, RegistryInv, TypeOK, registry, wallets, sweeper
<1> QED
  BY <1>1, <1>2, <1>3 DEF TunnelEnds, RegistryInv, SweeperInv, registry, sweeper

\* Taking a run out leaves room in the map.
LEMMA TakeOutType ==
  ASSUME TypeOK, NEW r \in runs, NEW code \in {"expired", "ended"}, TakeOut(r, code)
  PROVE  /\ runs' \subseteq Runs /\ Cardinality(runs') <= MaxRuns
         /\ closeCode' \in [Runs -> {"none", "expired", "ended"}]
<1>1. IsFiniteSet(runs) /\ Cardinality(runs) \in Nat
  BY RelayRegistryAssumption, FS_Subset, FS_CardinalityType DEF TypeOK
<1>2. Cardinality(runs') = Cardinality(runs) - 1
  BY <1>1, FS_RemoveElement DEF TakeOut
<1> QED
  BY <1>1, <1>2, RelayRegistryAssumption DEF TypeOK, TakeOut

LEMMA TunnelTakesOutKeepsInv ==
  ASSUME RegistryInv, NEW r \in Runs, TunnelTakesOut(r)
  PROVE  RegistryInv'
<1> USE DEF RegistryInv
<1>1. tpc[r] = "remove" /\ tombs' = tombs /\ forgotten' = forgotten
  BY DEF TunnelTakesOut
<1>2. CASE r \in runs
  <2>1. TakeOut(r, "ended") /\ tpc' = [tpc EXCEPT ![r] = "bury"]
    BY <1>2 DEF TunnelTakesOut
  <2>2. \A q \in Runs : tpc'[q] = IF q = r THEN "bury" ELSE tpc[q]
    BY <2>1 DEF TypeOK
  <2>3. Minted' = Minted /\ BeingBuried' = BeingBuried \cup {r}
    BY <1>1, <2>2 DEF Minted, BeingBuried, TunnelTakesOut, sweeper
  <2>4. TypeOK'
    BY <1>2, <2>1, TakeOutType DEF TypeOK, TunnelTakesOut, wallets, sweeper
  <2>5. Accounted(Minted', runs', BeingBuried', tombs', forgotten')
    BY <1>1, <1>2, <2>1, <2>3, AccountedTake DEF TakeOut
  <2>6. spc = "bury" => burying # r
    BY <1>2 DEF Accounted, BeingBuried
  <2>7. SweeperInv'
    BY <2>1, <2>2, <2>6 DEF SweeperInv, TypeOK, TakeOut, TunnelTakesOut, sweeper
  <2> QED
    BY <2>4, <2>5, <2>7
<1>3. CASE r \notin runs
  <2>1. tpc' = [tpc EXCEPT ![r] = "down"] /\ UNCHANGED <<runs, closeCode>>
    BY <1>3 DEF TunnelTakesOut
  <2>2. \A q \in Runs : tpc'[q] = IF q = r THEN "down" ELSE tpc[q]
    BY <2>1 DEF TypeOK
  <2>3. Minted' = Minted /\ BeingBuried' = BeingBuried
    BY <1>1, <2>2 DEF Minted, BeingBuried, TunnelTakesOut, sweeper
  <2>4. TypeOK'
    BY <2>1 DEF TypeOK, TunnelTakesOut, wallets, sweeper
  <2> QED
    BY <1>1, <2>1, <2>2, <2>3, <2>4 DEF SweeperInv, TunnelTakesOut, sweeper
<1> QED
  BY <1>2, <1>3

LEMMA TunnelBuriesKeepsInv ==
  ASSUME RegistryInv, NEW r \in Runs, TunnelBuries(r)
  PROVE  RegistryInv'
<1> USE DEF RegistryInv
<1>1. \A q \in Runs : tpc'[q] = IF q = r THEN "down" ELSE tpc[q]
  BY DEF TunnelBuries, TypeOK
<1>2. r \in BeingBuried /\ ~(spc = "bury" /\ burying = r)
  BY DEF TunnelBuries, BeingBuried, SweeperInv
<1>3. Minted' = Minted /\ BeingBuried' = BeingBuried \ {r}
  BY <1>1, <1>2 DEF TunnelBuries, Minted, BeingBuried, sweeper
<1>4. /\ tombs' \in Seq(Runs) /\ Len(tombs') <= MaxTombs
      /\ aged' \in 0..Len(tombs')
      /\ forgotten' \subseteq Runs
      /\ Accounted(Minted, runs, BeingBuried \ {r}, tombs', forgotten')
  BY <1>2, BuryKeeps DEF TunnelBuries
<1>5. TypeOK'
  BY <1>4 DEF TypeOK, TunnelBuries, wallets, sweeper
<1>6. SweeperInv'
  BY <1>1 DEF SweeperInv, TunnelBuries, sweeper
<1> QED
  BY <1>3, <1>4, <1>5, <1>6 DEF TunnelBuries

-------------------------------------------------------------------------------
(* The steps of lookup *)

\* All but the eviction leave the registry, the tunnels and the sweeper alone.
LEMMA WalletKeepsInv ==
  ASSUME RegistryInv, TypeOK', UNCHANGED <<registry, expired, tpc, sweeper>>
  PROVE  RegistryInv'
BY DEF RegistryInv, SweeperInv, Minted, BeingBuried, registry, sweeper

LEMMA LookupKeepsInv ==
  ASSUME RegistryInv, NEW w \in Wallets, Lookup(w)
  PROVE  RegistryInv'
<1>1. ASSUME NEW r \in Runs, LookupActive(w, r) PROVE RegistryInv'
  <2>1. TypeOK'
    BY <1>1 DEF RegistryInv, TypeOK, LookupActive, registry, sweeper
  <2> QED
    BY <1>1, <2>1, WalletKeepsInv DEF LookupActive
<1>2. ASSUME NEW r \in Runs, LookupExpired(w, r) PROVE RegistryInv'
  <2>1. TypeOK'
    BY <1>2 DEF RegistryInv, TypeOK, LookupExpired, registry, sweeper
  <2> QED
    BY <1>2, <2>1, WalletKeepsInv DEF LookupExpired
<1>3. ASSUME NEW r \in Runs \cup {UnknownRun}, LookupAbsent(w, r) PROVE RegistryInv'
  <2>1. TypeOK'
    BY <1>3 DEF RegistryInv, TypeOK, LookupAbsent, registry, sweeper
  <2> QED
    BY <1>3, <2>1, WalletKeepsInv DEF LookupAbsent
<1>4. CASE LookupEvicts(w)
  <2>1. /\ tombs' \in Seq(Runs) /\ Len(tombs') <= MaxTombs
        /\ aged' \in 0..Len(tombs')
        /\ forgotten' \subseteq Runs
        /\ Accounted(Minted, runs, BeingBuried, tombs', forgotten')
    BY <1>4, EvictKeeps DEF LookupEvicts, RegistryInv
  <2>2. TypeOK'
    BY <1>4, <2>1 DEF RegistryInv, TypeOK, LookupEvicts, sweeper
  <2> QED
    BY <1>4, <2>1, <2>2
       DEF RegistryInv, SweeperInv, LookupEvicts, Minted, BeingBuried, sweeper
<1>5. CASE LookupChecksTombs(w)
  <2>1. TypeOK'
    BY <1>5 DEF RegistryInv, TypeOK, LookupChecksTombs, registry, sweeper
  <2> QED
    BY <1>5, <2>1, WalletKeepsInv DEF LookupChecksTombs
<1> QED
  BY <1>1, <1>2, <1>3, <1>4, <1>5 DEF Lookup

LEMMA HangUpKeepsInv ==
  ASSUME RegistryInv, NEW w \in Wallets, HangUp(w)
  PROVE  RegistryInv'
<1>1. TypeOK'
  BY DEF RegistryInv, TypeOK, HangUp, registry, sweeper
<1> QED
  BY <1>1, WalletKeepsInv DEF HangUp

-------------------------------------------------------------------------------
(* The steps of the sweeper and of the clock *)

LEMMA SweepTakesOutKeepsInv ==
  ASSUME RegistryInv, NEW r \in Runs, SweepTakesOut(r)
  PROVE  RegistryInv'
<1> USE DEF RegistryInv
<1>1. /\ spc = "sweep" /\ r \in todo /\ todo' = todo \ {r} /\ tombs' = tombs
      /\ forgotten' = forgotten /\ expired' = expired /\ tpc' = tpc
  BY DEF SweepTakesOut
<1>2. Minted' = Minted
  BY <1>1 DEF Minted
<1>3. CASE r \in runs
  <2>1. TakeOut(r, "expired") /\ spc' = "bury" /\ burying' = r
    BY <1>3 DEF SweepTakesOut
  <2>2. BeingBuried' = BeingBuried \cup {r}
    BY <1>1, <2>1 DEF BeingBuried
  <2>3. TypeOK'
    BY <1>1, <1>3, <2>1, TakeOutType DEF TypeOK, SweepTakesOut, wallets
  <2>4. Accounted(Minted', runs', BeingBuried', tombs', forgotten')
    BY <1>1, <1>2, <1>3, <2>1, <2>2, AccountedTake DEF TakeOut
  <2>5. tpc[r] # "bury"
    BY <1>3 DEF Accounted, BeingBuried
  <2>6. r \in expired
    BY <1>1 DEF SweeperInv
  <2>7. SweeperInv'
    BY <1>1, <2>1, <2>5, <2>6 DEF SweeperInv, TypeOK, TakeOut
  <2> QED
    BY <2>3, <2>4, <2>7
<1>4. CASE r \notin runs
  <2>1. UNCHANGED <<runs, closeCode, spc, burying>>
    BY <1>4 DEF SweepTakesOut
  <2>2. BeingBuried' = BeingBuried
    BY <1>1, <2>1 DEF BeingBuried
  <2>3. TypeOK'
    BY <1>1, <2>1 DEF TypeOK, SweepTakesOut, wallets
  <2>4. SweeperInv'
    BY <1>1, <2>1 DEF SweeperInv
  <2> QED
    BY <1>1, <1>2, <2>1, <2>2, <2>3, <2>4
<1> QED
  BY <1>3, <1>4

LEMMA SweepBuriesKeepsInv ==
  ASSUME RegistryInv, SweepBuries
  PROVE  RegistryInv'
<1> USE DEF RegistryInv
<1>1. burying \in Runs /\ tpc[burying] # "bury" /\ burying \in BeingBuried
  BY DEF SweepBuries, SweeperInv, BeingBuried
<1>2. Minted' = Minted /\ BeingBuried' = BeingBuried \ {burying}
  BY <1>1 DEF SweepBuries, Minted, BeingBuried, wallets
<1>3. /\ tombs' \in Seq(Runs) /\ Len(tombs') <= MaxTombs
      /\ aged' \in 0..Len(tombs')
      /\ forgotten' \subseteq Runs
      /\ Accounted(Minted, runs, BeingBuried \ {burying}, tombs', forgotten')
  BY <1>1, BuryKeeps DEF SweepBuries
<1>4. TypeOK'
  BY <1>3 DEF TypeOK, SweepBuries, wallets
<1>5. SweeperInv'
  BY DEF SweeperInv, SweepBuries
<1> QED
  BY <1>2, <1>3, <1>4, <1>5 DEF SweepBuries

LEMMA SweepKeepsInv ==
  ASSUME RegistryInv, Sweep
  PROVE  RegistryInv'
<1>1. CASE SweepCollects
  <2>1. Minted' = Minted /\ BeingBuried' = BeingBuried
    BY <1>1 DEF SweepCollects, Minted, BeingBuried, registry
  <2>2. TypeOK'
    BY <1>1 DEF RegistryInv, TypeOK, SweepCollects, registry, wallets
  <2> QED
    BY <1>1, <2>1, <2>2 DEF RegistryInv, SweeperInv, SweepCollects, registry
<1>2. ASSUME NEW r \in Runs, SweepTakesOut(r) PROVE RegistryInv'
  BY <1>2, SweepTakesOutKeepsInv
<1>3. CASE SweepBuries
  BY <1>3, SweepBuriesKeepsInv
<1>4. CASE SweepEvicts
  <2>1. /\ tombs' \in Seq(Runs) /\ Len(tombs') <= MaxTombs
        /\ aged' \in 0..Len(tombs')
        /\ forgotten' \subseteq Runs
        /\ Accounted(Minted, runs, BeingBuried, tombs', forgotten')
    BY <1>4, EvictKeeps DEF SweepEvicts, RegistryInv
  <2>2. Minted' = Minted /\ BeingBuried' = BeingBuried
    BY <1>4 DEF SweepEvicts, Minted, BeingBuried
  <2>3. TypeOK'
    BY <1>4, <2>1 DEF RegistryInv, TypeOK, SweepEvicts, wallets
  <2> QED
    BY <1>4, <2>1, <2>2, <2>3 DEF RegistryInv, SweeperInv, SweepEvicts
<1> QED
  BY <1>1, <1>2, <1>3, <1>4 DEF Sweep

LEMMA ClockKeepsInv ==
  ASSUME RegistryInv, TombAges \/ \E r \in Runs : RunExpires(r)
  PROVE  RegistryInv'
<1>1. CASE TombAges
  <2>1. TypeOK'
    BY <1>1 DEF RegistryInv, TypeOK, TombAges, wallets, sweeper
  <2> QED
    BY <1>1, <2>1 DEF RegistryInv, SweeperInv, TombAges, Minted, BeingBuried, wallets, sweeper
<1>2. ASSUME NEW r \in Runs, RunExpires(r) PROVE RegistryInv'
  <2>1. TypeOK'
    BY <1>2 DEF RegistryInv, TypeOK, RunExpires, Minted, registry, wallets, sweeper
  <2> QED
    BY <1>2, <2>1 DEF RegistryInv, SweeperInv, RunExpires, Minted, BeingBuried, registry, wallets, sweeper
<1> QED
  BY <1>1, <1>2

LEMMA StepInv == RegistryInv /\ [Next]_vars => RegistryInv'
<1> SUFFICES ASSUME RegistryInv, [Next]_vars PROVE RegistryInv'
  OBVIOUS
<1>1. CASE Next
  BY <1>1, MintKeepsInv, TunnelEndsKeepsInv, TunnelTakesOutKeepsInv, TunnelBuriesKeepsInv,
     LookupKeepsInv, HangUpKeepsInv, SweepKeepsInv, ClockKeepsInv DEF Next
<1>2. CASE UNCHANGED vars
  BY <1>2 DEF vars, RegistryInv, TypeOK, SweeperInv, Minted, BeingBuried
<1> QED
  BY <1>1, <1>2

-------------------------------------------------------------------------------
(* The life of a run *)

\* The phase of a run tells the place where it is kept.
PhaseTells(r) ==
  /\ PhaseOf(r) \in {"unborn", "refused", "live", "leaving", "buried", "forgotten"}
  /\ PhaseOf(r) = "live" <=> r \in runs
  /\ PhaseOf(r) = "leaving" <=> r \in BeingBuried
  /\ PhaseOf(r) = "buried" <=> InTombs(r)
  /\ PhaseOf(r) = "forgotten" <=> r \in forgotten
  /\ PhaseOf(r) = "unborn" <=> tpc[r] = "none"
  /\ PhaseOf(r) = "refused" <=> tpc[r] = "refused"

Phases == \A r \in Runs : PhaseTells(r)

LEMMA PhasesTell == RegistryInv => Phases
<1> SUFFICES ASSUME RegistryInv, NEW r \in Runs PROVE PhaseTells(r)
  BY DEF Phases
<1>1. /\ tpc[r] \notin {"none", "refused"} <=>
           r \in runs \/ r \in BeingBuried \/ InTombs(r) \/ r \in forgotten
      /\ ~(r \in runs /\ r \in BeingBuried)
      /\ ~(r \in runs /\ InTombs(r))
      /\ ~(r \in runs /\ r \in forgotten)
      /\ ~(r \in BeingBuried /\ InTombs(r))
      /\ ~(r \in BeingBuried /\ r \in forgotten)
      /\ ~(InTombs(r) /\ r \in forgotten)
  BY InvAccounts DEF RunAccounted, InTombs, Minted
<1>2. CASE r \in runs
  BY <1>1, <1>2 DEF PhaseTells, PhaseOf
<1>3. CASE r \in BeingBuried
  BY <1>1, <1>3 DEF PhaseTells, PhaseOf
<1>4. CASE InTombs(r)
  BY <1>1, <1>4 DEF PhaseTells, PhaseOf
<1>5. CASE r \in forgotten
  BY <1>1, <1>5 DEF PhaseTells, PhaseOf
<1>6. CASE tpc[r] \in {"none", "refused"}
  BY <1>1, <1>6 DEF PhaseTells, PhaseOf
<1> QED
  BY <1>1, <1>2, <1>3, <1>4, <1>5, <1>6

\* A lookup that did not find its run in the map will not find it there later,
\* and nothing was said of a run before the lookup ends.
LookupInv ==
  \A w \in Wallets :
    /\ wpc[w] \in {"start", "remove", "evict", "check"} => verdict[w] = "none"
    /\ wpc[w] \in {"evict", "check"} =>
         target[w] \in (Minted \cup {UnknownRun}) \ runs

LEMMA InitPromised == Init => LookupInv /\ Promise!Init
<1> SUFFICES ASSUME Init PROVE LookupInv /\ Promise!Init
  OBVIOUS
<1>1. \A r \in Runs : PhaseOf(r) = "unborn"
  <2>1. Phases
    BY InitInv, PhasesTell
  <2> QED
    BY <2>1 DEF Init, Phases, PhaseTells
<1> QED
  BY <1>1 DEF Init, LookupInv, Promise!Init

\* The map only grows by runs that were not minted before.
LEMMA LookupStep ==
  ASSUME RegistryInv, LookupInv, [Next]_vars
  PROVE  LookupInv'
<1>1. UnknownRun \notin Runs /\ runs \subseteq Runs
  BY RelayRegistryAssumption DEF RegistryInv, TypeOK
<1>2. Minted \subseteq Minted' /\ runs' \cap (Minted \cup {UnknownRun}) \subseteq runs
  <2>1. ASSUME NEW r \in Runs, Mint(r) \/ TunnelEnds(r) \/ TunnelTakesOut(r) \/ TunnelBuries(r)
               \/ RunExpires(r)
        PROVE  <1>2!1 /\ <1>2!2
    BY <1>1, <2>1 DEF Mint, TunnelEnds, TunnelTakesOut, TakeOut, TunnelBuries, RunExpires,
                      Minted, registry, RegistryInv, TypeOK
  <2>2. ASSUME NEW w \in Wallets, Lookup(w) \/ HangUp(w) PROVE <1>2!1 /\ <1>2!2
    BY <2>2 DEF Lookup, LookupActive, LookupExpired, LookupAbsent, LookupEvicts,
                LookupChecksTombs, HangUp, Minted, registry
  <2>3. ASSUME Sweep \/ TombAges \/ UNCHANGED vars PROVE <1>2!1 /\ <1>2!2
    BY <2>3 DEF Sweep, SweepCollects, SweepTakesOut, TakeOut, SweepBuries, SweepEvicts, TombAges,
                Minted, registry, vars
  <2> QED
    BY <2>1, <2>2, <2>3 DEF Next
<1>3. CASE UNCHANGED wallets
  BY <1>2, <1>3 DEF LookupInv, wallets
<1>4. ASSUME NEW w \in Wallets, Lookup(w) \/ HangUp(w) PROVE LookupInv'
  <2>1. \A v \in Wallets \ {w} :
          wpc'[v] = wpc[v] /\ verdict'[v] = verdict[v] /\ target'[v] = target[v]
    BY <1>4 DEF Lookup, LookupActive, LookupExpired, LookupAbsent, LookupEvicts,
                LookupChecksTombs, HangUp, RegistryInv, TypeOK
  <2>2. /\ wpc'[w] \in {"start", "remove", "evict", "check"} => verdict'[w] = "none"
        /\ wpc'[w] \in {"evict", "check"} => target'[w] \in (Minted \cup {UnknownRun}) \ runs
    BY <1>4 DEF Lookup, LookupActive, LookupExpired, LookupAbsent, LookupEvicts,
                LookupChecksTombs, HangUp, RegistryInv, TypeOK, LookupInv
  <2> QED
    BY <1>2, <2>1, <2>2 DEF LookupInv
<1>5. CASE UNCHANGED vars
  BY <1>3, <1>5 DEF vars, wallets
<1>6. ASSUME NEW r \in Runs, Mint(r) \/ TunnelEnds(r) \/ TunnelTakesOut(r) \/ TunnelBuries(r)
             \/ RunExpires(r)
      PROVE  UNCHANGED wallets
  BY <1>6 DEF Mint, TunnelEnds, TunnelTakesOut, TunnelBuries, RunExpires
<1>7. ASSUME Sweep \/ TombAges PROVE UNCHANGED wallets
  BY <1>7 DEF Sweep, SweepCollects, SweepTakesOut, SweepBuries, SweepEvicts, TombAges
<1> QED
  BY <1>3, <1>4, <1>5, <1>6, <1>7 DEF Next

-------------------------------------------------------------------------------
(* The steps of a life *)

\* A step that moves no run and tells nobody anything is not seen.
LEMMA Unseen ==
  ASSUME Phases, Phases', \A r \in Runs : PhaseOf(r)' = PhaseOf(r),
         verdict' = verdict, \A w \in Wallets : verdict[w] # "none" => target'[w] = target[w]
  PROVE  UNCHANGED Promise!vars
BY DEF Promise!vars

\* The runs of the abstract phases are those of the places.
LEMMA PlacesAre ==
  ASSUME RegistryInv, Phases
  PROVE  /\ Promise!In("live") = runs
         /\ Promise!In("leaving") = BeingBuried
         /\ Promise!In("buried") = {r \in Runs : InTombs(r)}
         /\ Promise!In("forgotten") = forgotten
<1>1. runs \subseteq Runs /\ BeingBuried \subseteq Runs /\ forgotten \subseteq Runs
  BY DEF RegistryInv, TypeOK, BeingBuried
<1>2. \A ph : Promise!In(ph) = {r \in Runs : PhaseOf(r) = ph}
  BY DEF Promise!In
<1> QED
  BY <1>1, <1>2 DEF Phases, PhaseTells

\* There are no more buried runs than tombstones.
TombsFit == Cardinality({r \in Runs : InTombs(r)}) <= MaxTombs

LEMMA TombsCount == RegistryInv => TombsFit
<1> SUFFICES ASSUME RegistryInv PROVE TombsFit
  OBVIOUS
<1> DEFINE buried == {r \in Runs : InTombs(r)}
           n == Len(tombs)
<1>1. tombs \in Seq(Runs) /\ n \in Nat /\ n <= MaxTombs /\ DOMAIN tombs = 1..n
  BY DEF RegistryInv, TypeOK
<1>2. \A i \in 1..n : tombs[i] \in Runs
  BY <1>1
<1>3. \A i \in 1..n : tombs[i] \in buried
  BY <1>1, <1>2 DEF InTombs
<1>4. \A r \in buried : \E i \in 1..n : tombs[i] = r
  BY <1>1 DEF InTombs
<1> DEFINE f == [i \in 1..n |-> tombs[i]]
<1>5. f \in Surjection(1..n, buried)
  BY <1>3, <1>4 DEF Surjection
<1>6. IsFiniteSet(1..n) /\ Cardinality(1..n) = n
  BY <1>1, FS_Interval
<1> HIDE DEF f, buried
<1>7. IsFiniteSet(buried) /\ Cardinality(buried) <= n
  BY <1>5, <1>6, FS_Surjection
<1>8. Cardinality(buried) \in Nat
  BY <1>7, FS_CardinalityType
<1> QED
  BY <1>1, <1>7, <1>8, RelayRegistryAssumption DEF TombsFit, buried

\* Runs leave the map one at a time.
LEMMA TakenOutLeaves ==
  ASSUME RegistryInv, Phases, Phases', NEW r \in runs, runs' = runs \ {r},
         BeingBuried' = BeingBuried \cup {r}, UNCHANGED <<tombs, forgotten, target, verdict>>,
         \A q \in Runs : q # r => tpc'[q] = tpc[q]
  PROVE  Promise!Next
<1>1. r \in Runs
  BY DEF RegistryInv, TypeOK
<1>2. \A q \in Runs : PhaseOf(q)' = IF q = r THEN "leaving" ELSE PhaseOf(q)
  BY <1>1 DEF Phases, PhaseTells, InTombs
<1>3. PhaseOf(r) = "live"
  BY <1>1 DEF Phases, PhaseTells
<1>4. Promise!Leave(r)
  BY <1>1, <1>2, <1>3 DEF Promise!Leave
<1> QED
  BY <1>1, <1>4 DEF Promise!Next

\* Who buries a run, and who drops tombstones, moves runs on to the forgotten.
LEMMA BuriedIsRemembered ==
  ASSUME RegistryInv, RegistryInv', Phases, Phases', NEW r \in BeingBuried,
         BeingBuried' = BeingBuried \ {r}, Minted' = Minted, forgotten \subseteq forgotten',
         UNCHANGED <<runs, target, verdict>>,
         \A q \in Runs : q # r => tpc'[q] = tpc[q]
  PROVE  Promise!Next
<1> DEFINE gone == forgotten' \ forgotten
           buried == {q \in Runs : InTombs(q)}
           left == {q \in Runs : InTombs(q)'}
<1>1. /\ r \in Runs /\ forgotten' \subseteq Runs
      /\ Minted = runs \cup BeingBuried \cup buried \cup forgotten
      /\ Minted' = runs' \cup BeingBuried' \cup left \cup forgotten'
      /\ runs \cap BeingBuried = {} /\ forgotten' \cap (runs \cup BeingBuried') = {}
      /\ forgotten \cap (runs \cup BeingBuried) = {}
      /\ left \cap (runs \cup BeingBuried' \cup forgotten') = {}
      /\ buried \cap (runs \cup BeingBuried \cup forgotten) = {}
  <2>1. RunAccounted /\ RunAccounted'
    BY InvAccounts, PTL
  <2>2. forgotten' \subseteq Runs /\ r \in Runs
    BY DEF RegistryInv, TypeOK, BeingBuried
  <2> QED
    BY <2>1, <2>2 DEF RunAccounted, InTombs
<1>2. left = (buried \cup {r}) \ gone /\ gone \subseteq buried \cup {r}
  BY <1>1
<1>3. Promise!In("buried") = buried /\ PhaseOf(r) = "leaving"
  BY <1>1, PlacesAre DEF Phases, PhaseTells
<1>4. Cardinality(left) <= MaxTombs
  <2>1. TombsFit'
    BY TombsCount, PTL
  <2> QED
    BY <2>1 DEF TombsFit
<1>5. \A q \in Runs : PhaseOf(q)' = IF q \in gone THEN "forgotten"
                                     ELSE IF q = r THEN "buried" ELSE PhaseOf(q)
  BY <1>1, <1>2 DEF Phases, PhaseTells
<1> HIDE DEF gone, buried, left
<1>6. gone \in SUBSET Runs
  BY <1>1 DEF gone
<1>7. Promise!Bury(r, gone)
  <2>1. Promise!Cardinality((Promise!In("buried") \cup {r}) \ gone) <= MaxTombs
    <3>1. left = (Promise!In("buried") \cup {r}) \ gone
      BY <1>2, <1>3
    <3> QED
      BY <1>4, <3>1 DEF Promise!Cardinality, Cardinality
  <2> QED
    BY <1>1, <1>2, <1>3, <1>5, <2>1 DEF Promise!Bury
<1> QED
  BY <1>1, <1>6, <1>7 DEF Promise!Next

LEMMA DroppedIsForgotten ==
  ASSUME RegistryInv, RegistryInv', Phases, Phases', forgotten \subseteq forgotten',
         BeingBuried' = BeingBuried,
         UNCHANGED <<runs, tpc, target, verdict>>
  PROVE  Promise!Next
<1> DEFINE gone == forgotten' \ forgotten
           buried == {q \in Runs : InTombs(q)}
           left == {q \in Runs : InTombs(q)'}
<1>1. /\ forgotten' \subseteq Runs /\ Minted' = Minted
      /\ Minted = runs \cup BeingBuried \cup buried \cup forgotten
      /\ Minted' = runs' \cup BeingBuried' \cup left \cup forgotten'
      /\ forgotten' \cap (runs \cup BeingBuried') = {}
      /\ left \cap (runs \cup BeingBuried' \cup forgotten') = {}
      /\ buried \cap (runs \cup BeingBuried \cup forgotten) = {}
  <2>1. RunAccounted /\ RunAccounted'
    BY InvAccounts, PTL
  <2>2. forgotten' \subseteq Runs /\ Minted' = Minted
    BY DEF RegistryInv, TypeOK, Minted
  <2> QED
    BY <2>1, <2>2 DEF RunAccounted, InTombs
<1>2. left = buried \ gone /\ gone \subseteq buried
  BY <1>1
<1>3. Promise!In("buried") = buried
  BY PlacesAre
<1>4. \A q \in Runs : PhaseOf(q)' = IF q \in gone THEN "forgotten" ELSE PhaseOf(q)
  BY <1>1, <1>2 DEF Phases, PhaseTells
<1> HIDE DEF gone, buried, left
<1>5. gone \in SUBSET Runs
  BY <1>1 DEF gone
<1>6. Promise!Forget(gone)
  BY <1>2, <1>3, <1>4 DEF Promise!Forget
<1> QED
  BY <1>5, <1>6 DEF Promise!Next

\* A lookup that ends says what is true of its run.
LEMMA ToldTruly ==
  ASSUME RegistryInv, Phases, Phases', NEW w \in Wallets, NEW r \in Runs \cup {UnknownRun},
         NEW what \in {"active", "tombstoned", "missing"},
         what = "active" => r \in runs, what = "tombstoned" => r \in Runs /\ InTombs(r),
         what = "missing" => r \in BeingBuried \cup forgotten \cup {UnknownRun},
         verdict[w] = "none", verdict' = [verdict EXCEPT ![w] = what], target'[w] = r,
         \A v \in Wallets : v # w => target'[v] = target[v],
         UNCHANGED <<runs, tombs, forgotten, tpc, spc, burying>>
  PROVE  Promise!Next
<1>1. \A q \in Runs : PhaseOf(q)' = PhaseOf(q)
  BY DEF Phases, PhaseTells, InTombs, BeingBuried
<1>2. \A v \in Wallets : verdict'[v] = IF v = w THEN what ELSE verdict[v]
  BY DEF RegistryInv, TypeOK
<1> DEFINE about == [v \in Wallets |-> IF verdict[v] = "none" THEN UnknownRun ELSE target[v]]
<1>3. about' = [about EXCEPT ![w] = r]
  BY <1>2
<1>4. /\ what = "active" => r \in Promise!In("live")
      /\ what = "tombstoned" => r \in Promise!In("buried")
      /\ what = "missing" => r \in Promise!In("leaving") \cup Promise!In("forgotten") \cup {UnknownRun}
  BY PlacesAre
<1>5. CASE what = "active"
  BY <1>1, <1>3, <1>4, <1>5 DEF Promise!Next, Promise!Tell
<1>6. CASE what = "tombstoned"
  BY <1>1, <1>3, <1>4, <1>6 DEF Promise!Next, Promise!Tell
<1>7. CASE what = "missing"
  BY <1>1, <1>3, <1>4, <1>7 DEF Promise!Next, Promise!Tell
<1> QED
  BY <1>5, <1>6, <1>7

LEMMA MintLives ==
  ASSUME RegistryInv, Phases, Phases', NEW r \in Runs, Mint(r)
  PROVE  Promise!Next
<1>1. /\ tpc[r] = "none" /\ UNCHANGED <<tombs, forgotten, target, verdict>>
      /\ \A q \in Runs : q # r => tpc'[q] = tpc[q]
  BY DEF Mint, wallets, RegistryInv, TypeOK
<1>2. BeingBuried' = BeingBuried
  <2>1. tpc'[r] \in {"up", "refused"}
    BY DEF Mint, RegistryInv, TypeOK
  <2> QED
    BY <1>1, <2>1 DEF Mint, sweeper, BeingBuried
<1>3. PhaseOf(r) = "unborn"
  BY <1>1 DEF Phases, PhaseTells
<1>4. CASE Cardinality(runs) >= MaxRuns
  <2>1. tpc'[r] = "refused" /\ runs' = runs
    BY <1>4 DEF Mint, RegistryInv, TypeOK
  <2>2. \A q \in Runs : PhaseOf(q)' = IF q = r THEN "refused" ELSE PhaseOf(q)
    BY <1>1, <1>2, <2>1 DEF Phases, PhaseTells, InTombs
  <2>3. Promise!Cardinality(Promise!In("live")) >= MaxRuns
    BY <1>4, PlacesAre DEF Promise!Cardinality, Cardinality
  <2>4. Promise!Refuse(r)
    BY <1>1, <1>3, <2>2, <2>3 DEF Promise!Refuse
  <2> QED
    BY <2>4 DEF Promise!Next
<1>5. CASE ~(Cardinality(runs) >= MaxRuns)
  <2>1. tpc'[r] = "up" /\ runs' = runs \cup {r}
    BY <1>5 DEF Mint, RegistryInv, TypeOK
  <2>2. \A q \in Runs : PhaseOf(q)' = IF q = r THEN "live" ELSE PhaseOf(q)
    BY <1>1, <1>2, <2>1 DEF Phases, PhaseTells, InTombs
  <2>3. Promise!Cardinality(Promise!In("live")) < MaxRuns
    <3>1. Cardinality(runs) \in Nat
      BY RelayRegistryAssumption, FS_Subset, FS_CardinalityType DEF RegistryInv, TypeOK
    <3>2. Cardinality(runs) < MaxRuns
      BY <1>5, <3>1, RelayRegistryAssumption
    <3> QED
      BY <3>2, PlacesAre DEF Promise!Cardinality, Cardinality
  <2>4. Promise!Mint(r)
    BY <1>1, <1>3, <2>2, <2>3 DEF Promise!Mint
  <2> QED
    BY <2>4 DEF Promise!Next
<1> QED
  BY <1>4, <1>5

LEMMA TunnelLives ==
  ASSUME RegistryInv, RegistryInv', Phases, Phases', NEW r \in Runs,
         TunnelEnds(r) \/ TunnelTakesOut(r) \/ TunnelBuries(r)
  PROVE  [Promise!Next]_(Promise!vars)
<1>1. UNCHANGED <<target, verdict>> /\ \A q \in Runs : q # r => tpc'[q] = tpc[q]
  BY DEF TunnelEnds, TunnelTakesOut, TunnelBuries, wallets, RegistryInv, TypeOK
<1>2. ASSUME UNCHANGED <<runs, tombs, forgotten>>, BeingBuried' = BeingBuried,
             tpc'[r] \notin {"none", "refused"}, tpc[r] \notin {"none", "refused"}
      PROVE  UNCHANGED Promise!vars
  <2>1. \A q \in Runs : PhaseOf(q)' = PhaseOf(q)
    BY <1>1, <1>2 DEF Phases, PhaseTells, InTombs
  <2> QED
    BY <1>1, <2>1, Unseen
<1>3. CASE TunnelEnds(r)
  <2>1. tpc[r] = "up" /\ tpc'[r] = "remove"
    BY <1>3 DEF TunnelEnds, RegistryInv, TypeOK
  <2>2. BeingBuried' = BeingBuried /\ UNCHANGED <<runs, tombs, forgotten>>
    BY <1>1, <1>3, <2>1 DEF TunnelEnds, BeingBuried, registry, sweeper
  <2> QED
    BY <1>2, <2>1, <2>2
<1>4. CASE TunnelTakesOut(r) /\ r \in runs
  <2>1. /\ runs' = runs \ {r} /\ UNCHANGED <<tombs, forgotten>>
        /\ tpc'[r] = "bury"
    BY <1>4 DEF TunnelTakesOut, TakeOut, RegistryInv, TypeOK
  <2>2. BeingBuried' = BeingBuried \cup {r}
    BY <1>1, <1>4, <2>1 DEF TunnelTakesOut, BeingBuried, sweeper
  <2> QED
    BY <1>1, <1>4, <2>1, <2>2, TakenOutLeaves
<1>5. CASE TunnelTakesOut(r) /\ r \notin runs
  <2>1. tpc[r] = "remove" /\ tpc'[r] = "down" /\ UNCHANGED <<runs, tombs, forgotten>>
    BY <1>5 DEF TunnelTakesOut, RegistryInv, TypeOK
  <2>2. BeingBuried' = BeingBuried
    BY <1>1, <1>5, <2>1 DEF TunnelTakesOut, BeingBuried, sweeper
  <2> QED
    BY <1>2, <2>1, <2>2
<1>6. CASE TunnelBuries(r)
  <2>1. tpc[r] = "bury" /\ tpc'[r] = "down" /\ runs' = runs /\ UNCHANGED sweeper
    BY <1>6 DEF TunnelBuries, RegistryInv, TypeOK
  <2>2. r \in BeingBuried /\ ~(spc = "bury" /\ burying = r)
    BY <2>1 DEF BeingBuried, RegistryInv, SweeperInv
  <2>3. Minted' = Minted /\ BeingBuried' = BeingBuried \ {r}
    BY <1>1, <2>1, <2>2 DEF Minted, BeingBuried, sweeper
  <2>4. forgotten \subseteq forgotten'
    BY <1>6 DEF TunnelBuries, Bury, DropOldest
  <2> QED
    BY <1>1, <2>1, <2>2, <2>3, <2>4, BuriedIsRemembered
<1> QED
  BY <1>3, <1>4, <1>5, <1>6

LEMMA SweepLives ==
  ASSUME RegistryInv, RegistryInv', Phases, Phases', Sweep
  PROVE  [Promise!Next]_(Promise!vars)
<1>1. UNCHANGED <<target, verdict, tpc>> /\ Minted' = Minted
  BY DEF Sweep, SweepCollects, SweepTakesOut, SweepBuries, SweepEvicts, wallets, Minted
<1>2. ASSUME UNCHANGED <<runs, tombs, forgotten>>, BeingBuried' = BeingBuried
      PROVE  UNCHANGED Promise!vars
  <2>1. \A q \in Runs : PhaseOf(q)' = PhaseOf(q)
    BY <1>1, <1>2 DEF Phases, PhaseTells, InTombs
  <2> QED
    BY <1>1, <2>1, Unseen
<1>3. CASE SweepCollects
  BY <1>1, <1>2, <1>3 DEF SweepCollects, BeingBuried, registry
<1>4. ASSUME NEW r \in Runs, SweepTakesOut(r) PROVE [Promise!Next]_(Promise!vars)
  <2>1. CASE r \in runs
    <3>1. runs' = runs \ {r} /\ UNCHANGED <<tombs, forgotten>>
      BY <1>4, <2>1 DEF SweepTakesOut, TakeOut
    <3>2. BeingBuried' = BeingBuried \cup {r}
      BY <1>1, <1>4, <2>1 DEF SweepTakesOut, BeingBuried
    <3> QED
      BY <1>1, <2>1, <3>1, <3>2, TakenOutLeaves
  <2>2. CASE r \notin runs
    BY <1>1, <1>2, <1>4, <2>2 DEF SweepTakesOut, BeingBuried
  <2> QED
    BY <2>1, <2>2
<1>5. CASE SweepBuries
  <2>1. /\ spc = "bury" /\ burying \in Runs /\ tpc[burying] # "bury" /\ spc' = "sweep"
        /\ runs' = runs
    BY <1>5 DEF SweepBuries, RegistryInv, SweeperInv
  <2>2. burying \in BeingBuried /\ BeingBuried' = BeingBuried \ {burying}
    BY <1>1, <2>1 DEF BeingBuried
  <2>3. forgotten \subseteq forgotten'
    BY <1>5 DEF SweepBuries, Bury, DropOldest
  <2> QED
    BY <1>1, <2>1, <2>2, <2>3, BuriedIsRemembered
<1>6. CASE SweepEvicts
  <2>1. runs' = runs /\ BeingBuried' = BeingBuried /\ forgotten \subseteq forgotten'
    BY <1>1, <1>6 DEF SweepEvicts, EvictOldTombstones, DropOldest, BeingBuried
  <2> QED
    BY <1>1, <2>1, DroppedIsForgotten
<1> QED
  BY <1>3, <1>4, <1>5, <1>6 DEF Sweep

LEMMA WalletLives ==
  ASSUME RegistryInv, RegistryInv', Phases, Phases', LookupInv, NEW w \in Wallets,
         Lookup(w) \/ HangUp(w)
  PROVE  [Promise!Next]_(Promise!vars)
<1>1. /\ UNCHANGED <<runs, tpc, spc, burying>> /\ BeingBuried' = BeingBuried
      /\ \A v \in Wallets : v # w => target'[v] = target[v]
      /\ verdict[w] = "none"
  BY DEF Lookup, LookupActive, LookupExpired, LookupAbsent, LookupEvicts, LookupChecksTombs,
         HangUp, registry, sweeper, BeingBuried, RegistryInv, TypeOK, LookupInv
<1>2. ASSUME verdict' = verdict, UNCHANGED <<tombs, forgotten>> PROVE UNCHANGED Promise!vars
  <2>1. \A q \in Runs : PhaseOf(q)' = PhaseOf(q)
    BY <1>1, <1>2 DEF Phases, PhaseTells, InTombs
  <2> QED
    BY <1>1, <1>2, <2>1, Unseen
<1>3. ASSUME NEW r \in Runs, LookupActive(w, r) PROVE [Promise!Next]_(Promise!vars)
  <2>1. /\ r \in runs /\ target'[w] = r /\ verdict' = [verdict EXCEPT ![w] = "active"]
        /\ UNCHANGED <<tombs, forgotten>>
    BY <1>3 DEF LookupActive, registry, RegistryInv, TypeOK
  <2> QED
    BY <1>1, <2>1, ToldTruly
<1>4. ASSUME NEW r \in Runs, LookupExpired(w, r) PROVE UNCHANGED Promise!vars
  BY <1>2, <1>4 DEF LookupExpired, registry
<1>5. ASSUME NEW r \in Runs \cup {UnknownRun}, LookupAbsent(w, r) PROVE UNCHANGED Promise!vars
  BY <1>2, <1>5 DEF LookupAbsent, registry
<1>6. CASE LookupEvicts(w)
  <2>1. UNCHANGED <<target, verdict>> /\ forgotten \subseteq forgotten'
    BY <1>6 DEF LookupEvicts, EvictOldTombstones, DropOldest
  <2> QED
    BY <1>1, <2>1, DroppedIsForgotten
<1>7. CASE LookupChecksTombs(w)
  <2> DEFINE what == IF InTombs(target[w]) THEN "tombstoned" ELSE "missing"
  <2>1. /\ target[w] \in (Minted \cup {UnknownRun}) \ runs
        /\ verdict' = [verdict EXCEPT ![w] = what] /\ target' = target
        /\ UNCHANGED <<tombs, forgotten>>
    BY <1>7 DEF LookupChecksTombs, registry, LookupInv
  <2>2. what = "tombstoned" => target[w] \in Runs /\ InTombs(target[w])
    BY DEF InTombs, RegistryInv, TypeOK
  <2>3. what = "missing" => target[w] \in BeingBuried \cup forgotten \cup {UnknownRun}
    <3>1. target[w] \in Minted /\ ~InTombs(target[w]) => target[w] \in BeingBuried \cup forgotten
      BY <2>1, InvAccounts DEF RunAccounted, InTombs
    <3> QED
      BY <2>1, <3>1
  <2>4. target[w] \in Runs \cup {UnknownRun}
    BY DEF RegistryInv, TypeOK
  <2>5. what \in {"tombstoned", "missing"}
    OBVIOUS
  <2> HIDE DEF what
  <2> QED
    BY <1>1, <2>1, <2>2, <2>3, <2>4, <2>5, ToldTruly
<1>8. CASE HangUp(w)
  BY <1>2, <1>8 DEF HangUp, registry
<1> QED
  BY <1>3, <1>4, <1>5, <1>6, <1>7, <1>8 DEF Lookup

LEMMA ClockLives ==
  ASSUME Phases, Phases', TombAges \/ (\E r \in Runs : RunExpires(r)) \/ UNCHANGED vars
  PROVE  UNCHANGED Promise!vars
<1>1. UNCHANGED <<runs, tombs, forgotten, tpc, spc, burying, target, verdict>>
  BY DEF TombAges, RunExpires, registry, wallets, sweeper, vars
<1>2. \A q \in Runs : PhaseOf(q)' = PhaseOf(q)
  BY <1>1 DEF Phases, PhaseTells, InTombs, BeingBuried
<1> QED
  BY <1>1, <1>2, Unseen

LEMMA StepLives ==
  ASSUME RegistryInv, LookupInv, [Next]_vars
  PROVE  [Promise!Next]_(Promise!vars)
<1>1. RegistryInv'
  BY StepInv
<1>2. Phases /\ Phases'
  BY <1>1, PhasesTell, PTL
<1> QED
  BY <1>1, <1>2, MintLives, TunnelLives, SweepLives, WalletLives, ClockLives DEF Next

-------------------------------------------------------------------------------
(* The guard of the runs mutex *)

\* Who holds the runs mutex across an await is the lookup of an expired run, and
\* that run stays in the map for as long: nobody else keeps the mutex, and
\* nobody gets past it.
GuardHeld ==
  /\ \A w \in Wallets : wpc[w] = "remove" <=> lock = w
  /\ \A w \in Wallets : wpc[w] = "remove" => target[w] \in runs \cap expired

LEMMA InitGuard == Init => GuardHeld
BY RelayRegistryAssumption DEF Init, GuardHeld

LEMMA StepGuard ==
  ASSUME RegistryInv, GuardHeld, [Next]_vars
  PROVE  GuardHeld'
<1>1. Free \notin Wallets /\ lock \in Wallets \cup {Free}
  BY RelayRegistryAssumption DEF RegistryInv, TypeOK
<1>2. ASSUME UNCHANGED wallets, expired \subseteq expired', lock = Free \/ runs \subseteq runs'
      PROVE  GuardHeld'
  BY <1>1, <1>2 DEF GuardHeld, wallets
<1>3. ASSUME NEW r \in Runs, Mint(r) \/ TunnelEnds(r) \/ TunnelTakesOut(r) \/ TunnelBuries(r)
             \/ RunExpires(r)
      PROVE  GuardHeld'
  BY <1>2, <1>3 DEF Mint, TunnelEnds, TunnelTakesOut, TunnelBuries, RunExpires, registry
<1>4. ASSUME Sweep \/ TombAges \/ UNCHANGED vars PROVE GuardHeld'
  BY <1>2, <1>4 DEF Sweep, SweepCollects, SweepTakesOut, SweepBuries, SweepEvicts, TombAges,
                    registry, wallets, vars
<1>5. ASSUME NEW w \in Wallets, Lookup(w) \/ HangUp(w) PROVE GuardHeld'
  <2>1. /\ runs' = runs /\ expired' = expired
        /\ \A v \in Wallets \ {w} : wpc'[v] = wpc[v] /\ target'[v] = target[v]
    BY <1>5 DEF Lookup, LookupActive, LookupExpired, LookupAbsent, LookupEvicts,
                LookupChecksTombs, HangUp, registry, RegistryInv, TypeOK
  <2>2. CASE \E r \in Runs : LookupExpired(w, r)
    <3>1. PICK r \in Runs : LookupExpired(w, r)
      BY <2>2
    <3>2. lock = Free /\ lock' = w /\ wpc'[w] = "remove" /\ target'[w] = r /\ r \in runs \cap expired
      BY <3>1 DEF LookupExpired, RegistryInv, TypeOK
    <3> QED
      BY <1>1, <2>1, <3>2 DEF GuardHeld
  <2>3. CASE HangUp(w)
    <3>1. wpc'[w] = "dropped" /\ lock' = IF lock = w THEN Free ELSE lock
      BY <2>3 DEF HangUp, RegistryInv, TypeOK
    <3> QED
      BY <1>1, <2>1, <3>1 DEF GuardHeld
  <2>4. CASE Lookup(w) /\ ~\E r \in Runs : LookupExpired(w, r)
    <3>1. wpc[w] # "remove" /\ wpc'[w] # "remove" /\ lock' = lock
      BY <2>4 DEF Lookup, LookupActive, LookupAbsent, LookupEvicts, LookupChecksTombs,
                  RegistryInv, TypeOK
    <3> QED
      BY <1>1, <2>1, <3>1 DEF GuardHeld
  <2> QED
    BY <1>5, <2>2, <2>3, <2>4
<1> QED
  BY <1>3, <1>4, <1>5 DEF Next

-------------------------------------------------------------------------------
(* The theorems *)

THEOREM RegistryInvariant == Spec => []RegistryInv
BY InitInv, StepInv, PTL DEF Spec

\* The registry keeps its types and both its limits: the map never holds more
\* runs than MaxRuns, and insert_tombstone never leaves more than MaxTombs.
THEOREM RegistryTyped == Spec => []TypeOK
BY RegistryInvariant, PTL DEF RegistryInv

\* A minted run is in the map, in the hands of one remover, in the tombstones or
\* forgotten, and in one of these only, whatever the order in which the tunnel's
\* end, the sweeper and lookups take the two mutexes.
THEOREM RunsAreAccounted == Spec => []RunAccounted
BY RegistryInvariant, InvAccounts, PTL

\* The registry keeps what RunLife promises: a run goes from the map to the hands
\* of one remover, to the tombstones, to the forgotten, and never back; no more
\* runs live and are buried than the limits say, and mint refuses only when the
\* map is full; and what a lookup returns holds when it returns, though it asks
\* the map and the tombstones one after the other.
THEOREM RunsGoOneWay == Spec => ImplementsRunLife
<1>1. RegistryInv /\ LookupInv /\ [Next]_vars =>
        LookupInv' /\ [Promise!Next]_(Promise!vars)
  BY LookupStep, StepLives
<1> QED
  BY InitPromised, RegistryInvariant, <1>1, PTL DEF Spec, ImplementsRunLife, Promise!Spec

\* The mutex of the map is kept over an await by lookups of expired runs only,
\* one at a time, and the run it found stays in the map until its wallet hangs
\* up: what a wedged lookup blocks, and what it does not.
THEOREM GuardIsHeld == Spec => []GuardHeld
BY InitGuard, StepGuard, RegistryInvariant, PTL DEF Spec
===============================================================================
