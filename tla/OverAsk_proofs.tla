----------------------------- MODULE OverAsk_proofs ----------------------------
(***************************************************************************)
(* Lemmas about OverAsk: what its sequences hold, for sequences of any     *)
(* length, and what its counts mean.  The induction over how far a         *)
(* sequence was read is about a set of numbers, not about a predicate.     *)
(***************************************************************************)
EXTENDS OverAsk, FiniteSetTheorems, WellFoundedInduction, TLAPS

-------------------------------------------------------------------------------
(* Counting up *)

\* Of the numbers of a finite set one is the least.  (The library states this
\* for subsets ordered by inclusion; a number stands for the numbers below it.)
LEMMA LeastNumber ==
  ASSUME NEW k \in Nat, NEW S \in SUBSET (1..k), S # {}
  PROVE  \E n \in S : \A m \in 1..(n - 1) : m \notin S
<1> DEFINE R == StrictSubsetOrdering(1..k)
           T == {1..n : n \in S}
<1>1. IsFiniteSet(1..k)
  BY FS_Interval
<1>2. IsWellFoundedOn(R, FiniteSubsetsOf(1..k))
  BY FS_StrictSubsetOrderingWellFounded
<1>3. T \subseteq FiniteSubsetsOf(1..k)
  <2> SUFFICES ASSUME NEW n \in S PROVE 1..n \in FiniteSubsetsOf(1..k)
    OBVIOUS
  <2>1. 1..n \in SUBSET (1..k) /\ IsFiniteSet(1..n)
    BY FS_Interval
  <2> QED
    BY <2>1 DEF FiniteSubsetsOf
<1>4. T # {}
  OBVIOUS
<1> HIDE DEF R
<1>5. \E x \in T : \A y \in T : ~(<<y, x>> \in R)
  <2> HIDE DEF T
  <2> QED
    BY <1>2, <1>3, <1>4, WFMin
<1>6. PICK n \in S : \A m \in S : <<1..m, 1..n>> \notin R
  BY <1>5
<1>7. ASSUME NEW m \in 1..(n - 1), m \in S PROVE FALSE
  <2>1. 1..m \in SUBSET (1..k) /\ 1..n \in SUBSET (1..k)
    OBVIOUS
  <2>2. 1..m \subseteq 1..n /\ n \in 1..n /\ n \notin 1..m
    OBVIOUS
  <2>3. <<1..m, 1..n>> \in R
    BY <2>1, <2>2 DEF R, StrictSubsetOrdering
  <2> QED
    BY <1>6, <1>7, <2>3
<1> QED
  BY <1>7

\* A set of numbers that holds 0 and the successor of what it holds, up to k.
LEMMA CountUp ==
  ASSUME NEW k \in Nat, NEW P, 0 \in P,
         \A n \in 0..(k - 1) : n \in P => n + 1 \in P
  PROVE  \A n \in 0..k : n \in P
<1> SUFFICES ASSUME NEW n \in 0..k, n \notin P PROVE FALSE
  OBVIOUS
<1> DEFINE S == {m \in 1..k : m \notin P}
<1>1. n \in S
  OBVIOUS
<1>2. PICK m \in S : \A l \in 1..(m - 1) : l \notin S
  <2> HIDE DEF S
  <2>1. S \in SUBSET (1..k)
    BY DEF S
  <2> QED
    BY <1>1, <2>1, LeastNumber
<1>3. m - 1 \in 0..(k - 1) /\ m - 1 \in P
  BY <1>2
<1> QED
  BY <1>2, <1>3

-------------------------------------------------------------------------------
(* Sequences without an element *)

\* The element of position n is left out or put at the end.
Reading(rest, e, x) == IF e = x THEN rest ELSE Append(rest, e)

IsKept(f, s, x, k) == f = [n \in 0..k |-> IF n = 0 THEN <<>> ELSE Reading(f[n - 1], s[n], x)]

LEMMA KeptExists ==
  ASSUME NEW s, NEW x, NEW k \in Nat
  PROVE  \E f : IsKept(f, s, x, k)
<1> DEFINE P == {n \in 0..k : \E f : IsKept(f, s, x, n)}
<1>1. 0 \in P
  <2> DEFINE f == [n \in 0..0 |-> <<>>]
  <2>1. IsKept(f, s, x, 0)
    BY DEF IsKept
  <2> QED
    BY <2>1
<1>2. ASSUME NEW n \in 0..(k - 1), n \in P PROVE n + 1 \in P
  <2> PICK f : IsKept(f, s, x, n)
    BY <1>2
  <2> DEFINE g == [m \in 0..(n + 1) |-> IF m = n + 1 THEN Reading(f[n], s[n + 1], x) ELSE f[m]]
  <2>1. \A m \in 0..(n + 1) : g[m] = IF m = 0 THEN <<>> ELSE Reading(g[m - 1], s[m], x)
    <3>1. \A m \in 0..n : f[m] = IF m = 0 THEN <<>> ELSE Reading(f[m - 1], s[m], x)
      BY DEF IsKept
    <3>2. \A m \in 0..n : g[m] = f[m]
      OBVIOUS
    <3>3. g[n + 1] = Reading(f[n], s[n + 1], x)
      OBVIOUS
    <3>4. ASSUME NEW m \in 0..(n + 1)
          PROVE  g[m] = IF m = 0 THEN <<>> ELSE Reading(g[m - 1], s[m], x)
      <4> HIDE DEF g
      <4>1. CASE m = n + 1
        <5>1. m # 0 /\ m - 1 = n /\ g[n] = f[n]
          BY <3>2, <4>1
        <5> QED
          BY <3>3, <4>1, <5>1
      <4>2. CASE m = 0
        BY <3>1, <3>2, <4>2
      <4>3. CASE m # n + 1 /\ m # 0
        <5>1. m \in 0..n /\ m - 1 \in 0..n
          BY <4>3
        <5> QED
          BY <3>1, <3>2, <4>3, <5>1
      <4> QED
        BY <4>1, <4>2, <4>3
    <3> QED
      BY <3>4
  <2>2. g = [m \in 0..(n + 1) |-> g[m]]
    OBVIOUS
  <2>3. IsKept(g, s, x, n + 1)
    <3> HIDE DEF g
    <3> QED
      BY <2>1, <2>2, Zenon DEF IsKept
  <2> QED
    BY <2>3
<1> HIDE DEF P
<1>3. \A n \in 0..k : n \in P
  BY <1>1, <1>2, CountUp
<1> QED
  BY <1>3 DEF P

\* Reading a sequence to its end leaves its elements but x, in their order: all
\* of it if x is none of them.
LEMMA WithoutProperties ==
  ASSUME NEW S, NEW s \in Seq(S), NEW x
  PROVE  /\ Without(s, x) \in Seq(S \ {x})
         /\ (\A i \in DOMAIN s : s[i] # x) => Without(s, x) = s
<1> DEFINE k == Len(s)
           f == CHOOSE g : IsKept(g, s, x, k)
<1>1. k \in Nat /\ DOMAIN s = 1..k /\ \A i \in 1..k : s[i] \in S
  OBVIOUS
<1>2. Without(s, x) = f[k]
  BY DEF Without, IsKept, Reading
<1> HIDE DEF k
<1>3. IsKept(f, s, x, k)
  BY <1>1, KeptExists
<1> HIDE DEF f
<1>4. \A n \in 0..k : f[n] = IF n = 0 THEN <<>> ELSE Reading(f[n - 1], s[n], x)
  BY <1>3 DEF IsKept
<1>5. f[k] \in Seq(S \ {x})
  <2> DEFINE P == {n \in 0..k : f[n] \in Seq(S \ {x})}
  <2>1. 0 \in P
    <3>1. 0 \in 0..k /\ f[0] = <<>>
      BY <1>1, <1>4
    <3>2. <<>> \in Seq(S \ {x})
      OBVIOUS
    <3> QED
      BY <3>1, <3>2
  <2>2. ASSUME NEW n \in 0..(k - 1), n \in P PROVE n + 1 \in P
    <3>1. n + 1 \in 1..k /\ n + 1 \in 0..k /\ (n + 1) - 1 = n /\ n + 1 # 0
      BY <1>1
    <3>2. f[n + 1] = Reading(f[n], s[n + 1], x)
      BY <1>4, <3>1
    <3>3. s[n + 1] \in S /\ f[n] \in Seq(S \ {x})
      BY <1>1, <2>2, <3>1
    <3>4. Reading(f[n], s[n + 1], x) \in Seq(S \ {x})
      BY <3>3 DEF Reading
    <3> QED
      BY <3>1, <3>2, <3>4
  <2> HIDE DEF P
  <2>3. \A n \in 0..k : n \in P
    BY <1>1, <2>1, <2>2, CountUp
  <2> QED
    BY <1>1, <2>3 DEF P
<1>6. ASSUME \A i \in 1..k : s[i] # x PROVE f[k] = s
  <2> DEFINE P == {n \in 0..k : f[n] = SubSeq(s, 1, n)}
  <2>1. 0 \in P
    <3>1. 0 \in 0..k /\ f[0] = <<>>
      BY <1>1, <1>4
    <3>2. SubSeq(s, 1, 0) = <<>>
      OBVIOUS
    <3> QED
      BY <3>1, <3>2
  <2>2. ASSUME NEW n \in 0..(k - 1), n \in P PROVE n + 1 \in P
    <3>1. n + 1 \in 1..k /\ n + 1 \in 0..k /\ (n + 1) - 1 = n /\ n + 1 # 0
      BY <1>1
    <3>2. f[n + 1] = Append(SubSeq(s, 1, n), s[n + 1])
      BY <1>4, <1>6, <2>2, <3>1 DEF Reading
    <3>3. Append(SubSeq(s, 1, n), s[n + 1]) = SubSeq(s, 1, n + 1)
      BY <1>1, <3>1 DEF k
    <3> QED
      BY <3>1, <3>2, <3>3
  <2> HIDE DEF P
  <2>3. \A n \in 0..k : n \in P
    BY <1>1, <2>1, <2>2, CountUp
  <2>4. f[k] = SubSeq(s, 1, k)
    BY <1>1, <2>3 DEF P
  <2> QED
    BY <2>4 DEF k
<1> QED
  BY <1>1, <1>2, <1>5, <1>6

-------------------------------------------------------------------------------
(* Flattened sequences *)

IsFlat(f, seqs, k) == f = [i \in 1..k |-> IF i = 1 THEN seqs[i] ELSE f[i - 1] \o seqs[i]]

LEMMA FlatExists ==
  ASSUME NEW seqs, NEW k \in Nat
  PROVE  \E f : IsFlat(f, seqs, k)
<1> DEFINE P == {n \in 0..k : \E f : IsFlat(f, seqs, n)}
<1>1. 0 \in P
  <2> DEFINE f == [i \in 1..0 |-> <<>>]
  <2>1. IsFlat(f, seqs, 0)
    BY DEF IsFlat
  <2> QED
    BY <2>1
<1>2. ASSUME NEW n \in 0..(k - 1), n \in P PROVE n + 1 \in P
  <2> PICK f : IsFlat(f, seqs, n)
    BY <1>2
  <2> DEFINE last == IF n = 0 THEN seqs[1] ELSE f[n] \o seqs[n + 1]
             g == [i \in 1..(n + 1) |-> IF i = n + 1 THEN last ELSE f[i]]
  <2>1. \A i \in 1..n : f[i] = IF i = 1 THEN seqs[i] ELSE f[i - 1] \o seqs[i]
    BY DEF IsFlat
  <2>2. \A i \in 1..n : g[i] = f[i]
    OBVIOUS
  <2>3. g[n + 1] = last
    OBVIOUS
  <2>4. g = [i \in 1..(n + 1) |-> g[i]]
    OBVIOUS
  <2>5. ASSUME NEW i \in 1..(n + 1)
        PROVE  g[i] = IF i = 1 THEN seqs[i] ELSE g[i - 1] \o seqs[i]
    <3> HIDE DEF g
    <3>1. CASE i = n + 1
      <4>1. n # 0 => n \in 1..n /\ i - 1 = n
        BY <3>1
      <4> QED
        BY <2>2, <2>3, <3>1, <4>1
    <3>2. CASE i # n + 1
      <4>1. i \in 1..n /\ (i # 1 => i - 1 \in 1..n)
        BY <3>2
      <4> QED
        BY <2>1, <2>2, <4>1
    <3> QED
      BY <3>1, <3>2
  <2>6. IsFlat(g, seqs, n + 1)
    <3> HIDE DEF g
    <3> QED
      BY <2>4, <2>5, Zenon DEF IsFlat
  <2> QED
    BY <2>6
<1> HIDE DEF P
<1>3. \A n \in 0..k : n \in P
  BY <1>1, <1>2, CountUp
<1> QED
  BY <1>3 DEF P

\* A flattened sequence has the elements of its parts and no others.
LEMMA FlattenProperties ==
  ASSUME NEW S, NEW seqs \in Seq(Seq(S))
  PROVE  /\ FlattenSeq(seqs) \in Seq(S)
         /\ \A i \in DOMAIN FlattenSeq(seqs) :
              \E c \in DOMAIN seqs : \E j \in DOMAIN seqs[c] : FlattenSeq(seqs)[i] = seqs[c][j]
<1> DEFINE k == Len(seqs)
           f == CHOOSE g : IsFlat(g, seqs, k)
           From(n) == {e \in S : \E c \in 1..n : \E j \in DOMAIN seqs[c] : e = seqs[c][j]}
<1>1. k \in Nat /\ DOMAIN seqs = 1..k /\ \A c \in 1..k : seqs[c] \in Seq(S)
  OBVIOUS
<1>2. FlattenSeq(seqs) = IF k = 0 THEN seqs ELSE f[k]
  BY DEF FlattenSeq, IsFlat
<1>3. k = 0 => seqs = <<>>
  OBVIOUS
<1> HIDE DEF k
<1>4. IsFlat(f, seqs, k)
  BY <1>1, FlatExists
<1> HIDE DEF f
<1>5. \A n \in 1..k : f[n] = IF n = 1 THEN seqs[n] ELSE f[n - 1] \o seqs[n]
  BY <1>4 DEF IsFlat
<1>6. \A c \in 1..k : seqs[c] \in Seq(From(c))
  <2> SUFFICES ASSUME NEW c \in 1..k PROVE seqs[c] \in Seq(From(c))
    OBVIOUS
  <2> DEFINE t == seqs[c]
  <2>1. t \in Seq(S) /\ \A j \in DOMAIN t : t[j] \in S
    BY <1>1
  <2>2. \A j \in DOMAIN t : t[j] \in From(c)
    BY <1>1, <2>1
  <2> HIDE DEF t, From
  <2>3. t \in Seq(From(c))
    BY <2>1, <2>2
  <2> QED
    BY <2>3 DEF t
<1>7. \A n \in 0..(k - 1) : From(n) \subseteq From(n + 1)
  BY <1>1
<1> DEFINE P == {n \in 0..k : n # 0 => f[n] \in Seq(From(n))}
<1>8. ASSUME NEW n \in 0..(k - 1), n \in P PROVE n + 1 \in P
  <2>1. n + 1 \in 1..k /\ n + 1 \in 0..k /\ (n + 1) - 1 = n
    BY <1>1
  <2>2. f[n + 1] = IF n = 0 THEN seqs[n + 1] ELSE f[n] \o seqs[n + 1]
    BY <1>5, <2>1
  <2>3. seqs[n + 1] \in Seq(From(n + 1))
    BY <1>6, <2>1
  <2>4. n # 0 => f[n] \in Seq(From(n)) /\ From(n) \subseteq From(n + 1)
    BY <1>7, <1>8
  <2> HIDE DEF From
  <2>5. n # 0 => f[n] \in Seq(From(n + 1))
    BY <2>4
  <2>6. f[n + 1] \in Seq(From(n + 1))
    <3>1. CASE n = 0
      BY <2>2, <2>3, <3>1
    <3>2. CASE n # 0
      <4>1. \A T : \A a, b \in Seq(T) : a \o b \in Seq(T)
        OBVIOUS
      <4> QED
        BY <2>2, <2>3, <2>5, <3>2, <4>1
    <3> QED
      BY <3>1, <3>2
  <2> QED
    BY <2>1, <2>6
<1>9. k # 0 => f[k] \in Seq(From(k))
  <2>1. 0 \in P
    BY <1>1
  <2> HIDE DEF P
  <2>2. \A n \in 0..k : n \in P
    BY <1>1, <1>8, <2>1, CountUp
  <2> QED
    BY <1>1, <2>2 DEF P
<1>10. FlattenSeq(seqs) \in Seq(From(k))
  BY <1>2, <1>3, <1>9
<1>11. From(k) \subseteq S
  OBVIOUS
<1>12. FlattenSeq(seqs) \in Seq(S)
  <2> HIDE DEF From
  <2> QED
    BY <1>10, <1>11
<1>13. \A i \in DOMAIN FlattenSeq(seqs) : FlattenSeq(seqs)[i] \in From(k)
  <2> HIDE DEF From
  <2> QED
    BY <1>10
<1> QED
  BY <1>1, <1>12, <1>13

\* One part is all there is.
LEMMA FlattenOne ==
  ASSUME NEW S, NEW s \in Seq(S)
  PROVE  FlattenSeq(<<s>>) = s
<1> DEFINE seqs == <<s>>
           f == CHOOSE g : IsFlat(g, seqs, 1)
<1>1. Len(seqs) = 1 /\ seqs[1] = s
  OBVIOUS
<1> HIDE DEF seqs
<1>2. FlattenSeq(seqs) = f[1]
  BY <1>1 DEF FlattenSeq, IsFlat
<1>3. IsFlat(f, seqs, 1)
  BY FlatExists
<1> HIDE DEF f
<1>4. f[1] = seqs[1]
  BY <1>3 DEF IsFlat
<1> QED
  BY <1>1, <1>2, <1>4 DEF seqs

-------------------------------------------------------------------------------
(* Keys *)

\* A path of names is the same key on both sides.
LEMMA NamedPath ==
  ASSUME NEW path \in Seq(STRING), Wildcard \notin ToSet(path)
  PROVE  RequestedKey(path) = path /\ RegisteredKey(path) = path
<1>1. \A i \in DOMAIN path : path[i] # Wildcard
  BY DEF ToSet
<1>2. RegisteredKey(path) = path
  BY <1>1, WithoutProperties DEF RegisteredKey
<1>3. path = [i \in DOMAIN path |-> path[i]]
  OBVIOUS
<1>4. \A i \in DOMAIN path : SegKey(path[i]) = path[i]
  BY <1>1 DEF SegKey
<1> QED
  BY <1>2, <1>3, <1>4 DEF RequestedKey

\* The keys of a query of one credential, in the order of its paths.
LEMMA KeysOfPidQuery ==
  ASSUME NEW paths \in Seq(Seq(STRING))
  PROVE  RequestedKeys(PidQuery(paths)) = [i \in DOMAIN paths |-> RequestedKey(paths[i])]
<1> DEFINE keys == [i \in DOMAIN paths |-> RequestedKey(paths[i])]
           seqs == [c \in DOMAIN PidQuery(paths) |->
                      [i \in DOMAIN PidQuery(paths)[c].claims |->
                         RequestedKey(PidQuery(paths)[c].claims[i])]]
           S == {RequestedKey(paths[i]) : i \in DOMAIN paths}
<1>1. DOMAIN PidQuery(paths) = {1} /\ PidQuery(paths)[1].claims = paths
  BY DEF PidQuery, Credential
<1>2. DOMAIN seqs = {1} /\ seqs[1] = keys
  BY <1>1
<1>3. keys \in Seq(S)
  OBVIOUS
<1>4. seqs = <<keys>>
  <2> HIDE DEF keys
  <2>1. seqs = [c \in {1} |-> keys]
    BY <1>1 DEF keys
  <2> HIDE DEF seqs
  <2> QED
    BY <2>1
<1>5. RequestedKeys(PidQuery(paths)) = FlattenSeq(seqs)
  BY DEF RequestedKeys
<1> HIDE DEF keys, seqs, S
<1>6. FlattenSeq(<<keys>>) = keys
  BY <1>3, FlattenOne
<1> QED
  BY <1>4, <1>5, <1>6 DEF keys

-------------------------------------------------------------------------------
(* Counts *)

LEMMA CountIsZero ==
  ASSUME NEW keys, NEW registered, NEW minimal, NEW status,
         \A i \in DOMAIN keys : ClaimStatus(keys[i], registered, minimal) # status
  PROVE  CountOf(keys, registered, minimal, status) = 0
<1>1. {i \in DOMAIN keys : ClaimStatus(keys[i], registered, minimal) = status} = {}
  OBVIOUS
<1> QED
  BY <1>1, FS_EmptySet DEF CountOf

LEMMA CountType ==
  ASSUME NEW S, NEW keys \in Seq(S), NEW registered, NEW minimal, NEW status
  PROVE  /\ CountOf(keys, registered, minimal, status) \in Nat
         /\ CountOf(keys, registered, minimal, status) = 0 =>
              \A i \in DOMAIN keys : ClaimStatus(keys[i], registered, minimal) # status
<1> DEFINE T == {i \in DOMAIN keys : ClaimStatus(keys[i], registered, minimal) = status}
<1>1. IsFiniteSet(DOMAIN keys)
  <2>1. DOMAIN keys = 1..Len(keys) /\ Len(keys) \in Nat
    OBVIOUS
  <2> QED
    BY <2>1, FS_Interval
<1>2. IsFiniteSet(T)
  BY <1>1, FS_Subset
<1>3. CountOf(keys, registered, minimal, status) = Cardinality(T)
  BY DEF CountOf
<1>4. Cardinality(T) = 0 => T = {}
  <2> HIDE DEF T
  <2> QED
    BY <1>2, FS_EmptySet
<1>5. Cardinality(T) \in Nat
  BY <1>2, FS_CardinalityType
<1> QED
  BY <1>3, <1>4, <1>5

\* The size of a set split in two.
LEMMA SplitInTwo ==
  ASSUME NEW S, NEW T, IsFiniteSet(S), IsFiniteSet(T), S \cap T = {}
  PROVE  /\ IsFiniteSet(S \cup T) /\ Cardinality(S) \in Nat /\ Cardinality(T) \in Nat
         /\ Cardinality(S \cup T) = Cardinality(S) + Cardinality(T)
BY FS_Union, FS_EmptySet, FS_CardinalityType

\* Every key requested has one of the four statuses.
LEMMA CountsAddUp ==
  ASSUME NEW S, NEW keys \in Seq(S), NEW registered, NEW minimal
  PROVE  Len(keys) = CountOf(keys, registered, minimal, "BeyondRegistration")
                     + CountOf(keys, registered, minimal, "BeyondPurpose")
                     + CountOf(keys, registered, minimal, "MinimalForPurpose")
                     + CountOf(keys, registered, minimal, "NotEvaluated")
<1> DEFINE Having(status) ==
             {i \in DOMAIN keys : ClaimStatus(keys[i], registered, minimal) = status}
           A == Having("BeyondRegistration")
           B == Having("BeyondPurpose")
           C == Having("MinimalForPurpose")
           D == Having("NotEvaluated")
<1>1. DOMAIN keys = 1..Len(keys) /\ Len(keys) \in Nat
  OBVIOUS
<1>2. IsFiniteSet(DOMAIN keys) /\ Cardinality(DOMAIN keys) = Len(keys)
  BY <1>1, FS_Interval
<1>3. A \subseteq DOMAIN keys /\ B \subseteq DOMAIN keys /\ C \subseteq DOMAIN keys
      /\ D \subseteq DOMAIN keys
  OBVIOUS
<1>4. A \cap B = {} /\ (A \cup B) \cap C = {} /\ (A \cup B \cup C) \cap D = {}
  OBVIOUS
<1>5. DOMAIN keys = A \cup B \cup C \cup D
  BY DEF ClaimStatus
<1>6. /\ CountOf(keys, registered, minimal, "BeyondRegistration") = Cardinality(A)
      /\ CountOf(keys, registered, minimal, "BeyondPurpose") = Cardinality(B)
      /\ CountOf(keys, registered, minimal, "MinimalForPurpose") = Cardinality(C)
      /\ CountOf(keys, registered, minimal, "NotEvaluated") = Cardinality(D)
  BY DEF CountOf
<1> HIDE DEF A, B, C, D
<1>7. IsFiniteSet(A) /\ IsFiniteSet(B) /\ IsFiniteSet(C) /\ IsFiniteSet(D)
  BY <1>2, <1>3, FS_Subset
<1>8. IsFiniteSet(A \cup B) /\ Cardinality(A \cup B) = Cardinality(A) + Cardinality(B)
  BY <1>4, <1>7, SplitInTwo
<1>9. /\ IsFiniteSet(A \cup B \cup C)
      /\ Cardinality(A \cup B \cup C) = Cardinality(A \cup B) + Cardinality(C)
  BY <1>4, <1>7, <1>8, SplitInTwo
<1>10. Cardinality(A \cup B \cup C \cup D) = Cardinality(A \cup B \cup C) + Cardinality(D)
  BY <1>4, <1>7, <1>9, SplitInTwo
<1> QED
  BY <1>2, <1>5, <1>6, <1>8, <1>9, <1>10

\* The claims of a credential are sequences of paths, whichever of them is read.
LEMMA CredentialType ==
  ASSUME NEW cred \in Credentials
  PROVE  /\ cred.has \in SUBSET {"claims", "claim"} /\ IsFiniteSet(cred.has)
         /\ cred.claims \in Seq(Seq(STRING)) /\ cred.claim \in Seq(Seq(STRING))
         /\ BodyPaths(cred) \in Seq(Seq(STRING)) /\ CertificatePaths(cred) \in Seq(Seq(STRING))
<1>1. ASSUME NEW F, NEW V, NEW H, NEW P,
             NEW c \in [format : F, vcts : V, has : H, claims : P, claim : P]
      PROVE  c.has \in H /\ c.claims \in P /\ c.claim \in P
  OBVIOUS
<1>2. /\ cred.has \in SUBSET {"claims", "claim"}
      /\ cred.claims \in Seq(Seq(STRING)) /\ cred.claim \in Seq(Seq(STRING))
  BY <1>1, Zenon DEF Credentials
<1>3. IsFiniteSet({"claims", "claim"})
  <2>1. IsFiniteSet({"claims"}) /\ {"claims", "claim"} = {"claims"} \cup {"claim"}
    BY FS_Singleton
  <2> QED
    BY <2>1, FS_AddElement
<1>4. IsFiniteSet(cred.has)
  BY <1>2, <1>3, FS_Subset
<1> QED
  BY <1>2, <1>4, Zenon DEF BodyPaths, CertificatePaths

\* A body whose paths can be collected asks for nothing beyond what its own
\* certificate registers, when each of its credentials has a format and its
\* claims under one key only.
LEMMA BodyAuthorizesItself ==
  ASSUME NEW body \in Seq(Credentials), CollectClaimPaths(body).ok,
         \A k \in DOMAIN body : Cardinality(body[k].has) = 1 /\ body[k].format # "none"
  PROVE  Analyze(PidQuery(CollectClaimPaths(body).paths), Axis(AllClaimKeys(body)), Unknown, {})
           .beyondRegistration = 0
<1> DEFINE seqs == [c \in DOMAIN body |-> BodyPaths(body[c])]
           paths == FlattenSeq(seqs)
           keys == RequestedKeys(PidQuery(paths))
<1>1. \A c \in DOMAIN body : body[c] \in Credentials
  OBVIOUS
<1>2. seqs \in Seq(Seq(Seq(STRING)))
  <2>1. \A c \in DOMAIN body : BodyPaths(body[c]) \in Seq(Seq(STRING))
    BY <1>1, CredentialType
  <2> QED
    BY <2>1
<1>3. /\ CollectClaimPaths(body).paths = paths
      /\ \A i \in DOMAIN paths : Wildcard \notin ToSet(paths[i])
  BY DEF CollectClaimPaths
<1>4. /\ paths \in Seq(Seq(STRING))
      /\ \A i \in DOMAIN paths :
           \E c \in DOMAIN seqs : \E j \in DOMAIN seqs[c] : paths[i] = seqs[c][j]
  <2> HIDE DEF seqs
  <2> QED
    BY <1>2, FlattenProperties
<1>5. \A c \in DOMAIN body : CertificatePaths(body[c]) = BodyPaths(body[c])
  <2> SUFFICES ASSUME NEW c \in DOMAIN body PROVE CertificatePaths(body[c]) = BodyPaths(body[c])
    OBVIOUS
  <2>1. IsFiniteSet(body[c].has) /\ body[c].has \in SUBSET {"claims", "claim"}
    BY <1>1, CredentialType
  <2>2. PICK key : body[c].has = {key}
    BY <2>1, FS_Singleton
  <2> QED
    BY <2>1, <2>2 DEF CertificatePaths, BodyPaths
<1>6. \A c \in DOMAIN body : c \in Readable(body)
  BY DEF Readable
<1>7. ASSUME NEW i \in DOMAIN paths PROVE RequestedKey(paths[i]) \in AllClaimKeys(body)
  <2> PICK c \in DOMAIN body : \E j \in DOMAIN BodyPaths(body[c]) : paths[i] = BodyPaths(body[c])[j]
    BY <1>4
  <2> HIDE DEF paths
  <2>1. paths[i] \in ToSet(CertificatePaths(body[c]))
    BY <1>5 DEF ToSet
  <2>2. paths[i] \in Seq(STRING)
    BY <1>4
  <2>3. RequestedKey(paths[i]) = RegisteredKey(paths[i])
    BY <1>3, <2>2, NamedPath
  <2> QED
    BY <1>6, <2>1, <2>3 DEF AllClaimKeys
<1> HIDE DEF paths
<1>8. keys = [i \in DOMAIN paths |-> RequestedKey(paths[i])]
  BY <1>4, KeysOfPidQuery
<1>9. \A i \in DOMAIN keys : keys[i] \in AllClaimKeys(body)
  BY <1>7, <1>8
<1> HIDE DEF keys
<1>10. \A i \in DOMAIN keys :
         ClaimStatus(keys[i], Axis(AllClaimKeys(body)), Unknown) # "BeyondRegistration"
  BY <1>9 DEF ClaimStatus, Axis, Unknown
<1>11. CountOf(keys, Axis(AllClaimKeys(body)), Unknown, "BeyondRegistration") = 0
  BY <1>10, CountIsZero
<1> QED
  BY <1>3, <1>11 DEF Analyze, keys
-------------------------------------------------------------------------------
(* The verdict of an audit *)

\* The keys of a query are a sequence.
LEMMA RequestedKeysType ==
  ASSUME NEW query \in Seq(Credentials)
  PROVE  \E S : RequestedKeys(query) \in Seq(S)
<1> DEFINE seqs == [c \in DOMAIN query |->
                      [i \in DOMAIN query[c].claims |-> RequestedKey(query[c].claims[i])]]
           S == UNION {{RequestedKey(query[c].claims[i]) : i \in DOMAIN query[c].claims}
                         : c \in DOMAIN query}
<1>1. \A c \in DOMAIN query : query[c].claims \in Seq(Seq(STRING))
  BY CredentialType
<1>2. \A c \in DOMAIN query :
        [i \in DOMAIN query[c].claims |-> RequestedKey(query[c].claims[i])] \in Seq(S)
  <2> SUFFICES ASSUME NEW c \in DOMAIN query
               PROVE  [i \in DOMAIN query[c].claims |-> RequestedKey(query[c].claims[i])] \in Seq(S)
    OBVIOUS
  <2> DEFINE t == query[c].claims
  <2>1. \A i \in DOMAIN t : RequestedKey(t[i]) \in S
    OBVIOUS
  <2>2. DOMAIN t = 1..Len(t) /\ Len(t) \in Nat
    BY <1>1
  <2> HIDE DEF t, S
  <2>3. [i \in DOMAIN t |-> RequestedKey(t[i])] \in Seq(S)
    BY <2>1, <2>2
  <2> QED
    BY <2>3 DEF t
<1>3. DOMAIN query = 1..Len(query) /\ Len(query) \in Nat
  OBVIOUS
<1>4. seqs \in Seq(Seq(S))
  <2> HIDE DEF S
  <2> QED
    BY <1>2, <1>3
<1>5. FlattenSeq(seqs) \in Seq(S)
  <2> HIDE DEF S, seqs
  <2> QED
    BY <1>4, FlattenProperties
<1>6. RequestedKeys(query) = FlattenSeq(seqs)
  BY DEF RequestedKeys
<1> HIDE DEF S, seqs
<1> QED
  BY <1>5, <1>6

\* No key is beyond what was evaluated and counted as nothing.
LEMMA NothingBeyond ==
  ASSUME NEW S, NEW keys \in Seq(S), NEW registered, NEW minimal,
         CountOf(keys, registered, minimal, "BeyondRegistration") = 0
  PROVE  /\ registered.known => ToSet(keys) \subseteq registered.keys
         /\ minimal.known /\ CountOf(keys, registered, minimal, "BeyondPurpose") = 0 =>
              ToSet(keys) \subseteq minimal.keys
<1>1. \A i \in DOMAIN keys : ClaimStatus(keys[i], registered, minimal) # "BeyondRegistration"
  BY CountType
<1>2. CountOf(keys, registered, minimal, "BeyondPurpose") = 0 =>
        \A i \in DOMAIN keys : ClaimStatus(keys[i], registered, minimal) # "BeyondPurpose"
  BY CountType
<1> QED
  BY <1>1, <1>2 DEF ClaimStatus, ToSet

\* The line, the class, the counts and the exit code of an audit, and what they
\* say of the keys.
LEMMA AuditTellsTheTruth ==
  ASSUME NEW query \in Seq(Credentials), NEW purpose, NEW scope,
         NEW report, report = AuditReport(query, purpose, scope)
  PROVE  /\ VerdictClass(report) = "over" <=> ~AuditOk(query, purpose, scope)
         /\ report.requested = report.beyondRegistration + report.beyondPurpose
                               + report.minimal + report.notEvaluated
         /\ VerdictLine(report) \in {"minimal", "within registration"} =>
              scope.given /\ ToSet(RequestedKeys(query)) \subseteq AllClaimKeys(scope.credentials)
         /\ VerdictLine(report) \in {"minimal", "within purpose"} =>
              purpose \in KnownBaselines /\ ToSet(RequestedKeys(query)) \subseteq Baselines[purpose]
         /\ VerdictClass(report) = "ok" => VerdictLine(report) \in {"minimal", "nothing requested"}
<1> DEFINE keys == RequestedKeys(query)
           registered == ScopeAxis(scope)
           minimal == PurposeAxis(purpose)
           n(status) == CountOf(keys, registered, minimal, status)
<1>1. PICK S : keys \in Seq(S)
  BY RequestedKeysType
<1>2. /\ report.requested = Len(keys)
      /\ report.beyondRegistration = n("BeyondRegistration")
      /\ report.beyondPurpose = n("BeyondPurpose")
      /\ report.minimal = n("MinimalForPurpose")
      /\ report.notEvaluated = n("NotEvaluated")
      /\ report.registrationEvaluated = registered.known
      /\ report.purposeEvaluated = minimal.known
  BY DEF AuditReport, Analyze
<1>3. n("BeyondRegistration") \in Nat /\ n("BeyondPurpose") \in Nat /\ Len(keys) \in Nat
  BY <1>1, CountType
<1>4. /\ registered.known => scope.given /\ registered.keys = AllClaimKeys(scope.credentials)
      /\ minimal.known => purpose \in KnownBaselines /\ minimal.keys = Baselines[purpose]
  BY DEF ScopeAxis, PurposeAxis, Axis, Unknown
<1> HIDE DEF keys, registered, minimal
<1>5. n("BeyondRegistration") = 0 =>
        /\ registered.known => ToSet(keys) \subseteq registered.keys
        /\ minimal.known /\ n("BeyondPurpose") = 0 => ToSet(keys) \subseteq minimal.keys
  BY <1>1, NothingBeyond
<1>6. Len(keys) = n("BeyondRegistration") + n("BeyondPurpose") + n("MinimalForPurpose")
                  + n("NotEvaluated")
  BY <1>1, CountsAddUp
<1> HIDE DEF n
<1>7. VerdictClass(report) = "over" <=> ~AuditOk(query, purpose, scope)
  BY DEF VerdictClass, AuditOk
<1>8. VerdictLine(report) \in {"minimal", "within registration"} =>
        n("BeyondRegistration") = 0 /\ registered.known
  BY <1>2, <1>3 DEF VerdictLine
<1>9. VerdictLine(report) \in {"minimal", "within purpose"} =>
        n("BeyondRegistration") = 0 /\ n("BeyondPurpose") = 0 /\ minimal.known
  BY <1>2, <1>3 DEF VerdictLine
<1>10. VerdictClass(report) = "ok" => VerdictLine(report) \in {"minimal", "nothing requested"}
  BY <1>2, <1>3 DEF VerdictClass, VerdictLine, HasOverAsk
<1> QED
  BY <1>2, <1>4, <1>5, <1>6, <1>7, <1>8, <1>9, <1>10 DEF keys
===============================================================================
