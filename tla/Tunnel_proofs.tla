------------------------------ MODULE Tunnel_proofs -----------------------------
(***************************************************************************)
(* Proofs about Tunnel with the rate limiter and the relay's configuration *)
(* it is composed of: for any wallets, options, environments and limits.   *)
(***************************************************************************)
EXTENDS Tunnel, FiniteSetTheorems, SequenceTheorems, TLAPS

-------------------------------------------------------------------------------
(* Sizes and times *)

LEMMA LeastOfTwo ==
  ASSUME NEW a \in Int, NEW b \in Int
  PROVE  Least(a, b) = IF a <= b THEN a ELSE b
<1> DEFINE m == IF a <= b THEN a ELSE b
<1>1. m \in {a, b} /\ \A y \in {a, b} : m <= y
  OBVIOUS
<1>2. \A x \in {a, b} : (\A y \in {a, b} : x <= y) => x = m
  OBVIOUS
<1> HIDE DEF m
<1>3. Min({a, b}) = m
  BY <1>1, <1>2 DEF Min
<1> QED
  BY <1>3 DEF Least, m

LEMMA GreatestOfTwo ==
  ASSUME NEW a \in Int, NEW b \in Int
  PROVE  Max({a, b}) = IF a >= b THEN a ELSE b
<1> DEFINE m == IF a >= b THEN a ELSE b
<1>1. m \in {a, b} /\ \A y \in {a, b} : m >= y
  OBVIOUS
<1>2. \A x \in {a, b} : (\A y \in {a, b} : x >= y) => x = m
  OBVIOUS
<1> HIDE DEF m
<1>3. Max({a, b}) = m
  BY <1>1, <1>2 DEF Max
<1> QED
  BY <1>3 DEF m

LEMMA ClampBetween ==
  ASSUME NEW n \in Int, NEW low \in Int, NEW high \in Int, low <= high
  PROVE  Clamp(n, low, high) \in Int /\ low <= Clamp(n, low, high) /\ Clamp(n, low, high) <= high
<1> DEFINE m == IF n <= high THEN n ELSE high
<1>1. m \in Int /\ m <= high /\ Least(n, high) = m
  BY LeastOfTwo
<1> HIDE DEF m
<1>2. Clamp(n, low, high) = IF low >= m THEN low ELSE m
  BY <1>1, GreatestOfTwo DEF Clamp
<1> QED
  BY <1>1, <1>2

LEMMA ClampTtl ==
  ASSUME NEW n \in Int
  PROVE  Clamp(n, 1, HardMaxTtl) \in 1..HardMaxTtl
<1>1. HardMaxTtl \in Int /\ 1 <= HardMaxTtl
  BY SMT DEF HardMaxTtl
<1>2. Clamp(n, 1, HardMaxTtl) \in Int
      /\ 1 <= Clamp(n, 1, HardMaxTtl) /\ Clamp(n, 1, HardMaxTtl) <= HardMaxTtl
  BY <1>1, ClampBetween
<1> QED
  BY <1>1, <1>2

\* A run's time is clamped whatever the client asks for.
LEMMA TtlInBounds ==
  ASSUME NEW e \in Environments, NEW requested \in Sizes
  PROVE  ClampRequestedTtl(FromEnv(e), requested) \in 1..HardMaxTtl
<1> DEFINE t == FromEnv(e).runTtl
<1>1. Or(e.ttl, DefaultTtl) \in Nat
  BY SMT, EnvironmentsTyped DEF Or, Sizes, DefaultTtl
<1>2. t = Clamp(Or(e.ttl, DefaultTtl), 1, HardMaxTtl)
  BY SMT DEF FromEnv
<1>3. t \in Int
  BY <1>1, <1>2, ClampTtl
<1>4. Least(Or(requested, t), t) \in Int
  <2> HIDE DEF t
  <2>1. Or(requested, t) \in Int
    BY SMT, <1>3 DEF Or, Sizes
  <2> QED
    BY SMT, <1>3, <2>1, LeastOfTwo
<1>5. ClampRequestedTtl(FromEnv(e), requested) = Clamp(Least(Or(requested, t), t), 1, HardMaxTtl)
  BY DEF ClampRequestedTtl
<1> QED
  BY <1>4, <1>5, ClampTtl

LEMMA CapInBytes == MaxBodyForWsCap = 1560576
BY SMT DEF MaxBodyForWsCap, HardCap, OverheadBytes

LEMMA BodyLimitBounds ==
  ASSUME NEW e \in Environments
  PROVE  FromEnv(e).maxBody \in Nat /\ FromEnv(e).maxBody <= MaxBodyForWsCap
<1> DEFINE given == Or(e.bodyLimit, DefaultBodyLimit)
<1>1. given \in Nat
  BY SMT, EnvironmentsTyped DEF Or, Sizes, DefaultBodyLimit
<1>2. FromEnv(e).maxBody = BodyLimit(e) /\ BodyLimit(e) = Least(given, MaxBodyForWsCap)
  BY SMT DEF FromEnv, BodyLimit
<1> HIDE DEF given
<1>3. MaxBodyForWsCap \in Nat
  BY SMT, CapInBytes
<1>4. BodyLimit(e) \in Nat /\ BodyLimit(e) <= MaxBodyForWsCap
  BY SMT, <1>1, <1>2, <1>3, LeastOfTwo
<1> QED
  BY SMT, <1>2, <1>4

\* A body within the relay's limit fits a message of the tunnel, in base64 and
\* with the frame around it, also where the limit is all the WebSocket's cap
\* leaves room for.
LEMMA BodyFitsMessage ==
  ASSUME NEW limit \in Nat, limit <= MaxBodyForWsCap, NEW bytes \in Nat, bytes <= limit
  PROVE  Wrapping + Encoded(bytes) <= WsMessageLimit(limit)
<1>1. limit <= 1560576
  BY SMT, CapInBytes
<1>2. Wrapping \in Nat /\ Wrapping + 2 <= 16384
  BY SMT, TunnelAssumptions DEF OverheadBytes
<1>3. Encoded(bytes) \in Nat /\ Encoded(limit) \in Nat /\ Encoded(bytes) <= Encoded(limit)
  BY SMT DEF Encoded, CeilDiv
<1>4. Encoded(limit) <= CeilDiv(4 * limit, 3) + 2
  BY SMT DEF Encoded, CeilDiv
<1>5. Encoded(limit) <= 2080768
  BY SMT, <1>1 DEF Encoded, CeilDiv
<1>6. CeilDiv(4 * limit, 3) \in Int
  BY SMT DEF CeilDiv
<1>7. OverheadBytes = 16384 /\ HardCap = 2097152
  BY SMT DEF OverheadBytes, HardCap
<1>8. WsMessageLimit(limit) = IF CeilDiv(4 * limit, 3) + 16384 <= 2097152
                              THEN CeilDiv(4 * limit, 3) + 16384 ELSE 2097152
  BY SMT, <1>6, <1>7, LeastOfTwo DEF WsMessageLimit
<1> QED
  BY SMT, <1>2, <1>3, <1>4, <1>5, <1>6, <1>8

-------------------------------------------------------------------------------
(* The rate limiter *)

Windows == [started : Nat, count : Nat \ {0}]

LimiterInv ==
  /\ LimiterTypeOK
  /\ \A k \in DOMAIN entries : entries[k] \in Windows
  /\ \A a \in Askers : sampled[a] <= clock

\* The entry of key j after a caller with key k came with time `now`: it was
\* there before, or it is k's, admitted to its window or to a new one.
Follows(j, k, now) ==
  \/ j \in DOMAIN entries /\ entries'[j] = entries[j]
  \/ /\ j = k
     /\ \/ /\ k \in DOMAIN entries
           /\ entries'[k] = [started |-> entries[k].started, count |-> entries[k].count + 1]
        \/ entries'[k] = [started |-> now, count |-> 1]

\* A caller is denied on its key's entry, which is in its window.
OverLimit(k, now, limit) ==
  /\ k \in DOMAIN entries
  /\ entries[k].count >= limit
  /\ entries[k].started + Window > now

LEMMA RetainedEntries ==
  ASSUME NEW now
  PROVE  /\ DOMAIN Retained(now) =
              {k \in DOMAIN entries : Elapsed(now, entries[k].started) < Window}
         /\ \A k \in DOMAIN Retained(now) : Retained(now)[k] = entries[k]
BY DEF Retained, Restrict

LEMMA DenyRules ==
  ASSUME LimiterInv, NEW a \in Askers, NEW k, NEW limit \in Nat, limit > 0, Deny(a, k, limit)
  PROVE  /\ clock' = clock /\ sampled' = sampled
         /\ ruled' = [ruled EXCEPT ![a] = [answer |-> "denied", at |-> clock]]
         /\ \A j \in DOMAIN entries' : j \in DOMAIN entries /\ entries'[j] = entries[j]
         /\ OverLimit(k, sampled[a], limit)
<1> DEFINE kept == Retained(sampled[a])
<1>1. \A j \in DOMAIN kept : /\ j \in DOMAIN entries /\ kept[j] = entries[j]
                              /\ Elapsed(sampled[a], entries[j].started) < Window
  BY RetainedEntries
<1>2. entries' = kept /\ Opened(kept, k, sampled[a]).count >= limit
  BY DEF Deny
<1> HIDE DEF kept
<1>3. k \in DOMAIN kept
  BY <1>2 DEF Opened
<1>4. entries[k].count >= limit
  BY <1>1, <1>2, <1>3 DEF Opened
<1>5. entries[k].started \in Nat /\ sampled[a] \in Nat /\ Window \in Nat \ {0}
  BY <1>1, <1>3, RateLimiterAssumptions DEF LimiterInv, LimiterTypeOK, Windows
<1>6. entries[k].started + Window > sampled[a]
  BY <1>1, <1>3, <1>5 DEF Elapsed
<1> QED
  BY <1>1, <1>2, <1>3, <1>4, <1>6 DEF Deny, Rule, OverLimit

LEMMA AdmitRules ==
  ASSUME LimiterInv, NEW a \in Askers, NEW k, NEW limit \in Nat, Admit(a, k, limit)
  PROVE  /\ clock' = clock /\ sampled' = sampled
         /\ ruled' = [ruled EXCEPT ![a] = [answer |-> "allowed", at |-> clock]]
         /\ \A j \in DOMAIN entries' : Follows(j, k, sampled[a])
<1> DEFINE kept == Retained(sampled[a])
           window == Opened(kept, k, sampled[a])
           more == [window EXCEPT !.count = @ + 1]
           map == With(kept, k, more)
<1>1. \A j \in DOMAIN kept : j \in DOMAIN entries /\ kept[j] = entries[j]
  BY RetainedEntries
<1>2. entries' \in Evicted(map, k)
  BY DEF Admit
<1>3. /\ k \in DOMAIN entries
      /\ more = [started |-> entries[k].started, count |-> entries[k].count + 1]
      \/ more = [started |-> sampled[a], count |-> 1]
  <2> HIDE DEF kept
  <2>1. CASE k \in DOMAIN kept
    <3>1. window = entries[k] /\ k \in DOMAIN entries
      BY <1>1, <2>1 DEF Opened
    <3>2. entries[k] \in Windows
      BY <3>1 DEF LimiterInv
    <3> QED
      BY <3>1, <3>2 DEF Windows
  <2>2. CASE k \notin DOMAIN kept
    BY <2>2 DEF Opened
  <2> QED
    BY <2>1, <2>2
<1> HIDE DEF kept, more
<1>4. /\ DOMAIN map = DOMAIN kept \cup {k}
      /\ map[k] = more
      /\ \A j \in DOMAIN map : j = k \/ (j \in DOMAIN kept /\ map[j] = kept[j])
  BY DEF With
<1> HIDE DEF map
<1>5. \A j \in DOMAIN entries' : j \in DOMAIN map /\ entries'[j] = map[j]
  BY <1>2 DEF Evicted, Restrict
<1>6. ASSUME NEW j \in DOMAIN entries' PROVE Follows(j, k, sampled[a])
  <2>1. CASE j = k
    BY <1>3, <1>4, <1>5, <2>1 DEF Follows
  <2>2. CASE j # k
    BY <1>1, <1>4, <1>5, <2>2 DEF Follows
  <2> QED
    BY <2>1, <2>2
<1> QED
  BY <1>6 DEF Admit, Rule

\* Whatever `allow` decides keeps the limiter's part of the invariant.
LEMMA AllowRules ==
  ASSUME LimiterInv, NEW a \in Askers, NEW k, k.bucket \in Buckets, NEW limit \in Nat,
         Allow(a, k, limit)
  PROVE  /\ LimiterInv'
         /\ clock' = clock /\ sampled' = sampled
         /\ \/ /\ ruled' = [ruled EXCEPT ![a] = [answer |-> "denied", at |-> clock]]
               /\ \A j \in DOMAIN entries' : j \in DOMAIN entries /\ entries'[j] = entries[j]
               /\ limit = 0 \/ OverLimit(k, sampled[a], limit)
            \/ /\ ruled' = [ruled EXCEPT ![a] = [answer |-> "allowed", at |-> clock]]
               /\ \A j \in DOMAIN entries' : Follows(j, k, sampled[a])
<1>1. /\ clock' = clock /\ sampled' = sampled
      /\ \/ /\ ruled' = [ruled EXCEPT ![a] = [answer |-> "denied", at |-> clock]]
            /\ \A j \in DOMAIN entries' : j \in DOMAIN entries /\ entries'[j] = entries[j]
            /\ limit = 0 \/ OverLimit(k, sampled[a], limit)
         \/ /\ ruled' = [ruled EXCEPT ![a] = [answer |-> "allowed", at |-> clock]]
            /\ \A j \in DOMAIN entries' : Follows(j, k, sampled[a])
  <2>1. CASE limit = 0 /\ DenyAll(a)
    BY <2>1 DEF DenyAll, Rule
  <2>2. CASE limit > 0 /\ Deny(a, k, limit)
    BY <2>2, DenyRules
  <2>3. CASE limit > 0 /\ Admit(a, k, limit)
    BY <2>3, AdmitRules
  <2> QED
    BY <2>1, <2>2, <2>3 DEF Allow
<1>2. \A j \in DOMAIN entries' : Follows(j, k, sampled[a])
  BY <1>1 DEF Follows
<1>3. sampled[a] \in Nat /\ clock \in 0..LastTick /\ LastTick \in Nat /\ sampled[a] <= clock
  BY RateLimiterAssumptions DEF LimiterInv, LimiterTypeOK
<1>4. ASSUME NEW j \in DOMAIN entries'
      PROVE  /\ entries'[j] \in Windows
             /\ j.bucket \in Buckets
             /\ entries'[j].started <= clock
             /\ entries'[j].count > 0
  <2>1. CASE j \in DOMAIN entries /\ entries'[j] = entries[j]
    BY <2>1 DEF LimiterInv, LimiterTypeOK
  <2>2. CASE /\ j = k /\ k \in DOMAIN entries
             /\ entries'[k] = [started |-> entries[k].started, count |-> entries[k].count + 1]
    <3>1. entries[k] \in Windows /\ entries[k].started <= clock
      BY <2>2 DEF LimiterInv, LimiterTypeOK
    <3> QED
      BY <2>2, <3>1 DEF Windows
  <2>3. CASE j = k /\ entries'[k] = [started |-> sampled[a], count |-> 1]
    BY <1>3, <2>3 DEF Windows
  <2> QED
    BY <1>2, <2>1, <2>2, <2>3 DEF Follows
<1>5. ruled' \in [Askers -> [answer : {"none", "allowed", "denied"}, at : 0..LastTick]]
  BY <1>1, <1>3 DEF LimiterInv, LimiterTypeOK
<1> QED
  BY <1>1, <1>4, <1>5 DEF LimiterInv, LimiterTypeOK

\* So does reading the clock,
LEMMA SampleRules ==
  ASSUME LimiterInv, NEW a \in Askers, Sample(a)
  PROVE  LimiterInv' /\ entries' = entries /\ ruled' = ruled
         /\ \A b \in Askers \ {a} : sampled'[b] = sampled[b]
<1>1. clock \in Nat /\ clock \in 0..LastTick
  BY RateLimiterAssumptions DEF LimiterInv, LimiterTypeOK
<1> QED
  BY <1>1 DEF LimiterInv, LimiterTypeOK, Sample

\* and time.
LEMMA TimeRules ==
  ASSUME LimiterInv, PassTime
  PROVE  LimiterInv'
<1>1. clock \in Nat /\ clock' = clock + 1 /\ clock' \in 0..LastTick
  BY RateLimiterAssumptions DEF LimiterInv, LimiterTypeOK, PassTime
<1>2. \A k \in DOMAIN entries : entries[k].started \in Nat
  BY DEF LimiterInv, Windows
<1>3. \A a \in Askers : sampled[a] \in Nat
  BY RateLimiterAssumptions DEF LimiterInv, LimiterTypeOK
<1>4. entries' = entries /\ sampled' = sampled /\ ruled' = ruled
  BY DEF PassTime
<1>5. \A k \in DOMAIN entries : entries[k].started <= clock'
  BY <1>1, <1>2 DEF LimiterInv, LimiterTypeOK
<1>6. \A a \in Askers : sampled[a] <= clock'
  BY <1>1, <1>3 DEF LimiterInv
<1> QED
  BY <1>1, <1>4, <1>5, <1>6 DEF LimiterInv, LimiterTypeOK

LEMMA LimiterStutters ==
  ASSUME LimiterInv, UNCHANGED limiterVars
  PROVE  LimiterInv'
BY DEF LimiterInv, LimiterTypeOK, limiterVars

LEMMA LimiterStarts == LimiterInit => LimiterInv
BY RateLimiterAssumptions DEF LimiterInit, LimiterInv, LimiterTypeOK, NotRuled

-------------------------------------------------------------------------------
(* The inductive invariant *)

\* What may be on the WebSocket, given the relay's configuration.
Frames ==
  {f \in [kind : {"request"}, call : Calls, session : {"valid", "malformed"}, body : Nat] :
     Rejection(f) = "none"}
  \cup [kind : {"ping"}] \cup [kind : {"close"}, code : {"expired", "protocol error"}]

BodySizes == {n \in Nat : n <= Config.maxBody}
ReplyKinds ==
  {"response", "BodyTooLarge", "ProtocolError", "LocalUnavailable", "BadLocalResponse"}
ReplyFrames == [call : Calls, kind : ReplyKinds, body : BodySizes]

PipeInv == wire \in Seq(Frames) /\ back \in Seq(ReplyFrames)

\* A call that has not been ruled on is before its handler's first step, and
\* one whose request is looked at has one.
CallInv ==
  /\ pc \in [Calls -> {"idle", "asking", "asked", "waiting", "done"}]
  /\ request \in [Calls -> Requests \cup {NoRequest}]
  /\ status \in [Calls -> Nat]
  /\ \A c \in Calls :
       /\ pc[c] = "done" <=> status[c] # 0
       /\ pc[c] \in {"asking", "asked"} => request[c] \in Requests
       /\ pc[c] \in {"idle", "asking"} => ruled[c].answer = "none"
  /\ boot \in {"start", "bound"} => ruled[Serve].answer = "none"

\* How far `serve` is, and what has been settled by then.  The relay has a run
\* exactly if the client had a tunnel, and only for a client it authorized.
StartInv ==
  /\ env \in Environments /\ args \in Arguments
  /\ boot \in {"start", "bound", "dialing", "serving", "ok", "error"}
  /\ bound \in {"none", "loopback", "any"}
  /\ run \in {"none", "active", "gone"} /\ link \in {"none", "up", "cut"}
  /\ client \in {"off", "idle", "ended"} \cup Calls
  /\ boot \in {"bound", "dialing", "serving"} => bound = BindHost
  /\ boot = "dialing" => RelayStarts(env) /\ args.relay # "none"
  /\ boot \in {"start", "bound", "dialing"} => client = "off"
  /\ client = "off" <=> run = "none"
  /\ client = "off" <=> link = "none"
  /\ client # "off" =>
       /\ RelayStarts(env) /\ Authorized /\ args.relay # "none"
       /\ ttl \in 1..HardMaxTtl
  /\ client \notin {"off", "ended"} => boot = "serving" /\ advertised = NormalizeBaseUrl(RunUrl)
  /\ client = "ended" => boot \in {"ok", "error"}
  /\ boot = "serving" /\ client = "off" =>
       advertised = IF args.relay = "none" THEN NormalizeBaseUrl(args.public) ELSE OperatorUrl

TunnelInv == LimiterInv /\ StartInv /\ CallInv /\ PipeInv

-------------------------------------------------------------------------------
(* The invariant implies the properties *)

LEMMA InvTyped == TunnelInv => TypeOK
BY DEF TunnelInv, LimiterInv, StartInv, CallInv, TypeOK

LEMMA InvPipe == TunnelInv => EachEndTakesTheOthers
<1> SUFFICES ASSUME TunnelInv PROVE EachEndTakesTheOthers
  OBVIOUS
<1>1. ASSUME NEW i \in DOMAIN wire, wire[i].kind = "request" PROVE Rejection(wire[i]) = "none"
  <2>1. wire[i] \in Frames
    BY DEF TunnelInv, PipeInv
  <2> QED
    BY <1>1, <2>1 DEF Frames
<1>2. ASSUME NEW i \in DOMAIN back
      PROVE  FrameBytes(back[i]) <= WsMessageLimit(Config.maxBody)
  <2>1. back[i].body \in Nat /\ back[i].body <= Config.maxBody
    <3>1. back[i] \in ReplyFrames
      BY DEF TunnelInv, PipeInv
    <3>2. back[i].body \in BodySizes
      BY <3>1 DEF ReplyFrames
    <3> QED
      BY <3>2 DEF BodySizes
  <2>2. Config.maxBody \in Nat /\ Config.maxBody <= MaxBodyForWsCap
    BY BodyLimitBounds DEF TunnelInv, StartInv, Config
  <2> QED
    BY <2>1, <2>2, BodyFitsMessage DEF FrameBytes
<1> QED
  BY <1>1, <1>2 DEF EachEndTakesTheOthers

LEMMA PairInSeq ==
  ASSUME NEW S, NEW x \in S, NEW y \in S
  PROVE  <<x, y>> \in Seq(S)
OBVIOUS

LEMMA AddTwo ==
  ASSUME NEW S, NEW p \in Seq(S), NEW x \in S, NEW y \in S
  PROVE  /\ p \o <<x, y>> \in Seq(S) /\ Len(p \o <<x, y>>) = Len(p) + 2
         /\ \A i \in 1..Len(p) : (p \o <<x, y>>)[i] = p[i]
         /\ (p \o <<x, y>>)[Len(p) + 1] = x /\ (p \o <<x, y>>)[Len(p) + 2] = y
<1> DEFINE t == <<x, y>>
           q == p \o t
<1>1. t \in Seq(S) /\ Len(t) = 2 /\ t[1] = x /\ t[2] = y
  OBVIOUS
<1> HIDE DEF t
<1>2. q \in Seq(S) /\ Len(q) = Len(p) + Len(t)
  BY Zenon, <1>1, ConcatProperties
<1>3. \A i \in 1..(Len(p) + Len(t)) : q[i] = IF i <= Len(p) THEN p[i] ELSE t[i - Len(p)]
  BY Zenon, <1>1, ConcatProperties
<1> HIDE DEF q
<1>4. Len(p) \in Nat
  OBVIOUS
<1>5. Len(q) = Len(p) + 2
  BY <1>1, <1>2
<1>6. \A i \in 1..Len(p) : q[i] = p[i]
  BY <1>1, <1>3, <1>4
<1>7. q[Len(p) + 1] = x /\ q[Len(p) + 2] = y
  BY <1>1, <1>3, <1>4
<1> QED
  BY Zenon, <1>2, <1>5, <1>6, <1>7 DEF t, q

LEMMA LastTwoOfFour ==
  ASSUME NEW S, NEW q \in Seq(S), Len(q) = 4
  PROVE  SubSeq(q, 3, 4) = <<q[3], q[4]>>
<1> DEFINE t == SubSeq(q, 3, 4)
<1>1. \A i \in 3..4 : q[i] \in S
  OBVIOUS
<1>2. t \in Seq(S) /\ Len(t) = 2 /\ t[1] = q[3] /\ t[2] = q[4]
  BY <1>1, SubSeqProperties
<1> HIDE DEF t
<1>3. t = <<t[1], t[2]>>
  BY <1>2
<1> QED
  BY <1>2, <1>3 DEF t

LEMMA LastTwo ==
  ASSUME NEW a, NEW b, NEW x, NEW y
  PROVE  /\ Len(<<a, b>> \o <<x, y>>) = 4
         /\ (<<a, b>> \o <<x, y>>)[1] = a /\ (<<a, b>> \o <<x, y>>)[3] = x
         /\ SubSeq(<<a, b>> \o <<x, y>>, 3, 4) = <<x, y>>
<1> DEFINE S == {a, b, x, y}
           p == <<a, b>>
           q == p \o <<x, y>>
<1>1. p \in Seq(S)
  BY Zenon, PairInSeq
<1>2. Len(p) = 2 /\ p[1] = a
  OBVIOUS
<1> HIDE DEF p
<1>3. x \in S /\ y \in S
  OBVIOUS
<1> HIDE DEF S
<1>4. q \in Seq(S) /\ Len(q) = Len(p) + 2
  BY <1>1, <1>3, AddTwo
<1>5. \A i \in 1..Len(p) : q[i] = p[i]
  BY <1>1, <1>3, AddTwo
<1>6. q[Len(p) + 1] = x /\ q[Len(p) + 2] = y
  BY <1>1, <1>3, AddTwo
<1> HIDE DEF q
<1>7. Len(q) = 4 /\ q[1] = a /\ q[3] = x /\ q[4] = y
  BY <1>2, <1>4, <1>5, <1>6
<1>8. SubSeq(q, 3, 4) = <<q[3], q[4]>>
  BY Zenon, <1>4, <1>7, LastTwoOfFour
<1> QED
  BY Zenon, <1>7, <1>8 DEF p, q

LEMMA RunPathIsForwarded ==
  ASSUME NEW route \in {"request", "response"}
  PROVE  RelayRoute(Join(NormalizeBaseUrl(RunUrl), <<route, "session">>)) = <<route, "session">>
<1> DEFINE q == <<"r", "run">> \o <<route, "session">>
<1>1. Join(NormalizeBaseUrl(RunUrl), <<route, "session">>) = q
  BY Zenon DEF Join, NormalizeBaseUrl, RunUrl
<1>2. Len(q) = 4 /\ q[1] = "r" /\ q[3] = route /\ SubSeq(q, 3, 4) = <<route, "session">>
  BY LastTwo
<1> HIDE DEF q
<1> QED
  BY Zenon, <1>1, <1>2 DEF RelayRoute

LEMMA StartIsPrefix ==
  ASSUME NEW T, NEW p \in Seq(T), NEW x, NEW y
  PROVE  IsPrefix(p, p \o <<x, y>>)
<1> DEFINE S == T \cup {x, y}
           q == p \o <<x, y>>
<1>1. p \in Seq(S)
  BY SeqMonotonic
<1>2. x \in S /\ y \in S
  OBVIOUS
<1> HIDE DEF S
<1>3. q \in Seq(S) /\ Len(q) = Len(p) + 2
  BY <1>1, <1>2, AddTwo
<1>4. \A i \in 1..Len(p) : q[i] = p[i]
  BY <1>1, <1>2, AddTwo
<1> HIDE DEF q
<1>5. IsPrefix(p, q)
  BY <1>1, <1>3, <1>4 DEF IsPrefix
<1> QED
  BY <1>5 DEF q

LEMMA PublicPathIsKept ==
  ASSUME NEW url, url.path \in Seq(STRING),
         url = [host |-> url.host, path |-> url.path, slash |-> url.slash], NEW route
  PROVE  IsPrefix(url.path, Join(NormalizeBaseUrl(url), <<route, "session">>))
<1> DEFINE base == NormalizeBaseUrl(url)
<1>1. base.slash = TRUE /\ base.path = url.path
  BY DEF NormalizeBaseUrl
<1> HIDE DEF base
<1>2. Join(base, <<route, "session">>) = url.path \o <<route, "session">>
  BY Zenon, <1>1 DEF Join
<1>3. IsPrefix(url.path, url.path \o <<route, "session">>)
  BY Zenon, StartIsPrefix
<1> QED
  BY Zenon, <1>2, <1>3 DEF base

LEMMA InvStarted == TunnelInv => StartedAsConfigured
<1> SUFFICES ASSUME TunnelInv PROVE StartedAsConfigured
  OBVIOUS
<1>1. StartInv
  BY DEF TunnelInv
<1>2. args.public \in [host : STRING \ {"relay"}, path : Seq(STRING), slash : BOOLEAN]
  BY <1>1, ArgumentsTyped DEF StartInv
<1>3. ASSUME run # "none", env.bind = "any" PROVE args.token \in env.tokens \ {"blank"}
  <2>1. RelayStarts(env) /\ Authorized
    BY <1>1, <1>3 DEF StartInv
  <2> QED
    BY <1>3, <2>1 DEF RelayStarts, FromEnvOk, PublicBindOk, Authorized, Config, FromEnv, AuthTokens
<1>4. ASSUME boot = "serving"
      PROVE  /\ args.relay # "none" => bound = "loopback"
             /\ advertised.host = "relay" <=> client \notin {"off", "ended"}
  <2>1. bound = BindHost /\ client # "ended"
    BY <1>1, <1>4 DEF StartInv
  <2>2. CASE client = "off"
    <3>1. advertised.host # "relay"
      BY <1>1, <1>2, <1>4, <2>2 DEF StartInv, NormalizeBaseUrl, OperatorUrl
    <3> QED
      BY <2>1, <2>2, <3>1 DEF BindHost
  <2>3. CASE client # "off"
    <3>1. advertised.host = "relay"
      BY <1>1, <2>1, <2>3 DEF StartInv, NormalizeBaseUrl, RunUrl
    <3> QED
      BY <2>1, <2>3, <3>1 DEF BindHost
  <2> QED
    BY <2>2, <2>3
<1>5. ASSUME boot = "serving", NEW route \in {"request", "response"}
      PROVE  IF advertised.host = "relay"
             THEN RelayRoute(WalletPath(route)) = <<route, "session">>
             ELSE args.relay = "none" => IsPrefix(args.public.path, WalletPath(route))
  <2>1. CASE advertised.host = "relay"
    <3>1. advertised = NormalizeBaseUrl(RunUrl)
      BY <1>1, <1>4, <1>5, <2>1 DEF StartInv
    <3> QED
      BY <2>1, <3>1, RunPathIsForwarded DEF WalletPath
  <2>2. CASE advertised.host # "relay" /\ args.relay = "none"
    <3>1. advertised = NormalizeBaseUrl(args.public)
      BY <1>1, <1>4, <1>5, <2>2 DEF StartInv
    <3>2. /\ args.public.path \in Seq(STRING)
          /\ args.public = [host |-> args.public.host, path |-> args.public.path,
                            slash |-> args.public.slash]
      BY <1>2
    <3>3. IsPrefix(args.public.path, Join(NormalizeBaseUrl(args.public), <<route, "session">>))
      BY Zenon, <3>2, PublicPathIsKept
    <3> QED
      BY <2>2, <3>1, <3>3 DEF WalletPath
  <2> QED
    BY <2>1, <2>2
<1> QED
  BY <1>3, <1>4, <1>5 DEF StartedAsConfigured

-------------------------------------------------------------------------------
(* The client's steps *)

LEMMA NoBodyFits == ASSUME StartInv PROVE 0 \in BodySizes /\ Config.maxBody \in Nat
BY BodyLimitBounds DEF StartInv, Config, BodySizes

\* What `run_tunnel` leaves behind when it returns.
TunnelEnded ==
  /\ client' = "ended" /\ boot' \in {"ok", "error"} /\ link' = "cut"
  /\ wire' = << >> /\ back' = << >>
  /\ args' = args /\ bound' = bound /\ advertised' = advertised

LEMMA EndsRules ==
  ASSUME NEW code \in {"ok", "error"}, Ends(code)
  PROVE  TunnelEnded
BY DEF Ends, Exit, TunnelEnded

TunnelGoesOn ==
  /\ client' \in {"idle"} \cup Calls /\ boot' = boot /\ link' = link
  /\ back' \in Seq(ReplyFrames)
  /\ args' = args /\ bound' = bound /\ advertised' = advertised

LEMMA SendRules ==
  ASSUME TunnelInv, NEW c \in Calls, NEW reply, reply.kind \in ReplyKinds,
         reply.body \in BodySizes, Send(c, reply)
  PROVE  IF link = "up" THEN TunnelGoesOn ELSE TunnelEnded
<1>1. CASE link = "up"
  <2> DEFINE frame == [call |-> c, kind |-> reply.kind, body |-> reply.body]
  <2>1. frame \in ReplyFrames
    BY DEF ReplyFrames
  <2>2. back' = Append(back, frame)
    BY <1>1 DEF Send
  <2> HIDE DEF frame
  <2>3. back' \in Seq(ReplyFrames)
    BY <2>1, <2>2 DEF TunnelInv, PipeInv
  <2> QED
    BY <1>1, <2>3 DEF Send, TunnelGoesOn
<1>2. CASE link # "up"
  BY <1>2, EndsRules DEF Send
<1> QED
  BY <1>1, <1>2

\* A step of the client is in its tunnel, leaves the relay alone, and goes on
\* with well-formed frames or ends.
LEMMA ClientRules ==
  ASSUME TunnelInv, Tunnelling
  PROVE  /\ UNCHANGED limiterVars /\ UNCHANGED relayVars /\ UNCHANGED callVars
         /\ client \notin {"off", "ended"}
         /\ TunnelEnded \/ (TunnelGoesOn /\ wire' \in Seq(Frames))
<1>1. wire \in Seq(Frames) /\ back \in Seq(ReplyFrames)
  BY DEF TunnelInv, PipeInv
<1>2. 0 \in BodySizes /\ Config.maxBody \in Nat
  BY NoBodyFits DEF TunnelInv
<1>3. ASSUME TakeRequest
      PROVE  /\ UNCHANGED limiterVars /\ UNCHANGED relayVars /\ UNCHANGED callVars
             /\ client \notin {"off", "ended"}
             /\ TunnelEnded \/ (TunnelGoesOn /\ wire' \in Seq(Frames))
  <2>1. wire # << >> /\ Head(wire).kind = "request" /\ client = "idle"
    BY <1>3 DEF TakeRequest, Reads
  <2>2. Head(wire) \in Frames /\ Tail(wire) \in Seq(Frames)
    BY <1>1, <2>1
  <2>3. Head(wire).call \in Calls /\ Rejection(Head(wire)) = "none"
    BY <2>1, <2>2 DEF Frames
  <2>4. /\ client' = Head(wire).call /\ wire' = Tail(wire)
        /\ UNCHANGED <<args, boot, bound, advertised, link, back>>
    BY <1>3, <2>3 DEF TakeRequest
  <2>5. TunnelGoesOn /\ wire' \in Seq(Frames)
    BY <1>1, <2>2, <2>3, <2>4 DEF TunnelGoesOn
  <2> QED
    BY <1>3, <2>1, <2>5 DEF TakeRequest
<1>4. ASSUME TakePing
      PROVE  /\ UNCHANGED limiterVars /\ UNCHANGED relayVars /\ UNCHANGED callVars
             /\ client \notin {"off", "ended"}
             /\ TunnelEnded \/ (TunnelGoesOn /\ wire' \in Seq(Frames))
  <2>1. wire # << >> /\ client = "idle"
    BY <1>4 DEF TakePing, Reads
  <2>2. CASE link = "up"
    <3>1. wire' = Tail(wire) /\ UNCHANGED serveVars /\ link' = link /\ back' = back
      BY <1>4, <2>2 DEF TakePing
    <3>2. Tail(wire) \in Seq(Frames)
      BY <1>1, <2>1
    <3>3. TunnelGoesOn /\ wire' \in Seq(Frames)
      BY <1>1, <2>1, <3>1, <3>2 DEF TunnelGoesOn, serveVars
    <3> QED
      BY <1>4, <2>1, <3>3 DEF TakePing
  <2>3. CASE link # "up"
    BY <1>4, <2>1, <2>3, EndsRules DEF TakePing
  <2> QED
    BY <2>2, <2>3
<1>5. ASSUME TakeClose
      PROVE  /\ UNCHANGED limiterVars /\ UNCHANGED relayVars /\ UNCHANGED callVars
             /\ client = "idle" /\ TunnelEnded
  BY <1>5, EndsRules DEF TakeClose, Reads
<1>6. ASSUME StreamEnds
      PROVE  /\ UNCHANGED limiterVars /\ UNCHANGED relayVars /\ UNCHANGED callVars
             /\ client = "idle" /\ TunnelEnded
  BY <1>6, EndsRules DEF StreamEnds
<1>7. ASSUME NEW reply, reply.kind \in ReplyKinds, reply.body \in BodySizes, Replies(reply)
      PROVE  /\ UNCHANGED limiterVars /\ UNCHANGED relayVars /\ UNCHANGED callVars
             /\ client \in Calls
             /\ TunnelEnded \/ (TunnelGoesOn /\ wire' \in Seq(Frames))
  <2>1. client \in Calls /\ Send(client, reply) /\ (link = "up" => wire' = wire)
    BY <1>7 DEF Replies
  <2>2. IF link = "up" THEN TunnelGoesOn ELSE TunnelEnded
    BY <1>7, <2>1, SendRules
  <2> QED
    BY <1>1, <1>7, <2>1, <2>2 DEF Replies
<1>8. ASSUME NEW n \in LocalBodies
      PROVE  LocalReply(n).kind \in ReplyKinds /\ LocalReply(n).body \in BodySizes
  <2>1. n \in Nat
    BY RequestsTyped
  <2> QED
    BY <1>2, <2>1 DEF LocalReply, ErrorReply, ReplyKinds, BodySizes
<1>9. /\ ErrorReply("LocalUnavailable").kind \in ReplyKinds
      /\ ErrorReply("LocalUnavailable").body \in BodySizes
      /\ ErrorReply("BadLocalResponse").kind \in ReplyKinds
      /\ ErrorReply("BadLocalResponse").body \in BodySizes
  BY <1>2 DEF ErrorReply, ReplyKinds
<1>10. \A c \in Calls : c \notin {"off", "ended"}
  BY TunnelAssumptions
<1>11. CASE LocalAnswers
  BY <1>7, <1>8, <1>10, <1>11 DEF LocalAnswers
<1>12. CASE LocalTimesOut
  BY <1>7, <1>9, <1>10, <1>12 DEF LocalTimesOut
<1>13. CASE LocalBreaksOff
  BY <1>7, <1>9, <1>10, <1>13 DEF LocalBreaksOff
<1>14. CASE Kill
  BY <1>14, EndsRules DEF Kill
<1> QED
  BY <1>3, <1>4, <1>5, <1>6, <1>11, <1>12, <1>13, <1>14 DEF Tunnelling

-------------------------------------------------------------------------------
(* Every step keeps the invariant *)

LEMMA StartStutters ==
  ASSUME StartInv, UNCHANGED <<serveVars, env, ttl, run, link>>
  PROVE  StartInv'
BY DEF StartInv, serveVars, BindHost, Authorized, Config

LEMMA CallStutters ==
  ASSUME CallInv, UNCHANGED callVars, UNCHANGED ruled,
         boot' = boot \/ boot' \notin {"start", "bound"}
  PROVE  CallInv'
BY DEF CallInv, callVars

LEMMA PipeFollows ==
  ASSUME env' = env, wire' \in Seq(Frames), back' \in Seq(ReplyFrames)
  PROVE  PipeInv'
<1>1. Config' = Config
  BY DEF Config
<1>2. \A f : Rejection(f)' = Rejection(f)
  BY <1>1 DEF Rejection
<1>3. Frames' = Frames /\ ReplyFrames' = ReplyFrames
  BY <1>1, <1>2 DEF Frames, ReplyFrames, BodySizes
<1> QED
  BY <1>3 DEF PipeInv

LEMMA PipeStutters ==
  ASSUME PipeInv, env' = env, wire' = wire, back' = back
  PROVE  PipeInv'
BY PipeFollows DEF PipeInv

LEMMA AnswerRules ==
  ASSUME CallInv, NEW c \in Calls, NEW code \in Nat \ {0}, Answer(c, code),
         request' \in {request, [request EXCEPT ![c] = NoRequest]},
         UNCHANGED <<ruled, boot>>
  PROVE  CallInv'
BY DEF CallInv, Answer

\* A call is forwarded only if nothing is wrong with its session and body.
LEMMA ScreeningCodes ==
  ASSUME NEW c
  PROVE  /\ Screening(c) \in {0, 400, 410, 413, 414, 429, 431}
         /\ Screening(c) = 0 =>
              /\ ValidSessionSegment(request[c].session) /\ ~(request[c].body > Config.maxBody)
              /\ ~(Cardinality(InFlight) >= MaxInflight)
<1> DEFINE r == request[c]
           headers == HeadersRefusal(r.headers)
           noSlot == Cardinality(InFlight) >= MaxInflight
           full == IF noSlot THEN 429 ELSE headers
           rest == IF r.query = "too long" THEN 414
                   ELSE IF r.body > Config.maxBody THEN 413
                   ELSE IF run # "active" THEN 410 ELSE full
<1>1. headers \in {0, 400, 431}
  BY DEF HeadersRefusal
<1>2. Screening(c) = IF ruled[c].answer = "denied" THEN 429
                     ELSE IF ~ValidSessionSegment(r.session) THEN 400 ELSE rest
  BY DEF Screening
<1> HIDE DEF headers
<1>3. full \in {0, 400, 429, 431} /\ (full = 0 => ~noSlot)
  <2>1. CASE noSlot
    <3>1. full = 429
      BY Zenon, <2>1
    <3> HIDE DEF full
    <3> QED
      BY <3>1
  <2>2. CASE ~noSlot
    <3>1. full = headers
      BY Zenon, <2>2
    <3> HIDE DEF full
    <3>2. full \in {0, 400, 429, 431}
      BY <1>1, <3>1
    <3> QED
      BY Zenon, <2>2, <3>2
  <2> QED
    BY Zenon, <2>1, <2>2
<1> HIDE DEF full
<1>4. /\ rest \in {0, 400, 410, 413, 414, 429, 431}
      /\ rest = 0 => ~(r.body > Config.maxBody) /\ ~noSlot
  <2>1. CASE r.query = "too long"
    <3>1. rest = 414
      BY Zenon, <2>1
    <3> HIDE DEF rest
    <3> QED
      BY <3>1
  <2>2. CASE r.query # "too long" /\ r.body > Config.maxBody
    <3>1. rest = 413
      BY Zenon, <2>2
    <3> HIDE DEF rest
    <3> QED
      BY <3>1
  <2>3. CASE r.query # "too long" /\ ~(r.body > Config.maxBody)
    <3>1. rest = 410 \/ rest = full
      BY Zenon, <2>3
    <3> HIDE DEF rest
    <3>2. rest \in {0, 400, 410, 413, 414, 429, 431}
      BY <1>3, <3>1
    <3>3. rest = 0 => ~noSlot
      BY SMT, <1>3, <3>1
    <3> QED
      BY Zenon, <2>3, <3>2, <3>3
  <2> QED
    BY Zenon, <2>1, <2>2, <2>3
<1> HIDE DEF rest
<1> QED
  BY SMT, <1>2, <1>4

LEMMA ForwardedFrame ==
  ASSUME CallInv, NEW c \in Calls, Forward(c)
  PROVE  RequestFrame(c, request[c]) \in Frames
<1>1. request[c] \in Requests
  BY DEF Forward, CallInv
<1>2. request[c].session \in {"valid", "malformed"} /\ request[c].body \in Nat
  BY <1>1, RequestsTyped
<1>3. ValidSessionSegment(request[c].session) /\ ~(request[c].body > Config.maxBody)
  BY ScreeningCodes DEF Forward
<1>4. Rejection(RequestFrame(c, request[c])) = "none"
  BY <1>3 DEF Rejection, RequestFrame
<1> QED
  BY <1>2, <1>4 DEF Frames, RequestFrame

\* Only the wallets' calls change: in the steps of the relay's handlers.
LEMMA HandlerKeeps ==
  ASSUME TunnelInv, LimiterInv', CallInv', UNCHANGED <<serveVars, relayVars, link, back>>,
         wire' \in Seq(Frames)
  PROVE  TunnelInv'
BY StartStutters, PipeFollows DEF TunnelInv, PipeInv, serveVars, relayVars

LEMMA StartingKeeps ==
  ASSUME TunnelInv, Starting
  PROVE  TunnelInv'
<1>1. LimiterInv /\ StartInv /\ CallInv /\ PipeInv
  BY DEF TunnelInv
<1>2. ASSUME Bind PROVE TunnelInv'
  <2>1. LimiterInv'
    BY <1>1, <1>2, LimiterStutters DEF Bind
  <2>2. StartInv'
    <3>1. args.host \in {"loopback", "any"}
      BY <1>1, ArgumentsTyped DEF StartInv
    <3> QED
      BY <1>1, <1>2, <3>1 DEF Bind, Exit, StartInv, BindHost, relayVars, linkVars
  <2>3. CallInv'
    BY <1>1, <1>2 DEF Bind, Exit, CallInv, callVars, limiterVars
  <2>4. PipeInv'
    BY <1>1, <1>2, PipeStutters DEF Bind, relayVars, linkVars
  <2> QED
    BY <2>1, <2>2, <2>3, <2>4 DEF TunnelInv
<1>3. ASSUME StartWithoutRelay PROVE TunnelInv'
  <2>1. LimiterInv'
    BY <1>1, <1>3, LimiterStutters DEF StartWithoutRelay
  <2>2. StartInv'
    BY <1>1, <1>3 DEF StartWithoutRelay, ServeAt, StartInv, BindHost, relayVars, linkVars
  <2>3. CallInv'
    BY <1>1, <1>3, CallStutters DEF StartWithoutRelay, ServeAt, limiterVars
  <2>4. PipeInv'
    BY <1>1, <1>3, PipeStutters DEF StartWithoutRelay, relayVars, linkVars
  <2> QED
    BY <2>1, <2>2, <2>3, <2>4 DEF TunnelInv
<1>4. ASSUME RejectRelayArgs PROVE TunnelInv'
  <2>1. LimiterInv'
    BY <1>1, <1>4, LimiterStutters DEF RejectRelayArgs
  <2>2. StartInv'
    BY <1>1, <1>4 DEF RejectRelayArgs, Exit, StartInv, relayVars, linkVars
  <2>3. CallInv'
    BY <1>1, <1>4, CallStutters DEF RejectRelayArgs, Exit, limiterVars
  <2>4. PipeInv'
    BY <1>1, <1>4, PipeStutters DEF RejectRelayArgs, relayVars, linkVars
  <2> QED
    BY <2>1, <2>2, <2>3, <2>4 DEF TunnelInv
<1>5. ASSUME Dial PROVE TunnelInv'
  <2>1. LimiterInv' /\ ruled' = ruled
    BY <1>1, <1>5, SampleRules, TunnelAssumptions DEF Dial
  <2>2. StartInv'
    BY <1>1, <1>5 DEF Dial, StartInv, BindHost, relayVars, linkVars
  <2>3. CallInv'
    BY <1>1, <1>5, <2>1, CallStutters DEF Dial
  <2>4. PipeInv'
    BY <1>1, <1>5, PipeStutters DEF Dial, relayVars, linkVars
  <2> QED
    BY <2>1, <2>2, <2>3, <2>4 DEF TunnelInv
<1>6. ASSUME AskTunnel PROVE TunnelInv'
  <2> DEFINE k == RateKey(From[Serve], "tunnel create")
  <2>1. k.bucket \in Buckets
    BY DEF RateKey, Buckets
  <2> HIDE DEF k
  <2>2. Serve \in Askers /\ MaxTunnelCreates \in Nat /\ Serve \notin Calls
    BY TunnelAssumptions
  <2>3. Allow(Serve, k, MaxTunnelCreates)
    BY <1>6 DEF AskTunnel, k
  <2>4. /\ LimiterInv'
        /\ \E answer \in {"denied", "allowed"} :
             ruled' = [ruled EXCEPT ![Serve] = [answer |-> answer, at |-> clock]]
    BY <1>1, <2>1, <2>2, <2>3, AllowRules
  <2>5. \A c \in Calls : ruled'[c] = ruled[c]
    BY <2>2, <2>4
  <2>6. StartInv'
    BY <1>1, <1>6, StartStutters DEF AskTunnel, relayVars, linkVars
  <2>7. CallInv'
    BY <1>1, <1>6, <2>5 DEF AskTunnel, CallInv, callVars, serveVars
  <2>8. PipeInv'
    BY <1>1, <1>6, PipeStutters DEF AskTunnel, relayVars, linkVars
  <2> QED
    BY <2>4, <2>6, <2>7, <2>8 DEF TunnelInv
<1>7. ASSUME Welcome PROVE TunnelInv'
  <2>1. LimiterInv'
    BY <1>1, <1>7, LimiterStutters DEF Welcome
  <2>2. ttl' \in 1..HardMaxTtl
    <3>1. env \in Environments /\ args.ttl \in Sizes
      BY <1>1, ArgumentsTyped DEF StartInv
    <3> QED
      BY <1>7, <3>1, TtlInBounds DEF Welcome, Config
  <2>3. StartInv'
    BY <1>1, <1>7, <2>2 DEF Welcome, ServeAt, StartInv, BindHost, Authorized, Config
  <2>4. CallInv'
    BY <1>1, <1>7, CallStutters DEF Welcome, ServeAt, limiterVars
  <2>5. PipeInv'
    BY <1>1, <1>7, PipeStutters DEF Welcome
  <2> QED
    BY <2>1, <2>3, <2>4, <2>5 DEF TunnelInv
<1>8. ASSUME RelaySetupFails PROVE TunnelInv'
  <2>1. LimiterInv'
    BY <1>1, <1>8, LimiterStutters DEF RelaySetupFails
  <2>2. StartInv'
    BY <1>1, <1>8 DEF RelaySetupFails, ServeAt, Exit, StartInv, BindHost, relayVars, linkVars
  <2>3. CallInv'
    BY <1>1, <1>8, CallStutters DEF RelaySetupFails, ServeAt, Exit, limiterVars
  <2>4. PipeInv'
    BY <1>1, <1>8, PipeStutters DEF RelaySetupFails, relayVars, linkVars
  <2> QED
    BY <2>1, <2>2, <2>3, <2>4 DEF TunnelInv
<1> QED
  BY <1>2, <1>3, <1>4, <1>5, <1>6, <1>7, <1>8 DEF Starting

LEMMA RelayingKeeps ==
  ASSUME TunnelInv, Relaying
  PROVE  TunnelInv'
<1>1. LimiterInv /\ StartInv /\ CallInv /\ PipeInv
  BY DEF TunnelInv
<1>2. ASSUME Resolve PROVE TunnelInv'
  <2>1. LimiterInv'
    BY <1>1, <1>2, LimiterStutters DEF Resolve
  <2>2. StartInv'
    BY <1>1, <1>2, StartStutters DEF Resolve, relayVars
  <2>3. Head(back) \in ReplyFrames /\ Tail(back) \in Seq(ReplyFrames)
    BY <1>1, <1>2 DEF PipeInv, Resolve
  <2>4. CallInv'
    <3>1. Head(back).call \in Calls /\ RenderReply(Head(back)) \in Nat \ {0}
      BY <2>3 DEF ReplyFrames, RenderReply
    <3>2. UNCHANGED <<ruled, boot, request>>
      BY <1>2 DEF Resolve, limiterVars, serveVars
    <3>3. CASE pc[Head(back).call] = "waiting"
      BY <1>1, <1>2, <3>1, <3>2, <3>3, AnswerRules DEF Resolve
    <3>4. CASE pc[Head(back).call] # "waiting"
      BY <1>1, <1>2, <3>2, <3>4, CallStutters DEF Resolve, callVars
    <3> QED
      BY <3>3, <3>4
  <2>5. PipeInv'
    BY <1>1, <1>2, <2>3, PipeFollows DEF Resolve, relayVars, PipeInv
  <2> QED
    BY <2>1, <2>2, <2>4, <2>5 DEF TunnelInv
<1>3. ASSUME Heartbeat PROVE TunnelInv'
  <2>1. LimiterInv'
    BY <1>1, <1>3, LimiterStutters DEF Heartbeat
  <2>2. StartInv'
    BY <1>1, <1>3, StartStutters DEF Heartbeat
  <2>3. CallInv'
    BY <1>1, <1>3, CallStutters DEF Heartbeat, limiterVars, serveVars
  <2>4. [kind |-> "ping"] \in Frames
    BY DEF Frames
  <2>5. wire' \in Seq(Frames)
    BY <1>1, <1>3, <2>4 DEF Heartbeat, PipeInv
  <2>6. PipeInv'
    BY <1>1, <1>3, <2>5, PipeFollows DEF Heartbeat, PipeInv
  <2> QED
    BY <2>1, <2>2, <2>3, <2>6 DEF TunnelInv
<1>4. CloseFrame("expired") \in Frames /\ CloseFrame("protocol error") \in Frames
  BY DEF CloseFrame, Frames
<1>5. ASSUME Expire PROVE TunnelInv'
  <2>1. LimiterInv'
    BY <1>1, <1>5, LimiterStutters DEF Expire
  <2>2. StartInv'
    BY <1>1, <1>5 DEF Expire, StartInv, BindHost, Authorized, Config, serveVars
  <2>3. CallInv'
    BY <1>1, <1>5, CallStutters DEF Expire, limiterVars, serveVars
  <2>4. wire' \in Seq(Frames)
    <3> DEFINE close == CloseFrame("expired")
    <3>1. wire' = wire \/ wire' = Append(wire, close)
      BY <1>5 DEF Expire
    <3>2. close \in Frames
      BY <1>4
    <3> HIDE DEF close
    <3> QED
      BY <1>1, <3>1, <3>2 DEF PipeInv
  <2>5. PipeInv'
    BY <1>1, <1>5, <2>4, PipeFollows DEF Expire, PipeInv
  <2> QED
    BY <2>1, <2>2, <2>3, <2>5 DEF TunnelInv
<1>6. ASSUME RelayCuts PROVE TunnelInv'
  <2>1. LimiterInv'
    BY <1>1, <1>6, LimiterStutters DEF RelayCuts
  <2>2. StartInv'
    BY <1>1, <1>6 DEF RelayCuts, StartInv, BindHost, Authorized, Config, serveVars
  <2>3. CallInv'
    BY <1>1, <1>6, CallStutters DEF RelayCuts, limiterVars, serveVars
  <2>4. wire' \in Seq(Frames) /\ back' \in Seq(ReplyFrames)
    <3> DEFINE close == CloseFrame("protocol error")
    <3>1. wire' = wire \/ wire' = << >> \/ wire' = Append(wire, close)
      BY <1>6 DEF RelayCuts
    <3>2. back' = << >>
      BY <1>6 DEF RelayCuts
    <3>3. close \in Frames
      BY <1>4
    <3> HIDE DEF close
    <3>4. Append(wire, close) \in Seq(Frames)
      BY <1>1, <3>3 DEF PipeInv
    <3> QED
      BY Zenon, <1>1, <3>1, <3>2, <3>4, EmptySeq DEF PipeInv
  <2>5. PipeInv'
    BY <1>1, <1>6, <2>4, PipeFollows DEF RelayCuts
  <2> QED
    BY <2>1, <2>2, <2>3, <2>5 DEF TunnelInv
<1>7. ASSUME NEW c \in Calls, NEW r \in Requests, RejectBody(c, r) PROVE TunnelInv'
  <2>1. LimiterInv'
    BY <1>1, <1>7, LimiterStutters DEF RejectBody
  <2>2. CallInv'
    BY <1>1, <1>7, AnswerRules DEF RejectBody, limiterVars, serveVars
  <2> QED
    BY <1>1, <1>7, <2>1, <2>2, HandlerKeeps DEF RejectBody, linkVars, PipeInv
<1>8. ASSUME NEW c \in Calls, NEW r \in Requests, Arrive(c, r) PROVE TunnelInv'
  <2>1. LimiterInv' /\ ruled' = ruled
    BY <1>1, <1>8, SampleRules, TunnelAssumptions DEF Arrive
  <2>2. CallInv'
    BY <1>1, <1>8, <2>1 DEF Arrive, Reachable, CallInv, serveVars
  <2> QED
    BY <1>1, <1>8, <2>1, <2>2, HandlerKeeps DEF Arrive, linkVars, PipeInv
<1>9. ASSUME NEW c \in Calls, AskForward(c) PROVE TunnelInv'
  <2> DEFINE k == RateKey(From[c], "wallet forward")
  <2>1. k.bucket \in Buckets
    BY DEF RateKey, Buckets
  <2> HIDE DEF k
  <2>2. c \in Askers /\ MaxForwards \in Nat /\ Serve \notin Calls
    BY TunnelAssumptions
  <2>3. Allow(c, k, MaxForwards)
    BY <1>9 DEF AskForward, k
  <2>4. /\ LimiterInv'
        /\ \E answer \in {"denied", "allowed"} :
             ruled' = [ruled EXCEPT ![c] = [answer |-> answer, at |-> clock]]
    BY <1>1, <2>1, <2>2, <2>3, AllowRules
  <2>5. \A a : a # c => ruled'[a] = ruled[a]
    BY <2>4
  <2>6. CallInv'
    BY <1>1, <1>9, <2>2, <2>5 DEF AskForward, CallInv, serveVars
  <2> QED
    BY <1>1, <1>9, <2>4, <2>6, HandlerKeeps DEF AskForward, linkVars, PipeInv
<1>10. ASSUME NEW c \in Calls, Refuse(c) PROVE TunnelInv'
  <2>1. LimiterInv'
    BY <1>1, <1>10, LimiterStutters DEF Refuse
  <2>2. Screening(c) \in Nat \ {0}
    BY <1>10, ScreeningCodes DEF Refuse
  <2>3. CallInv'
    BY <1>1, <1>10, <2>2, AnswerRules DEF Refuse, limiterVars, serveVars
  <2> QED
    BY <1>1, <1>10, <2>1, <2>3, HandlerKeeps DEF Refuse, linkVars, PipeInv
<1>11. ASSUME NEW c \in Calls, Forward(c) PROVE TunnelInv'
  <2>1. LimiterInv'
    BY <1>1, <1>11, LimiterStutters DEF Forward
  <2>2. CallInv'
    BY <1>1, <1>11 DEF Forward, CallInv, limiterVars, serveVars
  <2>3. RequestFrame(c, request[c]) \in Frames
    BY <1>1, <1>11, ForwardedFrame
  <2>4. wire' \in Seq(Frames)
    BY <1>1, <1>11, <2>3 DEF Forward, PipeInv
  <2> QED
    BY <1>1, <1>11, <2>1, <2>2, <2>4, HandlerKeeps DEF Forward
<1>12. ASSUME NEW c \in Calls, TimeOut(c) PROVE TunnelInv'
  <2>1. LimiterInv'
    BY <1>1, <1>12, LimiterStutters DEF TimeOut
  <2>2. CallInv'
    BY <1>1, <1>12, AnswerRules DEF TimeOut, limiterVars, serveVars
  <2> QED
    BY <1>1, <1>12, <2>1, <2>2, HandlerKeeps DEF TimeOut, linkVars, PipeInv
<1> QED
  BY <1>2, <1>3, <1>5, <1>6, <1>7, <1>8, <1>9, <1>10, <1>11, <1>12 DEF Relaying

LEMMA TunnellingKeeps ==
  ASSUME TunnelInv, Tunnelling
  PROVE  TunnelInv'
<1>1. LimiterInv /\ StartInv /\ CallInv /\ PipeInv
  BY DEF TunnelInv
<1>2. /\ UNCHANGED limiterVars /\ UNCHANGED relayVars /\ UNCHANGED callVars
      /\ client \notin {"off", "ended"}
      /\ TunnelEnded \/ (TunnelGoesOn /\ wire' \in Seq(Frames))
  BY ClientRules
<1>3. LimiterInv'
  BY <1>1, <1>2, LimiterStutters
<1>4. StartInv'
  <2>1. CASE TunnelEnded
    BY <1>1, <1>2, <2>1 DEF TunnelEnded, StartInv, BindHost, Authorized, Config, relayVars
  <2>2. CASE TunnelGoesOn
    <3>1. client' \notin {"off", "ended"}
      BY <2>2, TunnelAssumptions DEF TunnelGoesOn
    <3> QED
      BY <1>1, <1>2, <2>2, <3>1 DEF TunnelGoesOn, StartInv, BindHost, Authorized, Config, relayVars
  <2> QED
    BY <1>2, <2>1, <2>2
<1>5. CallInv'
  BY <1>1, <1>2, CallStutters DEF TunnelEnded, TunnelGoesOn, limiterVars
<1>6. PipeInv'
  <2>1. wire' \in Seq(Frames) /\ back' \in Seq(ReplyFrames)
    BY <1>2, EmptySeq DEF TunnelEnded, TunnelGoesOn
  <2> QED
    BY <1>2, <2>1, PipeFollows DEF relayVars
<1> QED
  BY <1>3, <1>4, <1>5, <1>6 DEF TunnelInv

LEMMA TunnelStarts == Init => TunnelInv
<1> SUFFICES ASSUME Init PROVE TunnelInv
  OBVIOUS
<1>1. LimiterInv
  BY LimiterStarts DEF Init
<1>2. StartInv
  BY DEF Init, StartInv
<1>3. CallInv
  BY TunnelAssumptions DEF Init, CallInv, LimiterInit, NotRuled
<1>4. PipeInv
  BY DEF Init, PipeInv
<1> QED
  BY <1>1, <1>2, <1>3, <1>4 DEF TunnelInv

LEMMA TunnelStep == TunnelInv /\ [Next]_vars => TunnelInv'
<1> SUFFICES ASSUME TunnelInv, [Next]_vars PROVE TunnelInv'
  OBVIOUS
<1>1. LimiterInv /\ StartInv /\ CallInv /\ PipeInv
  BY DEF TunnelInv
<1>2. ASSUME UNCHANGED <<serveVars, relayVars, linkVars, callVars>>, LimiterInv', ruled' = ruled
      PROVE  TunnelInv'
  <2>1. StartInv'
    BY <1>1, <1>2, StartStutters DEF relayVars, linkVars
  <2>2. CallInv'
    BY <1>1, <1>2, CallStutters DEF serveVars
  <2>3. PipeInv'
    BY <1>1, <1>2, PipeStutters DEF relayVars, linkVars
  <2> QED
    BY <1>2, <2>1, <2>2, <2>3 DEF TunnelInv
<1>3. CASE Ticking
  BY <1>1, <1>2, <1>3, TimeRules DEF Ticking, PassTime
<1>4. CASE UNCHANGED vars
  BY <1>1, <1>2, <1>4, LimiterStutters DEF vars, limiterVars
<1> QED
  BY <1>3, <1>4, StartingKeeps, RelayingKeeps, TunnellingKeeps DEF Next

THEOREM TunnelInvariant == Spec => []TunnelInv
BY TunnelStarts, TunnelStep, PTL DEF Spec

-------------------------------------------------------------------------------
(* The limiter's quota *)

KeyOf(a) == RateKey(From[a], BucketOf(a))

\* Who was let in with key k since a time.
Admitted(k, since) ==
  {b \in Askers : KeyOf(b) = k /\ ruled[b].answer = "allowed" /\ ruled[b].at >= since}

\* The same once a step is taken, for a time before it.
NowAdmitted(k, since) ==
  {b \in Askers : KeyOf(b) = k /\ ruled'[b].answer = "allowed" /\ ruled'[b].at >= since}

\* The callers that used up the quota of a.
Rivals(a) ==
  {b \in Askers :
    /\ From[b] = From[a] /\ BucketOf(b) = BucketOf(a)
    /\ ruled[b].answer = "allowed"
    /\ ruled[b].at + Window > sampled[a]}

\* A window counts no more callers than were let in since it started, and who
\* was denied had as many rivals as the limit.
QuotaInv ==
  /\ \A k \in DOMAIN entries :
       entries[k].count <= Cardinality(Admitted(k, entries[k].started))
  /\ \A a \in Askers : ruled[a].answer = "denied" => Cardinality(Rivals(a)) >= LimitOf(a)

LEMMA QuotaMeans == QuotaInv => DeniedOnlyOverQuota
BY DEF QuotaInv, DeniedOnlyOverQuota, Rivals

LEMMA AskersFinite == IsFiniteSet(Askers)
<1>1. IsFiniteSet(Calls) /\ Askers = Calls \cup {Serve}
  BY TunnelAssumptions
<1> QED
  BY <1>1, FS_AddElement

LEMMA MoreCounted ==
  ASSUME NEW S, NEW T, S \subseteq T, T \subseteq Askers
  PROVE  Cardinality(S) \in Nat /\ Cardinality(T) \in Nat /\ Cardinality(S) <= Cardinality(T)
<1>1. IsFiniteSet(T)
  BY AskersFinite, FS_Subset
<1> QED
  BY <1>1, FS_Subset, FS_CardinalityType

LEMMA OneMoreCounted ==
  ASSUME NEW S, NEW T, NEW a, a \notin S, S \cup {a} \subseteq T, T \subseteq Askers
  PROVE  Cardinality(S) \in Nat /\ Cardinality(T) \in Nat /\ Cardinality(S) + 1 <= Cardinality(T)
<1>1. IsFiniteSet(S)
  BY AskersFinite, FS_Subset
<1>2. Cardinality(S \cup {a}) = Cardinality(S) + 1
  BY <1>1, FS_AddElement
<1>3. Cardinality(S \cup {a}) <= Cardinality(T) /\ Cardinality(T) \in Nat
  BY MoreCounted
<1> QED
  BY <1>1, <1>2, <1>3, FS_CardinalityType

\* A caller ruled on for the first time, with its own key and limit.
LEMMA RulingKeepsQuota ==
  ASSUME LimiterInv, QuotaInv, NEW a \in Askers, ruled[a].answer = "none",
         NEW limit \in Nat, limit = LimitOf(a), Allow(a, KeyOf(a), limit)
  PROVE  QuotaInv'
<1> DEFINE k == KeyOf(a)
<1>1. k.bucket \in Buckets
  BY DEF KeyOf, RateKey, BucketOf, Buckets
<1>2. \A b : KeyOf(b) = k => From[b] = From[a] /\ BucketOf(b) = BucketOf(a)
  <2>1. ASSUME NEW b, KeyOf(b) = k PROVE From[b] = From[a] /\ BucketOf(b) = BucketOf(a)
    <3>1. KeyOf(b).ip = From[b] /\ KeyOf(b).bucket = BucketOf(b)
      BY DEF KeyOf, RateKey
    <3>2. k.ip = From[a] /\ k.bucket = BucketOf(a)
      BY DEF KeyOf, RateKey
    <3> QED
      BY <2>1, <3>1, <3>2
  <2> QED
    BY <2>1
<1>3. Allow(a, k, limit) /\ k = KeyOf(a)
  OBVIOUS
<1> HIDE DEF k
<1>4. /\ LimiterInv'
      /\ clock' = clock /\ sampled' = sampled
      /\ \/ /\ ruled' = [ruled EXCEPT ![a] = [answer |-> "denied", at |-> clock]]
            /\ \A j \in DOMAIN entries' : j \in DOMAIN entries /\ entries'[j] = entries[j]
            /\ limit = 0 \/ OverLimit(k, sampled[a], limit)
         \/ /\ ruled' = [ruled EXCEPT ![a] = [answer |-> "allowed", at |-> clock]]
            /\ \A j \in DOMAIN entries' : Follows(j, k, sampled[a])
  BY <1>1, <1>3, AllowRules
<1>5. /\ ruled'[a].answer \in {"denied", "allowed"} /\ ruled'[a].at = clock
      /\ \A b \in Askers : b # a => ruled'[b] = ruled[b]
  BY <1>4 DEF LimiterInv, LimiterTypeOK
<1>6. \A j, since : Admitted(j, since) \subseteq NowAdmitted(j, since) /\ a \notin Admitted(j, since)
  BY <1>5 DEF Admitted, NowAdmitted
<1>7. \A b \in Askers : Rivals(b) \subseteq Rivals(b)'
  BY <1>4, <1>5 DEF Rivals
<1>8. sampled[a] \in Nat /\ clock \in Nat /\ sampled[a] <= clock /\ Window \in Nat
  BY RateLimiterAssumptions DEF LimiterInv, LimiterTypeOK
<1>9. ASSUME NEW j \in DOMAIN entries'
      PROVE  entries'[j].count <= Cardinality(NowAdmitted(j, entries'[j].started))
  <2>1. PICK since : since = entries'[j].started
    OBVIOUS
  <2>2. NowAdmitted(j, since) \subseteq Askers
    BY DEF NowAdmitted
  <2>3. CASE j \in DOMAIN entries /\ entries'[j] = entries[j]
    <3>1. entries[j].count <= Cardinality(Admitted(j, since)) /\ entries[j].count \in Nat
      BY <2>1, <2>3 DEF QuotaInv, LimiterInv, Windows
    <3>2. /\ Cardinality(Admitted(j, since)) \in Nat /\ Cardinality(NowAdmitted(j, since)) \in Nat
          /\ Cardinality(Admitted(j, since)) <= Cardinality(NowAdmitted(j, since))
      BY <1>6, <2>2, MoreCounted
    <3> QED
      BY <2>1, <2>3, <3>1, <3>2
  <2>4. CASE /\ ruled' = [ruled EXCEPT ![a] = [answer |-> "allowed", at |-> clock]]
             /\ j = k /\ k \in DOMAIN entries
             /\ entries'[k] = [started |-> entries[k].started, count |-> entries[k].count + 1]
    <3>1. /\ entries[k].count <= Cardinality(Admitted(k, since)) /\ entries[k].count \in Nat
          /\ entries'[j].count = entries[k].count + 1
          /\ since = entries[k].started /\ since <= clock
      BY <2>1, <2>4 DEF QuotaInv, LimiterInv, LimiterTypeOK, Windows
    <3>2. a \in NowAdmitted(k, since)
      BY <1>3, <1>5, <2>4, <3>1 DEF NowAdmitted, LimiterInv, LimiterTypeOK
    <3>3. Admitted(k, since) \cup {a} \subseteq NowAdmitted(k, since)
      BY <1>6, <3>2
    <3>4. /\ Cardinality(Admitted(k, since)) \in Nat /\ Cardinality(NowAdmitted(k, since)) \in Nat
          /\ Cardinality(Admitted(k, since)) + 1 <= Cardinality(NowAdmitted(k, since))
      BY <1>6, <2>2, <2>4, <3>3, OneMoreCounted
    <3> QED
      BY <2>1, <2>4, <3>1, <3>4
  <2>5. CASE /\ ruled' = [ruled EXCEPT ![a] = [answer |-> "allowed", at |-> clock]]
             /\ j = k /\ entries'[k] = [started |-> sampled[a], count |-> 1]
    <3>1. since = sampled[a] /\ entries'[j].count = 1
      BY <2>1, <2>5
    <3>2. a \in NowAdmitted(k, since)
      BY <1>3, <1>5, <1>8, <2>5, <3>1 DEF NowAdmitted, LimiterInv, LimiterTypeOK
    <3>3. {} \cup {a} \subseteq NowAdmitted(k, since) /\ a \notin {}
      BY <3>2
    <3>4. Cardinality({}) + 1 <= Cardinality(NowAdmitted(k, since))
      BY <2>2, <2>5, <3>3, OneMoreCounted
    <3>5. Cardinality({}) = 0
      BY FS_EmptySet
    <3> QED
      BY <2>1, <2>5, <3>1, <3>4, <3>5
  <2> QED
    BY <1>4, <2>3, <2>4, <2>5 DEF Follows
<1>10. ASSUME NEW b \in Askers, ruled'[b].answer = "denied"
       PROVE  Cardinality(Rivals(b)') >= LimitOf(b)
  <2>1. Rivals(b)' \subseteq Askers
    BY DEF Rivals
  <2>2. LimitOf(b) \in Nat
    BY TunnelAssumptions DEF LimitOf
  <2>3. CASE b # a
    <3>1. Cardinality(Rivals(b)) >= LimitOf(b)
      BY <1>5, <1>10, <2>3 DEF QuotaInv
    <3>2. /\ Cardinality(Rivals(b)) \in Nat /\ Cardinality(Rivals(b)') \in Nat
          /\ Cardinality(Rivals(b)) <= Cardinality(Rivals(b)')
      BY <1>7, <2>1, MoreCounted
    <3> QED
      BY <2>2, <3>1, <3>2
  <2>4. CASE b = a /\ limit = 0
    BY <2>1, <2>4, MoreCounted
  <2>5. CASE b = a /\ OverLimit(k, sampled[a], limit)
    <3>1. PICK since : since = entries[k].started
      OBVIOUS
    <3>2. /\ limit <= entries[k].count /\ entries[k].count \in Nat
          /\ entries[k].count <= Cardinality(Admitted(k, since))
          /\ since \in Nat /\ since + Window > sampled[a]
      BY <2>5, <3>1 DEF OverLimit, QuotaInv, LimiterInv, Windows
    <3>3. ASSUME NEW c \in Admitted(k, since) PROVE c \in Rivals(a)'
      <4>1. /\ c \in Askers /\ KeyOf(c) = k /\ ruled[c].answer = "allowed"
            /\ ruled[c].at >= since /\ c # a
        BY <1>6 DEF Admitted
      <4>2. ruled[c].at \in Nat
        BY <4>1, RateLimiterAssumptions DEF LimiterInv, LimiterTypeOK
      <4>3. ruled[c].at + Window > sampled[a]
        BY <1>8, <3>2, <4>1, <4>2
      <4> QED
        BY <1>2, <1>4, <1>5, <4>1, <4>3 DEF Rivals
    <3>4. /\ Cardinality(Admitted(k, since)) \in Nat /\ Cardinality(Rivals(a)') \in Nat
          /\ Cardinality(Admitted(k, since)) <= Cardinality(Rivals(a)')
      BY <2>1, <2>5, <3>3, MoreCounted
    <3> QED
      BY <2>5, <3>2, <3>4
  <2>6. ASSUME b = a PROVE limit = 0 \/ OverLimit(k, sampled[a], limit)
    <3>1. ruled' # [ruled EXCEPT ![a] = [answer |-> "allowed", at |-> clock]]
      BY <1>10, <2>6 DEF LimiterInv, LimiterTypeOK
    <3> QED
      BY <1>4, <3>1
  <2> QED
    BY <2>3, <2>4, <2>5, <2>6
<1> QED
  BY <1>9, <1>10 DEF QuotaInv, Admitted, NowAdmitted

LEMMA QuotaStutters ==
  ASSUME QuotaInv, UNCHANGED <<entries, ruled>>,
         \A a \in Askers : ruled[a].answer # "none" => sampled'[a] = sampled[a]
  PROVE  QuotaInv'
<1>1. \A a \in Askers : ruled[a].answer = "denied" => Rivals(a)' = Rivals(a)
  BY DEF Rivals
<1> QED
  BY <1>1 DEF QuotaInv, Admitted, KeyOf, RateKey

\* A caller reads the clock and is ruled on before it has been.
LEMMA QuotaStep == TunnelInv /\ QuotaInv /\ [Next]_vars => QuotaInv'
<1> SUFFICES ASSUME TunnelInv, QuotaInv, [Next]_vars PROVE QuotaInv'
  OBVIOUS
<1>1. LimiterInv /\ CallInv
  BY DEF TunnelInv
<1>2. ASSUME UNCHANGED <<entries, sampled, ruled>> PROVE QuotaInv'
  BY <1>2, QuotaStutters
<1>3. ASSUME NEW a \in Askers, ruled[a].answer = "none", Sample(a) PROVE QuotaInv'
  <2>1. UNCHANGED <<entries, ruled>> /\ \A b \in Askers : b # a => sampled'[b] = sampled[b]
    BY <1>1, <1>3, SampleRules
  <2> QED
    BY <1>3, <2>1, QuotaStutters
<1>4. CASE Starting
  <2>1. CASE Dial
    <3>1. Serve \in Askers /\ ruled[Serve].answer = "none" /\ Sample(Serve)
      BY <1>1, <2>1, TunnelAssumptions DEF Dial, CallInv
    <3> QED
      BY <1>3, <3>1
  <2>2. CASE AskTunnel
    <3>1. Serve \in Askers /\ MaxTunnelCreates \in Nat
      BY TunnelAssumptions
    <3>2. KeyOf(Serve) = RateKey(From[Serve], "tunnel create") /\ LimitOf(Serve) = MaxTunnelCreates
      BY DEF KeyOf, BucketOf, LimitOf
    <3>3. ruled[Serve].answer = "none" /\ Allow(Serve, KeyOf(Serve), MaxTunnelCreates)
      BY <2>2, <3>2 DEF AskTunnel
    <3> QED
      BY <1>1, <3>1, <3>2, <3>3, RulingKeepsQuota
  <2>3. CASE UNCHANGED limiterVars
    BY <1>2, <2>3 DEF limiterVars
  <2> QED
    BY <1>4, <2>1, <2>2, <2>3
    DEF Starting, Bind, StartWithoutRelay, RejectRelayArgs, Welcome, RelaySetupFails
<1>5. CASE Relaying
  <2>1. ASSUME NEW c \in Calls, NEW r \in Requests, Arrive(c, r) PROVE QuotaInv'
    <3>1. c \in Askers /\ ruled[c].answer = "none" /\ Sample(c)
      BY <1>1, <2>1, TunnelAssumptions DEF Arrive, Reachable, CallInv
    <3> QED
      BY <1>3, <3>1
  <2>2. ASSUME NEW c \in Calls, AskForward(c) PROVE QuotaInv'
    <3>1. c \in Askers /\ c # Serve /\ MaxForwards \in Nat
      BY TunnelAssumptions
    <3>2. KeyOf(c) = RateKey(From[c], "wallet forward") /\ LimitOf(c) = MaxForwards
      BY <3>1 DEF KeyOf, BucketOf, LimitOf
    <3>3. ruled[c].answer = "none" /\ Allow(c, KeyOf(c), MaxForwards)
      BY <1>1, <2>2, <3>2 DEF AskForward, CallInv
    <3> QED
      BY <1>1, <3>1, <3>2, <3>3, RulingKeepsQuota
  <2>3. CASE UNCHANGED limiterVars
    BY <1>2, <2>3 DEF limiterVars
  <2> QED
    BY <1>5, <2>1, <2>2, <2>3
    DEF Relaying, Resolve, Heartbeat, Expire, RelayCuts, RejectBody, Refuse, Forward, TimeOut
<1>6. CASE Tunnelling
  BY <1>2, <1>6, ClientRules DEF limiterVars
<1>7. CASE Ticking
  BY <1>2, <1>7 DEF Ticking, PassTime
<1>8. CASE UNCHANGED vars
  BY <1>2, <1>8 DEF vars, limiterVars
<1> QED
  BY <1>4, <1>5, <1>6, <1>7, <1>8 DEF Next

LEMMA QuotaStarts == Init => QuotaInv
BY DEF Init, LimiterInit, NotRuled, QuotaInv

-------------------------------------------------------------------------------
(* The tunnel implements the exchange *)

\* Where a call of a wallet stands in WalletExchange, by where its handler is
\* and what it answered.
Stand(at, code) ==
  IF at = "waiting" THEN "open"
  ELSE IF at # "done" THEN "idle"
  ELSE IF code = 504 THEN "failed"
  ELSE IF code \in {200, 502} THEN "replied" ELSE "refused"

Standing == [c \in Calls |-> Stand(pc[c], status[c])]

\* The calls the client has replied to, for the local server or in its stead.
Handled == {c \in Calls : handled[c] # "none"}

Exchange == INSTANCE WalletExchange WITH
  Forwards <- Calls, status <- Standing, delivered <- Handled

Carries(w, c) == \E i \in DOMAIN w : w[i].kind = "request" /\ w[i].call = c

OneFrameEach(w) ==
  \A i, j \in DOMAIN w :
    w[i].kind = "request" /\ w[j].kind = "request" /\ w[i].call = w[j].call => i = j

OnWay(c) == Carries(wire, c) \/ client = c

\* A call on its way to the local server is so once, has not been handled, and
\* its slot is held or timed out; and only a handled call is replied to.
WayInv ==
  /\ handled \in [Calls -> {"none"} \cup ReplyKinds]
  /\ OneFrameEach(wire)
  /\ client \in Calls => ~Carries(wire, client)
  /\ \A c \in Calls :
       /\ OnWay(c) => c \notin Handled /\ Standing[c] \in {"open", "failed"}
       /\ c \in Handled => Standing[c] \in {"open", "failed", "replied"}
       /\ Standing[c] = "replied" => c \in Handled
  /\ \A i \in DOMAIN back : back[i].call \in Handled

LEMMA NothingCarried ==
  ASSUME NEW c
  PROVE  OneFrameEach(<< >>) /\ ~Carries(<< >>, c)
BY DEF OneFrameEach, Carries

LEMMA AppendedRules ==
  ASSUME NEW S, NEW w \in Seq(S), NEW f \in S, OneFrameEach(w),
         f.kind = "request" => ~Carries(w, f.call)
  PROVE  /\ OneFrameEach(Append(w, f))
         /\ \A c : Carries(Append(w, f), c) =>
              Carries(w, c) \/ (f.kind = "request" /\ f.call = c)
<1> DEFINE v == Append(w, f)
<1>1. /\ Len(w) \in Nat /\ DOMAIN w = 1..Len(w) /\ DOMAIN v = 1..(Len(w) + 1)
      /\ \A i \in DOMAIN w : v[i] = w[i]
      /\ v[Len(w) + 1] = f
  BY AppendProperties
<1> HIDE DEF v
<1>2. \A i \in DOMAIN v : (i \in DOMAIN w /\ v[i] = w[i]) \/ (i = Len(w) + 1 /\ v[i] = f)
  BY <1>1
<1>3. \A c : Carries(v, c) => Carries(w, c) \/ (f.kind = "request" /\ f.call = c)
  BY Zenon, <1>2 DEF Carries
<1>4. ASSUME NEW i \in DOMAIN v, NEW j \in DOMAIN v,
             v[i].kind = "request", v[j].kind = "request", v[i].call = v[j].call
      PROVE  i = j
  BY Zenon, <1>2, <1>4 DEF OneFrameEach, Carries
<1> QED
  BY Zenon, <1>3, <1>4 DEF OneFrameEach, v

LEMMA TakenRules ==
  ASSUME NEW S, NEW w \in Seq(S), w # << >>, OneFrameEach(w)
  PROVE  /\ OneFrameEach(Tail(w))
         /\ \A c : Carries(Tail(w), c) => Carries(w, c)
         /\ Head(w).kind = "request" =>
              Carries(w, Head(w).call) /\ ~Carries(Tail(w), Head(w).call)
<1> DEFINE v == Tail(w)
           h == Head(w)
<1>1. /\ Len(w) \in Nat /\ 1 <= Len(w) /\ DOMAIN w = 1..Len(w) /\ DOMAIN v = 1..(Len(w) - 1)
      /\ \A i \in 1..(Len(w) - 1) : v[i] = w[i + 1]
      /\ h = w[1]
  BY HeadTailProperties, EmptySeq
<1> HIDE DEF v, h
<1>2. \A i \in DOMAIN v : i + 1 \in DOMAIN w /\ i + 1 # 1 /\ v[i] = w[i + 1] /\ i \in Nat
  BY <1>1
<1>3. 1 \in DOMAIN w
  BY <1>1
<1>4. OneFrameEach(v)
  <2> SUFFICES ASSUME NEW i \in DOMAIN v, NEW j \in DOMAIN v,
                      v[i].kind = "request", v[j].kind = "request", v[i].call = v[j].call
               PROVE  i = j
    BY Zenon DEF OneFrameEach
  <2>1. i + 1 = j + 1
    BY Zenon, <1>2 DEF OneFrameEach
  <2> QED
    BY <1>2, <2>1
<1>5. \A c : Carries(v, c) => Carries(w, c)
  BY Zenon, <1>2 DEF Carries
<1>6. h.kind = "request" => Carries(w, h.call) /\ ~Carries(v, h.call)
  BY Zenon, <1>1, <1>2, <1>3 DEF Carries, OneFrameEach
<1> QED
  BY Zenon, <1>4, <1>5, <1>6 DEF v, h

\* A step that answers and handles nothing keeps the invariant, if it puts
\* nothing on the way, and is a stutter of the exchange.
LEMMA QuietStep ==
  ASSUME WayInv, Standing' = Standing, handled' = handled,
         OneFrameEach(wire)', client' \in Calls => ~Carries(wire, client)',
         \A c \in Calls : OnWay(c)' => OnWay(c),
         \A i \in DOMAIN back' : back'[i].call \in Handled
  PROVE  WayInv' /\ [Exchange!Next]_(Exchange!vars)
<1>1. Handled' = Handled
  BY DEF Handled
<1>2. WayInv'
  BY Zenon, <1>1 DEF WayInv, ReplyKinds
<1>3. UNCHANGED Exchange!vars
  BY <1>1 DEF Exchange!vars
<1> QED
  BY <1>2, <1>3

LEMMA StandingStutters ==
  ASSUME UNCHANGED <<pc, status>>
  PROVE  Standing' = Standing
BY DEF Standing

\* A handler's step moves its own call only.
LEMMA StandingMoves ==
  ASSUME CallInv, NEW c \in Calls, NEW at, NEW code,
         pc' = [pc EXCEPT ![c] = at], status' = [status EXCEPT ![c] = code]
  PROVE  /\ Standing' = [Standing EXCEPT ![c] = Stand(at, code)]
         /\ Standing[c] = Stand(pc[c], status[c])
BY DEF CallInv, Standing

LEMMA StandCases ==
  ASSUME NEW code
  PROVE  /\ \A at \in {"idle", "asking", "asked"} : Stand(at, code) = "idle"
         /\ Stand("waiting", code) = "open"
         /\ Stand("done", 504) = "failed"
         /\ Stand("done", 200) = "replied" /\ Stand("done", 502) = "replied"
         /\ code \in {400, 410, 413, 414, 429, 431} => Stand("done", code) = "refused"
BY SMT DEF Stand

\* A call moves where its way allows.
LEMMA MovedStep ==
  ASSUME WayInv, NEW c \in Calls, NEW to, Standing' = [Standing EXCEPT ![c] = to],
         UNCHANGED <<handled, wire, client>>,
         \A i \in DOMAIN back' : back'[i].call \in Handled,
         \/ Standing[c] = "idle" /\ to = "refused"
         \/ Standing[c] = "open" /\ to = "failed"
         \/ Standing[c] = "open" /\ to = "replied" /\ c \in Handled
  PROVE  WayInv' /\ [Exchange!Next]_(Exchange!vars)
<1>1. Handled' = Handled
  BY DEF Handled
<1>2. DOMAIN Standing = Calls
  BY DEF Standing
<1>3. Standing'[c] = to /\ \A d \in Calls : d # c => Standing'[d] = Standing[d]
  BY <1>2
<1>4. \A d \in Calls : OnWay(d)' <=> OnWay(d)
  BY DEF OnWay, Carries
<1>5. \A d \in Calls :
        /\ OnWay(d) => d \notin Handled /\ Standing'[d] \in {"open", "failed"}
        /\ d \in Handled => Standing'[d] \in {"open", "failed", "replied"}
        /\ Standing'[d] = "replied" => d \in Handled
  BY <1>3 DEF WayInv
<1>6. WayInv'
  BY Zenon, <1>1, <1>4, <1>5 DEF WayInv, ReplyKinds
<1>7. Exchange!Refuse(c) \/ Exchange!Fail(c) \/ Exchange!Reply(c)
  BY <1>1 DEF Exchange!Refuse, Exchange!Fail, Exchange!Reply
<1> QED
  BY <1>6, <1>7 DEF Exchange!Next

\* A call takes its slot when its frame is queued, or lost with the connection.
LEMMA ForwardedStep ==
  ASSUME TunnelInv, WayInv, NEW c \in Calls, Forward(c)
  PROVE  WayInv' /\ [Exchange!Next]_(Exchange!vars)
<1> DEFINE f == RequestFrame(c, request[c])
<1>1. CallInv /\ wire \in Seq(Frames)
  BY DEF TunnelInv, PipeInv
<1>2. status' = [status EXCEPT ![c] = status[c]] /\ pc' = [pc EXCEPT ![c] = "waiting"]
  BY <1>1 DEF Forward, CallInv
<1>3. Standing' = [Standing EXCEPT ![c] = "open"] /\ Standing[c] = "idle"
  <2>1. Stand("waiting", status[c]) = "open" /\ Stand(pc[c], status[c]) = "idle"
    BY StandCases DEF Forward
  <2>2. /\ Standing' = [Standing EXCEPT ![c] = Stand("waiting", status[c])]
        /\ Standing[c] = Stand(pc[c], status[c])
    BY <1>1, <1>2, StandingMoves
  <2> QED
    BY <2>1, <2>2
<1>4. handled' = handled /\ client' = client /\ back' = back /\ Handled' = Handled
  BY DEF Forward, serveVars, Handled
<1>5. ~OnWay(c) /\ c \notin Handled
  BY <1>3 DEF WayInv
<1>6. /\ OneFrameEach(wire)'
      /\ \A d \in Calls : Carries(wire, d)' => Carries(wire, d) \/ d = c
  <2>1. wire' \in {wire, Append(wire, f)}
    BY DEF Forward
  <2>2. f \in Frames /\ f.kind = "request" /\ f.call = c
    BY <1>1, ForwardedFrame DEF RequestFrame
  <2> HIDE DEF f
  <2>3. OneFrameEach(wire) /\ ~Carries(wire, f.call)
    BY <1>5, <2>2 DEF WayInv, OnWay
  <2>4. /\ OneFrameEach(Append(wire, f))
        /\ \A d : Carries(Append(wire, f), d) => Carries(wire, d) \/ f.call = d
    BY <1>1, <2>2, <2>3, AppendedRules
  <2> QED
    BY Zenon, <2>1, <2>2, <2>3, <2>4
<1>7. \A d \in Calls : d # c => Standing'[d] = Standing[d]
  BY <1>3
<1>8. Standing'[c] = "open"
  BY <1>3 DEF Standing
<1>9. \A d \in Calls :
        /\ OnWay(d)' => d \notin Handled /\ Standing'[d] \in {"open", "failed"}
        /\ d \in Handled => Standing'[d] \in {"open", "failed", "replied"}
        /\ Standing'[d] = "replied" => d \in Handled
  <2> TAKE d \in Calls
  <2>1. CASE d = c
    BY <1>5, <1>8, <2>1
  <2>2. CASE d # c
    <3>1. OnWay(d)' => OnWay(d)
      BY <1>4, <1>6, <2>2 DEF OnWay
    <3> QED
      BY <1>7, <2>2, <3>1 DEF WayInv
  <2> QED
    BY <2>1, <2>2
<1>10. client' \in Calls => ~Carries(wire, client)'
  BY <1>4, <1>5, <1>6 DEF WayInv, OnWay
<1>11. WayInv'
  BY Zenon, <1>4, <1>6, <1>9, <1>10 DEF WayInv, ReplyKinds
<1>12. Cardinality(Exchange!Open) < MaxInflight
  <2>1. Exchange!Open = InFlight
    BY <1>1 DEF Exchange!Open, InFlight, Standing, Stand, CallInv
  <2>2. ~(Cardinality(InFlight) >= MaxInflight)
    BY ScreeningCodes DEF Forward
  <2>3. Cardinality(InFlight) \in Nat /\ MaxInflight \in Nat
    <3>1. IsFiniteSet(Calls) /\ InFlight \subseteq Calls
      BY TunnelAssumptions DEF InFlight
    <3> QED
      BY <3>1, TunnelAssumptions, FS_Subset, FS_CardinalityType
  <2> QED
    BY <2>1, <2>2, <2>3
<1>13. Exchange!Cardinality(Exchange!Open) < MaxInflight
  BY <1>12 DEF Exchange!Cardinality, Cardinality
<1>14. Exchange!Admit(c)
  BY <1>3, <1>4, <1>13 DEF Exchange!Admit
<1> QED
  BY <1>11, <1>14 DEF Exchange!Next

LEMMA RelayingStep ==
  ASSUME TunnelInv, WayInv, Relaying
  PROVE  WayInv' /\ [Exchange!Next]_(Exchange!vars)
<1> DEFINE Goal == WayInv' /\ [Exchange!Next]_(Exchange!vars)
<1>1. CallInv /\ wire \in Seq(Frames) /\ back \in Seq(ReplyFrames)
  BY DEF TunnelInv, PipeInv
<1>2. /\ OneFrameEach(wire)
      /\ client \in Calls => ~Carries(wire, client)
      /\ \A i \in DOMAIN back : back[i].call \in Handled
  BY DEF WayInv
<1>3. ASSUME UNCHANGED <<pc, status, handled, client>>, back' \in {back, << >>},
             OneFrameEach(wire)', \A c : Carries(wire, c)' => Carries(wire, c)
      PROVE  Goal
  <2>1. Standing' = Standing
    BY <1>3, StandingStutters
  <2>2. \A i \in DOMAIN back' : back'[i].call \in Handled
    BY <1>2, <1>3
  <2>3. client' \in Calls => ~Carries(wire, client)'
    BY <1>2, <1>3
  <2>4. \A c \in Calls : OnWay(c)' => OnWay(c)
    BY <1>3 DEF OnWay
  <2> QED
    BY Zenon, <1>3, <2>1, <2>2, <2>3, <2>4, QuietStep
<1>4. ASSUME NEW f \in Frames, f.kind # "request", wire' \in {wire, << >>, Append(wire, f)}
      PROVE  OneFrameEach(wire)' /\ \A c : Carries(wire, c)' => Carries(wire, c)
  <2>1. /\ OneFrameEach(Append(wire, f))
        /\ \A c : Carries(Append(wire, f), c) => Carries(wire, c)
    BY <1>1, <1>2, <1>4, AppendedRules
  <2> QED
    BY Zenon, <1>2, <1>4, <2>1, NothingCarried
<1>5. ASSUME NEW c \in Calls, NEW at \in {"asking", "asked"}, pc[c] \in {"idle", "asking"},
             pc' = [pc EXCEPT ![c] = at], UNCHANGED <<status, handled, client, wire, back>>
      PROVE  Goal
  <2>1. status' = [status EXCEPT ![c] = status[c]]
    BY <1>1, <1>5 DEF CallInv
  <2>2. Standing' = [Standing EXCEPT ![c] = Stand(at, status[c])]
        /\ Standing[c] = Stand(pc[c], status[c])
    BY <1>1, <1>5, <2>1, StandingMoves
  <2>3. Stand(at, status[c]) = "idle" /\ Stand(pc[c], status[c]) = "idle"
    BY <1>5, StandCases
  <2>4. Standing' = Standing
    BY <2>2, <2>3 DEF Standing
  <2>5. \A d \in Calls : OnWay(d)' => OnWay(d)
    BY <1>5 DEF OnWay, Carries
  <2> QED
    BY <1>2, <1>5, <2>4, <2>5, QuietStep
<1>6. ASSUME NEW c \in Calls, NEW code, Answer(c, code), UNCHANGED <<handled, wire, client>>,
             \A i \in DOMAIN back' : back'[i].call \in Handled,
             \/ /\ pc[c] \in {"idle", "asked"}
                /\ code \in {400, 410, 413, 414, 429, 431}
             \/ pc[c] = "waiting" /\ code = 504
             \/ pc[c] = "waiting" /\ code \in {200, 502} /\ c \in Handled
      PROVE  Goal
  <2>1. Standing' = [Standing EXCEPT ![c] = Stand("done", code)]
        /\ Standing[c] = Stand(pc[c], status[c])
    <3>1. pc' = [pc EXCEPT ![c] = "done"] /\ status' = [status EXCEPT ![c] = code]
      BY <1>6 DEF Answer
    <3> QED
      BY <1>1, <3>1, StandingMoves
  <2>2. \/ Standing[c] = "idle" /\ Stand("done", code) = "refused"
        \/ Standing[c] = "open" /\ Stand("done", code) = "failed"
        \/ Standing[c] = "open" /\ Stand("done", code) = "replied" /\ c \in Handled
    BY <1>6, <2>1, StandCases
  <2> QED
    BY <1>6, <2>1, <2>2, MovedStep
<1> HIDE DEF Goal
<1>7. ASSUME Resolve PROVE Goal
  <2> DEFINE reply == Head(back)
  <2>1. back # << >> /\ reply \in ReplyFrames /\ reply.call \in Handled
    <3>1. back # << >>
      BY <1>7 DEF Resolve
    <3>2. 1 \in DOMAIN back /\ reply = back[1] /\ reply \in ReplyFrames
      BY <1>1, <3>1
    <3> QED
      BY <1>2, <3>1, <3>2
  <2>2. \A i \in DOMAIN Tail(back) : Tail(back)[i].call \in Handled
    <3>1. \A i \in DOMAIN Tail(back) : i + 1 \in DOMAIN back /\ Tail(back)[i] = back[i + 1]
      BY <1>1, <2>1
    <3> QED
      BY <1>2, <3>1
  <2>3. back' = Tail(back) /\ UNCHANGED <<handled, wire, client>>
    BY <1>7 DEF Resolve, serveVars
  <2>4. reply.call \in Calls /\ RenderReply(reply) \in {200, 502}
    BY <2>1 DEF ReplyFrames, RenderReply
  <2>5. CASE pc[reply.call] = "waiting"
    <3>1. Answer(reply.call, RenderReply(reply))
      BY <1>7, <2>5 DEF Resolve
    <3>2. \A i \in DOMAIN back' : back'[i].call \in Handled
      BY <2>2, <2>3
    <3> HIDE DEF reply
    <3>3. PICK c \in Calls, code \in {200, 502} : c = reply.call /\ code = RenderReply(reply)
      BY <2>4
    <3>4. Answer(c, code) /\ pc[c] = "waiting" /\ c \in Handled
      BY Zenon, <2>1, <2>5, <3>1, <3>3
    <3> QED
      BY <1>6, <2>3, <3>2, <3>4
  <2>6. CASE pc[reply.call] # "waiting"
    <3>1. UNCHANGED <<pc, status>>
      BY <1>7, <2>6 DEF Resolve
    <3>2. \A d \in Calls : OnWay(d)' => OnWay(d)
      BY <2>3 DEF OnWay, Carries
    <3> QED
      BY <1>2, <2>2, <2>3, <3>1, <3>2, StandingStutters, QuietStep DEF Goal
  <2> QED
    BY <2>5, <2>6
<1>8. ASSUME Heartbeat PROVE Goal
  <2>1. [kind |-> "ping"] \in Frames
    BY DEF Frames
  <2>2. wire' = Append(wire, [kind |-> "ping"])
    BY <1>8 DEF Heartbeat
  <2>3. OneFrameEach(wire)' /\ \A c : Carries(wire, c)' => Carries(wire, c)
    BY <1>4, <2>1, <2>2
  <2>4. UNCHANGED <<pc, status, handled, client>> /\ back' \in {back, << >>}
    BY <1>8 DEF Heartbeat, callVars, serveVars
  <2> QED
    BY Zenon, <1>3, <2>3, <2>4
<1>9. /\ CloseFrame("expired") \in Frames /\ CloseFrame("expired").kind = "close"
      /\ CloseFrame("protocol error") \in Frames /\ CloseFrame("protocol error").kind = "close"
  BY DEF CloseFrame, Frames
<1>10. ASSUME Expire PROVE Goal
  <2>1. wire' \in {wire, << >>, Append(wire, CloseFrame("expired"))}
    BY <1>10 DEF Expire
  <2>2. OneFrameEach(wire)' /\ \A c : Carries(wire, c)' => Carries(wire, c)
    BY <1>4, <1>9, <2>1
  <2>3. UNCHANGED <<pc, status, handled, client>> /\ back' \in {back, << >>}
    BY <1>10 DEF Expire, callVars, serveVars
  <2> QED
    BY Zenon, <1>3, <2>2, <2>3
<1>11. ASSUME RelayCuts PROVE Goal
  <2>1. wire' \in {wire, << >>, Append(wire, CloseFrame("protocol error"))}
    BY <1>11 DEF RelayCuts
  <2>2. OneFrameEach(wire)' /\ \A c : Carries(wire, c)' => Carries(wire, c)
    BY <1>4, <1>9, <2>1
  <2>3. UNCHANGED <<pc, status, handled, client>> /\ back' \in {back, << >>}
    BY <1>11 DEF RelayCuts, callVars, serveVars
  <2> QED
    BY Zenon, <1>3, <2>2, <2>3
<1>12. ASSUME NEW c \in Calls, NEW r \in Requests, RejectBody(c, r) PROVE Goal
  BY <1>2, <1>6, <1>12 DEF RejectBody, Reachable, linkVars, serveVars
<1>13. ASSUME NEW c \in Calls, NEW r \in Requests, Arrive(c, r) PROVE Goal
  BY <1>5, <1>13 DEF Arrive, Reachable, linkVars, serveVars
<1>14. ASSUME NEW c \in Calls, AskForward(c) PROVE Goal
  BY <1>5, <1>14 DEF AskForward, linkVars, serveVars
<1>15. ASSUME NEW c \in Calls, Refuse(c) PROVE Goal
  <2>1. Screening(c) \in {400, 410, 413, 414, 429, 431}
    BY <1>15, ScreeningCodes DEF Refuse
  <2> QED
    BY <1>2, <1>6, <1>15, <2>1 DEF Refuse, linkVars, serveVars
<1>16. ASSUME NEW c \in Calls, TimeOut(c) PROVE Goal
  BY <1>2, <1>6, <1>16 DEF TimeOut, linkVars, serveVars
<1>17. ASSUME NEW c \in Calls, Forward(c) PROVE Goal
  BY <1>17, ForwardedStep DEF Goal
<1> QED
  BY <1>7, <1>8, <1>10, <1>11, <1>12, <1>13, <1>14, <1>15, <1>16, <1>17 DEF Relaying, Goal

\* The tunnel ends: nothing is on its way any more.
LEMMA EndedStep ==
  ASSUME WayInv, TunnelEnded, UNCHANGED <<pc, status, handled>>
  PROVE  WayInv' /\ [Exchange!Next]_(Exchange!vars)
<1>1. Standing' = Standing
  BY StandingStutters
<1>2. wire' = << >> /\ client' = "ended" /\ back' = << >>
  BY DEF TunnelEnded
<1>3. "ended" \notin Calls
  BY TunnelAssumptions
<1>4. OneFrameEach(wire)' /\ \A c : ~Carries(wire, c)'
  BY Zenon, <1>2, NothingCarried
<1>5. \A c \in Calls : ~OnWay(c)'
  BY <1>2, <1>3, <1>4 DEF OnWay
<1>6. \A i \in DOMAIN back' : back'[i].call \in Handled
  BY <1>2
<1> QED
  BY Zenon, <1>1, <1>4, <1>5, <1>6, QuietStep

\* The client replies to the call it fetched, or the tunnel ends with the try.
LEMMA RepliedStep ==
  ASSUME TunnelInv, WayInv, NEW reply, reply.kind \in ReplyKinds, reply.body \in BodySizes,
         Replies(reply)
  PROVE  WayInv' /\ [Exchange!Next]_(Exchange!vars)
<1>1. client \in Calls /\ Send(client, reply) /\ UNCHANGED <<pc, status>>
  BY DEF Replies, callVars
<1>2. CASE link # "up"
  BY <1>1, <1>2, EndsRules, EndedStep DEF Send
<1>3. CASE link = "up"
  <2> DEFINE frame == [call |-> client, kind |-> reply.kind, body |-> reply.body]
  <2>1. /\ client' = "idle" /\ wire' = wire /\ back' = Append(back, frame)
        /\ handled' = [handled EXCEPT ![client] = reply.kind]
    BY <1>1, <1>3 DEF Send, Replies
  <2>2. reply.kind # "none"
    BY DEF ReplyKinds
  <2>3. /\ handled' \in [Calls -> {"none"} \cup ReplyKinds]
        /\ Handled' = Handled \cup {client}
    BY <1>1, <2>1, <2>2 DEF WayInv, Handled
  <2>4. /\ client \notin Handled /\ Standing[client] \in {"open", "failed"}
        /\ ~Carries(wire, client)
    BY <1>1 DEF WayInv, OnWay
  <2>5. Standing' = Standing
    BY <1>1, StandingStutters
  <2>6. "idle" \notin Calls
    BY TunnelAssumptions
  <2>7. \A i \in DOMAIN back' : back'[i].call \in Handled'
    <3>1. back \in Seq(ReplyFrames) /\ frame \in ReplyFrames /\ frame.call = client
      BY <1>1 DEF TunnelInv, PipeInv, ReplyFrames
    <3> HIDE DEF frame
    <3>2. \A i \in DOMAIN back' : (i \in DOMAIN back /\ back'[i] = back[i]) \/ back'[i] = frame
      BY <2>1, <3>1
    <3> QED
      BY <2>3, <3>1, <3>2 DEF WayInv
  <2>8. \A c \in Calls : OnWay(c)' => c # client /\ OnWay(c)
    BY <2>1, <2>4, <2>6 DEF OnWay, Carries
  <2>9. \A c \in Calls :
          /\ OnWay(c)' => c \notin Handled' /\ Standing'[c] \in {"open", "failed"}
          /\ c \in Handled' => Standing'[c] \in {"open", "failed", "replied"}
          /\ Standing'[c] = "replied" => c \in Handled'
    BY <2>3, <2>4, <2>5, <2>8 DEF WayInv
  <2>10. OneFrameEach(wire)' /\ (client' \in Calls => ~Carries(wire, client)')
    BY <2>1, <2>6 DEF WayInv
  <2>11. WayInv'
    BY Zenon, <2>3, <2>7, <2>9, <2>10 DEF WayInv, ReplyKinds
  <2>12. Exchange!Deliver(client)
    BY <2>3, <2>4, <2>5 DEF Exchange!Deliver
  <2> QED
    BY <1>1, <2>11, <2>12 DEF Exchange!Next
<1> QED
  BY <1>2, <1>3

LEMMA TunnellingStep ==
  ASSUME TunnelInv, WayInv, Tunnelling
  PROVE  WayInv' /\ [Exchange!Next]_(Exchange!vars)
<1> DEFINE Goal == WayInv' /\ [Exchange!Next]_(Exchange!vars)
<1>1. /\ wire \in Seq(Frames) /\ OneFrameEach(wire)
      /\ \A i \in DOMAIN back : back[i].call \in Handled
  BY DEF TunnelInv, PipeInv, WayInv
<1>2. 0 \in BodySizes /\ Config.maxBody \in Nat
  BY NoBodyFits DEF TunnelInv
<1>3. ASSUME TunnelEnded, UNCHANGED callVars, handled' = handled PROVE Goal
  BY <1>3, EndedStep DEF callVars
<1>4. ASSUME NEW code \in {"ok", "error"}, Ends(code), UNCHANGED callVars, handled' = handled
      PROVE  Goal
  BY <1>3, <1>4, EndsRules
<1>5. ASSUME NEW reply, reply.kind \in ReplyKinds, reply.body \in BodySizes, Replies(reply)
      PROVE  Goal
  BY <1>5, RepliedStep
<1>6. wire # << >> =>
        /\ OneFrameEach(Tail(wire))
        /\ \A c : Carries(Tail(wire), c) => Carries(wire, c)
        /\ Head(wire).kind = "request" =>
             Carries(wire, Head(wire).call) /\ ~Carries(Tail(wire), Head(wire).call)
  BY <1>1, TakenRules
<1>7. "idle" \notin Calls
  BY TunnelAssumptions
<1>8. ASSUME wire' = Tail(wire), wire # << >>, UNCHANGED <<pc, status, handled, back>>,
             \/ client' = "idle"
             \/ Head(wire).kind = "request" /\ client' = Head(wire).call
      PROVE  Goal
  <2>1. OneFrameEach(wire)' /\ \A c : Carries(wire, c)' <=> Carries(Tail(wire), c)
    BY Zenon, <1>6, <1>8
  <2>2. client' \in Calls => ~Carries(wire, client)'
    BY Zenon, <1>6, <1>7, <1>8, <2>1
  <2>3. \A c \in Calls : OnWay(c)' => OnWay(c)
    BY Zenon, <1>6, <1>7, <1>8, <2>1 DEF OnWay
  <2>4. \A i \in DOMAIN back' : back'[i].call \in Handled
    BY <1>1, <1>8
  <2> QED
    BY Zenon, <1>8, <2>1, <2>2, <2>3, <2>4, StandingStutters, QuietStep
<1> HIDE DEF Goal
<1>9. ASSUME TakeRequest PROVE Goal
  <2>1. wire # << >> /\ Head(wire).kind = "request"
    BY <1>9 DEF TakeRequest, Reads
  <2>2. Head(wire) \in Frames
    BY <1>1, <2>1
  <2>3. Rejection(Head(wire)) = "none"
    BY <2>1, <2>2 DEF Frames
  <2>4. client' = Head(wire).call /\ wire' = Tail(wire) /\ UNCHANGED <<pc, status, handled, back>>
    BY <1>9, <2>3 DEF TakeRequest, callVars
  <2> QED
    BY Zenon, <1>8, <2>1, <2>4
<1>10. ASSUME TakePing PROVE Goal
  <2>1. wire # << >> /\ client = "idle" /\ UNCHANGED callVars /\ handled' = handled
    BY <1>10 DEF TakePing, Reads
  <2>2. CASE link = "up"
    <3>1. client' = "idle" /\ wire' = Tail(wire) /\ UNCHANGED <<pc, status, handled, back>>
      BY <1>10, <2>1, <2>2 DEF TakePing, serveVars, callVars
    <3> QED
      BY Zenon, <1>8, <2>1, <3>1
  <2>3. CASE link # "up"
    BY <1>4, <1>10, <2>1, <2>3 DEF TakePing
  <2> QED
    BY <2>2, <2>3
<1>11. ASSUME TakeClose PROVE Goal
  BY <1>4, <1>11 DEF TakeClose
<1>12. ASSUME StreamEnds PROVE Goal
  BY <1>4, <1>12 DEF StreamEnds
<1>13. ASSUME LocalAnswers PROVE Goal
  <2>1. PICK n \in LocalBodies : Replies(LocalReply(n))
    BY <1>13 DEF LocalAnswers
  <2>2. LocalReply(n).kind \in ReplyKinds /\ LocalReply(n).body \in BodySizes
    <3>1. n \in Nat
      BY RequestsTyped
    <3> QED
      BY <1>2, <3>1 DEF LocalReply, ErrorReply, ReplyKinds, BodySizes
  <2> QED
    BY <1>5, <2>1, <2>2
<1>14. ASSUME LocalTimesOut PROVE Goal
  BY <1>2, <1>5, <1>14 DEF LocalTimesOut, ErrorReply, ReplyKinds
<1>15. ASSUME LocalBreaksOff PROVE Goal
  BY <1>2, <1>5, <1>15 DEF LocalBreaksOff, ErrorReply, ReplyKinds
<1>16. ASSUME Kill PROVE Goal
  BY <1>4, <1>16 DEF Kill
<1> QED
  BY <1>9, <1>10, <1>11, <1>12, <1>13, <1>14, <1>15, <1>16 DEF Tunnelling, Goal

LEMMA WayStarts == Init => WayInv /\ Exchange!Init
<1> SUFFICES ASSUME Init PROVE WayInv /\ Exchange!Init
  OBVIOUS
<1>1. /\ handled = [c \in Calls |-> "none"] /\ pc = [c \in Calls |-> "idle"]
      /\ wire = << >> /\ back = << >> /\ client = "off"
  BY DEF Init
<1>2. Handled = {} /\ Standing = [c \in Calls |-> "idle"]
  BY <1>1 DEF Handled, Standing, Stand
<1>3. OneFrameEach(wire) /\ \A c : ~Carries(wire, c)
  BY Zenon, <1>1, NothingCarried
<1>4. \A c \in Calls : ~OnWay(c)
  BY <1>1, <1>3, TunnelAssumptions DEF OnWay
<1>5. WayInv
  BY <1>1, <1>2, <1>3, <1>4 DEF WayInv
<1> QED
  BY <1>2, <1>5 DEF Exchange!Init

LEMMA WayStep ==
  ASSUME TunnelInv, WayInv, [Next]_vars
  PROVE  WayInv' /\ [Exchange!Next]_(Exchange!vars)
<1>1. ASSUME UNCHANGED <<pc, status, handled, wire, back>>, client' = client \/ client' = "idle"
      PROVE  WayInv' /\ [Exchange!Next]_(Exchange!vars)
  <2>1. "idle" \notin Calls
    BY TunnelAssumptions
  <2>2. /\ OneFrameEach(wire)'
        /\ client' \in Calls => ~Carries(wire, client)'
        /\ \A c \in Calls : OnWay(c)' => OnWay(c)
        /\ \A i \in DOMAIN back' : back'[i].call \in Handled
    BY <1>1, <2>1 DEF WayInv, OnWay, OneFrameEach, Carries
  <2> QED
    BY Zenon, <1>1, <2>2, StandingStutters, QuietStep
<1>2. CASE Starting
  <2>1. UNCHANGED <<pc, status, handled, wire, back>> /\ (client' = client \/ client' = "idle")
    BY <1>2 DEF Starting, Bind, StartWithoutRelay, RejectRelayArgs, Dial, AskTunnel, Welcome,
                RelaySetupFails, callVars, linkVars, serveVars
  <2> QED
    BY <1>1, <2>1
<1>3. CASE Ticking
  BY <1>1, <1>3 DEF Ticking, callVars, linkVars, serveVars
<1>4. CASE UNCHANGED vars
  BY <1>1, <1>4 DEF vars, callVars, linkVars, serveVars
<1> QED
  BY <1>2, <1>3, <1>4, RelayingStep, TunnellingStep DEF Next

LEMMA WayInvariant == Spec => [](TunnelInv /\ WayInv)
<1>1. WayInv /\ TunnelInv /\ [Next]_vars => WayInv'
  BY WayStep
<1> QED
  BY <1>1, WayStarts, TunnelInvariant, PTL DEF Spec

-------------------------------------------------------------------------------
(* Each reply is the one to its call *)

\* The answers that come from the client.
FromClient == {200, 502}

AnswerOf(kind) == RenderReply([kind |-> kind])

\* A reply on its way is the only one to its call, is what the client made of it,
\* and has not been given to the wallet; what was given is what the client made.
ReplyInv ==
  /\ \A i, j \in DOMAIN back : back[i].call = back[j].call => i = j
  /\ \A i \in DOMAIN back :
       back[i].kind = handled[back[i].call] /\ status[back[i].call] \notin FromClient
  /\ \A c \in Calls :
       status[c] \in FromClient => handled[c] # "none" /\ status[c] = AnswerOf(handled[c])

LEMMA WayServedOnce == WayInv /\ ReplyInv => CallsServedOnce
BY DEF WayInv, ReplyInv, CallsServedOnce, OneFrameEach, OnWay, Carries, Waits, Handled, FromClient,
       AnswerOf

LEMMA RepliesAreToCalls ==
  ASSUME TunnelInv
  PROVE  \A i \in DOMAIN back : back[i].call \in Calls
<1>1. \A i \in DOMAIN back : back[i] \in ReplyFrames
  BY DEF TunnelInv, PipeInv
<1> QED
  BY <1>1 DEF ReplyFrames

\* A step in which no reply is made or given keeps that.
LEMMA NoReplyMoves ==
  ASSUME TunnelInv, ReplyInv, handled' = handled, back' = back \/ back' = << >>,
         \A c \in Calls : status'[c] = status[c] \/ status'[c] \notin FromClient
  PROVE  ReplyInv'
<1>1. \A i \in DOMAIN back : back[i].call \in Calls
  BY RepliesAreToCalls
<1>2. \A kind : AnswerOf(kind)' = AnswerOf(kind)
  BY DEF AnswerOf, RenderReply
<1>3. CASE back' = back
  BY <1>1, <1>2, <1>3 DEF ReplyInv
<1>4. CASE back' = << >>
  BY <1>2, <1>4 DEF ReplyInv
<1> QED
  BY <1>3, <1>4

\* The relay gives a call its own reply, and no other.
LEMMA ResolvedReply ==
  ASSUME TunnelInv, WayInv, ReplyInv, Resolve
  PROVE  ReplyInv'
<1> DEFINE reply == Head(back)
           rest == Tail(back)
           d == reply.call
<1>1. /\ back # << >> /\ back' = rest /\ handled' = handled
      /\ pc[d] = "waiting" => Answer(d, RenderReply(reply))
      /\ pc[d] # "waiting" => status' = status
  BY DEF Resolve
<1>2. /\ 1 \in DOMAIN back /\ reply = back[1]
      /\ \A i \in DOMAIN rest : i + 1 \in DOMAIN back /\ i + 1 # 1 /\ rest[i] = back[i + 1] /\ i \in Nat
  BY <1>1 DEF TunnelInv, PipeInv
<1>3. \A i \in DOMAIN back : back[i].call \in Calls
  BY RepliesAreToCalls
<1>4. RenderReply(reply) = AnswerOf(reply.kind)
  BY DEF RenderReply, AnswerOf
<1>5. d \in Calls /\ reply.kind = handled[d] /\ handled[d] # "none"
  BY <1>2, <1>3 DEF WayInv, ReplyInv, Handled
<1>6. \A i \in DOMAIN rest : rest[i].call # d
  BY <1>2 DEF ReplyInv
<1>7. \A c \in Calls : status'[c] = status[c] \/ (c = d /\ status'[c] = AnswerOf(handled[d]))
  BY <1>1, <1>4, <1>5 DEF Answer, TunnelInv, CallInv
<1> HIDE DEF reply, rest, d
<1>8. \A i, j \in DOMAIN rest : rest[i].call = rest[j].call => i = j
  <2> SUFFICES ASSUME NEW i \in DOMAIN rest, NEW j \in DOMAIN rest, rest[i].call = rest[j].call
               PROVE  i = j
    OBVIOUS
  <2>1. i + 1 \in DOMAIN back /\ j + 1 \in DOMAIN back /\ back[i + 1].call = back[j + 1].call
    BY <1>2
  <2>2. i + 1 = j + 1
    BY Zenon, <2>1 DEF ReplyInv
  <2> QED
    BY <1>2, <2>2
<1>9. \A i \in DOMAIN rest :
        rest[i].kind = handled[rest[i].call] /\ status'[rest[i].call] \notin FromClient
  BY <1>2, <1>3, <1>6, <1>7 DEF ReplyInv
<1>10. \A c \in Calls :
         status'[c] \in FromClient => handled[c] # "none" /\ status'[c] = AnswerOf(handled[c])
  BY <1>5, <1>7 DEF ReplyInv
<1>11. \A kind : AnswerOf(kind)' = AnswerOf(kind)
  BY DEF AnswerOf, RenderReply
<1> QED
  BY <1>1, <1>8, <1>9, <1>10, <1>11 DEF ReplyInv

LEMMA RelayingReplies ==
  ASSUME TunnelInv, WayInv, ReplyInv, Relaying
  PROVE  ReplyInv'
<1>1. ASSUME NEW c \in Calls, NEW code, code \notin FromClient, Answer(c, code),
             UNCHANGED <<handled, back>>
      PROVE  ReplyInv'
  <2>1. \A d \in Calls : status'[d] = status[d] \/ status'[d] \notin FromClient
    BY <1>1 DEF Answer, TunnelInv, CallInv
  <2> QED
    BY <1>1, <2>1, NoReplyMoves
<1>2. ASSUME status' = status, handled' = handled, back' = back \/ back' = << >>
      PROVE  ReplyInv'
  BY <1>2, NoReplyMoves
<1>3. ASSUME NEW c \in Calls, NEW r \in Requests, RejectBody(c, r) \/ Arrive(c, r) PROVE ReplyInv'
  BY <1>1, <1>2, <1>3 DEF RejectBody, Arrive, linkVars, FromClient
<1>4. ASSUME NEW c \in Calls, AskForward(c) \/ Forward(c) PROVE ReplyInv'
  BY <1>2, <1>4 DEF AskForward, Forward, linkVars
<1>5. ASSUME NEW c \in Calls, Refuse(c) PROVE ReplyInv'
  <2>1. Screening(c) \notin FromClient
    BY ScreeningCodes DEF FromClient
  <2> QED
    BY <1>1, <1>5, <2>1 DEF Refuse, linkVars
<1>6. ASSUME NEW c \in Calls, TimeOut(c) PROVE ReplyInv'
  BY <1>1, <1>6 DEF TimeOut, linkVars, FromClient
<1>7. CASE Heartbeat \/ Expire \/ RelayCuts
  BY <1>2, <1>7 DEF Heartbeat, Expire, RelayCuts, callVars
<1> QED
  BY <1>3, <1>4, <1>5, <1>6, <1>7, ResolvedReply DEF Relaying

\* The client makes one reply to a call it has not handled.
LEMMA MadeReply ==
  ASSUME TunnelInv, WayInv, ReplyInv, NEW reply, reply.kind \in ReplyKinds, Replies(reply)
  PROVE  ReplyInv'
<1>1. client \in Calls /\ Send(client, reply) /\ status' = status
  BY DEF Replies, callVars
<1>2. CASE link # "up"
  BY <1>1, <1>2, NoReplyMoves DEF Send, Ends
<1>3. CASE link = "up"
  <2> DEFINE frame == [call |-> client, kind |-> reply.kind, body |-> reply.body]
  <2>1. back' = Append(back, frame) /\ handled' = [handled EXCEPT ![client] = reply.kind]
    BY <1>1, <1>3 DEF Send
  <2>2. frame.call = client /\ frame.kind = reply.kind /\ reply.kind # "none"
    BY DEF ReplyKinds
  <2> HIDE DEF frame
  <2>3. /\ \A i \in DOMAIN back' : \/ i \in DOMAIN back /\ back'[i] = back[i]
                                   \/ i = Len(back) + 1 /\ back'[i] = frame
        /\ \A i \in DOMAIN back : back[i].call \in Calls
    <3>1. back \in Seq(ReplyFrames)
      BY DEF TunnelInv, PipeInv
    <3> QED
      BY <2>1, <3>1, RepliesAreToCalls
  <2>4. client \notin Handled /\ \A i \in DOMAIN back : back[i].call # client
    BY <1>1 DEF WayInv, OnWay
  <2>5. \A c \in Calls : handled'[c] = IF c = client THEN reply.kind ELSE handled[c]
    BY <1>1, <2>1 DEF WayInv
  <2>6. status[client] \notin FromClient
    BY <1>1, <2>4 DEF ReplyInv, Handled
  <2>7. \A i, j \in DOMAIN back' : back'[i].call = back'[j].call => i = j
    BY Zenon, <2>2, <2>3, <2>4 DEF ReplyInv
  <2>8. \A i \in DOMAIN back' :
          back'[i].kind = handled'[back'[i].call] /\ status[back'[i].call] \notin FromClient
    BY <1>1, <2>2, <2>3, <2>4, <2>5, <2>6 DEF ReplyInv
  <2>9. \A c \in Calls :
          status[c] \in FromClient => handled'[c] # "none" /\ status[c] = AnswerOf(handled'[c])
    BY <2>5, <2>6 DEF ReplyInv
  <2>10. \A kind : AnswerOf(kind)' = AnswerOf(kind)
    BY DEF AnswerOf, RenderReply
  <2> QED
    BY <1>1, <2>7, <2>8, <2>9, <2>10 DEF ReplyInv
<1> QED
  BY <1>2, <1>3

LEMMA TunnellingReplies ==
  ASSUME TunnelInv, WayInv, ReplyInv, Tunnelling
  PROVE  ReplyInv'
<1>1. ASSUME UNCHANGED callVars, handled' = handled, back' = back \/ back' = << >>
      PROVE  ReplyInv'
  BY <1>1, NoReplyMoves DEF callVars
<1>2. CASE TakeRequest
  <2>1. wire # << >> /\ Head(wire).kind = "request"
    BY <1>2 DEF TakeRequest, Reads
  <2>2. Head(wire) \in Frames
    BY <2>1 DEF TunnelInv, PipeInv
  <2>3. Rejection(Head(wire)) = "none"
    BY <2>1, <2>2 DEF Frames
  <2> QED
    BY <1>1, <1>2, <2>3 DEF TakeRequest
<1>3. CASE TakePing \/ TakeClose \/ StreamEnds \/ Kill
  BY <1>1, <1>3 DEF TakePing, TakeClose, StreamEnds, Kill, Ends
<1>4. CASE LocalAnswers
  BY <1>4, MadeReply DEF LocalAnswers, LocalReply, ErrorReply, ReplyKinds
<1>5. CASE LocalTimesOut \/ LocalBreaksOff
  BY <1>5, MadeReply DEF LocalTimesOut, LocalBreaksOff, ErrorReply, ReplyKinds
<1> QED
  BY <1>2, <1>3, <1>4, <1>5 DEF Tunnelling

LEMMA RepliesStep ==
  ASSUME TunnelInv, WayInv, ReplyInv, [Next]_vars
  PROVE  ReplyInv'
<1>1. CASE Starting
  BY <1>1, NoReplyMoves
  DEF Starting, Bind, StartWithoutRelay, RejectRelayArgs, Dial, AskTunnel, Welcome, RelaySetupFails,
      callVars, linkVars
<1>2. CASE Ticking \/ UNCHANGED vars
  BY <1>2, NoReplyMoves DEF Ticking, vars, callVars, linkVars
<1> QED
  BY <1>1, <1>2, RelayingReplies, TunnellingReplies DEF Next

LEMMA RepliesStart == Init => ReplyInv
BY DEF Init, ReplyInv, FromClient

-------------------------------------------------------------------------------
(* Theorems *)

\* Every reachable state has its types: the life of the relay's run is within
\* the relay's bounds, and the program ends exactly with its tunnel.
THEOREM TunnelTyped == Spec => []TypeOK
BY TunnelInvariant, InvTyped, PTL

\* Whatever the options, the environment and the failures of the start, what
\* `serve` gives out is where it is reached: its listener is on loopback when a
\* relay was asked for, the relay's URL is given out only while the tunnel
\* runs, and a relay open to the network has only runs of its own tokens.
THEOREM ServeIsStartedAsConfigured == Spec => []StartedAsConfigured
BY TunnelInvariant, InvStarted, PTL

\* No forwarded request is refused by the client's own rules, and no reply is
\* too large for the relay's socket, for every body limit and wrapping.
THEOREM NoEndRefusesTheOther == Spec => []EachEndTakesTheOthers
BY TunnelInvariant, InvPipe, PTL

\* The rate limiter turns nobody away whose address was below its limit.
THEOREM DeniedIsOverQuota == Spec => []DeniedOnlyOverQuota
BY TunnelInvariant, QuotaStarts, QuotaStep, QuotaMeans, PTL DEF Spec

\* Whichever end stops, cuts the socket or times out, the client handles no call
\* twice, and its reply to a call is given to that call's wallet and no other.
THEOREM CallsAreServedOnce == Spec => []CallsServedOnce
<1>1. TunnelInv /\ WayInv /\ ReplyInv /\ [Next]_vars => ReplyInv'
  BY RepliesStep
<1> QED
  BY <1>1, RepliesStart, WayInvariant, WayServedOnce, PTL DEF Spec

\* End to end a wallet's call goes the way WalletExchange allows, whichever end
\* stops, cuts the socket or times out: no more calls hold a slot than the relay
\* admits, a refused call never reaches the client, and a call gets an answer of the
\* client only while it holds its slot and once the client has handled it.
THEOREM TunnelImplementsExchange == Spec => Exchange!Spec
<1>1. TunnelInv /\ WayInv /\ [Next]_vars => [Exchange!Next]_(Exchange!vars)
  BY WayStep
<1>2. Init => Exchange!Init
  BY WayStarts
<1> QED
  BY <1>1, <1>2, WayInvariant, PTL DEF Spec, Exchange!Spec
===============================================================================
