------------------------------ MODULE RelayConfig -----------------------------
(***************************************************************************)
(* The relay's configuration: what it makes of its environment, and the    *)
(* message sizes the two ends of a tunnel agree on.  A value of the        *)
(* environment that is unset is Unset; a TCP address is reduced to         *)
(* "loopback" or "any", a base URL to the form of it that is tested.       *)
(***************************************************************************)
EXTENDS Naturals, FiniteSetsExt

CONSTANT Unset

OverheadBytes == 16 * 1024
HardCap == 2 * 1024 * 1024
DefaultBodyLimit == 1024 * 1024
DefaultTtl == 600
HardMaxTtl == 720

Least(a, b) == Min({a, b})
Clamp(n, low, high) == Max({low, Least(n, high)})
Or(value, default) == IF value = Unset THEN default ELSE value
CeilDiv(a, b) == (a + b - 1) \div b

\* Bytes of a body in base64, padding included.
Encoded(bytes) == 4 * CeilDiv(bytes, 3)

WsMessageLimit(maxBody) == Least(CeilDiv(4 * maxBody, 3) + OverheadBytes, HardCap)

MaxBodyForWsCap == ((HardCap - OverheadBytes) * 3) \div 4

-------------------------------------------------------------------------------

\* Blank entries of the comma-separated list are dropped.
AuthTokens(env) == env.tokens \ {"blank"}

BaseOk(env) == env.base \in {Unset, "http", "https"}

\* A plausible bug, for mutation.
BodyLimit_Uncapped(env) == Or(env.bodyLimit, DefaultBodyLimit)

BodyLimit(env) == Least(Or(env.bodyLimit, DefaultBodyLimit), MaxBodyForWsCap)

\* A plausible bug, for mutation.
PublicBindOk_BaseOnly(env) == env.bind = "loopback" \/ env.base # Unset

PublicBindOk(env) ==
  env.bind = "loopback" \/ (AuthTokens(env) # {} /\ env.base # Unset)

FromEnvOk(env) == BaseOk(env) /\ PublicBindOk(env)

FromEnv(env) ==
  [bind |-> env.bind,
   tokens |-> AuthTokens(env),
   base |-> env.base,
   maxBody |-> BodyLimit(env),
   runTtl |-> Clamp(Or(env.ttl, DefaultTtl), 1, HardMaxTtl)]

\* The base the relay gives to its clients; none is an error of its start.
PublicBaseFor(config) ==
  IF config.base # Unset THEN config.base
  ELSE IF config.bind = "loopback" THEN "http" ELSE Unset

\* A plausible bug, for mutation.
ClampRequestedTtl_OnlyMin(config, requested) ==
  Least(Or(requested, config.runTtl), config.runTtl)

ClampRequestedTtl(config, requested) ==
  Clamp(Least(Or(requested, config.runTtl), config.runTtl), 1, HardMaxTtl)

RelayStarts(env) == FromEnvOk(env) /\ PublicBaseFor(FromEnv(env)) # Unset
===============================================================================
