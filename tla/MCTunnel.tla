-------------------------------- MODULE MCTunnel ------------------------------
EXTENDS Tunnel

CONSTANTS c1, c2, serve

MCAskers == {c1, c2, serve}

\* One household: the phones and the operator share an address.
MCFrom == [a \in MCAskers |-> "home"]

Relay(bind, tokens, base, limit) ==
  [bind |-> bind, tokens |-> tokens, base |-> base, bodyLimit |-> limit, ttl |-> Unset]

MCEnvironments ==
  {Relay("loopback", {}, Unset, Unset),
   Relay("any", {"blank", "mine"}, "https", 2000000),
   Relay("any", {"blank"}, "https", Unset)}

Plain == [host |-> "operator", path |-> << >>, slash |-> TRUE]

Args(relay, token, optional, host, public) ==
  [relay |-> relay, token |-> token, optional |-> optional, host |-> host,
   public |-> public, ttl |-> 0]

MCArguments ==
  {Args("none", "none", FALSE, "any",
        [host |-> "lan", path |-> <<"verifier">>, slash |-> FALSE]),
   Args("hosted", "none", TRUE, "loopback", Plain),
   Args("hosted", "mine", TRUE, "any", Plain),
   Args("custom", "stale", FALSE, "any", Plain),
   Args("ftp url", "mine", FALSE, "loopback", Plain)}

Request(session, query, headers, body) ==
  [session |-> session, query |-> query, headers |-> headers, body |-> body]

MCRequests ==
  {Request("valid", "short", "fine", 0),
   Request("valid", "short", "fine", MaxBodyForWsCap),
   Request("malformed", "short", "fine", 0),
   Request("valid", "short", "too large", 0)}

MCLocalBodies == {DefaultBodyLimit, MaxBodyForWsCap, MaxBodyForWsCap + 1}
===============================================================================
