-------------------------------- MODULE Tunnel --------------------------------
(***************************************************************************)
(* `serve` behind a relay, end to end: the start of both programs, the     *)
(* tunnel's handshake, the relay's front door with its rate limiter, the   *)
(* frames on the WebSocket, and the client's loop, which handles one frame *)
(* after the other and fetches each forwarded request from the local       *)
(* server.  What happens inside one run of the relay is RelayForward's     *)
(* subject: here a forward is screened and queued in one step.             *)
(***************************************************************************)
EXTENDS RelayConfig, RateLimiter, SequencesExt

CONSTANTS
  Calls,         \* requests of wallets
  Serve,         \* the operator's `augenmass serve`, one more asker
  From,          \* the address each asker comes from
  Environments,  \* environments the relay may be started in
  Arguments,     \* arguments `serve` may be started with
  Requests,      \* requests a wallet may send
  LocalBodies,   \* sizes of the bodies the local server may answer
  Wrapping,      \* bytes of a client frame besides the body
  MaxInflight, MaxTunnelCreates, MaxForwards,  \* the relay's limits
  MaxPings,      \* bound on the heartbeats of a behaviour
  NoRequest

Sizes == Nat \cup {Unset}

ASSUME TunnelAssumptions ==
  /\ Askers = Calls \cup {Serve} /\ Serve \notin Calls /\ IsFiniteSet(Calls)
  /\ Calls \cap {"off", "idle", "ended"} = {}
  /\ Wrapping \in 0..OverheadBytes - 2
  /\ MaxInflight \in Nat /\ MaxTunnelCreates \in Nat /\ MaxForwards \in Nat /\ MaxPings \in Nat

ASSUME EnvironmentsTyped ==
  Environments \subseteq
    [bind : {"loopback", "any"}, tokens : SUBSET STRING,
     base : {Unset, "http", "https", "other"}, bodyLimit : Sizes, ttl : Sizes]

\* A --public-url is the operator's own, and never one of the relay's.
ASSUME ArgumentsTyped ==
  Arguments \subseteq
    [relay : {"none", "hosted", "custom", "ftp url"}, token : STRING, optional : BOOLEAN,
     host : {"loopback", "any"}, ttl : Sizes,
     public : [host : STRING \ {"relay"}, path : Seq(STRING), slash : BOOLEAN]]

ASSUME RequestsTyped ==
  /\ Requests \subseteq [session : {"valid", "malformed"}, query : {"short", "too long"},
                         headers : {"fine", "unreadable", "too large"}, body : Nat]
  /\ LocalBodies \subseteq Nat

VARIABLES
  env,         \* the relay's environment
  args,        \* the arguments of `serve`
  boot,        \* where `serve` stands
  bound,       \* the address its listener is bound to
  advertised,  \* AppState::public_url
  ttl,         \* the life the run was given
  run,         \* the relay's run of this tunnel
  link,        \* the WebSocket between them
  wire, back,  \* the frames on it, to the client and to the relay
  client,      \* run_tunnel: off, idle, the call it fetches, ended
  pings,       \* heartbeats sent
  pc, request, status,  \* each wallet's call, and what it was answered
  handled      \* the kind of the client's reply to each call

serveVars == <<args, boot, bound, advertised, client>>
relayVars == <<env, ttl, run, pings>>
linkVars == <<link, wire, back>>
callVars == <<pc, request, status>>
vars == <<limiterVars, serveVars, relayVars, linkVars, callVars, handled>>

Config == FromEnv(env)

-------------------------------------------------------------------------------
(* URLs *)

NoUrl == [host |-> "none", path |-> << >>, slash |-> TRUE]
OperatorUrl == [host |-> "operator", path |-> << >>, slash |-> TRUE]
RunUrl == [host |-> "relay", path |-> <<"r", "run">>, slash |-> TRUE]

\* Url::join drops what follows the base's last slash.
Join(base, route) == (IF base.slash THEN base.path ELSE Front(base.path)) \o route

NormalizeBaseUrl(url) == [url EXCEPT !.slash = TRUE]

\* The program that answers a path of the relay's host, and the call it is.
RelayRoute(path) ==
  IF Len(path) = 4 /\ path[1] = "r" /\ path[3] \in {"request", "response"}
  THEN SubSeq(path, 3, 4) ELSE << >>

-------------------------------------------------------------------------------
(* Starting *)

Init ==
  /\ LimiterInit
  /\ env \in Environments /\ args \in Arguments
  /\ boot = "start" /\ bound = "none" /\ advertised = NoUrl /\ client = "off"
  /\ ttl = 0 /\ run = "none" /\ pings = 0
  /\ link = "none" /\ wire = << >> /\ back = << >>
  /\ pc = [c \in Calls |-> "idle"]
  /\ request = [c \in Calls |-> NoRequest]
  /\ status = [c \in Calls |-> 0]
  /\ handled = [c \in Calls |-> "none"]

\* With a relay the local server is for this machine only.
BindHost == IF args.relay = "none" THEN args.host ELSE "loopback"

Exit(code) == boot' = code

Bind ==
  /\ boot = "start"
  /\ \/ bound' = BindHost /\ boot' = "bound"
     \/ Exit("error") /\ UNCHANGED bound
  /\ UNCHANGED <<limiterVars, args, advertised, client, relayVars, linkVars, callVars, handled>>

ServeAt(url) == advertised' = url /\ boot' = "serving"

StartWithoutRelay ==
  /\ boot = "bound" /\ args.relay = "none"
  /\ ServeAt(NormalizeBaseUrl(args.public))
  /\ UNCHANGED <<limiterVars, args, bound, client, relayVars, linkVars, callVars, handled>>

\* These fail whether or not a local fallback was asked for.
BadRelayArgs == args.relay = "ftp url" \/ (args.relay = "hosted" /\ args.token = "none")

RejectRelayArgs ==
  /\ boot = "bound" /\ BadRelayArgs
  /\ Exit("error")
  /\ UNCHANGED <<limiterVars, args, bound, advertised, client, relayVars, linkVars, callVars,
                 handled>>

\* The upgrade request reaches a relay that runs.
Dial ==
  /\ boot = "bound" /\ args.relay # "none" /\ ~BadRelayArgs
  /\ RelayStarts(env)
  /\ boot' = "dialing"
  /\ Sample(Serve)
  /\ UNCHANGED <<args, bound, advertised, client, relayVars, linkVars, callVars, handled>>

AskTunnel ==
  /\ boot = "dialing" /\ ruled[Serve].answer = "none"
  /\ Allow(Serve, RateKey(From[Serve], "tunnel create"), MaxTunnelCreates)
  /\ UNCHANGED <<serveVars, relayVars, linkVars, callVars, handled>>

Authorized == Config.tokens = {} \/ args.token \in Config.tokens

\* hello and welcome: a run is minted and the client adopts its URL.
Welcome ==
  /\ boot = "dialing" /\ ruled[Serve].answer = "allowed" /\ Authorized
  /\ run' = "active" /\ ttl' = ClampRequestedTtl(Config, args.ttl)
  /\ link' = "up"
  /\ client' = "idle"
  /\ ServeAt(NormalizeBaseUrl(RunUrl))
  /\ UNCHANGED <<limiterVars, args, bound, env, pings, wire, back, callVars, handled>>

\* No relay there, too many requests, no token of its, no room, no network.
RelaySetupFails ==
  /\ \/ boot = "bound" /\ args.relay # "none" /\ ~BadRelayArgs
     \/ boot = "dialing"
  /\ \/ args.optional /\ ServeAt(OperatorUrl)
     \/ ~args.optional /\ Exit("error") /\ UNCHANGED advertised
  /\ UNCHANGED <<limiterVars, args, bound, client, relayVars, linkVars, callVars, handled>>

Starting ==
  Bind \/ StartWithoutRelay \/ RejectRelayArgs \/ Dial \/ AskTunnel \/ Welcome \/ RelaySetupFails

-------------------------------------------------------------------------------
(* The relay's front door *)

Answer(c, code) ==
  /\ pc' = [pc EXCEPT ![c] = "done"]
  /\ status' = [status EXCEPT ![c] = code]

Reachable(c) == pc[c] = "idle" /\ boot = "serving" /\ advertised.host = "relay"

\* The body limit of the router, before the handler runs.
RejectBody(c, r) ==
  /\ Reachable(c) /\ r.body > Config.maxBody
  /\ Answer(c, 413)
  /\ UNCHANGED <<limiterVars, serveVars, relayVars, linkVars, request, handled>>

Arrive(c, r) ==
  /\ Reachable(c) /\ r.body <= Config.maxBody
  /\ pc' = [pc EXCEPT ![c] = "asking"]
  /\ request' = [request EXCEPT ![c] = r]
  /\ Sample(c)
  /\ UNCHANGED <<serveVars, relayVars, linkVars, status, handled>>

AskForward(c) ==
  /\ pc[c] = "asking"
  /\ Allow(c, RateKey(From[c], "wallet forward"), MaxForwards)
  /\ pc' = [pc EXCEPT ![c] = "asked"]
  /\ UNCHANGED <<serveVars, relayVars, linkVars, request, status, handled>>

ValidSessionSegment(s) == s = "valid"

InFlight == {c \in Calls : pc[c] = "waiting"}

HeadersRefusal(headers) ==
  IF headers = "unreadable" THEN 400 ELSE IF headers = "too large" THEN 431 ELSE 0

\* The first thing wrong with a call, in the order of the code; 0 if none.
Screening(c) ==
  LET r == request[c] IN
  IF ruled[c].answer = "denied" THEN 429
  ELSE IF ~ValidSessionSegment(r.session) THEN 400
  ELSE IF r.query = "too long" THEN 414
  ELSE IF r.body > Config.maxBody THEN 413
  ELSE IF run # "active" THEN 410
  ELSE IF Cardinality(InFlight) >= MaxInflight THEN 429
  ELSE HeadersRefusal(r.headers)

Refuse(c) ==
  /\ pc[c] = "asked" /\ Screening(c) # 0
  /\ Answer(c, Screening(c))
  /\ request' = [request EXCEPT ![c] = NoRequest]
  /\ UNCHANGED <<limiterVars, serveVars, relayVars, linkVars, handled>>

RequestFrame(c, r) ==
  [kind |-> "request", call |-> c, session |-> r.session, body |-> r.body]

\* The frame waits for the client, or is lost with the connection.
Forward(c) ==
  /\ pc[c] = "asked" /\ Screening(c) = 0
  /\ pc' = [pc EXCEPT ![c] = "waiting"]
  /\ request' = [request EXCEPT ![c] = NoRequest]
  /\ wire' = IF link = "up" THEN Append(wire, RequestFrame(c, request[c])) ELSE wire
  /\ UNCHANGED <<limiterVars, serveVars, relayVars, link, back, status, handled>>

TimeOut(c) ==
  /\ pc[c] = "waiting"
  /\ Answer(c, 504)
  /\ UNCHANGED <<limiterVars, serveVars, relayVars, linkVars, request, handled>>

RenderReply(reply) == IF reply.kind = "response" THEN 200 ELSE 502

FrameBytes(reply) == Wrapping + Encoded(reply.body)

\* Mutant: a reply is for whichever call waits, not the one it names.
Resolve_AnyWaiting ==
  /\ link = "up" /\ back # << >>
  /\ FrameBytes(Head(back)) <= WsMessageLimit(Config.maxBody)
  /\ back' = Tail(back)
  /\ \/ \E c \in InFlight : Answer(c, RenderReply(Head(back)))
     \/ InFlight = {} /\ UNCHANGED <<pc, status>>
  /\ UNCHANGED <<limiterVars, serveVars, relayVars, link, wire, request, handled>>

\* The relay reads a reply; a call that no longer waits leaves it unresolved.
Resolve ==
  /\ link = "up" /\ back # << >>
  /\ FrameBytes(Head(back)) <= WsMessageLimit(Config.maxBody)
  /\ back' = Tail(back)
  /\ LET c == Head(back).call IN
     IF pc[c] = "waiting" THEN Answer(c, RenderReply(Head(back))) ELSE UNCHANGED <<pc, status>>
  /\ UNCHANGED <<limiterVars, serveVars, relayVars, link, wire, request, handled>>

Heartbeat ==
  /\ link = "up" /\ pings < MaxPings
  /\ pings' = pings + 1
  /\ wire' = Append(wire, [kind |-> "ping"])
  /\ UNCHANGED <<limiterVars, serveVars, env, ttl, run, link, back, callVars, handled>>

CloseFrame(code) == [kind |-> "close", code |-> code]

\* The sweeper ends a run whose time is over; the Close may not fit the channel.
Expire ==
  /\ run = "active"
  /\ run' = "gone"
  /\ wire' \in IF link = "up" THEN {wire, Append(wire, CloseFrame("expired"))} ELSE {wire}
  /\ UNCHANGED <<limiterVars, serveVars, env, ttl, pings, link, back, callVars, handled>>

\* The relay stops, misses its pong or reads a frame too large (and may still
\* say so), or the connection is lost with what was on it.
RelayCuts ==
  /\ link = "up" \/ (run = "active" /\ link = "cut")
  /\ link' = "cut" /\ run' = "gone" /\ back' = << >>
  /\ wire' \in {wire, << >>, Append(wire, CloseFrame("protocol error"))}
  /\ UNCHANGED <<limiterVars, serveVars, env, ttl, pings, callVars, handled>>

Relaying ==
  \/ Resolve \/ Heartbeat \/ Expire \/ RelayCuts
  \/ \E c \in Calls :
       \/ \E r \in Requests : RejectBody(c, r) \/ Arrive(c, r)
       \/ AskForward(c) \/ Refuse(c) \/ Forward(c) \/ TimeOut(c)

-------------------------------------------------------------------------------
(* run_tunnel *)

\* Either arm of the select ends the program.
Ends(code) ==
  /\ client' = "ended" /\ Exit(code)
  /\ link' = "cut" /\ back' = << >> /\ wire' = << >>
  /\ UNCHANGED <<args, bound, advertised>>

\* The reply is sent, or the send fails and the tunnel ends with it.
Send(c, reply) ==
  IF link = "up"
  THEN /\ client' = "idle"
       /\ back' = Append(back, [call |-> c, kind |-> reply.kind, body |-> reply.body])
       /\ handled' = [handled EXCEPT ![c] = reply.kind]
       /\ UNCHANGED <<args, boot, bound, advertised, link>>
  ELSE Ends("error") /\ UNCHANGED handled

ErrorReply(kind) == [kind |-> kind, body |-> 0]

\* What the client itself finds wrong with a forwarded request.
Rejection(r) ==
  IF r.body > Config.maxBody THEN "BodyTooLarge"
  ELSE IF ~ValidSessionSegment(r.session) THEN "ProtocolError"
  ELSE "none"

Reads(kind) == client = "idle" /\ wire # << >> /\ Head(wire).kind = kind

TakeRequest ==
  /\ Reads("request")
  /\ LET r == Head(wire) IN
     \/ /\ Rejection(r) = "none"
        /\ client' = r.call
        /\ wire' = Tail(wire)
        /\ UNCHANGED <<args, boot, bound, advertised, link, back, handled>>
     \/ /\ Rejection(r) # "none"
        /\ Send(r.call, ErrorReply(Rejection(r)))
        /\ link = "up" => wire' = Tail(wire)
  /\ UNCHANGED <<limiterVars, relayVars, callVars>>

TakePing ==
  /\ Reads("ping")
  /\ IF link = "up"
     THEN wire' = Tail(wire) /\ UNCHANGED <<serveVars, link, back>>
     ELSE Ends("error")
  /\ UNCHANGED <<limiterVars, relayVars, callVars, handled>>

\* A run that is over ends `serve` too, and is no error.
TakeClose ==
  /\ Reads("close")
  /\ Ends(IF Head(wire).code = "expired" THEN "ok" ELSE "error")
  /\ UNCHANGED <<limiterVars, relayVars, callVars, handled>>

StreamEnds ==
  /\ client = "idle" /\ link = "cut" /\ wire = << >>
  /\ \E code \in {"ok", "error"} : Ends(code)
  /\ UNCHANGED <<limiterVars, relayVars, callVars, handled>>

LocalReply(bytes) ==
  IF bytes > Config.maxBody THEN ErrorReply("BodyTooLarge")
  ELSE [kind |-> "response", body |-> bytes]

Replies(reply) ==
  /\ client \in Calls
  /\ Send(client, reply)
  /\ link = "up" => UNCHANGED wire
  /\ UNCHANGED <<limiterVars, relayVars, callVars>>

LocalAnswers == \E n \in LocalBodies : Replies(LocalReply(n))

\* A plausible bug, for mutation.
LocalTimesOut_Never == FALSE

\* No connection, or no answer before the client's timeout.
LocalTimesOut == Replies(ErrorReply("LocalUnavailable"))

LocalBreaksOff == Replies(ErrorReply("BadLocalResponse"))

\* The operator's process is stopped at any point of its life.
Kill ==
  /\ client \notin {"off", "ended"}
  /\ Ends("error")
  /\ UNCHANGED <<limiterVars, relayVars, callVars, handled>>

Tunnelling ==
  TakeRequest \/ TakePing \/ TakeClose \/ StreamEnds \/ LocalAnswers \/ LocalTimesOut
    \/ LocalBreaksOff \/ Kill

Ticking ==
  /\ PassTime
  /\ UNCHANGED <<serveVars, relayVars, linkVars, callVars, handled>>

Next == Starting \/ Relaying \/ Tunnelling \/ Ticking

Spec == Init /\ [][Next]_vars

\* The client's task is scheduled while a frame waits, and its own timer ends
\* a local request; nothing is assumed of the network, the relay or the server.
FairSpec ==
  /\ Spec
  /\ WF_vars(TakeRequest) /\ WF_vars(TakePing) /\ WF_vars(TakeClose)
  /\ WF_vars(LocalTimesOut)

-------------------------------------------------------------------------------
(* Properties *)

\* Every part has its type: the run's time is within the relay's bounds and
\* the program has ended exactly when its tunnel, if it had one, has.
TypeOK ==
  /\ LimiterTypeOK
  /\ boot \in {"start", "bound", "dialing", "serving", "ok", "error"}
  /\ bound \in {"none", "loopback", "any"}
  /\ run \in {"none", "active", "gone"} /\ link \in {"none", "up", "cut"}
  /\ client \in {"off", "idle", "ended"} \cup Calls
  /\ env \in Environments /\ args \in Arguments
  /\ pc \in [Calls -> {"idle", "asking", "asked", "waiting", "done"}]
  /\ request \in [Calls -> Requests \cup {NoRequest}]
  /\ client = "ended" => boot \in {"ok", "error"}
  /\ run = "none" \/ ttl \in 1..HardMaxTtl
  /\ \A c \in Calls : pc[c] = "done" <=> status[c] # 0

WalletPath(route) == Join(advertised, <<route, "session">>)

\* What `serve` tells wallets is where it is reached: with a relay asked for,
\* its own listener is on loopback only, whatever came of the relay; it gives
\* out the relay's URL only while it runs the tunnel, the paths wallets build
\* from it are ones the relay forwards, and a --public-url keeps its path.  And
\* a relay that listens beyond loopback has no run but with one of its tokens.
StartedAsConfigured ==
  /\ run # "none" /\ env.bind = "any" => args.token \in env.tokens \ {"blank"}
  /\ boot = "serving" =>
       /\ args.relay # "none" => bound = "loopback"
       /\ advertised.host = "relay" <=> client \notin {"off", "ended"}
       /\ \A route \in {"request", "response"} :
            IF advertised.host = "relay"
            THEN RelayRoute(WalletPath(route)) = <<route, "session">>
            ELSE args.relay = "none" => IsPrefix(args.public.path, WalletPath(route))

\* What one end puts into the tunnel the other takes, though each has rules of
\* its own: the client refuses no forwarded request, and no reply of the local
\* server, whatever body limit the relay was configured with, is too large for
\* the relay's socket and ends the tunnel.
EachEndTakesTheOthers ==
  /\ \A i \in DOMAIN wire :
       wire[i].kind = "request" => Rejection(wire[i]) = "none"
  /\ \A i \in DOMAIN back : FrameBytes(back[i]) <= WsMessageLimit(Config.maxBody)

BucketOf(a) == IF a = Serve THEN "tunnel create" ELSE "wallet forward"
LimitOf(a) == IF a = Serve THEN MaxTunnelCreates ELSE MaxForwards

\* Who is turned away was not alone: within the window before it looked at the
\* clock, its address had all the requests of that kind it may have, whatever
\* the order in which callers got the mutex.
DeniedOnlyOverQuota ==
  \A a \in Askers : ruled[a].answer = "denied" =>
    Cardinality({b \in Askers :
      /\ From[b] = From[a] /\ BucketOf(b) = BucketOf(a)
      /\ ruled[b].answer = "allowed"
      /\ ruled[b].at + Window > sampled[a]}) >= LimitOf(a)

Waits(c) == \E i \in DOMAIN wire : wire[i].kind = "request" /\ wire[i].call = c

\* The local server sees a call once and its reply goes to that call alone,
\* though calls time out while they are on their way and others follow: a call
\* is on the wire in one frame, or at the client, or handled; and there is one
\* reply to a handled call, which is still under way or was its wallet's answer.
CallsServedOnce ==
  /\ \A i, j \in DOMAIN wire :
       wire[i].kind = "request" /\ wire[j].kind = "request" /\ wire[i].call = wire[j].call => i = j
  /\ \A c \in Calls :
       /\ client = c => handled[c] = "none" /\ ~Waits(c)
       /\ handled[c] # "none" => ~Waits(c)
       /\ status[c] \in {200, 502} =>
            handled[c] # "none" /\ status[c] = RenderReply([kind |-> handled[c]])
  /\ \A i, j \in DOMAIN back : back[i].call = back[j].call => i = j
  /\ \A i \in DOMAIN back :
       back[i].kind = handled[back[i].call] /\ status[back[i].call] \notin {200, 502}

\* A request that reached the socket is handled, though the local server may
\* hang on those before it, or the tunnel ends.
RequestsHandled ==
  \A c \in Calls :
    Waits(c) ~> (handled[c] # "none" \/ link = "cut")
===============================================================================
