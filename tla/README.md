# Verification of augenmass-workbench

TLA+ models of `augenmass-workbench`, the TLC runs that check them on small
instances, and TLAPS proofs of what matters most for every value of their
constants. The models are translated from the code; the documents only serve as
the other side of a disagreement.

## 1. The system

`augenmass` is a toolkit for the EUDI Wallet ecosystem. Most of its commands are
sequential: they read an artifact, decide, print. Four parts are servers, where
the concurrency is. The commands are hard in another way: several of them decide
the same question with code of their own, and must agree.

| Part | State | Operations | Interacts with |
| --- | --- | --- | --- |
| **Relay, one run** (`crates/augenmass-relay/src/forward.rs`, `tunnel.rs`, `registry.rs`) | in-flight counter, request-id counter, pending map of oneshot senders, bounded frame channel, time of the last pong | forward a wallet request; writer task (frames, pings, pong timeout); reader task (replies, pongs); the handler that joins them | wallets over HTTP, one operator over a WebSocket, the registry |
| **Relay, registry** (`registry.rs`, `main.rs`) | map of runs, queue of tombstones, a mutex each | mint, lookup, remove, sweep of expired runs, eviction of tombstones | tunnel handlers, wallet handlers, a periodic sweeper |
| **Relay, rate limiter** (`ratelimit.rs`) | a window per address and bucket, in a bounded map | allow | tunnel and wallet handlers |
| **Relay, configuration and frames** (`config.rs`, `routes.rs`, `relay-proto`) | none | what the environment makes of limits, tokens, bind and lifetimes; how large a frame may be | both ends of the tunnel |
| **Serve, sessions** (`src/serve/handlers.rs`, `state.rs`, `trace.rs`, `view.rs`) | response-encryption keys, results, trace events, request objects | create a request, serve it, receive a response, decrypt, verify each presentation, check status, record over-asking, show the trace | wallets, the operator's browser, status-list servers, the artifact directory |
| **Serve, debug artifacts** (`src/serve/artifacts.rs`) | files and a manifest | write under a unique name, append to the manifest | every handler |
| **Serve, start-up and relay client** (`src/serve/mod.rs`, `relay_client.rs`) | the listener, the advertised URL, one tunnel | bind, ask for a tunnel or fall back, fetch each forwarded request from the local router one after the other, answer heartbeats, end with the run | the relay, the local router |
| **Cache server** (`src/cache_server.rs`) | SQLite table of responses, set of keys in flight | read through, wait for another's fetch, forced refresh, store and evict | readers, the upstream registrar |
| **Clone server** (`src/clone_server.rs`) | the registrations, in order | create, list | `register`, `list` |
| **Registrar commands** (`checkbody.rs`, `commands/register.rs`, `http_target.rs`) | none of their own | gate a body, ask for a token, post, read back | the clone, the sandbox registrar |
| **Evidence** (`commands/evidence.rs`) | none | export a session's artifacts, check, replay, assert live, prove trust and status | the artifact directory, status lists |
| **Core verification** (`crates/augenmass-core/src`) | none | verify a presentation, status lists, trust chains, request objects, registration certificates, over-ask inspection | serve and the commands |
| **Other commands and helpers** (`src/commands`, `src/artifact.rs`, `src/mdoc.rs`, ...) | none | verify, validate, audit, generate, inspect, decode, ... | files |

What makes the servers hard:

* **Interleaving of tasks.** Handlers run on a multi-threaded runtime; a step
  between two awaits, atomics or short critical sections is all that is atomic.
  The in-flight counter of a run is a compare-exchange loop; the registry has
  two mutexes that one operation takes in turn; the session key, the session
  result and the trace are read and written far apart; the cache decides on a row
  it loaded before it took the in-flight guard.
* **Cancellation.** A client that disconnects drops its handler at an await. What
  a `Drop` implementation gives back is given back, what the code does after the
  await is not done.
* **Bounded queues and maps.** A run's channel holds 64 frames and a Close frame
  is put in with `try_send`; the registry, the tombstones and the cache table
  have limits.
* **Time.** Requests time out as replies arrive, runs expire while they are
  looked up, pongs age, cache rows go stale, waits give up.
* **Two ways to one verdict.** `serve` verifies a response, evidence is verified
  again from saved artifacts, `verify` has its own order of trust and status, the
  gate of `register` and the audit of a certificate read a body each its own way,
  and each end of a tunnel has its own idea of what is too large.
* **Partial failure.** Artifacts are written one after another and each write may
  fail; a manifest is truncated before it is written; a registrar's answer is lost
  after it stored; a relay is asked after the listener is bound.
* **Crash.** The cache's table outlives the process and its in-flight set does
  not, and a store is two statements.

## 2. Modules

| Module | Models | Its state and actions in the code |
| --- | --- | --- |
| `WalletExchange` | what a run promises: a request is refused or takes one of `MaxInflight` slots, is delivered at most once, and is replied to only after it was delivered | abstract; `RelayForward` and `Tunnel` implement it |
| `RelayForward` | one run of the relay | `pc[f]` is the handler `forward_wallet_route_inner` of one wallet, one action per await or atomic; `inflight`, `pending`, `chan` are the fields of `Run`; `writer` and `reader` are `writer_loop` and `reader_loop`, `tunnel` is `handle_socket`; `HangUp` drops a handler at an await |
| `RunLife` | what the registry promises: a run is minted while there is room, lives, leaves, is buried and is forgotten, and a lookup says what is true when it ends | abstract; `RelayRegistry` implements it |
| `RelayRegistry` | the registry of runs | `runs` and `tombs` are the two maps, an action is one critical section; `lock` is the guard that `lookup` keeps over an await; `spc`, `tpc`, `wpc` are the sweeper, the tunnel handlers and the lookups |
| `RelayConfig` | `from_env`, the run lifetime, the sizes of bodies and messages | operators of an environment, with the code's numbers |
| `RateLimiter` | `RateLimiter::allow` | `Sample` reads the clock, `Allow` is what happens under the mutex; `entries` is the map |
| `Tunnel` | `serve` behind a relay, composed of the two above, the start of both programs, the relay's front door and the client's loop | `boot`, `bound`, `advertised` are `serve::run`; `run`, `link`, `wire`, `back` the relay's run and the WebSocket; `client` is `run_tunnel`; `pc[c]` a wallet's call in the relay |
| `SessionKey` | what `serve` promises of a session's key: minted once, opens bodies while it is held, spent before anybody is told an outcome | abstract; `ServeSession` implements it |
| `ServeSession` | the sessions of `serve` | `keys`, `results`, `trace` are the maps behind the async mutexes; `pc[p]` is `receive_response` with `verify_any` and `verify_vp_token`; `page` is what the operator's browser shows |
| `ReadThrough` | what the cache promises: one fetch of a key at a time, answers that are fresh enough or just fetched, a table with the youngest rows that fit, rows never replaced by older ones | abstract; `CacheServer` implements it |
| `CacheServer` | the cache | `rows` is `cached_responses`, `inflight` the in-flight set; `pc[r]` is `cached_or_fetch` with `fetch_and_store` and `wait_for_inflight_cache`; `Crash` restarts the process |
| `Trust`, `StatusList`, `Presentation` | anchors, certificates and dates; status tokens; the verifier of presentations and the `verify` commands | operators; a presentation is a record of what its checks can see |
| `RequestObject` | `verify_jar` and `verify request` | operators |
| `OverAsk` | queries, registered scopes, the over-ask report, audit, generated bodies | operators |
| `Evidence` | bundles: export, check, replay, `assert-live`, `prove-trust-status` | operators of the entries of a bundle |
| `Capture` | the handlers of a debug session writing its artifacts | `at[h]` and `step[h]` are a handler and its write; `dir` and `manifest` the session's directory; `now` the clock |
| `Validate`, `Inspect` | `validate dcql` and `generate dcql`; the recognition of artifacts | operators |
| `StatusFetch` | the fetch of a status list | `fetching`, `vetted`, `peer`, `bytes` are `StatusFetcher::fetch` |
| `Workbench` | the offline side: composes the operators above with `Capture`, `StatusFetch` and a clock | `desk` is what lies before the commands, `day` the time |
| `Registrar` | `register` and `list` with the clone and the sandbox | `pc[c]` is one command, `rows` what the registries store |
| `OverAsk_proofs` | | lemmas about queries, paths and counts, used by the next two |
| `..._proofs` | | the theorems of the module, section 5 |
| `MC...` | | instances for TLC |

`RelayForward` and `RelayRegistry` share the run: in the first the registry is
reduced to `registered` and to `Expire`, which puts the Close frame in the channel
as `RunRegistry::remove` does; in the second the run is reduced to its id and to
the code of its Close frame. `Tunnel` takes both from outside: a forward is screened
and queued in one step, and the run is active or gone.

What is reduced to data. Frames keep their kind, request and size, not their bytes.
A posted body is a record: whether it parses, whether it is encrypted, whether it
decrypts under the session's key, and what each presentation in it turns out to be.
A presentation, certificate, token or signed request is a record of facts: which key
signed it, what its claims say, whether a part parses. A hash is what it is taken of,
a signature is the key that made it. A claim path is a sequence of segments, and a
key of a path is the path, as in the code. A trace keeps its last outcome event,
which is all the page looks at. A cache row is the time of its fetch.

External, so modelled from how the code uses it: the peer of the tunnel in
`RelayForward`, which replies only to ids it received, in any order, repeatedly or
never; the operator's page; the resolver and the servers of status lists; the sandbox
registrar; JWT time validation of the `ssi` crate.

## 3. Runs

| Run | Shows | Bounds |
| --- | --- | --- |
| `relay_forward` | slots, ids, replies are right, the run implements `WalletExchange`; slots come back, no writer outlives its reader for ever | two wallets, one slot, a channel of two, one heartbeat |
| `relay_forward_stalled` | **violated:** the wait to hand a request to the tunnel has no limit | two wallets, a channel of one |
| `relay_registry` | every run is in exactly one place, limits hold, expired runs leave the map | three runs, room for two, one tombstone, one wallet |
| `relay_registry_wedge` | **violated:** the lookup of an expired run returns | one run, one wallet |
| `serve_session` | only an acceptable response verifies a session, an answered session has no key, posts end | one session, two posts, live status and failing artifact writes |
| `serve_key_reuse` | **violated:** a key is used once | two posts |
| `serve_settled_pill` | **violated:** a page that stopped refreshing tells the final outcome | one post |
| `cache_server` | one fetch per key, the cache implements `ReadThrough`, every request answered | two connections with any number of requests, two keys, room for one row, one restart, one clock tick, one poll |
| `tunnel` | how `serve` starts and is reached, both ends of a tunnel take what the other sends, who is rate limited was over quota, no call is handled twice or gets the reply to another, requests on the socket are handled | two calls and `serve` at one address, one window of one tick, one map entry, three relay environments, five sets of arguments |
| `workbench` | what evidence proves and how the commands agree, see below | one fetch of the request and two posts, encrypted or plain, two times, at which the response is too early and good, `serve --live-status`, any write failing at any time; presentations against anchor sets and status arguments over six days; requests, audits, lints and artifacts of every kind |
| `registrar` | what is written, listed and stored | two commands, each run twice, twelve bodies, three targets |
| `registrar_unforced` | **violated:** no over-asking body is written without `--force` | one command, two bodies |

The bounds are the smallest in which the contention happens. A slot, a key or a
mutex is contended by two; the third run of `relay_registry` is refused while two are
in the map or evicts a tombstone; the two calls and `serve` of `tunnel` are one more
than its rate limiter's map holds, and one tick ends a window. One poll stands for
the 80 of the code: the second decision after a poll is the same as the first. The
files of `workbench` hold one for each way a check can fail, and the indexes and days
run over each boundary on both sides. `MaxPings`, `MaxTime`, `MaxCrashes`, `LastTick`,
`LastDay` and `MaxTries` bound behaviours, not the code; the others are its
configuration. `tunnel` uses the code's byte sizes: a body at the limit the WebSocket
cap leaves room for, and one byte more.

The properties of `workbench` are about decisions that the code takes twice.
`CommandsAgree`: `verify presentation` accepts what its own plain check, `verify
trust` and `verify status` accept together. `ProofAgreesWithVerify` and
`ReplayAgreesWithServe`: evidence concludes what `verify` and `serve` conclude.
`ReplayAgreesWithServe` stops where `docs/COMMANDS.md:1358-1361` does: an export says
nothing of the status of a credential, so with `--live-status` what is proven live may
have been withheld by `serve`, and nothing else may. `LiveProofIsReal`: however handlers
and export interleave and however many writes fail, what `assert-live` proves was posted
and verifies. A failed write may leave a part of the file, or the manifest truncated.
`CapturesKept` is about handlers that take turns and whose writes succeed; `disturbed`
marks the behaviours in which they do not. `VerdictIsTrue`: the audit's
verdict, colour, counts and exit tell one story.

`CallsServedOnce` of `tunnel` is about the way of a call over the socket: it is there
in one frame, or at the client, or handled, and the one reply to it is what the client
made of it and is given to that call. A second delivery, or a reply crossed with that of
another call, would violate it; `WalletExchange`, which keeps a set of delivered calls
and replies without a name, says less.

Deadlock is not checked in `workbench` and `tunnel`: their programs end.

**Fairness.** `registrar` and `workbench` assume none: they check safety.
`TaskFairness` of `RelayForward` and the fairness of `RelayRegistry`, `ServeSession`
and `CacheServer` is weak fairness of each task on its own: the runtime schedules a
task that can run, timers fire, the sweeper's interval ticks, a network fetch ends
because the HTTP clients have timeouts. `relay_forward` also assumes `PeerReads`,
that a send on the socket completes; `relay_forward_stalled` shows what happens
without. `relay_registry` assumes that a wallet without an answer hangs up in the
end; `relay_registry_wedge` does without. `tunnel` assumes that the client's task runs
when a frame is there and that its own timer ends a local request, and nothing of the
network, the relay, the wallets or the local server. Nothing is assumed of clients
that disconnect or of new requests.

Every property of a passing run has a mutant: a changed definition beside the
original (`TimeOut_WhileRegistered`, `Start_NoCheck`, ...), a plausible bug, under
which TLC finds that property violated.

## 4. What the runs found

* `registry.rs:82`: the mutex guard taken in the condition of an `if let` lives to
  the end of the statement (edition 2021), and the branch of an expired run calls
  `remove`, which locks the same mutex. Such a lookup never returns and holds up the
  registry until its wallet hangs up (`relay_registry_wedge`), where lines 86-87 would
  return the tombstone that the test asserts of an ended run (line 216).
* `forward.rs:151`: the request timeout covers the wait for the reply and not the
  send before it (`relay_forward_stalled`).
* `handlers.rs:348`: each post clones the session key and only the end of a post
  removes it, so concurrent posts share a key that is documented to be used once
  (`serve_key_reuse`).
* `view.rs:304`: a trace page stops refreshing at the first outcome event, and the
  offline VERIFIED precedes the status check (`serve_settled_pill`).
* `checkbody.rs:91`: a body whose claim paths the gate cannot collect (a wildcard or
  an index in a path is enough) has no over-ask report, so `check` exits 0 and
  `register --yes` writes it without `--force` (`registrar_unforced`). A body with
  both `claims` and `claim` is gated by the first and registered by the second; one
  whose credential names no format is gated like any other, and registered for nothing.

Smaller ones follow from the same models and have no run of their own.

*Relay and tunnel.* The Close frame of an expired run is lost when its channel is
full, and the tunnel outlives the run (`registry.rs:100`). Between the two halves of
`remove` a wallet is told 404 instead of 410 (`registry.rs:98`). The client handles
frames one after the other, so slow local requests hold up its pongs and may cost the
run (`relay_client.rs:118`); a local timeout is reported as `LocalUnavailable`, hence
502 and never the 504 of `LocalTimeout`; a request that timed out at the relay is
still fetched from the local server later; the expiry of a run, after ten minutes by
default, ends `serve` itself (`serve/mod.rs:338`). A hosted alias without a token is
an error even with `--relay-optional` (`serve/mod.rs:173`). A caller of the rate
limiter with an overtaken clock may leave the map above its limit (`ratelimit.rs:65`).

*Serve and evidence.* A post whose response was rejected is answered "verified" when
another post of the session stored that result in between (`handlers.rs:280`). A
decrypted response without a presentation is rejected with no outcome event, so its
page refreshes for ever (`handlers.rs:440`). A failing artifact write makes the
wallet's fetch of the request fail (`handlers.rs:95`). The first post of a session
keeps the name `direct-post.body`: when it was malformed or for another key, the
session has no live proof, even if a later post verifies. Handlers that write at once
may write over each other's artifact or drop each other's manifest entry
(`artifacts.rs:108`, `132`). The profile's `liveWalletProven` reads the trace only and
does not ask for the posted body that `assert-live` asks for (`evidence.rs:1337`).

*Commands.* `verify presentation --status-token` without `--status-key` checks no
status and reports `statusChecked` true (`commands/verify.rs:52-61`, `88`). A
disclosed status object is expanded to its leaves, so removing the path `["status"]`
from the view does not remove them (`verify.rs:367-374`). Asking for a parent object
makes each of its disclosed leaves over-disclosed (`inspector.rs:301`), and asking for
`nationalities` is beyond a registration of `nationalities.*`. A set of credentials
whose options are `[[7]]` passes `validate dcql` without a finding, though no credential
answers to it: a reference that is no string is skipped (`validate.rs:258-259`).
`inspect.rs:1-3` says that `inspect` never exits nonzero on content; text of no kind
makes it exit so, and known artifacts do in three cases. A signed evidence bundle carries the signer's key as PEM, and
`-----BEGIN` anywhere in the text makes it a certificate before JSON is tried
(`artifact.rs:97`, `jose.rs:118-120`), which then does not parse. Signed requests and
certificates pasted as JSON go to decoders of compact JWTs; `InspectKnowsItsOwn` covers
the compact forms. And a link parameter over 200 bytes, or an mdoc value over 60, is cut
by bytes, which panics inside a character (`decode.rs:316-317`, `mdoc.rs:605`, `616`).
`register` that
lost its answer stores a second row when run again (`http_target.rs:53`).

*Cache.* A miss loaded before another's fetch ended fetches the fresh key once more
(`cache_server.rs:386`, `397`). A crash, or an error of the second statement, between
insert and eviction leaves the table over its limit until the next store, and the
request whose row was inserted is told that it failed (`cache_server.rs:615`).

## 5. Proofs

`RelayForward_proofs` proves, for any number of wallets and any limits, `TypeOK`,
`SlotsAccounted`, `OwnReply` and the refinement `ImplementsExchange` of
`relay_forward`, and four more invariants that only the proofs state:
`InflightBounded`, `DeliveredOnce`, `NoAnsweredEntry` and `SenderAlive`.
Assumed is `RelayForwardAssumption` alone: finitely many wallets, limits that are
numbers, a channel with room for a frame. The argument goes in three invariants.

1. `SlotInv` is `TypeOK`, `SlotsAccounted` and `InflightBounded` together. The bound
   alone is not inductive: a handler in the CAS loop knows the counter, not how many
   handlers hold a slot, so the bound needs the accounting; the accounting needs the
   types for the decrement to stay a number, and the types need it for the same
   reason. Four lemmas say what a step does to the set of holders.
2. `IdInv` is about request ids: every id that is anywhere was drawn
   (`IdsDrawn`), handlers have ids of their own (`IdsOwn`), an id not yet sent is
   nowhere in the channel or at the peer (`IdsUnsent`), and the entries of the
   pending map and the contents of the oneshots belong to the handler that drew
   their id (`EntriesOwn`, `SlotsOwn`). `OwnReply`, `DeliveredOnce`,
   `NoAnsweredEntry` and `SenderAlive` follow from it.
3. With both, each step maps to a step of `WalletExchange` or to a stutter.

`CacheServer_proofs` proves, for any number of connections, keys and restarts and any
limit of the table, `TypeOK`, `OneFetchPerKey`, and that the cache implements
`ReadThrough` (`CacheKeepsPromise`). `OneFetchPerKey` is inductive with the types.
`RowsGetNewer`, proved too and part of what `ReadThrough` says, needs
`StampsInOrder`: no row comes from the future, and a response about to be stored is
no older than the row it replaces. That is kept by other stores because, by
`OneFetchPerKey`, they are for other keys. The refinement asks for two things more.
`RequestsInOrder` is what a request knows at each of its awaits: its key is one that
may be read once it is past the gate, nothing fresh was found for it once it is past
the load (or a refresh is forced), and it is told something only at the end
(`EveryRequestInOrder`). And the eviction, which picks a row by how many rows go no
later, has to leave exactly the youngest rows that fit (`EvictionTrims`): the order of
eviction is total (`EvictionOrder`), so of any rows one goes first and one goes last
(`OneGoesFirst`, `OneGoesLast`, because finite sets have no infinite descent), and the
row to go last among the evicted has them all, and only them, before it.

`RelayRegistry_proofs` proves, for any finite set of runs, any wallets and any limits,
`TypeOK` (with the limits of the map and of the tombstones) and `RunAccounted`. The
invariant, `RegistryInv`, is the types; `Accounted`, that the minted runs are split
between the map, the hands of those who took one out and have not buried it, the
tombstones and the runs forgotten; and `SweeperInv`. The last is needed because the
sweeper acts on a list it collected under an earlier lock: what it still has to do had
expired, and the run it is burying is in no tunnel handler's hands, or a run would be
buried twice. `Accounted` is stated of any five collections, with one lemma per move.

`RunsGoOneWay` is the implementation of `RunLife`. Its mapping reads the phase of a run
off the place where it is kept, which `Accounted` makes unique. `LookupInv` is about
the gap between the two sections of a lookup: a run that it missed in the map never
comes back into it, since only runs never minted enter, so that what is then neither
in the tombstones is really leaving or forgotten. `GuardIsHeld` is the other half of
the wedge that section 4 reports: the mutex of the map is kept over an await by the
lookup of an expired run only, by one at a time, and nothing moves that run
meanwhile. Neither is checked by a run of its own; `ImplementsRunLife` held on the
instance of `relay_registry`, with room for one tombstone and for none, before it was
proved.

`ServeSession_proofs` proves, for any number of sessions and posts, `TypeOK`,
`VerifiedIsEarned` and the action property `SpentStaysSpent`. `SessionInv` is the
types; `Here(p, pc[p])`, which lists what the handler of a post knows at each of its
awaits (the body is encrypted, it still has the key, the presentations so far are
good, the session's key is gone); and `OutcomeInv`, that a result or an answer was
earned and that an answered session has no key, so that a later post never has it.
`SessionKeepsPromise` is the implementation of `SessionKey`. Reading a key, storing a
result, dropping the key and answering are steps of the abstract specification and
every other await is a stutter. It needs `KeyInv` besides: nobody is answered before
the end, nobody has the key before the body was parsed, a plaintext post stored its
result before it answers, and no key is in the map before `create_request` put it
there. It held on the instance of `serve_session` before it was proved and has no
run of its own.

`CacheServer_proofs` and `RelayForward_proofs` aside, the relay's other parts are in
`Tunnel_proofs`: `TypeOK`, `StartedAsConfigured`, `EachEndTakesTheOthers`,
`DeniedOnlyOverQuota` and `CallsServedOnce`, for any finite set of calls, any clock, limits, environments and
arguments. `TunnelInv` has a part for each component: `LimiterInv`, `StartInv` (how
far `serve` is and what was settled by then: the bind, the authorization, the
advertised URL), `CallInv` and `PipeInv` (what is on the socket). That neither end
refuses the other's frames is arithmetic about base64 and the frame around it, proved
with the code's numbers for every body limit. `DeniedOnlyOverQuota` needs `QuotaInv`:
a window counts no more callers than were admitted since it started, which has to be
carried through the eviction of windows and the callers whose clock was overtaken.
Assumed are the types of the environments, the arguments and the requests, and a
window and a map of some size.

`TunnelImplementsExchange` is the second implementation of `WalletExchange`, end to
end: a call is delivered when the client has replied to it. `WayInv` is what the
mapping needs: a call is at most once on its way (as a frame on the socket or as the
one the client fetches), a call on its way has not been handled and either holds its
slot or has timed out, every reply on the way back is to a handled call, and only a
handled call is replied to. No run checks this theorem on an instance of its own; the
mapping and `WayInv` held on the instance of `tunnel` with two slots and two forwards
before they were proved. The theorem says that no more calls hold a slot than the relay
admits, that a refused call never reaches the client, and that a call gets an answer of
the client only while it holds its slot and once it was handled. What it does not say,
that a call is handled once and gets the reply to itself, is `CallsAreServedOnce`. It
follows from `WayInv` and `ReplyInv`: the replies under way are to different calls, each
is what the client made of its call, no wallet has been given a reply that is still
under way, and what a wallet was given is what the client made of its call.

`Registrar_proofs` proves, for any commands, bodies and tries, `TypeOK`,
`ConfirmedOnly`, `WroteIsListed` and `RegisteredAsAsked`. `ConfirmedOnly` is not
inductive: it has to be known of a command wherever it stands. `Traced` adds that a
command past the gate was confirmed, and that one that sent something or has a row
was, even after it failed and went back to its start; the call of a command that was
run never changes. `Remembered` adds that a row is what its command called for, and
that a command whose body was stored has one. `RegisteredAsAsked` is then a fact about
bodies: what the gate collects is in what the registrar will read, or the condition of
the property is not met. Assumed are the three targets, that a command may be tried,
and that the credentials of a body are a sequence of credentials.

`OverAsk_proofs` has the lemmas about data: leaving an element out of a sequence and
flattening sequences of any length, counts that add up, and that the line, class,
counts and exit code of an audit agree. The induction they need is over a set of
numbers, `CountUp`: a set of numbers that has 0 and the successor of each of its
members below k has every number up to k, because a finite set of counterexamples
would have a least one (`LeastNumber`). The library's induction theorems take a
predicate, which the installed provers cannot instantiate; for a set they need not.
That the recursive functions of the definitions exist is proved the same way.

`Workbench_proofs` proves every invariant and action property of the run, for any
files, anchor sets, tokens and keys, any number of handlers and any clock.

* *Files.* `CommandsAgree` holds by what the verifier's checks are and in which order,
  whatever lies on the desk, and so does `BoundToOneRequest`, which no run checks: a
  presentation is accepted under at most one binding of nonce and audience. `DeskInv`, that the file on the
  desk is one of the files and the clock a number, is enough for
  `ClientIdNamesTheSigner` (certificates of one hash are one certificate),
  `TimeIsOneWay` (each window, once closed, stays closed, and a later check does not
  see what an earlier one refused), `VerdictIsTrue` and `ValidQueryResolves`.
  `InspectKnowsItsOwn` is about any artifact that has the form its makers give it,
  whatever claims or members it has besides (`Artifact`, in `Inspect`), a signed bundle
  excepted: the signals that `sniff` looks for, in their order, single out its kind, and
  the decoder of that kind reads it unless it panics over a text it shortens
  (`ArtifactsAreKnown`).
* *Fetch.* `FetchStaysPublic` of the composed specification: between the check of the
  addresses and the connection the vetted set does not change, which is what the pin
  is for.
* *Sessions.* `CaptureInv` has four parts. `HandlersInv` is about where handlers stand.
  `FilesInv` holds however they get in each other's way and whatever writes fail: unless
  it is the rest of a failed write, a body on disk was posted, a context has a time some
  post took, a response is what a body carried. `LiveProofIsReal` follows from these two,
  since the rest of a failed write proves nothing (`ScrapIsUseless`). `KeptInv` is about undisturbed sessions: one
  handler writes at a time, and how far it is decides what file and manifest lack;
  `CapturesKept` follows. `CountInv`, as many bodies on disk as posts that wrote one,
  tells which file is whose. With `VerdictInv`, what a post passed before it stands
  where it does, they give `ReplayAgreesWithServe`: what `serve` accepts passes the
  checks without the network (`OfflineOk`), which a replay repeats, and what it rejects,
  and does not withhold for a status, fails them. That the search for a free name
  ends is a pigeonhole (`NameIsFree`).
* *Bundles.* `SuppliedKeyDecides` and `ProofAgreesWithVerify` are about what an export of
  such a directory contains. The first is about an export with a key: without one there is
  no signature to decide.

Assumed are that fetches are not posts, that posted bodies have one of three forms and
a sequence of presentations, that ages, skews and times are numbers, that certificates of one hash have one key,
that queries are sequences of credentials and typed paths sequences of names, that
an artifact on the desk has the form of its kind, and that the exporter's key is not the forger's.

Model-checked only:

* everything about liveness, fairness and ENABLED, which the prover does not reach:
  `SlotReturned`, `NoOrphanWriter`, `ExpiredLeaves`, `PostEnds`, `RequestAnswered`,
  `RequestsHandled`;
* the properties that are violated.

Every other invariant and action property that a run checks is a theorem.

A definition that a proof reasons about uses recursive functions and folds; no module
declares a RECURSIVE operator.

## 6. Not modelled, and the plan

What is left: **core**: building and signing of request objects and decryption of
responses (`jar.rs`); **evidence**: the profile beyond its liveness and the
comparison of bundles; **validate** for artifacts other than queries; **cache commands**.

Left out for good: argument parsing, rendering, HTML, serde types, random ids, the
HTTP and WebSocket libraries, CBOR parsing, scripts and deployment files. They keep
no state and decide nothing that a property here is about.
