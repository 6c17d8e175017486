------------------------------- MODULE Evidence -------------------------------
(***************************************************************************)
(* Evidence bundles: what `evidence export` makes of the artifacts a debug *)
(* session left on disk, and what the other evidence commands conclude     *)
(* from a bundle without the session.                                      *)
(*                                                                         *)
(* An artifact's content is one record whatever its kind (see Blank):      *)
(*   readable  it parses as what its name says                             *)
(*   form      of a posted body: "jwe", "plain" or "malformed"             *)
(*   key       the encryption key it is, or was encrypted to               *)
(*   vps       the presentations of the (decrypted) response               *)
(*   claims    the claim paths the request asks for                        *)
(*   nonce, aud, at   the binding and the clock of a verification          *)
(* A SHA-256 is modelled as the content it is taken of.  An artifact's     *)
(* name is its kind and its number: <<"direct-post.body", 2>> stands for   *)
(* direct-post-2.body.  Names are unique, so entries are a set: they are   *)
(* sorted by name wherever their order shows.                              *)
(***************************************************************************)
EXTENDS Presentation, OverAsk

CONSTANTS MaxAge, Pid  \* the freshness window and the credential type of serve

ASSUME MaxAgeAssumption == MaxAge \in Nat

Blank == [readable |-> TRUE, form |-> "none", key |-> "none", vps |-> <<>>,
          claims |-> <<>>, nonce |-> "none", aud |-> "none", at |-> 0]

Original(kind) == <<kind, 1>>

Has(entries, kind) == \E e \in entries : e.name = Original(kind)
Content(entries, kind) == (CHOOSE e \in entries : e.name = Original(kind)).content

\* A JSON artifact that is there must parse.
Broken(entries, kind) == Has(entries, kind) /\ ~Content(entries, kind).readable

-------------------------------------------------------------------------------
(* The response *)

NoResponse == [is |-> "none", vps |-> <<>>]
Unusable == [is |-> "error", vps |-> <<>>]
Response(vps) == [is |-> "some", vps |-> vps]

\* Without a body or a key there is nothing to decrypt, with a plaintext body
\* neither.  A body that is no form, or not for this key, is an error.
DecryptFromDirectPost(entries) ==
  LET body == Content(entries, "direct-post.body")
      key == Content(entries, "session-enc-key.jwk")
  IN IF ~Has(entries, "direct-post.body") \/ ~Has(entries, "session-enc-key.jwk") THEN NoResponse
     ELSE IF body.form = "malformed" THEN Unusable
     ELSE IF body.form = "plain" THEN NoResponse
     ELSE IF ~key.readable \/ body.key # key.key THEN Unusable
     ELSE Response(body.vps)

\* Two sources of the response must agree.
DecryptedResponse(entries) ==
  LET raw == DecryptFromDirectPost(entries)
      saved == Content(entries, "auth-response.json").vps
  IN IF raw.is = "error" \/ Broken(entries, "auth-response.json") THEN Unusable
     ELSE IF ~Has(entries, "auth-response.json") THEN raw
     ELSE IF raw.is = "some" /\ raw.vps # saved THEN Unusable
     ELSE Response(saved)

\* The live proof accepts no other source than the posted body.
StrictlyDecrypted(entries) ==
  /\ Has(entries, "direct-post.body") /\ Has(entries, "session-enc-key.jwk")
  /\ DecryptFromDirectPost(entries).is = "some"
  /\ ~Broken(entries, "auth-response.json")
  /\ Has(entries, "auth-response.json") =>
       Content(entries, "auth-response.json").vps = DecryptFromDirectPost(entries).vps

-------------------------------------------------------------------------------
(* The offline verification, at the clock of the session *)

Binding(content) == [nonce |-> content.nonce, aud |-> content.aud]

NoTrust == [anchors |-> {}, status |-> NoToken]

\* Mutant: only the last presentation decides.
VerifyAll_LastDecides(vps, context, trust) ==
  LET verdict(i) == VerifyFull(vps[i], Binding(context), Pid, MaxAge, context.at, trust)
      failed == {i \in {Len(vps)} : verdict(i) # "ok"}
  IN [verified |-> vps # <<>> /\ failed = {},
      disclosed |-> IF vps # <<>> /\ failed = {} THEN DisclosedView(Last(vps)) ELSE {}]

\* How a response verifies: the first presentation that fails decides, else
\* the last one is what is reported.
VerifyAll(vps, context, trust) ==
  LET verdict(i) == VerifyFull(vps[i], Binding(context), Pid, MaxAge, context.at, trust)
      failed == {i \in DOMAIN vps : verdict(i) # "ok"}
  IN [verified |-> vps # <<>> /\ failed = {},
      disclosed |-> IF vps # <<>> /\ failed = {} THEN DisclosedView(Last(vps)) ELSE {}]

OfflineVerify(entries, vps) ==
  IF Has(entries, "verification-context.json")
  THEN VerifyAll(vps, Content(entries, "verification-context.json"), NoTrust)
  ELSE [verified |-> FALSE, disclosed |-> {}]

-------------------------------------------------------------------------------
(* The replay *)

Event(code, level, keys) == [code |-> code, level |-> level, keys |-> keys]
Only(condition, events) == IF condition THEN events ELSE <<>>

Requested(entries) ==
  IF Has(entries, "request.payload.json")
  THEN ToSet(RequestedKeys(PidQuery(Content(entries, "request.payload.json").claims)))
  ELSE {}

\* Mutant: the analysis is left out when it has nothing to complain about.
DisclosureAnalysis_WhenOver(entries, disclosed) ==
  LET over == OverDisclosed(SetToSeq(Requested(entries)), disclosed)
  IN Only(over # {}, <<Event("OVER_ASK_ANALYZED", "warn", over)>>)

\* The comparison of what was disclosed with what was asked for, when claims
\* were asked for by name.
DisclosureAnalysis(entries, disclosed) ==
  LET requested == Requested(entries)
      over == OverDisclosed(SetToSeq(requested), disclosed)
  IN Only(requested # {},
          <<Event("OVER_ASK_ANALYZED", IF over = {} THEN "good" ELSE "warn", over)>>)

Outcome(entries, result) ==
  IF result.verified
  THEN <<Event("VERIFIED", "good", result.disclosed)>>
       \o DisclosureAnalysis(entries, result.disclosed)
  ELSE <<Event("REJECTED", "bad", {})>>

Replayable(entries) ==
  /\ ~Broken(entries, "request.payload.json")
  /\ DecryptedResponse(entries).is # "error"
  /\ DecryptedResponse(entries).is = "some" => ~Broken(entries, "verification-context.json")

Replay(entries) ==
  LET encrypted == Content(entries, "direct-post.body").form = "jwe"
      response == DecryptedResponse(entries)
  IN <<Event("SESSION_CREATED", "info", {})>>
     \o Only(Has(entries, "request.payload.json"),
             <<Event("REQUEST_BUILT", "info", Requested(entries))>>)
     \o Only(Has(entries, "request.jwt"), <<Event("REQUEST_OBJECT_FETCHED", "info", {})>>)
     \o [i \in 1..Cardinality(entries) |-> Event("ARTIFACT_SAVED", "info", {})]
     \o Only(Has(entries, "direct-post.body"),
             <<Event("RESPONSE_RECEIVED", "info", {})>>
             \o Only(~encrypted, <<Event("REJECTED", "bad", {})>>))
     \o Only(response.is = "some",
             <<Event("RESPONSE_DECRYPTED", "info", {})>>
             \o Outcome(entries, OfflineVerify(entries, response.vps)))

-------------------------------------------------------------------------------
(* Export and the check every other command begins with *)

NoSignature == [present |-> FALSE, by |-> "none", embedded |-> "none", over |-> {}]

Sign(key, entries) == [present |-> TRUE, by |-> key, embedded |-> key, over |-> entries]

\* The bytes of an artifact must be those its entry in the manifest names.
Exportable(entries) == (\A e \in entries : e.sha = e.content) /\ Replayable(entries)

\* The signature covers the payload; the trace in it follows from the entries.
Bundle(entries, key) ==
  [entries |-> entries, trace |-> Replay(entries), sha |-> entries,
   signature |-> IF key = "none" THEN NoSignature ELSE Sign(key, entries)]

\* Mutant: the bundle's own key is used when it has one.
VerifySignature_EmbeddedWins(b, verifyKey) ==
  IF ~b.signature.present THEN IF verifyKey = "none" THEN "absent" ELSE "invalid"
  ELSE IF b.signature.by # b.signature.embedded \/ b.signature.over # b.entries THEN "invalid"
  ELSE IF verifyKey = "none" THEN "embedded" ELSE "supplied"

\* A key that is supplied decides alone, and an unsigned bundle fails it.
VerifySignature(b, verifyKey) ==
  LET key == IF verifyKey = "none" THEN b.signature.embedded ELSE verifyKey
  IN IF ~b.signature.present THEN IF verifyKey = "none" THEN "absent" ELSE "invalid"
     ELSE IF b.signature.by # key \/ b.signature.over # b.entries THEN "invalid"
     ELSE IF verifyKey = "none" THEN "embedded" ELSE "supplied"

\* Every entry's hash, the replay, the payload's hash and the signature.
CheckBundle(b, verifyKey) ==
  IF /\ \A e \in b.entries : e.sha = e.content
     /\ Replayable(b.entries) /\ Replay(b.entries) = b.trace
     /\ b.sha = b.entries
  THEN VerifySignature(b, verifyKey)
  ELSE "invalid"

-------------------------------------------------------------------------------
(* The commands *)

RequiredEvents == {"SESSION_CREATED", "REQUEST_BUILT", "REQUEST_OBJECT_FETCHED",
                   "RESPONSE_RECEIVED", "RESPONSE_DECRYPTED", "VERIFIED"}

\* No failure, the whole exchange, and the analysis when claims were named.
LiveWalletTrace(trace) ==
  LET codes == {e.code : e \in ToSet(trace)}
  IN /\ codes \cap {"REJECTED", "ERROR"} = {}
     /\ RequiredEvents \subseteq codes
     /\ (\E e \in ToSet(trace) : e.code = "REQUEST_BUILT" /\ e.keys # {})
          => "OVER_ASK_ANALYZED" \in codes

AssertLive(b, verifyKey) ==
  /\ CheckBundle(b, verifyKey) # "invalid"
  /\ LiveWalletTrace(b.trace)
  /\ StrictlyDecrypted(b.entries)

\* What the profile says of the same question: it reads the trace only.
ProfileLive(b) == LiveWalletTrace(b.trace)

\* The token of one presentation: the one supplied, or the one at its status
\* list, which is asked for only once the issuer is trusted.
StatusTokenFor(p, context, args, published) ==
  IF args.supplied.given THEN args.supplied
  ELSE IF /\ VerifyFull(p, Binding(context), Pid, MaxAge, context.at,
                        [anchors |-> args.anchors, status |-> NoToken]) = "ok"
          /\ StatusRef(p.status) # NoRef
       THEN published
       ELSE NoToken

ProvenAt(p, context, args, published) ==
  LET token == StatusTokenFor(p, context, args, published)
  IN /\ token.given
     /\ VerifyFull(p, Binding(context), Pid, MaxAge, context.at,
                   [anchors |-> args.anchors, status |-> [token EXCEPT !.signer = args.signer]]) = "ok"
     /\ StatusRef(p.status) # NoRef

\* Mutant: one proven presentation is enough.
ProveTrustStatus_AnyProven(b, verifyKey, args, published) ==
  LET response == DecryptedResponse(b.entries)
      context == Content(b.entries, "verification-context.json")
  IN /\ args.supplied.given # args.fetch
     /\ AnchorsLoad(args.anchors) /\ args.signer # "none"
     /\ Has(b.entries, "verification-context.json") /\ context.readable
     /\ response.is = "some"
     /\ \E i \in DOMAIN response.vps : ProvenAt(response.vps[i], context, args, published)
     /\ CheckBundle(b, verifyKey) # "invalid"

\* One source of the token, anchors and a signer that load, and every
\* presentation proven.
ProveTrustStatus(b, verifyKey, args, published) ==
  LET response == DecryptedResponse(b.entries)
      context == Content(b.entries, "verification-context.json")
  IN /\ args.supplied.given # args.fetch
     /\ AnchorsLoad(args.anchors) /\ args.signer # "none"
     /\ Has(b.entries, "verification-context.json") /\ context.readable
     /\ response.is = "some" /\ response.vps # <<>>
     /\ \A i \in DOMAIN response.vps : ProvenAt(response.vps[i], context, args, published)
     /\ CheckBundle(b, verifyKey) # "invalid"
===============================================================================
