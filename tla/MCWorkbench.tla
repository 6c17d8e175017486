------------------------------ MODULE MCWorkbench -----------------------------
EXTENDS Workbench, TLC

Cert(key, signer, from, until) ==
  [reads |-> TRUE, id |-> key, key |-> key, point |-> "full", signer |-> signer,
   from |-> from, until |-> until, selfIssued |-> key = signer]

Root == Cert("root", "root", 0, 9)
Leaf == Cert("issuer", "root", 0, 9)
StrangeLeaf == Cert("issuer", "stranger", 0, 9)

Good ==
  [parses |-> TRUE, json |-> TRUE, reveals |-> TRUE, x5c |-> <<Leaf>>, signer |-> "issuer",
   exp |-> 4, nbf |-> 1, vct |-> "pid", holder |-> "wallet", status |-> [shape |-> "ok", idx |-> 0],
   kb |-> [present |-> TRUE, signer |-> "wallet", reads |-> TRUE, nonce |-> "nonce", aud |-> "aud",
           over |-> {Given}, iat |-> 1],
   leaves |-> {Given}, disclosures |-> {Given}]

Kb(field, value) == [Good EXCEPT !.kb = [@ EXCEPT ![field] = value]]

Symmetry == Permutations(Posts)

(* The session: a response that is too early at first and good a second     *)
(* later; and a plaintext one.                                              *)

RepliesDef ==
  {[form |-> "jwe", key |-> "session",
    vps |-> <<Good, [Good EXCEPT !.nbf = 0]>>],
   [form |-> "plain", key |-> "none", vps |-> <<>>]}

AnchorsDef == {Root}
ClaimsDef == <<Given>>

(* Presentations: a good one and one for each way it can be wrong, at every *)
(* index of the status list and beyond it, with and without a window.       *)

PresentationsDef ==
  {Good,
   [Good EXCEPT !.parses = FALSE], [Good EXCEPT !.json = FALSE], [Good EXCEPT !.reveals = FALSE],
   [Good EXCEPT !.x5c = <<>>], [Good EXCEPT !.x5c = <<StrangeLeaf>>],
   [Good EXCEPT !.x5c = <<Cert("issuer", "root", 2, 3)>>],
   [Good EXCEPT !.x5c = <<[Leaf EXCEPT !.point = "compressed"]>>],
   [Good EXCEPT !.signer = "other"], [Good EXCEPT !.vct = "other"], [Good EXCEPT !.holder = "none"],
   [Good EXCEPT !.exp = Garbage], [Good EXCEPT !.nbf = Garbage],
   [Good EXCEPT !.exp = Absent, !.nbf = Absent],
   Kb("present", FALSE), Kb("signer", "other"), Kb("reads", FALSE), Kb("nonce", "nonce2"),
   Kb("aud", "other"), Kb("over", {Family}), Kb("iat", 4)}
  \cup {[Good EXCEPT !.status = [shape |-> s, idx |-> i]] : s \in {"ok", "malformed"}, i \in 0..4}

AnchorSetsDef ==
  {{}, {Root}, {Cert("root", "root", 0, 1), Cert("stranger", "stranger", 0, 9)},
   {[Root EXCEPT !.reads = FALSE]}, {[Root EXCEPT !.point = "compressed"]}}

Token ==
  [signer |-> "status", typ |-> "statuslist+jwt", shape |-> "ok", padding |-> "none",
   bits |-> <<0, 1, 2, 3>>]

Tokens == {Token, [Token EXCEPT !.signer = "other"], [Token EXCEPT !.typ = "jwt"],
           [Token EXCEPT !.padding = "wrong"]}

Pem(certs, spki) == [given |-> TRUE, certs |-> certs, spki |-> spki]

Pems == {Pem(<<>>, "status"), Pem(<<Cert("status", "root", 0, 9)>>, "none"), Pem(<<Root, Leaf>>, "none")}

StatusArgsDef ==
  [token : {[given |-> TRUE, value |-> t] : t \in Tokens}, key : Pems]
  \cup [token : {[given |-> FALSE, value |-> Token]}, key : Pems]
  \cup [token : {[given |-> TRUE, value |-> Token]}, key : {[Pem(<<>>, "none") EXCEPT !.given = FALSE]}]

PublishedDef == {Token, [Token EXCEPT !.bits = <<2>>]}

(* Requests: signed by two relying parties, one of them under the other's id. *)

Rp == Cert("rp", "root", 0, 9)
SelfIssued == Cert("lone", "lone", 0, 9)

Jar(leaf) ==
  [compact |-> TRUE, json |-> TRUE, alg |-> "ES256", x5c |-> "list", leafBase64 |-> TRUE, leaf |-> leaf,
   signer |-> leaf.key, sigForm |-> "raw", clientId |-> LeafBinding(leaf), exp |-> 3, nbf |-> 1]

RequestsDef ==
  {Jar(Rp), Jar(SelfIssued),
   [Jar(SelfIssued) EXCEPT !.clientId = LeafBinding(Rp)],
   [Jar(Rp) EXCEPT !.clientId = <<>>], [Jar(Rp) EXCEPT !.clientId = <<"did", "rp">>],
   [Jar(Rp) EXCEPT !.compact = FALSE], [Jar(Rp) EXCEPT !.alg = "ES384"],
   [Jar(Rp) EXCEPT !.x5c = "bare"], [Jar(Rp) EXCEPT !.x5c = "absent"],
   [Jar(Rp) EXCEPT !.leaf.point = "other"], [Jar(Rp) EXCEPT !.leaf.point = "compressed"],
   [Jar(Rp) EXCEPT !.sigForm = "der"], [Jar(Rp) EXCEPT !.signer = "lone"],
   [Jar(Rp) EXCEPT !.exp = Absent], [Jar(Rp) EXCEPT !.exp = Garbage], [Jar(Rp) EXCEPT !.nbf = 4]}

(* Queries, purposes and scopes, with keys in both, in one and in neither. *)

Paths == {<<>>, <<Over18>>, <<Given, Over18>>, OverBroadPaths,
          <<<<"nationalities", Wildcard>>>>, <<<<"nationalities">>, Given, Given>>}

ScopeOf(credentials) == [given |-> TRUE, credentials |-> credentials]

Scopes ==
  {ScopeOf(PidQuery(p)) : p \in Paths}
  \cup {ScopeOf(<<[Credential(<<>>) EXCEPT !.has = {"claim"}, !.claim = <<Given, Over18>>]>>),
        ScopeOf(<<[Credential(<<Given>>) EXCEPT !.format = "none"]>>),
        ScopeOf(PidQuery(<<Given>>) \o PidQuery(<<Over18>>)),
        [given |-> FALSE, credentials |-> <<>>]}

AuditsDef ==
  [query : {PidQuery(p) : p \in Paths} \cup {MinimalQuery, PidQuery(<<Given>>) \o PidQuery(<<Birth>>)},
   purpose : KnownBaselines \cup {"other"}, scope : Scopes]

(* Queries to lint: two credentials and a set over them, each with flaws. *)

LintClaims == {[form |-> f, path |-> p] : f \in {"list"}, p \in {<<>>, Given, <<"ns", "a">>, <<Nonsense>>}}
              \cup {[form |-> "none", path |-> <<>>], [form |-> "other", path |-> <<>>]}

LintCreds == [id : {"a", "b", "none"}, format : {"dc+sd-jwt", "mso_mdoc", "new", "none"},
              claimsForm : {"list", "other"}, claims : {<<c>> : c \in LintClaims}]

Pair(c, id) == <<c, [id |-> id, format |-> "dc+sd-jwt", claimsForm |-> "list", claims |-> <<>>]>>

Options == [form : {"list"}, refs : SUBSET {"a", "b", Nonsense}] \cup {[form |-> "other", refs |-> {}]}

CredentialSets ==
  {[form |-> "list", options |-> <<o>>] : o \in Options} \cup {[form |-> "other", options |-> <<>>]}

LintsDef ==
  {[present |-> TRUE, creds |-> Pair(c, "b"), setsForm |-> "list", sets |-> <<set>>] :
     c \in LintCreds, set \in CredentialSets}
  \cup {[present |-> p, creds |-> <<>>, setsForm |-> "other", sets |-> <<>>] : p \in BOOLEAN}

SpecsDef == UNION {[1..n -> {<<"given_name">>, <<"address", "", "city">>, <<"">>}] : n \in 0..2}

(* The artifacts the workbench makes or verifies. *)

Text(form, keys) == [form |-> form, scheme |-> "none", typ |-> "none", keys |-> keys,
                     pem |-> FALSE, reads |-> TRUE, queries |-> FALSE, offer |-> FALSE,
                     bound |-> FALSE, cuts |-> FALSE]
Jwt(typ, keys) == [Text("jwt", keys) EXCEPT !.typ = typ]
File(is, text) == [is |-> is, text |-> text]

FilesDef ==
  {File("SdJwtVc", [Text("sd-jwt", {"vct", "cnf"}) EXCEPT !.bound = b]) : b \in BOOLEAN}
  \cup {File("AuthorizationRequest", Jwt("oauth-authz-req+jwt", {"dcql_query", "client_id"})),
        File("AuthorizationRequest", Jwt("JWT", {"response_type"})),
        File("StatusListToken", Jwt("statuslist+jwt", {"status_list", "iss"})),
        File("RegistrationCert", Jwt("rc-wrp+jwt", {"credentials", "purpose"})),
        File("RegistrationCert", Text("array", EntityKeys)),
        File("RegistrationCert", Text("json", {"jwt", "relyingPartyId", "id"})),
        File("KbJwt", Jwt("kb+jwt", {"nonce", "aud", "sd_hash"})),
        File("Jwt", Jwt("JWT", {"iss"})),
        File("RegistrationBody", Text("json", BodyKeys)),
        File("DcqlQuery", [Text("json", {"credentials"}) EXCEPT !.queries = TRUE]),
        File("DcqlQuery", Text("json", {"id", "description", "dcql_query"})),
        File("CredentialOffer", [Text("json", {"uri"}) EXCEPT !.offer = TRUE]),
        File("Openid4vpUri", [Text("uri", {}) EXCEPT !.scheme = "openid4vp"]),
        File("Certificate", [Text("text", {}) EXCEPT !.pem = TRUE]),
        File("Mdoc", Text("cbor", {"docType", "issuerSigned"})),
        File("Json", Text("json", BundleKeys \ {"signature"})),
        File("Json", [Text("json", BundleKeys) EXCEPT !.pem = TRUE])}
  \cup {File("CredentialOffer", [Text("uri", {}) EXCEPT !.scheme = OfferScheme, !.cuts = c]) : c \in BOOLEAN}
  \cup {File("Mdoc", [Text("cbor", {"version", "documents", "status"}) EXCEPT !.cuts = c]) : c \in BOOLEAN}

(* The hosts of status lists. *)

Ip(family, class) == [family |-> family, class |-> class]
AddressesDef == {Ip("v4", "public"), Ip("v6", "public"), Ip("v4", "private"), Ip("mapped", "shared"),
                 Ip("v6", "unique-local")}

UrisDef ==
  [scheme : {"https", "http"}, host : {"domain", "none"}, address : {NoAddress}]
  \cup [scheme : {"https", "http"}, host : {"address"}, address : AddressesDef]
===============================================================================
