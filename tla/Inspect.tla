-------------------------------- MODULE Inspect -------------------------------
(***************************************************************************)
(* `inspect`: an artifact is classified from its text alone and handed to  *)
(* the decoder of its kind.  A file is a record                            *)
(*   form    "empty", "uri", "sd-jwt", "jwt", "json", "array", "cbor"      *)
(*           (mdoc bytes as hex or base64) or "text"; an SD-JWT without a  *)
(*           Key Binding JWT (~bound) has the segments of a JWT too        *)
(*   pem     "-----BEGIN" is somewhere in it, whatever its form            *)
(*   scheme  of a URI;  typ, of a JWT                                      *)
(*   keys    of its payload, its object, its first element or its map      *)
(*   reads   its inner encoding parses: the payload of a JWT, the SD-JWT,  *)
(*           the certificate                                               *)
(*   queries each of its credentials has an id or a format                 *)
(*   offer   its "uri" is an offer's or a request's                        *)
(*   cuts    a text that is shown shortened (after 200 bytes in a link, 60 *)
(*           in an mdoc) would be cut inside a character: a panic          *)
(***************************************************************************)
EXTENDS Integers, Sequences

OfferScheme == "openid-credential-offer"
RequestSchemes == {"openid4vp", "eudi-openid4vp", "haip"}

RegcertEntity(keys) ==
  "jwt" \in keys /\ keys \cap {"intendedUse", "relyingPartyId", "cwt"} # {}

\* The type of a JWT names its kind, else its payload does.
ClassifyJwt(f) ==
  IF f.typ = "rc-wrp+jwt" THEN "RegistrationCert"
  ELSE IF f.typ = "statuslist+jwt" THEN "StatusListToken"
  ELSE IF f.typ = "oauth-authz-req+jwt" THEN "AuthorizationRequest"
  ELSE IF f.typ = "kb+jwt" THEN "KbJwt"
  ELSE IF "status_list" \in f.keys THEN "StatusListToken"
  ELSE IF f.keys \cap {"response_type", "dcql_query", "presentation_definition"} # {}
  THEN "AuthorizationRequest"
  ELSE IF {"credentials", "purpose"} \subseteq f.keys THEN "RegistrationCert"
  ELSE "Jwt"

\* The order decides between kinds that share keys.
ClassifyJson(f) ==
  LET keys == IF f.form = "json" THEN f.keys ELSE {}
  IN IF keys \cap {"credential_issuer", "credential_offer", "credential_configuration_ids"} # {}
        \/ ("uri" \in keys /\ f.offer)
     THEN "CredentialOffer"
     ELSE IF "rpId" \in keys THEN "RegistrationBody"
     ELSE IF RegcertEntity(f.keys) THEN "RegistrationCert"
     ELSE IF keys \cap {"response_type", "client_metadata"} # {}
             \/ {"dcql_query", "client_id"} \subseteq keys
     THEN "AuthorizationRequest"
     ELSE IF "dcql_query" \in keys \/ ("credentials" \in keys /\ f.queries /\ "purpose" \notin keys)
     THEN "DcqlQuery"
     ELSE IF {"credentials", "purpose"} \subseteq keys THEN "RegistrationCert"
     ELSE "Json"

\* The kinds of mdoc structure, by the keys of the map: the widest first.
ClassifyMdoc(keys) ==
  IF "version" \in keys /\ keys \cap {"documents", "status"} # {} THEN "DeviceResponse"
  ELSE IF {"docType", "issuerSigned"} \subseteq keys THEN "Document"
  ELSE IF keys \cap {"nameSpaces", "issuerAuth"} # {} THEN "IssuerSigned"
  ELSE IF keys \cap {"valueDigests", "validityInfo"} # {} THEN "MobileSecurityObject"
  ELSE "unrecognized"

LooksLikeMdoc(f) == f.form = "cbor" /\ ClassifyMdoc(f.keys) # "unrecognized"

\* An SD-JWT whose only dots are those of its issuer JWT.
LooksLikeJwt(f) == f.form = "jwt"

\* Mutant: the tilde of an SD-JWT is looked for last.
Sniff_JwtFirst(f) ==
  IF f.form = "uri" /\ f.scheme = OfferScheme THEN "CredentialOffer"
  ELSE IF f.form = "uri" /\ f.scheme \in RequestSchemes THEN "Openid4vpUri"
  ELSE IF LooksLikeJwt(f) \/ (f.form = "sd-jwt" /\ ~f.bound)
  THEN IF f.reads THEN ClassifyJwt(f) ELSE "Jwt"
  ELSE IF f.form = "sd-jwt" THEN "SdJwtVc"
  ELSE IF f.pem THEN "Certificate"
  ELSE IF f.form \in {"json", "array"} THEN ClassifyJson(f)
  ELSE IF LooksLikeMdoc(f) THEN "Mdoc"
  ELSE "Unknown"

\* A PEM block is looked for in all of the text, and before JSON is parsed.
Sniff(f) ==
  IF f.form = "uri" /\ f.scheme = OfferScheme THEN "CredentialOffer"
  ELSE IF f.form = "uri" /\ f.scheme \in RequestSchemes THEN "Openid4vpUri"
  ELSE IF f.form = "sd-jwt" THEN "SdJwtVc"
  ELSE IF LooksLikeJwt(f) THEN IF f.reads THEN ClassifyJwt(f) ELSE "Jwt"
  ELSE IF f.pem THEN "Certificate"
  ELSE IF f.form \in {"json", "array"} THEN ClassifyJson(f)
  ELSE IF LooksLikeMdoc(f) THEN "Mdoc"
  ELSE "Unknown"

-------------------------------------------------------------------------------
(* The decoders *)

CompactJwt(f) == f.form = "jwt" /\ f.reads

\* A certificate is read from a JWT, or from the jwt of an entity or of the
\* first of several; other JSON is taken for the JWT itself.
RegcertJwtReads(f) == CompactJwt(f) \/ (f.form \in {"json", "array"} /\ "jwt" \in f.keys /\ f.reads)

DecoderReads(kind, f) ==
  CASE kind = "SdJwtVc" -> f.reads
    [] kind = "RegistrationCert" -> RegcertJwtReads(f)
    [] kind \in {"StatusListToken", "AuthorizationRequest", "KbJwt", "Jwt"} -> CompactJwt(f)
    [] kind \in {"CredentialOffer", "Openid4vpUri"} -> f.reads /\ ~f.cuts
    [] kind = "DcqlQuery" -> f.reads
    [] kind = "Certificate" -> f.form = "text" /\ f.reads
    [] kind = "Mdoc" -> ~f.cuts
    [] kind \in {"RegistrationBody", "Json"} -> TRUE
    [] kind = "Unknown" -> FALSE

\* The exit code of `inspect`.
InspectOk(f) == DecoderReads(Sniff(f), f)

-------------------------------------------------------------------------------
(* The artifacts that the workbench makes, or is handed by a registrar, an     *)
(* issuer or a wallet, and what they have whatever else is in them             *)

\* The type that the maker of a JWT of this kind writes in its header.
TypOf == [RegistrationCert |-> "rc-wrp+jwt", StatusListToken |-> "statuslist+jwt",
          AuthorizationRequest |-> "oauth-authz-req+jwt", KbJwt |-> "kb+jwt"]

Untyped(f) == f.form = "jwt" /\ f.typ \notin {TypOf[kind] : kind \in DOMAIN TypOf}

\* The members of what a registrar returns and lists, of a generated body, and of
\* an evidence bundle.
EntityKeys == {"id", "jwt", "cwt", "intendedUse", "relyingPartyId", "createdAt", "revoked"}
BodyKeys == {"rpId", "support_uri", "privacy_policy", "purpose", "credentials"}
BundleKeys == {"schemaVersion", "kind", "tool", "payloadSha256", "payload", "signature"}

\* A bundle that was signed carries the signer's key as PEM.
SignedBundle(kind, f) == kind = "Json" /\ f.pem

\* A token has any claims beside its type, an entity lacks some members in some
\* registrars, an mdoc structure has optional members.
Artifact(kind, f) ==
  /\ f.reads
  /\ f.pem => kind = "Certificate" \/ SignedBundle(kind, f)
  /\ \/ kind = "SdJwtVc" /\ f.form = "sd-jwt"
     \/ kind \in DOMAIN TypOf /\ f.form = "jwt" /\ f.typ = TypOf[kind]
     \/ kind = "AuthorizationRequest" /\ Untyped(f)
          /\ "response_type" \in f.keys /\ "status_list" \notin f.keys
     \/ kind = "Jwt" /\ Untyped(f)
          /\ f.keys \subseteq {"iss", "sub", "aud", "exp", "nbf", "iat", "jti"}
     \/ kind = "RegistrationCert" /\ f.form \in {"json", "array"}
          /\ f.keys \subseteq EntityKeys /\ RegcertEntity(f.keys)
     \/ kind = "RegistrationBody" /\ f.form = "json"
          /\ f.keys \subseteq BodyKeys /\ {"rpId", "credentials"} \subseteq f.keys
     \/ kind = "DcqlQuery" /\ f.form = "json"
          /\ \/ f.queries /\ "credentials" \in f.keys
                  /\ f.keys \subseteq {"credentials", "credential_sets"}
             \/ "dcql_query" \in f.keys /\ f.keys \subseteq {"id", "description", "dcql_query"}
     \/ kind = "CredentialOffer"
          /\ \/ f.form = "uri" /\ f.scheme = OfferScheme
             \/ f.form = "json" /\ "credential_issuer" \in f.keys
             \/ f.form = "json" /\ "uri" \in f.keys /\ f.offer
     \/ kind = "Openid4vpUri" /\ f.form = "uri" /\ f.scheme \in RequestSchemes
     \/ kind = "Certificate" /\ f.form = "text" /\ f.pem
     \/ kind = "Mdoc" /\ f.form = "cbor"
          /\ \/ {"version", "status"} \subseteq f.keys
             \/ {"docType", "issuerSigned"} \subseteq f.keys
             \/ "issuerAuth" \in f.keys
             \/ {"valueDigests", "validityInfo"} \subseteq f.keys
     \/ kind = "Json" /\ f.form = "json" /\ f.keys \subseteq BundleKeys
          /\ (f.pem => "signature" \in f.keys)
===============================================================================
