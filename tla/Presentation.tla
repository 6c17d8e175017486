----------------------------- MODULE Presentation -----------------------------
(***************************************************************************)
(* The verifier of PID presentations: an SD-JWT VC with its Key Binding    *)
(* JWT, checked at a clock and against the request it answers, then        *)
(* against trust anchors and a status list; and the commands built on it.  *)
(*                                                                         *)
(* A presentation is a record of what its checks can see:                  *)
(*   parses, json, reveals   the SD-JWT, its payload, its disclosures read *)
(*   x5c, signer             its certificates, the key that signed it      *)
(*   exp, nbf, vct, holder, status   claims of the issuer                  *)
(*   kb    the Key Binding JWT: present, signer, reads, nonce, aud, over   *)
(*         (the disclosures its sd_hash covers), iat                       *)
(*   leaves, disclosures     the claim paths, the pointers it discloses    *)
(***************************************************************************)
EXTENDS StatusList, SequencesExt

CONSTANT FutureSkew  \* seconds a wallet's clock may be ahead

ASSUME FutureSkewAssumption == FutureSkew \in Nat

Kinds == {"MalformedSdJwt", "MissingX5c", "IssuerSignature", "CredentialExpired",
          "CredentialNotYetValid", "VctMismatch", "MissingHolderBinding", "KbSignature",
          "NonceMismatch", "AudienceMismatch", "SdHashMismatch", "KbTimeInvalid",
          "StalePresentation", "UntrustedIssuer", "Revoked", "StatusListUntrusted",
          "StatusListUnavailable"}

\* The time check of the Key Binding JWT, at the clock it is given.
KbTimeValid(kb, clock) == kb.iat <= clock

\* Mutant: a clock ahead of ours is stale too.
KbStale_EitherWay(kb, now, maxAge) == kb.iat < now - maxAge \/ kb.iat > now + maxAge

KbStale(kb, now, maxAge) == kb.iat < now - maxAge

\* Mutant: any audience will do.
KbReject_AudienceUnchecked(p, binding, maxAge, now) ==
  IF p.kb.signer # p.holder \/ ~p.kb.reads     THEN "KbSignature"
  ELSE IF p.kb.nonce # binding.nonce           THEN "NonceMismatch"
  ELSE IF p.kb.over # p.disclosures            THEN "SdHashMismatch"
  ELSE IF ~KbTimeValid(p.kb, now + FutureSkew) THEN "KbTimeInvalid"
  ELSE IF KbStale(p.kb, now, maxAge)           THEN "StalePresentation"
  ELSE "ok"

\* The Key Binding JWT, against the request it answers.
KbReject(p, binding, maxAge, now) ==
  IF p.kb.signer # p.holder \/ ~p.kb.reads     THEN "KbSignature"
  ELSE IF p.kb.nonce # binding.nonce           THEN "NonceMismatch"
  ELSE IF p.kb.aud # binding.aud               THEN "AudienceMismatch"
  ELSE IF p.kb.over # p.disclosures            THEN "SdHashMismatch"
  ELSE IF ~KbTimeValid(p.kb, now + FutureSkew) THEN "KbTimeInvalid"
  ELSE IF KbStale(p.kb, now, maxAge)           THEN "StalePresentation"
  ELSE "ok"

\* The first check that fails names the rejection.
VerifyAt(p, binding, vct, maxAge, now) ==
  IF ~p.parses                                THEN "MalformedSdJwt"
  ELSE IF IssuerKeyFromX5c(p.x5c) = "none"    THEN "MissingX5c"
  ELSE IF p.signer # IssuerKeyFromX5c(p.x5c)  THEN "IssuerSignature"
  ELSE IF ~p.json \/ ~Legible(p.exp)          THEN "MalformedSdJwt"
  ELSE IF ExpiredAt(p.exp, now)               THEN "CredentialExpired"
  ELSE IF ~Legible(p.nbf)                     THEN "MalformedSdJwt"
  ELSE IF PrematureAt(p.nbf, now)             THEN "CredentialNotYetValid"
  ELSE IF p.vct # vct                         THEN "VctMismatch"
  ELSE IF p.holder = "none" \/ ~p.kb.present  THEN "MissingHolderBinding"
  ELSE IF KbReject(p, binding, maxAge, now) # "ok" THEN KbReject(p, binding, maxAge, now)
  ELSE IF ~p.reveals                          THEN "MalformedSdJwt"
  ELSE "ok"

-------------------------------------------------------------------------------
(* What a presentation discloses *)

\* A disclosed object counts as its leaves, anything else as itself.
DisclosedLeaves(p) ==
  UNION {LET below == {l \in p.leaves : IsPrefix(d, l)}
         IN IF below = {} THEN {d} ELSE below : d \in p.disclosures}

\* The full verifier takes the status pointer out of what it reports.
DisclosedView(p) == DisclosedLeaves(p) \ {<<"status">>}

-------------------------------------------------------------------------------
(* Trust anchors and status on top *)

NoToken == [given |-> FALSE, token |-> <<>>, signer |-> "none"]

\* The path of certificates is read without checking any signature of the JWT.
IssuerTrustedAt(p, anchors, now) ==
  p.parses /\ p.x5c # <<>> /\ LeafTrustedAt(LeafOf(p.x5c), anchors, now)

\* Mutant: a suspended credential passes.
StatusReject_SuspendedPasses(p, status) ==
  IF StatusRef(p.status) = NoRef THEN "StatusListUnavailable"
  ELSE LET v == CheckStatusListToken(status.token, status.signer, StatusRef(p.status))
       IN IF v \in {"Valid", "Suspended"} THEN "ok"
          ELSE IF v = "Revoked" THEN "Revoked"
          ELSE v

StatusReject(p, status) ==
  IF StatusRef(p.status) = NoRef THEN "StatusListUnavailable"
  ELSE LET v == CheckStatusListToken(status.token, status.signer, StatusRef(p.status))
       IN IF v = "Valid" THEN "ok"
          ELSE IF v \in {"Revoked", "Suspended"} THEN "Revoked"
          ELSE v

\* No anchors ({}) and no token leave the plain verification.
VerifyFull(p, binding, vct, maxAge, now, trust) ==
  LET base == VerifyAt(p, binding, vct, maxAge, now)
  IN IF base # "ok" THEN base
     ELSE IF trust.anchors # {} /\ ~IssuerTrustedAt(p, trust.anchors, now)
          THEN "UntrustedIssuer"
     ELSE IF trust.status.given THEN StatusReject(p, trust.status)
     ELSE "ok"

\* The status command, unlike the verifier, finds a credential without a
\* reference valid: there is nothing to revoke.
CheckPresentationStatus(p, signer, token) ==
  IF ~p.parses \/ ~p.json THEN "MalformedSdJwt"
  ELSE IF StatusRef(p.status) = NoRef THEN "Valid"
  ELSE CheckStatusListToken(token, signer, StatusRef(p.status))

-------------------------------------------------------------------------------
(* The commands.  "error" is a command that could not run. *)

\* A token takes part only together with its key.
StatusInput(args) ==
  IF args.token.given /\ args.key.given
  THEN [given |-> TRUE, token |-> args.token.value, signer |-> SignerFromPem(args.key)]
  ELSE NoToken

VerifyPresentationCmd(p, args, now) ==
  LET status == StatusInput(args)
  IN IF args.anchors # {} /\ ~AnchorsLoad(args.anchors) THEN "error"
     ELSE IF status.given /\ status.signer = "none" THEN "error"
     ELSE VerifyFull(p, args.binding, args.vct, args.maxAge, now,
                     [anchors |-> args.anchors, status |-> status])

\* What the report of an accepted presentation says was looked at.
Report(args) ==
  [trustAnchored |-> args.anchors # {}, statusChecked |-> args.token.given]

VerifyTrustCmd(p, anchors, now) ==
  IF ~AnchorsLoad(anchors) THEN "error"
  ELSE IF IssuerTrustedAt(p, anchors, now) THEN "ok" ELSE "untrusted"

\* Only a valid entry is a success of the command.
VerifyStatusCmd(p, key, token) ==
  IF SignerFromPem(key) = "none" THEN "error"
  ELSE LET v == CheckPresentationStatus(p, SignerFromPem(key), token)
       IN IF v = "Valid" THEN "ok" ELSE v

VerifyStatusListCmd(token, key, idx) ==
  IF SignerFromPem(key) = "none" THEN "error"
  ELSE LET v == CheckStatusListToken(token, SignerFromPem(key), idx)
       IN IF v = "Valid" THEN "ok" ELSE v
===============================================================================
