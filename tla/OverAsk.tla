-------------------------------- MODULE OverAsk -------------------------------
(***************************************************************************)
(* The data-minimisation rules: what a DCQL query requests, what a         *)
(* registration certificate authorises, what a purpose justifies, and the  *)
(* verdict that compares them; the registration bodies and queries the     *)
(* workbench generates itself.                                             *)
(*                                                                         *)
(* A claim path is a sequence of segments.  A segment is a name, an Index  *)
(* into an array, or Wildcard, the null that selects all its elements.     *)
(* The rules compare dotted keys; a key is modelled as the sequence of the *)
(* words that are joined, "*" standing for a wildcard.                     *)
(*                                                                         *)
(* A credential of a query, a certificate or a registration body is a      *)
(* record: its format ("none" if it names none), its types, and its claim  *)
(* paths under the keys it has, "claims", the singular "claim", or both.   *)
(***************************************************************************)
EXTENDS Integers, Sequences, SequencesExt, FiniteSets

Wildcard == "null"
Index == "0"

\* What a credential may be.
Credentials ==
  [format : STRING, vcts : SUBSET STRING, has : SUBSET {"claims", "claim"},
   claims : Seq(Seq(STRING)), claim : Seq(Seq(STRING))]

Credential(paths) ==
  [format |-> "dc+sd-jwt", vcts |-> {"pid"}, has |-> {"claims"},
   claims |-> paths, claim |-> <<>>]

-------------------------------------------------------------------------------
(* The two readings of a path *)

\* In a query a wildcard becomes a star.
SegKey(seg) == IF seg = Wildcard THEN "*" ELSE seg

RequestedKey(path) == [i \in DOMAIN path |-> SegKey(path[i])]

\* A sequence without its x's, by how far it was read.
Without(s, x) ==
  LET kept[n \in 0..Len(s)] ==
        IF n = 0 THEN <<>>
        ELSE IF s[n] = x THEN kept[n - 1] ELSE Append(kept[n - 1], s[n])
  IN kept[Len(s)]

\* In a registration certificate a segment that is no name and no number is dropped.
RegisteredKey(path) == Without(path, Wildcard)

\* A query is a sequence of credential queries, each with its claim paths
\* (none when it names no claims).  The keys keep their order and repetitions.
RequestedKeys(query) ==
  FlattenSeq([c \in DOMAIN query |->
                [i \in DOMAIN query[c].claims |-> RequestedKey(query[c].claims[i])]])

\* Mutant: the plural key of a registration body is not known.
CertificatePaths_SingularOnly(cred) == cred.claim

\* A certificate is read under "claim" first, a registration body under "claims".
CertificatePaths(cred) == IF "claim" \in cred.has THEN cred.claim ELSE cred.claims

BodyPaths(cred) == IF "claims" \in cred.has THEN cred.claims ELSE cred.claim

\* The credentials of a certificate that can be read at all.
Readable(scope) == {c \in DOMAIN scope : scope[c].format # "none"}

\* Every credential of the certificate counts, whatever its type.
AllClaimKeys(scope) ==
  {RegisteredKey(path) : path \in UNION {ToSet(CertificatePaths(scope[c])) : c \in Readable(scope)}}

\* Is a credential of this format and type registered at all.
AuthorizesVct(scope, format, vct) ==
  \E c \in DOMAIN scope : scope[c].format = format /\ vct \in scope[c].vcts

-------------------------------------------------------------------------------
(* Purposes *)

Given == <<"given_name">>
Family == <<"family_name">>
Birth == <<"birthdate">>
Over18 == <<"age_equal_or_over", "18">>
Over21 == <<"age_equal_or_over", "21">>
Address(part) == <<"address", part>>

\* The claims a known purpose needs.
Baselines ==
  [age_gate_18   |-> {Over18},
   event_checkin |-> {Given, Family, Over18},
   car_rental    |-> {Given, Family, Over21},
   bank_kyc      |-> {Given, Family, Birth}
                     \cup {Address(a) : a \in {"resident_street", "resident_city",
                                               "resident_postal_code", "resident_country"}}]

KnownBaselines == {"age_gate_18", "event_checkin", "car_rental", "bank_kyc"}

-------------------------------------------------------------------------------
(* The verdict *)

\* An axis that was not evaluated is Unknown.
Unknown == [known |-> FALSE, keys |-> {}]
Axis(keys) == [known |-> TRUE, keys |-> keys]

\* Mutant: a claim within the purpose is fine whatever is registered.
ClaimStatus_PurposeFirst(key, registered, minimal) ==
  IF minimal.known /\ key \in minimal.keys THEN "MinimalForPurpose"
  ELSE IF minimal.known THEN "BeyondPurpose"
  ELSE IF registered.known /\ key \notin registered.keys THEN "BeyondRegistration"
  ELSE "NotEvaluated"

\* Registration outranks purpose.
ClaimStatus(key, registered, minimal) ==
  IF registered.known /\ key \notin registered.keys THEN "BeyondRegistration"
  ELSE IF minimal.known /\ key \notin minimal.keys THEN "BeyondPurpose"
  ELSE IF minimal.known THEN "MinimalForPurpose"
  ELSE "NotEvaluated"

CountOf(keys, registered, minimal, status) ==
  Cardinality({i \in DOMAIN keys : ClaimStatus(keys[i], registered, minimal) = status})

\* Disclosed keys nobody requested.
OverDisclosed(keys, disclosed) == {d \in disclosed : d \notin ToSet(keys)}

Analyze(query, registered, minimal, disclosed) ==
  LET keys == RequestedKeys(query)
      n(status) == CountOf(keys, registered, minimal, status)
  IN [requested          |-> Len(keys),
      beyondRegistration |-> n("BeyondRegistration"),
      beyondPurpose      |-> n("BeyondPurpose"),
      minimal            |-> n("MinimalForPurpose"),
      notEvaluated       |-> n("NotEvaluated"),
      overDisclosed      |-> OverDisclosed(keys, disclosed),
      registrationEvaluated |-> registered.known,
      purposeEvaluated      |-> minimal.known]

HasOverAsk(report) == report.beyondPurpose > 0 \/ report.beyondRegistration > 0

\* The colour of the verdict: no praise for what was not evaluated.
VerdictClass(report) ==
  IF HasOverAsk(report) THEN "over"
  ELSE IF ~report.registrationEvaluated \/ ~report.purposeEvaluated THEN ""
  ELSE "ok"

\* The sentence of the verdict.
VerdictLine(report) ==
  IF report.beyondRegistration > 0 THEN "outside the registered scope"
  ELSE IF report.beyondPurpose > 0 THEN "exceeds the purpose"
  ELSE IF report.requested = 0 THEN "nothing requested"
  ELSE IF report.registrationEvaluated /\ report.purposeEvaluated THEN "minimal"
  ELSE IF report.registrationEvaluated THEN "within registration"
  ELSE IF report.purposeEvaluated THEN "within purpose"
  ELSE "not evaluated"

-------------------------------------------------------------------------------
(* What the workbench generates, and the audit of it *)

PidQuery(paths) == <<Credential(paths)>>

\* A query from claim paths typed by a user: none, or an empty one, is refused.
DcqlFromPaths(paths) ==
  IF paths = <<>> \/ \E i \in DOMAIN paths : paths[i] = <<>> THEN <<>> ELSE PidQuery(paths)

MinimalQuery == PidQuery(<<Given, Family, Over18>>)

OverBroadPaths == <<Given, Family, Birth, Address("resident_street"),
                    Address("resident_city"), <<"nationalities">>>>

\* The registration body of `generate regbody`, as its credentials.
AgeCheckBody(overBroad) == PidQuery(IF overBroad THEN OverBroadPaths ELSE <<Over18>>)

\* The paths a registration body asks for.  One credential without claims, or
\* one segment that is no string, makes the whole body an error.
CollectClaimPaths(credentials) ==
  LET paths == FlattenSeq([c \in DOMAIN credentials |-> BodyPaths(credentials[c])])
  IN [ok |-> /\ \A c \in DOMAIN credentials : credentials[c].has # {}
             /\ \A i \in DOMAIN paths : {Wildcard, Index} \cap ToSet(paths[i]) = {},
      paths |-> paths]

\* A purpose nobody knows is skipped with a note, not an error.
PurposeAxis(purpose) == IF purpose \in KnownBaselines THEN Axis(Baselines[purpose]) ELSE Unknown

ScopeAxis(scope) == IF scope.given THEN Axis(AllClaimKeys(scope.credentials)) ELSE Unknown

AuditReport(query, purpose, scope) == Analyze(query, ScopeAxis(scope), PurposeAxis(purpose), {})

\* The exit code of `audit`.
AuditOk(query, purpose, scope) == ~HasOverAsk(AuditReport(query, purpose, scope))
===============================================================================
