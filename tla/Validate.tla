------------------------------- MODULE Validate -------------------------------
(***************************************************************************)
(* The linter of DCQL queries.  A query to lint is a record                *)
(*   creds    its credential queries; present, whether it has the array    *)
(*   setsForm "none", "list" or "other"; sets, its credential sets: each   *)
(*            has the form of its options and those, and an option its     *)
(*            form ("list" or "other") and the refs in it                  *)
(* A credential query has an id ("none" if it has none), a format, the     *)
(* form of its claims and those: each the form of its path and the path.   *)
(* A path segment that is no name, no null and no index is Nonsense, and   *)
(* so is a ref that is no string.                                          *)
(***************************************************************************)
EXTENDS OverAsk

Nonsense == "nonsense"

KnownFormats == {"dc+sd-jwt", "vc+sd-jwt", "mso_mdoc", "jwt_vc_json", "ldp_vc"}

Warnings == {"DCQL-CRED-FORMAT-UNKNOWN", "DCQL-PATH-EMPTY"}

When(condition, code) == IF condition THEN {code} ELSE {}

\* A claim may match by its id, so it needs no path.
PathFindings(format, claim) ==
  IF claim.form = "none" THEN {}
  ELSE IF claim.form # "list" THEN {"DCQL-PATH-NOT-ARRAY"}
  ELSE IF format = "mso_mdoc"
  THEN When(Len(claim.path) # 2 \/ {Wildcard, Index, Nonsense} \cap ToSet(claim.path) # {},
            "DCQL-MDOC-PATH")
  ELSE When(Nonsense \in ToSet(claim.path), "DCQL-SDJWT-PATH")
       \cup When(claim.path = <<>>, "DCQL-PATH-EMPTY")

FormatFindings(format) ==
  When(format = "none", "DCQL-CRED-FORMAT-MISSING")
  \cup When(format # "none" /\ format \notin KnownFormats, "DCQL-CRED-FORMAT-UNKNOWN")

\* Mutant: an id that is taken is not noticed.
IdFindings_Repeatable(creds, i) == When(creds[i].id = "none", "DCQL-CRED-ID-MISSING")

IdFindings(creds, i) ==
  When(creds[i].id = "none", "DCQL-CRED-ID-MISSING")
  \cup When(creds[i].id # "none" /\ \E k \in 1..(i - 1) : creds[k].id = creds[i].id,
            "DCQL-CRED-ID-DUPLICATE")

ClaimsFindings(cred) ==
  When(cred.claimsForm = "other", "DCQL-CLAIMS-NOT-ARRAY")
  \cup UNION {PathFindings(cred.format, cred.claims[j]) : j \in DOMAIN cred.claims}

Ids(creds) == {creds[i].id : i \in DOMAIN creds} \ {"none"}

\* A ref that is no string is passed over.
OptionFindings(creds, option) ==
  IF option.form # "list" THEN {"DCQL-SET-OPTION-NOT-ARRAY"}
  ELSE When(~(option.refs \ {Nonsense} \subseteq Ids(creds)), "DCQL-SET-REF-DANGLING")

OptionsFindings(creds, set) ==
  IF set.form # "list" THEN {"DCQL-SET-OPTIONS-MISSING"}
  ELSE UNION {OptionFindings(creds, set.options[k]) : k \in DOMAIN set.options}

SetFindings(query) ==
  When(query.setsForm = "other", "DCQL-SETS-NOT-ARRAY")
  \cup UNION {OptionsFindings(query.creds, query.sets[i]) : i \in DOMAIN query.sets}

\* Without credentials nothing else is looked at.
Findings(query) ==
  IF ~query.present THEN {"DCQL-CREDENTIALS-MISSING"}
  ELSE IF query.creds = <<>> THEN {"DCQL-CREDENTIALS-EMPTY"}
  ELSE SetFindings(query)
       \cup UNION {IdFindings(query.creds, i) \cup FormatFindings(query.creds[i].format)
                   \cup ClaimsFindings(query.creds[i]) : i \in DOMAIN query.creds}

\* The exit code of `validate dcql`: a warning does not block.
ValidQuery(query) == Findings(query) \subseteq Warnings

-------------------------------------------------------------------------------
(* What the workbench generates, as the linter sees it *)

\* A claim path as it is typed, split at its dots and slashes: empty words drop out.
ParseClaimPath(words) == Without(words, "")

ToLint(query) ==
  [present |-> TRUE, setsForm |-> "none", sets |-> <<>>,
   creds |-> [c \in DOMAIN query |->
     [id |-> "pid", format |-> query[c].format, claimsForm |-> "list",
      claims |-> [i \in DOMAIN query[c].claims |->
                    [form |-> "list", path |-> query[c].claims[i]]]]]]

\* `generate dcql`: <<>> when the paths are refused.
GenerateDcql(specs) == DcqlFromPaths([i \in DOMAIN specs |-> ParseClaimPath(specs[i])])
===============================================================================
