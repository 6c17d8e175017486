------------------------------ MODULE MCRegistrar -----------------------------
EXTENDS Registrar, TLC

CONSTANT Rp

Body(credentials) ==
  [rp |-> Rp, hasCredentials |-> TRUE, credentials |-> credentials, provided |-> FALSE,
   pathString |-> FALSE, purposeOk |-> TRUE, policyOk |-> TRUE]

Minimal == Body(AgeCheckBody(FALSE))
OverBroad == Body(AgeCheckBody(TRUE))

Keyed(keys, claims, claim) ==
  Body(<<[Credential(claims) EXCEPT !.has = keys, !.claim = claim]>>)

Symmetry == Permutations(Commands)

\* The generated bodies and one for each way the format or the claims differ:
\* the singular key, both keys, a wildcard, nothing asked, no format.
AllBodies ==
  {Minimal, OverBroad,
   [OverBroad EXCEPT !.purposeOk = FALSE],
   [Minimal EXCEPT !.policyOk = FALSE],
   [Minimal EXCEPT !.rp = NoRp],
   Keyed({"claim"}, <<>>, <<Over18>>),
   Keyed({"claims", "claim"}, <<Over18>>, OverBroadPaths),
   Keyed({"claims", "claim"}, OverBroadPaths, <<Over18>>),
   Keyed({"claims"}, <<Over18, <<"nationalities", Wildcard>>>>, <<>>),
   Keyed({}, <<>>, <<>>),
   Body(<<[Credential(<<Over18>>) EXCEPT !.format = "none"]>>),
   [Minimal EXCEPT !.hasCredentials = FALSE, !.credentials = <<>>]}

\* Bodies that ask for more than an age check, each in its own way.
GreedyBodies ==
  {OverBroad, Keyed({"claims"}, <<Over18, Birth, <<"nationalities", Wildcard>>>>, <<>>)}
===============================================================================
