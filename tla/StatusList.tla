------------------------------ MODULE StatusList ------------------------------
(***************************************************************************)
(* Token status lists: the reference a credential carries, and what a      *)
(* fetched statuslist+jwt says about it.  A token is a record              *)
(*   signer  the key that signed it                                        *)
(*   typ     "statuslist+jwt" or another type                              *)
(*   shape   "ok", or what is wrong with its payload                       *)
(*   padding how its base64 is padded: "none", "full" or "wrong"           *)
(*   bits    the decoded list: a sequence of status values                 *)
(* A reference is an index (counted from 0), or NoRef when the credential  *)
(* has none or a malformed one.                                            *)
(***************************************************************************)
EXTENDS Trust

NoRef == -1

\* A malformed reference reads as no reference.
StatusRef(claim) == IF claim.shape = "ok" THEN claim.idx ELSE NoRef

StatusValues == [VALID |-> 0, INVALID |-> 1, SUSPENDED |-> 2]

\* Missing padding is added before the list is decoded.
Decodes(token) == token.shape = "ok" /\ token.padding \in {"none", "full"}

BitVerdict(bits, idx) ==
  IF idx + 1 \notin DOMAIN bits THEN "StatusListUnavailable"
  ELSE IF bits[idx + 1] = StatusValues.VALID THEN "Valid"
  ELSE IF bits[idx + 1] = StatusValues.INVALID THEN "Revoked"
  ELSE IF bits[idx + 1] = StatusValues.SUSPENDED THEN "Suspended"
  ELSE "StatusListUnavailable"

\* The signature decides first: an untrusted token is not even decoded.
CheckStatusListToken(token, signer, idx) ==
  IF token.signer # signer THEN "StatusListUntrusted"
  ELSE IF token.typ # "statuslist+jwt" \/ ~Decodes(token) THEN "StatusListUnavailable"
  ELSE BitVerdict(token.bits, idx)
===============================================================================
