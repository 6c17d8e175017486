------------------------------- MODULE Registrar ------------------------------
(***************************************************************************)
(* The guarded write path of the workbench: `check` gates a registration   *)
(* body, `register` writes it to the local clone or to the sandbox         *)
(* registrar, `list` reads back what is registered.                        *)
(*                                                                         *)
(* A body is a record                                                      *)
(*   rp            its relying party, or NoRp                              *)
(*   hasCredentials, credentials   what it asks for (see OverAsk)          *)
(*   provided, pathString, purposeOk, policyOk   its format, as the        *)
(*                 validator sees it                                       *)
(* A command is a body, the flags yes and force, and a target.             *)
(***************************************************************************)
EXTENDS OverAsk

CONSTANTS
  Commands,   \* the register commands users run, one after another or at once
  Bodies,     \* the bodies they may give
  Targets,    \* where they may write
  MaxTries,   \* how often a command is run again after an error
  NoRp,       \* a body without an rpId
  NoBody      \* a command that was not run yet

ASSUME RegistrarAssumptions ==
  /\ Targets \subseteq {"clone", "cached-sandbox", "sandbox"}
  /\ MaxTries \in Nat \ {0}

ASSUME BodiesAssumption == \A b \in Bodies : b.credentials \in Seq(Credentials)

VARIABLES
  pc,       \* where each command stands
  cmd,      \* what it was called with
  tries,    \* how often it was run
  sent,     \* what it sent over the network: "token" and "post"
  rows      \* the registrations stored, oldest first: target, rp, payload, by

vars == <<pc, cmd, tries, sent, rows>>

Refusals == {"blocked", "refused", "dry", "readonly"}
Ended == Refusals \cup {"failed", "wrote"}
Calls == [body : Bodies, yes : BOOLEAN, force : BOOLEAN, target : Targets]
NoCall == [body |-> NoBody, yes |-> FALSE, force |-> FALSE, target |-> "clone"]

\* The entities the registries may hold.
Entities == [target : {"clone", "sandbox"}, rp : {b.rp : b \in Bodies},
             payload : {b.credentials : b \in Bodies}, by : Commands]

-------------------------------------------------------------------------------
(* The gate *)

\* The findings that block a write, before any claim is looked at.
BlockingFormat(body) ==
  body.provided \/ body.pathString \/ ~body.purposeOk \/ ~body.policyOk

\* The gate can compare what a body asks for only if it can read all of it.
Analysable(body) ==
  /\ ~BlockingFormat(body)
  /\ body.hasCredentials
  /\ CollectClaimPaths(body.credentials).ok
  /\ DcqlFromPaths(CollectClaimPaths(body.credentials).paths) # <<>>

\* The body's own scope is what it is held against, and one purpose.
BodyReport(body) ==
  Analyze(DcqlFromPaths(CollectClaimPaths(body.credentials).paths),
          Axis(AllClaimKeys(body.credentials)), Axis(Baselines["age_gate_18"]), {})

\* A body that cannot be analysed has no report, and no report is no over-ask.
GateOverAsks(body) == Analysable(body) /\ HasOverAsk(BodyReport(body))

ShouldBlock(body) == BlockingFormat(body) \/ GateOverAsks(body)

-------------------------------------------------------------------------------
(* The commands *)

TypeOK ==
  /\ pc \in [Commands -> {"idle", "checked", "urls", "token", "post", "stored"} \cup Ended]
  /\ cmd \in [Commands -> Calls \cup {NoCall}]
  /\ \A c \in Commands : pc[c] # "idle" => cmd[c] \in Calls
  /\ tries \in [Commands -> 0..MaxTries]
  /\ sent \in [Commands -> SUBSET {"token", "post"}]
  /\ rows \in Seq(Entities)

Init ==
  /\ pc = [c \in Commands |-> "idle"]
  /\ cmd = [c \in Commands |-> NoCall]
  /\ tries = [c \in Commands |-> 0]
  /\ sent = [c \in Commands |-> {}]
  /\ rows = <<>>

Goto(c, from, to) == pc[c] = from /\ pc' = [pc EXCEPT ![c] = to]

Run(c) ==
  /\ Goto(c, "idle", "checked")
  /\ \E call \in Calls : cmd' = [cmd EXCEPT ![c] = call]
  /\ tries' = [tries EXCEPT ![c] = 1]
  /\ UNCHANGED <<sent, rows>>

\* A blocking format error ends it, forced or not.
Blocked(c) ==
  /\ Goto(c, "checked", "blocked")
  /\ BlockingFormat(cmd[c].body)
  /\ UNCHANGED <<cmd, tries, sent, rows>>

\* So does an over-ask that is not forced.
Refuse(c) ==
  /\ Goto(c, "checked", "refused")
  /\ ~BlockingFormat(cmd[c].body)
  /\ GateOverAsks(cmd[c].body) /\ ~cmd[c].force
  /\ UNCHANGED <<cmd, tries, sent, rows>>

Passes(call) == ~BlockingFormat(call.body) /\ (GateOverAsks(call.body) => call.force)

\* Without --yes nothing is written.
DryRun(c) ==
  /\ Goto(c, "checked", "dry")
  /\ Passes(cmd[c]) /\ ~cmd[c].yes
  /\ UNCHANGED <<cmd, tries, sent, rows>>

\* The cached sandbox only mirrors reads.
ReadOnly(c) ==
  /\ Goto(c, "checked", "readonly")
  /\ Passes(cmd[c]) /\ cmd[c].yes /\ cmd[c].target = "cached-sandbox"
  /\ UNCHANGED <<cmd, tries, sent, rows>>

\* Mutant: the cached sandbox takes writes.
Confirmed_CacheToo(call) == Passes(call) /\ call.yes

\* Mutant: a command without --yes goes on to the clone.
Confirmed_CloneNeedsNoYes(call) ==
  Passes(call) /\ (call.yes \/ call.target = "clone") /\ call.target # "cached-sandbox"

Confirmed(call) == Passes(call) /\ call.yes /\ call.target # "cached-sandbox"

Begin(c) ==
  /\ Goto(c, "checked", IF cmd[c].target = "sandbox" THEN "urls" ELSE "post")
  /\ Confirmed(cmd[c])
  /\ UNCHANGED <<cmd, tries, sent, rows>>

-------------------------------------------------------------------------------
(* The transport *)

\* The sandbox needs safe URLs, which the environment has or lacks, before the
\* password leaves for its token endpoint.
ValidateUrls(c) ==
  /\ \/ Goto(c, "urls", "token")
     \/ Goto(c, "urls", "failed")
  /\ UNCHANGED <<cmd, tries, sent, rows>>

GetToken(c) ==
  /\ \/ Goto(c, "token", "post")
     \/ Goto(c, "token", "failed")
  /\ sent' = [sent EXCEPT ![c] = @ \cup {"token"}]
  /\ UNCHANGED <<cmd, tries, rows>>

\* The stored entity: the body's payload as it was posted.
Entity(c) == [target |-> cmd[c].target, rp |-> cmd[c].body.rp,
              payload |-> cmd[c].body.credentials, by |-> c]

Accepted(c) == cmd[c].target = "sandbox" \/ cmd[c].body.rp # NoRp

\* The request reaches the registrar, which stores it under a new id.  The
\* answer may still be lost.
Store(c) ==
  /\ Goto(c, "post", "stored")
  /\ Accepted(c)
  /\ sent' = [sent EXCEPT ![c] = @ \cup {"post"}]
  /\ rows' = Append(rows, Entity(c))
  /\ UNCHANGED <<cmd, tries>>

\* Mutant: an error status is reported like a success.
PostFails_StatusIgnored(c) ==
  /\ Goto(c, "post", "wrote")
  /\ sent' = [sent EXCEPT ![c] = @ \cup {"post"}]
  /\ UNCHANGED <<cmd, tries, rows>>

\* The clone refuses a body without an rpId, the sandbox what it likes, and
\* the request may not get there at all.
PostFails(c) ==
  /\ Goto(c, "post", "failed")
  /\ sent' = [sent EXCEPT ![c] = @ \cup {"post"}]
  /\ UNCHANGED <<cmd, tries, rows>>

ReportWritten(c) ==
  /\ Goto(c, "stored", "wrote")
  /\ UNCHANGED <<cmd, tries, sent, rows>>

\* The answer was lost, came after the client's timeout, or was no JSON.
AnswerLost(c) ==
  /\ Goto(c, "stored", "failed")
  /\ UNCHANGED <<cmd, tries, sent, rows>>

\* The user runs a failed command again, as it was.
RunAgain(c) ==
  /\ Goto(c, "failed", "checked")
  /\ tries[c] < MaxTries
  /\ tries' = [tries EXCEPT ![c] = @ + 1]
  /\ sent' = [sent EXCEPT ![c] = {}]
  /\ UNCHANGED <<cmd, rows>>

Done ==
  /\ \A c \in Commands : pc[c] \in Ended
  /\ UNCHANGED vars

Proceed(c) ==
  \/ Blocked(c) \/ Refuse(c) \/ DryRun(c) \/ ReadOnly(c) \/ Begin(c)
  \/ ValidateUrls(c) \/ GetToken(c) \/ Store(c) \/ PostFails(c)
  \/ ReportWritten(c) \/ AnswerLost(c)

Next ==
  \/ \E c \in Commands : Run(c) \/ Proceed(c) \/ RunAgain(c)
  \/ Done

Spec == Init /\ [][Next]_vars

-------------------------------------------------------------------------------
(* Reading back *)

\* What `list` shows of a row: the clone keeps the payload as it was posted.
ListedKeys(row) == AllClaimKeys(row.payload)

\* The rows of a listing, by their ids.
Listing(target, rp) == {i \in DOMAIN rows : rows[i].target = target /\ rows[i].rp = rp}

-------------------------------------------------------------------------------
(* Properties *)

\* A command that says it wrote has its row in the registry it named, in the
\* listing of its relying party: over a lost answer, another command's row and
\* a repeated run.
WroteIsListed ==
  \A c \in Commands : pc[c] = "wrote" =>
    \E i \in Listing(cmd[c].target, cmd[c].body.rp) : rows[i] = Entity(c)

\* A command that sends anything, or has a row in a registry, was confirmed with
\* --yes and its body has a readable format: a refusal and a dry run leave the
\* machine alone, on every run of the command and whatever the others do.
ConfirmedOnly ==
  \A c \in Commands :
    (sent[c] # {} \/ \E i \in DOMAIN rows : rows[i].by = c) =>
      cmd[c].yes /\ ~BlockingFormat(cmd[c].body)

\* A body the gate analysed is registered for all it asks: a request for the
\* same paths, audited against the certificate read back, never goes beyond it
\* unless the body named its claims twice, or a credential of it names no
\* format and is skipped when it is read back.
RegisteredAsAsked ==
  \A i \in DOMAIN rows :
    LET body == cmd[rows[i].by].body IN
    (Analysable(body) /\ \A k \in DOMAIN body.credentials :
                           /\ Cardinality(body.credentials[k].has) = 1
                           /\ body.credentials[k].format # "none")
    => Analyze(PidQuery(CollectClaimPaths(body.credentials).paths),
               Axis(ListedKeys(rows[i])), Unknown, {}).beyondRegistration = 0

\* What a body asks for goes beyond what the purpose needs, by any of its keys.
AsksBeyondPurpose(body) ==
  \E k \in DOMAIN body.credentials :
    \E path \in ToSet(body.credentials[k].claims) \cup ToSet(body.credentials[k].claim) :
      RequestedKey(path) \notin Baselines["age_gate_18"]

\* No over-asking body is written without --force.
UnforcedNeverOverAsks ==
  \A i \in DOMAIN rows :
    AsksBeyondPurpose(cmd[rows[i].by].body) => cmd[rows[i].by].force
===============================================================================
