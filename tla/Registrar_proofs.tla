---------------------------- MODULE Registrar_proofs ---------------------------
(***************************************************************************)
(* Proofs about Registrar, for any commands, bodies and number of tries.   *)
(***************************************************************************)
EXTENDS Registrar, OverAsk_proofs

-------------------------------------------------------------------------------
(* The inductive invariant *)

\* Where a command is once it passed the gate and its confirmation.
Moving == {"urls", "token", "post", "stored", "wrote", "failed"}

\* A command that moves on was confirmed, and so was one that sent anything or
\* has a row, wherever it stands now: it may have failed and been run again.
Traced ==
  /\ \A c \in Commands : pc[c] \in Moving => Confirmed(cmd[c])
  /\ \A c \in Commands : sent[c] # {} => pc[c] # "idle" /\ Confirmed(cmd[c])
  /\ \A i \in DOMAIN rows : pc[rows[i].by] # "idle" /\ Confirmed(cmd[rows[i].by])

RegistrarInv == TypeOK /\ Traced

-------------------------------------------------------------------------------
(* What the steps of one command have in common *)

\* A row is of a command.
LEMMA RowsOfCommands ==
  ASSUME TypeOK
  PROVE  \A i \in DOMAIN rows : rows[i].by \in Commands
<1>1. \A i \in DOMAIN rows : rows[i] \in Entities
  BY DEF TypeOK
<1>2. ASSUME NEW R, NEW P, NEW e \in [target : {"clone", "sandbox"}, rp : R, payload : P, by : Commands]
      PROVE  e.by \in Commands
  OBVIOUS
<1> QED
  BY <1>1, <1>2 DEF Entities

\* A step that changes nothing keeps the invariant.
LEMMA RegistrarUnchanged ==
  ASSUME RegistrarInv, UNCHANGED vars
  PROVE  RegistrarInv'
BY DEF RegistrarInv, TypeOK, Traced, vars, Confirmed, Passes, GateOverAsks

\* A step that keeps the calls, the tries, the messages and the rows, and moves
\* a command that was run to a place where it may be, keeps the invariant.
LEMMA GotoKeepsInv ==
  ASSUME RegistrarInv, NEW c \in Commands,
         NEW from, NEW to \in {"urls", "token", "post", "stored"} \cup Ended,
         from # "idle", Goto(c, from, to),
         to \in Moving => Confirmed(cmd[c]),
         UNCHANGED <<cmd, tries, sent, rows>>
  PROVE  RegistrarInv'
<1>1. TypeOK'
  BY DEF RegistrarInv, TypeOK, Goto
<1>2. Traced'
  <2>1. \A d \in Commands : pc'[d] = IF d = c THEN to ELSE pc[d]
    BY DEF RegistrarInv, TypeOK, Goto
  <2>2. to # "idle"
    BY DEF Ended, Refusals
  <2>3. \A i \in DOMAIN rows : rows[i].by \in Commands
    BY RowsOfCommands DEF RegistrarInv
  <2> QED
    BY <2>1, <2>2, <2>3 DEF RegistrarInv, Traced
<1> QED
  BY <1>1, <1>2 DEF RegistrarInv

\* The same for a step that also sends something, of a confirmed command.
LEMMA SendKeepsInv ==
  ASSUME RegistrarInv, NEW c \in Commands,
         NEW from \in {"token", "post"}, NEW to \in {"post", "stored", "failed"},
         Goto(c, from, to), NEW what \in {"token", "post"},
         sent' = [sent EXCEPT ![c] = @ \cup {what}],
         UNCHANGED <<cmd, tries, rows>>
  PROVE  RegistrarInv'
<1>1. Confirmed(cmd[c])
  BY DEF RegistrarInv, Traced, Goto, Moving
<1>2. \A d \in Commands : pc'[d] = IF d = c THEN to ELSE pc[d]
  BY DEF RegistrarInv, TypeOK, Goto
<1>3. \A d \in Commands : sent'[d] = IF d = c THEN sent[c] \cup {what} ELSE sent[d]
  BY DEF RegistrarInv, TypeOK
<1>4. TypeOK'
  <2>1. pc' \in [Commands -> {"idle", "checked", "urls", "token", "post", "stored"} \cup Ended]
    BY DEF RegistrarInv, TypeOK, Goto, Ended
  <2>2. sent' \in [Commands -> SUBSET {"token", "post"}]
    BY DEF RegistrarInv, TypeOK
  <2>3. \A d \in Commands : pc'[d] # "idle" => cmd[d] \in Calls
    BY <1>2 DEF RegistrarInv, TypeOK, Goto
  <2> QED
    BY <2>1, <2>2, <2>3 DEF RegistrarInv, TypeOK
<1>5. Traced'
  <2>1. \A i \in DOMAIN rows : rows[i].by \in Commands
    BY RowsOfCommands DEF RegistrarInv
  <2> QED
    BY <1>1, <1>2, <1>3, <2>1 DEF RegistrarInv, Traced
<1> QED
  BY <1>4, <1>5 DEF RegistrarInv

\* The registry that takes a body gains one row, of the command that sent it.
LEMMA StoreKeepsInv ==
  ASSUME RegistrarInv, NEW c \in Commands, Store(c)
  PROVE  RegistrarInv'
<1>1. Confirmed(cmd[c]) /\ cmd[c] \in Calls
  BY DEF RegistrarInv, TypeOK, Traced, Store, Goto, Moving
<1>2. Entity(c) \in Entities
  <2>1. cmd[c].target \in {"clone", "sandbox"}
    BY <1>1, RegistrarAssumptions DEF Calls, Confirmed
  <2> QED
    BY <1>1, <2>1 DEF Entity, Entities, Calls
<1>3. /\ rows' = Append(rows, Entity(c)) /\ rows \in Seq(Entities)
      /\ rows' \in Seq(Entities)
  BY <1>2 DEF RegistrarInv, TypeOK, Store
<1>4. \A i \in DOMAIN rows' : (i \in DOMAIN rows /\ rows'[i] = rows[i]) \/ rows'[i] = Entity(c)
  BY <1>2, <1>3
<1>5. \A d \in Commands : pc'[d] = IF d = c THEN "stored" ELSE pc[d]
  BY DEF RegistrarInv, TypeOK, Store, Goto
<1>6. \A d \in Commands : sent'[d] = IF d = c THEN sent[c] \cup {"post"} ELSE sent[d]
  BY DEF RegistrarInv, TypeOK, Store
<1>7. TypeOK'
  <2>1. pc' \in [Commands -> {"idle", "checked", "urls", "token", "post", "stored"} \cup Ended]
    BY DEF RegistrarInv, TypeOK, Store, Goto
  <2>2. sent' \in [Commands -> SUBSET {"token", "post"}]
    BY DEF RegistrarInv, TypeOK, Store
  <2>3. \A d \in Commands : pc'[d] # "idle" => cmd[d] \in Calls
    BY <1>1, <1>5 DEF RegistrarInv, TypeOK
  <2> QED
    BY <1>3, <2>1, <2>2, <2>3 DEF RegistrarInv, TypeOK, Store
<1>8. Traced'
  <2>1. \A i \in DOMAIN rows : rows[i].by \in Commands
    BY RowsOfCommands DEF RegistrarInv
  <2>2. Entity(c).by = c
    BY DEF Entity
  <2>3. cmd' = cmd
    BY DEF Store
  <2>4. \A i \in DOMAIN rows' : pc'[rows'[i].by] # "idle" /\ Confirmed(cmd[rows'[i].by])
    BY <1>1, <1>4, <1>5, <2>1, <2>2 DEF RegistrarInv, Traced
  <2>5. \A d \in Commands : pc'[d] \in Moving => Confirmed(cmd[d])
    BY <1>1, <1>5 DEF RegistrarInv, Traced
  <2>6. \A d \in Commands : sent'[d] # {} => pc'[d] # "idle" /\ Confirmed(cmd[d])
    BY <1>1, <1>5, <1>6 DEF RegistrarInv, Traced
  <2> QED
    BY <2>3, <2>4, <2>5, <2>6 DEF Traced, Confirmed, Passes, GateOverAsks
<1> QED
  BY <1>7, <1>8 DEF RegistrarInv

-------------------------------------------------------------------------------
(* The invariant is inductive *)

LEMMA InitInv == Init => RegistrarInv
<1> SUFFICES ASSUME Init PROVE RegistrarInv
  OBVIOUS
<1>1. TypeOK
  <2>1. rows \in Seq(Entities) /\ 0 \in 0..MaxTries
    BY RegistrarAssumptions DEF Init
  <2> QED
    BY <2>1 DEF Init, TypeOK
<1>2. Traced
  BY DEF Init, Traced, Moving
<1> QED
  BY <1>1, <1>2 DEF RegistrarInv

\* A command is called: nothing was sent for it and it has no row.
LEMMA RunKeepsInv ==
  ASSUME RegistrarInv, NEW c \in Commands, Run(c)
  PROVE  RegistrarInv'
<1> PICK call \in Calls : cmd' = [cmd EXCEPT ![c] = call]
  BY DEF Run
<1>1. \A d \in Commands : /\ pc'[d] = IF d = c THEN "checked" ELSE pc[d]
                          /\ cmd'[d] = IF d = c THEN call ELSE cmd[d]
  BY DEF RegistrarInv, TypeOK, Run, Goto
<1>2. pc[c] = "idle"
  BY DEF Run, Goto
<1>3. TypeOK'
  <2>1. pc' \in [Commands -> {"idle", "checked", "urls", "token", "post", "stored"} \cup Ended]
    BY DEF RegistrarInv, TypeOK, Run, Goto
  <2>2. cmd' \in [Commands -> Calls \cup {NoCall}]
    BY DEF RegistrarInv, TypeOK
  <2>3. tries' \in [Commands -> 0..MaxTries]
    BY RegistrarAssumptions DEF RegistrarInv, TypeOK, Run
  <2> QED
    BY <1>1, <2>1, <2>2, <2>3 DEF RegistrarInv, TypeOK, Run
<1>4. Traced'
  <2>1. \A d \in Commands : pc'[d] \in Moving => Confirmed(cmd'[d])
    BY <1>1 DEF RegistrarInv, Traced, Moving
  <2>2. \A d \in Commands : sent[d] # {} => pc'[d] # "idle" /\ Confirmed(cmd'[d])
    BY <1>1, <1>2 DEF RegistrarInv, Traced
  <2>3. \A i \in DOMAIN rows : rows[i].by \in Commands /\ rows[i].by # c
    BY <1>2, RowsOfCommands DEF RegistrarInv, Traced
  <2>4. \A i \in DOMAIN rows : pc'[rows[i].by] # "idle" /\ Confirmed(cmd'[rows[i].by])
    BY <1>1, <2>3 DEF RegistrarInv, Traced
  <2>5. sent' = sent /\ rows' = rows
    BY DEF Run
  <2> QED
    BY <2>1, <2>2, <2>4, <2>5 DEF Traced, Confirmed, Passes, GateOverAsks
<1> QED
  BY <1>3, <1>4 DEF RegistrarInv

\* A failed command is run again: its messages are forgotten, its rows stay.
LEMMA RunAgainKeepsInv ==
  ASSUME RegistrarInv, NEW c \in Commands, RunAgain(c)
  PROVE  RegistrarInv'
<1>1. \A d \in Commands : /\ pc'[d] = IF d = c THEN "checked" ELSE pc[d]
                          /\ sent'[d] = IF d = c THEN {} ELSE sent[d]
  BY DEF RegistrarInv, TypeOK, RunAgain, Goto
<1>2. Confirmed(cmd[c])
  BY DEF RegistrarInv, Traced, RunAgain, Goto, Moving
<1>3. TypeOK'
  <2>1. pc' \in [Commands -> {"idle", "checked", "urls", "token", "post", "stored"} \cup Ended]
    BY DEF RegistrarInv, TypeOK, RunAgain, Goto
  <2>2. sent' \in [Commands -> SUBSET {"token", "post"}]
    BY DEF RegistrarInv, TypeOK, RunAgain
  <2>3. tries' \in [Commands -> 0..MaxTries]
    BY RegistrarAssumptions DEF RegistrarInv, TypeOK, RunAgain
  <2>4. \A d \in Commands : pc'[d] # "idle" => cmd[d] \in Calls
    BY <1>1 DEF RegistrarInv, TypeOK, RunAgain, Goto
  <2> QED
    BY <2>1, <2>2, <2>3, <2>4 DEF RegistrarInv, TypeOK, RunAgain
<1>4. Traced'
  <2>1. cmd' = cmd /\ rows' = rows
    BY DEF RunAgain
  <2>2. \A i \in DOMAIN rows : rows[i].by \in Commands
    BY RowsOfCommands DEF RegistrarInv
  <2> QED
    BY <1>1, <1>2, <2>1, <2>2
       DEF RegistrarInv, Traced, Moving, Confirmed, Passes, GateOverAsks
<1> QED
  BY <1>3, <1>4 DEF RegistrarInv

\* Every step of a command that was run keeps the invariant.
LEMMA ProceedKeepsInv ==
  ASSUME RegistrarInv, NEW c \in Commands, Proceed(c)
  PROVE  RegistrarInv'
<1>1. CASE Blocked(c)
  BY <1>1, GotoKeepsInv DEF Blocked, Ended, Refusals, Moving
<1>2. CASE Refuse(c)
  BY <1>2, GotoKeepsInv DEF Refuse, Ended, Refusals, Moving
<1>3. CASE DryRun(c)
  BY <1>3, GotoKeepsInv DEF DryRun, Ended, Refusals, Moving
<1>4. CASE ReadOnly(c)
  BY <1>4, GotoKeepsInv DEF ReadOnly, Ended, Refusals, Moving
<1>5. CASE Begin(c)
  BY <1>5, GotoKeepsInv DEF Begin
<1>6. CASE ValidateUrls(c)
  <2>1. Confirmed(cmd[c])
    BY <1>6 DEF ValidateUrls, Goto, RegistrarInv, Traced, Moving
  <2> QED
    BY <1>6, <2>1, GotoKeepsInv DEF ValidateUrls, Ended
<1>7. CASE GetToken(c)
  BY <1>7, SendKeepsInv DEF GetToken
<1>8. CASE Store(c)
  BY <1>8, StoreKeepsInv
<1>9. CASE PostFails(c)
  BY <1>9, SendKeepsInv DEF PostFails
<1>10. CASE ReportWritten(c) \/ AnswerLost(c)
  <2>1. Confirmed(cmd[c])
    BY <1>10 DEF ReportWritten, AnswerLost, Goto, RegistrarInv, Traced, Moving
  <2> QED
    BY <1>10, <2>1, GotoKeepsInv DEF ReportWritten, AnswerLost, Ended
<1> QED
  BY <1>1, <1>2, <1>3, <1>4, <1>5, <1>6, <1>7, <1>8, <1>9, <1>10 DEF Proceed

LEMMA StepInv == RegistrarInv /\ [Next]_vars => RegistrarInv'
<1> SUFFICES ASSUME RegistrarInv, [Next]_vars PROVE RegistrarInv'
  OBVIOUS
<1>1. CASE Next
  BY <1>1, RunKeepsInv, RunAgainKeepsInv, ProceedKeepsInv, RegistrarUnchanged DEF Next, Done
<1>2. CASE UNCHANGED vars
  BY <1>2, RegistrarUnchanged
<1> QED
  BY <1>1, <1>2

THEOREM RegistrarInvariant == Spec => []RegistrarInv
BY InitInv, StepInv, PTL DEF Spec

-------------------------------------------------------------------------------
(* The theorems *)

\* The commands, what they sent and the registries keep their types: only the
\* clone and the sandbox ever hold a row, whatever target was asked for.
THEOREM RegistrarTyped == Spec => []TypeOK
BY RegistrarInvariant, PTL DEF RegistrarInv

LEMMA InvConfirms == RegistrarInv => ConfirmedOnly
BY DEF RegistrarInv, Traced, ConfirmedOnly, Confirmed, Passes

\* Whatever sends anything or has a row was confirmed with --yes and has no
\* blocking format error: register.rs writes nothing before its checks, however
\* many commands run at once and however often they are run again.
THEOREM WritesAreConfirmed == Spec => []ConfirmedOnly
BY RegistrarInvariant, InvConfirms, PTL

-------------------------------------------------------------------------------
(* What the registries remember *)

\* A row is what its command called for, though the command may be run again by
\* now, and a command whose body was stored has a row.
Remembered ==
  /\ \A i \in DOMAIN rows : rows[i] = Entity(rows[i].by)
  /\ \A c \in Commands : pc[c] \in {"stored", "wrote"} => \E i \in DOMAIN rows : rows[i] = Entity(c)

\* A step that leaves the rows and the calls behind them alone, and stores nothing.
LEMMA RowsStay ==
  ASSUME RegistrarInv, Remembered, rows' = rows,
         \A d \in Commands : pc[d] # "idle" => cmd'[d] = cmd[d],
         \A d \in Commands : pc'[d] \in {"stored", "wrote"} => pc[d] \in {"stored", "wrote"}
  PROVE  Remembered'
<1>1. \A i \in DOMAIN rows : rows[i].by \in Commands /\ pc[rows[i].by] # "idle"
  BY RowsOfCommands DEF RegistrarInv, Traced
<1>2. \A d \in Commands : pc[d] # "idle" => Entity(d)' = Entity(d)
  BY DEF Entity
<1> QED
  BY <1>1, <1>2 DEF Remembered

LEMMA StoreIsRemembered ==
  ASSUME RegistrarInv, Remembered, NEW c \in Commands, Store(c)
  PROVE  Remembered'
<1> DEFINE new == Entity(c)
<1>1. cmd' = cmd /\ rows' = Append(rows, new)
  BY DEF Store
<1>2. \A d : Entity(d)' = Entity(d)
  BY <1>1 DEF Entity
<1>3. new.by = c
  BY DEF Entity
<1> HIDE DEF new
<1>4. rows \in Seq(Entities)
  BY DEF RegistrarInv, TypeOK
<1>5. /\ \A i \in DOMAIN rows : i \in DOMAIN rows' /\ rows'[i] = rows[i]
      /\ Len(rows) + 1 \in DOMAIN rows' /\ rows'[Len(rows) + 1] = new
      /\ \A i \in DOMAIN rows' : i \in DOMAIN rows \/ rows'[i] = new
  BY <1>1, <1>4
<1>6. \A d \in Commands : d # c => pc'[d] = pc[d]
  BY DEF RegistrarInv, TypeOK, Store, Goto
<1>7. \A i \in DOMAIN rows' : rows'[i] = Entity(rows'[i].by)
  BY <1>3, <1>5 DEF Remembered, new
<1>8. \A d \in Commands : pc'[d] \in {"stored", "wrote"} =>
        \E i \in DOMAIN rows' : rows'[i] = Entity(d)
  <2> SUFFICES ASSUME NEW d \in Commands, pc'[d] \in {"stored", "wrote"}
               PROVE  \E i \in DOMAIN rows' : rows'[i] = Entity(d)
    OBVIOUS
  <2>1. CASE d = c
    BY <1>5, <2>1 DEF new
  <2>2. CASE d # c
    BY <1>5, <1>6, <2>2 DEF Remembered
  <2> QED
    BY <2>1, <2>2
<1> QED
  BY <1>2, <1>7, <1>8 DEF Remembered

LEMMA RememberedStep == RegistrarInv /\ Remembered /\ [Next]_vars => Remembered'
<1> SUFFICES ASSUME RegistrarInv, Remembered, [Next]_vars PROVE Remembered'
  OBVIOUS
<1>1. CASE UNCHANGED vars
  BY <1>1, RowsStay DEF vars
<1>2. ASSUME NEW c \in Commands, Run(c) PROVE Remembered'
  <2>1. rows' = rows /\ pc[c] = "idle"
    BY <1>2 DEF Run, Goto
  <2>2. \A d \in Commands : d # c => cmd'[d] = cmd[d] /\ pc'[d] = pc[d]
    BY <1>2 DEF Run, Goto, RegistrarInv, TypeOK
  <2>3. pc'[c] = "checked"
    BY <1>2 DEF Run, Goto, RegistrarInv, TypeOK
  <2> QED
    BY <2>1, <2>2, <2>3, RowsStay
<1>3. ASSUME NEW c \in Commands, RunAgain(c) PROVE Remembered'
  <2>1. rows' = rows /\ cmd' = cmd
    BY <1>3 DEF RunAgain
  <2>2. \A d \in Commands : pc'[d] = IF d = c THEN "checked" ELSE pc[d]
    BY <1>3 DEF RunAgain, Goto, RegistrarInv, TypeOK
  <2> QED
    BY <2>1, <2>2, RowsStay
<1>4. ASSUME NEW c \in Commands, Proceed(c) PROVE Remembered'
  <2>1. CASE Store(c)
    BY <2>1, StoreIsRemembered
  <2>2. ASSUME NEW from, NEW to, Goto(c, from, to), to = "wrote" => from = "stored", to # "stored",
               rows' = rows, cmd' = cmd
        PROVE  Remembered'
    <3>1. pc[c] = from /\ \A d \in Commands : pc'[d] = IF d = c THEN to ELSE pc[d]
      BY <2>2 DEF Goto, RegistrarInv, TypeOK
    <3> QED
      BY <2>2, <3>1, RowsStay
  <2>3. CASE Blocked(c) \/ Refuse(c) \/ DryRun(c) \/ ReadOnly(c)
    BY <2>2, <2>3 DEF Blocked, Refuse, DryRun, ReadOnly
  <2>4. CASE Begin(c)
    BY <2>2, <2>4 DEF Begin
  <2>5. CASE ValidateUrls(c) \/ GetToken(c) \/ PostFails(c)
    BY <2>2, <2>5 DEF ValidateUrls, GetToken, PostFails
  <2>6. CASE ReportWritten(c) \/ AnswerLost(c)
    BY <2>2, <2>6 DEF ReportWritten, AnswerLost
  <2> QED
    BY <1>4, <2>1, <2>3, <2>4, <2>5, <2>6 DEF Proceed
<1> QED
  BY <1>1, <1>2, <1>3, <1>4 DEF Next, Done

THEOREM RegistriesRemember == Spec => []Remembered
<1>1. Init => Remembered
  BY DEF Init, Remembered
<1> QED
  BY <1>1, RegistrarInvariant, RememberedStep, PTL DEF Spec

LEMMA RememberedIsListed == Remembered => WroteIsListed
<1> SUFFICES ASSUME Remembered, NEW c \in Commands, pc[c] = "wrote"
             PROVE  \E i \in Listing(cmd[c].target, cmd[c].body.rp) : rows[i] = Entity(c)
  BY DEF WroteIsListed
<1> PICK i \in DOMAIN rows : rows[i] = Entity(c)
  BY DEF Remembered
<1>1. Entity(c).target = cmd[c].target /\ Entity(c).rp = cmd[c].body.rp
  BY DEF Entity
<1> QED
  BY <1>1 DEF Listing

\* http_target.rs 35-66, clone_server.rs 69-131: a command that says it wrote has
\* its row in the listing of its relying party, whatever answers were lost and
\* however many commands were run, and run again, at once.
THEOREM WritesAreListed == Spec => []WroteIsListed
BY RegistriesRemember, RememberedIsListed, PTL

LEMMA RowsAuthorize == RegistrarInv /\ Remembered => RegisteredAsAsked
<1> SUFFICES ASSUME RegistrarInv, Remembered, NEW i \in DOMAIN rows,
                    NEW body, body = cmd[rows[i].by].body, Analysable(body),
                    \A k \in DOMAIN body.credentials :
                      Cardinality(body.credentials[k].has) = 1 /\ body.credentials[k].format # "none"
             PROVE  Analyze(PidQuery(CollectClaimPaths(body.credentials).paths),
                            Axis(ListedKeys(rows[i])), Unknown, {}).beyondRegistration = 0
  BY DEF RegisteredAsAsked
<1>1. rows[i].by \in Commands /\ pc[rows[i].by] # "idle"
  BY RowsOfCommands DEF RegistrarInv, Traced
<1>2. body \in Bodies
  <2>1. cmd[rows[i].by] \in Calls
    BY <1>1 DEF RegistrarInv, TypeOK
  <2> QED
    BY <2>1 DEF Calls
<1>3. ListedKeys(rows[i]) = AllClaimKeys(body.credentials)
  <2>1. rows[i] = Entity(rows[i].by)
    BY DEF Remembered
  <2>2. Entity(rows[i].by).payload = body.credentials
    BY DEF Entity
  <2> QED
    BY <2>1, <2>2 DEF ListedKeys
<1>4. body.credentials \in Seq(Credentials)
  BY <1>2, BodiesAssumption
<1>5. CollectClaimPaths(body.credentials).ok
  BY DEF Analysable
<1> QED
  BY <1>3, <1>4, <1>5, BodyAuthorizesItself

\* checkbody.rs 82-115, regcert.rs 144-184: what the gate could analyse is
\* registered for all it asks, for any body with one key of claims and a format
\* in each credential, however long its paths are.
THEOREM RegistersWhatIsAsked == Spec => []RegisteredAsAsked
BY RegistrarInvariant, RegistriesRemember, RowsAuthorize, PTL
===============================================================================
