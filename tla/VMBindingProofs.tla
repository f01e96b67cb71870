---------------------------- MODULE VMBindingProofs ----------------------------
(* Theorems about VMBinding for any messages and addresses. *)
EXTENDS VMBinding, TLAPS

-----------------------------------------------------------------------------
(* Types *)

LEMMA WrittenTypes ==
    \A s \in Statuses, a \in MaybeAddress :
        BridgeRec(s, a) \in Records /\ OrchRec(s, a) \in Records /\ Info(s, a) \in Answers
BY DEF BridgeRec, OrchRec, Info, Records, Answers, Passwords

LEMMA AnswerTypes ==
    /\ Done \in Answers /\ Error \in Answers
    /\ \A a \in Answers : a.ok \in BOOLEAN /\ a.status \in Statuses /\ a.addr \in MaybeAddress
BY DEF Done, Error, Answers, Statuses, MaybeAddress

LEMMA ReadTypes ==
    \A r \in Records :
        /\ r # None /\ r.status \in Statuses /\ r.addr \in MaybeAddress
        /\ WebhookUrl(r) \in MaybeAddress /\ VMAddr(r) \in MaybeAddress
BY NoneAssumption DEF Records, MaybeAddress, WebhookUrl, VMAddr

LEMMA ChangedTypes ==
    \A r \in Records :
        /\ \A s \in Statuses : [r EXCEPT !.status = s] \in Records
        /\ [r EXCEPT !.pass = "new"] \in Records
BY DEF Records, Passwords

\* A handler that is about to use a record has one, and one about to call has a command.
Holding ==
    \A b \in Messages :
        /\ pc[b] = "put" => got[b] \in Records
        /\ pc[b] \in {"get", "put"} /\ want[b] = "running" => seen[b] \in Records
        /\ pc[b] = "forward" => seen[b] \in Records
        /\ pc[b] \in {"get", "put"} /\ want[b] = "provisioning" => cmd[b] = "restart"
        /\ pc[b] = "call" => cmd[b] # "text"
        /\ opc[b] \in {"save1", "savefail", "ssave", "dial", "psave"} => held[b] \in Records

\* A step of b that leaves what b holds, and where others are, alone.
LEMMA HoldingKept ==
    ASSUME TypeOK, Holding, NEW b \in Messages,
           \A c \in Messages \ {b} :
                /\ pc'[c] = pc[c] /\ cmd'[c] = cmd[c] /\ got'[c] = got[c] /\ want'[c] = want[c]
                /\ seen'[c] = seen[c] /\ opc'[c] = opc[c] /\ held'[c] = held[c],
           pc'[b] = "put" => got'[b] \in Records,
           pc'[b] \in {"get", "put"} /\ want'[b] = "running" => seen'[b] \in Records,
           pc'[b] = "forward" => seen'[b] \in Records,
           pc'[b] \in {"get", "put"} /\ want'[b] = "provisioning" => cmd'[b] = "restart",
           pc'[b] = "call" => cmd'[b] # "text",
           opc'[b] \in {"save1", "savefail", "ssave", "dial", "psave"} => held'[b] \in Records
    PROVE  Holding'
BY DEF Holding

LEMMA TypeInit == Init => TypeOK /\ Holding
<1> SUFFICES ASSUME Init PROVE TypeOK /\ Holding
  OBVIOUS
<1>1. lost \in BOOLEAN /\ cancelled \subseteq Messages /\ rec \in Records \cup {None}
  BY DEF Init
<1>2. vm \in MaybeAddress /\ guestPass \in Passwords
  BY DEF Init, MaybeAddress, Passwords
<1>3. /\ pc \in [Messages -> Pcs] /\ cmd \in [Messages -> AllCommands]
      /\ opc \in [Messages -> OPcs] /\ want \in [Messages -> Statuses]
  BY DEF Init, Pcs, AllCommands, OPcs, Statuses
<1>4. /\ seen \in [Messages -> Records \cup {None}] /\ got \in [Messages -> Records \cup {None}]
      /\ held \in [Messages -> Records \cup {None}] /\ reply \in [Messages -> Answers \cup {None}]
      /\ sent \in [Messages -> MaybeAddress]
  BY DEF Init, MaybeAddress
<1>5. Holding
  BY DEF Init, Holding
<1> QED BY <1>1, <1>2, <1>3, <1>4, <1>5 DEF TypeOK

\* The steps of the bridge.
LEMMA BridgeTyped ==
    ASSUME TypeOK, Holding, NEW b \in Messages, BridgeStep(b)
    PROVE  TypeOK' /\ Holding'
<1> USE DEF At, To, OAt, OTo, SetBinding, DeleteBinding, Update, orchVars
<1>1. CASE Route(b)
  <2>1. /\ pc' \in [Messages -> Pcs] /\ want' \in [Messages -> Statuses]
        /\ cmd' \in [Messages -> AllCommands]
    BY <1>1 DEF Route, TypeOK, Pcs, Statuses, AllCommands
  <2>2. seen' \in [Messages -> Records \cup {None}]
    BY <1>1 DEF Route, TypeOK
  <2>3. Holding'
    <3>1. pc'[b] \in {"get", "put"} /\ want'[b] = "running" => rec \in Records
      BY <1>1 DEF Route, TypeOK, Reads
    <3>2. pc'[b] # "put" /\ pc'[b] # "forward" /\ seen'[b] = rec
      BY <1>1 DEF Route, TypeOK
    <3> QED BY <1>1, <3>1, <3>2, HoldingKept DEF Route, TypeOK, Holding
  <2> QED BY <1>1, <2>1, <2>2, <2>3 DEF Route, TypeOK
<1>2. CASE SetInitial(b)
  <2>1. rec' \in Records
    BY <1>2, WrittenTypes DEF SetInitial, Statuses, MaybeAddress
  <2>2. pc' \in [Messages -> Pcs] /\ cmd' \in [Messages -> AllCommands]
    BY <1>2 DEF SetInitial, TypeOK, Pcs, AllCommands
  <2>3. Holding'
    BY <1>2, HoldingKept DEF SetInitial, TypeOK, Holding
  <2> QED BY <1>2, <2>1, <2>2, <2>3 DEF SetInitial, TypeOK
<1>3. CASE GetBinding(b)
  <2>1. AfterUpdate(b) \in Pcs /\ "put" \in Pcs
    BY DEF AfterUpdate, Pcs
  <2>2. pc' \in [Messages -> Pcs] /\ got' \in [Messages -> Records \cup {None}]
    BY <1>3, <2>1 DEF GetBinding, TypeOK
  <2>3. Holding'
    <3>1. pc'[b] = IF rec = None THEN AfterUpdate(b) ELSE "put"
      BY <1>3 DEF GetBinding, TypeOK
    <3>2. got'[b] = rec /\ rec \in Records \cup {None}
      BY <1>3 DEF GetBinding, TypeOK
    <3>3. AfterUpdate(b) \in {"call", "forward", "idle"}
          /\ (AfterUpdate(b) = "forward" => want[b] = "running")
          /\ (AfterUpdate(b) = "call" => want[b] = "provisioning")
      BY DEF AfterUpdate
    <3>4. want[b] = "running" => seen[b] \in Records
      BY <1>3 DEF GetBinding, Holding
    <3> QED BY <1>3, <3>1, <3>2, <3>3, <3>4, HoldingKept DEF GetBinding, TypeOK, Holding
  <2> QED BY <1>3, <2>2, <2>3 DEF GetBinding, TypeOK
<1>4. CASE PutBinding(b)
  <2>1. AfterUpdate(b) \in Pcs /\ AfterUpdate(b) \in {"call", "forward", "idle"}
        /\ (AfterUpdate(b) = "forward" => want[b] = "running")
        /\ (AfterUpdate(b) = "call" => want[b] = "provisioning")
    BY DEF AfterUpdate, Pcs
  <2>2. rec' = [got[b] EXCEPT !.status = want[b]] /\ want[b] \in Statuses /\ got[b] \in Records
    BY <1>4 DEF PutBinding, TypeOK, Holding
  <2>3. rec' \in Records
    BY <2>2, ChangedTypes
  <2>4. pc' \in [Messages -> Pcs] /\ got' \in [Messages -> Records \cup {None}]
    BY <1>4, <2>1 DEF PutBinding, TypeOK
  <2>5. Holding'
    <3>1. pc'[b] = AfterUpdate(b) /\ (want[b] = "running" => seen[b] \in Records)
      BY <1>4 DEF PutBinding, TypeOK, Holding
    <3> QED BY <1>4, <2>1, <3>1, HoldingKept DEF PutBinding, TypeOK, Holding
  <2> QED BY <1>4, <2>3, <2>4, <2>5 DEF PutBinding, TypeOK
<1>5. CASE Forward(b)
  <2>1. Target(b) \in MaybeAddress
    BY <1>5, ReadTypes DEF Forward, Target, Holding
  <2>2. pc' \in [Messages -> Pcs] /\ sent' \in [Messages -> MaybeAddress]
    BY <1>5, <2>1 DEF Forward, TypeOK, Pcs
  <2>3. Holding'
    BY <1>5, HoldingKept DEF Forward, TypeOK, Holding
  <2> QED BY <1>5, <2>2, <2>3 DEF Forward, TypeOK
<1>6. CASE CallOrchestrator(b)
  <2>1. pc' \in [Messages -> Pcs]
    BY <1>6 DEF CallOrchestrator, TypeOK, Pcs
  <2>2. cmd[b] \in {"subscribe", "restart", "stop", "destroy", "passwd"}
    BY <1>6 DEF CallOrchestrator, Holding, TypeOK, AllCommands
  <2>3. PICK place \in {"check", "unregister", "running", "pread"} :
            opc' = [opc EXCEPT ![b] = place]
    BY <1>6, <2>2 DEF CallOrchestrator
  <2>4. opc' \in [Messages -> OPcs]
    BY <2>3 DEF TypeOK, OPcs
  <2>5. Holding'
    <3>1. pc'[b] = "awaiting" /\ opc'[b] = place
      BY <1>6, <2>3 DEF CallOrchestrator, TypeOK
    <3> QED BY <1>6, <2>3, <3>1, HoldingKept DEF CallOrchestrator, TypeOK, Holding
  <2> QED BY <1>6, <2>1, <2>4, <2>5 DEF CallOrchestrator, TypeOK
<1>7. ASSUME NEW ok \in BOOLEAN, Answered(b, ok)
      PROVE  /\ reply' \in [Messages -> Answers \cup {None}] /\ reply[b] \in Answers
             /\ pc[b] = "awaiting"
  BY <1>7 DEF Answered, TypeOK
<1>8. ASSUME NEW ok \in BOOLEAN, Answered(b, ok), Ends(b)
      PROVE  pc' \in [Messages -> Pcs] /\ Holding'
  BY <1>8, HoldingKept DEF Answered, Ends, TypeOK, Pcs, Holding
<1>9. ASSUME NEW ok \in BOOLEAN, Answered(b, ok), NEW s \in {"stopped", "error"}, Update(b, s)
      PROVE  /\ pc' \in [Messages -> Pcs] /\ want' \in [Messages -> Statuses] /\ Holding'
  <2>1. pc' \in [Messages -> Pcs] /\ want' \in [Messages -> Statuses]
    BY <1>9 DEF TypeOK, Pcs, Statuses
  <2>2. pc'[b] = "get" /\ want'[b] = s
    BY <1>9 DEF TypeOK
  <2>3. Holding'
    BY <1>9, <2>2, HoldingKept DEF Answered, TypeOK, Holding
  <2> QED BY <2>1, <2>3
<1>10. CASE ProvisionDone(b) \/ RestartDone(b)
  <2>1. rec' \in Records
    <3>1. reply[b].addr \in MaybeAddress
      BY <1>7, <1>10, AnswerTypes DEF ProvisionDone, RestartDone
    <3>2. \E s \in Statuses : rec' = BridgeRec(s, reply[b].addr)
      BY <1>10 DEF ProvisionDone, RestartDone, Bound, Statuses
    <3> QED BY <3>1, <3>2, WrittenTypes
  <2>2. Answered(b, TRUE) /\ Ends(b)
    BY <1>10 DEF ProvisionDone, RestartDone
  <2> QED BY <2>1, <2>2, <1>7, <1>8 DEF TypeOK, Answered, Ends
<1>11. CASE DestroyDone(b) \/ PasswdDone(b) \/ CommandFailed(b)
  <2>1. \E ok \in BOOLEAN : Answered(b, ok) /\ Ends(b) /\ rec' \in {rec, None}
    BY <1>11 DEF DestroyDone, PasswdDone, CommandFailed
  <2> QED BY <2>1, <1>7, <1>8 DEF TypeOK, Answered, Ends
<1>12. CASE StopDone(b) \/ ProvisionFailed(b) \/ RestartFailed(b)
  <2>1. \E ok \in BOOLEAN, s \in {"stopped", "error"} :
            Answered(b, ok) /\ Update(b, s) /\ rec' = rec
    BY <1>12 DEF StopDone, ProvisionFailed, RestartFailed, Failed
  <2>2. PICK ok \in BOOLEAN, s \in {"stopped", "error"} :
            Answered(b, ok) /\ Update(b, s) /\ rec' = rec
    BY <2>1
  <2>3. /\ pc' \in [Messages -> Pcs] /\ want' \in [Messages -> Statuses] /\ Holding'
    BY <2>2, <1>9
  <2> QED BY <2>2, <2>3, <1>7 DEF TypeOK, Answered
<1> QED BY <1>1, <1>2, <1>3, <1>4, <1>5, <1>6, <1>10, <1>11, <1>12 DEF BridgeStep

\* The three ways in which a step of the orchestrator ends.
LEMMA OrchEnds ==
    ASSUME TypeOK, Holding, NEW b \in Messages, UNCHANGED bridgeVars,
           \/ \E a \in Answers : Answer(b, a)
           \/ \E place \in OPcs \ {"save1", "savefail", "ssave", "dial", "psave"} : GoOn(b, place)
           \/ \E place \in OPcs, r \in Records : Hold(b, r, place)
    PROVE  /\ opc' \in [Messages -> OPcs] /\ held' \in [Messages -> Records \cup {None}]
           /\ reply' \in [Messages -> Answers \cup {None}] /\ cancelled' \subseteq Messages
           /\ Holding'
<1> USE DEF OTo, bridgeVars
<1>1. ASSUME NEW a \in Answers, Answer(b, a)
      PROVE  /\ opc' \in [Messages -> OPcs] /\ held' \in [Messages -> Records \cup {None}]
             /\ reply' \in [Messages -> Answers \cup {None}] /\ cancelled' \subseteq Messages
             /\ Holding'
  <2>1. "none" \in OPcs
    BY DEF OPcs
  <2>2. /\ opc' \in [Messages -> OPcs] /\ held' \in [Messages -> Records \cup {None}]
        /\ reply' \in [Messages -> Answers \cup {None}] /\ cancelled' \subseteq Messages
    BY <1>1, <2>1 DEF Answer, TypeOK
  <2>3. Holding'
    BY <1>1, HoldingKept DEF Answer, TypeOK, Holding
  <2> QED BY <2>2, <2>3
<1>2. ASSUME NEW place \in OPcs \ {"save1", "savefail", "ssave", "dial", "psave"}, GoOn(b, place)
      PROVE  /\ opc' \in [Messages -> OPcs] /\ UNCHANGED <<held, reply, cancelled>> /\ Holding'
  <2>1. opc'[b] = place /\ opc' \in [Messages -> OPcs]
    BY <1>2 DEF GoOn, TypeOK
  <2>2. Holding'
    BY <1>2, <2>1, HoldingKept DEF GoOn, TypeOK, Holding
  <2> QED BY <1>2, <2>1, <2>2 DEF GoOn
<1>3. ASSUME NEW place \in OPcs, NEW r \in Records, Hold(b, r, place)
      PROVE  /\ opc' \in [Messages -> OPcs] /\ held' \in [Messages -> Records \cup {None}]
             /\ UNCHANGED <<reply, cancelled>> /\ Holding'
  <2>1. /\ opc' \in [Messages -> OPcs] /\ held' \in [Messages -> Records \cup {None}]
        /\ held'[b] = r
    BY <1>3 DEF Hold, TypeOK
  <2>2. Holding'
    BY <1>3, <2>1, HoldingKept DEF Hold, TypeOK, Holding
  <2> QED BY <1>3, <2>1, <2>2 DEF Hold
<1> QED BY <1>1, <1>2, <1>3 DEF TypeOK

\* The steps of the orchestrator.
LEMMA OrchTyped ==
    ASSUME TypeOK, Holding, NEW b \in Messages, OrchStep(b)
    PROVE  TypeOK' /\ Holding'
<1> USE DEF OAt
<1> DEFINE Ends3 ==
        \/ \E a \in Answers : Answer(b, a)
        \/ \E place \in OPcs \ {"save1", "savefail", "ssave", "dial", "psave"} : GoOn(b, place)
        \/ \E place \in OPcs, r \in Records : Hold(b, r, place)
<1>1. SUFFICES /\ UNCHANGED bridgeVars /\ Ends3
               /\ rec' \in Records \cup {None} /\ vm' \in MaybeAddress
               /\ guestPass' \in Passwords /\ lost' \in BOOLEAN
  <2>1. ASSUME UNCHANGED bridgeVars, Ends3, rec' \in Records \cup {None}, vm' \in MaybeAddress,
               guestPass' \in Passwords, lost' \in BOOLEAN
        PROVE  TypeOK' /\ Holding'
    BY <2>1, OrchEnds DEF bridgeVars, TypeOK
  <2> QED BY <2>1
<1>2. /\ rec \in Records \cup {None} /\ vm \in MaybeAddress /\ guestPass \in Passwords
      /\ lost \in BOOLEAN /\ held[b] \in Records \cup {None}
  BY DEF TypeOK
<1>3. rec # None => rec \in Records /\ rec.status \in Statuses /\ VMAddr(rec) \in MaybeAddress
  BY <1>2, ReadTypes
<1>4. None \in MaybeAddress /\ Addresses \subseteq MaybeAddress
      /\ {"provisioning", "running", "stopped", "error"} = Statuses
      /\ {"default", "new"} = Passwords
  BY DEF MaybeAddress, Statuses, Passwords
<1>5. ASSUME NEW r \in Records \cup {None}, SaveUser(b, r) PROVE rec' \in Records \cup {None}
  BY <1>2, <1>5 DEF SaveUser
<1>6. AfterStop(b) => Ends3
  BY AnswerTypes DEF AfterStop, OPcs
<1>7. CASE CheckExists(b) \/ CheckRunning(b)
  BY <1>2, <1>7 DEF CheckExists, CheckRunning, OPcs
<1>8. CASE Describe(b)
  <2>1. rec # None => Info(rec.status, VMAddr(rec)) \in Answers
    BY <1>3, WrittenTypes
  <2> QED BY <1>2, <1>8, <2>1, AnswerTypes DEF Describe
<1>9. CASE SaveInitial(b)
  <2>1. rec' \in Records
    BY <1>4, <1>9, WrittenTypes DEF SaveInitial
  <2> QED BY <1>2, <1>9, <2>1 DEF SaveInitial, OPcs
<1>10. CASE Launch(b)
  <2>1. OrchRec("error", None) \in Records /\ \A a \in Addresses : OrchRec("running", a) \in Records
    BY <1>4, WrittenTypes
  <2>2. "save1" \in OPcs /\ "savefail" \in OPcs
    BY DEF OPcs
  <2> QED BY <1>2, <1>4, <1>10, <2>1, <2>2 DEF Launch
<1>11. CASE SaveFinal(b)
  <2>1. held[b] \in Records
    BY <1>11 DEF SaveFinal, Holding
  <2>2. Info("running", held[b].addr) \in Answers
    BY <1>4, <2>1, ReadTypes, WrittenTypes
  <2> QED BY <1>2, <1>5, <1>11, <2>1, <2>2 DEF SaveFinal
<1>12. CASE SaveError(b)
  BY <1>2, <1>5, <1>12, AnswerTypes DEF SaveError
<1>13. CASE Unregister(b)
  BY <1>2, <1>4, <1>13, AnswerTypes DEF Unregister, OPcs
<1>14. CASE ReadInfo(b)
  <2>1. rec # None => [rec EXCEPT !.status = "stopped"] \in Records
    BY <1>3, <1>4, ChangedTypes
  <2>2. "ssave" \in OPcs
    BY DEF OPcs
  <2> QED BY <1>2, <1>6, <1>14, <2>1, <2>2 DEF ReadInfo
<1>15. CASE SaveStopped(b)
  <2>1. rec' \in Records \cup {None}
    BY <1>2, <1>5, <1>15 DEF SaveStopped, SaveHeld
  <2> QED BY <1>2, <1>6, <1>15, <2>1 DEF SaveStopped
<1>16. CASE CleanupStorage(b)
  BY <1>2, <1>4, <1>16, AnswerTypes DEF CleanupStorage, OPcs
<1>17. CASE DeleteRecord(b)
  BY <1>2, <1>5, <1>17, AnswerTypes DEF DeleteRecord
<1>18. CASE ReadForPassword(b)
  <2>1. "dial" \in OPcs /\ (Reads({"running"}) => rec \in Records)
    BY <1>3 DEF OPcs, Reads
  <2> QED BY <1>2, <1>18, <2>1, AnswerTypes DEF ReadForPassword
<1>19. CASE Dial(b)
  <2>1. [held[b] EXCEPT !.pass = "new"] \in Records /\ "psave" \in OPcs
    BY <1>19, ChangedTypes DEF Dial, Holding, OPcs
  <2> QED BY <1>2, <1>4, <1>19, <2>1, AnswerTypes DEF Dial
<1>20. CASE SavePassword(b)
  BY <1>2, <1>20, AnswerTypes DEF SavePassword
<1> QED BY <1>7, <1>8, <1>9, <1>10, <1>11, <1>12, <1>13, <1>14, <1>15, <1>16, <1>17, <1>18,
           <1>19, <1>20 DEF OrchStep

LEMMA TypeStep == TypeOK /\ Holding /\ [Next]_vars => TypeOK' /\ Holding'
<1> SUFFICES ASSUME TypeOK, Holding, [Next]_vars PROVE TypeOK' /\ Holding'
  OBVIOUS
<1>1. ASSUME NEW b \in Messages, NEW c \in Commands, Receive(b, c)
      PROVE  TypeOK' /\ Holding'
  <2>1. c \in AllCommands
    BY BindingAssumption
  <2>2. /\ pc' \in [Messages -> Pcs] /\ cmd' \in [Messages -> AllCommands]
        /\ want' \in [Messages -> Statuses]
    BY <1>1, <2>1 DEF Receive, Update, To, TypeOK, Pcs, Statuses
  <2>3. /\ seen' \in [Messages -> Records \cup {None}] /\ sent' \in [Messages -> MaybeAddress]
    BY <1>1 DEF Receive, TypeOK, MaybeAddress
  <2>4. Holding'
    <3>1. /\ cmd'[b] = c /\ opc[b] = "none" /\ opc' = opc
          /\ \/ c = "text" /\ pc'[b] = "route"
             \/ c = "subscribe" /\ pc'[b] = "initial"
             \/ c = "restart" /\ pc'[b] = "get" /\ want'[b] = "provisioning"
             \/ c \in {"stop", "destroy", "passwd"} /\ pc'[b] = "call"
      BY <1>1, <2>1 DEF Receive, Update, To, OAt, TypeOK, orchVars
    <3> QED BY <1>1, <3>1, HoldingKept
            DEF Receive, Update, To, TypeOK, Holding, orchVars
  <2> QED BY <1>1, <2>2, <2>3, <2>4 DEF Receive, TypeOK, orchVars
<1>2. ASSUME NEW b \in Messages, BridgeStep(b) PROVE TypeOK' /\ Holding'
  BY <1>2, BridgeTyped
<1>3. ASSUME NEW b \in Messages, CallTimeout(b) PROVE TypeOK' /\ Holding'
  <2>1. reply' \in [Messages -> Answers \cup {None}] /\ cancelled' \subseteq Messages
        /\ lost' \in BOOLEAN
    BY <1>3, AnswerTypes DEF CallTimeout, TypeOK
  <2> QED BY <1>3, <2>1 DEF CallTimeout, TypeOK, Holding, bridgeVars
<1>4. ASSUME NEW b \in Messages, OrchStep(b) PROVE TypeOK' /\ Holding'
  BY <1>4, OrchTyped
<1>5. CASE UNCHANGED vars
  BY <1>5 DEF vars, bridgeVars, orchVars, TypeOK, Holding
<1> QED BY <1>1, <1>2, <1>3, <1>4, <1>5 DEF Next

\* The records in Redis and in the handlers of both programs keep their schemas, and no
\* handler works on a record it does not have.
THEOREM TypeCorrect == Spec => []TypeOK
<1> QED BY TypeInit, TypeStep, PTL DEF Spec

-----------------------------------------------------------------------------
(* A user who waits for one message's effects before the next *)

Creates == {"subscribe", "restart"}
Act(b) == ~(At(b, "idle") /\ OAt(b, "none"))

\* What a step of one message leaves alone.
LEMMA BridgeFrame ==
    ASSUME TypeOK, NEW b \in Messages, BridgeStep(b)
    PROVE  /\ Act(b) /\ pc[b] # "idle"
           /\ \A c \in Messages \ {b} :
                pc'[c] = pc[c] /\ opc'[c] = opc[c] /\ reply'[c] = reply[c]
           /\ UNCHANGED <<vm, lost, held, cancelled>>
<1> USE DEF At, To, OAt
<1>1. Act(b) /\ pc[b] # "idle"
  BY DEF BridgeStep, Route, SetInitial, GetBinding, PutBinding, Forward, CallOrchestrator,
         ProvisionDone, RestartDone, StopDone, DestroyDone, PasswdDone, ProvisionFailed,
         RestartFailed, CommandFailed, Answered, Act
<1>2. /\ \A c \in Messages \ {b} :
            pc'[c] = pc[c] /\ opc'[c] = opc[c] /\ reply'[c] = reply[c]
      /\ UNCHANGED <<vm, lost, held, cancelled>>
  BY DEF BridgeStep, Route, SetInitial, GetBinding, PutBinding, Forward, CallOrchestrator,
         ProvisionDone, RestartDone, StopDone, DestroyDone, PasswdDone, ProvisionFailed,
         RestartFailed, CommandFailed, Answered, Ends, Failed, Update, OTo, orchVars, TypeOK
<1> QED BY <1>1, <1>2

LEMMA OrchFrame ==
    ASSUME TypeOK, NEW b \in Messages, OrchStep(b)
    PROVE  /\ Act(b) /\ opc[b] # "none"
           /\ \A c \in Messages \ {b} : opc'[c] = opc[c] /\ reply'[c] = reply[c]
           /\ UNCHANGED bridgeVars /\ (lost => lost') /\ cancelled' \subseteq cancelled
<1>1. Act(b) /\ opc[b] # "none"
  BY DEF OrchStep, CheckExists, Describe, SaveInitial, Launch, SaveFinal, SaveError, Unregister,
         ReadInfo, SaveStopped, CheckRunning, CleanupStorage, DeleteRecord, ReadForPassword,
         Dial, SavePassword, OAt, Act
<1>2. /\ \A c \in Messages \ {b} : opc'[c] = opc[c] /\ reply'[c] = reply[c]
      /\ UNCHANGED bridgeVars /\ (lost => lost') /\ cancelled' \subseteq cancelled
  BY DEF OrchStep, CheckExists, Describe, SaveInitial, Launch, SaveFinal, SaveError, Unregister,
         ReadInfo, SaveStopped, CheckRunning, CleanupStorage, DeleteRecord, ReadForPassword,
         Dial, SavePassword, AfterStop, Answer, GoOn, Hold, OTo, TypeOK
<1> QED BY <1>1, <1>2

\* The record and the VM agree.
RunsAsRecorded ==
    rec \in Records /\ rec.status = "running" /\ vm # None /\ WebhookUrl(rec) = vm
Agrees ==
    \/ rec = None /\ vm = None
    \/ RunsAsRecorded
    \/ rec \in Records /\ rec.status \in {"stopped", "error"} /\ vm = None

\* Within updateVMBindingStatus: a VM whose record is to say running runs, and otherwise
\* there is none.
Updating(b) ==
    \/ want[b] = "running" /\ RunsAsRecorded /\ seen[b] = rec
    \/ want[b] = "provisioning" /\ cmd[b] = "restart" /\ vm = None
    \/ want[b] \in {"stopped", "error"} /\ vm = None

\* Within a create: it is called for a user without a VM, and its answer tells whether
\* there is one now.
Creating(b) ==
    /\ opc[b] \in {"none", "check", "save0", "launch", "save1", "savefail"}
    /\ opc[b] \in {"check", "save0", "launch", "savefail"} => vm = None
    /\ opc[b] = "save1" => vm # None /\ held[b].addr = vm
    /\ opc[b] = "none" => \/ reply[b] = Error /\ vm = None
                          \/ reply[b] = Info("running", vm) /\ vm # None

\* Within a stop, a destroy or a password change.  The record of a VM is the bridge's, so
\* that the save of a stop misses it.
Commanding(b) ==
    /\ opc[b] \in {"running", "unregister", "pread"} => Agrees
    /\ opc[b] = "dial" => held[b] = rec /\ RunsAsRecorded
    /\ opc[b] \in {"sread", "ssave", "rm", "del"} => vm = None
    /\ opc[b] = "sread" => rec \in Records /\ rec.by = "bridge"
    /\ opc[b] = "ssave" => held[b].by = "bridge"
    /\ cmd[b] = "stop" => opc[b] \in {"unregister", "sread", "ssave", "none"}
    /\ cmd[b] = "destroy" =>
        opc[b] \in {"running", "unregister", "sread", "ssave", "rm", "del", "none"}
    /\ cmd[b] = "passwd" => opc[b] \in {"pread", "dial", "none"}
    /\ opc[b] = "none" => \/ reply[b] = Error /\ Agrees
                          \/ reply[b] = Done /\ vm = None /\ cmd[b] # "passwd"

Place(b) ==
    /\ pc[b] # "awaiting" => opc[b] = "none" /\ reply[b] = None
    /\ opc[b] # "none" => reply[b] = None
    /\ pc[b] = "route" => Agrees
    /\ pc[b] = "initial" => rec = None /\ vm = None
    /\ pc[b] \in {"get", "put"} => Updating(b)
    /\ pc[b] = "put" => got[b] = rec
    /\ pc[b] = "forward" => RunsAsRecorded /\ seen[b] = rec
    /\ pc[b] = "call" /\ cmd[b] \in Creates => vm = None
    /\ pc[b] = "call" /\ cmd[b] \notin Creates => Agrees
    /\ pc[b] = "awaiting" =>
        /\ cmd[b] # "text"
        /\ cmd[b] \in Creates => Creating(b)
        /\ cmd[b] \notin Creates => Commanding(b)

Serial ==
    /\ \A b, c \in Messages : Act(b) /\ Act(c) => b = c
    /\ ~lost => cancelled = {} /\ (Settled => Agrees) /\ \A b \in Messages : Place(b)

\* A message other than b is idle while b is served.
LEMMA OthersIdle ==
    ASSUME Serial, NEW b \in Messages, Act(b), NEW c \in Messages \ {b}
    PROVE  ~Act(c)
BY DEF Serial

\* A step of b need only be looked at for what it does to b.
LEMMA SerialKept ==
    ASSUME TypeOK, Serial, NEW b \in Messages, ~lost' => ~lost,
           \A c \in Messages \ {b} : ~Act(c),
           \A c \in Messages \ {b} : pc'[c] = pc[c] /\ opc'[c] = opc[c] /\ reply'[c] = reply[c],
           ~lost' => cancelled' = {} /\ Place(b)' /\ (~Act(b)' => Agrees')
    PROVE  Serial'
<1>1. \A c \in Messages \ {b} : pc'[c] = "idle" /\ opc'[c] = "none" /\ ~Act(c)'
  BY DEF Act, At, OAt
<1>2. ASSUME ~lost', NEW c \in Messages \ {b} PROVE Place(c)'
  <2>1. reply[c] = None
    BY <1>1, <1>2 DEF Serial, Place
  <2> QED BY <1>1, <2>1 DEF Place
<1>3. Settled' => ~Act(b)'
  BY DEF Settled, Act, At, OAt
<1>4. \A c, d \in Messages : Act(c)' /\ Act(d)' => c = d
  BY <1>1
<1> QED BY <1>1, <1>2, <1>3, <1>4, Zenon DEF Serial

\* The answers and None are told apart.
LEMMA AnswersDiffer ==
    /\ Done # None /\ Error # None /\ Done.ok = TRUE /\ Error.ok = FALSE
    /\ \A s \in Statuses, a \in MaybeAddress :
        /\ Info(s, a) # None /\ Info(s, a).ok = TRUE
        /\ Info(s, a).status = s /\ Info(s, a).addr = a
<1>1. \A a \in Answers : a # None
  BY NoneAssumption
<1> QED BY <1>1, AnswerTypes, WrittenTypes DEF Done, Error, Info

\* What the two programs write, as the bridge reads it.
LEMMA WrittenRead ==
    \A s \in Statuses, a \in MaybeAddress :
        /\ BridgeRec(s, a).by = "bridge" /\ BridgeRec(s, a).status = s
        /\ WebhookUrl(BridgeRec(s, a)) = a
        /\ OrchRec(s, a).addr = a /\ OrchRec(s, a).status = s
BY DEF BridgeRec, OrchRec, WebhookUrl

\* What a record that agrees with the VM says of it.
LEMMA AgreesMeans ==
    ASSUME Agrees
    PROVE  /\ rec = None => vm = None
           /\ rec # None => rec \in Records
           /\ ~Reads({"running"}) => vm = None
           /\ Reads({"running"}) => RunsAsRecorded
           /\ vm # None => RunsAsRecorded /\ rec.by = "bridge"
           /\ RunsAsRecorded => rec # None /\ vm # None /\ rec.by = "bridge"
BY NoneAssumption DEF Agrees, RunsAsRecorded, Reads, WebhookUrl

LEMMA ReceiveSerial ==
    ASSUME TypeOK, Serial, ~Overlap, Careful,
           NEW b \in Messages, NEW c \in Commands, Receive(b, c)
    PROVE  Serial'
<1>1. Settled /\ Sensible(c) /\ c \in AllCommands
  BY BindingAssumption DEF Receive
<1>2. /\ pc' = [pc EXCEPT ![b] = pc'[b]] /\ UNCHANGED <<rec, vm, lost, got, opc, held, reply, cancelled>>
      /\ cmd'[b] = c
      /\ \/ c = "text" /\ pc'[b] = "route"
         \/ c = "subscribe" /\ pc'[b] = "initial"
         \/ c = "restart" /\ pc'[b] = "get" /\ want'[b] = "provisioning"
         \/ c \in {"stop", "destroy", "passwd"} /\ pc'[b] = "call"
  BY <1>1 DEF Receive, Update, To, TypeOK, orchVars, AllCommands
<1>3. \A d \in Messages : pc[d] = "idle" /\ opc[d] = "none" /\ ~Act(d)
  BY <1>1 DEF Settled, Act, At, OAt
<1>4. ASSUME ~lost' PROVE cancelled' = {} /\ Place(b)' /\ Act(b)'
  <2>1. Agrees /\ cancelled = {} /\ reply[b] = None
    BY <1>1, <1>2, <1>3, <1>4 DEF Serial, Place
  <2>2. /\ c = "restart" => vm = None
        /\ c = "subscribe" => rec = None /\ vm = None
    BY <1>1, <2>1, AgreesMeans DEF Sensible
  <2>3. Agrees'
    BY <1>2, <2>1 DEF Agrees, RunsAsRecorded, WebhookUrl
  <2>4. Place(b)'
    BY <1>2, <1>3, <2>1, <2>2, <2>3 DEF Place, Updating, Creates
  <2> QED BY <1>2, <1>3, <2>1, <2>4 DEF Act, At
<1>5. \A d \in Messages \ {b} : pc'[d] = pc[d] /\ opc'[d] = opc[d] /\ reply'[d] = reply[d]
  BY <1>2 DEF TypeOK
<1> QED BY <1>2, <1>3, <1>4, <1>5, SerialKept

LEMMA BridgeSerial ==
    ASSUME TypeOK, Holding, Serial, NEW b \in Messages, BridgeStep(b)
    PROVE  Serial'
<1> USE DEF At, To, OAt
<1>1. Act(b) /\ pc[b] # "idle"
  BY BridgeFrame
<1>2. /\ \A c \in Messages \ {b} :
            pc'[c] = pc[c] /\ opc'[c] = opc[c] /\ reply'[c] = reply[c]
      /\ UNCHANGED <<vm, lost, held, cancelled>>
  BY BridgeFrame
<1> SUFFICES ASSUME ~lost, cancelled = {}, Place(b)
             PROVE  Place(b)' /\ (~Act(b)' => Agrees')
  <2>1. \A c \in Messages \ {b} : ~Act(c)
    BY <1>1, OthersIdle
  <2> QED BY <1>2, <2>1, SerialKept DEF Serial
<1>5. ASSUME UNCHANGED rec, Agrees PROVE Agrees'
  BY <1>2, <1>5 DEF Agrees, RunsAsRecorded, WebhookUrl
<1>6. CASE Route(b)
  <2>1. /\ Agrees /\ UNCHANGED rec /\ seen'[b] = rec /\ UNCHANGED <<got, opc, reply>>
        /\ opc[b] = "none" /\ reply[b] = None
    BY <1>6 DEF Route, Place, TypeOK, orchVars
  <2>2. \/ rec = None /\ pc'[b] = "initial"
        \/ pc'[b] = "idle"
        \/ Reads({"stopped"}) /\ pc'[b] = "get" /\ want'[b] = "provisioning" /\ cmd'[b] = "restart"
        \/ Reads({"running"}) /\ pc'[b] = "get" /\ want'[b] = "running"
    BY <1>6 DEF Route, Update, TypeOK
  <2>3. Agrees'
    BY <1>5, <2>1
  <2>4. Reads({"stopped"}) => ~Reads({"running"})
    BY DEF Reads
  <2>5. Place(b)'
    BY <1>2, <2>1, <2>2, <2>4, AgreesMeans DEF Place, Updating, RunsAsRecorded, WebhookUrl
  <2> QED BY <2>3, <2>5
<1>7. CASE SetInitial(b)
  <2>1. /\ pc'[b] = "call" /\ cmd'[b] = "subscribe" /\ UNCHANGED <<opc, reply>> /\ vm' = None
        /\ opc[b] = "none" /\ reply[b] = None
    BY <1>2, <1>7 DEF SetInitial, Place, TypeOK, orchVars
  <2> QED BY <2>1 DEF Place, Act, Creates
<1>8. CASE GetBinding(b)
  <2>1. /\ UNCHANGED <<rec, want, cmd, seen, opc, reply>> /\ got'[b] = rec
        /\ pc'[b] = IF rec = None THEN AfterUpdate(b) ELSE "put"
        /\ opc[b] = "none" /\ reply[b] = None /\ Updating(b)
    BY <1>8 DEF GetBinding, Place, TypeOK, orchVars
  <2>2. CASE rec # None
    <3>1. Updating(b)'
      BY <1>2, <2>1 DEF Updating, RunsAsRecorded, WebhookUrl
    <3> QED BY <2>1, <2>2, <3>1 DEF Place, Act
  <2>3. CASE rec = None
    <3>1. ~RunsAsRecorded
      BY <2>3, NoneAssumption DEF RunsAsRecorded
    <3>2. \/ want[b] = "provisioning" /\ cmd[b] = "restart" /\ vm = None /\ pc'[b] = "call"
          \/ vm = None /\ pc'[b] = "idle"
      BY <2>1, <2>3, <3>1 DEF Updating, AfterUpdate
    <3>3. vm = None => Agrees'
      BY <1>2, <2>1, <2>3 DEF Agrees
    <3> QED BY <1>2, <2>1, <3>2, <3>3 DEF Place, Act, Creates
  <2> QED BY <2>2, <2>3
<1>9. CASE PutBinding(b)
  <2>1. /\ UNCHANGED <<want, cmd, seen, opc, reply>> /\ pc'[b] = AfterUpdate(b)
        /\ opc[b] = "none" /\ reply[b] = None /\ Updating(b) /\ got[b] = rec
        /\ rec \in Records /\ rec' = [rec EXCEPT !.status = want[b]] /\ want[b] \in Statuses
    BY <1>9 DEF PutBinding, Place, TypeOK, Holding, orchVars, SetBinding
  <2>2. rec' \in Records /\ rec'.status = want[b]
    BY <2>1, ChangedTypes DEF Records
  <2>3. CASE want[b] = "running"
    <3>1. RunsAsRecorded /\ seen[b] = rec
      BY <2>1, <2>3 DEF Updating
    <3>2. rec' = rec
      BY <2>1, <2>3, <3>1 DEF RunsAsRecorded, Records
    <3>3. pc'[b] = "forward"
      BY <2>1, <2>3 DEF AfterUpdate
    <3> QED BY <1>2, <2>1, <3>1, <3>2, <3>3 DEF Place, Act, RunsAsRecorded, WebhookUrl
  <2>4. CASE want[b] = "provisioning"
    <3>1. pc'[b] = "call" /\ vm' = None /\ cmd'[b] = "restart"
      BY <1>2, <2>1, <2>4 DEF AfterUpdate, Updating
    <3> QED BY <2>1, <3>1 DEF Place, Act, Creates
  <2>5. CASE want[b] \in {"stopped", "error"}
    <3>1. pc'[b] = "idle" /\ vm' = None
      BY <1>2, <2>1, <2>5 DEF AfterUpdate, Updating
    <3>2. Agrees'
      BY <2>2, <2>5, <3>1 DEF Agrees
    <3> QED BY <2>1, <3>1, <3>2 DEF Place
  <2> QED BY <2>1, <2>3, <2>4, <2>5 DEF Updating
<1>10. CASE Forward(b)
  <2>1. /\ UNCHANGED <<rec, opc, reply>> /\ pc'[b] = "idle" /\ opc[b] = "none"
        /\ reply[b] = None /\ Agrees
    BY <1>10 DEF Forward, Place, TypeOK, Agrees, orchVars
  <2> QED BY <1>5, <2>1 DEF Place
<1>11. CASE CallOrchestrator(b)
  <2>1. /\ UNCHANGED <<rec, cmd, reply>> /\ pc'[b] = "awaiting" /\ reply[b] = None
        /\ cmd[b] # "text" /\ cmd[b] \in AllCommands
        /\ cmd[b] \in Creates => vm = None
        /\ cmd[b] \notin Creates => Agrees
    BY <1>11 DEF CallOrchestrator, Place, TypeOK, Holding
  <2>2. /\ cmd[b] \in Creates => opc'[b] = "check"
        /\ cmd[b] = "stop" => opc'[b] = "unregister"
        /\ cmd[b] = "destroy" => opc'[b] = "running"
        /\ cmd[b] = "passwd" => opc'[b] = "pread"
    BY <1>11 DEF CallOrchestrator, OTo, TypeOK, Creates
  <2>3. cmd[b] \in Creates => Creating(b)'
    BY <1>2, <2>1, <2>2 DEF Creating
  <2>4. cmd[b] \notin Creates => Commanding(b)'
    <3>1. SUFFICES ASSUME cmd[b] \notin Creates PROVE Commanding(b)'
      OBVIOUS
    <3>2. Agrees' /\ cmd[b] \in {"stop", "destroy", "passwd"}
      BY <1>5, <2>1, <3>1 DEF AllCommands, Creates
    <3> QED BY <2>1, <2>2, <3>2 DEF Commanding
  <2>5. opc'[b] # "none"
    BY <2>1, <2>2 DEF AllCommands, Creates
  <2> QED BY <2>1, <2>3, <2>4, <2>5 DEF Place, Act
<1>12. ASSUME NEW ok \in BOOLEAN, Answered(b, ok)
       PROVE  /\ pc[b] = "awaiting" /\ opc[b] = "none" /\ opc' = opc /\ reply'[b] = None
              /\ reply[b].ok = ok /\ UNCHANGED cmd
              /\ cmd[b] \in Creates => Creating(b)
              /\ cmd[b] \notin Creates => Commanding(b)
  BY <1>12 DEF Answered, Place, TypeOK
<1>13. ASSUME pc'[b] = "idle", opc'[b] = "none", reply'[b] = None, Agrees' PROVE Place(b)'
  BY <1>13 DEF Place
<1>14. ASSUME pc'[b] = "get", opc'[b] = "none", reply'[b] = None,
              want'[b] \in {"stopped", "error"}, vm = None
       PROVE  Place(b)' /\ Act(b)'
  BY <1>2, <1>14 DEF Place, Updating, Act
<1>15. CASE ProvisionDone(b) \/ RestartDone(b)
  <2>1. /\ Answered(b, TRUE) /\ Ends(b) /\ cmd[b] \in Creates
        /\ \/ rec' = Bound(b) \/ rec' = BridgeRec("running", reply[b].addr)
    BY <1>15 DEF ProvisionDone, RestartDone, Creates, SetBinding
  <2>2. pc'[b] = "idle" /\ opc'[b] = "none" /\ reply'[b] = None /\ Creating(b) /\ opc[b] = "none"
        /\ reply[b].ok = TRUE
    BY <1>12, <2>1 DEF Ends, TypeOK
  <2>3. reply[b] = Info("running", vm) /\ vm # None
    BY <2>2, AnswersDiffer DEF Creating
  <2>4. rec' = BridgeRec("running", vm)
    BY <2>1, <2>3, AnswersDiffer DEF Bound, TypeOK, Statuses
  <2>5. Agrees'
    BY <1>2, <2>3, <2>4, WrittenTypes, WrittenRead DEF Agrees, RunsAsRecorded, TypeOK, Statuses
  <2> QED BY <1>13, <2>2, <2>5
<1>16. CASE StopDone(b)
  <2>1. Answered(b, TRUE) /\ cmd[b] \notin Creates /\ want'[b] = "stopped" /\ pc'[b] = "get"
    BY <1>16 DEF StopDone, Update, Creates, TypeOK
  <2>2. vm = None
    BY <1>12, <2>1, AnswersDiffer DEF Commanding
  <2> QED BY <1>12, <1>14, <2>1, <2>2
<1>17. CASE DestroyDone(b) \/ PasswdDone(b)
  <2>1. /\ Answered(b, TRUE) /\ cmd[b] \notin Creates /\ pc'[b] = "idle"
        /\ cmd[b] # "passwd" => rec' = None
    BY <1>17 DEF DestroyDone, PasswdDone, Ends, Creates, TypeOK, DeleteBinding
  <2>2. vm = None /\ cmd[b] # "passwd"
    BY <1>12, <2>1, AnswersDiffer DEF Commanding
  <2> QED BY <1>2, <1>12, <1>13, <2>1, <2>2 DEF Agrees
<1>18. CASE CommandFailed(b)
  <2>1. Answered(b, FALSE) /\ cmd[b] \notin Creates /\ pc'[b] = "idle" /\ UNCHANGED rec
    BY <1>18 DEF CommandFailed, Ends, Creates, TypeOK
  <2>2. Agrees
    BY <1>12, <2>1, AnswersDiffer DEF Commanding
  <2> QED BY <1>5, <1>12, <1>13, <2>1, <2>2
<1>19. CASE ProvisionFailed(b) \/ RestartFailed(b)
  <2>1. Answered(b, FALSE) /\ cmd[b] \in Creates /\ want'[b] = "error" /\ pc'[b] = "get"
    BY <1>19 DEF ProvisionFailed, RestartFailed, Failed, Update, Creates, TypeOK
  <2>2. vm = None
    <3>1. vm \in MaybeAddress /\ "running" \in Statuses
      BY DEF TypeOK, Statuses
    <3>2. Info("running", vm).ok = TRUE
      BY <3>1, AnswersDiffer
    <3>3. Creating(b) /\ opc[b] = "none" /\ reply[b].ok = FALSE
      BY <1>12, <2>1
    <3>4. reply[b] # Info("running", vm)
      BY <3>2, <3>3
    <3> QED BY <3>3, <3>4 DEF Creating
  <2> QED BY <1>12, <1>14, <2>1, <2>2
<1> QED BY <1>6, <1>7, <1>8, <1>9, <1>10, <1>11, <1>15, <1>16, <1>17, <1>18, <1>19 DEF BridgeStep

\* What a step of the orchestrator does to its handler.
LEMMA OrchMoves ==
    ASSUME TypeOK, NEW b \in Messages, cancelled = {}
    PROVE  /\ \A place : GoOn(b, place) =>
                /\ opc'[b] = place /\ UNCHANGED <<held, reply, cancelled>>
                /\ \A c \in Messages \ {b} : opc'[c] = opc[c]
           /\ \A place, r : Hold(b, r, place) =>
                /\ opc'[b] = place /\ held'[b] = r /\ UNCHANGED <<reply, cancelled>>
                /\ \A c \in Messages \ {b} : opc'[c] = opc[c]
           /\ \A a : Answer(b, a) =>
                /\ opc'[b] = "none" /\ reply'[b] = a /\ cancelled' = {}
                /\ \A c \in Messages \ {b} : opc'[c] = opc[c] /\ reply'[c] = reply[c]
<1>1. ASSUME NEW place, GoOn(b, place)
      PROVE  /\ opc'[b] = place /\ UNCHANGED <<held, reply, cancelled>>
             /\ \A c \in Messages \ {b} : opc'[c] = opc[c]
  BY <1>1 DEF GoOn, OTo, TypeOK
<1>2. ASSUME NEW place, NEW r, Hold(b, r, place)
      PROVE  /\ opc'[b] = place /\ held'[b] = r /\ UNCHANGED <<reply, cancelled>>
             /\ \A c \in Messages \ {b} : opc'[c] = opc[c]
  BY <1>2 DEF Hold, OTo, TypeOK
<1>3. ASSUME NEW a, Answer(b, a)
      PROVE  /\ opc'[b] = "none" /\ reply'[b] = a /\ cancelled' = {}
             /\ \A c \in Messages \ {b} : opc'[c] = opc[c] /\ reply'[c] = reply[c]
  BY <1>3 DEF Answer, OTo, TypeOK
<1> QED BY <1>1, <1>2, <1>3

\* A create goes on as long as its user has no VM, and ends with an answer that is right.
LEMMA CreateSerial ==
    ASSUME TypeOK, Holding, NEW b \in Messages, cancelled = {}, cmd[b] \in Creates, Creating(b),
           UNCHANGED cmd,
           CheckExists(b) \/ Describe(b) \/ SaveInitial(b) \/ Launch(b) \/ SaveFinal(b)
           \/ SaveError(b)
    PROVE  /\ Creating(b)' /\ cancelled' = {}
           /\ opc'[b] # "none" => reply'[b] = reply[b]
           /\ \A c \in Messages \ {b} : opc'[c] = opc[c] /\ reply'[c] = reply[c]
<1> USE OrchMoves DEF OAt
<1>1. CASE CheckExists(b)
  <2>1. vm = None /\ UNCHANGED vm /\ GoOn(b, "save0")
    BY <1>1 DEF CheckExists, Creating
  <2> QED BY <2>1 DEF Creating
<1>2. CASE Describe(b)
  BY <1>2 DEF Describe, Creating
<1>3. CASE SaveInitial(b)
  <2>1. vm = None /\ UNCHANGED vm /\ GoOn(b, "launch")
    BY <1>3 DEF SaveInitial, Creating
  <2> QED BY <2>1 DEF Creating
<1>4. CASE Launch(b)
  <2>1. ASSUME NEW a \in Addresses, vm' = a, Hold(b, OrchRec("running", a), "save1")
        PROVE  Creating(b)'
    <3>1. a # None /\ a \in MaybeAddress /\ "running" \in Statuses
      BY BindingAssumption DEF MaybeAddress, Statuses
    <3>2. held'[b].addr = a
      BY <2>1, <3>1, WrittenRead
    <3> QED BY <2>1, <3>1, <3>2 DEF Creating
  <2>2. ASSUME Hold(b, OrchRec("error", None), "savefail"), UNCHANGED vm
        PROVE  Creating(b)'
    <3>1. vm = None
      BY <1>4 DEF Launch, Creating
    <3> QED BY <2>2, <3>1 DEF Creating
  <2> QED BY <1>4, <2>1, <2>2 DEF Launch
<1>5. CASE SaveFinal(b)
  <2>1. vm # None /\ UNCHANGED vm /\ Answer(b, Info("running", vm))
    BY <1>5 DEF SaveFinal, Creating
  <2> QED BY <2>1 DEF Creating
<1>6. CASE SaveError(b)
  <2>1. vm = None /\ UNCHANGED vm /\ Answer(b, Error)
    BY <1>6 DEF SaveError, Creating
  <2> QED BY <2>1 DEF Creating
<1> QED BY <1>1, <1>2, <1>3, <1>4, <1>5, <1>6

\* A stop, a destroy and a password change leave the record agreeing, or no VM.
LEMMA CommandSerial ==
    ASSUME TypeOK, Holding, NEW b \in Messages, cancelled = {}, Commanding(b), ~lost',
           cmd[b] \in {"stop", "destroy", "passwd"}, UNCHANGED cmd,
           Unregister(b) \/ ReadInfo(b) \/ SaveStopped(b) \/ CheckRunning(b)
           \/ CleanupStorage(b) \/ DeleteRecord(b) \/ ReadForPassword(b) \/ Dial(b)
           \/ SavePassword(b)
    PROVE  /\ Commanding(b)' /\ cancelled' = {}
           /\ opc'[b] # "none" => reply'[b] = reply[b]
           /\ \A c \in Messages \ {b} : opc'[c] = opc[c] /\ reply'[c] = reply[c]
<1> USE OrchMoves DEF OAt
<1> DEFINE Same == \A c \in Messages \ {b} : opc'[c] = opc[c] /\ reply'[c] = reply[c]
           Kept == cancelled' = {} /\ (opc'[b] # "none" => reply'[b] = reply[b]) /\ Same
<1>1. ASSUME UNCHANGED <<rec, vm>>, Agrees PROVE Agrees'
  BY <1>1 DEF Agrees, RunsAsRecorded, WebhookUrl
<1>2. ASSUME vm' = None, AfterStop(b), opc[b] \in {"sread", "ssave"} PROVE Commanding(b)' /\ Kept
  <2>1. CASE cmd[b] = "stop"
    <3>1. Answer(b, Done)
      BY <1>2, <2>1 DEF AfterStop
    <3> QED BY <1>2, <2>1, <3>1 DEF Commanding
  <2>2. CASE cmd[b] # "stop"
    <3>1. GoOn(b, "rm") /\ cmd[b] = "destroy"
      BY <1>2, <2>2 DEF AfterStop, Commanding
    <3> QED BY <1>2, <2>2, <3>1 DEF Commanding
  <2> QED BY <2>1, <2>2
<1>3. CASE Unregister(b)
  <2>1. /\ vm' = None /\ UNCHANGED rec /\ Agrees /\ cmd[b] \in {"stop", "destroy"}
    BY <1>3 DEF Unregister, Commanding
  <2>2. ASSUME vm # None, GoOn(b, "sread") PROVE Commanding(b)' /\ Kept
    <3>1. rec \in Records /\ rec.by = "bridge"
      BY <2>1, <2>2, AgreesMeans
    <3> QED BY <2>1, <2>2, <3>1 DEF Commanding
  <2>3. ASSUME vm = None, cmd[b] = "stop", Answer(b, Error) PROVE Commanding(b)' /\ Kept
    <3>1. Agrees'
      BY <1>1, <2>1, <2>3
    <3> QED BY <2>1, <2>3, <3>1 DEF Commanding
  <2>4. ASSUME vm = None, cmd[b] = "destroy", GoOn(b, "rm") PROVE Commanding(b)' /\ Kept
    BY <2>1, <2>4 DEF Commanding
  <2> QED BY <1>3, <2>2, <2>3, <2>4 DEF Unregister
<1>4. CASE ReadInfo(b)
  <2>1. /\ vm' = None /\ rec \in Records /\ rec.by = "bridge" /\ rec # None
        /\ cmd[b] \in {"stop", "destroy"} /\ Hold(b, [rec EXCEPT !.status = "stopped"], "ssave")
    BY <1>4, ReadTypes DEF ReadInfo, Commanding
  <2>2. [rec EXCEPT !.status = "stopped"].by = "bridge"
    BY <2>1 DEF Records
  <2>3. held'[b].by = "bridge"
    BY <2>1, <2>2 DEF Hold, TypeOK
  <2> QED BY <2>1, <2>3 DEF Commanding
<1>5. CASE SaveStopped(b)
  <2>1. vm' = None /\ AfterStop(b) /\ opc[b] = "ssave"
    BY <1>5 DEF SaveStopped, Commanding
  <2> QED BY <1>2, <2>1
<1>6. CASE CheckRunning(b)
  <2>1. /\ UNCHANGED <<rec, vm>> /\ Agrees /\ cmd[b] = "destroy"
        /\ GoOn(b, IF vm = None THEN "rm" ELSE "unregister")
    BY <1>6 DEF CheckRunning, Commanding
  <2>2. Agrees'
    BY <1>1, <2>1
  <2> QED BY <2>1, <2>2 DEF Commanding
<1>7. CASE CleanupStorage(b)
  <2>1. vm' = None /\ cmd[b] = "destroy" /\ GoOn(b, "del")
    BY <1>7 DEF CleanupStorage, Commanding
  <2> QED BY <2>1 DEF Commanding
<1>8. CASE DeleteRecord(b)
  <2>1. vm' = None /\ cmd[b] = "destroy" /\ Answer(b, Done)
    BY <1>8 DEF DeleteRecord, Commanding
  <2> QED BY <2>1 DEF Commanding
<1>9. CASE ReadForPassword(b)
  <2>1. UNCHANGED <<rec, vm>> /\ Agrees /\ cmd[b] = "passwd"
    BY <1>9 DEF ReadForPassword, Commanding
  <2>2. Agrees'
    BY <1>1, <2>1
  <2>3. ASSUME Reads({"running"}), Hold(b, rec, "dial") PROVE Commanding(b)' /\ Kept
    <3>1. RunsAsRecorded'
      BY <2>1, <2>3, AgreesMeans DEF RunsAsRecorded, WebhookUrl
    <3> QED BY <2>1, <2>3, <3>1 DEF Commanding
  <2>4. ASSUME Answer(b, Error) PROVE Commanding(b)' /\ Kept
    BY <2>1, <2>2, <2>4 DEF Commanding
  <2> QED BY <1>9, <2>3, <2>4 DEF ReadForPassword
<1>10. CASE Dial(b)
  <2>1. UNCHANGED <<rec, vm>> /\ held[b] = rec /\ RunsAsRecorded /\ cmd[b] = "passwd"
    BY <1>10 DEF Dial, Commanding
  <2>2. Agrees' /\ rec.by = "bridge" /\ vm # None
    BY <1>1, <2>1, AgreesMeans DEF Agrees
  <2>3. Answer(b, Error)
    BY <1>10, <2>1, <2>2 DEF Dial, Reachable, VMAddr
  <2> QED BY <2>1, <2>2, <2>3 DEF Commanding
<1>11. CASE SavePassword(b)
  BY <1>11 DEF SavePassword, Commanding
<1> QED BY <1>3, <1>4, <1>5, <1>6, <1>7, <1>8, <1>9, <1>10, <1>11

LEMMA OrchSerial ==
    ASSUME TypeOK, Holding, Serial, NEW b \in Messages, OrchStep(b)
    PROVE  Serial'
<1> DEFINE OfCreate == CheckExists(b) \/ Describe(b) \/ SaveInitial(b) \/ Launch(b)
                       \/ SaveFinal(b) \/ SaveError(b)
           OfCommand == Unregister(b) \/ ReadInfo(b) \/ SaveStopped(b) \/ CheckRunning(b)
                        \/ CleanupStorage(b) \/ DeleteRecord(b) \/ ReadForPassword(b)
                        \/ Dial(b) \/ SavePassword(b)
<1>1. /\ UNCHANGED <<pc, cmd>> /\ (lost => lost')
      /\ \A c \in Messages \ {b} : opc'[c] = opc[c] /\ reply'[c] = reply[c]
      /\ Act(b)
  BY OrchFrame DEF bridgeVars
<1>2. \A c \in Messages \ {b} : ~Act(c) /\ pc'[c] = pc[c]
  BY <1>1, OthersIdle
<1>3. ASSUME ~lost' PROVE cancelled' = {} /\ Place(b)' /\ Act(b)'
  <2>1. ~lost /\ cancelled = {} /\ Place(b)
    BY <1>1, <1>3 DEF Serial
  <2>2. opc[b] # "none"
    BY OrchFrame
  <2>3. /\ pc[b] = "awaiting" /\ reply[b] = None /\ cmd[b] # "text"
        /\ cmd[b] \in Creates => Creating(b)
        /\ cmd[b] \notin Creates => Commanding(b)
    BY <2>1, <2>2 DEF Place
  <2>4. cmd[b] \in AllCommands
    BY DEF TypeOK
  <2>5. CASE cmd[b] \in Creates
    <3>1. OfCreate
      BY <2>3, <2>5 DEF OrchStep, Creating, Unregister, ReadInfo, SaveStopped, CheckRunning,
         CleanupStorage, DeleteRecord, ReadForPassword, Dial, SavePassword, OAt
    <3>2. /\ Creating(b)' /\ cancelled' = {}
          /\ opc'[b] # "none" => reply'[b] = reply[b]
      BY <1>1, <2>1, <2>3, <2>5, <3>1, CreateSerial
    <3> QED BY <1>1, <2>3, <2>5, <3>2 DEF Place, Act, At
  <2>6. CASE cmd[b] \notin Creates
    <3>1. cmd[b] \in {"stop", "destroy", "passwd"}
      BY <2>3, <2>4, <2>6 DEF AllCommands, Creates
    <3>2. OfCommand
      BY <2>2, <2>3, <2>6, <3>1 DEF OrchStep, Commanding, CheckExists, Describe, SaveInitial,
         Launch, SaveFinal, SaveError, OAt
    <3>3. /\ Commanding(b)' /\ cancelled' = {}
          /\ opc'[b] # "none" => reply'[b] = reply[b]
      BY <1>1, <1>3, <2>1, <2>3, <2>6, <3>1, <3>2, CommandSerial
    <3> QED BY <1>1, <2>3, <2>6, <3>3 DEF Place, Act, At
  <2> QED BY <2>5, <2>6
<1> QED BY <1>1, <1>2, <1>3, SerialKept

LEMMA SerialInit == Init => Serial
BY DEF Init, Serial, Act, At, OAt, Place, Agrees, Settled

LEMMA SerialStep ==
    ASSUME ~Overlap, Careful, TypeOK, Holding, Serial, [Next]_vars
    PROVE  Serial'
<1>1. ASSUME NEW b \in Messages, CallTimeout(b) PROVE Serial'
  <2>1. UNCHANGED <<pc, opc>> /\ lost' = TRUE
    BY <1>1 DEF CallTimeout, bridgeVars
  <2> QED BY <2>1 DEF Serial, Act, At, OAt
<1>2. CASE UNCHANGED vars
  BY <1>2 DEF vars, bridgeVars, orchVars, Serial, Act, At, OAt, Settled, Agrees, RunsAsRecorded,
              WebhookUrl, Place, Updating, Creating, Commanding
<1> QED BY <1>1, <1>2, ReceiveSerial, BridgeSerial, OrchSerial DEF Next

\* The record tells the truth whenever a user who waits for one message's effects before
\* the next, restarts only what is not running and follows once has been served.
THEOREM BindingTruthfulCorrect ==
    ASSUME ~Overlap, Careful
    PROVE  Spec => []BindingTruthful
<1>1. Serial => BindingTruthful
  <2> SUFFICES ASSUME Serial, Settled, ~lost PROVE BindingTruthful
    BY DEF BindingTruthful
  <2>1. Agrees
    BY DEF Serial
  <2>2. CASE rec = None
    <3>1. vm = None
      BY <2>1, <2>2, AgreesMeans
    <3> QED BY <2>2, <3>1 DEF BindingTruthful
  <2>3. CASE rec # None
    <3>1. \/ rec.status = "running" /\ vm # None /\ WebhookUrl(rec) = vm
          \/ rec.status \in {"stopped", "error"} /\ vm = None
      BY <2>1, <2>3 DEF Agrees, RunsAsRecorded
    <3> QED BY <2>3, <3>1 DEF BindingTruthful
  <2> QED BY <2>2, <2>3
<1>2. Spec => [](TypeOK /\ Holding /\ Serial)
  BY TypeInit, TypeStep, SerialInit, SerialStep, PTL DEF Spec
<1> QED BY <1>1, <1>2, PTL

\* The text of such a user is forwarded to the address of the VM that runs.
THEOREM ForwardsCorrect ==
    ASSUME ~Overlap, Careful
    PROVE  Spec => ForwardsToRegisteredVM
<1>1. ASSUME TypeOK, Serial, NEW b \in Messages, ~lost, Forward(b)
      PROVE  vm # None /\ sent'[b] = vm
  <2>1. RunsAsRecorded /\ seen[b] = rec
    BY <1>1 DEF Serial, Place, Forward, At
  <2>2. sent'[b] = WebhookUrl(seen[b])
    BY <1>1 DEF Forward, Target, TypeOK
  <2> QED BY <2>1, <2>2 DEF RunsAsRecorded
<1>2. TypeOK /\ Serial /\ [Next]_vars =>
        [\A b \in Messages : ~lost /\ Forward(b) => vm # None /\ sent'[b] = vm]_vars
  BY <1>1
<1>3. Spec => [](TypeOK /\ Holding /\ Serial)
  BY TypeInit, TypeStep, SerialInit, SerialStep, PTL DEF Spec
<1> QED BY <1>2, <1>3, PTL DEF Spec, ForwardsToRegisteredVM

-----------------------------------------------------------------------------
(* The VM of a user whose calls are given up and whose removals fail *)

\* A handler of the orchestrator that a given-up call leaves behind goes on alone: its
\* bridge handler is done or updates the record to what failed, and the message it was
\* for is not answered any more.
LeftAlone(b) ==
    /\ b \in cancelled => opc[b] # "none"
    /\ pc[b] # "awaiting" => reply[b] = None
    /\ opc[b] # "none" =>
        /\ \/ pc[b] \in {"awaiting", "idle"}
           \/ pc[b] \in {"get", "put"} /\ want[b] \in {"stopped", "error"}
        /\ b \notin cancelled => pc[b] = "awaiting" /\ reply[b] = None
    /\ opc[b] \in {"check", "save0"} => b \notin cancelled

\* Which of the orchestrator's handlers may run for a message, and what they and their
\* answers say of the VM.
Serving(b) ==
    /\ opc[b] \in {"check", "describe", "save0", "launch", "save1", "savefail"} =>
        cmd[b] \in Creates
    /\ opc[b] \in {"pread", "dial", "psave"} => cmd[b] = "passwd"
    /\ opc[b] \in {"running", "unregister", "sread", "ssave", "rm", "del"} =>
        cmd[b] \in {"stop", "destroy"}
    /\ opc[b] \in {"save0", "launch", "sread", "ssave", "rm", "del"} => vm = None
    /\ opc[b] = "launch" => rec # None
    /\ cmd[b] = "destroy" /\ reply[b] # None /\ reply[b].ok => vm = None

OneServed == \A b, c \in Messages : Act(b) /\ Act(c) => b = c
Tended == OneServed /\ NoForgottenVM /\ \A b \in Messages : LeftAlone(b) /\ Serving(b)

\* A message that the orchestrator does not serve.
LEMMA Unserved ==
    ASSUME NEW b \in Messages, opc'[b] = "none", b \notin cancelled', reply'[b] = None
    PROVE  LeftAlone(b)' /\ Serving(b)'
BY DEF LeftAlone, Serving

LEMMA TendedKept ==
    ASSUME TypeOK, Tended, NEW b \in Messages, Act(b), cancelled' \ {b} \subseteq cancelled,
           \A c \in Messages \ {b} : pc'[c] = pc[c] /\ opc'[c] = opc[c] /\ reply'[c] = reply[c],
           NoForgottenVM', LeftAlone(b)', Serving(b)'
    PROVE  Tended'
<1>1. \A c \in Messages \ {b} : ~Act(c) /\ ~Act(c)'
  BY DEF Tended, OneServed, Act, At, OAt
<1>2. OneServed'
  BY <1>1 DEF OneServed
<1>3. ASSUME NEW c \in Messages \ {b} PROVE LeftAlone(c)' /\ Serving(c)'
  <2>1. opc[c] = "none" /\ reply[c] = None /\ c \notin cancelled
    BY <1>1 DEF Tended, LeftAlone, Act, At, OAt
  <2> QED BY <2>1, Unserved
<1> QED BY <1>2, <1>3 DEF Tended

LEMMA ReceiveTended ==
    ASSUME ~Overlap, TypeOK, Tended, NEW b \in Messages, NEW c \in Commands, Receive(b, c)
    PROVE  Tended'
<1>1. /\ Settled /\ UNCHANGED <<rec, vm, opc, reply, cancelled>> /\ c \in AllCommands
      /\ \A d \in Messages \ {b} : pc'[d] = pc[d]
  BY BindingAssumption DEF Receive, Update, To, TypeOK, orchVars
<1>2. \A d \in Messages : ~Act(d) /\ opc[d] = "none" /\ pc[d] = "idle"
  BY <1>1 DEF Settled, Act, At, OAt
<1>3. \A d \in Messages : LeftAlone(d)' /\ Serving(d)'
  BY <1>1, <1>2, Unserved DEF Tended, LeftAlone
<1>4. OneServed'
  BY <1>1, <1>2 DEF OneServed, Act, At, OAt
<1> QED BY <1>1, <1>3, <1>4 DEF Tended, NoForgottenVM

LEMMA BridgeTended ==
    ASSUME TypeOK, Holding, Tended, NEW b \in Messages, BridgeStep(b)
    PROVE  Tended'
<1> USE DEF At, To, OAt, OTo
<1>1. LeftAlone(b) /\ Serving(b) /\ NoForgottenVM /\ UNCHANGED <<vm, cancelled>>
  BY BridgeFrame DEF Tended
<1> SUFFICES NoForgottenVM' /\ LeftAlone(b)' /\ Serving(b)'
  BY BridgeFrame, TendedKept
<1>2. CASE Route(b) \/ Forward(b)
  <2>1. UNCHANGED <<rec, opc, reply>> /\ opc[b] = "none" /\ reply[b] = None
    BY <1>1, <1>2 DEF Route, Forward, LeftAlone, orchVars
  <2> QED BY <1>1, <2>1, Unserved DEF LeftAlone, NoForgottenVM
<1>3. CASE SetInitial(b)
  <2>1. UNCHANGED <<opc, reply>> /\ opc[b] = "none" /\ reply[b] = None
    BY <1>1, <1>3 DEF SetInitial, LeftAlone, orchVars
  <2>2. rec' # None
    BY <1>3, WrittenTypes, ReadTypes DEF SetInitial, SetBinding, Statuses, MaybeAddress
  <2> QED BY <1>1, <2>1, <2>2, Unserved DEF LeftAlone, NoForgottenVM
<1>4. CASE GetBinding(b) \/ PutBinding(b)
  <2>1. /\ UNCHANGED <<want, cmd, opc, reply>> /\ reply[b] = None
        /\ pc'[b] \in {"put", AfterUpdate(b)} /\ pc[b] \in {"get", "put"}
    BY <1>1, <1>4 DEF GetBinding, PutBinding, LeftAlone, orchVars, TypeOK
  <2>2. rec' = rec \/ rec' # None
    <3>1. CASE PutBinding(b)
      BY <3>1, ChangedTypes, ReadTypes DEF PutBinding, SetBinding, Holding, TypeOK
    <3> QED BY <1>4, <3>1 DEF GetBinding
  <2>3. opc[b] # "none" => pc'[b] \in {"put", "idle"}
    BY <1>1, <2>1 DEF LeftAlone, AfterUpdate
  <2>4. LeftAlone(b)'
    BY <1>1, <2>1, <2>3 DEF LeftAlone
  <2>5. Serving(b)' /\ NoForgottenVM'
    BY <1>1, <2>1, <2>2 DEF Serving, NoForgottenVM
  <2> QED BY <2>4, <2>5
<1>5. CASE CallOrchestrator(b)
  <2>1. /\ UNCHANGED <<rec, cmd, reply>> /\ reply[b] = None /\ pc'[b] = "awaiting"
        /\ b \notin cancelled
    BY <1>1, <1>5 DEF CallOrchestrator, LeftAlone, TypeOK
  <2>2. cmd[b] \in {"subscribe", "restart", "stop", "destroy", "passwd"}
    BY <1>5 DEF CallOrchestrator, Holding, TypeOK, AllCommands
  <2>3. \/ cmd[b] \in Creates /\ opc'[b] = "check"
        \/ cmd[b] = "passwd" /\ opc'[b] = "pread"
        \/ cmd[b] \in {"stop", "destroy"} /\ opc'[b] \in {"unregister", "running"}
    BY <1>5, <2>2 DEF CallOrchestrator, Creates, TypeOK
  <2> QED BY <1>1, <2>1, <2>3 DEF LeftAlone, Serving, NoForgottenVM
<1>6. ASSUME NEW ok \in BOOLEAN, Answered(b, ok),
             Ends(b) \/ Update(b, "stopped") \/ Update(b, "error"),
             rec' = None => \/ rec = None
                            \/ cmd[b] = "destroy" /\ ok = TRUE
      PROVE  NoForgottenVM' /\ LeftAlone(b)' /\ Serving(b)'
  <2>1. /\ UNCHANGED <<cmd, opc>> /\ reply'[b] = None /\ reply[b] # None /\ reply[b].ok = ok
        /\ \/ pc'[b] = "idle"
           \/ pc'[b] = "get" /\ want'[b] \in {"stopped", "error"}
    BY <1>6 DEF Answered, Ends, Update, TypeOK
  <2>2. opc[b] # "none" => b \in cancelled
    BY <1>1, <2>1 DEF LeftAlone
  <2>3. LeftAlone(b)'
    BY <1>1, <2>1, <2>2 DEF LeftAlone
  <2>4. NoForgottenVM'
    BY <1>1, <1>6, <2>1 DEF NoForgottenVM, Serving
  <2>5. rec' = None => opc[b] # "launch"
    BY <1>1, <1>6, <2>1 DEF Serving, Creates
  <2>6. Serving(b)'
    BY <1>1, <2>1, <2>5 DEF Serving
  <2> QED BY <2>3, <2>4, <2>6
<1>7. CASE ProvisionDone(b) \/ RestartDone(b)
  <2>1. Answered(b, TRUE) /\ Ends(b) /\ \E s \in Statuses : rec' = BridgeRec(s, reply[b].addr)
    BY <1>7 DEF ProvisionDone, RestartDone, SetBinding, Bound, Statuses
  <2>2. reply[b] \in Answers
    BY <2>1 DEF Answered, TypeOK
  <2>3. rec' # None
    BY <2>1, <2>2, AnswerTypes, WrittenTypes, ReadTypes
  <2> QED BY <1>6, <2>1, <2>3
<1>8. CASE DestroyDone(b)
  BY <1>6, <1>8 DEF DestroyDone
<1>9. CASE StopDone(b) \/ PasswdDone(b)
  BY <1>6, <1>9 DEF StopDone, PasswdDone
<1>10. CASE ProvisionFailed(b) \/ RestartFailed(b) \/ CommandFailed(b)
  BY <1>6, <1>10 DEF ProvisionFailed, RestartFailed, CommandFailed, Failed
<1> QED BY <1>2, <1>3, <1>4, <1>5, <1>7, <1>8, <1>9, <1>10 DEF BridgeStep

\* The orchestrator answers and is done with the message.
LEMMA AnswerTended ==
    ASSUME TypeOK, NEW b \in Messages, LeftAlone(b), Serving(b), opc[b] # "none",
           UNCHANGED bridgeVars, NEW a, Answer(b, a), vm' \in {vm, None},
           cmd[b] = "destroy" /\ a.ok => vm' = None
    PROVE  LeftAlone(b)' /\ Serving(b)'
<1>1. /\ opc'[b] = "none" /\ b \notin cancelled' /\ UNCHANGED <<pc, cmd>>
      /\ reply'[b] = IF b \in cancelled THEN reply[b] ELSE a
  BY DEF Answer, OTo, TypeOK, bridgeVars
<1>2. pc[b] # "awaiting" => reply'[b] = None
  BY <1>1 DEF LeftAlone
<1>3. cmd[b] = "destroy" /\ reply'[b] # None /\ reply'[b].ok => vm' = None
  BY <1>1 DEF Serving
<1> QED BY <1>1, <1>2, <1>3 DEF LeftAlone, Serving

\* It goes on to another step.
LEMMA GoesOnTended ==
    ASSUME TypeOK, NEW b \in Messages, LeftAlone(b), Serving(b), opc[b] # "none",
           UNCHANGED bridgeVars, NEW place, place # "none",
           GoOn(b, place) \/ \E r : Hold(b, r, place),
           place # "check", place = "save0" => opc[b] = "check",
           place \in {"describe", "save0", "launch", "save1", "savefail"} => cmd[b] \in Creates,
           place \in {"pread", "dial", "psave"} => cmd[b] = "passwd",
           place \in {"running", "unregister", "sread", "ssave", "rm", "del"} =>
                cmd[b] \in {"stop", "destroy"},
           place \in {"save0", "launch", "sread", "ssave", "rm", "del"} => vm' = None,
           place = "launch" => rec' # None,
           cmd[b] = "destroy" => vm' \in {vm, None}
    PROVE  LeftAlone(b)' /\ Serving(b)'
<1>1. opc'[b] = place /\ UNCHANGED <<pc, cmd, want, reply, cancelled>>
  BY DEF GoOn, Hold, OTo, TypeOK, bridgeVars
<1> QED BY <1>1 DEF LeftAlone, Serving

LEMMA OrchTended ==
    ASSUME TypeOK, Holding, Tended, NEW b \in Messages, OrchStep(b)
    PROVE  Tended'
<1> USE DEF OAt
<1>1. /\ LeftAlone(b) /\ Serving(b) /\ NoForgottenVM /\ opc[b] # "none"
      /\ UNCHANGED bridgeVars
  BY OrchFrame DEF Tended
<1> SUFFICES NoForgottenVM' /\ LeftAlone(b)' /\ Serving(b)'
  BY OrchFrame, TendedKept DEF bridgeVars
<1>2. Error.ok = FALSE /\ \A s, a : Info(s, a).ok = TRUE
  BY DEF Error, Info
<1>3. ASSUME vm' = None, AfterStop(b), cmd[b] \in {"stop", "destroy"}
      PROVE  LeftAlone(b)' /\ Serving(b)'
  BY <1>1, <1>3, AnswerTended, GoesOnTended DEF AfterStop
<1>4. ASSUME NEW r \in Records, SaveUser(b, r) PROVE rec' = rec \/ rec' # None
  BY <1>4, ReadTypes DEF SaveUser
<1>5. CASE CheckExists(b)
  <2>1. /\ UNCHANGED <<rec, vm>> /\ opc[b] = "check" /\ cmd[b] \in Creates
        /\ \/ vm = None /\ GoOn(b, "save0")
           \/ GoOn(b, "describe")
    BY <1>1, <1>5 DEF CheckExists, Serving
  <2> QED BY <1>1, <2>1, GoesOnTended DEF NoForgottenVM
<1>6. CASE Describe(b)
  <2>1. /\ UNCHANGED <<rec, vm>> /\ cmd[b] # "destroy" /\ \E a : Answer(b, a)
    BY <1>1, <1>6 DEF Describe, Serving, Creates
  <2> QED BY <1>1, <2>1, AnswerTended DEF NoForgottenVM
<1>7. CASE SaveInitial(b)
  <2>1. rec' # None
    BY <1>7, WrittenTypes, ReadTypes DEF SaveInitial, Statuses, MaybeAddress
  <2>2. vm' = None /\ cmd[b] \in Creates /\ GoOn(b, "launch")
    BY <1>1, <1>7 DEF SaveInitial, Serving
  <2> QED BY <1>1, <2>1, <2>2, GoesOnTended DEF NoForgottenVM
<1>8. CASE Launch(b)
  <2>1. /\ UNCHANGED rec /\ rec # None /\ cmd[b] \in Creates /\ cmd[b] # "destroy"
        /\ \E r : Hold(b, r, "save1") \/ Hold(b, r, "savefail")
    BY <1>1, <1>8 DEF Launch, Serving, Creates
  <2> QED BY <1>1, <2>1, GoesOnTended DEF NoForgottenVM
<1>9. CASE SaveFinal(b) \/ SaveError(b)
  <2>1. /\ held[b] \in Records /\ SaveUser(b, held[b]) /\ UNCHANGED vm /\ cmd[b] # "destroy"
        /\ \E a : Answer(b, a)
    BY <1>1, <1>9 DEF SaveFinal, SaveError, Holding, Serving, Creates
  <2> QED BY <1>1, <1>4, <2>1, AnswerTended DEF NoForgottenVM
<1>10. CASE Unregister(b)
  <2>1. vm' = None /\ UNCHANGED rec /\ cmd[b] \in {"stop", "destroy"}
    BY <1>1, <1>10 DEF Unregister, Serving
  <2>2. GoOn(b, "sread") \/ GoOn(b, "rm") \/ Answer(b, Error)
    BY <1>10 DEF Unregister
  <2> QED BY <1>1, <2>1, <2>2, AnswerTended, GoesOnTended DEF NoForgottenVM
<1>11. CASE ReadInfo(b)
  <2>1. /\ vm' = None /\ UNCHANGED rec /\ cmd[b] \in {"stop", "destroy"}
        /\ AfterStop(b) \/ \E r : Hold(b, r, "ssave")
    BY <1>1, <1>11 DEF ReadInfo, Serving
  <2> QED BY <1>1, <1>3, <2>1, GoesOnTended DEF NoForgottenVM
<1>12. CASE SaveStopped(b)
  <2>1. vm' = None /\ AfterStop(b) /\ cmd[b] \in {"stop", "destroy"}
    BY <1>1, <1>12 DEF SaveStopped, Serving
  <2> QED BY <1>3, <2>1 DEF NoForgottenVM
<1>13. CASE CheckRunning(b)
  <2>1. /\ UNCHANGED <<rec, vm>> /\ cmd[b] \in {"stop", "destroy"}
        /\ \/ vm = None /\ GoOn(b, "rm")
           \/ GoOn(b, "unregister")
    BY <1>1, <1>13 DEF CheckRunning, Serving
  <2> QED BY <1>1, <2>1, GoesOnTended DEF NoForgottenVM
<1>14. CASE CleanupStorage(b)
  <2>1. /\ vm' = None /\ cmd[b] \in {"stop", "destroy"}
        /\ GoOn(b, "del") \/ Answer(b, Error)
    BY <1>1, <1>14 DEF CleanupStorage, Serving
  <2> QED BY <1>1, <2>1, AnswerTended, GoesOnTended DEF NoForgottenVM
<1>15. CASE DeleteRecord(b)
  <2>1. vm' = None /\ Answer(b, Done)
    BY <1>1, <1>15 DEF DeleteRecord, Serving
  <2> QED BY <1>1, <2>1, AnswerTended DEF NoForgottenVM
<1>16. CASE ReadForPassword(b) \/ Dial(b)
  <2>1. /\ UNCHANGED <<rec, vm>> /\ cmd[b] = "passwd"
        /\ \/ \E r : Hold(b, r, "dial") \/ Hold(b, r, "psave")
           \/ Answer(b, Error)
    BY <1>1, <1>16 DEF ReadForPassword, Dial, Serving
  <2> QED BY <1>1, <2>1, AnswerTended, GoesOnTended DEF NoForgottenVM
<1>17. CASE SavePassword(b)
  <2>1. /\ UNCHANGED vm /\ cmd[b] = "passwd" /\ (rec' = rec \/ rec' = held[b])
        /\ held[b] \in Records /\ \E a : Answer(b, a)
    BY <1>1, <1>17 DEF SavePassword, Serving, Holding
  <2>2. rec' = rec \/ rec' # None
    BY <2>1, ReadTypes
  <2> QED BY <1>1, <2>1, <2>2, AnswerTended DEF NoForgottenVM
<1> QED BY <1>5, <1>6, <1>7, <1>8, <1>9, <1>10, <1>11, <1>12, <1>13, <1>14, <1>15, <1>16,
           <1>17 DEF OrchStep

\* The bridge gives up a call that is past the orchestrator's first save.
LEMMA TimeoutTended ==
    ASSUME TypeOK, Tended, NEW b \in Messages, CallTimeout(b)
    PROVE  Tended'
<1>1. /\ pc[b] = "awaiting" /\ UNCHANGED <<rec, vm, pc, cmd, want, opc>>
      /\ opc[b] \notin {"check", "save0"} /\ reply'[b] = Error /\ Error.ok = FALSE
      /\ cancelled' = IF opc[b] = "none" THEN cancelled ELSE cancelled \cup {b}
      /\ \A c \in Messages \ {b} : reply'[c] = reply[c]
  BY DEF CallTimeout, At, OAt, bridgeVars, TypeOK, Error
<1>2. LeftAlone(b) /\ Serving(b) /\ Act(b)
  BY <1>1 DEF Tended, Act, At
<1>3. LeftAlone(b)' /\ Serving(b)'
  BY <1>1, <1>2 DEF LeftAlone, Serving
<1>4. cancelled' \ {b} \subseteq cancelled
  BY <1>1
<1> QED BY <1>1, <1>2, <1>3, <1>4, TendedKept DEF Tended, NoForgottenVM

LEMMA TendedStep ==
    ASSUME ~Overlap, TypeOK, Holding, Tended, [Next]_vars
    PROVE  Tended'
<1>1. CASE UNCHANGED vars
  BY <1>1 DEF vars, bridgeVars, orchVars, Tended, OneServed, Act, At, OAt, NoForgottenVM,
              LeftAlone, Serving
<1> QED BY <1>1, ReceiveTended, BridgeTended, OrchTended, TimeoutTended DEF Next

LEMMA TendedInit == Init => Tended
BY DEF Init, Tended, OneServed, Act, At, OAt, NoForgottenVM, LeftAlone, Serving

LEMMA TendedAlways ==
    ASSUME ~Overlap
    PROVE  Spec => [](TypeOK /\ Holding /\ Tended)
<1> QED BY TypeInit, TypeStep, TendedInit, TendedStep, PTL DEF Spec

\* Whatever a user asks for in turn, and whichever call is given up or removal fails, a VM
\* that runs for him has a record.
THEOREM NoForgottenVMCorrect ==
    ASSUME ~Overlap
    PROVE  Spec => []NoForgottenVM
<1>1. Tended => NoForgottenVM
  BY DEF Tended
<1> QED BY <1>1, TendedAlways, PTL

\* As far as the bridge makes it work, the orchestrator is the registry of one user.
LEMMA RegistryStepCorrect ==
    ASSUME TypeOK, Tended, [Next]_vars
    PROVE  [Registry!Next]_([u \in {"user"} |-> vm])
<1> SUFFICES ASSUME ~UNCHANGED vm
             PROVE  Registry!Next
  OBVIOUS
<1>1. PICK b \in Messages : OrchStep(b)
  BY BridgeFrame DEF Next, Receive, CallTimeout, vars, orchVars
<1>2. Serving(b)
  BY DEF Tended
<1>3. CASE Launch(b)
  <2>1. PICK a \in Addresses : vm' = a
    BY <1>3 DEF Launch
  <2>2. vm = None /\ a # None
    BY <1>2, <1>3, <2>1, BindingAssumption DEF Launch, OAt, Serving
  <2>3. Registry!Start("user", a)
    BY <2>1, <2>2 DEF Registry!Start
  <2> QED BY <2>3 DEF Registry!Next
<1>4. CASE Unregister(b)
  <2>1. vm' = None /\ vm # None
    BY <1>4 DEF Unregister
  <2>2. Registry!Stop("user")
    BY <2>1 DEF Registry!Stop
  <2> QED BY <2>2 DEF Registry!Next
<1>5. Launch(b) \/ Unregister(b)
  BY <1>1 DEF OrchStep, CheckExists, Describe, SaveInitial, SaveFinal, SaveError, ReadInfo,
     SaveStopped, CheckRunning, CleanupStorage, DeleteRecord, ReadForPassword, Dial,
     SavePassword
<1> QED BY <1>3, <1>4, <1>5

\* The model of the bridge and its orchestrator implements the registry too, whichever
\* call is given up: a user's VM is not replaced by another before it was stopped.
THEOREM RegistryCorrect ==
    ASSUME ~Overlap
    PROVE  Spec => RegistrySpec
<1>1. Init => Registry!Init
  BY DEF Init, Registry!Init
<1>2. TypeOK /\ Tended /\ [Next]_vars => [Registry!Next]_([u \in {"user"} |-> vm])
  BY RegistryStepCorrect
<1> QED BY <1>1, <1>2, TendedAlways, PTL DEF Spec, RegistrySpec, Registry!Spec

\* A handler that will yet write another status than "provisioning".
Pending(b) ==
    \/ pc[b] \in {"call", "awaiting"} /\ cmd[b] \in Creates
    \/ pc[b] \in {"get", "put"} /\ want[b] \in {"provisioning", "error"}

\* A create for a new user finds no VM, so that it is answered "running" or not at all;
\* what the orchestrator holds to be written later says something else than
\* "provisioning".
Resolves(b) ==
    /\ pc[b] = "initial" => vm = None
    /\ pc[b] = "call" /\ cmd[b] = "subscribe" => vm = None
    /\ opc[b] = "check" /\ cmd[b] = "subscribe" => vm = None
    /\ opc[b] = "describe" => cmd[b] # "subscribe"
    /\ opc[b] \in {"save1", "savefail", "ssave", "dial", "psave"} =>
        held[b].status # "provisioning"
    /\ cmd[b] = "subscribe" /\ reply[b] # None /\ reply[b].ok => reply[b].status = "running"

Resolved ==
    /\ Reads({"provisioning"}) => \E b \in Messages : Pending(b)
    /\ \A b \in Messages : Resolves(b)

LEMMA ResolvedKept ==
    ASSUME TypeOK, Tended, Resolved, NEW b \in Messages, Act(b),
           \A c \in Messages \ {b} : pc'[c] = pc[c] /\ opc'[c] = opc[c] /\ reply'[c] = reply[c],
           Resolves(b)', Reads({"provisioning"})' => Pending(b)'
    PROVE  Resolved'
<1>1. ASSUME NEW c \in Messages \ {b} PROVE Resolves(c)'
  <2>1. pc[c] = "idle" /\ opc[c] = "none"
    BY DEF Tended, OneServed, Act, At, OAt
  <2>2. reply[c] = None
    BY <2>1 DEF Tended, LeftAlone
  <2> QED BY <2>1, <2>2 DEF Resolves
<1> QED BY <1>1 DEF Resolved

\* Of a message that is being served nobody else is pending.
LEMMA AloneIsPending ==
    ASSUME Tended, Resolved, NEW b \in Messages, Act(b)
    PROVE  Reads({"provisioning"}) => Pending(b)
BY DEF Tended, OneServed, Resolved, Pending, Act, At, OAt

LEMMA ReceiveResolved ==
    ASSUME ~Overlap, Careful, TypeOK, Tended, Resolved,
           NEW b \in Messages, NEW c \in Commands, Receive(b, c)
    PROVE  Resolved'
<1>1. /\ Settled /\ Sensible(c) /\ UNCHANGED <<rec, vm, opc, reply>> /\ c \in AllCommands
      /\ \A d \in Messages \ {b} : pc'[d] = pc[d]
      /\ cmd'[b] = c /\ (pc'[b] = "initial" => c = "subscribe")
      /\ pc'[b] = "call" => c # "subscribe"
  BY BindingAssumption DEF Receive, Update, To, TypeOK, orchVars
<1>2. \A d \in Messages : pc[d] = "idle" /\ opc[d] = "none" /\ reply[d] = None
  BY <1>1 DEF Settled, At, OAt, Tended, LeftAlone
<1>3. ~Reads({"provisioning"})
  BY <1>2 DEF Resolved, Pending
<1>4. c = "subscribe" => vm = None
  BY <1>1 DEF Sensible, Tended, NoForgottenVM
<1>5. \A d \in Messages : Resolves(d)'
  BY <1>1, <1>2, <1>4 DEF Resolves
<1> QED BY <1>1, <1>3, <1>5 DEF Resolved, Reads

LEMMA BridgeResolved ==
    ASSUME TypeOK, Holding, Tended, Resolved, NEW b \in Messages, BridgeStep(b)
    PROVE  Resolved'
<1> USE DEF At, To, OAt, OTo
<1>1. /\ LeftAlone(b) /\ Resolves(b) /\ NoForgottenVM /\ UNCHANGED <<vm, held>>
      /\ Reads({"provisioning"}) => Pending(b)
  BY BridgeFrame, AloneIsPending DEF Tended, Resolved
<1> SUFFICES Resolves(b)' /\ (Reads({"provisioning"})' => Pending(b)')
  BY BridgeFrame, ResolvedKept
<1>2. CASE Route(b)
  <2>1. /\ UNCHANGED <<rec, opc, reply>> /\ opc[b] = "none" /\ reply[b] = None
        /\ pc[b] = "route" /\ pc'[b] # "call" /\ (pc'[b] = "initial" => rec = None)
    BY <1>1, <1>2 DEF Route, LeftAlone, Update, orchVars, TypeOK
  <2>2. ~Reads({"provisioning"})
    BY <1>1, <2>1 DEF Pending
  <2> QED BY <1>1, <2>1, <2>2 DEF Resolves, Reads, NoForgottenVM
<1>3. CASE Forward(b)
  <2>1. /\ UNCHANGED <<rec, opc, reply>> /\ opc[b] = "none" /\ reply[b] = None
        /\ pc[b] = "forward" /\ pc'[b] = "idle"
    BY <1>1, <1>3 DEF Forward, LeftAlone, orchVars, TypeOK
  <2>2. ~Reads({"provisioning"})
    BY <1>1, <2>1 DEF Pending
  <2> QED BY <2>1, <2>2 DEF Resolves, Reads
<1>4. CASE SetInitial(b)
  <2>1. /\ UNCHANGED <<opc, reply>> /\ opc[b] = "none" /\ reply[b] = None /\ vm = None
        /\ pc'[b] = "call" /\ cmd'[b] = "subscribe"
    BY <1>1, <1>4 DEF SetInitial, LeftAlone, Resolves, orchVars, TypeOK
  <2> QED BY <1>1, <2>1 DEF Resolves, Pending, Creates
<1>5. CASE GetBinding(b) \/ PutBinding(b)
  <2>1. /\ UNCHANGED <<want, cmd, opc, reply>> /\ reply[b] = None /\ pc[b] \in {"get", "put"}
        /\ pc'[b] = "put" \/ pc'[b] = AfterUpdate(b)
    BY <1>1, <1>5 DEF GetBinding, PutBinding, LeftAlone, orchVars, TypeOK
  <2>2. /\ AfterUpdate(b) = "call" => want[b] = "provisioning"
        /\ AfterUpdate(b) \in {"call", "forward", "idle"}
        /\ want[b] = "provisioning" => AfterUpdate(b) = "call" /\ cmd[b] = "restart"
    BY <2>1 DEF AfterUpdate, Holding
  <2>3. Resolves(b)'
    BY <1>1, <2>1, <2>2 DEF Resolves
  <2>4. CASE GetBinding(b)
    <3>1. UNCHANGED rec /\ (rec # None => pc'[b] = "put")
      BY <2>4 DEF GetBinding, TypeOK
    <3> QED BY <1>1, <2>1, <2>3, <3>1 DEF Pending, Reads
  <2>5. CASE PutBinding(b)
    <3>1. rec'.status = want[b] /\ pc'[b] = AfterUpdate(b)
      BY <2>5 DEF PutBinding, SetBinding, Holding, Records, TypeOK
    <3> QED BY <2>1, <2>2, <2>3, <3>1 DEF Pending, Reads, Creates
  <2> QED BY <1>5, <2>4, <2>5
<1>6. CASE CallOrchestrator(b)
  <2>1. /\ UNCHANGED <<rec, cmd, want, reply>> /\ reply[b] = None /\ pc'[b] = "awaiting"
        /\ pc[b] = "call" /\ cmd[b] \in {"subscribe", "restart", "stop", "destroy", "passwd"}
    BY <1>1, <1>6 DEF CallOrchestrator, LeftAlone, Holding, TypeOK, AllCommands
  <2>2. opc'[b] \in {"check", "unregister", "running", "pread"}
    BY <1>6, <2>1 DEF CallOrchestrator, TypeOK
  <2>3. Resolves(b)'
    BY <1>1, <2>1, <2>2 DEF Resolves
  <2> QED BY <1>1, <2>1, <2>3 DEF Pending, Reads
<1>7. ASSUME NEW ok \in BOOLEAN, Answered(b, ok), Ends(b) \/ \E s \in Statuses : Update(b, s)
      PROVE  Resolves(b)' /\ pc[b] = "awaiting" /\ reply[b] \in Answers /\ reply[b].ok = ok
  <2>1. /\ UNCHANGED <<cmd, opc>> /\ reply'[b] = None /\ pc'[b] \in {"idle", "get"}
    BY <1>7 DEF Answered, Ends, Update, TypeOK
  <2> QED BY <1>1, <1>7, <2>1 DEF Resolves, Answered, TypeOK
<1>8. CASE ProvisionDone(b) \/ RestartDone(b)
  <2>1. Answered(b, TRUE) /\ Ends(b)
    BY <1>8 DEF ProvisionDone, RestartDone
  <2>2. Resolves(b)' /\ reply[b] \in Answers /\ reply[b] # None /\ reply[b].ok = TRUE
    BY <1>7, <2>1, NoneAssumption
  <2>3. rec' = BridgeRec("running", reply[b].addr)
    BY <1>1, <1>8, <2>2 DEF ProvisionDone, RestartDone, SetBinding, Bound, Resolves
  <2> QED BY <2>2, <2>3 DEF Reads, BridgeRec
<1>9. CASE ProvisionFailed(b) \/ RestartFailed(b)
  <2>1. Answered(b, FALSE) /\ Update(b, "error")
    BY <1>9 DEF ProvisionFailed, RestartFailed, Failed
  <2>2. pc'[b] = "get" /\ want'[b] = "error"
    BY <2>1 DEF Update, TypeOK
  <2> QED BY <1>7, <2>1, <2>2 DEF Pending, Statuses
<1>10. CASE StopDone(b) \/ DestroyDone(b) \/ PasswdDone(b) \/ CommandFailed(b)
  <2>1. /\ cmd[b] \notin Creates /\ rec' \in {rec, None}
        /\ \E ok \in BOOLEAN : Answered(b, ok)
        /\ Ends(b) \/ \E s \in Statuses : Update(b, s)
    BY <1>10 DEF StopDone, DestroyDone, PasswdDone, CommandFailed, Creates, DeleteBinding,
                 Statuses
  <2>2. Resolves(b)' /\ pc[b] = "awaiting"
    BY <1>7, <2>1
  <2>3. ~Reads({"provisioning"})
    BY <1>1, <2>1, <2>2 DEF Pending
  <2> QED BY <2>1, <2>2, <2>3 DEF Reads
<1> QED BY <1>2, <1>3, <1>4, <1>5, <1>6, <1>8, <1>9, <1>10 DEF BridgeStep

LEMMA AnswerResolves ==
    ASSUME TypeOK, NEW b \in Messages, LeftAlone(b), Resolves(b), opc[b] # "none",
           UNCHANGED bridgeVars, NEW a, Answer(b, a),
           cmd[b] = "subscribe" /\ a.ok => a.status = "running"
    PROVE  Resolves(b)'
<1>1. /\ opc'[b] = "none" /\ UNCHANGED <<pc, cmd>>
      /\ reply'[b] = IF b \in cancelled THEN reply[b] ELSE a
  BY DEF Answer, OTo, TypeOK, bridgeVars
<1> QED BY <1>1 DEF Resolves, LeftAlone

LEMMA GoesOnResolves ==
    ASSUME TypeOK, NEW b \in Messages, LeftAlone(b), Resolves(b), opc[b] # "none",
           UNCHANGED bridgeVars, NEW place, place # "check",
           place = "describe" => cmd[b] # "subscribe",
           \/ GoOn(b, place) /\ place \notin {"save1", "savefail", "ssave", "dial", "psave"}
           \/ \E r : Hold(b, r, place) /\ r.status # "provisioning"
    PROVE  Resolves(b)'
<1>1. opc'[b] = place /\ UNCHANGED <<pc, cmd, reply>>
  BY DEF GoOn, Hold, OTo, TypeOK, bridgeVars
<1>2. place \in {"save1", "savefail", "ssave", "dial", "psave"} =>
        held'[b].status # "provisioning"
  BY DEF Hold, TypeOK
<1> QED BY <1>1, <1>2 DEF Resolves, LeftAlone

LEMMA OrchResolved ==
    ASSUME TypeOK, Holding, Tended, Resolved, NEW b \in Messages, OrchStep(b)
    PROVE  Resolved'
<1> USE DEF OAt
<1>1. /\ LeftAlone(b) /\ Serving(b) /\ Resolves(b) /\ opc[b] # "none" /\ UNCHANGED bridgeVars
      /\ Reads({"provisioning"}) => Pending(b)
  BY OrchFrame, AloneIsPending DEF Tended, Resolved
<1>2. Pending(b) => Pending(b)'
  BY <1>1 DEF Pending, bridgeVars
<1> SUFFICES Resolves(b)' /\ (Reads({"provisioning"})' => Reads({"provisioning"}) \/ Pending(b))
  BY <1>1, <1>2, OrchFrame, ResolvedKept DEF bridgeVars
<1>3. ASSUME AfterStop(b) PROVE Resolves(b)'
  <2>1. Answer(b, Done) \/ GoOn(b, "rm")
    BY <1>3 DEF AfterStop
  <2>2. cmd[b] = "subscribe" => ~Answer(b, Done)
    BY <1>3 DEF AfterStop, GoOn, Answer, OTo, TypeOK
  <2> QED BY <1>1, <2>1, <2>2, AnswerResolves, GoesOnResolves
<1>4. ASSUME UNCHANGED rec PROVE Reads({"provisioning"})' => Reads({"provisioning"})
  BY <1>4 DEF Reads
<1>5. ASSUME rec' = rec \/ (rec' = held[b] /\ held[b].status # "provisioning") \/ rec' = None
      PROVE  Reads({"provisioning"})' => Reads({"provisioning"})
  BY <1>5 DEF Reads
<1>6. CASE CheckExists(b)
  <2>1. /\ UNCHANGED rec
        /\ \/ GoOn(b, "save0")
           \/ cmd[b] # "subscribe" /\ GoOn(b, "describe")
    BY <1>1, <1>6 DEF CheckExists, Resolves
  <2> QED BY <1>1, <1>4, <2>1, GoesOnResolves
<1>7. CASE Describe(b)
  <2>1. UNCHANGED rec /\ cmd[b] # "subscribe" /\ \E a : Answer(b, a)
    BY <1>1, <1>7 DEF Describe, Resolves
  <2> QED BY <1>1, <1>4, <2>1, AnswerResolves
<1>8. CASE SaveInitial(b)
  <2>1. GoOn(b, "launch") /\ opc[b] = "save0"
    BY <1>8 DEF SaveInitial
  <2>2. Pending(b)
    BY <1>1, <2>1 DEF LeftAlone, Serving, Pending
  <2> QED BY <1>1, <2>1, <2>2, GoesOnResolves
<1>9. CASE Launch(b)
  <2>1. /\ UNCHANGED rec
        /\ \E r : /\ r.status # "provisioning"
                  /\ Hold(b, r, "save1") \/ Hold(b, r, "savefail")
    BY <1>9 DEF Launch, OrchRec
  <2> QED BY <1>1, <1>4, <2>1, GoesOnResolves
<1>10. CASE SaveFinal(b)
  <2>1. held[b].status # "provisioning" /\ (rec' = rec \/ rec' = held[b])
    BY <1>1, <1>10 DEF SaveFinal, SaveUser, Resolves
  <2>2. \E a : Answer(b, a) /\ a.status = "running"
    BY <1>10 DEF SaveFinal, Info
  <2> QED BY <1>1, <1>5, <2>1, <2>2, AnswerResolves
<1>11. CASE SaveError(b)
  <2>1. held[b].status # "provisioning" /\ (rec' = rec \/ rec' = held[b])
    BY <1>1, <1>11 DEF SaveError, SaveUser, Resolves
  <2>2. Answer(b, Error) /\ Error.ok = FALSE
    BY <1>11 DEF SaveError, Error
  <2> QED BY <1>1, <1>5, <2>1, <2>2, AnswerResolves
<1>12. CASE Unregister(b) \/ CheckRunning(b)
  <2>1. /\ UNCHANGED rec
        /\ \/ GoOn(b, "sread") \/ GoOn(b, "rm") \/ GoOn(b, "unregister")
           \/ Answer(b, Error)
    BY <1>12 DEF Unregister, CheckRunning
  <2>2. Error.ok = FALSE
    BY DEF Error
  <2> QED BY <1>1, <1>4, <2>1, <2>2, AnswerResolves, GoesOnResolves
<1>13. CASE ReadInfo(b)
  <2>1. rec # None => [rec EXCEPT !.status = "stopped"].status = "stopped"
    BY DEF TypeOK, Records
  <2>2. /\ UNCHANGED rec
        /\ AfterStop(b) \/ \E r : r.status # "provisioning" /\ Hold(b, r, "ssave")
    BY <1>13, <2>1 DEF ReadInfo
  <2> QED BY <1>1, <1>3, <1>4, <2>2, GoesOnResolves
<1>14. CASE SaveStopped(b)
  <2>1. held[b].status # "provisioning" /\ (rec' = rec \/ rec' = held[b]) /\ AfterStop(b)
    BY <1>1, <1>14 DEF SaveStopped, SaveHeld, SaveUser, Resolves
  <2> QED BY <1>3, <1>5, <2>1
<1>15. CASE CleanupStorage(b)
  <2>1. UNCHANGED rec /\ (GoOn(b, "del") \/ Answer(b, Error)) /\ Error.ok = FALSE
    BY <1>15 DEF CleanupStorage, Error
  <2> QED BY <1>1, <1>4, <2>1, AnswerResolves, GoesOnResolves
<1>16. CASE DeleteRecord(b)
  <2>1. (rec' = rec \/ rec' = None) /\ Answer(b, Done)
    BY <1>16 DEF DeleteRecord, SaveUser
  <2>2. cmd[b] # "subscribe"
    BY <1>1, <1>16 DEF DeleteRecord, Serving
  <2> QED BY <1>1, <1>5, <2>1, <2>2, AnswerResolves
<1>17. CASE ReadForPassword(b)
  <2>1. /\ UNCHANGED rec /\ Error.ok = FALSE
        /\ \/ Hold(b, rec, "dial") /\ rec.status # "provisioning"
           \/ Answer(b, Error)
    BY <1>17 DEF ReadForPassword, Reads, Error
  <2> QED BY <1>1, <1>4, <2>1, AnswerResolves, GoesOnResolves
<1>18. CASE Dial(b)
  <2>1. held[b].status # "provisioning" /\ held[b] \in Records
    BY <1>1, <1>18 DEF Dial, Resolves, Holding
  <2>2. [held[b] EXCEPT !.pass = "new"].status # "provisioning"
    BY <2>1 DEF Records
  <2>3. /\ UNCHANGED rec /\ Error.ok = FALSE
        /\ \/ \E r : r.status # "provisioning" /\ Hold(b, r, "psave")
           \/ Answer(b, Error)
    BY <1>18, <2>2 DEF Dial, Error
  <2> QED BY <1>1, <1>4, <2>3, AnswerResolves, GoesOnResolves
<1>19. CASE SavePassword(b)
  <2>1. /\ held[b].status # "provisioning" /\ (rec' = rec \/ rec' = held[b])
        /\ cmd[b] # "subscribe" /\ \E a : Answer(b, a)
    BY <1>1, <1>19 DEF SavePassword, Resolves, Serving
  <2> QED BY <1>1, <1>5, <2>1, AnswerResolves
<1> QED BY <1>6, <1>7, <1>8, <1>9, <1>10, <1>11, <1>12, <1>13, <1>14, <1>15, <1>16, <1>17,
           <1>18, <1>19 DEF OrchStep

LEMMA TimeoutResolved ==
    ASSUME TypeOK, Tended, Resolved, NEW b \in Messages, CallTimeout(b)
    PROVE  Resolved'
<1>1. /\ pc[b] = "awaiting" /\ UNCHANGED <<rec, vm, held, pc, cmd, want, opc>>
      /\ reply'[b] = Error /\ Error.ok = FALSE
      /\ \A c \in Messages \ {b} : reply'[c] = reply[c]
  BY DEF CallTimeout, At, bridgeVars, TypeOK, Error
<1>2. Resolves(b) /\ Act(b) /\ (Reads({"provisioning"}) => Pending(b))
  BY <1>1, AloneIsPending DEF Resolved, Act, At
<1>3. Resolves(b)'
  BY <1>1, <1>2 DEF Resolves
<1>4. Reads({"provisioning"})' => Pending(b)'
  BY <1>1, <1>2 DEF Reads, Pending
<1> QED BY <1>1, <1>2, <1>3, <1>4, ResolvedKept

LEMMA ResolvedStep ==
    ASSUME ~Overlap, Careful, TypeOK, Holding, Tended, Resolved, [Next]_vars
    PROVE  Resolved'
<1>1. CASE UNCHANGED vars
  BY <1>1 DEF vars, bridgeVars, orchVars, Resolved, Reads, Pending, Resolves
<1> QED BY <1>1, ReceiveResolved, BridgeResolved, OrchResolved, TimeoutResolved DEF Next

\* Between messages no record says "provisioning", calls that were given up and went on
\* included, for a user who restarts only what is not running and follows once.
THEOREM NoStaleProvisioningCorrect ==
    ASSUME ~Overlap, Careful
    PROVE  Spec => []NoStaleProvisioning
<1>1. Init => Resolved
  BY DEF Init, Resolved, Reads, Resolves
<1>2. TypeOK /\ Holding /\ Tended /\ Resolved /\ [Next]_vars => Resolved'
  BY ResolvedStep
<1>3. Resolved => NoStaleProvisioning
  BY DEF Resolved, NoStaleProvisioning, Settled, Pending, At
<1> QED BY <1>1, <1>2, <1>3, TendedAlways, PTL DEF Spec

=============================================================================
