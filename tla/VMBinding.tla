----------------------------- MODULE VMBinding ------------------------------
(***************************************************************************)
(* The record of one user under vm:binding:<openid>, which two programs    *)
(* write in two schemas: the WeChat bridge (routes/wechat.ts,              *)
(* services/redis.ts: vmIp, webhookUrl) and the orchestrator (manager.go:  *)
(* user_id, vm_ip, webhook_url).  They share only `status` and             *)
(* `ssh_password`; a field the reader does not find is empty to it.        *)
(*                                                                         *)
(* A WeChat message b is served by an async handler of the bridge, which   *)
(* may call the orchestrator: pc[b] is where the handler is between two    *)
(* awaits, opc[b] where the orchestrator's handler of its call is.         *)
(***************************************************************************)

CONSTANTS
    Messages,   \* the messages served at once; a served one stands for the next
    Commands,   \* what they may be: a subset of AllCommands
    Addresses,  \* of the user's VM
    None,
    Overlap,    \* does the user write before the last message is done with?
    Careful,    \* does the user restart only what is not running, and follow once?
    Lossy       \* may calls time out, and removals of images fail?

AllCommands == {"subscribe", "text", "restart", "stop", "destroy", "passwd"}

ASSUME BindingAssumption ==
    /\ Commands \subseteq AllCommands
    /\ None \notin Addresses
    /\ {Overlap, Careful, Lossy} \subseteq BOOLEAN

VARIABLES
    rec,              \* the record under vm:binding:<openid>
    vm,               \* Manager.instances[user]: the address of its VM, or None
    guestPass,        \* the password in the user's root image
    lost,             \* has a call timed out or a removal failed?
    pc, cmd,          \* the bridge's handlers
    seen,             \* the binding a message was routed on
    want, got,        \* updateVMBindingStatus: the status to write, the record read
    sent,             \* where a text was forwarded
    opc, held,        \* the orchestrator's handler of the call, and its record
    reply,            \* its answer
    cancelled         \* calls the bridge has given up

bridgeVars == <<pc, cmd, seen, want, got, sent>>
orchVars   == <<opc, held, reply>>
vars == <<rec, vm, guestPass, lost, bridgeVars, orchVars, cancelled>>

-----------------------------------------------------------------------------
MaybeAddress == Addresses \cup {None}
Statuses  == {"provisioning", "running", "stopped", "error"}
Passwords == {"default", "new"}
Records   == [by : {"bridge", "orch"}, status : Statuses, addr : MaybeAddress,
              pass : Passwords]

\* What each program writes.
BridgeRec(status, addr) ==
    [by |-> "bridge", status |-> status, addr |-> addr, pass |-> "default"]
OrchRec(status, addr) ==
    [by |-> "orch", status |-> status, addr |-> addr, pass |-> "default"]

\* The address each finds in a record.
WebhookUrl(r) == IF r.by = "bridge" THEN r.addr ELSE None
VMAddr(r)     == IF r.by = "orch" THEN r.addr ELSE None

\* An answer of the orchestrator's API.
Answers == [ok : BOOLEAN, status : Statuses, addr : MaybeAddress]
Done  == [ok |-> TRUE, status |-> "stopped", addr |-> None]
Error == [ok |-> FALSE, status |-> "error", addr |-> None]
Info(status, addr) == [ok |-> TRUE, status |-> status, addr |-> addr]

ASSUME NoneAssumption == None \notin Records \cup Answers

Pcs  == {"idle", "route", "initial", "call", "awaiting", "get", "put", "forward"}
OPcs == {"none", "check", "describe", "save0", "launch", "save1", "savefail",
         "running", "unregister", "sread", "ssave", "rm", "del",
         "pread", "dial", "psave"}

At(b, place) == pc[b] = place
To(b, place) == pc' = [pc EXCEPT ![b] = place]
OAt(b, place) == opc[b] = place
OTo(b, place) == opc' = [opc EXCEPT ![b] = place]

\* The record is there, with one of the statuses S.
Reads(S) == rec # None /\ rec.status \in S

Settled == \A b \in Messages : At(b, "idle") /\ OAt(b, "none")

Init ==
    /\ rec = None /\ vm = None /\ guestPass = "default" /\ lost = FALSE
    /\ pc = [b \in Messages |-> "idle"]
    /\ cmd = [b \in Messages |-> "text"]
    /\ seen = [b \in Messages |-> None]
    /\ want = [b \in Messages |-> "running"]
    /\ got = [b \in Messages |-> None]
    /\ sent = [b \in Messages |-> None]
    /\ opc = [b \in Messages |-> "none"]
    /\ held = [b \in Messages |-> None]
    /\ reply = [b \in Messages |-> None]
    /\ cancelled = {}

-----------------------------------------------------------------------------
(* The bridge *)

\* setVMBinding and deleteVMBinding
SetBinding(r) == rec' = r
DeleteBinding == rec' = None

Sensible(c) ==
    /\ c = "restart" => ~Reads({"running"})
    /\ c = "subscribe" => rec = None

\* updateVMBindingStatus(openId, s): a read and, if it found a record, a write.
Update(b, s) == want' = [want EXCEPT ![b] = s] /\ To(b, "get")

\* The dispatch on event, command or plain message.
Receive(b, c) ==
    /\ At(b, "idle") /\ OAt(b, "none")
    /\ Overlap \/ Settled
    /\ Careful => Sensible(c)
    /\ cmd' = [cmd EXCEPT ![b] = c]
    /\ \/ c = "text" /\ To(b, "route") /\ UNCHANGED want
       \/ c = "subscribe" /\ To(b, "initial") /\ UNCHANGED want
       \/ c = "restart" /\ Update(b, "provisioning")
       \/ c \in {"stop", "destroy", "passwd"} /\ To(b, "call") /\ UNCHANGED want
    /\ seen' = [seen EXCEPT ![b] = None]
    /\ sent' = [sent EXCEPT ![b] = None]
    /\ UNCHANGED <<rec, vm, guestPass, lost, got, orchVars, cancelled>>

\* The routing of a message that is no command.
Route(b) ==
    /\ At(b, "route")
    /\ seen' = [seen EXCEPT ![b] = rec]
    /\ \/ /\ rec = None
          /\ To(b, "initial") /\ UNCHANGED <<want, cmd>>
       \/ /\ Reads({"provisioning", "error"})
          /\ To(b, "idle") /\ UNCHANGED <<want, cmd>>
       \/ /\ Reads({"stopped"})
          /\ Update(b, "provisioning") /\ cmd' = [cmd EXCEPT ![b] = "restart"]
       \/ /\ Reads({"running"})
          /\ Update(b, "running") /\ UNCHANGED cmd
    /\ UNCHANGED <<rec, vm, guestPass, lost, got, sent, orchVars, cancelled>>

\* handleNewUser
SetInitial(b) ==
    /\ At(b, "initial") /\ To(b, "call")
    /\ SetBinding(BridgeRec("provisioning", None))
    /\ cmd' = [cmd EXCEPT ![b] = "subscribe"]
    /\ UNCHANGED <<vm, guestPass, lost, seen, want, got, sent, orchVars, cancelled>>

\* Where a handler goes when its status update is over.
AfterUpdate(b) ==
    CASE want[b] = "provisioning" -> "call"
      [] want[b] = "running"      -> "forward"
      [] OTHER                    -> "idle"

GetBinding(b) ==
    /\ At(b, "get")
    /\ got' = [got EXCEPT ![b] = rec]
    /\ To(b, IF rec = None THEN AfterUpdate(b) ELSE "put")
    /\ UNCHANGED <<rec, vm, guestPass, lost, cmd, seen, want, sent, orchVars, cancelled>>

PutBinding(b) ==
    /\ At(b, "put") /\ To(b, AfterUpdate(b))
    /\ SetBinding([got[b] EXCEPT !.status = want[b]])
    /\ got' = [got EXCEPT ![b] = None]
    /\ UNCHANGED <<vm, guestPass, lost, cmd, seen, want, sent, orchVars, cancelled>>

\* Mutant: the field has the name the orchestrator's API gives it.
TargetByApiName(b) == VMAddr(seen[b])

Target(b) == WebhookUrl(seen[b])

\* forwardToClawdbot posts to the webhook of the binding the message was routed on.
Forward(b) ==
    /\ At(b, "forward") /\ To(b, "idle")
    /\ sent' = [sent EXCEPT ![b] = Target(b)]
    /\ UNCHANGED <<rec, vm, guestPass, lost, cmd, seen, want, got, orchVars, cancelled>>

CallOrchestrator(b) ==
    /\ At(b, "call") /\ To(b, "awaiting")
    /\ OTo(b, CASE cmd[b] \in {"subscribe", "restart"} -> "check"
                [] cmd[b] = "stop"    -> "unregister"
                [] cmd[b] = "destroy" -> "running"
                [] cmd[b] = "passwd"  -> "pread")
    /\ UNCHANGED <<rec, vm, guestPass, lost, cmd, seen, want, got, sent, held, reply, cancelled>>

\* axios gives up after 30 s, which cancels the request's context in the orchestrator.
\* The check and the first save of a create, a lock and a Redis command, take no 30 s.
CallTimeout(b) ==
    /\ Lossy /\ At(b, "awaiting") /\ reply[b] # Error
    /\ opc[b] \notin {"check", "save0"}
    /\ lost' = TRUE
    /\ cancelled' = IF OAt(b, "none") THEN cancelled ELSE cancelled \cup {b}
    /\ reply' = [reply EXCEPT ![b] = Error]
    /\ UNCHANGED <<rec, vm, guestPass, bridgeVars, opc, held>>

\* The handler has its answer, and stays until it has updated the record's status, if it
\* has to.
Answered(b, ok) ==
    /\ At(b, "awaiting") /\ reply[b] # None /\ reply[b].ok = ok
    /\ reply' = [reply EXCEPT ![b] = None]
    /\ UNCHANGED <<vm, guestPass, lost, cmd, seen, got, sent, opc, held, cancelled>>
Ends(b) == To(b, "idle") /\ UNCHANGED want

\* Mutant: what the answer says of the status is what the binding says.
BoundAsReported(b) == BridgeRec(reply[b].status, None)

\* The binding made of the answer to create.
Bound(b) ==
    BridgeRec(IF reply[b].status = "running" THEN "running" ELSE "provisioning", reply[b].addr)

ProvisionDone(b) ==
    cmd[b] = "subscribe" /\ Answered(b, TRUE) /\ SetBinding(Bound(b)) /\ Ends(b)

\* The status that the answer to start reports is not looked at.
RestartDone(b) ==
    /\ cmd[b] = "restart" /\ Answered(b, TRUE)
    /\ SetBinding(BridgeRec("running", reply[b].addr)) /\ Ends(b)

StopDone(b) ==
    cmd[b] = "stop" /\ Answered(b, TRUE) /\ Update(b, "stopped") /\ UNCHANGED rec

DestroyDone(b) == cmd[b] = "destroy" /\ Answered(b, TRUE) /\ DeleteBinding /\ Ends(b)

PasswdDone(b) == cmd[b] = "passwd" /\ Answered(b, TRUE) /\ UNCHANGED rec /\ Ends(b)

\* Mutant: a status that is not one of VMBinding's.
FailedUnknown(b) == Update(b, "failed")

\* Mutant: a handler whose call timed out leaves the record to the orchestrator.
FailedUnlessLost(b) == IF lost THEN Ends(b) ELSE Update(b, "error")

Failed(b) == Update(b, "error")

ProvisionFailed(b) ==
    cmd[b] = "subscribe" /\ Answered(b, FALSE) /\ Failed(b) /\ UNCHANGED rec

RestartFailed(b) ==
    cmd[b] = "restart" /\ Answered(b, FALSE) /\ Failed(b) /\ UNCHANGED rec

\* The user is told so, and the record stays as it is.
CommandFailed(b) ==
    /\ cmd[b] \in {"stop", "destroy", "passwd"} /\ Answered(b, FALSE)
    /\ UNCHANGED rec /\ Ends(b)

BridgeStep(b) ==
    \/ Route(b) \/ SetInitial(b) \/ GetBinding(b) \/ PutBinding(b) \/ Forward(b)
    \/ CallOrchestrator(b)
    \/ ProvisionDone(b) \/ RestartDone(b) \/ StopDone(b) \/ DestroyDone(b) \/ PasswdDone(b)
    \/ ProvisionFailed(b) \/ RestartFailed(b) \/ CommandFailed(b)

-----------------------------------------------------------------------------
(* The orchestrator: VMOrchestrator's handlers as the record sees them *)

\* A command of Redis under the request's context: it may fail once the caller is gone.
SaveUser(b, r) == rec' = r \/ (b \in cancelled /\ UNCHANGED rec)

Answer(b, a) ==
    /\ OTo(b, "none")
    /\ reply' = IF b \in cancelled THEN reply ELSE [reply EXCEPT ![b] = a]
    /\ cancelled' = cancelled \ {b}
    /\ held' = [held EXCEPT ![b] = None]

GoOn(b, place) == OTo(b, place) /\ UNCHANGED <<held, reply, cancelled>>
Hold(b, r, place) ==
    held' = [held EXCEPT ![b] = r] /\ OTo(b, place) /\ UNCHANGED <<reply, cancelled>>

\* Mutant: the check for an existing VM is gone.
CheckExistsNever(b) ==
    /\ OAt(b, "check") /\ GoOn(b, "save0")
    /\ UNCHANGED <<rec, vm, guestPass, lost, bridgeVars>>

\* CreateVM
CheckExists(b) ==
    /\ OAt(b, "check") /\ GoOn(b, IF vm = None THEN "save0" ELSE "describe")
    /\ UNCHANGED <<rec, vm, guestPass, lost, bridgeVars>>

\* The record of a VM that exists; an absent one is a 201 with null, which the bridge
\* fails on.
Describe(b) ==
    /\ OAt(b, "describe")
    /\ \/ rec # None /\ Answer(b, Info(rec.status, VMAddr(rec)))
       \/ rec = None /\ Answer(b, Error)
       \/ b \in cancelled /\ Answer(b, Error)
    /\ UNCHANGED <<rec, vm, guestPass, lost, bridgeVars>>

SaveInitial(b) ==
    /\ OAt(b, "save0")
    /\ rec' = OrchRec("provisioning", None) /\ GoOn(b, "launch")
    /\ UNCHANGED <<vm, guestPass, lost, bridgeVars>>

\* From AllocateIP to the registration; every failure ends in setVMError.
Launch(b) ==
    /\ OAt(b, "launch")
    /\ \/ \E a \in Addresses : vm' = a /\ Hold(b, OrchRec("running", a), "save1")
       \/ Hold(b, OrchRec("error", None), "savefail") /\ UNCHANGED vm
    /\ UNCHANGED <<rec, guestPass, lost, bridgeVars>>

SaveFinal(b) ==
    /\ OAt(b, "save1") /\ SaveUser(b, held[b])
    /\ Answer(b, Info("running", held[b].addr))
    /\ UNCHANGED <<vm, guestPass, lost, bridgeVars>>

SaveError(b) ==
    /\ OAt(b, "savefail") /\ SaveUser(b, held[b]) /\ Answer(b, Error)
    /\ UNCHANGED <<vm, guestPass, lost, bridgeVars>>

\* StopVM, also as a part of DestroyVM
Unregister(b) ==
    /\ OAt(b, "unregister") /\ vm' = None
    /\ \/ vm # None /\ GoOn(b, "sread")
       \/ vm = None /\ cmd[b] = "stop" /\ Answer(b, Error)
       \/ vm = None /\ cmd[b] = "destroy" /\ GoOn(b, "rm")
    /\ UNCHANGED <<rec, guestPass, lost, bridgeVars>>

AfterStop(b) == IF cmd[b] = "stop" THEN Answer(b, Done) ELSE GoOn(b, "rm")

ReadInfo(b) ==
    /\ OAt(b, "sread")
    /\ \/ rec # None /\ Hold(b, [rec EXCEPT !.status = "stopped"], "ssave")
       \/ (rec = None \/ b \in cancelled) /\ AfterStop(b)
    /\ UNCHANGED <<rec, vm, guestPass, lost, bridgeVars>>

\* The key is made of the record's user_id: that of a record of the bridge is empty, and
\* the write goes to a key of no user.
SaveHeld(b) == IF held[b].by = "orch" THEN SaveUser(b, held[b]) ELSE UNCHANGED rec

SaveStopped(b) ==
    /\ OAt(b, "ssave") /\ SaveHeld(b) /\ AfterStop(b)
    /\ UNCHANGED <<vm, guestPass, lost, bridgeVars>>

\* Mutant: what runs is not stopped first.
CheckRunningNever(b) ==
    /\ OAt(b, "running") /\ GoOn(b, "rm")
    /\ UNCHANGED <<rec, vm, guestPass, lost, bridgeVars>>

\* DestroyVM
CheckRunning(b) ==
    /\ OAt(b, "running") /\ GoOn(b, IF vm = None THEN "rm" ELSE "unregister")
    /\ UNCHANGED <<rec, vm, guestPass, lost, bridgeVars>>

CleanupStorage(b) ==
    /\ OAt(b, "rm")
    /\ \/ GoOn(b, "del") /\ guestPass' = "default" /\ UNCHANGED lost
       \/ Lossy /\ lost' = TRUE /\ Answer(b, Error) /\ UNCHANGED guestPass
    /\ UNCHANGED <<rec, vm, bridgeVars>>

DeleteRecord(b) ==
    /\ OAt(b, "del") /\ SaveUser(b, None) /\ Answer(b, Done)
    /\ UNCHANGED <<vm, guestPass, lost, bridgeVars>>

\* ChangePassword
ReadForPassword(b) ==
    /\ OAt(b, "pread")
    /\ \/ Reads({"running"}) /\ Hold(b, rec, "dial")
       \/ (~Reads({"running"}) \/ b \in cancelled) /\ Answer(b, Error)
    /\ UNCHANGED <<rec, vm, guestPass, lost, bridgeVars>>

Reachable(r) == vm # None /\ VMAddr(r) = vm /\ r.pass = guestPass

Dial(b) ==
    /\ OAt(b, "dial")
    /\ \/ /\ Reachable(held[b])
          /\ guestPass' = "new" /\ Hold(b, [held[b] EXCEPT !.pass = "new"], "psave")
       \/ ~Reachable(held[b]) /\ Answer(b, Error) /\ UNCHANGED guestPass
    /\ UNCHANGED <<rec, vm, lost, bridgeVars>>

SavePassword(b) ==
    /\ OAt(b, "psave")
    /\ \/ rec' = held[b] /\ Answer(b, Done)
       \/ b \in cancelled /\ Answer(b, Error) /\ UNCHANGED rec
    /\ UNCHANGED <<vm, guestPass, lost, bridgeVars>>

OrchStep(b) ==
    \/ CheckExists(b) \/ Describe(b) \/ SaveInitial(b) \/ Launch(b) \/ SaveFinal(b)
    \/ SaveError(b) \/ Unregister(b) \/ ReadInfo(b) \/ SaveStopped(b) \/ CheckRunning(b)
    \/ CleanupStorage(b) \/ DeleteRecord(b) \/ ReadForPassword(b) \/ Dial(b)
    \/ SavePassword(b)

-----------------------------------------------------------------------------
Next == \E b \in Messages :
    \/ \E c \in Commands : Receive(b, c)
    \/ BridgeStep(b)
    \/ CallTimeout(b)
    \/ OrchStep(b)

Spec == Init /\ [][Next]_vars

\* Node runs what is ready and Go its goroutines; commands of Redis and of the host end.
\* A user need not write, and a call need not time out.
FairSpec == Spec /\ \A b \in Messages : WF_vars(BridgeStep(b)) /\ WF_vars(OrchStep(b))

-----------------------------------------------------------------------------
(* Properties *)

TypeOK ==
    /\ rec \in Records \cup {None}
    /\ vm \in MaybeAddress /\ guestPass \in Passwords /\ lost \in BOOLEAN
    /\ pc \in [Messages -> Pcs] /\ cmd \in [Messages -> AllCommands]
    /\ seen \in [Messages -> Records \cup {None}]
    /\ got \in [Messages -> Records \cup {None}]
    /\ want \in [Messages -> Statuses] /\ sent \in [Messages -> MaybeAddress]
    /\ opc \in [Messages -> OPcs] /\ held \in [Messages -> Records \cup {None}]
    /\ reply \in [Messages -> Answers \cup {None}]
    /\ cancelled \subseteq Messages

\* Between messages, if every call was answered in time and every removal worked, the
\* record the bridge routes on agrees with the VM the orchestrator runs: no record, no
\* VM; running, at the VM's address, in the bridge's schema; stopped or error, no VM.
BindingTruthful ==
    Settled /\ ~lost =>
        CASE rec = None -> vm = None
          [] OTHER -> \/ rec.status = "running" /\ vm # None /\ WebhookUrl(rec) = vm
                      \/ rec.status \in {"stopped", "error"} /\ vm = None

\* A text is forwarded to the address of the user's VM, of which the bridge knows only
\* what an earlier message's handlers left in Redis.
ForwardsToRegisteredVM ==
    [][\A b \in Messages : ~lost /\ Forward(b) => vm # None /\ sent'[b] = vm]_vars

\* A VM that runs is never without a record, timeouts and failed removals included: a user
\* who has none is not given a second VM, and no VM is left that only the host knows of.
NoForgottenVM == rec = None => vm = None

\* No record is left saying "provisioning" by a message that is over, not even when its
\* call was given up and the orchestrator went on with it: the user can go on from what
\* it says.
NoStaleProvisioning == Settled => ~Reads({"provisioning"})

\* The user's VM as the registry has it that VMOrchestrator implements too.
Registry == INSTANCE VMRegistry WITH Users <- {"user"}, vm <- [u \in {"user"} |-> vm]
\* Whatever the bridge calls, gives up and calls again, the user's VM is not replaced by
\* another before it was stopped.
RegistrySpec == Registry!Spec

\* "Your Clawdbot is starting, wait a few seconds" (routes/wechat.ts, case
\* 'provisioning') is an answer that does not stay true, timeouts included.
ProvisioningEnds == Reads({"provisioning"}) ~> ~Reads({"provisioning"})

\* handleRestartCommand on any VM ends in a binding that says running and can be routed
\* on.
RunningIsRoutable ==
    Settled /\ Reads({"running"}) => WebhookUrl(rec) # None

\* A password change of a VM that runs, with its record saying so, is not refused.
PasswordOfRunningVM ==
    [][\A b \in Messages : Dial(b) /\ vm # None => guestPass' = "new"]_vars
=============================================================================
