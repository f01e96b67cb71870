--------------------------- MODULE VMOrchestrator ---------------------------
(***************************************************************************)
(* The VM orchestrator of vm-orchestrator/internal/vm: Manager (CreateVM,  *)
(* StopVM, DestroyVM), NetworkManager, StorageManager and the Firecracker  *)
(* launcher, with the part of the host they act on.                        *)
(*                                                                         *)
(* An HTTP request is served by a goroutine of its own.  A request is an   *)
(* element of Reqs and is used once; pc[r] is the next statement of its    *)
(* handler that touches shared state.  A Firecracker process is named by   *)
(* the create request that launched it: ip[r] and tap[r] are then          *)
(* instance.Config.VMIP and instance.Config.TapDevice.                     *)
(***************************************************************************)
EXTENDS Naturals

CONSTANTS
    Users,            \* the user ids the bridge sends (WeChat open ids)
    Reqs,             \* the HTTP requests of a behaviour, each used once
    None,             \* "no user", "no request", "no record"
    MaxHosts,         \* NetworkManager.maxHosts: addresses are the offsets 2..MaxHosts
    FaultKinds,       \* the failures the host, Redis and the clients may produce
    MaxFaults,        \* bound: failures in one behaviour
    Overlap,          \* may two requests for the same user be in flight together?
    MaxRestarts,      \* bound: restarts of the orchestrator process
    SurvivesRestart   \* do Firecracker processes outlive the orchestrator (bare metal)?

AllFaults == {"redis", "cancel", "cp", "truncate", "mkfs", "tap", "iptables",
              "launch", "rm", "guest"}

ASSUME OrchestratorAssumption ==
    /\ None \notin Users \cup Reqs
    /\ MaxHosts \in Nat
    /\ MaxFaults \in Nat
    /\ MaxRestarts \in Nat
    /\ FaultKinds \subseteq AllFaults
    /\ Overlap \in BOOLEAN
    /\ SurvivesRestart \in BOOLEAN

Addresses == 2..MaxHosts      \* .1 is the gateway
NoIP == 0                     \* VMIP = ""

VARIABLES
    pc, op, user,        \* the requests and where each handler is
    ip, tap,             \* vmIP and tapName of a create request
    target,              \* the instance a stop request took out of the map
    info,                \* the record a stop request read from Redis
    cancelled,           \* requests whose context is done
    instances,           \* Manager.instances
    procs,               \* the Firecracker process each create request launched
    allocated, nextIdx,  \* NetworkManager.allocated, .nextIdx
    taps, rules,         \* TAP devices and FORWARD rules of the host
    rootfs, data, sock,  \* the user's images, and whose socket/config files exist
    redis,               \* the record under vm:binding:<user>
    faults, restarts     \* how many failures and restarts have happened

netVars  == <<allocated, nextIdx, taps, rules>>
diskVars == <<rootfs, data, sock>>
vmVars   == <<instances, procs>>
idVars   == <<op, user>>
ownVars  == <<ip, tap, target, info>>
vars == <<pc, idVars, ownVars, cancelled, vmVars, netVars, diskVars, redis,
          faults, restarts>>

-----------------------------------------------------------------------------
Ops == {"create", "stop", "destroy"}   \* StartVM calls CreateVM

\* Handler positions at which a create request has an address, by what it has.
PcIP    == {"stat", "copy", "copying", "statdata", "truncate", "mkfs", "tap"}
PcTap   == {"isolate"}
PcRules == {"launch", "unlaunch", "register"}
PcCreate == {"check", "save0", "alloc"} \cup PcIP \cup PcTap \cup PcRules
                \cup {"save1", "fail"}
PcStop   == {"unregister", "sigterm", "wait", "unrule", "untap", "release",
             "read", "save2"}
PcDestroy == {"running", "rmstore", "del"}
Pcs == {"idle"} \cup PcCreate \cup PcStop \cup PcDestroy \cup {"return", "done"}

Statuses == {"provisioning", "running", "stopped", "error"}
Records  == [status : Statuses, ip : Addresses \cup {NoIP}]
\* "No address" and "no record" are neither.
ASSUME NoneAssumption == None \notin Addresses \cup Records

RuleKinds == {"accept", "drop"}   \* the four ACCEPT rules together, and the DROP rule

Live(r) == procs[r] \in {"alive", "terminating", "orphan"}
Active(r) == pc[r] \notin {"idle", "done"}
Busy(u) == \E r \in Reqs : Active(r) /\ user[r] = u

Goto(r, from, to) == pc[r] = from /\ pc' = [pc EXCEPT ![r] = to]

\* A failure of the host, of Redis or of a client: bounded, and of an allowed kind.
Fault(kind) == kind \in FaultKinds /\ faults < MaxFaults /\ faults' = faults + 1

\* A Redis command of request r fails when its context is done or Redis fails.
RedisWorks(r) == r \notin cancelled /\ UNCHANGED faults
RedisFails(r) == \/ r \in cancelled /\ UNCHANGED faults
                 \/ r \notin cancelled /\ Fault("redis")

SaveVMInfo(r, rec) == redis' = [redis EXCEPT ![user[r]] = rec]

-----------------------------------------------------------------------------
Init ==
    /\ pc = [r \in Reqs |-> "idle"]
    /\ op = [r \in Reqs |-> "create"]
    /\ user \in [Reqs -> Users]
    /\ ip = [r \in Reqs |-> NoIP]
    /\ tap = [r \in Reqs |-> 0]
    /\ target = [r \in Reqs |-> None]
    /\ info = [r \in Reqs |-> [status |-> "provisioning", ip |-> NoIP]]
    /\ cancelled = {}
    /\ instances = [u \in Users |-> None]
    /\ procs = [r \in Reqs |-> "none"]
    /\ allocated = [i \in Addresses |-> None]
    /\ nextIdx = 1
    /\ taps = {}
    /\ rules = [i \in Addresses |-> [k \in RuleKinds |-> 0]]
    /\ rootfs = [u \in Users |-> "absent"]
    /\ data = [u \in Users |-> "absent"]
    /\ sock = [u \in Users |-> None]
    /\ redis = [u \in Users |-> None]
    /\ faults = 0
    /\ restarts = 0

-----------------------------------------------------------------------------
(* A request arrives (handlers.go), is abandoned by its client, returns.    *)

First(o) == CASE o = "create" -> "check"
              [] o = "stop" -> "unregister"
              [] o = "destroy" -> "running"

Submit(r, o) ==
    /\ Goto(r, "idle", First(o))
    /\ Overlap \/ ~Busy(user[r])
    /\ op' = [op EXCEPT ![r] = o]
    /\ UNCHANGED <<user, ownVars, cancelled, vmVars, netVars, diskVars, redis,
                   faults, restarts>>

\* The bridge gives up on the request (its 30 s timeout, or it went away).
ClientGone(r) ==
    /\ Active(r) /\ r \notin cancelled
    /\ Fault("cancel")
    /\ cancelled' = cancelled \cup {r}
    /\ UNCHANGED <<pc, idVars, ownVars, vmVars, netVars, diskVars, redis, restarts>>

\* Mutant: the request's context outlives its response.
ReturnKeepsContext(r) ==
    /\ Goto(r, "return", "done")
    /\ UNCHANGED <<idVars, ownVars, cancelled, vmVars, netVars, diskVars, redis, faults,
                   restarts>>

\* The handler writes its response; net/http then cancels the request's context.
Return(r) ==
    /\ Goto(r, "return", "done")
    /\ cancelled' = cancelled \cup {r}
    /\ UNCHANGED <<idVars, ownVars, vmVars, netVars, diskVars, redis, faults, restarts>>

-----------------------------------------------------------------------------
(* CreateVM *)

\* Mutant: the check for an existing VM is gone.
CheckExistsNever(r) ==
    /\ Goto(r, "check", "save0")
    /\ UNCHANGED <<idVars, ownVars, cancelled, vmVars, netVars, diskVars, redis,
                   faults, restarts>>

\* An existing VM's record is read and returned, whatever it says.
CheckExists(r) ==
    /\ Goto(r, "check", IF instances[user[r]] # None THEN "return" ELSE "save0")
    /\ UNCHANGED <<idVars, ownVars, cancelled, vmVars, netVars, diskVars, redis,
                   faults, restarts>>

SaveInitial(r) ==
    /\ \/ /\ Goto(r, "save0", "alloc")
          /\ RedisWorks(r)
          /\ SaveVMInfo(r, [status |-> "provisioning", ip |-> NoIP])
       \/ /\ Goto(r, "save0", "return")
          /\ RedisFails(r)
          /\ UNCHANGED redis
    /\ UNCHANGED <<idVars, ownVars, cancelled, vmVars, netVars, diskVars, restarts>>

\* Mutants: the scan starts at the gateway; the scan forgets to look at the map.
FreeFromGateway == {1} \cup {i \in Addresses : allocated[i] = None}
FreeUnchecked == Addresses

FreeAddresses == {i \in Addresses : allocated[i] = None}

AllocateIP(r) ==
    /\ \/ \E i \in FreeAddresses :
            /\ \A j \in FreeAddresses : i <= j
            /\ Goto(r, "alloc", "stat")
            /\ allocated' = [allocated EXCEPT ![i] = user[r]]
            /\ ip' = [ip EXCEPT ![r] = i]
       \/ /\ FreeAddresses = {}
          /\ Goto(r, "alloc", "fail")
          /\ UNCHANGED <<allocated, ip>>
    /\ UNCHANGED <<idVars, tap, target, info, cancelled, vmVars, nextIdx, taps, rules,
                   diskVars, redis, faults, restarts>>

\* Mutant: the entry stays.
ReleaseNothing(i) == UNCHANGED allocated

\* ReleaseIP deletes the entry whoever holds it.
ReleaseIP(i) == allocated' = [allocated EXCEPT ![i] = None]

\* ProvisionRootfs: an image that is there is used as it is; otherwise cp starts
\* writing one, and a cp that fails leaves what it wrote.
StatRootfs(r) ==
    /\ Goto(r, "stat", IF rootfs[user[r]] = "absent" THEN "copy" ELSE "statdata")
    /\ UNCHANGED <<idVars, ownVars, cancelled, vmVars, netVars, diskVars, redis,
                   faults, restarts>>

StartCopy(r) ==
    /\ Goto(r, "copy", "copying")
    /\ rootfs' = [rootfs EXCEPT ![user[r]] = "partial"]
    /\ UNCHANGED <<idVars, ownVars, cancelled, vmVars, netVars, data, sock, redis,
                   faults, restarts>>

FinishCopy(r) ==
    /\ \/ /\ Goto(r, "copying", "statdata")
          \* a file removed meanwhile is written without a name
          /\ rootfs' = [rootfs EXCEPT ![user[r]] =
                          IF @ = "absent" THEN @ ELSE "complete"]
          /\ UNCHANGED <<allocated, faults>>
       \/ /\ Goto(r, "copying", "fail")
          /\ Fault("cp")
          /\ ReleaseIP(ip[r])
          /\ UNCHANGED rootfs
    /\ UNCHANGED <<idVars, ownVars, cancelled, vmVars, nextIdx, taps, rules, data, sock,
                   redis, restarts>>

\* ProvisionDataVolume: truncate makes the file, mkfs formats it, and a file that
\* could not be formatted is removed.
StatData(r) ==
    /\ Goto(r, "statdata", IF data[user[r]] = "absent" THEN "truncate" ELSE "tap")
    /\ UNCHANGED <<idVars, ownVars, cancelled, vmVars, netVars, diskVars, redis,
                   faults, restarts>>

Truncate(r) ==
    /\ \/ /\ Goto(r, "truncate", "mkfs")
          /\ data' = [data EXCEPT ![user[r]] = IF @ = "absent" THEN "raw" ELSE @]
          /\ UNCHANGED <<allocated, faults>>
       \/ /\ Goto(r, "truncate", "fail")
          /\ Fault("truncate")
          /\ ReleaseIP(ip[r])
          /\ UNCHANGED data
    /\ UNCHANGED <<idVars, ownVars, cancelled, vmVars, nextIdx, taps, rules, rootfs, sock,
                   redis, restarts>>

\* Mutant: the volume mkfs failed on stays.
KeepData(r) == UNCHANGED data

RemoveData(r) == data' = [data EXCEPT ![user[r]] = "absent"]

\* mkfs.ext4 fails on a file that was removed meanwhile.
Mkfs(r) ==
    /\ \/ /\ Goto(r, "mkfs", "tap")
          /\ data[user[r]] # "absent"
          /\ data' = [data EXCEPT ![user[r]] = "formatted"]
          /\ UNCHANGED <<allocated, faults>>
       \/ /\ Goto(r, "mkfs", "fail")
          /\ \/ data[user[r]] = "absent" /\ UNCHANGED faults
             \/ data[user[r]] # "absent" /\ Fault("mkfs")
          /\ RemoveData(r)
          /\ ReleaseIP(ip[r])
    /\ UNCHANGED <<idVars, ownVars, cancelled, vmVars, nextIdx, taps, rules, rootfs, sock,
                   redis, restarts>>

\* Mutant: the index is read and not advanced.
ReadIndex == UNCHANGED nextIdx

TakeIndex == nextIdx' = nextIdx + 1

\* CreateTapDevice: `ip tuntap add` refuses a name that exists, and any failure
\* deletes the device of that name.
CreateTapDevice(r) ==
    /\ TakeIndex
    /\ \/ /\ Goto(r, "tap", "isolate")
          /\ nextIdx \notin taps
          /\ taps' = taps \cup {nextIdx}
          /\ tap' = [tap EXCEPT ![r] = nextIdx]
          /\ UNCHANGED <<allocated, faults>>
       \/ /\ Goto(r, "tap", "fail")
          /\ \/ nextIdx \in taps /\ UNCHANGED faults
             \/ nextIdx \notin taps /\ Fault("tap")
          /\ taps' = taps \ {nextIdx}
          /\ ReleaseIP(ip[r])
          /\ UNCHANGED tap
    /\ UNCHANGED <<idVars, ip, target, info, cancelled, vmVars, rules, diskVars, redis,
                   restarts>>

\* SetupVMIsolation appends the ACCEPT rules and then the DROP rule; a failure
\* leaves the ones already appended.
AddRules(i, kinds) ==
    rules' = [rules EXCEPT ![i] = [k \in RuleKinds |->
                IF k \in kinds THEN rules[i][k] + 1 ELSE rules[i][k]]]

SetupVMIsolation(r) ==
    /\ \/ /\ Goto(r, "isolate", "launch")
          /\ AddRules(ip[r], RuleKinds)
          /\ UNCHANGED <<allocated, taps, faults>>
       \/ /\ Goto(r, "isolate", "fail")
          /\ Fault("iptables")
          /\ \E appended \in {{}, {"accept"}} : AddRules(ip[r], appended)
          /\ taps' = taps \ {tap[r]}
          /\ ReleaseIP(ip[r])
    /\ UNCHANGED <<idVars, ownVars, cancelled, vmVars, nextIdx, diskVars, redis, restarts>>

\* CleanupVMIsolation: `iptables -D` deletes one copy of each rule, or none of a
\* rule whose command fails.
DeleteRules(i) ==
    \E gone \in SUBSET RuleKinds :
        /\ IF gone = RuleKinds THEN UNCHANGED faults ELSE Fault("iptables")
        /\ rules' = [rules EXCEPT ![i] = [k \in RuleKinds |->
                IF k \in gone /\ rules[i][k] > 0 THEN rules[i][k] - 1 ELSE rules[i][k]]]

\* Launch removes the stale socket, writes the config and starts the process; a
\* context that is done makes exec.CommandContext refuse to start it.
Launch(r) ==
    /\ \/ /\ Goto(r, "launch", "register")
          /\ r \notin cancelled
          /\ procs' = [procs EXCEPT ![r] = "alive"]
          /\ sock' = [sock EXCEPT ![user[r]] = r]
          /\ UNCHANGED faults
       \/ /\ Goto(r, "launch", "unlaunch")
          /\ \/ r \in cancelled /\ UNCHANGED faults
             \/ r \notin cancelled /\ Fault("launch")
          /\ sock' = [sock EXCEPT ![user[r]] = None]
          /\ UNCHANGED procs
    /\ UNCHANGED <<idVars, ownVars, cancelled, instances, netVars, rootfs, data, redis,
                   restarts>>

\* The cleanup of a failed launch.
Unlaunch(r) ==
    /\ Goto(r, "unlaunch", "fail")
    /\ DeleteRules(ip[r])
    /\ taps' = taps \ {tap[r]}
    /\ ReleaseIP(ip[r])
    /\ UNCHANGED <<idVars, ownVars, cancelled, vmVars, nextIdx, diskVars, redis, restarts>>

Register(r) ==
    /\ Goto(r, "register", "save1")
    /\ instances' = [instances EXCEPT ![user[r]] = r]
    /\ UNCHANGED <<idVars, ownVars, cancelled, procs, netVars, diskVars, redis,
                   faults, restarts>>

\* A failure to save the final record is logged and the request still succeeds.
SaveFinal(r) ==
    /\ Goto(r, "save1", "return")
    /\ \/ /\ RedisWorks(r)
          /\ SaveVMInfo(r, [status |-> "running", ip |-> ip[r]])
       \/ RedisFails(r) /\ UNCHANGED redis
    /\ UNCHANGED <<idVars, ownVars, cancelled, vmVars, netVars, diskVars, restarts>>

SetVMError(r) ==
    /\ Goto(r, "fail", "return")
    /\ \/ /\ RedisWorks(r)
          /\ SaveVMInfo(r, [status |-> "error", ip |-> ip[r]])
       \/ RedisFails(r) /\ UNCHANGED redis
    /\ UNCHANGED <<idVars, ownVars, cancelled, vmVars, netVars, diskVars, restarts>>

-----------------------------------------------------------------------------
(* StopVM, and the process it stops *)

\* Where a stop that is over returns to: its caller is StopVM's handler or DestroyVM.
AfterStop(r) == IF op[r] = "destroy" THEN "rmstore" ELSE "return"

\* Mutant: the instance is looked up and stays registered.
KeepInstance(u) == UNCHANGED instances

ForgetInstance(u) == instances' = [instances EXCEPT ![u] = None]

\* The instance leaves the map before its process is told anything.
Unregister(r) ==
    /\ LET inst == instances[user[r]]
       IN  \/ /\ inst = None
              /\ Goto(r, "unregister", AfterStop(r))
              /\ UNCHANGED <<target, instances>>
           \/ /\ inst # None
              /\ Goto(r, "unregister", "sigterm")
              /\ target' = [target EXCEPT ![r] = inst]
              /\ ForgetInstance(user[r])
    /\ UNCHANGED <<idVars, ip, tap, info, cancelled, procs, netVars, diskVars, redis,
                   faults, restarts>>

\* Mutant: the cleanup does not wait for the exit.
SigtermNoWait(r) ==
    /\ Goto(r, "sigterm", "unrule")
    /\ procs' = [procs EXCEPT ![target[r]] =
                    IF @ = "alive" THEN "terminating" ELSE @]
    /\ UNCHANGED <<idVars, ownVars, cancelled, instances, netVars, diskVars, redis,
                   faults, restarts>>

\* A zombie accepts the signal too.
Sigterm(r) ==
    /\ Goto(r, "sigterm", "wait")
    /\ procs' = [procs EXCEPT ![target[r]] =
                    IF @ = "alive" THEN "terminating" ELSE @]
    /\ UNCHANGED <<idVars, ownVars, cancelled, instances, netVars, diskVars, redis,
                   faults, restarts>>

\* Process.Wait has no timeout.  The socket and config files go by the user's name.
WaitExit(r) ==
    /\ Goto(r, "wait", "unrule")
    /\ procs[target[r]] = "zombie"
    /\ procs' = [procs EXCEPT ![target[r]] = "reaped"]
    /\ sock' = [sock EXCEPT ![user[r]] = None]
    /\ UNCHANGED <<idVars, ownVars, cancelled, instances, netVars, rootfs, data, redis,
                   faults, restarts>>

CleanupRules(r) ==
    /\ Goto(r, "unrule", "untap")
    /\ DeleteRules(ip[target[r]])
    /\ UNCHANGED <<idVars, ownVars, cancelled, vmVars, allocated, nextIdx, taps, diskVars,
                   redis, restarts>>

\* Mutant: the device is forgotten.
DestroyNoTap(r) ==
    /\ Goto(r, "untap", "release")
    /\ UNCHANGED <<idVars, ownVars, cancelled, vmVars, netVars, diskVars, redis,
                   faults, restarts>>

DestroyTapDevice(r) ==
    /\ Goto(r, "untap", "release")
    /\ taps' = taps \ {tap[target[r]]}
    /\ UNCHANGED <<idVars, ownVars, cancelled, vmVars, allocated, nextIdx, rules, diskVars,
                   redis, faults, restarts>>

ReleaseAddress(r) ==
    /\ Goto(r, "release", "read")
    /\ ReleaseIP(ip[target[r]])
    /\ UNCHANGED <<idVars, ownVars, cancelled, vmVars, nextIdx, taps, rules, diskVars,
                   redis, faults, restarts>>

\* A record that is missing or cannot be read is not saved.
ReadInfo(r) ==
    /\ \/ /\ RedisWorks(r)
          /\ redis[user[r]] # None
          /\ Goto(r, "read", "save2")
          /\ info' = [info EXCEPT ![r] = redis[user[r]]]
       \/ /\ \/ RedisWorks(r) /\ redis[user[r]] = None
             \/ RedisFails(r)
          /\ Goto(r, "read", AfterStop(r))
          /\ UNCHANGED info
    /\ UNCHANGED <<idVars, ip, tap, target, cancelled, vmVars, netVars, diskVars, redis,
                   restarts>>

\* Mutant: the record is saved as it was read.
AsRead(rec) == rec

Stopped(rec) == [rec EXCEPT !.status = "stopped"]

SaveStopped(r) ==
    /\ Goto(r, "save2", AfterStop(r))
    /\ \/ /\ RedisWorks(r)
          /\ SaveVMInfo(r, Stopped(info[r]))
       \/ RedisFails(r) /\ UNCHANGED redis
    /\ UNCHANGED <<idVars, ownVars, cancelled, vmVars, netVars, diskVars, restarts>>

\* Mutant: exec.Command, which watches no context.
CtxKillNever(r) == FALSE /\ UNCHANGED vars

\* watchCtx, the goroutine exec.CommandContext leaves behind: when the context of
\* the create request is done, its process is killed.
CtxKill(r) ==
    /\ r \in cancelled
    /\ procs[r] \in {"alive", "terminating"}
    /\ procs' = [procs EXCEPT ![r] = "zombie"]
    /\ UNCHANGED <<pc, idVars, ownVars, cancelled, instances, netVars, diskVars, redis,
                   faults, restarts>>

\* The process exits: on SIGTERM, or because its guest panicked.  Only StopVM waits
\* for it; a process that outlived the orchestrator has init as its parent.
ProcExit(r) ==
    /\ \/ /\ procs[r] = "terminating"
          /\ procs' = [procs EXCEPT ![r] = "zombie"]
          /\ UNCHANGED faults
       \/ /\ procs[r] = "alive"
          /\ Fault("guest")
          /\ procs' = [procs EXCEPT ![r] = "zombie"]
       \/ /\ procs[r] = "orphan"
          /\ Fault("guest")
          /\ procs' = [procs EXCEPT ![r] = "reaped"]
    /\ UNCHANGED <<pc, idVars, ownVars, cancelled, instances, netVars, diskVars, redis,
                   restarts>>

-----------------------------------------------------------------------------
(* DestroyVM *)

CheckRunning(r) ==
    /\ Goto(r, "running", IF instances[user[r]] # None THEN "unregister" ELSE "rmstore")
    /\ UNCHANGED <<idVars, ownVars, cancelled, vmVars, netVars, diskVars, redis,
                   faults, restarts>>

CleanupStorage(r) ==
    /\ \/ /\ Goto(r, "rmstore", "del")
          /\ rootfs' = [rootfs EXCEPT ![user[r]] = "absent"]
          /\ data' = [data EXCEPT ![user[r]] = "absent"]
          /\ UNCHANGED faults
       \/ /\ Goto(r, "rmstore", "return")
          /\ Fault("rm")
          /\ UNCHANGED <<rootfs, data>>
    /\ UNCHANGED <<idVars, ownVars, cancelled, vmVars, netVars, sock, redis, restarts>>

DeleteRecord(r) ==
    /\ Goto(r, "del", "return")
    /\ \/ /\ RedisWorks(r)
          /\ SaveVMInfo(r, None)
       \/ RedisFails(r) /\ UNCHANGED redis
    /\ UNCHANGED <<idVars, ownVars, cancelled, vmVars, netVars, diskVars, restarts>>

-----------------------------------------------------------------------------
(* The orchestrator restarts (main.go, NewManager, NewNetworkManager): its maps *)
(* start empty and its handlers and watchers are gone; TAP devices, rules,      *)
(* images and Redis stay.  In a container the Firecracker processes die with    *)
(* it; on bare metal their own process group keeps them running.                *)

Restart ==
    /\ restarts < MaxRestarts
    /\ restarts' = restarts + 1
    /\ pc' = [r \in Reqs |-> IF Active(r) THEN "done" ELSE pc[r]]
    /\ instances' = [u \in Users |-> None]
    /\ allocated' = [i \in Addresses |-> None]
    /\ nextIdx' = 1
    /\ procs' = [r \in Reqs |->
                    IF procs[r] = "none" THEN "none"
                    ELSE IF SurvivesRestart /\ Live(r) THEN "orphan"
                    ELSE "reaped"]
    /\ UNCHANGED <<idVars, ownVars, cancelled, taps, rules, diskVars, redis, faults>>

-----------------------------------------------------------------------------
CreateStep(r) ==
    \/ CheckExists(r) \/ SaveInitial(r) \/ AllocateIP(r)
    \/ StatRootfs(r) \/ StartCopy(r) \/ FinishCopy(r)
    \/ StatData(r) \/ Truncate(r) \/ Mkfs(r)
    \/ CreateTapDevice(r) \/ SetupVMIsolation(r)
    \/ Launch(r) \/ Unlaunch(r) \/ Register(r) \/ SaveFinal(r) \/ SetVMError(r)

StopStep(r) ==
    \/ Unregister(r) \/ Sigterm(r) \/ WaitExit(r)
    \/ CleanupRules(r) \/ DestroyTapDevice(r) \/ ReleaseAddress(r)
    \/ ReadInfo(r) \/ SaveStopped(r)

DestroyStep(r) == CheckRunning(r) \/ CleanupStorage(r) \/ DeleteRecord(r)

HandlerStep(r) == CreateStep(r) \/ StopStep(r) \/ DestroyStep(r) \/ Return(r)

Next ==
    \/ \E r \in Reqs :
        \/ \E o \in Ops : Submit(r, o)
        \/ HandlerStep(r)
        \/ ClientGone(r)
        \/ CtxKill(r)
        \/ ProcExit(r)
    \/ Restart

Spec == Init /\ [][Next]_vars

\* The Go scheduler runs every goroutine that can run: the handlers and watchCtx.
\* Nothing is assumed of clients, guests, failures or restarts.
Fairness == \A r \in Reqs : WF_vars(HandlerStep(r)) /\ WF_vars(CtxKill(r))

FairSpec == Spec /\ Fairness

-----------------------------------------------------------------------------
(* Properties *)

TypeOK ==
    /\ pc \in [Reqs -> Pcs]
    /\ op \in [Reqs -> Ops]
    /\ user \in [Reqs -> Users]
    /\ ip \in [Reqs -> Addresses \cup {NoIP}]
    /\ tap \in [Reqs -> Nat]
    /\ target \in [Reqs -> Reqs \cup {None}]
    /\ info \in [Reqs -> Records]
    /\ cancelled \subseteq Reqs
    /\ instances \in [Users -> Reqs \cup {None}]
    /\ procs \in [Reqs -> {"none", "alive", "terminating", "zombie", "reaped", "orphan"}]
    /\ allocated \in [Addresses -> Users \cup {None}]
    /\ nextIdx \in Nat
    /\ taps \subseteq Nat
    /\ rules \in [Addresses -> [RuleKinds -> Nat]]
    /\ rootfs \in [Users -> {"absent", "partial", "complete"}]
    /\ data \in [Users -> {"absent", "raw", "formatted"}]
    /\ sock \in [Users -> Reqs \cup {None}]
    /\ redis \in [Users -> Records \cup {None}]
    /\ faults \in Nat
    /\ restarts \in Nat

\* A launched VM keeps its network until the stop that waited for it gives it back.
Stopping(r, places) == \E s \in Reqs : target[s] = r /\ pc[s] \in places
Launched(r) == procs[r] \in {"alive", "terminating", "zombie", "orphan"}
HoldsIP(r)  == \/ pc[r] \in PcIP \cup PcTap \cup PcRules
               \/ Launched(r)
               \/ Stopping(r, {"unrule", "untap", "release"})
HoldsTap(r) == \/ pc[r] \in PcTap \cup PcRules
               \/ Launched(r)
               \/ Stopping(r, {"unrule", "untap"})

\* An address has one holder: of the create requests that were given one, the
\* processes that run or wait to be reaped, and the stops that have not given theirs
\* back, no two have the same, and the pool records each as taken by its user
\* (AllocateIP and ReleaseIP under nm.mu, and the order of the steps around them).
IPExclusive ==
    \A r \in Reqs : HoldsIP(r) =>
        /\ ip[r] \in Addresses
        /\ allocated[ip[r]] = user[r]
        /\ \A s \in Reqs \ {r} : HoldsIP(s) => ip[s] # ip[r]

\* The TAP device of every VM is on the host, and is no other VM's: nextIdx is never
\* handed out twice, and no cleanup deletes a device somebody else has.
TapExclusive ==
    \A r \in Reqs : HoldsTap(r) =>
        /\ tap[r] \in taps
        /\ \A s \in Reqs \ {r} : HoldsTap(s) => tap[s] # tap[r]

\* A process that runs has the DROP rule of its address in FORWARD: rules go up before
\* Launch and come down after the exit, and no cleanup takes another VM's.
Isolated == \A r \in Reqs : Live(r) => rules[ip[r]]["drop"] > 0

\* Of the stops of a user only one has the instance: nobody waits twice for a process
\* or cleans up twice, and what is registered is not being stopped (delete under m.mu).
OneStopper ==
    \A s \in Reqs : pc[s] \in PcStop \ {"unregister", "read", "save2"} =>
        /\ \A u \in Users : instances[u] # target[s]
        /\ \A t \in Reqs \ {s} : target[t] # target[s]

\* Whoever called gets an answer: a handler never waits forever, not for a process that
\* ignores SIGTERM either, since the context of its create request ends (watchCtx).
EveryRequestReturns ==
    \A r \in Reqs : (pc[r] # "idle") ~> (pc[r] = "done")

\* No stop waits for a process that nothing will end: it is dead already, or the context
\* of its create is done, for which watchCtx kills it, or that create is about to return,
\* which ends the context (Process.Wait has no timeout, and a guest may ignore SIGTERM).
WaitsForMortal ==
    \A s \in Reqs : pc[s] = "wait" =>
        LET r == target[s] IN
        \/ procs[r] = "zombie"
        \/ /\ procs[r] \in {"alive", "terminating"}
           /\ r \in cancelled \/ pc[r] \in {"save1", "return"}

\* Properties of requests that do not overlap for one user (Overlap = FALSE).

\* A user has at most one running VM.
OneVMPerUser ==
    \A r, s \in Reqs : Live(r) /\ Live(s) /\ user[r] = user[s] => r = s

\* Between requests only registered VMs hold anything: every taken address and every TAP
\* device on the host is that of an instance, whatever step of a create or stop failed.
NoAddressLeaks ==
    \A i \in Addresses : LET u == allocated[i] IN
        u # None /\ ~Busy(u) => instances[u] # None /\ ip[instances[u]] = i
NoTapLeaks ==
    (\A r \in Reqs : ~Active(r)) =>
        taps = {tap[instances[u]] : u \in {v \in Users : instances[v] # None}}
NoLeak == NoAddressLeaks /\ NoTapLeaks

\* Between requests, and if Redis took every write, the record says "running" exactly
\* when the user has an instance, and then names its address.
RecordMatchesInstance ==
    \A u \in Users : ~Busy(u) =>
        IF instances[u] = None
        THEN redis[u] = None \/ redis[u].status \in {"stopped", "error"}
        ELSE redis[u] = [status |-> "running", ip |-> ip[instances[u]]]

\* What is written to Redis is true when it is written, whatever fails before or after:
\* "running" with the address of the registered VM, everything else when there is none.
\* A false record is one that a failed write or a death has overtaken.
WritesAreTrue ==
    [][\A u \in Users : redis'[u] # redis[u] =>
        IF redis'[u] # None /\ redis'[u].status = "running"
        THEN instances[u] # None /\ redis'[u].ip = ip[instances[u]]
        ELSE instances[u] = None]_vars

\* A VM that runs has a formatted data volume and its own socket files: a volume that
\* mkfs failed on is not taken for an existing one, storage goes after the process.
RunsOnItsFiles ==
    \A r \in Reqs : Live(r) /\ instances[user[r]] = r =>
        data[user[r]] = "formatted" /\ sock[user[r]] = r

\* What the documentation says.

\* A process runs from a root image that was copied completely.
BootsCompleteRootfs == \A r \in Reqs : Live(r) => rootfs[user[r]] = "complete"

\* A VM whose record says running, with no request under way, runs.
RunningIsAlive ==
    \A u \in Users :
        ~Busy(u) /\ instances[u] # None /\ redis[u] # None /\ redis[u].status = "running"
        => Live(instances[u])

\* The pool as a set of leases (AddressPool), with the VM that holds each address.
owner == [i \in Addresses |->
            IF \E r \in Reqs : HoldsIP(r) /\ ip[r] = i
            THEN CHOOSE r \in Reqs : HoldsIP(r) /\ ip[r] = i ELSE None]
Pool == INSTANCE AddressPool WITH Holders <- Reqs, owner <- owner
\* Every step of the orchestrator grants the lowest free address, takes one back,
\* loses all of them at once, or leaves the leases alone.
PoolSpec == Pool!Spec

\* The registry as VMRegistry has it: the address of each user's instance.
registered == [u \in Users |-> IF instances[u] = None THEN None ELSE ip[instances[u]]]
Registry == INSTANCE VMRegistry WITH vm <- registered
\* Requests that do not overlap for one user start a VM for who has none, at an address of
\* its own, stop the one there is, lose all of them at once, or leave them alone.
RegistrySpec == Registry!Spec

=============================================================================
