------------------------ MODULE VMOrchestratorProofs ------------------------
(***************************************************************************)
(* Theorems about VMOrchestrator, for any number of users, requests,       *)
(* addresses, failures and restarts.                                       *)
(***************************************************************************)
EXTENDS VMOrchestrator, TLAPS

-----------------------------------------------------------------------------
(* Type correctness *)

USE DEF netVars, diskVars, vmVars, idVars, ownVars

LEMMA PcsDef ==
    Pcs = {"idle", "check", "save0", "alloc", "stat", "copy", "copying", "statdata",
           "truncate", "mkfs", "tap", "isolate", "launch", "unlaunch", "register",
           "save1", "fail", "unregister", "sigterm", "wait", "unrule", "untap",
           "release", "read", "save2", "running", "rmstore", "del", "return", "done"}
BY DEF Pcs, PcCreate, PcIP, PcTap, PcRules, PcStop, PcDestroy

LEMMA FaultType ==
    ASSUME TypeOK, NEW kind, Fault(kind) \/ UNCHANGED faults
    PROVE  faults' \in Nat
BY DEF TypeOK, Fault

LEMMA GotoType ==
    ASSUME TypeOK, NEW r \in Reqs, NEW from, NEW to \in Pcs, Goto(r, from, to)
    PROVE  pc' \in [Reqs -> Pcs]
BY DEF TypeOK, Goto

LEMMA ReleaseType ==
    ASSUME TypeOK, NEW i, ReleaseIP(i) \/ UNCHANGED allocated
    PROVE  allocated' \in [Addresses -> Users \cup {None}]
BY DEF TypeOK, ReleaseIP

LEMMA RulesType ==
    ASSUME TypeOK, NEW i,
           \/ \E kinds : AddRules(i, kinds)
           \/ DeleteRules(i)
           \/ UNCHANGED rules
    PROVE  rules' \in [Addresses -> [RuleKinds -> Nat]]
<1>1. ASSUME NEW new \in [RuleKinds -> Nat], rules' = [rules EXCEPT ![i] = new]
      PROVE  rules' \in [Addresses -> [RuleKinds -> Nat]]
  BY <1>1 DEF TypeOK
<1>2. ASSUME i \notin Addresses, NEW new, rules' = [rules EXCEPT ![i] = new]
      PROVE  rules' \in [Addresses -> [RuleKinds -> Nat]]
  BY <1>2 DEF TypeOK
<1>3. i \in Addresses => \A k \in RuleKinds : rules[i][k] \in Nat
  BY DEF TypeOK
<1>4. CASE \E kinds : AddRules(i, kinds)
  <2>1. PICK kinds : AddRules(i, kinds)
    BY <1>4
  <2> DEFINE new == [k \in RuleKinds |->
                        IF k \in kinds THEN rules[i][k] + 1 ELSE rules[i][k]]
  <2>2. rules' = [rules EXCEPT ![i] = new]
    BY <2>1 DEF AddRules
  <2>3. i \in Addresses => new \in [RuleKinds -> Nat]
    BY <1>3
  <2> HIDE DEF new
  <2> QED
    BY <2>2, <2>3, <1>1, <1>2
<1>5. CASE DeleteRules(i)
  <2>1. PICK gone \in SUBSET RuleKinds : rules' = [rules EXCEPT ![i] = [k \in RuleKinds |->
                IF k \in gone /\ rules[i][k] > 0 THEN rules[i][k] - 1 ELSE rules[i][k]]]
    BY <1>5 DEF DeleteRules
  <2> DEFINE new == [k \in RuleKinds |->
                IF k \in gone /\ rules[i][k] > 0 THEN rules[i][k] - 1 ELSE rules[i][k]]
  <2>2. rules' = [rules EXCEPT ![i] = new]
    BY <2>1
  <2>3. i \in Addresses => new \in [RuleKinds -> Nat]
    BY <1>3
  <2> HIDE DEF new
  <2> QED
    BY <2>2, <2>3, <1>1, <1>2
<1> QED
  BY <1>4, <1>5 DEF TypeOK

LEMMA RedisType ==
    ASSUME TypeOK, NEW r \in Reqs, RedisWorks(r) \/ RedisFails(r)
    PROVE  faults' \in Nat
BY DEF TypeOK, RedisWorks, RedisFails, Fault

LEMMA SubmitType ==
    ASSUME TypeOK, NEW r \in Reqs, NEW o \in Ops, Submit(r, o)
    PROVE  TypeOK'
BY PcsDef DEF TypeOK, Submit, Goto, First, Ops

LEMMA CreateType ==
    ASSUME TypeOK, NEW r \in Reqs, CreateStep(r)
    PROVE  TypeOK'
<1>1. CASE CheckExists(r)
  BY <1>1, PcsDef DEF TypeOK, CheckExists, Goto
<1>2. CASE SaveInitial(r)
  <2>1. faults' \in Nat
    BY <1>2, RedisType DEF SaveInitial
  <2>2. [status |-> "provisioning", ip |-> NoIP] \in Records
    BY DEF Records, Statuses
  <2> QED
    BY <1>2, <2>1, <2>2, PcsDef, ZenonT(30) DEF TypeOK, SaveInitial, Goto, SaveVMInfo
<1>3. CASE AllocateIP(r)
  <2>1. pc' \in [Reqs -> Pcs]
    BY <1>3, GotoType, PcsDef DEF AllocateIP
  <2>2. /\ allocated' \in [Addresses -> Users \cup {None}]
        /\ ip' \in [Reqs -> Addresses \cup {NoIP}]
    BY <1>3 DEF AllocateIP, FreeAddresses, TypeOK
  <2> QED
    BY <1>3, <2>1, <2>2 DEF AllocateIP, TypeOK
<1>4. CASE StatRootfs(r)
  BY <1>4, PcsDef DEF TypeOK, StatRootfs, Goto
<1>5. CASE StartCopy(r)
  BY <1>5, PcsDef DEF TypeOK, StartCopy, Goto
<1>6. CASE FinishCopy(r)
  <2>1. pc' \in [Reqs -> Pcs]
    BY <1>6, GotoType, PcsDef DEF FinishCopy
  <2>2. /\ faults' \in Nat
        /\ allocated' \in [Addresses -> Users \cup {None}]
    BY <1>6, FaultType, ReleaseType DEF FinishCopy
  <2>3. rootfs' \in [Users -> {"absent", "partial", "complete"}]
    BY <1>6 DEF FinishCopy, TypeOK
  <2> QED
    BY <1>6, <2>1, <2>2, <2>3 DEF FinishCopy, TypeOK
<1>7. CASE StatData(r)
  BY <1>7, PcsDef DEF TypeOK, StatData, Goto
<1>8. CASE Truncate(r)
  <2>1. pc' \in [Reqs -> Pcs]
    BY <1>8, GotoType, PcsDef DEF Truncate
  <2>2. /\ faults' \in Nat
        /\ allocated' \in [Addresses -> Users \cup {None}]
    BY <1>8, FaultType, ReleaseType DEF Truncate
  <2>3. data' \in [Users -> {"absent", "raw", "formatted"}]
    BY <1>8 DEF Truncate, TypeOK
  <2> QED
    BY <1>8, <2>1, <2>2, <2>3 DEF Truncate, TypeOK
<1>9. CASE Mkfs(r)
  <2>1. pc' \in [Reqs -> Pcs]
    BY <1>9, GotoType, PcsDef DEF Mkfs
  <2>2. /\ faults' \in Nat
        /\ allocated' \in [Addresses -> Users \cup {None}]
    BY <1>9, FaultType, ReleaseType DEF Mkfs
  <2>3. data' \in [Users -> {"absent", "raw", "formatted"}]
    BY <1>9 DEF Mkfs, TypeOK, RemoveData
  <2> QED
    BY <1>9, <2>1, <2>2, <2>3 DEF Mkfs, TypeOK
<1>10. CASE CreateTapDevice(r)
  <2>1. pc' \in [Reqs -> Pcs]
    BY <1>10, GotoType, PcsDef DEF CreateTapDevice
  <2>2. /\ faults' \in Nat
        /\ allocated' \in [Addresses -> Users \cup {None}]
    BY <1>10, FaultType, ReleaseType DEF CreateTapDevice
  <2>3. nextIdx' \in Nat /\ taps' \subseteq Nat
    <3>1. nextIdx \in Nat /\ taps \subseteq Nat
      BY DEF TypeOK
    <3>2. nextIdx' = nextIdx + 1
      BY <1>10 DEF CreateTapDevice, TakeIndex
    <3>3. taps' = taps \cup {nextIdx} \/ taps' = taps \ {nextIdx}
      BY <1>10 DEF CreateTapDevice
    <3>4. nextIdx' \in Nat
      BY <3>1, <3>2
    <3>5. taps' \subseteq Nat
      BY <3>1, <3>3
    <3> QED
      BY <3>4, <3>5
  <2>4. tap' \in [Reqs -> Nat]
    BY <1>10 DEF CreateTapDevice, TypeOK
  <2> QED
    BY <1>10, <2>1, <2>2, <2>3, <2>4 DEF CreateTapDevice, TypeOK
<1>11. CASE SetupVMIsolation(r)
  <2>1. pc' \in [Reqs -> Pcs]
    BY <1>11, GotoType, PcsDef DEF SetupVMIsolation
  <2>2. /\ faults' \in Nat
        /\ allocated' \in [Addresses -> Users \cup {None}]
        /\ rules' \in [Addresses -> [RuleKinds -> Nat]]
    BY <1>11, FaultType, ReleaseType, RulesType DEF SetupVMIsolation
  <2>3. taps' \subseteq Nat
    BY <1>11 DEF SetupVMIsolation, TypeOK
  <2> QED
    BY <1>11, <2>1, <2>2, <2>3 DEF SetupVMIsolation, TypeOK
<1>12. CASE Launch(r)
  <2>1. pc' \in [Reqs -> Pcs]
    BY <1>12, GotoType, PcsDef DEF Launch
  <2>2. faults' \in Nat
    BY <1>12, FaultType DEF Launch
  <2>3. procs' \in [Reqs -> {"none", "alive", "terminating", "zombie", "reaped",
                             "orphan"}]
    <3>1. procs' = [procs EXCEPT ![r] = "alive"] \/ procs' = procs
      BY <1>12 DEF Launch
    <3> QED
      BY <3>1 DEF TypeOK
  <2>4. sock' \in [Users -> Reqs \cup {None}]
    <3>1. \/ sock' = [sock EXCEPT ![user[r]] = r]
          \/ sock' = [sock EXCEPT ![user[r]] = None]
      BY <1>12 DEF Launch
    <3> QED
      BY <3>1 DEF TypeOK
  <2> QED
    BY <1>12, <2>1, <2>2, <2>3, <2>4 DEF Launch, TypeOK
<1>13. CASE Unlaunch(r)
  <2>1. pc' \in [Reqs -> Pcs]
    BY <1>13, GotoType, PcsDef DEF Unlaunch
  <2>2. faults' \in Nat
    BY <1>13, FaultType DEF Unlaunch, DeleteRules
  <2>3. /\ allocated' \in [Addresses -> Users \cup {None}]
        /\ rules' \in [Addresses -> [RuleKinds -> Nat]]
        /\ taps' \subseteq Nat
    BY <1>13, ReleaseType, RulesType DEF Unlaunch, TypeOK
  <2> QED
    BY <1>13, <2>1, <2>2, <2>3 DEF Unlaunch, TypeOK
<1>14. CASE Register(r)
  BY <1>14, PcsDef DEF TypeOK, Register, Goto
<1>15. CASE SaveFinal(r)
  <2>1. faults' \in Nat
    BY <1>15, RedisType DEF SaveFinal
  <2>2. [status |-> "running", ip |-> ip[r]] \in Records
    BY DEF Records, Statuses, TypeOK
  <2> QED
    BY <1>15, <2>1, <2>2, PcsDef DEF TypeOK, SaveFinal, Goto, SaveVMInfo
<1>16. CASE SetVMError(r)
  <2>1. faults' \in Nat
    BY <1>16, RedisType DEF SetVMError
  <2>2. [status |-> "error", ip |-> ip[r]] \in Records
    BY DEF Records, Statuses, TypeOK
  <2> QED
    BY <1>16, <2>1, <2>2, PcsDef DEF TypeOK, SetVMError, Goto, SaveVMInfo
<1> QED
  BY <1>1, <1>2, <1>3, <1>4, <1>5, <1>6, <1>7, <1>8, <1>9, <1>10, <1>11, <1>12,
     <1>13, <1>14, <1>15, <1>16 DEF CreateStep

LEMMA StopType ==
    ASSUME TypeOK, NEW r \in Reqs, StopStep(r) \/ DestroyStep(r) \/ Return(r)
    PROVE  TypeOK'
<1> AfterStop(r) \in {"rmstore", "return"}
  BY DEF AfterStop
<1>1. CASE Unregister(r)
  <2>1. pc' \in [Reqs -> Pcs]
    BY <1>1, GotoType, PcsDef DEF Unregister
  <2>2. /\ target' \in [Reqs -> Reqs \cup {None}]
        /\ instances' \in [Users -> Reqs \cup {None}]
    BY <1>1 DEF Unregister, TypeOK, ForgetInstance
  <2> QED
    BY <1>1, <2>1, <2>2 DEF Unregister, TypeOK
<1>2. CASE Sigterm(r)
  BY <1>2, PcsDef DEF TypeOK, Sigterm, Goto
<1>3. CASE WaitExit(r)
  BY <1>3, PcsDef DEF TypeOK, WaitExit, Goto
<1>4. CASE CleanupRules(r)
  <2>1. pc' \in [Reqs -> Pcs]
    BY <1>4, GotoType, PcsDef DEF CleanupRules
  <2>2. faults' \in Nat
    BY <1>4, FaultType DEF CleanupRules, DeleteRules
  <2>3. rules' \in [Addresses -> [RuleKinds -> Nat]]
    BY <1>4, RulesType DEF CleanupRules
  <2> QED
    BY <1>4, <2>1, <2>2, <2>3 DEF CleanupRules, TypeOK
<1>5. CASE DestroyTapDevice(r)
  BY <1>5, PcsDef DEF TypeOK, DestroyTapDevice, Goto
<1>6. CASE ReleaseAddress(r)
  <2>1. pc' \in [Reqs -> Pcs]
    BY <1>6, GotoType, PcsDef DEF ReleaseAddress
  <2>2. allocated' \in [Addresses -> Users \cup {None}]
    BY <1>6, ReleaseType DEF ReleaseAddress
  <2> QED
    BY <1>6, <2>1, <2>2 DEF ReleaseAddress, TypeOK
<1>7. CASE ReadInfo(r)
  <2>1. pc' \in [Reqs -> Pcs]
    BY <1>7, GotoType, PcsDef DEF ReadInfo
  <2>2. faults' \in Nat
    BY <1>7, RedisType DEF ReadInfo
  <2>3. info' \in [Reqs -> Records]
    BY <1>7 DEF ReadInfo, TypeOK
  <2> QED
    BY <1>7, <2>1, <2>2, <2>3 DEF ReadInfo, TypeOK
<1>8. CASE SaveStopped(r)
  <2>1. pc' \in [Reqs -> Pcs]
    BY <1>8, GotoType, PcsDef DEF SaveStopped
  <2>2. faults' \in Nat
    BY <1>8, RedisType DEF SaveStopped
  <2>3. CASE SaveVMInfo(r, Stopped(info[r]))
    <3>1. Stopped(info[r]) \in Records
      BY DEF Stopped, Records, Statuses, TypeOK
    <3> QED
      BY <1>8, <2>1, <2>2, <2>3, <3>1 DEF SaveStopped, SaveVMInfo, TypeOK
  <2>4. CASE UNCHANGED redis
    BY <1>8, <2>1, <2>2, <2>4 DEF SaveStopped, TypeOK
  <2> QED
    BY <1>8, <2>3, <2>4 DEF SaveStopped
<1>9. CASE CheckRunning(r)
  BY <1>9, PcsDef DEF TypeOK, CheckRunning, Goto
<1>10. CASE CleanupStorage(r)
  <2>1. pc' \in [Reqs -> Pcs]
    BY <1>10, GotoType, PcsDef DEF CleanupStorage
  <2>2. faults' \in Nat
    BY <1>10, FaultType DEF CleanupStorage
  <2>3. /\ rootfs' \in [Users -> {"absent", "partial", "complete"}]
        /\ data' \in [Users -> {"absent", "raw", "formatted"}]
    BY <1>10, ZenonT(30) DEF CleanupStorage, TypeOK
  <2> QED
    BY <1>10, <2>1, <2>2, <2>3 DEF CleanupStorage, TypeOK
<1>11. CASE DeleteRecord(r)
  <2>1. pc' \in [Reqs -> Pcs]
    BY <1>11, GotoType, PcsDef DEF DeleteRecord
  <2>2. faults' \in Nat
    BY <1>11, RedisType DEF DeleteRecord
  <2>3. redis' \in [Users -> Records \cup {None}]
    BY <1>11 DEF DeleteRecord, SaveVMInfo, TypeOK
  <2> QED
    BY <1>11, <2>1, <2>2, <2>3 DEF DeleteRecord, TypeOK
<1>12. CASE Return(r)
  BY <1>12, PcsDef DEF TypeOK, Return, Goto
<1> QED
  BY <1>1, <1>2, <1>3, <1>4, <1>5, <1>6, <1>7, <1>8, <1>9, <1>10, <1>11, <1>12
  DEF StopStep, DestroyStep

LEMMA OtherType ==
    ASSUME TypeOK, NEW r \in Reqs, ClientGone(r) \/ CtxKill(r) \/ ProcExit(r)
    PROVE  TypeOK'
<1>1. CASE ClientGone(r)
  BY <1>1 DEF TypeOK, ClientGone, Fault
<1>2. CASE CtxKill(r)
  BY <1>2 DEF TypeOK, CtxKill
<1>3. CASE ProcExit(r)
  <2>1. faults' \in Nat
    BY <1>3, FaultType DEF ProcExit
  <2>2. \/ procs' = [procs EXCEPT ![r] = "zombie"]
        \/ procs' = [procs EXCEPT ![r] = "reaped"]
    BY <1>3 DEF ProcExit
  <2>3. procs' \in [Reqs -> {"none", "alive", "terminating", "zombie", "reaped",
                             "orphan"}]
    BY <2>2 DEF TypeOK
  <2> QED
    BY <1>3, <2>1, <2>3 DEF ProcExit, TypeOK
<1> QED
  BY <1>1, <1>2, <1>3

LEMMA RestartType ==
    ASSUME TypeOK, Restart
    PROVE  TypeOK'
<1>1. pc' \in [Reqs -> Pcs]
  BY PcsDef DEF TypeOK, Restart
<1>2. procs' \in [Reqs -> {"none", "alive", "terminating", "zombie", "reaped",
                           "orphan"}]
  BY DEF TypeOK, Restart
<1> QED
  BY <1>1, <1>2 DEF TypeOK, Restart

LEMMA StutterType ==
    ASSUME TypeOK, UNCHANGED vars
    PROVE  TypeOK'
BY DEF TypeOK, vars

\* Every variable keeps its type: TypeOK of VMOrchestrator, with any bounds.
THEOREM TypeCorrect == Spec => []TypeOK
<1>1. Init => TypeOK
  BY PcsDef DEF Init, TypeOK, Ops, Records, Statuses
<1>2. TypeOK /\ [Next]_vars => TypeOK'
  <2> SUFFICES ASSUME TypeOK, [Next]_vars
               PROVE  TypeOK'
    OBVIOUS
  <2>1. ASSUME NEW r \in Reqs, NEW o \in Ops, Submit(r, o)
        PROVE  TypeOK'
    BY <2>1, SubmitType
  <2>2. ASSUME NEW r \in Reqs, HandlerStep(r)
        PROVE  TypeOK'
    BY <2>2, CreateType, StopType DEF HandlerStep
  <2>3. ASSUME NEW r \in Reqs, ClientGone(r) \/ CtxKill(r) \/ ProcExit(r)
        PROVE  TypeOK'
    BY <2>3, OtherType
  <2> QED
    BY <2>1, <2>2, <2>3, RestartType, StutterType DEF Next
<1> QED
  BY <1>1, <1>2, PTL DEF Spec

-----------------------------------------------------------------------------
(* Who has which process: the invariant the others rest on. *)

NotYet   == {"idle", "check", "save0", "alloc", "stat", "copy", "copying", "statdata",
             "truncate", "mkfs", "tap", "isolate", "launch", "unlaunch", "fail"}
Awaiting == {"sigterm", "wait"}
Cleaning == {"unrule", "untap", "release"}

\* A create request that has not launched anything has no process.
NotLaunched == \A r \in Reqs : pc[r] \in NotYet => procs[r] = "none"

\* A process nobody has registered yet is known to nobody else.
NotShared ==
    \A r \in Reqs : pc[r] \in NotYet \cup {"register"} =>
        /\ \A s \in Reqs : target[s] # r
        /\ \A u \in Users : instances[u] # r

\* It runs, or waits to be reaped.
Launching == \A r \in Reqs : pc[r] = "register" => procs[r] \in {"alive", "zombie"}

\* A registered process is its user's, has not been told to stop, and no stop has it.
Registered ==
    \A u \in Users : instances[u] # None =>
        /\ user[instances[u]] = u
        /\ procs[instances[u]] \in {"alive", "zombie"}
        /\ \A s \in Reqs : target[s] # instances[u]

\* No two stops ever take the same process.
OneTaker ==
    \A s, t \in Reqs : s # t /\ target[s] # None => target[s] # target[t]

\* A stop that waits has a process to wait for, and one that cleans up has reaped it.
StopTargets ==
    \A s \in Reqs :
        /\ pc[s] \in Awaiting =>
              target[s] # None /\ procs[target[s]] \in {"alive", "terminating", "zombie"}
        /\ pc[s] \in Cleaning => target[s] # None /\ procs[target[s]] = "reaped"

ProcInv == /\ NotLaunched /\ NotShared /\ Launching /\ Registered
           /\ OneTaker /\ StopTargets

\* The steps that change none of this move a handler within a class of places or
\* out of all of them.
SameClass(from, to) ==
    /\ to \in NotYet => from \in NotYet
    /\ to = "register" => from = "register"
    /\ to \in Awaiting => from \in Awaiting
    /\ to \in Cleaning => from \in Cleaning

LEMMA QuietProc ==
    ASSUME TypeOK, ProcInv, NEW r \in Reqs, NEW from, NEW to,
           Goto(r, from, to), SameClass(from, to),
           UNCHANGED <<user, target, instances, procs>>
    PROVE  ProcInv'
<1>1. \A s \in Reqs : /\ pc'[s] \in NotYet => pc[s] \in NotYet
                      /\ pc'[s] = "register" => pc[s] = "register"
                      /\ pc'[s] \in Awaiting => pc[s] \in Awaiting
                      /\ pc'[s] \in Cleaning => pc[s] \in Cleaning
  BY DEF TypeOK, Goto, SameClass
<1> QED
  BY <1>1 DEF ProcInv, NotLaunched, NotShared, Launching, Registered, OneTaker,
              StopTargets

\* The steps that are quiet in this sense.
LEMMA QuietSteps ==
    ASSUME TypeOK, NEW r \in Reqs,
           \/ \E o \in Ops : Submit(r, o)
           \/ CheckExists(r) \/ SaveInitial(r) \/ AllocateIP(r)
           \/ StatRootfs(r) \/ StartCopy(r) \/ FinishCopy(r)
           \/ StatData(r) \/ Truncate(r) \/ Mkfs(r)
           \/ CreateTapDevice(r) \/ SetupVMIsolation(r)
           \/ Unlaunch(r) \/ SaveFinal(r) \/ SetVMError(r)
           \/ CleanupRules(r) \/ DestroyTapDevice(r) \/ ReleaseAddress(r)
           \/ ReadInfo(r) \/ SaveStopped(r)
           \/ DestroyStep(r) \/ Return(r)
    PROVE  /\ UNCHANGED <<user, target, instances, procs>>
           /\ \E from, to \in Pcs : Goto(r, from, to) /\ SameClass(from, to)
<1> USE PcsDef DEF SameClass, NotYet, Awaiting, Cleaning
<1> AfterStop(r) \in {"rmstore", "return"}
  BY DEF AfterStop
<1>1. CASE \E o \in Ops : Submit(r, o)
  BY <1>1 DEF Submit, First, Ops
<1>2. CASE CheckExists(r) \/ SaveInitial(r)
  BY <1>2 DEF CheckExists, SaveInitial
<1>3. CASE AllocateIP(r)
  BY <1>3 DEF AllocateIP
<1>4. CASE StatRootfs(r) \/ StartCopy(r) \/ FinishCopy(r)
  BY <1>4 DEF StatRootfs, StartCopy, FinishCopy
<1>5. CASE StatData(r) \/ Truncate(r) \/ Mkfs(r)
  BY <1>5 DEF StatData, Truncate, Mkfs
<1>6. CASE CreateTapDevice(r) \/ SetupVMIsolation(r)
  BY <1>6 DEF CreateTapDevice, SetupVMIsolation
<1>7. CASE Unlaunch(r) \/ SaveFinal(r) \/ SetVMError(r)
  BY <1>7 DEF Unlaunch, SaveFinal, SetVMError
<1>8. CASE CleanupRules(r) \/ DestroyTapDevice(r) \/ ReleaseAddress(r)
  BY <1>8 DEF CleanupRules, DestroyTapDevice, ReleaseAddress
<1>9. CASE ReadInfo(r) \/ SaveStopped(r)
  BY <1>9 DEF ReadInfo, SaveStopped
<1>10. CASE DestroyStep(r) \/ Return(r)
  BY <1>10 DEF DestroyStep, CheckRunning, CleanupStorage, DeleteRecord, Return
<1> QED
  BY <1>1, <1>2, <1>3, <1>4, <1>5, <1>6, <1>7, <1>8, <1>9, <1>10

\* The steps that start, hand over, end or reap a process.
LEMMA LaunchProc ==
    ASSUME TypeOK, ProcInv, NEW r \in Reqs, Launch(r)
    PROVE  ProcInv'
<1>1. CASE Goto(r, "launch", "unlaunch") /\ procs' = procs
  <2>1. SameClass("launch", "unlaunch")
    BY DEF SameClass, NotYet, Awaiting, Cleaning
  <2>2. UNCHANGED <<user, target, instances, procs>>
    BY <1>1 DEF Launch
  <2> QED
    BY <1>1, <2>1, <2>2, QuietProc
<1>2. CASE Goto(r, "launch", "register") /\ procs' = [procs EXCEPT ![r] = "alive"]
  <2>1. pc[r] = "launch" /\ pc' = [pc EXCEPT ![r] = "register"]
    BY <1>2 DEF Goto
  <2>2. UNCHANGED <<user, target, instances>>
    BY DEF Launch
  <2>3. /\ procs[r] = "none"
        /\ \A s \in Reqs : target[s] # r
        /\ \A u \in Users : instances[u] # r
    BY <2>1 DEF ProcInv, NotLaunched, NotShared, NotYet
  <2>4. \A s \in Reqs : s # r => pc'[s] = pc[s] /\ procs'[s] = procs[s]
    BY <1>2, <2>1 DEF TypeOK
  <2>5. pc'[r] = "register" /\ procs'[r] = "alive"
    BY <1>2, <2>1 DEF TypeOK
  <2>6. NotLaunched'
    BY <2>4, <2>5 DEF ProcInv, NotLaunched, NotYet
  <2>7. NotShared'
    BY <2>2, <2>3, <2>4, <2>5 DEF ProcInv, NotShared
  <2>8. Launching'
    BY <2>4, <2>5 DEF ProcInv, Launching
  <2>9. Registered'
    BY <2>2, <2>3, <2>4, <2>5 DEF ProcInv, Registered, TypeOK
  <2>10. OneTaker'
    BY <2>2 DEF ProcInv, OneTaker
  <2>11. StopTargets'
    BY <2>2, <2>3, <2>4, <2>5 DEF ProcInv, StopTargets, Awaiting, Cleaning, TypeOK
  <2> QED
    BY <2>6, <2>7, <2>8, <2>9, <2>10, <2>11 DEF ProcInv
<1> QED
  BY <1>1, <1>2 DEF Launch

LEMMA RegisterProc ==
    ASSUME TypeOK, ProcInv, NEW r \in Reqs, Register(r)
    PROVE  ProcInv'
<1>1. /\ pc[r] = "register" /\ pc' = [pc EXCEPT ![r] = "save1"]
      /\ instances' = [instances EXCEPT ![user[r]] = r]
      /\ UNCHANGED <<user, target, procs>>
  BY DEF Register, Goto
<1>2. /\ procs[r] \in {"alive", "zombie"}
      /\ \A s \in Reqs : target[s] # r
      /\ \A u \in Users : instances[u] # r
  BY <1>1 DEF ProcInv, Launching, NotShared
<1>3. \A s \in Reqs : s # r => pc'[s] = pc[s]
  BY <1>1 DEF TypeOK
<1>4. pc'[r] = "save1"
  BY <1>1 DEF TypeOK
<1>5. \A u \in Users : instances'[u] = IF u = user[r] THEN r ELSE instances[u]
  BY <1>1 DEF TypeOK
<1>6. NotLaunched'
  BY <1>1, <1>3, <1>4 DEF ProcInv, NotLaunched, NotYet
<1>7. NotShared'
  BY <1>1, <1>3, <1>4, <1>5 DEF ProcInv, NotShared, NotYet
<1>8. Launching'
  BY <1>1, <1>3, <1>4 DEF ProcInv, Launching
<1>9. Registered'
  BY <1>1, <1>2, <1>5 DEF ProcInv, Registered
<1>10. OneTaker'
  BY <1>1 DEF ProcInv, OneTaker
<1>11. StopTargets'
  BY <1>1, <1>3, <1>4 DEF ProcInv, StopTargets, Awaiting, Cleaning
<1> QED
  BY <1>6, <1>7, <1>8, <1>9, <1>10, <1>11 DEF ProcInv

LEMMA UnregisterProc ==
    ASSUME TypeOK, ProcInv, NEW r \in Reqs, Unregister(r)
    PROVE  ProcInv'
<1> DEFINE inst == instances[user[r]]
<1>1. CASE inst = None
  <2>1. /\ Goto(r, "unregister", AfterStop(r))
        /\ UNCHANGED <<user, target, instances, procs>>
    BY <1>1 DEF Unregister
  <2>2. SameClass("unregister", AfterStop(r))
    BY DEF SameClass, AfterStop, NotYet, Awaiting, Cleaning
  <2> QED
    BY <2>1, <2>2, QuietProc
<1>2. CASE inst # None
  <2>1. /\ pc[r] = "unregister" /\ pc' = [pc EXCEPT ![r] = "sigterm"]
        /\ target' = [target EXCEPT ![r] = inst]
        /\ instances' = [instances EXCEPT ![user[r]] = None]
        /\ UNCHANGED <<user, procs>>
    BY <1>2 DEF Unregister, Goto, ForgetInstance
  <2>2. /\ inst \in Reqs
        /\ user[inst] = user[r]
        /\ procs[inst] \in {"alive", "zombie"}
        /\ \A s \in Reqs : target[s] # inst
    BY <1>2 DEF ProcInv, Registered, TypeOK
  <2>3. pc[inst] \notin NotYet \cup {"register"}
    BY <1>2, <2>2 DEF ProcInv, NotShared, TypeOK
  <2>4. /\ pc'[r] = "sigterm" /\ target'[r] = inst
        /\ \A s \in Reqs : s # r => pc'[s] = pc[s] /\ target'[s] = target[s]
    BY <2>1 DEF TypeOK
  <2>5. \A u \in Users : instances'[u] = IF u = user[r] THEN None ELSE instances[u]
    BY <2>1 DEF TypeOK
  <2> HIDE DEF inst
  <2>6. NotLaunched' /\ Launching'
    BY <2>1, <2>4 DEF ProcInv, NotLaunched, Launching, NotYet
  <2>7. NotShared'
    <3> SUFFICES ASSUME NEW q \in Reqs, pc'[q] \in NotYet \cup {"register"}
                 PROVE  /\ \A s \in Reqs : target'[s] # q
                        /\ \A u \in Users : instances'[u] # q
      BY DEF NotShared
    <3>1. q # r /\ pc'[q] = pc[q]
      BY <2>4 DEF NotYet
    <3>2. /\ \A s \in Reqs : target[s] # q
          /\ \A u \in Users : instances[u] # q
      BY <3>1 DEF ProcInv, NotShared
    <3>3. q # inst /\ q # None
      BY <2>3, <3>1, OrchestratorAssumption
    <3> QED
      BY <2>4, <2>5, <3>2, <3>3
  <2>8. Registered'
    <3> SUFFICES ASSUME NEW u \in Users, instances'[u] # None
                 PROVE  /\ user[instances'[u]] = u
                        /\ procs[instances'[u]] \in {"alive", "zombie"}
                        /\ \A s \in Reqs : target'[s] # instances'[u]
      BY <2>1 DEF Registered
    <3>1. u # user[r] /\ instances'[u] = instances[u]
      BY <2>5
    <3>2. /\ user[instances[u]] = u
          /\ procs[instances[u]] \in {"alive", "zombie"}
          /\ \A s \in Reqs : target[s] # instances[u]
      BY <3>1 DEF ProcInv, Registered
    <3>3. instances[u] # inst
      BY <2>2, <3>1, <3>2
    <3> QED
      BY <2>4, <3>1, <3>2, <3>3
  <2>9. OneTaker'
    BY <2>2, <2>4 DEF ProcInv, OneTaker
  <2>10. StopTargets'
    BY <1>2, <2>1, <2>2, <2>4 DEF ProcInv, StopTargets, Awaiting, Cleaning, inst
  <2> QED
    BY <2>6, <2>7, <2>8, <2>9, <2>10 DEF ProcInv
<1> QED
  BY <1>1, <1>2

\* A process that changes between running, told to stop, and dead, while its handler
\* and the maps stay, or its stop moves on among the places that wait.
LEMMA SigtermProc ==
    ASSUME TypeOK, ProcInv, NEW r \in Reqs, Sigterm(r)
    PROVE  ProcInv'
<1> DEFINE t == target[r]
<1>1. /\ pc[r] = "sigterm" /\ pc' = [pc EXCEPT ![r] = "wait"]
      /\ procs' = [procs EXCEPT ![t] = IF procs[t] = "alive" THEN "terminating" ELSE procs[t]]
      /\ UNCHANGED <<user, target, instances>>
  BY DEF Sigterm, Goto
<1>2. /\ t \in Reqs
      /\ procs[t] \in {"alive", "terminating", "zombie"}
  BY <1>1 DEF ProcInv, StopTargets, Awaiting, TypeOK
<1>3. pc[t] \notin NotYet \cup {"register"}
  BY <1>2 DEF ProcInv, NotShared, NotYet
<1>4. /\ pc'[r] = "wait"
      /\ \A s \in Reqs : s # r => pc'[s] = pc[s]
  BY <1>1 DEF TypeOK
<1>5. /\ procs'[t] \in {"alive", "terminating", "zombie"}
      /\ \A s \in Reqs : s # t => procs'[s] = procs[s]
  BY <1>1, <1>2 DEF TypeOK
<1>6. \A u \in Users : instances[u] # None => instances[u] # t
  BY DEF ProcInv, Registered
<1>7. \A s \in Reqs : s # r => target[s] # t
  BY <1>2, OrchestratorAssumption DEF ProcInv, OneTaker
<1> HIDE DEF t
<1>8. NotLaunched' /\ Launching'
  BY <1>1, <1>3, <1>4, <1>5 DEF ProcInv, NotLaunched, Launching, NotYet
<1>9. NotShared'
  BY <1>1, <1>4 DEF ProcInv, NotShared, NotYet
<1>10. Registered'
  BY <1>1, <1>5, <1>6 DEF ProcInv, Registered, TypeOK
<1>11. OneTaker'
  BY <1>1 DEF ProcInv, OneTaker
<1>12. StopTargets'
  <2> SUFFICES ASSUME NEW s \in Reqs
               PROVE  /\ pc'[s] \in Awaiting =>
                            target[s] # None /\ procs'[target[s]] \in {"alive", "terminating", "zombie"}
                      /\ pc'[s] \in Cleaning => target[s] # None /\ procs'[target[s]] = "reaped"
    BY <1>1 DEF StopTargets
  <2>1. CASE s = r
    BY <2>1, <1>2, <1>4, <1>5, OrchestratorAssumption DEF Awaiting, Cleaning, t
  <2>2. CASE s # r
    BY <2>2, <1>4, <1>5, <1>7 DEF ProcInv, StopTargets, TypeOK
  <2> QED
    BY <2>1, <2>2
<1> QED
  BY <1>8, <1>9, <1>10, <1>11, <1>12 DEF ProcInv

LEMMA WaitExitProc ==
    ASSUME TypeOK, ProcInv, NEW r \in Reqs, WaitExit(r)
    PROVE  ProcInv'
<1> DEFINE t == target[r]
<1>1. /\ pc[r] = "wait" /\ pc' = [pc EXCEPT ![r] = "unrule"]
      /\ procs' = [procs EXCEPT ![t] = "reaped"]
      /\ UNCHANGED <<user, target, instances>>
  BY DEF WaitExit, Goto
<1>2. t \in Reqs
  BY <1>1 DEF ProcInv, StopTargets, Awaiting, TypeOK
<1>3. pc[t] \notin NotYet \cup {"register"}
  BY <1>2 DEF ProcInv, NotShared, NotYet
<1>4. /\ pc'[r] = "unrule"
      /\ \A s \in Reqs : s # r => pc'[s] = pc[s]
  BY <1>1 DEF TypeOK
<1>5. /\ procs'[t] = "reaped"
      /\ \A s \in Reqs : s # t => procs'[s] = procs[s]
  BY <1>1, <1>2 DEF TypeOK
<1>6. \A u \in Users : instances[u] # None => instances[u] # t
  BY DEF ProcInv, Registered
<1>7. \A s \in Reqs : s # r => target[s] # t
  BY <1>2, OrchestratorAssumption DEF ProcInv, OneTaker
<1> HIDE DEF t
<1>8. NotLaunched' /\ Launching'
  BY <1>1, <1>3, <1>4, <1>5 DEF ProcInv, NotLaunched, Launching, NotYet
<1>9. NotShared'
  BY <1>1, <1>4 DEF ProcInv, NotShared, NotYet
<1>10. Registered'
  BY <1>1, <1>5, <1>6 DEF ProcInv, Registered, TypeOK
<1>11. OneTaker'
  BY <1>1 DEF ProcInv, OneTaker
<1>12. StopTargets'
  <2> SUFFICES ASSUME NEW s \in Reqs
               PROVE  /\ pc'[s] \in Awaiting =>
                            target[s] # None /\ procs'[target[s]] \in {"alive", "terminating", "zombie"}
                      /\ pc'[s] \in Cleaning => target[s] # None /\ procs'[target[s]] = "reaped"
    BY <1>1 DEF StopTargets
  <2>1. CASE s = r
    BY <2>1, <1>2, <1>4, <1>5, OrchestratorAssumption DEF Awaiting, Cleaning, t
  <2>2. CASE s # r
    BY <2>2, <1>4, <1>5, <1>7 DEF ProcInv, StopTargets, TypeOK
  <2> QED
    BY <2>1, <2>2
<1> QED
  BY <1>8, <1>9, <1>10, <1>11, <1>12 DEF ProcInv

LEMMA EndProc ==
    ASSUME TypeOK, ProcInv, NEW r \in Reqs, CtxKill(r) \/ ProcExit(r)
    PROVE  ProcInv'
<1>1. /\ \/ /\ procs[r] \in {"alive", "terminating"}
            /\ procs' = [procs EXCEPT ![r] = "zombie"]
         \/ procs[r] = "orphan" /\ procs' = [procs EXCEPT ![r] = "reaped"]
      /\ UNCHANGED <<pc, user, target, instances>>
  BY DEF CtxKill, ProcExit
<1>2. /\ procs[r] # "orphan" => procs'[r] = "zombie"
      /\ \A s \in Reqs : s # r => procs'[s] = procs[s]
  BY <1>1 DEF TypeOK
<1>3. NotLaunched'
  BY <1>1, <1>2 DEF ProcInv, NotLaunched
<1>4. NotShared' /\ OneTaker'
  BY <1>1 DEF ProcInv, NotShared, OneTaker
<1>5. Launching'
  BY <1>1, <1>2 DEF ProcInv, Launching
<1>6. Registered'
  BY <1>1, <1>2 DEF ProcInv, Registered, TypeOK
<1>7. StopTargets'
  BY <1>1, <1>2 DEF ProcInv, StopTargets, TypeOK
<1> QED
  BY <1>3, <1>4, <1>5, <1>6, <1>7 DEF ProcInv

LEMMA RestartProc ==
    ASSUME TypeOK, ProcInv, Restart
    PROVE  ProcInv'
<1>1. \A r \in Reqs : pc'[r] \in {"idle", "done"} /\ (pc'[r] = "idle" => pc[r] = "idle")
  BY DEF Restart, Active, TypeOK
<1>2. \A r \in Reqs : procs[r] = "none" => procs'[r] = "none"
  BY DEF Restart
<1>3. /\ \A u \in Users : instances'[u] = None
      /\ UNCHANGED <<user, target>>
  BY DEF Restart
<1>4. NotLaunched' /\ Launching'
  BY <1>1, <1>2 DEF ProcInv, NotLaunched, Launching, NotYet
<1>5. NotShared'
  BY <1>1, <1>3, OrchestratorAssumption DEF ProcInv, NotShared, NotYet
<1>6. Registered' /\ OneTaker'
  BY <1>3 DEF ProcInv, Registered, OneTaker
<1>7. StopTargets'
  BY <1>1 DEF StopTargets, Awaiting, Cleaning
<1> QED
  BY <1>4, <1>5, <1>6, <1>7 DEF ProcInv

LEMMA StutterProc ==
    ASSUME ProcInv, UNCHANGED <<pc, user, target, instances, procs>>
    PROVE  ProcInv'
BY DEF ProcInv, NotLaunched, NotShared, Launching, Registered, OneTaker, StopTargets

LEMMA ProcInvInductive ==
    ASSUME TypeOK, ProcInv, [Next]_vars
    PROVE  ProcInv'
<1>1. ASSUME NEW r \in Reqs, \E o \in Ops : Submit(r, o)
      PROVE  ProcInv'
  BY <1>1, QuietSteps, QuietProc
<1>2. ASSUME NEW r \in Reqs, CreateStep(r)
      PROVE  ProcInv'
  BY <1>2, QuietSteps, QuietProc, LaunchProc, RegisterProc DEF CreateStep
<1>3. ASSUME NEW r \in Reqs, StopStep(r)
      PROVE  ProcInv'
  BY <1>3, QuietSteps, QuietProc, UnregisterProc, SigtermProc, WaitExitProc DEF StopStep
<1>4. ASSUME NEW r \in Reqs, DestroyStep(r) \/ Return(r)
      PROVE  ProcInv'
  BY <1>4, QuietSteps, QuietProc
<1>5. ASSUME NEW r \in Reqs, ClientGone(r)
      PROVE  ProcInv'
  BY <1>5, StutterProc DEF ClientGone
<1>6. CASE UNCHANGED vars
  BY <1>6, StutterProc DEF vars
<1> QED
  BY <1>1, <1>2, <1>3, <1>4, <1>5, <1>6, EndProc, RestartProc DEF Next, HandlerStep

LEMMA ProcInvInit == Init => ProcInv
BY OrchestratorAssumption
   DEF Init, ProcInv, NotLaunched, NotShared, Launching, Registered, OneTaker, StopTargets,
       NotYet, Awaiting, Cleaning

LEMMA ProcInvAlways == Spec => [](TypeOK /\ ProcInv)
<1>1. TypeOK /\ ProcInv /\ [Next]_vars => ProcInv'
  BY ProcInvInductive
<1> QED
  BY <1>1, ProcInvInit, TypeCorrect, PTL DEF Spec

\* Of the stops of a user only one ever has the instance, and what is registered is not
\* being stopped, whatever overlaps, fails or restarts, on bare metal too.
THEOREM OneStopperCorrect == Spec => []OneStopper
<1>1. TypeOK /\ ProcInv => OneStopper
  <2> SUFFICES ASSUME TypeOK, ProcInv,
                      NEW s \in Reqs, pc[s] \in PcStop \ {"unregister", "read", "save2"}
               PROVE  /\ \A u \in Users : instances[u] # target[s]
                      /\ \A t \in Reqs \ {s} : target[t] # target[s]
    BY DEF OneStopper
  <2>1. target[s] # None
    BY DEF ProcInv, StopTargets, PcStop, Awaiting, Cleaning
  <2> QED
    BY <2>1 DEF ProcInv, Registered, OneTaker
<1> QED
  BY <1>1, ProcInvAlways, PTL

-----------------------------------------------------------------------------
(* Nobody waits for ever *)

\* The places of a create request that has launched its VM and has not returned.
Answering == {"register", "save1", "return"}

\* A process that runs dies with the context of its create, which has ended or will when
\* that create returns.
Mortal ==
    \A r \in Reqs : procs[r] \in {"alive", "terminating"} =>
        r \in cancelled \/ pc[r] \in Answering

\* A handler that moves, and does not leave these places.
LEMMA MoveMortal ==
    ASSUME TypeOK, Mortal, NEW r \in Reqs, NEW from, NEW to, Goto(r, from, to),
           from \in Answering => to \in Answering,
           UNCHANGED <<procs, cancelled>>
    PROVE  Mortal'
<1>1. \A q \in Reqs : pc[q] \in Answering => pc'[q] \in Answering
  BY DEF Goto, TypeOK
<1> QED
  BY <1>1 DEF Mortal

LEMMA MoveMortalSteps ==
    ASSUME TypeOK, Mortal, NEW r \in Reqs,
           \/ \E o \in Ops : Submit(r, o)
           \/ CheckExists(r) \/ SaveInitial(r) \/ AllocateIP(r)
           \/ StatRootfs(r) \/ StartCopy(r) \/ FinishCopy(r)
           \/ StatData(r) \/ Truncate(r) \/ Mkfs(r)
           \/ CreateTapDevice(r) \/ SetupVMIsolation(r)
           \/ Unlaunch(r) \/ Register(r) \/ SaveFinal(r) \/ SetVMError(r)
           \/ Unregister(r) \/ CleanupRules(r) \/ DestroyTapDevice(r) \/ ReleaseAddress(r)
           \/ ReadInfo(r) \/ SaveStopped(r) \/ DestroyStep(r)
    PROVE  Mortal'
<1> SUFFICES /\ UNCHANGED <<procs, cancelled>>
             /\ \E from, to \in Pcs :
                  Goto(r, from, to) /\ (from \in Answering => to \in Answering)
  BY MoveMortal
<1> USE PcsDef DEF Answering
<1> AfterStop(r) \in {"rmstore", "return"}
  BY DEF AfterStop
<1>1. CASE \E o \in Ops : Submit(r, o)
  BY <1>1 DEF Submit, First, Ops
<1>2. CASE CheckExists(r) \/ SaveInitial(r) \/ AllocateIP(r)
  BY <1>2 DEF CheckExists, SaveInitial, AllocateIP
<1>3. CASE StatRootfs(r) \/ StartCopy(r) \/ FinishCopy(r)
  BY <1>3 DEF StatRootfs, StartCopy, FinishCopy
<1>4. CASE StatData(r) \/ Truncate(r) \/ Mkfs(r)
  BY <1>4 DEF StatData, Truncate, Mkfs
<1>5. CASE CreateTapDevice(r) \/ SetupVMIsolation(r)
  BY <1>5 DEF CreateTapDevice, SetupVMIsolation
<1>6. CASE Unlaunch(r) \/ Register(r) \/ SaveFinal(r) \/ SetVMError(r)
  BY <1>6 DEF Unlaunch, Register, SaveFinal, SetVMError
<1>7. CASE Unregister(r) \/ CleanupRules(r)
  BY <1>7 DEF Unregister, CleanupRules
<1>8. CASE DestroyTapDevice(r) \/ ReleaseAddress(r)
  BY <1>8 DEF DestroyTapDevice, ReleaseAddress
<1>9. CASE ReadInfo(r) \/ SaveStopped(r)
  BY <1>9 DEF ReadInfo, SaveStopped
<1>10. CASE DestroyStep(r)
  BY <1>10 DEF DestroyStep, CheckRunning, CleanupStorage, DeleteRecord
<1> QED
  BY <1>1, <1>2, <1>3, <1>4, <1>5, <1>6, <1>7, <1>8, <1>9, <1>10

\* The steps that start, signal or end a process, and those that end a context.
LEMMA ProcessMortal ==
    ASSUME TypeOK, Mortal, NEW r \in Reqs,
           \/ Launch(r) \/ Sigterm(r) \/ WaitExit(r) \/ CtxKill(r) \/ ProcExit(r)
           \/ Return(r) \/ ClientGone(r)
    PROVE  Mortal'
<1>1. CASE Launch(r)
  <2>1. /\ pc[r] = "launch" /\ UNCHANGED cancelled
        /\ \A q \in Reqs \ {r} : pc'[q] = pc[q] /\ procs'[q] = procs[q]
        /\ procs'[r] = procs[r] \/ pc'[r] = "register"
    BY <1>1 DEF Launch, Goto, TypeOK
  <2> QED
    BY <2>1 DEF Mortal, Answering
<1>2. CASE Sigterm(r) \/ WaitExit(r)
  <2>1. /\ pc[r] \in {"sigterm", "wait"} /\ UNCHANGED cancelled
        /\ \A q \in Reqs \ {r} : pc'[q] = pc[q]
        /\ \A q \in Reqs : procs'[q] \in {"alive", "terminating"}
                              => procs[q] \in {"alive", "terminating"}
    BY <1>2 DEF Sigterm, WaitExit, Goto, TypeOK
  <2> QED
    BY <2>1 DEF Mortal, Answering
<1>3. CASE CtxKill(r) \/ ProcExit(r)
  <2>1. /\ UNCHANGED <<pc, cancelled>>
        /\ \A q \in Reqs : procs'[q] \in {"alive", "terminating"} => procs'[q] = procs[q]
    BY <1>3 DEF CtxKill, ProcExit, TypeOK
  <2> QED
    BY <2>1 DEF Mortal
<1>4. CASE Return(r) \/ ClientGone(r)
  <2>1. /\ cancelled' = cancelled \cup {r} /\ UNCHANGED procs
        /\ \A q \in Reqs \ {r} : pc'[q] = pc[q]
    BY <1>4 DEF Return, ClientGone, Goto, TypeOK
  <2> QED
    BY <2>1 DEF Mortal
<1> QED
  BY <1>1, <1>2, <1>3, <1>4

LEMMA MortalInductive ==
    ASSUME TypeOK, Mortal, [Next]_vars
    PROVE  Mortal'
<1>1. ASSUME NEW r \in Reqs, \E o \in Ops : Submit(r, o) PROVE Mortal'
  BY <1>1, MoveMortalSteps
<1>2. ASSUME NEW r \in Reqs, HandlerStep(r) PROVE Mortal'
  BY <1>2, MoveMortalSteps, ProcessMortal DEF HandlerStep, CreateStep, StopStep
<1>3. ASSUME NEW r \in Reqs, ClientGone(r) \/ CtxKill(r) \/ ProcExit(r) PROVE Mortal'
  BY <1>3, ProcessMortal
<1>4. CASE Restart
  BY <1>4 DEF Restart, Mortal
<1>5. CASE UNCHANGED vars
  BY <1>5 DEF vars, Mortal
<1> QED
  BY <1>1, <1>2, <1>3, <1>4, <1>5 DEF Next

\* A stop that waits, waits for a process that is dead or whose create's context is done
\* or will be: whatever fails or overlaps, and with restarts of either kind.
THEOREM WaitsForMortalCorrect == Spec => []WaitsForMortal
<1>1. Init => Mortal
  BY DEF Init, Mortal
<1>2. TypeOK /\ Mortal /\ [Next]_vars => Mortal'
  BY MortalInductive
<1>3. TypeOK /\ ProcInv /\ Mortal => WaitsForMortal
  <2> SUFFICES ASSUME TypeOK, ProcInv, Mortal, NEW s \in Reqs, pc[s] = "wait"
               PROVE  \/ procs[target[s]] = "zombie"
                      \/ /\ procs[target[s]] \in {"alive", "terminating"}
                         /\ \/ target[s] \in cancelled
                            \/ pc[target[s]] \in {"save1", "return"}
    BY DEF WaitsForMortal
  <2>1. /\ target[s] \in Reqs
        /\ procs[target[s]] \in {"alive", "terminating", "zombie"}
    BY DEF ProcInv, StopTargets, Awaiting, TypeOK
  <2>2. pc[target[s]] # "register"
    BY <2>1 DEF ProcInv, NotShared
  <2> QED
    BY <2>1, <2>2 DEF Mortal, Answering
<1> QED
  BY <1>1, <1>2, <1>3, ProcInvAlways, PTL DEF Spec

-----------------------------------------------------------------------------
(* Exclusive addresses *)

\* No VM survives the orchestrator: either it runs in a container, or it does not restart.
\* On bare metal the new pool grants the addresses of surviving VMs again.
NoSurvivors == SurvivesRestart => MaxRestarts = 0

LEMMA RestartKills == ASSUME NoSurvivors, TypeOK, Restart PROVE ~SurvivesRestart
BY DEF NoSurvivors, TypeOK, Restart

\* Where a create request has an address.
Net == PcIP \cup PcTap \cup PcRules

LEMMA HoldsIPDef ==
    ASSUME NEW q \in Reqs
    PROVE  HoldsIP(q) <=> \/ pc[q] \in Net
                          \/ procs[q] \in {"alive", "terminating", "zombie", "orphan"}
                          \/ \E s \in Reqs : target[s] = q /\ pc[s] \in Cleaning
BY DEF HoldsIP, Net, Launched, Stopping, Cleaning

LEMMA NetDef ==
    Net = {"stat", "copy", "copying", "statdata", "truncate", "mkfs", "tap", "isolate",
           "launch", "unlaunch", "register"}
BY DEF Net, PcIP, PcTap, PcRules

\* Nothing new is held and the pool is left alone.
LEMMA KeepIP ==
    ASSUME IPExclusive, UNCHANGED <<ip, allocated, user>>,
           \A q \in Reqs : HoldsIP(q)' => HoldsIP(q)
    PROVE  IPExclusive'
BY DEF IPExclusive

\* The address of one holder goes back, and nobody else had it.
LEMMA FreeIP ==
    ASSUME TypeOK, IPExclusive, NEW t \in Reqs, HoldsIP(t), ReleaseIP(ip[t]),
           UNCHANGED <<ip, user>>,
           \A q \in Reqs : HoldsIP(q)' => HoldsIP(q) /\ q # t
    PROVE  IPExclusive'
<1> SUFFICES ASSUME NEW q \in Reqs, HoldsIP(q)'
             PROVE  /\ ip[q] \in Addresses
                    /\ allocated'[ip[q]] = user[q]
                    /\ \A s \in Reqs \ {q} : HoldsIP(s)' => ip[s] # ip[q]
  BY DEF IPExclusive
<1>1. HoldsIP(q) /\ q # t
  OBVIOUS
<1>2. /\ ip[q] \in Addresses
      /\ allocated[ip[q]] = user[q]
      /\ ip[t] # ip[q]
      /\ \A s \in Reqs \ {q} : HoldsIP(s) => ip[s] # ip[q]
  BY <1>1 DEF IPExclusive
<1>3. allocated'[ip[q]] = allocated[ip[q]]
  BY <1>2 DEF ReleaseIP, TypeOK
<1> QED
  BY <1>2, <1>3

\* A handler that moves, with the processes and the targets as they were, holds
\* nothing it did not hold.
LEMMA MoveHolds ==
    ASSUME TypeOK, NEW r \in Reqs, NEW from, NEW to, Goto(r, from, to),
           to \in Net => from \in Net, to \in Cleaning => from \in Cleaning,
           UNCHANGED <<target, procs>>
    PROVE  \A q \in Reqs : HoldsIP(q)' => HoldsIP(q)
<1>1. \A s \in Reqs : /\ pc'[s] \in Net => pc[s] \in Net
                      /\ pc'[s] \in Cleaning => pc[s] \in Cleaning
  BY DEF Goto, TypeOK
<1> QED
  BY <1>1 DEF HoldsIP, Launched, Stopping, Net, Cleaning

\* A create request that fails before it has a process gives its address back.
LEMMA FailFrees ==
    ASSUME TypeOK, ProcInv, IPExclusive, NEW r \in Reqs, NEW from \in Net \ {"register"},
           Goto(r, from, "fail"), ReleaseIP(ip[r]),
           UNCHANGED <<ip, user, target, procs>>
    PROVE  IPExclusive'
<1>1. pc[r] = from /\ pc'[r] = "fail"
  BY DEF Goto, TypeOK
<1>2. HoldsIP(r)
  BY <1>1, HoldsIPDef
<1>3. procs[r] = "none" /\ \A s \in Reqs : target[s] # r
  BY <1>1, NetDef DEF ProcInv, NotLaunched, NotShared, NotYet
<1>4. ~HoldsIP(r)'
  BY <1>1, <1>3 DEF HoldsIP, Launched, Stopping, PcIP, PcTap, PcRules
<1>5. \A q \in Reqs : HoldsIP(q)' => HoldsIP(q)
  BY MoveHolds, NetDef DEF Cleaning
<1> QED
  BY <1>2, <1>4, <1>5, FreeIP

\* The steps that move a handler and leave the pool alone.
LEMMA MoveSteps ==
    ASSUME TypeOK, ProcInv, IPExclusive, NEW r \in Reqs,
           \/ \E o \in Ops : Submit(r, o)
           \/ CheckExists(r) \/ SaveInitial(r) \/ StatRootfs(r) \/ StartCopy(r)
           \/ StatData(r) \/ Register(r) \/ SaveFinal(r) \/ SetVMError(r)
           \/ CleanupRules(r) \/ DestroyTapDevice(r)
           \/ ReadInfo(r) \/ SaveStopped(r) \/ DestroyStep(r) \/ Return(r)
    PROVE  IPExclusive'
<1> SUFFICES /\ UNCHANGED <<ip, allocated, user, target, procs>>
             /\ \E from, to \in Pcs : /\ Goto(r, from, to)
                                      /\ to \in Net => from \in Net
                                      /\ to \in Cleaning => from \in Cleaning
  BY MoveHolds, KeepIP
<1> USE PcsDef, NetDef DEF Cleaning
<1> AfterStop(r) \in {"rmstore", "return"}
  BY DEF AfterStop
<1>1. CASE \E o \in Ops : Submit(r, o)
  BY <1>1 DEF Submit, First, Ops
<1>2. CASE CheckExists(r) \/ SaveInitial(r) \/ StatRootfs(r) \/ StartCopy(r)
  BY <1>2 DEF CheckExists, SaveInitial, StatRootfs, StartCopy
<1>3. CASE StatData(r) \/ Register(r) \/ SaveFinal(r) \/ SetVMError(r)
  BY <1>3 DEF StatData, Register, SaveFinal, SetVMError
<1>4. CASE CleanupRules(r) \/ DestroyTapDevice(r)
  BY <1>4 DEF CleanupRules, DestroyTapDevice
<1>5. CASE ReadInfo(r) \/ SaveStopped(r)
  BY <1>5 DEF ReadInfo, SaveStopped
<1>6. CASE DestroyStep(r) \/ Return(r)
  BY <1>6 DEF DestroyStep, CheckRunning, CleanupStorage, DeleteRecord, Return
<1> QED
  BY <1>1, <1>2, <1>3, <1>4, <1>5, <1>6

\* The lowest free address is nobody's.
LEMMA AllocateExclusive ==
    ASSUME TypeOK, ProcInv, IPExclusive, NEW r \in Reqs, AllocateIP(r)
    PROVE  IPExclusive'
<1>1. CASE Goto(r, "alloc", "fail") /\ UNCHANGED <<allocated, ip>>
  <2>1. \A q \in Reqs : HoldsIP(q)' => HoldsIP(q)
    BY <1>1, MoveHolds, NetDef DEF Cleaning, AllocateIP
  <2> QED
    BY <1>1, <2>1, KeepIP DEF AllocateIP
<1>2. ASSUME NEW i \in FreeAddresses, Goto(r, "alloc", "stat"),
             allocated' = [allocated EXCEPT ![i] = user[r]],
             ip' = [ip EXCEPT ![r] = i]
      PROVE  IPExclusive'
  <2>1. /\ i \in Addresses /\ allocated[i] = None
        /\ UNCHANGED <<user, target, procs>>
    BY <1>2 DEF FreeAddresses, AllocateIP
  <2>2. /\ ip'[r] = i
        /\ \A q \in Reqs \ {r} : ip'[q] = ip[q] /\ pc'[q] = pc[q]
        /\ \A j \in Addresses : allocated'[j] = IF j = i THEN user[r] ELSE allocated[j]
        /\ pc'[r] = "stat"
    BY <1>2, <2>1 DEF TypeOK, Goto
  <2>3. \A q \in Reqs \ {r} : HoldsIP(q)' => HoldsIP(q)
    BY <2>1, <2>2 DEF HoldsIP, Launched, Stopping
  <2>4. \A q \in Reqs \ {r} : HoldsIP(q) => ip[q] \in Addresses /\ ip[q] # i
                                           /\ allocated[ip[q]] = user[q]
    BY <2>1, OrchestratorAssumption DEF IPExclusive, TypeOK
  <2> SUFFICES ASSUME NEW q \in Reqs, HoldsIP(q)'
               PROVE  /\ ip'[q] \in Addresses
                      /\ allocated'[ip'[q]] = user[q]
                      /\ \A s \in Reqs \ {q} : HoldsIP(s)' => ip'[s] # ip'[q]
    BY <2>1 DEF IPExclusive
  <2>5. CASE q = r
    BY <2>1, <2>2, <2>3, <2>4, <2>5
  <2>6. CASE q # r
    BY <2>1, <2>2, <2>3, <2>4, <2>6 DEF IPExclusive
  <2> QED
    BY <2>5, <2>6
<1> QED
  BY <1>1, <1>2 DEF AllocateIP

\* The steps with a failure that gives the address back.
LEMMA FailSteps ==
    ASSUME TypeOK, ProcInv, IPExclusive, NEW r \in Reqs,
           \/ FinishCopy(r) \/ Truncate(r) \/ Mkfs(r)
           \/ CreateTapDevice(r) \/ SetupVMIsolation(r) \/ Unlaunch(r)
    PROVE  IPExclusive'
<1>1. CASE \E from \in Net \ {"register"} :
             /\ Goto(r, from, "fail") /\ ReleaseIP(ip[r])
             /\ UNCHANGED <<ip, user, target, procs>>
  BY <1>1, FailFrees
<1>2. CASE /\ UNCHANGED <<ip, allocated, user, target, procs>>
           /\ \E from, to \in Net : Goto(r, from, to)
  <2>1. \A q \in Reqs : HoldsIP(q)' => HoldsIP(q)
    BY <1>2, MoveHolds, NetDef DEF Cleaning
  <2> QED
    BY <1>2, <2>1, KeepIP
<1> USE NetDef
<1>3. CASE FinishCopy(r) \/ Truncate(r) \/ Mkfs(r)
  BY <1>1, <1>2, <1>3 DEF FinishCopy, Truncate, Mkfs
<1>4. CASE CreateTapDevice(r) \/ SetupVMIsolation(r)
  BY <1>1, <1>2, <1>4 DEF CreateTapDevice, SetupVMIsolation
<1>5. CASE Unlaunch(r)
  BY <1>1, <1>5 DEF Unlaunch
<1> QED
  BY <1>3, <1>4, <1>5

\* A launch, and every way a process changes, keep who holds what.
LEMMA LaunchExclusive ==
    ASSUME TypeOK, ProcInv, IPExclusive, NEW r \in Reqs, Launch(r)
    PROVE  IPExclusive'
<1>1. /\ pc[r] = "launch"
      /\ \A q \in Reqs \ {r} : pc'[q] = pc[q] /\ procs'[q] = procs[q]
      /\ pc'[r] \notin Cleaning
      /\ UNCHANGED <<ip, allocated, user, target>>
  BY DEF Launch, Goto, TypeOK, Cleaning
<1>2. HoldsIP(r)
  BY <1>1, NetDef DEF HoldsIP, Net
<1>3. \A q \in Reqs : HoldsIP(q)' => HoldsIP(q)
  BY <1>1, <1>2 DEF HoldsIP, Launched, Stopping, Cleaning
<1> QED
  BY <1>1, <1>3, KeepIP

LEMMA UnregisterExclusive ==
    ASSUME TypeOK, ProcInv, IPExclusive, NEW r \in Reqs, Unregister(r)
    PROVE  IPExclusive'
<1>1. /\ \A q \in Reqs \ {r} : pc'[q] = pc[q] /\ target'[q] = target[q]
      /\ pc'[r] \notin Net \cup Cleaning
      /\ UNCHANGED <<ip, allocated, user, procs>>
  BY NetDef DEF Unregister, Goto, AfterStop, TypeOK, Cleaning
<1>2. \A q \in Reqs : HoldsIP(q)' => HoldsIP(q)
  BY <1>1 DEF HoldsIP, Launched, Stopping, Cleaning, Net
<1> QED
  BY <1>1, <1>2, KeepIP

LEMMA ProcessExclusive ==
    ASSUME TypeOK, ProcInv, IPExclusive, NEW r \in Reqs,
           Sigterm(r) \/ WaitExit(r) \/ CtxKill(r) \/ ProcExit(r)
    PROVE  IPExclusive'
<1>1. CASE Sigterm(r)
  <2>1. /\ \A q \in Reqs : Launched(q)' => Launched(q)
        /\ \A q \in Reqs : pc'[q] \in Net \cup Cleaning => pc'[q] = pc[q]
        /\ UNCHANGED <<ip, allocated, user, target>>
    BY <1>1, NetDef DEF Sigterm, Goto, TypeOK, Cleaning, Launched
  <2>2. \A q \in Reqs : HoldsIP(q)' => HoldsIP(q)
    BY <2>1 DEF HoldsIP, Stopping, Cleaning, Net
  <2> QED
    BY <2>1, <2>2, KeepIP
<1>2. CASE WaitExit(r)
  <2>1. /\ target[r] \in Reqs /\ procs[target[r]] = "zombie"
        /\ \A q \in Reqs : Launched(q)' => Launched(q)
        /\ \A q \in Reqs \ {r} : pc'[q] = pc[q]
        /\ pc'[r] = "unrule"
        /\ UNCHANGED <<ip, allocated, user, target>>
    BY <1>2 DEF WaitExit, Goto, TypeOK, Launched, ProcInv, StopTargets, Awaiting
  <2>2. HoldsIP(target[r])
    BY <2>1 DEF HoldsIP, Launched
  <2>3. \A q \in Reqs : HoldsIP(q)' => HoldsIP(q)
    BY <2>1, <2>2, NetDef DEF HoldsIP, Stopping, Cleaning, Net
  <2> QED
    BY <2>1, <2>3, KeepIP
<1>3. CASE CtxKill(r) \/ ProcExit(r)
  <2>1. /\ \A q \in Reqs : Launched(q)' => Launched(q)
        /\ UNCHANGED <<pc, ip, allocated, user, target>>
    BY <1>3 DEF CtxKill, ProcExit, TypeOK, Launched
  <2>2. \A q \in Reqs : HoldsIP(q)' => HoldsIP(q)
    BY <2>1 DEF HoldsIP, Stopping
  <2> QED
    BY <2>1, <2>2, KeepIP
<1> QED
  BY <1>1, <1>2, <1>3

\* The stop that reaped a process is the last to hold its address.
LEMMA ReleaseExclusive ==
    ASSUME TypeOK, ProcInv, IPExclusive, NEW r \in Reqs, ReleaseAddress(r)
    PROVE  IPExclusive'
<1> DEFINE t == target[r]
<1>1. /\ pc[r] = "release" /\ pc'[r] = "read"
      /\ \A q \in Reqs \ {r} : pc'[q] = pc[q]
      /\ Goto(r, "release", "read")
      /\ ReleaseIP(ip[t])
      /\ UNCHANGED <<ip, user, target, procs>>
  BY DEF ReleaseAddress, Goto, TypeOK
<1>2. t \in Reqs /\ procs[t] = "reaped" /\ HoldsIP(t)
  BY <1>1 DEF ProcInv, StopTargets, Cleaning, TypeOK, HoldsIP, Stopping
<1>3. pc[t] \notin Net
  BY <1>2, NetDef DEF ProcInv, NotShared, NotYet
<1>4. \A s \in Reqs \ {r} : target[s] # t
  BY <1>2, OrchestratorAssumption DEF ProcInv, OneTaker
<1>5. \A q \in Reqs : HoldsIP(q)' => HoldsIP(q)
  BY <1>1, MoveHolds, NetDef DEF Cleaning
<1>6. pc'[t] \notin Net
  BY <1>1, <1>2, <1>3, NetDef
<1>7. ~HoldsIP(t)'
  BY <1>1, <1>2, <1>4, <1>6 DEF HoldsIP, Launched, Stopping, Net
<1> QED
  BY <1>1, <1>2, <1>5, <1>7, FreeIP

\* After a restart in its container nobody holds anything.
LEMMA RestartExclusive ==
    ASSUME ~SurvivesRestart, TypeOK, Restart
    PROVE  IPExclusive'
<1>1. \A r \in Reqs : pc'[r] \in {"idle", "done"}
  BY DEF Restart, Active, TypeOK
<1>2. \A r \in Reqs : procs'[r] \in {"none", "reaped"}
  BY DEF Restart
<1>3. \A r \in Reqs : ~HoldsIP(r)'
  BY <1>1, <1>2 DEF HoldsIP, Launched, Stopping, PcIP, PcTap, PcRules
<1> QED
  BY <1>3 DEF IPExclusive

LEMMA StutterExclusive ==
    ASSUME IPExclusive, UNCHANGED <<pc, user, ip, target, procs, allocated>>
    PROVE  IPExclusive'
BY DEF IPExclusive, HoldsIP, Launched, Stopping

LEMMA IPExclusiveInductive ==
    ASSUME NoSurvivors, TypeOK, ProcInv, IPExclusive, [Next]_vars
    PROVE  IPExclusive'
<1>1. ASSUME NEW r \in Reqs, \E o \in Ops : Submit(r, o)
      PROVE  IPExclusive'
  BY <1>1, MoveSteps
<1>2. ASSUME NEW r \in Reqs, CreateStep(r)
      PROVE  IPExclusive'
  BY <1>2, MoveSteps, FailSteps, AllocateExclusive, LaunchExclusive DEF CreateStep
<1>3. ASSUME NEW r \in Reqs, StopStep(r)
      PROVE  IPExclusive'
  BY <1>3, MoveSteps, UnregisterExclusive, ProcessExclusive, ReleaseExclusive DEF StopStep
<1>4. ASSUME NEW r \in Reqs, DestroyStep(r) \/ Return(r)
      PROVE  IPExclusive'
  BY <1>4, MoveSteps
<1>5. ASSUME NEW r \in Reqs, ClientGone(r)
      PROVE  IPExclusive'
  BY <1>5, StutterExclusive DEF ClientGone
<1>6. CASE UNCHANGED vars
  BY <1>6, StutterExclusive DEF vars
<1> QED
  BY <1>1, <1>2, <1>3, <1>4, <1>5, <1>6, ProcessExclusive, RestartExclusive, RestartKills
  DEF Next, HandlerStep

\* No two VMs have the same address, at any moment between the grant and the return, and
\* the pool knows each as taken by its user, if no VM survives the orchestrator.
THEOREM IPExclusiveCorrect ==
    ASSUME NoSurvivors
    PROVE  Spec => []IPExclusive
<1>1. Init => IPExclusive
  BY DEF Init, IPExclusive, HoldsIP, Launched, Stopping, PcIP, PcTap, PcRules
<1>2. TypeOK /\ ProcInv /\ IPExclusive /\ [Next]_vars => IPExclusive'
  BY IPExclusiveInductive
<1> QED
  BY <1>1, <1>2, ProcInvAlways, PTL DEF Spec

=============================================================================
