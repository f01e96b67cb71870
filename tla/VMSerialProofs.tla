---------------------------- MODULE VMSerialProofs ----------------------------
(***************************************************************************)
(* Theorems about the orchestrator when the requests of one user do not    *)
(* overlap, those of different users as they like.                         *)
(***************************************************************************)
EXTENDS VMHostProofs

USE DEF netVars, diskVars, vmVars, idVars, ownVars

-----------------------------------------------------------------------------
(* One VM for a user *)

\* The places of a handler at which its user has no registered VM.
Alone == {"save0", "alloc", "stat", "copy", "copying", "statdata", "truncate", "mkfs", "tap",
          "isolate", "launch", "unlaunch", "register", "fail", "sigterm", "wait", "unrule",
          "untap", "release", "read", "save2", "rmstore", "del"}

OneActive ==
    \A r, s \in Reqs : Active(r) /\ Active(s) /\ user[r] = user[s] => r = s

\* A process that was launched is about to be registered, registered, or waited for.
Accounted ==
    \A r \in Reqs : Launched(r) =>
        \/ pc[r] = "register"
        \/ instances[user[r]] = r
        \/ \E s \in Reqs : target[s] = r /\ pc[s] \in Awaiting

SerialInv ==
    /\ OneActive
    /\ \A r \in Reqs : pc[r] \in Alone => instances[user[r]] = None
    /\ \A r \in Reqs : target[r] # None => user[target[r]] = user[r]
    /\ Accounted

LEMMA AloneIsActive == \A r \in Reqs : pc[r] \in Alone => Active(r)
BY DEF Alone, Active

\* A handler that moves on, and neither registers a VM nor stops waiting for one.
LEMMA QuietSerial ==
    ASSUME TypeOK, SerialInv, NEW r \in Reqs, NEW from, NEW to, Goto(r, from, to),
           from \notin {"idle", "done", "register", "wait"}, from = "sigterm" => to = "wait",
           to \in Alone => from \in Alone \/ instances[user[r]] = None,
           UNCHANGED <<user, target, instances>>,
           \A q \in Reqs : Launched(q)' => Launched(q)
    PROVE  SerialInv'
<1>1. /\ pc[r] = from /\ pc'[r] = to /\ \A q \in Reqs \ {r} : pc'[q] = pc[q]
  BY DEF Goto, TypeOK
<1>2. \A q \in Reqs : Active(q)' => Active(q)
  BY <1>1 DEF Active
<1>3. OneActive'
  BY <1>2 DEF SerialInv, OneActive
<1>4. Accounted'
  BY <1>1 DEF SerialInv, Accounted, Awaiting
<1> QED BY <1>1, <1>3, <1>4 DEF SerialInv

LEMMA SubmitSerial ==
    ASSUME ~Overlap, TypeOK, SerialInv, NEW r \in Reqs, NEW o \in Ops, Submit(r, o)
    PROVE  SerialInv'
<1>1. /\ pc[r] = "idle" /\ pc'[r] \notin Alone /\ \A q \in Reqs \ {r} : pc'[q] = pc[q]
      /\ UNCHANGED <<user, target, instances, procs>> /\ ~Busy(user[r])
  BY DEF Submit, Goto, First, TypeOK, Alone, Ops
<1>2. OneActive'
  BY <1>1 DEF SerialInv, OneActive, Busy, Active
<1>3. Accounted'
  BY <1>1 DEF SerialInv, Accounted, Awaiting, Launched
<1> QED BY <1>1, <1>2, <1>3 DEF SerialInv

LEMMA CreateSerial ==
    ASSUME TypeOK, SerialInv, NEW r \in Reqs,
           \/ CheckExists(r) \/ SaveInitial(r) \/ AllocateIP(r) \/ StatRootfs(r)
           \/ StartCopy(r) \/ FinishCopy(r) \/ StatData(r) \/ Truncate(r) \/ Mkfs(r)
           \/ CreateTapDevice(r) \/ SetupVMIsolation(r) \/ Unlaunch(r)
           \/ SaveFinal(r) \/ SetVMError(r)
    PROVE  SerialInv'
<1> SUFFICES /\ UNCHANGED <<user, target, instances, procs>>
             /\ \E from, to \in Pcs :
                  /\ Goto(r, from, to)
                  /\ from \notin {"idle", "done", "register", "wait", "sigterm"}
                  /\ to \in Alone => from \in Alone \/ instances[user[r]] = None
  BY QuietSerial DEF Launched
<1> USE PcsDef DEF Alone
<1>1. CASE CheckExists(r) \/ SaveInitial(r) \/ AllocateIP(r) \/ StatRootfs(r)
  BY <1>1 DEF CheckExists, SaveInitial, AllocateIP, StatRootfs
<1>2. CASE StartCopy(r) \/ FinishCopy(r) \/ StatData(r) \/ Truncate(r) \/ Mkfs(r)
  BY <1>2 DEF StartCopy, FinishCopy, StatData, Truncate, Mkfs
<1>3. CASE CreateTapDevice(r) \/ SetupVMIsolation(r) \/ Unlaunch(r)
  BY <1>3 DEF CreateTapDevice, SetupVMIsolation, Unlaunch
<1>4. CASE SaveFinal(r) \/ SetVMError(r)
  BY <1>4 DEF SaveFinal, SetVMError
<1> QED BY <1>1, <1>2, <1>3, <1>4

LEMMA CleanupSerial ==
    ASSUME TypeOK, SerialInv, NEW r \in Reqs,
           \/ CleanupRules(r) \/ DestroyTapDevice(r) \/ ReleaseAddress(r)
           \/ ReadInfo(r) \/ SaveStopped(r) \/ DestroyStep(r) \/ Return(r)
    PROVE  SerialInv'
<1> SUFFICES /\ UNCHANGED <<user, target, instances, procs>>
             /\ \E from, to \in Pcs :
                  /\ Goto(r, from, to)
                  /\ from \notin {"idle", "done", "register", "wait", "sigterm"}
                  /\ to \in Alone => from \in Alone \/ instances[user[r]] = None
  BY QuietSerial DEF Launched
<1> USE PcsDef DEF Alone
<1> AfterStop(r) \in {"rmstore", "return"}
  BY DEF AfterStop
<1>1. CASE CleanupRules(r) \/ DestroyTapDevice(r) \/ ReleaseAddress(r)
  BY <1>1 DEF CleanupRules, DestroyTapDevice, ReleaseAddress
<1>2. CASE ReadInfo(r) \/ SaveStopped(r)
  BY <1>2 DEF ReadInfo, SaveStopped
<1>3. CASE DestroyStep(r) \/ Return(r)
  BY <1>3 DEF DestroyStep, CheckRunning, CleanupStorage, DeleteRecord, Return
<1> QED BY <1>1, <1>2, <1>3

LEMMA LaunchSerial ==
    ASSUME TypeOK, ProcInv, SerialInv, NEW r \in Reqs, Launch(r)
    PROVE  SerialInv'
<1>1. /\ pc[r] = "launch" /\ pc'[r] \in {"register", "unlaunch"}
      /\ \A q \in Reqs \ {r} : pc'[q] = pc[q] /\ procs'[q] = procs[q]
      /\ pc'[r] = "unlaunch" => procs'[r] = procs[r]
      /\ UNCHANGED <<user, target, instances>>
  BY DEF Launch, Goto, TypeOK
<1>2. procs[r] = "none"
  BY <1>1 DEF ProcInv, NotLaunched, NotYet
<1>3. OneActive'
  BY <1>1 DEF SerialInv, OneActive, Active
<1>4. Accounted'
  BY <1>1, <1>2 DEF SerialInv, Accounted, Awaiting, Launched
<1>5. \A q \in Reqs : pc'[q] \in Alone => pc[q] \in Alone
  BY <1>1 DEF Alone
<1> QED BY <1>1, <1>3, <1>4, <1>5 DEF SerialInv

LEMMA RegisterSerial ==
    ASSUME TypeOK, ProcInv, SerialInv, NEW r \in Reqs, Register(r)
    PROVE  SerialInv'
<1>1. /\ pc[r] = "register" /\ pc'[r] = "save1" /\ \A q \in Reqs \ {r} : pc'[q] = pc[q]
      /\ user[r] \in Users /\ instances'[user[r]] = r
      /\ \A u \in Users \ {user[r]} : instances'[u] = instances[u]
      /\ \A q \in Reqs : user[q] \in Users
      /\ UNCHANGED <<user, target, procs>>
  BY DEF Register, Goto, TypeOK
<1>2. instances[user[r]] = None
  BY <1>1 DEF SerialInv, Alone
<1>3. OneActive'
  BY <1>1 DEF SerialInv, OneActive, Active
<1>4. ASSUME NEW q \in Reqs, pc'[q] \in Alone PROVE instances'[user[q]] = None
  <2>1. q # r /\ pc[q] \in Alone
    BY <1>1, <1>4 DEF Alone
  <2>2. user[q] # user[r]
    BY <1>1, <2>1, AloneIsActive DEF SerialInv, OneActive, Active
  <2> QED BY <1>1, <2>1, <2>2 DEF SerialInv
<1>5. Accounted'
  <2> SUFFICES ASSUME NEW q \in Reqs, Launched(q)', q # r
               PROVE  \/ pc'[q] = "register" \/ instances'[user[q]] = q
                      \/ \E s \in Reqs : target[s] = q /\ pc'[s] \in Awaiting
    BY <1>1 DEF Accounted
  <2>1. \/ pc[q] = "register" \/ instances[user[q]] = q
        \/ \E s \in Reqs : target[s] = q /\ pc[s] \in Awaiting
    BY <1>1 DEF SerialInv, Accounted, Launched
  <2>2. instances[user[q]] = q => user[q] # user[r]
    BY <1>2, OrchestratorAssumption
  <2> QED BY <1>1, <2>1, <2>2 DEF Awaiting
<1> QED BY <1>1, <1>3, <1>4, <1>5 DEF SerialInv

LEMMA UnregisterSerial ==
    ASSUME TypeOK, ProcInv, SerialInv, NEW r \in Reqs, Unregister(r)
    PROVE  SerialInv'
<1> DEFINE inst == instances[user[r]]
<1>1. CASE inst = None /\ Goto(r, "unregister", AfterStop(r)) /\ UNCHANGED <<target, instances>>
  <2>1. UNCHANGED <<user, procs>>
    BY DEF Unregister
  <2> QED BY <1>1, <2>1, QuietSerial DEF Launched
<1>2. CASE /\ inst # None /\ Goto(r, "unregister", "sigterm")
           /\ target' = [target EXCEPT ![r] = inst] /\ ForgetInstance(user[r])
  <2>1. /\ pc[r] = "unregister" /\ pc'[r] = "sigterm" /\ \A q \in Reqs \ {r} : pc'[q] = pc[q]
        /\ user[r] \in Users /\ instances'[user[r]] = None
        /\ \A u \in Users \ {user[r]} : instances'[u] = instances[u]
        /\ \A q \in Reqs : user[q] \in Users
        /\ target'[r] = inst /\ \A q \in Reqs \ {r} : target'[q] = target[q]
        /\ UNCHANGED <<user, procs>> /\ inst \in Reqs
    BY <1>2 DEF Unregister, ForgetInstance, Goto, TypeOK
  <2>2. user[inst] = user[r]
    BY <1>2, <2>1 DEF ProcInv, Registered
  <2>3. OneActive'
    BY <2>1 DEF SerialInv, OneActive, Active
  <2>4. \A q \in Reqs : pc'[q] \in Alone => instances'[user[q]] = None
    BY <2>1 DEF SerialInv
  <2>5. Accounted'
    <3> SUFFICES ASSUME NEW q \in Reqs, Launched(q)'
                 PROVE  \/ pc'[q] = "register" \/ instances'[user[q]] = q
                        \/ \E s \in Reqs : target'[s] = q /\ pc'[s] \in Awaiting
      BY <2>1 DEF Accounted
    <3>1. \/ pc[q] = "register" \/ instances[user[q]] = q
          \/ \E s \in Reqs : target[s] = q /\ pc[s] \in Awaiting
      BY <2>1 DEF SerialInv, Accounted, Launched
    <3>2. CASE pc[q] = "register"
      BY <2>1, <3>2
    <3>3. CASE instances[user[q]] = q
      BY <2>1, <3>3 DEF Awaiting
    <3>4. CASE \E s \in Reqs : target[s] = q /\ pc[s] \in Awaiting
      BY <2>1, <3>4 DEF Awaiting
    <3> QED BY <3>1, <3>2, <3>3, <3>4
  <2>6. \A q \in Reqs : target'[q] # None => user'[target'[q]] = user'[q]
    BY <2>1, <2>2 DEF SerialInv
  <2> QED BY <2>1, <2>3, <2>4, <2>5, <2>6 DEF SerialInv
<1> QED BY <1>1, <1>2 DEF Unregister

LEMMA WaitSerial ==
    ASSUME TypeOK, ProcInv, SerialInv, NEW r \in Reqs, WaitExit(r)
    PROVE  SerialInv'
<1>1. /\ pc[r] = "wait" /\ pc'[r] = "unrule" /\ \A q \in Reqs \ {r} : pc'[q] = pc[q]
      /\ target[r] \in Reqs /\ procs'[target[r]] = "reaped"
      /\ \A q \in Reqs \ {target[r]} : procs'[q] = procs[q]
      /\ UNCHANGED <<user, target, instances>>
  BY DEF WaitExit, Goto, TypeOK, ProcInv, StopTargets, Awaiting
<1>2. OneActive'
  BY <1>1 DEF SerialInv, OneActive, Active
<1>3. Accounted'
  BY <1>1 DEF SerialInv, Accounted, Launched, Awaiting
<1>4. \A q \in Reqs : pc'[q] \in Alone => pc[q] \in Alone
  BY <1>1 DEF Alone
<1> QED BY <1>1, <1>2, <1>3, <1>4 DEF SerialInv

LEMMA SigtermSerial ==
    ASSUME TypeOK, SerialInv, NEW r \in Reqs, Sigterm(r)
    PROVE  SerialInv'
<1>1. /\ Goto(r, "sigterm", "wait") /\ UNCHANGED <<user, target, instances>>
      /\ \A q \in Reqs : Launched(q)' => Launched(q)
  BY DEF Sigterm, TypeOK, Launched
<1> QED BY <1>1, QuietSerial DEF Alone

LEMMA EndSerial ==
    ASSUME SerialInv, UNCHANGED <<pc, user, target, instances>>,
           \A q \in Reqs : Launched(q)' => Launched(q)
    PROVE  SerialInv'
<1>1. OneActive' /\ Accounted'
  BY DEF SerialInv, OneActive, Active, Accounted
<1> QED BY <1>1 DEF SerialInv

LEMMA RestartSerial ==
    ASSUME ~SurvivesRestart, TypeOK, SerialInv, Restart
    PROVE  SerialInv'
<1>1. \A r \in Reqs : pc'[r] \in {"idle", "done"}
  BY DEF Restart, Active, TypeOK
<1>2. \A r \in Reqs : procs'[r] \in {"none", "reaped"}
  BY DEF Restart
<1>3. OneActive' /\ Accounted'
  BY <1>1, <1>2 DEF OneActive, Active, Accounted, Launched
<1>4. UNCHANGED <<user, target>> /\ \A r \in Reqs : pc'[r] \notin Alone
  BY <1>1 DEF Restart, Alone
<1> QED BY <1>3, <1>4 DEF SerialInv

LEMMA SerialInvInductive ==
    ASSUME ~Overlap, NoSurvivors, TypeOK, ProcInv, SerialInv, [Next]_vars
    PROVE  SerialInv'
<1>1. ASSUME NEW r \in Reqs, \E o \in Ops : Submit(r, o) PROVE SerialInv'
  BY <1>1, SubmitSerial
<1>2. ASSUME NEW r \in Reqs, CreateStep(r) PROVE SerialInv'
  BY <1>2, CreateSerial, LaunchSerial, RegisterSerial DEF CreateStep
<1>3. ASSUME NEW r \in Reqs, StopStep(r) PROVE SerialInv'
  BY <1>3, UnregisterSerial, SigtermSerial, WaitSerial, CleanupSerial DEF StopStep
<1>4. ASSUME NEW r \in Reqs, DestroyStep(r) \/ Return(r) PROVE SerialInv'
  BY <1>4, CleanupSerial
<1>5. ASSUME NEW r \in Reqs, ClientGone(r) PROVE SerialInv'
  BY <1>5, EndSerial DEF ClientGone, Launched
<1>6. ASSUME NEW r \in Reqs, CtxKill(r) \/ ProcExit(r) PROVE SerialInv'
  <2>1. UNCHANGED <<pc, user, target, instances>> /\ \A q \in Reqs : Launched(q)' => Launched(q)
    BY <1>6 DEF CtxKill, ProcExit, TypeOK, Launched
  <2> QED BY <2>1, EndSerial
<1>7. CASE UNCHANGED vars
  BY <1>7, EndSerial DEF vars, Launched
<1> QED
  BY <1>1, <1>2, <1>3, <1>4, <1>5, <1>6, <1>7, RestartSerial, RestartKills DEF Next, HandlerStep

LEMMA SerialInvInit == Init => SerialInv
BY OrchestratorAssumption
   DEF Init, SerialInv, OneActive, Active, Accounted, Launched, Alone

LEMMA SerialInvAlways ==
    ASSUME ~Overlap, NoSurvivors
    PROVE  Spec => []SerialInv
<1>1. TypeOK /\ ProcInv /\ SerialInv /\ [Next]_vars => SerialInv'
  BY SerialInvInductive
<1> QED BY <1>1, SerialInvInit, ProcInvAlways, PTL DEF Spec

\* A user whose requests do not overlap has one running VM at most, whatever fails, if
\* no VM survives the orchestrator.
THEOREM OneVMPerUserCorrect ==
    ASSUME ~Overlap, NoSurvivors
    PROVE  Spec => []OneVMPerUser
<1>1. TypeOK /\ ProcInv /\ SerialInv => OneVMPerUser
  <2> SUFFICES ASSUME TypeOK, ProcInv, SerialInv, NEW r \in Reqs, NEW s \in Reqs,
                      Live(r), Live(s), user[r] = user[s]
               PROVE  r = s
    BY DEF OneVMPerUser
  <2> DEFINE How(q) == \/ pc[q] = "register" \/ instances[user[q]] = q
                       \/ \E t \in Reqs : target[t] = q /\ pc[t] \in Awaiting
  <2>1. How(r) /\ How(s)
    BY DEF Live, Launched, SerialInv, Accounted
  <2>2. \A q \in Reqs, t \in Reqs : target[t] = q => user[t] = user[q]
    BY OrchestratorAssumption DEF SerialInv
  <2>3. \A q \in Reqs : pc[q] = "register" \/ pc[q] \in Awaiting =>
            Active(q) /\ instances[user[q]] = None
    BY DEF SerialInv, Alone, Awaiting, Active
  <2>4. \A p, q \in Reqs : Active(p) /\ Active(q) /\ user[p] = user[q] => p = q
    BY DEF SerialInv, OneActive
  <2>5. CASE instances[user[r]] = r \/ instances[user[s]] = s
    BY <2>1, <2>2, <2>3, <2>5, OrchestratorAssumption
  <2>6. CASE pc[r] = "register"
    BY <2>1, <2>2, <2>3, <2>4, <2>5, <2>6 DEF Awaiting
  <2>7. CASE pc[s] = "register"
    BY <2>1, <2>2, <2>3, <2>4, <2>5, <2>7 DEF Awaiting
  <2>8. ASSUME NEW t \in Reqs, target[t] = r, pc[t] \in Awaiting,
               NEW v \in Reqs, target[v] = s, pc[v] \in Awaiting
        PROVE  r = s
    BY <2>2, <2>3, <2>4, <2>8
  <2> QED BY <2>1, <2>5, <2>6, <2>7, <2>8
<1> QED BY <1>1, ProcInvAlways, SerialInvAlways, PTL

-----------------------------------------------------------------------------
(* What is held between requests *)

\* There is no device that nobody holds, until a restart leaves some.
TapsHeld == \A n \in taps : \E r \in Reqs : HoldsTap(r) /\ tap[r] = n

\* Nobody lets go of a device.
LEMMA KeepHeld ==
    ASSUME TapsHeld, UNCHANGED <<tap, taps>>, \A q \in Reqs : HoldsTap(q) => HoldsTap(q)'
    PROVE  TapsHeld'
BY DEF TapsHeld

\* One holder lets go of its device, which goes.
LEMMA FreeHeld ==
    ASSUME TapsHeld, NEW t \in Reqs, taps' = taps \ {tap[t]}, UNCHANGED tap,
           \A q \in Reqs \ {t} : HoldsTap(q) => HoldsTap(q)'
    PROVE  TapsHeld'
<1> SUFFICES ASSUME NEW n \in taps' PROVE \E r \in Reqs : HoldsTap(r)' /\ tap[r] = n
  BY DEF TapsHeld
<1>1. PICK r \in Reqs : HoldsTap(r) /\ tap[r] = n
  BY DEF TapsHeld
<1> QED BY <1>1

LEMMA MoveHeld ==
    ASSUME TypeOK, NEW r \in Reqs, NEW from, NEW to, Goto(r, from, to),
           from \in WithTap => to \in WithTap, from \in Untapping => to \in Untapping,
           UNCHANGED <<target, procs>>
    PROVE  \A q \in Reqs : HoldsTap(q) => HoldsTap(q)'
<1>1. \A s \in Reqs : /\ pc[s] \in WithTap => pc'[s] \in WithTap
                      /\ pc[s] \in Untapping => pc'[s] \in Untapping
  BY DEF Goto, TypeOK
<1> QED BY <1>1 DEF HoldsTap, Launched, Stopping, WithTap, Untapping

LEMMA MoveHeldSteps ==
    ASSUME TypeOK, TapsHeld, NEW r \in Reqs,
           \/ \E o \in Ops : Submit(r, o)
           \/ CheckExists(r) \/ SaveInitial(r) \/ AllocateIP(r) \/ StatRootfs(r)
           \/ StartCopy(r) \/ FinishCopy(r) \/ StatData(r) \/ Truncate(r) \/ Mkfs(r)
           \/ SaveFinal(r) \/ SetVMError(r)
           \/ CleanupRules(r) \/ ReleaseAddress(r)
           \/ ReadInfo(r) \/ SaveStopped(r) \/ DestroyStep(r) \/ Return(r)
    PROVE  TapsHeld'
<1> SUFFICES /\ UNCHANGED <<tap, taps, target, procs>>
             /\ \E from, to \in Pcs : /\ Goto(r, from, to)
                                      /\ from \in WithTap => to \in WithTap
                                      /\ from \in Untapping => to \in Untapping
  BY MoveHeld, KeepHeld
<1> USE PcsDef, WithTapDef DEF Untapping
<1> AfterStop(r) \in {"rmstore", "return"}
  BY DEF AfterStop
<1>1. CASE \E o \in Ops : Submit(r, o)
  BY <1>1 DEF Submit, First, Ops
<1>2. CASE CheckExists(r) \/ SaveInitial(r) \/ AllocateIP(r) \/ StatRootfs(r) \/ StartCopy(r)
  BY <1>2 DEF CheckExists, SaveInitial, AllocateIP, StatRootfs, StartCopy
<1>3. CASE FinishCopy(r) \/ StatData(r) \/ Truncate(r) \/ Mkfs(r)
  BY <1>3 DEF FinishCopy, StatData, Truncate, Mkfs
<1>4. CASE SaveFinal(r) \/ SetVMError(r)
  BY <1>4 DEF SaveFinal, SetVMError
<1>5. CASE CleanupRules(r) \/ ReleaseAddress(r)
  BY <1>5 DEF CleanupRules, ReleaseAddress
<1>6. CASE ReadInfo(r) \/ SaveStopped(r)
  BY <1>6 DEF ReadInfo, SaveStopped
<1>7. CASE DestroyStep(r) \/ Return(r)
  BY <1>7 DEF DestroyStep, CheckRunning, CleanupStorage, DeleteRecord, Return
<1> QED BY <1>1, <1>2, <1>3, <1>4, <1>5, <1>6, <1>7

LEMMA NetworkHeld ==
    ASSUME TypeOK, ProcInv, TapsHeld, NEW r \in Reqs,
           CreateTapDevice(r) \/ SetupVMIsolation(r) \/ Unlaunch(r) \/ DestroyTapDevice(r)
    PROVE  TapsHeld'
<1>1. CASE CreateTapDevice(r)
  <2>1. /\ pc[r] = "tap" /\ \A q \in Reqs \ {r} : pc'[q] = pc[q]
        /\ UNCHANGED <<target, procs>>
    BY <1>1 DEF CreateTapDevice, Goto, TypeOK
  <2>2. ~HoldsTap(r)
    BY <2>1, WithTapDef, HoldsTapDef DEF ProcInv, NotLaunched, NotShared, NotYet, Launched
  <2>3. \A q \in Reqs \ {r} : HoldsTap(q) => HoldsTap(q)'
    BY <2>1 DEF HoldsTap, Launched, Stopping
  <2>4. CASE /\ Goto(r, "tap", "isolate") /\ taps' = taps \cup {nextIdx}
             /\ tap' = [tap EXCEPT ![r] = nextIdx]
    <3>1. /\ pc'[r] = "isolate" /\ tap'[r] = nextIdx
          /\ \A q \in Reqs \ {r} : tap'[q] = tap[q]
      BY <2>4 DEF Goto, TypeOK
    <3>2. HoldsTap(r)'
      BY <3>1 DEF HoldsTap, PcTap
    <3>3. ASSUME NEW n \in taps PROVE \E q \in Reqs : HoldsTap(q)' /\ tap'[q] = n
      <4>1. PICK q \in Reqs : HoldsTap(q) /\ tap[q] = n
        BY <3>3 DEF TapsHeld
      <4> QED BY <2>2, <2>3, <3>1, <4>1
    <3> QED BY <2>4, <3>1, <3>2, <3>3 DEF TapsHeld
  <2>5. CASE taps' = taps \ {nextIdx} /\ UNCHANGED tap
    BY <2>2, <2>3, <2>5 DEF TapsHeld
  <2> QED BY <1>1, <2>4, <2>5 DEF CreateTapDevice
<1>2. ASSUME NEW from, Goto(r, from, "fail"), taps' = taps \ {tap[r]},
             from \notin Untapping, UNCHANGED <<tap, target, procs>>
      PROVE  TapsHeld'
  <2>1. pc[r] = from /\ \A q \in Reqs \ {r} : pc'[q] = pc[q]
    BY <1>2 DEF Goto, TypeOK
  <2>2. \A q \in Reqs \ {r} : HoldsTap(q) => HoldsTap(q)'
    BY <1>2, <2>1 DEF HoldsTap, Launched, Stopping, Untapping
  <2> QED BY <1>2, <2>2, FreeHeld
<1>3. CASE SetupVMIsolation(r) \/ Unlaunch(r)
  <2>1. CASE Goto(r, "isolate", "launch") /\ UNCHANGED <<tap, taps, target, procs>>
    BY <2>1, MoveHeld, KeepHeld, WithTapDef DEF Untapping
  <2> QED BY <1>2, <1>3, <2>1 DEF SetupVMIsolation, Unlaunch, Untapping
<1>4. CASE DestroyTapDevice(r)
  <2>1. /\ pc[r] = "untap" /\ \A q \in Reqs \ {r} : pc'[q] = pc[q]
        /\ taps' = taps \ {tap[target[r]]} /\ UNCHANGED <<tap, target, procs>>
    BY <1>4 DEF DestroyTapDevice, Goto, TypeOK
  <2>2. target[r] \in Reqs
    BY <2>1 DEF ProcInv, StopTargets, Cleaning, TypeOK
  <2>3. \A q \in Reqs \ {target[r]} : HoldsTap(q) => HoldsTap(q)'
    BY <2>1 DEF HoldsTap, Launched, Stopping, PcTap, PcRules
  <2> QED BY <2>1, <2>2, <2>3, FreeHeld
<1> QED BY <1>1, <1>3, <1>4

LEMMA ProcessHeld ==
    ASSUME TypeOK, ProcInv, NoOrphan, TapsHeld, NEW r \in Reqs,
           \/ Launch(r) \/ Register(r) \/ Unregister(r) \/ Sigterm(r) \/ WaitExit(r)
           \/ CtxKill(r) \/ ProcExit(r)
    PROVE  TapsHeld'
<1>1. UNCHANGED <<tap, taps>>
  BY DEF Launch, Register, Unregister, Sigterm, WaitExit, CtxKill, ProcExit
<1> SUFFICES \A q \in Reqs : HoldsTap(q) => HoldsTap(q)'
  BY <1>1, KeepHeld
<1>2. CASE Launch(r)
  <2>1. /\ pc[r] = "launch" /\ pc'[r] \in {"register", "unlaunch"}
        /\ \A q \in Reqs \ {r} : pc'[q] = pc[q] /\ procs'[q] = procs[q]
        /\ UNCHANGED target
    BY <1>2 DEF Launch, Goto, TypeOK
  <2>2. HoldsTap(r)'
    BY <2>1 DEF HoldsTap, PcRules
  <2> QED BY <2>1, <2>2 DEF HoldsTap, Launched, Stopping
<1>3. CASE Register(r)
  <2>1. /\ pc[r] = "register" /\ UNCHANGED <<target, procs>>
        /\ \A q \in Reqs \ {r} : pc'[q] = pc[q]
    BY <1>3 DEF Register, Goto, TypeOK
  <2>2. Launched(r)
    BY <2>1 DEF ProcInv, Launching, Launched
  <2> QED BY <2>1, <2>2 DEF HoldsTap, Launched, Stopping
<1>4. CASE Unregister(r)
  <2>1. /\ \A q \in Reqs \ {r} : pc'[q] = pc[q] /\ target'[q] = target[q]
        /\ pc[r] = "unregister" /\ UNCHANGED procs
    BY <1>4 DEF Unregister, Goto, TypeOK
  <2> QED BY <2>1, WithTapDef DEF HoldsTap, Launched, Stopping, WithTap
<1>5. CASE Sigterm(r)
  <2>1. /\ \A q \in Reqs : Launched(q) => Launched(q)'
        /\ pc[r] = "sigterm" /\ \A q \in Reqs \ {r} : pc'[q] = pc[q]
        /\ UNCHANGED target
    BY <1>5 DEF Sigterm, Goto, TypeOK, Launched
  <2> QED BY <2>1 DEF HoldsTap, Stopping, PcTap, PcRules
<1>6. CASE WaitExit(r)
  <2>1. /\ \A q \in Reqs \ {target[r]} : Launched(q) => Launched(q)'
        /\ \A q \in Reqs \ {r} : pc'[q] = pc[q]
        /\ pc[r] = "wait" /\ pc'[r] = "unrule"
        /\ UNCHANGED target
    BY <1>6 DEF WaitExit, Goto, TypeOK, Launched
  <2> QED BY <2>1 DEF HoldsTap, Stopping, PcTap, PcRules
<1>7. CASE CtxKill(r) \/ ProcExit(r)
  <2>1. /\ \A q \in Reqs : Launched(q) => Launched(q)'
        /\ UNCHANGED <<pc, target>>
    BY <1>7 DEF CtxKill, ProcExit, TypeOK, Launched, NoOrphan
  <2> QED BY <2>1 DEF HoldsTap, Stopping
<1> QED BY <1>2, <1>3, <1>4, <1>5, <1>6, <1>7

\* Where there are no restarts none happens.
LEMMA NoRestart == ASSUME MaxRestarts = 0, TypeOK PROVE ~Restart
BY DEF TypeOK, Restart

LEMMA TapsHeldInductive ==
    ASSUME MaxRestarts = 0, TypeOK, ProcInv, NoOrphan, TapsHeld, [Next]_vars
    PROVE  TapsHeld'
<1>1. ASSUME NEW r \in Reqs, \E o \in Ops : Submit(r, o) PROVE TapsHeld'
  BY <1>1, MoveHeldSteps
<1>2. ASSUME NEW r \in Reqs, CreateStep(r) PROVE TapsHeld'
  BY <1>2, MoveHeldSteps, NetworkHeld, ProcessHeld DEF CreateStep
<1>3. ASSUME NEW r \in Reqs, StopStep(r) PROVE TapsHeld'
  BY <1>3, MoveHeldSteps, NetworkHeld, ProcessHeld DEF StopStep
<1>4. ASSUME NEW r \in Reqs, DestroyStep(r) \/ Return(r) PROVE TapsHeld'
  BY <1>4, MoveHeldSteps
<1>5. ASSUME UNCHANGED <<pc, tap, taps, target, procs>> PROVE TapsHeld'
  BY <1>5, KeepHeld DEF HoldsTap, Launched, Stopping
<1>6. ASSUME NEW r \in Reqs, ClientGone(r) PROVE TapsHeld'
  BY <1>5, <1>6 DEF ClientGone
<1>7. CASE UNCHANGED vars
  BY <1>5, <1>7 DEF vars
<1> QED
  BY <1>1, <1>2, <1>3, <1>4, <1>6, <1>7, ProcessHeld, NoRestart DEF Next, HandlerStep

\* A process of a user nobody serves is the registered one.
LEMMA IdleAccounted ==
    ASSUME SerialInv, NEW r \in Reqs, Launched(r), ~Busy(user[r])
    PROVE  instances[user[r]] = r
<1>1. pc[r] # "register"
  BY DEF Busy, Active
<1>2. ASSUME NEW s \in Reqs, target[s] = r, pc[s] \in Awaiting PROVE FALSE
  <2>1. user[s] = user[r] /\ Active(s)
    BY <1>2, OrchestratorAssumption DEF SerialInv, Awaiting, Active
  <2> QED BY <2>1 DEF Busy
<1> QED BY <1>1, <1>2 DEF SerialInv, Accounted

\* Between the requests of a user only a registered VM has an address, whatever step of a
\* create or a stop failed, and after restarts too, if no VM survives the orchestrator.
THEOREM NoAddressLeaksCorrect ==
    ASSUME ~Overlap, NoSurvivors
    PROVE  Spec => []NoAddressLeaks
<1>1. ASSUME TypeOK, IPExclusive, Leased, SerialInv, NEW i \in Addresses, allocated[i] # None,
             ~Busy(allocated[i])
      PROVE  instances[allocated[i]] # None /\ ip[instances[allocated[i]]] = i
  <2>1. PICK r \in Reqs : HoldsIP(r) /\ ip[r] = i
    BY <1>1, OwnerIs DEF Leased, Holds
  <2>2. user[r] = allocated[i]
    BY <1>1, <2>1 DEF IPExclusive
  <2>3. pc[r] \notin PcIP \cup PcTap \cup PcRules
    BY <1>1, <2>2 DEF Busy, Active, PcIP, PcTap, PcRules
  <2>4. ASSUME NEW s \in Reqs, target[s] = r, pc[s] \in {"unrule", "untap", "release"}
        PROVE  FALSE
    <3>1. user[s] = user[r] /\ Active(s)
      BY <1>1, <2>4, OrchestratorAssumption DEF SerialInv, Active
    <3> QED BY <1>1, <2>2, <3>1 DEF Busy
  <2>5. Launched(r)
    BY <2>1, <2>3, <2>4 DEF HoldsIP, Stopping
  <2>6. instances[allocated[i]] = r
    BY <1>1, <2>2, <2>5, IdleAccounted
  <2> QED BY <2>1, <2>6, OrchestratorAssumption
<1>2. TypeOK /\ IPExclusive /\ Leased /\ SerialInv => NoAddressLeaks
  BY <1>1 DEF NoAddressLeaks
<1> QED
  BY <1>2, ProcInvAlways, IPExclusiveCorrect, LeasedAlways, SerialInvAlways, PTL

\* Between all requests only registered VMs have an address or a device. A restart leaves
\* devices that nobody has, so that there must be none.
THEOREM NoLeakCorrect ==
    ASSUME ~Overlap, MaxRestarts = 0
    PROVE  Spec => []NoLeak
<1>2. ASSUME TypeOK, ProcInv, TapInv, TapsHeld, SerialInv, \A r \in Reqs : ~Active(r)
      PROVE  taps = {tap[instances[u]] : u \in {v \in Users : instances[v] # None}}
  <2>1. ASSUME NEW n \in taps
        PROVE  \E u \in Users : instances[u] # None /\ n = tap[instances[u]]
    <3>1. PICK r \in Reqs : HoldsTap(r) /\ tap[r] = n
      BY <1>2, <2>1 DEF TapsHeld
    <3>2. Launched(r)
      BY <1>2, <3>1 DEF HoldsTap, Stopping, Active, PcTap, PcRules
    <3>3. instances[user[r]] = r /\ user[r] \in Users
      BY <1>2, <3>2, IdleAccounted DEF Busy, TypeOK
    <3> QED BY <3>1, <3>3, OrchestratorAssumption
  <2>2. ASSUME NEW u \in Users, instances[u] # None PROVE tap[instances[u]] \in taps
    <3>1. instances[u] \in Reqs /\ Launched(instances[u])
      BY <1>2, <2>2 DEF TypeOK, ProcInv, Registered, Launched
    <3> QED BY <1>2, <3>1 DEF HoldsTap, TapInv, TapExclusive
  <2> QED BY <2>1, <2>2
<1>3. TypeOK /\ ProcInv /\ TapInv /\ TapsHeld /\ SerialInv => NoTapLeaks
  BY <1>2 DEF NoTapLeaks
<1>4. Init => TapsHeld
  BY DEF Init, TapsHeld
<1>5. TypeOK /\ ProcInv /\ NoOrphan /\ TapsHeld /\ [Next]_vars => TapsHeld'
  BY TapsHeldInductive
<1>6. NoSurvivors
  BY DEF NoSurvivors
<1>7. NoAddressLeaks /\ NoTapLeaks => NoLeak
  BY DEF NoLeak
<1> QED
  BY <1>3, <1>4, <1>5, <1>6, <1>7, ProcInvAlways, NoOrphanAlways, TapInvAlways,
     SerialInvAlways, NoAddressLeaksCorrect, PTL DEF Spec

-----------------------------------------------------------------------------
(* What Redis says between requests *)

\* The record of a user and the user's instance agree.
RecordAgrees(u) ==
    IF instances[u] = None
    THEN redis[u] = None \/ redis[u].status \in {"stopped", "error"}
    ELSE redis[u] = [status |-> "running", ip |-> ip[instances[u]]]

\* The places of a handler at which they agree: before it has written anything, and after
\* it has written all.
Agreeing == {"check", "return", "unregister", "running", "rmstore", "del", "done"}

RecordInv ==
    /\ \A r \in cancelled : pc[r] = "done"
    /\ \A u \in Users : ~Busy(u) => RecordAgrees(u)
    /\ \A r \in Reqs : Active(r) /\ pc[r] \in Agreeing => RecordAgrees(user[r])
    /\ \A r \in Reqs : pc[r] = "save1" => instances[user[r]] = r

\* A step of a handler need only be looked at for what it does to its user.
LEMMA RecordStep ==
    ASSUME TypeOK, SerialInv, RecordInv, NEW r \in Reqs, Active(r), pc'[r] # "idle",
           \A q \in Reqs \ {r} : pc'[q] = pc[q],
           \A q \in cancelled' : q \in cancelled \/ (q = r /\ pc'[r] = "done"),
           UNCHANGED user,
           \A u \in Users \ {user[r]} :
                /\ instances'[u] = instances[u] /\ redis'[u] = redis[u]
                /\ instances[u] # None => ip'[instances[u]] = ip[instances[u]],
           pc'[r] \in Agreeing => RecordAgrees(user[r])',
           pc'[r] = "save1" => instances'[user[r]] = r
    PROVE  RecordInv'
<1>1. ASSUME NEW u \in Users, u # user[r] PROVE RecordAgrees(u)' <=> RecordAgrees(u)
  BY <1>1 DEF RecordAgrees
<1>2. ASSUME NEW q \in Reqs, q # r, Active(q) PROVE user[q] # user[r]
  BY <1>2 DEF SerialInv, OneActive
<1>3. \A q \in Reqs : user[q] \in Users
  BY DEF TypeOK
<1>4. \A q \in cancelled' : pc'[q] = "done"
  <2> SUFFICES ASSUME NEW q \in cancelled' PROVE pc'[q] = "done"
    OBVIOUS
  <2>1. CASE q = r /\ pc'[r] = "done"
    BY <2>1
  <2>2. CASE q \in cancelled
    <3>1. pc[q] = "done" /\ q \in Reqs
      BY <2>2 DEF RecordInv, TypeOK
    <3> QED BY <3>1 DEF Active
  <2> QED BY <2>1, <2>2
<1>5. ASSUME NEW u \in Users, ~Busy(u)' PROVE RecordAgrees(u)'
  <2>1. CASE u = user[r]
    <3>1. pc'[r] = "done"
      BY <1>5, <2>1 DEF Busy, Active
    <3> QED BY <2>1, <3>1 DEF Agreeing
  <2>2. CASE u # user[r]
    <3>1. ~Busy(u)
      BY <1>5, <2>2 DEF Busy, Active
    <3> QED BY <1>1, <2>2, <3>1 DEF RecordInv
  <2> QED BY <2>1, <2>2
<1>6. ASSUME NEW q \in Reqs, Active(q)', pc'[q] \in Agreeing PROVE RecordAgrees(user[q])'
  <2>1. CASE q = r
    BY <1>6, <2>1
  <2>2. CASE q # r
    <3>1. Active(q) /\ pc[q] \in Agreeing /\ user[q] # user[r]
      BY <1>2, <1>6, <2>2 DEF Active
    <3>2. RecordAgrees(user[q])
      BY <3>1 DEF RecordInv
    <3>3. user'[q] = user[q]
      OBVIOUS
    <3>4. RecordAgrees(user[q])' <=> RecordAgrees(user[q])
      <4>1. PICK u \in Users : u = user[q]
        BY <1>3
      <4>2. RecordAgrees(u)' <=> RecordAgrees(u)
        BY <1>1, <3>1, <4>1
      <4> QED BY <3>3, <4>1, <4>2
    <3> QED BY <3>2, <3>4
  <2> QED BY <2>1, <2>2
<1>7. ASSUME NEW q \in Reqs, pc'[q] = "save1" PROVE instances'[user[q]] = q
  <2>1. CASE q = r
    BY <1>7, <2>1
  <2>2. CASE q # r
    <3>1. user[q] # user[r] /\ pc[q] = "save1"
      BY <1>2, <1>7, <2>2 DEF Active
    <3> QED BY <1>3, <3>1 DEF RecordInv
  <2> QED BY <2>1, <2>2
<1> QED BY <1>4, <1>5, <1>6, <1>7 DEF RecordInv

\* A step that leaves all of this alone.
LEMMA RecordKept ==
    ASSUME RecordInv, UNCHANGED <<pc, user, ip, cancelled, instances, redis>>
    PROVE  RecordInv'
BY DEF RecordInv, RecordAgrees, Busy, Active

LEMMA RecordSubmit ==
    ASSUME ~Overlap, TypeOK, RecordInv, NEW r \in Reqs, NEW o \in Ops, Submit(r, o)
    PROVE  RecordInv'
<1>1. /\ pc[r] = "idle" /\ pc'[r] \in {"check", "unregister", "running"} /\ ~Busy(user[r])
      /\ \A q \in Reqs \ {r} : pc'[q] = pc[q]
      /\ UNCHANGED <<user, ip, cancelled, instances, redis>> /\ user[r] \in Users
  BY DEF Submit, Goto, First, TypeOK, Ops
<1>2. \A u \in Users : RecordAgrees(u)' <=> RecordAgrees(u)
  BY <1>1 DEF RecordAgrees
<1>3. \A u \in Users : ~Busy(u)' => ~Busy(u)
  BY <1>1 DEF Busy, Active
<1>4. RecordAgrees(user[r])
  BY <1>1 DEF RecordInv
<1>5. \A q \in cancelled : pc'[q] = "done"
  BY <1>1 DEF RecordInv, TypeOK
<1>6. ASSUME NEW q \in Reqs, Active(q)', pc'[q] \in Agreeing PROVE RecordAgrees(user[q])
  BY <1>1, <1>4, <1>6 DEF RecordInv, Active
<1>7. \A q \in Reqs : user'[q] = user[q] /\ user[q] \in Users
  BY <1>1 DEF TypeOK
<1>8. ASSUME NEW q \in Reqs, Active(q)', pc'[q] \in Agreeing PROVE RecordAgrees(user[q])'
  <2>1. PICK u \in Users : u = user[q]
    BY <1>7
  <2>2. RecordAgrees(u)'
    BY <1>2, <1>6, <1>8, <2>1
  <2> QED BY <1>7, <2>1, <2>2
<1> QED BY <1>1, <1>2, <1>3, <1>5, <1>8 DEF RecordInv

\* A handler that moves on and leaves its user's record and instance alone.
LEMMA RecordMove ==
    ASSUME TypeOK, SerialInv, RecordInv, NEW r \in Reqs, NEW from, NEW to, Goto(r, from, to),
           from \notin {"idle", "done"}, to \notin {"idle", "save1"},
           to \in Agreeing => from \in Agreeing,
           UNCHANGED <<user, ip, instances, redis>>,
           cancelled' = cancelled \/ (to = "done" /\ cancelled' = cancelled \cup {r})
    PROVE  RecordInv'
<1>1. pc[r] = from /\ pc'[r] = to /\ (\A q \in Reqs \ {r} : pc'[q] = pc[q]) /\ Active(r)
  BY DEF Goto, TypeOK, Active
<1>2. RecordAgrees(user[r])' <=> RecordAgrees(user[r])
  BY DEF RecordAgrees
<1>3. pc'[r] \in Agreeing => RecordAgrees(user[r])'
  BY <1>1, <1>2 DEF RecordInv
<1>4. \A q \in cancelled' : q \in cancelled \/ (q = r /\ pc'[r] = "done")
  BY <1>1
<1> QED BY <1>1, <1>3, <1>4, RecordStep

LEMMA RecordMoveSteps ==
    ASSUME TypeOK, SerialInv, RecordInv, NEW r \in Reqs,
           \/ CheckExists(r) \/ StatRootfs(r) \/ StartCopy(r) \/ FinishCopy(r) \/ StatData(r)
           \/ Truncate(r) \/ Mkfs(r) \/ CreateTapDevice(r) \/ SetupVMIsolation(r)
           \/ Launch(r) \/ Unlaunch(r) \/ Sigterm(r) \/ WaitExit(r)
           \/ CleanupRules(r) \/ DestroyTapDevice(r) \/ ReleaseAddress(r)
           \/ CheckRunning(r) \/ CleanupStorage(r) \/ Return(r)
    PROVE  RecordInv'
<1> SUFFICES /\ UNCHANGED <<user, ip, instances, redis>>
             /\ \E from, to \in Pcs :
                  /\ Goto(r, from, to)
                  /\ from \notin {"idle", "done"} /\ to \notin {"idle", "save1"}
                  /\ to \in Agreeing => from \in Agreeing
                  /\ cancelled' = cancelled \/ (to = "done" /\ cancelled' = cancelled \cup {r})
  BY RecordMove
<1> USE PcsDef DEF Agreeing
<1>1. CASE CheckExists(r) \/ StatRootfs(r) \/ StartCopy(r) \/ FinishCopy(r) \/ StatData(r)
  BY <1>1 DEF CheckExists, StatRootfs, StartCopy, FinishCopy, StatData
<1>2. CASE Truncate(r) \/ Mkfs(r) \/ CreateTapDevice(r) \/ SetupVMIsolation(r)
  BY <1>2 DEF Truncate, Mkfs, CreateTapDevice, SetupVMIsolation
<1>3. CASE Launch(r) \/ Unlaunch(r) \/ Sigterm(r) \/ WaitExit(r)
  BY <1>3 DEF Launch, Unlaunch, Sigterm, WaitExit
<1>4. CASE CleanupRules(r) \/ DestroyTapDevice(r) \/ ReleaseAddress(r)
  BY <1>4 DEF CleanupRules, DestroyTapDevice, ReleaseAddress
<1>5. CASE CheckRunning(r) \/ CleanupStorage(r) \/ Return(r)
  BY <1>5 DEF CheckRunning, CleanupStorage, Return
<1> QED BY <1>1, <1>2, <1>3, <1>4, <1>5

\* An address is given to a request that is no registered VM.
LEMMA RecordAllocate ==
    ASSUME TypeOK, ProcInv, SerialInv, RecordInv, NEW r \in Reqs, AllocateIP(r)
    PROVE  RecordInv'
<1>1. /\ pc[r] = "alloc" /\ pc'[r] \in {"stat", "fail"}
      /\ \A q \in Reqs \ {r} : pc'[q] = pc[q] /\ ip'[q] = ip[q]
      /\ UNCHANGED <<user, cancelled, instances, redis>>
  BY DEF AllocateIP, Goto, TypeOK
<1>2. \A u \in Users : instances[u] # None => ip'[instances[u]] = ip[instances[u]]
  BY <1>1 DEF ProcInv, NotShared, NotYet, TypeOK
<1> QED BY <1>1, <1>2, RecordStep DEF Active, Agreeing

\* Redis takes every command of a handler that has not returned.
LEMMA RedisTakes ==
    ASSUME "redis" \notin FaultKinds, RecordInv, NEW r \in Reqs, pc[r] # "done"
    PROVE  ~RedisFails(r)
BY DEF RedisFails, Fault, RecordInv

\* The steps that write the record, which then agrees or is written again.
LEMMA RecordWrites ==
    ASSUME "redis" \notin FaultKinds, TypeOK, SerialInv, RecordInv, NEW r \in Reqs,
           \/ SaveInitial(r) \/ SaveFinal(r) \/ SetVMError(r) \/ SaveStopped(r)
           \/ DeleteRecord(r)
    PROVE  RecordInv'
<1>1. /\ UNCHANGED <<user, ip, cancelled, instances>> /\ user[r] \in Users
      /\ pc[r] \in {"save0", "save1", "fail", "save2", "del"} /\ pc'[r] # "idle"
      /\ \A q \in Reqs \ {r} : pc'[q] = pc[q]
      /\ \A u \in Users \ {user[r]} : redis'[u] = redis[u]
      /\ pc'[r] # "save1"
  BY DEF SaveInitial, SaveFinal, SetVMError, SaveStopped, DeleteRecord, SaveVMInfo, Goto, TypeOK,
         AfterStop
<1>2. ~RedisFails(r)
  BY <1>1, RedisTakes
<1>3. pc'[r] \in Agreeing => RecordAgrees(user[r])'
  <2>1. CASE SaveInitial(r)
    BY <1>2, <2>1 DEF SaveInitial, Goto, TypeOK, Agreeing
  <2>2. CASE SaveFinal(r)
    <3>1. instances'[user[r]] = r
      BY <1>1, <2>2 DEF SaveFinal, Goto, RecordInv
    <3>2. redis'[user[r]] = [status |-> "running", ip |-> ip'[r]]
      BY <1>1, <1>2, <2>2 DEF SaveFinal, SaveVMInfo, TypeOK
    <3> QED BY <1>1, <3>1, <3>2, OrchestratorAssumption DEF RecordAgrees
  <2>3. CASE SetVMError(r) \/ SaveStopped(r) \/ DeleteRecord(r)
    <3>1. pc[r] \in Alone
      BY <2>3 DEF SetVMError, SaveStopped, DeleteRecord, Goto, Alone
    <3>2. instances'[user[r]] = None
      BY <1>1, <3>1 DEF SerialInv
    <3>3. info[r] \in Records
      BY DEF TypeOK
    <3>4. redis'[user[r]] = None \/ redis'[user[r]].status \in {"stopped", "error"}
      BY <1>1, <1>2, <2>3, <3>3
         DEF SetVMError, SaveStopped, DeleteRecord, SaveVMInfo, Stopped, Records, TypeOK
    <3> QED BY <1>1, <3>2, <3>4 DEF RecordAgrees
  <2> QED BY <2>1, <2>2, <2>3
<1> QED BY <1>1, <1>3, RecordStep DEF Active

LEMMA RecordRegister ==
    ASSUME TypeOK, ProcInv, SerialInv, RecordInv, NEW r \in Reqs, Register(r)
    PROVE  RecordInv'
<1>1. /\ pc[r] = "register" /\ pc'[r] = "save1" /\ \A q \in Reqs \ {r} : pc'[q] = pc[q]
      /\ user[r] \in Users /\ instances'[user[r]] = r
      /\ \A u \in Users \ {user[r]} : instances'[u] = instances[u]
      /\ UNCHANGED <<user, ip, cancelled, redis>>
  BY DEF Register, Goto, TypeOK
<1> QED BY <1>1, RecordStep DEF Active, Agreeing

LEMMA RecordUnregister ==
    ASSUME TypeOK, SerialInv, RecordInv, NEW r \in Reqs, Unregister(r)
    PROVE  RecordInv'
<1> DEFINE inst == instances[user[r]]
<1>1. CASE inst = None /\ Goto(r, "unregister", AfterStop(r)) /\ UNCHANGED instances
  BY <1>1, RecordMove DEF Unregister, AfterStop, Agreeing
<1>2. CASE inst # None /\ Goto(r, "unregister", "sigterm") /\ ForgetInstance(user[r])
  <2>1. /\ pc[r] = "unregister" /\ pc'[r] = "sigterm" /\ \A q \in Reqs \ {r} : pc'[q] = pc[q]
        /\ \A u \in Users \ {user[r]} : instances'[u] = instances[u]
        /\ UNCHANGED <<user, ip, cancelled, redis>>
    BY <1>2 DEF Unregister, ForgetInstance, Goto, TypeOK
  <2> QED BY <2>1, RecordStep DEF Active, Agreeing
<1> QED BY <1>1, <1>2 DEF Unregister

LEMMA RecordRead ==
    ASSUME "redis" \notin FaultKinds, TypeOK, SerialInv, RecordInv, NEW r \in Reqs, ReadInfo(r)
    PROVE  RecordInv'
<1>1. /\ UNCHANGED <<user, ip, cancelled, instances, redis>>
      /\ pc[r] = "read" /\ pc'[r] \notin {"idle", "save1"}
      /\ \A q \in Reqs \ {r} : pc'[q] = pc[q]
  BY DEF ReadInfo, Goto, TypeOK, AfterStop
<1>2. ~RedisFails(r)
  BY <1>1, RedisTakes
<1>3. instances[user[r]] = None
  BY <1>1 DEF SerialInv, Alone
<1>4. pc'[r] = "save2" \/ redis[user[r]] = None
  BY <1>2 DEF ReadInfo, Goto, TypeOK
<1>5. pc'[r] \in Agreeing => RecordAgrees(user[r])'
  BY <1>1, <1>3, <1>4 DEF Agreeing, RecordAgrees
<1> QED BY <1>1, <1>5, RecordStep DEF Active

LEMMA RecordInvInductive ==
    ASSUME ~Overlap, {"redis", "cancel"} \cap FaultKinds = {}, MaxRestarts = 0,
           TypeOK, ProcInv, SerialInv, RecordInv, [Next]_vars
    PROVE  RecordInv'
<1>1. "redis" \notin FaultKinds /\ "cancel" \notin FaultKinds
  OBVIOUS
<1>2. ASSUME NEW r \in Reqs, \E o \in Ops : Submit(r, o) PROVE RecordInv'
  BY <1>2, RecordSubmit
<1>3. ASSUME NEW r \in Reqs, CreateStep(r) PROVE RecordInv'
  BY <1>1, <1>3, RecordMoveSteps, RecordAllocate, RecordWrites, RecordRegister DEF CreateStep
<1>4. ASSUME NEW r \in Reqs, StopStep(r) PROVE RecordInv'
  BY <1>1, <1>4, RecordMoveSteps, RecordUnregister, RecordRead, RecordWrites DEF StopStep
<1>5. ASSUME NEW r \in Reqs, DestroyStep(r) \/ Return(r) PROVE RecordInv'
  BY <1>1, <1>5, RecordMoveSteps, RecordWrites DEF DestroyStep
<1>6. ASSUME NEW r \in Reqs, CtxKill(r) \/ ProcExit(r) PROVE RecordInv'
  BY <1>6, RecordKept DEF CtxKill, ProcExit
<1>7. \A r \in Reqs : ~ClientGone(r)
  BY <1>1 DEF ClientGone, Fault
<1>8. CASE UNCHANGED vars
  BY <1>8, RecordKept DEF vars
<1> QED
  BY <1>2, <1>3, <1>4, <1>5, <1>6, <1>7, <1>8, NoRestart DEF Next, HandlerStep

\* If Redis takes every write and no client gives up, the record of a user nobody serves
\* says running exactly when the user has a VM, and then has its address.
THEOREM RecordMatchesCorrect ==
    ASSUME ~Overlap, MaxRestarts = 0, {"redis", "cancel"} \cap FaultKinds = {}
    PROVE  Spec => []RecordMatchesInstance
<1>1. RecordInv => RecordMatchesInstance
  BY DEF RecordInv, RecordMatchesInstance, RecordAgrees
<1>2. Init => RecordInv
  BY DEF Init, RecordInv, RecordAgrees, Active
<1>3. TypeOK /\ ProcInv /\ SerialInv /\ RecordInv /\ [Next]_vars => RecordInv'
  BY RecordInvInductive
<1>4. NoSurvivors
  BY DEF NoSurvivors
<1> QED BY <1>1, <1>2, <1>3, <1>4, ProcInvAlways, SerialInvAlways, PTL DEF Spec

-----------------------------------------------------------------------------
(* The files a VM runs on *)

\* The places of a create that found or made a formatted data volume.
OnVolume == {"tap", "isolate", "launch", "register"}

FileInv ==
    /\ \A u \in Users : data[u] = "raw" => \E r \in Reqs : pc[r] = "mkfs" /\ user[r] = u
    /\ \A r \in Reqs : pc[r] \in OnVolume => data[user[r]] = "formatted"
    /\ \A r \in Reqs : pc[r] = "register" => sock[user[r]] = r
    /\ \A u \in Users : instances[u] # None =>
            data[u] = "formatted" /\ sock[u] = instances[u]

\* A step of a handler need only be looked at for what it does to its user.
LEMMA FileStep ==
    ASSUME TypeOK, SerialInv, FileInv, NEW r \in Reqs, Active(r),
           \A q \in Reqs \ {r} : pc'[q] = pc[q],
           UNCHANGED user,
           \A u \in Users \ {user[r]} :
                instances'[u] = instances[u] /\ data'[u] = data[u] /\ sock'[u] = sock[u],
           data'[user[r]] = "raw" => pc'[r] = "mkfs",
           pc'[r] \in OnVolume => data'[user[r]] = "formatted",
           pc'[r] = "register" => sock'[user[r]] = r,
           instances'[user[r]] # None =>
                data'[user[r]] = "formatted" /\ sock'[user[r]] = instances'[user[r]]
    PROVE  FileInv'
<1>1. ASSUME NEW q \in Reqs, q # r, Active(q) PROVE user[q] # user[r]
  BY <1>1 DEF SerialInv, OneActive
<1>2. \A q \in Reqs : user[q] \in Users
  BY DEF TypeOK
<1>3. ASSUME NEW u \in Users, data'[u] = "raw"
      PROVE  \E q \in Reqs : pc'[q] = "mkfs" /\ user[q] = u
  <2>1. CASE u = user[r]
    BY <1>3, <2>1
  <2>2. CASE u # user[r]
    <3>1. PICK q \in Reqs : pc[q] = "mkfs" /\ user[q] = u
      BY <1>3, <2>2 DEF FileInv
    <3> QED BY <2>2, <3>1
  <2> QED BY <2>1, <2>2
<1>4. ASSUME NEW q \in Reqs, pc'[q] \in OnVolume PROVE data'[user[q]] = "formatted"
  <2>1. CASE q # r
    <3>1. user[q] # user[r]
      BY <1>1, <1>4, <2>1 DEF Active, OnVolume
    <3> QED BY <1>2, <1>4, <2>1, <3>1 DEF FileInv
  <2> QED BY <1>4, <2>1
<1>5. ASSUME NEW q \in Reqs, pc'[q] = "register" PROVE sock'[user[q]] = q
  <2>1. CASE q # r
    <3>1. user[q] # user[r]
      BY <1>1, <1>5, <2>1 DEF Active
    <3> QED BY <1>2, <1>5, <2>1, <3>1 DEF FileInv
  <2> QED BY <1>5, <2>1
<1>6. \A u \in Users : instances'[u] # None =>
            data'[u] = "formatted" /\ sock'[u] = instances'[u]
  BY DEF FileInv
<1> QED BY <1>3, <1>4, <1>5, <1>6 DEF FileInv

\* A step that leaves all of this alone.
LEMMA FileKept ==
    ASSUME FileInv, UNCHANGED <<pc, user, instances, data, sock>>
    PROVE  FileInv'
BY DEF FileInv

LEMMA FileSubmit ==
    ASSUME TypeOK, FileInv, NEW r \in Reqs, NEW o \in Ops, Submit(r, o)
    PROVE  FileInv'
<1>1. /\ pc[r] = "idle" /\ pc'[r] \in {"check", "unregister", "running"}
      /\ \A q \in Reqs \ {r} : pc'[q] = pc[q]
      /\ UNCHANGED <<user, instances, data, sock>>
  BY DEF Submit, Goto, First, TypeOK, Ops
<1> QED BY <1>1 DEF FileInv, OnVolume

\* A handler that moves on and leaves images, socket and instance alone.
LEMMA FileMove ==
    ASSUME TypeOK, SerialInv, FileInv, NEW r \in Reqs, NEW from, NEW to, Goto(r, from, to),
           from \notin {"idle", "done", "mkfs"},
           to \in OnVolume => from \in OnVolume /\ to # "register",
           UNCHANGED <<user, instances, data, sock>>
    PROVE  FileInv'
<1>1. pc[r] = from /\ pc'[r] = to /\ (\A q \in Reqs \ {r} : pc'[q] = pc[q]) /\ Active(r)
  BY DEF Goto, TypeOK, Active
<1>2. user[r] \in Users
  BY DEF TypeOK
<1>3. data[user[r]] # "raw"
  <2> SUFFICES ASSUME data[user[r]] = "raw" PROVE FALSE
    OBVIOUS
  <2>1. PICK q \in Reqs : pc[q] = "mkfs" /\ user[q] = user[r]
    BY <1>2 DEF FileInv
  <2>2. q = r
    BY <1>1, <2>1 DEF SerialInv, OneActive, Active
  <2> QED BY <1>1, <2>1, <2>2
<1>4. pc'[r] \in OnVolume => data'[user[r]] = "formatted"
  BY <1>1 DEF FileInv
<1>5. instances'[user[r]] # None =>
          data'[user[r]] = "formatted" /\ sock'[user[r]] = instances'[user[r]]
  BY <1>2 DEF FileInv
<1>6. pc'[r] # "register"
  BY <1>1 DEF OnVolume
<1>7. \A u \in Users \ {user[r]} :
          instances'[u] = instances[u] /\ data'[u] = data[u] /\ sock'[u] = sock[u]
  OBVIOUS
<1>8. data'[user[r]] # "raw"
  BY <1>3
<1> QED BY <1>1, <1>4, <1>5, <1>6, <1>7, <1>8, FileStep

LEMMA FileMoveSteps ==
    ASSUME TypeOK, SerialInv, FileInv, NEW r \in Reqs,
           \/ CheckExists(r) \/ SaveInitial(r) \/ AllocateIP(r) \/ StatRootfs(r)
           \/ StartCopy(r) \/ FinishCopy(r) \/ CreateTapDevice(r) \/ SetupVMIsolation(r)
           \/ Unlaunch(r) \/ SaveFinal(r) \/ SetVMError(r) \/ Sigterm(r)
           \/ CleanupRules(r) \/ DestroyTapDevice(r) \/ ReleaseAddress(r)
           \/ ReadInfo(r) \/ SaveStopped(r) \/ CheckRunning(r) \/ DeleteRecord(r) \/ Return(r)
    PROVE  FileInv'
<1> SUFFICES /\ UNCHANGED <<user, instances, data, sock>>
             /\ \E from, to \in Pcs :
                  /\ Goto(r, from, to)
                  /\ from \notin {"idle", "done", "mkfs"}
                  /\ to \in OnVolume => from \in OnVolume /\ to # "register"
  BY FileMove
<1> USE PcsDef DEF OnVolume
<1>1. CASE CheckExists(r) \/ SaveInitial(r) \/ AllocateIP(r) \/ StatRootfs(r)
  BY <1>1 DEF CheckExists, SaveInitial, AllocateIP, StatRootfs
<1>2. CASE StartCopy(r) \/ FinishCopy(r) \/ CreateTapDevice(r) \/ SetupVMIsolation(r)
  BY <1>2 DEF StartCopy, FinishCopy, CreateTapDevice, SetupVMIsolation
<1>3. CASE Unlaunch(r) \/ SaveFinal(r) \/ SetVMError(r) \/ Sigterm(r)
  BY <1>3 DEF Unlaunch, SaveFinal, SetVMError, Sigterm
<1>4. CASE CleanupRules(r) \/ DestroyTapDevice(r) \/ ReleaseAddress(r)
  BY <1>4 DEF CleanupRules, DestroyTapDevice, ReleaseAddress
<1>5. CASE ReadInfo(r) \/ SaveStopped(r)
  BY <1>5 DEF ReadInfo, SaveStopped, AfterStop
<1>6. CASE CheckRunning(r) \/ DeleteRecord(r) \/ Return(r)
  BY <1>6 DEF CheckRunning, DeleteRecord, Return
<1> QED BY <1>1, <1>2, <1>3, <1>4, <1>5, <1>6

\* The steps that make, format or remove a data volume, or write or remove the socket, do
\* it while the user has no VM.
LEMMA FileWrites ==
    ASSUME TypeOK, SerialInv, FileInv, NEW r \in Reqs,
           \/ StatData(r) \/ Truncate(r) \/ Mkfs(r) \/ Launch(r) \/ WaitExit(r)
           \/ CleanupStorage(r)
    PROVE  FileInv'
<1>1. /\ UNCHANGED <<user, instances>> /\ user[r] \in Users
      /\ pc[r] \in {"statdata", "truncate", "mkfs", "launch", "wait", "rmstore"}
      /\ \A q \in Reqs \ {r} : pc'[q] = pc[q]
      /\ \A u \in Users \ {user[r]} : data'[u] = data[u] /\ sock'[u] = sock[u]
      /\ data[user[r]] \in {"absent", "raw", "formatted"}
  BY DEF StatData, Truncate, Mkfs, Launch, WaitExit, CleanupStorage, RemoveData, Goto, TypeOK
<1>2. instances'[user[r]] = None
  BY <1>1 DEF SerialInv, Alone
<1>3. ASSUME data[user[r]] = "raw" PROVE pc[r] = "mkfs"
  <2>1. PICK q \in Reqs : pc[q] = "mkfs" /\ user[q] = user[r]
    BY <1>1, <1>3 DEF FileInv
  <2>2. q = r
    BY <1>1, <2>1 DEF SerialInv, OneActive, Active
  <2> QED BY <2>1, <2>2
<1>4. /\ data'[user[r]] = "raw" => pc'[r] = "mkfs"
      /\ pc'[r] \in OnVolume => data'[user[r]] = "formatted"
      /\ pc'[r] = "register" => sock'[user[r]] = r
  <2>1. CASE StatData(r) \/ Truncate(r)
    BY <1>1, <1>3, <2>1 DEF StatData, Truncate, Goto, TypeOK, OnVolume
  <2>2. CASE Mkfs(r)
    BY <1>1, <2>2 DEF Mkfs, RemoveData, Goto, TypeOK, OnVolume
  <2>3. CASE Launch(r)
    <3>1. data[user[r]] = "formatted" /\ UNCHANGED data
      BY <2>3 DEF Launch, Goto, FileInv, OnVolume
    <3> QED BY <1>1, <2>3, <3>1 DEF Launch, Goto, TypeOK
  <2>4. CASE WaitExit(r) \/ CleanupStorage(r)
    BY <1>1, <1>3, <2>4 DEF WaitExit, CleanupStorage, Goto, TypeOK, OnVolume
  <2> QED BY <2>1, <2>2, <2>3, <2>4
<1> QED BY <1>1, <1>2, <1>4, FileStep DEF Active

LEMMA FileRegister ==
    ASSUME TypeOK, SerialInv, FileInv, NEW r \in Reqs, Register(r)
    PROVE  FileInv'
<1>1. /\ pc[r] = "register" /\ pc'[r] = "save1" /\ \A q \in Reqs \ {r} : pc'[q] = pc[q]
      /\ user[r] \in Users /\ instances'[user[r]] = r
      /\ \A u \in Users \ {user[r]} : instances'[u] = instances[u]
      /\ UNCHANGED <<user, data, sock>>
  BY DEF Register, Goto, TypeOK
<1>2. data[user[r]] = "formatted" /\ sock[user[r]] = r
  BY <1>1 DEF FileInv, OnVolume
<1> QED BY <1>1, <1>2, FileStep DEF Active, OnVolume

LEMMA FileUnregister ==
    ASSUME TypeOK, SerialInv, FileInv, NEW r \in Reqs, Unregister(r)
    PROVE  FileInv'
<1> DEFINE inst == instances[user[r]]
<1>1. CASE inst = None /\ Goto(r, "unregister", AfterStop(r)) /\ UNCHANGED instances
  BY <1>1, FileMove DEF Unregister, AfterStop, OnVolume
<1>2. CASE inst # None /\ Goto(r, "unregister", "sigterm") /\ ForgetInstance(user[r])
  <2>1. /\ pc[r] = "unregister" /\ pc'[r] = "sigterm" /\ \A q \in Reqs \ {r} : pc'[q] = pc[q]
        /\ \A u \in Users \ {user[r]} : instances'[u] = instances[u]
        /\ instances'[user[r]] = None /\ user[r] \in Users
        /\ UNCHANGED <<user, data, sock>>
    BY <1>2 DEF Unregister, ForgetInstance, Goto, TypeOK
  <2>2. data[user[r]] = "formatted"
    BY <1>2, <2>1 DEF FileInv
  <2> QED BY <2>1, <2>2, FileStep DEF Active, OnVolume
<1> QED BY <1>1, <1>2 DEF Unregister

LEMMA FileInvInductive ==
    ASSUME MaxRestarts = 0, TypeOK, SerialInv, FileInv, [Next]_vars
    PROVE  FileInv'
<1>1. ASSUME NEW r \in Reqs, \E o \in Ops : Submit(r, o) PROVE FileInv'
  BY <1>1, FileSubmit
<1>2. ASSUME NEW r \in Reqs, CreateStep(r) PROVE FileInv'
  BY <1>2, FileMoveSteps, FileWrites, FileRegister DEF CreateStep
<1>3. ASSUME NEW r \in Reqs, StopStep(r) PROVE FileInv'
  BY <1>3, FileMoveSteps, FileUnregister, FileWrites DEF StopStep
<1>4. ASSUME NEW r \in Reqs, DestroyStep(r) \/ Return(r) PROVE FileInv'
  BY <1>4, FileMoveSteps, FileWrites DEF DestroyStep
<1>5. ASSUME NEW r \in Reqs, ClientGone(r) \/ CtxKill(r) \/ ProcExit(r) PROVE FileInv'
  BY <1>5, FileKept DEF ClientGone, CtxKill, ProcExit
<1>6. CASE UNCHANGED vars
  BY <1>6, FileKept DEF vars
<1> QED BY <1>1, <1>2, <1>3, <1>4, <1>5, <1>6, NoRestart DEF Next, HandlerStep

\* If the orchestrator does not restart, a registered VM that runs has a formatted data
\* volume and its own socket files, whatever step of an earlier create or destroy failed.
THEOREM RunsOnItsFilesCorrect ==
    ASSUME ~Overlap, MaxRestarts = 0
    PROVE  Spec => []RunsOnItsFiles
<1>1. TypeOK /\ FileInv => RunsOnItsFiles
  BY OrchestratorAssumption DEF TypeOK, FileInv, RunsOnItsFiles
<1>2. Init => FileInv
  BY OrchestratorAssumption DEF Init, FileInv, OnVolume
<1>3. TypeOK /\ SerialInv /\ FileInv /\ [Next]_vars => FileInv'
  BY FileInvInductive
<1>4. NoSurvivors
  BY DEF NoSurvivors
<1> QED BY <1>1, <1>2, <1>3, <1>4, TypeCorrect, SerialInvAlways, PTL DEF Spec

-----------------------------------------------------------------------------
(* What is written to Redis, whatever fails *)

\* A create that saves its VM as running is still the one that is registered.
Saving == \A r \in Reqs : pc[r] = "save1" => instances[user[r]] = r

LEMMA MoveSaving ==
    ASSUME TypeOK, Saving, NEW r \in Reqs, NEW from, NEW to, Goto(r, from, to), to # "save1",
           UNCHANGED <<user, instances>>
    PROVE  Saving'
<1>1. \A q \in Reqs : pc'[q] = "save1" => pc[q] = "save1"
  BY DEF Goto, TypeOK
<1> QED BY <1>1 DEF Saving

LEMMA MoveSavingSteps ==
    ASSUME TypeOK, Saving, NEW r \in Reqs,
           \/ \E o \in Ops : Submit(r, o)
           \/ CheckExists(r) \/ SaveInitial(r) \/ AllocateIP(r)
           \/ StatRootfs(r) \/ StartCopy(r) \/ FinishCopy(r)
           \/ StatData(r) \/ Truncate(r) \/ Mkfs(r)
           \/ CreateTapDevice(r) \/ SetupVMIsolation(r) \/ Launch(r)
           \/ Unlaunch(r) \/ SaveFinal(r) \/ SetVMError(r) \/ Sigterm(r) \/ WaitExit(r)
           \/ CleanupRules(r) \/ DestroyTapDevice(r) \/ ReleaseAddress(r)
           \/ ReadInfo(r) \/ SaveStopped(r) \/ DestroyStep(r) \/ Return(r)
    PROVE  Saving'
<1> SUFFICES /\ UNCHANGED <<user, instances>>
             /\ \E from, to \in Pcs : Goto(r, from, to) /\ to # "save1"
  BY MoveSaving
<1> USE PcsDef
<1> AfterStop(r) \in {"rmstore", "return"}
  BY DEF AfterStop
<1>1. CASE \E o \in Ops : Submit(r, o)
  BY <1>1 DEF Submit, First, Ops
<1>2. CASE CheckExists(r) \/ SaveInitial(r) \/ AllocateIP(r)
  BY <1>2 DEF CheckExists, SaveInitial, AllocateIP
<1>3. CASE StatRootfs(r) \/ StartCopy(r) \/ FinishCopy(r)
  BY <1>3 DEF StatRootfs, StartCopy, FinishCopy
<1>4. CASE StatData(r) \/ Truncate(r) \/ Mkfs(r)
  BY <1>4 DEF StatData, Truncate, Mkfs
<1>5. CASE CreateTapDevice(r) \/ SetupVMIsolation(r) \/ Launch(r)
  BY <1>5 DEF CreateTapDevice, SetupVMIsolation, Launch
<1>6. CASE Unlaunch(r) \/ SaveFinal(r) \/ SetVMError(r)
  BY <1>6 DEF Unlaunch, SaveFinal, SetVMError
<1>7. CASE Sigterm(r) \/ WaitExit(r) \/ CleanupRules(r)
  BY <1>7 DEF Sigterm, WaitExit, CleanupRules
<1>8. CASE DestroyTapDevice(r) \/ ReleaseAddress(r)
  BY <1>8 DEF DestroyTapDevice, ReleaseAddress
<1>9. CASE ReadInfo(r) \/ SaveStopped(r)
  BY <1>9 DEF ReadInfo, SaveStopped
<1>10. CASE DestroyStep(r) \/ Return(r)
  BY <1>10 DEF DestroyStep, CheckRunning, CleanupStorage, DeleteRecord, Return
<1> QED BY <1>1, <1>2, <1>3, <1>4, <1>5, <1>6, <1>7, <1>8, <1>9, <1>10

\* A registration or its end is another user's, or the handler's own.
LEMMA RegistrationSaving ==
    ASSUME TypeOK, SerialInv, Saving, NEW r \in Reqs, Register(r) \/ Unregister(r)
    PROVE  Saving'
<1>1. /\ Active(r) /\ pc[r] # "save1" /\ \A q \in Reqs \ {r} : pc'[q] = pc[q]
      /\ \A u \in Users \ {user[r]} : instances'[u] = instances[u]
      /\ pc'[r] = "save1" => instances'[user[r]] = r
      /\ UNCHANGED user
  BY DEF Register, Unregister, ForgetInstance, AfterStop, Goto, Active, TypeOK
<1>2. \A q \in Reqs \ {r} : pc[q] = "save1" => user[q] \in Users \ {user[r]}
  BY <1>1 DEF SerialInv, OneActive, Active, TypeOK
<1> QED BY <1>1, <1>2 DEF Saving

LEMMA SavingInductive ==
    ASSUME TypeOK, SerialInv, Saving, [Next]_vars
    PROVE  Saving'
<1>1. ASSUME NEW r \in Reqs, \E o \in Ops : Submit(r, o) PROVE Saving'
  BY <1>1, MoveSavingSteps
<1>2. ASSUME NEW r \in Reqs, HandlerStep(r) PROVE Saving'
  BY <1>2, MoveSavingSteps, RegistrationSaving DEF HandlerStep, CreateStep, StopStep
<1>3. ASSUME NEW r \in Reqs, ClientGone(r) \/ CtxKill(r) \/ ProcExit(r) PROVE Saving'
  BY <1>3 DEF ClientGone, CtxKill, ProcExit, Saving
<1>4. CASE Restart
  BY <1>4 DEF Restart, Active, TypeOK, Saving
<1>5. CASE UNCHANGED vars
  BY <1>5 DEF vars, Saving
<1> QED BY <1>1, <1>2, <1>3, <1>4, <1>5 DEF Next

\* The body of WritesAreTrue.
TrueWrite ==
    \A u \in Users : redis'[u] # redis[u] =>
        IF redis'[u] # None /\ redis'[u].status = "running"
        THEN instances[u] # None /\ redis'[u].ip = ip[instances[u]]
        ELSE instances[u] = None

\* A save is of the handler's user: running with the address of the one registered, or
\* something else while nothing is.
LEMMA SaveIsTrue ==
    ASSUME TypeOK, NEW r \in Reqs, NEW rec, SaveVMInfo(r, rec),
           \/ rec # None /\ rec.status = "running" /\ instances[user[r]] # None
                         /\ rec.ip = ip[instances[user[r]]]
           \/ (rec # None => rec.status # "running") /\ instances[user[r]] = None
    PROVE  TrueWrite
<1>1. user[r] \in Users /\ redis'[user[r]] = rec
  BY DEF TypeOK, SaveVMInfo
<1>2. \A u \in Users \ {user[r]} : redis'[u] = redis[u]
  BY DEF TypeOK, SaveVMInfo
<1>3. CASE rec # None /\ rec.status = "running"
  BY <1>1, <1>2, <1>3 DEF TrueWrite
<1>4. CASE (rec # None => rec.status # "running") /\ instances[user[r]] = None
  BY <1>1, <1>2, <1>4 DEF TrueWrite
<1> QED BY <1>3, <1>4

LEMMA NoWriteIsTrue == ASSUME UNCHANGED redis PROVE TrueWrite
BY DEF TrueWrite

LEMMA WritersAreTrue ==
    ASSUME TypeOK, SerialInv, Saving, NEW r \in Reqs,
           SaveInitial(r) \/ SaveFinal(r) \/ SetVMError(r) \/ SaveStopped(r) \/ DeleteRecord(r)
    PROVE  TrueWrite
<1>1. CASE SaveInitial(r)
  <2>1. pc[r] = "save0" => instances[user[r]] = None
    BY DEF SerialInv, Alone
  <2> QED BY <1>1, <2>1, SaveIsTrue, NoWriteIsTrue DEF SaveInitial, Goto
<1>2. CASE SaveFinal(r)
  <2>1. pc[r] = "save1" => instances[user[r]] = r
    BY DEF Saving
  <2>2. r # None
    BY OrchestratorAssumption
  <2>3. [status |-> "running", ip |-> ip[r]] # None
    BY <2>1, NoneAssumption DEF Records, Statuses, TypeOK
  <2> QED BY <1>2, <2>1, <2>2, <2>3, SaveIsTrue, NoWriteIsTrue DEF SaveFinal, Goto
<1>3. CASE SetVMError(r)
  <2>1. pc[r] = "fail" => instances[user[r]] = None
    BY DEF SerialInv, Alone
  <2> QED BY <1>3, <2>1, SaveIsTrue, NoWriteIsTrue DEF SetVMError, Goto
<1>4. CASE SaveStopped(r)
  <2>1. pc[r] = "save2" => instances[user[r]] = None
    BY DEF SerialInv, Alone
  <2>2. Stopped(info[r]).status = "stopped"
    BY DEF Stopped, TypeOK, Records
  <2> QED BY <1>4, <2>1, <2>2, SaveIsTrue, NoWriteIsTrue DEF SaveStopped, Goto
<1>5. CASE DeleteRecord(r)
  <2>1. pc[r] = "del" => instances[user[r]] = None
    BY DEF SerialInv, Alone
  <2> QED BY <1>5, <2>1, SaveIsTrue, NoWriteIsTrue DEF DeleteRecord, Goto
<1> QED BY <1>1, <1>2, <1>3, <1>4, <1>5

\* The places at which no handler writes to Redis.
LEMMA OthersDoNotWrite ==
    ASSUME NEW r \in Reqs,
           \/ \E o \in Ops : Submit(r, o)
           \/ CheckExists(r) \/ AllocateIP(r)
           \/ StatRootfs(r) \/ StartCopy(r) \/ FinishCopy(r)
           \/ StatData(r) \/ Truncate(r) \/ Mkfs(r)
           \/ CreateTapDevice(r) \/ SetupVMIsolation(r) \/ Launch(r) \/ Unlaunch(r)
           \/ Register(r) \/ Unregister(r) \/ Sigterm(r) \/ WaitExit(r)
           \/ CleanupRules(r) \/ DestroyTapDevice(r) \/ ReleaseAddress(r) \/ ReadInfo(r)
           \/ CheckRunning(r) \/ CleanupStorage(r) \/ Return(r)
           \/ ClientGone(r) \/ CtxKill(r) \/ ProcExit(r)
    PROVE  UNCHANGED redis
<1>1. CASE (\E o \in Ops : Submit(r, o)) \/ CheckExists(r) \/ AllocateIP(r)
  BY <1>1 DEF Submit, CheckExists, AllocateIP
<1>2. CASE StatRootfs(r) \/ StartCopy(r) \/ FinishCopy(r)
  BY <1>2 DEF StatRootfs, StartCopy, FinishCopy
<1>3. CASE StatData(r) \/ Truncate(r) \/ Mkfs(r)
  BY <1>3 DEF StatData, Truncate, Mkfs
<1>4. CASE CreateTapDevice(r) \/ SetupVMIsolation(r) \/ Launch(r) \/ Unlaunch(r)
  BY <1>4 DEF CreateTapDevice, SetupVMIsolation, Launch, Unlaunch
<1>5. CASE Register(r) \/ Unregister(r) \/ Sigterm(r) \/ WaitExit(r)
  BY <1>5 DEF Register, Unregister, Sigterm, WaitExit
<1>6. CASE CleanupRules(r) \/ DestroyTapDevice(r) \/ ReleaseAddress(r) \/ ReadInfo(r)
  BY <1>6 DEF CleanupRules, DestroyTapDevice, ReleaseAddress, ReadInfo
<1>7. CASE CheckRunning(r) \/ CleanupStorage(r) \/ Return(r)
  BY <1>7 DEF CheckRunning, CleanupStorage, Return
<1>8. CASE ClientGone(r) \/ CtxKill(r) \/ ProcExit(r)
  BY <1>8 DEF ClientGone, CtxKill, ProcExit
<1> QED BY <1>1, <1>2, <1>3, <1>4, <1>5, <1>6, <1>7, <1>8

LEMMA WritesAreTrueStep ==
    ASSUME TypeOK, SerialInv, Saving, [Next]_vars
    PROVE  TrueWrite
<1>1. ASSUME NEW r \in Reqs, \/ \E o \in Ops : Submit(r, o)
                             \/ ClientGone(r) \/ CtxKill(r) \/ ProcExit(r)
      PROVE  TrueWrite
  BY <1>1, OthersDoNotWrite, NoWriteIsTrue
<1>2. ASSUME NEW r \in Reqs, HandlerStep(r) PROVE TrueWrite
  BY <1>2, WritersAreTrue, OthersDoNotWrite, NoWriteIsTrue
     DEF HandlerStep, CreateStep, StopStep, DestroyStep
<1>3. CASE Restart
  BY <1>3, NoWriteIsTrue DEF Restart
<1>4. CASE UNCHANGED vars
  BY <1>4, NoWriteIsTrue DEF vars
<1> QED BY <1>1, <1>2, <1>3, <1>4 DEF Next

\* Whatever fails and however often the orchestrator restarts, what its handlers write to
\* Redis is true when it is written, if the requests of one user do not overlap and no VM
\* survives the orchestrator: "running" is only written for the VM that is registered.
THEOREM WritesAreTrueCorrect ==
    ASSUME ~Overlap, NoSurvivors
    PROVE  Spec => WritesAreTrue
<1>1. Init => Saving
  BY DEF Init, Saving
<1>2. TypeOK /\ SerialInv /\ Saving /\ [Next]_vars => Saving'
  BY SavingInductive
<1>3. TypeOK /\ SerialInv /\ Saving /\ [Next]_vars => TrueWrite
  BY WritesAreTrueStep
<1>4. Spec => [][TrueWrite]_vars
  BY <1>1, <1>2, <1>3, TypeCorrect, SerialInvAlways, PTL DEF Spec
<1> QED BY <1>4 DEF WritesAreTrue, TrueWrite

-----------------------------------------------------------------------------
(* The registry *)

RegistryStep == Registry!Next \/ UNCHANGED registered

LEMMA RegisteredIs ==
    /\ registered = [u \in Users |-> IF instances[u] = None THEN None ELSE ip[instances[u]]]
    /\ registered' =
          [u \in Users |-> IF instances'[u] = None THEN None ELSE ip'[instances'[u]]]
BY DEF registered

LEMMA RegistryInit == Init => Registry!Init
BY DEF Init, Registry!Init, registered

LEMMA SameRegistry ==
    ASSUME TypeOK, UNCHANGED <<ip, instances>>
    PROVE  RegistryStep
BY RegisteredIs DEF RegistryStep

\* What a handler gets an address for is registered nowhere yet.
LEMMA AllocateRegistry ==
    ASSUME TypeOK, ProcInv, NEW r \in Reqs, AllocateIP(r)
    PROVE  RegistryStep
<1>1. /\ pc[r] = "alloc" /\ UNCHANGED instances
      /\ \A q \in Reqs \ {r} : ip'[q] = ip[q]
  BY DEF AllocateIP, Goto, TypeOK
<1>2. \A u \in Users : instances[u] # r
  BY <1>1 DEF ProcInv, NotShared, NotYet
<1>3. \A u \in Users : instances[u] # None => ip'[instances[u]] = ip[instances[u]]
  BY <1>1, <1>2 DEF TypeOK
<1> QED BY <1>1, <1>3, RegisteredIs DEF RegistryStep

\* A VM is registered for a user who has none, at an address that is nobody else's.
LEMMA RegisterStarts ==
    ASSUME TypeOK, ProcInv, SerialInv, IPExclusive, NEW r \in Reqs, Register(r)
    PROVE  RegistryStep
<1> DEFINE u == user[r]
<1>1. /\ pc[r] = "register" /\ u \in Users /\ UNCHANGED ip
      /\ instances' = [instances EXCEPT ![u] = r]
  BY DEF Register, Goto, TypeOK
<1>2. instances[u] = None
  BY <1>1 DEF SerialInv, Alone
<1>3. HoldsIP(r) /\ ip[r] \in Addresses
  BY <1>1 DEF HoldsIP, PcRules, IPExclusive
<1>4. ASSUME NEW v \in Users, instances[v] # None
      PROVE  ip[instances[v]] # ip[r]
  <2>1. instances[v] \in Reqs /\ HoldsIP(instances[v])
    BY <1>4 DEF TypeOK, ProcInv, Registered, HoldsIP, Launched
  <2>2. instances[v] # r
    BY <1>1, <1>4 DEF ProcInv, NotShared
  <2> QED BY <1>3, <2>1, <2>2 DEF IPExclusive
<1>5. registered[u] = None /\ \A v \in Users : registered[v] # ip[r]
  BY <1>1, <1>2, <1>3, <1>4, RegisteredIs, NoneAssumption
<1>6. registered' = [registered EXCEPT ![u] = ip[r]]
  BY <1>1, RegisteredIs, OrchestratorAssumption DEF TypeOK
<1>7. Registry!Start(u, ip[r])
  BY <1>5, <1>6 DEF Registry!Start
<1> QED BY <1>1, <1>3, <1>7 DEF RegistryStep, Registry!Next

LEMMA UnregisterStops ==
    ASSUME TypeOK, ProcInv, IPExclusive, NEW r \in Reqs, Unregister(r)
    PROVE  RegistryStep
<1> DEFINE u == user[r]
<1>1. u \in Users /\ UNCHANGED ip
  BY DEF Unregister, TypeOK
<1>2. CASE UNCHANGED instances
  BY <1>1, <1>2, SameRegistry
<1>3. CASE instances[u] # None /\ ForgetInstance(u)
  <2>1. HoldsIP(instances[u]) /\ instances[u] \in Reqs
    BY <1>1, <1>3 DEF TypeOK, ProcInv, Registered, HoldsIP, Launched
  <2>2. registered[u] # None
    BY <1>1, <1>3, <2>1, RegisteredIs, NoneAssumption DEF IPExclusive
  <2>3. registered' = [registered EXCEPT ![u] = None]
    BY <1>1, <1>3, RegisteredIs DEF ForgetInstance, TypeOK
  <2> QED BY <1>1, <2>2, <2>3 DEF RegistryStep, Registry!Next, Registry!Stop
<1> QED BY <1>2, <1>3 DEF Unregister

LEMMA RestartLosesAll ==
    ASSUME Restart
    PROVE  RegistryStep
<1>1. registered' = [u \in Users |-> None]
  BY RegisteredIs DEF Restart
<1> QED BY <1>1 DEF RegistryStep, Registry!Next, Registry!Lose

LEMMA OthersKeepRegistry ==
    ASSUME NEW r \in Reqs,
           \/ \E o \in Ops : Submit(r, o)
           \/ CheckExists(r) \/ SaveInitial(r)
           \/ StatRootfs(r) \/ StartCopy(r) \/ FinishCopy(r)
           \/ StatData(r) \/ Truncate(r) \/ Mkfs(r)
           \/ CreateTapDevice(r) \/ SetupVMIsolation(r) \/ Launch(r) \/ Unlaunch(r)
           \/ SaveFinal(r) \/ SetVMError(r) \/ Sigterm(r) \/ WaitExit(r)
           \/ CleanupRules(r) \/ DestroyTapDevice(r) \/ ReleaseAddress(r)
           \/ ReadInfo(r) \/ SaveStopped(r) \/ DestroyStep(r) \/ Return(r)
           \/ ClientGone(r) \/ CtxKill(r) \/ ProcExit(r)
    PROVE  UNCHANGED <<ip, instances>>
<1>1. CASE (\E o \in Ops : Submit(r, o)) \/ CheckExists(r) \/ SaveInitial(r)
  BY <1>1 DEF Submit, CheckExists, SaveInitial
<1>2. CASE StatRootfs(r) \/ StartCopy(r) \/ FinishCopy(r)
  BY <1>2 DEF StatRootfs, StartCopy, FinishCopy
<1>3. CASE StatData(r) \/ Truncate(r) \/ Mkfs(r)
  BY <1>3 DEF StatData, Truncate, Mkfs
<1>4. CASE CreateTapDevice(r) \/ SetupVMIsolation(r) \/ Launch(r) \/ Unlaunch(r)
  BY <1>4 DEF CreateTapDevice, SetupVMIsolation, Launch, Unlaunch
<1>5. CASE SaveFinal(r) \/ SetVMError(r) \/ Sigterm(r) \/ WaitExit(r)
  BY <1>5 DEF SaveFinal, SetVMError, Sigterm, WaitExit
<1>6. CASE CleanupRules(r) \/ DestroyTapDevice(r) \/ ReleaseAddress(r)
  BY <1>6 DEF CleanupRules, DestroyTapDevice, ReleaseAddress
<1>7. CASE ReadInfo(r) \/ SaveStopped(r) \/ DestroyStep(r) \/ Return(r)
  BY <1>7 DEF ReadInfo, SaveStopped, DestroyStep, CheckRunning, CleanupStorage,
              DeleteRecord, Return
<1>8. CASE ClientGone(r) \/ CtxKill(r) \/ ProcExit(r)
  BY <1>8 DEF ClientGone, CtxKill, ProcExit
<1> QED BY <1>1, <1>2, <1>3, <1>4, <1>5, <1>6, <1>7, <1>8

LEMMA RegistryStepCorrect ==
    ASSUME TypeOK, ProcInv, SerialInv, IPExclusive, [Next]_vars
    PROVE  RegistryStep
<1>1. ASSUME NEW r \in Reqs, \/ \E o \in Ops : Submit(r, o)
                             \/ ClientGone(r) \/ CtxKill(r) \/ ProcExit(r)
      PROVE  RegistryStep
  BY <1>1, OthersKeepRegistry, SameRegistry
<1>2. ASSUME NEW r \in Reqs, HandlerStep(r) PROVE RegistryStep
  BY <1>2, OthersKeepRegistry, SameRegistry, AllocateRegistry, RegisterStarts,
     UnregisterStops
     DEF HandlerStep, CreateStep, StopStep
<1>3. CASE UNCHANGED vars
  BY <1>3, SameRegistry DEF vars
<1> QED BY <1>1, <1>2, <1>3, RestartLosesAll DEF Next

\* The orchestrator implements the registry, whatever fails and however often it restarts,
\* if the requests of one user do not overlap and no VM survives it: a user's VM is never
\* put in the place of another, and no two users' VMs have one address.
THEOREM RegistryCorrect ==
    ASSUME ~Overlap, NoSurvivors
    PROVE  Spec => RegistrySpec
<1>1. TypeOK /\ ProcInv /\ SerialInv /\ IPExclusive /\ [Next]_vars
        => [Registry!Next]_registered
  BY RegistryStepCorrect DEF RegistryStep
<1> QED
  BY <1>1, RegistryInit, ProcInvAlways, SerialInvAlways, IPExclusiveCorrect, PTL
  DEF Spec, RegistrySpec, Registry!Spec

=============================================================================
