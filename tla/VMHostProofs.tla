----------------------------- MODULE VMHostProofs -----------------------------
(***************************************************************************)
(* Theorems about what the orchestrator leaves on the host for its VMs:    *)
(* TAP devices and FORWARD rules.  They rest on ProcInv and IPExclusive.   *)
(***************************************************************************)
EXTENDS VMOrchestratorProofs

USE DEF netVars, diskVars, vmVars, idVars, ownVars

-----------------------------------------------------------------------------
(* TAP devices *)

WithTap == PcTap \cup PcRules
Untapping == {"unrule", "untap"}

LEMMA WithTapDef == WithTap = {"isolate", "launch", "unlaunch", "register"}
BY DEF WithTap, PcTap, PcRules

LEMMA HoldsTapDef ==
    ASSUME NEW q \in Reqs
    PROVE  HoldsTap(q) <=> \/ pc[q] \in WithTap \/ Launched(q)
                           \/ \E s \in Reqs : target[s] = q /\ pc[s] \in Untapping
BY DEF HoldsTap, WithTap, Stopping, Untapping

\* A device that is held was made in this life of the orchestrator: its number is spent.
TapInv ==
    /\ TapExclusive
    /\ \A r \in Reqs : HoldsTap(r) => tap[r] < nextIdx

\* Nothing new is held, and no device goes.
LEMMA KeepTap ==
    ASSUME TypeOK, TapInv, UNCHANGED <<tap, taps, nextIdx>>,
           \A q \in Reqs : HoldsTap(q)' => HoldsTap(q)
    PROVE  TapInv'
BY DEF TapInv, TapExclusive, TypeOK

\* The device of one holder goes, and nobody else had it.
LEMMA FreeTap ==
    ASSUME TypeOK, TapInv, NEW t \in Reqs, HoldsTap(t), taps' = taps \ {tap[t]},
           UNCHANGED <<tap, nextIdx>>,
           \A q \in Reqs : HoldsTap(q)' => HoldsTap(q) /\ q # t
    PROVE  TapInv'
<1> SUFFICES ASSUME NEW q \in Reqs, HoldsTap(q)'
             PROVE  /\ tap[q] \in taps'
                    /\ \A s \in Reqs \ {q} : HoldsTap(s)' => tap[s] # tap[q]
                    /\ tap[q] < nextIdx
  BY DEF TapInv, TapExclusive
<1>1. HoldsTap(q) /\ q # t
  OBVIOUS
<1>2. tap[q] \in taps /\ tap[t] # tap[q] /\ tap[q] < nextIdx
  BY <1>1 DEF TapInv, TapExclusive
<1> QED BY <1>1, <1>2 DEF TapInv, TapExclusive

LEMMA MoveTaps ==
    ASSUME TypeOK, NEW r \in Reqs, NEW from, NEW to, Goto(r, from, to),
           to \in WithTap => from \in WithTap, to \in Untapping => from \in Untapping,
           UNCHANGED <<target, procs>>
    PROVE  \A q \in Reqs : HoldsTap(q)' => HoldsTap(q)
<1>1. \A s \in Reqs : /\ pc'[s] \in WithTap => pc[s] \in WithTap
                      /\ pc'[s] \in Untapping => pc[s] \in Untapping
  BY DEF Goto, TypeOK
<1> QED BY <1>1 DEF HoldsTap, Launched, Stopping, WithTap, Untapping

\* The steps that move a handler and leave the devices alone.
LEMMA MoveTapSteps ==
    ASSUME TypeOK, TapInv, NEW r \in Reqs,
           \/ \E o \in Ops : Submit(r, o)
           \/ CheckExists(r) \/ SaveInitial(r) \/ AllocateIP(r) \/ StatRootfs(r)
           \/ StartCopy(r) \/ FinishCopy(r) \/ StatData(r) \/ Truncate(r) \/ Mkfs(r)
           \/ Register(r) \/ SaveFinal(r) \/ SetVMError(r)
           \/ CleanupRules(r) \/ ReleaseAddress(r)
           \/ ReadInfo(r) \/ SaveStopped(r) \/ DestroyStep(r) \/ Return(r)
    PROVE  TapInv'
<1> SUFFICES /\ UNCHANGED <<tap, taps, nextIdx, target, procs>>
             /\ \E from, to \in Pcs : /\ Goto(r, from, to)
                                      /\ to \in WithTap => from \in WithTap
                                      /\ to \in Untapping => from \in Untapping
  BY MoveTaps, KeepTap
<1> USE PcsDef, WithTapDef DEF Untapping
<1> AfterStop(r) \in {"rmstore", "return"}
  BY DEF AfterStop
<1>1. CASE \E o \in Ops : Submit(r, o)
  BY <1>1 DEF Submit, First, Ops
<1>2. CASE CheckExists(r) \/ SaveInitial(r) \/ AllocateIP(r) \/ StatRootfs(r) \/ StartCopy(r)
  BY <1>2 DEF CheckExists, SaveInitial, AllocateIP, StatRootfs, StartCopy
<1>3. CASE FinishCopy(r) \/ StatData(r) \/ Truncate(r) \/ Mkfs(r)
  BY <1>3 DEF FinishCopy, StatData, Truncate, Mkfs
<1>4. CASE Register(r) \/ SaveFinal(r) \/ SetVMError(r)
  BY <1>4 DEF Register, SaveFinal, SetVMError
<1>5. CASE CleanupRules(r) \/ ReleaseAddress(r)
  BY <1>5 DEF CleanupRules, ReleaseAddress
<1>6. CASE ReadInfo(r) \/ SaveStopped(r)
  BY <1>6 DEF ReadInfo, SaveStopped
<1>7. CASE DestroyStep(r) \/ Return(r)
  BY <1>7 DEF DestroyStep, CheckRunning, CleanupStorage, DeleteRecord, Return
<1> QED BY <1>1, <1>2, <1>3, <1>4, <1>5, <1>6, <1>7

\* A create request that fails after its device was made deletes it.
LEMMA FailFreesTap ==
    ASSUME TypeOK, ProcInv, TapInv, NEW r \in Reqs, NEW from \in {"isolate", "unlaunch"},
           Goto(r, from, "fail"), taps' = taps \ {tap[r]},
           UNCHANGED <<tap, nextIdx, target, procs>>
    PROVE  TapInv'
<1>1. pc[r] = from /\ pc'[r] = "fail"
  BY DEF Goto, TypeOK
<1>2. HoldsTap(r)
  BY <1>1, HoldsTapDef, WithTapDef
<1>3. procs[r] = "none" /\ \A s \in Reqs : target[s] # r
  BY <1>1 DEF ProcInv, NotLaunched, NotShared, NotYet
<1>4. ~HoldsTap(r)'
  BY <1>1, <1>3 DEF HoldsTap, Launched, Stopping, PcTap, PcRules
<1>5. \A q \in Reqs : HoldsTap(q)' => HoldsTap(q)
  BY MoveTaps, WithTapDef DEF Untapping
<1> QED BY <1>2, <1>4, <1>5, FreeTap

\* A number that was never given out is that of no device held; if there is a device of
\* that name, it is left from an earlier life.
LEMMA CreateTapKeeps ==
    ASSUME TypeOK, ProcInv, TapInv, NEW r \in Reqs, CreateTapDevice(r)
    PROVE  TapInv'
<1>1. /\ nextIdx \in Nat /\ nextIdx' = nextIdx + 1 /\ UNCHANGED <<target, procs>>
      /\ pc[r] = "tap" /\ \A q \in Reqs \ {r} : pc'[q] = pc[q]
      /\ pc'[r] \in {"isolate", "fail"}
      /\ \A q \in Reqs : tap[q] \in Nat
  BY DEF CreateTapDevice, TakeIndex, TypeOK, Goto
<1>2. \A q \in Reqs \ {r} : HoldsTap(q)' => HoldsTap(q)
  BY <1>1 DEF HoldsTap, Launched, Stopping, PcTap, PcRules
<1>3. procs[r] = "none" /\ \A s \in Reqs : target[s] # r
  BY <1>1 DEF ProcInv, NotLaunched, NotShared, NotYet
<1>4. \A q \in Reqs : HoldsTap(q) => tap[q] < nextIdx'
  BY <1>1 DEF TapInv
<1>5. CASE Goto(r, "tap", "isolate") /\ taps' = taps \cup {nextIdx}
           /\ tap' = [tap EXCEPT ![r] = nextIdx]
  <2>1. tap'[r] = nextIdx /\ \A q \in Reqs \ {r} : tap'[q] = tap[q]
    BY <1>5 DEF TypeOK
  <2>2. \A q \in Reqs \ {r} : HoldsTap(q)' =>
            /\ tap'[q] \in taps' /\ tap'[q] # tap'[r] /\ tap'[q] < nextIdx'
            /\ \A s \in Reqs \ {r, q} : HoldsTap(s)' => tap'[s] # tap'[q]
    <3> SUFFICES ASSUME NEW q \in Reqs \ {r}, HoldsTap(q)'
                 PROVE  /\ tap'[q] \in taps' /\ tap'[q] # tap'[r] /\ tap'[q] < nextIdx'
                        /\ \A s \in Reqs \ {r, q} : HoldsTap(s)' => tap'[s] # tap'[q]
      OBVIOUS
    <3>1. HoldsTap(q) /\ tap[q] \in taps /\ tap[q] < nextIdx
      BY <1>2 DEF TapInv, TapExclusive
    <3>2. tap[q] # nextIdx
      BY <1>1, <3>1
    <3>3. \A s \in Reqs \ {r, q} : HoldsTap(s)' => tap'[s] # tap'[q]
      BY <1>2, <2>1, <3>1 DEF TapInv, TapExclusive
    <3> QED BY <1>4, <1>5, <2>1, <3>1, <3>2, <3>3
  <2>3. tap'[r] \in taps' /\ tap'[r] < nextIdx'
    BY <1>1, <1>5, <2>1
  <2>4. TapExclusive'
    BY <2>2, <2>3 DEF TapExclusive
  <2> QED BY <2>2, <2>3, <2>4 DEF TapInv
<1>6. CASE Goto(r, "tap", "fail") /\ taps' = taps \ {nextIdx} /\ tap' = tap
  <2>1. pc'[r] = "fail"
    BY <1>6 DEF Goto, TypeOK
  <2>2. ~HoldsTap(r)'
    BY <1>1, <1>3, <2>1 DEF HoldsTap, Launched, Stopping, PcTap, PcRules
  <2>3. \A q \in Reqs : HoldsTap(q)' => HoldsTap(q)
    BY <1>2, <2>2
  <2>4. \A q \in Reqs : HoldsTap(q) => tap[q] \in taps'
    BY <1>1, <1>6 DEF TapInv, TapExclusive
  <2> QED BY <1>4, <1>6, <2>3, <2>4 DEF TapInv, TapExclusive
<1> QED BY <1>5, <1>6 DEF CreateTapDevice

LEMMA IsolateKeepsTap ==
    ASSUME TypeOK, ProcInv, TapInv, NEW r \in Reqs, SetupVMIsolation(r) \/ Unlaunch(r)
    PROVE  TapInv'
<1>1. CASE \E from \in {"isolate", "unlaunch"} :
              Goto(r, from, "fail") /\ taps' = taps \ {tap[r]}
              /\ UNCHANGED <<tap, nextIdx, target, procs>>
  BY <1>1, FailFreesTap
<1>2. CASE Goto(r, "isolate", "launch") /\ UNCHANGED <<tap, taps, nextIdx, target, procs>>
  BY <1>2, MoveTaps, KeepTap, WithTapDef DEF Untapping
<1> QED BY <1>1, <1>2 DEF SetupVMIsolation, Unlaunch

\* A launch, and every way a process changes, keep who holds what.
LEMMA ProcessKeepsTap ==
    ASSUME TypeOK, ProcInv, TapInv, NEW r \in Reqs,
           Launch(r) \/ Unregister(r) \/ Sigterm(r) \/ WaitExit(r) \/ CtxKill(r) \/ ProcExit(r)
    PROVE  TapInv'
<1>1. UNCHANGED <<tap, taps, nextIdx>>
  BY DEF Launch, Unregister, Sigterm, WaitExit, CtxKill, ProcExit
<1> SUFFICES \A q \in Reqs : HoldsTap(q)' => HoldsTap(q)
  BY <1>1, KeepTap
<1>2. CASE Launch(r)
  <2>1. /\ pc[r] = "launch"
        /\ \A q \in Reqs \ {r} : pc'[q] = pc[q] /\ procs'[q] = procs[q]
        /\ pc'[r] \notin Untapping /\ UNCHANGED target
    BY <1>2 DEF Launch, Goto, TypeOK, Untapping
  <2>2. HoldsTap(r)
    BY <2>1, WithTapDef, HoldsTapDef
  <2> QED BY <2>1, <2>2 DEF HoldsTap, Launched, Stopping, Untapping
<1>3. CASE Unregister(r)
  <2>1. /\ \A q \in Reqs \ {r} : pc'[q] = pc[q] /\ target'[q] = target[q]
        /\ pc'[r] \notin WithTap \cup Untapping
        /\ UNCHANGED procs
    BY <1>3, WithTapDef DEF Unregister, Goto, AfterStop, TypeOK, Untapping
  <2> QED BY <2>1 DEF HoldsTap, Launched, Stopping, Untapping, WithTap
<1>4. CASE Sigterm(r)
  <2>1. /\ \A q \in Reqs : Launched(q)' => Launched(q)
        /\ \A q \in Reqs : pc'[q] \in WithTap \cup Untapping => pc'[q] = pc[q]
        /\ UNCHANGED target
    BY <1>4, WithTapDef DEF Sigterm, Goto, TypeOK, Untapping, Launched
  <2> QED BY <2>1 DEF HoldsTap, Stopping, Untapping, WithTap
<1>5. CASE WaitExit(r)
  <2>1. /\ target[r] \in Reqs /\ procs[target[r]] = "zombie"
        /\ \A q \in Reqs : Launched(q)' => Launched(q)
        /\ \A q \in Reqs \ {r} : pc'[q] = pc[q]
        /\ pc'[r] = "unrule"
        /\ UNCHANGED target
    BY <1>5 DEF WaitExit, Goto, TypeOK, Launched, ProcInv, StopTargets, Awaiting
  <2>2. HoldsTap(target[r])
    BY <2>1 DEF HoldsTap, Launched
  <2> QED BY <2>1, <2>2, WithTapDef DEF HoldsTap, Stopping, Untapping, WithTap
<1>6. CASE CtxKill(r) \/ ProcExit(r)
  <2>1. /\ \A q \in Reqs : Launched(q)' => Launched(q)
        /\ UNCHANGED <<pc, target>>
    BY <1>6 DEF CtxKill, ProcExit, TypeOK, Launched
  <2> QED BY <2>1 DEF HoldsTap, Stopping
<1> QED BY <1>2, <1>3, <1>4, <1>5, <1>6

\* The stop that reaped a process deletes its device, and is the last to hold it.
LEMMA DestroyTapKeeps ==
    ASSUME TypeOK, ProcInv, TapInv, NEW r \in Reqs, DestroyTapDevice(r)
    PROVE  TapInv'
<1> DEFINE t == target[r]
<1>1. /\ pc[r] = "untap" /\ pc'[r] = "release"
      /\ \A q \in Reqs \ {r} : pc'[q] = pc[q]
      /\ Goto(r, "untap", "release")
      /\ taps' = taps \ {tap[t]}
      /\ UNCHANGED <<tap, nextIdx, target, procs>>
  BY DEF DestroyTapDevice, Goto, TypeOK
<1>2. t \in Reqs /\ procs[t] = "reaped" /\ HoldsTap(t)
  BY <1>1 DEF ProcInv, StopTargets, Cleaning, TypeOK, HoldsTap, Stopping
<1>3. pc[t] \notin WithTap
  BY <1>2, WithTapDef DEF ProcInv, NotShared, NotYet
<1>4. \A s \in Reqs \ {r} : target[s] # t
  BY <1>2, OrchestratorAssumption DEF ProcInv, OneTaker
<1>5. \A q \in Reqs : HoldsTap(q)' => HoldsTap(q)
  BY <1>1, MoveTaps, WithTapDef DEF Untapping
<1>6. pc'[t] \notin WithTap
  BY <1>1, <1>2, <1>3, WithTapDef
<1>7. ~HoldsTap(t)'
  BY <1>1, <1>2, <1>4, <1>6 DEF HoldsTap, Launched, Stopping, WithTap
<1> QED BY <1>1, <1>2, <1>5, <1>7, FreeTap

LEMMA RestartKeepsTap ==
    ASSUME ~SurvivesRestart, TypeOK, Restart
    PROVE  TapInv'
<1>1. \A r \in Reqs : pc'[r] \in {"idle", "done"}
  BY DEF Restart, Active, TypeOK
<1>2. \A r \in Reqs : procs'[r] \in {"none", "reaped"}
  BY DEF Restart
<1>3. \A r \in Reqs : ~HoldsTap(r)'
  BY <1>1, <1>2 DEF HoldsTap, Launched, Stopping, PcTap, PcRules
<1> QED BY <1>3 DEF TapInv, TapExclusive

LEMMA StutterKeepsTap ==
    ASSUME TypeOK, TapInv, UNCHANGED <<pc, tap, taps, nextIdx, target, procs>>
    PROVE  TapInv'
BY KeepTap DEF HoldsTap, Launched, Stopping

LEMMA TapInvInductive ==
    ASSUME NoSurvivors, TypeOK, ProcInv, TapInv, [Next]_vars
    PROVE  TapInv'
<1>1. ASSUME NEW r \in Reqs, \E o \in Ops : Submit(r, o) PROVE TapInv'
  BY <1>1, MoveTapSteps
<1>2. ASSUME NEW r \in Reqs, CreateStep(r) PROVE TapInv'
  BY <1>2, MoveTapSteps, CreateTapKeeps, IsolateKeepsTap, ProcessKeepsTap DEF CreateStep
<1>3. ASSUME NEW r \in Reqs, StopStep(r) PROVE TapInv'
  BY <1>3, MoveTapSteps, ProcessKeepsTap, DestroyTapKeeps DEF StopStep
<1>4. ASSUME NEW r \in Reqs, DestroyStep(r) \/ Return(r) PROVE TapInv'
  BY <1>4, MoveTapSteps
<1>5. ASSUME NEW r \in Reqs, ClientGone(r) PROVE TapInv'
  BY <1>5, StutterKeepsTap DEF ClientGone
<1>6. CASE UNCHANGED vars
  BY <1>6, StutterKeepsTap DEF vars
<1> QED
  BY <1>1, <1>2, <1>3, <1>4, <1>5, <1>6, ProcessKeepsTap, RestartKeepsTap, RestartKills
  DEF Next, HandlerStep

LEMMA TapInvAlways ==
    ASSUME NoSurvivors
    PROVE  Spec => []TapInv
<1>1. Init => TapInv
  BY DEF Init, TapInv, TapExclusive, HoldsTap, Launched, Stopping, PcTap, PcRules
<1>2. TypeOK /\ ProcInv /\ TapInv /\ [Next]_vars => TapInv'
  BY TapInvInductive
<1> QED BY <1>1, <1>2, ProcInvAlways, PTL DEF Spec

\* Every VM has its TAP device, and no other's, from the moment it is made until the stop
\* deletes it, if no VM survives the orchestrator: nextIdx starts again after a
\* restart, when the devices of the last life are nobody's.
THEOREM TapExclusiveCorrect ==
    ASSUME NoSurvivors
    PROVE  Spec => []TapExclusive
<1>1. TapInv => TapExclusive
  BY DEF TapInv
<1> QED BY <1>1, TapInvAlways, PTL

-----------------------------------------------------------------------------
(* FORWARD rules *)

\* Who needs the DROP rule of its address.
HoldsRule(r) == pc[r] \in PcRules \/ Launched(r) \/ Stopping(r, {"unrule"})

RuleInv == \A r \in Reqs : HoldsRule(r) => rules[ip[r]]["drop"] > 0

LEMMA RulesNeedIP == ASSUME NEW q \in Reqs, HoldsRule(q) PROVE HoldsIP(q)
BY DEF HoldsRule, HoldsIP, Stopping

LEMMA PcRulesDef == PcRules = {"launch", "unlaunch", "register"}
BY DEF PcRules

\* Nothing new is held, and the rules held lose nothing.
LEMMA KeepRule ==
    ASSUME RuleInv,
           \A q \in Reqs : HoldsRule(q)' => /\ HoldsRule(q) /\ ip'[q] = ip[q]
                                           /\ rules'[ip[q]] = rules[ip[q]]
    PROVE  RuleInv'
<1> SUFFICES ASSUME NEW q \in Reqs, HoldsRule(q)' PROVE rules'[ip'[q]]["drop"] > 0
  BY DEF RuleInv
<1>1. HoldsRule(q) /\ ip'[q] = ip[q] /\ rules'[ip[q]] = rules[ip[q]]
  OBVIOUS
<1> QED BY <1>1 DEF RuleInv

LEMMA MoveRules ==
    ASSUME TypeOK, NEW r \in Reqs, NEW from, NEW to, Goto(r, from, to),
           to \in PcRules => from \in PcRules, to = "unrule" => from = "unrule",
           UNCHANGED <<target, procs>>
    PROVE  \A q \in Reqs : HoldsRule(q)' => HoldsRule(q)
<1>1. \A s \in Reqs : /\ pc'[s] \in PcRules => pc[s] \in PcRules
                      /\ pc'[s] = "unrule" => pc[s] = "unrule"
  BY DEF Goto, TypeOK
<1> QED BY <1>1 DEF HoldsRule, Launched, Stopping

\* The steps that move a handler and leave the rules alone.
LEMMA MoveRuleSteps ==
    ASSUME TypeOK, RuleInv, NEW r \in Reqs,
           \/ \E o \in Ops : Submit(r, o)
           \/ CheckExists(r) \/ SaveInitial(r) \/ StatRootfs(r)
           \/ StartCopy(r) \/ FinishCopy(r) \/ StatData(r) \/ Truncate(r) \/ Mkfs(r)
           \/ CreateTapDevice(r) \/ Register(r) \/ SaveFinal(r) \/ SetVMError(r)
           \/ DestroyTapDevice(r) \/ ReleaseAddress(r)
           \/ ReadInfo(r) \/ SaveStopped(r) \/ DestroyStep(r) \/ Return(r)
    PROVE  RuleInv'
<1> SUFFICES /\ UNCHANGED <<ip, rules, target, procs>>
             /\ \E from, to \in Pcs : /\ Goto(r, from, to)
                                      /\ to \in PcRules => from \in PcRules
                                      /\ to = "unrule" => from = "unrule"
  BY MoveRules, KeepRule
<1> USE PcsDef, PcRulesDef
<1> AfterStop(r) \in {"rmstore", "return"}
  BY DEF AfterStop
<1>1. CASE \E o \in Ops : Submit(r, o)
  BY <1>1 DEF Submit, First, Ops
<1>2. CASE CheckExists(r) \/ SaveInitial(r) \/ StatRootfs(r) \/ StartCopy(r)
  BY <1>2 DEF CheckExists, SaveInitial, StatRootfs, StartCopy
<1>3. CASE FinishCopy(r) \/ StatData(r) \/ Truncate(r) \/ Mkfs(r)
  BY <1>3 DEF FinishCopy, StatData, Truncate, Mkfs
<1>4. CASE CreateTapDevice(r) \/ Register(r) \/ SaveFinal(r) \/ SetVMError(r)
  BY <1>4 DEF CreateTapDevice, Register, SaveFinal, SetVMError
<1>5. CASE DestroyTapDevice(r) \/ ReleaseAddress(r)
  BY <1>5 DEF DestroyTapDevice, ReleaseAddress
<1>6. CASE ReadInfo(r) \/ SaveStopped(r)
  BY <1>6 DEF ReadInfo, SaveStopped
<1>7. CASE DestroyStep(r) \/ Return(r)
  BY <1>7 DEF DestroyStep, CheckRunning, CleanupStorage, DeleteRecord, Return
<1> QED BY <1>1, <1>2, <1>3, <1>4, <1>5, <1>6, <1>7

\* An address is given to a request that holds no rules yet.
LEMMA AllocateKeepsRule ==
    ASSUME TypeOK, ProcInv, RuleInv, NEW r \in Reqs, AllocateIP(r)
    PROVE  RuleInv'
<1>1. /\ pc[r] = "alloc" /\ pc'[r] \in {"stat", "fail"} /\ UNCHANGED <<rules, target, procs>>
      /\ \A q \in Reqs \ {r} : pc'[q] = pc[q] /\ ip'[q] = ip[q]
  BY DEF AllocateIP, Goto, TypeOK
<1>2. procs[r] = "none" /\ \A s \in Reqs : target[s] # r
  BY <1>1 DEF ProcInv, NotLaunched, NotShared, NotYet
<1>3. ~HoldsRule(r)'
  BY <1>1, <1>2, PcRulesDef DEF HoldsRule, Launched, Stopping
<1>4. \A q \in Reqs \ {r} : HoldsRule(q)' => HoldsRule(q)
  BY <1>1 DEF HoldsRule, Launched, Stopping
<1> QED BY <1>1, <1>3, <1>4, KeepRule

LEMMA SetupKeepsRule ==
    ASSUME TypeOK, ProcInv, IPExclusive, RuleInv, NEW r \in Reqs, SetupVMIsolation(r)
    PROVE  RuleInv'
<1>1. /\ pc[r] = "isolate" /\ UNCHANGED <<ip, target, procs>>
      /\ pc'[r] \in {"launch", "fail"} /\ \A q \in Reqs \ {r} : pc'[q] = pc[q]
      /\ \E kinds : AddRules(ip[r], kinds) /\ (pc'[r] = "launch" => kinds = RuleKinds)
  BY DEF SetupVMIsolation, Goto, TypeOK
<1>2. ip[r] \in Addresses /\ \A q \in Reqs \ {r} : HoldsIP(q) => ip[q] # ip[r]
  <2>1. HoldsIP(r)
    BY <1>1 DEF HoldsIP, PcTap
  <2> QED BY <2>1 DEF IPExclusive
<1>3. \A q \in Reqs \ {r} : HoldsRule(q)' => HoldsRule(q)
  BY <1>1 DEF HoldsRule, Launched, Stopping
<1>4. procs[r] = "none" /\ \A s \in Reqs : target[s] # r
  BY <1>1 DEF ProcInv, NotLaunched, NotShared, NotYet
<1>5. HoldsRule(r)' => pc'[r] = "launch"
  BY <1>1, <1>4, PcRulesDef DEF HoldsRule, Launched, Stopping
<1>6. ASSUME HoldsRule(r)' PROVE rules'[ip'[r]]["drop"] > 0
  <2>1. AddRules(ip[r], RuleKinds)
    BY <1>1, <1>5, <1>6
  <2>2. rules[ip[r]]["drop"] \in Nat /\ "drop" \in RuleKinds
    BY <1>2 DEF TypeOK, RuleKinds
  <2>3. rules'[ip[r]]["drop"] = rules[ip[r]]["drop"] + 1
    BY <1>2, <2>1, <2>2 DEF AddRules, TypeOK
  <2> QED BY <1>1, <2>2, <2>3
<1>7. ASSUME NEW q \in Reqs \ {r}, HoldsRule(q)' PROVE rules'[ip'[q]]["drop"] > 0
  <2>1. HoldsRule(q) /\ ip[q] # ip[r]
    BY <1>2, <1>3, <1>7, RulesNeedIP
  <2>2. rules'[ip[q]] = rules[ip[q]]
    <3>1. ip[q] \in Addresses
      BY <2>1, RulesNeedIP DEF IPExclusive
    <3> QED BY <1>1, <2>1, <3>1 DEF AddRules, TypeOK
  <2> QED BY <1>1, <2>1, <2>2 DEF RuleInv
<1> QED BY <1>6, <1>7 DEF RuleInv

\* A cleanup of the rules of one address takes nothing from the others.
LEMMA CleanupKeepsRule ==
    ASSUME TypeOK, IPExclusive, RuleInv, NEW t \in Reqs, HoldsIP(t), DeleteRules(ip[t]),
           UNCHANGED ip,
           \A q \in Reqs : HoldsRule(q)' => HoldsRule(q) /\ q # t
    PROVE  RuleInv'
<1>1. ASSUME NEW q \in Reqs, HoldsRule(q)' PROVE rules'[ip[q]] = rules[ip[q]]
  <2>1. HoldsIP(q) /\ q # t
    BY <1>1, RulesNeedIP
  <2>2. ip[q] \in Addresses /\ ip[q] # ip[t]
    BY <2>1 DEF IPExclusive
  <2> QED BY <2>2 DEF DeleteRules, TypeOK
<1> QED BY <1>1, KeepRule

LEMMA UnlaunchKeepsRule ==
    ASSUME TypeOK, ProcInv, IPExclusive, RuleInv, NEW r \in Reqs, Unlaunch(r)
    PROVE  RuleInv'
<1>1. /\ pc[r] = "unlaunch" /\ pc'[r] = "fail" /\ DeleteRules(ip[r])
      /\ UNCHANGED <<ip, target, procs>> /\ \A q \in Reqs \ {r} : pc'[q] = pc[q]
  BY DEF Unlaunch, Goto, TypeOK
<1>2. procs[r] = "none" /\ \A s \in Reqs : target[s] # r
  BY <1>1 DEF ProcInv, NotLaunched, NotShared, NotYet
<1>3. ~HoldsRule(r)'
  BY <1>1, <1>2, PcRulesDef DEF HoldsRule, Launched, Stopping
<1>4. \A q \in Reqs \ {r} : HoldsRule(q)' => HoldsRule(q)
  BY <1>1 DEF HoldsRule, Launched, Stopping
<1>5. HoldsIP(r)
  BY <1>1, PcRulesDef DEF HoldsIP
<1> QED BY <1>1, <1>3, <1>4, <1>5, CleanupKeepsRule

LEMMA CleanupRulesKeeps ==
    ASSUME TypeOK, ProcInv, IPExclusive, RuleInv, NEW r \in Reqs, CleanupRules(r)
    PROVE  RuleInv'
<1> DEFINE t == target[r]
<1>1. /\ pc[r] = "unrule" /\ pc'[r] = "untap" /\ DeleteRules(ip[t])
      /\ UNCHANGED <<ip, target, procs>> /\ \A q \in Reqs \ {r} : pc'[q] = pc[q]
  BY DEF CleanupRules, Goto, TypeOK
<1>2. t \in Reqs /\ procs[t] = "reaped" /\ HoldsIP(t)
  BY <1>1 DEF ProcInv, StopTargets, Cleaning, TypeOK, HoldsIP, Stopping
<1>3. pc[t] \notin PcRules
  BY <1>2, PcRulesDef DEF ProcInv, NotShared, NotYet
<1>4. \A s \in Reqs \ {r} : target[s] # t
  BY <1>2, OrchestratorAssumption DEF ProcInv, OneTaker
<1>5. pc'[t] \notin PcRules
  BY <1>1, <1>2, <1>3, PcRulesDef
<1>6. ~HoldsRule(t)'
  BY <1>1, <1>2, <1>4, <1>5 DEF HoldsRule, Launched, Stopping
<1>7. \A q \in Reqs : HoldsRule(q)' => HoldsRule(q)
  BY <1>1, PcRulesDef DEF HoldsRule, Launched, Stopping
<1> QED BY <1>1, <1>2, <1>6, <1>7, CleanupKeepsRule

LEMMA ProcessKeepsRule ==
    ASSUME TypeOK, ProcInv, RuleInv, NEW r \in Reqs,
           Launch(r) \/ Unregister(r) \/ Sigterm(r) \/ WaitExit(r) \/ CtxKill(r) \/ ProcExit(r)
    PROVE  RuleInv'
<1>1. UNCHANGED <<ip, rules>>
  BY DEF Launch, Unregister, Sigterm, WaitExit, CtxKill, ProcExit
<1> SUFFICES \A q \in Reqs : HoldsRule(q)' => HoldsRule(q)
  BY <1>1, KeepRule
<1>2. CASE Launch(r)
  <2>1. /\ pc[r] = "launch"
        /\ \A q \in Reqs \ {r} : pc'[q] = pc[q] /\ procs'[q] = procs[q]
        /\ pc'[r] # "unrule" /\ UNCHANGED target
    BY <1>2 DEF Launch, Goto, TypeOK
  <2>2. HoldsRule(r)
    BY <2>1, PcRulesDef DEF HoldsRule
  <2> QED BY <2>1, <2>2 DEF HoldsRule, Launched, Stopping
<1>3. CASE Unregister(r)
  <2>1. /\ \A q \in Reqs \ {r} : pc'[q] = pc[q] /\ target'[q] = target[q]
        /\ pc'[r] \notin PcRules \cup {"unrule"}
        /\ UNCHANGED procs
    BY <1>3, PcRulesDef DEF Unregister, Goto, AfterStop, TypeOK
  <2> QED BY <2>1 DEF HoldsRule, Launched, Stopping
<1>4. CASE Sigterm(r)
  <2>1. /\ \A q \in Reqs : Launched(q)' => Launched(q)
        /\ \A q \in Reqs : pc'[q] \in PcRules \cup {"unrule"} => pc'[q] = pc[q]
        /\ UNCHANGED target
    BY <1>4, PcRulesDef DEF Sigterm, Goto, TypeOK, Launched
  <2> QED BY <2>1 DEF HoldsRule, Stopping
<1>5. CASE WaitExit(r)
  <2>1. /\ target[r] \in Reqs /\ procs[target[r]] = "zombie"
        /\ \A q \in Reqs : Launched(q)' => Launched(q)
        /\ \A q \in Reqs \ {r} : pc'[q] = pc[q]
        /\ pc'[r] = "unrule"
        /\ UNCHANGED target
    BY <1>5 DEF WaitExit, Goto, TypeOK, Launched, ProcInv, StopTargets, Awaiting
  <2>2. HoldsRule(target[r])
    BY <2>1 DEF HoldsRule, Launched
  <2> QED BY <2>1, <2>2, PcRulesDef DEF HoldsRule, Stopping
<1>6. CASE CtxKill(r) \/ ProcExit(r)
  <2>1. /\ \A q \in Reqs : Launched(q)' => Launched(q)
        /\ UNCHANGED <<pc, target>>
    BY <1>6 DEF CtxKill, ProcExit, TypeOK, Launched
  <2> QED BY <2>1 DEF HoldsRule, Stopping
<1> QED BY <1>2, <1>3, <1>4, <1>5, <1>6

LEMMA RestartKeepsRule ==
    ASSUME ~SurvivesRestart, TypeOK, Restart
    PROVE  RuleInv'
<1>1. \A r \in Reqs : pc'[r] \in {"idle", "done"}
  BY DEF Restart, Active, TypeOK
<1>2. \A r \in Reqs : procs'[r] \in {"none", "reaped"}
  BY DEF Restart
<1>3. \A r \in Reqs : ~HoldsRule(r)'
  BY <1>1, <1>2, PcRulesDef DEF HoldsRule, Launched, Stopping
<1> QED BY <1>3 DEF RuleInv

LEMMA StutterKeepsRule ==
    ASSUME RuleInv, UNCHANGED <<pc, ip, rules, target, procs>>
    PROVE  RuleInv'
BY DEF RuleInv, HoldsRule, Launched, Stopping

LEMMA RuleInvInductive ==
    ASSUME NoSurvivors, TypeOK, ProcInv, IPExclusive, RuleInv, [Next]_vars
    PROVE  RuleInv'
<1>1. ASSUME NEW r \in Reqs, \E o \in Ops : Submit(r, o) PROVE RuleInv'
  BY <1>1, MoveRuleSteps
<1>2. ASSUME NEW r \in Reqs, CreateStep(r) PROVE RuleInv'
  BY <1>2, MoveRuleSteps, AllocateKeepsRule, SetupKeepsRule, UnlaunchKeepsRule, ProcessKeepsRule
     DEF CreateStep
<1>3. ASSUME NEW r \in Reqs, StopStep(r) PROVE RuleInv'
  BY <1>3, MoveRuleSteps, ProcessKeepsRule, CleanupRulesKeeps DEF StopStep
<1>4. ASSUME NEW r \in Reqs, DestroyStep(r) \/ Return(r) PROVE RuleInv'
  BY <1>4, MoveRuleSteps
<1>5. ASSUME NEW r \in Reqs, ClientGone(r) PROVE RuleInv'
  BY <1>5, StutterKeepsRule DEF ClientGone
<1>6. CASE UNCHANGED vars
  BY <1>6, StutterKeepsRule DEF vars
<1> QED
  BY <1>1, <1>2, <1>3, <1>4, <1>5, <1>6, ProcessKeepsRule, RestartKeepsRule, RestartKills
  DEF Next, HandlerStep

\* A process that runs is behind the DROP rule of its address, whatever the requests of
\* other users add and take away, if no VM survives the orchestrator.
THEOREM IsolatedCorrect ==
    ASSUME NoSurvivors
    PROVE  Spec => []Isolated
<1>1. Init => RuleInv
  BY PcRulesDef DEF Init, RuleInv, HoldsRule, Launched, Stopping
<1>2. TypeOK /\ ProcInv /\ IPExclusive /\ RuleInv /\ [Next]_vars => RuleInv'
  BY RuleInvInductive
<1>3. RuleInv => Isolated
  BY DEF RuleInv, Isolated, HoldsRule, Launched, Live
<1> QED BY <1>1, <1>2, <1>3, ProcInvAlways, IPExclusiveCorrect, PTL DEF Spec

-----------------------------------------------------------------------------
(* The pool as a set of leases *)

Holds(q, i) == HoldsIP(q) /\ ip[q] = i

\* The owner of an address is its one holder.
LEMMA OwnerIs ==
    ASSUME IPExclusive
    PROVE  /\ owner = [i \in Addresses |-> owner[i]]
           /\ \A i \in Addresses :
                /\ owner[i] \in Reqs \cup {None}
                /\ \A q \in Reqs : owner[i] = q <=> Holds(q, i)
<1>1. ASSUME NEW i \in Addresses
      PROVE  owner[i] \in Reqs \cup {None} /\ \A q \in Reqs : owner[i] = q <=> Holds(q, i)
  <2>1. CASE \E q \in Reqs : Holds(q, i)
    <3>1. owner[i] = CHOOSE q \in Reqs : HoldsIP(q) /\ ip[q] = i
      BY <2>1 DEF owner, Holds
    <3>2. owner[i] \in Reqs /\ Holds(owner[i], i)
      BY <2>1, <3>1 DEF Holds
    <3> QED BY <3>2 DEF IPExclusive, Holds
  <2>2. CASE ~\E q \in Reqs : Holds(q, i)
    <3>1. owner[i] = None
      BY <2>2 DEF owner, Holds
    <3> QED BY <2>2, <3>1, OrchestratorAssumption
  <2> QED BY <2>1, <2>2
<1>2. owner = [i \in Addresses |-> owner[i]]
  BY DEF owner
<1> QED BY <1>1, <1>2

\* So it is in the next state.
LEMMA OwnerIsNext ==
    ASSUME IPExclusive'
    PROVE  /\ owner' = [i \in Addresses |-> owner'[i]]
           /\ \A i \in Addresses :
                /\ owner'[i] \in Reqs \cup {None}
                /\ \A q \in Reqs : owner'[i] = q <=> Holds(q, i)'
<1>1. ASSUME NEW i \in Addresses
      PROVE  owner'[i] \in Reqs \cup {None} /\ \A q \in Reqs : owner'[i] = q <=> Holds(q, i)'
  <2>1. CASE \E q \in Reqs : Holds(q, i)'
    <3>1. PICK q \in Reqs : HoldsIP(q)' /\ ip'[q] = i
      BY <2>1 DEF Holds
    <3>2. \A p \in Reqs : HoldsIP(p)' /\ ip'[p] = i <=> p = q
      BY <3>1 DEF IPExclusive
    <3>3. owner'[i] = q
      BY <3>1, <3>2 DEF owner
    <3> QED BY <3>2, <3>3 DEF Holds
  <2>2. CASE ~\E q \in Reqs : Holds(q, i)'
    <3>1. owner'[i] = None
      BY <2>2 DEF owner, Holds
    <3> QED BY <2>2, <3>1, OrchestratorAssumption
  <2> QED BY <2>1, <2>2
<1>2. owner' = [i \in Addresses |-> owner'[i]]
  BY DEF owner
<1> QED BY <1>1, <1>2

\* What the pool has given out is somebody's.
Leased == \A i \in Addresses : allocated[i] # None => owner[i] # None

\* A step that the pool as a set of leases allows, or does not see.
LeaseStep == Pool!Next \/ owner' = owner

\* Nobody holds more or less than before.
LEMMA LeasesKept ==
    ASSUME IPExclusive, IPExclusive', Leased, UNCHANGED <<ip, allocated>>,
           \A q \in Reqs : HoldsIP(q)' <=> HoldsIP(q)
    PROVE  Leased' /\ LeaseStep
<1>1. \A q \in Reqs, i \in Addresses : Holds(q, i)' <=> Holds(q, i)
  BY DEF Holds
<1>2. \A i \in Addresses : owner'[i] = owner[i]
  BY <1>1, OwnerIs, OwnerIsNext
<1>3. owner' = owner
  BY <1>2, OwnerIs, OwnerIsNext
<1> QED BY <1>2, <1>3 DEF Leased, LeaseStep

\* One holder gives its address back.
LEMMA LeaseBack ==
    ASSUME TypeOK, IPExclusive, IPExclusive', Leased, NEW t \in Reqs, HoldsIP(t),
           ReleaseIP(ip[t]), UNCHANGED ip, ~HoldsIP(t)',
           \A q \in Reqs \ {t} : HoldsIP(q)' <=> HoldsIP(q)
    PROVE  Leased' /\ LeaseStep
<1>1. ip[t] \in Addresses /\ owner[ip[t]] = t
  <2>1. ip[t] \in Addresses
    BY DEF IPExclusive
  <2> QED BY <2>1, OwnerIs DEF Holds
<1>2. owner'[ip[t]] = None
  <2>1. \A q \in Reqs : ~Holds(q, ip[t])'
    BY DEF Holds, IPExclusive
  <2>2. owner'[ip[t]] \in Reqs \cup {None}
    BY <1>1, OwnerIsNext
  <2>3. \A q \in Reqs : owner'[ip[t]] # q
    BY <1>1, <2>1, OwnerIsNext
  <2> QED BY <2>2, <2>3
<1>3. ASSUME NEW i \in Addresses, i # ip[t] PROVE owner'[i] = owner[i]
  <2>1. \A q \in Reqs : Holds(q, i)' <=> Holds(q, i)
    BY <1>3 DEF Holds
  <2> QED BY <2>1, OwnerIs, OwnerIsNext
<1>4. owner' = [owner EXCEPT ![ip[t]] = None]
  BY <1>1, <1>2, <1>3, OwnerIs, OwnerIsNext
<1>5. Pool!Release(ip[t])
  BY <1>1, <1>4, OrchestratorAssumption DEF Pool!Release
<1>6. Leased'
  BY <1>1, <1>3 DEF Leased, ReleaseIP, TypeOK
<1> QED BY <1>1, <1>5, <1>6 DEF LeaseStep, Pool!Next

\* The lowest address that nobody holds is granted.
LEMMA LeaseGranted ==
    ASSUME TypeOK, ProcInv, IPExclusive, IPExclusive', Leased, NEW r \in Reqs, AllocateIP(r)
    PROVE  Leased' /\ LeaseStep
<1>1. CASE Goto(r, "alloc", "fail") /\ UNCHANGED <<allocated, ip>>
  <2>1. /\ pc[r] = "alloc" /\ pc'[r] = "fail" /\ UNCHANGED <<target, procs>>
        /\ \A q \in Reqs \ {r} : pc'[q] = pc[q]
    BY <1>1 DEF AllocateIP, Goto, TypeOK
  <2>2. \A q \in Reqs : HoldsIP(q)' <=> HoldsIP(q)
    BY <2>1, NetDef DEF HoldsIP, Launched, Stopping, Net
  <2> QED BY <1>1, <2>2, LeasesKept
<1>2. ASSUME NEW i \in FreeAddresses, \A j \in FreeAddresses : i <= j, Goto(r, "alloc", "stat"),
             allocated' = [allocated EXCEPT ![i] = user[r]],
             ip' = [ip EXCEPT ![r] = i]
      PROVE  Leased' /\ LeaseStep
  <2>1. /\ pc[r] = "alloc" /\ pc'[r] = "stat" /\ UNCHANGED <<target, procs>>
        /\ \A q \in Reqs \ {r} : pc'[q] = pc[q] /\ ip'[q] = ip[q]
        /\ ip'[r] = i /\ i \in Addresses
    BY <1>2 DEF AllocateIP, Goto, TypeOK, FreeAddresses
  <2>2. procs[r] = "none" /\ \A s \in Reqs : target[s] # r
    BY <2>1 DEF ProcInv, NotLaunched, NotShared, NotYet
  <2>3. ~HoldsIP(r) /\ HoldsIP(r)'
    BY <2>1, <2>2, NetDef DEF HoldsIP, Launched, Stopping, Net
  <2>4. \A q \in Reqs \ {r} : HoldsIP(q)' <=> HoldsIP(q)
    BY <2>1 DEF HoldsIP, Launched, Stopping
  <2>5. \A q \in Reqs \ {r}, j \in Addresses : Holds(q, j)' <=> Holds(q, j)
    BY <2>1, <2>4 DEF Holds
  <2>6. owner'[i] = r
    BY <2>1, <2>3, OwnerIsNext DEF Holds
  <2>7. ASSUME NEW j \in Addresses, j # i PROVE owner'[j] = owner[j]
    <3>1. ~Holds(r, j)' /\ ~Holds(r, j)
      BY <2>1, <2>3, <2>7 DEF Holds
    <3>2. \A q \in Reqs : Holds(q, j)' <=> Holds(q, j)
      BY <2>5, <3>1
    <3> QED BY <3>2, OwnerIs, OwnerIsNext
  <2>8. owner' = [owner EXCEPT ![i] = r]
    BY <2>1, <2>6, <2>7, OwnerIs, OwnerIsNext
  <2>9. Pool!Free = FreeAddresses
    <3>1. ASSUME NEW j \in Addresses, owner[j] # None PROVE allocated[j] # None
      <4>1. owner[j] \in Reqs /\ Holds(owner[j], j)
        BY <3>1, OwnerIs
      <4>2. allocated[j] = user[owner[j]]
        BY <4>1 DEF IPExclusive, Holds
      <4> QED BY <4>1, <4>2, OrchestratorAssumption DEF TypeOK
    <3> QED BY <3>1 DEF Pool!Free, FreeAddresses, Leased
  <2>10. \A j \in Addresses : owner[j] # r
    BY <2>3, OwnerIs DEF Holds
  <2>11. Pool!Grant(r)
    BY <1>2, <2>8, <2>9, <2>10 DEF Pool!Grant
  <2>12. Leased'
    <3>1. \A j \in Addresses : j # i => allocated'[j] = allocated[j]
      BY <1>2 DEF TypeOK
    <3> QED BY <2>6, <2>7, <3>1, OrchestratorAssumption DEF Leased
  <2> QED BY <2>11, <2>12 DEF LeaseStep, Pool!Next
<1> QED BY <1>1, <1>2 DEF AllocateIP

\* A handler that moves, and holds after what it held before.
LEMMA MoveLeases ==
    ASSUME TypeOK, NEW r \in Reqs, NEW from, NEW to, Goto(r, from, to),
           to \in Net <=> from \in Net, to \in Cleaning <=> from \in Cleaning,
           UNCHANGED <<target, procs>>
    PROVE  \A q \in Reqs : HoldsIP(q)' <=> HoldsIP(q)
<1>1. \A s \in Reqs : /\ pc'[s] \in Net <=> pc[s] \in Net
                      /\ pc'[s] \in Cleaning <=> pc[s] \in Cleaning
  BY DEF Goto, TypeOK
<1> QED BY <1>1 DEF HoldsIP, Launched, Stopping, Net, Cleaning

LEMMA MoveLeaseSteps ==
    ASSUME TypeOK, IPExclusive, IPExclusive', Leased, NEW r \in Reqs,
           \/ \E o \in Ops : Submit(r, o)
           \/ CheckExists(r) \/ SaveInitial(r) \/ StatRootfs(r) \/ StartCopy(r)
           \/ StatData(r) \/ SaveFinal(r) \/ SetVMError(r)
           \/ CleanupRules(r) \/ DestroyTapDevice(r)
           \/ ReadInfo(r) \/ SaveStopped(r) \/ DestroyStep(r) \/ Return(r)
    PROVE  Leased' /\ LeaseStep
<1> SUFFICES /\ UNCHANGED <<ip, allocated, target, procs>>
             /\ \E from, to \in Pcs : /\ Goto(r, from, to)
                                      /\ to \in Net <=> from \in Net
                                      /\ to \in Cleaning <=> from \in Cleaning
  BY MoveLeases, LeasesKept
<1> USE PcsDef, NetDef DEF Cleaning
<1> AfterStop(r) \in {"rmstore", "return"}
  BY DEF AfterStop
<1>1. CASE \E o \in Ops : Submit(r, o)
  BY <1>1 DEF Submit, First, Ops
<1>2. CASE CheckExists(r) \/ SaveInitial(r) \/ StatRootfs(r) \/ StartCopy(r)
  BY <1>2 DEF CheckExists, SaveInitial, StatRootfs, StartCopy
<1>3. CASE StatData(r) \/ SaveFinal(r) \/ SetVMError(r)
  BY <1>3 DEF StatData, SaveFinal, SetVMError
<1>4. CASE CleanupRules(r) \/ DestroyTapDevice(r)
  BY <1>4 DEF CleanupRules, DestroyTapDevice
<1>5. CASE ReadInfo(r) \/ SaveStopped(r)
  BY <1>5 DEF ReadInfo, SaveStopped
<1>6. CASE DestroyStep(r) \/ Return(r)
  BY <1>6 DEF DestroyStep, CheckRunning, CleanupStorage, DeleteRecord, Return
<1> QED BY <1>1, <1>2, <1>3, <1>4, <1>5, <1>6

LEMMA FailLeaseSteps ==
    ASSUME TypeOK, ProcInv, IPExclusive, IPExclusive', Leased, NEW r \in Reqs,
           \/ FinishCopy(r) \/ Truncate(r) \/ Mkfs(r)
           \/ CreateTapDevice(r) \/ SetupVMIsolation(r) \/ Unlaunch(r)
    PROVE  Leased' /\ LeaseStep
<1>1. ASSUME NEW from \in Net \ {"register"}, Goto(r, from, "fail"), ReleaseIP(ip[r]),
             UNCHANGED <<ip, target, procs>>
      PROVE  Leased' /\ LeaseStep
  <2>1. pc[r] = from /\ pc'[r] = "fail" /\ \A q \in Reqs \ {r} : pc'[q] = pc[q]
    BY <1>1 DEF Goto, TypeOK
  <2>2. HoldsIP(r)
    BY <2>1, HoldsIPDef
  <2>3. procs[r] = "none" /\ \A s \in Reqs : target[s] # r
    BY <1>1, <2>1, NetDef DEF ProcInv, NotLaunched, NotShared, NotYet
  <2>4. ~HoldsIP(r)'
    BY <1>1, <2>1, <2>3 DEF HoldsIP, Launched, Stopping, PcIP, PcTap, PcRules
  <2>5. pc[r] \notin Cleaning
    BY <1>1, <2>1, NetDef DEF Cleaning
  <2>6. \A q \in Reqs \ {r} : HoldsIP(q)' <=> HoldsIP(q)
    BY <1>1, <2>1, <2>5 DEF HoldsIP, Launched, Stopping, Cleaning
  <2> QED BY <1>1, <2>2, <2>4, <2>6, LeaseBack
<1>2. CASE /\ UNCHANGED <<ip, allocated, target, procs>>
           /\ \E from, to \in Net : Goto(r, from, to)
  <2>1. \A q \in Reqs : HoldsIP(q)' <=> HoldsIP(q)
    BY <1>2, MoveLeases, NetDef DEF Cleaning
  <2> QED BY <1>2, <2>1, LeasesKept
<1> USE NetDef
<1>3. CASE FinishCopy(r) \/ Truncate(r) \/ Mkfs(r)
  BY <1>1, <1>2, <1>3 DEF FinishCopy, Truncate, Mkfs
<1>4. CASE CreateTapDevice(r) \/ SetupVMIsolation(r)
  BY <1>1, <1>2, <1>4 DEF CreateTapDevice, SetupVMIsolation
<1>5. CASE Unlaunch(r)
  BY <1>1, <1>5 DEF Unlaunch
<1> QED BY <1>3, <1>4, <1>5

\* A VM that survived would hold an address the new pool does not know of.
NoOrphan == \A r \in Reqs : procs[r] # "orphan"

LEMMA NoOrphanInductive ==
    ASSUME NoSurvivors, TypeOK, NoOrphan, [Next]_vars
    PROVE  NoOrphan'
<1>1. ASSUME NEW r \in Reqs, \E o \in Ops : Submit(r, o) PROVE NoOrphan'
  BY <1>1, QuietSteps DEF NoOrphan
<1>2. ASSUME NEW r \in Reqs, Launch(r) \/ Register(r) \/ Unregister(r) PROVE NoOrphan'
  BY <1>2 DEF NoOrphan, Launch, Register, Unregister, TypeOK
<1>3. ASSUME NEW r \in Reqs, Sigterm(r) \/ WaitExit(r) \/ CtxKill(r) \/ ProcExit(r)
      PROVE  NoOrphan'
  BY <1>3 DEF NoOrphan, Sigterm, WaitExit, CtxKill, ProcExit, TypeOK
<1>4. ASSUME NEW r \in Reqs, HandlerStep(r) PROVE NoOrphan'
  BY <1>2, <1>3, <1>4, QuietSteps DEF HandlerStep, CreateStep, StopStep, NoOrphan
<1>5. ASSUME NEW r \in Reqs, ClientGone(r) PROVE NoOrphan'
  BY <1>5 DEF ClientGone, NoOrphan
<1>6. CASE Restart
  BY <1>6, RestartKills DEF Restart, NoOrphan
<1>7. CASE UNCHANGED vars
  BY <1>7 DEF vars, NoOrphan
<1> QED BY <1>1, <1>3, <1>4, <1>5, <1>6, <1>7 DEF Next

LEMMA NoOrphanAlways ==
    ASSUME NoSurvivors
    PROVE  Spec => []NoOrphan
<1>1. Init => NoOrphan
  BY DEF Init, NoOrphan
<1>2. TypeOK /\ NoOrphan /\ [Next]_vars => NoOrphan'
  BY NoOrphanInductive
<1> QED BY <1>1, <1>2, TypeCorrect, PTL DEF Spec

LEMMA ProcessLeases ==
    ASSUME TypeOK, ProcInv, NoOrphan, IPExclusive, IPExclusive', Leased, NEW r \in Reqs,
           \/ Launch(r) \/ Register(r) \/ Unregister(r) \/ Sigterm(r) \/ WaitExit(r)
           \/ CtxKill(r) \/ ProcExit(r)
    PROVE  Leased' /\ LeaseStep
<1>1. UNCHANGED <<ip, allocated>>
  BY DEF Launch, Register, Unregister, Sigterm, WaitExit, CtxKill, ProcExit
<1> SUFFICES \A q \in Reqs : HoldsIP(q)' <=> HoldsIP(q)
  BY <1>1, LeasesKept
<1>2. CASE Launch(r)
  <2>1. /\ pc[r] = "launch" /\ pc'[r] \in {"register", "unlaunch"}
        /\ \A q \in Reqs \ {r} : pc'[q] = pc[q] /\ procs'[q] = procs[q]
        /\ UNCHANGED target
    BY <1>2 DEF Launch, Goto, TypeOK
  <2>2. HoldsIP(r) /\ HoldsIP(r)'
    BY <2>1, NetDef DEF HoldsIP, Net
  <2> QED BY <2>1, <2>2 DEF HoldsIP, Launched, Stopping
<1>3. CASE Register(r)
  <2>1. /\ pc[r] = "register" /\ pc'[r] = "save1" /\ UNCHANGED <<target, procs>>
        /\ \A q \in Reqs \ {r} : pc'[q] = pc[q]
    BY <1>3 DEF Register, Goto, TypeOK
  <2>2. Launched(r) /\ Launched(r)'
    BY <2>1 DEF ProcInv, Launching, Launched
  <2> QED BY <2>1, <2>2 DEF HoldsIP, Launched, Stopping
<1>4. CASE Unregister(r)
  <2>1. /\ \A q \in Reqs \ {r} : pc'[q] = pc[q] /\ target'[q] = target[q]
        /\ pc[r] = "unregister" /\ pc'[r] \notin Net \cup Cleaning
        /\ UNCHANGED procs
    BY <1>4, NetDef DEF Unregister, Goto, AfterStop, TypeOK, Cleaning
  <2> QED BY <2>1, NetDef DEF HoldsIP, Launched, Stopping, Cleaning, Net
<1>5. CASE Sigterm(r)
  <2>1. /\ \A q \in Reqs : Launched(q)' <=> Launched(q)
        /\ pc[r] = "sigterm" /\ pc'[r] = "wait" /\ \A q \in Reqs \ {r} : pc'[q] = pc[q]
        /\ UNCHANGED target
    BY <1>5 DEF Sigterm, Goto, TypeOK, Launched
  <2> QED BY <2>1 DEF HoldsIP, Stopping, PcIP, PcTap, PcRules
<1>6. CASE WaitExit(r)
  <2>1. /\ target[r] \in Reqs /\ procs[target[r]] = "zombie"
        /\ \A q \in Reqs \ {target[r]} : Launched(q)' <=> Launched(q)
        /\ \A q \in Reqs \ {r} : pc'[q] = pc[q]
        /\ pc[r] = "wait" /\ pc'[r] = "unrule"
        /\ UNCHANGED target
    BY <1>6 DEF WaitExit, Goto, TypeOK, Launched, ProcInv, StopTargets, Awaiting
  <2>2. HoldsIP(target[r]) /\ HoldsIP(target[r])'
    BY <2>1 DEF HoldsIP, Launched, Stopping
  <2>3. \A q \in Reqs \ {target[r]} : HoldsIP(q)' <=> HoldsIP(q)
    BY <2>1 DEF HoldsIP, Stopping, PcIP, PcTap, PcRules
  <2>4. ASSUME NEW q \in Reqs, q = target[r] PROVE HoldsIP(q)' <=> HoldsIP(q)
    BY <2>1, <2>2, <2>4 DEF HoldsIP
  <2> QED BY <2>3, <2>4
<1>7. CASE CtxKill(r) \/ ProcExit(r)
  <2>1. /\ \A q \in Reqs : Launched(q)' <=> Launched(q)
        /\ UNCHANGED <<pc, target>>
    BY <1>7 DEF CtxKill, ProcExit, TypeOK, Launched, NoOrphan
  <2> QED BY <2>1 DEF HoldsIP, Stopping
<1> QED BY <1>2, <1>3, <1>4, <1>5, <1>6, <1>7

LEMMA ReleaseLease ==
    ASSUME TypeOK, ProcInv, IPExclusive, IPExclusive', Leased, NEW r \in Reqs, ReleaseAddress(r)
    PROVE  Leased' /\ LeaseStep
<1> DEFINE t == target[r]
<1>1. /\ pc[r] = "release" /\ pc'[r] = "read"
      /\ \A q \in Reqs \ {r} : pc'[q] = pc[q]
      /\ ReleaseIP(ip[t])
      /\ UNCHANGED <<ip, target, procs>>
  BY DEF ReleaseAddress, Goto, TypeOK
<1>2. t \in Reqs /\ procs[t] = "reaped" /\ HoldsIP(t)
  BY <1>1 DEF ProcInv, StopTargets, Cleaning, TypeOK, HoldsIP, Stopping
<1>3. pc[t] \notin Net
  BY <1>2, NetDef DEF ProcInv, NotShared, NotYet
<1>4. \A s \in Reqs \ {r} : target[s] # t
  BY <1>2, OrchestratorAssumption DEF ProcInv, OneTaker
<1>5. pc'[t] \notin Net
  BY <1>1, <1>2, <1>3, NetDef
<1>6. ~HoldsIP(t)'
  BY <1>1, <1>2, <1>4, <1>5 DEF HoldsIP, Launched, Stopping, Net
<1>7. \A q \in Reqs \ {t} : HoldsIP(q)' <=> HoldsIP(q)
  BY <1>1 DEF HoldsIP, Launched, Stopping, PcIP, PcTap, PcRules
<1> QED BY <1>1, <1>2, <1>6, <1>7, LeaseBack

LEMMA RestartLoses ==
    ASSUME ~SurvivesRestart, TypeOK, IPExclusive', Restart
    PROVE  Leased' /\ LeaseStep
<1>1. \A r \in Reqs : pc'[r] \in {"idle", "done"}
  BY DEF Restart, Active, TypeOK
<1>2. \A r \in Reqs : procs'[r] \in {"none", "reaped"}
  BY DEF Restart
<1>3. \A r \in Reqs : ~HoldsIP(r)'
  BY <1>1, <1>2 DEF HoldsIP, Launched, Stopping, PcIP, PcTap, PcRules
<1>4. owner' = [i \in Addresses |-> None]
  BY <1>3, OwnerIsNext DEF Holds
<1>5. Pool!Lose
  BY <1>4 DEF Pool!Lose
<1>6. Leased'
  BY DEF Leased, Restart
<1> QED BY <1>5, <1>6 DEF LeaseStep, Pool!Next

LEMMA LeaseStepCorrect ==
    ASSUME NoSurvivors, TypeOK, ProcInv, NoOrphan, IPExclusive, IPExclusive', Leased,
           [Next]_vars
    PROVE  Leased' /\ LeaseStep
<1>1. ASSUME NEW r \in Reqs, \E o \in Ops : Submit(r, o) PROVE Leased' /\ LeaseStep
  BY <1>1, MoveLeaseSteps
<1>2. ASSUME NEW r \in Reqs, CreateStep(r) PROVE Leased' /\ LeaseStep
  BY <1>2, MoveLeaseSteps, FailLeaseSteps, LeaseGranted, ProcessLeases DEF CreateStep
<1>3. ASSUME NEW r \in Reqs, StopStep(r) PROVE Leased' /\ LeaseStep
  BY <1>3, MoveLeaseSteps, ProcessLeases, ReleaseLease DEF StopStep
<1>4. ASSUME NEW r \in Reqs, DestroyStep(r) \/ Return(r) PROVE Leased' /\ LeaseStep
  BY <1>4, MoveLeaseSteps
<1>5. ASSUME UNCHANGED <<pc, ip, allocated, target, procs>> PROVE Leased' /\ LeaseStep
  BY <1>5, LeasesKept DEF HoldsIP, Launched, Stopping
<1>6. ASSUME NEW r \in Reqs, ClientGone(r) PROVE Leased' /\ LeaseStep
  BY <1>5, <1>6 DEF ClientGone
<1>7. CASE UNCHANGED vars
  BY <1>5, <1>7 DEF vars
<1> QED
  BY <1>1, <1>2, <1>3, <1>4, <1>6, <1>7, ProcessLeases, RestartLoses, RestartKills
  DEF Next, HandlerStep

LEMMA LeasedInit == Init => Pool!Init /\ Leased
<1> SUFFICES ASSUME Init PROVE Pool!Init /\ Leased
  OBVIOUS
<1>1. \A r \in Reqs : ~HoldsIP(r)
  BY DEF Init, HoldsIP, Launched, Stopping, PcIP, PcTap, PcRules
<1>2. owner = [i \in Addresses |-> None]
  BY <1>1 DEF owner
<1> QED BY <1>2 DEF Pool!Init, Leased, Init

LEMMA LeasedAlways ==
    ASSUME NoSurvivors
    PROVE  Spec => []Leased
<1>1. TypeOK /\ ProcInv /\ NoOrphan /\ IPExclusive /\ IPExclusive' /\ Leased /\ [Next]_vars
        => Leased'
  BY LeaseStepCorrect
<1> QED BY <1>1, LeasedInit, ProcInvAlways, NoOrphanAlways, IPExclusiveCorrect, PTL DEF Spec

\* The orchestrator implements the pool of leases, whatever fails and whoever is served
\* when, if no VM survives it.
THEOREM PoolCorrect ==
    ASSUME NoSurvivors
    PROVE  Spec => PoolSpec
<1>1. TypeOK /\ ProcInv /\ NoOrphan /\ IPExclusive /\ IPExclusive' /\ Leased /\ [Next]_vars
        => [Pool!Next]_owner
  BY LeaseStepCorrect DEF LeaseStep
<1> QED
  BY <1>1, LeasedInit, LeasedAlways, ProcInvAlways, NoOrphanAlways, IPExclusiveCorrect, PTL
  DEF Spec, PoolSpec, Pool!Spec
=============================================================================
