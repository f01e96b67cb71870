# Clawdotter in TLA+

Clawdotter gives every follower of a WeChat account a Firecracker MicroVM with an
assistant in it. This directory holds TLA+ modules of its parts that keep state, TLC
configurations that check them on small instances, and proofs that TLAPS checks for every
value of the constants. Line numbers below are those of the files in `src/`.

## 1. The system

| component | code | state | operations |
|---|---|---|---|
| VM orchestrator (Go) | `vm-orchestrator/internal/{api,vm,models}` | `Manager.instances`, the address pool and TAP counter of `NetworkManager`, processes, TAP devices, iptables rules, image files, the record of each user in Redis | create (= start), stop, destroy, change password, get, list |
| bridge: binding and commands (TypeScript) | `routes/wechat.ts`, `services/redis.ts`, `services/orchestrator-client.ts` | the same record in Redis, in another schema; handlers in flight | follow, text, `restart`, `stop`, `destroy`, `passwd`, `status`, `help` |
| bridge: token and sending | `services/wechat-token.ts`, `services/wechat-message.ts` | token and lock in Redis, shared by all processes | get, refresh, force refresh, send with one retry, split a long text |
| message pipeline | `services/clawdbot-forwarder.ts`, plugin `src/index.ts`, `routes/callback.ts` | messages in flight only | forward, webhook (202, then background), deliver, callback |
| SSH gateway (Go) | `ssh-gateway/cmd/gateway/main.go` | connections, channels, their goroutines | accept, look the VM up, proxy channels and requests, shut down |
| encryption, signatures, XML | `utils/*.ts` | none | decrypt, encrypt, pad, verify, parse |
| bootstrap, configuration, key generation, image build, simulator | the rest | none after start | |

How they interact:

- WeChat posts a message to the bridge, which answers at once. Whatever takes long goes on
  in an async function nobody waits for: `provisionVMAsync`, the restart, the forwarding.
- The bridge calls the orchestrator over HTTP with a timeout of 30 s. When it gives up, the
  request's context in the orchestrator is cancelled, but the handler goes on.
- **Both write the Redis key `vm:binding:<openid>`.** The bridge writes `vmIp` and
  `webhookUrl`, the orchestrator `user_id`, `vm_ip` and `webhook_url`; only `status` and
  `ssh_password` have one name. The gateway reads it too, to find the VM's address.
- A forwarded message is answered later, by a POST from the VM to `/callback/:openid`,
  which the bridge turns into a customer-service message under the shared access token.

What is hard: each HTTP request is a goroutine and each WeChat message an async handler,
so that two for one user interleave at every lock, Redis command and await; a create has
nine steps that can fail after earlier ones changed the host; the Firecracker process is
tied to the context of the request that made it; the orchestrator forgets everything it
knows when it restarts; a call that timed out may still succeed; a lock in Redis expires
while its owner works. `PROJECT.json` lists each as a hazard at its line.

What makes each component correct:

- orchestrator: addresses, TAP devices and rules are exclusive and never leak; a VM of one
  user at most; the record, and every write to it, tells the truth; no handler waits for a
  process that nothing will end, and every request is answered.
- binding: the record agrees with the VM; no VM is without a record; a text goes to the user's
  VM; "provisioning" ends.
- token: one refresh at a time; a retry carries a newer token; no lock is left behind; every
  send ends.
- sending: nothing of a text is lost in the cut, the pieces are few, and the result tells
  whether all arrived.
- pipeline: exactly WeChat's messages for this account are let in; an answer reaches the user
  in order, each piece once at most; a loss leaves a trace in the plugin's log; tasks end.
- gateway (not modelled): no goroutine outlives its channel; the exit status arrives before
  the close; a shutdown ends.

## 2. Modules

| module | models | kind |
|---|---|---|
| `VMOrchestrator` | `manager.go`, `network.go`, `storage.go`, `firecracker.go`, the handlers that reach them, and the host below | one action per step between two accesses to shared state |
| `AddressPool` | what the pool promises, as leases | abstract specification that `VMOrchestrator` implements |
| `VMRegistry` | what the map of instances promises: one VM for a user, at an address of its own, not replaced before it was stopped | abstract specification that both `VMOrchestrator` and `VMBinding` implement |
| `VMOrchestratorProofs`, `VMHostProofs`, `VMSerialProofs` | | proofs |
| `VMBinding` | `wechat.ts`, `redis.ts`, `orchestrator-client.ts`, and the orchestrator as the record sees it | one action per await of the bridge and per Redis command of the orchestrator |
| `VMBindingProofs` | | proofs |
| `AccessToken` | `wechat-token.ts` and the send of `wechat-message.ts`, WeChat's token service | one action per await |
| `AccessTokenProofs` | | proofs |
| `TextChunks` | `sendTextMessage` of `wechat-message.ts` | one action per round of its two loops |
| `TextChunksProofs` | | proofs |
| `MessageCrypto` | `crypto.ts` | operators on sequences of bytes |
| `MessageCryptoProofs` | | proofs |
| `MessagePipeline` | `POST /wechat` up to its reply, `clawdbot-forwarder.ts`, the plugin's `index.ts`, `callback.ts` | one action per await; extends `MessageCrypto` |
| `AnswerStream` | what the way of an answer promises | abstract specification that `MessagePipeline` implements |
| `MessagePipelineProofs` | | proofs |
| `MC*` | symmetry sets and an AppID for TLC | |

Definitions named *Mutant* are faulty variants of the definition that follows them. No
specification uses them; each shows that a property would notice that fault.

### VMOrchestrator

A request is an element of `Reqs`, used once. `pc[r]` names the handler's next statement
that touches shared state:

- create: `check` (manager.go:57), `save0`, `alloc`, `stat`/`copy`/`copying` (root image),
  `statdata`/`truncate`/`mkfs` (data volume), `tap`, `isolate`, `launch` (and `unlaunch`,
  its cleanup), `register`, `save1`; every failure passes `fail` (`setVMError`).
- stop: `unregister`, `sigterm`, `wait`, `unrule`, `untap`, `release`, `read`, `save2`.
- destroy: `running`, the steps of a stop if there was an instance, `rmstore`, `del`.

A critical section under `m.mu` or `nm.mu` is one step. A Firecracker process carries the
name of the create that launched it, so that `instance.Config` is `ip[r]` and `tap[r]`.
`CtxKill` is the goroutine that `exec.CommandContext` leaves behind: once the context of the
create is done, it kills the process. `ProcExit` is a death by SIGTERM or by the guest.
`Restart` loses the memory of the orchestrator and keeps the host; in a container
(`SurvivesRestart = FALSE`, which is how the repository deploys it) its processes die too.
Addresses are host offsets; images have the states absent, partial or raw, complete or
formatted; rules are counted, since `iptables -A` and `-D` add and remove one copy.

### VMBinding

`rec` is the record of one user, with the program whose schema it has. `WebhookUrl` and
`VMAddr` are what the bridge and the orchestrator find in it: nothing, in the other's.
`pc[b]` is the place of a bridge handler between two awaits; `updateVMBindingStatus` is a
read (`GetBinding`) and a write (`PutBinding`). `opc[b]` is the place of the orchestrator's
handler of its call. That part restates `VMOrchestrator` with what the record can show:
from `AllocateIP` to the registration is one step, `Launch`, which works or fails. A save
under a cancelled context may or may not reach Redis. The end of each command is an action
of its own, by the command and by whether its call worked: `ProvisionDone`, `RestartDone`,
`StopDone`, `DestroyDone`, `PasswdDone`, `ProvisionFailed`, `RestartFailed`, `CommandFailed`;
`Answered` is what they share. `ChangePassword` of the orchestrator is here and not in
`VMOrchestrator`, as it depends on nothing but the record and the guest. After its answer a
message's name serves again, so that behaviours have no end.

### AccessToken

A sender is a call of `sendCustomerServiceMessage`, in any process. Tokens are numbered as
WeChat issues them; `live` is the oldest that it accepts, and a new token may or may not
invalidate the earlier ones. The lock is a key with the value `1`; the model keeps the
sender that set it, which only `LockExpires` and the properties look at.

### TextChunks

One call. A piece is the interval of the text it was cut from, so that what is lost can be
told; the code's `remaining` is what lies beyond `pos`, and `SplitIndex(i)` holds of its
`splitIndex`. The prefix `(i/n) ` is the flag `numbered`.

### MessageCrypto and MessagePipeline

A buffer is a sequence of numbers; the 16 random bytes and the 4 of the length are one element
each. AES under the account's key gives back what was encrypted, if whole cipher blocks
arrive. Signatures, Base64 and XML are facts of an envelope: whether it is complete, signed,
and parses. Padding, the length and the AppID are computed, since boundaries matter there.
`Envelopes` is what may arrive: plain and sealed messages of every length, for this and for
other AppIDs (shorter, longer, none), spoilt ones, and sealed ones cut off within what they
hold. `genuine` is what WeChat meant, which only the properties look at.

A post `p` is one HTTP request of WeChat; `hpc[p]` is its handler, `task[p]` the background
task of the plugin that was answered with 202, `send[<<p, b>>]` the callback handler of block
`b` of its answer. `due` and `got` are the pieces the user was to receive and did. The parser
of `xml-parser.ts` makes a number of a text of digits: the kinds `number` and `zero` take the
ways the code then takes. What the commands do is in `VMBinding`; here they take their time
and are answered. `Repeat` is WeChat's second post of a message not answered in five
seconds. Every failure on the way of an answer is one of `MaxFaults`: a session that cannot be
recorded, a callback that does not arrive, whose connection breaks, or of which WeChat
refuses a piece (or takes it and the bridge does not hear of that), and the death of the
bridge. A VM that is stopped takes its tasks with it at any time.

## 3. Runs

| run | expect | shows | distinct states |
|---|---|---|---|
| `orch_concurrent` | pass | `TypeOK`, `IPExclusive`, `TapExclusive`, `Isolated`, `OneStopper`, refinement of `AddressPool` | 654,000 |
| `orch_serial` | pass | `OneVMPerUser`, `NoLeak`, `RecordMatchesInstance`, `RunsOnItsFiles`, `WritesAreTrue`, refinement of `VMRegistry` | 232,000 |
| `orch_restart` | pass | `WaitsForMortal`; `EveryRequestReturns`, under `FairSpec` | 153,000 |
| `orch_context` | violation | `RunningIsAlive` | |
| `orch_twice` | violation | `OneVMPerUser` | |
| `bridge_serial` | pass | `TypeOK`, `BindingTruthful`, `NoForgottenVM`, `NoStaleProvisioning`, `ForwardsToRegisteredVM`, `ProvisioningEnds`, refinement of `VMRegistry` | 5,250 |
| `bridge_restart` | violation | `RunningIsRoutable` | |
| `bridge_passwd` | violation | `PasswordOfRunningVM` | |
| `token` | pass | `TypeOK`, `OneRefresher`, `RetryIsNewer`, `LockIsReleased`, `EverySendEnds` | 486,000 |
| `token_slow` | violation | `OneRefresher` | |
| `text` | pass | `TypeOK`, `PiecesFit`, `FewMessages`, `OnlySpaceLost`, `CutsBetweenWords`, `SuccessIsComplete`, `CallReturns` | 403,000 |
| `pipeline` | pass | `TypeOK`, `GateExact`, `RepliesReadable`, `NoSilentLoss`, `WaitsForHandler`, `EveryTaskEnds`, refinement of `AnswerStream` | 427,000 |

Bounds, and why they are enough:

- `orch_concurrent`: three requests of two users, two addresses, one failure of any kind.
  Three requests are a stop and two creates, which is what an address needs to pass from one
  VM to another while a third party looks on; two addresses make the pool run full.
- `orch_serial`: four requests, since a create that fails, a create that works, a stop and a
  destroy of one user is the longest story the disk tells. Only failures of the host are
  allowed: a save that fails makes the record false, as it must (`WritesAreTrue` says what then
  remains true, and is proved with such saves). `Overlap = FALSE` is a real
  restriction: with overlapping requests of one user these properties do not hold
  (`orch_twice`).
- `orch_restart`: one user, three overlapping requests and a restart anywhere.
- `bridge_serial`: one user and no bound on the number of messages; launches fail at will,
  and calls may time out and removals fail (`Lossy`). The user waits for one message to be
  done with before the next (`Overlap`), follows once, and restarts only what is not running
  (`Careful`): without that `bridge_restart` is the result.
- `token`: two senders with two messages each. Two are enough for a lock with a holder
  and a waiter; the second message meets the lock a dead sender left. Four tokens, one crash.

- `text`: three characters, one of each kind the code tells apart. With a limit of 4 and texts
  of up to 9 characters there are texts that fit, that need two pieces and that need three,
  with a line end, a blank or neither at every index, the first and the last included, and
  rests that consist of white space.
- `pipeline`: two posts, of which the second may repeat the first, answers of two blocks of
  two pieces, one failure. Padding of 1 to 4 over cipher blocks of 2 (for 1 to 32 over 16) and
  messages of 0 to 3 bytes, so that every number of padding bytes occurs, a whole block of
  padding too. The bytes of the AppID lie above the range of padding, as letters and digits
  do; the proofs do not need that.

Deadlock is not checked where the requests or messages run out: the system then just waits.

Fairness. `VMOrchestrator`: weak fairness of each handler and of `CtxKill`, which the Go
scheduler gives a goroutine that can run; the commands a handler runs end. There is none for
clients, for failures, for restarts, nor for a guest that ought to exit on SIGTERM: that
`EveryRequestReturns` holds is owed to `CtxKill`. `VMBinding`: weak fairness of each async
handler of Node and each goroutine; no user has to write and no call has to time out.
`AccessToken`: weak fairness of each sender, as WeChat answers or the socket breaks, and of
`LockExpires`, as Redis expires keys. No strong fairness is used; a waiting sender ends
because the number of messages is bounded. `TextChunks`: weak fairness of the next step, as
sends come back. `MessagePipeline`: weak fairness of each handler of the bridge and of the
plugin, of the webhook and of the sends; none for WeChat's posts, for failures, for the stop
of a VM or the death of the bridge. That a task ends is owed to the answer that every
callback gets, or to its connection, which breaks when the bridge dies: `axios.post` of the
plugin has no timeout.

What the violation runs say:

- `orch_context`: `Launch` starts the VM under the context of the HTTP request. `net/http`
  cancels that context when the handler returns, and the VM dies. With the obvious repair
  (`exec.Command`) the mutant `CtxKillNever` applies: `Stop` waits for ever for a
  guest that ignores SIGTERM, because `firecracker.go:165-175` never sends the SIGKILL its
  comment speaks of. The two have to be repaired together.
- `orch_twice`: two creates of one user that overlap both find no instance.
- `bridge_restart`: the answer to a start of a VM that runs is read from the record that the
  bridge has overwritten, so it has no addresses; the binding then says running with no
  webhook. Following a second time is worse: the binding says provisioning for good (TLC
  finds that when `Careful` is set to `FALSE` in `bridge_serial`).
- `bridge_passwd`: for the same reason `passwd` dials `:22` with no host.
- `token_slow`: the lock lives 30 s, and the request that it protects has no timeout.

## 4. Proofs

`VMOrchestratorProofs`, for any users, requests, addresses and bounds:

- `TypeCorrect`: `Spec => []TypeOK`.
- `OneStopperCorrect`: `Spec => []OneStopper`, in a container and on bare metal.
- `WaitsForMortalCorrect`: `Spec => []WaitsForMortal`, by `Mortal`, which follows the context of
  each create from its launch to its return: a process is dead, or the context it hangs on
  has ended, or its create is still on the way to its end. No assumption is needed.
- `IPExclusiveCorrect`: `NoSurvivors` implies `Spec => []IPExclusive`.

None of these is inductive by itself. What is missing is who may touch a process,
and `ProcInv` says that: a create that has not launched yet has no process (`NotLaunched`),
no instance is under two users and none is both registered and about to be (`NotShared`,
`Launching`), what is registered was launched and nobody is stopping it (`Registered`),
two stops never have the same target (`OneTaker`), and the target of a stop is in the state
the stop's place implies (`StopTargets`). `OneStopper` follows. `IPExclusive` is inductive
relative to `TypeOK` and `ProcInv`: an address is granted only if the pool has it free, which
no holder's is; and when it is released the process is gone and its stop was the only one.

`NoSurvivors == SurvivesRestart => MaxRestarts = 0` is what the theorems about addresses,
devices and rules assume: no VM survives the orchestrator, because its processes die with it,
as in the container of the repository, or because it does not restart. On bare metal the VMs
survive a restart and the new pool grants their addresses again. The assumption stands in the
theorems and in no module. Each lemma covers a group of actions that change the same variables.

`AccessTokenProofs`, for any senders, messages, tokens and crashes:

- `TypeCorrect`: `Spec => []TypeOK`.
- `OneRefresherCorrect`: `~Slow` implies `Spec => []OneRefresher`, by `OwnsLock`: who
  refreshes is who set the lock. `token_slow` shows that the assumption is needed.
- `LockIsReleasedCorrect`: `Spec => []LockIsReleased`, with no bound on WeChat's answers: a
  sender takes the lock when its refresh begins, its own DEL ends the refresh, and the DEL of
  another can only clear the lock.
- `RetryIsNewerCorrect`: `~Slow` implies `Spec => []RetryIsNewer`, by `RetryInv`: a token
  about to be stored is newer than all that anybody has or was refused (`Newest`, where one
  refresher at a time is needed), so that what is in the cache after a token was dropped is
  newer than that token (`CacheIsNewer`), and so is what a retry has in hand (`HandIsNewer`).

`VMHostProofs`, under the same `NoSurvivors`, on top of `ProcInv`, `IPExclusive` and `NoOrphan`
(no process is without an orchestrator that knows it):

- `TapExclusiveCorrect`, by `TapInv`: every index that a VM has is below `nextIdx`, so that a
  new device is nobody's; and who deletes a device has it. A restart sets `nextIdx` back when
  nobody has one.
- `IsolatedCorrect`, by `RuleInv`: whoever has rules has a DROP rule at the address, from
  `isolate` to `unrule`. Rules of one address are added and deleted by its holder only, and
  holders are exclusive; a failed `iptables -D` may leave more rules than needed, never fewer.
- `PoolCorrect`: `Spec => PoolSpec`, the refinement of `AddressPool`. `Leased` says that what
  the pool has as taken has a holder, and each action is shown to be one step of the pool or a
  stutter. `IPExclusive` makes the `CHOOSE` in `owner` unique.

`VMSerialProofs`, for requests that do not overlap for a user (`~Overlap`), those of different
users as they like:

- `SerialInv`: one active handler for a user; no instance at the places of a handler where
  the code has seen that there is none; every process is about to be registered, registered,
  or waited for (`Accounted`). `OneVMPerUserCorrect` follows.
- `NoAddressLeaksCorrect`, with restarts that no VM survives: between a user's requests what the
  pool has taken for the user is the address of the registered VM. `NoLeakCorrect` adds the TAP
  devices and needs that there is no restart (`MaxRestarts = 0`), since a restart leaves the
  devices on the host. They follow from `Leased` and from `TapsHeld`: every device on the host
  has a holder. Both are needed with `Accounted`: a holder that is idle can only be a
  registered VM.
- `RecordMatchesCorrect`, with no restart and if Redis takes every write and no client gives
  up: `RecordInv` says at which places of a handler the record and the instance agree.
- `WritesAreTrueCorrect`: `Spec => WritesAreTrue`, an action property, with restarts that no VM
  survives and with every failure: lost writes and clients that give up too. `Saving` says that
  the create that is about to save its VM as running is still the registered one; each write is
  then compared with the instances at its step (`TrueWrite`).
- `RegistryCorrect`: `Spec => RegistrySpec`, the refinement of `VMRegistry`, under the same
  assumptions. A registration is a `Start`, for which `SerialInv` has no instance in place and
  `IPExclusive` no other VM at the address; `Unregister` is a `Stop`, a restart is `Lose`.
- `RunsOnItsFilesCorrect`, with no restart, by `FileInv`: a volume that is not formatted is
  being formatted by a handler of its user, and `RemoveData` is why it is not left so. A
  restart in the middle of `mkfs` does leave one, which is why the theorem excludes restarts.

`VMBindingProofs`, for any messages and addresses:

- `TypeCorrect`: overlapping messages included. `Holding` is what it needs: a handler between
  a read and a write has the record it read.
- `BindingTruthfulCorrect` and `ForwardsCorrect`, for `~Overlap` and `Careful`, by `Serial`:
  one message at a time, and for each place of its handler in the bridge and of the one in
  the orchestrator what the record and the VM may be (`Updating`, `Creating`, `Commanding`).
- `NoForgottenVMCorrect`, for `~Overlap` alone: the user may restart what runs and follow again,
  calls may be given up and removals fail, so that what record and VM are is not known at each
  place. `Tended` is the weaker invariant that survives all of that: one message is served at a
  time, a call that was given up only writes a status (`LeftAlone`), and the orchestrator's
  places tell whether there is a VM and a record (`Serving`).
- `RegistryCorrect`: `Spec => RegistrySpec` under the same assumption, from `Tended`: a launch
  finds no VM. `VMBinding` restates a part of `VMOrchestrator`; both implement this one
  specification.
- `NoStaleProvisioningCorrect`, for `~Overlap` and `Careful`: by `Resolved`, a record that says
  provisioning has a message that is still to replace it (`Pending`), and no handler holds
  a provisioning record that it will save (`Resolves`). Calls that were given up are included,
  which `BindingTruthful` excludes (`lost`).

`TextChunksProofs`, for any text and any limit: `TypeOK` with `Phase`; `PiecesFit` with the
fact that pieces end before `pos` (`FitInv`), from which `OnlySpaceLost` is inductive;
`FewMessages` by `FewInv`: each cut takes half a message from the text at least, and the last
one is made while more than a whole message is left, which pays for a short rest;
`CutsBetweenWords`, which each new cut satisfies by the definition of the last index;
`SuccessIsComplete` by `WireInv`: the sends so far are a prefix of the pieces. Beyond the
properties of the run, `EveryStepCounts`: twice the characters left, the pieces to be sent and
the phase make a number that every step of the call decreases, so both loops terminate.

`MessageCryptoProofs`, for any message, AppIDs and block sizes: what was sealed is accepted
under the same AppID only and read back whole (`SealedIsRead`), and what is cut off within
what it holds is refused, whatever its last byte is taken for (`CutIsRefused`). Both rest on
division with remainder and on what `SubSeq` of a concatenation is.

`MessagePipelineProofs`, for any posts, lengths, blocks, pieces and numbers of faults:

- `TypeCorrect`.
- `GateExactCorrect` and `RepliesReadableCorrect`, by `GateInv`, which says for each place of a
  handler what has been made of its post. That the handler admits exactly the genuine envelopes
  is a lemma (`AdmitsGenuine`) from the two theorems of `MessageCryptoProofs`.
- `NoSilentLossCorrect`, by `LossInv`: a piece that is due, in a task without a logged failure,
  was received, or belongs to the callback whose answer the plugin still waits for, which has
  it before it or knows of a refusal.
- `WaitsForHandlerCorrect`: `WaitsForHandler` is inductive relative to `TypeOK`: whatever ends a
  callback handler resumes the task that waits for it, in the same step.
- `StreamCorrect`: `Spec => StreamSpec`. `StreamInv` says that only the callback of the last
  block runs, unless a connection of the task broke, and that what was received of a block was
  sent by its handler; each action is then a delivery, a break or a stutter of `AnswerStream`.
- `TasksComeToAnEnd`: `StepsLeft(p)` counts the blocks that task p may still deliver, the pieces
  of the callback it waits for and its own steps. It is a natural number (by `Counted`: no
  handler counts beyond its last piece), each step of the task or of that handler decreases it,
  and no step of anybody else, no fault and no crash increases it while the task works; a task
  that works stays at work until it is done or its VM is stopped.

Of the properties the runs check, only those of liveness are model-checked and not proved:
`EveryRequestReturns`, `ProvisioningEnds`, `EverySendEnds`, `CallReturns`, `EveryTaskEnds`.
Fairness and ENABLED are out of the prover's reach. What such a property needs of the reachable
states is proved for three of them: no stop waits for a process that nothing ends
(`WaitsForMortal`), nobody waits for a lock that no living sender will free (`LockIsReleased`),
no task waits for a handler that is gone (`WaitsForHandler`); and `NoStaleProvisioning` says of
the states in which all has come to rest what `ProvisioningEnds` says of the way there.
For `CallReturns` and `EveryTaskEnds` the rest of the argument is proved too, as the theorems
`EveryStepCounts` and `TasksComeToAnEnd`: what TLC adds is that some step of the call, or of
the task, is always enabled, and that fairness takes it.

## 5. Not modelled

- The SSH gateway. What is hard in it is what two goroutines do to one SSH channel: whether
  an exit status is forwarded before the channel is closed, and when a channel whose VM has
  closed it is closed to the client. Both are decided by the buffers and states of channels in
  `golang.org/x/crypto/ssh`, which is not in the repository, and a model of it would be a guess.
  The gateway shares with the other parts only a read of the record.
- `POST /callback/:openid/stream`: nothing in the repository calls it. It answers
  `buffered: true` and keeps nothing.
- `GET /wechat`, which compares a signature and answers; the plugin's registration.
- `GetVM`, `ListVMs`, `status`, `help`: they read and change nothing.
- `waitForVMReady` (manager.go:363): it polls and logs.
- The branch of `Stop` for a SIGTERM that fails: a process that exited but was not waited for
  accepts signals, so the branch needs a second wait for one process, which `OneStopper`
  excludes.
- Bootstrap, configuration, key generation, the image build, host scripts, the simulator: no
  state after start, or no part of the running system.

What the models have and no property speaks of, because neither code nor documents promise
anything there (`PROJECT.json` has the lines):

- WeChat repeats a post that was not answered in five seconds, and the bridge does not look at
  the message's id: one text may then become two tasks.
- A text of digits only makes the handler throw, and the text `0` becomes an empty task.
- The answers to two messages may arrive in either order and between each other's pieces.
- Overlapping messages of one user: `VMBinding` has them (`Overlap = TRUE`), and its record is
  then not truthful.

## 6. Plan

1. (done) `VMOrchestrator`, `AddressPool`, `VMRegistry`, their runs and all safety theorems.
2. (done) `VMBinding` and `AccessToken` with their theorems.
3. (done) `TextChunks`, `MessageCrypto`, `MessagePipeline`, `AnswerStream` with their theorems.
4. What is left: in `VMBinding` a restart of the bridge between the binding and its
   completion, and what overlapping messages do keep true; `MessagePipeline` composed with
   `AccessToken` as the send that may fail; the gateway, if the SSH library is taken in.
