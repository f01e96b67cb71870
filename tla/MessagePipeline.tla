-------------------------- MODULE MessagePipeline ---------------------------
(***************************************************************************)
(* A message's way from WeChat through the bridge (routes/wechat.ts,       *)
(* services/clawdbot-forwarder.ts) to the plugin in a VM                   *)
(* (clawdbot-plugin-webhook-server/src/index.ts), and its answer's way     *)
(* back through the bridge's callback route (routes/callback.ts).          *)
(*                                                                         *)
(* A post p is one HTTP request of WeChat.  hpc[p] is where its handler in *)
(* the bridge is, task[p] where the task forwarded for it is in a plugin,  *)
(* and send[<<p, b>>] the callback handler of block b of its answer, which *)
(* sends the block's pieces (TextChunks) one by one.                       *)
(***************************************************************************)
EXTENDS MessageCrypto, FiniteSets

CONSTANTS
    Posts,
    HasKey,       \* is WECHAT_ENCODING_AES_KEY set?
    Lengths,      \* of messages, in bytes
    MaxBlocks,    \* of an answer
    MaxPieces,    \* of a block
    MaxFaults     \* how often the way of an answer fails

ASSUME PipelineAssumption ==
    /\ HasKey \in BOOLEAN /\ AppId # <<>>
    /\ Lengths \subseteq Nat
    /\ {MaxBlocks, MaxPieces, MaxFaults} \subseteq Nat

VARIABLES
    genuine,          \* is it WeChat's, complete and for this account?
    late,             \* posts that WeChat has given up and repeated
    hpc, message,     \* the handler of the post, and its message while it runs
    told,             \* what WeChat has read as its answer
    task, blocks,     \* the task and how many blocks its answer has so far
    send,             \* the callback handlers
    due, got,         \* the pieces of its answer: to be sent, and received by the user
    logged,           \* tasks for which the plugin has logged a failure
    broken,           \* tasks whose connection to the bridge has broken
    faults            \* how many there were

post   == <<genuine, late>>
bridge == <<hpc, message, told>>
plugin == <<task, blocks, due, logged, broken>>
vars == <<post, bridge, plugin, send, got, faults>>

-----------------------------------------------------------------------------
Kinds  == {"text", "zero", "number", "command", "event"}
Tolds  == {"nothing", "refused", "answered", "garbled"}
HPcs   == {"none", "command", "route", "touch", "done"}
TPcs   == {"none", "posted", "empty", "session", "agent", "posting", "done", "gone"}
Blocks == 1..MaxBlocks
Places == Blocks \X (1..MaxPieces)

\* A callback handler: the piece to send next, of how many, were all accepted so far?
Sending == [next : 1..(MaxPieces + 1), of : 1..MaxPieces, ok : BOOLEAN]
NoSend  == [next |-> 1, of |-> 0, ok |-> TRUE]

TaskTo(p, place) == task' = [task EXCEPT ![p] = place]
Busy(p) == hpc[p] \in {"command", "route", "touch"}
Fail    == faults < MaxFaults /\ faults' = faults + 1
Log(p)  == logged' = logged \cup {p}

NoMessage == [kind |-> "event", sealed |-> FALSE]

Text(n) == [i \in 1..n |-> 1]

\* What may arrive: plain and sealed messages of WeChat, and others.
Plain == [genuine |-> TRUE, complete |-> TRUE, signed |-> TRUE, parses |-> TRUE,
          encrypted |-> FALSE, body |-> <<>>, bodySigned |-> TRUE]
SealedFor(n, app) ==
    [Plain EXCEPT !.encrypted = TRUE, !.body = Encrypt(Text(n), app)]

\* Cut off within what it holds, at the end of a cipher block.
Cut(e) ==
    LET n == Cipher * ((Len(Unpad(e.body)) - 1) \div Cipher)
    IN [e EXCEPT !.genuine = FALSE, !.body = SubSeq(@, 1, n)]

Unsigned(e) == [e EXCEPT !.genuine = FALSE, !.bodySigned = FALSE]
Spoilt(e) == {[e EXCEPT !.genuine = FALSE, !.complete = FALSE],
              [e EXCEPT !.genuine = FALSE, !.signed = FALSE],
              [e EXCEPT !.genuine = FALSE, !.parses = FALSE]}

Sealed  == {SealedFor(n, AppId) : n \in Lengths}
Foreign == {[SealedFor(n, app) EXCEPT !.genuine = FALSE] :
              n \in Lengths, app \in {<<>>, Tail(AppId), AppId \o AppId}}

Envelopes ==
    {Plain} \cup Sealed \cup Foreign \cup {Cut(e) : e \in Sealed} \cup {Unsigned(e) : e \in Sealed}
    \cup (UNION {Spoilt(e) : e \in Sealed \cup {Plain}})

Init ==
    /\ genuine = [p \in Posts |-> TRUE] /\ late = {}
    /\ hpc = [p \in Posts |-> "none"] /\ message = [p \in Posts |-> NoMessage]
    /\ told = [p \in Posts |-> "nothing"]
    /\ task = [p \in Posts |-> "none"] /\ blocks = [p \in Posts |-> 0]
    /\ send = [s \in Posts \X Blocks |-> NoSend]
    /\ due = [p \in Posts |-> {}] /\ got = [p \in Posts |-> <<>>]
    /\ logged = {} /\ broken = {} /\ faults = 0

-----------------------------------------------------------------------------
(* The bridge: a message arrives *)

\* The handler's checks, each of which ends it with 400, 403 or 500.  The body's own
\* signature is optional.
Admits(e) ==
    /\ e.complete /\ e.signed
    /\ e.encrypted =>
        /\ HasKey /\ e.body # <<>> /\ e.bodySigned
        /\ Decrypts(e.body, AppId)
    /\ e.parses

\* The handler ends with the answer a, which WeChat reads if it still waits for it.
EndHandler(p, a) ==
    /\ hpc' = [hpc EXCEPT ![p] = "done"]
    /\ message' = [message EXCEPT ![p] = NoMessage]
    /\ told' = IF p \in late THEN told ELSE [told EXCEPT ![p] = a]

\* What WeChat makes of a reply of n bytes: sendReply seals it if the message was sealed.
Read(p, n) ==
    LET body == Encrypt(Text(n), AppId) IN
    IF message[p].sealed => Decrypts(body, AppId) /\ Decrypt(body) = Text(n)
    THEN "answered" ELSE "garbled"

\* sendReply
Reply(p) == \E n \in Lengths : EndHandler(p, Read(p, n))

\* Where a message goes.  The XML parser turns a text of digits into a number: trim throws
\* on it, unless it is 0, which is taken for no text.  An event that is not "subscribe" is
\* answered with nothing; "command" stands for "subscribe" and the commands, whose effects
\* VMBinding has.
Dispatch(p, m) ==
    \/ /\ m.kind \in {"text", "zero", "command"}
       /\ hpc' = [hpc EXCEPT ![p] = IF m.kind = "command" THEN "command" ELSE "route"]
       /\ message' = [message EXCEPT ![p] = m]
       /\ UNCHANGED told
    \/ m.kind \in {"number", "event"} /\ EndHandler(p, "answered")

Receive(p, e, k) ==
    /\ hpc[p] = "none"
    /\ genuine' = [genuine EXCEPT ![p] = e.genuine /\ (e.encrypted => HasKey)]
    /\ \/ Admits(e) /\ Dispatch(p, [kind |-> k, sealed |-> e.encrypted])
       \/ ~Admits(e) /\ EndHandler(p, "refused")
    /\ UNCHANGED <<late, plugin, send, got, faults>>

\* WeChat posts a message again that was not answered within five seconds; MsgId is not
\* looked at.
Repeat(p, q) ==
    /\ hpc[p] = "none" /\ Busy(q) /\ q \notin late
    /\ late' = late \cup {q}
    /\ genuine' = [genuine EXCEPT ![p] = genuine[q]]
    /\ Dispatch(p, message[q])
    /\ UNCHANGED <<plugin, send, got, faults>>

\* A command is answered when its handler comes to its end, late or not.
EndCommand(p) ==
    /\ hpc[p] = "command" /\ Reply(p)
    /\ UNCHANGED <<post, plugin, send, got, faults>>

\* The binding may have any status; VMBinding says when it has which.
Route(p) ==
    /\ hpc[p] = "route"
    /\ \/ hpc' = [hpc EXCEPT ![p] = "touch"] /\ UNCHANGED <<message, told>>
       \/ Reply(p)
    /\ UNCHANGED <<post, plugin, send, got, faults>>

\* Redis fails, in any handler that reads or writes the binding; Fastify's error handler
\* answers with a plain 500.
HandlerThrows(p) ==
    /\ Busy(p) /\ EndHandler(p, "answered")
    /\ UNCHANGED <<post, plugin, send, got, faults>>

\* doForward posts a task made of the message; the number 0 makes an empty one.
PostTask(p) == TaskTo(p, IF message[p].kind = "zero" THEN "empty" ELSE "posted")

\* After the update of the binding: forwardToClawdbot, not awaited, and the reply.
Forward(p) ==
    /\ hpc[p] = "touch" /\ Reply(p) /\ PostTask(p)
    /\ UNCHANGED <<post, blocks, due, logged, broken, send, got, faults>>

\* The request does not reach a webhook: no VM there, or ten seconds are over.
LoseRequest(p) ==
    /\ task[p] \in {"posted", "empty"} /\ TaskTo(p, "none")
    /\ UNCHANGED <<post, bridge, blocks, due, logged, broken, send, got, faults>>

-----------------------------------------------------------------------------
(* The plugin *)

\* 202, then processMessageWithPipeline in the background; 400 without a text.
HandleWebhook(p) ==
    /\ \/ task[p] = "posted" /\ TaskTo(p, "session")
       \/ task[p] = "empty" /\ TaskTo(p, "none")
    /\ UNCHANGED <<post, bridge, blocks, due, logged, broken, send, got, faults>>

\* recordInboundSession may throw.  A runtime that makes no context of the message ends
\* the task without a word.
RecordSession(p) ==
    /\ task[p] = "session"
    /\ \/ \E place \in {"agent", "done"} : TaskTo(p, place) /\ UNCHANGED <<logged, faults>>
       \/ TaskTo(p, "done") /\ Log(p) /\ Fail
    /\ UNCHANGED <<post, bridge, blocks, due, broken, send, got>>

\* The agent has a block, which deliverWeChatReply posts unless it has no text; the
\* dispatcher waits for one block before the next.  The post may not reach the bridge, or
\* Redis fails there before anything is sent.
Deliver(p) ==
    /\ task[p] = "agent" /\ blocks[p] < MaxBlocks
    /\ blocks' = [blocks EXCEPT ![p] = @ + 1]
    /\ \E n \in 0..MaxPieces :
        /\ due' = [due EXCEPT ![p] = @ \cup ({blocks[p] + 1} \X (1..n))]
        /\ \/ n = 0 /\ UNCHANGED <<task, send, logged, faults>>
           \/ n > 0 /\ Log(p) /\ Fail /\ UNCHANGED <<task, send>>
           \/ /\ n > 0 /\ TaskTo(p, "posting") /\ UNCHANGED <<logged, faults>>
              /\ send' = [send EXCEPT ![<<p, blocks[p] + 1>>] =
                            [next |-> 1, of |-> n, ok |-> TRUE]]
    /\ UNCHANGED <<post, bridge, broken, got>>

\* The agent has nothing more to say, or fails, which the dispatcher logs.
EndTask(p) ==
    /\ task[p] = "agent" /\ TaskTo(p, "done")
    /\ \/ UNCHANGED <<logged, faults>>
       \/ Log(p) /\ Fail
    /\ UNCHANGED <<post, bridge, blocks, due, broken, send, got>>

\* The connection of a callback breaks: the plugin logs that and goes on, and so does the
\* bridge, which does not know.
Break(p) ==
    /\ task[p] = "posting" /\ TaskTo(p, "agent")
    /\ broken' = broken \cup {p} /\ Log(p) /\ Fail
    /\ UNCHANGED <<post, bridge, blocks, due, send, got>>

\* VMs are stopped, or their gateways die, with the tasks in them.
StopVMs(tasks) ==
    /\ tasks # {}
    /\ \A p \in tasks : task[p] \in {"session", "agent", "posting"}
    /\ task' = [p \in Posts |-> IF p \in tasks THEN "gone" ELSE task[p]]
    /\ UNCHANGED <<post, bridge, blocks, due, logged, broken, send, got, faults>>

-----------------------------------------------------------------------------
(* The bridge: an answer arrives *)

Active(p, b) == send[<<p, b>>].of > 0

\* Mutant: a piece that was refused is sent again.
RetryPiece(s, ok) == IF ok THEN [s EXCEPT !.next = @ + 1] ELSE s

\* Mutant: a refusal costs the next piece, too.
SkipPiece(s, ok) == [s EXCEPT !.next = @ + (IF ok THEN 1 ELSE 2), !.ok = @ /\ ok]

\* sendTextMessage goes on after a piece that was refused.
NextPiece(s, ok) == [s EXCEPT !.next = @ + 1, !.ok = @ /\ ok]

\* sendCustomerServiceMessage with one piece.  WeChat may have taken what the bridge
\* thinks was refused.
SendPiece(p, b) ==
    LET s == send[<<p, b>>] IN
    /\ Active(p, b) /\ s.next <= s.of
    /\ \E taken, ok \in BOOLEAN :
        /\ ok => taken
        /\ IF ok THEN UNCHANGED faults ELSE Fail
        /\ send' = [send EXCEPT ![<<p, b>>] = NextPiece(s, ok)]
        /\ got' = IF taken THEN [got EXCEPT ![p] = Append(@, <<b, s.next>>)] ELSE got
    /\ UNCHANGED <<post, bridge, plugin>>

\* Mutant: the result is logged, and the answer is 200.
AlwaysOk(s) == TRUE

\* 200 if every piece was accepted, 500 otherwise.
AnswerOk(s) == s.ok

\* Mutant: a callback that failed is never answered.
AwaitedIfSent(p, b) == task[p] = "posting" /\ blocks[p] = b /\ send[<<p, b>>].ok

\* The plugin waits for the answer to block b.
Awaited(p, b) == task[p] = "posting" /\ blocks[p] = b

\* The answer of the callback route.
EndCallback(p, b) ==
    LET s == send[<<p, b>>] IN
    /\ Active(p, b) /\ s.next > s.of
    /\ send' = [send EXCEPT ![<<p, b>>] = NoSend]
    /\ task' = IF Awaited(p, b) THEN [task EXCEPT ![p] = "agent"] ELSE task
    /\ logged' = IF Awaited(p, b) /\ ~AnswerOk(s) THEN logged \cup {p} ELSE logged
    /\ UNCHANGED <<post, bridge, blocks, due, broken, got, faults>>

\* The bridge dies with all its handlers, which the plugins' open connections notice.
CrashBridge ==
    /\ Fail
    /\ hpc' = [p \in Posts |-> IF Busy(p) THEN "done" ELSE hpc[p]]
    /\ message' = [p \in Posts |-> NoMessage]
    /\ send' = [s \in Posts \X Blocks |-> NoSend]
    /\ task' = [p \in Posts |-> IF task[p] = "posting" THEN "agent" ELSE task[p]]
    /\ logged' = logged \cup {p \in Posts : task[p] = "posting"}
    /\ UNCHANGED <<post, told, blocks, due, broken, got>>

-----------------------------------------------------------------------------
HandlerStep(p) == EndCommand(p) \/ Route(p) \/ Forward(p) \/ HandlerThrows(p)
TaskStep(p)    == RecordSession(p) \/ Deliver(p) \/ EndTask(p)
SendStep(p, b) == SendPiece(p, b) \/ EndCallback(p, b)

Next ==
    \/ \E p \in Posts :
        \/ \E e \in Envelopes, k \in Kinds : Receive(p, e, k)
        \/ \E q \in Posts : Repeat(p, q)
        \/ HandlerStep(p)
        \/ LoseRequest(p)
        \/ HandleWebhook(p)
        \/ TaskStep(p)
        \/ Break(p)
        \/ \E b \in Blocks : SendStep(p, b)
    \/ \E tasks \in SUBSET Posts : StopVMs(tasks)
    \/ CrashBridge

Spec == Init /\ [][Next]_vars

\* Node runs the handlers of the bridge and of the plugin, whose awaits come back; nobody
\* has to write and nothing has to fail.
FairSpec ==
    /\ Spec
    /\ \A p \in Posts :
        /\ WF_vars(HandlerStep(p)) /\ WF_vars(TaskStep(p))
        /\ WF_vars(HandleWebhook(p))
        /\ \A b \in Blocks : WF_vars(SendStep(p, b))

-----------------------------------------------------------------------------
(* Properties *)

TypeOK ==
    /\ genuine \in [Posts -> BOOLEAN] /\ late \subseteq Posts
    /\ hpc \in [Posts -> HPcs] /\ told \in [Posts -> Tolds]
    /\ message \in [Posts -> [kind : Kinds, sealed : BOOLEAN]]
    /\ task \in [Posts -> TPcs] /\ blocks \in [Posts -> 0..MaxBlocks]
    /\ send \in [Posts \X Blocks -> Sending \cup {NoSend}]
    /\ due \in [Posts -> SUBSET Places]
    /\ got \in [Posts -> Seq(Places)]
    /\ logged \subseteq Posts /\ broken \subseteq Posts
    /\ faults \in 0..MaxFaults

\* A message is refused if and only if it is not WeChat's for this account, however long
\* it is; and only what was not refused is worked on.
GateExact ==
    \A p \in Posts :
        /\ hpc[p] # "none" => (told[p] = "refused" <=> ~genuine[p])
        /\ task[p] # "none" => genuine[p]

\* What the bridge answers, sealed or not, can be read by WeChat.
RepliesReadable == \A p \in Posts : told[p] # "garbled"

\* A task whose plugin has logged no failure is one whose whole answer the user has: the
\* results of the pieces come back through the callback's status.
NoSilentLoss ==
    \A p \in Posts : task[p] = "done" /\ p \notin logged =>
        \A a \in due[p] : \E k \in DOMAIN got[p] : got[p][k] = a

\* A task that waits, waits for a handler that runs in the bridge for the block it posted
\* last: the handler ends, or the connection, or the bridge, and each of these resumes the
\* task, though handlers of earlier blocks may still run beside it.
WaitsForHandler ==
    \A p \in Posts : task[p] = "posting" => blocks[p] \in Blocks /\ Active(p, blocks[p])

\* AnswerStream: once at most, in order.
Stream == INSTANCE AnswerStream WITH Tasks <- Posts

StreamSpec == Stream!Spec

\* An accepted task comes to an end: no block waits for ever for its callback.
EveryTaskEnds == \A p \in Posts :
    task[p] \in {"session", "agent", "posting"} ~> task[p] \in {"done", "gone"}
=============================================================================
