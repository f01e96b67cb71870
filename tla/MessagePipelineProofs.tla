------------------------ MODULE MessagePipelineProofs -------------------------
(* Theorems about MessagePipeline for any posts, lengths, blocks, pieces and faults. *)
EXTENDS MessagePipeline, MessageCryptoProofs

-----------------------------------------------------------------------------
(* What may arrive *)

\* The fields of a sealed message.
LEMMA SealedFields ==
    ASSUME NEW n, NEW app, NEW e, e = SealedFor(n, app)
    PROVE  /\ e.genuine = TRUE /\ e.complete = TRUE /\ e.signed = TRUE /\ e.parses = TRUE
           /\ e.encrypted = TRUE /\ e.bodySigned = TRUE
           /\ e.body = Encrypt(Text(n), app)
BY DEF SealedFor, Plain

LEMMA TextIsSeq == \A n \in Nat : Text(n) \in Seq(Nat)
<1> SUFFICES ASSUME NEW n \in Nat PROVE Text(n) \in Seq(Nat)
  OBVIOUS
<1>1. [i \in 1..n |-> 1] \in [1..n -> Nat]
  OBVIOUS
<1> QED BY <1>1 DEF Text

\* The handler's checks let in what is WeChat's and can be opened, and nothing else.
LEMMA AdmitsGenuine ==
    ASSUME NEW e \in Envelopes
    PROVE  /\ e.encrypted \in BOOLEAN
           /\ Admits(e) <=> e.genuine /\ (e.encrypted => HasKey)
<1>1. AppId \in Seq(Nat) /\ AppId # <<>> /\ Lengths \subseteq Nat
      /\ Cipher \in Nat /\ Cipher > 0
  BY CryptoAssumption, PipelineAssumption
<1>2. CASE e = Plain
  BY <1>2 DEF Plain, Admits
<1>3. CASE e \in Sealed
  <2>1. PICK n \in Lengths : e = SealedFor(n, AppId)
    BY <1>3 DEF Sealed
  <2>2. Text(n) \in Seq(Nat)
    BY <1>1, TextIsSeq
  <2>3. Decrypts(e.body, AppId) /\ e.body # <<>>
    <3>1. e.body = Encrypt(Text(n), AppId)
      BY <2>1, SealedFields
    <3>2. Decrypts(Encrypt(Text(n), AppId), AppId)
      BY <1>1, <2>2, SealedIsRead
    <3> QED BY <3>1, <3>2 DEF Decrypts
  <2> QED BY <2>1, <2>3, SealedFields DEF Admits
<1>4. CASE e \in Foreign
  <2>1. PICK n \in Lengths, app \in {<<>>, Tail(AppId), AppId \o AppId} :
            e = [SealedFor(n, app) EXCEPT !.genuine = FALSE]
    BY <1>4 DEF Foreign
  <2>2. app \in Seq(Nat) /\ app # AppId
    <3>1. CASE app = <<>>
      BY <1>1, <3>1
    <3>2. CASE app = Tail(AppId)
      <4>1. Len(AppId) \in Nat /\ app \in Seq(Nat) /\ Len(app) = Len(AppId) - 1
        BY <1>1, <3>2, HeadTailProperties
      <4> QED BY <4>1
    <3>3. CASE app = AppId \o AppId
      <4>1. AppId \o AppId \in Seq(Nat)
        BY <1>1, ConcatProperties
      <4>2. AppId \o AppId # AppId
        BY <1>1, ConcatEqualIffEmpty
      <4> QED BY <3>3, <4>1, <4>2
    <3> QED BY <3>1, <3>2, <3>3
  <2>3. ~Decrypts(Encrypt(Text(n), app), AppId)
    <3>1. Text(n) \in Seq(Nat)
      BY <1>1, TextIsSeq
    <3> QED BY <1>1, <2>2, <3>1, SealedIsRead
  <2>4. e.encrypted = TRUE /\ e.genuine = FALSE /\ e.body = Encrypt(Text(n), app)
    BY <2>1 DEF SealedFor, Plain
  <2> QED BY <2>3, <2>4 DEF Admits
<1>5. CASE \E f \in Sealed : e = Cut(f)
  <2>1. PICK n \in Lengths : e = Cut(SealedFor(n, AppId))
    BY <1>5 DEF Sealed
  <2>2. PICK whole : whole = SealedFor(n, AppId)
    OBVIOUS
  <2>3. PICK m \in Nat :
            /\ m = Cipher * ((Len(Unpad(whole.body)) - 1) \div Cipher)
            /\ m < Len(Unpad(whole.body))
    <3>1. PICK l \in Nat : l = Len(Unpad(whole.body)) - 1
      <4>1. Text(n) \in Seq(Nat)
        BY <1>1, TextIsSeq
      <4>2. whole.body = Pad(Layout(Text(n), AppId))
        BY <2>2, SealedFields DEF Encrypt, Layout
      <4>3. Layout(Text(n), AppId) \in Seq(Nat) /\ Len(Layout(Text(n), AppId)) >= 2
        <5>1. /\ Layout(Text(n), AppId) \in Seq(Nat)
              /\ Len(Layout(Text(n), AppId)) = 2 + Len(Text(n)) + Len(AppId)
          BY <1>1, <4>1, SealedLayout
        <5>2. Len(Text(n)) \in Nat /\ Len(AppId) \in Nat
          BY <1>1, <4>1
        <5> QED BY <5>1, <5>2
      <4>4. Unpad(whole.body) = Layout(Text(n), AppId)
        BY <4>2, <4>3, PaddingComesOff
      <4>5. Len(Layout(Text(n), AppId)) \in Nat
        BY <4>3
      <4> QED BY <4>3, <4>4, <4>5
    <3>2. /\ l = Cipher * (l \div Cipher) + (l % Cipher)
          /\ l \div Cipher \in Nat /\ l % Cipher \in Nat
      BY <1>1, Division
    <3>3. Cipher * (l \div Cipher) \in Nat
      BY <1>1, <3>2
    <3>4. Len(Unpad(whole.body)) = l + 1
      BY <3>1
    <3> QED BY <3>1, <3>2, <3>3, <3>4
  <2>4. /\ e.encrypted = TRUE /\ e.genuine = FALSE
        /\ e.body = SubSeq(whole.body, 1, m)
    BY <2>1, <2>2, <2>3 DEF Cut, SealedFor, Plain
  <2>5. ~(e.body # <<>> /\ Decrypts(e.body, AppId))
    <3>1. Text(n) \in Seq(Nat) /\ whole.body = Encrypt(Text(n), AppId)
      BY <1>1, <2>2, TextIsSeq, SealedFields
    <3> QED BY <1>1, <2>3, <2>4, <3>1, CutIsRefused
  <2> QED BY <2>4, <2>5 DEF Admits
<1>6. CASE \E f \in Sealed : e = Unsigned(f)
  <2>1. e.encrypted = TRUE /\ e.genuine = FALSE /\ e.bodySigned = FALSE
    BY <1>6 DEF Unsigned, Sealed, SealedFor, Plain
  <2> QED BY <2>1 DEF Admits
<1>7. CASE \E f \in Sealed \cup {Plain} : e \in Spoilt(f)
  <2>1. PICK f \in Sealed \cup {Plain} : e \in Spoilt(f)
    BY <1>7
  <2>2. CASE f = Plain
    BY <2>1, <2>2 DEF Plain, Spoilt, Admits
  <2>3. CASE f \in Sealed
    <3>1. PICK n \in Lengths : f = SealedFor(n, AppId)
      BY <2>3 DEF Sealed
    <3>2. /\ e.genuine = FALSE /\ e.encrypted = TRUE
          /\ e.complete = FALSE \/ e.signed = FALSE \/ e.parses = FALSE
      BY <2>1, <3>1 DEF Spoilt, SealedFor, Plain
    <3> QED BY <3>2 DEF Admits
  <2> QED BY <2>1, <2>2, <2>3
<1>8. \/ e = Plain \/ e \in Sealed \/ e \in Foreign
      \/ \E f \in Sealed : e = Cut(f)
      \/ \E f \in Sealed : e = Unsigned(f)
      \/ \E f \in Sealed \cup {Plain} : e \in Spoilt(f)
  BY Zenon DEF Envelopes
<1> QED BY <1>2, <1>3, <1>4, <1>5, <1>6, <1>7, <1>8

-----------------------------------------------------------------------------
(* Types *)

LEMMA HandlerEndTyped ==
    ASSUME TypeOK, NEW p \in Posts, NEW a \in Tolds, EndHandler(p, a)
    PROVE  /\ hpc' \in [Posts -> HPcs] /\ told' \in [Posts -> Tolds]
           /\ message' \in [Posts -> [kind : Kinds, sealed : BOOLEAN]]
<1>1. NoMessage \in [kind : Kinds, sealed : BOOLEAN]
  BY DEF NoMessage, Kinds
<1>2. "done" \in HPcs
  BY DEF HPcs
<1> QED BY <1>1, <1>2 DEF TypeOK, EndHandler

LEMMA ReplyTyped ==
    ASSUME TypeOK, NEW p \in Posts, Reply(p)
    PROVE  /\ hpc' \in [Posts -> HPcs] /\ told' \in [Posts -> Tolds]
           /\ message' \in [Posts -> [kind : Kinds, sealed : BOOLEAN]]
<1>1. PICK n \in Lengths : EndHandler(p, Read(p, n))
  BY DEF Reply
<1>2. Read(p, n) \in Tolds
  BY DEF Read, Tolds
<1> QED BY <1>1, <1>2, HandlerEndTyped

LEMMA DispatchTyped ==
    ASSUME TypeOK, NEW p \in Posts, NEW m \in [kind : Kinds, sealed : BOOLEAN], Dispatch(p, m)
    PROVE  /\ hpc' \in [Posts -> HPcs] /\ told' \in [Posts -> Tolds]
           /\ message' \in [Posts -> [kind : Kinds, sealed : BOOLEAN]]
<1>1. CASE m.kind \in {"number", "event"} /\ EndHandler(p, "answered")
  BY <1>1, HandlerEndTyped DEF Tolds
<1>2. CASE /\ m.kind \in {"text", "zero", "command"}
           /\ hpc' = [hpc EXCEPT ![p] = IF m.kind = "command" THEN "command" ELSE "route"]
           /\ message' = [message EXCEPT ![p] = m]
           /\ UNCHANGED told
  BY <1>2 DEF TypeOK, HPcs
<1> QED BY <1>1, <1>2 DEF Dispatch

LEMMA BoundsNat == MaxBlocks \in Nat /\ MaxPieces \in Nat /\ MaxFaults \in Nat
BY PipelineAssumption

LEMMA FailTyped == ASSUME TypeOK, Fail PROVE faults' \in 0..MaxFaults
BY BoundsNat DEF TypeOK, Fail

LEMMA TypeInit == Init => TypeOK
<1> SUFFICES ASSUME Init PROVE TypeOK
  OBVIOUS
<1>1. NoMessage \in [kind : Kinds, sealed : BOOLEAN]
  BY DEF NoMessage, Kinds
<1>2. 0 \in 0..MaxBlocks /\ 0 \in 0..MaxFaults
  BY BoundsNat
<1>3. <<>> \in Seq(Places)
  OBVIOUS
<1> QED BY <1>1, <1>2, <1>3 DEF Init, TypeOK, HPcs, Tolds, TPcs

LEMMA TypeStep == TypeOK /\ [Next]_vars => TypeOK'
<1> SUFFICES ASSUME TypeOK, [Next]_vars PROVE TypeOK'
  OBVIOUS
<1> USE DEF post, bridge, plugin, TaskTo, Log
<1>1. ASSUME NEW p \in Posts, NEW e \in Envelopes, NEW k \in Kinds, Receive(p, e, k)
      PROVE  TypeOK'
  <2>1. e.encrypted \in BOOLEAN
    BY AdmitsGenuine
  <2>2. /\ hpc' \in [Posts -> HPcs] /\ told' \in [Posts -> Tolds]
        /\ message' \in [Posts -> [kind : Kinds, sealed : BOOLEAN]]
    <3>1. CASE Dispatch(p, [kind |-> k, sealed |-> e.encrypted])
      <4>1. [kind |-> k, sealed |-> e.encrypted] \in [kind : Kinds, sealed : BOOLEAN]
        BY <2>1
      <4> QED BY <3>1, <4>1, DispatchTyped
    <3>2. CASE EndHandler(p, "refused")
      BY <3>2, HandlerEndTyped DEF Tolds
    <3> QED BY <1>1, <3>1, <3>2 DEF Receive
  <2>3. genuine' \in [Posts -> BOOLEAN]
    BY <1>1 DEF Receive, TypeOK
  <2> QED BY <1>1, <2>2, <2>3 DEF Receive, TypeOK
<1>2. ASSUME NEW p \in Posts, NEW q \in Posts, Repeat(p, q) PROVE TypeOK'
  <2>1. message[q] \in [kind : Kinds, sealed : BOOLEAN] /\ genuine[q] \in BOOLEAN
    BY DEF TypeOK
  <2>2. /\ hpc' \in [Posts -> HPcs] /\ told' \in [Posts -> Tolds]
        /\ message' \in [Posts -> [kind : Kinds, sealed : BOOLEAN]]
    BY <1>2, <2>1, DispatchTyped DEF Repeat
  <2> QED BY <1>2, <2>1, <2>2 DEF Repeat, TypeOK
<1>3. ASSUME NEW p \in Posts, EndCommand(p) PROVE TypeOK'
  BY <1>3, ReplyTyped DEF EndCommand, TypeOK
<1>4. ASSUME NEW p \in Posts, Route(p) PROVE TypeOK'
  <2>1. CASE Reply(p)
    BY <1>4, <2>1, ReplyTyped DEF Route, TypeOK
  <2>2. CASE hpc' = [hpc EXCEPT ![p] = "touch"] /\ UNCHANGED <<message, told>>
    BY <1>4, <2>2 DEF Route, TypeOK, HPcs
  <2> QED BY <1>4, <2>1, <2>2 DEF Route
<1>5. ASSUME NEW p \in Posts, Forward(p) PROVE TypeOK'
  <2>1. task' \in [Posts -> TPcs]
    BY <1>5 DEF Forward, PostTask, TypeOK, TPcs
  <2> QED BY <1>5, <2>1, ReplyTyped DEF Forward, TypeOK
<1>6. ASSUME NEW p \in Posts, HandlerThrows(p) PROVE TypeOK'
  BY <1>6, HandlerEndTyped DEF HandlerThrows, TypeOK, Tolds
<1>7. ASSUME NEW p \in Posts, LoseRequest(p) PROVE TypeOK'
  BY <1>7 DEF LoseRequest, TypeOK, TPcs
<1>8. ASSUME NEW p \in Posts, HandleWebhook(p) PROVE TypeOK'
  BY <1>8 DEF HandleWebhook, TypeOK, TPcs
<1>9. ASSUME NEW p \in Posts, RecordSession(p) PROVE TypeOK'
  <2>1. task' \in [Posts -> TPcs] /\ logged' \subseteq Posts
    BY <1>9 DEF RecordSession, TypeOK, TPcs
  <2>2. faults' \in 0..MaxFaults
    BY <1>9, FailTyped DEF RecordSession, TypeOK
  <2> QED BY <1>9, <2>1, <2>2 DEF RecordSession, TypeOK
<1>10. ASSUME NEW p \in Posts, Deliver(p) PROVE TypeOK'
  <2>1. blocks[p] + 1 \in Blocks /\ blocks' \in [Posts -> 0..MaxBlocks]
    BY <1>10, BoundsNat DEF Deliver, TypeOK, Blocks
  <2>2. PICK n \in 0..MaxPieces :
            /\ due' = [due EXCEPT ![p] = @ \cup ({blocks[p] + 1} \X (1..n))]
            /\ \/ n = 0 /\ UNCHANGED <<task, send, logged, faults>>
               \/ n > 0 /\ Log(p) /\ Fail /\ UNCHANGED <<task, send>>
               \/ /\ n > 0 /\ TaskTo(p, "posting") /\ UNCHANGED <<logged, faults>>
                  /\ send' = [send EXCEPT ![<<p, blocks[p] + 1>>] =
                                [next |-> 1, of |-> n, ok |-> TRUE]]
    BY <1>10 DEF Deliver
  <2>3. {blocks[p] + 1} \X (1..n) \subseteq Places
    BY <2>1, <2>2, BoundsNat DEF Places
  <2>4. due' \in [Posts -> SUBSET Places]
    BY <2>2, <2>3 DEF TypeOK
  <2>5. n > 0 => [next |-> 1, of |-> n, ok |-> TRUE] \in Sending
    BY <2>2, BoundsNat DEF Sending
  <2>6. /\ task' \in [Posts -> TPcs] /\ logged' \subseteq Posts
        /\ send' \in [Posts \X Blocks -> Sending \cup {NoSend}]
    <3>1. PICK start : start = [next |-> 1, of |-> n, ok |-> TRUE]
      OBVIOUS
    <3>2. CASE n = 0 /\ UNCHANGED <<task, send, logged, faults>>
      BY <3>2 DEF TypeOK
    <3>3. CASE n > 0 /\ Log(p) /\ Fail /\ UNCHANGED <<task, send>>
      BY <3>3 DEF TypeOK
    <3>4. CASE /\ n > 0 /\ TaskTo(p, "posting") /\ UNCHANGED <<logged, faults>>
               /\ send' = [send EXCEPT ![<<p, blocks[p] + 1>>] = start]
      <4>1. start \in Sending
        BY <2>5, <3>1, <3>4
      <4> QED BY <2>1, <3>4, <4>1 DEF TypeOK, TPcs
    <3> QED BY <2>2, <3>1, <3>2, <3>3, <3>4
  <2>7. faults' \in 0..MaxFaults
    BY <2>2, FailTyped DEF TypeOK
  <2> QED BY <1>10, <2>1, <2>4, <2>6, <2>7 DEF Deliver, TypeOK
<1>11. ASSUME NEW p \in Posts, EndTask(p) PROVE TypeOK'
  <2>1. task' \in [Posts -> TPcs] /\ logged' \subseteq Posts
    BY <1>11 DEF EndTask, TypeOK, TPcs
  <2>2. faults' \in 0..MaxFaults
    BY <1>11, FailTyped DEF EndTask, TypeOK
  <2> QED BY <1>11, <2>1, <2>2 DEF EndTask, TypeOK
<1>12. ASSUME NEW p \in Posts, Break(p) PROVE TypeOK'
  <2>1. task' \in [Posts -> TPcs] /\ logged' \subseteq Posts /\ broken' \subseteq Posts
    BY <1>12 DEF Break, TypeOK, TPcs
  <2> QED BY <1>12, <2>1, FailTyped DEF Break, TypeOK
<1>13. ASSUME NEW p \in Posts, NEW b \in Blocks, SendPiece(p, b) PROVE TypeOK'
  <2>1. PICK s : s = send[<<p, b>>]
    OBVIOUS
  <2>2. s \in Sending /\ s.next \in 1..s.of
    <3>1. s \in Sending \cup {NoSend} /\ s.of > 0 /\ s.next <= s.of
      BY <1>13, <2>1 DEF SendPiece, Active, TypeOK
    <3> QED BY <3>1 DEF NoSend, Sending
  <2>3. PICK taken \in BOOLEAN, ok \in BOOLEAN :
            /\ IF ok THEN UNCHANGED faults ELSE Fail
            /\ send' = [send EXCEPT ![<<p, b>>] = NextPiece(s, ok)]
            /\ got' = IF taken THEN [got EXCEPT ![p] = Append(@, <<b, s.next>>)] ELSE got
    BY <1>13, <2>1 DEF SendPiece
  <2>4. NextPiece(s, ok) \in Sending
    <3>1. PICK n : n = s.next + 1 /\ n \in 1..(MaxPieces + 1)
      BY <2>2, BoundsNat DEF Sending
    <3>2. PICK o : o = (s.ok /\ ok) /\ o \in BOOLEAN
      OBVIOUS
    <3>3. NextPiece(s, ok) = [s EXCEPT !.next = n, !.ok = o]
      BY <3>1, <3>2, Zenon DEF NextPiece
    <3> QED BY <2>2, <3>1, <3>2, <3>3 DEF Sending
  <2>5. send' \in [Posts \X Blocks -> Sending \cup {NoSend}]
    BY <2>3, <2>4 DEF TypeOK
  <2>6. <<b, s.next>> \in Places
    BY <2>2, BoundsNat DEF Places, Sending
  <2>7. got' \in [Posts -> Seq(Places)]
    BY <2>3, <2>6 DEF TypeOK
  <2>8. faults' \in 0..MaxFaults
    BY <2>3, FailTyped DEF TypeOK
  <2> QED BY <1>13, <2>5, <2>7, <2>8 DEF SendPiece, TypeOK
<1>14. ASSUME NEW p \in Posts, NEW b \in Blocks, EndCallback(p, b) PROVE TypeOK'
  <2>1. task' \in [Posts -> TPcs] /\ logged' \subseteq Posts
    BY <1>14 DEF EndCallback, TypeOK, TPcs
  <2>2. send' \in [Posts \X Blocks -> Sending \cup {NoSend}]
    BY <1>14 DEF EndCallback, TypeOK
  <2> QED BY <1>14, <2>1, <2>2 DEF EndCallback, TypeOK
<1>15. ASSUME NEW tasks \in SUBSET Posts, StopVMs(tasks) PROVE TypeOK'
  BY <1>15 DEF StopVMs, TypeOK, TPcs
<1>16. ASSUME CrashBridge PROVE TypeOK'
  <2>1. NoMessage \in [kind : Kinds, sealed : BOOLEAN]
    BY DEF NoMessage, Kinds
  <2>2. /\ hpc' \in [Posts -> HPcs] /\ task' \in [Posts -> TPcs]
        /\ message' \in [Posts -> [kind : Kinds, sealed : BOOLEAN]]
        /\ send' \in [Posts \X Blocks -> Sending \cup {NoSend}]
        /\ logged' \subseteq Posts
    BY <1>16, <2>1 DEF CrashBridge, TypeOK, HPcs, TPcs
  <2> QED BY <1>16, <2>2, FailTyped DEF CrashBridge, TypeOK
<1>17. CASE UNCHANGED vars
  BY <1>17 DEF vars, TypeOK
<1> QED BY <1>1, <1>2, <1>3, <1>4, <1>5, <1>6, <1>7, <1>8, <1>9, <1>10, <1>11, <1>12,
           <1>13, <1>14, <1>15, <1>16, <1>17
        DEF Next, HandlerStep, TaskStep, SendStep

\* Every variable keeps its type: no handler counts past its pieces, no task past its
\* blocks (sendTextMessage, deliverWeChatReply).
THEOREM TypeCorrect == Spec => []TypeOK
<1> QED BY TypeInit, TypeStep, PTL DEF Spec

-----------------------------------------------------------------------------
(* The bridge's gate *)

\* How far the handler of a post is says what has been made of it.  A post that is worked
\* on has not been answered and has no task yet; only a post worked on becomes late.
GateInv ==
    \A p \in Posts :
        /\ hpc[p] = "none" => told[p] = "nothing" /\ p \notin late
        /\ Busy(p) => genuine[p] /\ told[p] = "nothing"
        /\ hpc[p] = "none" \/ Busy(p) => task[p] = "none"
        /\ hpc[p] = "done" => (told[p] = "refused" <=> ~genuine[p])
        /\ task[p] # "none" => genuine[p]
        /\ told[p] # "garbled"

\* WeChat reads every reply.
LEMMA ReadAnswered == \A p \in Posts, n \in Lengths : Read(p, n) = "answered"
<1> SUFFICES ASSUME NEW p \in Posts, NEW n \in Lengths PROVE Read(p, n) = "answered"
  OBVIOUS
<1>1. Text(n) \in Seq(Nat) /\ AppId \in Seq(Nat)
  BY TextIsSeq, PipelineAssumption, CryptoAssumption
<1>2. /\ Decrypts(Encrypt(Text(n), AppId), AppId)
      /\ Decrypt(Encrypt(Text(n), AppId)) = Text(n)
  BY <1>1, SealedIsRead
<1> QED BY <1>2, Zenon DEF Read

\* What the end of a handler does to the gate.
LEMMA GateEnds ==
    ASSUME TypeOK, GateInv, NEW p \in Posts, Busy(p), EndHandler(p, "answered"),
           UNCHANGED post, \A q \in Posts \ {p} : task'[q] = task[q]
    PROVE  GateInv'
<1>1. /\ hpc' = [hpc EXCEPT ![p] = "done"] /\ genuine' = genuine /\ late' = late
      /\ told' = IF p \in late THEN told ELSE [told EXCEPT ![p] = "answered"]
  BY DEF EndHandler, post
<1>2. genuine[p] /\ told[p] = "nothing"
  BY DEF GateInv
<1>3. \A q \in Posts : hpc'[q] = IF q = p THEN "done" ELSE hpc[q]
  BY <1>1 DEF TypeOK
<1>4. \A q \in Posts \ {p} : told'[q] = told[q]
  BY <1>1 DEF TypeOK
<1>5. told'[p] \in {"nothing", "answered"}
  BY <1>1, <1>2 DEF TypeOK
<1> QED BY <1>1, <1>2, <1>3, <1>4, <1>5 DEF GateInv, Busy

LEMMA GateInit == Init => GateInv
BY DEF Init, GateInv, Busy

LEMMA GateStep == TypeOK /\ GateInv /\ [Next]_vars => GateInv'
<1> SUFFICES ASSUME TypeOK, GateInv, [Next]_vars PROVE GateInv'
  OBVIOUS
<1> USE DEF post, bridge, plugin, TaskTo
<1>1. ASSUME NEW p \in Posts, NEW e \in Envelopes, NEW k \in Kinds, Receive(p, e, k)
      PROVE  GateInv'
  <2>1. /\ told[p] = "nothing" /\ p \notin late /\ task[p] = "none" /\ hpc[p] = "none"
        /\ late' = late /\ task' = task
    BY <1>1 DEF Receive, GateInv
  <2>2. genuine' = [genuine EXCEPT ![p] = Admits(e)]
    <3>1. Admits(e) <=> (e.genuine /\ (e.encrypted => HasKey))
      BY AdmitsGenuine
    <3>2. Admits(e) \in BOOLEAN /\ (e.genuine /\ (e.encrypted => HasKey)) \in BOOLEAN
      BY DEF Admits
    <3>3. Admits(e) = (e.genuine /\ (e.encrypted => HasKey))
      BY <3>1, <3>2
    <3> QED BY <1>1, <3>3 DEF Receive
  <2>3. genuine'[p] = Admits(e) /\ \A q \in Posts \ {p} : genuine'[q] = genuine[q]
    BY <2>2 DEF TypeOK
  <2>4. CASE Admits(e) /\ Dispatch(p, [kind |-> k, sealed |-> e.encrypted])
    <3>1. /\ \A q \in Posts \ {p} : hpc'[q] = hpc[q] /\ told'[q] = told[q]
          /\ \/ hpc'[p] \in {"command", "route"} /\ told'[p] = "nothing"
             \/ hpc'[p] = "done" /\ told'[p] = "answered"
      BY <2>1, <2>4 DEF Dispatch, EndHandler, TypeOK
    <3> QED BY <2>1, <2>3, <2>4, <3>1 DEF GateInv, Busy
  <2>5. CASE ~Admits(e) /\ EndHandler(p, "refused")
    <3>1. /\ \A q \in Posts \ {p} : hpc'[q] = hpc[q] /\ told'[q] = told[q]
          /\ hpc'[p] = "done" /\ told'[p] = "refused"
      BY <2>1, <2>5 DEF EndHandler, TypeOK
    <3> QED BY <2>1, <2>3, <2>5, <3>1 DEF GateInv, Busy
  <2> QED BY <1>1, <2>4, <2>5 DEF Receive
<1>2. ASSUME NEW p \in Posts, NEW q \in Posts, Repeat(p, q) PROVE GateInv'
  <2>1. /\ hpc[p] = "none" /\ Busy(q) /\ late' = late \cup {q} /\ task' = task
        /\ genuine' = [genuine EXCEPT ![p] = genuine[q]]
        /\ p # q /\ p \notin late /\ told[p] = "nothing" /\ task[p] = "none"
        /\ genuine[q]
    BY <1>2 DEF Repeat, GateInv, Busy
  <2>2. genuine'[p] /\ \A r \in Posts \ {p} : genuine'[r] = genuine[r]
    BY <2>1 DEF TypeOK
  <2>3. /\ \A r \in Posts \ {p} : hpc'[r] = hpc[r] /\ told'[r] = told[r]
        /\ \/ hpc'[p] \in {"command", "route"} /\ told'[p] = "nothing"
           \/ hpc'[p] = "done" /\ told'[p] = "answered"
    BY <1>2, <2>1 DEF Repeat, Dispatch, EndHandler, TypeOK
  <2> QED BY <2>1, <2>2, <2>3 DEF GateInv, Busy
<1>3. ASSUME NEW p \in Posts, EndCommand(p) PROVE GateInv'
  <2>1. Busy(p) /\ EndHandler(p, "answered")
    BY <1>3, ReadAnswered DEF EndCommand, Reply, Busy
  <2> QED BY <1>3, <2>1, GateEnds DEF EndCommand
<1>4. ASSUME NEW p \in Posts, Route(p) PROVE GateInv'
  <2>1. CASE Reply(p)
    <3>1. Busy(p) /\ EndHandler(p, "answered")
      BY <1>4, <2>1, ReadAnswered DEF Route, Reply, Busy
    <3> QED BY <1>4, <3>1, GateEnds DEF Route
  <2>2. CASE hpc' = [hpc EXCEPT ![p] = "touch"] /\ UNCHANGED <<message, told>>
    BY <1>4, <2>2 DEF Route, GateInv, Busy, TypeOK
  <2> QED BY <1>4, <2>1, <2>2 DEF Route
<1>5. ASSUME NEW p \in Posts, Forward(p) PROVE GateInv'
  <2>1. Busy(p) /\ EndHandler(p, "answered")
    BY <1>5, ReadAnswered DEF Forward, Reply, Busy
  <2>2. \A q \in Posts \ {p} : task'[q] = task[q]
    BY <1>5 DEF Forward, PostTask, TypeOK
  <2> QED BY <1>5, <2>1, <2>2, GateEnds DEF Forward
<1>6. ASSUME NEW p \in Posts, HandlerThrows(p) PROVE GateInv'
  BY <1>6, GateEnds DEF HandlerThrows
<1>7. ASSUME UNCHANGED <<post, bridge>>,
             \A p \in Posts : task[p] = "none" => task'[p] = "none"
      PROVE  GateInv'
  BY <1>7 DEF GateInv, Busy
<1>8. ASSUME NEW p \in Posts, LoseRequest(p) \/ HandleWebhook(p) \/ TaskStep(p) \/ Break(p)
      PROVE  GateInv'
  BY <1>7, <1>8
     DEF LoseRequest, HandleWebhook, TaskStep, RecordSession, Deliver, EndTask, Break, TypeOK
<1>9. ASSUME NEW p \in Posts, NEW b \in Blocks, SendStep(p, b) PROVE GateInv'
  BY <1>7, <1>9 DEF SendStep, SendPiece, EndCallback, Awaited, TypeOK
<1>10. ASSUME NEW tasks \in SUBSET Posts, StopVMs(tasks) PROVE GateInv'
  BY <1>7, <1>10 DEF StopVMs, TypeOK
<1>11. ASSUME CrashBridge PROVE GateInv'
  BY <1>11 DEF CrashBridge, GateInv, Busy, TypeOK
<1>12. CASE UNCHANGED vars
  BY <1>7, <1>12 DEF vars
<1> QED BY <1>1, <1>2, <1>3, <1>4, <1>5, <1>6, <1>8, <1>9, <1>10, <1>11, <1>12
        DEF Next, HandlerStep

LEMMA GateHolds == Spec => [](TypeOK /\ GateInv)
<1> QED BY TypeInit, TypeStep, GateInit, GateStep, PTL DEF Spec

\* The handler of POST /wechat refuses what is not WeChat's for this account and nothing
\* else, whatever the sizes of the padding, of cipher blocks, of messages and of AppIDs.
THEOREM GateExactCorrect == Spec => []GateExact
<1>1. TypeOK /\ GateInv => GateExact
  BY DEF TypeOK, GateInv, GateExact, Busy, HPcs
<1> QED BY <1>1, GateHolds, PTL

\* sendReply's sealed answers are ones WeChat can open, for any length.
THEOREM RepliesReadableCorrect == Spec => []RepliesReadable
<1>1. TypeOK /\ GateInv => RepliesReadable
  BY DEF GateInv, RepliesReadable
<1> QED BY <1>1, GateHolds, PTL

-----------------------------------------------------------------------------
(* No silent loss *)

Received(p, a) == \E k \in DOMAIN got[p] : got[p][k] = a

\* A piece whose fate the plugin still waits to hear: its callback is under way, and has the
\* piece before it or knows that one was refused.
Owed(p, a) ==
    LET s == send[<<p, a[1]>>] IN
    /\ Awaited(p, a[1]) /\ Active(p, a[1])
    /\ a[2] <= s.of /\ (a[2] >= s.next \/ ~s.ok)

LossInv ==
    \A p \in Posts : p \notin logged /\ task[p] # "gone" =>
        \A a \in due[p] : Received(p, a) \/ Owed(p, a)

LEMMA LossInit == Init => LossInv
BY DEF Init, LossInv

\* What one post's answer has is not touched by the steps of others.
LEMMA LossKept ==
    ASSUME TypeOK, LossInv, NEW p \in Posts,
           due'[p] = due[p], got'[p] = got[p], logged \subseteq logged',
           task'[p] # task[p] => task[p] # "posting" /\ task[p] # "gone",
           Awaited(p, blocks[p]) => send'[<<p, blocks[p]>>] = send[<<p, blocks[p]>>]
                                    /\ blocks'[p] = blocks[p],
           p \notin logged', task'[p] # "gone", NEW a \in due[p]
    PROVE  Received(p, a)' \/ Owed(p, a)'
<1>1. Received(p, a) \/ Owed(p, a)
  BY DEF LossInv
<1>2. CASE Received(p, a)
  BY <1>2 DEF Received
<1>3. CASE Owed(p, a)
  <2>1. a[1] = blocks[p] /\ task[p] = "posting" /\ task'[p] = "posting"
    BY <1>3 DEF Owed, Awaited
  <2>2. send'[<<p, a[1]>>] = send[<<p, a[1]>>] /\ blocks'[p] = blocks[p]
    BY <2>1 DEF Awaited
  <2> QED BY <1>3, <2>1, <2>2, Zenon DEF Owed, Awaited, Active
<1> QED BY <1>1, <1>2, <1>3

LEMMA LossStep == TypeOK /\ GateInv /\ LossInv /\ [Next]_vars => LossInv'
<1> SUFFICES ASSUME TypeOK, GateInv, LossInv, [Next]_vars,
                    NEW p \in Posts, p \notin logged', task'[p] # "gone", NEW a \in due'[p]
             PROVE  Received(p, a)' \/ Owed(p, a)'
  BY DEF LossInv
<1> USE DEF post, bridge, plugin, TaskTo, Log
<1>1. ASSUME UNCHANGED <<blocks, send, due, got>>, logged \subseteq logged',
             task'[p] # task[p] => task[p] # "posting" /\ task[p] # "gone"
      PROVE  Received(p, a)' \/ Owed(p, a)'
  BY <1>1, LossKept
<1>2. ASSUME NEW q \in Posts, NEW e \in Envelopes, NEW k \in Kinds, Receive(q, e, k)
      PROVE  Received(p, a)' \/ Owed(p, a)'
  BY <1>1, <1>2 DEF Receive
<1>3. ASSUME NEW q \in Posts, NEW r \in Posts, Repeat(q, r)
      PROVE  Received(p, a)' \/ Owed(p, a)'
  BY <1>1, <1>3 DEF Repeat
<1>4. ASSUME NEW q \in Posts, HandlerStep(q) PROVE Received(p, a)' \/ Owed(p, a)'
  <2>1. CASE Forward(q)
    <3>1. task[q] = "none"
      BY <2>1 DEF Forward, GateInv, Busy
    <3>2. task'[p] # task[p] => p = q
      BY <2>1 DEF Forward, PostTask, TypeOK
    <3> QED BY <1>1, <2>1, <3>1, <3>2 DEF Forward
  <2>2. CASE EndCommand(q) \/ Route(q) \/ HandlerThrows(q)
    BY <1>1, <2>2 DEF EndCommand, Route, HandlerThrows
  <2> QED BY <1>4, <2>1, <2>2 DEF HandlerStep
<1>5. ASSUME NEW q \in Posts, LoseRequest(q) \/ HandleWebhook(q) \/ RecordSession(q) \/ EndTask(q)
      PROVE  Received(p, a)' \/ Owed(p, a)'
  <2>1. /\ UNCHANGED <<blocks, send, due, got>> /\ logged \subseteq logged'
        /\ task[q] # "posting" /\ task[q] # "gone"
    BY <1>5 DEF LoseRequest, HandleWebhook, RecordSession, EndTask
  <2>2. task'[p] # task[p] => p = q
    BY <1>5 DEF LoseRequest, HandleWebhook, RecordSession, EndTask, TypeOK
  <2> QED BY <1>1, <2>1, <2>2
<1>6. ASSUME NEW q \in Posts, Deliver(q) PROVE Received(p, a)' \/ Owed(p, a)'
  <2>1. PICK n \in 0..MaxPieces :
            /\ due' = [due EXCEPT ![q] = @ \cup ({blocks[q] + 1} \X (1..n))]
            /\ \/ n = 0 /\ UNCHANGED <<task, send, logged, faults>>
               \/ n > 0 /\ Log(q) /\ Fail /\ UNCHANGED <<task, send>>
               \/ /\ n > 0 /\ TaskTo(q, "posting") /\ UNCHANGED <<logged, faults>>
                  /\ send' = [send EXCEPT ![<<q, blocks[q] + 1>>] =
                                [next |-> 1, of |-> n, ok |-> TRUE]]
    BY <1>6 DEF Deliver
  <2>2. /\ task[q] = "agent" /\ blocks[q] < MaxBlocks
        /\ blocks' = [blocks EXCEPT ![q] = @ + 1] /\ got' = got /\ logged \subseteq logged'
    BY <1>6, <2>1 DEF Deliver
  <2>3. CASE p # q
    <3>1. /\ due'[p] = due[p] /\ blocks'[p] = blocks[p] /\ task'[p] = task[p]
      BY <2>1, <2>2, <2>3 DEF TypeOK
    <3>2. send'[<<p, blocks[p]>>] = send[<<p, blocks[p]>>]
      <4>1. CASE send' = send
        BY <4>1
      <4>2. CASE send' = [send EXCEPT ![<<q, blocks[q] + 1>>] =
                            [next |-> 1, of |-> n, ok |-> TRUE]]
        <5>1. DOMAIN send = Posts \X Blocks
          BY DEF TypeOK
        <5>2. CASE <<p, blocks[p]>> \in Posts \X Blocks
          BY <2>3, <4>2, <5>1, <5>2
        <5>3. CASE <<p, blocks[p]>> \notin Posts \X Blocks
          <6>1. PICK x : x = <<p, blocks[p]>>
            OBVIOUS
          <6>2. x # <<q, blocks[q] + 1>>
            BY <2>3, <6>1
          <6> QED BY <4>2, <6>1, <6>2
        <5> QED BY <5>2, <5>3
      <4> QED BY <2>1, <4>1, <4>2
    <3> QED BY <2>2, <3>1, <3>2, LossKept
  <2>4. CASE p = q /\ a \in due[p]
    <3>1. Received(p, a)
      BY <2>2, <2>4 DEF LossInv, Owed, Awaited
    <3> QED BY <2>2, <3>1 DEF Received
  <2>5. CASE p = q /\ a \notin due[p]
    <3>1. PICK b : b = blocks[p] + 1
      OBVIOUS
    <3>2. b \in Blocks /\ blocks'[p] = b
      BY <2>2, <2>5, <3>1, BoundsNat DEF TypeOK, Blocks
    <3>3. a \in {b} \X (1..n)
      BY <2>1, <2>5, <3>1 DEF TypeOK
    <3>4. a[1] = b /\ a[2] \in 1..n
      BY <3>3
    <3>5. n > 0
      BY <3>4
    <3>6. p \notin logged /\ p \in Posts
      BY <2>2
    <3>7. /\ TaskTo(p, "posting")
          /\ send' = [send EXCEPT ![<<p, b>>] = [next |-> 1, of |-> n, ok |-> TRUE]]
      BY <2>1, <2>5, <3>1, <3>5, <3>6
    <3>8. task'[p] = "posting"
      BY <3>7 DEF TypeOK
    <3>9. send'[<<p, b>>] = [next |-> 1, of |-> n, ok |-> TRUE]
      BY <3>2, <3>7 DEF TypeOK
    <3>10. Awaited(p, a[1])'
      BY <3>2, <3>4, <3>8 DEF Awaited
    <3>11. Active(p, a[1])'
      BY <3>4, <3>5, <3>9 DEF Active
    <3> QED BY <3>4, <3>9, <3>10, <3>11 DEF Owed
  <2> QED BY <2>3, <2>4, <2>5
<1>7. ASSUME NEW q \in Posts, Break(q) PROVE Received(p, a)' \/ Owed(p, a)'
  BY <1>1, <1>7 DEF Break, TypeOK
<1>8. ASSUME NEW q \in Posts, NEW b \in Blocks, SendPiece(q, b)
      PROVE  Received(p, a)' \/ Owed(p, a)'
  <2>1. PICK s : s = send[<<q, b>>]
    OBVIOUS
  <2>2. s \in Sending /\ s.next <= s.of
    <3>1. s \in Sending \cup {NoSend} /\ s.of > 0 /\ s.next <= s.of
      BY <1>8, <2>1 DEF SendPiece, Active, TypeOK
    <3> QED BY <3>1 DEF NoSend
  <2>3. PICK taken \in BOOLEAN, ok \in BOOLEAN :
            /\ ok => taken
            /\ send' = [send EXCEPT ![<<q, b>>] = NextPiece(s, ok)]
            /\ got' = IF taken THEN [got EXCEPT ![q] = Append(@, <<b, s.next>>)] ELSE got
    BY <1>8, <2>1 DEF SendPiece
  <2>4. UNCHANGED <<task, blocks, due, logged>>
    BY <1>8 DEF SendPiece
  <2>5. a \in Places /\ (Received(p, a) \/ Owed(p, a))
    BY <2>4 DEF LossInv, TypeOK
  <2>6. CASE Received(p, a)
    <3>1. PICK k \in DOMAIN got[p] : got[p][k] = a
      BY <2>6 DEF Received
    <3>2. k \in DOMAIN got'[p] /\ got'[p][k] = a
      <4>1. got[p] \in Seq(Places) /\ <<b, s.next>> \in Places
        BY <2>2, BoundsNat DEF TypeOK, Places, Sending
      <4>2. got'[p] \in {got[p], Append(got[p], <<b, s.next>>)}
        BY <2>3 DEF TypeOK
      <4> QED BY <3>1, <4>1, <4>2
    <3> QED BY <3>2 DEF Received
  <2>7. CASE Owed(p, a) /\ <<p, a[1]>> # <<q, b>>
    <3>1. send'[<<p, a[1]>>] = send[<<p, a[1]>>]
      BY <2>3, <2>5, <2>7 DEF TypeOK, Places
    <3> QED BY <2>4, <2>7, <3>1, Zenon DEF Owed, Awaited, Active
  <2>8. CASE Owed(p, a) /\ <<p, a[1]>> = <<q, b>>
    <3>1. /\ p = q /\ a[1] = b /\ Awaited(p, b) /\ a[2] <= s.of
          /\ a[2] >= s.next \/ ~s.ok
      BY <2>1, <2>8 DEF Owed
    <3>2. PICK t : t = send'[<<q, b>>]
      OBVIOUS
    <3>3. t = NextPiece(s, ok)
      BY <2>3, <3>2 DEF TypeOK
    <3>4. t.next = s.next + 1 /\ t.of = s.of
      BY <2>2, <3>3 DEF NextPiece, Sending
    <3>5. t.ok <=> s.ok /\ ok
      <4>1. t.ok = (s.ok /\ ok)
        BY <2>2, <3>3 DEF NextPiece, Sending
      <4> QED BY <4>1
    <3>6. CASE a[2] = s.next /\ taken
      <4>1. a = <<b, s.next>>
        BY <2>5, <3>1, <3>6 DEF Places
      <4>2. got[p] \in Seq(Places) /\ <<b, s.next>> \in Places
        BY <2>5, <4>1 DEF TypeOK
      <4>3. got'[p] = Append(got[p], <<b, s.next>>)
        BY <2>3, <3>1, <3>6 DEF TypeOK
      <4>4. Len(got[p]) \in Nat
        BY <4>2
      <4>5. Len(got[p]) + 1 \in DOMAIN got'[p] /\ got'[p][Len(got[p]) + 1] = a
        BY <4>1, <4>2, <4>3, <4>4
      <4> QED BY <4>5 DEF Received
    <3>7. CASE ~(a[2] = s.next /\ taken)
      <4>1. a[2] >= t.next \/ ~t.ok
        <5>1. CASE a[2] = s.next
          BY <2>3, <3>5, <3>7, <5>1
        <5>2. CASE a[2] # s.next /\ a[2] >= s.next
          <6>1. a[2] \in Int /\ s.next \in Int
            BY <2>2, <2>5, BoundsNat DEF Places, Sending
          <6> QED BY <3>4, <5>2, <6>1
        <5>3. CASE ~s.ok
          BY <3>5, <5>3
        <5> QED BY <3>1, <5>1, <5>2, <5>3
      <4>2. Awaited(p, b)' /\ Active(p, b)'
        <5>1. Awaited(p, b)'
          BY <2>4, <3>1 DEF Awaited
        <5>2. s.of > 0
          BY <1>8, <2>1 DEF SendPiece, Active
        <5> QED BY <3>1, <3>2, <3>4, <5>1, <5>2 DEF Active
      <4> QED BY <3>1, <3>2, <3>4, <4>1, <4>2 DEF Owed
    <3> QED BY <3>6, <3>7
  <2> QED BY <2>5, <2>6, <2>7, <2>8
<1>9. ASSUME NEW q \in Posts, NEW b \in Blocks, EndCallback(q, b)
      PROVE  Received(p, a)' \/ Owed(p, a)'
  <2>1. PICK s : s = send[<<q, b>>]
    OBVIOUS
  <2>2. /\ s.next > s.of /\ send' = [send EXCEPT ![<<q, b>>] = NoSend]
        /\ task' = IF Awaited(q, b) THEN [task EXCEPT ![q] = "agent"] ELSE task
        /\ logged' = IF Awaited(q, b) /\ ~s.ok THEN logged \cup {q} ELSE logged
        /\ UNCHANGED <<blocks, due, got>>
    BY <1>9, <2>1 DEF EndCallback, AnswerOk
  <2>3. a \in Places /\ task[p] # "gone" /\ p \notin logged
    BY <2>2 DEF TypeOK, Awaited
  <2>4. Received(p, a) \/ Owed(p, a)
    BY <2>2, <2>3 DEF LossInv
  <2>5. CASE Received(p, a)
    BY <2>2, <2>5 DEF Received
  <2>6. CASE Owed(p, a) /\ <<p, a[1]>> = <<q, b>>
    <3>1. /\ p = q /\ a[1] = b /\ Awaited(p, b) /\ a[2] <= s.of
          /\ a[2] >= s.next \/ ~s.ok
      BY <2>1, <2>6 DEF Owed
    <3>2. s \in Sending \cup {NoSend}
      BY <2>1 DEF TypeOK
    <3>3. a[2] \in Int /\ s.next \in Int /\ s.of \in Int
      BY <2>3, <3>2, BoundsNat DEF Places, Sending, NoSend
    <3>4. ~s.ok
      BY <2>2, <3>1, <3>3
    <3> QED BY <2>2, <3>1, <3>4
  <2>7. CASE Owed(p, a) /\ <<p, a[1]>> # <<q, b>>
    <3>1. send'[<<p, a[1]>>] = send[<<p, a[1]>>]
      BY <2>2, <2>3, <2>7 DEF TypeOK, Places
    <3>2. Awaited(p, a[1]) /\ (p = q => ~Awaited(q, b))
      BY <2>7 DEF Owed, Awaited
    <3>3. task'[p] = task[p] /\ blocks'[p] = blocks[p]
      BY <2>2, <3>2 DEF TypeOK
    <3> QED BY <2>7, <3>1, <3>3, Zenon DEF Owed, Awaited, Active
  <2> QED BY <2>4, <2>5, <2>6, <2>7
<1>10. ASSUME NEW tasks \in SUBSET Posts, StopVMs(tasks)
       PROVE  Received(p, a)' \/ Owed(p, a)'
  <2>1. task'[p] = task[p] /\ UNCHANGED <<blocks, send, due, got, logged>>
    BY <1>10 DEF StopVMs, TypeOK
  <2> QED BY <1>1, <2>1
<1>11. ASSUME CrashBridge PROVE Received(p, a)' \/ Owed(p, a)'
  <2>1. /\ task[p] # "posting" /\ task'[p] = task[p] /\ p \notin logged
        /\ UNCHANGED <<due, got>>
    BY <1>11 DEF CrashBridge, TypeOK
  <2>2. Received(p, a)
    BY <2>1 DEF LossInv, Owed, Awaited
  <2> QED BY <2>1, <2>2 DEF Received
<1>12. CASE UNCHANGED vars
  BY <1>1, <1>12 DEF vars
<1> QED BY <1>2, <1>3, <1>4, <1>5, <1>6, <1>7, <1>8, <1>9, <1>10, <1>11, <1>12
        DEF Next, TaskStep, SendStep

\* If the plugin has logged no failure of a task that is done, the user has all of the
\* answer: the results of the pieces reach the plugin with the status of POST /callback.
THEOREM NoSilentLossCorrect == Spec => []NoSilentLoss
<1>1. LossInv => NoSilentLoss
  BY DEF LossInv, NoSilentLoss, Received, Owed, Awaited
<1> QED BY <1>1, TypeInit, TypeStep, GateInit, GateStep, LossInit, LossStep, PTL DEF Spec

-----------------------------------------------------------------------------
(* Waiting for the callback *)

LEMMA WaitStep == TypeOK /\ WaitsForHandler /\ [Next]_vars => WaitsForHandler'
<1> SUFFICES ASSUME TypeOK, WaitsForHandler, [Next]_vars PROVE WaitsForHandler'
  OBVIOUS
<1>1. ASSUME send' = send, blocks' = blocks,
             \A p \in Posts : task'[p] = "posting" => task[p] = "posting"
      PROVE  WaitsForHandler'
  BY <1>1 DEF WaitsForHandler, Active
<1>2. ASSUME NEW q \in Posts,
             \/ \E e \in Envelopes, k \in Kinds : Receive(q, e, k)
             \/ \E r \in Posts : Repeat(q, r)
             \/ EndCommand(q) \/ Route(q) \/ HandlerThrows(q)
      PROVE  WaitsForHandler'
  <2>1. UNCHANGED <<plugin, send>>
    BY <1>2 DEF Receive, Repeat, EndCommand, Route, HandlerThrows
  <2> QED BY <1>1, <2>1 DEF plugin
<1>3. ASSUME NEW q \in Posts,
             Forward(q) \/ LoseRequest(q) \/ HandleWebhook(q) \/ RecordSession(q)
                \/ EndTask(q) \/ Break(q)
      PROVE  WaitsForHandler'
  <2>1. send' = send /\ blocks' = blocks
    BY <1>3 DEF Forward, LoseRequest, HandleWebhook, RecordSession, EndTask, Break
  <2>2. \E place \in TPcs \ {"posting"} : TaskTo(q, place)
    BY <1>3 DEF Forward, PostTask, LoseRequest, HandleWebhook, RecordSession, EndTask, Break,
                TPcs
  <2> QED BY <1>1, <2>1, <2>2 DEF TaskTo, TypeOK
<1>4. ASSUME NEW q \in Posts, Deliver(q) PROVE WaitsForHandler'
  <2>1. PICK n \in 0..MaxPieces :
            \/ UNCHANGED <<task, send>>
            \/ /\ n > 0 /\ TaskTo(q, "posting")
               /\ send' = [send EXCEPT ![<<q, blocks[q] + 1>>] =
                             [next |-> 1, of |-> n, ok |-> TRUE]]
    BY <1>4 DEF Deliver
  <2>2. /\ task[q] = "agent" /\ blocks[q] < MaxBlocks
        /\ blocks' = [blocks EXCEPT ![q] = @ + 1]
    BY <1>4 DEF Deliver
  <2>3. PICK b \in Blocks : b = blocks[q] + 1
    BY <2>2, BoundsNat DEF TypeOK, Blocks
  <2>4. blocks'[q] = b /\ \A p \in Posts : p # q => blocks'[p] = blocks[p]
    BY <2>2, <2>3 DEF TypeOK
  <2>5. CASE UNCHANGED <<task, send>>
    BY <2>2, <2>4, <2>5 DEF WaitsForHandler, Active
  <2>6. CASE /\ n > 0 /\ TaskTo(q, "posting")
             /\ send' = [send EXCEPT ![<<q, b>>] = [next |-> 1, of |-> n, ok |-> TRUE]]
    <3>1. send'[<<q, b>>].of > 0
      BY <2>6 DEF TypeOK
    <3>2. ASSUME NEW p \in Posts, p # q, task'[p] = "posting"
          PROVE  blocks'[p] \in Blocks /\ Active(p, blocks[p])'
      <4>1. task[p] = "posting" /\ blocks[p] \in Blocks /\ Active(p, blocks[p])
        BY <2>6, <3>2 DEF TaskTo, TypeOK, WaitsForHandler
      <4>2. send'[<<p, blocks[p]>>] = send[<<p, blocks[p]>>]
        BY <2>6, <3>2, <4>1 DEF TypeOK
      <4> QED BY <2>4, <3>2, <4>1, <4>2 DEF Active
    <3> QED BY <2>4, <3>1, <3>2 DEF WaitsForHandler, Active
  <2> QED BY <2>1, <2>3, <2>5, <2>6
<1>5. ASSUME NEW q \in Posts, NEW b \in Blocks, SendPiece(q, b) PROVE WaitsForHandler'
  <2>1. PICK s : s = send[<<q, b>>]
    OBVIOUS
  <2>2. PICK ok \in BOOLEAN : send' = [send EXCEPT ![<<q, b>>] = NextPiece(s, ok)]
    BY <1>5, <2>1 DEF SendPiece
  <2>3. s \in Sending \cup {NoSend}
    BY <2>1 DEF TypeOK
  <2>4. NextPiece(s, ok).of = s.of
    BY <2>3 DEF NextPiece, Sending, NoSend
  <2>5. \A p \in Posts, c \in Blocks : send'[<<p, c>>].of = send[<<p, c>>].of
    BY <2>1, <2>2, <2>4 DEF TypeOK
  <2>6. UNCHANGED <<task, blocks>>
    BY <1>5 DEF SendPiece, plugin
  <2> QED BY <2>5, <2>6 DEF WaitsForHandler, Active
<1>6. ASSUME NEW q \in Posts, NEW b \in Blocks, EndCallback(q, b) PROVE WaitsForHandler'
  <2>1. /\ send' = [send EXCEPT ![<<q, b>>] = NoSend]
        /\ task' = IF Awaited(q, b) THEN [task EXCEPT ![q] = "agent"] ELSE task
        /\ blocks' = blocks
    BY <1>6 DEF EndCallback
  <2>2. SUFFICES ASSUME NEW p \in Posts, task'[p] = "posting"
                 PROVE  blocks[p] \in Blocks /\ send'[<<p, blocks[p]>>].of > 0
    BY <2>1 DEF WaitsForHandler, Active
  <2>3. task[p] = "posting" /\ ~(p = q /\ Awaited(q, b))
    BY <2>1, <2>2 DEF TypeOK
  <2>4. blocks[p] \in Blocks /\ send[<<p, blocks[p]>>].of > 0
    BY <2>3 DEF WaitsForHandler, Active
  <2>5. <<p, blocks[p]>> # <<q, b>>
    BY <2>3 DEF Awaited
  <2> QED BY <2>1, <2>4, <2>5 DEF TypeOK
<1>7. ASSUME NEW tasks \in SUBSET Posts, StopVMs(tasks) PROVE WaitsForHandler'
  BY <1>1, <1>7 DEF StopVMs
<1>8. CASE CrashBridge
  BY <1>8 DEF CrashBridge, WaitsForHandler
<1>9. CASE UNCHANGED vars
  BY <1>1, <1>9 DEF vars, plugin
<1> QED BY <1>2, <1>3, <1>4, <1>5, <1>6, <1>7, <1>8, <1>9
        DEF Next, HandlerStep, TaskStep, SendStep

\* No task waits for a callback that nobody is going to answer, for any number of posts,
\* blocks, pieces and faults, and however the handlers of its blocks overlap.
THEOREM WaitsForHandlerCorrect == Spec => []WaitsForHandler
<1>1. Init => WaitsForHandler
  BY DEF Init, WaitsForHandler
<1> QED BY <1>1, TypeInit, TypeStep, WaitStep, PTL DEF Spec

-----------------------------------------------------------------------------
(* The answer's pieces arrive once at most and in order *)

\* A callback handler that runs is the one of the last block, unless the connection of an
\* earlier one broke or its task is gone; what has been received of its block it has sent.
StreamInv ==
    \A p \in Posts :
        /\ \A k \in DOMAIN got[p] : got[p][k][1] <= blocks[p]
        /\ \A b \in Blocks : Active(p, b) =>
            /\ b <= blocks[p]
            /\ p \in broken \/ (b = blocks[p] /\ task[p] \in {"posting", "gone"})
            /\ \A k \in DOMAIN got[p] : got[p][k][1] = b => got[p][k][2] < send[<<p, b>>].next

LEMMA StreamInit == Init => StreamInv
<1> SUFFICES ASSUME Init, NEW p \in Posts
             PROVE  /\ \A k \in DOMAIN got[p] : got[p][k][1] <= blocks[p]
                    /\ \A b \in Blocks : ~Active(p, b)
  BY DEF StreamInv
<1> QED BY DEF Init, Active, NoSend

\* Steps that leave the callbacks and what was received alone.
LEMMA StreamKept ==
    ASSUME TypeOK, StreamInv, UNCHANGED <<blocks, send, got>>, broken \subseteq broken',
           \A q \in Posts : q \notin broken' /\ task[q] \in {"posting", "gone"} =>
                                task'[q] \in {"posting", "gone"}
    PROVE  StreamInv'
<1> SUFFICES ASSUME NEW p \in Posts
             PROVE  /\ \A k \in DOMAIN got[p] : got[p][k][1] <= blocks[p]
                    /\ \A b \in Blocks : Active(p, b) =>
                        /\ b <= blocks[p]
                        /\ p \in broken' \/ (b = blocks[p] /\ task'[p] \in {"posting", "gone"})
                        /\ \A k \in DOMAIN got[p] :
                            got[p][k][1] = b => got[p][k][2] < send[<<p, b>>].next
  BY Zenon DEF StreamInv, Active
<1> QED BY DEF StreamInv

LEMMA StreamStep == TypeOK /\ GateInv /\ StreamInv /\ [Next]_vars => StreamInv'
<1> SUFFICES ASSUME TypeOK, GateInv, StreamInv, [Next]_vars PROVE StreamInv'
  OBVIOUS
<1> USE DEF post, bridge, plugin, TaskTo, Log
<1>1. ASSUME NEW q \in Posts, NEW e \in Envelopes, NEW k \in Kinds, Receive(q, e, k)
      PROVE  StreamInv'
  BY <1>1, StreamKept DEF Receive
<1>2. ASSUME NEW q \in Posts, NEW r \in Posts, Repeat(q, r) PROVE StreamInv'
  BY <1>2, StreamKept DEF Repeat
<1>3. ASSUME NEW q \in Posts, HandlerStep(q) PROVE StreamInv'
  <2>1. CASE Forward(q)
    <3>1. task[q] = "none"
      BY <2>1 DEF Forward, GateInv, Busy
    <3>2. \A p \in Posts : p # q => task'[p] = task[p]
      BY <2>1 DEF Forward, PostTask, TypeOK
    <3> QED BY <2>1, <3>1, <3>2, StreamKept DEF Forward
  <2>2. CASE EndCommand(q) \/ Route(q) \/ HandlerThrows(q)
    BY <2>2, StreamKept DEF EndCommand, Route, HandlerThrows
  <2> QED BY <1>3, <2>1, <2>2 DEF HandlerStep
<1>4. ASSUME NEW q \in Posts, LoseRequest(q) \/ HandleWebhook(q) \/ RecordSession(q) \/ EndTask(q)
      PROVE  StreamInv'
  <2>1. /\ UNCHANGED <<blocks, send, got, broken>>
        /\ task[q] # "posting" /\ task[q] # "gone"
    BY <1>4 DEF LoseRequest, HandleWebhook, RecordSession, EndTask
  <2>2. \A p \in Posts : p # q => task'[p] = task[p]
    BY <1>4 DEF LoseRequest, HandleWebhook, RecordSession, EndTask, TypeOK
  <2> QED BY <2>1, <2>2, StreamKept
<1>5. ASSUME NEW q \in Posts, Deliver(q) PROVE StreamInv'
  <2>1. PICK c : c = blocks[q] + 1
    OBVIOUS
  <2>2. /\ c \in Blocks /\ c = blocks[q] + 1 /\ blocks[q] \in Nat /\ task[q] = "agent"
        /\ blocks' = [blocks EXCEPT ![q] = c] /\ got' = got /\ broken' = broken
    BY <1>5, <2>1, BoundsNat DEF Deliver, TypeOK, Blocks
  <2>3. PICK n \in 0..MaxPieces :
            \/ UNCHANGED <<task, send>>
            \/ /\ task' = [task EXCEPT ![q] = "posting"]
               /\ send' = [send EXCEPT ![<<q, c>>] = [next |-> 1, of |-> n, ok |-> TRUE]]
    BY <1>5, <2>1 DEF Deliver
  <2>4. SUFFICES ASSUME NEW p \in Posts
                 PROVE  /\ \A k \in DOMAIN got'[p] : got'[p][k][1] <= blocks'[p]
                        /\ \A b \in Blocks : Active(p, b)' =>
                            /\ b <= blocks'[p]
                            /\ \/ p \in broken'
                               \/ b = blocks'[p] /\ task'[p] \in {"posting", "gone"}
                            /\ \A k \in DOMAIN got'[p] :
                                got'[p][k][1] = b => got'[p][k][2] < send'[<<p, b>>].next
    BY Zenon DEF StreamInv
  <2>5. blocks[p] <= blocks'[p] /\ blocks[p] \in Nat /\ blocks'[p] \in Nat
    BY <2>2, BoundsNat DEF TypeOK
  <2>6. \A k \in DOMAIN got[p] : got[p][k] \in Places /\ got[p][k][1] \in Nat
    BY BoundsNat DEF TypeOK, Places, Blocks
  <2>7. \A k \in DOMAIN got'[p] : got'[p][k][1] <= blocks'[p]
    BY <2>2, <2>5, <2>6 DEF StreamInv
  <2>8. ASSUME NEW b \in Blocks, Active(p, b)'
        PROVE  /\ b <= blocks'[p]
               /\ p \in broken' \/ (b = blocks'[p] /\ task'[p] \in {"posting", "gone"})
               /\ \A k \in DOMAIN got'[p] :
                    got'[p][k][1] = b => got'[p][k][2] < send'[<<p, b>>].next
    <3>1. CASE send'[<<p, b>>] = send[<<p, b>>]
      <4>1. Active(p, b)
        BY <2>8, <3>1 DEF Active
      <4>2. /\ b <= blocks[p]
            /\ p \in broken \/ (b = blocks[p] /\ task[p] \in {"posting", "gone"})
            /\ \A k \in DOMAIN got[p] : got[p][k][1] = b => got[p][k][2] < send[<<p, b>>].next
        BY <4>1 DEF StreamInv
      <4>3. b \in Nat
        BY BoundsNat DEF Blocks
      <4>4. CASE p = q
        BY <2>2, <2>5, <3>1, <4>2, <4>3, <4>4
      <4>5. CASE p # q
        <5>1. task'[p] = task[p] /\ blocks'[p] = blocks[p]
          BY <2>2, <2>3, <4>5 DEF TypeOK
        <5> QED BY <2>2, <3>1, <4>2, <5>1
      <4> QED BY <4>4, <4>5
    <3>2. CASE send'[<<p, b>>] # send[<<p, b>>]
      <4>1. /\ p = q /\ b = c /\ task' = [task EXCEPT ![q] = "posting"]
        BY <2>2, <2>3, <3>2 DEF TypeOK
      <4>2. task'[p] = "posting" /\ blocks'[p] = b
        BY <2>2, <4>1 DEF TypeOK
      <4>3. \A k \in DOMAIN got'[p] : got'[p][k][1] # b
        BY <2>2, <2>6, <4>1 DEF StreamInv
      <4> QED BY <2>5, <4>2, <4>3
    <3> QED BY <3>1, <3>2
  <2> QED BY <2>4, <2>7, <2>8
<1>6. ASSUME NEW q \in Posts, Break(q) PROVE StreamInv'
  <2>1. /\ UNCHANGED <<blocks, send, got>> /\ broken' = broken \cup {q}
        /\ \A p \in Posts : p # q => task'[p] = task[p]
    BY <1>6 DEF Break, TypeOK
  <2> QED BY <2>1, StreamKept
<1>7. ASSUME NEW q \in Posts, NEW b \in Blocks, SendPiece(q, b) PROVE StreamInv'
  <2>1. PICK s : s = send[<<q, b>>]
    OBVIOUS
  <2>2. s \in Sending /\ s.next \in 1..MaxPieces /\ Active(q, b)
    <3>1. s \in Sending \cup {NoSend} /\ s.of > 0 /\ s.next <= s.of /\ Active(q, b)
      BY <1>7, <2>1 DEF SendPiece, Active, TypeOK
    <3>2. s \in Sending
      BY <3>1 DEF NoSend
    <3> QED BY <3>1, <3>2, BoundsNat DEF Sending
  <2>3. PICK taken \in BOOLEAN, ok \in BOOLEAN :
            /\ send' = [send EXCEPT ![<<q, b>>] = NextPiece(s, ok)]
            /\ got' = IF taken THEN [got EXCEPT ![q] = Append(@, <<b, s.next>>)] ELSE got
    BY <1>7, <2>1 DEF SendPiece
  <2>4. UNCHANGED <<task, blocks, broken>>
    BY <1>7 DEF SendPiece
  <2>5. PICK t : t = NextPiece(s, ok)
    OBVIOUS
  <2>6. t.next = s.next + 1 /\ t.of = s.of
    BY <2>2, <2>5 DEF NextPiece, Sending
  <2>7. /\ send'[<<q, b>>] = t
        /\ \A p \in Posts, c \in Blocks : <<p, c>> # <<q, b>> => send'[<<p, c>>] = send[<<p, c>>]
    BY <2>3, <2>5 DEF TypeOK
  <2>8. \A p \in Posts : \A k \in DOMAIN got'[p] :
            \/ k \in DOMAIN got[p] /\ got'[p][k] = got[p][k]
            \/ p = q /\ got'[p][k] = <<b, s.next>>
    <3>1. ASSUME NEW p \in Posts, NEW k \in DOMAIN got'[p]
          PROVE  \/ k \in DOMAIN got[p] /\ got'[p][k] = got[p][k]
                 \/ p = q /\ got'[p][k] = <<b, s.next>>
      <4>1. \/ got'[p] = got[p]
            \/ p = q /\ got'[p] = Append(got[p], <<b, s.next>>)
        BY <2>3 DEF TypeOK
      <4>2. got[p] \in Seq(Places) /\ <<b, s.next>> \in Places
        BY <2>2 DEF TypeOK, Places
      <4> QED BY <3>1, <4>1, <4>2
    <3> QED BY <3>1
  <2>9. SUFFICES ASSUME NEW p \in Posts
                 PROVE  /\ \A k \in DOMAIN got'[p] : got'[p][k][1] <= blocks'[p]
                        /\ \A c \in Blocks : Active(p, c)' =>
                            /\ c <= blocks'[p]
                            /\ \/ p \in broken'
                               \/ c = blocks'[p] /\ task'[p] \in {"posting", "gone"}
                            /\ \A k \in DOMAIN got'[p] :
                                got'[p][k][1] = c => got'[p][k][2] < send'[<<p, c>>].next
    BY Zenon DEF StreamInv
  <2>10. \A k \in DOMAIN got'[p] : got'[p][k][1] <= blocks'[p]
    <3>1. b <= blocks[q] /\ blocks' = blocks
      BY <2>2, <2>4 DEF StreamInv
    <3>2. \A k \in DOMAIN got[p] : got[p][k][1] <= blocks[p]
      BY DEF StreamInv
    <3>3. SUFFICES ASSUME NEW k \in DOMAIN got'[p] PROVE got'[p][k][1] <= blocks[p]
      BY <3>1
    <3>4. CASE k \in DOMAIN got[p] /\ got'[p][k] = got[p][k]
      BY <3>2, <3>4
    <3>5. CASE p = q /\ got'[p][k] = <<b, s.next>>
      BY <3>1, <3>5
    <3> QED BY <2>8, <3>3, <3>4, <3>5
  <2>11. ASSUME NEW c \in Blocks, Active(p, c)'
         PROVE  /\ c <= blocks'[p]
                /\ p \in broken' \/ (c = blocks'[p] /\ task'[p] \in {"posting", "gone"})
                /\ \A k \in DOMAIN got'[p] :
                    got'[p][k][1] = c => got'[p][k][2] < send'[<<p, c>>].next
    <3>1. CASE <<p, c>> # <<q, b>>
      <4>1. send'[<<p, c>>] = send[<<p, c>>]
        BY <2>7, <3>1
      <4>2. Active(p, c)
        BY <2>11, <4>1 DEF Active
      <4>3. \A k \in DOMAIN got'[p] : got'[p][k][1] = c =>
                k \in DOMAIN got[p] /\ got'[p][k] = got[p][k]
        BY <2>8, <3>1
      <4> QED BY <2>4, <4>1, <4>2, <4>3 DEF StreamInv
    <3>2. CASE p = q /\ c = b
      <4>1. \A k \in DOMAIN got[p] : got[p][k][1] = b => got[p][k][2] < s.next
        BY <2>1, <2>2, <3>2 DEF StreamInv
      <4>2. \A k \in DOMAIN got[p] : got[p][k][2] \in Nat
        BY BoundsNat DEF TypeOK, Places
      <4>3. \A k \in DOMAIN got'[p] : got'[p][k][1] = b => got'[p][k][2] < s.next + 1
        <5>1. ASSUME NEW k \in DOMAIN got'[p], got'[p][k][1] = b
              PROVE  got'[p][k][2] < s.next + 1
          BY <2>2, <2>8, <4>1, <4>2, <5>1
        <5> QED BY <5>1
      <4> QED BY <2>2, <2>4, <2>6, <2>7, <3>2, <4>3 DEF StreamInv
    <3> QED BY <3>1, <3>2
  <2> QED BY <2>9, <2>10, <2>11
<1>8. ASSUME NEW q \in Posts, NEW b \in Blocks, EndCallback(q, b) PROVE StreamInv'
  <2>1. /\ UNCHANGED <<blocks, got, broken>>
        /\ send' = [send EXCEPT ![<<q, b>>] = NoSend]
        /\ task' = IF Awaited(q, b) THEN [task EXCEPT ![q] = "agent"] ELSE task
    BY <1>8 DEF EndCallback
  <2>2. ~Active(q, b)'
    BY <2>1 DEF TypeOK, Active, NoSend
  <2>3. SUFFICES ASSUME NEW p \in Posts, NEW c \in Blocks, Active(p, c)'
                 PROVE  /\ c <= blocks[p]
                        /\ p \in broken \/ (c = blocks[p] /\ task'[p] \in {"posting", "gone"})
                        /\ \A k \in DOMAIN got[p] :
                            got[p][k][1] = c => got[p][k][2] < send'[<<p, c>>].next
    BY <2>1 DEF StreamInv
  <2>4. <<p, c>> # <<q, b>>
    BY <2>2, <2>3
  <2>5. send'[<<p, c>>] = send[<<p, c>>]
    BY <2>1, <2>4 DEF TypeOK
  <2>6. Active(p, c)
    BY <2>3, <2>5 DEF Active
  <2>7. \/ task'[p] = task[p]
        \/ p = q /\ b = blocks[p]
    BY <2>1 DEF TypeOK, Awaited
  <2> QED BY <2>4, <2>5, <2>6, <2>7 DEF StreamInv
<1>9. ASSUME NEW tasks \in SUBSET Posts, StopVMs(tasks) PROVE StreamInv'
  BY <1>9, StreamKept DEF StopVMs, TypeOK
<1>10. ASSUME CrashBridge PROVE StreamInv'
  <2>1. \A p \in Posts, b \in Blocks : ~Active(p, b)'
    BY <1>10 DEF CrashBridge, Active, NoSend
  <2>2. UNCHANGED <<blocks, got>>
    BY <1>10 DEF CrashBridge
  <2> QED BY <2>1, <2>2 DEF StreamInv
<1>11. CASE UNCHANGED vars
  BY <1>11, StreamKept DEF vars
<1> QED BY <1>1, <1>2, <1>3, <1>4, <1>5, <1>6, <1>7, <1>8, <1>9, <1>10, <1>11
        DEF Next, HandlerStep, TaskStep, SendStep

\* A piece the user receives is a new one, and comes after all before unless a connection broke.
LEMMA PieceIsNext ==
    ASSUME TypeOK, StreamInv, NEW p \in Posts, NEW b \in Blocks, Active(p, b),
           NEW n \in 1..MaxPieces, n = send[<<p, b>>].next,
           got' = [got EXCEPT ![p] = Append(@, <<b, n>>)], broken' = broken
    PROVE  Stream!Deliver(p, <<b, n>>)
<1>1. /\ b <= blocks[p] /\ b \in Nat /\ n \in Nat
      /\ p \in broken \/ b = blocks[p]
      /\ \A k \in DOMAIN got[p] : got[p][k][1] = b => got[p][k][2] < n
  BY BoundsNat DEF StreamInv, Blocks
<1>2. \A k \in DOMAIN got[p] :
        /\ got[p][k][1] \in Nat /\ got[p][k][2] \in Nat /\ got[p][k][1] <= blocks[p]
  BY BoundsNat, SMTT(30) DEF TypeOK, StreamInv, Places, Blocks
<1>3. \A k \in DOMAIN got[p] :
        got[p][k] # <<b, n>> /\ (p \in broken \/ Stream!Before(got[p][k], <<b, n>>))
  <2>1. SUFFICES ASSUME NEW k \in DOMAIN got[p]
                 PROVE got[p][k] # <<b, n>> /\ (p \in broken \/ Stream!Before(got[p][k], <<b, n>>))
    OBVIOUS
  <2>2. PICK a : a = got[p][k]
    OBVIOUS
  <2>3. /\ a[1] \in Nat /\ a[2] \in Nat /\ a[1] <= blocks[p] /\ blocks[p] \in Nat
        /\ a[1] = b => a[2] < n
    <3>1. blocks[p] \in Nat
      BY BoundsNat DEF TypeOK
    <3>2. /\ got[p][k][1] \in Nat /\ got[p][k][2] \in Nat /\ got[p][k][1] <= blocks[p]
          /\ got[p][k][1] = b => got[p][k][2] < n
      BY <1>1, <1>2
    <3> QED BY <2>2, <3>1, <3>2
  <2>4. a # <<b, n>>
    BY <1>1, <2>3
  <2>5. p \in broken \/ a[1] < b \/ (a[1] = b /\ a[2] < n)
    BY <1>1, <2>3
  <2> QED BY <2>2, <2>4, <2>5 DEF Stream!Before
<1> QED BY <1>3 DEF Stream!Deliver

LEMMA StreamSteps ==
    TypeOK /\ StreamInv /\ [Next]_vars => [Stream!Next]_<<broken, got>>
<1> SUFFICES ASSUME TypeOK, StreamInv, [Next]_vars PROVE [Stream!Next]_<<broken, got>>
  OBVIOUS
<1> USE DEF post, bridge, plugin
<1>1. ASSUME NEW p \in Posts, NEW b \in Blocks, SendPiece(p, b)
      PROVE  [Stream!Next]_<<broken, got>>
  <2>1. PICK n : n = send[<<p, b>>].next
    OBVIOUS
  <2>2. Active(p, b) /\ n \in 1..MaxPieces /\ broken' = broken
    <3>1. PICK s : s = send[<<p, b>>] /\ s \in Sending \cup {NoSend}
      BY DEF TypeOK
    <3>2. Active(p, b) /\ s.of > 0 /\ s.next <= s.of /\ broken' = broken
      BY <1>1, <3>1 DEF SendPiece, Active
    <3>3. s \in Sending
      BY <3>1, <3>2 DEF NoSend
    <3> QED BY <2>1, <3>1, <3>2, <3>3, BoundsNat DEF Sending
  <2>3. \/ got' = got
        \/ got' = [got EXCEPT ![p] = Append(@, <<b, n>>)]
    BY <1>1, <2>1 DEF SendPiece
  <2>4. CASE got' = [got EXCEPT ![p] = Append(@, <<b, n>>)]
    <3>1. Stream!Deliver(p, <<b, n>>)
      BY <2>1, <2>2, <2>4, PieceIsNext
    <3>2. <<b, n>> \in Places
      BY <2>2 DEF Places
    <3> QED BY <3>1, <3>2 DEF Stream!Next
  <2> QED BY <2>2, <2>3, <2>4
<1>2. ASSUME NEW p \in Posts, Break(p) PROVE [Stream!Next]_<<broken, got>>
  <2>1. Stream!Break(p)
    BY <1>2 DEF Break, Stream!Break
  <2> QED BY <2>1 DEF Stream!Next
<1>3. ASSUME NEW p \in Posts, NEW e \in Envelopes, NEW k \in Kinds, Receive(p, e, k)
      PROVE  UNCHANGED <<broken, got>>
  BY <1>3 DEF Receive
<1>4. ASSUME NEW p \in Posts, NEW q \in Posts, Repeat(p, q) PROVE UNCHANGED <<broken, got>>
  BY <1>4 DEF Repeat
<1>5. ASSUME NEW p \in Posts,
             HandlerStep(p) \/ LoseRequest(p) \/ HandleWebhook(p) \/ TaskStep(p)
      PROVE  UNCHANGED <<broken, got>>
  BY <1>5 DEF HandlerStep, EndCommand, Route, Forward, HandlerThrows, LoseRequest,
              HandleWebhook, TaskStep, RecordSession, Deliver, EndTask
<1>6. ASSUME NEW p \in Posts, NEW b \in Blocks, EndCallback(p, b) PROVE UNCHANGED <<broken, got>>
  BY <1>6 DEF EndCallback
<1>7. ASSUME NEW tasks \in SUBSET Posts, StopVMs(tasks) PROVE UNCHANGED <<broken, got>>
  BY <1>7 DEF StopVMs
<1>8. ASSUME CrashBridge PROVE UNCHANGED <<broken, got>>
  BY <1>8 DEF CrashBridge
<1>9. CASE UNCHANGED vars
  BY <1>9 DEF vars
<1> QED BY <1>1, <1>2, <1>3, <1>4, <1>5, <1>6, <1>7, <1>8, <1>9 DEF Next, SendStep

\* The whole way of an answer (deliverWeChatReply, POST /callback, sendTextMessage)
\* implements AnswerStream: every piece reaches the user once at most, and in order unless
\* the connection of a callback broke.
THEOREM StreamCorrect == Spec => StreamSpec
<1>1. Init => Stream!Init
  BY DEF Init, Stream!Init
<1> QED BY <1>1, TypeInit, TypeStep, GateInit, GateStep, StreamInit, StreamStep, StreamSteps,
           PTL DEF Spec, StreamSpec, Stream!Spec

-----------------------------------------------------------------------------
(* The end of a task *)

Working  == {"session", "agent", "posting"}
Works(p) == task[p] \in Working

\* A bound on the steps that the plugin and the callback it waits for still take for a task:
\* a block is delivered, its pieces are sent, and it is answered.
PerBlock      == MaxPieces + 3
BlocksLeft(p) == (MaxBlocks - blocks[p]) * PerBlock
PiecesLeft(p) == LET s == send[<<p, blocks[p]>>] IN s.of + 1 - s.next

StepsLeft(p) ==
    CASE task[p] = "session" -> BlocksLeft(p) + 2
      [] task[p] = "agent"   -> BlocksLeft(p) + 1
      [] task[p] = "posting" -> BlocksLeft(p) + PiecesLeft(p) + 2
      [] OTHER               -> 0

\* The steps that the task itself needs.
OwnStep(p) == TaskStep(p) \/ (task[p] = "posting" /\ SendStep(p, blocks[p]))

\* No handler counts beyond the piece after its last.
Counted == \A p \in Posts, b \in Blocks : send[<<p, b>>].next <= send[<<p, b>>].of + 1

LEMMA CountedInit == Init => Counted
<1> SUFFICES ASSUME Init, NEW p \in Posts, NEW b \in Blocks
             PROVE  send[<<p, b>>].next <= send[<<p, b>>].of + 1
  BY DEF Counted
<1>1. send[<<p, b>>] = NoSend
  BY DEF Init
<1>2. NoSend.next <= NoSend.of + 1
  BY DEF NoSend
<1> QED BY <1>1, <1>2

LEMMA CountedStep == TypeOK /\ Counted /\ [Next]_vars => Counted'
<1> SUFFICES ASSUME TypeOK, Counted, [Next]_vars PROVE Counted'
  OBVIOUS
<1>1. ASSUME NEW q \in Posts, NEW c \in Blocks, NEW s, s.next <= s.of + 1,
             send' = [send EXCEPT ![<<q, c>>] = s]
      PROVE  Counted'
  BY <1>1 DEF Counted, TypeOK
<1>2. ASSUME send' = send PROVE Counted'
  BY <1>2 DEF Counted
<1>3. ASSUME NEW q \in Posts, Deliver(q) PROVE Counted'
  <2>1. PICK n \in 0..MaxPieces :
            \/ send' = send
            \/ send' = [send EXCEPT ![<<q, blocks[q] + 1>>] = [next |-> 1, of |-> n, ok |-> TRUE]]
    BY <1>3 DEF Deliver
  <2>2. PICK c \in Blocks : c = blocks[q] + 1
    BY <1>3, BoundsNat DEF Deliver, TypeOK, Blocks
  <2>3. PICK s : s = [next |-> 1, of |-> n, ok |-> TRUE]
    OBVIOUS
  <2>4. s.next <= s.of + 1
    BY <2>3, BoundsNat
  <2> QED BY <1>1, <1>2, <2>1, <2>2, <2>3, <2>4
<1>4. ASSUME NEW q \in Posts, NEW c \in Blocks, SendPiece(q, c) PROVE Counted'
  <2>1. PICK s : s = send[<<q, c>>]
    OBVIOUS
  <2>2. PICK ok \in BOOLEAN : send' = [send EXCEPT ![<<q, c>>] = NextPiece(s, ok)]
    BY <1>4, <2>1 DEF SendPiece
  <2>3. s \in Sending \cup {NoSend} /\ s.next <= s.of
    BY <1>4, <2>1 DEF SendPiece, TypeOK
  <2>4. NextPiece(s, ok).next <= NextPiece(s, ok).of + 1
    BY <2>3, BoundsNat DEF NextPiece, Sending, NoSend
  <2> QED BY <1>1, <2>2, <2>4
<1>5. ASSUME NEW q \in Posts, NEW c \in Blocks, EndCallback(q, c) PROVE Counted'
  <2>1. NoSend.next <= NoSend.of + 1
    BY DEF NoSend
  <2> QED BY <1>1, <1>5, <2>1 DEF EndCallback
<1>6. CASE CrashBridge
  <2>1. \A q \in Posts, c \in Blocks : send'[<<q, c>>] = NoSend
    BY <1>6 DEF CrashBridge
  <2>2. NoSend.next <= NoSend.of + 1
    BY DEF NoSend
  <2> QED BY <2>1, <2>2 DEF Counted
<1>7. ASSUME NEW q \in Posts,
             \/ \E e \in Envelopes, k \in Kinds : Receive(q, e, k)
             \/ \E r \in Posts : Repeat(q, r)
             \/ HandlerStep(q) \/ LoseRequest(q) \/ HandleWebhook(q)
             \/ RecordSession(q) \/ EndTask(q) \/ Break(q)
      PROVE  Counted'
  BY <1>2, <1>7 DEF Receive, Repeat, HandlerStep, EndCommand, Route, Forward, HandlerThrows,
                    LoseRequest, HandleWebhook, RecordSession, EndTask, Break
<1>8. CASE (\E tasks \in SUBSET Posts : StopVMs(tasks)) \/ UNCHANGED vars
  BY <1>2, <1>8 DEF StopVMs, vars
<1> QED BY <1>3, <1>4, <1>5, <1>6, <1>7, <1>8 DEF Next, TaskStep, SendStep

\* What the three summands are.
LEMMA StepsLeftNat ==
    ASSUME TypeOK, Counted, WaitsForHandler, NEW p \in Posts
    PROVE  /\ PerBlock \in Nat /\ PerBlock >= 3 /\ BlocksLeft(p) \in Nat
           /\ blocks[p] \in Nat
           /\ task[p] = "posting" => PiecesLeft(p) \in Nat /\ blocks[p] \in Blocks
           /\ StepsLeft(p) \in Nat
<1>1. PerBlock \in Nat /\ PerBlock >= 3 /\ blocks[p] \in Nat /\ MaxBlocks - blocks[p] \in Nat
  BY BoundsNat DEF PerBlock, TypeOK
<1>2. \A m, n \in Nat : m * n \in Nat
  OBVIOUS
<1>3. BlocksLeft(p) \in Nat
  BY <1>1, <1>2 DEF BlocksLeft
<1>4. ASSUME task[p] = "posting" PROVE PiecesLeft(p) \in Nat /\ blocks[p] \in Blocks
  <2>1. blocks[p] \in Blocks
    BY <1>4 DEF WaitsForHandler
  <2>2. PICK s \in Sending \cup {NoSend} : s = send[<<p, blocks[p]>>]
    BY <2>1 DEF TypeOK
  <2>3. s.next \in Nat /\ s.of \in Nat /\ s.next <= s.of + 1
    BY <2>1, <2>2, BoundsNat DEF Counted, Sending, NoSend
  <2>4. PiecesLeft(p) = s.of + 1 - s.next
    BY <2>2 DEF PiecesLeft
  <2> QED BY <2>1, <2>3, <2>4
<1>5. StepsLeft(p) \in Nat
  BY <1>3, <1>4 DEF StepsLeft
<1> QED BY <1>1, <1>3, <1>4, <1>5

\* Its own steps bring a task nearer to its end.
LEMMA OwnStepCounts ==
    ASSUME TypeOK, Counted, WaitsForHandler, NEW p \in Posts, OwnStep(p)
    PROVE  /\ task'[p] \in Working \cup {"done"}
           /\ StepsLeft(p)' \in Int /\ StepsLeft(p)' < StepsLeft(p)
<1>0. /\ PerBlock \in Nat /\ BlocksLeft(p) \in Nat /\ blocks[p] \in Nat
      /\ task[p] = "posting" => PiecesLeft(p) \in Nat /\ blocks[p] \in Blocks
      /\ MaxBlocks \in Nat /\ MaxPieces \in Nat
  BY StepsLeftNat, BoundsNat
<1>1. CASE RecordSession(p) \/ EndTask(p)
  <2>1. /\ blocks' = blocks
        /\ \/ task[p] = "session" /\ task'[p] \in {"agent", "done"}
           \/ task[p] = "agent" /\ task'[p] = "done"
    BY <1>1 DEF RecordSession, EndTask, TaskTo, TypeOK
  <2>2. BlocksLeft(p)' = BlocksLeft(p)
    BY <2>1 DEF BlocksLeft, PerBlock
  <2> QED BY <1>0, <2>1, <2>2 DEF StepsLeft, Working
<1>2. CASE Deliver(p)
  <2>1. PICK n \in 0..MaxPieces :
            \/ task' = task
            \/ /\ TaskTo(p, "posting")
               /\ send' = [send EXCEPT ![<<p, blocks[p] + 1>>] =
                             [next |-> 1, of |-> n, ok |-> TRUE]]
    BY <1>2 DEF Deliver
  <2>2. /\ task[p] = "agent" /\ blocks[p] < MaxBlocks /\ blocks'[p] = blocks[p] + 1
    BY <1>2 DEF Deliver, TypeOK
  <2>3. BlocksLeft(p) = BlocksLeft(p)' + PerBlock /\ BlocksLeft(p)' \in Nat
    <3>1. PICK m \in Nat : MaxBlocks - blocks[p] = m + 1 /\ MaxBlocks - blocks'[p] = m
      <4>1. MaxBlocks - blocks'[p] \in Nat /\ MaxBlocks - blocks[p] = (MaxBlocks - blocks'[p]) + 1
        BY <1>0, <2>2
      <4> QED BY <4>1
    <3>2. (m + 1) * PerBlock = m * PerBlock + PerBlock /\ m * PerBlock \in Nat
      BY <1>0
    <3> QED BY <3>1, <3>2 DEF BlocksLeft, PerBlock
  <2>4. CASE task' = task
    BY <1>0, <2>2, <2>3, <2>4 DEF StepsLeft, Working, PerBlock
  <2>5. CASE /\ TaskTo(p, "posting")
             /\ send' = [send EXCEPT ![<<p, blocks[p] + 1>>] = [next |-> 1, of |-> n, ok |-> TRUE]]
    <3>1. blocks'[p] \in Blocks
      BY <1>0, <2>2 DEF Blocks
    <3>2. send'[<<p, blocks'[p]>>] = [next |-> 1, of |-> n, ok |-> TRUE]
      BY <2>2, <2>5, <3>1 DEF TypeOK
    <3>3. PiecesLeft(p)' = n /\ task'[p] = "posting"
      BY <1>0, <2>5, <3>2 DEF PiecesLeft, TaskTo, TypeOK
    <3> QED BY <1>0, <2>2, <2>3, <3>3 DEF StepsLeft, Working, PerBlock
  <2> QED BY <2>1, <2>4, <2>5
<1>3. CASE task[p] = "posting" /\ SendPiece(p, blocks[p])
  <2>1. PICK s \in Sending \cup {NoSend} : s = send[<<p, blocks[p]>>]
    BY <1>0, <1>3 DEF TypeOK
  <2>2. PICK ok \in BOOLEAN : send' = [send EXCEPT ![<<p, blocks[p]>>] = NextPiece(s, ok)]
    BY <1>3, <2>1 DEF SendPiece
  <2>3. UNCHANGED <<task, blocks>>
    BY <1>3 DEF SendPiece, plugin
  <2>4. send'[<<p, blocks[p]>>] = NextPiece(s, ok)
    BY <1>0, <1>3, <2>2 DEF TypeOK
  <2>5. /\ NextPiece(s, ok).next = s.next + 1 /\ NextPiece(s, ok).of = s.of
        /\ s.next \in Nat /\ s.of \in Nat
    BY <1>0, <2>1 DEF NextPiece, Sending, NoSend
  <2>6. PiecesLeft(p)' = s.of + 1 - (s.next + 1) /\ PiecesLeft(p) = s.of + 1 - s.next
    BY <2>1, <2>3, <2>4, <2>5 DEF PiecesLeft
  <2>7. BlocksLeft(p)' = BlocksLeft(p)
    BY <2>3 DEF BlocksLeft, PerBlock
  <2> QED BY <1>0, <1>3, <2>3, <2>5, <2>6, <2>7 DEF StepsLeft, Working
<1>4. CASE task[p] = "posting" /\ EndCallback(p, blocks[p])
  <2>1. task'[p] = "agent" /\ blocks' = blocks
    BY <1>4 DEF EndCallback, Awaited, TypeOK
  <2>2. BlocksLeft(p)' = BlocksLeft(p)
    BY <2>1 DEF BlocksLeft, PerBlock
  <2> QED BY <1>0, <1>4, <2>1, <2>2 DEF StepsLeft, Working
<1> QED BY <1>1, <1>2, <1>3, <1>4 DEF OwnStep, TaskStep, SendStep

\* A task that works ends or works on, with no more to do than before.
Nearer(p) == task'[p] \in Working \cup {"done", "gone"} /\ StepsLeft(p)' <= StepsLeft(p)

LEMMA NoStepIsLost ==
    ASSUME TypeOK, GateInv, Counted, WaitsForHandler, [Next]_vars, NEW p \in Posts, Works(p)
    PROVE  Nearer(p)
<1>0. /\ PerBlock \in Nat /\ BlocksLeft(p) \in Nat /\ StepsLeft(p) \in Nat
      /\ task[p] = "posting" => PiecesLeft(p) \in Nat /\ blocks[p] \in Blocks
  BY StepsLeftNat
<1>1. ASSUME task'[p] = task[p], blocks'[p] = blocks[p],
             task[p] = "posting" => send'[<<p, blocks[p]>>] = send[<<p, blocks[p]>>]
      PROVE  Nearer(p)
  <2>1. BlocksLeft(p)' = BlocksLeft(p) /\ (task[p] = "posting" => PiecesLeft(p)' = PiecesLeft(p))
    BY <1>1 DEF BlocksLeft, PerBlock, PiecesLeft
  <2>2. StepsLeft(p)' = StepsLeft(p)
    BY <1>1, <2>1 DEF StepsLeft
  <2> QED BY <1>0, <1>1, <2>2 DEF Nearer, Works
<1>2. ASSUME task[p] = "posting", task'[p] = "agent", blocks'[p] = blocks[p] PROVE Nearer(p)
  <2>1. BlocksLeft(p)' = BlocksLeft(p)
    BY <1>2 DEF BlocksLeft, PerBlock
  <2> QED BY <1>0, <1>2, <2>1 DEF StepsLeft, Nearer, Working
<1>3. ASSUME OwnStep(p) PROVE Nearer(p)
  <2>1. /\ task'[p] \in Working \cup {"done"}
        /\ StepsLeft(p)' \in Int /\ StepsLeft(p)' < StepsLeft(p)
    BY <1>3, OwnStepCounts
  <2> QED BY <1>0, <2>1 DEF Nearer
<1>4. ASSUME NEW q \in Posts,
             \/ \E e \in Envelopes, k \in Kinds : Receive(q, e, k)
             \/ \E r \in Posts : Repeat(q, r)
             \/ EndCommand(q) \/ Route(q) \/ HandlerThrows(q)
      PROVE  Nearer(p)
  <2>1. UNCHANGED <<plugin, send>>
    BY <1>4 DEF Receive, Repeat, EndCommand, Route, HandlerThrows
  <2> QED BY <1>1, <2>1 DEF plugin
<1>5. ASSUME NEW q \in Posts, Forward(q) \/ LoseRequest(q) \/ HandleWebhook(q) PROVE Nearer(p)
  <2>1. task[q] \in {"none", "posted", "empty"}
    BY <1>5 DEF Forward, LoseRequest, HandleWebhook, GateInv, Busy
  <2>2. p # q
    BY <2>1 DEF Works, Working
  <2>3. UNCHANGED <<blocks, send>> /\ \E place \in TPcs : TaskTo(q, place)
    BY <1>5 DEF Forward, PostTask, LoseRequest, HandleWebhook, TPcs
  <2> QED BY <1>1, <2>2, <2>3 DEF TaskTo, TypeOK
<1>6. ASSUME NEW q \in Posts, TaskStep(q) PROVE Nearer(p)
  <2>1. CASE q = p
    BY <1>3, <1>6, <2>1 DEF OwnStep
  <2>2. CASE q # p
    <3>1. CASE RecordSession(q) \/ EndTask(q)
      <4>1. UNCHANGED <<blocks, send>> /\ \E place \in TPcs : TaskTo(q, place)
        BY <3>1 DEF RecordSession, EndTask, TPcs
      <4> QED BY <1>1, <2>2, <4>1 DEF TaskTo, TypeOK
    <3>2. CASE Deliver(q)
      <4>1. /\ \/ task' = task /\ send' = send
               \/ /\ TaskTo(q, "posting")
                  /\ \E s : send' = [send EXCEPT ![<<q, blocks[q] + 1>>] = s]
            /\ blocks' = [blocks EXCEPT ![q] = @ + 1]
        BY <3>2 DEF Deliver
      <4>2. task'[p] = task[p] /\ blocks'[p] = blocks[p]
        BY <2>2, <4>1 DEF TaskTo, TypeOK
      <4>3. task[p] = "posting" => send'[<<p, blocks[p]>>] = send[<<p, blocks[p]>>]
        BY <1>0, <2>2, <4>1 DEF TypeOK
      <4> QED BY <1>1, <4>2, <4>3
    <3> QED BY <1>6, <3>1, <3>2 DEF TaskStep
  <2> QED BY <2>1, <2>2
<1>7. ASSUME NEW q \in Posts, Break(q) PROVE Nearer(p)
  <2>1. task[q] = "posting" /\ TaskTo(q, "agent") /\ UNCHANGED <<blocks, send>>
    BY <1>7 DEF Break
  <2>2. CASE q = p
    BY <1>2, <2>1, <2>2 DEF TaskTo, TypeOK
  <2>3. CASE q # p
    BY <1>1, <2>1, <2>3 DEF TaskTo, TypeOK
  <2> QED BY <2>2, <2>3
<1>8. ASSUME NEW q \in Posts, NEW b \in Blocks, SendStep(q, b) PROVE Nearer(p)
  <2>1. CASE task[p] = "posting" /\ q = p /\ b = blocks[p]
    BY <1>3, <1>8, <2>1 DEF OwnStep
  <2>2. CASE ~(task[p] = "posting" /\ q = p /\ b = blocks[p])
    <3>1. /\ \E s : send' = [send EXCEPT ![<<q, b>>] = s]
          /\ blocks' = blocks
          /\ task' = task \/ (Awaited(q, b) /\ task' = [task EXCEPT ![q] = "agent"])
      BY <1>8 DEF SendStep, SendPiece, EndCallback, plugin
    <3>2. task'[p] = task[p]
      BY <2>2, <3>1 DEF Awaited, TypeOK
    <3>3. task[p] = "posting" => <<p, blocks[p]>> # <<q, b>>
      BY <2>2
    <3>4. task[p] = "posting" => send'[<<p, blocks[p]>>] = send[<<p, blocks[p]>>]
      BY <1>0, <3>1, <3>3 DEF TypeOK
    <3> QED BY <1>1, <3>1, <3>2, <3>4
  <2> QED BY <2>1, <2>2
<1>9. ASSUME NEW tasks \in SUBSET Posts, StopVMs(tasks) PROVE Nearer(p)
  <2>1. UNCHANGED <<blocks, send>> /\ task'[p] = IF p \in tasks THEN "gone" ELSE task[p]
    BY <1>9 DEF StopVMs
  <2>2. CASE p \in tasks
    <3>1. task'[p] = "gone"
      BY <2>1, <2>2
    <3>2. StepsLeft(p)' = 0
      BY <3>1 DEF StepsLeft
    <3> QED BY <1>0, <3>1, <3>2 DEF Nearer
  <2>3. CASE p \notin tasks
    BY <1>1, <2>1, <2>3
  <2> QED BY <2>2, <2>3
<1>10. CASE CrashBridge
  <2>1. blocks' = blocks /\ task'[p] = IF task[p] = "posting" THEN "agent" ELSE task[p]
    BY <1>10 DEF CrashBridge
  <2> QED BY <1>1, <1>2, <2>1
<1>11. CASE UNCHANGED vars
  BY <1>1, <1>11 DEF vars, plugin
<1> QED BY <1>4, <1>5, <1>6, <1>7, <1>8, <1>9, <1>10, <1>11 DEF Next, HandlerStep

\* A task that the plugin has accepted (HTTP 202) comes to an end as soon as its own steps
\* are taken: it works on until it is done or its VM is stopped, nobody else's step and no
\* failure adds to what it has to do, and each step of its own takes something off.  That
\* there is such a step to take is WaitsForHandlerCorrect.
THEOREM TasksComeToAnEnd ==
    Spec => /\ [](\A p \in Posts : StepsLeft(p) \in Nat)
            /\ [][\A p \in Posts : Works(p) =>
                    /\ task'[p] \in Working \cup {"done", "gone"}
                    /\ StepsLeft(p)' <= StepsLeft(p)
                    /\ OwnStep(p) => StepsLeft(p)' < StepsLeft(p)]_vars
<1> DEFINE Inv == TypeOK /\ GateInv /\ Counted /\ WaitsForHandler
<1>1. Spec => []Inv
  BY TypeInit, TypeStep, GateInit, GateStep, CountedInit, CountedStep, WaitStep,
     WaitsForHandlerCorrect, PTL DEF Spec
<1>2. Inv => \A p \in Posts : StepsLeft(p) \in Nat
  BY StepsLeftNat
<1>3. Inv /\ [Next]_vars =>
        [\A p \in Posts : Works(p) =>
            /\ task'[p] \in Working \cup {"done", "gone"}
            /\ StepsLeft(p)' <= StepsLeft(p)
            /\ OwnStep(p) => StepsLeft(p)' < StepsLeft(p)]_vars
  BY NoStepIsLost, OwnStepCounts DEF Nearer
<1>4. Spec => [](\A p \in Posts : StepsLeft(p) \in Nat)
  BY <1>1, <1>2, PTL
<1>5. Spec => [][\A p \in Posts : Works(p) =>
                    /\ task'[p] \in Working \cup {"done", "gone"}
                    /\ StepsLeft(p)' <= StepsLeft(p)
                    /\ OwnStep(p) => StepsLeft(p)' < StepsLeft(p)]_vars
  BY <1>1, <1>3, PTL DEF Spec
<1> QED BY <1>4, <1>5
=============================================================================
