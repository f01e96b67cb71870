--------------------------- MODULE TextChunksProofs ---------------------------
(* Theorems about TextChunks for any text and any limit. *)
EXTENDS TextChunks, TLAPS

-----------------------------------------------------------------------------
(* Types *)

\* What the place in the program says of the rest.
Phase ==
    /\ pc = "single" => Length <= MaxLength /\ pos = 0 /\ pieces = <<>>
    /\ pc = "split" => Length > MaxLength
    /\ pc \in {"single", "split"} => wire = <<>> /\ success
    /\ pc \in {"send", "done"} => pos = Length

\* Appending: what is there stays, and the new one is last.
LEMMA Appended ==
    ASSUME NEW S, NEW s \in Seq(S), NEW x \in S
    PROVE  /\ Append(s, x) \in Seq(S) /\ Len(s) \in Nat /\ Len(Append(s, x)) = Len(s) + 1
           /\ \A k \in DOMAIN Append(s, x) :
                \/ k \in DOMAIN s /\ k <= Len(s) /\ Append(s, x)[k] = s[k]
                \/ k = Len(s) + 1 /\ Append(s, x)[k] = x
OBVIOUS

LEMMA LengthNat == ASSUME TypeOK PROVE Length \in Nat /\ pos \in Nat /\ pos <= Length
<1>1. Length \in Nat
  BY DEF TypeOK, Length
<1> QED BY <1>1 DEF TypeOK

LEMMA PiecesNat ==
    ASSUME TypeOK
    PROVE  /\ pieces \in Seq(Pieces) /\ Len(pieces) \in Nat
           /\ \A k \in DOMAIN pieces : pieces[k].from \in Nat /\ pieces[k].to \in Nat
<1>1. pieces \in Seq(Pieces) /\ Length \in Nat
  BY LengthNat DEF TypeOK
<1>2. \A p \in Pieces : p.from \in Nat /\ p.to \in Nat
  BY <1>1 DEF Pieces
<1>3. \A k \in DOMAIN pieces : pieces[k] \in Pieces
  BY <1>1
<1> QED BY <1>1, <1>2, <1>3

LEMMA MaxNat == MaxLength \in Nat /\ MaxLength > 0 /\ MaxText \in Nat
BY ChunkAssumption

\* Init's text is a finite one.
LEMMA TypeInit == Init => TypeOK /\ Phase
<1> SUFFICES ASSUME Init PROVE TypeOK /\ Phase
  OBVIOUS
<1>1. PICK n \in 0..MaxText : content \in [1..n -> Chars]
  BY DEF Init, Texts
<1>2. content \in Seq(Chars) /\ Length = n /\ n \in Nat
  BY <1>1, MaxNat DEF Length
<1>3. 0 \in 0..Length
  BY <1>2
<1>4. <<>> \in Seq(Pieces) /\ <<>> \in Seq(Sends)
  OBVIOUS
<1>5. IF Length <= MaxLength THEN pc = "single" ELSE pc = "split"
  BY DEF Init
<1>6. Length <= MaxLength \/ Length > MaxLength
  BY <1>2, MaxNat
<1> QED BY <1>2, <1>3, <1>4, <1>5, <1>6 DEF Init, TypeOK, Phase

\* What a cut is: in the second half of what a message may hold.
LEMMA CutPlace ==
    ASSUME NEW i \in 0..MaxLength, SplitIndex(i)
    PROVE  i \in 1..MaxLength /\ SecondHalf(i)
BY MaxNat DEF SplitIndex, SecondHalf

LEMMA TypeStep == TypeOK /\ Phase /\ [Next]_vars => TypeOK' /\ Phase'
<1> SUFFICES ASSUME TypeOK, Phase, [Next]_vars PROVE TypeOK' /\ Phase'
  OBVIOUS
<1>0. Length \in Nat /\ pos \in Nat /\ pos <= Length
  BY LengthNat
<1>1. CASE SplitLoop
  <2>1. PICK i \in 0..MaxLength, to \in 0..Length :
            /\ SplitIndex(i) /\ TrimStart(pos + i, to)
            /\ pieces' = Append(pieces, [from |-> pos, to |-> pos + i])
            /\ pos' = to
    BY <1>1 DEF SplitLoop
  <2>2. /\ UNCHANGED <<content, wire, success, pc>> /\ pc = "split" /\ Length' = Length
        /\ Length - pos > MaxLength
    BY <1>1 DEF SplitLoop, Length, Left
  <2>3. [from |-> pos, to |-> pos + i] \in Pieces
    <3>1. pos + i \in 0..Length /\ pos \in 0..Length
      BY <1>0, <2>1, <2>2, MaxNat
    <3> QED BY <3>1 DEF Pieces
  <2>4. pieces' \in Seq(Pieces)
    BY <2>1, <2>3, Appended DEF TypeOK
  <2>5. Pieces' = Pieces /\ Sends' = Sends
    BY <2>2 DEF Pieces, Sends
  <2> QED BY <2>1, <2>2, <2>4, <2>5 DEF TypeOK, Phase
<1>2. CASE SplitEnds
  <2>1. /\ UNCHANGED <<content, wire, success>> /\ pc' = "send" /\ Length' = Length
        /\ pos' = Length
        /\ pieces' = IF Left > 0 THEN Append(pieces, Rest) ELSE pieces
    BY <1>2 DEF SplitEnds, Length
  <2>2. Rest \in Pieces
    BY <1>0 DEF Rest, Pieces
  <2>3. pieces' \in Seq(Pieces)
    BY <2>1, <2>2, Appended DEF TypeOK
  <2>4. Pieces' = Pieces /\ Sends' = Sends
    BY <2>1 DEF Pieces, Sends
  <2>5. Length \in 0..Length
    BY <1>0
  <2> QED BY <2>1, <2>3, <2>4, <2>5 DEF TypeOK, Phase
<1>3. CASE SendPiece
  <2>1. PICK ok \in BOOLEAN :
            wire' = Posted(pieces[Len(wire) + 1], ok) /\ success' = Result(ok)
    BY <1>3 DEF SendPiece
  <2>2. /\ UNCHANGED <<content, pos, pieces, pc>> /\ pc = "send" /\ Length' = Length
        /\ Len(wire) < Len(pieces)
    BY <1>3 DEF SendPiece, Length
  <2>3. Len(wire) + 1 \in 1..Len(pieces)
    BY <2>2 DEF TypeOK
  <2>4. PICK p \in Pieces : p = pieces[Len(wire) + 1]
    BY <2>3 DEF TypeOK
  <2>5. [piece |-> p, numbered |-> wire # <<>>, ok |-> ok] \in Sends
    BY <2>1, <2>4 DEF Sends
  <2>6. wire' \in Seq(Sends)
    BY <2>1, <2>4, <2>5, Appended DEF TypeOK, Posted
  <2>7. success' \in BOOLEAN
    BY <2>1 DEF Result
  <2>8. Pieces' = Pieces /\ Sends' = Sends
    BY <2>2 DEF Pieces, Sends
  <2> QED BY <2>2, <2>6, <2>7, <2>8 DEF TypeOK, Phase
<1>4. CASE SendEnds
  <2>1. Pieces' = Pieces /\ Sends' = Sends /\ Length' = Length
    BY <1>4 DEF SendEnds, Pieces, Sends, Length
  <2> QED BY <1>4, <2>1 DEF SendEnds, TypeOK, Phase
<1>5. CASE SendWhole
  <2>1. PICK ok \in BOOLEAN : wire' = Posted(Rest, ok) /\ success' = Result(ok)
    BY <1>5 DEF SendWhole
  <2>2. /\ content' = content /\ pc' = "done" /\ pos' = Length /\ pieces' = <<Rest>>
        /\ Length' = Length
    BY <1>5 DEF SendWhole, Length
  <2>3. Rest \in Pieces
    BY <1>0 DEF Rest, Pieces
  <2>4. [piece |-> Rest, numbered |-> wire # <<>>, ok |-> ok] \in Sends
    BY <2>1, <2>3 DEF Sends
  <2>5. wire' \in Seq(Sends)
    BY <2>1, <2>4, Appended DEF TypeOK, Posted
  <2>6. success' \in BOOLEAN
    BY <2>1 DEF Result
  <2>7. Pieces' = Pieces /\ Sends' = Sends
    BY <2>2 DEF Pieces, Sends
  <2>8. <<Rest>> \in Seq(Pieces) /\ Length \in 0..Length
    BY <1>0, <2>3
  <2> QED BY <2>2, <2>5, <2>6, <2>7, <2>8 DEF TypeOK, Phase
<1>6. CASE UNCHANGED vars
  <2>1. Pieces' = Pieces /\ Sends' = Sends /\ Length' = Length
    BY <1>6 DEF vars, Pieces, Sends, Length
  <2> QED BY <1>6, <2>1 DEF vars, TypeOK, Phase
<1> QED BY <1>1, <1>2, <1>3, <1>4, <1>5, <1>6 DEF Next

\* The loops of sendTextMessage stay within the text.
THEOREM TypeCorrect == Spec => []TypeOK
<1> QED BY TypeInit, TypeStep, PTL DEF Spec

-----------------------------------------------------------------------------
(* The cuts *)

\* What SplitLoop does, in the terms of the next lemmas.
LEMMA LoopCuts ==
    ASSUME TypeOK, Phase, SplitLoop
    PROVE  \E i \in 1..MaxLength, to \in 0..Length :
            /\ SplitIndex(i) /\ SecondHalf(i) /\ pos + i <= to /\ pos + i < Length
            /\ \A k \in (pos + i + 1)..to : content[k] \in Spaces
            /\ pieces' = Append(pieces, [from |-> pos, to |-> pos + i])
            /\ [from |-> pos, to |-> pos + i] \in Pieces
            /\ pos' = to /\ pc = "split" /\ pc' = "split"
            /\ UNCHANGED <<content, wire, success>>
<1>1. PICK i \in 0..MaxLength, to \in 0..Length :
            /\ SplitIndex(i) /\ TrimStart(pos + i, to)
            /\ pieces' = Append(pieces, [from |-> pos, to |-> pos + i])
            /\ pos' = to
  BY DEF SplitLoop
<1>2. i \in 1..MaxLength /\ SecondHalf(i)
  BY <1>1, CutPlace
<1>3. /\ Length - pos > MaxLength /\ pc = "split" /\ UNCHANGED <<content, wire, success, pc>>
  BY DEF SplitLoop, Left
<1>4. Length \in Nat /\ pos \in Nat /\ MaxLength \in Nat
  BY LengthNat, MaxNat
<1>5. pos + i <= to /\ \A k \in (pos + i + 1)..to : content[k] \in Spaces
  <2>1. to \in (pos + i)..Length /\ \A k \in ((pos + i) + 1)..to : content[k] \in Spaces
    BY <1>1 DEF TrimStart
  <2>2. pos + i \in Nat
    BY <1>1, <1>4
  <2> QED BY <1>4, <2>1, <2>2
<1>6. pos + i < Length /\ [from |-> pos, to |-> pos + i] \in Pieces
  BY <1>2, <1>3, <1>4 DEF Pieces
<1> QED BY <1>1, <1>2, <1>3, <1>5, <1>6

FitInv == PiecesFit /\ \A k \in DOMAIN pieces : pieces[k].to <= pos

LEMMA FitInit == Init => FitInv
BY DEF Init, FitInv, PiecesFit

LEMMA FitStep == TypeOK /\ Phase /\ FitInv /\ [Next]_vars => FitInv'
<1> SUFFICES ASSUME TypeOK, Phase, FitInv, [Next]_vars PROVE FitInv'
  OBVIOUS
<1>0. /\ Length \in Nat /\ pos \in Nat /\ pos <= Length /\ MaxLength \in Nat /\ MaxLength > 0
      /\ pieces \in Seq(Pieces) /\ Len(pieces) \in Nat
      /\ \A k \in DOMAIN pieces :
            pieces[k].from \in Nat /\ pieces[k].to \in Nat /\ pieces[k].to <= pos
  BY LengthNat, MaxNat, PiecesNat DEF FitInv
<1>1. CASE SplitLoop
  <2>1. PICK i \in 1..MaxLength, to \in 0..Length :
            /\ SecondHalf(i) /\ pos + i <= to
            /\ pieces' = Append(pieces, [from |-> pos, to |-> pos + i])
            /\ [from |-> pos, to |-> pos + i] \in Pieces
            /\ pos' = to /\ pc = "split" /\ UNCHANGED content
    BY <1>1, LoopCuts
  <2>2. PICK p \in Pieces : p = [from |-> pos, to |-> pos + i]
    BY <2>1
  <2>3. Size(p) = i /\ p.to = pos + i
    BY <1>0, <2>2 DEF Size
  <2>4. Length' = Length /\ Length > MaxLength
    BY <2>1 DEF Phase, Length
  <2>5. \A k \in DOMAIN pieces' :
            \/ k \in DOMAIN pieces /\ k <= Len(pieces) /\ pieces'[k] = pieces[k]
            \/ k = Len(pieces) + 1 /\ pieces'[k] = p
    BY <1>0, <2>1, <2>2, Appended
  <2>6. \A k \in DOMAIN pieces : Size(pieces[k]) \in 1..MaxLength /\ SecondHalf(Size(pieces[k]))
    BY <2>1, <2>4 DEF FitInv, PiecesFit
  <2>7. PiecesFit'
    <3>1. SUFFICES ASSUME NEW k \in DOMAIN pieces'
                   PROVE Size(pieces'[k]) \in 1..MaxLength /\ SecondHalf(Size(pieces'[k]))
      BY DEF PiecesFit, Size, SecondHalf
    <3> QED BY <2>1, <2>3, <2>5, <2>6
  <2>8. \A k \in DOMAIN pieces' : pieces'[k].to <= pos'
    BY <1>0, <2>1, <2>3, <2>5
  <2> QED BY <2>7, <2>8 DEF FitInv
<1>2. CASE SplitEnds
  <2>1. /\ content' = content /\ pc = "split" /\ pc' = "send" /\ pos' = Length
        /\ Length - pos <= MaxLength
        /\ pieces' = IF Length - pos > 0 THEN Append(pieces, Rest) ELSE pieces
    BY <1>2 DEF SplitEnds, Left
  <2>2. Rest \in Pieces /\ Size(Rest) = Length - pos /\ Rest.to = Length
    BY <1>0 DEF Rest, Size, Pieces
  <2>3. PICK p \in Pieces : p = Rest
    BY <2>2
  <2>4. Length' = Length /\ Length > MaxLength
    BY <2>1 DEF Phase, Length
  <2>5. \A k \in DOMAIN pieces : Size(pieces[k]) \in 1..MaxLength /\ SecondHalf(Size(pieces[k]))
    BY <2>1, <2>4 DEF FitInv, PiecesFit
  <2>6. CASE Length - pos > 0
    <3>1. /\ Len(pieces') = Len(pieces) + 1
          /\ \A k \in DOMAIN pieces' :
              \/ k \in DOMAIN pieces /\ k <= Len(pieces) /\ pieces'[k] = pieces[k]
              \/ k = Len(pieces) + 1 /\ pieces'[k] = p
      BY <1>0, <2>1, <2>3, <2>6, Appended
    <3>2. Size(p) \in 1..MaxLength
      BY <1>0, <2>1, <2>2, <2>3, <2>6
    <3>3. PiecesFit'
      <4>1. SUFFICES ASSUME NEW k \in DOMAIN pieces'
                     PROVE  /\ Size(pieces'[k]) \in 1..MaxLength
                            /\ k < Len(pieces') => SecondHalf(Size(pieces'[k]))
        BY <2>1 DEF PiecesFit, Size, SecondHalf
      <4> QED BY <1>0, <2>5, <3>1, <3>2
    <3>4. \A k \in DOMAIN pieces' : pieces'[k].to <= pos'
      BY <1>0, <2>1, <2>2, <2>3, <3>1
    <3> QED BY <3>3, <3>4 DEF FitInv
  <2>7. CASE ~(Length - pos > 0)
    <3>1. pieces' = pieces
      BY <2>1, <2>7
    <3>2. PiecesFit'
      BY <2>1, <2>5, <3>1 DEF PiecesFit, Size, SecondHalf
    <3>3. \A k \in DOMAIN pieces' : pieces'[k].to <= pos'
      BY <1>0, <2>1, <3>1
    <3> QED BY <3>2, <3>3 DEF FitInv
  <2> QED BY <2>6, <2>7
<1>3. CASE SendPiece \/ SendEnds
  <2>1. /\ UNCHANGED <<content, pos, pieces>> /\ pc = "send" /\ pc' # "split"
        /\ Length' = Length
    BY <1>3 DEF SendPiece, SendEnds, Length
  <2> QED BY <2>1 DEF FitInv, PiecesFit, Size, SecondHalf
<1>4. CASE SendWhole
  <2>1. /\ content' = content /\ pc = "single" /\ pos' = Length /\ pieces' = <<Rest>>
        /\ Length' = Length /\ Length <= MaxLength
    BY <1>4 DEF SendWhole, Phase, Length
  <2>2. Rest.to = Length
    BY DEF Rest
  <2> QED BY <1>0, <2>1, <2>2 DEF FitInv, PiecesFit
<1>5. CASE UNCHANGED vars
  <2>1. UNCHANGED <<pos, pieces, pc>> /\ Length' = Length
    BY <1>5 DEF vars, Length
  <2> QED BY <2>1 DEF FitInv, PiecesFit, Size, SecondHalf
<1> QED BY <1>1, <1>2, <1>3, <1>4, <1>5 DEF Next

\* No piece of a long text is empty or too long, and none but the last is short, whatever
\* MAX_LENGTH is.
THEOREM PiecesFitCorrect == Spec => []PiecesFit
<1>1. FitInv => PiecesFit
  BY DEF FitInv
<1> QED BY <1>1, TypeInit, TypeStep, FitInit, FitStep, PTL DEF Spec

-----------------------------------------------------------------------------
(* The number of pieces *)

\* Every cut takes half a message from the text at least, and the last one is made with more
\* than a whole message still to send, which pays for a short rest.
FewInv ==
    /\ FewMessages
    /\ pc = "split" =>
        /\ Len(pieces) * MaxLength <= 2 * pos
        /\ pieces # <<>> => (Len(pieces) + 1) * MaxLength < 2 * Length

LEMMA FewInit == Init => FewInv
<1> SUFFICES ASSUME Init PROVE FewInv
  OBVIOUS
<1>1. TypeOK
  BY TypeInit
<1>2. pieces = <<>> /\ pos = 0 /\ Len(pieces) = 0 /\ Len(pieces) * MaxLength = 0
  BY MaxNat DEF Init
<1>3. Length > MaxLength => 0 < 2 * Length
  BY <1>1, LengthNat, MaxNat
<1> QED BY <1>2, <1>3 DEF FewInv, FewMessages

LEMMA OneMore ==
    ASSUME NEW n \in Nat, NEW m \in Nat
    PROVE  /\ (n + 1) * m = n * m + m /\ ((n + 1) + 1) * m = n * m + 2 * m
           /\ n * m \in Nat
OBVIOUS

LEMMA FewStep == TypeOK /\ Phase /\ FewInv /\ [Next]_vars => FewInv'
<1> SUFFICES ASSUME TypeOK, Phase, FewInv, [Next]_vars PROVE FewInv'
  OBVIOUS
<1>0. /\ Length \in Nat /\ pos \in Nat /\ pos <= Length /\ MaxLength \in Nat /\ MaxLength > 0
      /\ pieces \in Seq(Pieces) /\ Len(pieces) \in Nat
  BY LengthNat, MaxNat, PiecesNat
<1>1. PICK n \in Nat, used \in Nat :
          /\ n = Len(pieces) /\ used = n * MaxLength
          /\ (n + 1) * MaxLength = used + MaxLength
          /\ ((n + 1) + 1) * MaxLength = used + 2 * MaxLength
  BY <1>0, OneMore
<1>2. CASE SplitLoop
  <2>1. PICK i \in 1..MaxLength, to \in 0..Length :
            /\ SecondHalf(i) /\ pos + i <= to
            /\ pieces' = Append(pieces, [from |-> pos, to |-> pos + i])
            /\ pos' = to /\ pc = "split" /\ UNCHANGED content
    BY <1>2, LoopCuts
  <2>2. Length' = Length /\ Length - pos > MaxLength
    BY <1>2, <2>1 DEF SplitLoop, Left, Length
  <2>3. Len(pieces') = n + 1
    BY <1>0, <1>1, <2>1
  <2>4. used <= 2 * pos /\ 2 * i >= MaxLength
    BY <1>1, <2>1 DEF FewInv, SecondHalf
  <2>5. used + MaxLength <= 2 * pos' /\ used + 2 * MaxLength < 2 * Length
    BY <1>0, <2>1, <2>2, <2>4
  <2>6. used + MaxLength < 2 * Length
    BY <1>0, <2>5
  <2> QED BY <1>1, <2>2, <2>3, <2>5, <2>6 DEF FewInv, FewMessages
<1>3. CASE SplitEnds
  <2>1. /\ Length' = Length /\ pc = "split" /\ pc' = "send"
        /\ pieces' = IF Left > 0 THEN Append(pieces, Rest) ELSE pieces
    BY <1>3 DEF SplitEnds, Length
  <2>2. Len(pieces') \in {n, n + 1}
    BY <1>0, <1>1, <2>1
  <2>3. Length > MaxLength
    BY <2>1 DEF Phase
  <2>4. used + MaxLength < 2 * Length
    <3>1. CASE pieces = <<>>
      <4>1. n = 0 /\ used = 0
        BY <1>0, <1>1, <3>1
      <4> QED BY <1>0, <2>3, <4>1
    <3>2. CASE pieces # <<>>
      BY <1>1, <2>1, <3>2 DEF FewInv
    <3> QED BY <3>1, <3>2
  <2>5. used < 2 * Length
    BY <1>0, <2>4
  <2> QED BY <1>1, <2>1, <2>2, <2>4, <2>5 DEF FewInv, FewMessages
<1>4. CASE SendPiece \/ SendEnds
  <2>1. pieces' = pieces /\ pc' # "split" /\ Length' = Length
    BY <1>4 DEF SendPiece, SendEnds, Length
  <2> QED BY <2>1 DEF FewInv, FewMessages
<1>5. CASE SendWhole
  <2>1. pc' = "done" /\ Length' = Length /\ Length <= MaxLength
    BY <1>5 DEF SendWhole, Phase, Length
  <2> QED BY <1>0, <2>1 DEF FewInv, FewMessages
<1>6. CASE UNCHANGED vars
  <2>1. UNCHANGED <<pos, pieces, pc>> /\ Length' = Length
    BY <1>6 DEF vars, Length
  <2> QED BY <2>1 DEF FewInv, FewMessages
<1> QED BY <1>2, <1>3, <1>4, <1>5, <1>6 DEF Next

\* A long text makes fewer than twice the messages its characters fill, whatever MAX_LENGTH
\* is and wherever the text may be cut.
THEOREM FewMessagesCorrect == Spec => []FewMessages
<1>1. FewInv => FewMessages
  BY DEF FewInv
<1> QED BY <1>1, TypeInit, TypeStep, FewInit, FewStep, PTL DEF Spec

-----------------------------------------------------------------------------
(* What is lost, and where a text is cut *)

\* Appending one more piece p to the pieces, which reach up to pos, and going on to to.
LEMMA SpaceKept ==
    ASSUME TypeOK, Phase, FitInv, OnlySpaceLost, UNCHANGED content,
           NEW p \in Pieces, p.from = pos, pieces' = Append(pieces, p),
           pos' \in 0..Length, p.to <= pos',
           \A k \in (p.to + 1)..pos' : content[k] \in Spaces
    PROVE  OnlySpaceLost'
<1>1. /\ Length \in Nat /\ pos \in Nat /\ pos' \in Nat /\ Len(pieces) \in Nat
      /\ p.from \in Nat /\ p.to \in Nat /\ pieces \in Seq(Pieces)
      /\ \A k \in DOMAIN pieces :
            pieces[k].from \in Nat /\ pieces[k].to \in Nat /\ pieces[k].to <= pos
  BY LengthNat, PiecesNat DEF FitInv, Pieces
<1>2. /\ Len(pieces') = Len(pieces) + 1 /\ DOMAIN pieces' = 1..(Len(pieces) + 1)
      /\ \A k \in DOMAIN pieces : pieces'[k] = pieces[k]
      /\ pieces'[Len(pieces) + 1] = p
  BY <1>1
<1>3. DOMAIN pieces = 1..Len(pieces)
  BY <1>1
<1>4. \A k \in 1..(Len(pieces') - 1) : pieces'[k].to <= pieces'[k + 1].from
  <2>1. SUFFICES ASSUME NEW k \in 1..(Len(pieces') - 1)
                 PROVE pieces'[k].to <= pieces'[k + 1].from
    OBVIOUS
  <2>2. CASE k = Len(pieces)
    <3>1. Len(pieces) \in DOMAIN pieces
      BY <1>1, <1>3, <2>2
    <3> QED BY <1>1, <1>2, <2>2, <3>1
  <2>3. CASE k # Len(pieces)
    <3>1. k \in 1..(Len(pieces) - 1) /\ k \in DOMAIN pieces /\ k + 1 \in DOMAIN pieces
      <4>1. PICK n \in Nat : n = Len(pieces)
        BY <1>1
      <4>2. k \in 1..n /\ k # n
        BY <1>2, <2>3, <4>1
      <4>3. k \in 1..(n - 1) /\ k \in 1..n /\ k + 1 \in 1..n
        BY <4>2
      <4> QED BY <1>3, <4>1, <4>3
    <3>2. pieces[k].to <= pieces[k + 1].from
      BY <3>1 DEF OnlySpaceLost
    <3> QED BY <1>2, <3>1, <3>2
  <2> QED BY <2>2, <2>3
<1>5. ASSUME NEW i \in 1..pos'
      PROVE  \/ content[i] \in Spaces
             \/ \E k \in DOMAIN pieces' : i \in (pieces'[k].from + 1)..pieces'[k].to
  <2>1. CASE i <= pos
    <3>1. i \in 1..pos
      BY <1>1, <2>1
    <3>2. \/ content[i] \in Spaces
          \/ \E k \in DOMAIN pieces : i \in (pieces[k].from + 1)..pieces[k].to
      BY <3>1 DEF OnlySpaceLost
    <3>3. DOMAIN pieces \subseteq DOMAIN pieces'
      BY <1>1, <1>2, <1>3
    <3> QED BY <1>2, <3>2, <3>3
  <2>2. CASE i > pos /\ i <= p.to
    <3>1. i \in (p.from + 1)..p.to
      BY <1>1, <2>2
    <3>2. Len(pieces) + 1 \in DOMAIN pieces'
      BY <1>1, <1>2
    <3> QED BY <1>2, <3>1, <3>2
  <2>3. CASE i > p.to
    <3>1. i \in (p.to + 1)..pos'
      BY <1>1, <2>3
    <3> QED BY <3>1
  <2> QED BY <1>1, <2>1, <2>2, <2>3
<1> QED BY <1>4, <1>5 DEF OnlySpaceLost

LEMMA SpaceInit == Init => OnlySpaceLost
<1>1. Init => pieces = <<>> /\ pos = 0
  BY DEF Init
<1>2. 1..0 = {} /\ 1..(Len(<<>>) - 1) = {}
  OBVIOUS
<1> QED BY <1>1, <1>2 DEF OnlySpaceLost

LEMMA SpaceStep == TypeOK /\ Phase /\ FitInv /\ OnlySpaceLost /\ [Next]_vars => OnlySpaceLost'
<1> SUFFICES ASSUME TypeOK, Phase, FitInv, OnlySpaceLost, [Next]_vars PROVE OnlySpaceLost'
  OBVIOUS
<1>0. Length \in Nat /\ pos \in Nat /\ pos <= Length
  BY LengthNat
<1>1. CASE SplitLoop
  <2>1. PICK i \in 1..MaxLength, to \in 0..Length :
            /\ pos + i <= to
            /\ \A k \in (pos + i + 1)..to : content[k] \in Spaces
            /\ pieces' = Append(pieces, [from |-> pos, to |-> pos + i])
            /\ [from |-> pos, to |-> pos + i] \in Pieces
            /\ pos' = to /\ UNCHANGED content
    BY <1>1, LoopCuts
  <2>2. PICK p \in Pieces : p = [from |-> pos, to |-> pos + i]
    BY <2>1
  <2>3. p.from = pos /\ p.to = pos + i
    BY <2>2
  <2> QED BY <2>1, <2>2, <2>3, SpaceKept
<1>2. CASE SplitEnds \/ SendWhole
  <2>1. Rest \in Pieces /\ Rest.from = pos /\ Rest.to = Length
    BY <1>0 DEF Rest, Pieces
  <2>2. UNCHANGED content /\ pos' = Length
    BY <1>2 DEF SplitEnds, SendWhole
  <2>3. CASE pieces' = Append(pieces, Rest)
    <3>1. \A k \in (Length + 1)..Length : content[k] \in Spaces
      BY <1>0
    <3>2. Length \in 0..Length /\ Length <= Length
      BY <1>0
    <3> QED BY <2>1, <2>2, <2>3, <3>1, <3>2, SpaceKept
  <2>4. CASE pieces' = pieces /\ ~(Left > 0)
    <3>1. pos' = pos
      BY <1>0, <2>2, <2>4 DEF Left
    <3> QED BY <2>2, <2>4, <3>1 DEF OnlySpaceLost
  <2>5. SendWhole => pieces' = Append(pieces, Rest)
    <3>1. SendWhole => pieces = <<>> /\ pieces' = <<Rest>>
      BY DEF SendWhole, Phase
    <3> QED BY <3>1
  <2>6. SplitEnds => pieces' = Append(pieces, Rest) \/ (pieces' = pieces /\ ~(Left > 0))
    BY DEF SplitEnds
  <2> QED BY <1>2, <2>3, <2>4, <2>5, <2>6
<1>3. CASE SendPiece \/ SendEnds \/ UNCHANGED vars
  BY <1>3 DEF SendPiece, SendEnds, vars, OnlySpaceLost
<1> QED BY <1>1, <1>2, <1>3 DEF Next

\* Whatever the text, what is in no piece is white space, and the pieces follow each other.
THEOREM OnlySpaceLostCorrect == Spec => []OnlySpaceLost
<1> QED BY TypeInit, TypeStep, FitInit, FitStep, SpaceInit, SpaceStep, PTL DEF Spec

LEMMA CutsInit == Init => CutsBetweenWords
BY DEF Init, CutsBetweenWords

\* What CutsBetweenWords says of one piece.
CutWell(p) ==
    \/ p.to = Length
    \/ content[p.to + 1] \in Breaks
    \/ /\ Size(p) = MaxLength
       /\ \A i \in 0..MaxLength : SecondHalf(i) => content[p.from + i + 1] \notin Breaks

LEMMA CutsStep == TypeOK /\ Phase /\ CutsBetweenWords /\ [Next]_vars => CutsBetweenWords'
<1> SUFFICES ASSUME TypeOK, Phase, CutsBetweenWords, [Next]_vars PROVE CutsBetweenWords'
  OBVIOUS
<1>0. Length \in Nat /\ pos \in Nat /\ pos <= Length /\ MaxLength \in Nat
  BY LengthNat, MaxNat
<1>1. \A k \in DOMAIN pieces : CutWell(pieces[k])
  BY DEF CutsBetweenWords, CutWell
<1>2. ASSUME UNCHANGED content, \A k \in DOMAIN pieces' : CutWell(pieces'[k])
      PROVE  CutsBetweenWords'
  BY <1>2, Zenon DEF CutsBetweenWords, CutWell, Length, Size, SecondHalf
<1>3. ASSUME UNCHANGED content, NEW p \in Pieces, CutWell(p), pieces' = Append(pieces, p)
      PROVE  CutsBetweenWords'
  <2>1. pieces \in Seq(Pieces)
    BY PiecesNat
  <2>2. \A k \in DOMAIN pieces' :
            (k \in DOMAIN pieces /\ pieces'[k] = pieces[k]) \/ pieces'[k] = p
    BY <1>3, <2>1, Appended
  <2> QED BY <1>1, <1>2, <1>3, <2>2
<1>4. CASE SplitLoop
  <2>1. PICK i \in 1..MaxLength :
            /\ SplitIndex(i)
            /\ pieces' = Append(pieces, [from |-> pos, to |-> pos + i])
            /\ [from |-> pos, to |-> pos + i] \in Pieces
            /\ UNCHANGED content
    BY <1>4, LoopCuts
  <2>2. PICK p \in Pieces : p = [from |-> pos, to |-> pos + i]
    BY <2>1
  <2>3. p.from = pos /\ p.to = pos + i /\ Size(p) = i
    BY <1>0, <2>2 DEF Size
  <2>4. content[pos + i + 1] \in Breaks \/ (i = MaxLength /\ NoneOf(Breaks))
    BY <2>1 DEF SplitIndex, LastIndexOf, Breaks, Char
  <2>5. NoneOf(Breaks) =>
            \A j \in 0..MaxLength : SecondHalf(j) => content[p.from + j + 1] \notin Breaks
    BY <2>3 DEF NoneOf, Char
  <2>6. CutWell(p)
    BY <2>3, <2>4, <2>5 DEF CutWell
  <2> QED BY <1>3, <2>1, <2>2, <2>6
<1>5. CASE SplitEnds \/ SendWhole
  <2>1. Rest \in Pieces /\ CutWell(Rest)
    BY <1>0 DEF Rest, Pieces, CutWell
  <2>2. SendWhole => UNCHANGED content /\ pieces' = Append(pieces, Rest)
    <3>1. SendWhole => UNCHANGED content /\ pieces = <<>> /\ pieces' = <<Rest>>
      BY DEF SendWhole, Phase
    <3> QED BY <3>1
  <2>3. SplitEnds => UNCHANGED content /\ (pieces' = Append(pieces, Rest) \/ pieces' = pieces)
    BY DEF SplitEnds
  <2> QED BY <1>1, <1>2, <1>3, <1>5, <2>1, <2>2, <2>3
<1>6. CASE SendPiece \/ SendEnds \/ UNCHANGED vars
  BY <1>1, <1>2, <1>6 DEF SendPiece, SendEnds, vars
<1> QED BY <1>4, <1>5, <1>6 DEF Next

\* A word is cut in two only if there is no break in the second half of what a message may
\* hold, in any text.
THEOREM CutsBetweenWordsCorrect == Spec => []CutsBetweenWords
<1> QED BY TypeInit, TypeStep, CutsInit, CutsStep, PTL DEF Spec

-----------------------------------------------------------------------------
(* The sends *)

WireInv ==
    /\ Len(wire) <= Len(pieces)
    /\ pc = "done" => Len(wire) = Len(pieces)
    /\ \A k \in DOMAIN wire : wire[k].piece = pieces[k] /\ (wire[k].numbered <=> k > 1)
    /\ success <=> \A k \in DOMAIN wire : wire[k].ok

\* One more piece is sent.
LEMMA SendOne ==
    ASSUME TypeOK, WireInv, NEW p \in Pieces, NEW ok \in BOOLEAN, NEW n \in Nat,
           n = Len(wire) + 1, wire' = Posted(p, ok), success' = Result(ok)
    PROVE  /\ Len(wire') = n
           /\ \A k \in DOMAIN wire' :
                \/ k \in DOMAIN wire /\ wire'[k].piece = pieces[k] /\ (wire'[k].numbered <=> k > 1)
                \/ k = n /\ wire'[k].piece = p /\ (wire'[k].numbered <=> k > 1)
           /\ success' <=> \A k \in DOMAIN wire' : wire'[k].ok
<1>1. wire \in Seq(Sends) /\ Len(wire) \in Nat
  BY DEF TypeOK
<1>2. PICK last : last = [piece |-> p, numbered |-> wire # <<>>, ok |-> ok]
  OBVIOUS
<1>3. wire' = Append(wire, last)
  BY <1>2 DEF Posted
<1>4. last.piece = p /\ last.ok = ok /\ (last.numbered <=> wire # <<>>)
  BY <1>2
<1>5. wire # <<>> <=> n > 1
  BY <1>1
<1>6. /\ Len(wire') = n /\ DOMAIN wire' = 1..n /\ DOMAIN wire = 1..(n - 1)
      /\ wire'[n] = last
      /\ \A k \in 1..(n - 1) : wire'[k] = wire[k]
  <2>1. last \in Sends
    BY <1>2 DEF Sends
  <2> QED BY <1>1, <1>3, <2>1
<1>7. n \in 1..n /\ \A k \in 1..n : k = n \/ k \in 1..(n - 1)
  BY <1>1
<1>8. \A k \in DOMAIN wire' :
        \/ k \in DOMAIN wire /\ wire'[k].piece = pieces[k] /\ (wire'[k].numbered <=> k > 1)
        \/ k = n /\ wire'[k].piece = p /\ (wire'[k].numbered <=> k > 1)
  <2>1. ASSUME NEW k \in 1..(n - 1)
        PROVE  wire'[k].piece = pieces[k] /\ (wire'[k].numbered <=> k > 1)
    BY <1>6 DEF WireInv
  <2>2. wire'[n].piece = p /\ (wire'[n].numbered <=> n > 1)
    BY <1>4, <1>5, <1>6
  <2> QED BY <1>6, <1>7, <2>1, <2>2
<1>9. (\A k \in DOMAIN wire' : wire'[k].ok) <=> (\A k \in DOMAIN wire : wire[k].ok) /\ ok
  <2>1. ASSUME \A k \in DOMAIN wire' : wire'[k].ok
        PROVE  (\A k \in DOMAIN wire : wire[k].ok) /\ ok
    <3>1. ok
      BY <1>4, <1>6, <1>7, <2>1
    <3>2. ASSUME NEW k \in DOMAIN wire PROVE wire[k].ok
      <4>1. k \in 1..(n - 1) /\ k \in 1..n
        BY <1>1, <1>6
      <4> QED BY <1>6, <2>1, <4>1
    <3> QED BY <3>1, <3>2
  <2>2. ASSUME \A k \in DOMAIN wire : wire[k].ok, ok
        PROVE  \A k \in DOMAIN wire' : wire'[k].ok
    BY <1>4, <1>6, <1>7, <2>2
  <2> QED BY <2>1, <2>2
<1>10. success' <=> success /\ ok
  BY DEF Result
<1> QED BY <1>6, <1>8, <1>9, <1>10 DEF WireInv

LEMMA WireInit == Init => WireInv
<1>1. Len(<<>>) = 0 /\ DOMAIN <<>> = {}
  OBVIOUS
<1> QED BY <1>1 DEF Init, WireInv

LEMMA WireStep == TypeOK /\ Phase /\ WireInv /\ [Next]_vars => WireInv'
<1> SUFFICES ASSUME TypeOK, Phase, WireInv, [Next]_vars PROVE WireInv'
  OBVIOUS
<1>0. /\ pieces \in Seq(Pieces) /\ Len(pieces) \in Nat /\ wire \in Seq(Sends)
      /\ Len(wire) \in Nat
  BY PiecesNat DEF TypeOK
<1>1. CASE SplitLoop \/ SplitEnds
  <2>1. wire = <<>> /\ wire' = <<>> /\ success' = success /\ pc' # "done"
    BY <1>1 DEF SplitLoop, SplitEnds, Phase
  <2>2. Len(pieces') \in Nat
    <3>1. ASSUME SplitLoop PROVE pieces' \in Seq(Pieces)
      <4>1. PICK p \in Pieces : pieces' = Append(pieces, p)
        BY <3>1, LoopCuts
      <4> QED BY <1>0, <4>1, Appended
    <3>2. SplitEnds => pieces' \in Seq(Pieces)
      <4>1. Rest \in Pieces
        BY LengthNat DEF Rest, Pieces
      <4> QED BY <1>0, <4>1, Appended DEF SplitEnds
    <3> QED BY <1>1, <3>1, <3>2
  <2>3. Len(<<>>) = 0 /\ DOMAIN <<>> = {}
    OBVIOUS
  <2> QED BY <2>1, <2>2, <2>3 DEF WireInv
<1>2. CASE SendPiece
  <2>1. PICK n \in Nat : n = Len(wire) + 1
    BY <1>0
  <2>2. n <= Len(pieces) /\ n \in DOMAIN pieces /\ pc' = "send" /\ pieces' = pieces
    BY <1>0, <1>2, <2>1 DEF SendPiece
  <2>3. PICK p \in Pieces : p = pieces[n]
    BY <1>0, <2>2
  <2>4. PICK ok \in BOOLEAN : wire' = Posted(p, ok) /\ success' = Result(ok)
    BY <1>2, <2>1, <2>3 DEF SendPiece
  <2> QED BY <2>1, <2>2, <2>3, <2>4, SendOne DEF WireInv
<1>3. CASE SendWhole
  <2>1. wire = <<>> /\ pieces = <<>> /\ pieces' = <<Rest>> /\ pc' = "done"
    BY <1>3 DEF SendWhole, Phase
  <2>2. PICK ok \in BOOLEAN : wire' = Posted(Rest, ok) /\ success' = Result(ok)
    BY <1>3 DEF SendWhole
  <2>3. Rest \in Pieces /\ Len(wire) = 0 /\ DOMAIN wire = {}
    BY <2>1, LengthNat DEF Rest, Pieces
  <2>4. PICK n \in Nat : n = Len(wire) + 1
    BY <1>0
  <2>5. n = 1 /\ pieces'[1] = Rest /\ Len(pieces') = 1
    BY <2>1, <2>3, <2>4
  <2>6. /\ Len(wire') = n
        /\ \A k \in DOMAIN wire' :
              k = n /\ wire'[k].piece = Rest /\ (wire'[k].numbered <=> k > 1)
        /\ success' <=> \A k \in DOMAIN wire' : wire'[k].ok
    BY <2>2, <2>3, <2>4, SendOne, ZenonT(30)
  <2> QED BY <2>1, <2>5, <2>6 DEF WireInv
<1>4. CASE SendEnds \/ UNCHANGED vars
  BY <1>4 DEF SendEnds, vars, WireInv
<1> QED BY <1>1, <1>2, <1>3, <1>4 DEF Next

\* sendTextMessage returns true exactly if WeChat accepted every piece, and has then tried
\* each of them once, in order, whichever were refused.
THEOREM SuccessIsCompleteCorrect == Spec => []SuccessIsComplete
<1>1. WireInv => SuccessIsComplete
  BY DEF WireInv, SuccessIsComplete
<1> QED BY <1>1, TypeInit, TypeStep, WireInit, WireStep, PTL DEF Spec

-----------------------------------------------------------------------------
(* The end of the call *)

\* A bound on the steps that the call still takes.  A cut takes a character from the text at
\* least, and adds a piece to be sent.
Ahead == CASE pc = "split" -> 2 [] pc = "done" -> 0 [] OTHER -> 1

StepsLeft == 2 * Left + (Len(pieces) - Len(wire)) + Ahead

LEMMA StepsLeftNat == TypeOK /\ WireInv => StepsLeft \in Nat
<1> SUFFICES ASSUME TypeOK, WireInv PROVE StepsLeft \in Nat
  OBVIOUS
<1>1. Left \in Nat
  BY LengthNat DEF Left
<1>2. Len(pieces) - Len(wire) \in Nat
  <2>1. Len(pieces) \in Nat /\ Len(wire) \in Nat /\ Len(wire) <= Len(pieces)
    BY DEF TypeOK, WireInv
  <2> QED BY <2>1
<1>3. Ahead \in Nat
  BY DEF Ahead, TypeOK
<1> QED BY <1>1, <1>2, <1>3 DEF StepsLeft

LEMMA StepTaken == TypeOK /\ Phase /\ Next => StepsLeft' < StepsLeft
<1> SUFFICES ASSUME TypeOK, Phase, Next PROVE StepsLeft' < StepsLeft
  OBVIOUS
<1>0. /\ Length \in Nat /\ pos \in Nat /\ pos <= Length
      /\ pieces \in Seq(Pieces) /\ Len(pieces) \in Nat
      /\ wire \in Seq(Sends) /\ Len(wire) \in Nat
  BY LengthNat, PiecesNat DEF TypeOK
<1>1. CASE SplitLoop
  <2>1. PICK i \in 1..MaxLength, to \in 0..Length :
            /\ pos + i <= to /\ pieces' = Append(pieces, [from |-> pos, to |-> pos + i])
            /\ pos' = to /\ pc = "split" /\ pc' = "split" /\ UNCHANGED <<content, wire>>
    BY <1>1, LoopCuts
  <2>2. Length' = Length /\ Len(pieces') = Len(pieces) + 1
    BY <1>0, <2>1 DEF Length
  <2>3. Ahead = 2 /\ Ahead' = 2 /\ Len(wire') = Len(wire)
    BY <2>1 DEF Ahead
  <2>4. pos' \in Nat /\ pos' >= pos + 1
    BY <1>0, <2>1, MaxNat
  <2> QED BY <1>0, <2>2, <2>3, <2>4 DEF StepsLeft, Left
<1>2. CASE SplitEnds
  <2>1. /\ Length' = Length /\ pc = "split" /\ pc' = "send" /\ pos' = Length /\ wire' = wire
        /\ pieces' = IF Left > 0 THEN Append(pieces, Rest) ELSE pieces
    BY <1>2 DEF SplitEnds, Length
  <2>2. Ahead = 2 /\ Ahead' = 1
    BY <2>1 DEF Ahead
  <2>3. \/ Left > 0 /\ Len(pieces') = Len(pieces) + 1
        \/ Left = 0 /\ pieces' = pieces
    BY <1>0, <2>1 DEF Left
  <2>4. Left' = 0 /\ Left \in Nat
    BY <1>0, <2>1 DEF Left
  <2> QED BY <1>0, <2>1, <2>2, <2>3, <2>4 DEF StepsLeft
<1>3. CASE SendPiece
  <2>1. /\ \E x : wire' = Append(wire, x)
        /\ UNCHANGED <<content, pos, pieces, pc>>
    BY <1>3 DEF SendPiece, Posted
  <2>2. Left' = Left /\ Ahead' = Ahead /\ Ahead \in Nat
    BY <2>1 DEF Left, Length, Ahead, TypeOK
  <2>3. Len(wire') = Len(wire) + 1
    BY <1>0, <2>1
  <2> QED BY <1>0, <2>1, <2>2, <2>3 DEF StepsLeft, Left
<1>4. CASE SendEnds
  <2>1. UNCHANGED <<content, pos, pieces, wire>> /\ pc = "send" /\ pc' = "done"
    BY <1>4 DEF SendEnds
  <2>2. Left' = Left /\ Ahead = 1 /\ Ahead' = 0
    BY <2>1 DEF Left, Length, Ahead
  <2> QED BY <1>0, <2>1, <2>2 DEF StepsLeft, Left
<1>5. CASE SendWhole
  <2>1. /\ content' = content /\ pos' = Length /\ pieces' = <<Rest>>
        /\ pc = "single" /\ pc' = "done" /\ pieces = <<>> /\ wire = <<>>
        /\ \E x : wire' = Append(wire, x)
    BY <1>5 DEF SendWhole, Posted, Phase
  <2>2. Length' = Length /\ Ahead = 1 /\ Ahead' = 0
    BY <2>1 DEF Length, Ahead
  <2>3. Len(pieces') = 1 /\ Len(wire') = 1 /\ Len(pieces) = 0 /\ Len(wire) = 0
    BY <2>1
  <2> QED BY <1>0, <2>1, <2>2, <2>3 DEF StepsLeft, Left
<1> QED BY <1>1, <1>2, <1>3, <1>4, <1>5 DEF Next

\* sendTextMessage comes to an end: each round of its two loops takes at least one off a
\* number that starts at twice the length of the text and two more, wherever it is cut.
THEOREM EveryStepCounts ==
    Spec => [](StepsLeft \in Nat) /\ [][StepsLeft' < StepsLeft]_vars
<1>1. Spec => [](TypeOK /\ Phase /\ WireInv)
  BY TypeInit, TypeStep, WireInit, WireStep, PTL DEF Spec
<1>2. TypeOK /\ Phase /\ WireInv /\ [Next]_vars => [StepsLeft' < StepsLeft]_vars
  BY StepTaken
<1>3. Spec => [](StepsLeft \in Nat)
  BY <1>1, StepsLeftNat, PTL
<1>4. Spec => [][StepsLeft' < StepsLeft]_vars
  BY <1>1, <1>2, PTL DEF Spec
<1> QED BY <1>3, <1>4
===============================================================================
