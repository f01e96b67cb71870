----------------------------- MODULE TextChunks -----------------------------
(***************************************************************************)
(* sendTextMessage (services/wechat-message.ts): one call, which cuts a    *)
(* text that is too long for WeChat into pieces, preferably at a line's or *)
(* a word's end, and sends them one after the other.  A piece is the       *)
(* interval of the text it was cut from; the code's `remaining` is what    *)
(* lies beyond pos.  Indices of the code count from 0.                     *)
(***************************************************************************)
EXTENDS Integers, Sequences

CONSTANTS
    Chars,      \* the characters of texts
    Newline, Blank,
    Spaces,     \* those trimStart removes
    MaxLength,  \* 600
    MaxText     \* bound on the length of texts

ASSUME ChunkAssumption ==
    /\ MaxLength \in Nat \ {0} /\ MaxText \in Nat
    /\ {Newline, Blank} \subseteq Spaces /\ Spaces \subseteq Chars

VARIABLES
    content,    \* the text to send
    pos,        \* how many of its characters the loop has dealt with
    pieces,     \* chunks: intervals of content
    wire,       \* the sends so far: the piece, whether numbered, whether accepted
    success,    \* what the call will return
    pc

vars == <<content, pos, pieces, wire, success, pc>>

-----------------------------------------------------------------------------
Texts  == UNION {[1..n -> Chars] : n \in 0..MaxText}
Breaks == {Newline, Blank}

Length == Len(content)
Left   == Length - pos
Size(p) == p.to - p.from

\* remaining[i]
Char(i) == content[pos + i + 1]

Init ==
    /\ content \in Texts
    /\ pos = 0 /\ pieces = <<>> /\ wire = <<>> /\ success = TRUE
    /\ pc = IF Length <= MaxLength THEN "single" ELSE "split"

\* i = remaining.lastIndexOf(c, MAX_LENGTH)
LastIndexOf(c, i) ==
    /\ i \in 0..MaxLength /\ Char(i) = c
    /\ \A j \in (i + 1)..MaxLength : Char(j) # c

\* Mutant: a break anywhere will do.
AnyHalf(i) == TRUE

\* Not in the first half of what a message may hold.
SecondHalf(i) == 2 * i >= MaxLength

NoneOf(cs) == \A j \in 0..MaxLength : SecondHalf(j) => Char(j) \notin cs

\* Mutant: only words are looked for.
SplitAtWord(i) ==
    \/ SecondHalf(i) /\ LastIndexOf(Blank, i)
    \/ i = MaxLength /\ NoneOf({Blank})

\* Mutant: no cut where there is no break; lastIndexOf then gives -1, which takes nothing
\* from the text.
SplitAtBreak(i) ==
    \/ SecondHalf(i) /\ LastIndexOf(Newline, i)
    \/ SecondHalf(i) /\ LastIndexOf(Blank, i) /\ NoneOf({Newline})

\* i is splitIndex
SplitIndex(i) ==
    \/ SecondHalf(i) /\ LastIndexOf(Newline, i)
    \/ SecondHalf(i) /\ LastIndexOf(Blank, i) /\ NoneOf({Newline})
    \/ i = MaxLength /\ NoneOf(Breaks)

\* Mutant: the character at the cut is taken for a space.
SkipOne(from, to) == to = from + 1

\* What is left of from after trimStart begins beyond to.
TrimStart(from, to) ==
    /\ to \in from..Length
    /\ \A k \in (from + 1)..to : content[k] \in Spaces
    /\ to < Length => content[to + 1] \notin Spaces

SplitLoop ==
    /\ pc = "split" /\ Left > MaxLength
    /\ \E i \in 0..MaxLength, to \in 0..Length :
        /\ SplitIndex(i) /\ TrimStart(pos + i, to)
        /\ pieces' = Append(pieces, [from |-> pos, to |-> pos + i])
        /\ pos' = to
    /\ UNCHANGED <<content, wire, success, pc>>

\* Mutant: a rest as long as any other piece.
FullRest == [from |-> pos, to |-> pos + MaxLength]

Rest == [from |-> pos, to |-> Length]

\* The loop ends with the rest, if trimStart left one.
SplitEnds ==
    /\ pc = "split" /\ Left <= MaxLength
    /\ pieces' = IF Left > 0 THEN Append(pieces, Rest) ELSE pieces
    /\ pos' = Length /\ pc' = "send"
    /\ UNCHANGED <<content, wire, success>>

\* sendCustomerServiceMessage with a piece; all but the first get the prefix "(i/n) ".
Posted(p, ok) == Append(wire, [piece |-> p, numbered |-> wire # <<>>, ok |-> ok])

\* Mutant: the last result is the result.
LastResult(ok) == ok

Result(ok) == success /\ ok

SendPiece ==
    /\ pc = "send" /\ Len(wire) < Len(pieces)
    /\ \E ok \in BOOLEAN :
        wire' = Posted(pieces[Len(wire) + 1], ok) /\ success' = Result(ok)
    /\ UNCHANGED <<content, pos, pieces, pc>>

SendEnds ==
    /\ pc = "send" /\ Len(wire) = Len(pieces)
    /\ pc' = "done" /\ UNCHANGED <<content, pos, pieces, wire, success>>

\* A text that fits is sent as it is.
SendWhole ==
    /\ pc = "single"
    /\ pieces' = <<Rest>> /\ pos' = Length
    /\ \E ok \in BOOLEAN : wire' = Posted(Rest, ok) /\ success' = Result(ok)
    /\ pc' = "done" /\ UNCHANGED content

Next == SplitLoop \/ SplitEnds \/ SendPiece \/ SendEnds \/ SendWhole

Spec == Init /\ [][Next]_vars

\* The loop runs, and each send comes back.
FairSpec == Spec /\ WF_vars(Next)

-----------------------------------------------------------------------------
(* Properties *)

Pieces == [from : 0..Length, to : 0..Length]
Sends  == [piece : Pieces, numbered : BOOLEAN, ok : BOOLEAN]

TypeOK ==
    /\ content \in Seq(Chars) /\ pos \in 0..Length
    /\ pieces \in Seq(Pieces) /\ wire \in Seq(Sends)
    /\ success \in BOOLEAN /\ pc \in {"single", "split", "send", "done"}

\* No piece of a long text is longer than the limit it is cut for, or empty, and only the
\* last may be shorter than half of it: a text is sent in as many messages as it needs.
PiecesFit ==
    Length > MaxLength =>
        \A k \in DOMAIN pieces :
            /\ Size(pieces[k]) \in 1..MaxLength
            /\ k < Len(pieces) \/ pc = "split" => SecondHalf(Size(pieces[k]))

\* A long text makes fewer messages than twice those that its characters would fill, however
\* its lines and words lie, a short rest included.
FewMessages ==
    Length > MaxLength => Len(pieces) * MaxLength < 2 * Length

\* The pieces follow each other in the text, and what lies before the place the loop has
\* come to and in no piece is white space.
OnlySpaceLost ==
    /\ \A k \in 1..(Len(pieces) - 1) : pieces[k].to <= pieces[k + 1].from
    /\ \A i \in 1..pos :
        \/ content[i] \in Spaces
        \/ \E k \in DOMAIN pieces : i \in (pieces[k].from + 1)..pieces[k].to

\* A word is cut in two only if it fills the second half of a message.
CutsBetweenWords ==
    \A k \in DOMAIN pieces :
        LET p == pieces[k] IN
        \/ p.to = Length
        \/ content[p.to + 1] \in Breaks
        \/ /\ Size(p) = MaxLength
           /\ \A i \in 0..MaxLength : SecondHalf(i) => content[p.from + i + 1] \notin Breaks

\* The callback route answers ok only if WeChat has accepted every piece, and a refused
\* piece stops no later one: each was tried once, in order, numbered but for the first.
SuccessIsComplete ==
    pc = "done" =>
        /\ Len(wire) = Len(pieces)
        /\ \A k \in DOMAIN wire :
            wire[k].piece = pieces[k] /\ (wire[k].numbered <=> k > 1)
        /\ success <=> \A k \in DOMAIN wire : wire[k].ok

\* The loop of the split and that of the sends come to an end.
CallReturns == <>(pc = "done")
=============================================================================
