------------------------- MODULE MessageCryptoProofs --------------------------
(* What was sealed for an account is read by it, whole, and by no other. *)
EXTENDS MessageCrypto, SequenceTheorems, TLAPS

-----------------------------------------------------------------------------
(* Arithmetic of blocks *)

LEMMA Division ==
    \A b, n \in Nat : b > 0 =>
        /\ n = b * (n \div b) + (n % b) /\ (n \div b) \in Nat
        /\ n % b \in 0..(b - 1)
OBVIOUS

LEMMA Multiple == \A b, q \in Nat : b > 0 => (b * q) % b = 0
OBVIOUS

\* Padding fills the last block.
LEMMA FillsBlock ==
    ASSUME NEW b \in Nat, NEW n \in Nat, b > 0
    PROVE  (n + (b - (n % b))) % b = 0
<1> DEFINE q == n \div b
<1>1. n = b * q + (n % b) /\ q \in Nat /\ n % b \in 0..(b - 1)
  BY Division
<1>2. b * (q + 1) = b * q + b /\ b * q \in Nat
  BY <1>1
<1> HIDE DEF q
<1>3. n + (b - (n % b)) = b * (q + 1)
  BY <1>1, <1>2
<1>4. (b * (q + 1)) % b = 0
  BY <1>1, Multiple
<1> QED BY <1>3, <1>4

\* Whole blocks of the padding are whole blocks of the cipher.
LEMMA WholeBlocks ==
    ASSUME NEW b \in Nat, NEW c \in Nat, NEW n \in Nat,
           b > 0, c > 0, b % c = 0, n % b = 0
    PROVE  n % c = 0
<1> DEFINE q == n \div b
           p == b \div c
<1>1. n = b * q + (n % b) /\ q \in Nat
  BY Division
<1>2. b = c * p + (b % c) /\ p \in Nat
  BY Division
<1> HIDE DEF q, p
<1>3. n = b * q /\ b = c * p
  BY <1>1, <1>2
<1>4. n = c * (p * q) /\ p * q \in Nat
  BY <1>1, <1>2, <1>3
<1> QED BY <1>4, Multiple

\* The elements of two sequences put together.
LEMMA Joined ==
    \A s, t \in Seq(Nat) :
        /\ s \o t \in Seq(Nat) /\ Len(s \o t) = Len(s) + Len(t)
        /\ \A i \in 1..Len(s) : (s \o t)[i] = s[i]
        /\ \A i \in 1..Len(t) : (s \o t)[Len(s) + i] = t[i]
<1> SUFFICES ASSUME NEW s \in Seq(Nat), NEW t \in Seq(Nat)
             PROVE  /\ s \o t \in Seq(Nat) /\ Len(s \o t) = Len(s) + Len(t)
                    /\ \A i \in 1..Len(s) : (s \o t)[i] = s[i]
                    /\ \A i \in 1..Len(t) : (s \o t)[Len(s) + i] = t[i]
  OBVIOUS
<1>1. Len(s) \in Nat /\ Len(t) \in Nat
  OBVIOUS
<1>2. /\ s \o t \in Seq(Nat) /\ Len(s \o t) = Len(s) + Len(t)
      /\ \A i \in 1..(Len(s) + Len(t)) :
            (s \o t)[i] = IF i <= Len(s) THEN s[i] ELSE t[i - Len(s)]
  BY ConcatProperties
<1> QED BY <1>1, <1>2

-----------------------------------------------------------------------------
(* Padding *)

\* Padding makes whole cipher blocks of any bytes, and unpadding gives back the bytes.
LEMMA PaddingComesOff ==
    ASSUME NEW buf \in Seq(Nat)
    PROVE  /\ Pad(buf) \in Seq(Nat) /\ Pad(buf) # <<>>
           /\ Len(Pad(buf)) % Cipher = 0
           /\ Unpad(Pad(buf)) = buf
<1> DEFINE k == Block - (Len(buf) % Block)
           pad == [i \in 1..k |-> k]
<1>1. Block \in Nat /\ Block > 0 /\ Cipher \in Nat /\ Cipher > 0 /\ Block % Cipher = 0
  BY CryptoAssumption
<1>2. Len(buf) \in Nat /\ Len(buf) % Block \in 0..(Block - 1)
  BY <1>1, Division
<1>3. k \in 1..Block
  BY <1>1, <1>2
<1>4. (Len(buf) + k) % Block = 0
  BY <1>1, <1>2, FillsBlock
<1>5. Pad(buf) = buf \o pad
  BY DEF Pad
<1> HIDE DEF k
<1>6. pad \in Seq(Nat) /\ Len(pad) = k /\ \A i \in 1..k : pad[i] = k
  <2>1. pad \in [1..k -> Nat] /\ k \in Nat
    BY <1>1, <1>3
  <2> QED BY <2>1
<1> HIDE DEF pad
<1>7. /\ Pad(buf) \in Seq(Nat)
      /\ Len(Pad(buf)) = Len(buf) + k
      /\ \A i \in 1..(Len(buf) + k) :
            Pad(buf)[i] = IF i <= Len(buf) THEN buf[i] ELSE pad[i - Len(buf)]
  <2>1. k \in Nat
    BY <1>1, <1>3
  <2> QED BY <1>5, <1>6, <2>1, ConcatProperties
<1>8. Pad(buf)[Len(Pad(buf))] = k
  BY <1>1, <1>2, <1>3, <1>6, <1>7
<1>9. Len(Pad(buf)) % Cipher = 0
  <2>1. Len(buf) + k \in Nat
    BY <1>1, <1>2, <1>3
  <2>2. (Len(buf) + k) % Cipher = 0
    BY <1>1, <1>4, <2>1, WholeBlocks
  <2> QED BY <1>7, <2>2
<1>10. Unpad(Pad(buf)) = SubSeq(Pad(buf), 1, Len(buf))
  <2>1. Unpad(Pad(buf)) = SubSeq(Pad(buf), 1, Len(Pad(buf)) - k)
    BY <1>3, <1>8 DEF Unpad
  <2> QED BY <1>1, <1>2, <1>3, <1>7, <2>1
<1>11. SubSeq(Pad(buf), 1, Len(buf)) = buf
  <2> DEFINE s == SubSeq(Pad(buf), 1, Len(buf))
  <2>1. \A i \in 1..Len(buf) : Pad(buf)[i] = buf[i] /\ buf[i] \in Nat
    BY <1>1, <1>2, <1>3, <1>7
  <2>2. /\ s \in Seq(Nat) /\ Len(s) = Len(buf)
        /\ \A i \in 1..Len(buf) : s[i] = Pad(buf)[i]
    <3>1. \A i \in 1..Len(buf) : Pad(buf)[i] \in Nat
      BY <2>1
    <3>2. /\ s \in Seq(Nat)
          /\ Len(s) = IF 1 <= Len(buf) THEN Len(buf) - 1 + 1 ELSE 0
          /\ \A i \in 1..(Len(buf) - 1 + 1) : s[i] = Pad(buf)[1 + i - 1]
      BY <1>2, <3>1, SubSeqProperties
    <3> QED BY <1>2, <3>2
  <2> HIDE DEF s
  <2>3. s = buf
    BY <2>1, <2>2, SeqEqual
  <2> QED BY <2>3 DEF s
<1>12. Pad(buf) # <<>>
  BY <1>1, <1>2, <1>3, <1>7, EmptySeq
<1> QED BY <1>7, <1>9, <1>10, <1>11, <1>12

\* Padding leaves what it is added to where it is.
LEMMA PaddingAddsAtEnd ==
    ASSUME NEW buf \in Seq(Nat)
    PROVE  /\ Len(buf) <= Len(Pad(buf))
           /\ \A i \in 1..Len(buf) : Pad(buf)[i] = buf[i]
<1> DEFINE k == Block - (Len(buf) % Block)
           pad == [i \in 1..k |-> k]
<1>1. Block \in Nat /\ Block > 0
  BY CryptoAssumption
<1>2. Len(buf) \in Nat /\ k \in 1..Block
  BY <1>1, Division
<1>3. Pad(buf) = buf \o pad
  BY DEF Pad
<1> HIDE DEF k
<1>4. pad \in Seq(Nat) /\ Len(pad) = k
  <2>1. pad \in [1..k -> Nat] /\ k \in Nat
    BY <1>1, <1>2
  <2> QED BY <2>1
<1> HIDE DEF pad
<1> QED BY <1>1, <1>2, <1>3, <1>4, Joined

-----------------------------------------------------------------------------
(* Sealed messages *)

\* A part of a sequence given by its elements.
LEMMA PartEqual ==
    ASSUME NEW s \in Seq(Nat), NEW t \in Seq(Nat), NEW from \in Nat, NEW to \in Nat,
           from > 0, to = from + Len(t) - 1, to <= Len(s),
           \A i \in 1..Len(t) : s[from + i - 1] = t[i]
    PROVE  SubSeq(s, from, to) = t
<1> DEFINE u == SubSeq(s, from, to)
<1>1. Len(t) \in Nat /\ Len(s) \in Nat
  OBVIOUS
<1>2. \A i \in from..to : s[i] \in Nat
  BY <1>1
<1>3. /\ u \in Seq(Nat)
      /\ Len(u) = IF from <= to THEN to - from + 1 ELSE 0
      /\ \A i \in 1..(to - from + 1) : u[i] = s[from + i - 1]
  BY <1>1, <1>2, SubSeqProperties
<1> HIDE DEF u
<1>4. Len(u) = Len(t) /\ \A i \in 1..Len(u) : u[i] = t[i]
  BY <1>1, <1>3
<1>5. u = t
  BY <1>3, <1>4, SeqEqual
<1> QED BY <1>5 DEF u

\* What encryptMessage pads and encrypts.
Layout(m, app) == <<RandomBytes, Len(m)>> \o m \o app

\* Its parts are where decryptMessage looks for them.
LEMMA SealedLayout ==
    ASSUME NEW m \in Seq(Nat), NEW app \in Seq(Nat)
    PROVE  /\ Layout(m, app) \in Seq(Nat)
           /\ Len(Layout(m, app)) = 2 + Len(m) + Len(app)
           /\ Layout(m, app)[2] = Len(m)
           /\ Message(Layout(m, app)) = m /\ TheirAppId(Layout(m, app)) = app
<1>1. PICK head : head = <<RandomBytes, Len(m)>>
  OBVIOUS
<1>2. PICK front : front = head \o m
  OBVIOUS
<1>3. PICK plain : plain = Layout(m, app)
  OBVIOUS
<1>4. /\ head \in Seq(Nat) /\ Len(head) = 2 /\ head[2] = Len(m)
      /\ Len(m) \in Nat /\ Len(app) \in Nat
  BY <1>1 DEF RandomBytes
<1>5. /\ front \in Seq(Nat) /\ Len(front) = 2 + Len(m)
      /\ \A i \in 1..2 : front[i] = head[i]
      /\ \A i \in 1..Len(m) : front[2 + i] = m[i]
  <2>1. /\ front \in Seq(Nat) /\ Len(front) = Len(head) + Len(m)
        /\ \A i \in 1..Len(head) : front[i] = head[i]
        /\ \A i \in 1..Len(m) : front[Len(head) + i] = m[i]
    BY <1>2, <1>4, Joined, ZenonT(30)
  <2> QED BY <1>4, <2>1
<1>6. plain = front \o app
  BY <1>1, <1>2, <1>3 DEF Layout
<1>7. /\ plain \in Seq(Nat) /\ Len(plain) = (2 + Len(m)) + Len(app)
      /\ \A i \in 1..(2 + Len(m)) : plain[i] = front[i]
      /\ \A i \in 1..Len(app) : plain[(2 + Len(m)) + i] = app[i]
  <2>1. /\ plain \in Seq(Nat) /\ Len(plain) = Len(front) + Len(app)
        /\ \A i \in 1..Len(front) : plain[i] = front[i]
        /\ \A i \in 1..Len(app) : plain[Len(front) + i] = app[i]
    BY <1>5, <1>6, Joined
  <2> QED BY <1>5, <2>1
<1>8. plain[2] = Len(m)
  BY <1>4, <1>5, <1>7
<1>9. ASSUME NEW i \in 1..Len(m)
      PROVE  plain[3 + i - 1] = m[i]
  <2>1. 2 + i \in 1..(2 + Len(m)) /\ 3 + i - 1 = 2 + i
    BY <1>4
  <2>2. plain[2 + i] = front[2 + i] /\ front[2 + i] = m[i]
    BY <1>5, <1>7, <2>1
  <2> QED BY <2>1, <2>2
<1>10. \A i \in 1..Len(app) : plain[(3 + Len(m)) + i - 1] = app[i]
  BY <1>4, <1>7, SMTT(30)
<1>11. SubSeq(plain, 3, 2 + Len(m)) = m
  <2>1. 2 + Len(m) = 3 + Len(m) - 1 /\ 2 + Len(m) <= Len(plain) /\ 2 + Len(m) \in Nat
    BY <1>4, <1>7
  <2> QED BY <1>7, <1>9, <2>1, PartEqual
<1>12. SubSeq(plain, 3 + Len(m), Len(plain)) = app
  <2>1. /\ Len(plain) = (3 + Len(m)) + Len(app) - 1 /\ Len(plain) \in Nat
        /\ 3 + Len(m) \in Nat /\ 3 + Len(m) > 0
    BY <1>4, <1>7
  <2>2. PICK from \in Nat : from = 3 + Len(m)
    BY <2>1
  <2>3. \A i \in 1..Len(app) : plain[from + i - 1] = app[i]
    BY <1>10, <2>2
  <2>4. from > 0 /\ Len(plain) = from + Len(app) - 1 /\ Len(plain) <= Len(plain)
    BY <2>1, <2>2
  <2>5. plain \in Seq(Nat) /\ Len(plain) \in Nat
    BY <1>7, <2>1
  <2>6. SubSeq(plain, from, Len(plain)) = app
    BY <2>3, <2>4, <2>5, PartEqual
  <2> QED BY <2>2, <2>6
<1>13. Message(plain) = m /\ TheirAppId(plain) = app
  BY <1>8, <1>11, <1>12 DEF Message, TheirAppId
<1> QED BY <1>3, <1>4, <1>7, <1>8, <1>13

\* decryptMessage under AppID b accepts what encryptMessage sealed under a exactly if they
\* are the same account's, and gives the message back, whatever its length.
THEOREM SealedIsRead ==
    ASSUME NEW m \in Seq(Nat), NEW a \in Seq(Nat), NEW b \in Seq(Nat)
    PROVE  /\ Decrypts(Encrypt(m, a), b) <=> a = b
           /\ Decrypt(Encrypt(m, a)) = m
<1> PICK plain : plain = Layout(m, a)
  OBVIOUS
<1>1. Encrypt(m, a) = Pad(plain)
  BY DEF Encrypt, Layout
<1>2. /\ plain \in Seq(Nat) /\ Len(plain) = 2 + Len(m) + Len(a)
      /\ Message(plain) = m /\ TheirAppId(plain) = a
  BY SealedLayout
<1>3. /\ Pad(plain) # <<>> /\ Len(Pad(plain)) % Cipher = 0
      /\ Unpad(Pad(plain)) = plain
  BY <1>2, PaddingComesOff
<1>4. Len(plain) >= 2
  BY <1>2
<1>5. Decrypts(Pad(plain), b) <=> a = b
  BY <1>2, <1>3, <1>4 DEF Decrypts
<1>6. Decrypt(Pad(plain)) = m
  BY <1>2, <1>3 DEF Decrypt
<1> QED BY <1>1, <1>5, <1>6

\* What is cut off within what it holds, at the end of a cipher block, is refused: the
\* AppID at its end is too short, whatever the last byte is taken for.
THEOREM CutIsRefused ==
    ASSUME NEW m \in Seq(Nat), NEW a \in Seq(Nat), a # <<>>, NEW body, body = Encrypt(m, a),
           NEW n \in Nat, n < Len(Unpad(body))
    PROVE  ~(SubSeq(body, 1, n) # <<>> /\ Decrypts(SubSeq(body, 1, n), a))
<1> DEFINE cut == SubSeq(body, 1, n)
<1> PICK plain : plain = Layout(m, a)
  OBVIOUS
<1>1. body = Pad(plain)
  BY DEF Encrypt, Layout
<1>2. /\ plain \in Seq(Nat) /\ Len(plain) = 2 + Len(m) + Len(a)
      /\ plain[2] = Len(m) /\ Len(m) \in Nat /\ Len(a) \in Nat
  <2>1. /\ Layout(m, a) \in Seq(Nat) /\ Len(Layout(m, a)) = 2 + Len(m) + Len(a)
        /\ Layout(m, a)[2] = Len(m)
    BY SealedLayout
  <2>2. Len(m) \in Nat /\ Len(a) \in Nat
    OBVIOUS
  <2> QED BY <2>1, <2>2
<1>3. /\ Pad(plain) \in Seq(Nat) /\ Unpad(body) = plain
  BY <1>1, <1>2, PaddingComesOff
<1>4. /\ Len(plain) <= Len(body)
      /\ \A i \in 1..Len(plain) : body[i] = plain[i]
  BY <1>1, <1>2, PaddingAddsAtEnd
<1> SUFFICES ASSUME cut # <<>>, Decrypts(cut, a)
             PROVE  FALSE
  OBVIOUS
<1>5. /\ cut \in Seq(Nat) /\ Len(cut) = n /\ n < Len(plain)
      /\ \A i \in 1..n : cut[i] = plain[i]
  <2>1. \A i \in 1..n : body[i] \in Nat /\ body[i] = plain[i]
    BY <1>2, <1>3, <1>4, SMTT(30)
  <2>2. /\ cut \in Seq(Nat) /\ Len(cut) = IF 1 <= n THEN n - 1 + 1 ELSE 0
        /\ \A i \in 1..(n - 1 + 1) : cut[i] = body[1 + i - 1]
    BY <2>1, SubSeqProperties
  <2> QED BY <1>3, <2>1, <2>2
<1> HIDE DEF cut
<1> DEFINE open == Unpad(cut)
<1>6. /\ open \in Seq(Nat) /\ Len(open) <= n /\ Len(open) >= 2
      /\ open[2] = plain[2]
  <2>1. Len(open) >= 2
    BY DEF Decrypts
  <2>2. CASE open = cut
    BY <1>5, <2>1, <2>2
  <2>3. CASE open # cut
    <3> DEFINE k == cut[Len(cut)]
    <3>1. Block \in Nat
      BY CryptoAssumption
    <3>2. k \in 1..Block /\ open = SubSeq(cut, 1, Len(cut) - k)
      BY <2>3 DEF Unpad
    <3> HIDE DEF k
    <3>3. \A i \in 1..(n - k) : cut[i] \in Nat
      BY <1>5, <3>1, <3>2
    <3> HIDE DEF open
    <3>4. /\ open \in Seq(Nat) /\ Len(open) = IF 1 <= n - k THEN n - k - 1 + 1 ELSE 0
          /\ \A i \in 1..(n - k - 1 + 1) : open[i] = cut[1 + i - 1]
      BY <1>5, <3>1, <3>2, <3>3, SubSeqProperties
    <3> QED BY <1>5, <2>1, <3>1, <3>2, <3>4
  <2> QED BY <2>2, <2>3
<1>7. SubSeq(open, 3 + Len(m), Len(open)) = a
  BY <1>2, <1>6 DEF Decrypts, TheirAppId
<1> HIDE DEF open
<1>8. Len(SubSeq(open, 3 + Len(m), Len(open))) < Len(a) \/ Len(a) = 0
  <2> DEFINE rest == SubSeq(open, 3 + Len(m), Len(open))
  <2>1. \A i \in 1..Len(open) : open[i] \in Nat
    BY <1>6
  <2>2. \A i \in (3 + Len(m))..Len(open) : open[i] \in Nat
    BY <1>2, <2>1
  <2>3. Len(rest) = IF 3 + Len(m) <= Len(open) THEN Len(open) - (3 + Len(m)) + 1 ELSE 0
    BY <1>2, <1>6, <2>2, SubSeqProperties
  <2> HIDE DEF rest
  <2>4. Len(rest) < Len(a) \/ Len(a) = 0
    <3>1. /\ Len(m) \in Nat /\ Len(a) \in Nat /\ Len(open) \in Nat
          /\ Len(open) < 2 + Len(m) + Len(a)
      BY <1>2, <1>5, <1>6, SMTT(30)
    <3>2. PICK lm \in Nat, la \in Nat, lo \in Nat : lm = Len(m) /\ la = Len(a) /\ lo = Len(open)
      BY <3>1
    <3>3. (IF 3 + lm <= lo THEN lo - (3 + lm) + 1 ELSE 0) < la \/ la = 0
      BY <3>1, <3>2
    <3> QED BY <2>3, <3>2, <3>3
  <2> QED BY <2>4 DEF rest
<1> QED BY <1>2, <1>7, <1>8
=============================================================================
