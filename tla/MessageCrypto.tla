--------------------------- MODULE MessageCrypto ----------------------------
(***************************************************************************)
(* The sealing of messages (utils/crypto.ts).  A buffer is a sequence of   *)
(* byte values; the 16 random bytes and the 4 of the length are one        *)
(* element each.  AES-CBC under the account's key is external: it gives    *)
(* back what was encrypted if whole cipher blocks arrive, and throws       *)
(* otherwise.                                                              *)
(***************************************************************************)
EXTENDS Naturals, Sequences

CONSTANTS
    Block,      \* of the padding: 32
    Cipher,     \* a block of AES: 16
    AppId       \* of the account, a sequence of bytes

ASSUME CryptoAssumption ==
    /\ Cipher \in Nat \ {0} /\ Block \in Nat \ {0} /\ Block % Cipher = 0
    /\ AppId \in Seq(Nat)

RandomBytes == 0

\* Mutant: bytes that do not say how many they are.
PadWithZeros(buf) == LET k == Block - (Len(buf) % Block) IN buf \o [i \in 1..k |-> 0]

Pad(buf) == LET k == Block - (Len(buf) % Block) IN buf \o [i \in 1..k |-> k]

\* Mutant: padding fills a cipher block at most.
UnpadCipherBlock(buf) ==
    LET k == buf[Len(buf)] IN
    IF k \in 1..Cipher THEN SubSeq(buf, 1, Len(buf) - k) ELSE buf

\* What does not look like padding is left alone.
Unpad(buf) ==
    LET k == buf[Len(buf)] IN
    IF k \in 1..Block THEN SubSeq(buf, 1, Len(buf) - k) ELSE buf

Encrypt(message, app) == Pad(<<RandomBytes, Len(message)>> \o message \o app)

Message(plain) == SubSeq(plain, 3, 2 + plain[2])
TheirAppId(plain) == SubSeq(plain, 3 + plain[2], Len(plain))

\* decryptMessage throws on a part of a cipher block, on too few bytes for the length,
\* and on the AppID of another account.
Decrypts(buf, app) ==
    /\ buf # <<>> /\ Len(buf) % Cipher = 0
    /\ Len(Unpad(buf)) >= 2
    /\ TheirAppId(Unpad(buf)) = app

Decrypt(buf) == Message(Unpad(buf))
=============================================================================
