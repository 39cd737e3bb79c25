------------------------------ MODULE Md5Stream ------------------------------
(***************************************************************************)
(* MD5_CTX (Md5.cpp): the buffering, the bit count and the padding around  *)
(* the compression function, and the text GetFileMd5 makes of a digest.    *)
(* MD5Transform stays abstract: the state of a context is the sequence of  *)
(* the blocks it was given.                                                *)
(***************************************************************************)
EXTENDS Naturals, Sequences, FiniteSetsExt

CONSTANTS
    Block,      \* bytes in a block: 64
    LenBytes,   \* bytes of the two-word bit count: 8
    ByteBits,   \* bits in a byte: 8
    MaxChunk,   \* bounds the input of one MD5Update
    MaxMessage, \* bounds a message
    Digests     \* the digests GetFileMd5 turns into text

Byte == 2 ^ ByteBits
Word == Byte ^ (LenBytes \div 2)    \* an unsigned long int has 32 bits here

ASSUME Md5Assumption ==
    /\ {Block, LenBytes, ByteBits, MaxChunk, MaxMessage} \subseteq Nat \ {0}
    /\ LenBytes % 2 = 0 /\ LenBytes < Block /\ Word % (ByteBits * Block) = 0
    /\ Digests \subseteq Seq(0 .. 255)

VARIABLES
    count,    \* the two words of the bit count, low word first
    buffer,   \* the block being filled; what lies past the count is left over
    hashed,   \* the blocks MD5Transform was given since MD5Init
    message,  \* the bytes given to MD5Update since then
    digest,   \* of the call just made: the blocks MD5Final hashed, of which message
    text      \* of the call just made: the text of which digest

vars == <<count, buffer, hashed, message, digest, text>>

NoDigest == [blocks |-> <<>>, of |-> <<>>]
NoText   == [chars |-> <<>>, of |-> <<>>]

Zeros(n) == [i \in 1 .. n |-> 0]

Init ==
    /\ count = <<0, 0>> /\ hashed = <<>> /\ message = <<>> /\ buffer = Zeros(Block)
    /\ digest = NoDigest /\ text = NoText

-----------------------------------------------------------------------------
Index(c) == (c[1] \div ByteBits) % Block

\* Mutant of Added: the words are wider than 32 bits.
Added_Wide(c, bits) ==
    LET low == c[1] + bits
    IN  <<low, (c[2] + (bits \div Word)) % Word>>

\* The bit count with so many bits more; the low word is found to have wrapped
\* when it is less than what was added to it.
Added(c, bits) ==
    LET low == (c[1] + (bits % Word)) % Word
        carry == IF low < bits % Word THEN 1 ELSE 0
    IN  <<low, (c[2] + carry + (bits \div Word)) % Word>>

Overlay(b, at, bytes) ==
    [i \in DOMAIN b |-> IF i \in at + 1 .. at + Len(bytes) THEN bytes[i - at] ELSE b[i]]

\* How many bytes of an input of n the loop leaves behind it.
Consumed(part, n) == IF n < part THEN 0 ELSE part + Block * ((n - part) \div Block)

\* The blocks an input completes: the buffer, then straight from the input.
Completed(b, part, input) ==
    [k \in 1 .. (Consumed(part, Len(input)) + Block - part) \div Block |->
        IF k = 1 THEN Overlay(b, Block - part, SubSeq(input, 1, part))
        ELSE SubSeq(input, part + (k - 2) * Block + 1, part + (k - 1) * Block)]

Rest(input, done) == SubSeq(input, done + 1, Len(input))

\* A context is a record of count, buffer and hashed.
MD5Update(ctx, input) ==
    LET index == Index(ctx.count)
        part  == Block - index
        done  == Consumed(part, Len(input))
    IN  [count  |-> Added(ctx.count, Len(input) * ByteBits),
         hashed |-> IF done = 0 THEN ctx.hashed
                    ELSE ctx.hashed \o Completed(ctx.buffer, part, input),
         buffer |-> IF done = 0 THEN Overlay(ctx.buffer, index, input)
                    ELSE Overlay(Overlay(ctx.buffer, index, SubSeq(input, 1, part)),
                                 0, Rest(input, done))]

\* Encode: the bytes of the words, the low byte of each first.
Encode(words) ==
    [i \in 1 .. LenBytes |->
        LET half == LenBytes \div 2
        IN  (words[1 + ((i - 1) \div half)] \div Byte ^ ((i - 1) % half)) % Byte]

PADDING(n) == [i \in 1 .. n |-> IF i = 1 THEN Byte \div 2 ELSE 0]

\* Mutant of PadLen: a message that ends where the length starts gets no padding.
PadLen_None(index) ==
    IF index <= Block - LenBytes THEN Block - LenBytes - index
    ELSE 2 * Block - LenBytes - index

PadLen(index) ==
    IF index < Block - LenBytes THEN Block - LenBytes - index
    ELSE 2 * Block - LenBytes - index

\* The blocks hashed after the padding and the length of before the padding.
MD5Final(ctx) ==
    MD5Update(MD5Update(ctx, PADDING(PadLen(Index(ctx.count)))), Encode(ctx.count)).hashed

-----------------------------------------------------------------------------
Context == [count |-> count, buffer |-> buffer, hashed |-> hashed]

\* The bytes of a message are told apart by their numbers, from Byte on.
Input(n) == [i \in 1 .. n |-> Byte + Len(message) + i]

Update(n) ==
    /\ Len(message) + n <= MaxMessage
    /\ \E ctx \in {MD5Update(Context, Input(n))} :
          count' = ctx.count /\ buffer' = ctx.buffer /\ hashed' = ctx.hashed
    /\ message' = message \o Input(n)
    /\ digest' = NoDigest /\ text' = NoText

\* What MD5Final does to a context that has seen the message m: it is zeroed,
\* and MD5Init called.
Finish(ctx, m) ==
    /\ digest' = [blocks |-> MD5Final(ctx), of |-> m]
    /\ count' = <<0, 0>> /\ hashed' = <<>> /\ message' = <<>> /\ buffer' = Zeros(Block)

Final == Finish(Context, message) /\ text' = NoText

\* itoa writes the digits backwards and then reverses them.
Digits(val, radix) ==
    LET up[v \in 0 .. val] == IF v < radix THEN <<v>> ELSE Append(up[v \div radix], v % radix)
    IN  up[val]

\* Mutant of HexByte: small bytes are written with one digit.
HexByte_Short(b) == Digits(b, 16)

HexByte(b) == IF Len(Digits(b, 16)) = 1 THEN <<0>> \o Digits(b, 16) ELSE Digits(b, 16)

Hex(bytes) ==
    LET upTo[i \in 0 .. Len(bytes)] == IF i = 0 THEN <<>> ELSE upTo[i - 1] \o HexByte(bytes[i])
    IN  upTo[Len(bytes)]

\* A file of n bytes goes into one MD5Update. The compression function may have
\* made any digest of the blocks.
GetFileMd5(n) ==
    /\ Len(message) + n <= MaxMessage
    /\ Finish(MD5Update(Context, Input(n)), message \o Input(n))
    /\ \E d \in Digests : text' = [chars |-> Hex(d), of |-> d]

\* The file cannot be opened.
GetFileMd5Fails ==
    /\ digest' = NoDigest /\ text' = NoText
    /\ UNCHANGED <<count, buffer, hashed, message>>

Next ==
    \/ Final \/ GetFileMd5Fails
    \/ \E n \in 0 .. MaxChunk : Update(n)
    \/ \E n \in 0 .. MaxMessage : GetFileMd5(n)

Spec == Init /\ [][Next]_vars

-----------------------------------------------------------------------------
(* Properties.                                                             *)

\* A context between two calls: the words of the count are words, and the
\* buffer is always one block of bytes.
Md5TypeOK ==
    /\ count \in (0 .. Word - 1) \X (0 .. Word - 1)
    /\ Len(buffer) = Block /\ \A b \in {hashed[i] : i \in DOMAIN hashed} : Len(b) = Block

\* The message as RFC 1321 pads it: a bit, the fewest zero bits that leave room
\* for the length at the end of a block, and the length in bits: the low word
\* first, the low byte of each word first.
Little(v) ==
    [i \in 1 .. LenBytes |->
        LET half == LenBytes \div 2
        IN  ((v \div Word ^ ((i - 1) \div half)) \div Byte ^ ((i - 1) % half)) % Byte]

Padded(m) ==
    LET zeros == Min({z \in 0 .. Block - 1 : (Len(m) + 1 + z + LenBytes) % Block = 0})
    IN  m \o <<2 ^ (ByteBits - 1)>> \o Zeros(zeros) \o Little(Len(m) * ByteBits)

Cut(m) == [k \in 1 .. Len(m) \div Block |-> SubSeq(m, (k - 1) * Block + 1, k * Block)]

\* In whatever pieces a message comes, and whatever the context was used for
\* before, MD5Final has hashed exactly the blocks of the padded message.
DigestOfWhole == digest.blocks # <<>> => digest.blocks = Cut(Padded(digest.of))

\* The text has two digits for each byte of the digest, from which it can be
\* read back: two digests never share a text.
TextTellsDigests ==
    text.of # <<>> =>
        /\ Len(text.chars) = 2 * Len(text.of)
        /\ \A i \in DOMAIN text.of :
              text.of[i] = (16 * text.chars[2 * i - 1]) + text.chars[2 * i]
=============================================================================
