--------------------------- MODULE Md5StreamProofs ---------------------------
(***************************************************************************)
(* Md5Stream with the sizes of Md5.h, for messages of any length in chunks *)
(* of any length.                                                          *)
(***************************************************************************)
EXTENDS Md5Stream, WellFoundedInduction, SequenceTheorems, TLAPS

\* A block has 64 bytes, the bit count two words of four bytes.
RealSizes == Block = 64 /\ LenBytes = 8 /\ ByteBits = 8

LEMMA ByteAndWord ==
    ASSUME RealSizes
    PROVE  Byte = 256 /\ Word = 4294967296
<1>1. 2 ^ 8 = 256
  BY SMT
<1>2. 8 \div 2 = 4
  BY SMT
<1>3. 256 ^ 4 = 4294967296
  BY SMT
<1> QED
  BY <1>1, <1>2, <1>3, SMT DEF RealSizes, Byte, Word

-----------------------------------------------------------------------------
(* Quotients and remainders.                                               *)

LEMMA QuotientAndRemainder ==
    ASSUME NEW w \in Nat, w > 0, NEW a \in Nat
    PROVE  /\ a \div w \in Nat /\ a % w \in Nat /\ a % w < w
           /\ a = w * (a \div w) + (a % w)
  BY SMT

LEMMA OnlyQuotient ==
    ASSUME NEW w \in Nat, w > 0, NEW q \in Nat, NEW r \in Nat, r < w
    PROVE  (w * q + r) \div w = q /\ (w * q + r) % w = r
  BY SMT

\* The quotient and the remainder of a sum are those of the parts, with a
\* carry when the sum of the remainders is found to have wrapped.
LEMMA Carried ==
    ASSUME NEW w \in Nat, w > 0, NEW a \in Nat, NEW b \in Nat
    PROVE  LET low   == ((a % w) + (b % w)) % w
               carry == IF low < b % w THEN 1 ELSE 0
           IN  low = (a + b) % w /\ (a \div w) + (b \div w) + carry = (a + b) \div w
<1> DEFINE qa == a \div w
           qb == b \div w
           ra == a % w
           rb == b % w
<1>1. /\ qa \in Nat /\ qb \in Nat /\ ra \in Nat /\ rb \in Nat /\ ra < w /\ rb < w
      /\ a = w * qa + ra /\ b = w * qb + rb
  BY QuotientAndRemainder
<1> HIDE DEF qa, qb, ra, rb
<1>2. CASE ra + rb < w
  <2>1. (ra + rb) % w = ra + rb
    BY <1>1, <1>2
  <2>2. a + b = w * (qa + qb) + (ra + rb)
    BY <1>1
  <2>3. (a + b) \div w = qa + qb /\ (a + b) % w = ra + rb
    BY <1>1, <1>2, <2>2, OnlyQuotient
  <2> QED
    BY <1>1, <2>1, <2>3 DEF qa, qb, ra, rb
<1>3. CASE ra + rb >= w
  <2>1. /\ ra + rb = w * 1 + (ra + rb - w)
        /\ ra + rb - w \in Nat /\ ra + rb - w < rb /\ ra + rb - w < w
    BY <1>1, <1>3
  <2>2. (ra + rb) % w = ra + rb - w
    BY <2>1, OnlyQuotient
  <2>3. a + b = w * (qa + qb + 1) + (ra + rb - w)
    BY <1>1
  <2>4. (a + b) \div w = qa + qb + 1 /\ (a + b) % w = ra + rb - w
    BY <1>1, <2>1, <2>3, OnlyQuotient
  <2> QED
    BY <1>1, <2>1, <2>2, <2>4 DEF qa, qb, ra, rb
<1> QED
  BY <1>1, <1>2, <1>3

LEMMA RemainderOfSum ==
    ASSUME NEW w \in Nat, w > 0, NEW q \in Nat, NEW r \in Nat
    PROVE  ((q % w) + r) % w = (q + r) % w
<1>1. PICK h \in Nat, l \in Nat : q = w * h + l /\ l = q % w
  BY QuotientAndRemainder
<1>2. PICK g \in Nat, k \in Nat : l + r = w * g + k /\ k < w /\ k = (l + r) % w
  BY QuotientAndRemainder
<1>3. q + r = w * (h + g) + k
  BY <1>1, <1>2
<1>4. h + g \in Nat
  BY <1>1, <1>2
<1>5. (w * (h + g) + k) % w = k
  BY <1>2, <1>4, OnlyQuotient, Zenon
<1> QED
  BY <1>1, <1>2, <1>3, <1>5

\* The places of a whole piece of w among l places.
LEMMA InPiece ==
    ASSUME NEW w \in Nat, w > 0, NEW l \in Nat, NEW k \in 1 .. l \div w
    PROVE  /\ w * (k - 1) \in Nat /\ w * k \in Nat /\ w * k <= l
           /\ w * (k - 1) + w = w * k
           /\ \A i \in 1 .. w : w * (k - 1) + i \in 1 .. l
<1>1. PICK q \in Nat, r \in Nat : q = l \div w /\ l = w * q + r
  BY QuotientAndRemainder
<1>2. w * k <= w * q
  BY <1>1
<1>3. w * (k - 1) + w = w * k /\ w * (k - 1) >= 0
  BY <1>1
<1> QED
  BY <1>1, <1>2, <1>3

LEMMA MorePieces ==
    ASSUME NEW w \in Nat, w > 0, NEW l \in Nat, NEW n \in Nat
    PROVE  /\ l \div w \in Nat /\ (l + n) \div w \in Nat
           /\ l \div w <= (l + n) \div w
<1>1. (l \div w) + (n \div w) <= (l + n) \div w /\ n \div w \in Nat /\ l \div w \in Nat
  BY Carried, QuotientAndRemainder
<1>2. (l + n) \div w \in Nat
  BY QuotientAndRemainder
<1> QED
  BY <1>1, <1>2
-----------------------------------------------------------------------------
(* The bit count.                                                          *)

\* The words of the count when n bytes have been seen.
Bits(n) == <<(8 * n) % Word, ((8 * n) \div Word) % Word>>

LEMMA BitsIndex ==
    ASSUME NEW n \in Nat, RealSizes
    PROVE  Index(Bits(n)) = n % 64
<1>1. Index(Bits(n)) = (((8 * n) % Word) \div 8) % 64
  BY DEF Index, Bits, RealSizes
<1>2. (((8 * n) % 4294967296) \div 8) % 64 = n % 64
  BY SMT
<1> QED
  BY <1>1, <1>2, ByteAndWord, SMT

LEMMA BitsAdded ==
    ASSUME NEW n \in Nat, NEW k \in Nat, RealSizes
    PROVE  Added(Bits(n), k * ByteBits) = Bits(n + k)
<1> DEFINE a == 8 * n
           b == 8 * k
           low == ((a % Word) + (b % Word)) % Word
           carry == IF low < b % Word THEN 1 ELSE 0
<1>1. /\ a \in Nat /\ b \in Nat /\ k * ByteBits = b /\ 8 * (n + k) = a + b
      /\ Word \in Nat /\ Word > 0
  BY ByteAndWord, SMT DEF RealSizes
<1> HIDE DEF a, b
<1>2. low = (a + b) % Word /\ (a \div Word) + (b \div Word) + carry = (a + b) \div Word
  <2>1. \A c \in Nat, d \in Nat :
           LET sum == ((c % Word) + (d % Word)) % Word
               up  == IF sum < d % Word THEN 1 ELSE 0
           IN  sum = (c + d) % Word /\ (c \div Word) + (d \div Word) + up = (c + d) \div Word
    BY <1>1, Carried
  <2> QED
    BY <1>1, <2>1
<1>3. /\ a \div Word \in Nat /\ b \div Word \in Nat /\ carry \in Nat
      /\ carry + (b \div Word) \in Nat
  BY <1>1, QuotientAndRemainder
<1> HIDE DEF low, carry
<1>4. (((a \div Word) % Word) + (carry + (b \div Word))) % Word
         = ((a \div Word) + (carry + (b \div Word))) % Word
  <2>1. \A q \in Nat, r \in Nat : ((q % Word) + r) % Word = (q + r) % Word
    BY <1>1, RemainderOfSum
  <2> QED
    BY <1>3, <2>1
<1>5. (a \div Word) % Word \in Nat
  BY <1>1, <1>3, QuotientAndRemainder
<1>6. (((a \div Word) % Word) + carry + (b \div Word)) % Word = ((a + b) \div Word) % Word
  <2>1. ((a \div Word) % Word) + carry + (b \div Word)
            = ((a \div Word) % Word) + (carry + (b \div Word))
    BY <1>3, <1>5
  <2>2. (a \div Word) + (carry + (b \div Word)) = (a + b) \div Word
    BY <1>2, <1>3
  <2> QED
    BY <1>4, <2>1, <2>2
<1>7. Added(Bits(n), k * ByteBits)
         = <<low, (((a \div Word) % Word) + carry + (b \div Word)) % Word>>
  BY <1>1 DEF Added, Bits, a, low, carry
<1>8. Bits(n + k) = <<(a + b) % Word, ((a + b) \div Word) % Word>>
  BY <1>1 DEF Bits
<1> QED
  BY <1>2, <1>6, <1>7, <1>8
-----------------------------------------------------------------------------
(* MD5Update.                                                              *)

\* A context that has been given the message m since MD5Init: the bits are
\* counted, the whole blocks of m are hashed, and the buffer starts with what
\* is left of m.
Seen(ctx, m) ==
    /\ ctx.count = Bits(Len(m))
    /\ ctx.hashed = Cut(m)
    /\ ctx.buffer \in [1 .. Block -> Nat]
    /\ \A i \in 1 .. Len(m) % Block : ctx.buffer[i] = m[Block * (Len(m) \div Block) + i]

LEMMA BlockNat ==
    /\ Block \in Nat /\ Block > 0
    /\ \A l \in Nat : /\ l \div Block \in Nat /\ l % Block \in Nat /\ l % Block < Block
                      /\ Block * (l \div Block) \in Nat
                      /\ l = Block * (l \div Block) + (l % Block)
<1>1. Block \in Nat /\ Block > 0
  BY Md5Assumption
<1> QED
  BY <1>1, QuotientAndRemainder

LEMMA RunIsSeq ==
    ASSUME NEW S, NEW n \in Nat, NEW f \in [1 .. n -> S]
    PROVE  f \in Seq(S) /\ Len(f) = n
  OBVIOUS

LEMMA JoinIs ==
    ASSUME NEW S, NEW c \in Seq(S), NEW d \in Seq(S)
    PROVE  /\ c \o d \in Seq(S) /\ Len(c \o d) = Len(c) + Len(d)
           /\ \A i \in 1 .. Len(c) : (c \o d)[i] = c[i]
           /\ \A i \in 1 .. Len(d) : (c \o d)[Len(c) + i] = d[i]
  OBVIOUS

\* A piece of a sequence.
LEMMA PieceIs ==
    ASSUME NEW m \in Seq(Nat), NEW a \in Nat, NEW n \in Nat, a + n <= Len(m)
    PROVE  /\ SubSeq(m, a + 1, a + n) \in Seq(Nat) /\ Len(SubSeq(m, a + 1, a + n)) = n
           /\ \A i \in 1 .. n : SubSeq(m, a + 1, a + n)[i] = m[a + i]
  OBVIOUS

\* The blocks of a message, by their number and their bytes.
LEMMA CutIs ==
    ASSUME NEW m \in Seq(Nat)
    PROVE  /\ Cut(m) \in Seq(Seq(Nat)) /\ Len(Cut(m)) = Len(m) \div Block
           /\ \A k \in 1 .. Len(m) \div Block :
                 /\ Cut(m)[k] \in Seq(Nat) /\ Len(Cut(m)[k]) = Block
                 /\ \A i \in 1 .. Block : Cut(m)[k][i] = m[Block * (k - 1) + i]
<1>1. Len(m) \in Nat /\ Len(m) \div Block \in Nat
  BY BlockNat, QuotientAndRemainder
<1>2. ASSUME NEW k \in 1 .. Len(m) \div Block
      PROVE  LET b == SubSeq(m, (k - 1) * Block + 1, k * Block)
             IN  /\ b \in Seq(Nat) /\ Len(b) = Block
                 /\ \A i \in 1 .. Block : b[i] = m[Block * (k - 1) + i]
  <2> DEFINE a == Block * (k - 1)
  <2>1. /\ Block \in Nat /\ a \in Nat /\ a + Block <= Len(m)
        /\ (k - 1) * Block + 1 = a + 1 /\ k * Block = a + Block
    BY <1>1, BlockNat, InPiece
  <2> HIDE DEF a
  <2>2. LET b == SubSeq(m, a + 1, a + Block)
        IN  /\ b \in Seq(Nat) /\ Len(b) = Block
            /\ \A i \in 1 .. Block : b[i] = m[a + i]
    BY <2>1, PieceIs, Zenon
  <2>3. SubSeq(m, (k - 1) * Block + 1, k * Block) = SubSeq(m, a + 1, a + Block)
    BY <2>1, Zenon
  <2> QED
    BY <2>2, <2>3 DEF a
<1> DEFINE B(k) == SubSeq(m, (k - 1) * Block + 1, k * Block)
<1>3. Cut(m) = [k \in 1 .. Len(m) \div Block |-> B(k)]
  BY DEF Cut
<1> HIDE DEF B
<1>4. Cut(m) \in Seq(Seq(Nat)) /\ Len(Cut(m)) = Len(m) \div Block
  <2>1. \A k \in 1 .. Len(m) \div Block : B(k) \in Seq(Nat)
    BY <1>2 DEF B
  <2>2. Cut(m) \in [1 .. Len(m) \div Block -> Seq(Nat)]
    BY <1>3, <2>1, Zenon
  <2> QED
    BY <1>1, <2>2, RunIsSeq, Zenon
<1>5. \A k \in 1 .. Len(m) \div Block : Cut(m)[k] = B(k)
  BY <1>3
<1> QED
  BY <1>2, <1>4, <1>5 DEF B

\* Two sequences of blocks are the same when their bytes are.
LEMMA SameBlocks ==
    ASSUME NEW c \in Seq(Seq(Nat)), NEW d \in Seq(Seq(Nat)), Len(c) = Len(d),
           \A k \in 1 .. Len(c) : Len(c[k]) = Block /\ Len(d[k]) = Block,
           \A k \in 1 .. Len(c) : \A i \in 1 .. Block : c[k][i] = d[k][i]
    PROVE  c = d
<1>1. ASSUME NEW k \in 1 .. Len(c)
      PROVE  c[k] = d[k]
  <2>1. c[k] \in Seq(Nat) /\ d[k] \in Seq(Nat)
    BY ElementOfSeq, Zenon
  <2>2. \A i \in 1 .. Len(c[k]) : c[k][i] = d[k][i]
    BY Zenon
  <2>3. Len(c[k]) = Len(d[k])
    BY Zenon
  <2> QED
    BY <2>1, <2>2, <2>3, SeqEqual, Zenon
<1> QED
  BY <1>1, SeqEqual, Zenon

\* The blocks of a message are the first of a longer one.
LEMMA CutStays ==
    ASSUME NEW m \in Seq(Nat), NEW input \in Seq(Nat)
    PROVE  /\ Len(m) \div Block <= Len(m \o input) \div Block
           /\ \A k \in 1 .. Len(m) \div Block : \A i \in 1 .. Block :
                 Cut(m \o input)[k][i] = Cut(m)[k][i]
<1>1. /\ Len(m) \in Nat /\ Len(input) \in Nat /\ m \o input \in Seq(Nat)
      /\ Len(m \o input) = Len(m) + Len(input)
      /\ \A i \in 1 .. Len(m) : (m \o input)[i] = m[i]
  OBVIOUS
<1>2. /\ Len(m) \div Block \in Nat /\ Len(m \o input) \div Block \in Nat
      /\ Len(m) \div Block <= Len(m \o input) \div Block
  BY <1>1, BlockNat, MorePieces, Zenon
<1>3. ASSUME NEW k \in 1 .. Len(m) \div Block, NEW i \in 1 .. Block
      PROVE  Cut(m \o input)[k][i] = Cut(m)[k][i]
  <2>1. k \in 1 .. Len(m \o input) \div Block
    BY <1>2
  <2>2. Block * (k - 1) + i \in 1 .. Len(m)
    BY <1>1, BlockNat, InPiece
  <2>3. Cut(m)[k][i] = m[Block * (k - 1) + i]
    BY CutIs, Zenon
  <2>4. Cut(m \o input)[k][i] = (m \o input)[Block * (k - 1) + i]
    BY <1>1, <2>1, CutIs, Zenon
  <2> QED
    BY <1>1, <2>2, <2>3, <2>4, Zenon
<1> QED
  BY <1>2, <1>3, Zenon

\* Bytes written over a buffer are there, and those before them stay.
LEMMA OverlayIs ==
    ASSUME NEW b \in [1 .. Block -> Nat], NEW at \in Nat, NEW bytes \in Seq(Nat),
           at + Len(bytes) <= Block
    PROVE  /\ Overlay(b, at, bytes) \in [1 .. Block -> Nat]
           /\ \A i \in 1 .. at : Overlay(b, at, bytes)[i] = b[i]
           /\ \A i \in 1 .. Len(bytes) : Overlay(b, at, bytes)[at + i] = bytes[i]
<1>1. Len(bytes) \in Nat /\ \A i \in 1 .. Len(bytes) : bytes[i] \in Nat
  OBVIOUS
<1> DEFINE O(i) == IF i \in at + 1 .. at + Len(bytes) THEN bytes[i - at] ELSE b[i]
<1>2. ASSUME NEW i \in 1 .. Block
      PROVE  O(i) \in Nat
  <2>1. CASE i \in at + 1 .. at + Len(bytes)
    <3>1. i - at \in 1 .. Len(bytes)
      BY <1>1, <2>1
    <3> QED
      BY <1>1, <2>1, <3>1
  <2>2. CASE i \notin at + 1 .. at + Len(bytes)
    BY <2>2
  <2> QED
    BY <2>1, <2>2
<1>3. Overlay(b, at, bytes) = [i \in 1 .. Block |-> O(i)]
  BY DEF Overlay
<1>4. ASSUME NEW i \in 1 .. at
      PROVE  i \in 1 .. Block /\ O(i) = b[i]
  BY <1>1, BlockNat
<1>5. ASSUME NEW i \in 1 .. Len(bytes)
      PROVE  at + i \in 1 .. Block /\ O(at + i) = bytes[i]
  <2>1. /\ at + i \in 1 .. Block /\ at + i \in at + 1 .. at + Len(bytes)
        /\ (at + i) - at = i
    BY <1>1, BlockNat
  <2> QED
    BY <2>1
<1> HIDE DEF O
<1> QED
  BY <1>2, <1>3, <1>4, <1>5

\* An input that does not fill the buffer.
LEMMA ShortUpdate ==
    ASSUME NEW ctx, NEW m \in Seq(Nat), NEW input \in Seq(Nat), RealSizes,
           Seen(ctx, m), Len(input) < Block - (Len(m) % Block)
    PROVE  Seen(MD5Update(ctx, input), m \o input)
<1> DEFINE M == m \o input
           n == Len(input)
           q == Len(m) \div Block
           p == Len(m) % Block
           at == Block * q
           O == Overlay(ctx.buffer, p, input)
<1>1. /\ Len(m) \in Nat /\ n \in Nat
      /\ M \in Seq(Nat) /\ Len(M) = Len(m) + n
      /\ \A i \in 1 .. Len(m) : M[i] = m[i]
      /\ \A i \in 1 .. n : M[Len(m) + i] = input[i]
  OBVIOUS
<1>2. Block \in Nat /\ Block > 0 /\ q \in Nat /\ p \in Nat /\ at \in Nat
  BY <1>1, BlockNat
<1>3. Len(m) = at + p /\ n < Block - p
  BY <1>1, BlockNat
<1>4. /\ Cut(M) \in Seq(Seq(Nat)) /\ Cut(m) \in Seq(Seq(Nat))
      /\ Len(Cut(m)) = q /\ Len(Cut(M)) = Len(M) \div Block
  BY <1>1, CutIs, Zenon
<1>5. /\ \A k \in 1 .. q : /\ Len(Cut(m)[k]) = Block
                           /\ \A i \in 1 .. Block : Cut(M)[k][i] = Cut(m)[k][i]
      /\ \A k \in 1 .. Len(M) \div Block : Len(Cut(M)[k]) = Block
  BY <1>1, CutIs, CutStays, Zenon
<1>6. Index(ctx.count) = p /\ Added(ctx.count, n * ByteBits) = Bits(Len(M))
  <2>1. ctx.count = Bits(Len(m)) /\ p = Len(m) % 64
    BY DEF Seen, RealSizes
  <2>2. Index(Bits(Len(m))) = Len(m) % 64
    BY <1>1, BitsIndex, Zenon
  <2>3. Added(Bits(Len(m)), n * ByteBits) = Bits(Len(m) + n)
    BY <1>1, BitsAdded, Zenon
  <2> QED
    BY <1>1, <2>1, <2>2, <2>3
<1>7. /\ ctx.buffer \in [1 .. Block -> Nat] /\ ctx.hashed = Cut(m)
      /\ \A i \in 1 .. p : ctx.buffer[i] = m[at + i]
  BY DEF Seen
<1> HIDE DEF M, n, p, q, at
<1>8. Len(M) = at + (p + n) /\ p + n \in Nat /\ p + n < Block
  BY <1>1, <1>2, <1>3
<1>9. Len(M) \div Block = q /\ Len(M) % Block = p + n
  BY <1>2, <1>8, OnlyQuotient DEF at
<1>10. MD5Update(ctx, input) = [count |-> Bits(Len(M)), hashed |-> ctx.hashed, buffer |-> O]
  <2>1. Consumed(Block - p, n) = 0
    BY <1>3 DEF Consumed
  <2> QED
    BY <1>6, <2>1, Zenon DEF MD5Update, n
<1>11. Cut(M) = Cut(m)
  <2> DEFINE c == Cut(M)
             d == Cut(m)
  <2>1. c \in Seq(Seq(Nat)) /\ d \in Seq(Seq(Nat)) /\ Len(c) = Len(d)
    BY <1>4, <1>9
  <2>2. \A k \in 1 .. Len(c) : Len(c[k]) = Block /\ Len(d[k]) = Block
    BY <1>4, <1>5, <1>9
  <2>3. \A k \in 1 .. Len(c) : \A i \in 1 .. Block : c[k][i] = d[k][i]
    BY <1>4, <1>5, <1>9
  <2> HIDE DEF c, d
  <2>4. c = d
    BY <2>1, <2>2, <2>3, SameBlocks, Zenon
  <2> QED
    BY <2>4 DEF c, d
<1>12. /\ O \in [1 .. Block -> Nat]
       /\ \A i \in 1 .. p : O[i] = ctx.buffer[i]
       /\ \A i \in 1 .. n : O[p + i] = input[i]
  <2>1. p + n <= Block
    BY <1>1, <1>2, <1>8
  <2> QED
    BY <1>2, <1>7, <2>1, OverlayIs, Zenon DEF n
<1> HIDE DEF O
<1>13. \A i \in 1 .. p + n : O[i] = M[at + i]
  <2>1. ASSUME NEW i \in 1 .. p
        PROVE  O[i] = M[at + i]
    <3>1. at + i \in 1 .. Len(m)
      BY <1>2, <1>3
    <3> QED
      BY <1>1, <1>7, <1>12, <3>1, Zenon
  <2>2. ASSUME NEW j \in 1 .. n
        PROVE  O[p + j] = M[at + (p + j)]
    <3>1. at + (p + j) = Len(m) + j
      BY <1>1, <1>2, <1>3
    <3> QED
      BY <1>1, <1>12, <3>1, Zenon
  <2>3. ASSUME NEW i \in p + 1 .. p + n
        PROVE  O[i] = M[at + i]
    <3>1. i - p \in 1 .. n /\ i = p + (i - p)
      BY <1>1, <1>2
    <3> QED
      BY <2>2, <3>1
  <2> QED
    BY <1>1, <1>2, <2>1, <2>3
<1>14. /\ Cut(M) = ctx.hashed
       /\ \A i \in 1 .. Len(M) % Block : O[i] = M[Block * (Len(M) \div Block) + i]
  BY <1>7, <1>9, <1>11, <1>13 DEF at
<1>15. Seen([count |-> Bits(Len(M)), hashed |-> ctx.hashed, buffer |-> O], M)
  BY <1>12, <1>14 DEF Seen
<1> QED
  BY <1>10, <1>15, Zenon DEF M

\* An input that fills the buffer, and whatever blocks it has after that.
LEMMA LongUpdate ==
    ASSUME NEW ctx, NEW m \in Seq(Nat), NEW input \in Seq(Nat), RealSizes,
           Seen(ctx, m), Len(input) >= Block - (Len(m) % Block)
    PROVE  Seen(MD5Update(ctx, input), m \o input)
<1> DEFINE M == m \o input
           n == Len(input)
           q == Len(m) \div Block
           p == Len(m) % Block
           at == Block * q
           part == Block - p
           more == (n - part) \div Block
           rest == (n - part) % Block
           done == part + Block * more
           filled == Overlay(ctx.buffer, p, SubSeq(input, 1, part))
           B(k) == IF k = 1 THEN filled
                   ELSE SubSeq(input, part + (k - 2) * Block + 1, part + (k - 1) * Block)
           O == Overlay(filled, 0, SubSeq(input, done + 1, n))
<1>1. /\ Len(m) \in Nat /\ n \in Nat
      /\ M \in Seq(Nat) /\ Len(M) = Len(m) + n
      /\ \A i \in 1 .. Len(m) : M[i] = m[i]
      /\ \A i \in 1 .. n : M[Len(m) + i] = input[i]
  OBVIOUS
<1>2. /\ Block \in Nat /\ Block > 0 /\ q \in Nat /\ p \in Nat /\ at \in Nat
      /\ p < Block /\ Len(m) = at + p /\ n >= part
  BY <1>1, BlockNat
<1>3. part \in Nat /\ part >= 1 /\ n - part \in Nat /\ part + p = Block
  BY <1>1, <1>2
<1>4. /\ more \in Nat /\ rest \in Nat /\ rest < Block /\ Block * more \in Nat
      /\ n - part = Block * more + rest
  BY <1>3, BlockNat
<1>5. Index(ctx.count) = p /\ Added(ctx.count, n * ByteBits) = Bits(Len(M))
  <2>1. ctx.count = Bits(Len(m)) /\ p = Len(m) % 64
    BY DEF Seen, RealSizes
  <2>2. Index(Bits(Len(m))) = Len(m) % 64
    BY <1>1, BitsIndex, Zenon
  <2>3. Added(Bits(Len(m)), n * ByteBits) = Bits(Len(m) + n)
    BY <1>1, BitsAdded, Zenon
  <2> QED
    BY <1>1, <2>1, <2>2, <2>3
<1>6. /\ ctx.buffer \in [1 .. Block -> Nat] /\ ctx.hashed = Cut(m)
      /\ \A i \in 1 .. p : ctx.buffer[i] = m[at + i]
  BY DEF Seen
<1> HIDE DEF M, n, p, q, at, more, rest
<1>7. done \in Nat /\ done >= 1 /\ n = done + rest
  <2> DEFINE full == Block * more
  <2>1. full \in Nat /\ n - part = full + rest /\ done = part + full
    BY <1>4
  <2> HIDE DEF part, done, full
  <2> QED
    BY <1>1, <1>3, <1>4, <2>1
<1>8. /\ Len(M) = Block * (q + 1 + more) + rest
      /\ Len(M) = at + Block + Block * more + rest
  BY <1>1, <1>2, <1>3, <1>4, <1>7 DEF at
<1>9. Len(M) \div Block = q + 1 + more /\ Len(M) % Block = rest
  <2>1. q + 1 + more \in Nat
    BY <1>2, <1>4
  <2>2. \A x \in Nat : (Block * x + rest) \div Block = x /\ (Block * x + rest) % Block = rest
    BY <1>2, <1>4, OnlyQuotient
  <2> QED
    BY <1>8, <2>1, <2>2
<1>10. MD5Update(ctx, input) = [count |-> Bits(Len(M)), buffer |-> O,
                                hashed |-> ctx.hashed \o [k \in 1 .. more + 1 |-> B(k)]]
  <2>1. Consumed(part, n) = done
    BY <1>1, <1>2, <1>3 DEF Consumed, more
  <2>2. (done + Block - part) \div Block = more + 1
    <3>1. /\ done + Block - part = Block * (more + 1) + 0
          /\ more + 1 \in Nat /\ 0 \in Nat /\ 0 < Block
      BY <1>2, <1>3, <1>4
    <3> QED
      BY <1>2, <3>1, OnlyQuotient, Zenon
  <2>3. Block - part = p
    BY <1>2
  <2>4. Completed(ctx.buffer, part, input) = [k \in 1 .. more + 1 |-> B(k)]
    BY <2>1, <2>2, <2>3, Zenon DEF Completed, n
  <2>5. done # 0
    BY <1>7
  <2> QED
    BY <1>5, <2>1, <2>4, <2>5, Zenon DEF MD5Update, Rest, n
<1>11. /\ filled \in [1 .. Block -> Nat]
       /\ \A i \in 1 .. Block : filled[i] = M[at + i]
  <2> DEFINE first == SubSeq(input, 1, part)
  <2>1. /\ first \in Seq(Nat) /\ Len(first) = part
        /\ \A i \in 1 .. part : first[i] = input[i]
    <3>1. 0 \in Nat /\ 0 + part <= Len(input)
      BY <1>2, <1>3 DEF n
    <3>2. LET s == SubSeq(input, 0 + 1, 0 + part)
          IN  s \in Seq(Nat) /\ Len(s) = part /\ \A i \in 1 .. part : s[i] = input[0 + i]
      BY <1>3, <3>1, PieceIs, Zenon
    <3> QED
      BY <1>3, <3>2
  <2> HIDE DEF first
  <2>2. p + Len(first) <= Block
    BY <1>2, <1>3, <1>7, <2>1
  <2>3. LET f == Overlay(ctx.buffer, p, first)
        IN  /\ f \in [1 .. Block -> Nat]
            /\ \A i \in 1 .. p : f[i] = ctx.buffer[i]
            /\ \A i \in 1 .. Len(first) : f[p + i] = first[i]
    BY <1>2, <1>6, <2>1, <2>2, OverlayIs, Zenon
  <2>4. filled = Overlay(ctx.buffer, p, first)
    BY DEF first
  <2> HIDE DEF part, filled
  <2>5. ASSUME NEW i \in 1 .. p
        PROVE  filled[i] = M[at + i]
    <3>1. at + i \in 1 .. Len(m)
      BY <1>2
    <3> QED
      BY <1>1, <1>6, <2>3, <2>4, <3>1, Zenon
  <2>6. ASSUME NEW j \in 1 .. part
        PROVE  filled[p + j] = M[at + (p + j)]
    <3>1. at + (p + j) = Len(m) + j /\ j \in 1 .. n
      BY <1>1, <1>2, <1>3
    <3> QED
      BY <1>1, <2>1, <2>3, <2>4, <3>1, Zenon
  <2>7. ASSUME NEW i \in p + 1 .. Block
        PROVE  filled[i] = M[at + i]
    <3>1. i - p \in 1 .. part /\ i = p + (i - p)
      BY <1>2, <1>3, <1>7
    <3> QED
      BY <2>6, <3>1
  <2>8. \A i \in 1 .. Block : filled[i] = M[at + i]
    BY <1>2, <2>5, <2>7
  <2> QED
    BY <2>3, <2>4, <2>8
<1> HIDE DEF filled
<1>12. ASSUME NEW k \in 1 .. more + 1
       PROVE  /\ B(k) \in Seq(Nat) /\ Len(B(k)) = Block
              /\ \A i \in 1 .. Block : B(k)[i] = M[Block * ((q + k) - 1) + i]
  <2>1. CASE k = 1
    <3>1. filled \in Seq(Nat) /\ Len(filled) = Block
      BY <1>2, <1>11, RunIsSeq, Zenon
    <3>2. Block * ((q + k) - 1) = at
      BY <1>2, <2>1 DEF at
    <3> QED
      BY <1>11, <2>1, <3>1, <3>2
  <2>2. CASE k # 1
    <3> DEFINE a == part + (k - 2) * Block
    <3>1. a \in Nat /\ part + (k - 1) * Block = a + Block /\ a + Block <= n
      <4>1. (k - 2) * Block >= 0 /\ (k - 1) * Block <= more * Block
        BY <1>2, <1>4, <2>2
      <4>2. part + (k - 1) * Block = a + Block
        BY <1>2, <1>3
      <4>3. (k - 2) * Block \in Nat /\ more * Block = Block * more
        BY <1>2, <1>4, <4>1
      <4> HIDE DEF part
      <4>4. part + more * Block <= n
        BY <1>3, <1>4, <1>7, <4>3
      <4>5. part + (k - 1) * Block <= part + more * Block
        BY <1>3, <1>2, <1>4, <4>1
      <4>6. a = part + (k - 2) * Block
        OBVIOUS
      <4> HIDE DEF a
      <4> QED
        <5>1. a \in Nat
          BY <1>3, <4>3, <4>6
        <5>2. (k - 1) * Block \in Nat /\ more * Block \in Nat
          BY <1>2, <1>4
        <5>3. part + (k - 1) * Block <= n
          BY <1>1, <1>3, <4>4, <4>5, <5>2
        <5> QED
          BY <4>2, <5>1, <5>3
    <3>2. Block * ((q + k) - 1) = Len(m) + a
      BY <1>2, <1>7 DEF at
    <3>3. B(k) = SubSeq(input, a + 1, a + Block)
      BY <2>2, <3>1
    <3> HIDE DEF a, B, part
    <3>4. /\ B(k) \in Seq(Nat) /\ Len(B(k)) = Block
          /\ \A i \in 1 .. Block : B(k)[i] = input[a + i]
      <4>1. /\ SubSeq(input, a + 1, a + Block) \in Seq(Nat)
            /\ Len(SubSeq(input, a + 1, a + Block)) = Block
            /\ \A i \in 1 .. Block : SubSeq(input, a + 1, a + Block)[i] = input[a + i]
        BY <1>2, <3>1, PieceIs, Zenon DEF n
      <4> QED
        BY <3>3, <4>1
    <3>5. ASSUME NEW i \in 1 .. Block
          PROVE  input[a + i] = M[Block * ((q + k) - 1) + i]
      <4>1. a + i \in 1 .. n /\ Len(m) + (a + i) = Block * ((q + k) - 1) + i
        BY <1>1, <1>2, <3>1, <3>2
      <4> QED
        BY <1>1, <4>1
    <3> QED
      BY <3>4, <3>5
  <2> QED
    BY <2>1, <2>2
<1> DEFINE D == [k \in 1 .. more + 1 |-> B(k)]
<1>13. /\ D \in Seq(Seq(Nat)) /\ Len(D) = more + 1
       /\ \A k \in 1 .. more + 1 : D[k] = B(k)
  <2> HIDE DEF B
  <2>1. D \in [1 .. more + 1 -> Seq(Nat)]
    BY <1>12, Zenon
  <2>2. more + 1 \in Nat
    BY <1>4
  <2>3. \A k \in 1 .. more + 1 : D[k] = B(k)
    BY Zenon
  <2> HIDE DEF D
  <2>4. D \in Seq(Seq(Nat)) /\ Len(D) = more + 1
    BY <2>1, <2>2, RunIsSeq, Zenon
  <2> QED
    BY <2>3, <2>4
<1> HIDE DEF B, D
<1>14. Cut(M) = Cut(m) \o D
  <2> DEFINE c == Cut(M)
             d == Cut(m) \o D
  <2>1. /\ c \in Seq(Seq(Nat)) /\ Len(c) = q + 1 + more
        /\ Cut(m) \in Seq(Seq(Nat)) /\ Len(Cut(m)) = q
    BY <1>1, <1>9, CutIs, Zenon DEF q
  <2>2. /\ d \in Seq(Seq(Nat)) /\ Len(d) = q + 1 + more
        /\ \A k \in 1 .. q : d[k] = Cut(m)[k]
        /\ \A k \in 1 .. more + 1 : d[q + k] = B(k)
    <3>1. Cut(m) \in Seq(Seq(Nat)) /\ D \in Seq(Seq(Nat))
      BY <1>13, <2>1
    <3>2. /\ d \in Seq(Seq(Nat)) /\ Len(d) = Len(Cut(m)) + Len(D)
          /\ \A k \in 1 .. Len(Cut(m)) : d[k] = Cut(m)[k]
          /\ \A k \in 1 .. Len(D) : d[Len(Cut(m)) + k] = D[k]
      <4>1. d \in Seq(Seq(Nat)) /\ Len(d) = Len(Cut(m)) + Len(D)
        BY <3>1, JoinIs, Zenon
      <4>2. \A k \in 1 .. Len(Cut(m)) : d[k] = Cut(m)[k]
        BY <3>1, JoinIs, Zenon
      <4>3. \A k \in 1 .. Len(D) : d[Len(Cut(m)) + k] = D[k]
        <5>1. \A u \in Seq(Seq(Nat)), v \in Seq(Seq(Nat)) :
                 \A k \in 1 .. Len(v) : (u \o v)[Len(u) + k] = v[k]
          BY JoinIs
        <5> QED
          BY <3>1, <5>1
      <4> QED
        BY <4>1, <4>2, <4>3
    <3> HIDE DEF d
    <3> QED
      BY <1>2, <1>4, <1>13, <2>1, <3>2
  <2>3. ASSUME NEW k \in 1 .. Len(c)
        PROVE  /\ Len(c[k]) = Block /\ Len(d[k]) = Block
               /\ \A i \in 1 .. Block : c[k][i] = d[k][i]
    <3> HIDE DEF d
    <3>1. CASE k \in 1 .. q
      <4>1. /\ Len(c[k]) = Block /\ Len(Cut(m)[k]) = Block
            /\ \A i \in 1 .. Block : c[k][i] = Cut(m)[k][i]
        BY <1>1, <1>9, <2>1, <3>1, CutIs, CutStays, Zenon DEF q, M
      <4> QED
        BY <2>2, <3>1, <4>1
    <3>2. CASE k \in q + 1 .. q + 1 + more
      <4>1. k - q \in 1 .. more + 1 /\ k = q + (k - q)
        BY <1>2, <1>4, <3>2
      <4>2. /\ Len(c[k]) = Block
            /\ \A i \in 1 .. Block : c[k][i] = M[Block * (k - 1) + i]
        BY <1>1, <1>9, <2>1, CutIs, Zenon
      <4>3. d[k] = B(k - q)
        BY <2>2, <4>1
      <4> DEFINE j == k - q
      <4>4. j \in 1 .. more + 1 /\ (q + j) - 1 = k - 1 /\ d[k] = B(j)
        BY <1>2, <4>1, <4>3
      <4> HIDE DEF j, c
      <4>5. /\ Len(B(j)) = Block
            /\ \A i \in 1 .. Block : B(j)[i] = M[Block * ((q + j) - 1) + i]
        BY <1>12, <4>4
      <4> QED
        BY <4>2, <4>4, <4>5
    <3> QED
      BY <1>2, <1>4, <2>1, <3>1, <3>2
  <2> HIDE DEF c, d
  <2>4. c = d
    BY <2>1, <2>2, <2>3, SameBlocks, Zenon
  <2> QED
    BY <2>4 DEF c, d
<1>15. /\ O \in [1 .. Block -> Nat]
       /\ \A i \in 1 .. rest : O[i] = M[Block * (q + 1 + more) + i]
  <2> DEFINE last == SubSeq(input, done + 1, n)
  <2> HIDE DEF done
  <2>1. /\ last \in Seq(Nat) /\ Len(last) = rest
        /\ \A i \in 1 .. rest : last[i] = input[done + i]
    <3>1. done + rest <= Len(input) /\ SubSeq(input, done + 1, done + rest) = last
      BY <1>1, <1>4, <1>7 DEF n
    <3>2. LET s == SubSeq(input, done + 1, done + rest)
          IN  s \in Seq(Nat) /\ Len(s) = rest /\ \A i \in 1 .. rest : s[i] = input[done + i]
      BY <1>4, <1>7, <3>1, PieceIs, Zenon
    <3> QED
      BY <3>1, <3>2
  <2>2. 0 \in Nat /\ 0 + Len(last) <= Block
    BY <1>2, <1>4, <2>1
  <2> HIDE DEF last
  <2>3. LET f == Overlay(filled, 0, last)
        IN  /\ f \in [1 .. Block -> Nat]
            /\ \A i \in 1 .. Len(last) : f[0 + i] = last[i]
    BY <1>11, <2>1, <2>2, OverlayIs, Zenon
  <2>4. O = Overlay(filled, 0, last)
    BY DEF last
  <2> HIDE DEF O
  <2>5. ASSUME NEW i \in 1 .. rest
        PROVE  O[i] = M[Block * (q + 1 + more) + i]
    <3>1. O[i] = input[done + i]
      BY <1>4, <2>1, <2>3, <2>4
    <3>2. done + i \in 1 .. n /\ Len(m) + (done + i) = Block * (q + 1 + more) + i
      <4>1. Len(m) + done = Block * (q + 1 + more)
        BY <1>1, <1>2, <1>3, <1>4, <1>7, <1>8
      <4>2. Block * (q + 1 + more) \in Nat
        BY <1>1, <1>7, <4>1
      <4> QED
        BY <1>1, <1>4, <1>7, <4>1, <4>2
    <3> QED
      BY <1>1, <3>1, <3>2
  <2> QED
    BY <2>3, <2>4, <2>5
<1> HIDE DEF O
<1>16. /\ Cut(M) = ctx.hashed \o D
       /\ \A i \in 1 .. Len(M) % Block : O[i] = M[Block * (Len(M) \div Block) + i]
  BY <1>6, <1>9, <1>14, <1>15
<1>17. Seen([count |-> Bits(Len(M)), buffer |-> O, hashed |-> ctx.hashed \o D], M)
  BY <1>15, <1>16 DEF Seen
<1> QED
  BY <1>10, <1>17, Zenon DEF M, D

\* Whatever chunks a message comes in, the context has seen the message.
LEMMA UpdateSeen ==
    ASSUME NEW ctx, NEW m \in Seq(Nat), NEW input \in Seq(Nat), RealSizes, Seen(ctx, m)
    PROVE  Seen(MD5Update(ctx, input), m \o input)
<1>1. Len(input) \in Nat /\ Len(m) \in Nat /\ Len(m) % Block \in Nat /\ Block \in Nat
  BY BlockNat
<1>2. CASE Len(input) < Block - (Len(m) % Block)
  BY <1>2, ShortUpdate
<1>3. CASE Len(input) >= Block - (Len(m) % Block)
  BY <1>3, LongUpdate
<1> QED
  BY <1>1, <1>2, <1>3

-----------------------------------------------------------------------------
(* MD5Final.                                                               *)

\* What the bytes of a count are divided by.
Places == {1, 256, 65536, 16777216}

LEMMA BytePower ==
    ASSUME NEW k \in {0, 1, 2, 3}, RealSizes
    PROVE  Byte ^ k \in Places
<1>1. CASE k = 0
  BY <1>1, ByteAndWord, SMT DEF Places
<1>2. CASE k = 1
  BY <1>2, ByteAndWord, SMT DEF Places
<1>3. CASE k = 2
  BY <1>3, ByteAndWord, SMT DEF Places
<1>4. CASE k = 3
  BY <1>4, ByteAndWord, SMT DEF Places
<1> QED
  BY <1>1, <1>2, <1>3, <1>4

\* A byte of a word is that byte of the number the word is the low part of.
LEMMA ByteOfWord ==
    ASSUME NEW y \in Nat, NEW p \in Places
    PROVE  /\ ((y % 4294967296) \div p) % 256 = (y \div p) % 256
           /\ (y \div p) % 256 \in Nat
  BY SMT DEF Places

\* Encode writes the count as RFC 1321 writes the length.
LEMMA EncodeIs ==
    ASSUME NEW n \in Nat, RealSizes
    PROVE  /\ Encode(Bits(n)) = Little(n * ByteBits)
           /\ Encode(Bits(n)) \in Seq(Nat) /\ Len(Encode(Bits(n))) = 8
<1> DEFINE v == 8 * n
           half(i) == (i - 1) \div 4
           low(i) == (i - 1) % 4
           E(i) == (Bits(n)[1 + half(i)] \div Byte ^ low(i)) % Byte
           L(i) == ((v \div Word ^ half(i)) \div Byte ^ low(i)) % Byte
<1>1. 8 \div 2 = 4 /\ n * ByteBits = v /\ v \in Nat /\ LenBytes = 8
  BY SMT DEF RealSizes
<1>2. Encode(Bits(n)) = [i \in 1 .. LenBytes |-> E(i)]
  BY <1>1 DEF Encode
<1>3. Little(v) = [i \in 1 .. LenBytes |-> L(i)]
  BY <1>1 DEF Little
<1> HIDE DEF v
<1>4. ASSUME NEW i \in 1 .. LenBytes
      PROVE  E(i) = L(i) /\ E(i) \in Nat
  <2>1. half(i) \in {0, 1} /\ low(i) \in {0, 1, 2, 3}
    BY <1>1, SMT
  <2> HIDE DEF half, low
  <2>2. Byte ^ low(i) \in Places
    BY <2>1, BytePower, Zenon
  <2>3. Bits(n) = <<v % 4294967296, (v \div 4294967296) % 4294967296>>
    BY ByteAndWord, SMT DEF Bits, v
  <2>4. CASE half(i) = 0
    <3>1. Word ^ half(i) = 1 /\ v \div 1 = v
      <4>1. 4294967296 ^ 0 = 1
        BY SMT
      <4> QED
        BY <1>1, <2>4, <4>1, ByteAndWord, SMT
    <3>2. Bits(n)[1 + half(i)] = v % 4294967296
      BY <2>3, <2>4, SMT
    <3>3. /\ ((v % 4294967296) \div Byte ^ low(i)) % 256 = (v \div Byte ^ low(i)) % 256
          /\ (v \div Byte ^ low(i)) % 256 \in Nat
      BY <1>1, <2>2, ByteOfWord, SMT
    <3> QED
      BY <3>1, <3>2, <3>3, ByteAndWord, SMT
  <2>5. CASE half(i) = 1
    <3> DEFINE y == v \div 4294967296
    <3>1. Word ^ half(i) = 4294967296 /\ y \in Nat
      <4>1. 4294967296 ^ 1 = 4294967296
        BY SMT
      <4> QED
        BY <1>1, <2>5, <4>1, ByteAndWord, SMT
    <3>2. Bits(n)[1 + half(i)] = y % 4294967296
      BY <2>3, <2>5, SMT
    <3> HIDE DEF y
    <3>3. /\ ((y % 4294967296) \div Byte ^ low(i)) % 256 = (y \div Byte ^ low(i)) % 256
          /\ (y \div Byte ^ low(i)) % 256 \in Nat
      <4> DEFINE p == Byte ^ low(i)
      <4>1. p \in Places /\ y \in Nat
        BY <2>2, <3>1
      <4> HIDE DEF p
      <4>2. ((y % 4294967296) \div p) % 256 = (y \div p) % 256 /\ (y \div p) % 256 \in Nat
        BY <4>1, ByteOfWord, SMT
      <4> QED
        BY <4>2, SMT DEF p
    <3> QED
      BY <3>1, <3>2, <3>3, ByteAndWord, SMT DEF y
  <2> QED
    BY <2>1, <2>4, <2>5
<1> HIDE DEF E, L
<1>5. Encode(Bits(n)) \in [1 .. LenBytes -> Nat]
  BY <1>2, <1>4, Zenon
<1>6. LenBytes \in Nat
  BY <1>1
<1>7. Encode(Bits(n)) \in Seq(Nat) /\ Len(Encode(Bits(n))) = LenBytes
  BY <1>5, <1>6, RunIsSeq, Zenon
<1>8. Encode(Bits(n)) = Little(v)
  BY <1>2, <1>3, <1>4, Zenon
<1> QED
  BY <1>1, <1>7, <1>8

\* The fewest zero bytes that leave room for the length at the end of a block
\* are those of the padding.
LEMMA FewestZeros ==
    ASSUME NEW l \in Nat, RealSizes
    PROVE  /\ PadLen(l % 64) \in Nat /\ PadLen(l % 64) >= 1
           /\ Min({z \in 0 .. Block - 1 : (l + 1 + z + LenBytes) % Block = 0})
                 = PadLen(l % 64) - 1
<1> DEFINE fit == {z \in 0 .. Block - 1 : (l + 1 + z + LenBytes) % Block = 0}
           n == PadLen(l % 64)
<1>1. /\ n \in Nat /\ n >= 1 /\ n - 1 <= 63
      /\ (l + 1 + (n - 1) + 8) % 64 = 0
  BY SMT DEF PadLen, RealSizes
<1>2. ASSUME NEW z \in Nat, z <= 63, (l + 1 + z + 8) % 64 = 0
      PROVE  z = n - 1
  BY <1>2, SMT DEF PadLen, RealSizes
<1> HIDE DEF n
<1>3. fit = {n - 1}
  <2>1. n - 1 \in fit
    BY <1>1 DEF RealSizes
  <2>2. ASSUME NEW z \in fit
        PROVE  z = n - 1
    <3>1. z \in Nat /\ z <= 63 /\ (l + 1 + z + 8) % 64 = 0
      BY DEF RealSizes
    <3> QED
      BY <1>2, <3>1
  <2> QED
    BY <2>1, <2>2
<1> HIDE DEF fit
<1>4. Min(fit) = n - 1
  BY <1>1, <1>3 DEF Min
<1> QED
  BY <1>1, <1>4 DEF fit, n

LEMMA JoinedBytesIs ==
    ASSUME NEW a \in Seq(Nat), NEW b \in Seq(Nat)
    PROVE  /\ a \o b \in Seq(Nat) /\ Len(a \o b) = Len(a) + Len(b)
           /\ \A i \in 1 .. Len(a) : (a \o b)[i] = a[i]
           /\ \A i \in 1 .. Len(b) : (a \o b)[Len(a) + i] = b[i]
  OBVIOUS

LEMMA JoinedBytes ==
    ASSUME NEW a \in Seq(Nat), NEW b \in Seq(Nat), NEW c \in Seq(Nat)
    PROVE  (a \o b) \o c = a \o (b \o c)
  BY ConcatAssociative

\* The padding of MD5Final is a bit and those zeros.
LEMMA PaddingIs ==
    ASSUME NEW n \in Nat, n >= 1, RealSizes
    PROVE  /\ PADDING(n) \in Seq(Nat) /\ Len(PADDING(n)) = n
           /\ <<2 ^ (ByteBits - 1)>> \in Seq(Nat) /\ Zeros(n - 1) \in Seq(Nat)
           /\ PADDING(n) = <<2 ^ (ByteBits - 1)>> \o Zeros(n - 1)
<1>1. Byte \div 2 = 128
  BY ByteAndWord, SMT
<1>2. 2 ^ (ByteBits - 1) = 128
  <2>1. 2 ^ (8 - 1) = 128
    BY SMT
  <2> QED
    BY <2>1 DEF RealSizes
<1>3. PADDING(n) = [i \in 1 .. n |-> IF i = 1 THEN 128 ELSE 0]
  BY <1>1 DEF PADDING
<1>4. PADDING(n) \in Seq(Nat) /\ Len(PADDING(n)) = n
  BY <1>3
<1>5. /\ Zeros(n - 1) \in Seq(Nat) /\ Len(Zeros(n - 1)) = n - 1
      /\ \A i \in 1 .. n - 1 : Zeros(n - 1)[i] = 0
  BY DEF Zeros
<1> DEFINE z == Zeros(n - 1)
<1> HIDE DEF z
<1>6. PADDING(n) = <<128>> \o z
  <2>1. /\ z \in Seq(Nat) /\ Len(z) = n - 1 /\ \A i \in 1 .. n - 1 : z[i] = 0
    BY <1>5 DEF z
  <2>2. <<128>> \o z \in Seq(Nat) /\ Len(<<128>> \o z) = n
    BY <2>1
  <2>3. \A i \in 1 .. n : (<<128>> \o z)[i] = IF i = 1 THEN 128 ELSE 0
    BY <2>1
  <2>4. ASSUME NEW i \in 1 .. n
        PROVE  PADDING(n)[i] = (<<128>> \o z)[i]
    <3>1. PADDING(n)[i] = IF i = 1 THEN 128 ELSE 0
      BY <1>3
    <3>2. (<<128>> \o z)[i] = IF i = 1 THEN 128 ELSE 0
      BY <2>3
    <3> QED
      BY <3>1, <3>2
  <2> QED
    BY <1>4, <2>2, <2>4
<1> QED
  BY <1>2, <1>4, <1>5, <1>6 DEF z

\* MD5Final hashes the blocks of the padded message.
LEMMA FinalHashes ==
    ASSUME NEW ctx, NEW m \in Seq(Nat), RealSizes, Seen(ctx, m)
    PROVE  MD5Final(ctx) = Cut(Padded(m))
<1> DEFINE l == Len(m)
           n == PadLen(l % 64)
           bit == <<2 ^ (ByteBits - 1)>>
           pad == PADDING(n)
           size == Encode(Bits(l))
<1>1. l \in Nat /\ n \in Nat /\ n >= 1
  <2>1. l \in Nat
    OBVIOUS
  <2> QED
    BY <2>1, FewestZeros, Zenon
<1>2. ctx.count = Bits(l) /\ Index(ctx.count) = l % 64
  BY <1>1, BitsIndex DEF Seen
<1>3. /\ pad \in Seq(Nat) /\ bit \in Seq(Nat) /\ Zeros(n - 1) \in Seq(Nat)
      /\ pad = bit \o Zeros(n - 1)
  BY <1>1, PaddingIs, Zenon
<1>4. size \in Seq(Nat) /\ size = Little(l * ByteBits)
  BY <1>1, EncodeIs, Zenon
<1>5. Min({z \in 0 .. Block - 1 : (l + 1 + z + LenBytes) % Block = 0}) = n - 1
  BY <1>1, FewestZeros, Zenon
<1>6. Padded(m) = m \o bit \o Zeros(n - 1) \o size
  BY <1>4, <1>5, Zenon DEF Padded
<1> HIDE DEF l, n, bit, pad, size
<1>7. Padded(m) = (m \o pad) \o size
  BY <1>3, <1>6, JoinedBytes
<1>8. m \o pad \in Seq(Nat)
  BY <1>3
<1>9. Seen(MD5Update(ctx, pad), m \o pad)
  BY <1>3, UpdateSeen
<1>10. Seen(MD5Update(MD5Update(ctx, pad), size), (m \o pad) \o size)
  BY <1>4, <1>8, <1>9, UpdateSeen
<1>11. MD5Final(ctx) = MD5Update(MD5Update(ctx, pad), size).hashed
  BY <1>2, Zenon DEF MD5Final, pad, size, n
<1> QED
  BY <1>7, <1>10, <1>11 DEF Seen

-----------------------------------------------------------------------------
(* The module's specification.                                             *)

Streaming == message \in Seq(Nat) /\ Seen(Context, message) /\ DigestOfWhole

\* A context that MD5Init was called for has seen nothing.
LEMMA FreshSeen ==
    ASSUME RealSizes
    PROVE  Seen([count |-> <<0, 0>>, buffer |-> Zeros(Block), hashed |-> <<>>], <<>>)
<1>1. Bits(0) = <<0, 0>>
  BY ByteAndWord, SMT DEF Bits
<1>2. Cut(<<>>) = <<>>
  BY DEF Cut, RealSizes
<1>3. Zeros(Block) \in [1 .. Block -> Nat]
  BY DEF Zeros
<1>4. 0 % Block = 0
  BY DEF RealSizes
<1> QED
  BY <1>1, <1>2, <1>3, <1>4 DEF Seen

LEMMA InputBytes ==
    ASSUME NEW n \in Nat, message \in Seq(Nat), RealSizes
    PROVE  Input(n) \in Seq(Nat)
<1>1. Byte \in Nat /\ Len(message) \in Nat
  BY ByteAndWord
<1> QED
  BY <1>1 DEF Input

\* MD5Final leaves the context as MD5Init does, and the digest is that of the
\* message it has seen.
LEMMA FinishStreaming ==
    ASSUME NEW ctx, NEW m \in Seq(Nat), RealSizes, Seen(ctx, m), Finish(ctx, m)
    PROVE  Streaming'
<1>1. MD5Final(ctx) = Cut(Padded(m))
  BY FinalHashes
<1>2. DigestOfWhole'
  BY <1>1 DEF Finish, DigestOfWhole
<1>3. Context' = [count |-> <<0, 0>>, buffer |-> Zeros(Block), hashed |-> <<>>]
  BY DEF Finish, Context
<1>4. message' = <<>>
  BY DEF Finish
<1>5. Seen(Context', message')
  BY <1>3, <1>4, FreshSeen
<1> QED
  BY <1>2, <1>4, <1>5 DEF Streaming, Seen

LEMMA StreamingInv ==
    ASSUME RealSizes
    PROVE  Spec => []Streaming
<1>1. Init => Streaming
  <2> SUFFICES ASSUME Init PROVE Streaming
    OBVIOUS
  <2>1. Context = [count |-> <<0, 0>>, buffer |-> Zeros(Block), hashed |-> <<>>]
        /\ message = <<>>
    BY DEF Init, Context
  <2>2. DigestOfWhole
    BY DEF Init, DigestOfWhole, NoDigest
  <2> QED
    BY <2>1, <2>2, FreshSeen DEF Streaming
<1>2. Streaming /\ [Next]_vars => Streaming'
  <2> SUFFICES ASSUME Streaming, [Next]_vars PROVE Streaming'
    OBVIOUS
  <2>1. /\ message \in Seq(Nat) /\ Seen(Context, message)
        /\ MaxChunk \in Nat /\ MaxMessage \in Nat
    BY Md5Assumption DEF Streaming
  <2>2. CASE Final
    BY <2>1, <2>2, FinishStreaming DEF Final
  <2>3. CASE GetFileMd5Fails
    <3>1. Context' = Context /\ message' = message /\ DigestOfWhole'
      BY <2>3 DEF GetFileMd5Fails, Context, DigestOfWhole, NoDigest
    <3> QED
      BY <2>1, <3>1 DEF Streaming
  <2>4. ASSUME NEW n \in 0 .. MaxChunk, Update(n)
        PROVE  Streaming'
    <3>1. Input(n) \in Seq(Nat)
      BY <2>1, InputBytes
    <3> DEFINE ctx == MD5Update(Context, Input(n))
    <3>2. Seen(ctx, message \o Input(n))
      BY <2>1, <3>1, UpdateSeen
    <3> HIDE DEF ctx
    <3>3. /\ Context' = [count |-> ctx.count, buffer |-> ctx.buffer, hashed |-> ctx.hashed]
          /\ message' = message \o Input(n) /\ DigestOfWhole'
      BY <2>4 DEF Update, Context, DigestOfWhole, NoDigest, ctx
    <3>4. Seen(Context', message')
      BY <3>2, <3>3 DEF Seen
    <3>5. message' \in Seq(Nat)
      BY <2>1, <3>1, <3>3
    <3> QED
      BY <3>3, <3>4, <3>5 DEF Streaming
  <2>5. ASSUME NEW n \in 0 .. MaxMessage, GetFileMd5(n)
        PROVE  Streaming'
    <3>1. Input(n) \in Seq(Nat)
      BY <2>1, InputBytes
    <3>2. Seen(MD5Update(Context, Input(n)), message \o Input(n))
      BY <2>1, <3>1, UpdateSeen
    <3>3. message \o Input(n) \in Seq(Nat)
      BY <2>1, <3>1
    <3> QED
      BY <2>5, <3>2, <3>3, FinishStreaming DEF GetFileMd5
  <2>6. CASE UNCHANGED vars
    <3>1. Context' = Context /\ message' = message /\ (DigestOfWhole' <=> DigestOfWhole)
      BY <2>6 DEF vars, Context, DigestOfWhole
    <3> QED
      BY <2>1, <3>1 DEF Streaming
  <2> QED
    BY <2>2, <2>3, <2>4, <2>5, <2>6 DEF Next
<1> QED
  BY <1>1, <1>2, PTL DEF Spec

\* With the sizes of Md5.h, the words of the count stay words and every block
\* and the buffer have 64 bytes.
THEOREM Md5TypeOKHolds ==
    ASSUME RealSizes
    PROVE  Spec => []Md5TypeOK
<1>1. Streaming => Md5TypeOK
  <2> SUFFICES ASSUME Streaming PROVE Md5TypeOK
    OBVIOUS
  <2>1. /\ message \in Seq(Nat) /\ Len(message) \in Nat /\ count = Bits(Len(message))
        /\ hashed = Cut(message) /\ buffer \in [1 .. Block -> Nat]
    BY DEF Streaming, Seen, Context
  <2>2. \A v \in Nat : v % Word \in 0 .. Word - 1
    <3>1. Word \in Nat /\ Word > 0
      BY ByteAndWord, SMT
    <3> QED
      BY <3>1, QuotientAndRemainder
  <2>3. count \in (0 .. Word - 1) \X (0 .. Word - 1)
    <3>1. 8 * Len(message) \in Nat /\ (8 * Len(message)) \div Word \in Nat
      BY <2>1, ByteAndWord, SMT
    <3> QED
      BY <2>1, <2>2, <3>1 DEF Bits
  <2>4. Len(buffer) = Block
    BY <2>1, BlockNat, RunIsSeq
  <2>5. \A b \in {hashed[i] : i \in DOMAIN hashed} : Len(b) = Block
    BY <2>1, CutIs
  <2> QED
    BY <2>3, <2>4, <2>5 DEF Md5TypeOK
<1> QED
  BY <1>1, StreamingInv, PTL

\* With the sizes of Md5.h, a message of any length in chunks of any length is
\* hashed in exactly the blocks of the message as RFC 1321 pads it: the carry
\* into the high word of the count (Md5.cpp) is in the length.
THEOREM DigestOfWholeHolds ==
    ASSUME RealSizes
    PROVE  Spec => []DigestOfWhole
<1>1. Streaming => DigestOfWhole
  BY DEF Streaming
<1> QED
  BY <1>1, StreamingInv, PTL

-----------------------------------------------------------------------------
(* GetFileMd5.                                                             *)

\* A byte has one digit or two.
LEMMA DigitsIs ==
    ASSUME NEW b \in Nat, b <= 255
    PROVE  Digits(b, 16) = IF b < 16 THEN <<b>> ELSE <<b \div 16, b % 16>>
<1> DEFINE Step(f) == [v \in 0 .. b |-> IF v < 16 THEN <<v>> ELSE Append(f[v \div 16], v % 16)]
           short == [v \in 0 .. b |-> IF v < 16 THEN <<v>> ELSE <<v \div 16, v % 16>>]
           up == CHOOSE f : f = Step(f)
<1>1. \A v \in 0 .. b : v >= 16 => v \div 16 \in 0 .. b /\ v \div 16 < 16
  BY SMT
<1>2. \E f : f = Step(f)
  <2>1. ASSUME NEW v \in 0 .. b
        PROVE  short[v] = Step(short)[v]
    <3>1. CASE v < 16
      BY <3>1
    <3>2. CASE ~ (v < 16)
      <4>1. v \div 16 \in 0 .. b /\ v \div 16 < 16
        BY <1>1, <3>2
      <4>2. short[v \div 16] = <<v \div 16>>
        BY <4>1
      <4> QED
        BY <3>2, <4>2
    <3> QED
      BY <3>1, <3>2
  <2>2. short = Step(short)
    BY <2>1
  <2> QED
    BY <2>2, Zenon
<1>3. up = Step(up)
  BY <1>2, Zenon
<1>4. Digits(b, 16) = up[b]
  BY Zenon DEF Digits
<1> HIDE DEF up
<1>5. \A v \in 0 .. b : up[v] = IF v < 16 THEN <<v>> ELSE Append(up[v \div 16], v % 16)
  BY <1>3, Zenon
<1>6. CASE b < 16
  <2>1. b \in 0 .. b
    OBVIOUS
  <2>2. up[b] = <<b>>
    BY <1>5, <1>6, <2>1
  <2> QED
    BY <1>4, <1>6, <2>2
<1>7. CASE ~ (b < 16)
  <2>1. b \div 16 \in 0 .. b /\ b \div 16 < 16 /\ b \in 0 .. b
    BY <1>1, <1>7
  <2>2. up[b \div 16] = <<b \div 16>>
    BY <1>5, <2>1
  <2>3. up[b] = Append(<<b \div 16>>, b % 16)
    BY <1>5, <1>7, <2>1, <2>2
  <2> QED
    BY <1>4, <1>7, <2>3
<1> QED
  BY <1>6, <1>7

LEMMA PairIs ==
    ASSUME NEW u \in Seq(Nat), Len(u) = 2
    PROVE  u = <<u[1], u[2]>>
  OBVIOUS

LEMMA TwoDigits ==
    ASSUME NEW a \in Nat, NEW b \in Nat
    PROVE  <<a>> \o <<b>> = <<a, b>>
<1> DEFINE s == <<a>>
           t == <<b>>
<1>1. s \in Seq(Nat) /\ Len(s) = 1 /\ s[1] = a /\ t \in Seq(Nat) /\ Len(t) = 1 /\ t[1] = b
  OBVIOUS
<1> HIDE DEF s, t
<1>2. /\ s \o t \in Seq(Nat) /\ Len(s \o t) = 2
      /\ (s \o t)[1] = a /\ (s \o t)[2] = b
  <2>1. /\ s \o t \in Seq(Nat) /\ Len(s \o t) = Len(s) + Len(t)
        /\ \A i \in 1 .. Len(s) : (s \o t)[i] = s[i]
        /\ \A i \in 1 .. Len(t) : (s \o t)[Len(s) + i] = t[i]
    BY <1>1, JoinedBytesIs
  <2>2. (s \o t)[1] = s[1]
    BY <1>1, <2>1
  <2>3. (s \o t)[1 + 1] = t[1]
    BY <1>1, <2>1
  <2> QED
    BY <1>1, <2>1, <2>2, <2>3
<1>3. s \o t = <<a, b>>
  BY <1>2, PairIs, Zenon
<1> QED
  BY <1>3 DEF s, t

\* HexByte makes them two, which give the byte back.
LEMMA HexByteIs ==
    ASSUME NEW b \in 0 .. 255
    PROVE  /\ HexByte(b) \in Seq(Nat) /\ Len(HexByte(b)) = 2
           /\ b = (16 * HexByte(b)[1]) + HexByte(b)[2]
<1>1. CASE b < 16
  <2>1. Digits(b, 16) = <<b>>
    BY <1>1, DigitsIs
  <2>2. Len(<<b>>) = 1 /\ <<0>> \o <<b>> = <<0, b>>
    <3>1. 0 \in Nat /\ b \in Nat
      OBVIOUS
    <3>2. <<0>> \o <<b>> = <<0, b>>
      BY <3>1, TwoDigits, Zenon
    <3>3. Len(<<b>>) = 1
      OBVIOUS
    <3> QED
      BY <3>2, <3>3
  <2>3. HexByte(b) = <<0, b>>
    BY <2>1, <2>2, Zenon DEF HexByte
  <2> QED
    BY <2>3
<1>2. CASE ~ (b < 16)
  <2>1. Digits(b, 16) = <<b \div 16, b % 16>>
    BY <1>2, DigitsIs
  <2>2. Len(<<b \div 16, b % 16>>) # 1
    OBVIOUS
  <2>3. HexByte(b) = <<b \div 16, b % 16>>
    BY <2>1, <2>2 DEF HexByte
  <2> QED
    BY <2>3
<1> QED
  BY <1>1, <1>2

LEMMA LeastOne ==
    ASSUME NEW T, T \subseteq Nat, T # {}
    PROVE  \E x \in T : \A y \in T : x <= y
<1>1. PICK x \in T : \A y \in T : ~(<<y, x>> \in OpToRel(<, Nat))
  BY WFMin, NatLessThanWellFounded
<1>2. \A y \in T : ~(y < x)
  BY <1>1 DEF OpToRel
<1>3. \A y \in T : x <= y
  BY <1>2
<1> QED
  BY <1>3

\* The text of so many bytes of a digest: two digits for each, which give it
\* back.
Reads(chars, bytes, n) ==
    /\ chars \in Seq(Nat) /\ Len(chars) = 2 * n
    /\ \A k \in 1 .. n : bytes[k] = (16 * chars[2 * k - 1]) + chars[2 * k]

LEMMA ReadsMore ==
    ASSUME NEW bytes \in Seq(0 .. 255), NEW n \in 1 .. Len(bytes), NEW chars,
           Reads(chars, bytes, n - 1)
    PROVE  Reads(chars \o HexByte(bytes[n]), bytes, n)
<1> DEFINE h == HexByte(bytes[n])
           all == chars \o h
<1>1. bytes[n] \in 0 .. 255
  BY ElementOfSeq, Zenon
<1>2. h \in Seq(Nat) /\ Len(h) = 2 /\ bytes[n] = (16 * h[1]) + h[2]
  BY <1>1, HexByteIs
<1> HIDE DEF h
<1>3. chars \in Seq(Nat) /\ Len(chars) = 2 * (n - 1)
  BY DEF Reads
<1>4. /\ all \in Seq(Nat) /\ Len(all) = Len(chars) + Len(h)
      /\ \A i \in 1 .. Len(chars) : all[i] = chars[i]
      /\ \A i \in 1 .. Len(h) : all[Len(chars) + i] = h[i]
  BY <1>2, <1>3, JoinedBytesIs
<1> HIDE DEF all
<1>5. ASSUME NEW k \in 1 .. n
      PROVE  bytes[k] = (16 * all[2 * k - 1]) + all[2 * k]
  <2>1. CASE k = n
    <3>1. 2 * k - 1 = Len(chars) + 1 /\ 2 * k = Len(chars) + 2
      BY <1>3, <2>1
    <3>2. all[2 * k - 1] = h[1] /\ all[2 * k] = h[2]
      <4>1. 1 \in 1 .. Len(h) /\ 2 \in 1 .. Len(h)
        BY <1>2
      <4>2. all[Len(chars) + 1] = h[1] /\ all[Len(chars) + 2] = h[2]
        BY <1>4, <4>1, Zenon
      <4> QED
        BY <3>1, <4>2
    <3> QED
      BY <1>2, <2>1, <3>2
  <2>2. CASE k # n
    <3>1. k \in 1 .. n - 1 /\ 2 * k - 1 \in 1 .. Len(chars) /\ 2 * k \in 1 .. Len(chars)
      BY <1>3, <2>2
    <3>2. all[2 * k - 1] = chars[2 * k - 1] /\ all[2 * k] = chars[2 * k]
      BY <1>4, <3>1
    <3>3. bytes[k] = (16 * chars[2 * k - 1]) + chars[2 * k]
      BY <3>1 DEF Reads
    <3> QED
      BY <3>2, <3>3
  <2> QED
    BY <2>1, <2>2
<1>6. Len(all) = 2 * n
  BY <1>2, <1>3, <1>4
<1> QED
  BY <1>4, <1>5, <1>6 DEF Reads, all, h

\* The recursion of Hex has a solution, the text whose digits are those of its
\* bytes in turn; any solution reads as the bytes, since none is the first not
\* to.
LEMMA HexReads ==
    ASSUME NEW bytes \in Seq(0 .. 255)
    PROVE  Reads(Hex(bytes), bytes, Len(bytes))
<1> DEFINE n == Len(bytes)
           H(k) == HexByte(bytes[k])
           Step(f) == [i \in 0 .. n |-> IF i = 0 THEN <<>> ELSE f[i - 1] \o H(i)]
           digit(j) == H((j + 1) \div 2)[1 + ((j - 1) % 2)]
           sol == [i \in 0 .. n |-> [j \in 1 .. 2 * i |-> digit(j)]]
           upTo == CHOOSE f : f = Step(f)
<1>1. n \in Nat
  OBVIOUS
<1>2. ASSUME NEW i \in 1 .. n
      PROVE  H(i) \in Seq(Nat) /\ Len(H(i)) = 2
  <2>1. bytes[i] \in 0 .. 255
    BY ElementOfSeq, Zenon
  <2> QED
    BY <2>1, HexByteIs, Zenon
<1> HIDE DEF n, H
<1>3. \A i \in 1 .. n : digit(2 * i - 1) = H(i)[1] /\ digit(2 * i) = H(i)[2]
  <2>1. ASSUME NEW i \in 1 .. n
        PROVE  /\ ((2 * i - 1) + 1) \div 2 = i /\ ((2 * i - 1) - 1) % 2 = 0
               /\ (2 * i + 1) \div 2 = i /\ (2 * i - 1) % 2 = 1
    BY SMT
  <2> QED
    BY <2>1
<1>4. ASSUME NEW j \in 1 .. 2 * n
      PROVE  digit(j) \in Nat
  <2>1. (j + 1) \div 2 \in 1 .. n /\ 1 + ((j - 1) % 2) \in 1 .. 2
    BY <1>1, SMT
  <2> QED
    BY <1>2, <2>1
<1> HIDE DEF digit
<1>5. ASSUME NEW i \in 0 .. n
      PROVE  sol[i] \in Seq(Nat) /\ Len(sol[i]) = 2 * i
  <2>1. [j \in 1 .. 2 * i |-> digit(j)] \in [1 .. 2 * i -> Nat] /\ 2 * i \in Nat
    BY <1>1, <1>4
  <2>2. sol[i] = [j \in 1 .. 2 * i |-> digit(j)]
    OBVIOUS
  <2> QED
    BY <2>1, <2>2, RunIsSeq, Zenon
<1>6. \E f : f = Step(f)
  <2>1. ASSUME NEW i \in 1 .. n
        PROVE  sol[i] = sol[i - 1] \o H(i)
    <3> DEFINE s == sol[i]
               t == sol[i - 1] \o H(i)
    <3>1. i - 1 \in 0 .. n /\ i \in 0 .. n
      BY <1>1
    <3>2. /\ s \in Seq(Nat) /\ Len(s) = 2 * i
          /\ sol[i - 1] \in Seq(Nat) /\ Len(sol[i - 1]) = 2 * (i - 1)
      BY <1>5, <3>1
    <3>3. /\ \A j \in 1 .. 2 * i : s[j] = digit(j)
          /\ \A j \in 1 .. 2 * (i - 1) : sol[i - 1][j] = digit(j)
      BY <3>1
    <3> HIDE DEF sol
    <3>4. /\ t \in Seq(Nat) /\ Len(t) = 2 * (i - 1) + 2
          /\ \A j \in 1 .. 2 * (i - 1) : t[j] = digit(j)
          /\ t[2 * (i - 1) + 1] = H(i)[1] /\ t[2 * (i - 1) + 2] = H(i)[2]
      <4>1. /\ t \in Seq(Nat) /\ Len(t) = Len(sol[i - 1]) + Len(H(i))
            /\ \A j \in 1 .. Len(sol[i - 1]) : t[j] = sol[i - 1][j]
            /\ \A j \in 1 .. Len(H(i)) : t[Len(sol[i - 1]) + j] = H(i)[j]
        BY <1>2, <3>2, JoinedBytesIs
      <4> HIDE DEF t
      <4>2. Len(H(i)) = 2 /\ 1 \in 1 .. Len(H(i)) /\ 2 \in 1 .. Len(H(i))
        <5>1. Len(H(i)) = 2
          BY <1>2, Zenon
        <5> QED
          BY <5>1
      <4>3. t[2 * (i - 1) + 1] = H(i)[1] /\ t[2 * (i - 1) + 2] = H(i)[2]
        BY <3>2, <4>1, <4>2
      <4>4. Len(t) = 2 * (i - 1) + 2
        BY <1>2, <3>2, <4>1
      <4> QED
        BY <3>2, <3>3, <4>1, <4>3, <4>4
    <3> HIDE DEF s, t
    <3>5. ASSUME NEW j \in 1 .. 2 * i
          PROVE  s[j] = t[j]
      <4>1. j \in 1 .. 2 * (i - 1) \/ j = 2 * (i - 1) + 1 \/ j = 2 * (i - 1) + 2
        OBVIOUS
      <4>2. 2 * (i - 1) + 1 = 2 * i - 1 /\ 2 * (i - 1) + 2 = 2 * i
        OBVIOUS
      <4>3. s[j] = digit(j)
        BY <3>3
      <4>4. digit(2 * i - 1) = H(i)[1] /\ digit(2 * i) = H(i)[2]
        BY <1>3
      <4>5. t[j] = digit(j)
        BY <3>4, <4>1, <4>2, <4>4
      <4> QED
        BY <4>3, <4>5
    <3>6. Len(t) = 2 * i
      BY <3>4
    <3>7. s = t
      BY <3>2, <3>4, <3>5, <3>6
    <3> QED
      BY <3>7 DEF s, t
  <2>2. sol[0] = <<>>
    BY <1>1, <1>5
  <2>3. sol = Step(sol)
    <3>1. ASSUME NEW i \in 0 .. n
          PROVE  sol[i] = IF i = 0 THEN <<>> ELSE sol[i - 1] \o H(i)
      <4> HIDE DEF sol
      <4>1. i = 0 \/ i \in 1 .. n
        BY <1>1
      <4> QED
        BY <2>1, <2>2, <4>1
    <3> QED
      BY <3>1, Zenon
  <2> HIDE DEF sol
  <2> QED
    BY <2>3, Zenon
<1>7. upTo = Step(upTo)
  BY <1>6, Zenon
<1>8. Hex(bytes) = upTo[n]
  BY Zenon DEF Hex, H, n
<1> HIDE DEF upTo
<1>9. \A i \in 0 .. n : upTo[i] = IF i = 0 THEN <<>> ELSE upTo[i - 1] \o H(i)
  BY <1>7, Zenon
<1> DEFINE wrong == {i \in 0 .. n : ~Reads(upTo[i], bytes, i)}
<1>10. wrong = {}
  <2> SUFFICES ASSUME wrong # {} PROVE FALSE
    OBVIOUS
  <2>1. wrong \subseteq Nat
    BY <1>1
  <2>2. PICK x \in wrong : \A y \in wrong : x <= y
    BY <2>1, LeastOne
  <2>3. x # 0
    <3>1. upTo[0] = <<>>
      BY <1>1, <1>9
    <3>2. Reads(<<>>, bytes, 0)
      BY DEF Reads
    <3> QED
      BY <3>1, <3>2
  <2>4. x \in 1 .. n /\ x - 1 \in 0 .. n /\ x - 1 \notin wrong
    BY <1>1, <2>2, <2>3
  <2>5. Reads(upTo[x - 1], bytes, x - 1)
    BY <2>4
  <2>6. Reads(upTo[x - 1] \o H(x), bytes, x)
    BY <2>4, <2>5, ReadsMore DEF H, n
  <2>7. upTo[x] = upTo[x - 1] \o H(x)
    BY <1>9, <2>3
  <2> QED
    BY <2>6, <2>7
<1>11. Reads(upTo[n], bytes, n)
  BY <1>1, <1>10
<1> QED
  BY <1>8, <1>11 DEF n

\* GetFileMd5's text has two digits for each byte of the digest and gives the
\* digest back, whatever the digest and the file; two digests have two texts.
THEOREM TextTellsDigestsHolds == Spec => []TextTellsDigests
<1>1. Init => TextTellsDigests
  BY DEF Init, NoText, TextTellsDigests
<1>2. TextTellsDigests /\ [Next]_vars => TextTellsDigests'
  <2> SUFFICES ASSUME TextTellsDigests, [Next]_vars PROVE TextTellsDigests'
    OBVIOUS
  <2>1. CASE text' = NoText
    BY <2>1 DEF NoText, TextTellsDigests
  <2>2. ASSUME NEW n \in 0 .. MaxMessage, GetFileMd5(n)
        PROVE  TextTellsDigests'
    <3>1. PICK d \in Digests : text' = [chars |-> Hex(d), of |-> d]
      BY <2>2 DEF GetFileMd5
    <3>2. d \in Seq(0 .. 255)
      BY Md5Assumption
    <3>3. Reads(Hex(d), d, Len(d))
      BY <3>2, HexReads
    <3>4. text'.chars = Hex(d) /\ text'.of = d /\ DOMAIN d = 1 .. Len(d)
      BY <3>1, <3>2
    <3> QED
      BY <3>3, <3>4 DEF Reads, TextTellsDigests
  <2>3. CASE UNCHANGED vars
    BY <2>3 DEF vars, TextTellsDigests
  <2> QED
    BY <2>1, <2>2, <2>3 DEF Next, Final, GetFileMd5Fails, Update
<1> QED
  BY <1>1, <1>2, PTL DEF Spec
=============================================================================
