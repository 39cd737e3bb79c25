---------------------------- MODULE Md5Transform ----------------------------
(***************************************************************************)
(* MD5Transform (Md5.cpp), the compression function that Md5Stream leaves  *)
(* abstract, one FF, GG, HH or II a step.  An unsigned long int of 32 bits *)
(* is the pair of its upper and lower half: TLC counts to 2^31 - 1 only.   *)
(***************************************************************************)
EXTENDS Integers, Sequences, Bitwise

CONSTANT Suite    \* messages of known digest

VARIABLES
    given,   \* which message of Suite is being hashed
    rest,    \* its padded blocks that are still to come
    state,   \* MD5_CTX::state
    reg,     \* a, b, c and d
    step     \* steps done on the block, or 64 between two blocks

vars == <<given, rest, state, reg, step>>

-----------------------------------------------------------------------------
(* Words.                                                                  *)

Half == 65536
Flip(u) == <<Half - 1 - u[1], Half - 1 - u[2]>>
And2(u, v) == <<u[1] & v[1], u[2] & v[2]>>
Or2(u, v)  == <<u[1] | v[1], u[2] | v[2]>>
Xor2(u, v) == <<u[1] ^^ v[1], u[2] ^^ v[2]>>
Add2(u, v) == LET low == u[2] + v[2]
              IN  <<(u[1] + v[1] + (low \div Half)) % Half, low % Half>>

F(x, y, z) == Or2(And2(x, y), And2(Flip(x), z))

\* Mutant of G: it chooses by x, as F does.
G_ByX(x, y, z) == Or2(And2(x, y), And2(Flip(x), z))

G(x, y, z) == Or2(And2(x, z), And2(y, Flip(z)))
H(x, y, z) == Xor2(Xor2(x, y), z)
I(x, y, z) == Xor2(y, Or2(x, Flip(z)))

\* By n \in 1 .. 31 bits; 16 of them change the halves over.
ROTATE_LEFT(x, n) ==
    LET u == IF n >= 16 THEN <<x[2], x[1]>> ELSE x
        s == 2 ^ (n % 16)
    IN  <<((u[1] * s) % Half) + ((u[2] * s) \div Half),
          ((u[2] * s) % Half) + ((u[1] * s) \div Half)>>

-----------------------------------------------------------------------------
(* The 64 lines of MD5Transform.                                           *)

X == <<
    << 0,  1,  2,  3,  4,  5,  6,  7,  8,  9, 10, 11, 12, 13, 14, 15>>,
    << 1,  6, 11,  0,  5, 10, 15,  4,  9, 14,  3,  8, 13,  2,  7, 12>>,
    << 5,  8, 11, 14,  1,  4,  7, 10, 13,  0,  3,  6,  9, 12, 15,  2>>,
    << 0,  7, 14,  5, 12,  3, 10,  1,  8, 15,  6, 13,  4, 11,  2,  9>> >>

Shift == << <<7, 12, 17, 22>>, <<5, 9, 14, 20>>, <<4, 11, 16, 23>>, <<6, 10, 15, 21>> >>

ac == <<
    <<\hd76a, \ha478>>, <<\he8c7, \hb756>>, <<\h2420, \h70db>>, <<\hc1bd, \hceee>>,
    <<\hf57c, \h0faf>>, <<\h4787, \hc62a>>, <<\ha830, \h4613>>, <<\hfd46, \h9501>>,
    <<\h6980, \h98d8>>, <<\h8b44, \hf7af>>, <<\hffff, \h5bb1>>, <<\h895c, \hd7be>>,
    <<\h6b90, \h1122>>, <<\hfd98, \h7193>>, <<\ha679, \h438e>>, <<\h49b4, \h0821>>,
    <<\hf61e, \h2562>>, <<\hc040, \hb340>>, <<\h265e, \h5a51>>, <<\he9b6, \hc7aa>>,
    <<\hd62f, \h105d>>, <<\h0244, \h1453>>, <<\hd8a1, \he681>>, <<\he7d3, \hfbc8>>,
    <<\h21e1, \hcde6>>, <<\hc337, \h07d6>>, <<\hf4d5, \h0d87>>, <<\h455a, \h14ed>>,
    <<\ha9e3, \he905>>, <<\hfcef, \ha3f8>>, <<\h676f, \h02d9>>, <<\h8d2a, \h4c8a>>,
    <<\hfffa, \h3942>>, <<\h8771, \hf681>>, <<\h6d9d, \h6122>>, <<\hfde5, \h380c>>,
    <<\ha4be, \hea44>>, <<\h4bde, \hcfa9>>, <<\hf6bb, \h4b60>>, <<\hbebf, \hbc70>>,
    <<\h289b, \h7ec6>>, <<\heaa1, \h27fa>>, <<\hd4ef, \h3085>>, <<\h0488, \h1d05>>,
    <<\hd9d4, \hd039>>, <<\he6db, \h99e5>>, <<\h1fa2, \h7cf8>>, <<\hc4ac, \h5665>>,
    <<\hf429, \h2244>>, <<\h432a, \hff97>>, <<\hab94, \h23a7>>, <<\hfc93, \ha039>>,
    <<\h655b, \h59c3>>, <<\h8f0c, \hcc92>>, <<\hffef, \hf47d>>, <<\h8584, \h5dd1>>,
    <<\h6fa8, \h7e4f>>, <<\hfe2c, \he6e0>>, <<\ha301, \h4314>>, <<\h4e08, \h11a1>>,
    <<\hf753, \h7e82>>, <<\hbd3a, \hf235>>, <<\h2ad7, \hd2bb>>, <<\heb86, \hd391>> >>

Mixed(round, x, y, z) == CASE round = 1 -> F(x, y, z) [] round = 2 -> G(x, y, z)
                           [] round = 3 -> H(x, y, z) [] round = 4 -> I(x, y, z)

\* The line k with the word x of the block and the registers in its order.
Line(k, x, a, b, c, d) ==
    LET round == 1 + (k \div 16)
        sum   == Add2(Add2(Add2(a, Mixed(round, b, c, d)), x), ac[k + 1])
    IN  Add2(ROTATE_LEFT(sum, Shift[round][1 + (k % 4)]), b)

\* The first argument of line k: a, d, c, b and so on.
Target(k) == 1 + ((4 - (k % 4)) % 4)
Arg(k, j) == reg[1 + ((Target(k) - 1 + j) % 4)]

\* The k'th word of a block, low byte first.
Decode(block, k) == <<block[4 * k + 4] * 256 + block[4 * k + 3],
                      block[4 * k + 2] * 256 + block[4 * k + 1]>>

Bytes(w) == <<w[2] % 256, w[2] \div 256, w[1] % 256, w[1] \div 256>>
Digest   == Bytes(state[1]) \o Bytes(state[2]) \o Bytes(state[3]) \o Bytes(state[4])

-----------------------------------------------------------------------------
\* The padded blocks of a message of less than 8 kB.
Blocks(m) ==
    LET z == (119 - (Len(m) % 64)) % 64
        p == m \o <<128>> \o [j \in 1 .. z |-> 0]
               \o <<(8 * Len(m)) % 256, (8 * Len(m)) \div 256, 0, 0, 0, 0, 0, 0>>
    IN  [k \in 1 .. Len(p) \div 64 |-> SubSeq(p, 64 * k - 63, 64 * k)]

Init ==
    /\ given \in Suite
    /\ rest = Blocks(given.message)
    /\ state = << <<\h6745, \h2301>>, <<\hefcd, \hab89>>, <<\h98ba, \hdcfe>>, <<\h1032, \h5476>> >>
    /\ reg = state /\ step = 0

Step ==
    /\ step < 64 /\ rest # <<>>
    /\ \E w \in {Line(step, Decode(Head(rest), X[1 + (step \div 16)][1 + (step % 16)]),
                      Arg(step, 0), Arg(step, 1), Arg(step, 2), Arg(step, 3))} :
          reg' = [reg EXCEPT ![Target(step)] = w]
    /\ step' = step + 1
    /\ UNCHANGED <<given, rest, state>>

EndBlock ==
    /\ step = 64
    /\ \E s \in {[j \in 1 .. 4 |-> Add2(state[j], reg[j])]} : state' = s /\ reg' = s
    /\ rest' = Tail(rest) /\ step' = 0
    /\ UNCHANGED given

Next == Step \/ EndBlock
Spec == Init /\ [][Next]_vars

-----------------------------------------------------------------------------
\* The 64 lines, their constants, word indexes, shifts and argument orders,
\* make of every message the digest that RFC 1321 gives for it.
DigestOfRfc == rest = <<>> => Digest = given.digest
=============================================================================
