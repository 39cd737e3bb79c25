---------------------------- MODULE MCMd5Stream ----------------------------
(* Instances of Md5Stream for TLC, and beside it one of Md5Transform, which *)
(* Md5Stream leaves abstract: MD5Update's blocks are small there, while the  *)
(* transformation has the real ones.                                       *)
EXTENDS Md5Stream

\* Bytes of one digit and of two, at both ends of the range.
MCDigests == {<<0, 9>>, <<10, 15>>, <<16, 25>>, <<160, 255>>}

\* Of the test suite of RFC 1321: the messages of no, one, three, 26, 62 and
\* 80 letters; the last two take two blocks.
RfcSuite == {
    [message |-> <<>>,
     digest |-> <<\hd4, \h1d, \h8c, \hd9>> \o <<\h8f, \h00, \hb2, \h04>>
                  \o <<\he9, \h80, \h09, \h98>> \o <<\hec, \hf8, \h42, \h7e>>],
    [message |-> <<97>>,
     digest |-> <<\h0c, \hc1, \h75, \hb9>> \o <<\hc0, \hf1, \hb6, \ha8>>
                  \o <<\h31, \hc3, \h99, \he2>> \o <<\h69, \h77, \h26, \h61>>],
    [message |-> <<97, 98, 99>>,
     digest |-> <<\h90, \h01, \h50, \h98>> \o <<\h3c, \hd2, \h4f, \hb0>>
                  \o <<\hd6, \h96, \h3f, \h7d>> \o <<\h28, \he1, \h7f, \h72>>],
    [message |-> [j \in 1 .. 26 |-> 96 + j],
     digest |-> <<\hc3, \hfc, \hd3, \hd7>> \o <<\h61, \h92, \he4, \h00>>
                  \o <<\h7d, \hfb, \h49, \h6c>> \o <<\hca, \h67, \he1, \h3b>>],
    [message |-> [j \in 1 .. 62 |-> IF j <= 26 THEN 64 + j ELSE IF j <= 52 THEN 70 + j ELSE j - 5],
     digest |-> <<\hd1, \h74, \hab, \h98>> \o <<\hd2, \h77, \hd9, \hf5>>
                  \o <<\ha5, \h61, \h1c, \h2c>> \o <<\h9f, \h41, \h9d, \h9f>>],
    [message |-> [j \in 1 .. 80 |-> 48 + (j % 10)],
     digest |-> <<\h57, \hed, \hf4, \ha2>> \o <<\h2b, \he3, \hc9, \h55>>
                  \o <<\hac, \h49, \hda, \h2e>> \o <<\h21, \h07, \hb6, \h7a>>] }

VARIABLES given, rest, state, reg, step
transform == <<given, rest, state, reg, step>>
T == INSTANCE Md5Transform WITH Suite <- RfcSuite

\* Either of the two runs, from a fresh start.
MCInit == Init /\ T!Init
MCNext ==
    \/ step = 0 /\ rest = T!Blocks(given.message) /\ Next /\ UNCHANGED transform
    \/ Init /\ T!Next /\ UNCHANGED vars
    \/ rest = <<>> /\ UNCHANGED <<vars, transform>>
MCSpec == MCInit /\ [][MCNext]_<<vars, transform>>

\* The transformation gives the digests of RFC 1321 (Md5Transform).
DigestOfRfc == T!DigestOfRfc
=============================================================================
