------------------------------- MODULE Proto -------------------------------
(***************************************************************************)
(* Proto.h and CodeMsg.cpp: packet layout, command numbers and byte order. *)
(* A packet is a sequence of words, a word the four bytes of an unsigned   *)
(* int as they lie in memory; the server is a little-endian machine.       *)
(***************************************************************************)
EXTENDS Naturals, Sequences

CS_CMD_REQ_NEW_VERSION == 0
CS_CMD_REQ_REP_DATA    == 1
CS_CMD_RES_IS_UPDATE   == 10
CS_CMD_RES_REP_DATA    == 11
CS_CMD_RES_SEND_PLUGIN == 12
CS_CMD_REQ_UPDATE_LINK == 13
CS_CMD_RES_SEND_LINK   == 14

PROTO_VERSION   == 1111
PROTO_HEAD_SIZE == 12
MAX_SVR_PKG_LENGTH == 4096 * 1024

Byte == 0 .. 255
Word == Byte \X Byte \X Byte \X Byte

\* Is v the value of an unsigned int.
FitsWord(v) == v \div 16777216 < 256

\* The word that holds v, and the value a word is read as.
HostWord(v)  == <<v % 256, (v \div 256) % 256, (v \div 65536) % 256, v \div 16777216>>
HostValue(w) == w[1] + 256 * w[2] + 65536 * w[3] + 16777216 * w[4]

\* htonl and ntohl of the C library reverse the bytes of a word.
htonl(w) == <<w[4], w[3], w[2], w[1]>>
ntohl(w) == <<w[4], w[3], w[2], w[1]>>

tagCSMsgHead == [pkgLength : Word, cmdID : Word, protoVersion : Word]

HeadNtoh(h) == [pkgLength    |-> ntohl(h.pkgLength),
                cmdID        |-> ntohl(h.cmdID),
                protoVersion |-> ntohl(h.protoVersion)]
HeadHton(h) == [pkgLength    |-> htonl(h.pkgLength),
                cmdID        |-> htonl(h.cmdID),
                protoVersion |-> htonl(h.protoVersion)]

Head3(length, cmd, version) == [pkgLength    |-> HostWord(length),
                                cmdID        |-> HostWord(cmd),
                                protoVersion |-> HostWord(version)]
=============================================================================
