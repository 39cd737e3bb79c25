------------------------ MODULE PluginSessionProofs ------------------------
(***************************************************************************)
(* Requests and replies of PluginSession for any clients, versions, file   *)
(* length, heap and watermark.                                             *)
(***************************************************************************)
EXTENDS PluginSession, FiniteSetTheorems, SequenceTheorems, TLAPS

\* A reply whose header tells the truth about its length.
Framed == {p \in Replies :
    /\ HostValue(HeadNtoh(p.head).pkgLength) = p.bytes
    /\ FileLen <= MAX_SVR_PKG_LENGTH - 44 => p.bytes <= MAX_SVR_PKG_LENGTH}

Types ==
    /\ asked \in [Clients -> Seq(Requests)]
    /\ got \in [Clients -> Seq(Nat)]
    /\ conn \in [Clients -> {"up", "fin", "closed"}]
    /\ chan \in [Clients -> Seq(Word)]
    /\ input \in [Clients -> Seq(Word)]
    /\ output \in [Clients -> Seq(Framed)]
    /\ \A c \in Clients : Len(input[c]) <= HighMark
    /\ lost \in 0 .. HeapBlocks
    /\ file \in BOOLEAN

\* Where the request of a client that waits for its answer can be: on its way,
\* left in the input for want of memory, answered rightly, or lost.
Waiting(c, r) ==
    \/ chan[c] = Packet(r) /\ input[c] = <<>> /\ output[c] = <<>>
    \/ chan[c] = <<>> /\ output[c] = <<>> /\ (input[c] # <<>> => Blocks = 0)
    \/ /\ chan[c] = <<>> /\ input[c] = <<>>
       /\ \E p \in Framed : output[c] = <<p>> /\ TypeOfReply(p) = Answer(r)

Idle(c) == chan[c] = <<>> /\ input[c] = <<>> /\ output[c] = <<>>

Exchange == \A c \in Patient :
    \/ Len(asked[c]) = Len(got[c]) /\ Idle(c)
    \/ Len(asked[c]) = Len(got[c]) + 1 /\ Waiting(c, asked[c][Len(asked[c])])

IndInv == Types /\ InputDrained /\ Exchange /\ RightAnswer

-----------------------------------------------------------------------------
(* Words and packets.                                                      *)

\* A number of 32 bits is read back from the word it is written to.
LEMMA WordValue ==
    ASSUME NEW v \in Nat, FitsWord(v)
    PROVE  HostWord(v) \in Word /\ HostValue(HostWord(v)) = v
<1>1. /\ v % 256 \in Byte /\ (v \div 256) % 256 \in Byte
      /\ (v \div 65536) % 256 \in Byte /\ v \div 16777216 \in Byte
  BY SMT DEF Byte, FitsWord
<1>2. HostWord(v) \in Word
  BY <1>1 DEF HostWord, Word
<1>3. (v % 256) + 256 * ((v \div 256) % 256) + 65536 * ((v \div 65536) % 256)
          + 16777216 * (v \div 16777216) = v
  BY SMT
<1>4. HostValue(HostWord(v)) =
          (v % 256) + 256 * ((v \div 256) % 256) + 65536 * ((v \div 65536) % 256)
          + 16777216 * (v \div 16777216)
  BY DEF HostValue, HostWord
<1> QED
  BY <1>2, <1>3, <1>4

\* Turning a word round twice restores it.
LEMMA TurnedTwice ==
    ASSUME NEW w \in Word
    PROVE  htonl(w) \in Word /\ ntohl(htonl(w)) = w /\ HostValue(w) \in Nat
<1>1. PICK a, b, c, d \in Byte : w = <<a, b, c, d>>
  BY DEF Word
<1>2. htonl(w) = <<d, c, b, a>> /\ ntohl(<<d, c, b, a>>) = w
  BY <1>1 DEF htonl, ntohl
<1>3. HostValue(w) = a + 256 * b + 65536 * c + 16777216 * d
  BY <1>1 DEF HostValue
<1>4. HostValue(w) \in Nat
  BY <1>1, <1>3, SMT DEF Byte
<1> QED
  BY <1>1, <1>2, <1>4 DEF Word

\* A reply is framed when its header is given the length that is sent.
LEMMA HeadFramed ==
    ASSUME NEW n \in Nat, FitsWord(n), NEW cmd \in {10, 12},
           FileLen <= MAX_SVR_PKG_LENGTH - 44 => n <= MAX_SVR_PKG_LENGTH,
           NEW p, p = [head |-> HeadHton(Head3(n, cmd, PROTO_VERSION)), bytes |-> n]
    PROVE  p \in Framed /\ TypeOfReply(p) = cmd
<1>1. FitsWord(cmd) /\ FitsWord(PROTO_VERSION) /\ PROTO_VERSION \in Nat
  BY SMT DEF FitsWord, PROTO_VERSION
<1>2. /\ HostWord(n) \in Word /\ HostValue(HostWord(n)) = n
      /\ HostWord(cmd) \in Word /\ HostValue(HostWord(cmd)) = cmd
      /\ HostWord(PROTO_VERSION) \in Word
  BY <1>1, WordValue
<1>3. p.head = [pkgLength |-> htonl(HostWord(n)), cmdID |-> htonl(HostWord(cmd)),
                protoVersion |-> htonl(HostWord(PROTO_VERSION))]
  BY DEF HeadHton, Head3
<1>4. p.head \in tagCSMsgHead
  BY <1>2, <1>3, TurnedTwice DEF tagCSMsgHead
<1>5. HostValue(HeadNtoh(p.head).pkgLength) = n /\ HostValue(HeadNtoh(p.head).cmdID) = cmd
  BY <1>2, <1>3, TurnedTwice DEF HeadNtoh
<1>6. p.bytes = n /\ p \in Replies
  BY <1>4 DEF Replies
<1> QED
  BY <1>5, <1>6 DEF Framed, TypeOfReply

\* What BuildPkgByType hands to the output is nothing or one framed reply of
\* the type asked for, and it loses at most one of the blocks there are.
LEMMA BuiltFramed ==
    ASSUME NEW t, NEW blocks \in Nat, NEW there \in BOOLEAN
    PROVE  LET b == BuildPkgByType(t, blocks, there) IN
           /\ b.lost \in {0, 1} /\ b.lost <= blocks
           /\ \/ b.reply = <<>>
              \/ \E p \in Framed : /\ b.reply = <<p>> /\ TypeOfReply(p) = t
                                   /\ t \in {CS_CMD_RES_IS_UPDATE, CS_CMD_RES_SEND_PLUGIN}
<1> USE DEF CS_CMD_RES_IS_UPDATE, CS_CMD_RES_SEND_PLUGIN, CS_CMD_RES_REP_DATA,
            CS_CMD_RES_SEND_LINK
<1> DEFINE b == BuildPkgByType(t, blocks, there)
<1>2. CASE t = 10
  <2>1. b = Built(Head3(28, 10, PROTO_VERSION), 28, 0)
    BY <1>2 DEF BuildPkgByType, BuildIsUpdatePkg, PROTO_HEAD_SIZE
  <2> DEFINE p == [head |-> HeadHton(Head3(28, 10, PROTO_VERSION)), bytes |-> 28]
  <2>2. p \in Framed /\ TypeOfReply(p) = 10
    <3>1. FitsWord(28) /\ 28 <= MAX_SVR_PKG_LENGTH
      BY SMT DEF FitsWord, MAX_SVR_PKG_LENGTH
    <3> QED
      BY <3>1, HeadFramed
  <2>3. b = [reply |-> <<p>>, lost |-> 0]
    BY <2>1 DEF Built
  <2> HIDE DEF p
  <2> QED
    BY <1>2, <2>2, <2>3
<1>3. CASE t = 12
  <2>1. b = BuildSendPluginPkg(blocks, there)
    BY <1>3 DEF BuildPkgByType
  <2>2. CASE blocks = 0 \/ ~there
    BY <2>1, <2>2 DEF BuildSendPluginPkg, Nothing
  <2>3. CASE blocks # 0 /\ there
    <3>1. b = Built(Head3(FileLen + 44, 12, PROTO_VERSION), FileLen + 44, 0)
      <4>1. 12 + FileLen + 32 = FileLen + 44 /\ 12 + 32 + FileLen = FileLen + 44
        BY PkgUtilAssumption
      <4> QED
        BY <2>1, <2>3, <4>1 DEF BuildSendPluginPkg, PROTO_HEAD_SIZE
    <3> DEFINE p == [head |-> HeadHton(Head3(FileLen + 44, 12, PROTO_VERSION)),
                     bytes |-> FileLen + 44]
    <3>2. p \in Framed /\ TypeOfReply(p) = 12
      <4>1. /\ FileLen + 44 \in Nat /\ FitsWord(FileLen + 44)
            /\ FileLen <= MAX_SVR_PKG_LENGTH - 44 => FileLen + 44 <= MAX_SVR_PKG_LENGTH
        BY PkgUtilAssumption, SMT DEF MAX_SVR_PKG_LENGTH
      <4> QED
        BY <4>1, HeadFramed
    <3>3. b = [reply |-> <<p>>, lost |-> 0]
      BY <3>1 DEF Built
    <3> HIDE DEF p
    <3> QED
      BY <1>3, <3>2, <3>3
  <2> QED
    BY <2>2, <2>3
<1>4. CASE t \notin {10, 12}
  BY <1>4 DEF BuildPkgByType, BuildResReportDataPkg, BuildSendLinkPkg, Nothing
<1> QED
  BY <1>2, <1>3, <1>4

\* A request is three words of header and at most two of content.
LEMMA PacketWords ==
    ASSUME NEW r \in Kinds
    PROVE  /\ Packet(r) \in Seq(Word) /\ Content(r) \in Seq(Word)
           /\ Len(Packet(r)) = 3 + Len(Content(r)) /\ Len(Content(r)) \in 0 .. 2
           /\ \A i \in 1 .. Len(Content(r)) : Packet(r)[i + 3] = Content(r)[i]
           /\ Packet(r)[1] = htonl(HostWord(12 + 4 * Len(Content(r))))
           /\ Packet(r)[2] = htonl(HostWord(Command(r)))
           /\ Packet(r)[3] = htonl(HostWord(PROTO_VERSION))
           /\ Command(r) \in Nat /\ FitsWord(Command(r))
<1>1. FitsWord(7) /\ FitsWord(svrVersion) /\ FitsWord(svrVersion + 1)
      /\ FitsWord(PROTO_VERSION) /\ PROTO_VERSION \in Nat
      /\ svrVersion \in Nat /\ svrVersion + 1 \in Nat
  BY PkgUtilAssumption, SMT DEF FitsWord, PROTO_VERSION
<1>2. /\ htonl(HostWord(svrVersion)) \in Word /\ htonl(HostWord(svrVersion + 1)) \in Word
      /\ HostWord(7) \in Word
  BY <1>1, WordValue, TurnedTwice
<1>3. Content(r) \in Seq(Word) /\ Len(Content(r)) \in 0 .. 2
  <2>1. CASE r \in {"current", "stale"}
    <3>1. PICK w \in Word : Content(r) = <<w>>
      BY <1>2, <2>1 DEF Content
    <3> QED
      BY <3>1
  <2>2. CASE r = "report"
    <3>1. PICK w \in Word : Content(r) = <<w, w>>
      BY <1>2, <2>2 DEF Content
    <3> QED
      BY <3>1
  <2>3. CASE r \in {"link", "unknown"}
    BY <2>3 DEF Content
  <2> QED
    BY <2>1, <2>2, <2>3 DEF Kinds
<1>4. Command(r) \in Nat /\ FitsWord(Command(r))
  BY SMT DEF Kinds, Command, FitsWord, CS_CMD_REQ_NEW_VERSION, CS_CMD_REQ_REP_DATA,
             CS_CMD_REQ_UPDATE_LINK
<1> DEFINE n == PROTO_HEAD_SIZE + 4 * Len(Content(r))
           a == htonl(HostWord(n))
           b == htonl(HostWord(Command(r)))
           d == htonl(HostWord(PROTO_VERSION))
<1>5. n \in Nat /\ FitsWord(n)
  <2>1. ASSUME NEW k \in 0 .. 2
        PROVE  12 + 4 * k \in Nat /\ FitsWord(12 + 4 * k)
    BY SMT DEF FitsWord
  <2> QED
    BY <1>3, <2>1 DEF PROTO_HEAD_SIZE
<1>6. a \in Word /\ b \in Word /\ d \in Word
  BY <1>1, <1>4, <1>5, WordValue, TurnedTwice
<1>7. Packet(r) = <<a, b, d>> \o Content(r)
  BY DEF Packet, Head3, HeadHton
<1> HIDE DEF a, d, n
<1>8. /\ <<a, b, d>> \in Seq(Word) /\ Len(<<a, b, d>>) = 3
      /\ <<a, b, d>>[1] = a /\ <<a, b, d>>[2] = b /\ <<a, b, d>>[3] = d
  BY <1>6
<1>9. /\ Packet(r) \in Seq(Word) /\ Len(Packet(r)) = 3 + Len(Content(r))
      /\ \A i \in 1 .. 3 + Len(Content(r)) :
            Packet(r)[i] = IF i <= 3 THEN <<a, b, d>>[i] ELSE Content(r)[i - 3]
  BY <1>3, <1>7, <1>8, ConcatProperties
<1>10. ASSUME NEW i \in 1 .. Len(Content(r)) PROVE Packet(r)[i + 3] = Content(r)[i]
  BY <1>3, <1>9
<1>11. Packet(r)[1] = a /\ Packet(r)[2] = b /\ Packet(r)[3] = d
  BY <1>3, <1>8, <1>9
<1>12. a = htonl(HostWord(12 + 4 * Len(Content(r)))) /\ d = htonl(HostWord(PROTO_VERSION))
  BY DEF a, d, n, PROTO_HEAD_SIZE
<1> QED
  BY <1>3, <1>4, <1>9, <1>10, <1>11, <1>12

\* No request is longer than five words.
LEMMA PacketLength ==
    ASSUME NEW r \in Kinds
    PROVE  Len(Packet(r)) <= 5
<1>1. Len(Packet(r)) = 3 + Len(Content(r)) /\ Len(Content(r)) \in 0 .. 2
  BY PacketWords
<1>2. ASSUME NEW k \in 0 .. 2
      PROVE  3 + k <= 5
  OBVIOUS
<1> QED
  BY <1>1, <1>2

\* Of a request that is read whole the server makes out what its client wants.
LEMMA Understood ==
    ASSUME NEW r \in Kinds, NEW q \in ProcessClientPkg(Packet(r)), q.rc = "0",
           q.pkgType \in {CS_CMD_RES_IS_UPDATE, CS_CMD_RES_SEND_PLUGIN}
    PROVE  q.pkgType = Answer(r)
<1> USE DEF CS_CMD_RES_IS_UPDATE, CS_CMD_RES_SEND_PLUGIN, CS_CMD_RES_REP_DATA,
            CS_CMD_RES_SEND_LINK, CS_CMD_REQ_NEW_VERSION, CS_CMD_REQ_REP_DATA,
            CS_CMD_REQ_UPDATE_LINK
<1> DEFINE pkg  == Packet(r)
           rest == SubSeq(pkg, 4, Len(pkg))
           cmd  == HostValue(ntohl(pkg[2]))
<1>1. cmd = Command(r)
  BY PacketWords, WordValue, TurnedTwice
<1>2. q.pkgType \in PkgTypes(cmd, rest)
  <2>1. ~(Len(pkg) < 3)
    BY PacketWords
  <2>2. q \in {Result("0", t) : t \in PkgTypes(cmd, rest)}
    BY <2>1 DEF ProcessClientPkg, HeadNtoh, Result
  <2> QED
    BY <2>2 DEF Result
<1> HIDE DEF cmd, rest
<1>3. cmd = 0 /\ q.pkgType \in VersionTypes(rest)
  BY <1>1, <1>2 DEF PkgTypes, Command, Kinds
<1>4. r \in {"current", "stale"}
  BY <1>1, <1>3 DEF Command, Kinds
<1> DEFINE v == IF r = "current" THEN svrVersion ELSE svrVersion + 1
<1>5. /\ v \in Nat /\ FitsWord(v) /\ (v # svrVersion <=> r = "stale")
  BY <1>4, PkgUtilAssumption, SMT DEF FitsWord
<1>6. Content(r) = <<htonl(HostWord(v))>>
  BY <1>4 DEF Content
<1> DEFINE u == htonl(HostWord(v))
<1>7. rest # <<>> /\ Head(rest) = u
  <2> HIDE DEF v, u
  <2>1. Len(Content(r)) = 1 /\ Content(r)[1] = u
    <3>1. Content(r) = <<u>>
      BY <1>6 DEF u
    <3> QED
      BY <3>1
  <2>2. pkg \in Seq(Word) /\ Len(pkg) = 4
    <3>1. Len(Packet(r)) = 3 + Len(Content(r)) /\ Packet(r) \in Seq(Word)
      BY PacketWords
    <3>2. Len(Packet(r)) = 4
      BY <2>1, <3>1
    <3> QED
      BY <3>1, <3>2
  <2>3. pkg[4] = u
    <3>1. \A i \in 1 .. 1 : pkg[i + 3] = Content(r)[i]
      BY <2>1, PacketWords
    <3>2. pkg[1 + 3] = Content(r)[1]
      BY <3>1
    <3> QED
      BY <2>1, <3>2
  <2> HIDE DEF pkg
  <2>4. rest = SubSeq(pkg, 4, 4)
    BY <2>2 DEF rest
  <2>5. Head(SubSeq(pkg, 4, 4)) = pkg[4] /\ Len(SubSeq(pkg, 4, 4)) = 1
    <3>1. 4 \in 1 .. Len(pkg)
      BY <2>2
    <3>2. pkg[4] \in Word
      BY <2>2, <3>1, ElementOfSeq
    <3>3. Len(SubSeq(pkg, 4, 4)) = 1
      BY <3>2, SubSeqProperties
    <3>4. Head(SubSeq(pkg, 4, 4)) = pkg[4]
      BY <2>2, <3>1, HeadTailOfSubSeq
    <3> QED
      BY <3>3, <3>4
  <2>6. rest # <<>>
    <3>1. Len(rest) # Len(<<>>)
      BY <2>4, <2>5
    <3> QED
      BY <3>1
  <2> QED
    BY <2>3, <2>4, <2>5, <2>6
<1>8. HostValue(ntohl(Head(rest))) = v
  BY <1>5, <1>7, WordValue, TurnedTwice
<1> QED
  BY <1>3, <1>4, <1>5, <1>7, <1>8 DEF VersionTypes, Answer

-----------------------------------------------------------------------------
(* The steps.                                                              *)

\* What a read can do: leave everything it got in the input when there is no
\* block, or take all of it and add at most one reply, of the type made out.
LEMMA ReadStep ==
    ASSUME Types, NEW c \in Clients, DoRead(c)
    PROVE  /\ UNCHANGED <<asked, got, conn, file>>
           /\ \E n \in Sizes(c) :
                /\ chan' = [chan EXCEPT ![c] = SubSeq(@, n + 1, Len(@))]
                /\ \/ /\ Blocks = 0 /\ UNCHANGED <<output, lost>>
                      /\ input' = [input EXCEPT ![c] = Buffered(c, n)]
                   \/ /\ Blocks # 0 /\ input' = [input EXCEPT ![c] = <<>>]
                      /\ lost' \in {lost, lost + 1} /\ lost' <= HeapBlocks
                      /\ \/ output' = [output EXCEPT ![c] = @ \o <<>>]
                         \/ \E p \in Framed :
                              /\ output' = [output EXCEPT ![c] = @ \o <<p>>]
                              /\ \E q \in ProcessClientPkg(Buffered(c, n)) :
                                   /\ q.rc = "0" /\ q.pkgType = TypeOfReply(p)
                                   /\ q.pkgType \in {CS_CMD_RES_IS_UPDATE,
                                                     CS_CMD_RES_SEND_PLUGIN}
<1>1. /\ lost \in Nat /\ HeapBlocks \in Nat /\ lost <= HeapBlocks
      /\ Blocks \in Nat /\ Blocks = HeapBlocks - lost /\ file \in BOOLEAN
      /\ output \in [Clients -> Seq(Framed)]
  BY SessionAssumption DEF Types, Blocks
<1>2. CASE ReadNoBuffer(c)
  BY <1>2 DEF ReadNoBuffer
<1>3. CASE ReadRefused(c)
  <2>1. output' = [output EXCEPT ![c] = @ \o <<>>]
    <3>1. output[c] \o <<>> = output[c]
      BY <1>1, ConcatEmptySeq
    <3> QED
      BY <1>1, <1>3, <3>1 DEF ReadRefused
  <2>2. lost' = lost + 1 /\ Blocks > 0 /\ lost' <= HeapBlocks /\ Blocks # 0
    BY <1>1, <1>3 DEF ReadRefused
  <2> QED
    BY <1>3, <2>1, <2>2 DEF ReadRefused, Drain
<1>4. CASE ReadAnswered(c)
  <2>0. PICK n \in Sizes(c) : \E q \in ProcessClientPkg(Buffered(c, n)) :
          LET b == BuildPkgByType(q.pkgType, Blocks - 2, file) IN
          /\ conn[c] # "closed" /\ Blocks > 1 /\ q.rc = "0"
          /\ Drain(c, n)
          /\ output' = [output EXCEPT ![c] = @ \o b.reply]
          /\ lost'   = lost + b.lost
          /\ UNCHANGED <<asked, got, conn, file>>
    BY <1>4 DEF ReadAnswered
  <2>1. PICK q \in ProcessClientPkg(Buffered(c, n)) :
          LET b == BuildPkgByType(q.pkgType, Blocks - 2, file) IN
          /\ conn[c] # "closed" /\ Blocks > 1 /\ q.rc = "0"
          /\ Drain(c, n)
          /\ output' = [output EXCEPT ![c] = @ \o b.reply]
          /\ lost'   = lost + b.lost
          /\ UNCHANGED <<asked, got, conn, file>>
    BY <2>0
  <2> DEFINE b == BuildPkgByType(q.pkgType, Blocks - 2, file)
  <2>2. Blocks - 2 \in Nat /\ Blocks # 0
    BY <1>1, <2>1
  <2>3. /\ b.lost \in {0, 1} /\ b.lost <= Blocks - 2
        /\ \/ b.reply = <<>>
           \/ \E p \in Framed : /\ b.reply = <<p>> /\ TypeOfReply(p) = q.pkgType
                                /\ q.pkgType \in {CS_CMD_RES_IS_UPDATE,
                                                  CS_CMD_RES_SEND_PLUGIN}
    BY <1>1, <2>2, BuiltFramed
  <2> HIDE DEF b
  <2>4. lost' \in {lost, lost + 1} /\ lost' <= HeapBlocks
    <3>1. lost' = lost + b.lost
      BY <2>1 DEF b
    <3> QED
      BY <1>1, <2>3, <3>1
  <2>5. output' = [output EXCEPT ![c] = @ \o b.reply]
    BY <2>1 DEF b
  <2> QED
    BY <2>1, <2>2, <2>3, <2>4, <2>5 DEF Drain
<1> QED
  BY <1>2, <1>3, <1>4 DEF DoRead

\* Start-up establishes the invariant.
LEMMA InitInv == Init => IndInv
<1> SUFFICES ASSUME Init
             PROVE  IndInv
  OBVIOUS
<1>1. \A c \in Clients : /\ asked[c] = <<>> /\ got[c] = <<>> /\ Idle(c)
                         /\ Len(asked[c]) = Len(got[c])
                         /\ input[c] = <<>> /\ Len(input[c]) = 0 /\ DOMAIN got[c] = {}
  BY DEF Init, Idle
<1>2. Types
  BY <1>1, SessionAssumption DEF Init, Types
<1>3. Exchange /\ RightAnswer /\ InputDrained
  BY <1>1, SessionAssumption DEF Exchange, RightAnswer, InputDrained
<1> QED
  BY <1>2, <1>3 DEF IndInv

\* A client that waits for its answers has not got more than it asked for.
LEMMA NoMoreThanAsked ==
    ASSUME Types, Exchange, NEW c \in Patient
    PROVE  /\ Len(got[c]) \in Nat /\ Len(asked[c]) \in Nat
           /\ Len(got[c]) <= Len(asked[c]) /\ DOMAIN got[c] = 1 .. Len(got[c])
<1>1. got[c] \in Seq(Nat) /\ asked[c] \in Seq(Requests)
  BY SessionAssumption DEF Types
<1>2. /\ Len(got[c]) \in Nat /\ Len(asked[c]) \in Nat
      /\ DOMAIN got[c] = 1 .. Len(got[c])
  BY <1>1, LenProperties
<1>3. Len(asked[c]) = Len(got[c]) \/ Len(asked[c]) = Len(got[c]) + 1
  BY DEF Exchange
<1> QED
  BY <1>2, <1>3

\* A request goes on its way; a client that waits has none elsewhere.
LEMMA AskInv ==
    ASSUME IndInv, NEW c \in Clients, NEW r \in Requests, Ask(c, r)
    PROVE  IndInv'
<1>1. /\ asked' = [asked EXCEPT ![c] = Append(asked[c], r)]
      /\ chan'  = [chan EXCEPT ![c] = chan[c] \o Packet(r)]
      /\ Len(asked[c]) - Len(got[c]) < (IF c \in Patient THEN 1 ELSE Window)
      /\ UNCHANGED <<got, conn, input, output, lost, file>>
  BY DEF Ask
<1>2. /\ asked[c] \in Seq(Requests) /\ got[c] \in Seq(Nat) /\ chan[c] \in Seq(Word)
      /\ asked \in [Clients -> Seq(Requests)] /\ chan \in [Clients -> Seq(Word)]
      /\ Len(asked[c]) \in Nat /\ Len(got[c]) \in Nat
      /\ r \in Kinds /\ Patient \subseteq Clients
  BY SessionAssumption DEF IndInv, Types
<1>3. /\ Append(asked[c], r) \in Seq(Requests)
      /\ Len(Append(asked[c], r)) = Len(asked[c]) + 1
      /\ \A i \in 1 .. Len(asked[c]) : Append(asked[c], r)[i] = asked[c][i]
      /\ Append(asked[c], r)[Len(asked[c]) + 1] = r
  BY <1>2, AppendProperties
<1>4. Packet(r) \in Seq(Word) /\ chan[c] \o Packet(r) \in Seq(Word)
  BY <1>2, PacketWords, ConcatProperties
<1>5. Types'
  BY <1>1, <1>2, <1>3, <1>4 DEF IndInv, Types
<1>6. InputDrained'
  BY <1>1 DEF IndInv, InputDrained, Blocks
<1>7. Exchange'
  <2>1. ASSUME NEW d \in Patient, d # c
        PROVE  \/ (Len(asked[d]) = Len(got[d]) /\ Idle(d))'
               \/ (Len(asked[d]) = Len(got[d]) + 1 /\ Waiting(d, asked[d][Len(asked[d])]))'
    <3>1. asked'[d] = asked[d] /\ chan'[d] = chan[d]
      BY <1>1, <1>2, <2>1
    <3> QED
      BY <1>1, <2>1, <3>1 DEF IndInv, Exchange, Idle, Waiting, Blocks
  <2>2. ASSUME c \in Patient
        PROVE  (Len(asked[c]) = Len(got[c]) + 1 /\ Waiting(c, asked[c][Len(asked[c])]))'
    <3>1. Len(asked[c]) = Len(got[c]) /\ Idle(c)
      BY <1>1, <1>2, <2>2 DEF IndInv, Exchange
    <3>2. asked'[c] = Append(asked[c], r) /\ chan'[c] = Packet(r)
      <4>1. chan[c] = <<>> /\ <<>> \o Packet(r) = Packet(r)
        BY <1>4, <3>1, ConcatEmptySeq DEF Idle
      <4> QED
        BY <1>1, <1>2, <4>1
    <3>3. asked'[c][Len(asked'[c])] = r /\ Len(asked'[c]) = Len(got'[c]) + 1
      BY <1>1, <1>3, <3>1, <3>2
    <3> QED
      BY <1>1, <3>1, <3>2, <3>3 DEF Waiting, Idle
  <2> QED
    BY <2>1, <2>2 DEF Exchange
<1>8. RightAnswer'
  <2>1. ASSUME NEW d \in Patient, NEW i \in DOMAIN got'[d]
        PROVE  got'[d][i] = Answer(asked'[d][i])
    <3>1. got'[d] = got[d] /\ got[d][i] = Answer(asked[d][i]) /\ d \in Clients
      BY <1>1, <1>2, <2>1 DEF IndInv, RightAnswer
    <3>2. i \in 1 .. Len(asked[d])
      <4>1. Len(got[d]) <= Len(asked[d]) /\ Len(got[d]) \in Nat /\ Len(asked[d]) \in Nat
            /\ DOMAIN got[d] = 1 .. Len(got[d])
        BY <2>1, NoMoreThanAsked DEF IndInv
      <4> QED
        BY <2>1, <3>1, <4>1
    <3>3. asked'[d][i] = asked[d][i]
      BY <1>1, <1>2, <1>3, <3>1, <3>2
    <3> QED
      BY <3>1, <3>3
  <2> QED
    BY <2>1 DEF RightAnswer
<1> QED
  BY <1>5, <1>6, <1>7, <1>8 DEF IndInv

\* A read takes the request of a waiting client whole, and what comes of it is
\* its right answer or nothing.
LEMMA ReadInv ==
    ASSUME IndInv, NEW c \in Clients, DoRead(c)
    PROVE  IndInv'
<1> DEFINE Left(n)   == /\ Blocks = 0 /\ UNCHANGED <<output, lost>>
                        /\ input' = [input EXCEPT ![c] = Buffered(c, n)]
           Taken     == /\ Blocks # 0 /\ input' = [input EXCEPT ![c] = <<>>]
                        /\ lost' \in {lost, lost + 1} /\ lost' <= HeapBlocks
           Silent    == output' = [output EXCEPT ![c] = @ \o <<>>]
           Says(p)   == output' = [output EXCEPT ![c] = @ \o <<p>>]
           Sound(n, p) == \E q \in ProcessClientPkg(Buffered(c, n)) :
                            /\ q.rc = "0" /\ q.pkgType = TypeOfReply(p)
                            /\ q.pkgType \in {CS_CMD_RES_IS_UPDATE,
                                              CS_CMD_RES_SEND_PLUGIN}
<1>0. UNCHANGED <<asked, got, conn, file>>
  BY ReadStep DEF IndInv
<1>1. PICK n \in Sizes(c) :
        /\ chan' = [chan EXCEPT ![c] = SubSeq(@, n + 1, Len(@))]
        /\ \/ Left(n)
           \/ Taken /\ (Silent \/ \E p \in Framed : Says(p) /\ Sound(n, p))
  BY ReadStep DEF IndInv
<1>2. /\ chan \in [Clients -> Seq(Word)] /\ input \in [Clients -> Seq(Word)]
      /\ output \in [Clients -> Seq(Framed)]
      /\ chan[c] \in Seq(Word) /\ input[c] \in Seq(Word) /\ output[c] \in Seq(Framed)
      /\ Len(chan[c]) \in Nat /\ Len(input[c]) \in Nat /\ HighMark \in Nat /\ HighMark > 4
      /\ lost \in Nat /\ HeapBlocks \in Nat /\ lost <= HeapBlocks
      /\ Patient \subseteq Clients
  BY SessionAssumption DEF IndInv, Types
<1>3. /\ n \in 1 .. Len(chan[c]) /\ n <= HighMark - Len(input[c])
      /\ c \in Patient => n \in {HighMark - Len(input[c]), Len(chan[c])}
  BY DEF Sizes
<1>4. /\ SubSeq(chan[c], 1, n) \in Seq(Word) /\ Len(SubSeq(chan[c], 1, n)) = n
      /\ SubSeq(chan[c], n + 1, Len(chan[c])) \in Seq(Word)
  <2>1. \A i \in 1 .. Len(chan[c]) : chan[c][i] \in Word
    BY <1>2, ElementOfSeq
  <2>2. \A i \in 1 .. n : chan[c][i] \in Word
    BY <1>2, <1>3, <2>1
  <2>3. \A i \in n + 1 .. Len(chan[c]) : chan[c][i] \in Word
    BY <1>2, <1>3, <2>1
  <2>4. 1 \in Int /\ n \in Int /\ n + 1 \in Int /\ Len(chan[c]) \in Int /\ 1 <= n
    BY <1>2, <1>3
  <2>5. SubSeq(chan[c], 1, n) \in Seq(Word) /\ Len(SubSeq(chan[c], 1, n)) = n - 1 + 1
    BY <2>2, <2>4, SubSeqProperties
  <2>6. SubSeq(chan[c], n + 1, Len(chan[c])) \in Seq(Word)
    BY <2>3, <2>4, SubSeqProperties
  <2> QED
    BY <2>4, <2>5, <2>6
<1>5. /\ Buffered(c, n) \in Seq(Word)
      /\ Len(Buffered(c, n)) <= HighMark
  <2>1. Len(Buffered(c, n)) = Len(input[c]) + n /\ Buffered(c, n) \in Seq(Word)
    BY <1>2, <1>4, ConcatProperties DEF Buffered
  <2> QED
    BY <1>2, <1>3, <2>1
<1> HIDE DEF Sound
<1>6. Types'
  <2>1. chan' \in [Clients -> Seq(Word)]
    BY <1>1, <1>2, <1>4
  <2>2. input' \in [Clients -> Seq(Word)] /\ \A d \in Clients : Len(input'[d]) <= HighMark
    <3>1. <<>> \in Seq(Word) /\ Len(<<>>) <= HighMark
      BY <1>2
    <3>2. \A d \in Clients : Len(input[d]) <= HighMark
      BY DEF IndInv, Types
    <3> QED
      BY <1>1, <1>2, <1>5, <3>1, <3>2
  <2>3. output' \in [Clients -> Seq(Framed)]
    <3>1. output[c] \o <<>> \in Seq(Framed)
      BY <1>2, ConcatEmptySeq
    <3>2. \A p \in Framed : output[c] \o <<p>> \in Seq(Framed)
      <4>1. \A p \in Framed : <<p>> \in Seq(Framed)
        OBVIOUS
      <4> QED
        BY <1>2, <4>1, ConcatProperties
    <3> QED
      BY <1>1, <1>2, <3>1, <3>2
  <2>4. lost' \in 0 .. HeapBlocks
    BY <1>1, <1>2
  <2> QED
    BY <1>0, <2>1, <2>2, <2>3, <2>4 DEF IndInv, Types
<1>7. InputDrained'
  <2>1. CASE Left(n)
    BY <2>1 DEF InputDrained, Blocks
  <2>2. CASE Taken
    BY <1>2, <2>2 DEF IndInv, InputDrained
  <2> QED
    BY <1>1, <2>1, <2>2
<1>8. Exchange'
  <2>1. ASSUME NEW d \in Patient, d # c
        PROVE  \/ (Len(asked[d]) = Len(got[d]) /\ Idle(d))'
               \/ (Len(asked[d]) = Len(got[d]) + 1 /\ Waiting(d, asked[d][Len(asked[d])]))'
    <3>1. /\ chan'[d] = chan[d] /\ input'[d] = input[d] /\ output'[d] = output[d]
          /\ asked'[d] = asked[d] /\ got'[d] = got[d] /\ d \in Clients
      BY <1>0, <1>1, <1>2, <2>1
    <3>2. input[d] # <<>> => Blocks' = 0
      BY <1>1, <3>1 DEF IndInv, InputDrained, Blocks
    <3> QED
      BY <2>1, <3>1, <3>2 DEF IndInv, Exchange, Idle, Waiting
  <2>2. ASSUME c \in Patient
        PROVE  (Len(asked[c]) = Len(got[c]) + 1 /\ Waiting(c, asked[c][Len(asked[c])]))'
    <3> DEFINE r == asked[c][Len(asked[c])]
    <3>1. chan[c] # <<>>
      <4>1. Len(chan[c]) # Len(<<>>)
        BY <1>2, <1>3
      <4> QED
        BY <4>1
    <3>2. /\ Len(asked[c]) = Len(got[c]) + 1
          /\ chan[c] = Packet(r) /\ input[c] = <<>> /\ output[c] = <<>>
      BY <2>2, <3>1 DEF IndInv, Exchange, Idle, Waiting
    <3>3. r \in Kinds
      <4>1. asked[c] \in Seq(Requests) /\ Len(asked[c]) \in Nat /\ Len(got[c]) \in Nat
        BY <2>2, NoMoreThanAsked DEF IndInv, Types
      <4>2. Len(asked[c]) \in 1 .. Len(asked[c])
        BY <3>2, <4>1
      <4> QED
        BY <4>1, <4>2, ElementOfSeq, SessionAssumption
    <3>0. r' = r
      BY <1>0
    <3> HIDE DEF r
    <3>4. n = Len(chan[c])
      <4>1. Len(chan[c]) <= 5
        BY <3>2, <3>3, PacketLength
      <4>2. Len(input[c]) = 0
        BY <3>2
      <4> QED
        BY <1>2, <1>3, <2>2, <4>1, <4>2
    <3>5. chan'[c] = <<>>
      <4>1. n + 1 \in Int /\ Len(chan[c]) \in Int /\ Len(chan[c]) < n + 1
        BY <1>2, <3>4
      <4>2. SubSeq(chan[c], n + 1, Len(chan[c])) = <<>>
        BY <4>1, SubSeqEmpty
      <4> QED
        BY <1>1, <1>2, <4>2
    <3>6. Buffered(c, n) = Packet(r)
      <4>1. SubSeq(chan[c], 1, n) = chan[c]
        BY <1>2, <3>4, SubSeqFull
      <4> QED
        BY <1>2, <3>2, <4>1, ConcatEmptySeq DEF Buffered
    <3>7. Waiting(c, r)'
      <4>1. CASE Left(n)
        BY <1>2, <3>2, <3>5, <4>1 DEF Waiting, Blocks
      <4>2. CASE Taken /\ Silent
        <5>1. input'[c] = <<>> /\ output'[c] = <<>> \o <<>>
          BY <1>2, <3>2, <4>2
        <5>2. <<>> \in Seq(Framed) /\ <<>> \o <<>> = <<>>
          BY ConcatEmptySeq
        <5> QED
          BY <3>5, <5>1, <5>2 DEF Waiting
      <4>3. ASSUME Taken, NEW p \in Framed, Says(p), Sound(n, p)
            PROVE  Waiting(c, r)'
        <5>1. input'[c] = <<>> /\ output'[c] = <<>> \o <<p>>
          BY <1>2, <3>2, <4>3
        <5>2. <<p>> \in Seq(Framed)
          OBVIOUS
        <5>3. <<>> \o <<p>> = <<p>>
          BY <5>2, ConcatEmptySeq
        <5>4. TypeOfReply(p) = Answer(r)
          BY <3>3, <3>6, <4>3, Understood DEF Sound
        <5> QED
          BY <3>0, <3>5, <5>1, <5>3, <5>4 DEF Waiting
      <4> QED
        BY <1>1, <4>1, <4>2, <4>3
    <3> QED
      BY <1>0, <3>2, <3>7 DEF r
  <2> QED
    BY <2>1, <2>2 DEF Exchange
<1>9. RightAnswer'
  BY <1>0 DEF IndInv, RightAnswer
<1> QED
  BY <1>6, <1>7, <1>8, <1>9 DEF IndInv

\* A reply reaches its client: to one that waits, the last step of its exchange.
LEMMA FlushInv ==
    ASSUME IndInv, NEW c \in Clients, Flush(c)
    PROVE  IndInv'
<1> DEFINE t == TypeOfReply(Head(output[c]))
<1>1. /\ output[c] # <<>>
      /\ got' = [got EXCEPT ![c] = Append(got[c], t)]
      /\ output' = [output EXCEPT ![c] = Tail(output[c])]
      /\ UNCHANGED <<asked, conn, chan, input, lost, file>>
  BY DEF Flush
<1>2. /\ got \in [Clients -> Seq(Nat)] /\ output \in [Clients -> Seq(Framed)]
      /\ got[c] \in Seq(Nat) /\ output[c] \in Seq(Framed) /\ Patient \subseteq Clients
  BY SessionAssumption DEF IndInv, Types
<1>3. Head(output[c]) \in Framed /\ Tail(output[c]) \in Seq(Framed)
  BY <1>1, <1>2, HeadTailProperties
<1>4. t \in Nat
  <2>1. Head(output[c]).head.cmdID \in Word
    BY <1>3 DEF Framed, Replies, tagCSMsgHead
  <2>2. ntohl(Head(output[c]).head.cmdID) \in Word
    BY <2>1, TurnedTwice DEF ntohl, htonl
  <2> QED
    BY <2>2, TurnedTwice DEF TypeOfReply, HeadNtoh
<1> HIDE DEF t
<1>5. /\ Append(got[c], t) \in Seq(Nat) /\ Len(Append(got[c], t)) = Len(got[c]) + 1
      /\ Append(got[c], t)[Len(got[c]) + 1] = t
      /\ \A i \in 1 .. Len(got[c]) : Append(got[c], t)[i] = got[c][i]
      /\ Len(got[c]) \in Nat
  BY <1>2, <1>4, AppendProperties, LenProperties
<1>6. Types'
  BY <1>1, <1>2, <1>3, <1>5 DEF IndInv, Types
<1>7. InputDrained'
  BY <1>1 DEF IndInv, InputDrained, Blocks
<1>8. \A d \in Patient : d # c => got'[d] = got[d] /\ output'[d] = output[d]
  BY <1>1, <1>2
<1>9. ASSUME c \in Patient
      PROVE  /\ Len(asked[c]) = Len(got[c]) + 1 /\ t = Answer(asked[c][Len(asked[c])])
             /\ chan[c] = <<>> /\ input[c] = <<>> /\ Tail(output[c]) = <<>>
  <2>1. /\ Len(asked[c]) = Len(got[c]) + 1 /\ chan[c] = <<>> /\ input[c] = <<>>
        /\ \E p \in Framed : /\ output[c] = <<p>>
                             /\ TypeOfReply(p) = Answer(asked[c][Len(asked[c])])
    BY <1>1, <1>9 DEF IndInv, Exchange, Idle, Waiting
  <2>2. PICK p \in Framed : /\ output[c] = <<p>>
                            /\ TypeOfReply(p) = Answer(asked[c][Len(asked[c])])
    BY <2>1
  <2>3. Head(<<p>>) = p /\ Tail(<<p>>) = <<>>
    OBVIOUS
  <2> QED
    BY <2>1, <2>2, <2>3 DEF t
<1>10. Exchange'
  <2>1. ASSUME NEW d \in Patient, d # c
        PROVE  \/ (Len(asked[d]) = Len(got[d]) /\ Idle(d))'
               \/ (Len(asked[d]) = Len(got[d]) + 1 /\ Waiting(d, asked[d][Len(asked[d])]))'
    BY <1>1, <1>8, <2>1 DEF IndInv, Exchange, Idle, Waiting, Blocks
  <2>2. ASSUME c \in Patient
        PROVE  (Len(asked[c]) = Len(got[c]) /\ Idle(c))'
    BY <1>1, <1>2, <1>5, <1>9, <2>2 DEF Idle
  <2> QED
    BY <2>1, <2>2 DEF Exchange
<1>11. RightAnswer'
  <2>1. ASSUME NEW d \in Patient, NEW i \in DOMAIN got'[d], d # c
        PROVE  got'[d][i] = Answer(asked'[d][i])
    BY <1>1, <1>8, <2>1 DEF IndInv, RightAnswer
  <2>2. ASSUME c \in Patient, NEW i \in DOMAIN got'[c]
        PROVE  got'[c][i] = Answer(asked'[c][i])
    <3>1. got'[c] = Append(got[c], t) /\ i \in 1 .. Len(got[c]) + 1
      BY <1>1, <1>2, <1>5, <2>2, LenProperties
    <3>2. CASE i = Len(got[c]) + 1
      BY <1>1, <1>5, <1>9, <2>2, <3>1, <3>2
    <3>3. CASE i # Len(got[c]) + 1
      <4>1. i \in 1 .. Len(got[c]) /\ i \in DOMAIN got[c]
        BY <1>2, <1>5, <3>1, <3>3, LenProperties
      <4>2. got[c][i] = Answer(asked[c][i])
        BY <2>2, <4>1 DEF IndInv, RightAnswer
      <4> QED
        BY <1>1, <1>5, <3>1, <4>1, <4>2
    <3> QED
      BY <3>2, <3>3
  <2> QED
    BY <2>1, <2>2 DEF RightAnswer
<1> QED
  BY <1>6, <1>7, <1>10, <1>11 DEF IndInv

\* The end of a connection drops what was on its way to or from the server.
LEMMA EofInv ==
    ASSUME IndInv, NEW c \in Clients, Eof(c)
    PROVE  IndInv'
<1>1. /\ chan[c] = <<>>
      /\ conn' = [conn EXCEPT ![c] = "closed"]
      /\ input' = [input EXCEPT ![c] = <<>>] /\ output' = [output EXCEPT ![c] = <<>>]
      /\ UNCHANGED <<asked, got, chan, lost, file>>
  BY DEF Eof
<1>2. /\ input \in [Clients -> Seq(Word)] /\ output \in [Clients -> Seq(Framed)]
      /\ \A d \in Clients : Len(input[d]) <= HighMark
      /\ Patient \subseteq Clients /\ 0 <= HighMark
  BY SessionAssumption DEF IndInv, Types
<1>3. Types'
  <2>1. <<>> \in Seq(Word) /\ Len(<<>>) = 0 /\ <<>> \in Seq(Framed)
    OBVIOUS
  <2>2. \A d \in Clients : Len(input'[d]) <= HighMark
    BY <1>1, <1>2, <2>1
  <2> QED
    BY <1>1, <2>1, <2>2 DEF IndInv, Types
<1>4. InputDrained'
  BY <1>1, <1>2 DEF IndInv, InputDrained, Blocks
<1>5. Exchange'
  <2>1. ASSUME NEW d \in Patient, d # c
        PROVE  \/ (Len(asked[d]) = Len(got[d]) /\ Idle(d))'
               \/ (Len(asked[d]) = Len(got[d]) + 1 /\ Waiting(d, asked[d][Len(asked[d])]))'
    <3>1. input'[d] = input[d] /\ output'[d] = output[d]
      BY <1>1, <1>2, <2>1
    <3> QED
      BY <1>1, <2>1, <3>1 DEF IndInv, Exchange, Idle, Waiting, Blocks
  <2>2. ASSUME c \in Patient
        PROVE  \/ (Len(asked[c]) = Len(got[c]) /\ Idle(c))'
               \/ (Len(asked[c]) = Len(got[c]) + 1 /\ Waiting(c, asked[c][Len(asked[c])]))'
    <3>1. chan'[c] = <<>> /\ input'[c] = <<>> /\ output'[c] = <<>>
      BY <1>1, <1>2
    <3> QED
      BY <1>1, <2>2, <3>1 DEF IndInv, Exchange, Idle, Waiting
  <2> QED
    BY <2>1, <2>2 DEF Exchange
<1>6. RightAnswer'
  BY <1>1 DEF IndInv, RightAnswer
<1> QED
  BY <1>3, <1>4, <1>5, <1>6 DEF IndInv

\* Every step keeps the invariant.
LEMMA NextInv == IndInv /\ [Next]_vars => IndInv'
<1> SUFFICES ASSUME IndInv, [Next]_vars
             PROVE  IndInv'
  OBVIOUS
<1>1. CASE UNCHANGED <<asked, got, chan, input, output, lost>> /\ file' \in BOOLEAN
                /\ conn' \in [Clients -> {"up", "fin", "closed"}]
  <2>1. Types' /\ InputDrained' /\ RightAnswer'
    BY <1>1 DEF IndInv, Types, InputDrained, RightAnswer, Blocks
  <2>2. Exchange'
    BY <1>1 DEF IndInv, Exchange, Idle, Waiting, Blocks
  <2> QED
    BY <2>1, <2>2 DEF IndInv
<1>2. CASE UNCHANGED vars
  BY <1>1, <1>2 DEF vars, IndInv, Types
<1>3. CASE Replace
  BY <1>1, <1>3 DEF Replace, IndInv, Types
<1>4. ASSUME NEW c \in Clients, HangUp(c)
      PROVE  IndInv'
  BY <1>1, <1>4 DEF HangUp, IndInv, Types
<1> QED
  BY <1>2, <1>3, <1>4, AskInv, ReadInv, FlushInv, EofInv DEF Next

\* The invariant holds in every reachable state.
THEOREM Invariance == Spec => []IndInv
<1> QED
  BY InitInv, NextInv, PTL DEF Spec

\* Every variable has its type, and no input passes its watermark.
THEOREM SessionTypeCorrect == Spec => []SessionTypeOK
<1>1. ASSUME IndInv
      PROVE  SessionTypeOK
  <2>1. ASSUME NEW c \in Clients
        PROVE  \A i \in DOMAIN chan[c] : chan[c][i] \in Word
    <3>1. chan[c] \in Seq(Word)
      BY <1>1 DEF IndInv, Types
    <3> QED
      BY <3>1, LenProperties, ElementOfSeq
  <2> QED
    BY <1>1, <2>1 DEF IndInv, Types, SessionTypeOK
<1> QED
  BY Invariance, <1>1, PTL

\* Only an exhausted heap leaves input in a buffer.
THEOREM InputDrainedHolds == Spec => []InputDrained
<1>1. IndInv => InputDrained
  BY DEF IndInv
<1> QED
  BY Invariance, <1>1, PTL

\* Every reply has the length its header announces.
THEOREM ReplyFramedHolds == Spec => []ReplyFramed
<1>1. ASSUME IndInv
      PROVE  ReplyFramed
  <2>1. ASSUME NEW c \in Clients, NEW i \in DOMAIN output[c]
        PROVE  output[c][i] \in Framed
    <3>1. output[c] \in Seq(Framed)
      BY <1>1 DEF IndInv, Types
    <3> QED
      BY <3>1, LenProperties, ElementOfSeq
  <2> QED
    BY <2>1 DEF ReplyFramed, Framed
<1> QED
  BY Invariance, <1>1, PTL

\* A client that asks one thing at a time is never answered another.
THEOREM RightAnswerHolds == Spec => []RightAnswer
<1>1. IndInv => RightAnswer
  BY DEF IndInv
<1> QED
  BY Invariance, <1>1, PTL

\* Of what one client has coming, or of whether it is served.
Kept(c) ==
    /\ Len(output'[c]) < Len(output[c]) => (got'[c] # got[c] \/ conn[c] = "fin")
    /\ conn'[c] = "closed" => conn[c] # "up"

\* No step takes a reply from a client but by sending it or because the client
\* has closed its end.
LEMMA NextKeeps ==
    ASSUME IndInv, [Next]_vars, NEW c \in Clients
    PROVE  Kept(c)
<1>1. /\ output \in [Clients -> Seq(Framed)] /\ output[c] \in Seq(Framed)
      /\ got \in [Clients -> Seq(Nat)] /\ got[c] \in Seq(Nat)
      /\ conn \in [Clients -> {"up", "fin", "closed"}] /\ Len(output[c]) \in Nat
      /\ Len(got[c]) \in Nat
  BY DEF IndInv, Types
<1>2. CASE output' = output /\ conn' = conn
  BY <1>1, <1>2 DEF Kept
<1>3. ASSUME NEW d \in Clients, HangUp(d)
      PROVE  Kept(c)
  BY <1>1, <1>3 DEF HangUp, Kept
<1>4. ASSUME NEW d \in Clients, DoRead(d)
      PROVE  Kept(c)
  <2>1. conn' = conn
    BY <1>4, ReadStep DEF IndInv
  <2>2. \/ output' = output
        \/ output' = [output EXCEPT ![d] = @ \o <<>>]
        \/ \E p \in Framed : output' = [output EXCEPT ![d] = @ \o <<p>>]
    BY <1>4, ReadStep DEF IndInv
  <2>3. output[c] \o <<>> = output[c]
    BY <1>1, ConcatEmptySeq
  <2>4. ASSUME NEW p \in Framed
        PROVE  Len(output[c] \o <<p>>) = Len(output[c]) + 1
    <3>1. <<p>> \in Seq(Framed) /\ Len(<<p>>) = 1
      OBVIOUS
    <3> QED
      BY <1>1, <3>1, ConcatProperties
  <2>5. ~(Len(output'[c]) < Len(output[c]))
    <3>1. CASE output' = output
      BY <1>1, <3>1
    <3>2. CASE output' = [output EXCEPT ![d] = @ \o <<>>]
      BY <1>1, <2>3, <3>2
    <3>3. ASSUME NEW p \in Framed, output' = [output EXCEPT ![d] = @ \o <<p>>]
          PROVE  ~(Len(output'[c]) < Len(output[c]))
      <4>1. CASE d = c
        BY <1>1, <2>4, <3>3, <4>1
      <4>2. CASE d # c
        BY <1>1, <3>3, <4>2
      <4> QED
        BY <4>1, <4>2
    <3> QED
      BY <2>2, <3>1, <3>2, <3>3
  <2> QED
    BY <1>1, <2>1, <2>5 DEF Kept
<1>5. ASSUME NEW d \in Clients, Flush(d)
      PROVE  Kept(c)
  <2>1. CASE d = c
    <3>1. got'[c] = Append(got[c], TypeOfReply(Head(output[c]))) /\ conn' = conn
      BY <1>1, <1>5, <2>1 DEF Flush
    <3>2. Len(Append(got[c], TypeOfReply(Head(output[c])))) = Len(got[c]) + 1
      BY <1>1
    <3>3. got'[c] # got[c]
      BY <1>1, <3>1, <3>2
    <3> QED
      BY <1>1, <3>1, <3>3 DEF Kept
  <2>2. CASE d # c
    BY <1>1, <1>5, <2>2 DEF Flush, Kept
  <2> QED
    BY <2>1, <2>2
<1>6. ASSUME NEW d \in Clients, Eof(d)
      PROVE  Kept(c)
  <2>1. CASE d = c
    BY <1>6, <2>1 DEF Eof, Kept
  <2>2. CASE d # c
    BY <1>1, <1>6, <2>2 DEF Eof, Kept
  <2> QED
    BY <2>1, <2>2
<1>7. CASE UNCHANGED vars
  BY <1>2, <1>7 DEF vars
<1>8. CASE Replace
  BY <1>2, <1>8 DEF Replace
<1>9. ASSUME NEW d \in Clients, NEW r \in Requests, Ask(d, r)
      PROVE  Kept(c)
  BY <1>2, <1>9 DEF Ask
<1> QED
  BY <1>3, <1>4, <1>5, <1>6, <1>7, <1>8, <1>9 DEF Next

\* A reply that was built is received, unless its client has closed its end.
THEOREM LostOnlyToLeavers == Spec => ReplyLostOnlyToLeavers
<1>1. IndInv /\ [Next]_vars =>
        [\A c \in Clients :
           /\ Len(output'[c]) < Len(output[c]) => (got'[c] # got[c] \/ conn[c] = "fin")
           /\ conn'[c] = "closed" => conn[c] # "up"]_vars
  BY NextKeeps DEF Kept
<1> QED
  BY Invariance, <1>1, PTL DEF Spec, ReplyLostOnlyToLeavers

-----------------------------------------------------------------------------
(* Replies are not made up: where a reply can come from.                   *)

\* PROTO_VERSION as it stands in a packet.
NetVersion == htonl(HostWord(PROTO_VERSION))

\* A word of a packet tells its value.
LEMMA NetWordTells ==
    ASSUME NEW v \in Nat, FitsWord(v), htonl(HostWord(v)) = NetVersion
    PROVE  v = PROTO_VERSION
<1>1. FitsWord(PROTO_VERSION) /\ PROTO_VERSION \in Nat
  BY SMT DEF FitsWord, PROTO_VERSION
<1>2. ntohl(htonl(HostWord(v))) = HostWord(v) /\ HostValue(HostWord(v)) = v
  BY WordValue, TurnedTwice
<1>3. ntohl(NetVersion) = HostWord(PROTO_VERSION)
      /\ HostValue(HostWord(PROTO_VERSION)) = PROTO_VERSION
  BY <1>1, WordValue, TurnedTwice DEF NetVersion
<1> QED
  BY <1>2, <1>3

\* The version stands third in a request, and at most once more, right behind.
LEMMA VersionPlaces ==
    ASSUME NEW r \in Kinds
    PROVE  /\ Packet(r)[1] # NetVersion /\ Packet(r)[2] # NetVersion
           /\ Packet(r)[3] = NetVersion
           /\ Len(Packet(r)) = 5 => Packet(r)[5] # NetVersion
<1>1. Packet(r)[3] = NetVersion
  BY PacketWords DEF NetVersion
<1>2. Packet(r)[1] # NetVersion
  <2>1. ASSUME NEW k \in 0 .. 2
        PROVE  htonl(HostWord(12 + 4 * k)) # NetVersion
    <3>1. 12 + 4 * k \in Nat /\ FitsWord(12 + 4 * k) /\ 12 + 4 * k # PROTO_VERSION
      BY SMT DEF FitsWord, PROTO_VERSION
    <3> QED
      BY <3>1, NetWordTells
  <2> QED
    BY <2>1, PacketWords
<1>3. Packet(r)[2] # NetVersion
  <2>1. Command(r) # PROTO_VERSION
    BY SMT DEF Kinds, Command, PROTO_VERSION, CS_CMD_REQ_NEW_VERSION, CS_CMD_REQ_REP_DATA,
               CS_CMD_REQ_UPDATE_LINK
  <2> QED
    BY <2>1, PacketWords, NetWordTells
<1>4. ASSUME Len(Packet(r)) = 5
      PROVE  Packet(r)[5] # NetVersion
  <2>1. Len(Packet(r)) = 3 + Len(Content(r)) /\ Len(Content(r)) \in 0 .. 2
    BY PacketWords
  <2>2. Len(Content(r)) = 2
    <3>1. ASSUME NEW k \in 0 .. 2, 3 + k = 5
          PROVE  k = 2
      BY <3>1
    <3> QED
      BY <1>4, <2>1, <3>1
  <2>3. r = "report"
    <3> DEFINE u == htonl(HostWord(svrVersion))
               v == htonl(HostWord(svrVersion + 1))
    <3>1. Len(<<u>>) # 2 /\ Len(<<v>>) # 2 /\ Len(<<>>) # 2
      BY SMT
    <3>2. Content(r) \in {<<u>>, <<v>>, <<>>} \/ r = "report"
      BY DEF Content, Kinds
    <3> QED
      BY <2>2, <3>1, <3>2
  <2>4. Packet(r)[5] = Content(r)[2]
    <3>1. \A i \in 1 .. 2 : Packet(r)[i + 3] = Content(r)[i]
      BY <2>2, PacketWords
    <3>2. Packet(r)[2 + 3] = Content(r)[2]
      BY <3>1
    <3> QED
      BY <3>2
  <2>5. Packet(r)[5] = HostWord(7)
    <3>1. Content(r) = <<HostWord(7), HostWord(7)>>
      BY <2>3 DEF Content
    <3> QED
      BY <2>4, <3>1
  <2>6. HostWord(7)[1] = 7
    BY SMT DEF HostWord
  <2>7. NetVersion[1] = 0
    BY SMT DEF NetVersion, HostWord, htonl, PROTO_VERSION
  <2> QED
    BY <2>5, <2>6, <2>7
<1> QED
  BY <1>1, <1>2, <1>3, <1>4

\* What is not refused has the version in its third word.
LEMMA SpokenVersion ==
    ASSUME NEW pkg \in Seq(Word), NEW q \in ProcessClientPkg(pkg), q.rc = "0"
    PROVE  Len(pkg) >= 3 /\ pkg[3] = NetVersion
<1>1. Len(pkg) \in Nat
  OBVIOUS
<1>2. ~(Len(pkg) < 3)
  BY DEF ProcessClientPkg, Result
<1>3. HostValue(ntohl(pkg[3])) = PROTO_VERSION
  <2>1. ASSUME HostValue(ntohl(pkg[3])) # PROTO_VERSION
        PROVE  q = Result("-2", 0)
    BY <1>2, <2>1 DEF ProcessClientPkg, HeadNtoh
  <2> QED
    BY <2>1 DEF Result
<1>4. pkg[3] \in Word
  BY <1>1, <1>2, ElementOfSeq
<1>5. PICK a, b, c, d \in Byte : pkg[3] = <<a, b, c, d>>
  BY <1>4 DEF Word
<1>6. d + 256 * c + 65536 * b + 16777216 * a = 1111
  BY <1>3, <1>5 DEF HostValue, ntohl, PROTO_VERSION
<1>7. a = 0 /\ b = 0 /\ c = 4 /\ d = 87
  BY <1>6, SMT DEF Byte
<1>8. NetVersion = <<0, 0, 4, 87>>
  <2>1. 1111 % 256 = 87 /\ (1111 \div 256) % 256 = 4 /\ (1111 \div 65536) % 256 = 0
        /\ 1111 \div 16777216 = 0
    BY SMT
  <2> QED
    BY <2>1 DEF NetVersion, HostWord, htonl, PROTO_VERSION
<1> QED
  BY <1>1, <1>2, <1>5, <1>7, <1>8

-----------------------------------------------------------------------------
(* What is on its way to Do_Read.                                          *)

Stream(c) == input[c] \o chan[c]

\* The places where a run of versions begins: a request has its own in its
\* third word, and an argument that equals it only right behind.
Heads(s) == {k \in 2 .. Len(s) : s[k] = NetVersion /\ s[k - 1] # NetVersion}

\* No version stands three times in a row, so two in front of a place end the
\* run there.
Apart(s) == \A k \in 3 .. Len(s) :
               ~(s[k - 2] = NetVersion /\ s[k - 1] = NetVersion /\ s[k] = NetVersion)

\* The places of a finite stream can be counted.
LEMMA HeadsFinite ==
    ASSUME NEW s \in Seq(Word)
    PROVE  IsFiniteSet(Heads(s)) /\ Cardinality(Heads(s)) \in Nat
<1>1. IsFiniteSet(2 .. Len(s))
  BY FS_Interval
<1>2. Heads(s) \in SUBSET (2 .. Len(s))
  BY DEF Heads
<1> QED
  BY <1>1, <1>2, FS_Subset, FS_CardinalityType

\* A request brings one version more.
LEMMA HeadsOfAsked ==
    ASSUME NEW s \in Seq(Word), Apart(s), NEW r \in Kinds
    PROVE  /\ s \o Packet(r) \in Seq(Word) /\ Apart(s \o Packet(r))
           /\ Cardinality(Heads(s \o Packet(r))) <= Cardinality(Heads(s)) + 1
<1> DEFINE p == Packet(r)
           t == s \o p
           m == Len(s)
           n == Len(p)
<1>1. p \in Seq(Word) /\ m \in Nat /\ n \in 3 .. 5
  <2>1. PICK k \in 0 .. 2 : n = 3 + k
    BY PacketWords
  <2>2. p \in Seq(Word) /\ m \in Nat
    BY PacketWords
  <2> HIDE DEF p, m, n
  <2> QED
    BY <2>1, <2>2
<1>2. /\ p[1] # NetVersion /\ p[2] # NetVersion /\ p[3] = NetVersion
      /\ n = 5 => p[5] # NetVersion
  BY VersionPlaces
<1>3. /\ t \in Seq(Word) /\ Len(t) = m + n
      /\ \A k \in 1 .. m + n : t[k] = IF k <= m THEN s[k] ELSE p[k - m]
  BY <1>1, ConcatProperties
<1> HIDE DEF p, t, m, n
<1>4. \A k \in 1 .. m : t[k] = s[k]
  BY <1>1, <1>3
<1>5. \A j \in 1 .. n : t[m + j] = p[j]
  BY <1>1, <1>3
<1>6. /\ t[m + 1] # NetVersion /\ t[m + 2] # NetVersion /\ t[m + 3] = NetVersion
      /\ n = 5 => t[m + 5] # NetVersion
  BY <1>1, <1>2, <1>5
<1>7. \A k \in 1 .. m + n : k > m => k \in {m + 1, m + 2, m + 3, m + 4, m + 5}
  BY <1>1
<1>8. Apart(t)
  <2>1. ASSUME NEW k \in 3 .. m + n, t[k - 2] = NetVersion, t[k - 1] = NetVersion,
               t[k] = NetVersion
        PROVE  FALSE
    <3>1. CASE k <= m
      <4>1. k \in 3 .. m /\ k - 1 \in 1 .. m /\ k - 2 \in 1 .. m /\ k \in 1 .. m
        BY <1>1, <2>1, <3>1
      <4> QED
        BY <1>4, <2>1, <4>1 DEF Apart, m
    <3>2. CASE k > m
      <4>1. k \in {m + 1, m + 2, m + 3, m + 4, m + 5}
        BY <1>1, <1>7, <2>1, <3>2
      <4>2. k # m + 1 /\ k # m + 2
        BY <1>6, <2>1
      <4>3. k - 1 # m + 2 /\ k - 2 # m + 2
        BY <1>6, <2>1
      <4>4. CASE k = m + 5
        BY <1>1, <1>6, <2>1, <4>4
      <4> QED
        BY <1>1, <4>1, <4>2, <4>3, <4>4
    <3> QED
      BY <1>1, <2>1, <3>1, <3>2
  <2> QED
    BY <1>3, <2>1 DEF Apart
<1>9. Heads(t) \subseteq Heads(s) \cup {m + 3}
  <2>1. ASSUME NEW k \in 2 .. m + n, t[k] = NetVersion, t[k - 1] # NetVersion
        PROVE  k \in Heads(s) \cup {m + 3}
    <3>1. CASE k <= m
      <4>1. k \in 2 .. m /\ k - 1 \in 1 .. m /\ k \in 1 .. m
        BY <1>1, <2>1, <3>1
      <4> QED
        BY <1>4, <2>1, <4>1 DEF Heads, m
    <3>2. CASE k > m
      <4>1. k \in {m + 1, m + 2, m + 3, m + 4, m + 5}
        BY <1>1, <1>7, <2>1, <3>2
      <4>2. k # m + 1 /\ k # m + 2 /\ k - 1 # m + 3
        BY <1>6, <2>1
      <4>3. k # m + 5
        BY <1>1, <1>6, <2>1
      <4> QED
        BY <1>1, <4>1, <4>2, <4>3
    <3> QED
      BY <1>1, <2>1, <3>1, <3>2
  <2> QED
    BY <1>3, <2>1 DEF Heads
<1>10. Cardinality(Heads(t)) <= Cardinality(Heads(s)) + 1
  <2>1. IsFiniteSet(Heads(s)) /\ Cardinality(Heads(s)) \in Nat
    BY HeadsFinite
  <2>2. /\ IsFiniteSet(Heads(s) \cup {m + 3})
        /\ Cardinality(Heads(s) \cup {m + 3}) <= Cardinality(Heads(s)) + 1
    <3>1. /\ IsFiniteSet(Heads(s) \cup {m + 3})
          /\ Cardinality(Heads(s) \cup {m + 3})
               \in {Cardinality(Heads(s)), Cardinality(Heads(s)) + 1}
      BY <2>1, FS_AddElement, Zenon
    <3> QED
      BY <2>1, <3>1
  <2>3. /\ Cardinality(Heads(t)) <= Cardinality(Heads(s) \cup {m + 3})
        /\ Cardinality(Heads(t)) \in Nat /\ Cardinality(Heads(s) \cup {m + 3}) \in Nat
    BY <1>3, <1>9, <2>2, FS_Subset, HeadsFinite, FS_CardinalityType
  <2> QED
    BY <2>1, <2>2, <2>3
<1> QED
  BY <1>3, <1>8, <1>10 DEF t, p

\* Taking words from the front takes no version twice, and takes one with a
\* packet that is not refused.
LEMMA HeadsOfRest ==
    ASSUME NEW s \in Seq(Word), Apart(s), NEW n \in 1 .. Len(s),
           NEW t, t = SubSeq(s, n + 1, Len(s))
    PROVE  /\ t \in Seq(Word) /\ Apart(t)
           /\ Cardinality(Heads(t)) <= Cardinality(Heads(s))
           /\ n >= 3 /\ s[3] = NetVersion
                 => Cardinality(Heads(t)) + 1 <= Cardinality(Heads(s))
<1>1. /\ Len(s) \in Nat /\ n \in Nat /\ 1 <= n /\ n <= Len(s)
      /\ \A k \in n + 1 .. Len(s) : s[k] \in Word
  <2>1. Len(s) \in Nat
    OBVIOUS
  <2>2. \A k \in 1 .. Len(s) : s[k] \in Word
    BY ElementOfSeq
  <2> QED
    BY <2>1, <2>2
<1>2. /\ t \in Seq(Word) /\ Len(t) = Len(s) - n
      /\ \A k \in 1 .. Len(s) - n : t[k] = s[n + k]
  <2>1. n + 1 \in Int /\ Len(s) \in Int
    BY <1>1
  <2>2. /\ t \in Seq(Word)
        /\ Len(t) = IF n + 1 <= Len(s) THEN Len(s) - (n + 1) + 1 ELSE 0
        /\ \A k \in 1 .. Len(s) - (n + 1) + 1 : t[k] = s[n + 1 + k - 1]
    BY <1>1, <2>1, SubSeqProperties
  <2> QED
    BY <1>1, <2>2
<1>3. Apart(t)
  <2>1. ASSUME NEW k \in 3 .. Len(t), t[k - 2] = NetVersion, t[k - 1] = NetVersion,
               t[k] = NetVersion
        PROVE  FALSE
    <3>1. /\ n + k \in 3 .. Len(s) /\ s[n + k] = t[k]
          /\ s[n + k - 1] = t[k - 1] /\ s[n + k - 2] = t[k - 2]
      <4>1. /\ k \in 1 .. Len(s) - n /\ k - 1 \in 1 .. Len(s) - n /\ k - 2 \in 1 .. Len(s) - n
            /\ n + (k - 1) = n + k - 1 /\ n + (k - 2) = n + k - 2 /\ n + k \in 3 .. Len(s)
        BY <1>1, <1>2, <2>1
      <4>2. t[k] = s[n + k] /\ t[k - 1] = s[n + (k - 1)] /\ t[k - 2] = s[n + (k - 2)]
        BY <1>2, <4>1
      <4> QED
        BY <4>1, <4>2
    <3> QED
      BY <2>1, <3>1 DEF Apart
  <2> QED
    BY <2>1 DEF Apart
<1>4. \A k \in Heads(t) : n + k \in Heads(s) /\ n + k > 3 - 1
  <2>1. ASSUME NEW k \in 2 .. Len(t), t[k] = NetVersion, t[k - 1] # NetVersion
        PROVE  n + k \in Heads(s) /\ n + k > 3 - 1
    <3>1. /\ n + k \in 2 .. Len(s) /\ s[n + k] = t[k] /\ s[n + k - 1] = t[k - 1]
          /\ n + k > 3 - 1
      <4>1. /\ k \in 1 .. Len(s) - n /\ k - 1 \in 1 .. Len(s) - n
            /\ n + (k - 1) = n + k - 1 /\ n + k \in 2 .. Len(s) /\ n + k > 3 - 1
        BY <1>1, <1>2, <2>1
      <4> QED
        BY <1>2, <4>1
    <3>2. n + k \in Heads(s)
      BY <2>1, <3>1 DEF Heads
    <3> QED
      BY <3>1, <3>2
  <2> QED
    BY <2>1 DEF Heads
<1>5. ASSUME NEW T \in SUBSET Heads(s), \A k \in Heads(t) : n + k \in T
      PROVE  Cardinality(Heads(t)) <= Cardinality(T)
  <2> DEFINE f == [k \in Heads(t) |-> n + k]
  <2>1. f \in [Heads(t) -> T]
    BY <1>5
  <2>2. \A k, j \in Heads(t) : f[k] = f[j] => k = j
    <3>1. \A k \in Heads(t) : k \in Nat
      BY <1>2 DEF Heads
    <3> QED
      BY <1>1, <3>1
  <2>3. f \in Injection(Heads(t), T)
    BY <2>1, <2>2 DEF Injection, IsInjective
  <2>4. IsFiniteSet(T)
    BY HeadsFinite, FS_Subset
  <2> HIDE DEF f
  <2> QED
    BY <2>3, <2>4, FS_Injection
<1>6. Cardinality(Heads(t)) <= Cardinality(Heads(s))
  BY <1>4, <1>5
<1>7. ASSUME n >= 3, s[3] = NetVersion
      PROVE  Cardinality(Heads(t)) + 1 <= Cardinality(Heads(s))
  <2>1. PICK h \in {2, 3} : h \in Heads(s)
    <3>1. CASE s[2] # NetVersion
      BY <1>1, <1>7, <3>1 DEF Heads
    <3>2. CASE s[2] = NetVersion
      <4>1. s[1] # NetVersion
        <5>1. 3 \in 3 .. Len(s) /\ 3 - 1 = 2 /\ 3 - 2 = 1
          BY <1>1, <1>7
        <5> QED
          BY <1>7, <3>2, <5>1 DEF Apart
      <4> QED
        BY <1>1, <1>7, <3>2, <4>1 DEF Heads
    <3> QED
      BY <3>1, <3>2
  <2>2. \A k \in Heads(t) : n + k \in Heads(s) \ {h}
    <3>1. \A k \in Heads(t) : k \in Nat /\ k >= 2
      BY <1>2 DEF Heads
    <3> QED
      BY <1>1, <1>4, <1>7, <3>1
  <2>3. Cardinality(Heads(t)) <= Cardinality(Heads(s) \ {h})
    BY <1>5, <2>2
  <2>4. Cardinality(Heads(s) \ {h}) = Cardinality(Heads(s)) - 1
    BY <2>1, HeadsFinite, FS_RemoveElement
  <2>5. Cardinality(Heads(t)) \in Nat /\ Cardinality(Heads(s)) \in Nat
    BY <1>2, HeadsFinite
  <2> QED
    BY <2>3, <2>4, <2>5
<1> QED
  BY <1>2, <1>3, <1>6, <1>7

\* Words joined to words, in whichever order.
LEMMA JoinedWords ==
    ASSUME NEW a \in Seq(Word), NEW b \in Seq(Word), NEW c \in Seq(Word)
    PROVE  (a \o b) \o c = a \o (b \o c)
BY ConcatAssociative

\* A read cuts the stream in two and changes no word of it.
LEMMA StreamCut ==
    ASSUME NEW a \in Seq(Word), NEW b \in Seq(Word), NEW n \in 1 .. Len(b)
    PROVE  /\ (a \o SubSeq(b, 1, n)) \o SubSeq(b, n + 1, Len(b)) = a \o b
           /\ a \o SubSeq(b, 1, n) \in Seq(Word) /\ Len(a \o SubSeq(b, 1, n)) = Len(a) + n
           /\ \A k \in 1 .. Len(a) + n : (a \o SubSeq(b, 1, n))[k] = (a \o b)[k]
           /\ SubSeq(b, n + 1, Len(b)) = SubSeq(a \o b, Len(a) + n + 1, Len(a \o b))
           /\ a \o b \in Seq(Word) /\ Len(a) + n \in 1 .. Len(a \o b) /\ Len(a) \in Nat
<1> DEFINE x == SubSeq(b, 1, n)
           y == SubSeq(b, n + 1, Len(b))
<1>1. Len(a) \in Nat /\ Len(b) \in Nat /\ n \in Nat /\ 1 <= n /\ n <= Len(b)
  OBVIOUS
<1>2. \A k \in 1 .. Len(b) : b[k] \in Word
  BY ElementOfSeq
<1>3. x \in Seq(Word) /\ Len(x) = n /\ \A k \in 1 .. n : x[k] = b[k]
  <2>1. 1 \in Int /\ n \in Int /\ \A k \in 1 .. n : b[k] \in Word
    BY <1>1, <1>2
  <2>2. /\ x \in Seq(Word) /\ Len(x) = IF 1 <= n THEN n - 1 + 1 ELSE 0
        /\ \A k \in 1 .. n - 1 + 1 : x[k] = b[1 + k - 1]
    BY <2>1, SubSeqProperties
  <2> QED
    BY <1>1, <2>2
<1>4. y \in Seq(Word)
  <2>1. n + 1 \in Int /\ Len(b) \in Int /\ \A k \in n + 1 .. Len(b) : b[k] \in Word
    BY <1>1, <1>2
  <2> QED
    BY <2>1, SubSeqProperties
<1>5. x \o y = b
  <2>1. 1 \in 1 .. Len(b) + 1 /\ n \in 1 - 1 .. Len(b) /\ Len(b) \in n .. Len(b)
    BY <1>1
  <2>2. x \o y = SubSeq(b, 1, Len(b))
    BY <2>1, ConcatAdjacentSubSeq
  <2> QED
    BY <2>2, SubSeqFull
<1>6. (a \o x) \o y = a \o b
  <2>1. x \in Seq(Word) /\ y \in Seq(Word)
    BY <1>3, <1>4
  <2> HIDE DEF x, y
  <2>2. (a \o x) \o y = a \o (x \o y)
    BY <2>1, JoinedWords
  <2> QED
    BY <1>5, <2>2
<1>7. /\ a \o b \in Seq(Word) /\ Len(a \o b) = Len(a) + Len(b)
      /\ \A k \in 1 .. Len(a) + Len(b) : (a \o b)[k] = IF k <= Len(a) THEN a[k] ELSE b[k - Len(a)]
  BY ConcatProperties
<1>8. /\ a \o x \in Seq(Word) /\ Len(a \o x) = Len(a) + n
      /\ \A k \in 1 .. Len(a) + n : (a \o x)[k] = IF k <= Len(a) THEN a[k] ELSE x[k - Len(a)]
  BY <1>3, ConcatProperties
<1>9. ASSUME NEW k \in 1 .. Len(a) + n
      PROVE  (a \o x)[k] = (a \o b)[k]
  <2>1. CASE k <= Len(a)
    BY <1>1, <1>7, <1>8, <2>1
  <2>2. CASE k > Len(a)
    <3>1. k - Len(a) \in 1 .. n /\ k \in 1 .. Len(a) + Len(b) /\ ~(k <= Len(a))
      BY <1>1, <2>2
    <3> QED
      BY <1>3, <1>7, <1>8, <3>1
  <2> QED
    BY <1>1, <2>1, <2>2
<1>10. y = SubSeq(a \o b, Len(a) + n + 1, Len(a \o b))
  <2>1. CASE n = Len(b)
    <3>1. /\ n + 1 \in Int /\ Len(b) \in Int /\ Len(b) < n + 1
          /\ Len(a) + n + 1 \in Int /\ Len(a \o b) \in Int /\ Len(a \o b) < Len(a) + n + 1
      BY <1>1, <1>7, <2>1
    <3>2. y = <<>>
      BY <3>1, SubSeqEmpty
    <3>3. SubSeq(a \o b, Len(a) + n + 1, Len(a \o b)) = <<>>
      BY <3>1, SubSeqEmpty
    <3> QED
      BY <3>2, <3>3
  <2>2. CASE n < Len(b)
    <3>1. /\ Len(a) + n + 1 \in Len(a) + 1 .. Len(a) + Len(b)
          /\ Len(a) + Len(b) \in Len(a) + 1 .. Len(a) + Len(b)
          /\ Len(a) + n + 1 - Len(a) = n + 1 /\ Len(a) + Len(b) - Len(a) = Len(b)
      BY <1>1, <2>2
    <3>2. SubSeq(a \o b, Len(a) + n + 1, Len(a) + Len(b))
            = SubSeq(b, Len(a) + n + 1 - Len(a), Len(a) + Len(b) - Len(a))
      BY <3>1, SubSeqOfConcat2
    <3> QED
      BY <1>7, <3>1, <3>2
  <2> QED
    BY <1>1, <2>1, <2>2
<1>11. Len(a) + n \in 1 .. Len(a \o b)
  BY <1>1, <1>7
<1> QED
  BY <1>1, <1>6, <1>7, <1>8, <1>9, <1>10, <1>11

-----------------------------------------------------------------------------
\* The inductive invariant of the count: what a client has got and has coming,
\* with one more for every version still on its way, it has asked for.
CountedAt(c) ==
    /\ Apart(Stream(c))
    /\ Len(got[c]) + Len(output[c]) + Cardinality(Heads(Stream(c))) <= Len(asked[c])

Counted == \A c \in Clients : CountedAt(c)

\* The types of what CountedAt counts.
LEMMA CountTypes ==
    ASSUME Types, NEW c \in Clients
    PROVE  /\ Stream(c) \in Seq(Word) /\ chan[c] \in Seq(Word) /\ input[c] \in Seq(Word)
           /\ Cardinality(Heads(Stream(c))) \in Nat
           /\ Len(got[c]) \in Nat /\ Len(output[c]) \in Nat /\ Len(asked[c]) \in Nat
           /\ output[c] \in Seq(Framed) /\ got[c] \in Seq(Nat) /\ asked[c] \in Seq(Requests)
<1>1. /\ chan[c] \in Seq(Word) /\ input[c] \in Seq(Word) /\ output[c] \in Seq(Framed)
      /\ got[c] \in Seq(Nat) /\ asked[c] \in Seq(Requests)
  BY DEF Types
<1>2. Stream(c) \in Seq(Word)
  BY <1>1, ConcatProperties DEF Stream
<1> QED
  BY <1>1, <1>2, HeadsFinite, LenProperties

\* Sums of what a client has got, has coming and may have coming.
LEMMA LessToCome ==
    ASSUME NEW g \in Nat, NEW o \in Nat, NEW h \in Nat, NEW a \in Nat, g + o + h <= a
    PROVE  /\ g + o <= a /\ g + 0 + 0 <= a
           /\ \A p, k \in Nat : p + k <= o + h => g + p + k <= a
  OBVIOUS

\* The same, when one more is asked for.
LEMMA OneMoreToCome ==
    ASSUME NEW g \in Nat, NEW o \in Nat, NEW h \in Nat, NEW a \in Nat, g + o + h <= a,
           NEW k \in Nat, k <= h + 1
    PROVE  g + o + k <= a + 1
  OBVIOUS

\* What other clients do takes and gives nothing.
LEMMA OthersCounted ==
    ASSUME NEW c \in Clients, CountedAt(c),
           /\ asked'[c] = asked[c] /\ got'[c] = got[c] /\ output'[c] = output[c]
           /\ chan'[c] = chan[c] /\ input'[c] = input[c]
    PROVE  CountedAt(c)'
<1>1. Stream(c)' = Stream(c)
  BY DEF Stream
<1> QED
  BY <1>1 DEF CountedAt, Apart, Heads, NetVersion

\* A request adds one to both sides.
LEMMA AskCounted ==
    ASSUME IndInv, Counted, NEW c \in Clients, NEW r \in Requests, Ask(c, r)
    PROVE  Counted'
<1>1. /\ asked' = [asked EXCEPT ![c] = Append(asked[c], r)]
      /\ chan'  = [chan EXCEPT ![c] = chan[c] \o Packet(r)]
      /\ UNCHANGED <<got, conn, input, output, lost, file>>
  BY DEF Ask
<1>2. /\ asked \in [Clients -> Seq(Requests)] /\ chan \in [Clients -> Seq(Word)]
      /\ r \in Kinds
  BY SessionAssumption DEF IndInv, Types
<1>3. ASSUME NEW d \in Clients, d # c
      PROVE  CountedAt(d)'
  BY <1>1, <1>2, <1>3, OthersCounted DEF Counted
<1>4. CountedAt(c)'
  <2>1. /\ Stream(c) \in Seq(Word) /\ chan[c] \in Seq(Word) /\ input[c] \in Seq(Word)
        /\ Cardinality(Heads(Stream(c))) \in Nat
        /\ Len(got[c]) \in Nat /\ Len(output[c]) \in Nat /\ Len(asked[c]) \in Nat
        /\ asked[c] \in Seq(Requests)
    BY CountTypes DEF IndInv
  <2>2. Stream(c)' = Stream(c) \o Packet(r)
    <3>1. Stream(c)' = input[c] \o (chan[c] \o Packet(r))
      BY <1>1, <1>2 DEF Stream
    <3>2. Packet(r) \in Seq(Word)
      BY <1>2, PacketWords
    <3>3. (input[c] \o chan[c]) \o Packet(r) = input[c] \o (chan[c] \o Packet(r))
      BY <2>1, <3>2, JoinedWords
    <3> QED
      BY <3>1, <3>3 DEF Stream
  <2>3. /\ Stream(c) \o Packet(r) \in Seq(Word) /\ Apart(Stream(c) \o Packet(r))
        /\ Cardinality(Heads(Stream(c) \o Packet(r))) <= Cardinality(Heads(Stream(c))) + 1
    BY <1>2, <2>1, HeadsOfAsked DEF Counted, CountedAt
  <2>4. Cardinality(Heads(Stream(c) \o Packet(r))) \in Nat
    BY <2>3, HeadsFinite
  <2>5. Len(asked'[c]) = Len(asked[c]) + 1 /\ got'[c] = got[c] /\ output'[c] = output[c]
    BY <1>1, <1>2, <2>1, AppendProperties
  <2>6. Len(got[c]) + Len(output[c]) + Cardinality(Heads(Stream(c) \o Packet(r)))
          <= Len(asked[c]) + 1
    <3>1. Len(got[c]) + Len(output[c]) + Cardinality(Heads(Stream(c))) <= Len(asked[c])
      BY DEF Counted, CountedAt
    <3> QED
      BY <2>1, <2>3, <2>4, <3>1, OneMoreToCome
  <2>7. Apart(Stream(c))' /\ Heads(Stream(c))' = Heads(Stream(c) \o Packet(r))
    BY <2>2, <2>3 DEF Apart, Heads, NetVersion
  <2> QED
    BY <2>5, <2>6, <2>7 DEF CountedAt
<1> QED
  BY <1>3, <1>4 DEF Counted

\* A read answers only a packet whose version it takes from the stream.
LEMMA ReadCounted ==
    ASSUME IndInv, Counted, NEW c \in Clients, DoRead(c)
    PROVE  Counted'
<1> DEFINE Left(n)   == /\ Blocks = 0 /\ UNCHANGED <<output, lost>>
                        /\ input' = [input EXCEPT ![c] = Buffered(c, n)]
           Taken     == /\ Blocks # 0 /\ input' = [input EXCEPT ![c] = <<>>]
                        /\ lost' \in {lost, lost + 1} /\ lost' <= HeapBlocks
           Silent    == output' = [output EXCEPT ![c] = @ \o <<>>]
           Says(p)   == output' = [output EXCEPT ![c] = @ \o <<p>>]
           Sound(n, p) == \E q \in ProcessClientPkg(Buffered(c, n)) :
                            /\ q.rc = "0" /\ q.pkgType = TypeOfReply(p)
                            /\ q.pkgType \in {CS_CMD_RES_IS_UPDATE,
                                              CS_CMD_RES_SEND_PLUGIN}
<1>1. UNCHANGED <<asked, got, conn, file>>
  BY ReadStep DEF IndInv
<1>2. PICK n \in Sizes(c) :
        /\ chan' = [chan EXCEPT ![c] = SubSeq(@, n + 1, Len(@))]
        /\ \/ Left(n)
           \/ Taken /\ (Silent \/ \E p \in Framed : Says(p) /\ Sound(n, p))
  BY ReadStep DEF IndInv
<1>3. /\ chan \in [Clients -> Seq(Word)] /\ input \in [Clients -> Seq(Word)]
      /\ output \in [Clients -> Seq(Framed)]
  BY DEF IndInv, Types
<1>4. /\ Stream(c) \in Seq(Word) /\ chan[c] \in Seq(Word) /\ input[c] \in Seq(Word)
      /\ Cardinality(Heads(Stream(c))) \in Nat /\ output[c] \in Seq(Framed)
      /\ Len(got[c]) \in Nat /\ Len(output[c]) \in Nat /\ Len(asked[c]) \in Nat
  BY CountTypes DEF IndInv
<1>5. n \in 1 .. Len(chan[c])
  BY DEF Sizes
<1> DEFINE k == Len(input[c]) + n
           rest == SubSeq(chan[c], n + 1, Len(chan[c]))
<1>6. /\ Buffered(c, n) \o rest = Stream(c)
      /\ Buffered(c, n) \in Seq(Word) /\ Len(Buffered(c, n)) = k
      /\ \A j \in 1 .. k : Buffered(c, n)[j] = Stream(c)[j]
      /\ rest = SubSeq(Stream(c), k + 1, Len(Stream(c)))
      /\ k \in 1 .. Len(Stream(c)) /\ k \in Nat
  <2> DEFINE a == input[c]
             b == chan[c]
  <2>1. a \in Seq(Word) /\ b \in Seq(Word) /\ n \in 1 .. Len(b)
    BY <1>4, <1>5
  <2>2. /\ Buffered(c, n) = a \o SubSeq(b, 1, n) /\ Stream(c) = a \o b
        /\ k = Len(a) + n /\ rest = SubSeq(b, n + 1, Len(b))
    BY DEF Buffered, Stream
  <2> HIDE DEF a, b, k, rest
  <2>3. /\ (a \o SubSeq(b, 1, n)) \o rest = a \o b
        /\ a \o SubSeq(b, 1, n) \in Seq(Word) /\ Len(a \o SubSeq(b, 1, n)) = k
        /\ \A j \in 1 .. k : (a \o SubSeq(b, 1, n))[j] = (a \o b)[j]
        /\ rest = SubSeq(a \o b, k + 1, Len(a \o b))
        /\ k \in 1 .. Len(a \o b) /\ Len(a) \in Nat
    BY <2>1, <2>2, StreamCut, Zenon
  <2>4. k \in Nat
    BY <2>1, <2>2, <2>3
  <2> QED
    BY <2>2, <2>3, <2>4
<1>7. /\ rest \in Seq(Word) /\ Apart(rest)
      /\ Cardinality(Heads(rest)) <= Cardinality(Heads(Stream(c)))
      /\ k >= 3 /\ Stream(c)[3] = NetVersion
           => Cardinality(Heads(rest)) + 1 <= Cardinality(Heads(Stream(c)))
  <2> HIDE DEF k, rest
  <2> QED
    BY <1>4, <1>6, HeadsOfRest DEF Counted, CountedAt
<1>8. Cardinality(Heads(rest)) \in Nat
  BY <1>7, HeadsFinite
<1>9. chan'[c] = rest
  BY <1>2, <1>3
<1> HIDE DEF k, rest, Sound
<1>10. ASSUME NEW d \in Clients, d # c
       PROVE  CountedAt(d)'
  <2>1. chan'[d] = chan[d] /\ input'[d] = input[d] /\ output'[d] = output[d]
    BY <1>2, <1>3, <1>10
  <2> QED
    BY <1>1, <2>1, OthersCounted DEF Counted
<1>11. ASSUME Stream(c)' = rest, output'[c] \in Seq(Framed),
              Len(output'[c]) + Cardinality(Heads(rest))
                <= Len(output[c]) + Cardinality(Heads(Stream(c)))
       PROVE  CountedAt(c)'
  <2>1. Apart(Stream(c))' /\ Heads(Stream(c))' = Heads(rest)
    BY <1>7, <1>11 DEF Apart, Heads, NetVersion
  <2>2. Len(got[c]) + Len(output'[c]) + Cardinality(Heads(rest)) <= Len(asked[c])
    <3>1. Len(output'[c]) \in Nat
      BY <1>11
    <3>2. Len(got[c]) + Len(output[c]) + Cardinality(Heads(Stream(c))) <= Len(asked[c])
      BY DEF Counted, CountedAt
    <3> QED
      BY <1>4, <1>8, <1>11, <3>1, <3>2, LessToCome
  <2> QED
    BY <1>1, <2>1, <2>2 DEF CountedAt
<1>12. CountedAt(c)'
  <2>1. CASE Left(n)
    <3>1. Stream(c)' = Stream(c)
      BY <1>3, <1>6, <1>9, <2>1 DEF Stream
    <3> QED
      BY <1>1, <2>1, <3>1 DEF Counted, CountedAt, Apart, Heads, NetVersion
  <2>2. ASSUME Taken
        PROVE  Stream(c)' = rest
    <3>1. Stream(c)' = <<>> \o rest
      BY <1>3, <1>9, <2>2 DEF Stream
    <3> QED
      BY <1>7, <3>1, ConcatEmptySeq
  <2>3. CASE Taken /\ Silent
    <3>1. output'[c] = output[c]
      BY <1>3, <1>4, <2>3, ConcatEmptySeq
    <3> QED
      BY <1>4, <1>7, <1>8, <1>11, <2>2, <2>3, <3>1
  <2>4. ASSUME Taken, NEW p \in Framed, Says(p), Sound(n, p)
        PROVE  CountedAt(c)'
    <3>1. k >= 3 /\ Stream(c)[3] = NetVersion
      <4>1. Len(Buffered(c, n)) >= 3 /\ Buffered(c, n)[3] = NetVersion
        BY <1>6, <2>4, SpokenVersion DEF Sound
      <4> QED
        BY <1>6, <4>1
    <3>2. output'[c] \in Seq(Framed) /\ Len(output'[c]) = Len(output[c]) + 1
      <4>1. <<p>> \in Seq(Framed) /\ Len(<<p>>) = 1
        OBVIOUS
      <4>2. output'[c] = output[c] \o <<p>>
        BY <1>3, <2>4
      <4> QED
        BY <1>4, <4>1, <4>2, ConcatProperties
    <3>3. Cardinality(Heads(rest)) + 1 <= Cardinality(Heads(Stream(c)))
      BY <1>7, <3>1
    <3>4. Len(output'[c]) + Cardinality(Heads(rest))
            <= Len(output[c]) + Cardinality(Heads(Stream(c)))
      BY <1>4, <1>8, <3>2, <3>3
    <3> QED
      BY <1>11, <2>2, <2>4, <3>2, <3>4
  <2> QED
    BY <1>2, <2>1, <2>3, <2>4
<1> QED
  BY <1>10, <1>12 DEF Counted

\* A reply that leaves for its client is counted there.
LEMMA FlushCounted ==
    ASSUME IndInv, Counted, NEW c \in Clients, Flush(c)
    PROVE  Counted'
<1> DEFINE t == TypeOfReply(Head(output[c]))
<1>1. /\ output[c] # <<>>
      /\ got' = [got EXCEPT ![c] = Append(got[c], t)]
      /\ output' = [output EXCEPT ![c] = Tail(output[c])]
      /\ UNCHANGED <<asked, conn, chan, input, lost, file>>
  BY DEF Flush
<1> HIDE DEF t
<1>2. got \in [Clients -> Seq(Nat)] /\ output \in [Clients -> Seq(Framed)]
  BY DEF IndInv, Types
<1>3. ASSUME NEW d \in Clients, d # c
      PROVE  CountedAt(d)'
  BY <1>1, <1>2, <1>3, OthersCounted DEF Counted
<1>4. CountedAt(c)'
  <2>1. /\ Cardinality(Heads(Stream(c))) \in Nat /\ output[c] \in Seq(Framed)
        /\ Len(got[c]) \in Nat /\ Len(output[c]) \in Nat /\ Len(asked[c]) \in Nat
        /\ got[c] \in Seq(Nat)
    BY CountTypes DEF IndInv
  <2>2. Len(got'[c]) = Len(got[c]) + 1
    BY <1>1, <1>2, <2>1
  <2>3. Len(output'[c]) = Len(output[c]) - 1
    BY <1>1, <1>2, <2>1, HeadTailProperties
  <2>4. Stream(c)' = Stream(c)
    BY <1>1 DEF Stream
  <2>5. Apart(Stream(c))' /\ Heads(Stream(c))' = Heads(Stream(c))
    BY <2>4 DEF Counted, CountedAt, Apart, Heads, NetVersion
  <2>6. Len(got'[c]) + Len(output'[c]) = Len(got[c]) + Len(output[c])
    <3>1. ASSUME NEW g \in Nat, NEW o \in Nat
          PROVE  (g + 1) + (o - 1) = g + o
      OBVIOUS
    <3> QED
      BY <2>1, <2>2, <2>3, <3>1
  <2> QED
    BY <1>1, <2>5, <2>6 DEF Counted, CountedAt
<1> QED
  BY <1>3, <1>4 DEF Counted

\* What Do_Eventcb frees with the connection is owed no more.
LEMMA EofCounted ==
    ASSUME IndInv, Counted, NEW c \in Clients, Eof(c)
    PROVE  Counted'
<1>1. /\ chan[c] = <<>>
      /\ input' = [input EXCEPT ![c] = <<>>] /\ output' = [output EXCEPT ![c] = <<>>]
      /\ UNCHANGED <<asked, got, chan, lost, file>>
  BY DEF Eof
<1>2. input \in [Clients -> Seq(Word)] /\ output \in [Clients -> Seq(Framed)]
  BY DEF IndInv, Types
<1>3. ASSUME NEW d \in Clients, d # c
      PROVE  CountedAt(d)'
  BY <1>1, <1>2, <1>3, OthersCounted DEF Counted
<1>4. CountedAt(c)'
  <2>1. /\ Cardinality(Heads(Stream(c))) \in Nat
        /\ Len(got[c]) \in Nat /\ Len(output[c]) \in Nat /\ Len(asked[c]) \in Nat
    BY CountTypes DEF IndInv
  <2>2. Stream(c)' = <<>> /\ output'[c] = <<>>
    <3>1. <<>> \in Seq(Word) /\ <<>> \o <<>> = <<>>
      BY ConcatEmptySeq
    <3> QED
      BY <1>1, <1>2, <3>1 DEF Stream
  <2>3. Len(<<>>) = 0
    OBVIOUS
  <2>4. Apart(Stream(c))' /\ Heads(Stream(c))' = {}
    BY <2>2, <2>3 DEF Apart, Heads
  <2>5. Len(got[c]) + 0 + 0 <= Len(asked[c])
    <3>1. Len(got[c]) + Len(output[c]) + Cardinality(Heads(Stream(c))) <= Len(asked[c])
      BY DEF Counted, CountedAt
    <3> QED
      BY <2>1, <3>1, LessToCome
  <2> QED
    BY <1>1, <2>2, <2>3, <2>4, <2>5, FS_EmptySet DEF CountedAt
<1> QED
  BY <1>3, <1>4 DEF Counted

\* Every step keeps the count.
LEMMA NextCounted == IndInv /\ Counted /\ [Next]_vars => Counted'
<1> SUFFICES ASSUME IndInv, Counted, [Next]_vars
             PROVE  Counted'
  OBVIOUS
<1>1. CASE UNCHANGED <<asked, got, chan, input, output>>
  BY <1>1, OthersCounted DEF Counted
<1>2. CASE UNCHANGED vars
  BY <1>1, <1>2 DEF vars
<1>3. CASE Replace
  BY <1>1, <1>3 DEF Replace
<1>4. ASSUME NEW c \in Clients, HangUp(c)
      PROVE  Counted'
  BY <1>1, <1>4 DEF HangUp
<1> QED
  BY <1>2, <1>3, <1>4, AskCounted, ReadCounted, FlushCounted, EofCounted DEF Next

\* However TCP cuts the streams, no client has more replies, received or waiting
\* in its output, than it has asked for: a reply costs a version, and Do_Read
\* takes each from its input once.
THEOREM NoSpuriousReplyHolds == Spec => []NoSpuriousReply
<1>1. Init => Counted
  <2> SUFFICES ASSUME Init, NEW c \in Clients
               PROVE  CountedAt(c)
    BY DEF Counted
  <2>1. /\ asked[c] = <<>> /\ got[c] = <<>> /\ output[c] = <<>>
        /\ chan[c] = <<>> /\ input[c] = <<>>
    BY DEF Init
  <2>2. Stream(c) = <<>> /\ Len(<<>>) = 0
    <3>1. <<>> \in Seq(Word) /\ <<>> \o <<>> = <<>>
      BY ConcatEmptySeq
    <3> QED
      BY <2>1, <3>1 DEF Stream
  <2>3. Apart(Stream(c)) /\ Heads(Stream(c)) = {}
    BY <2>2 DEF Apart, Heads
  <2> QED
    BY <2>1, <2>2, <2>3, FS_EmptySet DEF CountedAt
<1>2. IndInv /\ Counted => NoSpuriousReply
  <2> SUFFICES ASSUME IndInv, Counted, NEW c \in Clients
               PROVE  Len(got[c]) + Len(output[c]) <= Len(asked[c])
    BY DEF NoSpuriousReply
  <2>1. /\ Cardinality(Heads(Stream(c))) \in Nat
        /\ Len(got[c]) \in Nat /\ Len(output[c]) \in Nat /\ Len(asked[c]) \in Nat
    BY CountTypes DEF IndInv
  <2>2. Len(got[c]) + Len(output[c]) + Cardinality(Heads(Stream(c))) <= Len(asked[c])
    BY DEF Counted, CountedAt
  <2> HIDE DEF IndInv, Counted
  <2> QED
    BY <2>1, <2>2, LessToCome
<1> QED
  BY <1>1, <1>2, NextCounted, Invariance, PTL DEF Spec

-----------------------------------------------------------------------------
(* The promised service, of which the clients that wait are the clients.   *)

PatientService == INSTANCE PluginService WITH
    Clients <- Patient,
    asked   <- [c \in Patient |-> asked[c]],
    got     <- [c \in Patient |-> got[c]],
    up      <- [c \in Patient |-> conn[c] = "up"]

\* What a step leaves alone of the clients that wait, the service does not see.
Unseen == \A c \in Patient : /\ asked'[c] = asked[c] /\ got'[c] = got[c]
                             /\ (conn'[c] = "up") = (conn[c] = "up")

\* Steps that it does not see are stutters of it.
LEMMA UnseenStutters ==
    ASSUME Unseen
    PROVE  UNCHANGED PatientService!vars
<1>1. /\ [c \in Patient |-> asked[c]]' = [c \in Patient |-> asked[c]]
      /\ [c \in Patient |-> got[c]]' = [c \in Patient |-> got[c]]
      /\ [c \in Patient |-> conn[c] = "up"]' = [c \in Patient |-> conn[c] = "up"]
  BY DEF Unseen
<1> QED
  BY <1>1 DEF PatientService!vars

\* A reply reaches a client that waits: the answer to the first of its requests
\* that has none.
LEMMA FlushServes ==
    ASSUME IndInv, NEW c \in Patient, Flush(c)
    PROVE  PatientService!Reply(c)
<1> DEFINE t == TypeOfReply(Head(output[c]))
<1>1. /\ output[c] # <<>>
      /\ got' = [got EXCEPT ![c] = Append(got[c], t)]
      /\ UNCHANGED <<asked, conn>>
  BY DEF Flush
<1>2. /\ got \in [Clients -> Seq(Nat)] /\ Patient \subseteq Clients
      /\ Len(got[c]) \in Nat
  BY SessionAssumption, NoMoreThanAsked DEF IndInv, Types
<1>3. PICK p \in Framed : /\ output[c] = <<p>>
                          /\ TypeOfReply(p) = Answer(asked[c][Len(asked[c])])
                          /\ Len(asked[c]) = Len(got[c]) + 1
  BY <1>1 DEF IndInv, Exchange, Idle, Waiting
<1>4. t = Answer(asked[c][Len(got[c]) + 1])
  <2>1. Head(<<p>>) = p
    OBVIOUS
  <2> QED
    BY <1>3, <2>1
<1> HIDE DEF t
<1> DEFINE g == [d \in Patient |-> got[d]]
<1>5. g' = [g EXCEPT ![c] = Append(g[c], t)]
  BY <1>1, <1>2
<1>6. g[c] = got[c] /\ [d \in Patient |-> asked[d]][c] = asked[c]
  OBVIOUS
<1>7. Len(got[c]) < Len(asked[c])
  BY <1>2, <1>3
<1>8. /\ [d \in Patient |-> asked[d]]' = [d \in Patient |-> asked[d]]
      /\ [d \in Patient |-> conn[d] = "up"]' = [d \in Patient |-> conn[d] = "up"]
  BY <1>1
<1> QED
  BY <1>4, <1>5, <1>6, <1>7, <1>8 DEF PatientService!Reply, PatientService!Owed

\* A request of a client that waits.
LEMMA AskServes ==
    ASSUME IndInv, NEW c \in Patient, NEW r \in Requests, Ask(c, r)
    PROVE  PatientService!Ask(c, r)
<1>1. /\ conn[c] = "up" /\ Len(asked[c]) < MaxReqs
      /\ asked' = [asked EXCEPT ![c] = Append(asked[c], r)]
      /\ UNCHANGED <<got, conn>>
  BY DEF Ask
<1>2. asked \in [Clients -> Seq(Requests)] /\ Patient \subseteq Clients
  BY SessionAssumption DEF IndInv, Types
<1> DEFINE a == [d \in Patient |-> asked[d]]
<1>3. a' = [a EXCEPT ![c] = Append(a[c], r)] /\ a[c] = asked[c]
  BY <1>1, <1>2
<1>4. /\ [d \in Patient |-> got[d]]' = [d \in Patient |-> got[d]]
      /\ [d \in Patient |-> conn[d] = "up"]' = [d \in Patient |-> conn[d] = "up"]
      /\ [d \in Patient |-> conn[d] = "up"][c] = TRUE
  BY <1>1
<1> QED
  BY <1>1, <1>3, <1>4 DEF PatientService!Ask

\* A client that waits closes its end.
LEMMA HangUpServes ==
    ASSUME IndInv, NEW c \in Patient, HangUp(c)
    PROVE  PatientService!Leave(c)
<1>1. /\ conn[c] = "up" /\ conn' = [conn EXCEPT ![c] = "fin"]
      /\ UNCHANGED <<asked, got>>
  BY DEF HangUp
<1>2. conn \in [Clients -> {"up", "fin", "closed"}] /\ Patient \subseteq Clients
  BY SessionAssumption DEF IndInv, Types
<1> DEFINE u == [d \in Patient |-> conn[d] = "up"]
<1>3. u' = [u EXCEPT ![c] = FALSE]
  <2>1. /\ u' = [d \in Patient |-> conn'[d] = "up"]
        /\ [u EXCEPT ![c] = FALSE] = [d \in Patient |-> IF d = c THEN FALSE ELSE u[d]]
    OBVIOUS
  <2>2. \A d \in Patient : (conn'[d] = "up") = IF d = c THEN FALSE ELSE u[d]
    BY <1>1, <1>2
  <2> QED
    BY <2>1, <2>2
<1>4. /\ [d \in Patient |-> got[d]]' = [d \in Patient |-> got[d]]
      /\ [d \in Patient |-> asked[d]]' = [d \in Patient |-> asked[d]]
      /\ u[c] = TRUE
  BY <1>1
<1> QED
  BY <1>3, <1>4 DEF PatientService!Leave

\* Every step of the program is a step of the service or a stutter of it.
LEMMA NextServes ==
    ASSUME IndInv, [Next]_vars
    PROVE  [PatientService!Next]_(PatientService!vars)
<1>1. Patient \subseteq Clients /\ conn \in [Clients -> {"up", "fin", "closed"}]
      /\ asked \in [Clients -> Seq(Requests)] /\ got \in [Clients -> Seq(Nat)]
  BY SessionAssumption DEF IndInv, Types
<1>2. ASSUME UNCHANGED <<asked, got, conn>>
      PROVE  Unseen
  BY <1>2 DEF Unseen
<1>3. ASSUME NEW c \in Clients, NEW r \in Requests, Ask(c, r)
      PROVE  [PatientService!Next]_(PatientService!vars)
  <2>1. CASE c \in Patient
    BY <1>3, <2>1, AskServes DEF PatientService!Next
  <2>2. CASE c \notin Patient
    <3>1. Unseen
      BY <1>1, <1>3, <2>2 DEF Ask, Unseen
    <3> QED
      BY <3>1, UnseenStutters
  <2> QED
    BY <2>1, <2>2
<1>4. ASSUME NEW c \in Clients, Flush(c)
      PROVE  [PatientService!Next]_(PatientService!vars)
  <2>1. CASE c \in Patient
    BY <1>4, <2>1, FlushServes DEF PatientService!Next
  <2>2. CASE c \notin Patient
    <3>1. Unseen
      BY <1>1, <1>4, <2>2 DEF Flush, Unseen
    <3> QED
      BY <3>1, UnseenStutters
  <2> QED
    BY <2>1, <2>2
<1>5. ASSUME NEW c \in Clients, HangUp(c)
      PROVE  [PatientService!Next]_(PatientService!vars)
  <2>1. CASE c \in Patient
    BY <1>5, <2>1, HangUpServes DEF PatientService!Next
  <2>2. CASE c \notin Patient
    <3>1. Unseen
      BY <1>1, <1>5, <2>2 DEF HangUp, Unseen
    <3> QED
      BY <3>1, UnseenStutters
  <2> QED
    BY <2>1, <2>2
<1>6. ASSUME NEW c \in Clients, Eof(c)
      PROVE  Unseen
  BY <1>1, <1>6 DEF Eof, Unseen
<1>7. ASSUME NEW c \in Clients, DoRead(c)
      PROVE  Unseen
  <2>1. UNCHANGED <<asked, got, conn>>
    BY <1>7, ReadStep DEF IndInv
  <2> QED
    BY <1>2, <2>1
<1>8. CASE UNCHANGED vars \/ Replace
  BY <1>2, <1>8, UnseenStutters DEF vars, Replace
<1> QED
  BY <1>3, <1>4, <1>5, <1>6, <1>7, <1>8, UnseenStutters DEF Next

\* To the clients that wait, the server is the service of PluginService,
\* whatever other clients send it and whatever fails in it: a reply they get is
\* the answer to the first request that has none, and nothing else ever reaches
\* them.  That every request is answered in the end is left to the runs.
THEOREM PatientServed ==
    Spec => PatientService!Init /\ [][PatientService!Next]_(PatientService!vars)
<1>1. Init => PatientService!Init
  <2> SUFFICES ASSUME Init
               PROVE  PatientService!Init
    OBVIOUS
  <2>1. Patient \subseteq Clients
    BY SessionAssumption
  <2> QED
    BY <2>1 DEF Init, PatientService!Init
<1>2. IndInv /\ [Next]_vars => [PatientService!Next]_(PatientService!vars)
  BY NextServes
<1> QED
  BY <1>1, <1>2, Invariance, PTL DEF Spec
=============================================================================
