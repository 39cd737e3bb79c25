-------------------------- MODULE OldSessionProofs --------------------------
(***************************************************************************)
(* OldSession for any documents, requests, heap and number of requests.    *)
(***************************************************************************)
EXTENDS OldSession, SequenceTheorems, WellFoundedInduction, TLAPS

\* Requests are known by their numbers, and what is sent is in pieces.
Piece == [req : Nat, type : Nat]
Built == {p \in Piece : p.type # 2}

SessionTypes ==
    /\ chan \in Seq(Nat) /\ input \in Seq(Nat) /\ serving \in Nat
    /\ output \in Seq(Built) /\ wire \in Seq(Piece)
    /\ sent \in Seq(Requests)
    /\ lost \in 0 .. HeapBlocks /\ HeapBlocks \in Nat

\* A callback that leaves input behind found no memory, and nobody gives any
\* back.
LeftForGood == input # <<>> => lost = HeapBlocks

IndInv == SessionTypes /\ LeftForGood /\ StrayOnlyWhenExhausted

\* Whatever adds no piece to what has been sent and changes neither heap nor
\* input keeps the invariant.
LEMMA QuietInv ==
    ASSUME IndInv, UNCHANGED <<input, wire, lost>>, SessionTypes'
    PROVE  IndInv'
  BY DEF IndInv, LeftForGood, StrayOnlyWhenExhausted

\* The request a read begins with has a number.
LEMMA TakenTyped ==
    ASSUME IndInv, NEW n \in 1 .. Len(chan)
    PROVE  /\ Taken(n) \in Seq(Nat) /\ Head(Taken(n)) \in Nat
           /\ SubSeq(chan, n + 1, Len(chan)) \in Seq(Nat)
<1>1. chan \in Seq(Nat) /\ input \in Seq(Nat) /\ Len(chan) \in Nat /\ Len(input) \in Nat
  BY DEF IndInv, SessionTypes
<1>2. \A k \in 1 .. Len(chan) : chan[k] \in Nat
  BY <1>1, ElementOfSeq
<1>3. \A k \in 1 .. n : chan[k] \in Nat
  BY <1>1, <1>2
<1>4. \A k \in n + 1 .. Len(chan) : chan[k] \in Nat
  BY <1>1, <1>2
<1>5. 1 \in Int /\ n \in Int /\ n + 1 \in Int /\ Len(chan) \in Int /\ 1 <= n
  BY <1>1
<1>6. SubSeq(chan, 1, n) \in Seq(Nat) /\ Len(SubSeq(chan, 1, n)) = n - 1 + 1
  BY <1>3, <1>5, SubSeqProperties
<1>7. SubSeq(chan, n + 1, Len(chan)) \in Seq(Nat)
  BY <1>4, <1>5, SubSeqProperties
<1>8. Taken(n) \in Seq(Nat) /\ Len(Taken(n)) = Len(input) + Len(SubSeq(chan, 1, n))
  BY <1>1, <1>6, ConcatProperties DEF Taken
<1>9. Taken(n) # <<>>
  <2>1. Len(Taken(n)) # 0
    BY <1>1, <1>5, <1>6, <1>8
  <2> QED
    BY <2>1
<1> QED
  BY <1>7, <1>8, <1>9, HeadTailProperties

\* readcb empties the input or has found no block to empty it into.
LEMMA ReadInv ==
    ASSUME IndInv, NEW n \in 1 .. Len(chan),
           ReadNoBuffer(n) \/ ReadRefused(n) \/ ReadAnswered(n) \/ ReadLink(n)
    PROVE  IndInv'
<1>1. /\ lost \in Nat /\ HeapBlocks \in Nat /\ lost <= HeapBlocks /\ Free = HeapBlocks - lost
      /\ output \in Seq(Built) /\ serving \in Nat
  BY DEF IndInv, SessionTypes, Free
<1>2. /\ UNCHANGED <<sent, wire>> /\ chan' = SubSeq(chan, n + 1, Len(chan))
  BY DEF ReadNoBuffer, ReadRefused, ReadAnswered, ReadLink, Arrives
<1>3. ASSUME output' \in Seq(Built), serving' \in Nat, lost' \in Nat, lost <= lost',
             lost' <= HeapBlocks, input' = <<>> \/ (input' = Taken(n) /\ lost = HeapBlocks)
      PROVE  IndInv'
  <2>1. SessionTypes'
    <3>1. chan' \in Seq(Nat) /\ input' \in Seq(Nat)
      <4>1. <<>> \in Seq(Nat)
        OBVIOUS
      <4> QED
        BY <1>2, <1>3, <4>1, TakenTyped
    <3>2. sent' \in Seq(Requests) /\ wire' \in Seq(Piece)
      BY <1>2 DEF IndInv, SessionTypes
    <3>3. lost' \in 0 .. HeapBlocks
      BY <1>1, <1>3
    <3> QED
      BY <1>1, <1>3, <3>1, <3>2, <3>3 DEF SessionTypes
  <2>2. LeftForGood'
    BY <1>1, <1>3 DEF LeftForGood
  <2>3. StrayOnlyWhenExhausted'
    BY <1>1, <1>2, <1>3 DEF IndInv, StrayOnlyWhenExhausted
  <2> QED
    BY <2>1, <2>2, <2>3 DEF IndInv
<1>4. CASE ReadNoBuffer(n)
  BY <1>1, <1>3, <1>4 DEF ReadNoBuffer
<1>5. CASE ReadRefused(n)
  BY <1>1, <1>3, <1>5 DEF ReadRefused
<1>6. CASE ReadLink(n)
  BY <1>1, <1>3, <1>6, TakenTyped DEF ReadLink
<1>7. CASE ReadAnswered(n)
  <2> DEFINE b == buildPkgByType(dealPkg(Kind(n)), Head(Taken(n)))
  <2>1. /\ input' = <<>> /\ serving' = serving /\ Free > 1
        /\ output' = output \o b.reply /\ lost' = lost + b.lost
    BY <1>7 DEF ReadAnswered
  <2>2. b.reply \in Seq(Built) /\ b.lost \in {0, 1}
    <3>1. \A t \in {10, 12} : Reply(Head(Taken(n)), t) \in Built
      BY TakenTyped DEF Reply, Piece, Built
    <3>2. \A p \in Built : <<p>> \in Seq(Built)
      OBVIOUS
    <3> QED
      BY <3>1, <3>2
      DEF buildPkgByType, buildSendPluginPkg, CS_CMD_RES_IS_UPDATE, CS_CMD_RES_SEND_PLUGIN
  <2> HIDE DEF b
  <2>3. output' \in Seq(Built)
    BY <1>1, <2>1, <2>2, ConcatProperties
  <2> QED
    BY <1>1, <1>3, <2>1, <2>2, <2>3
<1> QED
  BY <1>4, <1>5, <1>6, <1>7

\* writecb greets only a client whose input was left for good.
LEMMA WriteInv ==
    ASSUME IndInv, Write
    PROVE  IndInv'
<1>1. PICK rest \in {<<>>, <<LastByte>>} :
        /\ output' = rest /\ wire' = wire \o output \o writecb
        /\ UNCHANGED <<sent, chan, input, lost, serving>>
  BY DEF Write
<1>2. LastByte \in Built /\ Hello \in Piece /\ Hello \notin Built
  BY DEF LastByte, Hello, Reply, Piece, Built
<1>3. /\ wire \in Seq(Piece) /\ output \in Seq(Built) /\ writecb \in Seq(Piece)
      /\ rest \in Seq(Built)
  <2>1. <<LastByte>> \in Seq(Built) /\ <<Hello>> \in Seq(Piece)
    BY <1>2
  <2>2. <<>> \in Seq(Built) /\ <<>> \in Seq(Piece)
    OBVIOUS
  <2> QED
    BY <2>1, <2>2 DEF IndInv, SessionTypes, writecb
<1>4. output \in Seq(Piece)
  <2>1. Built \subseteq Piece
    BY DEF Built
  <2> QED
    BY <1>3, <2>1, SeqMonotonic
<1>5. /\ wire \o output \in Seq(Piece) /\ Len(wire) \in Nat /\ Len(output) \in Nat
      /\ \A k \in 1 .. Len(wire) + Len(output) :
            (wire \o output)[k] = IF k <= Len(wire) THEN wire[k] ELSE output[k - Len(wire)]
      /\ Len(wire \o output) = Len(wire) + Len(output)
  BY <1>3, <1>4, ConcatProperties, LenProperties
<1>6. SessionTypes'
  <2>1. wire' \in Seq(Piece)
    <3>1. wire' = (wire \o output) \o writecb
      BY <1>1
    <3> QED
      BY <1>3, <1>5, <3>1, ConcatProperties
  <2> QED
    BY <1>1, <1>3, <2>1 DEF IndInv, SessionTypes
<1>7. LeftForGood'
  BY <1>1 DEF IndInv, LeftForGood
<1>8. StrayOnlyWhenExhausted'
  <2>1. CASE input # <<>>
    BY <1>1, <2>1 DEF IndInv, LeftForGood, StrayOnlyWhenExhausted
  <2>2. ASSUME input = <<>>, NEW k \in DOMAIN wire', wire'[k] = Hello
        PROVE  lost' = HeapBlocks
    <3>1. wire' = wire \o output
      <4>1. wire' = (wire \o output) \o <<>>
        BY <1>1, <2>2 DEF writecb
      <4> QED
        BY <1>5, <4>1, ConcatEmptySeq
    <3>2. k \in 1 .. Len(wire) + Len(output)
      BY <1>5, <2>2, <3>1, LenProperties
    <3>3. \A j \in 1 .. Len(output) : output[j] # Hello
      BY <1>2, <1>3, ElementOfSeq
    <3>4. k <= Len(wire)
      <4>1. ASSUME ~(k <= Len(wire))
            PROVE  FALSE
        <5>1. k - Len(wire) \in 1 .. Len(output) /\ wire'[k] = output[k - Len(wire)]
          BY <1>5, <3>1, <3>2, <4>1
        <5> QED
          BY <2>2, <3>3, <5>1
      <4> QED
        BY <4>1
    <3>5. k \in DOMAIN wire /\ wire[k] = Hello
      BY <1>3, <1>5, <2>2, <3>1, <3>2, <3>4, LenProperties
    <3> QED
      BY <1>1, <3>5 DEF IndInv, StrayOnlyWhenExhausted
  <2> QED
    BY <2>1, <2>2 DEF StrayOnlyWhenExhausted
<1> QED
  BY <1>6, <1>7, <1>8 DEF IndInv

\* A reply to a link request is added whatever was built.
LEMMA LinkReplyInv ==
    ASSUME IndInv, LinkReply
    PROVE  IndInv'
<1>1. /\ UNCHANGED <<sent, chan, input, wire, lost>> /\ serving' = 0
      /\ \/ output' = output
         \/ output' = Append(output, Reply(serving, CS_CMD_RES_SEND_LINK))
  BY DEF LinkReply
<1>2. output \in Seq(Built) /\ Reply(serving, CS_CMD_RES_SEND_LINK) \in Built
  BY DEF IndInv, SessionTypes, Reply, Piece, Built, CS_CMD_RES_SEND_LINK
<1>3. output' \in Seq(Built)
  BY <1>1, <1>2, AppendProperties
<1>4. SessionTypes'
  BY <1>1, <1>3 DEF IndInv, SessionTypes
<1> QED
  BY <1>1, <1>4, QuietInv

\* Every step keeps the invariant.
LEMMA NextInv == IndInv /\ [Next]_vars => IndInv'
<1> SUFFICES ASSUME IndInv, [Next]_vars
             PROVE  IndInv'
  OBVIOUS
<1>1. ASSUME UNCHANGED <<chan, input, output, wire, sent, lost, serving>>
      PROVE  IndInv'
  <2>1. SessionTypes'
    BY <1>1 DEF IndInv, SessionTypes
  <2> QED
    BY <1>1, <2>1, QuietInv
<1>2. CASE Start \/ Unlink \/ Packing \/ UNCHANGED vars
  BY <1>1, <1>2 DEF Start, Unlink, Packing, sessionVars, vars
<1>3. CASE OthersLose
  <2>1. /\ UNCHANGED <<chan, input, output, wire, sent, serving>> /\ lost' = lost + 1
        /\ lost \in Nat /\ HeapBlocks \in Nat /\ HeapBlocks - lost > 0
    BY <1>3 DEF OthersLose, Free, IndInv, SessionTypes
  <2>2. input = <<>> /\ ~ \E k \in DOMAIN wire : wire[k] = Hello
    BY <2>1 DEF IndInv, LeftForGood, StrayOnlyWhenExhausted
  <2>3. SessionTypes'
    BY <2>1 DEF IndInv, SessionTypes
  <2> QED
    BY <2>1, <2>2, <2>3 DEF IndInv, LeftForGood, StrayOnlyWhenExhausted
<1>4. ASSUME NEW r \in Requests, Ask(r)
      PROVE  IndInv'
  <2>1. /\ UNCHANGED <<input, output, wire, lost, serving>>
        /\ sent' = Append(sent, r) /\ chan' = Append(chan, Len(sent) + 1)
    BY <1>4 DEF Ask
  <2>2. sent' \in Seq(Requests) /\ chan' \in Seq(Nat)
    <3>1. sent \in Seq(Requests) /\ chan \in Seq(Nat) /\ Len(sent) + 1 \in Nat
      BY DEF IndInv, SessionTypes
    <3> QED
      BY <2>1, <3>1, AppendProperties
  <2>3. SessionTypes'
    BY <2>1, <2>2 DEF IndInv, SessionTypes
  <2> QED
    BY <2>1, <2>3, QuietInv
<1> QED
  BY <1>2, <1>3, <1>4, ReadInv, WriteInv, LinkReplyInv DEF Next, readcb

\* The invariant holds in every reachable state.
THEOREM Invariance == Spec => []IndInv
<1>1. Init => IndInv
  <2> SUFFICES ASSUME Init
               PROVE  IndInv
    OBVIOUS
  <2>1. SessionTypes
    BY OldSessionAssumption DEF Init, SessionTypes
  <2> QED
    BY <2>1 DEF Init, IndInv, LeftForGood, StrayOnlyWhenExhausted
<1> QED
  BY <1>1, NextInv, PTL DEF Spec

\* As long as there is memory no client gets "hello,client" among its replies.
THEOREM StrayHolds == Spec => []StrayOnlyWhenExhausted
<1>1. IndInv => StrayOnlyWhenExhausted
  BY DEF IndInv
<1> QED
  BY Invariance, <1>1, PTL

\* Where the walk over the links ends badly, the document is to blame.
LEMMA BadWalk ==
    ASSUME NEW k, TextDies(k) \/ ValueDies(k)
    PROVE  \/ linkNum > Len(links) + 1
           \/ \E j \in DOMAIN links : links[j].text \in {<<>>, Absent} \/ links[j].value = <<>>
<1>1. CASE TextDies(k)
  BY <1>1 DEF TextDies, Found, WalksOff
<1>2. CASE ValueDies(k)
  BY <1>2 DEF ValueDies, Found, WalksOff
<1> QED
  BY <1>1, <1>2

\* Whatever the documents: one whose number is at most one too large and whose
\* links all have a text does not end the process.
THEOREM DiesOnlyOfBadDocumentHolds == Spec => []DiesOnlyOfBadDocument
<1>1. Init => DiesOnlyOfBadDocument
  BY DEF Init, LinkInit, DiesOnlyOfBadDocument
<1>2. ASSUME DiesOnlyOfBadDocument, [Next]_vars
      PROVE  DiesOnlyOfBadDocument'
  <2>1. CASE Packing /\ LinkDies
    <3>1. UNCHANGED <<xmlDom, linkNum>> /\ (TextDies(i) \/ ValueDies(i))
      BY <2>1 DEF LinkDies
    <3> QED
      BY <3>1, BadWalk DEF DiesOnlyOfBadDocument, links
  <2>2. CASE UNCHANGED linkVars
    BY <1>2, <2>2 DEF linkVars, DiesOnlyOfBadDocument, links
  <2>3. CASE state' # "dead"
    BY <2>3 DEF DiesOnlyOfBadDocument
  <2>4. UNCHANGED linkVars \/ state' # "dead" \/ (Packing /\ LinkDies)
    <3>1. CASE Start \/ Packing \/ LinkReply
      BY <3>1 DEF Start, ReadXml, Packing, AddLink, LinkReply, Finish, GiveUp
    <3>2. CASE readcb
      BY <3>2 DEF readcb, ReadNoBuffer, ReadRefused, ReadAnswered, ReadLink, Request
    <3>3. CASE Unlink \/ OthersLose \/ Write \/ \E r \in Requests : Ask(r)
      BY <3>3 DEF Unlink, OthersLose, Write, Ask
    <3>4. CASE UNCHANGED vars
      BY <3>4 DEF vars
    <3> QED
      BY <1>2, <3>1, <3>2, <3>3, <3>4 DEF Next
  <2> QED
    BY <1>2, <2>1, <2>2, <2>3, <2>4
<1>3. DiesOnlyOfBadDocument /\ [Next]_vars => DiesOnlyOfBadDocument'
  BY <1>2
<1> QED
  BY <1>1, <1>3, PTL DEF Spec

-----------------------------------------------------------------------------
(* Which request a reply answers.                                          *)

\* How many requests have been taken out of the input.
Done == Len(sent) - Len(input) - Len(chan)

\* The requests not yet taken are the last ones sent, in their order.
Numbered ==
    /\ Done \in Nat
    /\ \A k \in 1 .. Len(input) : input[k] = Done + k
    /\ \A k \in 1 .. Len(chan) : chan[k] = Done + Len(input) + k

\* Replies that their requests deserve, in the order of the requests.
Right(s) == \A k \in 1 .. Len(s) : s[k].req # 0 =>
    /\ <<sent[s[k].req], s[k].type>> \in Deserved
    /\ \A j \in 1 .. k - 1 : s[j].req < s[k].req

Below(s, n) == \A k \in 1 .. Len(s) : s[k].req <= n

Said == wire \o output

\* The link request being served was taken after all that is answered.
Linking == serving # 0 =>
    /\ state \in {"building", "dead"}
    /\ serving <= Done /\ sent[serving] = "link"
    /\ Below(Said, serving - 1)

Accounts == Numbered /\ Right(Said) /\ Below(Said, Done) /\ Linking

\* The types of what Accounts counts.
LEMMA AccountTypes ==
    ASSUME SessionTypes
    PROVE  /\ Len(sent) \in Nat /\ Len(input) \in Nat /\ Len(chan) \in Nat
           /\ Len(wire) \in Nat /\ Len(output) \in Nat
           /\ output \in Seq(Piece) /\ wire \in Seq(Piece)
           /\ Said \in Seq(Piece) /\ Len(Said) = Len(wire) + Len(output)
<1>1. output \in Seq(Piece)
  <2>1. output \in Seq(Built) /\ Built \subseteq Piece
    BY DEF SessionTypes, Built
  <2> QED
    BY <2>1, SeqMonotonic
<1>2. /\ wire \in Seq(Piece) /\ input \in Seq(Nat) /\ chan \in Seq(Nat)
      /\ sent \in Seq(Requests)
  BY DEF SessionTypes
<1> QED
  BY <1>1, <1>2, ConcatProperties, LenProperties DEF Said

\* Pieces joined to pieces, in whichever order.
LEMMA JoinedPieces ==
    ASSUME NEW a \in Seq(Piece), NEW b \in Seq(Piece), NEW c \in Seq(Piece)
    PROVE  (a \o b) \o c = a \o (b \o c)
BY ConcatAssociative

\* One piece more: a reply that the request after all others deserves, or a
\* piece that answers none.
LEMMA OneMoreSaid ==
    ASSUME NEW s \in Seq(Piece), Right(s), NEW m \in Nat, Below(s, m),
           NEW p \in Piece,
           \/ p.req = 0
           \/ /\ <<sent[p.req], p.type>> \in Deserved
              /\ Below(s, p.req - 1) /\ p.req <= m
    PROVE  Right(s \o <<p>>) /\ Below(s \o <<p>>, m) /\ s \o <<p>> \in Seq(Piece)
<1> DEFINE t == s \o <<p>>
           n == Len(s)
<1>1. n \in Nat /\ \A k \in 1 .. n : s[k] \in Piece
  BY ElementOfSeq, LenProperties
<1>2. /\ t \in Seq(Piece) /\ Len(t) = n + 1 /\ t[n + 1] = p
      /\ \A k \in 1 .. n : t[k] = s[k]
  <2>1. <<p>> \in Seq(Piece) /\ Len(<<p>>) = 1 /\ <<p>>[1] = p
    OBVIOUS
  <2>2. /\ t \in Seq(Piece) /\ Len(t) = n + 1
        /\ \A k \in 1 .. n + 1 : t[k] = IF k <= n THEN s[k] ELSE <<p>>[k - n]
    BY <2>1, ConcatProperties
  <2>3. n + 1 \in 1 .. n + 1 /\ ~(n + 1 <= n) /\ n + 1 - n = 1
        /\ \A k \in 1 .. n : k \in 1 .. n + 1 /\ k <= n
    BY <1>1
  <2> HIDE DEF t
  <2> QED
    BY <2>1, <2>2, <2>3
<1> HIDE DEF t, n
<1>3. p.req \in Nat
  BY DEF Piece
<1>4. Below(t, m)
  BY <1>1, <1>2, <1>3 DEF Below, n
<1>5. ASSUME NEW k \in 1 .. n + 1, t[k].req # 0
      PROVE  /\ <<sent[t[k].req], t[k].type>> \in Deserved
             /\ \A j \in 1 .. k - 1 : t[j].req < t[k].req
  <2>1. CASE k = n + 1
    <3>1. \A j \in 1 .. n : s[j].req \in Nat
      BY <1>1 DEF Piece
    <3>2. t[k] = p /\ p.req # 0
      BY <1>2, <1>5, <2>1
    <3>3. /\ <<sent[p.req], p.type>> \in Deserved
          /\ \A j \in 1 .. n : s[j].req <= p.req - 1
      BY <3>2 DEF Below, n
    <3>4. ASSUME NEW j \in 1 .. k - 1
          PROVE  t[j].req < p.req
      <4>1. j \in 1 .. n
        BY <1>1, <2>1
      <4> QED
        BY <1>2, <1>3, <3>1, <3>3, <4>1
    <3> QED
      BY <3>2, <3>3, <3>4
  <2>2. CASE k # n + 1
    <3>1. k \in 1 .. n /\ \A j \in 1 .. k - 1 : j \in 1 .. n
      BY <1>1, <2>2
    <3> QED
      BY <1>2, <1>5, <3>1 DEF Right, n
  <2> QED
    BY <2>1, <2>2
<1> QED
  BY <1>2, <1>4, <1>5 DEF Right, t

\* Requests taken without a reply, or requests sent.
LEMMA NothingSaid ==
    ASSUME SessionTypes, Accounts, UNCHANGED <<wire, output>>, Numbered', Done <= Done',
           \A n \in 1 .. Done : sent'[n] = sent[n], Linking'
    PROVE  Accounts'
<1>1. /\ Said' = Said /\ Said \in Seq(Piece)
      /\ Done \in Nat /\ Done' \in Nat
  BY AccountTypes DEF Said, Accounts, Numbered
<1>2. \A k \in 1 .. Len(Said) : Said[k].req \in Nat /\ Said[k].req <= Done
  <2>1. \A k \in 1 .. Len(Said) : Said[k] \in Piece
    BY <1>1, ElementOfSeq
  <2> QED
    BY <2>1 DEF Accounts, Below, Piece
<1>3. Below(Said, Done)'
  BY <1>1, <1>2 DEF Below
<1>4. Right(Said)'
  <2>1. \A k \in 1 .. Len(Said) : Said[k].req # 0 => sent'[Said[k].req] = sent[Said[k].req]
    BY <1>1, <1>2
  <2> QED
    BY <1>1, <2>1 DEF Accounts, Right, Deserved
<1> QED
  BY <1>3, <1>4 DEF Accounts

\* No link request is being served where the loop has not been started.
LEMMA NotLinking ==
    ASSUME Accounts, state \notin {"building", "dead"}
    PROVE  serving = 0
  BY DEF Accounts, Linking

\* What is the first request of those that are taken.
LEMMA FirstTaken ==
    ASSUME SessionTypes, Accounts, NEW n \in 1 .. Len(chan)
    PROVE  /\ Taken(n) \in Seq(Nat) /\ Len(Taken(n)) = Len(input) + n
           /\ \A k \in 1 .. Len(input) + n : Taken(n)[k] = Done + k
           /\ Head(Taken(n)) = Done + 1
<1>1. chan \in Seq(Nat) /\ input \in Seq(Nat) /\ Len(chan) \in Nat /\ Len(input) \in Nat
  BY AccountTypes DEF SessionTypes
<1>2. /\ Done \in Nat
      /\ \A k \in 1 .. Len(input) : input[k] = Done + k
      /\ \A k \in 1 .. Len(chan) : chan[k] = Done + Len(input) + k
  BY DEF Accounts, Numbered
<1> DEFINE x == SubSeq(chan, 1, n)
<1>3. x \in Seq(Nat) /\ Len(x) = n /\ \A k \in 1 .. n : x[k] = chan[k]
  <2>1. 1 \in Int /\ n \in Int /\ \A k \in 1 .. n : chan[k] \in Nat
    BY <1>1, ElementOfSeq
  <2>2. /\ x \in Seq(Nat) /\ Len(x) = IF 1 <= n THEN n - 1 + 1 ELSE 0
        /\ \A k \in 1 .. n - 1 + 1 : x[k] = chan[1 + k - 1]
    BY <2>1, SubSeqProperties
  <2> QED
    BY <1>1, <2>2
<1> HIDE DEF x
<1>4. /\ input \o x \in Seq(Nat) /\ Len(input \o x) = Len(input) + n
      /\ \A k \in 1 .. Len(input) + n :
           (input \o x)[k] = IF k <= Len(input) THEN input[k] ELSE x[k - Len(input)]
  BY <1>1, <1>3, ConcatProperties
<1>5. Taken(n) = input \o x
  BY DEF Taken, x
<1>6. \A k \in 1 .. Len(input) + n : Taken(n)[k] = Done + k
  <2>1. ASSUME NEW k \in 1 .. Len(input) + n
        PROVE  Taken(n)[k] = Done + k
    <3>1. CASE k <= Len(input)
      BY <1>1, <1>2, <1>4, <1>5, <3>1
    <3>2. CASE k > Len(input)
      <4>1. k - Len(input) \in 1 .. n /\ k - Len(input) \in 1 .. Len(chan)
        BY <1>1, <3>2
      <4>2. Taken(n)[k] = chan[k - Len(input)]
        BY <1>1, <1>3, <1>4, <1>5, <3>2, <4>1
      <4>3. chan[k - Len(input)] = Done + Len(input) + (k - Len(input))
        BY <1>2, <4>1
      <4> QED
        BY <1>1, <1>2, <4>2, <4>3
    <3> QED
      BY <1>1, <3>1, <3>2
  <2> QED
    BY <2>1
<1>7. Head(Taken(n)) = Taken(n)[1] /\ 1 \in 1 .. Len(input) + n
  <2>1. Taken(n) # <<>>
    BY <1>1, <1>4, <1>5
  <2> QED
    BY <1>1, <1>4, <1>5, <2>1, HeadTailProperties
<1> QED
  BY <1>4, <1>5, <1>6, <1>7

\* The requests that are left are still the last ones.
LEMMA NumbersLeft ==
    ASSUME SessionTypes, Accounts, NEW n \in 1 .. Len(chan), UNCHANGED sent,
           chan' = SubSeq(chan, n + 1, Len(chan)),
           input' = <<>> \/ input' = Taken(n)
    PROVE  /\ Numbered' /\ Done <= Done' /\ Done \in Nat
           /\ input' = <<>> => Done + 1 <= Done'
<1>1. chan \in Seq(Nat) /\ Len(chan) \in Nat /\ Len(input) \in Nat /\ Len(sent) \in Nat
  BY AccountTypes DEF SessionTypes
<1>2. /\ Done \in Nat /\ Done = Len(sent) - Len(input) - Len(chan)
      /\ \A k \in 1 .. Len(chan) : chan[k] = Done + Len(input) + k
  BY DEF Accounts, Numbered, Done
<1>3. /\ Len(chan') = Len(chan) - n
      /\ \A k \in 1 .. Len(chan) - n : chan'[k] = chan[n + k]
  <2>1. n + 1 \in Int /\ Len(chan) \in Int /\ \A k \in n + 1 .. Len(chan) : chan[k] \in Nat
    <3>1. \A k \in 1 .. Len(chan) : chan[k] \in Nat
      BY <1>1, ElementOfSeq
    <3> QED
      BY <1>1, <3>1
  <2>2. /\ Len(chan') = IF n + 1 <= Len(chan) THEN Len(chan) - (n + 1) + 1 ELSE 0
        /\ \A k \in 1 .. Len(chan) - (n + 1) + 1 : chan'[k] = chan[n + 1 + k - 1]
    BY <2>1, SubSeqProperties
  <2> QED
    BY <1>1, <2>2
<1>4. \A k \in 1 .. Len(chan') : chan'[k] = Done + Len(input) + n + k
  <2>1. \A k \in 1 .. Len(chan) - n : n + k \in 1 .. Len(chan)
    BY <1>1
  <2>2. ASSUME NEW k \in 1 .. Len(chan) - n
        PROVE  chan'[k] = Done + Len(input) + n + k
    <3>1. chan'[k] = chan[n + k] /\ chan[n + k] = Done + Len(input) + (n + k)
      BY <1>2, <1>3, <2>1
    <3>2. Done + Len(input) + (n + k) = Done + Len(input) + n + k
      BY <1>1, <1>2
    <3> QED
      BY <3>1, <3>2
  <2> QED
    BY <1>3, <2>2
<1>5. Done' = Len(sent) - Len(input') - Len(chan')
  BY DEF Done
<1>6. CASE input' = <<>>
  <2>1. Len(input') = 0
    BY <1>6
  <2>2. Done' = Done + Len(input) + n
    BY <1>1, <1>2, <1>3, <1>5, <2>1
  <2>3. \A k \in 1 .. Len(chan') : chan'[k] = Done' + Len(input') + k
    <3>1. Done' + Len(input') = Done + Len(input) + n
      BY <1>1, <1>2, <2>1, <2>2
    <3> QED
      BY <1>4, <3>1
  <2>4. Done' \in Nat /\ Done + 1 <= Done'
    BY <1>1, <1>2, <2>2
  <2> QED
    BY <1>2, <2>1, <2>3, <2>4 DEF Numbered
<1>7. CASE input' = Taken(n)
  <2>1. Len(input') = Len(input) + n /\ \A k \in 1 .. Len(input') : input'[k] = Done + k
    BY <1>7, FirstTaken
  <2>2. Done' = Done
    BY <1>1, <1>2, <1>3, <1>5, <2>1
  <2>3. \A k \in 1 .. Len(chan') : chan'[k] = Done' + Len(input') + k
    <3>1. Done' + Len(input') = Done + Len(input) + n
      BY <1>1, <1>2, <2>1, <2>2
    <3> QED
      BY <1>4, <3>1
  <2>4. input' # <<>>
    BY <1>1, <2>1
  <2> QED
    BY <1>2, <2>1, <2>2, <2>3, <2>4 DEF Numbered
<1> QED
  BY <1>6, <1>7

\* A read answers the first request it takes, with what that deserves, or none.
LEMMA ReadAccounts ==
    ASSUME SessionTypes, Accounts, NEW n \in 1 .. Len(chan),
           ReadNoBuffer(n) \/ ReadRefused(n) \/ ReadAnswered(n) \/ ReadLink(n)
    PROVE  Accounts'
<1>1. /\ UNCHANGED <<sent, wire>> /\ chan' = SubSeq(chan, n + 1, Len(chan))
      /\ state = "idle" /\ serving = 0
  <2>1. /\ UNCHANGED <<sent, wire>> /\ chan' = SubSeq(chan, n + 1, Len(chan))
        /\ state = "idle"
    BY DEF ReadNoBuffer, ReadRefused, ReadAnswered, ReadLink, Arrives
  <2> QED
    BY <2>1, NotLinking
<1>2. input' = <<>> \/ input' = Taken(n)
  BY DEF ReadNoBuffer, ReadRefused, ReadAnswered, ReadLink
<1>3. /\ Numbered' /\ Done <= Done' /\ Done \in Nat /\ Done' \in Nat
      /\ input' = <<>> => Done + 1 <= Done'
  BY <1>1, <1>2, NumbersLeft DEF Numbered
<1>4. Head(Taken(n)) = Done + 1
  BY FirstTaken
<1>5. ASSUME UNCHANGED <<output, serving>>
      PROVE  Accounts'
  <2>1. Linking'
    BY <1>1, <1>5 DEF Linking
  <2> QED
    BY <1>1, <1>3, <1>5, <2>1, NothingSaid
<1>6. CASE ReadNoBuffer(n) \/ ReadRefused(n)
  BY <1>5, <1>6 DEF ReadNoBuffer, ReadRefused
<1>7. CASE ReadLink(n)
  <2>1. /\ UNCHANGED output /\ input' = <<>> /\ serving' = Done + 1
        /\ state' = "building" /\ sent[Done + 1] = "link"
    BY <1>4, <1>7 DEF ReadLink, Request, Kind
  <2>2. Said' = Said /\ Said \in Seq(Piece)
    BY <1>1, <2>1, AccountTypes DEF Said
  <2>3. Below(Said, Done)
    BY DEF Accounts
  <2>4. Linking'
    <3>1. serving' - 1 = Done
      BY <1>3, <2>1
    <3> QED
      BY <1>1, <1>3, <2>1, <2>2, <2>3, <3>1 DEF Linking, Below
  <2> QED
    BY <1>1, <1>3, <2>1, <2>4, NothingSaid
<1>8. CASE ReadAnswered(n)
  <2> DEFINE b == buildPkgByType(dealPkg(Kind(n)), Head(Taken(n)))
  <2>1. /\ input' = <<>> /\ serving' = serving /\ output' = output \o b.reply
    BY <1>8 DEF ReadAnswered
  <2>2. \/ b.reply = <<>>
        \/ \E t \in Nat : b.reply = <<Reply(Done + 1, t)>> /\ <<sent[Done + 1], t>> \in Deserved
    <3>1. Kind(n) = sent[Done + 1]
      BY <1>4 DEF Kind
    <3>2. CASE b.reply = <<Reply(Done + 1, CS_CMD_RES_IS_UPDATE)>>
                 /\ dealPkg(Kind(n)) = CS_CMD_RES_IS_UPDATE
      <4>1. Kind(n) = "current"
        BY <3>2 DEF dealPkg, CS_CMD_RES_IS_UPDATE, CS_CMD_RES_SEND_PLUGIN, CS_CMD_RES_REP_DATA,
                    CS_CMD_RES_SEND_LINK
      <4> QED
        BY <3>1, <3>2, <4>1 DEF Deserved, CS_CMD_RES_IS_UPDATE
    <3>3. CASE b.reply = <<Reply(Done + 1, CS_CMD_RES_SEND_PLUGIN)>>
                 /\ dealPkg(Kind(n)) = CS_CMD_RES_SEND_PLUGIN
      <4>1. Kind(n) = "stale"
        BY <3>3 DEF dealPkg, CS_CMD_RES_IS_UPDATE, CS_CMD_RES_SEND_PLUGIN, CS_CMD_RES_REP_DATA,
                    CS_CMD_RES_SEND_LINK
      <4> QED
        BY <3>1, <3>3, <4>1 DEF Deserved, CS_CMD_RES_SEND_PLUGIN
    <3>4. b.reply = <<>> \/ /\ b.reply = <<Reply(Done + 1, dealPkg(Kind(n)))>>
                            /\ dealPkg(Kind(n)) \in {CS_CMD_RES_IS_UPDATE, CS_CMD_RES_SEND_PLUGIN}
      BY <1>4 DEF buildPkgByType, buildSendPluginPkg
    <3> QED
      BY <3>2, <3>3, <3>4
  <2> HIDE DEF b
  <2>3. wire \in Seq(Piece) /\ output \in Seq(Piece) /\ Said \in Seq(Piece)
    BY AccountTypes
  <2>4. CASE b.reply = <<>>
    <3>1. output' = output
      BY <2>1, <2>3, <2>4, ConcatEmptySeq
    <3> QED
      BY <1>5, <2>1, <3>1
  <2>5. ASSUME NEW t \in Nat, b.reply = <<Reply(Done + 1, t)>>,
               <<sent[Done + 1], t>> \in Deserved
        PROVE  Accounts'
    <3> DEFINE p == Reply(Done + 1, t)
    <3>1. p \in Piece /\ p.req = Done + 1 /\ p.type = t
      BY <1>3 DEF Reply, Piece
    <3> HIDE DEF p
    <3>2. Said' = Said \o <<p>>
      <4>1. <<p>> \in Seq(Piece)
        BY <3>1
      <4>2. ASSUME NEW q \in Seq(Piece)
            PROVE  (wire \o output) \o q = wire \o (output \o q)
        BY <2>3, JoinedPieces
      <4>3. (wire \o output) \o <<p>> = wire \o (output \o <<p>>)
        BY <4>1, <4>2
      <4> QED
        BY <1>1, <2>1, <2>5, <4>3 DEF Said, p
    <3>3. Right(Said \o <<p>>) /\ Below(Said \o <<p>>, Done')
      <4>1. Right(Said) /\ Below(Said, Done)
        BY DEF Accounts
      <4>2. p.req - 1 = Done /\ p.req <= Done'
        BY <1>3, <2>1, <3>1
      <4>3. Below(Said, Done')
        <5>1. \A k \in 1 .. Len(Said) : Said[k].req \in Nat
          <6>1. \A k \in 1 .. Len(Said) : Said[k] \in Piece
            BY <2>3, ElementOfSeq
          <6> QED
            BY <6>1 DEF Piece
        <5> QED
          BY <1>3, <4>1, <5>1 DEF Below
      <4>4. <<sent[p.req], p.type>> \in Deserved
        BY <2>5, <3>1
      <4> QED
        BY <1>3, <2>3, <3>1, <4>1, <4>2, <4>3, <4>4, OneMoreSaid
    <3>4. Right(Said)' /\ Below(Said, Done)'
      BY <1>1, <3>2, <3>3 DEF Right, Below, Deserved
    <3>5. Linking'
      BY <1>1, <2>1 DEF Linking
    <3> QED
      BY <1>3, <3>4, <3>5 DEF Accounts
  <2> QED
    BY <2>2, <2>4, <2>5
<1> QED
  BY <1>6, <1>7, <1>8

\* The reply to a link request follows all others.
LEMMA LinkReplyAccounts ==
    ASSUME SessionTypes, Accounts, LinkReply
    PROVE  Accounts'
<1>1. /\ UNCHANGED <<sent, chan, input, wire>> /\ serving' = 0
      /\ \/ output' = output
         \/ output' = Append(output, Reply(serving, CS_CMD_RES_SEND_LINK))
  BY DEF LinkReply
<1>2. Numbered' /\ Done' = Done /\ Done \in Nat /\ Linking'
  BY <1>1 DEF Accounts, Numbered, Done, Linking
<1>3. wire \in Seq(Piece) /\ output \in Seq(Piece) /\ Said \in Seq(Piece)
  BY AccountTypes
<1>4. CASE output' = output
  BY <1>1, <1>2, <1>4, NothingSaid
<1> DEFINE p == Reply(serving, CS_CMD_RES_SEND_LINK)
<1>5. p \in Piece /\ p.req = serving /\ p.type = CS_CMD_RES_SEND_LINK
  BY DEF Reply, Piece, SessionTypes, CS_CMD_RES_SEND_LINK
<1>6. \/ p.req = 0
      \/ /\ <<sent[p.req], p.type>> \in Deserved
         /\ Below(Said, p.req - 1) /\ p.req <= Done
  BY <1>5 DEF Accounts, Linking, Deserved
<1> HIDE DEF p
<1>7. CASE output' = Append(output, p)
  <2>1. Said' = Said \o <<p>>
    <3>1. <<p>> \in Seq(Piece)
      BY <1>5
    <3>2. ASSUME NEW q \in Seq(Piece)
          PROVE  (wire \o output) \o q = wire \o (output \o q)
      BY <1>3, JoinedPieces
    <3>3. (wire \o output) \o <<p>> = wire \o (output \o <<p>>)
      BY <3>1, <3>2
    <3>4. Append(output, p) = output \o <<p>>
      BY <1>3, <1>5, AppendIsConcat
    <3> QED
      BY <1>1, <1>7, <3>3, <3>4 DEF Said
  <2>2. Right(Said \o <<p>>) /\ Below(Said \o <<p>>, Done)
    BY <1>2, <1>3, <1>5, <1>6, OneMoreSaid DEF Accounts
  <2>3. Right(Said)' /\ Below(Said, Done)'
    BY <1>1, <1>2, <2>1, <2>2 DEF Right, Below, Deserved
  <2> QED
    BY <1>2, <2>3 DEF Accounts
<1> QED
  BY <1>1, <1>4, <1>7 DEF p

\* Neither the greeting nor a byte that is left answers a request.
LEMMA WriteAccounts ==
    ASSUME SessionTypes, Accounts, Write
    PROVE  Accounts'
<1>1. PICK rest \in {<<>>, <<LastByte>>} :
        /\ output' = rest /\ wire' = (wire \o output) \o writecb
        /\ UNCHANGED <<linkVars, sent, chan, input, serving>> /\ state = "idle"
  BY DEF Write
<1>2. Numbered' /\ Done' = Done /\ Done \in Nat /\ serving = 0 /\ Linking'
  BY <1>1, NotLinking DEF Accounts, Numbered, Done, Linking
<1>3. /\ Said \in Seq(Piece) /\ Right(Said) /\ Below(Said, Done)
      /\ Said' = (Said \o writecb) \o rest
  BY <1>1, AccountTypes DEF Said, Accounts
<1>4. /\ LastByte \in Piece /\ LastByte.req = 0
      /\ Hello \in Piece /\ Hello.req = 0
  BY DEF LastByte, Hello, Reply, Piece
<1>5. ASSUME NEW s \in Seq(Piece), Right(s), Below(s, Done), NEW p \in Piece, p.req = 0,
             NEW x \in {<<>>, <<p>>}
      PROVE  s \o x \in Seq(Piece) /\ Right(s \o x) /\ Below(s \o x, Done)
  <2>1. CASE x = <<>>
    <3>1. s \o <<>> = s
      BY ConcatEmptySeq
    <3> QED
      BY <1>5, <2>1, <3>1
  <2>2. CASE x = <<p>>
    BY <1>2, <1>5, <2>2, OneMoreSaid
  <2> QED
    BY <2>1, <2>2
<1>6. writecb \in {<<>>, <<Hello>>}
  BY DEF writecb
<1>7. /\ Said \o writecb \in Seq(Piece) /\ Right(Said \o writecb)
      /\ Below(Said \o writecb, Done)
  BY <1>3, <1>4, <1>5, <1>6
<1>8. Right((Said \o writecb) \o rest) /\ Below((Said \o writecb) \o rest, Done)
  BY <1>4, <1>5, <1>7
<1>9. Right(Said)' /\ Below(Said, Done)'
  BY <1>1, <1>2, <1>3, <1>8 DEF Right, Below, Deserved
<1> QED
  BY <1>2, <1>9 DEF Accounts

\* A request sent gets the next number.
LEMMA AskAccounts ==
    ASSUME SessionTypes, Accounts, NEW r \in Requests, Ask(r)
    PROVE  Accounts'
<1>1. /\ UNCHANGED <<linkVars, input, output, wire, serving>>
      /\ sent' = Append(sent, r) /\ chan' = Append(chan, Len(sent) + 1)
  BY DEF Ask
<1>2. /\ sent \in Seq(Requests) /\ chan \in Seq(Nat) /\ Len(sent) \in Nat
      /\ Len(chan) \in Nat /\ Len(input) \in Nat /\ Said \in Seq(Piece)
  BY AccountTypes DEF SessionTypes
<1>3. /\ Len(sent') = Len(sent) + 1 /\ Len(chan') = Len(chan) + 1
      /\ \A k \in 1 .. Len(sent) : sent'[k] = sent[k]
      /\ \A k \in 1 .. Len(chan) : chan'[k] = chan[k]
      /\ chan'[Len(chan) + 1] = Len(sent) + 1
  <2>1. Len(sent) + 1 \in Nat
    BY <1>2
  <2> QED
    BY <1>1, <1>2, <2>1, AppendProperties
<1>4. /\ Done \in Nat /\ Done = Len(sent) - Len(input) - Len(chan)
      /\ \A k \in 1 .. Len(input) : input[k] = Done + k
      /\ \A k \in 1 .. Len(chan) : chan[k] = Done + Len(input) + k
  BY DEF Accounts, Numbered, Done
<1>5. Done' = Done
  BY <1>1, <1>2, <1>3, <1>4 DEF Done
<1>6. Numbered'
  <2>1. \A k \in 1 .. Len(chan) + 1 : chan'[k] = Done + Len(input) + k
    <3>1. Done + Len(input) + (Len(chan) + 1) = Len(sent) + 1
      BY <1>2, <1>4
    <3>2. \A k \in 1 .. Len(chan) + 1 : k \in 1 .. Len(chan) \/ k = Len(chan) + 1
      BY <1>2
    <3> QED
      BY <1>3, <1>4, <3>1, <3>2
  <2> QED
    BY <1>1, <1>3, <1>4, <1>5, <2>1 DEF Numbered
<1>7. \A n \in 1 .. Done : sent'[n] = sent[n]
  <2>1. \A n \in 1 .. Done : n \in 1 .. Len(sent)
    BY <1>2, <1>4
  <2> QED
    BY <1>3, <2>1
<1>8. Linking'
  <2>1. serving # 0 => sent'[serving] = sent[serving]
    <3>1. serving \in Nat
      BY DEF SessionTypes
    <3> QED
      BY <1>4, <1>7, <3>1 DEF Accounts, Linking
  <2>2. Said' = Said /\ state' = state
    BY <1>1 DEF Said, linkVars
  <2> QED
    BY <1>1, <1>5, <2>1, <2>2 DEF Accounts, Linking, Below
<1>9. Done <= Done'
  BY <1>4, <1>5
<1> QED
  BY <1>1, <1>6, <1>7, <1>8, <1>9, NothingSaid

\* Every step keeps the accounts.
LEMMA NextAccounts == IndInv /\ Accounts /\ [Next]_vars => Accounts'
<1> SUFFICES ASSUME SessionTypes, Accounts, [Next]_vars
             PROVE  Accounts'
  BY DEF IndInv
<1>1. ASSUME UNCHANGED <<sent, chan, input, output, wire, serving>>,
             \/ state' = state \/ state' \in {"building", "dead"}
             \/ state \notin {"building", "dead"}
      PROVE  Accounts'
  <2>1. /\ Numbered' /\ Done' = Done /\ Done \in Nat /\ Said' = Said
    BY <1>1 DEF Accounts, Numbered, Done, Said
  <2>2. Linking'
    <3>1. CASE serving = 0
      BY <1>1, <3>1 DEF Linking
    <3>2. CASE serving # 0
      BY <1>1, <2>1, <3>2 DEF Accounts, Linking, Below
    <3> QED
      BY <3>1, <3>2
  <2>3. Done <= Done' /\ \A n \in 1 .. Done : sent'[n] = sent[n]
    BY <1>1, <2>1
  <2> QED
    BY <1>1, <2>1, <2>2, <2>3, NothingSaid
<1>2. CASE Start
  BY <1>1, <1>2 DEF Start, ReadXml, sessionVars
<1>3. CASE Packing
  BY <1>1, <1>3 DEF Packing, AddLink, LinkDies, sessionVars
<1>4. CASE Unlink \/ OthersLose \/ UNCHANGED vars
  BY <1>1, <1>4 DEF Unlink, OthersLose, vars, linkVars, sessionVars
<1> QED
  BY <1>2, <1>3, <1>4, AskAccounts, ReadAccounts, LinkReplyAccounts, WriteAccounts
  DEF Next, readcb

\* Whatever is read together, refused or lost for want of memory or of pt.vfs: a
\* reply that readcb adds is the one its request deserves, and the replies keep
\* the order of the requests.
THEOREM OldRightAnswerHolds == Spec => []OldRightAnswer
<1>1. Init => Accounts
  <2> SUFFICES ASSUME Init
               PROVE  Accounts
    OBVIOUS
  <2>1. /\ sent = <<>> /\ chan = <<>> /\ input = <<>> /\ output = <<>> /\ wire = <<>>
        /\ serving = 0 /\ Len(<<>>) = 0 /\ <<>> \o <<>> = <<>>
    <3>1. <<>> \in Seq(Piece) /\ <<>> \o <<>> = <<>> /\ Len(<<>>) = 0
      BY ConcatEmptySeq
    <3> QED
      BY <3>1 DEF Init
  <2>2. Said = <<>>
    BY <2>1 DEF Said
  <2>3. Done = 0
    <3>1. Done = 0 - 0 - 0
      BY <2>1 DEF Done
    <3> QED
      BY <3>1
  <2> QED
    BY <2>1, <2>2, <2>3 DEF Accounts, Numbered, Linking, Right, Below
<1>2. IndInv /\ Accounts => OldRightAnswer
  <2> SUFFICES ASSUME SessionTypes, Right(Said)
               PROVE  OldRightAnswer
    BY DEF IndInv, Accounts
  <2>1. DOMAIN Said = 1 .. Len(Said)
    BY AccountTypes, LenProperties
  <2> QED
    BY <2>1 DEF OldRightAnswer, Right, Said
<1> QED
  BY <1>1, <1>2, NextAccounts, Invariance, PTL DEF Spec

-----------------------------------------------------------------------------
(* What is sent of a link reply that could not be built.                   *)

\* The document is one of those given, and len counts what has been copied.
Packed ==
    /\ xmlDom \in Documents \cup {NoRoot}
    /\ state = "building" => buff \in Seq(Nat) /\ len = Len(buff)

\* A number is written in four bytes.
LEMMA NetWordTyped ==
    ASSUME NEW n \in Nat
    PROVE  NetWord(n) \in Seq(Nat) /\ Len(NetWord(n)) = 4
<1> DEFINE a == n % 256
           b == (n \div 256) % 256
           c == (n \div 65536) % 256
           d == n \div 16777216
<1>1. a \in Nat /\ b \in Nat /\ c \in Nat /\ d \in Nat
  BY SMT
<1>2. NetWord(n) = <<d, c, b, a>>
  BY DEF NetWord, htonl, HostWord
<1> HIDE DEF a, b, c, d
<1> QED
  BY <1>1, <1>2

\* What getLinkText and getLinkValue return can be copied.
LEMMA FoundTyped ==
    ASSUME Packed, NEW k
    PROVE  getLinkText(k) \in Seq(Nat) /\ getLinkValue(k) \in Seq(Nat)
<1>1. \A j \in DOMAIN links :
        {links[j].text, links[j].value} \subseteq Seq(Byte) \cup {Absent}
  <2>1. CASE xmlDom = NoRoot
    <3>1. DOMAIN links = {}
      BY <2>1 DEF links, NoRoot
    <3> QED
      BY <3>1
  <2>2. CASE xmlDom \in Documents
    <3>1. links \in Seq([text : LinkText, value : LinkText])
      BY <2>2, LinkAssumption DEF links
    <3>2. \A j \in DOMAIN links : links[j] \in [text : LinkText, value : LinkText]
      BY <3>1, ElementOfSeq, LenProperties
    <3>3. LinkText \subseteq Seq(Byte) \cup {Absent}
      BY DEF LinkText
    <3> QED
      BY <3>2, <3>3
  <2> QED
    BY <2>1, <2>2 DEF Packed
<1>2. Seq(Byte) \subseteq Seq(Nat)
  <2>1. Byte \subseteq Nat
    BY DEF Byte
  <2> QED
    BY <2>1, SeqMonotonic
<1>3. <<>> \in Seq(Nat)
  OBVIOUS
<1>4. Found(k, "text") => links[k].text \in Seq(Byte)
  BY <1>1 DEF Found
<1>5. Found(k, "value") => links[k].value \in Seq(Byte)
  BY <1>1 DEF Found
<1> QED
  BY <1>2, <1>3, <1>4, <1>5 DEF getLinkText, getLinkValue

\* A link that is packed is a sequence of bytes.
LEMMA LinkDataTyped ==
    ASSUME NEW t \in Seq(Nat), NEW v \in Seq(Nat)
    PROVE  LinkData(t, v) \in Seq(Nat)
<1>1. Len(t) \in Nat /\ Len(v) \in Nat
  BY LenProperties
<1>2. ASSUME NEW s \in Seq(Nat)
      PROVE  Counted(s) \in Seq(Nat)
  <2>1. Len(s) + 4 \in Nat
    BY LenProperties
  <2> QED
    BY <2>1, NetWordTyped, ConcatProperties DEF Counted
<1>3. NetWord(Len(t) + Len(v) + 12) \in Seq(Nat)
  BY <1>1, NetWordTyped
<1>4. NetWord(Len(t) + Len(v) + 12) \o Counted(t) \in Seq(Nat)
  BY <1>2, <1>3, ConcatProperties
<1>5. (NetWord(Len(t) + Len(v) + 12) \o Counted(t)) \o Counted(v) \in Seq(Nat)
  BY <1>2, <1>4, ConcatProperties
<1>6. <<>> \in Seq(Nat)
  OBVIOUS
<1> QED
  BY <1>5, <1>6 DEF LinkData

\* Every step of the loop keeps the count.
LEMMA NextPacked == Packed /\ [Next]_vars => Packed'
<1> SUFFICES ASSUME Packed, [Next]_vars
             PROVE  Packed'
  OBVIOUS
<1>1. CASE UNCHANGED linkVars
  BY <1>1 DEF linkVars, Packed
<1>2. ASSUME UNCHANGED xmlDom, state' # "building"
      PROVE  Packed'
  BY <1>2 DEF Packed
<1>3. CASE Packing /\ AddLink
  <2> DEFINE d == LinkData(getLinkText(i), getLinkValue(i))
  <2>1. /\ buff' = buff \o d /\ len' = len + Len(d) /\ state = "building"
        /\ UNCHANGED <<xmlDom, state>>
    BY <1>3 DEF AddLink
  <2>2. d \in Seq(Nat)
    BY FoundTyped, LinkDataTyped
  <2>3. buff \in Seq(Nat) /\ len = Len(buff)
    BY <2>1 DEF Packed
  <2> HIDE DEF d
  <2>4. buff' \in Seq(Nat) /\ Len(buff') = Len(buff) + Len(d)
    BY <2>1, <2>2, <2>3, ConcatProperties
  <2> QED
    BY <2>1, <2>3, <2>4 DEF Packed
<1>4. ASSUME Request
      PROVE  Packed'
  <2>1. buff' = <<>> /\ len' = 0 /\ UNCHANGED xmlDom
    BY <1>4 DEF Request
  <2>2. <<>> \in Seq(Nat) /\ Len(<<>>) = 0
    OBVIOUS
  <2> QED
    BY <2>1, <2>2 DEF Packed
<1>5. CASE Start \/ (Packing /\ LinkDies) \/ LinkReply
  BY <1>2, <1>5 DEF Start, ReadXml, LinkDies, LinkReply, Finish, GiveUp
<1>6. CASE readcb
  BY <1>1, <1>4, <1>6 DEF readcb, ReadNoBuffer, ReadRefused, ReadAnswered, ReadLink
<1>7. CASE Unlink \/ OthersLose \/ Write \/ (\E r \in Requests : Ask(r)) \/ UNCHANGED vars
  BY <1>1, <1>7 DEF Unlink, OthersLose, Write, Ask, vars
<1> QED
  BY <1>3, <1>5, <1>6, <1>7 DEF Next, Packing

\* What stands where in a part of a sequence.
LEMMA CutPlaces ==
    ASSUME NEW S, NEW b \in Seq(S), NEW m \in Nat, NEW n \in Nat, 1 <= m, n <= Len(b)
    PROVE  /\ SubSeq(b, m, n) \in Seq(S)
           /\ Len(SubSeq(b, m, n)) = IF m <= n THEN n - m + 1 ELSE 0
           /\ \A k \in 1 .. n - m + 1 : SubSeq(b, m, n)[k] = b[m + k - 1]
<1>1. m \in Int /\ n \in Int /\ \A k \in m .. n : b[k] \in S
  OBVIOUS
<1> QED
  BY <1>1, SubSeqProperties

\* The first part of a sequence.
LEMMA FirstBytes ==
    ASSUME NEW b \in Seq(Nat), NEW n \in Nat, n <= Len(b)
    PROVE  /\ SubSeq(b, 1, n) \in Seq(Nat) /\ Len(SubSeq(b, 1, n)) = n
           /\ \A k \in 1 .. n : SubSeq(b, 1, n)[k] = b[k]
  OBVIOUS

\* Four bytes that are zero are read as zero.
LEMMA ZeroWord ==
    ASSUME NEW b \in Seq(Nat), NEW at \in Nat, 1 <= at, at + 3 <= Len(b),
           b[at] = 0, b[at + 1] = 0, b[at + 2] = 0, b[at + 3] = 0
    PROVE  WordAt(b, at) = 0
<1> DEFINE w == SubSeq(b, at, at + 3)
<1>2. \A k \in 1 .. (at + 3) - at + 1 : w[k] = b[at + k - 1]
  <2> DEFINE n == at + 3
  <2>1. n \in Nat /\ n <= Len(b)
    OBVIOUS
  <2> HIDE DEF n
  <2>2. \A k \in 1 .. n - at + 1 : SubSeq(b, at, n)[k] = b[at + k - 1]
    BY <2>1, CutPlaces
  <2> QED
    BY <2>2 DEF n
<1>3. w[1] = b[at] /\ w[2] = b[at + 1] /\ w[3] = b[at + 2] /\ w[4] = b[at + 3]
  <2>1. /\ 1 \in 1 .. (at + 3) - at + 1 /\ 2 \in 1 .. (at + 3) - at + 1
        /\ 3 \in 1 .. (at + 3) - at + 1 /\ 4 \in 1 .. (at + 3) - at + 1
        /\ at + 1 - 1 = at /\ at + 2 - 1 = at + 1 /\ at + 3 - 1 = at + 2
        /\ at + 4 - 1 = at + 3
    OBVIOUS
  <2> HIDE DEF w
  <2> QED
    BY <1>2, <2>1
<1> HIDE DEF w
<1>4. w[1] = 0 /\ w[2] = 0 /\ w[3] = 0 /\ w[4] = 0
  BY <1>3
<1>5. HostValue(ntohl(w)) = 0
  BY <1>4 DEF HostValue, ntohl
<1> QED
  BY <1>5 DEF WordAt, w

\* Where GiveUp has left the loop, what is sent begins with zeros.
LEMMA GiveUpTellable ==
    ASSUME Packed, GiveUp
    PROVE  HalfBuiltTellable'
<1> DEFINE z == Zeros(PROTO_HEAD_SIZE + 4)
           s == z \o buff
<1>1. /\ reply' = SubSeq(s, 1, len) /\ len = Len(buff) /\ buff \in Seq(Nat)
  BY DEF GiveUp, Packed
<1>2. Len(buff) \in Nat
  BY <1>1, LenProperties
<1>3. z \in Seq(Nat) /\ Len(z) = 16 /\ \A k \in 1 .. 16 : z[k] = 0
  <2>1. PROTO_HEAD_SIZE + 4 = 16
    BY DEF PROTO_HEAD_SIZE
  <2>2. z = [k \in 1 .. 16 |-> 0]
    BY <2>1 DEF Zeros
  <2> HIDE DEF z
  <2>3. z \in Seq(Nat)
    BY <2>2, IsASeq
  <2>4. Len(z) = 16
    BY <2>2, <2>3, LenProperties
  <2> QED
    BY <2>2, <2>3, <2>4
<1> HIDE DEF z
<1>4. /\ s \in Seq(Nat) /\ Len(s) = 16 + len
      /\ \A k \in 1 .. 16 : s[k] = 0
  <2>1. /\ z \o buff \in Seq(Nat) /\ Len(z \o buff) = 16 + len
        /\ \A k \in 1 .. 16 + len : (z \o buff)[k] = IF k <= 16 THEN z[k] ELSE buff[k - 16]
    <3>1. /\ z \o buff \in Seq(Nat) /\ Len(z \o buff) = Len(z) + Len(buff)
          /\ \A k \in 1 .. Len(z) + Len(buff) :
               (z \o buff)[k] = IF k <= Len(z) THEN z[k] ELSE buff[k - Len(z)]
      BY <1>1, <1>3, ConcatProperties
    <3> QED
      BY <1>1, <1>3, <3>1
  <2>2. \A k \in 1 .. 16 : k \in 1 .. 16 + len /\ k <= 16
    BY <1>1, <1>2
  <2>3. ASSUME NEW k \in 1 .. 16
        PROVE  (z \o buff)[k] = 0
    <3>1. (z \o buff)[k] = z[k]
      BY <2>1, <2>2
    <3> QED
      BY <1>3, <3>1
  <2> QED
    BY <2>1, <2>3, Zenon
<1> HIDE DEF s
<1>5. /\ reply' \in Seq(Nat) /\ Len(reply') = len
      /\ \A k \in 1 .. len : reply'[k] = s[k]
  <2>1. len \in Nat /\ len <= Len(s)
    BY <1>1, <1>2, <1>4
  <2>2. /\ SubSeq(s, 1, len) \in Seq(Nat) /\ Len(SubSeq(s, 1, len)) = len
        /\ \A k \in 1 .. len : SubSeq(s, 1, len)[k] = s[k]
    BY <1>4, <2>1, FirstBytes, Zenon
  <2> QED
    BY <1>1, <2>2, Zenon
<1>6. Len(reply') = len
  BY <1>5
<1> SUFFICES ASSUME Len(reply') >= PROTO_HEAD_SIZE
             PROVE  WordAt(reply', 1) # Len(reply') /\ WordAt(reply', 9) # PROTO_VERSION
  BY DEF HalfBuiltTellable, WordAt
<1>7. len >= 12
  BY <1>6 DEF PROTO_HEAD_SIZE
<1>8. \A k \in 1 .. 12 : reply'[k] = 0
  <2>1. ASSUME NEW k \in 1 .. 12
        PROVE  reply'[k] = 0
    <3>1. k \in 1 .. len /\ k \in 1 .. 16
      BY <1>1, <1>2, <1>7
    <3> QED
      BY <1>4, <1>5, <3>1
  <2> QED
    BY <2>1
<1>9. WordAt(reply', 1) = 0 /\ WordAt(reply', 9) = 0
  <2>1. /\ reply'[1] = 0 /\ reply'[1 + 1] = 0 /\ reply'[1 + 2] = 0 /\ reply'[1 + 3] = 0
        /\ reply'[9] = 0 /\ reply'[9 + 1] = 0 /\ reply'[9 + 2] = 0 /\ reply'[9 + 3] = 0
    BY <1>8
  <2>2. 1 \in Nat /\ 9 \in Nat /\ 1 <= 1 /\ 1 <= 9
        /\ 1 + 3 <= Len(reply') /\ 9 + 3 <= Len(reply')
    BY <1>1, <1>2, <1>6, <1>7
  <2> QED
    BY <1>5, <2>1, <2>2, ZeroWord
<1> QED
  BY <1>1, <1>2, <1>6, <1>7, <1>9 DEF PROTO_VERSION

\* Whatever the documents, and wherever in them memory runs out: what
\* buildSendLinkPkg leaves when it fails, and readcb sends all the same, has no
\* header at its beginning.
THEOREM HalfBuiltTellableHolds == Spec => []HalfBuiltTellable
<1>1. Init => Packed /\ HalfBuiltTellable
  BY DEF Init, LinkInit, Packed, HalfBuiltTellable
<1>2. ASSUME Packed, HalfBuiltTellable, [Next]_vars
      PROVE  HalfBuiltTellable'
  <2>1. CASE UNCHANGED <<reply, rc>>
    BY <1>2, <2>1 DEF HalfBuiltTellable, WordAt
  <2>2. CASE GiveUp
    BY <1>2, <2>2, GiveUpTellable
  <2>3. CASE Finish
    BY <2>3 DEF Finish, HalfBuiltTellable
  <2>4. CASE Start \/ Packing
    BY <2>1, <2>4 DEF Start, ReadXml, Packing, AddLink, LinkDies
  <2>5. CASE readcb
    BY <2>1, <2>5 DEF readcb, ReadNoBuffer, ReadRefused, ReadAnswered, ReadLink, Request,
                      linkVars
  <2>6. CASE Unlink \/ OthersLose \/ Write \/ (\E r \in Requests : Ask(r)) \/ UNCHANGED vars
    BY <2>1, <2>6 DEF Unlink, OthersLose, Write, Ask, vars, linkVars
  <2>7. CASE LinkReply
    BY <2>2, <2>3, <2>7 DEF LinkReply
  <2> QED
    BY <1>2, <2>4, <2>5, <2>6, <2>7 DEF Next
<1> QED
  BY <1>1, <1>2, NextPacked, PTL DEF Spec

-----------------------------------------------------------------------------
(* What a client reads out of a link reply.                                *)

\* The bytes of a link in a reply, as the document has it: none when it is not
\* complete.
Data(doc, k) == IF k \in DOMAIN doc /\ Complete(doc[k])
                THEN LinkData(doc[k].text, doc[k].value) ELSE <<>>

\* b has the bytes d from place p up to, but not at, place q.
Stand(d, b, p, q) ==
    /\ d \in Seq(Nat) /\ p \in Nat /\ 1 <= p
    /\ q = p + Len(d) /\ q <= Len(b) + 1
    /\ \A j \in 1 .. Len(d) : b[p + j - 1] = d[j]

\* b has at the places at[1], at[2] ... the first n links of a document, one
\* behind the other, and nothing else.
Laid(doc, b, n, at) ==
    /\ at \in [1 .. n + 1 -> Nat]
    /\ at[1] = 1 /\ at[n + 1] = Len(b) + 1
    /\ \A k \in 1 .. n : Stand(Data(doc, k), b, at[k], at[k + 1])

\* One sequence behind another.
LEMMA JoinedIs ==
    ASSUME NEW c \in Seq(Nat), NEW d \in Seq(Nat)
    PROVE  /\ c \o d \in Seq(Nat) /\ Len(c \o d) = Len(c) + Len(d)
           /\ \A j \in 1 .. Len(c) : (c \o d)[j] = c[j]
           /\ \A j \in 1 .. Len(d) : (c \o d)[Len(c) + j] = d[j]
  OBVIOUS

\* What stands in a sequence stands there in a longer one, and behind it as many
\* places later.
LEMMA StandBefore ==
    ASSUME NEW b \in Seq(Nat), NEW c \in Seq(Nat), NEW d, NEW p, NEW q,
           Stand(d, b, p, q)
    PROVE  Stand(d, b \o c, p, q)
<1>1. /\ Len(b) \in Nat /\ Len(c) \in Nat /\ Len(b \o c) = Len(b) + Len(c)
      /\ \A j \in 1 .. Len(b) : (b \o c)[j] = b[j]
  BY JoinedIs, LenProperties
<1>2. /\ d \in Seq(Nat) /\ Len(d) \in Nat /\ p \in Nat /\ 1 <= p
      /\ q = p + Len(d) /\ q <= Len(b) + 1
      /\ \A j \in 1 .. Len(d) : b[p + j - 1] = d[j]
  BY LenProperties DEF Stand
<1>3. ASSUME NEW j \in 1 .. Len(d)
      PROVE  (b \o c)[p + j - 1] = d[j]
  <2>1. p + j - 1 \in 1 .. Len(b)
    BY <1>1, <1>2
  <2> QED
    BY <1>1, <1>2, <2>1
<1>4. q <= Len(b \o c) + 1
  BY <1>1, <1>2
<1> QED
  BY <1>2, <1>3, <1>4 DEF Stand

LEMMA StandBehind ==
    ASSUME NEW b \in Seq(Nat), NEW c \in Seq(Nat), NEW d, NEW p, NEW q,
           Stand(d, c, p, q)
    PROVE  Stand(d, b \o c, Len(b) + p, Len(b) + q)
<1>1. /\ Len(b) \in Nat /\ Len(c) \in Nat /\ Len(b \o c) = Len(b) + Len(c)
      /\ \A j \in 1 .. Len(c) : (b \o c)[Len(b) + j] = c[j]
  BY JoinedIs, LenProperties
<1>2. /\ d \in Seq(Nat) /\ Len(d) \in Nat /\ p \in Nat /\ 1 <= p
      /\ q = p + Len(d) /\ q <= Len(c) + 1
      /\ \A j \in 1 .. Len(d) : c[p + j - 1] = d[j]
  BY LenProperties DEF Stand
<1>3. ASSUME NEW j \in 1 .. Len(d)
      PROVE  (b \o c)[(Len(b) + p) + j - 1] = d[j]
  <2>1. p + j - 1 \in 1 .. Len(c) /\ (Len(b) + p) + j - 1 = Len(b) + (p + j - 1)
    BY <1>1, <1>2
  <2> QED
    BY <1>1, <1>2, <2>1
<1>4. /\ Len(b) + q <= Len(b \o c) + 1 /\ Len(b) + q = (Len(b) + p) + Len(d)
      /\ Len(b) + p \in Nat /\ 1 <= Len(b) + p
  BY <1>1, <1>2
<1> QED
  BY <1>2, <1>3, <1>4 DEF Stand

\* A sequence stands in itself.
LEMMA StandAlone ==
    ASSUME NEW d \in Seq(Nat)
    PROVE  Stand(d, d, 1, Len(d) + 1)
<1>1. Len(d) \in Nat
  BY LenProperties
<1>2. \A j \in 1 .. Len(d) : 1 + j - 1 = j
  BY <1>1
<1> QED
  BY <1>1, <1>2 DEF Stand

\* One link more.
LEMMA LaidMore ==
    ASSUME NEW doc, NEW b \in Seq(Nat), NEW n \in Nat, NEW at, Laid(doc, b, n, at),
           Data(doc, n + 1) \in Seq(Nat)
    PROVE  \E to : Laid(doc, b \o Data(doc, n + 1), n + 1, to)
<1> DEFINE d == Data(doc, n + 1)
           B == b \o d
           to == [k \in 1 .. n + 2 |-> IF k = n + 2 THEN Len(b) + Len(d) + 1 ELSE at[k]]
<1>1. Len(b) \in Nat /\ Len(d) \in Nat /\ Len(B) = Len(b) + Len(d)
  BY JoinedIs, LenProperties
<1>2. /\ at \in [1 .. n + 1 -> Nat] /\ at[1] = 1 /\ at[n + 1] = Len(b) + 1
      /\ \A k \in 1 .. n : Stand(Data(doc, k), b, at[k], at[k + 1])
  BY DEF Laid
<1>3. Stand(d, B, Len(b) + 1, Len(b) + (Len(d) + 1))
  BY StandAlone, StandBehind
<1>4. \A k \in 1 .. n : Stand(Data(doc, k), B, at[k], at[k + 1])
  BY <1>2, StandBefore
<1> HIDE DEF B
<1>5. /\ to \in [1 .. n + 2 -> Nat] /\ to[n + 2] = Len(b) + (Len(d) + 1)
      /\ \A k \in 1 .. n + 1 : to[k] = at[k]
  BY <1>1, <1>2
<1> HIDE DEF to
<1>6. ASSUME NEW k \in 1 .. n + 1
      PROVE  Stand(Data(doc, k), B, to[k], to[k + 1])
  <2>1. CASE k = n + 1
    <3>1. to[k] = Len(b) + 1 /\ to[k + 1] = Len(b) + (Len(d) + 1)
      BY <1>2, <1>5, <2>1
    <3> QED
      BY <1>3, <2>1, <3>1
  <2>2. CASE k \in 1 .. n
    <3>1. to[k] = at[k] /\ to[k + 1] = at[k + 1]
      BY <1>5, <2>2
    <3> QED
      BY <1>4, <2>2, <3>1
  <2>3. k = n + 1 \/ k \in 1 .. n
    OBVIOUS
  <2> QED
    BY <2>1, <2>2, <2>3
<1>7. to[1] = 1
  BY <1>2, <1>5
<1>8. (n + 1) + 1 = n + 2 /\ Len(b) + (Len(d) + 1) = Len(B) + 1
  BY <1>1
<1>9. Laid(doc, B, n + 1, to)
  BY <1>5, <1>6, <1>7, <1>8 DEF Laid
<1> QED
  BY <1>9 DEF B
\* Where two sequences stand in one, each stands.
LEMMA StandParts ==
    ASSUME NEW b \in Seq(Nat), NEW c \in Seq(Nat), NEW d \in Seq(Nat), NEW p, NEW q,
           Stand(c \o d, b, p, q)
    PROVE  Stand(c, b, p, p + Len(c)) /\ Stand(d, b, p + Len(c), q)
<1> DEFINE e == c \o d
<1>1. /\ Len(c) \in Nat /\ Len(d) \in Nat /\ Len(e) = Len(c) + Len(d)
      /\ \A j \in 1 .. Len(c) : e[j] = c[j]
      /\ \A j \in 1 .. Len(d) : e[Len(c) + j] = d[j]
  BY JoinedIs, LenProperties
<1> HIDE DEF e
<1>2. /\ p \in Nat /\ 1 <= p
      /\ q = p + Len(e) /\ q <= Len(b) + 1 /\ Len(b) \in Nat
      /\ \A j \in 1 .. Len(e) : b[p + j - 1] = e[j]
  BY LenProperties DEF Stand, e
<1>3. Stand(c, b, p, p + Len(c))
  <2>1. ASSUME NEW j \in 1 .. Len(c)
        PROVE  b[p + j - 1] = c[j]
    <3>1. j \in 1 .. Len(e)
      BY <1>1
    <3> QED
      BY <1>1, <1>2, <3>1
  <2>2. p + Len(c) <= Len(b) + 1
    BY <1>1, <1>2
  <2> QED
    BY <1>2, <2>1, <2>2 DEF Stand
<1>4. Stand(d, b, p + Len(c), q)
  <2>1. ASSUME NEW j \in 1 .. Len(d)
        PROVE  b[(p + Len(c)) + j - 1] = d[j]
    <3>1. Len(c) + j \in 1 .. Len(e) /\ (p + Len(c)) + j - 1 = p + (Len(c) + j) - 1
      BY <1>1, <1>2
    <3> QED
      BY <1>1, <1>2, <3>1
  <2>2. q = (p + Len(c)) + Len(d) /\ p + Len(c) \in Nat /\ 1 <= p + Len(c)
    BY <1>1, <1>2
  <2> QED
    BY <1>2, <2>1, <2>2 DEF Stand
<1> QED
  BY <1>3, <1>4

\* What stands somewhere is cut out there.
LEMMA StandCut ==
    ASSUME NEW b \in Seq(Nat), NEW d, NEW p, NEW q, Stand(d, b, p, q)
    PROVE  SubSeq(b, p, q - 1) = d
<1>1. /\ d \in Seq(Nat) /\ Len(d) \in Nat /\ p \in Nat /\ 1 <= p
      /\ q = p + Len(d) /\ q <= Len(b) + 1 /\ Len(b) \in Nat
      /\ \A j \in 1 .. Len(d) : b[p + j - 1] = d[j]
  BY LenProperties DEF Stand
<1>2. q - 1 \in Nat /\ q - 1 <= Len(b) /\ (q - 1) - p + 1 = Len(d) /\ (p <= q - 1 <=> Len(d) # 0)
  <2>1. /\ Len(d) \in Nat /\ p \in Nat /\ 1 <= p
        /\ q = p + Len(d) /\ q <= Len(b) + 1 /\ Len(b) \in Nat
    BY <1>1, Zenon
  <2> DEFINE m == Len(d)
  <2> HIDE DEF m
  <2>2. m \in Nat /\ q = p + m
    BY <2>1 DEF m
  <2>3. (q - 1) - p + 1 = m /\ (p <= q - 1 <=> m # 0)
    BY <2>1, <2>2
  <2>4. q - 1 \in Nat /\ q - 1 <= Len(b)
    BY <2>1
  <2> QED
    BY <2>3, <2>4 DEF m
<1> DEFINE n == q - 1
           s == SubSeq(b, p, n)
<1> HIDE DEF n
<1>3. /\ s \in Seq(Nat) /\ Len(s) = IF p <= n THEN n - p + 1 ELSE 0
      /\ \A k \in 1 .. n - p + 1 : s[k] = b[p + k - 1]
  BY <1>1, <1>2, CutPlaces DEF n
<1> HIDE DEF s
<1>4. Len(s) = Len(d)
  BY <1>1, <1>2, <1>3 DEF n
<1>5. \A k \in 1 .. Len(d) : s[k] = d[k]
  BY <1>1, <1>2, <1>3 DEF n
<1>6. s = d
  BY <1>1, <1>3, <1>4, <1>5, SeqEqual
<1> QED
  BY <1>6 DEF s, n

\* A client reads the number that was written.
LEMMA StandWord ==
    ASSUME NEW b \in Seq(Nat), NEW v \in Nat, FitsWord(v), NEW p, NEW q,
           Stand(NetWord(v), b, p, q)
    PROVE  q = p + 4 /\ WordAt(b, p) = v
<1> DEFINE w0 == v % 256
           w1 == (v \div 256) % 256
           w2 == (v \div 65536) % 256
           w3 == v \div 16777216
<1>1. NetWord(v) = <<w3, w2, w1, w0>>
  BY DEF NetWord, htonl, HostWord
<1>2. q = p + 4 /\ p \in Nat
  BY NetWordTyped DEF Stand
<1>3. SubSeq(b, p, p + 3) = <<w3, w2, w1, w0>>
  <2>1. q - 1 = p + 3
    BY <1>2
  <2>2. SubSeq(b, p, q - 1) = NetWord(v)
    BY StandCut
  <2> QED
    BY <1>1, <2>1, <2>2
<1> DEFINE sum == w0 + 256 * w1 + 65536 * w2 + 16777216 * w3
<1>4. sum = v
  BY SMT
<1> HIDE DEF w0, w1, w2, w3
<1>5. ntohl(<<w3, w2, w1, w0>>) = <<w0, w1, w2, w3>>
  BY DEF ntohl
<1>6. HostValue(<<w0, w1, w2, w3>>) = sum
  BY DEF HostValue
<1> HIDE DEF sum
<1> QED
  BY <1>2, <1>3, <1>4, <1>5, <1>6, Zenon DEF WordAt

\* A link takes twelve bytes more than its text and its value.
LEMMA LinkLength ==
    ASSUME NEW t \in Seq(Nat), NEW v \in Seq(Nat), t # <<>>, v # <<>>
    PROVE  Len(LinkData(t, v)) = Len(t) + Len(v) + 12
<1> DEFINE all == Len(t) + Len(v) + 12
           keyed == Counted(t)
           valued == Counted(v)
           front == NetWord(all) \o keyed
<1>1. Len(t) \in Nat /\ Len(v) \in Nat /\ all \in Nat
  BY LenProperties
<1>2. NetWord(all) \in Seq(Nat) /\ Len(NetWord(all)) = 4
  BY <1>1, NetWordTyped
<1>3. ASSUME NEW s \in Seq(Nat)
      PROVE  Counted(s) \in Seq(Nat) /\ Len(Counted(s)) = Len(s) + 4
  <2> DEFINE w == NetWord(Len(s) + 4)
  <2>1. Len(s) \in Nat /\ Len(s) + 4 \in Nat
    BY LenProperties
  <2>2. w \in Seq(Nat) /\ Len(w) = 4
    BY <2>1, NetWordTyped
  <2>3. Counted(s) = w \o s
    BY DEF Counted
  <2> HIDE DEF w
  <2>4. w \o s \in Seq(Nat) /\ Len(w \o s) = Len(w) + Len(s)
    BY <2>2, JoinedIs, Zenon
  <2>5. Len(w) + Len(s) = Len(s) + 4
    BY <2>1, <2>2
  <2> QED
    BY <2>3, <2>4, <2>5, Zenon
<1>4. LinkData(t, v) = front \o valued
  BY DEF LinkData
<1>5. keyed \in Seq(Nat) /\ Len(keyed) = Len(t) + 4
  BY <1>3, Zenon
<1>6. valued \in Seq(Nat) /\ Len(valued) = Len(v) + 4
  BY <1>3, Zenon
<1> HIDE DEF keyed, valued
<1>7. front \in Seq(Nat) /\ Len(front) = Len(NetWord(all)) + Len(keyed)
  BY <1>2, <1>5, JoinedIs, Zenon
<1> HIDE DEF front
<1>8. Len(front \o valued) = Len(front) + Len(valued)
  BY <1>6, <1>7, JoinedIs, Zenon
<1>9. Len(front) + Len(valued) = all
  <2>1. Len(front) = 4 + Len(keyed)
    BY <1>2, <1>7, Zenon
  <2>2. (4 + (Len(t) + 4)) + (Len(v) + 4) = all
    BY <1>1
  <2> QED
    BY <1>5, <1>6, <2>1, <2>2, Zenon
<1> QED
  BY <1>4, <1>8, <1>9, Zenon

\* A client that looks where a link stands reads that link, and the length of
\* all of it.
LEMMA StandLink ==
    ASSUME NEW b \in Seq(Nat), NEW t \in Seq(Nat), NEW v \in Seq(Nat),
           t # <<>>, v # <<>>, Len(t) <= MAX_LINK_LENGTH, Len(v) <= MAX_LINK_LENGTH,
           NEW p \in Nat, NEW q \in Nat, Stand(LinkData(t, v), b, p, q)
    PROVE  /\ WordAt(b, p) = Len(LinkData(t, v))
           /\ LinkAt(b, p) = [text |-> t, value |-> v]
<1> DEFINE all == Len(t) + Len(v) + 12
           key == Len(t) + 4
           val == Len(v) + 4
<1>1. /\ Len(t) \in Nat /\ Len(v) \in Nat /\ all \in Nat /\ key \in Nat /\ val \in Nat
      /\ all <= 212 /\ key <= 104 /\ val <= 104 /\ p \in Nat
  BY LenProperties DEF MAX_LINK_LENGTH, Stand
<1>2. \A x \in Nat : x <= 212 => FitsWord(x)
  <2>1. ASSUME NEW x \in Nat, x <= 212
        PROVE  x \div 16777216 = 0
    BY <2>1, SMT
  <2> QED
    BY <2>1 DEF FitsWord
<1>3. FitsWord(all) /\ FitsWord(key) /\ FitsWord(val)
  BY <1>1, <1>2
<1>4. /\ NetWord(all) \in Seq(Nat) /\ Len(NetWord(all)) = 4
      /\ NetWord(key) \in Seq(Nat) /\ Len(NetWord(key)) = 4
      /\ NetWord(val) \in Seq(Nat) /\ Len(NetWord(val)) = 4
  BY <1>1, NetWordTyped
<1> HIDE DEF all, key, val
<1> DEFINE keyed == NetWord(key) \o t
           valued == NetWord(val) \o v
           front == NetWord(all) \o keyed
<1>5. /\ keyed \in Seq(Nat) /\ Len(keyed) = key
      /\ valued \in Seq(Nat) /\ Len(valued) = val
  <2>1. /\ keyed \in Seq(Nat) /\ Len(keyed) = Len(NetWord(key)) + Len(t)
        /\ valued \in Seq(Nat) /\ Len(valued) = Len(NetWord(val)) + Len(v)
    BY <1>4, JoinedIs, Zenon
  <2> HIDE DEF keyed, valued
  <2>2. Len(keyed) = 4 + Len(t) /\ Len(valued) = 4 + Len(v)
    BY <1>4, <2>1, Zenon
  <2>3. 4 + Len(t) = key /\ 4 + Len(v) = val
    BY <1>1 DEF key, val
  <2> QED
    BY <2>1, <2>2, <2>3, Zenon
<1>6. LinkData(t, v) = front \o valued
  BY DEF LinkData, Counted, all, key, val
<1>7. front \in Seq(Nat) /\ Len(front) = 4 + key
  <2>1. front \in Seq(Nat) /\ Len(front) = Len(NetWord(all)) + Len(keyed)
    BY <1>4, <1>5, JoinedIs, Zenon
  <2> HIDE DEF keyed, valued, front
  <2> QED
    BY <1>4, <1>5, <2>1
<1> HIDE DEF keyed, valued, front
<1>8. Len(LinkData(t, v)) = all
  BY LinkLength DEF all
<1>9. Stand(front, b, p, p + (4 + key)) /\ Stand(valued, b, p + (4 + key), q)
  <2>1. Stand(front \o valued, b, p, q)
    BY <1>6
  <2>2. Stand(front, b, p, p + Len(front)) /\ Stand(valued, b, p + Len(front), q)
    BY <1>5, <1>7, <2>1, StandParts, Zenon
  <2> QED
    BY <1>7, <2>2, Zenon
<1>10. Stand(NetWord(all), b, p, p + 4) /\ Stand(keyed, b, p + 4, p + (4 + key))
  <2>1. /\ Stand(NetWord(all), b, p, p + Len(NetWord(all)))
        /\ Stand(keyed, b, p + Len(NetWord(all)), p + (4 + key))
    BY <1>4, <1>5, <1>9, StandParts, Zenon DEF front
  <2> QED
    BY <1>4, <2>1, Zenon
<1>11. /\ Stand(NetWord(key), b, p + 4, (p + 4) + 4)
       /\ Stand(t, b, (p + 4) + 4, p + (4 + key))
  <2>1. /\ Stand(NetWord(key), b, p + 4, (p + 4) + Len(NetWord(key)))
        /\ Stand(t, b, (p + 4) + Len(NetWord(key)), p + (4 + key))
    BY <1>4, <1>10, StandParts, Zenon DEF keyed
  <2> QED
    BY <1>4, <2>1, Zenon
<1>12. /\ Stand(NetWord(val), b, p + (4 + key), (p + (4 + key)) + 4)
       /\ Stand(v, b, (p + (4 + key)) + 4, q)
  <2>1. /\ Stand(NetWord(val), b, p + (4 + key), (p + (4 + key)) + Len(NetWord(val)))
        /\ Stand(v, b, (p + (4 + key)) + Len(NetWord(val)), q)
    BY <1>4, <1>9, StandParts, Zenon DEF valued
  <2> QED
    BY <1>4, <2>1, Zenon
<1>13. WordAt(b, p) = all
  BY <1>1, <1>3, <1>10, StandWord
<1>14. WordAt(b, p + 4) = key
  BY <1>1, <1>3, <1>11, StandWord
<1>15. WordAt(b, p + 4 + key) = val
  <2>1. p + (4 + key) = p + 4 + key
    BY <1>1
  <2> QED
    BY <1>1, <1>3, <1>12, <2>1, StandWord
<1>16. SubSeq(b, p + 8, p + 3 + key) = t
  <2> DEFINE from == (p + 4) + 4
             to == p + (4 + key)
  <2>1. Stand(t, b, from, to)
    BY <1>11
  <2>2. from = p + 8 /\ to - 1 = p + 3 + key
    BY <1>1
  <2> HIDE DEF from, to
  <2>3. SubSeq(b, from, to - 1) = t
    BY <2>1, StandCut, Zenon
  <2> QED
    BY <2>2, <2>3
<1>17. SubSeq(b, p + 8 + key, p + 3 + key + val) = v
  <2>1. q = ((p + (4 + key)) + 4) + Len(v)
    BY <1>12 DEF Stand
  <2>2. (p + (4 + key)) + 4 = p + 8 + key /\ q - 1 = p + 3 + key + val
    BY <1>1, <2>1 DEF val
  <2>3. SubSeq(b, (p + (4 + key)) + 4, q - 1) = v
    BY <1>12, StandCut, Zenon
  <2> QED
    BY <2>2, <2>3
<1> QED
  BY <1>8, <1>13, <1>14, <1>15, <1>16, <1>17 DEF LinkAt

-----------------------------------------------------------------------------
\* What may be a link of a document.
Link == [text : LinkText, value : LinkText]

\* What is known of the links that are packed, and of those that are not.
LEMMA DataIs ==
    ASSUME NEW doc \in Seq(Link), NEW k \in 1 .. Len(doc)
    PROVE  /\ Data(doc, k) \in Seq(Nat) /\ Len(Data(doc, k)) <= 212
           /\ ~Complete(doc[k]) => Data(doc, k) = <<>>
           /\ Complete(doc[k]) =>
                 \E t \in Seq(Nat), v \in Seq(Nat) :
                    /\ Data(doc, k) = LinkData(t, v) /\ doc[k] = [text |-> t, value |-> v]
                    /\ t # <<>> /\ v # <<>>
                    /\ Len(t) <= MAX_LINK_LENGTH /\ Len(v) <= MAX_LINK_LENGTH
<1>1. k \in DOMAIN doc /\ doc[k] \in Link
  BY ElementOfSeq, LenProperties, Zenon
<1>2. CASE ~Complete(doc[k])
  <2>1. Data(doc, k) = <<>>
    BY <1>2 DEF Data
  <2>2. <<>> \in Seq(Nat) /\ Len(<<>>) <= 212
    OBVIOUS
  <2> QED
    BY <1>2, <2>1, <2>2
<1>3. CASE Complete(doc[k])
  <2>1. PICK t \in LinkText, v \in LinkText : doc[k] = [text |-> t, value |-> v]
    BY <1>1 DEF Link
  <2>2. t \notin {Absent, <<>>} /\ v \notin {Absent, <<>>}
    BY <1>3, <2>1 DEF Complete
  <2>3. Seq(Byte) \subseteq Seq(Nat)
    <3>1. Byte \subseteq Nat
      BY DEF Byte
    <3> QED
      BY <3>1, SeqMonotonic
  <2>4. /\ t \in Seq(Nat) /\ v \in Seq(Nat)
        /\ Len(t) <= MAX_LINK_LENGTH /\ Len(v) <= MAX_LINK_LENGTH
    BY <2>1, <2>2, <2>3, Zenon DEF LinkText
  <2>5. Data(doc, k) = LinkData(t, v)
    BY <1>1, <1>3, <2>1 DEF Data
  <2>6. Data(doc, k) \in Seq(Nat)
    BY <2>4, <2>5, LinkDataTyped
  <2>7. Len(Data(doc, k)) <= 212
    <3>1. Len(LinkData(t, v)) = Len(t) + Len(v) + 12
      BY <2>2, <2>4, LinkLength
    <3> QED
      BY <2>4, <2>5, <3>1, LenProperties DEF MAX_LINK_LENGTH
  <2> QED
    BY <1>3, <2>1, <2>2, <2>4, <2>5, <2>6, <2>7
<1> QED
  BY <1>2, <1>3

\* A client that looks where a link of the document should be moves on by what
\* is there, and reads the link if it is complete.
LEMMA HereIs ==
    ASSUME NEW doc \in Seq(Link), NEW k \in 1 .. Len(doc), NEW r \in Seq(Nat),
           NEW p \in Nat, NEW q \in Nat, Stand(Data(doc, k), r, p, q)
    PROVE  /\ q = p + IF Complete(doc[k]) THEN WordAt(r, p) ELSE 0
           /\ Complete(doc[k]) => LinkAt(r, p) = doc[k]
<1>1. q = p + Len(Data(doc, k))
  BY DEF Stand
<1>2. CASE ~Complete(doc[k])
  <2>1. Data(doc, k) = <<>>
    BY <1>2, DataIs, Zenon
  <2>2. q = p + 0
    BY <1>1, <2>1
  <2> QED
    BY <1>2, <2>2, Zenon
<1>3. CASE Complete(doc[k])
  <2>1. PICK t \in Seq(Nat), v \in Seq(Nat) :
            /\ Data(doc, k) = LinkData(t, v) /\ doc[k] = [text |-> t, value |-> v]
            /\ t # <<>> /\ v # <<>>
            /\ Len(t) <= MAX_LINK_LENGTH /\ Len(v) <= MAX_LINK_LENGTH
    BY <1>3, DataIs, Zenon
  <2>2. Stand(LinkData(t, v), r, p, q)
    BY <2>1, Zenon
  <2>3. WordAt(r, p) = Len(LinkData(t, v)) /\ LinkAt(r, p) = [text |-> t, value |-> v]
    <3>1. ASSUME NEW b \in Seq(Nat), NEW x \in Seq(Nat), NEW y \in Seq(Nat),
                 x # <<>>, y # <<>>, Len(x) <= MAX_LINK_LENGTH, Len(y) <= MAX_LINK_LENGTH,
                 Stand(LinkData(x, y), b, p, q)
          PROVE  /\ WordAt(b, p) = Len(LinkData(x, y))
                 /\ LinkAt(b, p) = [text |-> x, value |-> y]
      BY <3>1, StandLink
    <3> QED
      BY <2>1, <2>2, <3>1, Zenon
  <2> QED
    BY <1>1, <1>3, <2>1, <2>3, Zenon
<1> QED
  BY <1>2, <1>3, Zenon

\* The least of some numbers.
LEMMA LeastOne ==
    ASSUME NEW T, T \subseteq Nat, T # {}
    PROVE  \E x \in T : \A y \in T : x <= y
<1>1. PICK x \in T : \A y \in T : ~(<<y, x>> \in OpToRel(<, Nat))
  BY WFMin, NatLessThanWellFounded
<1>2. \A y \in T : ~(y < x)
  BY <1>1 DEF OpToRel
<1>3. \A y \in T : x <= y
  BY <1>2
<1> QED
  BY <1>3

\* The places where the links stand solve the client's recursion, and nothing
\* else does, for there would be a first place that differs.
LEMMA PlacesAre ==
    ASSUME NEW doc \in Seq(Link), NEW n \in Nat, n <= Len(doc), NEW r \in Seq(Nat),
           NEW at \in [1 .. n + 1 -> Nat], at[1] = PROTO_HEAD_SIZE + 5,
           \A k \in 1 .. n : Stand(Data(doc, k), r, at[k], at[k + 1])
    PROVE  \A k \in 1 .. n + 1 : LinkPlaces(r, doc, n)[k] = at[k]
<1> DEFINE Move(k, p) == IF Complete(doc[k]) THEN WordAt(r, p) ELSE 0
           Step(f) == [k \in 1 .. n + 1 |-> IF k = 1 THEN PROTO_HEAD_SIZE + 5
                                            ELSE f[k - 1] + Move(k - 1, f[k - 1])]
           to == CHOOSE f : f = Step(f)
<1>1. ASSUME NEW k \in 1 .. n
      PROVE  at[k + 1] = at[k] + Move(k, at[k])
  <2>1. k \in 1 .. Len(doc) /\ at[k] \in Nat /\ at[k + 1] \in Nat
    BY LenProperties
  <2>2. Stand(Data(doc, k), r, at[k], at[k + 1])
    OBVIOUS
  <2>3. ASSUME NEW p \in Nat, NEW q \in Nat, Stand(Data(doc, k), r, p, q)
        PROVE  q = p + IF Complete(doc[k]) THEN WordAt(r, p) ELSE 0
    BY <2>1, <2>3, HereIs
  <2> QED
    BY <2>1, <2>2, <2>3, Zenon
<1>2. \E f : f = Step(f)
  <2>1. ASSUME NEW k \in 1 .. n + 1
        PROVE  at[k] = IF k = 1 THEN PROTO_HEAD_SIZE + 5
                       ELSE at[k - 1] + Move(k - 1, at[k - 1])
    <3> HIDE DEF Move
    <3>1. CASE k = 1
      BY <3>1
    <3>2. CASE k # 1
      <4>1. k - 1 \in 1 .. n /\ (k - 1) + 1 = k
        BY <3>2
      <4>2. at[(k - 1) + 1] = at[k - 1] + Move(k - 1, at[k - 1])
        BY <1>1, <4>1, Zenon
      <4> QED
        BY <3>2, <4>1, <4>2, Zenon
    <3> QED
      BY <3>1, <3>2
  <2>2. at = Step(at)
    <3> HIDE DEF Move
    <3>1. at = [k \in 1 .. n + 1 |-> at[k]]
      OBVIOUS
    <3> QED
      BY <2>1, <3>1, Zenon
  <2> QED
    BY <2>2, Zenon
<1>3. to = Step(to)
  BY <1>2, Zenon
<1>4. LinkPlaces(r, doc, n) = to
  BY Zenon DEF LinkPlaces
<1> HIDE DEF to, Move
<1>5. \A k \in 1 .. n + 1 : to[k] = IF k = 1 THEN PROTO_HEAD_SIZE + 5
                                    ELSE to[k - 1] + Move(k - 1, to[k - 1])
  BY <1>3, Zenon
<1> DEFINE wrong == {k \in 1 .. n + 1 : to[k] # at[k]}
<1>6. wrong = {}
  <2> SUFFICES ASSUME wrong # {} PROVE FALSE
    OBVIOUS
  <2>1. wrong \subseteq Nat
    OBVIOUS
  <2>2. PICK x \in wrong : \A y \in wrong : x <= y
    BY <2>1, LeastOne
  <2>3. x \in 1 .. n + 1 /\ to[x] # at[x]
    OBVIOUS
  <2>4. x # 1
    BY <1>5, <2>3
  <2>5. x - 1 \in 1 .. n + 1 /\ x - 1 \in 1 .. n /\ x - 1 \notin wrong /\ (x - 1) + 1 = x
    <3> HIDE DEF wrong
    <3>1. x - 1 \in 1 .. n + 1 /\ x - 1 \in 1 .. n /\ (x - 1) + 1 = x /\ ~(x <= x - 1)
      BY <2>3, <2>4
    <3>2. x - 1 \notin wrong
      BY <2>2, <3>1, Zenon
    <3> QED
      BY <3>1, <3>2, Zenon
  <2>6. to[x - 1] = at[x - 1]
    BY <2>5
  <2>7. to[x] = to[x - 1] + Move(x - 1, to[x - 1])
    BY <1>5, <2>3, <2>4, Zenon
  <2>8. at[(x - 1) + 1] = at[x - 1] + Move(x - 1, at[x - 1])
    BY <1>1, <2>5, Zenon
  <2> QED
    BY <2>3, <2>5, <2>6, <2>7, <2>8, Zenon
<1>7. \A k \in 1 .. n + 1 : to[k] = at[k]
  BY <1>6
<1> QED
  BY <1>4, <1>7, Zenon

\* How many links there are to pack, of so many declared.
Lesser(m, n) == IF m < n THEN m ELSE n

\* The property's way to say so.
LEMMA MinIsLesser ==
    ASSUME NEW m \in Nat, NEW n \in Nat
    PROVE  Min({m, n}) = Lesser(m, n)
<1> DEFINE P(x) == x \in {m, n} /\ \A y \in {m, n} : x <= y
<1>1. P(Lesser(m, n))
  BY DEF Lesser
<1>2. ASSUME NEW x, P(x)
      PROVE  x = Lesser(m, n)
  BY <1>2 DEF Lesser
<1>3. Min({m, n}) = CHOOSE x \in {m, n} : \A y \in {m, n} : x <= y
  BY DEF Min
<1>4. P(CHOOSE x : P(x))
  BY <1>1, Zenon
<1>5. (CHOOSE x \in {m, n} : \A y \in {m, n} : x <= y) = CHOOSE x : P(x)
  OBVIOUS
<1> QED
  BY <1>2, <1>3, <1>4, <1>5, Zenon

\* What has been copied so far are the links that the loop has passed, as far
\* as there are any, and they fit into the reply.
Decoding ==
    /\ xmlDom \in Documents \cup {NoRoot}
    /\ state = "start" => reply = <<>>
    /\ state # "start" => linkNum = xmlDom.num
    /\ state = "building" =>
          /\ i \in 1 .. linkNum + 1
          /\ buff \in Seq(Nat) /\ len = Len(buff)
          /\ Len(buff) <= 212 * Lesser(i - 1, Len(links))
          /\ \E at : Laid(links, buff, Lesser(i - 1, Len(links)), at)

\* A document, or none, has links that fit into the reply.
LEMMA DocumentIs ==
    ASSUME xmlDom \in Documents \cup {NoRoot}
    PROVE  /\ links \in Seq(Link) /\ Len(links) \in Nat /\ xmlDom.num \in Nat
           /\ 16 + 212 * Len(links) <= MAX_SVR_PKG_LENGTH
<1>1. CASE xmlDom \in Documents
  <2>1. /\ xmlDom.num \in Nat /\ links \in Seq(Link)
        /\ PROTO_HEAD_SIZE + 4 + (12 + 2 * MAX_LINK_LENGTH) * Len(links) <= MAX_SVR_PKG_LENGTH
    BY <1>1, LinkAssumption DEF links, Link
  <2>2. Len(links) \in Nat
    BY <2>1, LenProperties
  <2>3. PROTO_HEAD_SIZE + 4 + (12 + 2 * MAX_LINK_LENGTH) * Len(links) = 16 + 212 * Len(links)
    BY <2>2 DEF PROTO_HEAD_SIZE, MAX_LINK_LENGTH
  <2> QED
    BY <2>1, <2>2, <2>3, Zenon
<1>2. CASE xmlDom = NoRoot
  <2>1. links = <<>> /\ xmlDom.num = 0
    BY <1>2 DEF links, NoRoot
  <2>2. <<>> \in Seq(Link) /\ Len(<<>>) = 0
    OBVIOUS
  <2>3. 16 + 212 * 0 <= MAX_SVR_PKG_LENGTH
    BY SMT DEF MAX_SVR_PKG_LENGTH
  <2>4. 0 \in Nat
    OBVIOUS
  <2> QED
    BY <2>1, <2>2, <2>3, <2>4, Zenon
<1> QED
  BY <1>1, <1>2

\* The header and the count are sixteen bytes, of which the first four are the
\* length.
LEMMA HeaderStands ==
    ASSUME NEW n \in Nat, NEW m \in Nat, NEW b \in Seq(Nat)
    PROVE  LET h == HeadBytes(HeadHton(Head3(n, CS_CMD_RES_SEND_LINK, PROTO_VERSION)))
                       \o NetWord(m)
           IN  h \in Seq(Nat) /\ Len(h) = 16 /\ Stand(NetWord(n), h \o b, 1, 5)
<1> DEFINE w1 == NetWord(n)
           w2 == NetWord(CS_CMD_RES_SEND_LINK)
           w3 == NetWord(PROTO_VERSION)
           w4 == NetWord(m)
<1>1. /\ w1 \in Seq(Nat) /\ Len(w1) = 4 /\ w2 \in Seq(Nat) /\ Len(w2) = 4
      /\ w3 \in Seq(Nat) /\ Len(w3) = 4 /\ w4 \in Seq(Nat) /\ Len(w4) = 4
  <2>1. CS_CMD_RES_SEND_LINK \in Nat /\ PROTO_VERSION \in Nat
    BY DEF CS_CMD_RES_SEND_LINK, PROTO_VERSION
  <2> QED
    BY <2>1, NetWordTyped, Zenon
<1>2. HeadBytes(HeadHton(Head3(n, CS_CMD_RES_SEND_LINK, PROTO_VERSION))) = w1 \o w2 \o w3
  BY DEF HeadBytes, HeadHton, Head3, NetWord
<1> HIDE DEF w1, w2, w3, w4
<1> DEFINE a == w1 \o w2
           c == a \o w3
           h == c \o w4
<1>3. a \in Seq(Nat) /\ Len(a) = 8
  <2>1. a \in Seq(Nat) /\ Len(a) = Len(w1) + Len(w2)
    BY <1>1, JoinedIs, Zenon
  <2> HIDE DEF a
  <2> QED
    BY <1>1, <2>1
<1>4. Stand(w1, a, 1, 5)
  <2>1. Stand(w1, w1, 1, Len(w1) + 1)
    BY <1>1, StandAlone, Zenon
  <2>2. Len(w1) + 1 = 5
    BY <1>1
  <2>3. Stand(w1, w1, 1, 5)
    BY <2>1, <2>2, Zenon
  <2> QED
    BY <1>1, <2>3, StandBefore, Zenon
<1> HIDE DEF a
<1>5. c \in Seq(Nat) /\ Len(c) = 12
  <2>1. c \in Seq(Nat) /\ Len(c) = Len(a) + Len(w3)
    BY <1>1, <1>3, JoinedIs, Zenon
  <2> HIDE DEF c
  <2> QED
    BY <1>1, <1>3, <2>1
<1>6. Stand(w1, c, 1, 5)
  BY <1>1, <1>3, <1>4, StandBefore, Zenon
<1> HIDE DEF c
<1>7. h \in Seq(Nat) /\ Len(h) = 16
  <2>1. h \in Seq(Nat) /\ Len(h) = Len(c) + Len(w4)
    BY <1>1, <1>5, JoinedIs, Zenon
  <2> HIDE DEF h
  <2> QED
    BY <1>1, <1>5, <2>1
<1>8. Stand(w1, h, 1, 5)
  BY <1>1, <1>5, <1>6, StandBefore, Zenon
<1> HIDE DEF h
<1>9. Stand(w1, h \o b, 1, 5)
  BY <1>7, <1>8, StandBefore, Zenon
<1>10. h = HeadBytes(HeadHton(Head3(n, CS_CMD_RES_SEND_LINK, PROTO_VERSION))) \o NetWord(m)
  BY <1>2, Zenon DEF h, c, a, w4
<1> QED
  BY <1>7, <1>9, <1>10, Zenon DEF w1

\* What buildSendLinkPkg makes of what was copied, and that a client reads it as
\* the document has it.
BuiltReply(num, b) ==
    LET size == Len(b) + PROTO_HEAD_SIZE + 4
    IN  SubSeq(HeadBytes(HeadHton(Head3(size, CS_CMD_RES_SEND_LINK, PROTO_VERSION)))
                 \o NetWord(num) \o b, 1, size)

ReadAs(doc, num, r) ==
    LET n  == Min({num, Len(doc)})
        to == LinkPlaces(r, doc, n)
    IN  /\ WordAt(r, 1) = Len(r)
        /\ \A k \in 1 .. n : Complete(doc[k]) => LinkAt(r, to[k]) = doc[k]
        /\ to[n + 1] = Len(r) + 1

\* A client that has the links of the document in front of it reads them there.
LEMMA BuiltDecodes ==
    ASSUME NEW doc \in Seq(Link), 16 + 212 * Len(doc) <= MAX_SVR_PKG_LENGTH,
           NEW num \in Nat, NEW b \in Seq(Nat),
           \E at : Laid(doc, b, Lesser(num, Len(doc)), at),
           Len(b) <= 212 * Lesser(num, Len(doc))
    PROVE  ReadAs(doc, num, BuiltReply(num, b))
<1> PICK at : Laid(doc, b, Lesser(num, Len(doc)), at)
  OBVIOUS
<1> DEFINE r == BuiltReply(num, b)
<1> DEFINE n == Lesser(num, Len(doc))
           size == Len(b) + PROTO_HEAD_SIZE + 4
           h == HeadBytes(HeadHton(Head3(size, CS_CMD_RES_SEND_LINK, PROTO_VERSION)))
                  \o NetWord(num)
           to == LinkPlaces(r, doc, n)
           pl == [k \in 1 .. n + 1 |-> 16 + at[k]]
<1>1. Len(b) \in Nat /\ Len(doc) \in Nat /\ size = Len(b) + 16 /\ size \in Nat
  BY LenProperties DEF PROTO_HEAD_SIZE
<1>2. n \in Nat /\ n <= Len(doc) /\ Len(b) <= 212 * n /\ Laid(doc, b, n, at)
  BY <1>1 DEF Lesser
<1>3. Min({num, Len(doc)}) = n
  BY <1>1, MinIsLesser
<1>4. h \in Seq(Nat) /\ Len(h) = 16 /\ Stand(NetWord(size), h \o b, 1, 5)
  BY <1>1, HeaderStands, Zenon
<1>5. r = SubSeq(h \o b, 1, size)
  BY DEF BuiltReply
<1> HIDE DEF n, size, h, r
<1>6. h \o b \in Seq(Nat) /\ Len(h \o b) = size
  <2>1. h \o b \in Seq(Nat) /\ Len(h \o b) = Len(h) + Len(b)
    BY <1>4, JoinedIs, Zenon
  <2>2. Len(h) + Len(b) = size
    BY <1>1, <1>4
  <2> QED
    BY <2>1, <2>2, Zenon
<1>7. r = h \o b
  <2> DEFINE s == h \o b
  <2>1. s \in Seq(Nat) /\ Len(s) = size /\ r = SubSeq(s, 1, size)
    BY <1>5, <1>6
  <2> HIDE DEF s
  <2>2. /\ SubSeq(s, 1, size) \in Seq(Nat) /\ Len(SubSeq(s, 1, size)) = size
        /\ \A k \in 1 .. size : SubSeq(s, 1, size)[k] = s[k]
    BY <1>1, <2>1, FirstBytes
  <2>3. r = s
    BY <2>1, <2>2, SeqEqual
  <2> QED
    BY <2>3 DEF s
<1>8. r \in Seq(Nat) /\ Len(r) = size /\ Stand(NetWord(size), r, 1, 5)
  BY <1>4, <1>6, <1>7, Zenon
<1>9. WordAt(r, 1) = size
  <2>1. size <= MAX_SVR_PKG_LENGTH
    <3>1. 212 * n <= 212 * Len(doc)
      BY <1>1, <1>2
    <3>2. MAX_SVR_PKG_LENGTH \in Nat
      BY SMT DEF MAX_SVR_PKG_LENGTH
    <3> QED
      BY <1>1, <1>2, <3>1, <3>2
  <2>2. size \div 16777216 = 0
    BY <1>1, <2>1, SMT DEF MAX_SVR_PKG_LENGTH
  <2>3. FitsWord(size)
    BY <2>2, SMT DEF FitsWord
  <2> QED
    BY <1>1, <1>8, <2>3, StandWord
<1>10. /\ at \in [1 .. n + 1 -> Nat] /\ at[1] = 1 /\ at[n + 1] = Len(b) + 1
       /\ \A k \in 1 .. n : Stand(Data(doc, k), b, at[k], at[k + 1])
  BY <1>2, Zenon DEF Laid
<1>11. /\ pl \in [1 .. n + 1 -> Nat] /\ pl[1] = PROTO_HEAD_SIZE + 5
       /\ pl[n + 1] = size + 1
       /\ \A k \in 1 .. n : pl[k] = 16 + at[k] /\ pl[k + 1] = 16 + at[k + 1]
  <2>1. n \in Nat /\ at \in [1 .. n + 1 -> Nat] /\ at[1] = 1 /\ at[n + 1] = Len(b) + 1
    BY <1>2, <1>10, Zenon
  <2>2. pl \in [1 .. n + 1 -> Nat] /\ \A k \in 1 .. n + 1 : pl[k] = 16 + at[k]
    BY <2>1
  <2> HIDE DEF pl
  <2>3. pl[1] = PROTO_HEAD_SIZE + 5 /\ pl[n + 1] = size + 1
    <3>1. 1 \in 1 .. n + 1 /\ n + 1 \in 1 .. n + 1
      BY <2>1
    <3>2. pl[1] = 16 + 1 /\ pl[n + 1] = 16 + (Len(b) + 1)
      BY <2>1, <2>2, <3>1, Zenon
    <3> QED
      BY <1>1, <3>2 DEF PROTO_HEAD_SIZE
  <2>4. \A k \in 1 .. n : pl[k] = 16 + at[k] /\ pl[k + 1] = 16 + at[k + 1]
    BY <2>1, <2>2
  <2> QED
    BY <2>2, <2>3, <2>4
<1> HIDE DEF pl
<1>12. ASSUME NEW k \in 1 .. n
       PROVE  Stand(Data(doc, k), r, pl[k], pl[k + 1])
  <2>1. Stand(Data(doc, k), h \o b, Len(h) + at[k], Len(h) + at[k + 1])
    BY <1>4, <1>10, StandBehind, Zenon
  <2> QED
    BY <1>4, <1>7, <1>11, <2>1, Zenon
<1>13. \A k \in 1 .. n + 1 : to[k] = pl[k]
  BY <1>2, <1>8, <1>11, <1>12, PlacesAre, Zenon
<1> HIDE DEF to
<1>14. ASSUME NEW k \in 1 .. n, Complete(doc[k])
       PROVE  LinkAt(r, to[k]) = doc[k]
  <2>1. /\ k \in 1 .. Len(doc) /\ k \in 1 .. n + 1
        /\ pl[k] \in Nat /\ pl[k + 1] \in Nat
    BY <1>1, <1>2, <1>11
  <2>2. ASSUME NEW p \in Nat, NEW q \in Nat, Stand(Data(doc, k), r, p, q)
        PROVE  LinkAt(r, p) = doc[k]
    BY <1>8, <1>14, <2>1, <2>2, HereIs
  <2>3. LinkAt(r, pl[k]) = doc[k]
    BY <1>12, <2>1, <2>2, Zenon
  <2> QED
    BY <1>13, <2>1, <2>3, Zenon
<1>15. to[n + 1] = Len(r) + 1
  <2>1. n + 1 \in 1 .. n + 1
    BY <1>2
  <2> QED
    BY <1>8, <1>11, <1>13, <2>1, Zenon
<1> QED
  BY <1>3, <1>8, <1>9, <1>14, <1>15, Zenon DEF to, r, ReadAs

\* When the loop is over, all the links have been passed.
LEMMA FinishDecodes ==
    ASSUME Decoding, Finish
    PROVE  ReplyDecodes'
<1>1. /\ links \in Seq(Link) /\ Len(links) \in Nat /\ xmlDom.num \in Nat
      /\ 16 + 212 * Len(links) <= MAX_SVR_PKG_LENGTH
  BY DocumentIs DEF Decoding
<1>2. /\ state = "building" /\ i > linkNum /\ len' = len + PROTO_HEAD_SIZE + 4
      /\ reply' = SubSeq(HeadBytes(HeadHton(Head3(len', CS_CMD_RES_SEND_LINK, PROTO_VERSION)))
                           \o NetWord(linkNum) \o buff, 1, len')
      /\ UNCHANGED <<xmlDom, linkNum>>
  BY DEF Finish
<1>3. /\ i \in 1 .. linkNum + 1 /\ linkNum = xmlDom.num
      /\ buff \in Seq(Nat) /\ len = Len(buff)
      /\ Len(buff) <= 212 * Lesser(i - 1, Len(links))
      /\ \E at : Laid(links, buff, Lesser(i - 1, Len(links)), at)
  BY <1>2 DEF Decoding
<1>4. i - 1 = linkNum /\ linkNum \in Nat
  <2>1. i \in 1 .. linkNum + 1 /\ linkNum \in Nat /\ i > linkNum
    BY <1>1, <1>2, <1>3, Zenon
  <2> QED
    BY <2>1
<1>5. reply' = BuiltReply(linkNum, buff)
  <2>1. len' = Len(buff) + PROTO_HEAD_SIZE + 4
    BY <1>2, <1>3
  <2> QED
    BY <1>2, <2>1, Zenon DEF BuiltReply
<1>6. ReadAs(links, linkNum, BuiltReply(linkNum, buff))
  BY <1>1, <1>3, <1>4, BuiltDecodes, Zenon
<1>7. links' = links /\ linkNum' = linkNum
  BY <1>2 DEF links
<1> QED
  BY <1>5, <1>6, <1>7, Zenon DEF ReplyDecodes, ReadAs

\* What a turn of the loop copies is the link that it is at.
LEMMA PackedData ==
    ASSUME NEW k \in 1 .. Len(links), links \in Seq(Link)
    PROVE  LinkData(getLinkText(k), getLinkValue(k)) = Data(links, k)
<1>1. k \in DOMAIN links
  BY LenProperties
<1>2. links[k]["text"] = links[k].text /\ links[k]["value"] = links[k].value
  OBVIOUS
<1> QED
  BY <1>1, <1>2 DEF getLinkText, getLinkValue, Found, Data, Complete, LinkData

\* Every step keeps what is known of the loop.
LEMMA NextDecoding == Decoding /\ [Next]_vars => Decoding'
<1> SUFFICES ASSUME Decoding, [Next]_vars
             PROVE  Decoding'
  OBVIOUS
<1>1. /\ links \in Seq(Link) /\ Len(links) \in Nat /\ xmlDom.num \in Nat
  BY DocumentIs DEF Decoding
<1>2. CASE UNCHANGED linkVars
  BY <1>2 DEF linkVars, Decoding, links
<1>3. ASSUME UNCHANGED <<xmlDom, linkNum>>, state # "start", state' \notin {"start", "building"}
      PROVE  Decoding'
  BY <1>3 DEF Decoding
<1>4. CASE Start
  BY <1>4 DEF Start, ReadXml, Decoding
<1>5. CASE Packing /\ AddLink
  <2> DEFINE d == LinkData(getLinkText(i), getLinkValue(i))
             n == Lesser(i - 1, Len(links))
  <2>1. /\ state = "building" /\ i <= linkNum /\ ~TextDies(i) /\ ~ValueDies(i)
        /\ buff' = buff \o d /\ len' = len + Len(d) /\ i' = i + 1
        /\ UNCHANGED <<xmlDom, linkNum, state, reply>>
    BY <1>5 DEF AddLink
  <2>2. /\ i \in 1 .. linkNum + 1 /\ linkNum = xmlDom.num
        /\ buff \in Seq(Nat) /\ len = Len(buff) /\ Len(buff) <= 212 * n
        /\ \E at : Laid(links, buff, n, at)
    BY <2>1 DEF Decoding
  <2>3. links' = links
    BY <2>1 DEF links
  <2>4. i \in Nat /\ 1 <= i /\ i' - 1 = i /\ i' \in 1 .. linkNum + 1 /\ n \in Nat
    BY <1>1, <2>1, <2>2 DEF Lesser
  <2>5. CASE i <= Len(links)
    <3>1. n = i - 1 /\ n + 1 = i /\ Lesser(i, Len(links)) = i /\ i \in 1 .. Len(links)
      BY <1>1, <2>4, <2>5 DEF Lesser
    <3>2. d = Data(links, i)
      BY <1>1, <3>1, PackedData
    <3>3. d \in Seq(Nat) /\ Len(d) <= 212 /\ Len(d) \in Nat
      BY <1>1, <3>1, <3>2, DataIs, LenProperties
    <3> HIDE DEF d, n
    <3>4. buff' \in Seq(Nat) /\ Len(buff') = Len(buff) + Len(d)
      BY <2>1, <2>2, <3>3, JoinedIs
    <3>5. \E at : Laid(links, buff', i, at)
      <4>1. PICK at : Laid(links, buff, n, at)
        BY <2>2
      <4>2. \E to : Laid(links, buff \o Data(links, n + 1), n + 1, to)
        BY <2>2, <2>4, <3>1, <3>2, <3>3, <4>1, LaidMore, Zenon
      <4> QED
        BY <2>1, <3>1, <3>2, <4>2, Zenon
    <3>6. Len(buff') <= 212 * i /\ len' = Len(buff')
      <4>1. Len(buff) \in Nat
        BY <2>2, LenProperties
      <4> QED
        BY <2>1, <2>2, <2>4, <3>1, <3>3, <3>4, <4>1
    <3> QED
      BY <2>1, <2>2, <2>3, <2>4, <3>1, <3>4, <3>5, <3>6 DEF Decoding
  <2>6. CASE i > Len(links)
    <3>1. n = Len(links) /\ Lesser(i, Len(links)) = Len(links)
      BY <1>1, <2>4, <2>6 DEF Lesser
    <3>2. d = <<>>
      <4>1. i \notin DOMAIN links
        BY <1>1, <2>4, <2>6, LenProperties
      <4> QED
        BY <4>1 DEF getLinkText, Found, LinkData
    <3> HIDE DEF d, n
    <3>3. buff' = buff /\ len' = len
      <4>1. Len(buff) \in Nat
        BY <2>2, LenProperties
      <4> QED
        BY <2>1, <2>2, <3>2, <4>1
    <3> QED
      BY <2>1, <2>2, <2>3, <2>4, <3>1, <3>3 DEF Decoding
  <2> QED
    BY <1>1, <2>4, <2>5, <2>6
<1>6. ASSUME Request
      PROVE  Decoding'
  <2>1. /\ buff' = <<>> /\ len' = 0 /\ i' = 1 /\ state = "idle" /\ state' = "building"
        /\ UNCHANGED <<xmlDom, linkNum, reply>>
    BY <1>6 DEF Request
  <2>2. links' = links /\ linkNum \in Nat /\ linkNum = xmlDom.num
    BY <1>1, <2>1 DEF links, Decoding
  <2>3. Lesser(i' - 1, Len(links)) = 0 /\ i' \in 1 .. linkNum + 1
    BY <1>1, <2>1, <2>2 DEF Lesser
  <2>4. <<>> \in Seq(Nat) /\ Len(<<>>) = 0
    OBVIOUS
  <2>5. Laid(links, <<>>, 0, [k \in 1 .. 0 + 1 |-> 1])
    BY <2>4 DEF Laid
  <2> QED
    BY <2>1, <2>2, <2>3, <2>4, <2>5 DEF Decoding
<1>7. CASE (Packing /\ LinkDies) \/ LinkReply
  BY <1>3, <1>7 DEF LinkDies, LinkReply, Finish, GiveUp
<1>8. CASE readcb
  BY <1>2, <1>6, <1>8 DEF readcb, ReadNoBuffer, ReadRefused, ReadAnswered, ReadLink
<1>9. CASE Unlink \/ OthersLose \/ Write \/ (\E r \in Requests : Ask(r)) \/ UNCHANGED vars
  BY <1>2, <1>9 DEF Unlink, OthersLose, Write, Ask, vars
<1> QED
  BY <1>4, <1>5, <1>7, <1>8, <1>9 DEF Next, Packing

\* However many links a document has, whichever are incomplete and whatever
\* number it declares: what buildSendLinkPkg has built is read as the complete
\* links, in their order, by a client that follows the lengths.
THEOREM ReplyDecodesHolds == Spec => []ReplyDecodes
<1>1. Init => Decoding /\ ReplyDecodes
  <2> SUFFICES ASSUME Init PROVE Decoding /\ ReplyDecodes
    OBVIOUS
  <2>1. xmlDom \in Documents \cup {NoRoot} /\ state = "start" /\ reply = <<>>
    BY DEF Init, LinkInit
  <2> QED
    BY <2>1 DEF Decoding, ReplyDecodes
<1>2. ASSUME Decoding, ReplyDecodes, [Next]_vars
      PROVE  ReplyDecodes'
  <2>1. CASE UNCHANGED <<xmlDom, linkNum, reply, rc>>
    BY <1>2, <2>1 DEF ReplyDecodes, links
  <2>2. CASE rc' # 0 \/ reply' = <<>>
    BY <2>2 DEF ReplyDecodes
  <2>3. CASE GiveUp
    BY <2>2, <2>3 DEF GiveUp
  <2>4. CASE Finish
    BY <1>2, <2>4, FinishDecodes
  <2>5. CASE Packing
    BY <2>1, <2>5 DEF Packing, AddLink, LinkDies
  <2>6. CASE Start
    BY <1>2, <2>2, <2>6 DEF Start, ReadXml, Decoding
  <2>7. CASE readcb
    BY <2>1, <2>7 DEF readcb, ReadNoBuffer, ReadRefused, ReadAnswered, ReadLink, Request,
                      linkVars
  <2>8. CASE Unlink \/ OthersLose \/ Write \/ (\E r \in Requests : Ask(r)) \/ UNCHANGED vars
    BY <2>1, <2>8 DEF Unlink, OthersLose, Write, Ask, vars, linkVars
  <2>9. CASE LinkReply
    BY <2>3, <2>4, <2>9 DEF LinkReply
  <2> QED
    BY <1>2, <2>5, <2>6, <2>7, <2>8, <2>9 DEF Next
<1> QED
  BY <1>1, <1>2, NextDecoding, PTL DEF Spec
=============================================================================
