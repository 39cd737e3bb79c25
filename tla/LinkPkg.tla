------------------------------- MODULE LinkPkg ------------------------------
(***************************************************************************)
(* plugin_server v0.1, ReadCfg.cpp and buildSendLinkPkg of proto.cpp: the  *)
(* hyperlinks of an XML file packed into one reply, link by link.          *)
(*                                                                         *)
(* The callback that asks for it is in OldSession.                         *)
(***************************************************************************)
EXTENDS Proto, Integers, SequencesExt, FiniteSetsExt

CONSTANTS
    Documents,   \* the XML files
    Absent       \* a link's text or value whose element is missing

\* The room proto.h has for the text of an element.
MAX_LINK_LENGTH == 100

\* What TinyXML makes of an element is text, or none.
LinkText == {t \in Seq(Byte) : Len(t) <= MAX_LINK_LENGTH} \cup {Absent}

\* The 4 MB block of a reply has room for the links with their lengths (proto.h
\* speaks of no more than MAX_LINK_NUM, 12).
ASSUME LinkAssumption ==
    \A d \in Documents :
        /\ d.num \in Nat /\ d.links \in Seq([text : LinkText, value : LinkText])
        /\ PROTO_HEAD_SIZE + 4 + (12 + 2 * MAX_LINK_LENGTH) * Len(d.links)
             <= MAX_SVR_PKG_LENGTH

VARIABLES
    xmlDom,    \* the document, or Unread
    linkNum,   \* the number it declares; 0 when it could not be parsed
    state,     \* "start", "idle", "building", "dead"
    i,         \* the loop's index
    buff,      \* what has been copied behind the header and the count
    len,       \* the length counted so far
    reply,     \* the last reply: the bytes handed to evbuffer_add
    rc         \* what buildSendLinkPkg returned last

linkVars == <<xmlDom, linkNum, state, i, buff, len, reply, rc>>

\* A document is the number it declares and its links.  A text or value whose
\* element is there but empty is <<>>.
NoRoot == [num |-> 0, links |-> <<>>]

LinkInit ==
    /\ xmlDom \in Documents \cup {NoRoot}
    /\ linkNum = 0 /\ state = "start"
    /\ i = 0 /\ buff = <<>> /\ len = 0 /\ reply = <<>> /\ rc = 0

ReadXml ==
    /\ state = "start" /\ state' = "idle"
    /\ linkNum' = xmlDom.num
    /\ UNCHANGED <<xmlDom, i, buff, len, reply, rc>>

-----------------------------------------------------------------------------
(* getLinkText and getLinkValue walk from the first link to the index'th;  *)
(* when that has nothing to give they walk on, and past the last link only *)
(* one step is safe.  Each returns <<>> when it finds nothing.             *)

links       == xmlDom.links
Found(k, f) == k \in DOMAIN links /\ links[k][f] # Absent

\* Mutant of WalksOff: the walk goes one step further.
WalksOff_ByOne == linkNum > Len(links)

WalksOff == linkNum > Len(links) + 1

\* The content of an empty element is a null pointer, and used.
TextDies(k) ==
    IF Found(k, "text") THEN links[k].text = <<>> ELSE WalksOff

\* A link without any element has no second one either.
ValueDies(k) ==
    \/ IF Found(k, "value") THEN links[k].value = <<>> ELSE WalksOff
    \/ \E j \in DOMAIN links :
          links[j].text = Absent /\ j <= IF Found(k, "value") THEN k ELSE linkNum

getLinkText(k)  == IF Found(k, "text")  THEN links[k].text  ELSE <<>>
getLinkValue(k) == IF Found(k, "value") THEN links[k].value ELSE <<>>

-----------------------------------------------------------------------------
NetWord(n)  == htonl(HostWord(n))
Counted(s)  == NetWord(Len(s) + 4) \o s

\* One tagCSLinkData: three lengths, each of them counting itself.
LinkData(text, value) ==
    IF text = <<>> \/ value = <<>> THEN <<>>
    ELSE NetWord(Len(text) + Len(value) + 12) \o Counted(text) \o Counted(value)

Request ==
    /\ state = "idle"
    /\ state' = "building" /\ i' = 1 /\ buff' = <<>> /\ len' = 0
    /\ UNCHANGED <<xmlDom, linkNum, reply, rc>>

AddLink ==
    /\ state = "building" /\ i <= linkNum
    /\ ~TextDies(i) /\ ~ValueDies(i)
    /\ buff' = buff \o LinkData(getLinkText(i), getLinkValue(i))
    /\ len'  = len + Len(LinkData(getLinkText(i), getLinkValue(i)))
    /\ i'    = i + 1
    /\ UNCHANGED <<xmlDom, linkNum, state, reply, rc>>

LinkDies ==
    /\ state = "building" /\ i <= linkNum
    /\ TextDies(i) \/ ValueDies(i)
    /\ state' = "dead"
    /\ UNCHANGED <<xmlDom, linkNum, i, buff, len, reply, rc>>

HeadBytes(h) == h.pkgLength \o h.cmdID \o h.protoVersion

\* Mutant of Finish: the header is written before its own length is counted.
Finish_BodyLength ==
    /\ state = "building" /\ i > linkNum
    /\ len'   = len + PROTO_HEAD_SIZE + 4
    /\ reply' = SubSeq(HeadBytes(HeadHton(Head3(len, CS_CMD_RES_SEND_LINK, PROTO_VERSION)))
                         \o NetWord(linkNum) \o buff, 1, len')
    /\ state' = "idle" /\ rc' = 0
    /\ UNCHANGED <<xmlDom, linkNum, i, buff>>

\* The reply buffer was zero, and len bytes of it are sent.
Finish ==
    /\ state = "building" /\ i > linkNum
    /\ len'   = len + PROTO_HEAD_SIZE + 4
    /\ reply' = SubSeq(HeadBytes(HeadHton(Head3(len', CS_CMD_RES_SEND_LINK, PROTO_VERSION)))
                         \o NetWord(linkNum) \o buff, 1, len')
    /\ state' = "idle" /\ rc' = 0
    /\ UNCHANGED <<xmlDom, linkNum, i, buff>>

Zeros(n) == [k \in 1 .. n |-> 0]

\* Mutant of GiveUp: the header is written before the links are packed.
GiveUp_Headed ==
    /\ state = "building"
    /\ reply' = SubSeq(HeadBytes(HeadHton(Head3(len, CS_CMD_RES_SEND_LINK, PROTO_VERSION)))
                         \o Zeros(4) \o buff, 1, len)
    /\ state' = "idle" /\ rc' = -1
    /\ UNCHANGED <<xmlDom, linkNum, i, buff, len>>

\* A malloc of the loop, or the header's, fails: nobody looks at the result,
\* and the bytes counted so far are sent, with zeros where the header belongs.
GiveUp ==
    /\ state = "building"
    /\ reply' = SubSeq(Zeros(PROTO_HEAD_SIZE + 4) \o buff, 1, len)
    /\ state' = "idle" /\ rc' = -1
    /\ UNCHANGED <<xmlDom, linkNum, i, buff, len>>

-----------------------------------------------------------------------------
(* The client, from proto.h: how the bytes of a reply are read.            *)

WordAt(b, at) == HostValue(ntohl(SubSeq(b, at, at + 3)))

\* The link at a place of a reply, read by the lengths that are there.
LinkAt(b, at) ==
    LET key == WordAt(b, at + 4)
        val == WordAt(b, at + 4 + key)
    IN  [text  |-> SubSeq(b, at + 8, at + 3 + key),
         value |-> SubSeq(b, at + 8 + key, at + 3 + key + val)]

Complete(l) == l.text \notin {Absent, <<>>} /\ l.value \notin {Absent, <<>>}

\* Where a client looks for each of the first n links of a document, and for what
\* follows them: behind the header and the count, and then as far behind each
\* link as its length says.  One that is not complete is not there.
LinkPlaces(b, doc, n) ==
    LET at[k \in 1 .. n + 1] ==
          IF k = 1 THEN PROTO_HEAD_SIZE + 5
          ELSE at[k - 1] + IF Complete(doc[k - 1]) THEN WordAt(b, at[k - 1]) ELSE 0
    IN  at

\* However many links there are, whichever are incomplete and whatever number
\* the document declares: a reply announces its own length, and a client that
\* follows the lengths reads the complete links, each once, in their order, and
\* then is at its end.
ReplyDecodes ==
    reply # <<>> /\ rc = 0 =>
        LET n  == Min({linkNum, Len(links)})
            at == LinkPlaces(reply, links, n)
        IN  /\ WordAt(reply, 1) = Len(reply)
            /\ \A k \in 1 .. n : Complete(links[k]) => LinkAt(reply, at[k]) = links[k]
            /\ at[n + 1] = Len(reply) + 1

\* What is sent of a reply whose building failed cannot be taken for a reply:
\* wherever memory ran out, there is no header at its beginning.
HalfBuiltTellable ==
    rc = -1 /\ Len(reply) >= PROTO_HEAD_SIZE =>
        WordAt(reply, 1) # Len(reply) /\ WordAt(reply, 9) # PROTO_VERSION

\* It takes a declared number more than one too large, or an element that is
\* missing or empty, to end the process: a link without a value is passed over.
DiesOnlyOfBadDocument ==
    state = "dead" =>
        \/ linkNum > Len(links) + 1
        \/ \E k \in DOMAIN links : links[k].text \in {<<>>, Absent} \/ links[k].value = <<>>
=============================================================================
