--------------------------- MODULE PluginSession ---------------------------
(***************************************************************************)
(* PluginSvr/src/test.cpp, Do_Read and what it calls, between the clients' *)
(* byte streams and the replies: what libevent hands to the callback, what *)
(* the callback takes for a request, what it answers, and the memory it    *)
(* loses on the way.  All connections share one heap.                      *)
(*                                                                         *)
(* TCP keeps the order of the words and nothing else: one read may see     *)
(* part of a request, or several.  The clients are not in the repository;  *)
(* they are modelled from Proto.h.  The Patient ones ask one at a time and *)
(* their requests arrive whole.                                            *)
(***************************************************************************)
EXTENDS PkgUtil

CONSTANTS
    Clients,
    Requests,    \* the requests the clients make, a subset of Kinds
    Patient,     \* the clients that wait for each answer
    Window,      \* requests another client may have unanswered
    MaxReqs,     \* requests per client (a bound)
    FileFlaky,   \* TRUE: pt.vfs may disappear and come back
    HighMark,    \* the read high watermark, 4096 bytes, in words
    HeapBlocks   \* how many 4 MB blocks the address space has room for

Kinds == {"current", "stale", "report", "link", "unknown"}

ASSUME SessionAssumption ==
    /\ Requests \subseteq Kinds /\ Patient \subseteq Clients
    /\ Window \in Nat /\ MaxReqs \in Nat /\ HeapBlocks \in Nat
    /\ HighMark \in Nat /\ HighMark > 4   \* the longest request fits
    /\ FileFlaky \in BOOLEAN

VARIABLES
    asked,   \* the requests each client has sent
    got,     \* the types of the replies it has received
    conn,    \* "up", "fin" (the client closed its end), "closed"
    chan,    \* words sent and not yet read by the server
    input,   \* the input evbuffer of the connection
    output,  \* the output evbuffer: replies not yet sent
    lost,    \* blocks allocated and never to be freed
    file     \* can pt.vfs be read

vars == <<asked, got, conn, chan, input, output, lost, file>>

-----------------------------------------------------------------------------
(* The clients.                                                            *)

Content(r) == CASE r = "current" -> <<htonl(HostWord(svrVersion))>>
                [] r = "stale"   -> <<htonl(HostWord(svrVersion + 1))>>
                [] r = "report"  -> <<HostWord(7), HostWord(7)>>
                [] OTHER         -> <<>>

Command(r) == CASE r \in {"current", "stale"} -> CS_CMD_REQ_NEW_VERSION
                [] r = "report"  -> CS_CMD_REQ_REP_DATA
                [] r = "link"    -> CS_CMD_REQ_UPDATE_LINK
                [] r = "unknown" -> 99

Packet(r) ==
    LET h == HeadHton(Head3(PROTO_HEAD_SIZE + 4 * Len(Content(r)), Command(r),
                            PROTO_VERSION))
    IN <<h.pkgLength, h.cmdID, h.protoVersion>> \o Content(r)

\* The type of reply that Proto.h names for a request.
Answer(r) == CASE r = "current" -> CS_CMD_RES_IS_UPDATE
               [] r = "stale"   -> CS_CMD_RES_SEND_PLUGIN
               [] r = "report"  -> CS_CMD_RES_REP_DATA
               [] r = "link"    -> CS_CMD_RES_SEND_LINK
               [] r = "unknown" -> 0

Init ==
    /\ asked  = [c \in Clients |-> <<>>]
    /\ got    = [c \in Clients |-> <<>>]
    /\ conn   = [c \in Clients |-> "up"]
    /\ chan   = [c \in Clients |-> <<>>]
    /\ input  = [c \in Clients |-> <<>>]
    /\ output = [c \in Clients |-> <<>>]
    /\ lost   = 0
    /\ file   = TRUE

Ask(c, r) ==
    /\ conn[c] = "up"
    /\ Len(asked[c]) < MaxReqs
    /\ Len(asked[c]) - Len(got[c]) < (IF c \in Patient THEN 1 ELSE Window)
    /\ asked' = [asked EXCEPT ![c] = Append(@, r)]
    /\ chan'  = [chan EXCEPT ![c] = @ \o Packet(r)]
    /\ UNCHANGED <<got, conn, input, output, lost, file>>

HangUp(c) ==
    /\ conn[c] = "up"
    /\ conn' = [conn EXCEPT ![c] = "fin"]
    /\ UNCHANGED <<asked, got, chan, input, output, lost, file>>

\* The file is removed, or put back.
Replace ==
    /\ FileFlaky
    /\ file' = ~file
    /\ UNCHANGED <<asked, got, conn, chan, input, output, lost>>

-----------------------------------------------------------------------------
(* libevent reads up to the watermark and runs Do_Read on what it has.     *)

\* Mutant of Sizes: no watermark is set.
Sizes_Unbounded(c) == 1 .. Len(chan[c])
Sizes(c) == LET room == HighMark - Len(input[c]) IN
    {n \in 1 .. Len(chan[c]) : n <= room /\ (c \in Patient => n \in {room, Len(chan[c])})}

Buffered(c, n) == input[c] \o SubSeq(chan[c], 1, n)

Blocks == HeapBlocks - lost

\* Do_Read's first malloc fails: the input stays where it is.
ReadNoBuffer(c) == \E n \in Sizes(c) :
    /\ conn[c] # "closed"
    /\ Blocks = 0
    /\ input' = [input EXCEPT ![c] = Buffered(c, n)]
    /\ chan'  = [chan EXCEPT ![c] = SubSeq(@, n + 1, Len(@))]
    /\ UNCHANGED <<asked, got, conn, output, lost, file>>

\* Mutant of Drain: evbuffer_copyout, which leaves the data in the buffer.
Drain_Copied(c, n) ==
    /\ input' = [input EXCEPT ![c] = Buffered(c, n)]
    /\ chan'  = [chan EXCEPT ![c] = SubSeq(@, n + 1, Len(@))]
\* evbuffer_remove takes all of the input out.
Drain(c, n) ==
    /\ input' = [input EXCEPT ![c] = <<>>]
    /\ chan'  = [chan EXCEPT ![c] = SubSeq(@, n + 1, Len(@))]

\* Mutant of ReadRefused: what is refused closes the connection.
ReadRefused_Closes(c) == \E n \in Sizes(c) : \E r \in ProcessClientPkg(Buffered(c, n)) :
    /\ conn[c] # "closed"
    /\ Blocks > 0
    /\ r.rc # "0" \/ Blocks = 1
    /\ Drain(c, n)
    /\ lost' = lost + 1
    /\ conn' = [conn EXCEPT ![c] = "closed"]
    /\ output' = [output EXCEPT ![c] = <<>>]
    /\ UNCHANGED <<asked, got, file>>

\* Do_Read returns early, inputBuff still allocated: the packet is refused, or
\* there is no second block for replyPkg.
ReadRefused(c) == \E n \in Sizes(c) : \E r \in ProcessClientPkg(Buffered(c, n)) :
    /\ conn[c] # "closed"
    /\ Blocks > 0
    /\ r.rc # "0" \/ Blocks = 1
    /\ Drain(c, n)
    /\ lost' = lost + 1
    /\ UNCHANGED <<asked, got, conn, output, file>>

\* Mutant of ReadAnswered: the file's absence is told by an up-to-date reply.
ReadAnswered_Fallback(c) == \E n \in Sizes(c) : \E r \in ProcessClientPkg(Buffered(c, n)) :
    LET b == BuildPkgByType(IF file THEN r.pkgType ELSE 10, Blocks - 2, file) IN
    /\ conn[c] # "closed"
    /\ Blocks > 1
    /\ r.rc = "0"
    /\ Drain(c, n)
    /\ output' = [output EXCEPT ![c] = @ \o b.reply]
    /\ lost'   = lost + b.lost
    /\ UNCHANGED <<asked, got, conn, file>>

\* The reply is built and added to the output; both blocks are freed.
ReadAnswered(c) == \E n \in Sizes(c) : \E r \in ProcessClientPkg(Buffered(c, n)) :
    LET b == BuildPkgByType(r.pkgType, Blocks - 2, file) IN
    /\ conn[c] # "closed"
    /\ Blocks > 1
    /\ r.rc = "0"
    /\ Drain(c, n)
    /\ output' = [output EXCEPT ![c] = @ \o b.reply]
    /\ lost'   = lost + b.lost
    /\ UNCHANGED <<asked, got, conn, file>>

DoRead(c) == ReadNoBuffer(c) \/ ReadRefused(c) \/ ReadAnswered(c)

-----------------------------------------------------------------------------
\* libevent writes a reply and the client receives it.
TypeOfReply(p) == HostValue(HeadNtoh(p.head).cmdID)

Flush(c) ==
    /\ conn[c] # "closed" /\ output[c] # <<>>
    /\ got'    = [got EXCEPT ![c] = Append(@, TypeOfReply(Head(output[c])))]
    /\ output' = [output EXCEPT ![c] = Tail(@)]
    /\ UNCHANGED <<asked, conn, chan, input, lost, file>>

\* Do_Error on EOF, which is only seen by a read, and reading stops while the
\* input is at its watermark.  What was still to be sent is dropped.
Eof(c) ==
    /\ conn[c] = "fin" /\ chan[c] = <<>>
    /\ Len(input[c]) < HighMark
    /\ conn'   = [conn EXCEPT ![c] = "closed"]
    /\ input'  = [input EXCEPT ![c] = <<>>]
    /\ output' = [output EXCEPT ![c] = <<>>]
    /\ UNCHANGED <<asked, got, chan, lost, file>>

Next ==
    \/ Replace
    \/ \E c \in Clients :
          \/ \E r \in Requests : Ask(c, r)
          \/ HangUp(c) \/ DoRead(c) \/ Flush(c) \/ Eof(c)

\* The dispatch loop serves every ready connection on each pass.
Fairness == \A c \in Clients : WF_vars(DoRead(c)) /\ WF_vars(Flush(c)) /\ WF_vars(Eof(c))

Spec     == Init /\ [][Next]_vars
FairSpec == Spec /\ Fairness

-----------------------------------------------------------------------------
(* Properties.                                                             *)

Replies == [head : tagCSMsgHead, bytes : Nat]

\* Every variable has its type, and the input never exceeds its watermark.
SessionTypeOK ==
    /\ asked \in [Clients -> Seq(Requests)]
    /\ got \in [Clients -> Seq(Nat)]
    /\ conn \in [Clients -> {"up", "fin", "closed"}]
    /\ \A c \in Clients :
          /\ \A i \in DOMAIN chan[c] : chan[c][i] \in Word
          /\ Len(input[c]) <= HighMark
    /\ lost \in 0 .. HeapBlocks
    /\ file \in BOOLEAN

\* However the stream is cut, no request is answered twice and no reply is
\* made up: Do_Read takes from the buffer all it has looked at.
NoSpuriousReply ==
    \A c \in Clients : Len(got[c]) + Len(output[c]) <= Len(asked[c])

\* Input is left in the buffer only once the heap is exhausted for good, never
\* by a packet that is refused.
InputDrained == \A c \in Clients : input[c] # <<>> => Blocks = 0

\* The length a reply's header announces, written before the body is copied,
\* is the number of bytes handed to evbuffer_add, and with the largest pt.vfs
\* that may be installed it fits replyPkg to the byte: nothing that copies
\* there looks at the end of the block.
ReplyFramed ==
    \A c \in Clients : \A i \in DOMAIN output[c] :
        /\ HostValue(HeadNtoh(output[c][i].head).pkgLength) = output[c][i].bytes
        /\ FileLen <= MAX_SVR_PKG_LENGTH - 44 => output[c][i].bytes <= MAX_SVR_PKG_LENGTH

\* A reply that was built is either received or dropped because its client has
\* closed its end: neither what the client sends next, in whatever pieces, nor
\* what fails in the server, nor another client costs it a reply it has coming.
ReplyLostOnlyToLeavers == [][
    \A c \in Clients :
       /\ Len(output'[c]) < Len(output[c]) => (got'[c] # got[c] \/ conn[c] = "fin")
       /\ conn'[c] = "closed" => conn[c] # "up"]_vars

\* A reply that a patient client receives is the one its request deserves,
\* whatever fails in the server and whatever other clients send: failures
\* silence it but never make it answer something else.
RightAnswer ==
    \A c \in Patient : \A i \in DOMAIN got[c] : got[c][i] = Answer(asked[c][i])

\* The service as promised.
Service == INSTANCE PluginService WITH up <- [c \in Clients |-> conn[c] = "up"]
Promise == Service!Spec

\* Proto.h: pkgLength is "the total length of pkg", so that requests can follow
\* one another on a stream: when all has been read and sent, all is answered.
EveryRequestAnswered ==
    \A c \in Clients :
        conn[c] = "up" /\ chan[c] = <<>> /\ input[c] = <<>> /\ output[c] = <<>>
            => Len(got[c]) = Len(asked[c])
=============================================================================
