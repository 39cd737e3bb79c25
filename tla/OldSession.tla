----------------------------- MODULE OldSession -----------------------------
(***************************************************************************)
(* plugin_server v0.1, readcb and writecb of main.cpp with dealPkg and     *)
(* buildPkgByType of proto.cpp: one connection, the heap it shares with    *)
(* all others, and the link packets of LinkPkg.                            *)
(*                                                                         *)
(* Requests arrive whole, alone or several in one read; the cuts inside a  *)
(* request are PluginSession's subject, but for "short", which is less     *)
(* than a header.  A request is known by its number, and so is its reply.  *)
(***************************************************************************)
EXTENDS LinkPkg

CONSTANTS
    Requests,     \* the kinds of request a client sends
    MaxSent,      \* requests sent on the connection (a bound)
    HeapBlocks    \* how many 4 MB blocks the address space has room for

ASSUME OldSessionAssumption ==
    /\ Requests \subseteq {"current", "stale", "report", "link", "unknown", "foreign", "short"}
    /\ MaxSent \in Nat /\ HeapBlocks \in Nat

VARIABLES
    sent,     \* what the client has asked, in order
    chan,     \* numbers of the requests on their way
    input,    \* the input evbuffer: requests a readcb has left there
    output,   \* the output evbuffer: pieces of replies
    wire,     \* what the client has received
    lost,     \* 4 MB blocks never to be freed
    file,     \* can pt.vfs be read
    serving   \* the link request whose reply is being built, or 0

sessionVars == <<sent, chan, input, output, wire, lost, file, serving>>
vars        == <<linkVars, sessionVars>>

\* A piece of what is sent: a reply (all of it, or all but its last byte), or
\* one of two pieces that answer no request.
Reply(n, type) == [req |-> n, type |-> type]
LastByte == Reply(0, 1)    \* of the reply sent just before
Hello    == Reply(0, 2)    \* "hello,client\n"

Init ==
    /\ LinkInit
    /\ sent = <<>> /\ chan = <<>> /\ input = <<>> /\ output = <<>> /\ wire = <<>>
    /\ lost = 0 /\ file = TRUE /\ serving = 0

Start == ReadXml /\ UNCHANGED sessionVars

Ask(r) ==
    /\ state # "dead" /\ Len(sent) < MaxSent
    /\ sent' = Append(sent, r)
    /\ chan' = Append(chan, Len(sent) + 1)
    /\ UNCHANGED <<linkVars, input, output, wire, lost, file, serving>>

Unlink ==
    /\ state # "dead" /\ file
    /\ file' = FALSE
    /\ UNCHANGED <<linkVars, sent, chan, input, output, wire, lost, serving>>

Free == HeapBlocks - lost

\* Other connections' packets are refused, and their blocks are lost.
OthersLose ==
    /\ state = "idle" /\ Free > 0
    /\ lost' = lost + 1
    /\ UNCHANGED <<linkVars, sent, chan, input, output, wire, file, serving>>

-----------------------------------------------------------------------------
(* readcb takes all there is for one packet, which begins like the first   *)
(* request in it.                                                          *)

Taken(n) == input \o SubSeq(chan, 1, n)
Kind(n)  == sent[Head(Taken(n))]

\* dealPkg: no room for a content of negative length, or another protocol.
Refused(kind) == kind \in {"short", "foreign"}

\* libevent has read n of the requests on their way.
Arrives(n) ==
    /\ state = "idle"
    /\ chan' = SubSeq(chan, n + 1, Len(chan))
    /\ UNCHANGED <<sent, wire, file>>

\* inputBuff cannot be allocated: the input stays.
ReadNoBuffer(n) ==
    /\ Arrives(n) /\ Free = 0
    /\ input' = Taken(n)
    /\ UNCHANGED <<linkVars, output, lost, serving>>

\* Mutant of ReadRefused: a packet that is refused is left in the input.
ReadRefused_Kept(n) ==
    /\ Arrives(n) /\ Free > 0
    /\ Refused(Kind(n)) \/ Free = 1
    /\ input' = Taken(n)
    /\ lost' = lost + 1
    /\ UNCHANGED <<linkVars, output, serving>>

\* An early return with inputBuff still allocated: dealPkg's, or for want of a
\* second block.
ReadRefused(n) ==
    /\ Arrives(n) /\ Free > 0
    /\ Refused(Kind(n)) \/ Free = 1
    /\ input' = <<>>
    /\ lost' = lost + 1
    /\ UNCHANGED <<linkVars, output, serving>>

\* dealPkg's type of reply for a request, 0 when it knows none.
dealPkg(kind) == CASE kind = "current" -> CS_CMD_RES_IS_UPDATE
                   [] kind = "stale"   -> CS_CMD_RES_SEND_PLUGIN
                   [] kind = "report"  -> CS_CMD_RES_REP_DATA
                   [] kind = "link"    -> CS_CMD_RES_SEND_LINK
                   [] OTHER            -> 0

\* buildSendPluginPkg: a third block holds the file.  FileToBytes finds nothing
\* in a file that is not there and says 0; GetFileMd5 fails, and the block is
\* left allocated.
buildSendPluginPkg(n) ==
    IF Free < 3 THEN [reply |-> <<>>, lost |-> 0]
    ELSE IF ~file THEN [reply |-> <<>>, lost |-> 1]
    ELSE [reply |-> <<Reply(n, CS_CMD_RES_SEND_PLUGIN)>>, lost |-> 0]

\* Mutant of buildPkgByType: the switch falls through to the next reply.
buildPkgByType_FallsThrough(type, n) ==
    CASE type = CS_CMD_RES_SEND_PLUGIN ->
           [reply |-> <<Reply(n, CS_CMD_RES_IS_UPDATE)>>, lost |-> 0]
      [] type = CS_CMD_RES_IS_UPDATE   ->
           [reply |-> <<Reply(n, CS_CMD_RES_IS_UPDATE)>>, lost |-> 0]
      [] OTHER                         -> [reply |-> <<>>, lost |-> 0]

buildPkgByType(type, n) ==
    CASE type = CS_CMD_RES_SEND_PLUGIN -> buildSendPluginPkg(n)
      [] type = CS_CMD_RES_IS_UPDATE   ->
           [reply |-> <<Reply(n, CS_CMD_RES_IS_UPDATE)>>, lost |-> 0]
      [] OTHER                         -> [reply |-> <<>>, lost |-> 0]

ReadAnswered(n) ==
    /\ Arrives(n) /\ Free > 1
    /\ ~Refused(Kind(n)) /\ Kind(n) # "link"
    /\ input' = <<>>
    /\ LET b == buildPkgByType(dealPkg(Kind(n)), Head(Taken(n)))
       IN  output' = output \o b.reply /\ lost' = lost + b.lost
    /\ UNCHANGED <<linkVars, serving>>

ReadLink(n) ==
    /\ Arrives(n) /\ Free > 1
    /\ Kind(n) = "link"
    /\ input' = <<>>
    /\ serving' = Head(Taken(n))
    /\ Request
    /\ UNCHANGED <<output, lost>>

readcb == \E n \in 1 .. Len(chan) :
    ReadNoBuffer(n) \/ ReadRefused(n) \/ ReadAnswered(n) \/ ReadLink(n)

\* The rest of readcb, as long as links are packed; nothing else runs.
Packing == (AddLink \/ LinkDies) /\ UNCHANGED sessionVars

\* evbuffer_add takes what was built, whether buildSendLinkPkg failed or not.
LinkReply ==
    /\ Finish \/ GiveUp
    /\ output' = IF reply' = <<>> THEN output
                 ELSE Append(output, Reply(serving, CS_CMD_RES_SEND_LINK))
    /\ serving' = 0
    /\ UNCHANGED <<sent, chan, input, wire, lost, file>>

-----------------------------------------------------------------------------
\* writecb runs when one byte or none is left of the output (its low watermark
\* is 1), and sends past that byte when there is input.
writecb == IF input # <<>> THEN <<Hello>> ELSE <<>>

Write == \E rest \in {<<>>, <<LastByte>>} :
    /\ state = "idle"
    /\ output # <<>> /\ output # rest
    /\ output' = rest
    /\ wire' = wire \o output \o writecb
    /\ UNCHANGED <<linkVars, sent, chan, input, lost, file, serving>>

Next ==
    \/ Start \/ Unlink \/ OthersLose \/ \E r \in Requests : Ask(r)
    \/ readcb \/ Packing \/ LinkReply \/ Write

Spec == Init /\ [][Next]_vars

-----------------------------------------------------------------------------
\* The client gets "hello,client" among its replies, and maybe inside one, only
\* when no block can be allocated any more: as long as there is memory, readcb
\* empties the input, whatever it finds there, before writecb looks at it.
StrayOnlyWhenExhausted ==
    (\E k \in DOMAIN wire : wire[k] = Hello) => lost = HeapBlocks

\* The replies that proto.h has for the requests.
Deserved == { <<"current", CS_CMD_RES_IS_UPDATE>>, <<"stale", CS_CMD_RES_SEND_PLUGIN>>,
              <<"link", CS_CMD_RES_SEND_LINK>> }

\* Whichever requests are read together, refused or lost for want of memory or
\* of pt.vfs: a reply that is sent is the one its request deserves, and replies
\* keep the order of the requests.
OldRightAnswer ==
    LET pieces == wire \o output IN
    \A k \in DOMAIN pieces : pieces[k].req # 0 =>
        /\ <<sent[pieces[k].req], pieces[k].type>> \in Deserved
        /\ \A j \in 1 .. k - 1 : pieces[j].req < pieces[k].req
=============================================================================
