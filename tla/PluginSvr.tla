----------------------------- MODULE PluginSvr -----------------------------
(***************************************************************************)
(* PluginSvr/src/test.cpp: the accept, read, write and event callbacks of  *)
(* the plugin update server, run one at a time by libevent's dispatch      *)
(* loop, and the descriptors they open and close.  Every TRACESVR line     *)
(* opens the log file again and never closes it (Log.cpp), so the log      *)
(* competes with the connections for descriptors.                          *)
(*                                                                         *)
(* Do_Error is three steps: it closes the socket, writes a log line, and   *)
(* bufferevent_free closes the same number a second time when the          *)
(* callback has returned (BEV_OPT_CLOSE_ON_FREE).  Peers may act between   *)
(* any two steps; the other callbacks of the server may not.               *)
(***************************************************************************)
EXTENDS Descriptors, Sequences

CONSTANTS
    Conns,       \* clients; each holds at most one connection at a time
    FdSetSize,   \* FD_SETSIZE
    BacklogLen   \* the second argument of listen()

ASSUME ConnsAssumption ==
    Conns \cap {"free", "sys", "log", "none"} = {}
ASSUME SizesAssumption ==
    /\ FdSetSize \in Nat
    /\ BacklogLen \in Nat \ {0}
\* stdio, the log lines of start-up, epoll, the signal pair, the listener
ASSUME BootAssumption == MaxFds > 16

VARIABLES
    fds,      \* who holds each descriptor
    bev,      \* the descriptor of each connection's bufferevent, or NoFd
    out,      \* is EV_WRITE registered for the connection
    backlog,  \* connections established by the kernel, not yet accepted
    peer,     \* the other end of each connection, as far as this host knows
    rx,       \* is an unread request in the connection's receive queue
    loop,     \* what the dispatch loop is doing, and for which connection
    daemon    \* did main() run InitDaemon, so that SIGPIPE is ignored

vars == <<fds, bev, out, backlog, peer, rx, loop, daemon>>
net  == <<backlog, peer, rx>>

NoFd == MaxFds

Stages == {"dispatch", "closed", "failed", "logged", "dead"}

At(stage, c) == [at |-> stage, conn |-> c]
Dispatch     == At("dispatch", "none")
Dead         == At("dead", "none")

Running == loop # Dead
Serving == loop = Dispatch
Live(c) == bev[c] # NoFd

-----------------------------------------------------------------------------
(* Start-up: Initialize and Run, up to event_base_dispatch.                *)

Stdio    == 0 .. 2
BootLog  == 3 .. 11     \* ReadCfg writes 6 lines, Initialize 2, Run 1
LoopFds  == 12 .. 15    \* epoll_create, the signal pair, the listener

BootTable == [f \in Fd |-> IF f \in Stdio \cup LoopFds THEN "sys"
                           ELSE IF f \in BootLog THEN "log"
                           ELSE "free"]

Init ==
    /\ fds     = BootTable
    /\ bev     = [c \in Conns |-> NoFd]
    /\ out     = [c \in Conns |-> FALSE]
    /\ backlog = <<>>
    /\ peer    = [c \in Conns |-> "none"]
    /\ rx      = [c \in Conns |-> FALSE]
    /\ loop    = Dispatch
    /\ daemon \in BOOLEAN   \* "-d" keeps it in the foreground

-----------------------------------------------------------------------------
(* The peers and the network.                                              *)

Connect(c) ==
    /\ Running
    /\ peer[c] = "none"
    /\ Len(backlog) < BacklogLen
    /\ peer'    = [peer EXCEPT ![c] = "up"]
    /\ backlog' = Append(backlog, c)
    /\ UNCHANGED <<fds, bev, out, rx, loop, daemon>>

Send(c) ==
    /\ peer[c] = "up"
    /\ ~rx[c]
    /\ rx' = [rx EXCEPT ![c] = TRUE]
    /\ UNCHANGED <<fds, bev, out, backlog, peer, loop, daemon>>

\* The peer closes its end: a FIN, or a reset (which may also follow a FIN,
\* as the answer to data that nobody will read).
HangUp(c, how) ==
    /\ <<peer[c], how>> \in {<<"up", "fin">>, <<"up", "rst">>, <<"fin", "rst">>}
    /\ peer' = [peer EXCEPT ![c] = how]
    /\ UNCHANGED <<fds, bev, out, backlog, rx, loop, daemon>>

Peers == \E c \in Conns :
    Connect(c) \/ Send(c) \/ HangUp(c, "fin") \/ HangUp(c, "rst")

-----------------------------------------------------------------------------
(* The log.                                                                *)

\* Mutant of WriteLog: each line closes its FILE.
WriteLog_Closing(t, n) == t
\* n lines: n FILEs opened and none closed.
WriteLog(t, n) == OpenMany(t, n, "log")

\* The process is gone and the kernel has closed all it held.  fopen returned
\* NULL and WriteLog printed to it, or SIGPIPE met its default action.
Die ==
    /\ loop'    = Dead
    /\ fds'     = [f \in Fd |-> "free"]
    /\ bev'     = [c \in Conns |-> NoFd]
    /\ out'     = [c \in Conns |-> FALSE]
    /\ backlog' = <<>>
    /\ peer'    = [c \in Conns |-> "none"]
    /\ rx'      = [c \in Conns |-> FALSE]
    /\ UNCHANGED daemon

-----------------------------------------------------------------------------
(* Do_Accept.                                                              *)

\* accept() returns the lowest number left by the "there is a client" line.
Accept == \E logged \in {WriteLog(fds, 1)} :
    LET c == Head(backlog) IN
    /\ Serving /\ backlog # <<>>
    /\ Room(fds, 2)
    /\ NextFd(logged) <= FdSetSize
    /\ backlog' = Tail(backlog)
    /\ bev'     = [bev EXCEPT ![c] = NextFd(logged)]
    /\ out'     = [out EXCEPT ![c] = TRUE]   \* bufferevent_enable(EV_WRITE)
    /\ fds'     = OpenFd(logged, c)
    /\ UNCHANGED <<peer, rx, loop, daemon>>

\* Mutant of AcceptTooBig: the listener is closed in place of the connection.
AcceptTooBig_Listener == \E logged \in {WriteLog(fds, 1)} :
    LET c == Head(backlog) IN
    /\ Serving /\ backlog # <<>>
    /\ Room(fds, 2)
    /\ NextFd(logged) > FdSetSize
    /\ backlog' = Tail(backlog)
    /\ peer'    = [peer EXCEPT ![c] = "none"]
    /\ rx'      = [rx EXCEPT ![c] = FALSE]
    /\ fds'     = CloseFd(WriteLog(fds, 2), 15)
    /\ UNCHANGED <<bev, out, loop, daemon>>

\* fd > FD_SETSIZE: the connection is closed and "no more fd!" is logged, on
\* the number just closed.
AcceptTooBig == \E logged \in {WriteLog(fds, 1)} :
    LET c == Head(backlog) IN
    /\ Serving /\ backlog # <<>>
    /\ Room(fds, 2)
    /\ NextFd(logged) > FdSetSize
    /\ backlog' = Tail(backlog)
    /\ peer'    = [peer EXCEPT ![c] = "none"]
    /\ rx'      = [rx EXCEPT ![c] = FALSE]
    /\ fds'     = WriteLog(fds, 2)
    /\ UNCHANGED <<bev, out, loop, daemon>>

\* Mutant of AcceptDies: the result of accept() is not checked.
AcceptDies_Unchecked ==
    /\ Serving /\ backlog # <<>>
    /\ ~Room(fds, 2)
    /\ bev'     = [bev EXCEPT ![Head(backlog)] = MaxFds + 1]
    /\ backlog' = Tail(backlog)
    /\ UNCHANGED <<fds, out, peer, rx, loop, daemon>>
\* With one descriptor left the log line takes it, accept() fails and the
\* line that would report the failure cannot be opened either.
AcceptDies ==
    /\ Serving /\ backlog # <<>>
    /\ ~Room(fds, 2)
    /\ Die

-----------------------------------------------------------------------------
(* Do_Read with what it calls, by what came of the request and how many    *)
(* log lines that takes.                                                   *)

Outcomes == {"uptodate",  \* the client has the server's version
             "plugin",    \* the file is sent
             "nofile",    \* pt.vfs could not be read: an empty reply
             "silent",    \* a report, link or unknown request: an empty reply
             "failed"}    \* a malformed request, or malloc failed

Lines(o) == CASE o = "uptodate" -> 3 [] o = "plugin" -> 6 [] o = "nofile" -> 5
              [] o = "silent" -> 2 [] o = "failed" -> 2

Replies(o) == o \in {"uptodate", "plugin"}

Read(c, o) ==
    /\ Serving /\ Live(c) /\ rx[c]
    /\ rx'  = [rx EXCEPT ![c] = FALSE]
    /\ out' = [out EXCEPT ![c] = @ \/ Replies(o)]
    /\ UNCHANGED <<bev, backlog, peer, loop, daemon>>
    /\ Room(fds, Lines(o))
    /\ fds' = WriteLog(fds, Lines(o))

ReadDies(c, o) ==
    /\ Serving /\ Live(c) /\ rx[c]
    /\ ~Room(fds, Lines(o))
    /\ Die

-----------------------------------------------------------------------------
(* Do_Write: libevent has written the output and EV_WRITE is deleted.      *)

Write(c) ==
    /\ Serving /\ Live(c) /\ out[c] /\ peer[c] # "rst"
    /\ Room(fds, 1)
    /\ out' = [out EXCEPT ![c] = FALSE]
    /\ UNCHANGED <<bev, net, loop, daemon>>
    /\ fds' = WriteLog(fds, 1)

WriteDies(c) ==
    /\ Serving /\ Live(c) /\ out[c] /\ peer[c] # "rst"
    /\ ~Room(fds, 1)
    /\ Die

\* Mutant of SigPipe: InitDaemon forgets to ignore SIGPIPE.
SigPipe_Always(c) == Serving /\ Live(c) /\ out[c] /\ peer[c] = "rst" /\ Die
\* A write to a reset connection.  Whether it is the one that raises SIGPIPE
\* depends on what the kernel has reported already.
SigPipe(c) ==
    /\ Serving /\ Live(c) /\ out[c] /\ peer[c] = "rst"
    /\ ~daemon
    /\ Die

-----------------------------------------------------------------------------
(* Do_Error.                                                               *)

\* BEV_EVENT_EOF: close(sockfd), the bufferevent still holding the number.
Eof(c) ==
    /\ Serving /\ Live(c) /\ ~rx[c] /\ peer[c] = "fin"
    /\ loop' = At("closed", c)
    /\ UNCHANGED <<bev, out, net, daemon>>
    /\ fds'  = CloseFd(fds, bev[c])

\* Mutant of Failed: only errors of writes are handled.
Failed_WriteOnly(c) ==
    /\ Serving /\ Live(c) /\ peer[c] = "rst" /\ out[c]
    /\ loop' = At("failed", c)
    /\ UNCHANGED <<fds, bev, out, net, daemon>>
\* Mutant of Failed: this branch frees the bufferevent, and so does the end.
Failed_Frees(c) ==
    /\ Serving /\ Live(c) /\ peer[c] = "rst"
    /\ ~rx[c] \/ out[c]
    /\ loop' = At("failed", c)
    /\ bev'  = [bev EXCEPT ![c] = NoFd]
    /\ UNCHANGED <<out, net, daemon>>
    /\ fds'  = CloseFd(fds, bev[c])

\* BEV_EVENT_ERROR from a read or a write: nothing is closed here.
Failed(c) ==
    /\ Serving /\ Live(c) /\ peer[c] = "rst"
    /\ ~rx[c] \/ out[c]
    /\ loop' = At("failed", c)
    /\ UNCHANGED <<fds, bev, out, net, daemon>>

Logged ==
    /\ loop.at \in {"closed", "failed"}
    /\ Room(fds, 1)
    /\ loop' = At("logged", loop.conn)
    /\ UNCHANGED <<bev, out, net, daemon>>
    /\ fds'  = WriteLog(fds, 1)

LogDies ==
    /\ loop.at \in {"closed", "failed"}
    /\ ~Room(fds, 1)
    /\ Die

\* Mutant of Freed: the bufferevent is not made with BEV_OPT_CLOSE_ON_FREE.
Freed_KeepsFd ==
    LET c == loop.conn IN
    /\ loop.at = "logged"
    /\ bev'  = [bev EXCEPT ![c] = NoFd]
    /\ out'  = [out EXCEPT ![c] = FALSE]
    /\ peer' = [peer EXCEPT ![c] = "none"]
    /\ rx'   = [rx EXCEPT ![c] = FALSE]
    /\ loop' = Dispatch
    /\ UNCHANGED <<backlog, fds, daemon>>

\* bufferevent_free closes the number it was given, whoever holds it now.
Freed ==
    LET c == loop.conn IN
    /\ loop.at = "logged"
    /\ bev'  = [bev EXCEPT ![c] = NoFd]
    /\ out'  = [out EXCEPT ![c] = FALSE]
    /\ peer' = [peer EXCEPT ![c] = "none"]
    /\ rx'   = [rx EXCEPT ![c] = FALSE]
    /\ loop' = Dispatch
    /\ UNCHANGED <<backlog, daemon>>
    /\ fds'  = CloseFd(fds, bev[c])

-----------------------------------------------------------------------------
DoAccept == Accept \/ AcceptTooBig \/ AcceptDies
\* Mutant of DoRead: input that came with the FIN is not read.
DoRead_UpOnly(c) == peer[c] = "up" /\ \E o \in Outcomes : Read(c, o) \/ ReadDies(c, o)
DoRead(c) == \E o \in Outcomes : Read(c, o) \/ ReadDies(c, o)
DoWrite(c) == Write(c) \/ WriteDies(c) \/ SigPipe(c)
DoError(c) == Eof(c) \/ Failed(c)
Teardown == Logged \/ LogDies \/ Freed

Next ==
    \/ Peers
    \/ DoAccept
    \/ \E c \in Conns : DoRead(c) \/ DoWrite(c) \/ DoError(c)
    \/ Teardown

\* Every pass of the dispatch loop runs the callback of every ready event,
\* and a callback that has begun runs to its end.  Peers owe nothing.
Fairness ==
    /\ WF_vars(DoAccept)
    /\ WF_vars(Teardown)
    /\ \A c \in Conns : WF_vars(DoRead(c)) /\ WF_vars(DoWrite(c) \/ DoError(c))

Spec     == Init /\ [][Next]_vars
FairSpec == Spec /\ Fairness

-----------------------------------------------------------------------------
(* What the server must keep, and what it does not.                        *)

Owners == Conns \cup {"free", "sys", "log"}

\* Every variable has its type.
TypeOK ==
    /\ fds \in [Fd -> Owners]
    /\ bev \in [Conns -> Fd \cup {NoFd}]
    /\ out \in [Conns -> BOOLEAN]
    /\ backlog \in Seq(Conns)
    /\ peer \in [Conns -> {"none", "up", "fin", "rst"}]
    /\ rx \in [Conns -> BOOLEAN]
    /\ loop \in [at: Stages, conn: Conns \cup {"none"}]
    /\ daemon \in BOOLEAN

\* No two bufferevents share a descriptor, none holds a number that has been
\* given to something else, and no connection's descriptor outlives its
\* bufferevent.  The one exception is the connection in Do_Error between its
\* close() and its bufferevent_free: its number may be free or a log FILE's.
FdOwnership ==
    /\ \A f \in Fd : fds[f] \in Conns => bev[fds[f]] = f
    /\ \A c \in Conns : Live(c) =>
           \/ fds[bev[c]] = c
           \/ loop.conn = c /\ fds[bev[c]] \in {"free", "log"}

\* What the loop and the accept queue rely on.  A callback that tears a
\* connection down finds its bufferevent, and its descriptor as the step before
\* left it; a queued connection is queued once and has no bufferevent yet.
QueuesAgree ==
    /\ \/ loop \in {Dispatch, Dead}
       \/ /\ loop.at \in {"closed", "failed", "logged"}
          /\ loop.conn \in Conns /\ Live(loop.conn)
          /\ loop.at = "closed" => fds[bev[loop.conn]] = "free"
          /\ loop.at = "failed" => fds[bev[loop.conn]] = loop.conn
    /\ \A c \in Conns : Live(c) => peer[c] # "none"
    /\ \A i \in DOMAIN backlog : bev[backlog[i]] = NoFd /\ peer[backlog[i]] # "none"
    /\ \A i, j \in DOMAIN backlog : backlog[i] = backlog[j] => i = j

\* The inductive invariant: FdOwnership needs QueuesAgree, for accept() would
\* otherwise drop the descriptor of a connection that is already served.
IndInv == TypeOK /\ FdOwnership /\ QueuesAgree

\* The descriptors a step takes from their holder are the number of the
\* connection that is being torn down, while it is still the connection's or
\* has become a log FILE's.
OwnCloses ==
    \A f \in Fd : fds[f] # "free" /\ fds'[f] # fds[f] =>
        \E c \in Conns : /\ f = bev[c] /\ c \in {loop.conn, loop'.conn}
                        /\ fds[f] \in {c, "log"}

\* While it runs, the server closes nothing else: the second close of Do_Error
\* never hits another client, the listener or libevent's own descriptors.
CloseOnlyOwn == [][Running' => OwnCloses]_vars

\* A daemon dies of nothing but a full descriptor table: no peer that resets
\* its connection, at whatever moment, ends the process. In the foreground a
\* reset does, but only while output is pending.
ResetWhilePending == ~daemon /\ \E c \in Conns : out[c] /\ peer[c] = "rst"

DiesOnlyOfDescriptors ==
    [][Running /\ ~Running' => ~Room(fds, 6) \/ ResetWhilePending]_vars

\* The log costs more descriptors than teardown gives back, whatever the
\* clients do: a process accepts only finitely many connections.
OnlyFinitelyManyAccepts == <>[][~Accept]_vars

\* A connection whose peer has gone away gives up its bufferevent.
HangUpReaped ==
    \A c \in Conns : (Live(c) /\ peer[c] \in {"fin", "rst"}) ~> ~Live(c)

\* A request that has arrived is read, even when its sender has closed since,
\* unless its connection was reset or the process died.
RequestRead == \A c \in Conns : rx[c] ~> ~rx[c]

\* test.cpp logs "no more fd!" and "accept client error!" and returns to the
\* loop: running out of descriptors is to cost a connection, not the server.
SurvivesFullTable == Running
=============================================================================
