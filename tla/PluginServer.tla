---------------------------- MODULE PluginServer ----------------------------
(***************************************************************************)
(* plugin_server/main.cpp, version 0.1 of the server: the same callbacks   *)
(* as PluginSvr with one log FILE for the whole run, no signal set-up, and *)
(* failures of accept() that are reported without a descriptor.  A process *)
(* has at most FD_SETSIZE descriptors, as by default, so that the branch   *)
(* for larger numbers is not taken (PluginSvr models it).                  *)
(***************************************************************************)
EXTENDS Descriptors, Sequences

CONSTANTS
    Conns,       \* clients; each holds at most one connection at a time
    BacklogLen,  \* the second argument of listen()
    MaxAccepts   \* connections ever made (bounds the instances)

ASSUME ServerAssumption ==
    /\ Conns \cap {"free", "sys", "none"} = {}
    /\ BacklogLen \in Nat \ {0} /\ MaxAccepts \in Nat
    /\ MaxFds > 9

VARIABLES
    fds,        \* who holds each descriptor
    bev,        \* the descriptor of each connection's bufferevent, or NoFd
    out,        \* is EV_WRITE registered for the connection
    backlog,    \* connections established by the kernel, not yet accepted
    peer,       \* the other end: "none", "up", "fin", "rst"
    rx,         \* is an unread request in the connection's receive queue
    ending,     \* the connection errorcb is working on, or "none"
    alive,      \* has no signal ended the process
    accepted    \* how many connections have been given a bufferevent

vars == <<fds, bev, out, backlog, peer, rx, ending, alive, accepted>>

NoFd    == MaxFds
Live(c) == bev[c] # NoFd

Serving == alive /\ ending = "none"

\* stdio, version.cfg (never closed), the log, epoll, the signal pair, the
\* listener
SysFds == 0 .. 8

Init ==
    /\ fds       = [f \in Fd |-> IF f \in SysFds THEN "sys" ELSE "free"]
    /\ bev       = [c \in Conns |-> NoFd]
    /\ out       = [c \in Conns |-> FALSE]
    /\ backlog   = <<>>
    /\ peer      = [c \in Conns |-> "none"]
    /\ rx        = [c \in Conns |-> FALSE]
    /\ ending    = "none"
    /\ alive     = TRUE
    /\ accepted  = 0

-----------------------------------------------------------------------------
(* The peers.                                                              *)

Connect(c) ==
    /\ alive /\ peer[c] = "none"
    /\ Len(backlog) < BacklogLen
    /\ accepted + Len(backlog) < MaxAccepts
    /\ peer'    = [peer EXCEPT ![c] = "up"]
    /\ backlog' = Append(backlog, c)
    /\ UNCHANGED <<fds, bev, out, rx, ending, alive, accepted>>

Send(c) ==
    /\ peer[c] = "up" /\ ~rx[c]
    /\ rx' = [rx EXCEPT ![c] = TRUE]
    /\ UNCHANGED <<fds, bev, out, backlog, peer, ending, alive, accepted>>

HangUp(c, how) ==
    /\ <<peer[c], how>> \in {<<"up", "fin">>, <<"up", "rst">>, <<"fin", "rst">>}
    /\ peer' = [peer EXCEPT ![c] = how]
    /\ UNCHANGED <<fds, bev, out, backlog, rx, ending, alive, accepted>>

-----------------------------------------------------------------------------
(* do_accept.                                                              *)

\* Mutant of Accept: the listener's event is not EV_PERSIST.
Accept_OneShot ==
    /\ accepted = 0
    /\ Serving /\ backlog # <<>> /\ Room(fds, 1)
    /\ bev'      = [bev EXCEPT ![Head(backlog)] = NextFd(fds)]
    /\ fds'      = OpenFd(fds, Head(backlog))
    /\ out'      = [out EXCEPT ![Head(backlog)] = TRUE]
    /\ backlog'  = Tail(backlog)
    /\ accepted' = accepted + 1
    /\ UNCHANGED <<peer, rx, ending, alive>>

Accept ==
    /\ Serving /\ backlog # <<>> /\ Room(fds, 1)
    /\ bev'      = [bev EXCEPT ![Head(backlog)] = NextFd(fds)]
    /\ fds'      = OpenFd(fds, Head(backlog))
    /\ out'      = [out EXCEPT ![Head(backlog)] = TRUE]
    /\ backlog'  = Tail(backlog)
    /\ accepted' = accepted + 1
    /\ UNCHANGED <<peer, rx, ending, alive>>

\* Mutant of AcceptFails: the result of accept() is not looked at.
AcceptFails_Unchecked ==
    /\ Serving /\ backlog # <<>> /\ ~Room(fds, 1)
    /\ bev' = [bev EXCEPT ![Head(backlog)] = NoFd + 1]
    /\ UNCHANGED <<fds, out, backlog, peer, rx, ending, alive, accepted>>

\* The table is full: the connection stays queued, the listener stays ready.
AcceptFails ==
    /\ Serving /\ backlog # <<>> /\ ~Room(fds, 1)
    /\ UNCHANGED vars

-----------------------------------------------------------------------------
(* readcb, writecb.                                                        *)

Outcomes == {"uptodate", "plugin", "links", "empty"}

\* pt.vfs is opened and closed again within the callback; with the table full
\* it cannot be, and the reply stays empty.
Read(c, o) ==
    /\ Serving /\ Live(c) /\ rx[c]
    /\ o = "plugin" => Room(fds, 1)
    /\ rx'  = [rx EXCEPT ![c] = FALSE]
    /\ out' = [out EXCEPT ![c] = @ \/ o # "empty"]
    /\ UNCHANGED <<fds, bev, backlog, peer, ending, alive, accepted>>

Write(c) ==
    /\ Serving /\ Live(c) /\ out[c] /\ peer[c] # "rst"
    /\ out' = [out EXCEPT ![c] = FALSE]
    /\ UNCHANGED <<fds, bev, backlog, peer, rx, ending, alive, accepted>>

\* Mutant of SigPipe: a write to a client that has only closed its own end
\* raises the signal, too.
SigPipe_OnFin(c) ==
    /\ Serving /\ Live(c) /\ out[c] /\ peer[c] # "up"
    /\ alive'   = FALSE
    /\ fds'     = [f \in Fd |-> "free"]
    /\ bev'     = [d \in Conns |-> NoFd]
    /\ out'     = [d \in Conns |-> FALSE]
    /\ backlog' = <<>>
    /\ peer'    = [d \in Conns |-> "none"]
    /\ rx'      = [d \in Conns |-> FALSE]
    /\ UNCHANGED <<ending, accepted>>

\* A write to a reset connection raises SIGPIPE, whose action is the default.
SigPipe(c) ==
    /\ Serving /\ Live(c) /\ out[c] /\ peer[c] = "rst"
    /\ alive'   = FALSE
    /\ fds'     = [f \in Fd |-> "free"]
    /\ bev'     = [d \in Conns |-> NoFd]
    /\ out'     = [d \in Conns |-> FALSE]
    /\ backlog' = <<>>
    /\ peer'    = [d \in Conns |-> "none"]
    /\ rx'      = [d \in Conns |-> FALSE]
    /\ UNCHANGED <<ending, accepted>>

-----------------------------------------------------------------------------
(* errorcb.                                                                *)

\* Mutant of Eof: errorcb returns after the close.
Eof_Returns(c) ==
    /\ Serving /\ Live(c) /\ ~rx[c] /\ peer[c] = "fin"
    /\ fds'    = CloseFd(fds, bev[c])
    /\ UNCHANGED <<bev, out, backlog, peer, rx, alive, ending, accepted>>

\* EOF: close(sockfd) before bufferevent_free closes it again.
Eof(c) ==
    /\ Serving /\ Live(c) /\ ~rx[c] /\ peer[c] = "fin"
    /\ ending' = c
    /\ fds'    = CloseFd(fds, bev[c])
    /\ UNCHANGED <<bev, out, backlog, peer, rx, alive, accepted>>

Failed(c) ==
    /\ Serving /\ Live(c) /\ peer[c] = "rst"
    /\ ~rx[c] \/ out[c]
    /\ ending' = c
    /\ UNCHANGED <<fds, bev, out, backlog, peer, rx, alive, accepted>>

Freed ==
    /\ ending # "none"
    /\ fds'    = CloseFd(fds, bev[ending])
    /\ bev'    = [bev EXCEPT ![ending] = NoFd]
    /\ out'    = [out EXCEPT ![ending] = FALSE]
    /\ peer'   = [peer EXCEPT ![ending] = "none"]
    /\ rx'     = [rx EXCEPT ![ending] = FALSE]
    /\ ending' = "none"
    /\ UNCHANGED <<backlog, alive, accepted>>

-----------------------------------------------------------------------------
DoAccept  == Accept \/ AcceptFails
DoRead(c) == \E o \in Outcomes : Read(c, o)

Next ==
    \/ DoAccept \/ Freed
    \/ \E c \in Conns :
          \/ Connect(c) \/ Send(c) \/ HangUp(c, "fin") \/ HangUp(c, "rst")
          \/ DoRead(c) \/ Write(c) \/ SigPipe(c) \/ Eof(c) \/ Failed(c)

\* The dispatch loop serves every ready event on each pass.
Fairness ==
    /\ WF_vars(DoAccept) /\ WF_vars(Freed)
    /\ \A c \in Conns :
          WF_vars(DoRead(c)) /\ WF_vars(Write(c) \/ SigPipe(c) \/ Eof(c) \/ Failed(c))

Spec     == Init /\ [][Next]_vars
FairSpec == Spec /\ Fairness

-----------------------------------------------------------------------------
(* Properties.                                                             *)

\* Every variable has its type.
ServerTypeOK ==
    /\ fds \in [Fd -> Conns \cup {"free", "sys"}]
    /\ bev \in [Conns -> Fd \cup {NoFd}]
    /\ out \in [Conns -> BOOLEAN] /\ rx \in [Conns -> BOOLEAN]
    /\ backlog \in Seq(Conns)
    /\ peer \in [Conns -> {"none", "up", "fin", "rst"}]
    /\ ending \in Conns \cup {"none"} /\ alive \in BOOLEAN
    /\ accepted \in 0 .. MaxAccepts

\* Beyond what start-up opened, exactly the live connections hold descriptors,
\* each its own, though errorcb closes the number of one twice: when all clients
\* have gone the table is as it was at start-up.
NothingLeaked ==
    alive =>
        /\ \A f \in Fd \ SysFds :
              fds[f] # "free" <=> \E c \in Conns : bev[c] = f /\ (c = ending => fds[f] = c)
        /\ \A c \in Conns : Live(c) /\ c # ending => fds[bev[c]] = c

\* Neither a full table nor clients that close, or go away between any two
\* steps of errorcb, end the process: it takes a reset while a reply waits.
DiesOnlyOfReset ==
    [][alive /\ ~alive' => \E c \in Conns : peer[c] = "rst" /\ out[c]]_vars

\* A client kept waiting by a full table is served once others have gone: the
\* failed accept() neither drops it from the queue nor stops the listener.
Queued(c) == \E i \in DOMAIN backlog : backlog[i] = c
QueueServed == []<>Room(fds, 1) => \A c \in Conns : Queued(c) ~> ~Queued(c)

\* errorcb: "if time out,close directly in case blocking": a client that stays
\* connected and silent is disconnected in the end.
IdleClosed == \A c \in Conns : ~<>[](Live(c) /\ ~rx[c] /\ peer[c] = "up")
=============================================================================
