------------------------- MODULE PluginServerProofs -------------------------
(***************************************************************************)
(* Descriptors of the v0.1 server for every number of clients, size of the *)
(* table and backlog: what errorcb closes twice belongs to nobody else.    *)
(***************************************************************************)
EXTENDS PluginServer, FiniteSetTheorems, SequenceTheorems, WellFoundedInduction, TLAPS

\* A descriptor and the bufferevent made with it name each other, but for the
\* one that errorcb has closed and bufferevent_free has not seen yet.
Owned ==
    /\ \A f \in Fd : fds[f] \in Conns => bev[fds[f]] = f
    /\ \A c \in Conns : Live(c) /\ c # ending => fds[bev[c]] = c
    /\ ending # "none" => Live(ending) /\ fds[bev[ending]] \in {"free", ending}
    /\ alive => \A f \in Fd \ SysFds : fds[f] # "sys"

\* The accept queue holds connections that have no bufferevent, each once.
Waiting ==
    /\ \A c \in Conns : Live(c) => peer[c] # "none"
    /\ \A i \in DOMAIN backlog : bev[backlog[i]] = NoFd /\ peer[backlog[i]] # "none"
    /\ \A i, j \in DOMAIN backlog : backlog[i] = backlog[j] => i = j
    /\ accepted + Len(backlog) <= MaxAccepts

IndInv == ServerTypeOK /\ Owned /\ Waiting

\* Start-up establishes the invariant.
LEMMA InitInv == Init => IndInv
<1> SUFFICES ASSUME Init
             PROVE  IndInv
  OBVIOUS
<1> USE MaxFdsAssumption, ServerAssumption DEF Init
<1>1. backlog \in Seq(Conns) /\ Len(backlog) = 0 /\ DOMAIN backlog = {}
  OBVIOUS
<1>2. ServerTypeOK
  BY <1>1 DEF ServerTypeOK, NoFd
<1>3. Owned
  BY DEF Owned, Live
<1>4. Waiting
  BY <1>1 DEF Waiting, Live
<1> QED
  BY <1>2, <1>3, <1>4 DEF IndInv

\* Nothing the peers do touches the server's descriptors.
LEMMA ConnectInv ==
    ASSUME IndInv, NEW c \in Conns, Connect(c)
    PROVE  IndInv'
<1>1. /\ peer[c] = "none" /\ accepted + Len(backlog) < MaxAccepts
      /\ peer' = [peer EXCEPT ![c] = "up"] /\ backlog' = Append(backlog, c)
      /\ UNCHANGED <<fds, bev, out, rx, ending, alive, accepted>>
  BY DEF Connect
<1>2. /\ backlog \in Seq(Conns) /\ accepted \in Nat /\ MaxAccepts \in Nat
      /\ peer \in [Conns -> {"none", "up", "fin", "rst"}]
  BY ServerAssumption DEF IndInv, ServerTypeOK
<1>3. /\ backlog' \in Seq(Conns)
      /\ Len(backlog') = Len(backlog) + 1
      /\ \A i \in 1 .. Len(backlog) : backlog'[i] = backlog[i]
      /\ backlog'[Len(backlog) + 1] = c
      /\ DOMAIN backlog' = 1 .. Len(backlog) + 1
      /\ DOMAIN backlog = 1 .. Len(backlog)
      /\ Len(backlog) \in Nat
  BY <1>1, <1>2, AppendProperties
<1>4. bev[c] = NoFd /\ \A i \in DOMAIN backlog : backlog[i] # c
  BY <1>1 DEF IndInv, Waiting, Live
<1>5. ServerTypeOK'
  BY <1>1, <1>3 DEF IndInv, ServerTypeOK
<1>6. Owned'
  BY <1>1 DEF IndInv, Owned, Live
<1>7. Waiting'
  <2>1. \A d \in Conns : Live(d)' => peer'[d] # "none"
    BY <1>1, <1>2, <1>4 DEF IndInv, Waiting, Live
  <2>2. \A i \in DOMAIN backlog' : bev'[backlog'[i]] = NoFd /\ peer'[backlog'[i]] # "none"
    <3>1. \A i \in DOMAIN backlog :
            backlog[i] \in Conns /\ bev[backlog[i]] = NoFd /\ peer[backlog[i]] # "none"
      BY <1>2 DEF IndInv, Waiting
    <3> QED
      BY <1>1, <1>2, <1>3, <1>4, <3>1
  <2>3. \A i, j \in DOMAIN backlog' : backlog'[i] = backlog'[j] => i = j
    <3>1. \A i, j \in DOMAIN backlog : backlog[i] = backlog[j] => i = j
      BY DEF IndInv, Waiting
    <3> QED
      BY <1>3, <1>4, <3>1
  <2>4. accepted' + Len(backlog') <= MaxAccepts
    BY <1>1, <1>2, <1>3
  <2> QED
    BY <2>1, <2>2, <2>3, <2>4 DEF Waiting
<1> QED
  BY <1>5, <1>6, <1>7 DEF IndInv

\* What peers send, and that they leave, is seen by nobody yet.
LEMMA PeersInv ==
    ASSUME IndInv, NEW c \in Conns, Send(c) \/ HangUp(c, "fin") \/ HangUp(c, "rst")
    PROVE  IndInv'
<1>1. /\ UNCHANGED <<fds, bev, out, backlog, ending, alive, accepted>>
      /\ rx' \in [Conns -> BOOLEAN]
      /\ peer' \in [Conns -> {"none", "up", "fin", "rst"}]
      /\ \A d \in Conns : peer[d] # "none" => peer'[d] # "none"
  BY DEF Send, HangUp, IndInv, ServerTypeOK
<1>2. ServerTypeOK'
  BY <1>1 DEF IndInv, ServerTypeOK
<1>3. Owned'
  BY <1>1 DEF IndInv, Owned, Live
<1>4. Waiting'
  <2>1. \A i \in DOMAIN backlog : backlog[i] \in Conns
    BY DEF IndInv, ServerTypeOK
  <2> QED
    BY <1>1, <2>1 DEF IndInv, Waiting, Live
<1> QED
  BY <1>2, <1>3, <1>4 DEF IndInv

\* When there is room for one more descriptor, what accept() returns was free.
LEMMA RoomTakesFree ==
    ASSUME NEW t, Room(t, 1)
    PROVE  NextFd(t) \in Fd /\ t[NextFd(t)] = "free"
<1>1. FreeFds(t) # {}
  <2> SUFFICES ASSUME FreeFds(t) = {}
               PROVE  FALSE
    OBVIOUS
  <2>1. Cardinality(FreeFds(t)) = 0
    BY FS_EmptySet
  <2> QED
    BY <2>1 DEF Room
<1>2. FreeFds(t) \subseteq Nat
  BY MaxFdsAssumption DEF FreeFds, Fd
<1>3. PICK f \in FreeFds(t) : \A g \in FreeFds(t) : ~(<<g, f>> \in OpToRel(<, Nat))
  BY <1>1, <1>2, WFMin, NatLessThanWellFounded
<1>4. \A g \in FreeFds(t) : ~(g < f)
  BY <1>2, <1>3 DEF OpToRel
<1>5. \A g \in FreeFds(t) : f <= g
  BY <1>2, <1>4
<1>6. NextFd(t) \in FreeFds(t)
  BY <1>5 DEF NextFd
<1> QED
  BY <1>6 DEF FreeFds

\* do_accept gives the new bufferevent a descriptor nobody holds.
LEMMA AcceptInv ==
    ASSUME IndInv, Accept
    PROVE  IndInv'
<1> DEFINE c == Head(backlog)
           n == NextFd(fds)
<1>1. /\ Serving /\ backlog # <<>> /\ Room(fds, 1)
      /\ fds' = [fds EXCEPT ![n] = c] /\ bev' = [bev EXCEPT ![c] = n]
      /\ out' = [out EXCEPT ![c] = TRUE] /\ backlog' = Tail(backlog)
      /\ accepted' = accepted + 1
      /\ UNCHANGED <<peer, rx, ending, alive>>
  BY DEF Accept, OpenFd
<1>2. n \in Fd /\ fds[n] = "free"
  BY <1>1, RoomTakesFree
<1>3. /\ backlog \in Seq(Conns) /\ accepted \in Nat /\ MaxAccepts \in Nat
      /\ fds \in [Fd -> Conns \cup {"free", "sys"}]
      /\ bev \in [Conns -> Fd \cup {NoFd}] /\ out \in [Conns -> BOOLEAN]
      /\ NoFd \notin Fd
  BY MaxFdsAssumption, ServerAssumption DEF IndInv, ServerTypeOK, NoFd, Fd
<1>4. /\ backlog' \in Seq(Conns)
      /\ Len(backlog') = Len(backlog) - 1
      /\ \A i \in 1 .. Len(backlog') : backlog'[i] = backlog[i + 1]
      /\ c = backlog[1]
      /\ DOMAIN backlog = 1 .. Len(backlog)
      /\ DOMAIN backlog' = 1 .. Len(backlog')
      /\ Len(backlog) \in Nat \ {0}
  BY <1>1, <1>3, HeadTailProperties, EmptySeq
<1>5. \A i \in DOMAIN backlog :
        backlog[i] \in Conns /\ bev[backlog[i]] = NoFd /\ peer[backlog[i]] # "none"
  BY <1>3 DEF IndInv, Waiting
<1>6. c \in Conns /\ bev[c] = NoFd /\ peer[c] # "none"
  BY <1>4, <1>5
<1> HIDE DEF c, n
<1>7. ServerTypeOK'
  <2>1. accepted' \in 0 .. MaxAccepts
    BY <1>1, <1>3, <1>4 DEF IndInv, Waiting
  <2> QED
    BY <1>1, <1>2, <1>3, <1>4, <1>6, <2>1 DEF IndInv, ServerTypeOK
<1>8. Owned'
  <2>1. ASSUME NEW f \in Fd, fds'[f] \in Conns
        PROVE  bev'[fds'[f]] = f
    <3>1. CASE f = n
      BY <1>1, <1>3, <1>6, <3>1
    <3>2. CASE f # n
      <4>1. fds'[f] = fds[f] /\ bev[fds[f]] = f
        BY <1>1, <1>3, <2>1, <3>2 DEF IndInv, Owned
      <4> QED
        BY <1>1, <1>3, <1>6, <2>1, <4>1
    <3> QED
      BY <3>1, <3>2
  <2>2. ASSUME NEW d \in Conns, Live(d)'
        PROVE  fds'[bev'[d]] = d
    <3>1. CASE d = c
      BY <1>1, <1>2, <1>3, <3>1
    <3>2. CASE d # c
      <4>1. Live(d) /\ bev'[d] = bev[d] /\ bev[d] \in Fd
        BY <1>1, <1>3, <2>2, <3>2 DEF Live
      <4>2. fds[bev[d]] = d
        BY <1>1, <4>1, ServerAssumption DEF IndInv, Owned, Serving
      <4> QED
        BY <1>1, <1>2, <1>3, <4>1, <4>2, ServerAssumption
    <3> QED
      BY <3>1, <3>2
  <2>3. ending' = "none" /\ alive
    BY <1>1 DEF Serving
  <2>4. \A f \in Fd \ SysFds : fds'[f] # "sys"
    BY <1>1, <1>3, <1>6, <2>3, ServerAssumption DEF IndInv, Owned
  <2> QED
    BY <2>1, <2>2, <2>3, <2>4 DEF Owned
<1>9. Waiting'
  <2>1. \A d \in Conns : Live(d)' => peer'[d] # "none"
    BY <1>1, <1>3, <1>6 DEF IndInv, Waiting, Live
  <2>2. \A i, j \in DOMAIN backlog : backlog[i] = backlog[j] => i = j
    BY DEF IndInv, Waiting
  <2>3. \A i \in DOMAIN backlog' :
          i + 1 \in DOMAIN backlog /\ backlog'[i] = backlog[i + 1] /\ i + 1 # 1
    BY <1>4
  <2>4. \A i \in DOMAIN backlog' : backlog'[i] # c
    BY <1>4, <2>2, <2>3
  <2>5. \A i \in DOMAIN backlog' : bev'[backlog'[i]] = NoFd /\ peer'[backlog'[i]] # "none"
    BY <1>1, <1>3, <1>5, <2>3, <2>4
  <2>6. ASSUME NEW i \in DOMAIN backlog', NEW j \in DOMAIN backlog', backlog'[i] = backlog'[j]
        PROVE  i = j
    <3>1. i + 1 = j + 1
      BY <2>2, <2>3, <2>6
    <3> QED
      BY <1>4, <3>1
  <2>7. accepted' + Len(backlog') <= MaxAccepts
    BY <1>1, <1>3, <1>4 DEF IndInv, Waiting
  <2> QED
    BY <2>1, <2>5, <2>6, <2>7 DEF Waiting
<1> QED
  BY <1>7, <1>8, <1>9 DEF IndInv

\* readcb and writecb only change what is pending.
LEMMA ReadWriteInv ==
    ASSUME IndInv, NEW c \in Conns, DoRead(c) \/ Write(c)
    PROVE  IndInv'
<1>1. /\ UNCHANGED <<fds, bev, backlog, peer, ending, alive, accepted>>
      /\ out' \in [Conns -> BOOLEAN] /\ rx' \in [Conns -> BOOLEAN]
  BY DEF DoRead, Read, Write, IndInv, ServerTypeOK
<1> QED
  BY <1>1 DEF IndInv, ServerTypeOK, Owned, Waiting, Live

\* The signal leaves nothing.
LEMMA SigPipeInv ==
    ASSUME IndInv, NEW c \in Conns, SigPipe(c)
    PROVE  IndInv'
<1>1. backlog' = <<>> /\ Len(backlog') = 0 /\ DOMAIN backlog' = {} /\ backlog' \in Seq(Conns)
  BY DEF SigPipe
<1>2. ServerTypeOK'
  BY <1>1 DEF SigPipe, IndInv, ServerTypeOK
<1>3. Owned'
  BY ServerAssumption DEF SigPipe, Serving, Owned, Live
<1>4. Waiting'
  BY <1>1, ServerAssumption DEF SigPipe, IndInv, ServerTypeOK, Waiting, Live
<1> QED
  BY <1>2, <1>3, <1>4 DEF IndInv

\* errorcb begins: the descriptor of the connection is closed, or not.
LEMMA ErrorInv ==
    ASSUME IndInv, NEW c \in Conns, Eof(c) \/ Failed(c)
    PROVE  IndInv'
<1>1. /\ Serving /\ Live(c) /\ ending' = c
      /\ fds' = fds \/ fds' = [fds EXCEPT ![bev[c]] = "free"]
      /\ UNCHANGED <<bev, out, backlog, peer, rx, alive, accepted>>
  BY DEF Eof, Failed, CloseFd
<1>2. /\ fds \in [Fd -> Conns \cup {"free", "sys"}]
      /\ bev[c] \in Fd /\ fds[bev[c]] = c
  BY <1>1, ServerAssumption DEF IndInv, ServerTypeOK, Owned, Live, Serving
<1>3. ServerTypeOK'
  BY <1>1, <1>2 DEF IndInv, ServerTypeOK
<1>4. Owned'
  <2>1. \A f \in Fd : fds'[f] \in Conns => fds'[f] = fds[f] /\ bev'[fds'[f]] = f
    BY <1>1, <1>2, ServerAssumption DEF IndInv, Owned
  <2>2. ASSUME NEW d \in Conns, Live(d)', d # c
        PROVE  fds'[bev'[d]] = d
    <3>1. bev'[d] = bev[d] /\ bev[d] \in Fd /\ fds[bev[d]] = d
      BY <1>1, <2>2, ServerAssumption DEF IndInv, ServerTypeOK, Owned, Live, Serving
    <3> QED
      BY <1>1, <1>2, <2>2, <3>1
  <2>3. Live(c)' /\ fds'[bev'[c]] \in {"free", c}
    BY <1>1, <1>2 DEF Live
  <2>4. alive' => \A f \in Fd \ SysFds : fds'[f] # "sys"
    BY <1>1, <1>2 DEF IndInv, Owned
  <2> QED
    BY <1>1, <2>1, <2>2, <2>3, <2>4 DEF Owned
<1>5. Waiting'
  BY <1>1 DEF IndInv, Waiting, Live
<1> QED
  BY <1>3, <1>4, <1>5 DEF IndInv

\* bufferevent_free: the second close takes a free number or its own.
LEMMA FreedInv ==
    ASSUME IndInv, Freed
    PROVE  IndInv'
<1>1. /\ ending \in Conns /\ ending' = "none"
      /\ fds' = [fds EXCEPT ![bev[ending]] = "free"]
      /\ bev' = [bev EXCEPT ![ending] = NoFd] /\ out' = [out EXCEPT ![ending] = FALSE]
      /\ peer' = [peer EXCEPT ![ending] = "none"] /\ rx' = [rx EXCEPT ![ending] = FALSE]
      /\ UNCHANGED <<backlog, alive, accepted>>
  BY DEF Freed, CloseFd, IndInv, ServerTypeOK
<1>2. /\ fds \in [Fd -> Conns \cup {"free", "sys"}]
      /\ bev \in [Conns -> Fd \cup {NoFd}] /\ NoFd \notin Fd
      /\ bev[ending] \in Fd /\ fds[bev[ending]] \in {"free", ending}
  BY <1>1, MaxFdsAssumption, ServerAssumption
  DEF IndInv, ServerTypeOK, Owned, Live, NoFd, Fd
<1>3. ServerTypeOK'
  BY <1>1, <1>2 DEF IndInv, ServerTypeOK
<1>4. Owned'
  <2>1. ASSUME NEW f \in Fd, fds'[f] \in Conns
        PROVE  bev'[fds'[f]] = f
    <3>1. f # bev[ending] /\ fds'[f] = fds[f] /\ bev[fds[f]] = f
      BY <1>1, <1>2, <2>1, ServerAssumption DEF IndInv, Owned
    <3> QED
      BY <1>1, <1>2, <2>1, <3>1
  <2>2. ASSUME NEW d \in Conns, Live(d)'
        PROVE  fds'[bev'[d]] = d
    <3>1. d # ending /\ bev'[d] = bev[d] /\ bev[d] \in Fd /\ fds[bev[d]] = d
      BY <1>1, <1>2, <2>2 DEF IndInv, Owned, Live
    <3> QED
      BY <1>1, <1>2, <3>1, ServerAssumption
  <2>3. alive' => \A f \in Fd \ SysFds : fds'[f] # "sys"
    BY <1>1, <1>2 DEF IndInv, Owned
  <2> QED
    BY <1>1, <2>1, <2>2, <2>3 DEF Owned
<1>5. Waiting'
  <2>1. \A d \in Conns : Live(d)' => d # ending /\ peer'[d] # "none"
    BY <1>1, <1>2 DEF IndInv, ServerTypeOK, Waiting, Live
  <2>2. \A i \in DOMAIN backlog :
          /\ backlog[i] \in Conns \ {ending}
          /\ bev[backlog[i]] = NoFd /\ peer[backlog[i]] # "none"
    BY <1>2 DEF IndInv, ServerTypeOK, Waiting
  <2>3. \A i \in DOMAIN backlog' : bev'[backlog'[i]] = NoFd /\ peer'[backlog'[i]] # "none"
    BY <1>1, <1>2, <2>2 DEF IndInv, ServerTypeOK
  <2> QED
    BY <1>1, <2>1, <2>3 DEF IndInv, Waiting
<1> QED
  BY <1>3, <1>4, <1>5 DEF IndInv

\* Every step keeps the invariant.
LEMMA NextInv == IndInv /\ [Next]_vars => IndInv'
<1> SUFFICES ASSUME IndInv, [Next]_vars
             PROVE  IndInv'
  OBVIOUS
<1>1. CASE UNCHANGED vars
  BY <1>1 DEF vars, IndInv, ServerTypeOK, Owned, Waiting, Live
<1>2. CASE DoAccept
  BY <1>1, <1>2, AcceptInv DEF DoAccept, AcceptFails
<1>3. CASE Freed
  BY <1>3, FreedInv
<1>4. ASSUME NEW c \in Conns,
             Connect(c) \/ Send(c) \/ HangUp(c, "fin") \/ HangUp(c, "rst")
      PROVE  IndInv'
  BY <1>4, ConnectInv, PeersInv
<1>5. ASSUME NEW c \in Conns, DoRead(c) \/ Write(c) \/ SigPipe(c) \/ Eof(c) \/ Failed(c)
      PROVE  IndInv'
  BY <1>5, ReadWriteInv, SigPipeInv, ErrorInv
<1> QED
  BY <1>1, <1>2, <1>3, <1>4, <1>5 DEF Next

\* The invariant holds in every reachable state.
THEOREM Invariance == Spec => []IndInv
<1> QED
  BY InitInv, NextInv, PTL DEF Spec

\* Every variable of the v0.1 server's model keeps its type.
THEOREM ServerTypeCorrect == Spec => []ServerTypeOK
<1>1. IndInv => ServerTypeOK
  BY DEF IndInv
<1> QED
  BY Invariance, <1>1, PTL

\* Beyond start-up's, exactly the live connections hold descriptors, each its
\* own.
THEOREM NothingLeakedHolds == Spec => []NothingLeaked
<1>1. ASSUME IndInv, alive
      PROVE  NothingLeaked
  <2>1. ASSUME NEW f \in Fd \ SysFds, fds[f] # "free"
        PROVE  \E c \in Conns : bev[c] = f /\ (c = ending => fds[f] = c)
    <3>1. fds[f] \in Conns /\ bev[fds[f]] = f
      BY <1>1, <2>1 DEF IndInv, ServerTypeOK, Owned
    <3> QED
      BY <3>1
  <2>2. ASSUME NEW f \in Fd \ SysFds, NEW c \in Conns,
               bev[c] = f, c = ending => fds[f] = c
        PROVE  fds[f] # "free"
    <3>1. NoFd \notin Fd
      BY MaxFdsAssumption DEF NoFd, Fd
    <3>2. fds[f] = c
      BY <1>1, <2>2, <3>1 DEF IndInv, Owned, Live
    <3> QED
      BY <3>2, ServerAssumption
  <2>3. \A c \in Conns : Live(c) /\ c # ending => fds[bev[c]] = c
    BY <1>1 DEF IndInv, Owned
  <2> QED
    BY <2>1, <2>2, <2>3 DEF NothingLeaked
<1>2. IndInv => NothingLeaked
  BY <1>1 DEF NothingLeaked
<1> QED
  BY Invariance, <1>2, PTL

\* Only a write to a connection that was reset ends the process.
THEOREM ServerDiesOnlyOfReset == Spec => DiesOnlyOfReset
<1>1. ASSUME Next, alive, ~alive'
      PROVE  \E c \in Conns : peer[c] = "rst" /\ out[c]
  <2>2. ~DoAccept /\ ~Freed
    BY <1>1 DEF DoAccept, Accept, AcceptFails, Freed, vars
  <2>3. \A c \in Conns :
          /\ ~Connect(c) /\ ~Send(c) /\ ~HangUp(c, "fin") /\ ~HangUp(c, "rst")
          /\ ~DoRead(c) /\ ~Write(c) /\ ~Eof(c) /\ ~Failed(c)
    BY <1>1 DEF Connect, Send, HangUp, DoRead, Read, Write, Eof, Failed
  <2>4. PICK c \in Conns : SigPipe(c)
    BY <1>1, <2>2, <2>3 DEF Next
  <2> QED
    BY <2>4 DEF SigPipe
<1>2. [Next]_vars => [alive /\ ~alive' => \E c \in Conns : peer[c] = "rst" /\ out[c]]_vars
  BY <1>1
<1> QED
  BY <1>2, PTL DEF Spec, DiesOnlyOfReset
=============================================================================
